\* Both boards; the timer of the FG23 wraps twice, that of the RT595 not yet.
CONSTANTS
  Tasks = {t1, t2}
  Loop = loop
  Boards = {TRUE, FALSE}
  Period = 2
  TaskTimeout = 2
  Grace = 2
  HwTimeout = 5
  Wrap = 11
  Horizon <- FirstLap
SPECIFICATION Spec
INVARIANTS HungIsReset HealthyFeedInterval
