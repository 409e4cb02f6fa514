\* The audio loop of the RT595, on a timer that wraps within the bound.
CONSTANTS
  Tasks = {t1}
  Loop = loop
  Boards = {FALSE}
  Period = 2
  TaskTimeout = 3
  Grace = 3
  HwTimeout = 7
  Wrap = 16
  Horizon <- NextLap
SPECIFICATION Spec
INVARIANTS HealthyFeedInterval
