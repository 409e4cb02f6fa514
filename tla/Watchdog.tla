------------------------------ MODULE Watchdog ------------------------------
(***************************************************************************)
(* The supervision of a processor's tasks: the gate that decides whether   *)
(* to feed the hardware watchdog (openref_watchdog_gate.c), driven by the  *)
(* FG23 with a timer it extends to 64 bits (openref_watchdog_fg23.c), and  *)
(* by the RT595's audio loop with the 32-bit timer as it is                *)
(* (openref_rt595_integrated.c).                                           *)
(*                                                                         *)
(* Time is in milliseconds; the timer wraps at Wrap.  A processor that     *)
(* works keeps each of its tasks, and the loop that feeds, within Period;  *)
(* one that hangs does so from some moment on.                             *)
(***************************************************************************)
EXTENDS Integers

CONSTANTS
  Tasks,        \* the tasks of the FG23's required_mask
  Loop,         \* the code that evaluates the gate and feeds
  Boards,       \* the values of extends considered
  Period,       \* how often a working task or loop runs
  TaskTimeout,  \* task_timeout_ms
  Grace,        \* startup_grace_ms
  HwTimeout,    \* hardware_timeout_ms
  Wrap,         \* the range of the hardware timer
  Horizon       \* bound: how long a power cycle of either board is followed

\* openref_watchdog_fg23_init refuses a hardware timeout within the grace or
\* a task timeout; the rest is what the targets' values have in common.
ASSUME WatchdogAssumption ==
  /\ Period \in Nat \ {0} /\ TaskTimeout \in Nat /\ Grace \in Nat
  /\ HwTimeout \in Nat /\ Wrap \in Nat /\ Horizon \in [BOOLEAN -> Nat]
  /\ Period <= TaskTimeout /\ Period <= Grace /\ 2 * Period < HwTimeout
  /\ TaskTimeout < HwTimeout /\ Grace < HwTimeout /\ 2 * HwTimeout < Wrap
  /\ Boards \subseteq BOOLEAN /\ Loop \notin Tasks

Actors == Tasks \cup {Loop}
Never  == -1
Clock  == "clock"  \* OPENREF_WATCHDOG_CLOCK_FAULT, a bit of the fault mask

VARIABLES
  extends,  \* TRUE on the FG23, FALSE on the RT595
  now,      \* the time since the processor started
  raw,      \* the hardware timer
  sampled,  \* the clock fields of openref_watchdog_fg23_t
  gate,     \* openref_watchdog_gate_t
  fed,      \* when the hardware watchdog was last fed
  reset,    \* TRUE once the hardware watchdog has expired
  worked,   \* history: when each task and the loop last ran
  hung      \* history: when each of them hung, or Never

vars == <<extends, now, raw, sampled, gate, fed, reset, worked, hung>>

\* No clock of the program runs ahead of the time that has passed.
Past    == 0..now
Gate    == [seen : SUBSET Actors, progress : SUBSET Actors,
            last : [Actors -> Past], evaluated : Past,
            faults : SUBSET (Actors \cup {Clock})]
Sampled == [previous : Past, extended : Past, fault : BOOLEAN]

TypeOK ==
  /\ extends \in BOOLEAN
  /\ now \in Nat /\ raw \in Past /\ raw < Wrap
  /\ sampled \in Sampled
  /\ gate \in Gate
  /\ fed \in Past
  /\ reset \in BOOLEAN
  /\ worked \in [Actors -> Past]
  /\ hung \in [Actors -> Past \cup {Never}]

\* The tasks the gate requires: the audio loop alone on the RT595.
Required == IF extends THEN Tasks ELSE {Loop}
Running  == Required \cup {Loop}

Init ==
  /\ extends \in Boards
  /\ now = 0 /\ raw = 0
  /\ sampled = [previous |-> 0, extended |-> 0, fault |-> FALSE]
  /\ gate = [seen |-> {}, progress |-> {}, last |-> [a \in Actors |-> 0],
             evaluated |-> 0, faults |-> {}]
  /\ fed = 0 /\ reset = FALSE
  /\ worked = [a \in Actors |-> 0]
  /\ hung = [a \in Actors |-> Never]

-----------------------------------------------------------------------------
(* The clock *)

Delta == IF raw < sampled.previous THEN raw + Wrap - sampled.previous
                                   ELSE raw - sampled.previous

\* clock_ms: the timer has wrapped, unless the step is better explained by a
\* clock that went back a little.
WentBack == raw < sampled.previous /\ 2 * Delta >= Wrap

\* Mistake: a clock that does not extend the timer.
Sample_Unextended == [sampled EXCEPT !.previous = raw, !.extended = raw]

Sample ==
  IF WentBack THEN [sampled EXCEPT !.fault = TRUE]
  ELSE [sampled EXCEPT !.previous = raw, !.extended = @ + Delta]

-----------------------------------------------------------------------------
(* The gate *)

\* openref_watchdog_gate_report
Reported(g, t, ms) ==
  IF t \in g.seen /\ ms < g.last[t] THEN g
  ELSE [g EXCEPT !.last[t] = ms, !.seen = @ \cup {t}, !.progress = @ \cup {t}]

\* A gate that forgets how old the last progress is.
Overdue_Missing(g, t, ms) == t \notin g.seen /\ ms > Grace

\* missing_after_grace, stale; the ages are unsigned
Overdue(g, t, ms) ==
  IF t \in g.seen THEN ms < g.last[t] \/ ms - g.last[t] > TaskTimeout
                  ELSE ms > Grace

FaultsAt(g, ms) ==
  IF ms < g.evaluated THEN {Clock} ELSE {t \in Required : Overdue(g, t, ms)}

FeedsAt(g, ms) == FaultsAt(g, ms) = {} /\ g.progress = Required

\* openref_watchdog_gate_should_feed, which says yes if FeedsAt(g, ms)
Evaluated(g, ms) ==
  LET f == FaultsAt(g, ms)
      e == IF ms < g.evaluated THEN g ELSE [g EXCEPT !.evaluated = ms]
  IN  IF f # {} THEN [e EXCEPT !.faults = f]
      ELSE IF FeedsAt(g, ms) THEN [e EXCEPT !.faults = {}, !.progress = {}]
      ELSE e

-----------------------------------------------------------------------------
(* The processor *)

Works(a) == ~reset /\ hung[a] = Never

\* openref_watchdog_fg23_report
Report(t) ==
  /\ extends /\ Works(t)
  /\ sampled' = Sample
  /\ gate' = IF Sample.fault THEN gate ELSE Reported(gate, t, Sample.extended)
  /\ worked' = [worked EXCEPT ![t] = now]
  /\ UNCHANGED <<extends, now, raw, fed, reset, hung>>

\* openref_watchdog_fg23_process
Process ==
  /\ extends /\ Works(Loop)
  /\ sampled' = Sample
  /\ gate' = IF Sample.fault THEN gate ELSE Evaluated(gate, Sample.extended)
  /\ fed' = IF ~Sample.fault /\ FeedsAt(gate, Sample.extended) THEN now ELSE fed
  /\ worked' = [worked EXCEPT ![Loop] = now]
  /\ UNCHANGED <<extends, now, raw, reset, hung>>

\* The gate after the checks the RT595's loop makes for an audio block: it
\* evaluates, reports unless a fault is recorded, and evaluates again.
Checked  == Evaluated(gate, raw)
Reports  == Checked.faults = {} /\ ~(Loop \in Checked.seen /\ raw < Checked.last[Loop])

\* An audio block of the RT595's main loop has been processed.
Frame ==
  /\ ~extends /\ Works(Loop)
  /\ LET g == Reported(Checked, Loop, raw)
     IN  /\ gate' = IF ~Reports THEN Checked ELSE Evaluated(g, raw)
         /\ fed' = IF Reports /\ FeedsAt(g, raw) THEN now ELSE fed
  /\ worked' = [worked EXCEPT ![Loop] = now]
  /\ UNCHANGED <<extends, now, raw, sampled, reset, hung>>

\* A task, or the loop, stops for good.
Hang(a) ==
  /\ Works(a)
  /\ hung' = [hung EXCEPT ![a] = now]
  /\ UNCHANGED <<extends, now, raw, sampled, gate, fed, reset, worked>>

-----------------------------------------------------------------------------
(* Time and the hardware *)

\* Whatever works is not late, and the hardware acts when it must.
Tick ==
  /\ ~reset /\ now < Horizon[extends]
  /\ \A a \in Running : Works(a) => now - worked[a] < Period
  /\ now - fed < HwTimeout
  /\ now' = now + 1
  /\ raw' = IF raw + 1 = Wrap THEN 0 ELSE raw + 1
  /\ UNCHANGED <<extends, sampled, gate, fed, reset, worked, hung>>

Expire ==
  /\ ~reset /\ now - fed >= HwTimeout
  /\ reset' = TRUE
  /\ UNCHANGED <<extends, now, raw, sampled, gate, fed, worked, hung>>

\* The watchdog has reset the processor, or its power is cycled.
Restart ==
  /\ UNCHANGED extends
  /\ now' = 0 /\ raw' = 0
  /\ sampled' = [previous |-> 0, extended |-> 0, fault |-> FALSE]
  /\ gate' = [seen |-> {}, progress |-> {}, last |-> [a \in Actors |-> 0],
              evaluated |-> 0, faults |-> {}]
  /\ fed' = 0 /\ reset' = FALSE
  /\ worked' = [a \in Actors |-> 0]
  /\ hung' = [a \in Actors |-> Never]

Next ==
  \/ \E t \in Tasks : Report(t)
  \/ Process
  \/ Frame
  \/ \E a \in Running : Hang(a)
  \/ Tick
  \/ Expire
  \/ Restart

Spec == Init /\ [][Next]_vars

-----------------------------------------------------------------------------
(* Properties *)

\* However the hang falls between reports, evaluations and feeds, and however
\* lively the other tasks are, the hardware watchdog resets the processor soon
\* after any task, or the loop itself, has hung.
HungIsReset ==
  \A a \in Running :
    hung[a] # Never /\ ~reset => now - hung[a] <= TaskTimeout + HwTimeout

\* While nothing hangs the watchdog is fed at least every two periods, through
\* every wrap of the timer, so that a working processor is never reset.
HealthyFeedInterval ==
  (\A a \in Running : hung[a] = Never) => now - fed <= 2 * Period
=============================================================================
