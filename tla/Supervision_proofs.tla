-------------------------- MODULE Supervision_proofs --------------------------
(***************************************************************************)
(* Theorems about what supervises a wearable: its processors' watchdogs    *)
(* (Watchdog) and the control cycle with its output gates (SafetyRuntime). *)
(*                                                                         *)
(* Watchdogs: for every set of tasks and all timeouts with the relations   *)
(* of WatchdogAssumption, on a processor that extends its timer, as the    *)
(* FG23 does, what hangs is reset in time, and what works is fed in time.  *)
(* The heart of it is that a timer sampled by a watched processor never    *)
(* moves by half its range between two samples, because the hardware would *)
(* have reset it: the extended clock is exact.                             *)
(*                                                                         *)
(* Outputs: for every configuration and every way the gates fail, what may *)
(* be open, that voice needs the radio, that latched outputs stay shut,    *)
(* and that resets of the peer are bounded.                                *)
(***************************************************************************)
EXTENDS Watchdog, SafetyRuntime, TLAPS

----------------------------------------------------------------------------
(* The watchdog of a processor that extends its timer.                     *)

\* The board is the FG23.
Extended == extends = TRUE /\ extends \in Boards

\* The timer has advanced, with at most one wrap, by what the clock has not
\* yet seen.
ClockExact ==
  /\ ~sampled.fault
  /\ sampled.previous < Wrap
  /\ fed <= sampled.extended /\ now - fed <= HwTimeout
  /\ \/ raw - sampled.previous = now - sampled.extended
     \/ raw + Wrap - sampled.previous = now - sampled.extended

\* The gate knows when each task last ran, and is never ahead of the clock.
GateExact ==
  /\ gate.evaluated <= sampled.extended
  /\ gate.progress \subseteq gate.seen /\ gate.seen \subseteq Tasks
  /\ \A t \in Tasks : IF t \in gate.seen THEN gate.last[t] = worked[t]
                                         ELSE worked[t] = 0

\* No feed came late after the last work of a task or of the loop.
FedByWork ==
  /\ \A t \in Tasks : fed <= worked[t] + TaskTimeout
  /\ fed <= worked[Loop]
  /\ \A a \in Actors : hung[a] # Never => worked[a] <= hung[a]

\* What works is not late, a task without progress has not run since the
\* last feed, and while all work the loop ran at most a period after it.
Punctual ==
  /\ \A a \in Actors : hung[a] = Never => now - worked[a] <= Period
  /\ \A t \in Tasks \ gate.progress : worked[t] <= fed
  /\ (\A a \in Actors : hung[a] = Never) => worked[Loop] <= fed + Period

Inv == TypeOK /\ Extended /\ ClockExact /\ GateExact /\ FedByWork /\ Punctual

----------------------------------------------------------------------------

\* On the FG23 every task is required.
LEMMA AllRequired == Extended => Required = Tasks /\ Running = Actors
BY DEF Extended, Required, Running, Actors

\* A sample finds exactly the time that has passed (clock_ms).
LEMMA SampleExact ==
  ASSUME TypeOK, ClockExact
  PROVE  /\ ~WentBack
         /\ Sample \in Sampled
         /\ Sample.previous = raw /\ Sample.extended = now /\ ~Sample.fault
<1>1. /\ now \in Nat /\ raw \in Nat /\ raw < Wrap /\ Wrap \in Nat
      /\ HwTimeout \in Nat /\ 2 * HwTimeout < Wrap /\ fed \in Nat
      /\ sampled.previous \in Nat /\ sampled.extended \in Nat
      /\ sampled.extended <= now
  BY WatchdogAssumption DEF TypeOK, Past, Sampled
<1>2. Delta = now - sampled.extended
  BY <1>1 DEF ClockExact, Delta
<1>3. Delta <= HwTimeout
  BY <1>1, <1>2 DEF ClockExact
<1>4. ~WentBack
  BY <1>1, <1>2, <1>3 DEF WentBack
<1>5. sampled.extended + Delta = now
  BY <1>1, <1>2
<1>6. sampled \in Sampled /\ sampled.fault = FALSE
  BY DEF TypeOK, Sampled, ClockExact
<1>7. Sample = [sampled EXCEPT !.previous = raw, !.extended = now]
  BY <1>4, <1>5 DEF Sample
<1>8. raw \in Past /\ now \in Past
  BY <1>1 DEF TypeOK, Past
<1> QED BY <1>4, <1>6, <1>7, <1>8 DEF Sampled

\* The processor starts within the invariant.
LEMMA InitInv ==
  ASSUME Init, Extended
  PROVE  Inv
<1>1. now = 0 /\ fed = 0 /\ raw = 0 /\ Past = {0} /\ Loop \in Actors /\ Tasks \subseteq Actors
  BY DEF Init, Past, Actors
<1>2. TypeOK
  <2>1. gate \in Gate
    BY <1>1 DEF Init, Gate
  <2>2. sampled \in Sampled
    BY <1>1 DEF Init, Sampled
  <2>3. worked \in [Actors -> Past] /\ hung \in [Actors -> Past \cup {Never}]
    BY <1>1 DEF Init
  <2>4. now \in Nat /\ raw \in Past /\ raw < Wrap /\ fed \in Past
    BY <1>1, WatchdogAssumption
  <2>5. reset \in BOOLEAN
    BY DEF Init
  <2> QED BY <2>1, <2>2, <2>3, <2>4, <2>5 DEF TypeOK, Extended
<1>3. ClockExact
  BY <1>1, WatchdogAssumption DEF Init, ClockExact
<1>4. GateExact
  BY <1>1 DEF Init, GateExact
<1>5. FedByWork
  BY <1>1, WatchdogAssumption DEF Init, FedByWork, Never
<1>6. Punctual
  BY <1>1, WatchdogAssumption DEF Init, Punctual
<1> QED BY <1>2, <1>3, <1>4, <1>5, <1>6 DEF Inv

\* A report of a task (openref_watchdog_fg23_report).
LEMMA ReportInv ==
  ASSUME Inv, NEW t \in Tasks, Report(t)
  PROVE  Inv'
<1>1. /\ Sample \in Sampled
      /\ Sample.previous = raw /\ Sample.extended = now /\ ~Sample.fault
  BY SampleExact DEF Inv
<1>2. /\ sampled' \in Sampled /\ UNCHANGED <<extends, now, raw, fed, reset, hung>>
      /\ sampled'.previous = raw /\ sampled'.extended = now /\ ~sampled'.fault
  BY <1>1 DEF Report
<1>3. worked' = [worked EXCEPT ![t] = now]
  BY DEF Report
<1>4. gate' = Reported(gate, t, now)
  BY <1>1 DEF Report
<1>5. /\ gate' \in Gate
      /\ gate'.evaluated = gate.evaluated
      /\ gate'.seen = gate.seen \cup {t} /\ gate'.progress = gate.progress \cup {t}
      /\ gate'.last = [gate.last EXCEPT ![t] = now]
  <2>1. /\ now \in Past /\ gate.last \in [Actors -> Past] /\ now \in Nat
        /\ \A u \in Actors : gate.last[u] \in Nat /\ gate.last[u] <= now
    BY DEF Inv, TypeOK, Past, Gate
  <2>2. ~(t \in gate.seen /\ now < gate.last[t])
    BY <2>1 DEF Actors
  <2>3. gate' = [gate EXCEPT !.last[t] = now, !.seen = @ \cup {t}, !.progress = @ \cup {t}]
    BY <1>4, <2>2 DEF Reported
  <2>4. gate \in Gate
    BY DEF Inv, TypeOK
  <2>5. /\ gate'.evaluated = gate.evaluated /\ gate'.faults = gate.faults
        /\ gate'.seen = gate.seen \cup {t} /\ gate'.progress = gate.progress \cup {t}
        /\ gate'.last = [gate.last EXCEPT ![t] = now]
    BY <2>3, <2>4 DEF Gate
  <2>6. [gate.last EXCEPT ![t] = now] \in [Actors -> Past]
    BY <2>1
  <2>7. gate' \in Gate
    BY <2>1, <2>3, <2>4, <2>6 DEF Gate, Actors
  <2> QED BY <2>5, <2>7
<1>6. t \in Actors /\ t # Loop /\ Loop \in Actors /\ Tasks \subseteq Actors
  BY WatchdogAssumption DEF Actors
<1>7. TypeOK'
  <2>1. Past' = Past
    BY <1>2 DEF Past
  <2>2. Gate' = Gate /\ Sampled' = Sampled
    BY <2>1 DEF Gate, Sampled
  <2>4. worked' \in [Actors -> Past]
    <3>1. now \in Past /\ worked \in [Actors -> Past]
      BY DEF Inv, TypeOK, Past
    <3> QED BY <1>3, <3>1
  <2> QED BY <1>2, <1>5, <2>1, <2>2, <2>4 DEF Inv, TypeOK
<1>8. ClockExact'
  BY <1>2 DEF ClockExact, Inv, TypeOK, Past, Sampled
<1>9. GateExact'
  BY <1>2, <1>3, <1>5, <1>6 DEF GateExact, Inv, TypeOK, Past, Gate, Sampled
<1>10. FedByWork'
  BY <1>2, <1>3, <1>6, WatchdogAssumption DEF FedByWork, Inv, TypeOK, Past, Report,
     Works, Never
<1>11. Punctual'
  BY <1>2, <1>3, <1>5, <1>6, WatchdogAssumption DEF Punctual, Inv, TypeOK, Past
<1> QED BY <1>2, <1>7, <1>8, <1>9, <1>10, <1>11 DEF Inv, Extended

\* An evaluation by the loop (openref_watchdog_fg23_process).
LEMMA ProcessInv ==
  ASSUME Inv, Process
  PROVE  Inv'
<1>1. /\ Sample \in Sampled
      /\ Sample.previous = raw /\ Sample.extended = now /\ ~Sample.fault
  BY SampleExact DEF Inv
<1>2. /\ sampled' \in Sampled /\ UNCHANGED <<extends, now, raw, reset, hung>>
      /\ sampled'.previous = raw /\ sampled'.extended = now /\ ~sampled'.fault
  BY <1>1 DEF Process
<1>3. worked' = [worked EXCEPT ![Loop] = now] /\ hung[Loop] = Never
  BY DEF Process, Works
<1>4. gate' = Evaluated(gate, now) /\ fed' = IF FeedsAt(gate, now) THEN now ELSE fed
  BY <1>1 DEF Process
<1>5. /\ Loop \notin Tasks /\ Loop \in Actors /\ Tasks \subseteq Actors
      /\ Period \in Nat /\ TaskTimeout \in Nat /\ Grace \in Nat /\ HwTimeout \in Nat
      /\ Wrap \in Nat /\ Period <= TaskTimeout /\ Period <= Grace
  BY WatchdogAssumption DEF Actors
<1>6. /\ now \in Nat /\ raw \in Nat /\ raw < Wrap /\ fed \in Nat /\ fed <= now
      /\ now \in Past /\ gate \in Gate
      /\ \A a \in Actors : worked[a] \in Nat /\ worked[a] <= now
      /\ worked \in [Actors -> Past]
  BY DEF Inv, TypeOK, Past
<1>7. /\ gate.evaluated \in Nat /\ gate.evaluated <= now
      /\ gate.progress \subseteq gate.seen /\ gate.seen \subseteq Tasks
      /\ \A t \in Tasks : gate.last[t] \in Nat
  BY <1>5, <1>6 DEF Inv, TypeOK, GateExact, Gate, Past, Sampled
<1>8. FaultsAt(gate, now) = {t \in Tasks : Overdue(gate, t, now)}
  BY <1>6, <1>7, AllRequired DEF FaultsAt, Inv
<1>9. /\ gate' \in Gate
      /\ gate'.evaluated = now /\ gate'.seen = gate.seen /\ gate'.last = gate.last
      /\ gate'.progress = IF FeedsAt(gate, now) THEN {} ELSE gate.progress
  <2> DEFINE f == FaultsAt(gate, now)
             e == [gate EXCEPT !.evaluated = now]
  <2>1. f \subseteq Actors
    BY <1>5, <1>8
  <2>2. e \in Gate /\ e.evaluated = now /\ e.seen = gate.seen
        /\ e.last = gate.last /\ e.progress = gate.progress
    BY <1>6 DEF Gate
  <2>3. gate' = IF f # {} THEN [e EXCEPT !.faults = f]
                ELSE IF FeedsAt(gate, now) THEN [e EXCEPT !.faults = {}, !.progress = {}]
                ELSE e
    <3>1. ~(now < gate.evaluated)
      BY <1>6, <1>7
    <3> QED BY <1>4, <3>1, Zenon DEF Evaluated
  <2> HIDE DEF e
  <2>4. CASE f # {}
    <3>1. gate' = [e EXCEPT !.faults = f] /\ ~FeedsAt(gate, now)
      BY <2>3, <2>4 DEF FeedsAt
    <3> QED BY <3>1, <2>1, <2>2 DEF Gate
  <2>5. CASE f = {} /\ FeedsAt(gate, now)
    <3>1. gate' = [e EXCEPT !.faults = {}, !.progress = {}]
      BY <2>3, <2>5
    <3> QED BY <3>1, <2>2, <2>5 DEF Gate
  <2>6. CASE f = {} /\ ~FeedsAt(gate, now)
    BY <2>2, <2>3, <2>6
  <2> QED BY <2>4, <2>5, <2>6
<1>10. TypeOK'
  <2>1. Past' = Past /\ Gate' = Gate /\ Sampled' = Sampled
    BY <1>2 DEF Past, Gate, Sampled
  <2>2. worked' \in [Actors -> Past] /\ fed' \in Past
    BY <1>3, <1>4, <1>6 DEF Inv, TypeOK
  <2> QED BY <1>2, <1>9, <2>1, <2>2 DEF Inv, TypeOK
<1>11. ClockExact'
  BY <1>2, <1>4, <1>5, <1>6 DEF ClockExact, Inv
<1>12. GateExact'
  BY <1>2, <1>3, <1>5, <1>6, <1>7, <1>9 DEF GateExact, Inv, FeedsAt
<1>13. \A t \in Tasks : FeedsAt(gate, now) => now <= worked[t] + TaskTimeout
  <2> SUFFICES ASSUME NEW t \in Tasks, FeedsAt(gate, now)
               PROVE  now <= worked[t] + TaskTimeout
    OBVIOUS
  <2>1. t \in gate.seen /\ ~Overdue(gate, t, now)
    BY <1>7, <1>8, AllRequired DEF FeedsAt, Inv
  <2> QED BY <2>1, <1>5, <1>6, <1>7 DEF Overdue, Inv, GateExact
<1>14. FedByWork'
  BY <1>2, <1>3, <1>4, <1>5, <1>6, <1>13 DEF FedByWork, Inv
<1>15. ASSUME \A a \in Actors : hung[a] = Never, ~FeedsAt(gate, now)
       PROVE  now <= fed + Period
  <2>1. ASSUME NEW t \in Tasks
        PROVE  ~Overdue(gate, t, now)
    <3>1. t \in Actors /\ now - worked[t] <= Period /\ worked[t] \in Nat /\ worked[t] <= now
      BY <1>5, <1>6, <1>15 DEF Inv, Punctual
    <3>2. IF t \in gate.seen THEN gate.last[t] = worked[t] ELSE worked[t] = 0
      BY DEF Inv, GateExact
    <3> QED BY <3>1, <3>2, <1>5, <1>6 DEF Overdue
  <2>2. PICK t \in Tasks : t \notin gate.progress
    BY <2>1, <1>7, <1>8, <1>15, AllRequired DEF FeedsAt, Inv, GateExact
  <2>3. worked[t] <= fed /\ now - worked[t] <= Period
    BY <2>2, <1>5, <1>15 DEF Inv, Punctual
  <2> QED BY <2>3, <1>5, <1>6
<1>16. Punctual'
  <2>1. \A a \in Actors : hung'[a] = Never => now' - worked'[a] <= Period
    BY <1>2, <1>3, <1>5, <1>6 DEF Inv, Punctual
  <2>2. \A t \in Tasks \ gate'.progress : worked'[t] <= fed'
    BY <1>3, <1>4, <1>5, <1>6, <1>9 DEF Inv, Punctual
  <2>3. (\A a \in Actors : hung'[a] = Never) => worked'[Loop] <= fed' + Period
    BY <1>2, <1>3, <1>4, <1>5, <1>6, <1>15
  <2> QED BY <2>1, <2>2, <2>3 DEF Punctual
<1> QED BY <1>2, <1>10, <1>11, <1>12, <1>14, <1>16 DEF Inv, Extended

\* A task or the loop hangs.
LEMMA HangInv ==
  ASSUME Inv, NEW a \in Actors, Hang(a)
  PROVE  Inv'
<1>1. /\ UNCHANGED <<extends, now, raw, sampled, gate, fed, reset, worked>>
      /\ hung' = [hung EXCEPT ![a] = now] /\ hung[a] = Never
  BY DEF Hang, Works
<1>2. now \in Past /\ now # Never /\ worked[a] <= now
  BY DEF Inv, TypeOK, Past, Never
<1>3. TypeOK'
  <2>1. Past' = Past /\ Gate' = Gate /\ Sampled' = Sampled
    BY <1>1 DEF Past, Gate, Sampled
  <2>2. hung' \in [Actors -> Past \cup {Never}]
    BY <1>1, <1>2 DEF Inv, TypeOK
  <2> QED BY <1>1, <2>1, <2>2 DEF Inv, TypeOK
<1>4. ClockExact' /\ GateExact'
  BY <1>1 DEF Inv, ClockExact, GateExact
<1>5. \A b \in Actors : hung'[b] = Never => hung[b] = Never /\ b # a
  BY <1>1, <1>2 DEF Inv, TypeOK
<1>6. FedByWork'
  BY <1>1, <1>2, <1>5 DEF Inv, FedByWork, TypeOK
<1>7. Punctual'
  BY <1>1, <1>5 DEF Inv, Punctual
<1> QED BY <1>1, <1>3, <1>4, <1>6, <1>7 DEF Inv, Extended

\* Time passes.
LEMMA TickInv ==
  ASSUME Inv, Tick
  PROVE  Inv'
<1>1. /\ UNCHANGED <<extends, sampled, gate, fed, reset, worked, hung>>
      /\ now' = now + 1 /\ raw' = IF raw + 1 = Wrap THEN 0 ELSE raw + 1
      /\ now - fed < HwTimeout
      /\ \A a \in Actors : hung[a] = Never => now - worked[a] < Period
  BY AllRequired DEF Tick, Works, Inv
<1>2. /\ now \in Nat /\ raw \in Nat /\ raw < Wrap /\ raw <= now /\ fed \in Nat
      /\ Wrap \in Nat /\ HwTimeout \in Nat /\ Period \in Nat /\ 2 * HwTimeout < Wrap
      /\ sampled.previous \in Nat /\ sampled.extended \in Nat
      /\ \A a \in Actors : worked[a] \in Nat
  BY WatchdogAssumption DEF Inv, TypeOK, Past, Sampled
<1>3. Past \subseteq Past'
  BY <1>1, <1>2 DEF Past
<1>4. TypeOK'
  <2>1. gate \in Gate' /\ sampled \in Sampled'
    BY <1>3 DEF Inv, TypeOK, Gate, Sampled
  <2>2. worked \in [Actors -> Past'] /\ hung \in [Actors -> Past' \cup {Never}]
    BY <1>3 DEF Inv, TypeOK
  <2>3. raw' \in Past' /\ raw' < Wrap /\ now' \in Nat /\ fed \in Past'
    BY <1>1, <1>2, <1>3 DEF Inv, TypeOK, Past
  <2> QED BY <1>1, <2>1, <2>2, <2>3 DEF Inv, TypeOK
<1>5. ClockExact'
  BY <1>1, <1>2 DEF Inv, ClockExact
<1>6. GateExact' /\ FedByWork'
  BY <1>1 DEF Inv, GateExact, FedByWork
<1>7. Punctual'
  BY <1>1, <1>2 DEF Inv, Punctual
<1> QED BY <1>1, <1>4, <1>5, <1>6, <1>7 DEF Inv, Extended

\* The hardware watchdog expires, and the processor starts again.
LEMMA ResetInv ==
  ASSUME Inv, Expire \/ Restart
  PROVE  Inv'
<1>1. CASE Expire
  <2>1. reset' = TRUE /\ UNCHANGED <<extends, now, raw, sampled, gate, fed, worked, hung>>
    BY <1>1 DEF Expire
  <2>2. TypeOK'
    <3>1. Past' = Past /\ Gate' = Gate /\ Sampled' = Sampled
      BY <2>1 DEF Past, Gate, Sampled
    <3> QED BY <2>1, <3>1 DEF Inv, TypeOK
  <2> QED BY <2>1, <2>2 DEF Extended, Inv, ClockExact, GateExact, FedByWork, Punctual
<1>2. CASE Restart
  <2>1. Init' /\ Extended'
    BY <1>2, WatchdogAssumption DEF Restart, Init, Inv, Extended
  <2>2. Init' /\ Extended' => Inv'
    BY InitInv, PTL
  <2> QED BY <2>1, <2>2
<1> QED BY <1>1, <1>2

\* Every step of a processor that extends its timer keeps the invariant.
LEMMA NextInv ==
  ASSUME Inv, [Next]_vars
  PROVE  Inv'
<1>1. CASE UNCHANGED vars
  <2>1. Past' = Past /\ Gate' = Gate /\ Sampled' = Sampled
    BY <1>1 DEF vars, Past, Gate, Sampled
  <2> QED BY <1>1, <2>1 DEF vars, Extended, Inv, TypeOK, ClockExact, GateExact,
     FedByWork, Punctual
<1>2. CASE \E t \in Tasks : Report(t)
  BY <1>2, ReportInv
<1>3. CASE Process
  BY <1>3, ProcessInv
<1>4. CASE Frame
  BY <1>4 DEF Frame, Inv, Extended
<1>5. CASE \E a \in Running : Hang(a)
  BY <1>5, HangInv, AllRequired DEF Inv
<1>6. CASE Tick
  BY <1>6, TickInv
<1>7. CASE Expire \/ Restart
  BY <1>7, ResetInv
<1> QED BY <1>1, <1>2, <1>3, <1>4, <1>5, <1>6, <1>7 DEF Next

\* The invariant bounds the time a hang lasts and the time between feeds.
LEMMA InvBounds ==
  ASSUME Inv
  PROVE  HungIsReset /\ HealthyFeedInterval
<1>1. /\ now \in Nat /\ fed \in Nat /\ HwTimeout \in Nat /\ TaskTimeout \in Nat
      /\ Period \in Nat /\ now - fed <= HwTimeout
      /\ \A a \in Actors : worked[a] \in Nat /\ (hung[a] # Never => hung[a] \in Nat)
  BY WatchdogAssumption DEF Inv, TypeOK, ClockExact, Past, Never
<1>2. HungIsReset
  <2> SUFFICES ASSUME NEW a \in Actors, hung[a] # Never
               PROVE  now - hung[a] <= TaskTimeout + HwTimeout
    BY AllRequired DEF HungIsReset, Inv
  <2>1. worked[a] <= hung[a]
    BY DEF Inv, FedByWork
  <2>2. fed <= worked[a] + TaskTimeout
    <3>1. CASE a \in Tasks
      BY <3>1 DEF Inv, FedByWork
    <3>2. CASE a = Loop
      BY <3>2, <1>1 DEF Inv, FedByWork
    <3> QED BY <3>1, <3>2 DEF Actors
  <2> QED BY <1>1, <2>1, <2>2
<1>3. HealthyFeedInterval
  <2> SUFFICES ASSUME \A a \in Actors : hung[a] = Never
               PROVE  now - fed <= 2 * Period
    BY AllRequired DEF HealthyFeedInterval, Inv
  <2>1. Loop \in Actors
    BY DEF Actors
  <2>2. now - worked[Loop] <= Period /\ worked[Loop] <= fed + Period
    BY <2>1 DEF Inv, Punctual
  <2> QED BY <1>1, <2>1, <2>2
<1> QED BY <1>2, <1>3

----------------------------------------------------------------------------

\* On a processor that extends its timer the clock, the gate and the hardware
\* watchdog keep their types, and no clock of the program runs ahead of time.
THEOREM Typing ==
  ASSUME Boards = {TRUE}
  PROVE  Spec => []TypeOK
<1>1. Inv => TypeOK
  BY DEF Inv
<1>2. Init => Extended
  BY DEF Init, Extended
<1> QED BY <1>1, <1>2, InitInv, NextInv, PTL DEF Spec

\* A processor that extends its timer is reset within TaskTimeout + HwTimeout
\* of a hang of any task or of the loop (openref_watchdog_gate_should_feed
\* feeds on fresh progress only, and consumes it).
THEOREM HangsAreReset ==
  ASSUME Boards = {TRUE}
  PROVE  Spec => []HungIsReset
<1>1. Init => Extended
  BY DEF Init, Extended
<1> QED BY <1>1, InitInv, NextInv, InvBounds, PTL DEF Spec

\* While nothing hangs, a processor that extends its timer is fed every two
\* periods, however often the timer wraps (clock_ms of openref_watchdog_fg23.c).
THEOREM WorkIsFed ==
  ASSUME Boards = {TRUE}
  PROVE  Spec => []HealthyFeedInterval
<1>1. Init => Extended
  BY DEF Init, Extended
<1> QED BY <1>1, InitInv, NextInv, InvBounds, PTL DEF Spec
----------------------------------------------------------------------------
(* The control cycle and its outputs.                                      *)

\* The types the arguments need.
Types ==
  /\ driver \in [phase : {"idle", "apply", "force"}, applied : SUBSET Outputs,
                 close : SUBSET Outputs, open : SUBSET Outputs]
  /\ output \subseteq Outputs /\ gates \subseteq Outputs /\ stuck \subseteq Outputs
  /\ faulted \in BOOLEAN

\* Between cycles no command is left, and force_safe opens nothing.
Phases ==
  /\ driver.phase = "idle" => /\ driver.close = {} /\ driver.open = {}
                              /\ driver.applied = output
  /\ driver.phase = "force" => driver.open = {}

\* What is open is permitted, still to be closed, or stuck.
NothingElseIsOpen ==
  gates \subseteq stuck \cup driver.close \cup
                    (IF driver.phase = "force" THEN {} ELSE output)

\* The arbiter never permits voice without the radio.
VoicePermitsRadio == "voice" \in output => "radio" \in output

\* How far a cycle has come: what it keeps is open, what it opens is shut, voice
\* closes before the radio and opens after it.
Progress ==
  driver.phase # "force" =>
    /\ output \ driver.open \subseteq gates
    /\ driver.open \subseteq output
    /\ driver.close \cap output = {}
    /\ driver.open \cap gates \subseteq stuck
    /\ "voice" \in driver.close => "radio" \in gates
    /\ "radio" \in driver.open => "voice" \in driver.open \/ "voice" \notin output

GatesInv ==
  /\ Types /\ Phases /\ NothingElseIsOpen /\ VoicePermitsRadio /\ Progress
  /\ VoiceNeedsRadio

\* A latch leaves nothing to open.
LatchInv ==
  /\ faulted \in BOOLEAN
  /\ driver.phase = "force" => driver.open = {}
  /\ driver.phase = "idle" => driver.open = {}
  /\ faulted \/ power.state = "shutdown" => driver.open = {}

\* The supervisor's attempts are the resets since the last heartbeat.
ResetsInv ==
  /\ peer.attempts \in 0..MaxAttempts
  /\ peer.state \in PeerState
  /\ peer \in [state : PeerState, age : Int, attempts : Int]
  /\ peer.state = "healthy" => resets = 0
  /\ peer.state \in {"reset_asserted", "boot_wait"} => resets = peer.attempts
  /\ peer.state \in {"power_cycle_wait", "failed"} => resets = peer.attempts + 1

----------------------------------------------------------------------------
(* The order of the commands.                                              *)

\* Voice closes first, and the radio opens first.
LEMMA Order ==
  ASSUME NEW set \in SUBSET Outputs, set # {}
  PROVE  /\ NextToClose(set) \in set
         /\ "voice" \in set => NextToClose(set) = "voice"
         /\ NextToOpen(set) \in set
         /\ "radio" \in set => NextToOpen(set) = "radio"
<1>1. Rank["voice"] = 1 /\ Rank["playback"] = 2 /\ Rank["radio"] = 3
  BY DEF Rank, Outputs
<1>2. \A g \in set : g = "voice" \/ g = "playback" \/ g = "radio"
  BY DEF Outputs
<1>3. \E g \in set : \A h \in set : Rank[g] <= Rank[h]
  <2>1. CASE "voice" \in set
    BY <1>1, <1>2, <2>1
  <2>2. CASE "voice" \notin set /\ "playback" \in set
    BY <1>1, <1>2, <2>2
  <2>3. CASE "voice" \notin set /\ "playback" \notin set
    <3>1. "radio" \in set /\ \A h \in set : h = "radio"
      BY <1>2, <2>3
    <3> QED BY <1>1, <3>1
  <2> QED BY <2>1, <2>2, <2>3
<1>4. \E g \in set : \A h \in set : Rank[g] >= Rank[h]
  <2>1. CASE "radio" \in set
    BY <1>1, <1>2, <2>1
  <2>2. CASE "radio" \notin set /\ "playback" \in set
    BY <1>1, <1>2, <2>2
  <2>3. CASE "radio" \notin set /\ "playback" \notin set
    <3>1. "voice" \in set /\ \A h \in set : h = "voice"
      BY <1>2, <2>3
    <3> QED BY <1>1, <3>1
  <2> QED BY <2>1, <2>2, <2>3
<1>5. /\ NextToClose(set) \in set
      /\ \A h \in set : Rank[NextToClose(set)] <= Rank[h]
  BY <1>3 DEF NextToClose
<1>6. /\ NextToOpen(set) \in set
      /\ \A h \in set : Rank[NextToOpen(set)] >= Rank[h]
  BY <1>4 DEF NextToOpen
<1>7. "voice" \in set => NextToClose(set) = "voice"
  BY <1>1, <1>2, <1>5
<1>8. "radio" \in set => NextToOpen(set) = "radio"
  BY <1>1, <1>2, <1>6
<1> QED BY <1>5, <1>6, <1>7, <1>8

\* What force_safe is given to do.
LEMMA ForcedFields ==
  ASSUME Types
  PROVE  /\ Forced \in [phase : {"idle", "apply", "force"}, applied : SUBSET Outputs,
                        close : SUBSET Outputs, open : SUBSET Outputs]
         /\ Forced.phase = "force" /\ Forced.close = Outputs
         /\ Forced.open = {}
<1>1. driver \in [phase : {"idle", "apply", "force"}, applied : SUBSET Outputs,
                  close : SUBSET Outputs, open : SUBSET Outputs]
  BY DEF Types
<1>2. Outputs \in SUBSET Outputs /\ {} \in SUBSET Outputs
  OBVIOUS
<1> QED BY <1>1, <1>2 DEF Forced

----------------------------------------------------------------------------
(* What is open.                                                           *)

\* Nothing is open at first.
LEMMA InitGates == RuntimeInit => GatesInv
<1> SUFFICES ASSUME RuntimeInit PROVE GatesInv
  OBVIOUS
<1>1. /\ driver.phase = "idle" /\ driver.applied = {} /\ driver.close = {} /\ driver.open = {}
      /\ output = {} /\ gates = {} /\ stuck = {} /\ faulted = FALSE
  BY DEF RuntimeInit, Idle
<1>2. Types
  BY DEF RuntimeInit, Idle, Types
<1> QED BY <1>1, <1>2 DEF GatesInv, Phases, NothingElseIsOpen, VoicePermitsRadio,
   Progress,
                          VoiceNeedsRadio

\* The steps of the peer, and stuttering, do not touch outputs.
LEMMA PeerGates ==
  ASSUME GatesInv, UNCHANGED <<driver, output, gates, stuck, faulted>>
  PROVE  GatesInv'
<1>1. Types' /\ Phases'
  BY DEF GatesInv, Types, Phases
<1>2. NothingElseIsOpen' /\ VoicePermitsRadio'
  BY DEF GatesInv, NothingElseIsOpen, VoicePermitsRadio
<1>3. Progress' /\ VoiceNeedsRadio'
  BY DEF GatesInv, Progress, VoiceNeedsRadio
<1> QED BY <1>1, <1>2, <1>3 DEF GatesInv

\* A cycle decides what to close and what to open.
LEMMA CycleGates ==
  ASSUME GatesInv, ACycle
  PROVE  GatesInv'
<1>1. \E elapsed \in 1..MaxDelay : \E p, good : \E allowed \in Allowed :
        Cycle(elapsed, p, good, allowed)
  BY DEF ACycle
<1>2. PICK p, s, q : \E allowed \in Allowed :
        output' = Arbitrate(p, s, q, SystemFault, allowed)
  BY <1>1 DEF Cycle
<1>3. output' \subseteq Outputs
  BY <1>2 DEF Arbitrate, Allowed, Outputs
<1>4. "voice" \in output' => "radio" \in output'
  BY <1>2 DEF Arbitrate, Allowed
<1>5. /\ driver.phase = "idle" /\ UNCHANGED <<faulted, gates, stuck>>
      /\ driver' = [driver EXCEPT !.phase = "apply", !.close = driver.applied \ output',
                                  !.open = output' \ driver.applied]
  BY <1>1 DEF Cycle
<1>6. driver.applied = output /\ driver.close = {} /\ driver.open = {}
  BY <1>5 DEF GatesInv, Phases
<1>7. /\ driver'.phase = "apply" /\ driver'.close = output \ output'
      /\ driver'.open = output' \ output
  BY <1>5, <1>6 DEF GatesInv, Types
<1>8. Types'
  BY <1>3, <1>5 DEF GatesInv, Types
<1>9. /\ output \subseteq gates /\ gates \subseteq output \cup stuck
      /\ "voice" \in output => "radio" \in output
  BY <1>5, <1>6 DEF GatesInv, Progress, NothingElseIsOpen, VoicePermitsRadio
<1>10. Phases' /\ NothingElseIsOpen' /\ VoicePermitsRadio'
  BY <1>4, <1>5, <1>7, <1>9 DEF Phases, NothingElseIsOpen, VoicePermitsRadio
<1>11. Progress'
  BY <1>4, <1>5, <1>7, <1>9 DEF Progress
<1>12. VoiceNeedsRadio'
  BY <1>5 DEF GatesInv, VoiceNeedsRadio
<1> QED BY <1>8, <1>10, <1>11, <1>12 DEF GatesInv

\* A command to close.
LEMMA CloseGates ==
  ASSUME GatesInv, Close
  PROVE  GatesInv'
<1> DEFINE g == NextToClose(driver.close)
<1> USE DEF GatesInv
<1>1. driver.close # {} /\ driver.close \subseteq Outputs
  BY DEF Close, Types
<1>2. g \in driver.close /\ g \in Outputs /\ ("voice" \in driver.close => g = "voice")
  BY <1>1, Order
<1>3. UNCHANGED <<output, faulted>> /\ VoicePermitsRadio' /\ driver.phase # "idle"
  BY <1>1 DEF Close, VoicePermitsRadio, Phases
<1>4. /\ gates' \subseteq gates /\ gates \subseteq gates' \cup {g}
      /\ stuck' \subseteq stuck \cup {g} /\ stuck \ {g} \subseteq stuck'
      /\ g \in gates' => g \in stuck'
  BY <1>2 DEF Close
<1> HIDE DEF g
<1>5. CASE driver' = [driver EXCEPT !.close = @ \ {g}]
  <2>1. /\ driver'.close = driver.close \ {g} /\ driver'.phase = driver.phase
        /\ driver'.open = driver.open /\ driver'.applied = driver.applied
    BY <1>5 DEF Types
  <2>2. Types'
    BY <1>2, <1>3, <1>4, <1>5 DEF Types
  <2>3. Phases' /\ NothingElseIsOpen'
    BY <1>3, <1>4, <2>1 DEF Phases, NothingElseIsOpen
  <2>4. Progress'
    <3>1. SUFFICES ASSUME driver.phase # "force" PROVE Progress'
      BY <2>1 DEF Progress
    <3>2. g \notin output /\ g \notin driver.open
      BY <1>2, <3>1 DEF Progress
    <3>3. "voice" \notin driver'.close
      BY <1>2, <2>1
    <3> QED BY <1>3, <1>4, <2>1, <3>1, <3>2, <3>3 DEF Progress
  <2>5. VoiceNeedsRadio'
    <3>1. CASE g = "voice"
      BY <1>4, <3>1 DEF VoiceNeedsRadio
    <3>2. CASE g # "voice"
      <4>1. SUFFICES ASSUME "voice" \in gates', "voice" \notin stuck' PROVE "radio" \in gates'
        BY DEF VoiceNeedsRadio
      <4>2. "voice" \in gates /\ "voice" \notin stuck /\ "voice" \notin driver.close
        BY <1>2, <1>4, <3>2, <4>1
      <4>3. driver.phase # "force" /\ "voice" \in output
        BY <4>2 DEF NothingElseIsOpen
      <4>4. "voice" \notin driver.open /\ "radio" \in output
        BY <4>2, <4>3 DEF Progress, VoicePermitsRadio
      <4>5. "radio" \in gates /\ g # "radio"
        BY <1>2, <4>3, <4>4 DEF Progress
      <4> QED BY <1>4, <4>5
    <3> QED BY <3>1, <3>2
  <2> QED BY <1>3, <2>2, <2>3, <2>4, <2>5
<1>6. CASE driver' = Forced /\ driver.phase = "apply"
  <2>1. Types'
    BY <1>2, <1>3, <1>4, <1>6, ForcedFields DEF Types
  <2>2. Phases' /\ NothingElseIsOpen' /\ Progress'
    BY <1>6, <2>1, ForcedFields DEF Phases, NothingElseIsOpen, Progress, Types
  <2>3. VoiceNeedsRadio'
    <3>1. CASE g = "voice"
      BY <1>4, <3>1 DEF VoiceNeedsRadio
    <3>2. CASE g # "voice"
      <4>1. SUFFICES ASSUME "voice" \in gates', "voice" \notin stuck' PROVE "radio" \in gates'
        BY DEF VoiceNeedsRadio
      <4>2. "voice" \in gates /\ "voice" \notin stuck /\ "voice" \notin driver.close
        BY <1>2, <1>4, <3>2, <4>1
      <4>3. "voice" \in output
        BY <4>2, <1>6 DEF NothingElseIsOpen
      <4>4. "voice" \notin driver.open /\ "radio" \in output
        BY <1>6, <4>2, <4>3 DEF Progress, VoicePermitsRadio
      <4>5. "radio" \in gates /\ g # "radio"
        BY <1>2, <1>6, <4>3, <4>4 DEF Progress
      <4> QED BY <1>4, <4>5
    <3> QED BY <3>1, <3>2
  <2> QED BY <1>3, <2>1, <2>2, <2>3
<1> QED BY <1>5, <1>6 DEF Close, g

\* A command to open.
LEMMA OpenGates ==
  ASSUME GatesInv, Open
  PROVE  GatesInv'
<1> DEFINE g == NextToOpen(driver.open)
<1> USE DEF GatesInv
<1>1. driver.close = {} /\ driver.open # {} /\ driver.open \subseteq Outputs
  BY DEF Open, Types
<1>2. g \in driver.open /\ g \in Outputs /\ ("radio" \in driver.open => g = "radio")
  BY <1>1, Order
<1>3. UNCHANGED <<output, faulted, stuck>> /\ VoicePermitsRadio' /\ driver.phase = "apply"
  BY <1>1 DEF Open, VoicePermitsRadio, Phases, Types
<1>4. gates' \in {gates, gates \cup {g}}
  BY DEF Open
<1> HIDE DEF g
<1>5. g \in output
  BY <1>2, <1>3 DEF Progress
<1>6. VoiceNeedsRadio'
  <2>1. SUFFICES ASSUME "voice" \in gates', "voice" \notin stuck PROVE "radio" \in gates'
    BY <1>3 DEF VoiceNeedsRadio
  <2>2. CASE "voice" \in gates
    BY <1>4, <2>1, <2>2 DEF VoiceNeedsRadio
  <2>3. CASE "voice" \notin gates
    <3>1. g = "voice"
      BY <1>4, <2>1, <2>3
    <3>2. "radio" \in output /\ "radio" \notin driver.open
      BY <1>2, <1>5, <3>1 DEF VoicePermitsRadio
    <3> QED BY <1>3, <1>4, <3>2 DEF Progress
  <2> QED BY <2>2, <2>3
<1>7. CASE gates' = gates \cup {g} /\ driver' = [driver EXCEPT !.open = @ \ {g}]
  <2>1. /\ driver'.open = driver.open \ {g} /\ driver'.phase = driver.phase
        /\ driver'.close = {} /\ driver'.applied = driver.applied
    BY <1>1, <1>7 DEF Types
  <2>2. Types'
    BY <1>2, <1>3, <1>4, <1>7 DEF Types
  <2>3. Phases' /\ NothingElseIsOpen'
    BY <1>1, <1>3, <1>5, <1>7, <2>1 DEF Phases, NothingElseIsOpen
  <2>4. "radio" \notin driver'.open
    BY <1>2, <2>1
  <2>5. Progress'
    BY <1>1, <1>3, <1>7, <2>1, <2>4 DEF Progress
  <2> QED BY <1>3, <1>6, <2>2, <2>3, <2>5
<1>8. CASE driver' = Forced
  <2>1. Types'
    BY <1>2, <1>3, <1>4, <1>8, ForcedFields DEF Types
  <2>2. Phases' /\ NothingElseIsOpen' /\ Progress'
    BY <1>8, <2>1, ForcedFields DEF Phases, NothingElseIsOpen, Progress, Types
  <2> QED BY <1>3, <1>6, <2>1, <2>2
<1> QED BY <1>7, <1>8 DEF Open, g

\* The end of an application, and of a forced one.
LEMMA ApplyGates ==
  ASSUME GatesInv, Apply
  PROVE  GatesInv'
<1> USE DEF GatesInv
<1>1. driver.close = {} /\ driver.open = {} /\ driver.phase # "idle" /\ UNCHANGED <<gates, stuck>>
  BY DEF Apply
<1>2. /\ driver'.phase = "idle" /\ driver'.close = {} /\ driver'.open = {}
      /\ output' = driver'.applied
      /\ output' = IF driver.phase = "apply" THEN output ELSE {}
  BY <1>1 DEF Apply, Types
<1>3. Types'
  <2>1. driver' \in [phase : {"idle", "apply", "force"}, applied : SUBSET Outputs,
                     close : SUBSET Outputs, open : SUBSET Outputs]
    BY DEF Apply, Types
  <2>2. output' \subseteq Outputs /\ faulted' \in BOOLEAN
    BY <1>2 DEF Apply, Types
  <2> QED BY <1>1, <2>1, <2>2 DEF Types
<1>4. driver.phase \in {"apply", "force"}
  BY <1>1 DEF Types
<1>5. Phases' /\ NothingElseIsOpen' /\ VoicePermitsRadio'
  BY <1>1, <1>2, <1>4 DEF Phases, NothingElseIsOpen, VoicePermitsRadio
<1>6. Progress' /\ VoiceNeedsRadio'
  BY <1>1, <1>2, <1>4 DEF Progress, VoiceNeedsRadio
<1> QED BY <1>3, <1>5, <1>6

\* Every step keeps the invariant of the gates.
LEMMA StepGates == GatesInv /\ [RuntimeNext]_runtimeVars => GatesInv'
<1> SUFFICES ASSUME GatesInv, [RuntimeNext]_runtimeVars PROVE GatesInv'
  OBVIOUS
<1>1. CASE Reboot
  BY <1>1 DEF Reboot, Idle, GatesInv, Types, Phases, NothingElseIsOpen,
     VoicePermitsRadio, Progress, VoiceNeedsRadio
<1>2. CASE \/ Heartbeat \/ Boots \/ Beats \/ Hangs
             \/ UNCHANGED runtimeVars
  BY <1>2, PeerGates DEF Heartbeat, Boots, Beats, Hangs, runtimeVars
<1> QED BY <1>1, <1>2, CycleGates, CloseGates, OpenGates, ApplyGates DEF RuntimeNext

\* Voice never has a way out without the radio's permission, and after a cycle only what
\* the arbiter permits is open, unless an output failed to close.
THEOREM VoiceBehindRadio ==
  RuntimeSpec => [](VoiceNeedsRadio /\ OnlyPermittedIsOpen)
<1>1. GatesInv => VoiceNeedsRadio /\ OnlyPermittedIsOpen
  BY DEF GatesInv, Phases, NothingElseIsOpen, OnlyPermittedIsOpen
<1> QED BY <1>1, InitGates, StepGates, PTL DEF RuntimeSpec

----------------------------------------------------------------------------
(* Latches.                                                                *)

\* The latch starts with nothing to open, and every step keeps it so.
LEMMA LatchHolds ==
  /\ RuntimeInit => LatchInv
  /\ GatesInv /\ LatchInv /\ [RuntimeNext]_runtimeVars => LatchInv'
<1>1. RuntimeInit => LatchInv
  <2> SUFFICES ASSUME RuntimeInit PROVE LatchInv
    OBVIOUS
  <2>1. faulted = FALSE /\ driver.open = {} /\ power.state = "disconnected"
    BY DEF RuntimeInit, Idle
  <2> QED BY <2>1 DEF LatchInv
<1>2. ASSUME GatesInv, LatchInv, [RuntimeNext]_runtimeVars PROVE LatchInv'
  <2> USE <1>2 DEF LatchInv, GatesInv, Types
  <2>1. CASE ACycle
    <3>1. PICK elapsed, p, good, allowed : Cycle(elapsed, p, good, allowed)
      BY <2>1 DEF ACycle
    <3>2. PICK s, q : output' = Arbitrate(p, s, q, SystemFault, allowed)
      BY <3>1 DEF Cycle
    <3>3. power' = p /\ faulted' = faulted /\ driver'.phase = "apply"
          /\ driver'.open = output' \ driver.applied
      BY <3>1 DEF Cycle
    <3>4. faulted \/ p.state = "shutdown" => output' = {}
      BY <3>2 DEF Arbitrate, SystemFault, PowerSafe
    <3> QED BY <3>3, <3>4
  <2>2. CASE Close
    BY <2>2, ForcedFields DEF Close
  <2>3. CASE Open
    BY <2>3, ForcedFields DEF Open
  <2>4. CASE Apply
    BY <2>4 DEF Apply
  <2>5. CASE Reboot
    BY <2>5 DEF Reboot, Idle
  <2>6. CASE \/ Heartbeat \/ Boots \/ Beats \/ Hangs
             \/ UNCHANGED runtimeVars
    BY <2>6 DEF Heartbeat, Boots, Beats, Hangs, runtimeVars
  <2> QED BY <2>1, <2>2, <2>3, <2>4, <2>5, <2>6 DEF RuntimeNext
<1> QED BY <1>1, <1>2

\* A latched actuation fault or power shutdown lets no command open an output.
THEOREM LatchKeepsShut == RuntimeSpec => LatchedStaysShut
<1>1. GatesInv /\ LatchInv /\ [RuntimeNext]_runtimeVars =>
        [(driver.phase = "force" /\ driver'.phase = "force") \/ (faulted /\ faulted')
          \/ (power.state = "shutdown" /\ power'.state = "shutdown")
           => gates' \subseteq gates]_runtimeVars
  <2> SUFFICES ASSUME LatchInv, RuntimeNext,
                      driver.phase = "force" \/ faulted \/ power.state = "shutdown"
               PROVE  gates' \subseteq gates
    OBVIOUS
  <2>1. driver.open = {}
    BY DEF LatchInv
  <2>2. ~Open
    BY <2>1 DEF Open
  <2>3. ACycle => gates' = gates
    BY DEF ACycle, Cycle
  <2>4. Close => gates' \subseteq gates
    BY DEF Close
  <2>5. Reboot => gates' = {}
    BY DEF Reboot
  <2>6. Apply \/ Heartbeat \/ Boots \/ Beats \/ Hangs =>
        gates' = gates
    BY DEF Apply, Heartbeat, Boots, Beats, Hangs
  <2> QED BY <2>2, <2>3, <2>4, <2>5, <2>6 DEF RuntimeNext
<1> QED BY <1>1, InitGates, StepGates, LatchHolds, PTL DEF RuntimeSpec, LatchedStaysShut

----------------------------------------------------------------------------
(* Resets of the peer.                                                     *)

\* A tick counts one more attempt when it asserts the reset.
LEMMA ResetsCount ==
  /\ RuntimeInit => ResetsInv
  /\ ResetsInv /\ [RuntimeNext]_runtimeVars => ResetsInv'
<1>0. MaxAttempts \in Nat \ {0} /\ MaxDelay \in Nat \ {0}
  BY SafetyAssumption DEF SafetyAssumption
<1>1. RuntimeInit => ResetsInv
  BY <1>0 DEF RuntimeInit, ResetsInv, PeerState
<1>2. ASSUME ResetsInv, [RuntimeNext]_runtimeVars PROVE ResetsInv'
  <2> USE <1>0, <1>2 DEF ResetsInv, PeerState
  <2>1. CASE ACycle
    <3>1. PICK elapsed \in 1..MaxDelay : \E p, good, allowed : Cycle(elapsed, p, good, allowed)
      BY <2>1 DEF ACycle
    <3>2. /\ peer' = PeerTick(peer, elapsed)
          /\ resets' = IF peer'.state \in {"reset_asserted", "power_cycle_wait"} \ {peer.state}
                         THEN resets + 1 ELSE resets
      BY <3>1 DEF Cycle
    <3>3. elapsed \in Int /\ peer.age + elapsed \in Int
      OBVIOUS
    <3>4. CASE peer.state = "healthy"
      BY <3>2, <3>3, <3>4 DEF PeerTick, PeerEnters
    <3>5. CASE peer.state = "reset_asserted"
      BY <3>2, <3>3, <3>5 DEF PeerTick, PeerEnters
    <3>6. CASE peer.state = "boot_wait"
      BY <3>2, <3>3, <3>6 DEF PeerTick, PeerEnters, Retries
    <3>7. CASE peer.state = "power_cycle_wait"
      BY <3>2, <3>3, <3>7 DEF PeerTick, PeerEnters
    <3>8. CASE peer.state = "failed"
      BY <3>2, <3>3, <3>8 DEF PeerTick, PeerEnters
    <3> QED BY <3>4, <3>5, <3>6, <3>7, <3>8
  <2>2. CASE Heartbeat
    BY <2>2 DEF Heartbeat, PeerEnters
  <2>3. CASE Reboot
    BY <2>3 DEF Reboot
  <2>4. CASE \/ Close \/ Open \/ Apply \/ Boots \/ Beats
             \/ Hangs
             \/ UNCHANGED runtimeVars
    BY <2>4 DEF Close, Open, Apply, Boots, Beats, Hangs,
       runtimeVars
  <2> QED BY <2>1, <2>2, <2>3, <2>4 DEF RuntimeNext
<1> QED BY <1>1, <1>2

\* A peer that stays silent is reset MaxAttempts times and power-cycled once.
THEOREM BoundedResets == RuntimeSpec => []ResetsAreBounded
<1>1. ResetsInv => ResetsAreBounded
  BY SafetyAssumption DEF SafetyAssumption, ResetsInv, ResetsAreBounded, PeerState
<1> QED BY <1>1, ResetsCount, PTL DEF RuntimeSpec
=============================================================================
