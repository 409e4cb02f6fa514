---------------------------- MODULE Storage_proofs ----------------------------
(***************************************************************************)
(* Theorems about what survives a reset: the images a processor boots      *)
(* (BootChain) and the records its stores keep (ConfigStore).              *)
(*                                                                         *)
(* Images: the boot chain never rolls back, and without updates during a   *)
(* trial it always keeps a proven image to fall back to, for every number  *)
(* of versions, attempts, chunks and sessions.                             *)
(*                                                                         *)
(* Records: for every set of payloads and every generation width, a store  *)
(* whose client is strict, or whose medium never fails a read transiently, *)
(* loses no record whose save returned true; and a store whose reads do    *)
(* not fail implements the durable register.                               *)
(***************************************************************************)
EXTENDS BootChain, ConfigStore, TLAPS

----------------------------------------------------------------------------
(* The boot chain.                                                         *)

\* No record a start may find goes below what was confirmed.
FloorInForce == record.minimum >= floor /\ ram.minimum >= floor

\* What the bootstrap has authenticated is in flash, under the record it loaded.
SeenIsIntact ==
  mode \in {"boot", "restage", "reselect"} =>
    /\ record = ram
    /\ \A s \in Slot : seen[s] # Blank => seen[s] = image[s]

\* The application runs an image at or above the floor and does not overwrite it.
AppIntact ==
  mode = "app" => image[running] >= ram.minimum /\ delivery.target # running

\* The confirmed image of a record is there to fall back to.
KeepsProven(r) == image[r.confirmed] >= r.minimum /\ image[r.confirmed] \in proven

\* Updates reach the application only when it runs the confirmed image.
Settled ==
  mode = "app" =>
    /\ running \in {ram.confirmed, ram.pending}
    /\ ram.pending # running => record.confirmed = ram.confirmed
    /\ delivery.target # NoSlot => ram.pending # running

ForwardInv == TypeOK /\ FloorInForce /\ SeenIsIntact /\ AppIntact

RecoveryInv == ForwardInv /\ KeepsProven(record) /\ KeepsProven(ram) /\ Settled

----------------------------------------------------------------------------

\* The records an action may write are records.
LEMMA StateTypes ==
  ASSUME BootAssumption, TypeOK
  PROVE  /\ Cleared \in State
         /\ CanTry => Counted \in State
         /\ \A s \in Slot : Staged(s) \in State
         /\ Confirming \in State
         /\ Highest(floor, image[running]) \in Version
         /\ Highest(floor, record.minimum) \in Version
<1>1. /\ ram \in State /\ record.minimum \in Version /\ floor \in Version
      /\ ram.minimum \in Version /\ ram.attempts \in 0..MaxAttempts
      /\ running \in Slot /\ image[running] \in Version \cup {Blank}
  BY DEF TypeOK, State
<1>2. 0 \in 0..MaxAttempts /\ NoSlot \in Slot \cup {NoSlot}
  BY DEF BootAssumption
<1>3. /\ Highest(ram.minimum, image[running]) \in Version
      /\ Highest(floor, image[running]) \in Version
      /\ Highest(floor, record.minimum) \in Version
  BY <1>1 DEF Highest, Version, Blank, BootAssumption
<1>4. Cleared \in State
  BY <1>1, <1>2 DEF Cleared, State
<1>5. CanTry => Counted \in State
  <2>1. CanTry => ram.attempts + 1 \in 0..MaxAttempts
    BY <1>1 DEF CanTry, BootAssumption
  <2> QED
    BY <1>1, <2>1 DEF Counted, State
<1>6. \A s \in Slot : Staged(s) \in State
  BY <1>1, <1>2 DEF Staged, State
<1>7. Confirming \in State
  BY <1>1, <1>2, <1>3 DEF Confirming, State
<1> QED
  BY <1>3, <1>4, <1>5, <1>6, <1>7

\* The history of trials has room for one more than it should ever count.
LEMMA TriesTypes ==
  ASSUME BootAssumption
  PROVE  /\ MaxTries \in Nat
         /\ \A t \in 0..MaxTries : (IF t < MaxTries THEN t + 1 ELSE t) \in 0..MaxTries
<1>1. \A a, b \in Nat : a * b \in Nat
  OBVIOUS
<1>2. MaxAttempts \in Nat /\ 1 + MaxBadReads \in Nat
  BY DEF BootAssumption
<1>3. MaxTries \in Nat
  BY <1>1, <1>2 DEF MaxTries
<1> QED
  BY <1>3

\* A start sees a slot as it is or not at all.
LEMMA SeenTypes ==
  ASSUME BootAssumption, TypeOK, PowerOn
  PROVE  /\ seen' \in [Slot -> Version \cup {Blank}]
         /\ badReads' \in 0..MaxBadReads
         /\ \A s \in Slot : seen'[s] # Blank => seen'[s] = image[s]
<1>1. Authenticated(record) \in [Slot -> Version \cup {Blank}]
  BY DEF Authenticated, TypeOK
<1>2. \A s \in Slot : Authenticated(record)[s] # Blank => Authenticated(record)[s] = image[s]
  BY DEF Authenticated
<1>3. badReads' \in 0..MaxBadReads
  BY DEF PowerOn, TypeOK, BootAssumption
<1>4. CASE seen' = Authenticated(record)
  BY <1>1, <1>2, <1>3, <1>4
<1>5. CASE seen' \in PartlyRead(record)
  <2>1. /\ seen' \in [Slot -> Version \cup {Blank}]
        /\ \A s \in Slot : seen'[s] \in {Authenticated(record)[s], Blank}
    BY <1>5 DEF PartlyRead
  <2> QED
    BY <2>1, <1>2, <1>3
<1> QED
  BY <1>4, <1>5 DEF PowerOn

\* Every step of the boot chain keeps its variables in their types.
LEMMA StepTypeOK ==
  ASSUME BootAssumption, ForwardInv, [Next]_vars
  PROVE  TypeOK'
<1> USE StateTypes DEF ForwardInv, TypeOK, flash, app, hist
<1>1. 0 \in 0..Soak /\ 0 \in 0..MaxSession /\ 0 \in 0..MaxTries /\ 0 \in 0..Chunks
  BY TriesTypes DEF BootAssumption
<1>2. Idle \in [target : Slot \cup {NoSlot}, version : Version \cup {Blank}, chunk : 0..Chunks]
  BY <1>1 DEF Idle
<1>3. \A s \in Slot : Other(s) \in Slot
  BY DEF Slot, Other
<1>4. ram.confirmed \in Slot /\ ram.pending \in Slot \cup {NoSlot}
  BY DEF State
<1>5. CASE PowerOn
  BY <1>5, SeenTypes DEF PowerOn
<1>6. CASE PowerOnFails
  BY <1>6, <1>1, <1>2, <1>3, <1>4 DEF PowerOnFails
<1>7. CASE Reset
  BY <1>7, <1>1, <1>2, <1>3, <1>4 DEF Reset
<1>8. CASE Trial
  BY <1>8, <1>1, <1>2, <1>3, <1>4, TriesTypes DEF Trial, Saves, Handoff, CanTry
<1>9. CASE TrialNotCounted
  BY <1>9, <1>1, <1>2, <1>3, <1>4 DEF TrialNotCounted, SaveFails, Stop
<1>10. CASE Latch
  BY <1>10, <1>1, <1>2, <1>3, <1>4 DEF Latch, Stop
<1>11. CASE Confirmed
  BY <1>11, <1>1, <1>2, <1>3, <1>4, TriesTypes DEF Confirmed, Choose, Handoff, Stop
<1>12. CASE Fallback
  BY <1>12, <1>1, <1>2, <1>3, <1>4, TriesTypes DEF Fallback, Saves, Choose, Handoff,
     Stop
<1>13. CASE FallbackNotSaved
  BY <1>13, <1>1, <1>2, <1>3, <1>4 DEF FallbackNotSaved, SaveFails, Stop
<1>14. CASE Restage
  BY <1>14, <1>1, <1>2, <1>3, <1>4 DEF Restage, Saves
<1>15. CASE RestageFails
  BY <1>15, <1>1, <1>2, <1>3, <1>4 DEF RestageFails, SaveFails, Stop
<1>16. CASE Observe
  BY <1>16, <1>1, <1>2, <1>3, <1>4 DEF Observe
<1>17. CASE Fault
  BY <1>17, <1>1, <1>2, <1>3, <1>4 DEF Fault
<1>18. CASE Confirm
  <2>1. image[running] \in Version
    BY <1>18 DEF Confirm, AppIntact, State, Version, Blank, BootAssumption
  <2> QED
    BY <1>18, <1>1, <2>1 DEF Confirm, Saves, SaveFails
<1>19. CASE \E session \in 1..MaxSession, s \in Slot, v \in Version : Begin(session, s, v)
  BY <1>19, <1>1, <1>2 DEF Begin, BootAssumption
<1>20. CASE \E session \in 1..MaxSession, s \in Slot, v \in Version : BeginFails(session, s, v)
  BY <1>20, <1>1, <1>2 DEF BeginFails, BootAssumption
<1>21. CASE Chunk
  BY <1>21, <1>1, <1>2, <1>3, <1>4 DEF Chunk, Delivering
<1>22. CASE Abort
  BY <1>22, <1>1, <1>2, <1>3, <1>4 DEF Abort
<1>23. CASE FinishFails
  BY <1>23, <1>1, <1>2, <1>3, <1>4 DEF FinishFails, Delivering
<1>24. CASE Finish
  BY <1>24, <1>1, <1>2, <1>3, <1>4 DEF Finish, Delivering, Saves, SaveFails
<1>25. CASE UNCHANGED vars
  BY <1>25 DEF vars
<1> QED
  BY <1>5, <1>6, <1>7, <1>8, <1>9, <1>10, <1>11, <1>12, <1>13, <1>14, <1>15, <1>16,
     <1>17, <1>18, <1>19, <1>20, <1>21, <1>22, <1>23, <1>24, <1>25 DEF Next

\* What the records an action may write leave as it was.
LEMMA StateFields ==
  ASSUME TypeOK
  PROVE  /\ Cleared.minimum = ram.minimum /\ Cleared.confirmed = ram.confirmed
         /\ Cleared.pending = NoSlot
         /\ Counted.minimum = ram.minimum /\ Counted.confirmed = ram.confirmed
         /\ Counted.pending = ram.pending
         /\ \A s \in Slot : /\ Staged(s).minimum = ram.minimum
                            /\ Staged(s).confirmed = ram.confirmed
                            /\ Staged(s).pending = s
         /\ Confirming.minimum = Highest(ram.minimum, image[running])
         /\ Confirming.confirmed = running /\ Confirming.pending = NoSlot
<1>1. ram \in State
  BY DEF TypeOK
<1> QED
  BY <1>1 DEF State, Cleared, Counted, Staged, Confirming

\* Control goes to an intact image at or above the floor.
LEMMA HandoffIntact ==
  ASSUME TypeOK, SeenIsIntact, mode \in {"boot", "restage", "reselect"},
         NEW s \in Slot, Eligible(s), Handoff(s), ram'.minimum = ram.minimum
  PROVE  AppIntact' /\ SeenIsIntact'
<1>1. image' = image /\ running' = s /\ delivery' = Idle /\ mode' \in {"app", "stopped"}
  BY DEF Handoff
<1>2. image[s] >= ram.minimum
  BY DEF Eligible, SeenIsIntact
<1>3. Idle.target # s
  BY DEF Idle, Slot, NoSlot
<1> QED
  BY <1>1, <1>2, <1>3 DEF AppIntact, SeenIsIntact

\* No step of the boot chain gives control to an older image or erases the running one.
LEMMA StepForward ==
  ASSUME BootAssumption, ForwardInv, [Next]_vars
  PROVE  FloorInForce' /\ SeenIsIntact' /\ AppIntact'
<1>1. /\ running \in Slot /\ ram \in State /\ record \in State /\ floor \in Int
      /\ image \in [Slot -> Int] /\ seen \in [Slot -> Int]
      /\ ram.confirmed \in Slot /\ ram.minimum \in Int /\ record.minimum \in Int
      /\ ram.pending \in Slot \cup {NoSlot}
  BY DEF ForwardInv, TypeOK, State, Version, Blank, BootAssumption
<1>2. running # NoSlot
  BY <1>1 DEF Slot, NoSlot
<1>3. \A a, b \in Int : Highest(a, b) >= a /\ Highest(a, b) >= b /\ Highest(a, b) \in {a, b}
  BY DEF Highest
<1> USE DEF ForwardInv, FloorInForce, SeenIsIntact, AppIntact, flash, app, hist
<1>4. CASE PowerOn
  <2>1. record' = record /\ ram' = record /\ image' = image /\ mode' = "boot"
    BY <1>4 DEF PowerOn
  <2>2. \A s \in Slot : seen'[s] # Blank => seen'[s] = image[s]
    BY <1>4, SeenTypes
  <2>3. floor' \in {floor, record.minimum} /\ record.minimum >= floor'
    BY <1>4, <1>1 DEF PowerOn, Highest
  <2> QED
    BY <2>1, <2>2, <2>3
<1>5. CASE PowerOnFails
  BY <1>5, <1>1, <1>2, <1>3 DEF PowerOnFails, State, TypeOK
<1>6. CASE Reset
  BY <1>6, <1>1, <1>2, <1>3 DEF Reset, State, TypeOK
<1>7. CASE Trial
  <2>1. record' = Counted /\ ram' = Counted /\ Handoff(ram.pending) /\ floor' = floor
    BY <1>7 DEF Trial, Saves, Handoff
  <2>2. ram.pending \in Slot /\ Eligible(ram.pending) /\ mode \in {"boot", "restage", "reselect"}
    BY <1>7, <1>1 DEF Trial, CanTry
  <2>3. ram'.minimum = ram.minimum
    BY <2>1, StateFields
  <2> QED
    BY <2>1, <2>2, <2>3, HandoffIntact
<1>8. CASE TrialNotCounted
  BY <1>8, <1>1, <1>2, <1>3 DEF TrialNotCounted, SaveFails, Stop, Counted, State, TypeOK
<1>9. CASE Latch
  BY <1>9, <1>1, <1>2, <1>3 DEF Latch, Stop, State, TypeOK
<1>10. CASE Confirmed
  <2>1. record' = record /\ ram' = ram /\ Choose /\ floor' = floor /\ mode = "boot"
    BY <1>10 DEF Confirmed, Choose, Handoff, Stop
  <2>2. CASE Handoff(ram.confirmed) /\ Eligible(ram.confirmed)
    BY <2>1, <2>2, <1>1, HandoffIntact
  <2> QED
    BY <2>1, <2>2 DEF Choose, Stop
<1>11. CASE Fallback
  <2>1. record' = Cleared /\ ram' = Cleared /\ Choose /\ floor' = floor /\ mode = "boot"
    BY <1>11 DEF Fallback, Saves, Choose, Handoff, Stop
  <2>2. ram'.minimum = ram.minimum /\ record'.minimum = ram.minimum
    BY <2>1, StateFields
  <2>3. CASE Handoff(ram.confirmed) /\ Eligible(ram.confirmed)
    BY <2>1, <2>2, <2>3, <1>1, HandoffIntact
  <2> QED
    BY <2>1, <2>2, <2>3 DEF Choose, Stop
<1>12. CASE FallbackNotSaved
  BY <1>12, <1>1, <1>2, <1>3 DEF FallbackNotSaved, SaveFails, Stop, Cleared, State,
     TypeOK
<1>13. CASE Restage
  BY <1>13, <1>1, <1>2, <1>3 DEF Restage, Saves, Staged, State, TypeOK
<1>14. CASE RestageFails
  BY <1>14, <1>1, <1>2, <1>3 DEF RestageFails, SaveFails, Stop, Staged, State, TypeOK
<1>15. CASE Observe
  BY <1>15, <1>1, <1>2, <1>3 DEF Observe, State, TypeOK
<1>16. CASE Fault
  BY <1>16, <1>1, <1>2, <1>3 DEF Fault, State, TypeOK
<1>17. CASE Confirm
  <2>1. /\ image' = image /\ running' = running /\ mode' = mode /\ delivery' = delivery
        /\ mode = "app" /\ image[running] >= ram.minimum
    BY <1>17 DEF Confirm
  <2>2. Confirming.minimum = image[running]
    BY <2>1, <1>1, StateFields DEF Highest
  <2>3. CASE Saves(Confirming) /\ floor' = Highest(floor, image[running])
    <3>1. Highest(floor, image[running]) = image[running]
      BY <2>1, <1>1 DEF Highest
    <3> QED
      BY <2>1, <2>2, <2>3, <3>1, <1>1 DEF Saves
  <2>4. CASE SaveFails(Confirming) /\ floor' = floor
    BY <2>1, <2>2, <2>4, <1>1 DEF SaveFails
  <2> QED
    BY <1>17, <2>3, <2>4 DEF Confirm
<1>18. CASE \E session \in 1..MaxSession, s \in Slot, v \in Version : Begin(session, s, v)
  BY <1>18, <1>1 DEF Begin, MayBegin, TypeOK
<1>19. CASE \E session \in 1..MaxSession, s \in Slot, v \in Version : BeginFails(session, s, v)
  BY <1>19, <1>1 DEF BeginFails, MayBegin, TypeOK
<1>20. CASE Chunk
  BY <1>20, <1>1, <1>2, <1>3 DEF Chunk, Delivering, State, TypeOK
<1>21. CASE Abort
  BY <1>21, <1>1, <1>2, <1>3 DEF Abort, Delivering, Idle, State, TypeOK
<1>22. CASE FinishFails
  BY <1>22, <1>1, <1>2, <1>3 DEF FinishFails, Delivering, Idle, State, TypeOK
<1>23. CASE Finish
  BY <1>23, <1>1, <1>2, <1>3 DEF Finish, Delivering, Saves, SaveFails, Staged, Idle,
     State, TypeOK
<1>24. CASE UNCHANGED vars
  BY <1>24 DEF vars
<1> QED
  BY <1>4, <1>5, <1>6, <1>7, <1>8, <1>9, <1>10, <1>11, <1>12, <1>13, <1>14, <1>15,
     <1>16, <1>17, <1>18, <1>19, <1>20, <1>21, <1>22, <1>23, <1>24 DEF Next

\* The chain starts with the factory image, confirmed.
LEMMA InitForward ==
  ASSUME BootAssumption, Init
  PROVE  ForwardInv
<1>1. 1 \in Version /\ {1} \subseteq Version /\ 0 \in 0..MaxAttempts /\ 0 \in 0..Soak
      /\ 0 \in 0..MaxSession /\ 0 \in 0..Chunks /\ 0 \in 0..MaxTries /\ 0 \in 0..MaxBadReads
  BY TriesTypes DEF Version, BootAssumption
<1>2. Factory \in State /\ Factory.minimum = 1
  BY <1>1 DEF Factory, State, Slot
<1>3. Idle \in [target : Slot \cup {NoSlot}, version : Version \cup {Blank}, chunk : 0..Chunks]
  BY <1>1 DEF Idle
<1>4. TypeOK
  BY <1>1, <1>2, <1>3 DEF Init, TypeOK, Slot
<1> QED
  BY <1>2, <1>4 DEF Init, ForwardInv, FloorInForce, SeenIsIntact, AppIntact

\* openref_boot_policy_confirm's floor holds through every reset, failed save, lost read
\* and update: no image older than a confirmed one gets control, and the image that has
\* it is never erased.
THEOREM NeverRollsBack == Spec => [](TypeOK /\ NoRollback)
<1>1. Init => ForwardInv
  BY InitForward, BootAssumption
<1>2. ForwardInv /\ [Next]_vars => ForwardInv'
  BY StepTypeOK, StepForward, BootAssumption DEF ForwardInv
<1>3. ForwardInv => TypeOK /\ NoRollback
  <2> SUFFICES ASSUME ForwardInv, mode = "app"
               PROVE  image[running] >= floor
    BY DEF ForwardInv, NoRollback
  <2>1. image[running] \in Int /\ ram.minimum \in Int /\ floor \in Int
    BY DEF ForwardInv, TypeOK, State, Version, Blank
  <2> QED
    BY <2>1 DEF ForwardInv, FloorInForce, AppIntact
<1> QED
  BY <1>1, <1>2, <1>3, PTL DEF Spec

\* Without updates during a trial, no step takes away the proven image to fall back to.
LEMMA StepRecovery ==
  ASSUME BootAssumption, ~TrialUpdates, RecoveryInv, [Next]_vars
  PROVE  KeepsProven(record)' /\ KeepsProven(ram)' /\ Settled'
<1>1. /\ running \in Slot /\ running # NoSlot
      /\ image \in [Slot -> Int] /\ floor \in Int
      /\ ram.confirmed \in Slot /\ ram.minimum \in Int
      /\ record.confirmed \in Slot /\ record.minimum \in Int
      /\ ram.pending \in Slot \cup {NoSlot}
  BY DEF RecoveryInv, ForwardInv, TypeOK, State, Version, Blank, BootAssumption, Slot,
     NoSlot
<1>2. /\ Cleared.minimum = ram.minimum /\ Cleared.confirmed = ram.confirmed
      /\ Counted.minimum = ram.minimum /\ Counted.confirmed = ram.confirmed
      /\ Counted.pending = ram.pending /\ Cleared.pending = NoSlot
      /\ \A s \in Slot : /\ Staged(s).minimum = ram.minimum /\ Staged(s).pending = s
                         /\ Staged(s).confirmed = ram.confirmed
      /\ Confirming.minimum = Highest(ram.minimum, image[running])
      /\ Confirming.confirmed = running /\ Confirming.pending = NoSlot
  BY StateFields DEF RecoveryInv, ForwardInv
<1>3. Other(ram.confirmed) \in Slot /\ Idle.target = NoSlot
  BY <1>1 DEF Slot, Other, Idle
<1> USE DEF RecoveryInv, Settled, KeepsProven, flash, app, hist
<1>4. CASE PowerOn
  BY <1>4, <1>1, <1>2, <1>3 DEF PowerOn
<1>5. CASE PowerOnFails
  BY <1>5, <1>1, <1>2, <1>3 DEF PowerOnFails
<1>6. CASE Reset
  BY <1>6, <1>1, <1>2, <1>3 DEF Reset
<1>7. CASE Trial
  BY <1>7, <1>1, <1>2, <1>3 DEF Trial, Saves, Handoff, CanTry, Idle
<1>8. CASE TrialNotCounted
  BY <1>8, <1>1, <1>2, <1>3 DEF TrialNotCounted, SaveFails, Stop
<1>9. CASE Latch
  BY <1>9, <1>1, <1>2, <1>3 DEF Latch, Stop
<1>10. CASE Confirmed
  BY <1>10, <1>1, <1>2, <1>3 DEF Confirmed, Choose, Handoff, Stop, Idle, ForwardInv,
     SeenIsIntact
<1>11. CASE Fallback
  BY <1>11, <1>1, <1>2, <1>3 DEF Fallback, Saves, Choose, Handoff, Stop, Idle
<1>12. CASE FallbackNotSaved
  BY <1>12, <1>1, <1>2, <1>3 DEF FallbackNotSaved, SaveFails, Stop
<1>13. CASE Restage
  BY <1>13, <1>1, <1>2, <1>3 DEF Restage, Saves
<1>14. CASE RestageFails
  BY <1>14, <1>1, <1>2, <1>3 DEF RestageFails, SaveFails, Stop
<1>15. CASE Observe
  BY <1>15, <1>1, <1>2, <1>3 DEF Observe
<1>16. CASE Fault
  BY <1>16, <1>1, <1>2, <1>3 DEF Fault
<1>17. CASE Confirm
  <2>1. /\ image' = image /\ running' = running /\ mode' = mode /\ delivery' = delivery
        /\ mode = "app" /\ image[running] >= ram.minimum /\ ram.pending = running
        /\ proven' = proven \cup {image[running]}
    BY <1>17 DEF Confirm, OnTrial, ForwardInv, AppIntact
  <2>2. Confirming.minimum = image[running] /\ image[running] >= image[running]
    BY <2>1, <1>1, <1>2 DEF Highest
  <2>3. CASE record' = Confirming /\ ram' = Confirming
    <3>1. record'.confirmed = running /\ record'.minimum = image[running]
      BY <2>2, <2>3, <1>2
    <3>2. ram'.confirmed = running /\ ram'.minimum = image[running] /\ ram'.pending = NoSlot
      BY <2>2, <2>3, <1>2
    <3> HIDE DEF Settled
    <3>3. KeepsProven(record)' /\ KeepsProven(ram)'
      BY <2>1, <2>2, <3>1, <3>2
    <3>4. delivery.target = NoSlot
      BY <2>1 DEF Settled
    <3> QED
      BY <2>1, <3>1, <3>2, <3>3, <3>4, <1>1 DEF Settled
  <2>4. CASE record' \in {ram, record, Confirming} /\ ram' = ram
    <3>1. KeepsProven(ram)'
      BY <2>1, <2>4
    <3>2. CASE record' = Confirming
      <4>1. record'.confirmed = running /\ record'.minimum = image[running]
        BY <2>2, <3>2, <1>2
      <4>2. KeepsProven(record)'
        BY <2>1, <2>2, <4>1
      <4> QED
        BY <2>1, <2>4, <3>1, <4>2
    <3> QED
      BY <2>1, <2>4, <3>1, <3>2
  <2> QED
    BY <1>17, <2>3, <2>4 DEF Confirm, Saves, SaveFails
<1>18. CASE \E session \in 1..MaxSession, s \in Slot, v \in Version : Begin(session, s, v)
  <2> SUFFICES ASSUME NEW session \in 1..MaxSession, NEW s \in Slot, NEW v \in Version,
                      Begin(session, s, v)
               PROVE  KeepsProven(record)' /\ KeepsProven(ram)' /\ Settled'
    BY <1>18
  <2>1. s # running /\ ram.pending # running /\ mode = "app" /\ mode' = mode
    BY DEF Begin, MayBegin
  <2>2. s # ram.confirmed /\ s # record.confirmed
    BY <2>1
  <2> QED
    BY <2>1, <2>2, <1>1 DEF Begin
<1>19. CASE \E session \in 1..MaxSession, s \in Slot, v \in Version : BeginFails(session, s, v)
  <2> SUFFICES ASSUME NEW session \in 1..MaxSession, NEW s \in Slot, NEW v \in Version,
                      BeginFails(session, s, v)
               PROVE  KeepsProven(record)' /\ KeepsProven(ram)' /\ Settled'
    BY <1>19
  <2>1. s # running /\ ram.pending # running /\ mode = "app" /\ mode' = mode
    BY DEF BeginFails, MayBegin
  <2>2. s # ram.confirmed /\ s # record.confirmed
    BY <2>1
  <2> QED
    BY <2>1, <2>2, <1>1 DEF BeginFails
<1>20. CASE Chunk
  BY <1>20, <1>1, <1>2, <1>3 DEF Chunk, Delivering
<1>21. CASE Abort
  BY <1>21, <1>1, <1>2, <1>3 DEF Abort, Delivering, Idle
<1>22. CASE FinishFails
  <2>1. /\ mode = "app" /\ mode' = mode /\ running' = running /\ proven' = proven
        /\ delivery.target \in Slot /\ delivery.target # running /\ delivery' = Idle
        /\ ram.pending # running /\ running = ram.confirmed /\ record.confirmed = ram.confirmed
    BY <1>22 DEF FinishFails, Delivering, ForwardInv, AppIntact, TypeOK
  <2>2. image'[ram.confirmed] = image[ram.confirmed]
    BY <1>22, <2>1, <1>1 DEF FinishFails
  <2> QED
    BY <1>22, <2>1, <2>2, <1>3 DEF FinishFails
<1>23. CASE Finish
  <2>1. /\ mode = "app" /\ mode' = mode /\ running' = running /\ proven' = proven
        /\ delivery.target \in Slot /\ delivery.target # running /\ delivery' = Idle
        /\ ram.pending # running /\ running = ram.confirmed /\ record.confirmed = ram.confirmed
    BY <1>23 DEF Finish, Delivering, ForwardInv, AppIntact, TypeOK
  <2>2. image'[ram.confirmed] = image[ram.confirmed]
    BY <1>23, <2>1, <1>1 DEF Finish
  <2>3. CASE UNCHANGED <<record, ram>>
    BY <2>1, <2>2, <2>3, <1>3
  <2>4. CASE Saves(Staged(delivery.target))
    BY <2>1, <2>2, <2>4, <1>2, <1>3 DEF Saves
  <2>5. CASE SaveFails(Staged(delivery.target))
    BY <2>1, <2>2, <2>5, <1>2, <1>3 DEF SaveFails
  <2> QED
    BY <1>23, <2>3, <2>4, <2>5 DEF Finish
<1>24. CASE UNCHANGED vars
  BY <1>24 DEF vars
<1> QED
  BY <1>4, <1>5, <1>6, <1>7, <1>8, <1>9, <1>10, <1>11, <1>12, <1>13, <1>14, <1>15,
     <1>16, <1>17, <1>18, <1>19, <1>20, <1>21, <1>22, <1>23, <1>24 DEF Next

\* The factory image is confirmed and proven.
LEMMA InitRecovery ==
  ASSUME BootAssumption, Init
  PROVE  RecoveryInv
<1>1. ForwardInv
  BY InitForward
<1> QED
  BY <1>1 DEF Init, RecoveryInv, KeepsProven, Settled, Factory, Slot

\* Without updates during a trial every state keeps a proven image to fall back to.
LEMMA StaysRecoverable ==
  ASSUME ~TrialUpdates
  PROVE  Spec => []RecoveryInv
<1>1. Init => RecoveryInv
  BY InitRecovery, BootAssumption
<1>2. RecoveryInv /\ [Next]_vars => RecoveryInv'
  BY StepTypeOK, StepForward, StepRecovery, BootAssumption DEF RecoveryInv, ForwardInv
<1> QED
  BY <1>1, <1>2, PTL DEF Spec

\* As long as no update arrives during a trial, resets, failed saves, lost reads, failed
\* soaks and aborted updates leave a bootable confirmed image.
THEOREM AlwaysRecoverable ==
  ASSUME ~TrialUpdates
  PROVE  Spec => []ConfirmedBootable
<1>1. RecoveryInv => ConfirmedBootable
  BY DEF RecoveryInv, KeepsProven, ConfirmedBootable
<1> QED
  BY <1>1, StaysRecoverable, PTL

\* Whatever fails and whenever the power goes, what runs outside a trial has passed the
\* soak of openref_rt595_app_confirmation, as long as no update arrives during a trial.
THEOREM RunsOnlyProvenImages ==
  ASSUME ~TrialUpdates
  PROVE  Spec => []OnlyProvenImagesRun
<1>1. RecoveryInv => OnlyProvenImagesRun
  BY DEF RecoveryInv, KeepsProven, Settled, OnlyProvenImagesRun
<1> QED
  BY <1>1, StaysRecoverable, PTL

----------------------------------------------------------------------------
(* The trials of an image.                                                 *)

\* Handoffs that starts with an unread slot may have added.
Spent == MaxAttempts * badReads

\* A record has counted the handoffs of its pending image, but for those of before.
Tallied(r) == r.pending # NoSlot => tries[r.pending] <= Spent + r.attempts

\* The confirmed image is staged over only by a start that failed to read it, and
\* that start has not been made use of yet.
UnreadIsUnspent ==
  mode = "restage" \/ (mode = "boot" /\ ~Eligible(ram.confirmed)) =>
    \A s \in Slot : tries[s] <= Spent

\* The image that is being delivered has never been given control.
DeliveredIsUntried ==
  mode = "app" /\ delivery.target # NoSlot => tries[delivery.target] = 0

TrialsInv ==
  /\ \A s \in Slot : tries[s] <= Spent + MaxAttempts
  /\ Tallied(record) /\ Tallied(ram)
  /\ UnreadIsUnspent
  /\ DeliveredIsUntried

\* One more unread slot allows one more round of attempts.
LEMMA Allowances ==
  ASSUME BootAssumption, TypeOK
  PROVE  /\ Spent \in Nat /\ MaxAttempts \in Nat
         /\ MaxAttempts * (1 + badReads) = Spent + MaxAttempts
         /\ badReads' = badReads => Spent' = Spent
         /\ badReads' = badReads + 1 => Spent' = Spent + MaxAttempts
<1>1. \A a, b \in Nat : a * b \in Nat /\ a * (1 + b) = a * b + a /\ a * (b + 1) = a * b + a
  OBVIOUS
<1>2. MaxAttempts \in Nat /\ badReads \in Nat
  BY DEF BootAssumption, TypeOK
<1> QED
  BY <1>1, <1>2 DEF Spent

\* How the records an action may write count.
LEMMA StateAttempts ==
  ASSUME TypeOK
  PROVE  /\ Cleared.pending = NoSlot /\ Confirming.pending = NoSlot
         /\ Counted.pending = ram.pending /\ Counted.attempts = ram.attempts + 1
         /\ \A s \in Slot : Staged(s).pending = s /\ Staged(s).attempts = 0
<1>1. ram \in State
  BY DEF TypeOK
<1> QED
  BY <1>1 DEF State, Cleared, Counted, Staged, Confirming

\* A step that gives no image control keeps the tally if the records it leaves do.
LEMMA NoTrial ==
  ASSUME BootAssumption, TypeOK, TrialsInv, tries' = tries, badReads' = badReads,
         Tallied(record'), Tallied(ram'), mode' \notin {"boot", "restage"},
         mode' = "app" => delivery'.target = NoSlot \/ (mode = "app" /\ delivery'.target = delivery.target)
  PROVE  TrialsInv'
<1>1. Spent' = Spent
  BY Allowances
<1> QED
  BY <1>1 DEF TrialsInv, Tallied, UnreadIsUnspent, DeliveredIsUntried

\* No step gives an unconfirmed image control more often than its attempts allow.
LEMMA StepTrials ==
  ASSUME BootAssumption, RecoveryInv, TrialsInv, [Next]_vars
  PROVE  TrialsInv'
<1>1. /\ TypeOK /\ tries \in [Slot -> Nat] /\ Spent \in Nat /\ MaxAttempts \in Nat
      /\ ram.confirmed \in Slot /\ ram.pending \in Slot \cup {NoSlot} /\ ram.attempts \in 0..MaxAttempts
      /\ record.attempts \in 0..MaxAttempts /\ record.pending \in Slot \cup {NoSlot}
      /\ NoSlot \notin Slot /\ Other(ram.confirmed) \in Slot
  BY Allowances DEF RecoveryInv, ForwardInv, TypeOK, State, Slot, NoSlot, Other
<1>2. /\ Cleared.pending = NoSlot /\ Confirming.pending = NoSlot
      /\ Counted.pending = ram.pending /\ Counted.attempts = ram.attempts + 1
      /\ \A s \in Slot : Staged(s).pending = s /\ Staged(s).attempts = 0
  BY <1>1, StateAttempts
<1>3. Tallied(record) /\ Tallied(ram) /\ Tallied(Cleared) /\ Tallied(Confirming) /\ Tallied(Counted)
  BY <1>1, <1>2 DEF TrialsInv, Tallied
<1>4. Idle.target = NoSlot
  BY DEF Idle
<1>5. CASE PowerOn
  <2>1. /\ mode' = "boot" /\ ram' = record /\ record' = record /\ tries' = tries
        /\ badReads' = badReads \/ badReads' = badReads + 1
    BY <1>5 DEF PowerOn, flash, app, hist
  <2>2. Spent' \in {Spent, Spent + MaxAttempts} /\ (badReads' = badReads + 1 => Spent' = Spent + MaxAttempts)
    BY <1>1, <2>1, Allowances
  <2>3. Tallied(record)' /\ Tallied(ram)' /\ \A s \in Slot : tries'[s] <= Spent' + MaxAttempts
    <3>1. ASSUME NEW s \in Slot, NEW a \in Nat, tries[s] <= Spent + a
          PROVE  tries'[s] <= Spent' + a
      BY <1>1, <2>1, <2>2, <3>1
    <3> QED
      BY <1>1, <2>1, <3>1 DEF TrialsInv, Tallied
  <2>4. CASE seen' = Authenticated(record)
    <3>1. image[record.confirmed] >= record.minimum /\ record.minimum \in Version /\ record.confirmed \in Slot
      BY <1>1 DEF RecoveryInv, KeepsProven, TypeOK, State
    <3>2. image[record.confirmed] # Blank
      BY <1>1, <3>1 DEF TypeOK, Version, Blank, BootAssumption
    <3>3. seen'[record.confirmed] = image[record.confirmed]
      BY <2>4, <3>1, <3>2 DEF Authenticated, Authenticates
    <3>4. Eligible(ram.confirmed)'
      BY <2>1, <3>1, <3>2, <3>3 DEF Eligible
    <3> QED
      BY <2>1, <2>3, <3>4 DEF TrialsInv, UnreadIsUnspent, DeliveredIsUntried
  <2>5. CASE badReads' = badReads + 1
    BY <2>1, <2>2, <2>3, <2>5 DEF TrialsInv, UnreadIsUnspent, DeliveredIsUntried
  <2> QED
    BY <1>5, <2>4, <2>5 DEF PowerOn
<1>6. CASE PowerOnFails \/ Reset \/ Latch
  <2>1. UNCHANGED <<record, ram, tries, badReads>> /\ mode' \in {"off", "stopped"}
    BY <1>6 DEF PowerOnFails, Reset, Latch, Stop, flash, hist
  <2> QED
    BY <1>1, <1>3, <2>1, NoTrial
<1>7. CASE Trial
  <2>1. /\ record' = Counted /\ ram' = Counted /\ mode' \in {"app", "stopped"}
        /\ delivery' = Idle /\ badReads' = badReads
        /\ ram.pending \in Slot /\ ram.attempts < MaxAttempts
    BY <1>1, <1>7 DEF Trial, Saves, Handoff, CanTry
  <2>2. tries' = [tries EXCEPT ![ram.pending] =
                    IF tries[ram.pending] < MaxTries THEN tries[ram.pending] + 1 ELSE tries[ram.pending]]
    BY <1>2, <1>7, <2>1 DEF Trial, Handoff
  <2>3. /\ tries'[ram.pending] <= tries[ram.pending] + 1
        /\ \A s \in Slot : s # ram.pending => tries'[s] = tries[s]
        /\ tries'[ram.pending] \in Nat
    BY <1>1, <2>1, <2>2
  <2>4. Spent' = Spent
    BY <1>1, <2>1, Allowances
  <2>5. tries[ram.pending] <= Spent + ram.attempts
    BY <1>1, <2>1, <1>3 DEF Tallied
  <2>6. Tallied(record)' /\ Tallied(ram)'
    BY <1>1, <1>2, <2>1, <2>3, <2>4, <2>5 DEF Tallied
  <2>7. \A s \in Slot : tries'[s] <= Spent' + MaxAttempts
    BY <1>1, <2>1, <2>3, <2>4, <2>5 DEF TrialsInv
  <2> QED
    BY <1>4, <2>1, <2>6, <2>7 DEF TrialsInv, UnreadIsUnspent, DeliveredIsUntried
<1>8. CASE TrialNotCounted \/ FallbackNotSaved
  <2>1. /\ record' \in {ram, record, Counted, Cleared} /\ ram' = ram
        /\ mode' = "stopped" /\ UNCHANGED <<tries, badReads>>
    BY <1>8 DEF TrialNotCounted, FallbackNotSaved, SaveFails, Stop, hist
  <2>2. Tallied(record')
    BY <1>3, <2>1
  <2> QED
    BY <1>1, <1>3, <2>1, <2>2, NoTrial
<1>9. ASSUME mode = "boot", Choose, record' = ram', ram' \in {ram, Cleared}, ram'.pending = NoSlot
      PROVE  TrialsInv'
  <2>1. UNCHANGED <<tries, badReads>>
    <3>1. ASSUME Handoff(ram.confirmed) PROVE UNCHANGED <<tries, badReads>>
      <4>1. ram.confirmed # ram'.pending
        BY <1>1, <1>9
      <4> QED
        BY <3>1, <4>1 DEF Handoff
    <3> QED
      BY <1>9, <3>1 DEF Choose, Stop, hist
  <2>2. Tallied(record') /\ Tallied(ram')
    BY <1>9 DEF Tallied
  <2>3. CASE mode' = "restage"
    <3>1. ~Eligible(ram.confirmed)
      BY <1>9, <2>3 DEF Choose, Handoff, Stop
    <3>2. Spent' = Spent
      BY <1>1, <2>1, Allowances
    <3>3. \A s \in Slot : tries[s] <= Spent
      BY <1>9, <3>1 DEF TrialsInv, UnreadIsUnspent
    <3> QED
      BY <2>1, <2>2, <2>3, <3>2, <3>3 DEF TrialsInv, Tallied, UnreadIsUnspent,
         DeliveredIsUntried
  <2>4. CASE mode' # "restage"
    <3>1. mode' \in {"app", "stopped"} /\ (mode' = "app" => delivery' = Idle)
      BY <1>9, <2>4 DEF Choose, Handoff, Stop
    <3> QED
      BY <1>1, <1>4, <2>1, <2>2, <3>1, NoTrial
  <2> QED
    BY <2>3, <2>4
<1>10. CASE Confirmed
  BY <1>9, <1>10 DEF Confirmed, RecoveryInv, ForwardInv, SeenIsIntact
<1>11. CASE Fallback
  BY <1>2, <1>9, <1>11 DEF Fallback, Saves
<1>12. CASE Restage \/ RestageFails
  <2> DEFINE staged == Staged(Other(ram.confirmed))
  <2>1. mode = "restage" /\ UNCHANGED <<tries, badReads>> /\ mode' \in {"reselect", "stopped"}
    BY <1>12 DEF Restage, RestageFails, Stop, hist
  <2>2. Tallied(staged)
    BY <1>1, <1>2, <2>1 DEF TrialsInv, UnreadIsUnspent, Tallied
  <2>3. record' \in {ram, record, staged} /\ ram' \in {ram, staged}
    BY <1>12 DEF Restage, RestageFails, Saves, SaveFails
  <2>4. Tallied(record') /\ Tallied(ram')
    BY <1>3, <2>2, <2>3
  <2> QED
    BY <1>1, <2>1, <2>4, NoTrial
<1>13. CASE Observe \/ Fault \/ Chunk \/ Abort \/ FinishFails
  <2>1. /\ mode = "app" /\ UNCHANGED <<record, ram, mode, tries, badReads>>
        /\ delivery'.target = NoSlot \/ delivery'.target = delivery.target
    <3>1. delivery' = Idle \/ delivery' = delivery \/ delivery' = [delivery EXCEPT !.chunk = @ + 1]
      BY <1>13 DEF Observe, Fault, Chunk, Abort, FinishFails
    <3>2. delivery \in [target : Slot \cup {NoSlot}, version : Version \cup {Blank}, chunk : 0..Chunks]
      BY <1>1 DEF TypeOK
    <3>3. [delivery EXCEPT !.chunk = @ + 1].target = delivery.target
      BY <3>2
    <3> QED
      BY <1>4, <1>13, <3>1, <3>3 DEF Observe, Fault, Chunk, Abort, FinishFails,
         Delivering, flash, hist
  <2> QED
    BY <1>1, <1>3, <2>1, NoTrial
<1>14. CASE Confirm
  <2>1. /\ mode = "app" /\ mode' = mode /\ delivery' = delivery /\ badReads' = badReads
        /\ record' \in {ram, record, Confirming} /\ ram' \in {ram, Confirming}
        /\ tries' = tries \/ tries' = [tries EXCEPT ![running] = 0]
    BY <1>14 DEF Confirm, Saves, SaveFails
  <2>2. Spent' = Spent /\ running \in Slot
    BY <1>1, <2>1, Allowances DEF TypeOK
  <2>3. \A s \in Slot : tries'[s] <= tries[s] /\ tries'[s] \in Nat
    BY <1>1, <2>1, <2>2
  <2>4. Tallied(record') /\ Tallied(ram')
    BY <1>3, <2>1
  <2>5. Tallied(record)' /\ Tallied(ram)' /\ \A s \in Slot : tries'[s] <= Spent' + MaxAttempts
    <3>1. record'.attempts \in Nat /\ ram'.attempts \in Nat
      BY <1>1, <2>1, StateTypes DEF State
    <3>2. record'.pending \in Slot \cup {NoSlot} /\ ram'.pending \in Slot \cup {NoSlot}
      BY <1>1, <1>2, <2>1
    <3> QED
      BY <1>1, <2>2, <2>3, <2>4, <3>1, <3>2 DEF TrialsInv, Tallied
  <2>6. DeliveredIsUntried'
    <3>1. CASE delivery.target = NoSlot
      BY <2>1, <3>1 DEF DeliveredIsUntried
    <3>2. CASE delivery.target # NoSlot
      <4>1. delivery.target \in Slot /\ tries[delivery.target] = 0
        BY <1>1, <2>1, <3>2 DEF TrialsInv, DeliveredIsUntried, TypeOK
      <4> QED
        BY <1>1, <2>1, <2>2, <4>1 DEF DeliveredIsUntried
    <3> QED
      BY <3>1, <3>2
  <2> QED
    BY <2>1, <2>5, <2>6 DEF TrialsInv, UnreadIsUnspent
<1>15. CASE \E session \in 1..MaxSession, s \in Slot, v \in Version :
              Begin(session, s, v) \/ BeginFails(session, s, v)
  <2>1. PICK session \in 1..MaxSession, s \in Slot, v \in Version :
          Begin(session, s, v) \/ BeginFails(session, s, v)
    BY <1>15
  <2>2. /\ UNCHANGED <<record, ram, mode, badReads>> /\ mode = "app"
        /\ tries' = tries \/ tries' = [tries EXCEPT ![s] = 0]
        /\ \/ delivery' = delivery /\ delivery.target = NoSlot
           \/ delivery' = [target |-> s, version |-> v, chunk |-> 0] /\ tries' = [tries EXCEPT ![s] = 0]
    BY <2>1 DEF Begin, BeginFails, MayBegin
  <2>3. Spent' = Spent
    BY <1>1, <2>2, Allowances
  <2>4. \A t \in Slot : tries'[t] <= tries[t] /\ tries'[t] \in Nat
    BY <1>1, <2>2
  <2>5. Tallied(record)' /\ Tallied(ram)' /\ \A t \in Slot : tries'[t] <= Spent' + MaxAttempts
    BY <1>1, <1>3, <2>2, <2>3, <2>4 DEF TrialsInv, Tallied
  <2>6. DeliveredIsUntried'
    BY <1>1, <2>2 DEF DeliveredIsUntried
  <2> QED
    BY <2>2, <2>5, <2>6 DEF TrialsInv, UnreadIsUnspent
<1>16. CASE Finish
  <2>1. /\ mode = "app" /\ mode' = mode /\ delivery' = Idle /\ UNCHANGED <<tries, badReads>>
        /\ delivery.target \in Slot /\ tries[delivery.target] = 0
    BY <1>1, <1>16 DEF Finish, Delivering, hist, TypeOK, TrialsInv, DeliveredIsUntried
  <2>2. Tallied(Staged(delivery.target))
    BY <1>1, <1>2, <2>1 DEF Tallied
  <2>3. record' \in {ram, record, Staged(delivery.target)} /\ ram' \in {ram, Staged(delivery.target)}
    BY <1>16 DEF Finish, Saves, SaveFails
  <2>4. Tallied(record') /\ Tallied(ram')
    BY <1>3, <2>2, <2>3
  <2> QED
    BY <1>1, <1>4, <2>1, <2>4, NoTrial
<1>17. CASE UNCHANGED vars
  <2>1. Spent' = Spent
    BY <1>1, <1>17, Allowances DEF vars, hist
  <2> QED
    BY <1>17, <2>1 DEF vars, flash, app, hist, TrialsInv, Tallied, UnreadIsUnspent,
       DeliveredIsUntried, Eligible
<1> QED
  BY <1>5, <1>6, <1>7, <1>8, <1>10, <1>11, <1>12, <1>13, <1>14, <1>15, <1>16,
     <1>17 DEF Next

\* The bootstrap (openref_boot_policy_select, openref_rt595_boot_coordinator_select)
\* gives an image that was not confirmed control at most MaxAttempts times, and as often
\* again only for a start that failed to read the confirmed image, whatever saves fail
\* and whenever the power goes, as long as no update arrives during a trial.
THEOREM TrialsBounded ==
  ASSUME ~TrialUpdates
  PROVE  Spec => []TrialsAreBounded
<1>1. Init => RecoveryInv /\ TrialsInv
  <2> SUFFICES ASSUME Init
               PROVE  RecoveryInv /\ TrialsInv
    OBVIOUS
  <2>1. RecoveryInv
    BY InitRecovery, BootAssumption
  <2>2. Spent \in Nat /\ MaxAttempts \in Nat
    BY <2>1, Allowances, BootAssumption DEF RecoveryInv, ForwardInv
  <2>3. /\ record.pending = NoSlot /\ ram.pending = NoSlot /\ mode = "off"
        /\ \A s \in Slot : tries[s] = 0
    BY DEF Init, Factory
  <2> QED
    BY <2>1, <2>2, <2>3 DEF TrialsInv, Tallied, UnreadIsUnspent, DeliveredIsUntried
<1>2. Spec => []RecoveryInv
  BY StaysRecoverable
<1>3. RecoveryInv /\ TrialsInv /\ [Next]_vars => TrialsInv'
  BY StepTrials, BootAssumption
<1>4. RecoveryInv /\ TrialsInv => TrialsAreBounded
  BY Allowances, BootAssumption DEF RecoveryInv, ForwardInv, TrialsInv, TrialsAreBounded
<1> QED
  BY <1>1, <1>2, <1>3, <1>4, PTL DEF Spec

----------------------------------------------------------------------------
(* The two-slot store.                                                     *)

\* What RAM knows of flash: the record loaded or saved last is still there, and
\* the other slot, if it decodes, is one generation older or newer.
RamMatchesFlash == loaded => slot[active].gen = generation /\ generation # 0

\* A save in progress is to the slot RAM does not rely on; without a loaded record
\* it goes to slot 0, and slot 1 holds nothing.
SaveInProgress ==
  ~NotSaving =>
    /\ writing.gen # 0 /\ writing.val \in Value
    /\ saved = None
    /\ IF loaded THEN target = 1 - active /\ writing.gen = generation + 1
                 ELSE target = 0 /\ writing.gen = 1 /\ slot[1].gen = 0

\* The settings client saves without a loaded record only on an empty slot 1.
EmptyStore == ~strict /\ started /\ ~loaded => slot[1].gen = 0

StoreInv ==
  /\ StoreTypeOK
  /\ RamMatchesFlash
  /\ SaveInProgress
  /\ EmptyStore
  /\ GenerationsAdjacent
  /\ SavedIsDurable

\* The client refuses to save without a loaded record, or a load fails only
\* because no slot decodes.
TrustedLoads == FALSE \notin Unreliable

USE StoreAssumption

\* A blank record is one that decode refuses.
LEMMA Records ==
  /\ BlankRecord \in Record /\ BlankRecord.gen = 0 /\ BlankRecord.val = None
  /\ \A g \in Generation, v \in Payload :
       Used(g, v) \in Record /\ Used(g, v).gen = g /\ Used(g, v).val = v
  /\ 1 \in Generation /\ 0 \in Generation
  /\ Generation \subseteq Nat /\ None \notin Value /\ MaxGeneration \in Nat
BY DEF StoreAssumption, BlankRecord, Record, Used, Generation, Payload, MaxGeneration

\* Of two records one generation apart the comparison finds the newer.
LEMMA NewerIsNext ==
  ASSUME NEW g \in Generation, g + 1 \in Generation
  PROVE  Newer(g + 1, g) /\ ~Newer(g, g + 1)
BY DEF StoreAssumption, Newer, Generation, MaxGeneration

\* The initial states, whatever an earlier life of the part left in flash.
LEMMA InitInv ==
  ASSUME StoreInit
  PROVE  StoreInv
<1>1. StoreTypeOK
  <2>1. slot \in [Slots -> Record]
    <3>1. CASE slot = [s \in Slots |-> BlankRecord]
      BY <3>1, Records
    <3>2. CASE \E v \in Payload : slot = [s \in Slots |-> IF s = 0 THEN Used(1, v) ELSE BlankRecord]
      BY <3>2, Records
    <3>3. ASSUME NEW v \in Payload, NEW w \in Payload, NEW g \in 1..MaxGeneration - 1, NEW s \in Slots,
                 slot = [t \in Slots |-> IF t = s THEN Used(g + 1, v) ELSE Used(g, w)]
          PROVE  slot \in [Slots -> Record]
      <4>1. g \in Generation /\ g + 1 \in Generation
        BY Records DEF Generation
      <4>2. Used(g + 1, v) \in Record /\ Used(g, w) \in Record
        BY <4>1, Records
      <4> QED
        BY <3>3, <4>2
    <3> QED
      BY <3>1, <3>2, <3>3 DEF StoreInit, EarlierFlash
  <2> QED
    BY <2>1, Records DEF StoreInit, StoreTypeOK, Slots
<1>2. GenerationsAdjacent
  BY Records DEF StoreInit, EarlierFlash, GenerationsAdjacent, Decodes, Slots, Used,
     BlankRecord, Generation, MaxGeneration, StoreAssumption
<1> QED
  BY <1>1, <1>2 DEF StoreInit, StoreInv, RamMatchesFlash, SaveInProgress, EmptyStore,
     SavedIsDurable, NotSaving

\* A load changes nothing in flash and knows the record it selects.
LEMMA LoadInv ==
  ASSUME TrustedLoads, StoreInv, NEW unread \in SUBSET Slots, Load(unread)
  PROVE  StoreInv'
<1> DEFINE valid == Decodes \ unread
<1>0. UNCHANGED <<strict, slot, writing, target, saved>> /\ NotSaving /\ started' = TRUE
  BY DEF Load
<1>1. CASE LoadSucceeds(valid)
  <2>1. Select(valid) \in valid /\ valid \subseteq Decodes
    BY <1>1 DEF LoadSucceeds, Select, Decodes, Slots
  <2>2. active' \in Slots /\ generation' = slot[active'].gen /\ generation' # 0 /\ loaded' \in BOOLEAN
    BY <1>1, <2>1 DEF LoadSucceeds, Decodes, StoreTypeOK
  <2>3. generation' \in Generation
    BY <2>2 DEF StoreInv, StoreTypeOK, Record
  <2>4. ~strict => loaded'
    BY <1>1 DEF LoadSucceeds
  <2> QED
    BY <1>0, <2>2, <2>3, <2>4 DEF StoreInv, StoreTypeOK, RamMatchesFlash,
       SaveInProgress, EmptyStore,
       GenerationsAdjacent, SavedIsDurable, NotSaving, Durable, Decodes, Select
<1>2. CASE LoadFails(valid)
  <2>1. ~strict => Decodes = {}
    BY <1>2 DEF LoadFails, TrustedLoads, Load
  <2> QED
    BY <1>0, <1>2, <2>1 DEF LoadFails, StoreInv, StoreTypeOK, RamMatchesFlash,
       SaveInProgress, EmptyStore,
       GenerationsAdjacent, SavedIsDurable, NotSaving, Durable, Decodes, Select, Slots
<1> QED
  BY <1>1, <1>2 DEF Load

\* A write keeps the slot RAM relies on and leaves the generations adjacent.
LEMMA WriteInv ==
  ASSUME StoreInv, NEW v \in Value, NotSaving,
         ~loaded => slot[1].gen = 0,
         Write(Used(NextGeneration, v))
  PROVE  StoreInv'
<1> DEFINE written == Used(NextGeneration, v)
<1>1. NextGeneration \in Generation /\ NextGeneration # 0 /\ TargetSlot \in Slots
  BY DEF Write, Exhausted, NextGeneration, TargetSlot, StoreInv, StoreTypeOK,
     Generation, Slots,
     StoreAssumption, MaxGeneration
<1>2. written \in Record /\ written.gen = NextGeneration /\ written.val = v /\ v \in Payload
  BY <1>1, Records DEF Payload
<1>3. PICK stored \in {written, BlankRecord, slot[TargetSlot]} : slot' = [slot EXCEPT ![TargetSlot] = stored]
  BY DEF Write
<1>4. stored \in Record /\ stored.gen \in {written.gen, 0, slot[TargetSlot].gen}
  BY <1>1, <1>2, <1>3, Records DEF StoreInv, StoreTypeOK
<1>5. writing' = written /\ target' = TargetSlot /\ saved' = None /\ strict' = strict /\ UNCHANGED cached
  BY DEF Write
<1>6. StoreTypeOK'
  BY <1>1, <1>2, <1>3, <1>4, <1>5 DEF StoreInv, StoreTypeOK, cached
<1>7. \A s \in Slots \ {TargetSlot} : slot'[s] = slot[s]
  BY <1>3 DEF StoreInv, StoreTypeOK
<1>8. slot'[TargetSlot] = stored
  BY <1>1, <1>3 DEF StoreInv, StoreTypeOK
<1>9. RamMatchesFlash'
  BY <1>5, <1>7 DEF StoreInv, RamMatchesFlash, cached, TargetSlot, StoreTypeOK, Slots
<1>10. SaveInProgress'
  BY <1>1, <1>2, <1>5, <1>7 DEF SaveInProgress, NotSaving, cached, TargetSlot,
     NextGeneration, Slots, StoreInv, StoreTypeOK
<1>11. EmptyStore'
  BY <1>5, <1>7 DEF EmptyStore, cached, TargetSlot, Slots
<1>12. GenerationsAdjacent'
  <2>1. CASE loaded
    <3>1. slot'[active].gen = generation /\ generation \in Nat /\ active \in Slots
      BY <1>5, <1>9, <2>1 DEF RamMatchesFlash, cached, StoreInv, StoreTypeOK, Generation
    <3>2. slot'[1 - active].gen \in {generation + 1, 0, slot[1 - active].gen}
      BY <1>2, <1>4, <1>8, <2>1 DEF TargetSlot, NextGeneration
    <3>3. slot[active].gen = generation /\ generation # 0
      BY <2>1 DEF StoreInv, RamMatchesFlash
    <3>4. slot[1 - active].gen # 0 =>
            slot[1 - active].gen = generation + 1 \/ generation = slot[1 - active].gen + 1
      BY <3>1, <3>3 DEF StoreInv, GenerationsAdjacent, Decodes, Slots
    <3> QED
      BY <3>1, <3>2, <3>4 DEF GenerationsAdjacent, Decodes, Slots
  <2>2. CASE ~loaded
    BY <1>7, <2>2 DEF GenerationsAdjacent, Decodes, Slots, TargetSlot
  <2> QED
    BY <2>1, <2>2
<1> QED
  BY <1>5, <1>6, <1>9, <1>10, <1>11, <1>12 DEF StoreInv, SavedIsDurable

\* A committed record is the newest.
LEMMA CommitInv ==
  ASSUME StoreInv, Commit
  PROVE  StoreInv'
<1>1. /\ writing.gen # 0 /\ writing.val \in Value /\ writing \in Record
      /\ slot[target] = writing /\ target \in Slots
  BY DEF Commit, ReadsBack, StoreInv, SaveInProgress, StoreTypeOK
<1>2. /\ generation' = writing.gen /\ active' = target /\ loaded' = TRUE
      /\ saved' = writing.val /\ writing' = BlankRecord /\ target' = 0 /\ UNCHANGED <<slot, started>>
  BY DEF Commit
<1>3. StoreTypeOK'
  <2>1. strict' = strict
    BY DEF Commit
  <2> QED
    BY <1>1, <1>2, <2>1, Records DEF StoreInv, StoreTypeOK, Record, Slots
<1>4. RamMatchesFlash' /\ SaveInProgress' /\ EmptyStore' /\ GenerationsAdjacent'
  BY <1>1, <1>2 DEF RamMatchesFlash, SaveInProgress, EmptyStore, NotSaving, StoreInv,
     GenerationsAdjacent, Decodes
<1>5. Select(Decodes) = target
  <2>1. target \in Decodes
    BY <1>1 DEF Decodes
  <2>2. CASE loaded
    <3>1. slot[active].gen = generation /\ generation # 0 /\ target = 1 - active /\ slot[target].gen = generation + 1
      BY <1>1, <2>2 DEF StoreInv, RamMatchesFlash, SaveInProgress, Commit
    <3>2. generation \in Generation /\ generation + 1 \in Generation /\ active \in Slots
      BY <1>1, <3>1 DEF StoreInv, StoreTypeOK, Record
    <3>3. Newer(generation + 1, generation) /\ ~Newer(generation, generation + 1)
      BY <3>2, NewerIsNext
    <3> QED
      BY <3>1, <3>2, <3>3, <2>1 DEF Select, Slots
  <2>3. CASE ~loaded
    BY <2>1, <2>3 DEF StoreInv, SaveInProgress, Commit, Select, Decodes
  <2> QED
    BY <2>2, <2>3
<1>6. SavedIsDurable'
  BY <1>1, <1>2, <1>5 DEF SavedIsDurable, Durable, Decodes, Select
<1> QED
  BY <1>3, <1>4, <1>6 DEF StoreInv

\* Giving a save up and losing power leave flash alone.
LEMMA InterruptionInv ==
  ASSUME StoreInv, GiveUp \/ PowerLoss
  PROVE  StoreInv'
<1>1. strict' = strict /\ UNCHANGED <<slot, saved>> /\ writing' = BlankRecord /\ target' = 0
  BY DEF GiveUp, PowerLoss
<1>2. StoreTypeOK'
  BY <1>1, Records DEF GiveUp, PowerLoss, cached, StoreInv, StoreTypeOK, Slots
<1>3. RamMatchesFlash' /\ SaveInProgress' /\ EmptyStore'
  BY <1>1 DEF GiveUp, PowerLoss, cached, StoreInv, RamMatchesFlash, SaveInProgress,
     EmptyStore, NotSaving
<1>4. GenerationsAdjacent' /\ SavedIsDurable'
  BY <1>1 DEF StoreInv, GenerationsAdjacent, SavedIsDurable, Decodes, Durable, Select
<1> QED
  BY <1>2, <1>3, <1>4 DEF StoreInv

\* Every step keeps the invariant.
LEMMA StepInv ==
  ASSUME TrustedLoads, StoreInv, [StoreNext]_storeVars
  PROVE  StoreInv'
<1>1. CASE \E unread \in SUBSET Slots : Load(unread)
  BY <1>1, LoadInv
<1>2. CASE \E v \in Value : Save(v)
  BY <1>2, WriteInv DEF Save, StoreInv, EmptyStore
<1>3. CASE \E v \in Value : FactoryInitialize(v)
  BY <1>3, WriteInv, Records DEF FactoryInitialize
<1>4. CASE Commit
  BY <1>4, CommitInv
<1>5. CASE GiveUp \/ PowerLoss
  BY <1>5, InterruptionInv
<1>6. CASE UNCHANGED storeVars
  BY <1>6 DEF storeVars, cached, StoreInv, StoreTypeOK, RamMatchesFlash,
     SaveInProgress, EmptyStore,
     GenerationsAdjacent, SavedIsDurable, NotSaving, Durable, Decodes, Select
<1> QED
  BY <1>1, <1>2, <1>3, <1>4, <1>5, <1>6 DEF StoreNext

\* No save that openref_config_store_save reported is lost to a torn write, a failed
\* write or a power loss, and the records of flash stay comparable, as long as the
\* client is strict or reads do not fail transiently.
THEOREM SavesAreDurable ==
  ASSUME TrustedLoads
  PROVE  StoreSpec => [](SavedIsDurable /\ GenerationsAdjacent)
<1>1. StoreInit => StoreInv
  BY InitInv
<1>2. StoreInv /\ [StoreNext]_storeVars => StoreInv'
  BY StepInv
<1>3. StoreInv => SavedIsDurable /\ GenerationsAdjacent
  BY DEF StoreInv
<1> QED
  BY <1>1, <1>2, <1>3, PTL DEF StoreSpec

----------------------------------------------------------------------------
(* The store implements the durable register.                              *)

\* No read of a slot fails while the other can be read.
ReadsDoNotFail == Unreliable = {}

\* What the client has loaded or saved, as the refinement maps it.
Known == IF loaded THEN slot[active].val ELSE None

\* A blank store, or one that holds what an earlier life of the part left there, is
\* a register that nobody has read yet.
LEMMA InitRefines ==
  ASSUME StoreInit
  PROVE  Register!RInit
<1>1. StoreTypeOK
  BY InitInv DEF StoreInv
<1>2. Durable \in Payload \cup {None}
  <2>1. Select(Decodes) \in Slots
    BY DEF Select, Slots
  <2>2. slot[Select(Decodes)] \in Record
    BY <1>1, <2>1 DEF StoreTypeOK
  <2> QED
    BY <2>2 DEF Durable, Record
<1> QED
  BY <1>2, Records DEF StoreInit, Register!RInit

\* Without read errors a load finds the newest record, which is what the client
\* then knows unless it cannot decode it.
LEMMA LoadRefines ==
  ASSUME ReadsDoNotFail, StoreInv, NEW unread \in SUBSET Slots, Load(unread)
  PROVE  Register!Find
<1>1. Decodes \ unread = Decodes
  BY DEF Load, ReadsDoNotFail
<1>2. UNCHANGED <<slot, writing, saved>> /\ writing = BlankRecord
  BY DEF Load, NotSaving
<1>3. Durable' = Durable
  BY <1>2 DEF Durable, Decodes, Select
<1>4. Known' \in {Durable, None}
  <2>1. CASE LoadSucceeds(Decodes)
    BY <1>2, <2>1 DEF LoadSucceeds, Known, Durable
  <2>2. CASE LoadFails(Decodes)
    BY <2>2 DEF LoadFails, Known
  <2> QED
    BY <1>1, <2>1, <2>2 DEF Load
<1> QED
  BY <1>2, <1>3, <1>4, Records DEF Register!Find, Known

\* The slot RAM relies on is the newest but for the record of a save that never
\* reported success; writing the other slot leaves one of the two, or the new one.
LEMMA WriteRefines ==
  ASSUME StoreInv, NEW v \in Value, NotSaving,
         ~loaded => slot[1].gen = 0,
         Write(Used(NextGeneration, v))
  PROVE  Register!Begin(v)
<1> DEFINE written == Used(NextGeneration, v)
<1>1. NextGeneration \in Generation /\ NextGeneration # 0 /\ TargetSlot \in Slots
  BY DEF Write, Exhausted, NextGeneration, TargetSlot, StoreInv, StoreTypeOK,
     Generation, Slots,
     StoreAssumption, MaxGeneration
<1>2. written.gen = NextGeneration /\ written.val = v
  BY <1>1, Records DEF Payload
<1>3. PICK stored \in {written, BlankRecord, slot[TargetSlot]} : slot' = [slot EXCEPT ![TargetSlot] = stored]
  BY DEF Write
<1>4. /\ slot'[TargetSlot] = stored
      /\ \A s \in Slots \ {TargetSlot} : slot'[s] = slot[s]
  BY <1>1, <1>3 DEF StoreInv, StoreTypeOK
<1>5. writing' = written /\ saved' = None /\ UNCHANGED <<loaded, generation, active>>
  BY DEF Write, cached
<1>6. Known' = Known
  BY <1>4, <1>5 DEF Known, TargetSlot, StoreInv, StoreTypeOK, Slots
<1>7. Durable' \in {Durable, Known, v}
  <2>1. CASE stored = slot[TargetSlot]
    <3>1. slot' = slot
      BY <1>1, <1>3, <2>1 DEF StoreInv, StoreTypeOK
    <3> QED
      BY <3>1 DEF Durable, Decodes, Select
  <2>2. CASE loaded /\ stored # slot[TargetSlot]
    <3>1. /\ active \in Slots /\ TargetSlot = 1 - active /\ slot'[active] = slot[active]
          /\ slot[active].gen = generation /\ generation # 0 /\ generation \in Generation
      BY <1>4, <2>2 DEF TargetSlot, Slots, StoreInv, StoreTypeOK, RamMatchesFlash
    <3>2. CASE stored = written
      <4>1. slot'[TargetSlot].gen = generation + 1 /\ generation + 1 \in Generation
        BY <1>1, <1>2, <1>4, <2>2, <3>2 DEF NextGeneration
      <4>2. Newer(generation + 1, generation) /\ ~Newer(generation, generation + 1)
        BY <3>1, <4>1, NewerIsNext
      <4>3. Decodes' = Slots
        BY <1>1, <1>2, <1>4, <3>1, <3>2 DEF Decodes, Slots
      <4>4. Select(Decodes)' = TargetSlot
        BY <3>1, <4>1, <4>2, <4>3 DEF Select, Slots
      <4> QED
        BY <1>2, <1>4, <3>2, <4>3, <4>4 DEF Durable, Slots
    <3>3. CASE stored = BlankRecord
      <4>1. Decodes' = {active}
        BY <1>4, <3>1, <3>3, Records DEF Decodes, Slots
      <4>2. Select(Decodes)' = active
        BY <3>1, <4>1 DEF Select, Slots
      <4> QED
        BY <2>2, <3>1, <4>1, <4>2 DEF Durable, Known
    <3> QED
      BY <2>2, <3>2, <3>3
  <2>3. CASE ~loaded
    <3>1. TargetSlot = 0 /\ slot'[1] = slot[1] /\ slot[1].gen = 0
      BY <1>4, <2>3 DEF TargetSlot, Slots
    <3>2. CASE stored = written
      <4>1. Decodes' = {0}
        BY <1>1, <1>2, <1>4, <3>1, <3>2 DEF Decodes, Slots
      <4> QED
        BY <1>2, <1>4, <3>1, <3>2, <4>1 DEF Durable, Select
    <3>3. CASE stored = BlankRecord
      <4>1. Decodes' = {}
        BY <1>4, <3>1, <3>3, Records DEF Decodes, Slots
      <4> QED
        BY <2>3, <4>1 DEF Durable, Known
    <3> QED
      BY <2>1, <3>2, <3>3
  <2> QED
    BY <2>1, <2>2, <2>3
<1> QED
  BY <1>2, <1>5, <1>6, <1>7, Records DEF Register!Begin, NotSaving, Known

\* A save that reports success leaves its value durable; one that is given up, and
\* a power loss, leave what is durable alone.
LEMMA EndRefines ==
  ASSUME StoreInv, Commit \/ GiveUp \/ PowerLoss
  PROVE  Register!RNext
<1>1. UNCHANGED slot /\ writing'.val = None
  BY Records DEF Commit, GiveUp, PowerLoss
<1>2. Durable' = Durable
  BY <1>1 DEF Durable, Decodes, Select
<1>3. CASE Commit
  <2>1. writing.val \in Value /\ slot[target] = writing
    BY <1>3 DEF Commit, ReadsBack, StoreInv, SaveInProgress
  <2>2. SavedIsDurable'
    BY <1>3, CommitInv DEF StoreInv
  <2>3. saved' = writing.val /\ Known' = writing.val
    BY <1>3, <2>1 DEF Commit, Known
  <2>4. writing.val # None /\ Durable = writing.val
    BY <1>2, <2>1, <2>2, <2>3, Records DEF SavedIsDurable
  <2>5. Register!Succeed
    BY <1>1, <1>2, <2>3, <2>4 DEF Register!Succeed, Known
  <2> QED
    BY <2>5 DEF Register!RNext
<1>4. CASE GiveUp
  <2>1. Register!Fail
    BY <1>1, <1>2, <1>4 DEF GiveUp, cached, Register!Fail
  <2> QED
    BY <2>1 DEF Register!RNext
<1>5. CASE PowerLoss
  <2>1. Register!Reset
    BY <1>1, <1>2, <1>5 DEF PowerLoss, Register!Reset
  <2> QED
    BY <2>1 DEF Register!RNext
<1> QED
  BY <1>3, <1>4, <1>5

\* Every step of the store is a step of the register or leaves it alone.
LEMMA StepRefines ==
  ASSUME ReadsDoNotFail, StoreInv, [StoreNext]_storeVars
  PROVE  [Register!RNext]_(Register!regVars)
<1>1. CASE \E unread \in SUBSET Slots : Load(unread)
  BY <1>1, LoadRefines DEF Register!RNext
<1>2. CASE \E v \in Value : Save(v) \/ FactoryInitialize(v)
  <2>1. PICK v \in Value : Save(v) \/ FactoryInitialize(v)
    BY <1>2
  <2>2. NotSaving /\ Write(Used(NextGeneration, v)) /\ (~loaded => slot[1].gen = 0)
    BY <2>1, Records DEF Save, FactoryInitialize, StoreInv, EmptyStore
  <2>3. Register!Begin(v) /\ v \in Payload
    BY <2>2, WriteRefines DEF Payload
  <2> QED
    BY <2>3 DEF Register!RNext
<1>3. CASE Commit \/ GiveUp \/ PowerLoss
  BY <1>3, EndRefines
<1>4. CASE UNCHANGED storeVars
  BY <1>4 DEF storeVars, cached, Register!regVars, Durable, Decodes, Select
<1> QED
  BY <1>1, <1>2, <1>3, <1>4 DEF StoreNext

\* The two-slot store implements the durable register: what a client has loaded or
\* saved stays what the next start finds, until another save begins, through torn
\* and unreported writes and any number of power losses.
THEOREM ImplementsRegister ==
  ASSUME ReadsDoNotFail
  PROVE  StoreSpec => IsDurableRegister
<1>1. StoreInit => StoreInv /\ Register!RInit
  BY InitInv, InitRefines
<1>2. StoreInv /\ [StoreNext]_storeVars => StoreInv'
  BY StepInv DEF TrustedLoads, ReadsDoNotFail
<1>3. StoreInv /\ [StoreNext]_storeVars => [Register!RNext]_(Register!regVars)
  BY StepRefines
<1> QED
  BY <1>1, <1>2, <1>3, PTL DEF StoreSpec, IsDurableRegister, Register!RSpec
===============================================================================
