--------------------------- MODULE AudioLink_proofs ---------------------------
(***************************************************************************)
(* Theorems about AudioLink, for every queue capacity, timeout and number  *)
(* of frames.  A frame that waits in the RT595 keeps the request line      *)
(* asserted: the line always shows what update_request would compute now,  *)
(* and an armed transaction that carries audio is remembered as requested. *)
(* A frame the FG23 took is on its way, accepted or counted: an account    *)
(* says which stages hold it, also while it is in two of them.  And frames *)
(* are heard in order and once: what was heard, what is on the wire, what  *)
(* is prepared and what is queued ascend.                                  *)
(***************************************************************************)
EXTENDS AudioLink, TLAPS

Frame == Audio \cup {Status}
Heard == Audio \cup {Status, Garbage}

RtRecord == [power : {"reset", "booting", "up", "halted"}, queue : Seq(Audio),
             next : Nat, active : BOOLEAN, requested : BOOLEAN,
             completion : {"none", "ok", "error"},
             peer : BOOLEAN, enabled : BOOLEAN, last : Audio \cup {None}]
SlaveRecord == [state : {"idle", "armed", "late", "skewed"}, tx : Frame, rx : Heard]
FgRecord == [resetting : BOOLEAN, timer : Int, active : BOOLEAN,
             prepared : Frame \cup {None}, queue : Seq(Audio), status : BOOLEAN]
BusRecord == [state : {"idle", "running", "clocked", "done", "error"},
              tx : Frame, rx : Heard]

HistoryRecord == [queued : Nat, accepted : Nat, counted : Nat]

\* The types, without the bounds of TypeOK.
Types ==
  /\ fg \in FgRecord /\ bus \in BusRecord
  /\ rt \in RtRecord /\ slave \in SlaveRecord
  /\ history \in HistoryRecord

\* The request line is what update_request would compute from the present state.
LineIsCurrent == request = Requests(rt)

\* A transaction in the hands of the SPI peripheral is an active one, and if it
\* carries audio then it was requested.
ArmedIsRequested ==
  slave.state # "idle" => rt.active /\ (slave.tx # Status => rt.requested)

IInv == Types /\ LineIsCurrent /\ ArmedIsRequested

\* Queues of frames stay queues of frames.
LEMMA QueueTypes ==
  ASSUME NEW q \in Seq(Audio)
  PROVE  /\ \A n \in Audio : Push(q, n) \in Seq(Audio)
         /\ q # <<>> => Head(q) \in Audio /\ Tail(q) \in Seq(Audio)
<1>1. q # <<>> => Head(q) \in Audio /\ Tail(q) \in Seq(Audio)
  OBVIOUS
<1>2. ASSUME NEW n \in Audio
      PROVE  Push(q, n) \in Seq(Audio)
  <2>1. CASE Full(q)
    <3>1. q # <<>>
      BY <2>1, LinkAssumption DEF Full
    <3> QED BY <1>1, <2>1, <3>1 DEF Push
  <2>2. CASE ~Full(q)
    BY <2>2 DEF Push
  <2> QED BY <2>1, <2>2
<1> QED BY <1>1, <1>2

\* The records a processor starts with.
LEMMA StartTypes ==
  /\ FgStarted \in FgRecord /\ Quiet \in BusRecord /\ Deaf \in SlaveRecord
  /\ \A power \in {"reset", "booting", "up", "halted"} :
       RtIn(power) \in RtRecord /\ Requests(RtIn(power)) = FALSE
<1>1. HoldTime \in Int
  BY LinkAssumption
<1>2. Status \in Frame /\ Status \in Heard
  BY DEF Frame, Heard
<1>3. FgStarted \in FgRecord
  BY <1>1 DEF FgStarted, FgRecord
<1>4. Quiet \in BusRecord /\ Deaf \in SlaveRecord
  BY <1>2 DEF Quiet, BusRecord, Deaf, SlaveRecord
<1>5. ASSUME NEW power \in {"reset", "booting", "up", "halted"}
      PROVE  RtIn(power) \in RtRecord /\ Requests(RtIn(power)) = FALSE
  BY <1>5 DEF RtIn, RtRecord, Requests, RequestAsserted
<1> QED BY <1>3, <1>4, <1>5

\* A restart or reset of the RT595 leaves it asking for nothing.
LEMMA Downed ==
  ASSUME NEW power \in {"reset", "booting", "up", "halted"},
         rt' = RtIn(power), slave' = Deaf, request' = FALSE
  PROVE  rt' \in RtRecord /\ slave' \in SlaveRecord /\ LineIsCurrent' /\ ArmedIsRequested'
<1>1. Requests(rt)' = Requests(RtIn(power))
  BY DEF Requests, RequestAsserted
<1>2. slave'.state = "idle"
  BY DEF Deaf
<1>3. LineIsCurrent'
  BY <1>1, StartTypes DEF LineIsCurrent
<1>4. ArmedIsRequested'
  BY <1>2 DEF ArmedIsRequested
<1> QED BY <1>3, <1>4, StartTypes

\* What update_request computes depends on three fields only.
LEMMA RequestsOf ==
  ASSUME rt'.active = rt.active, rt'.requested = rt.requested, rt'.queue = rt.queue
  PROVE  Requests(rt)' = Requests(rt)
BY DEF Requests, RequestAsserted

\* Counting a loss keeps the ghost a history.
LEMMA CountedTypes ==
  ASSUME history \in HistoryRecord, NEW n \in {1, 2}
  PROVE  Counted(history, n) \in HistoryRecord
<1>1. history.counted + n \in Nat /\ MaxFrames \in Nat
  BY LinkAssumption DEF HistoryRecord
<1> QED BY <1>1 DEF Counted, HistoryRecord

\* The end of a transfer, and the start of one.
LEMMA FgTypes ==
  ASSUME fg \in FgRecord
  PROVE  /\ [fg EXCEPT !.active = FALSE, !.timer = 0] \in FgRecord
         /\ [fg EXCEPT !.active = FALSE, !.resetting = TRUE, !.timer = HoldTime] \in FgRecord
         /\ \A queue \in Seq(Audio), status \in BOOLEAN :
              [fg EXCEPT !.active = TRUE, !.timer = TransferTime, !.prepared = None,
                         !.queue = queue, !.status = status] \in FgRecord
<1>1. HoldTime \in Int /\ TransferTime \in Int /\ 0 \in Int
  BY LinkAssumption
<1>2. None \in Frame \cup {None}
  OBVIOUS
<1> QED BY <1>1, <1>2 DEF FgRecord

\* The initial state is one of the states of the invariant.
LEMMA InitInv == Init => IInv
<1> SUFFICES ASSUME Init PROVE IInv
  OBVIOUS
<1>1. Types
  BY StartTypes DEF Init, Types, HistoryRecord
<1>2. LineIsCurrent
  BY StartTypes DEF Init, LineIsCurrent
<1>3. ArmedIsRequested
  BY DEF Init, ArmedIsRequested, Deaf
<1> QED BY <1>1, <1>2, <1>3 DEF IInv

\* The steps that leave the RT595 and the line alone need to keep types only.
LEMMA FgSteps ==
  ASSUME IInv,
         FgQueueAudio \/ FgQueueStatus \/ FgFinish \/ FgFail \/ FgStart
           \/ FgStartFails \/ DmaDone \/ Tick
  PROVE  IInv'
<1> USE DEF Types, IInv
<1>1. UNCHANGED <<rt, slave, request>>
  BY DEF FgQueueAudio, FgQueueStatus, FgFinish, FgFail, FgStart, FgStartFails, DmaDone, Tick
<1>2. LineIsCurrent' /\ ArmedIsRequested'
  BY <1>1 DEF LineIsCurrent, ArmedIsRequested, Requests, RequestAsserted
<1>3. history' \in HistoryRecord
  <2>1. CASE FgQueueAudio
    <3>1. (IF Full(fg.queue) THEN Counted(history, 1) ELSE history) \in HistoryRecord
      BY CountedTypes
    <3>2. history.queued + 1 \in Nat
      BY DEF HistoryRecord
    <3> QED BY <2>1, <3>1, <3>2 DEF FgQueueAudio, Counted, HistoryRecord
  <2>2. CASE FgFinish \/ FgFail
    BY <2>2, CountedTypes DEF FgFinish, FgFail
  <2>3. CASE FgQueueStatus \/ FgStart \/ FgStartFails \/ DmaDone \/ Tick
    BY <2>3 DEF FgQueueStatus, FgStart, FgStartFails, DmaDone, Tick
  <2> QED BY <2>1, <2>2, <2>3
<1>4. fg' \in FgRecord /\ bus' \in BusRecord
  <2>1. CASE FgQueueAudio
    <3>1. history.queued \in Audio
      BY <2>1, LinkAssumption DEF FgQueueAudio, HistoryRecord, Audio
    <3>2. Push(fg.queue, history.queued) \in Seq(Audio)
      BY <3>1, QueueTypes DEF FgRecord
    <3> QED BY <2>1, <3>2 DEF FgQueueAudio, FgRecord
  <2>2. CASE FgQueueStatus
    BY <2>2 DEF FgQueueStatus, FgRecord
  <2>3. CASE FgFinish \/ FgFail
    BY <2>3, FgTypes, StartTypes DEF FgFinish, FgFail
  <2>4. CASE DmaDone
    BY <2>4 DEF DmaDone, BusRecord
  <2>5. CASE Tick
    BY <2>5 DEF Tick, FgRecord
  <2>6. CASE FgStart \/ FgStartFails
    <3>1. /\ FgPrepared.frame \in Frame
          /\ FgPrepared.queue \in Seq(Audio)
          /\ FgPrepared.status \in BOOLEAN
      BY QueueTypes DEF FgPrepared, RequestAsserted, FgRecord, Frame, None, Status, Audio
    <3>2. fg' \in FgRecord
      <4>1. CASE FgStart
        BY <4>1, <3>1, FgTypes DEF FgStart
      <4>2. CASE FgStartFails
        BY <4>2, <3>1 DEF FgStartFails, FgRecord
      <4> QED BY <2>6, <4>1, <4>2
    <3>3. bus' \in BusRecord
      BY <2>6, <3>1 DEF FgStart, FgStartFails, BusRecord, Heard, Frame
    <3> QED BY <3>2, <3>3
  <2> QED BY <2>1, <2>2, <2>3, <2>4, <2>5, <2>6
<1> QED BY <1>1, <1>2, <1>3, <1>4

\* The steps that take the RT595 down or let it start.
LEMMA PowerSteps ==
  ASSUME IInv,
         FgTimeout \/ FgRestart \/ RtFault \/ RtWatchdog \/ RtRestart
  PROVE  IInv'
<1> USE DEF Types, IInv
<1>1. history' \in HistoryRecord
  <2>1. CASE FgRestart
    BY <2>1 DEF FgRestart, HistoryRecord
  <2>2. CASE FgTimeout \/ RtFault \/ RtWatchdog \/ RtRestart
    BY <2>2, CountedTypes DEF FgTimeout, RtFault, RtWatchdog, RtRestart
  <2> QED BY <2>1, <2>2
<1>2. fg' \in FgRecord /\ bus' \in BusRecord
  <2>1. CASE FgTimeout
    BY <2>1, FgTypes, StartTypes DEF FgTimeout
  <2>2. CASE FgRestart
    BY <2>2, StartTypes DEF FgRestart
  <2>3. CASE RtFault \/ RtWatchdog \/ RtRestart
    BY <2>3 DEF RtFault, RtWatchdog, RtRestart
  <2> QED BY <2>1, <2>2, <2>3
<1>3. PICK power \in {"reset", "booting", "up", "halted"} :
        rt' = RtIn(power) /\ slave' = Deaf /\ request' = FALSE
  BY DEF FgTimeout, FgRestart, RtFault, RtWatchdog, RtRestart, RtDown
<1> QED BY <1>1, <1>2, <1>3, Downed

\* The reset line is released, and the RT595 starts its main loop.
LEMMA BootSteps ==
  ASSUME IInv, FgReleasePeer \/ RtBoot
  PROVE  IInv'
<1> USE DEF Types, IInv
<1>1. /\ fg' \in FgRecord /\ rt' \in RtRecord
      /\ UNCHANGED <<bus, slave, request, history>>
  <2>1. CASE FgReleasePeer
    <3>1. fg' \in FgRecord
      BY <2>1 DEF FgReleasePeer, FgRecord
    <3>2. rt' \in RtRecord
      BY <2>1 DEF FgReleasePeer, RtRecord
    <3> QED BY <2>1, <3>1, <3>2 DEF FgReleasePeer
  <2>2. CASE RtBoot
    <3>1. rt' \in RtRecord
      BY <2>2 DEF RtBoot, RtRecord
    <3> QED BY <2>2, <3>1 DEF RtBoot
  <2> QED BY <2>1, <2>2
<1>2. rt'.active = rt.active /\ rt'.requested = rt.requested /\ rt'.queue = rt.queue
  <2>1. CASE FgReleasePeer
    BY <2>1 DEF FgReleasePeer, RtRecord
  <2>2. CASE RtBoot
    BY <2>2 DEF RtBoot, RtRecord
  <2> QED BY <2>1, <2>2
<1>3. LineIsCurrent'
  BY <1>1, <1>2, RequestsOf DEF LineIsCurrent
<1>4. ArmedIsRequested'
  BY <1>1, <1>2 DEF ArmedIsRequested
<1> QED BY <1>1, <1>3, <1>4

\* What happens on the wires completes at most the armed transaction.
LEMMA WireSteps ==
  ASSUME IInv, Exchange \/ DmaError
  PROVE  IInv'
<1> USE DEF Types, IInv
<1>1. /\ UNCHANGED <<fg, request, history>>
      /\ bus' \in BusRecord
  BY DEF Exchange, DmaError, BusRecord, SlaveRecord, Heard, Frame
<1>2. bus.tx \in Heard /\ Garbage \in Heard
  BY DEF BusRecord, Heard, Frame
<1>3. \/ UNCHANGED <<rt, slave>>
      \/ \E heard \in Heard : Completes(heard)
      \/ slave' = Deaf /\ rt' = [rt EXCEPT !.completion = "error"]
      \/ slave.state # "idle" /\ slave' = [slave EXCEPT !.state = "skewed"] /\ UNCHANGED rt
  BY <1>2 DEF Exchange, DmaError, SlaveRecord
<1>4. /\ rt' \in RtRecord
      /\ rt'.active = rt.active /\ rt'.requested = rt.requested /\ rt'.queue = rt.queue
  BY <1>3 DEF Completes, RtRecord
<1>5. /\ slave' \in SlaveRecord
      /\ slave'.state = "idle" \/ (slave.state # "idle" /\ slave'.tx = slave.tx)
         \/ slave' = slave
  BY <1>3, StartTypes DEF Completes, SlaveRecord, Deaf
<1>6. LineIsCurrent'
  BY <1>1, <1>4, RequestsOf DEF LineIsCurrent
<1>7. ArmedIsRequested'
  BY <1>4, <1>5 DEF ArmedIsRequested
<1> QED BY <1>1, <1>4, <1>5, <1>6, <1>7

\* A captured frame is queued and announced at once.
LEMMA CaptureStep ==
  ASSUME IInv, RtCapture
  PROVE  IInv'
<1> USE DEF Types, IInv
<1>1. rt.next \in Audio /\ rt.next + 1 \in Nat
  BY LinkAssumption DEF RtCapture, RtRecord, Audio
<1>2. Push(rt.queue, rt.next) \in Seq(Audio)
  BY <1>1, QueueTypes DEF RtRecord
<1>3. /\ rt' \in RtRecord /\ rt'.active = rt.active /\ rt'.requested = rt.requested
      /\ UNCHANGED <<fg, bus, slave, history>>
  BY <1>1, <1>2 DEF RtCapture, RtRecord
<1>4. LineIsCurrent'
  BY DEF RtCapture, LineIsCurrent, Requests, RequestAsserted
<1>5. ArmedIsRequested'
  BY <1>3 DEF ArmedIsRequested
<1> QED BY <1>3, <1>4, <1>5

\* A pass of the main loop takes in a completed transaction and arms the next.
LEMMA PollStep ==
  ASSUME IInv, NEW healthy \in BOOLEAN, RtPoll(healthy)
  PROVE  IInv'
<1> USE DEF Types, IInv
<1> DEFINE received == RtReceived
           armed    == RtArmed(received)
<1>1. /\ received \in RtRecord /\ received.queue = rt.queue
      /\ received.active => rt.active /\ received.requested = rt.requested
  BY DEF RtReceived, RtRecord, SlaveRecord, Heard
<1>2. /\ armed \in RtRecord
      /\ received.active => armed = received
      /\ ~received.active => armed.active /\ armed.requested = (received.queue # <<>>)
  BY <1>1, QueueTypes DEF RtArmed, RtRecord, RequestAsserted
<1>3. /\ rt' \in RtRecord /\ rt'.active = armed.active /\ rt'.queue = armed.queue
      /\ rt'.requested = armed.requested
  BY <1>2 DEF RtPoll, RtRecord
<1>4. history' \in HistoryRecord /\ UNCHANGED <<fg, bus>>
  <2>1. [history EXCEPT !.accepted = @ + 1] \in HistoryRecord
    BY DEF HistoryRecord
  <2>2. Counted(history, 1) \in HistoryRecord
    BY CountedTypes
  <2> QED BY <2>1, <2>2 DEF RtPoll
<1>5. slave' \in SlaveRecord
  <2>1. (IF RequestAsserted(received) THEN Head(received.queue) ELSE Status) \in Frame
    BY <1>1, QueueTypes DEF RtRecord, RequestAsserted, Frame
  <2>2. Status \in Heard
    BY DEF Heard
  <2>3. SlaveArmed(received)
    BY DEF RtPoll
  <2> QED BY <2>1, <2>2, <2>3 DEF SlaveArmed, SlaveRecord
<1>6. LineIsCurrent'
  BY <1>3 DEF RtPoll, LineIsCurrent, Requests, RequestAsserted
<1>7. ArmedIsRequested'
  <2>1. CASE received.active
    BY <1>1, <1>2, <1>3, <2>1 DEF RtPoll, SlaveArmed, ArmedIsRequested
  <2>2. CASE ~received.active
    <3>1. rt'.active /\ rt'.requested = (received.queue # <<>>)
      BY <1>2, <1>3, <2>2
    <3>2. slave'.tx # Status => received.queue # <<>>
      BY <2>2 DEF RtPoll, SlaveArmed, RequestAsserted
    <3> QED BY <3>1, <3>2 DEF ArmedIsRequested
  <2> QED BY <2>1, <2>2
<1> QED BY <1>3, <1>4, <1>5, <1>6, <1>7

\* Every step keeps the invariant.
LEMMA StepInv == IInv /\ [Next]_vars => IInv'
<1> SUFFICES ASSUME IInv, [Next]_vars PROVE IInv'
  OBVIOUS
<1>1. CASE UNCHANGED vars
  BY <1>1 DEF vars, IInv, Types, LineIsCurrent, ArmedIsRequested, Requests, RequestAsserted
<1>2. CASE Next
  BY <1>2, FgSteps, PowerSteps, BootSteps, WireSteps, CaptureStep, PollStep DEF Next
<1> QED BY <1>1, <1>2

\* The invariant says more than the property.
LEMMA InvAnnounces == IInv => WaitingIsAnnounced
<1> SUFFICES ASSUME IInv, NEW n \in Audio, RtHolds(n) PROVE request
  BY DEF WaitingIsAnnounced
<1> USE DEF IInv, Types
<1>1. CASE \E i \in 1..Len(rt.queue) : rt.queue[i] = n
  <2>1. rt.queue # <<>>
    BY <1>1
  <2> QED BY <2>1 DEF LineIsCurrent, Requests, RequestAsserted
<1>2. CASE slave.state # "idle" /\ slave.tx = n
  <2>1. slave.tx # Status
    BY <1>2 DEF Audio, Status
  <2> QED BY <1>2, <2>1 DEF LineIsCurrent, Requests, ArmedIsRequested
<1> QED BY <1>1, <1>2 DEF RtHolds

\* Every frame that waits in the RT595 is announced on AUDIO_REQn.
THEOREM Announced == Spec => []WaitingIsAnnounced
<1> QED BY InitInv, StepInv, InvAnnounces, PTL DEF Spec

----------------------------------------------------------------------------
(* The losses.  Every frame queued is somewhere on its way or in a counter. *)

Prepared(f)  == IF f.prepared \in Audio THEN 1 ELSE 0
Waiting(f)   == Len(f.queue) + Prepared(f)
OnTheWire(b) == IF b.state # "idle" /\ b.tx \in Audio THEN 1 ELSE 0
Taken(r)     == IF r.completion # "none" THEN 1 ELSE 0
Load(f, b, r) == Waiting(f) + OnTheWire(b) + Taken(r)

\* A frame whose transfer the FG23 will report as good counts once more in the RT595;
\* a completion that holds a status stands for no frame.
Passed(b)  == IF b.state \in {"clocked", "done"} /\ b.tx \in Audio /\ b.rx # Garbage THEN 1 ELSE 0
Void(r, s) == IF r.completion = "ok" /\ s.rx = Status THEN 1 ELSE 0

\* The history has its bounds; the counters, unless they are at theirs, account for
\* what is not on its way.
Accounts ==
  /\ history.queued <= MaxFrames
  /\ \/ history.counted = MaxFrames
     \/ history.queued + Passed(bus) + Void(rt, slave)
          <= Load(fg, bus, rt) + history.accepted + history.counted

\* A transfer is active as long as the DMA has it, and a peripheral that is armed has
\* no completion pending.
Transfers ==
  /\ fg.active <=> bus.state # "idle"
  /\ slave.state # "idle" => rt.completion = "none"

\* The terms of the account are numbers.
LEMMA Terms ==
  /\ \A f \in FgRecord : Prepared(f) \in {0, 1} /\ Len(f.queue) \in Nat /\ Waiting(f) \in Nat
  /\ \A b : OnTheWire(b) \in {0, 1} /\ Passed(b) \in {0, 1}
  /\ \A r, s : Taken(r) \in {0, 1} /\ Void(r, s) \in {0, 1}
<1>1. ASSUME NEW f \in FgRecord
      PROVE  Prepared(f) \in {0, 1} /\ Len(f.queue) \in Nat /\ Waiting(f) \in Nat
  <2>1. Prepared(f) \in {0, 1} /\ Len(f.queue) \in Nat
    BY DEF FgRecord, Prepared
  <2> QED BY <2>1 DEF Waiting
<1>2. \A b : OnTheWire(b) \in {0, 1} /\ Passed(b) \in {0, 1}
  BY DEF OnTheWire, Passed
<1>3. \A r, s : Taken(r) \in {0, 1} /\ Void(r, s) \in {0, 1}
  BY DEF Taken, Void
<1> QED BY <1>1, <1>2, <1>3

\* What a step adds to the left it adds to the right.
LEMMA Balanced ==
  ASSUME Types, Types', Accounts, history'.queued <= MaxFrames,
         history.counted = MaxFrames => history'.counted = MaxFrames,
         \/ history'.counted = MaxFrames
         \/ (history'.queued - history.queued) + (Passed(bus') - Passed(bus))
                + (Void(rt', slave') - Void(rt, slave))
              <= (Waiting(fg') - Waiting(fg)) + (OnTheWire(bus') - OnTheWire(bus))
                + (Taken(rt') - Taken(rt)) + (history'.accepted - history.accepted)
                + (history'.counted - history.counted)
  PROVE  Accounts'
<1>1. /\ Waiting(fg) \in Int /\ OnTheWire(bus) \in Int /\ Taken(rt) \in Int
      /\ Passed(bus) \in Int /\ Void(rt, slave) \in Int
      /\ Waiting(fg') \in Int /\ OnTheWire(bus') \in Int /\ Taken(rt') \in Int
      /\ Passed(bus') \in Int /\ Void(rt', slave') \in Int
  BY Terms DEF Types
<1>2. /\ history.queued \in Int /\ history.accepted \in Int /\ history.counted \in Int
      /\ history'.queued \in Int /\ history'.accepted \in Int /\ history'.counted \in Int
  BY DEF Types, HistoryRecord
<1> QED BY <1>1, <1>2 DEF Accounts, Load

\* A loss that is counted, unless the counter is at its bound.
LEMMA CountedGains ==
  ASSUME history \in HistoryRecord, NEW n \in {1, 2}
  PROVE  /\ Counted(history, n).queued = history.queued
         /\ Counted(history, n).accepted = history.accepted
         /\ Counted(history, n).counted \in {history.counted + n, MaxFrames}
         /\ history.counted = MaxFrames => Counted(history, n).counted = MaxFrames
<1>1. history.counted + n \in Nat /\ MaxFrames \in Nat /\ history.counted \in Nat /\ n > 0
  BY LinkAssumption DEF HistoryRecord
<1>2. history.counted = MaxFrames => ~(history.counted + n < MaxFrames)
  BY <1>1
<1> QED BY <1>1, <1>2 DEF Counted, HistoryRecord

\* A queue that is full gives up as many frames as it takes.
LEMMA PushLength ==
  ASSUME NEW q \in Seq(Audio), NEW n \in Audio
  PROVE  Len(Push(q, n)) = IF Full(q) THEN Len(q) ELSE Len(q) + 1
<1>1. CASE Full(q)
  <2>1. q # <<>> /\ Len(q) \in Nat \ {0}
    BY <1>1, LinkAssumption DEF Full
  <2>2. Tail(q) \in Seq(Audio) /\ Len(Tail(q)) = Len(q) - 1
    BY <2>1
  <2> QED BY <1>1, <2>1, <2>2 DEF Push
<1>2. CASE ~Full(q)
  BY <1>2 DEF Push
<1> QED BY <1>1, <1>2

\* A started transfer takes over the frame that waited longest.
LEMMA PreparedLength ==
  ASSUME Types
  PROVE  /\ FgPrepared.queue \in Seq(Audio) /\ FgPrepared.frame \in Frame
         /\ Len(FgPrepared.queue) + (IF FgPrepared.frame \in Audio THEN 1 ELSE 0) = Waiting(fg)
<1>0. fg.queue \in Seq(Audio) /\ fg.prepared \in Frame \cup {None} /\ None \notin Audio
      /\ Status \notin Audio /\ Len(fg.queue) \in Nat
  BY DEF Types, FgRecord, Frame, None, Status, Audio
<1>1. CASE fg.prepared # None
  BY <1>0, <1>1 DEF FgPrepared, Waiting, Prepared, Frame
<1>2. CASE fg.prepared = None /\ fg.queue # <<>>
  <2>1. FgPrepared.frame = Head(fg.queue) /\ FgPrepared.queue = Tail(fg.queue)
    BY <1>2 DEF FgPrepared, RequestAsserted
  <2>2. Head(fg.queue) \in Audio /\ Tail(fg.queue) \in Seq(Audio)
        /\ Len(Tail(fg.queue)) = Len(fg.queue) - 1
    BY <1>0, <1>2
  <2> QED BY <1>0, <1>2, <2>1, <2>2 DEF Waiting, Prepared, Frame
<1>3. CASE fg.prepared = None /\ fg.queue = <<>>
  <2>1. FgPrepared.frame = Status /\ FgPrepared.queue = fg.queue
    BY <1>3 DEF FgPrepared, RequestAsserted
  <2> QED BY <1>0, <1>3, <2>1 DEF Waiting, Prepared, Frame
<1> QED BY <1>1, <1>2, <1>3

\* The FG23 puts a frame into its queue, or the oldest one out of it and counts it.
LEMMA QueueAccounts ==
  ASSUME Types, Types', Accounts, FgQueueAudio
  PROVE  Accounts'
<1> DEFINE before == IF Full(fg.queue) THEN Counted(history, 1) ELSE history
<1>1. /\ history.queued \in Audio /\ history.queued < MaxFrames
      /\ history.queued \in Nat /\ history.accepted \in Nat /\ history.counted \in Nat /\ MaxFrames \in Nat
      /\ fg.queue \in Seq(Audio) /\ fg \in FgRecord
  BY LinkAssumption DEF FgQueueAudio, Types, HistoryRecord, Audio, FgRecord
<1>2. fg'.prepared = fg.prepared /\ fg'.queue = Push(fg.queue, history.queued)
      /\ UNCHANGED <<bus, rt, slave>>
  BY <1>1 DEF FgQueueAudio, FgRecord
<1>3. Waiting(fg') = IF Full(fg.queue) THEN Waiting(fg) ELSE Waiting(fg) + 1
  <2>1. Prepared(fg') = Prepared(fg) /\ Prepared(fg) \in {0, 1} /\ Len(fg.queue) \in Nat
    BY <1>1, <1>2, Terms DEF Prepared
  <2>2. Len(fg'.queue) = IF Full(fg.queue) THEN Len(fg.queue) ELSE Len(fg.queue) + 1
    BY <1>1, <1>2, PushLength
  <2> QED BY <2>1, <2>2 DEF Waiting
<1>4. /\ before \in HistoryRecord /\ before.queued = history.queued
      /\ before.accepted = history.accepted
      /\ ~Full(fg.queue) => before.counted = history.counted
      /\ Full(fg.queue) => before.counted \in {history.counted + 1, MaxFrames}
      /\ history.counted = MaxFrames => before.counted = MaxFrames
  BY CountedTypes, CountedGains DEF Types
<1>5. history' = [before EXCEPT !.queued = @ + 1]
  BY DEF FgQueueAudio
<1>6. /\ history'.queued = history.queued + 1 /\ history'.accepted = history.accepted
      /\ history'.counted = before.counted
  BY <1>4, <1>5 DEF HistoryRecord
<1>7. Waiting(fg) \in Nat
  BY <1>1, Terms
<1> HIDE DEF before
<1>8. history'.queued <= MaxFrames
  BY <1>1, <1>6
<1>9. history'.counted = MaxFrames
        \/ (history'.queued - history.queued) <= (Waiting(fg') - Waiting(fg)) + (history'.counted - history.counted)
  BY <1>1, <1>3, <1>4, <1>6, <1>7
<1>10. /\ OnTheWire(bus) \in Nat /\ Passed(bus) \in Nat /\ Taken(rt) \in Nat /\ Void(rt, slave) \in Nat
       /\ Waiting(fg') \in Int /\ history'.counted \in Int
  BY Terms DEF Types, HistoryRecord
<1> QED BY <1>1, <1>2, <1>4, <1>6, <1>7, <1>8, <1>9, <1>10, Balanced

\* The FG23's other steps move frames, or count the one that they give up.
LEMMA FgAccounts ==
  ASSUME Types, Types', Transfers, Accounts,
         FgQueueStatus \/ FgReleasePeer \/ FgFinish \/ FgFail \/ FgStart \/ FgStartFails \/ Tick
  PROVE  Accounts'
<1>1. /\ history.queued \in Nat /\ history.accepted \in Nat /\ history.counted \in Nat
      /\ MaxFrames \in Nat /\ history.queued <= MaxFrames
      /\ fg \in FgRecord /\ bus \in BusRecord /\ Status \notin Audio
      /\ Waiting(fg) \in Nat /\ Taken(rt) \in {0, 1} /\ Void(rt, slave) \in {0, 1}
      /\ OnTheWire(bus) \in {0, 1} /\ Passed(bus) \in {0, 1}
  BY LinkAssumption, Terms DEF Types, HistoryRecord, Accounts, Status, Audio
<1>2. Taken(rt') = Taken(rt) /\ Void(rt', slave') = Void(rt, slave)
  BY DEF FgQueueStatus, FgReleasePeer, FgFinish, FgFail, FgStart, FgStartFails, Tick,
         Types, RtRecord, Taken, Void
<1>3. CASE FgQueueStatus \/ FgReleasePeer \/ Tick
  <2>1. fg'.queue = fg.queue /\ fg'.prepared = fg.prepared /\ UNCHANGED <<bus, history>>
    BY <1>1, <1>3 DEF FgQueueStatus, FgReleasePeer, Tick, FgRecord
  <2>2. Waiting(fg') = Waiting(fg)
    BY <2>1 DEF Waiting, Prepared
  <2> QED BY <1>1, <1>2, <2>1, <2>2, Balanced
<1>4. CASE FgFinish \/ FgFail
  <2>1. fg'.queue = fg.queue /\ fg'.prepared = fg.prepared /\ bus' = Quiet
    BY <1>1, <1>4 DEF FgFinish, FgFail, FgRecord
  <2>2. Waiting(fg') = Waiting(fg)
    BY <2>1 DEF Waiting, Prepared
  <2>3. OnTheWire(bus') = 0 /\ Passed(bus') = 0
    BY <2>1 DEF OnTheWire, Passed, Quiet
  <2>4. CASE history' = Counted(history, 1)
    BY <1>1, <1>2, <2>2, <2>3, <2>4, CountedGains, Balanced DEF Types
  <2>5. CASE history' = history /\ bus.state = "done" /\ bus.rx # Garbage
    <3>1. OnTheWire(bus) = Passed(bus)
      BY <2>5 DEF OnTheWire, Passed
    <3> QED BY <1>1, <1>2, <2>2, <2>3, <2>5, <3>1, Balanced
  <2> QED BY <1>4, <2>4, <2>5 DEF FgFinish, FgFail
<1>5. CASE FgStart
  <2>1. /\ fg'.queue = FgPrepared.queue /\ fg'.prepared = None
        /\ bus' = [state |-> "running", tx |-> FgPrepared.frame, rx |-> Status]
        /\ history' = history /\ bus.state = "idle"
    BY <1>1, <1>5 DEF FgStart, FgWantsTransfer, FgRecord, Transfers
  <2>2. OnTheWire(bus) = 0 /\ Passed(bus) = 0 /\ Passed(bus') = 0
    BY <2>1 DEF OnTheWire, Passed
  <2>3. OnTheWire(bus') = IF FgPrepared.frame \in Audio THEN 1 ELSE 0
    BY <2>1 DEF OnTheWire
  <2>4. Waiting(fg') = Len(FgPrepared.queue)
    BY <2>1, PreparedLength DEF Waiting, Prepared, None, Audio
  <2>5. Waiting(fg') + OnTheWire(bus') = Waiting(fg)
    BY <2>3, <2>4, PreparedLength
  <2>6. Waiting(fg') \in Int /\ OnTheWire(bus') \in Int
    BY Terms DEF Types
  <2> QED BY <1>1, <1>2, <2>1, <2>2, <2>5, <2>6, Balanced
<1>6. CASE FgStartFails
  <2>1. /\ fg'.queue = FgPrepared.queue /\ fg'.prepared = FgPrepared.frame
        /\ UNCHANGED <<bus, history>>
    BY <1>1, <1>6 DEF FgStartFails, FgRecord
  <2>2. Waiting(fg') = Waiting(fg)
    BY <2>1, PreparedLength DEF Waiting, Prepared
  <2> QED BY <1>1, <1>2, <2>1, <2>2, Balanced
<1> QED BY <1>3, <1>4, <1>5, <1>6

\* On the wires a frame is passed on, spoilt or left to the error that ends its transfer.
LEMMA WireAccounts ==
  ASSUME Types, Types', Transfers, Accounts, Exchange \/ DmaDone \/ DmaError
  PROVE  Accounts'
<1>1. /\ history.queued \in Nat /\ history.accepted \in Nat /\ history.counted \in Nat
      /\ MaxFrames \in Nat /\ history.queued <= MaxFrames
      /\ bus \in BusRecord /\ rt \in RtRecord /\ slave \in SlaveRecord
      /\ Status \notin Audio /\ Garbage \notin Audio /\ Status # Garbage
      /\ Waiting(fg) \in Nat /\ Taken(rt) \in {0, 1} /\ Void(rt, slave) \in {0, 1}
      /\ OnTheWire(bus) \in {0, 1} /\ Passed(bus) \in {0, 1}
  BY LinkAssumption, Terms DEF Types, HistoryRecord, Accounts, Status, Garbage, Audio
<1>2. /\ UNCHANGED <<fg, history>> /\ bus'.tx = bus.tx
      /\ bus.state # "idle" /\ bus'.state # "idle"
  BY <1>1 DEF Exchange, DmaDone, DmaError, BusRecord
<1>3. OnTheWire(bus') = OnTheWire(bus)
  BY <1>2 DEF OnTheWire
<1>4. Taken(rt') \in {0, 1} /\ Void(rt', slave') \in {0, 1} /\ Passed(bus') \in {0, 1}
  BY Terms
<1>5. SUFFICES Passed(bus') + Void(rt', slave') + Taken(rt) <= Passed(bus) + Void(rt, slave) + Taken(rt')
  BY <1>1, <1>2, <1>3, <1>4, Balanced
<1>6. CASE DmaDone
  <2>1. UNCHANGED <<rt, slave>> /\ bus.state = "clocked" /\ bus'.state = "done" /\ bus'.rx = bus.rx
    BY <1>1, <1>6 DEF DmaDone, BusRecord
  <2>2. Passed(bus') = Passed(bus)
    BY <1>2, <2>1 DEF Passed
  <2> QED BY <1>1, <2>1, <2>2
<1>7. ASSUME NEW heard \in Heard, Completes(heard), rt.completion = "none"
      PROVE  /\ Taken(rt) = 0 /\ Taken(rt') = 1 /\ Void(rt, slave) = 0
             /\ Void(rt', slave') = IF heard = Status THEN 1 ELSE 0
  <2>1. rt'.completion = "ok" /\ slave'.rx = heard
    BY <1>1, <1>7 DEF Completes, RtRecord, Deaf
  <2> QED BY <1>7, <2>1 DEF Taken, Void
<1>8. CASE Exchange
  <2>1. bus.state = "running" /\ Passed(bus) = 0
    BY <1>8 DEF Exchange, Passed
  <2>2. CASE slave.state = "armed"
    <3>1. rt.completion = "none"
      BY <2>2 DEF Transfers
    <3>2. PICK heard \in {bus.tx, Garbage} : Completes(heard)
      BY <1>8, <2>2 DEF Exchange
    <3>3. heard \in Heard
      BY <1>1, <3>2 DEF BusRecord, Heard, Frame
    <3>4. Passed(bus') = 1 => bus.tx \in Audio
      BY <1>2 DEF Passed
    <3>5. heard = Status => bus.tx \notin Audio
      BY <1>1, <3>2
    <3> QED BY <1>4, <1>7, <2>1, <3>1, <3>2, <3>3, <3>4, <3>5
  <2>3. CASE slave.state # "armed"
    <3>1. bus'.rx = Garbage
      BY <1>1, <1>8, <2>3 DEF Exchange, BusRecord
    <3>2. Passed(bus') = 0
      BY <3>1 DEF Passed
    <3>3. CASE slave.state = "skewed"
      <4>1. Completes(Garbage) /\ rt.completion = "none" /\ Garbage \in Heard
        BY <1>8, <3>3 DEF Exchange, Transfers, Heard
      <4> QED BY <1>1, <1>7, <2>1, <3>2, <4>1
    <3>4. CASE slave.state # "skewed"
      <4>1. rt' = rt /\ slave'.rx = slave.rx
        BY <1>1, <1>8, <2>3, <3>4 DEF Exchange, SlaveRecord
      <4>2. Taken(rt') = Taken(rt) /\ Void(rt', slave') = Void(rt, slave)
        BY <4>1 DEF Taken, Void
      <4> QED BY <1>1, <2>1, <3>2, <4>2
    <3> QED BY <3>3, <3>4
  <2> QED BY <2>2, <2>3
<1>9. CASE DmaError
  <2>1. Passed(bus) = 0 /\ Passed(bus') = 0
    BY <1>1, <1>9 DEF DmaError, Passed, BusRecord
  <2>2. CASE Completes(bus.tx) /\ slave.state = "armed"
    <3>1. rt.completion = "none" /\ bus.tx \in Heard
      BY <1>1, <2>2 DEF Transfers, BusRecord, Heard, Frame
    <3> QED BY <1>4, <1>7, <2>1, <2>2, <3>1
  <2>3. CASE slave.state # "idle" /\ rt' = [rt EXCEPT !.completion = "error"]
    <3>1. rt'.completion = "error" /\ rt.completion = "none"
      BY <1>1, <2>3 DEF RtRecord, Transfers
    <3>2. Taken(rt) = 0 /\ Taken(rt') = 1 /\ Void(rt', slave') = 0
      BY <3>1 DEF Taken, Void
    <3> QED BY <1>1, <2>1, <3>2
  <2>4. CASE rt' = rt /\ slave'.rx = slave.rx
    <3>1. Taken(rt') = Taken(rt) /\ Void(rt', slave') = Void(rt, slave)
      BY <2>4 DEF Taken, Void
    <3> QED BY <1>1, <2>1, <3>1
  <2> QED BY <1>1, <1>9, <2>2, <2>3, <2>4 DEF DmaError, SlaveRecord
<1> QED BY <1>6, <1>8, <1>9

\* The RT595 accepts what it heard, counts what it cannot decode and drops a status.
LEMMA RtAccounts ==
  ASSUME Types, Types', Accounts, RtBoot \/ RtCapture \/ \E healthy \in BOOLEAN : RtPoll(healthy)
  PROVE  Accounts'
<1>1. /\ history.queued \in Nat /\ history.accepted \in Nat /\ history.counted \in Nat
      /\ MaxFrames \in Nat /\ history.queued <= MaxFrames
      /\ rt \in RtRecord /\ slave \in SlaveRecord
      /\ Waiting(fg) \in Nat /\ Taken(rt) \in {0, 1} /\ Void(rt, slave) \in {0, 1}
      /\ OnTheWire(bus) \in {0, 1} /\ Passed(bus) \in {0, 1}
  BY LinkAssumption, Terms DEF Types, HistoryRecord, Accounts
<1>2. UNCHANGED <<fg, bus>>
  BY DEF RtBoot, RtCapture, RtPoll
<1>3. CASE RtBoot \/ RtCapture
  <2>1. rt'.completion = rt.completion /\ slave' = slave /\ history' = history
    BY <1>1, <1>3 DEF RtBoot, RtCapture, RtRecord
  <2>2. Taken(rt') = Taken(rt) /\ Void(rt', slave') = Void(rt, slave)
    BY <2>1 DEF Taken, Void
  <2> QED BY <1>1, <1>2, <2>1, <2>2, Balanced
<1>4. ASSUME NEW healthy \in BOOLEAN, RtPoll(healthy)
      PROVE  Accounts'
  <2>1. rt'.completion = "none"
    <3>1. RtReceived \in RtRecord /\ RtReceived.completion = "none"
      BY <1>1 DEF RtReceived, RtRecord, SlaveRecord, Heard
    <3>2. RtArmed(RtReceived) \in RtRecord /\ RtArmed(RtReceived).completion = "none"
      BY <3>1, QueueTypes DEF RtArmed, RtRecord, RequestAsserted
    <3> QED BY <1>4, <3>2 DEF RtPoll, RtRecord
  <2>2. Taken(rt') = 0 /\ Void(rt', slave') = 0
    BY <2>1 DEF Taken, Void
  <2>3. rt.completion \in {"none", "ok"}
    BY <1>1, <1>4 DEF RtPoll, RtRecord
  <2>4. CASE rt.completion = "ok" /\ slave.rx \in Audio
    <3>1. history' = [history EXCEPT !.accepted = @ + 1]
      BY <1>4, <2>4 DEF RtPoll
    <3>2. /\ history'.queued = history.queued /\ history'.counted = history.counted
          /\ history'.accepted = history.accepted + 1
      BY <3>1 DEF Types, HistoryRecord
    <3> QED BY <1>1, <1>2, <2>2, <3>2, Balanced
  <2>5. CASE rt.completion = "ok" /\ slave.rx = Garbage
    <3>1. history' = Counted(history, 1)
      BY <1>4, <2>5 DEF RtPoll, Garbage, Audio
    <3> QED BY <1>1, <1>2, <2>2, <3>1, CountedGains, Balanced DEF Types
  <2>6. CASE rt.completion = "ok" /\ slave.rx = Status
    <3>1. history' = history
      BY <1>4, <2>6 DEF RtPoll, Garbage, Status, Audio
    <3>2. Void(rt, slave) = 1
      BY <2>6 DEF Void
    <3> QED BY <1>1, <1>2, <2>2, <3>1, <3>2, Balanced
  <2>7. CASE rt.completion = "none"
    <3>1. history' = history
      BY <1>4, <2>7 DEF RtPoll
    <3>2. Taken(rt) = 0 /\ Void(rt, slave) = 0
      BY <2>7 DEF Taken, Void
    <3> QED BY <1>1, <1>2, <2>2, <3>1, <3>2, Balanced
  <2> QED BY <1>1, <2>3, <2>4, <2>5, <2>6, <2>7 DEF SlaveRecord, Heard
<1> QED BY <1>3, <1>4

\* A processor that goes down takes at most what is counted with it.
LEMMA DownAccounts ==
  ASSUME Types, Types', Accounts,
         FgTimeout \/ FgRestart \/ RtFault \/ RtWatchdog \/ RtRestart
  PROVE  Accounts'
<1>1. /\ history.queued \in Nat /\ history.accepted \in Nat /\ history.counted \in Nat
      /\ MaxFrames \in Nat /\ history.queued <= MaxFrames /\ fg \in FgRecord
      /\ Waiting(fg) \in Nat /\ Taken(rt) \in {0, 1} /\ Void(rt, slave) \in {0, 1}
      /\ OnTheWire(bus) \in {0, 1} /\ Passed(bus) \in {0, 1}
  BY LinkAssumption, Terms DEF Types, HistoryRecord, Accounts
<1>2. PICK power \in {"reset", "booting", "up", "halted"} : rt' = RtIn(power) /\ slave' = Deaf
  BY DEF FgTimeout, FgRestart, RtFault, RtWatchdog, RtRestart, RtDown
<1>3. Taken(rt') = 0 /\ Void(rt', slave') = 0
  BY <1>2 DEF Taken, Void, RtIn
<1>4. CASE FgTimeout
  <2>1. fg'.queue = fg.queue /\ fg'.prepared = fg.prepared /\ bus' = Quiet
        /\ history' = Counted(history, 2)
    BY <1>1, <1>4 DEF FgTimeout, FgRecord
  <2>2. Waiting(fg') = Waiting(fg)
    BY <2>1 DEF Waiting, Prepared
  <2>3. OnTheWire(bus') = 0 /\ Passed(bus') = 0
    BY <2>1 DEF OnTheWire, Passed, Quiet
  <2> QED BY <1>1, <1>3, <2>1, <2>2, <2>3, CountedGains, Balanced DEF Types
<1>5. CASE FgRestart
  <2>1. history'.queued = 0 /\ history'.accepted = 0 /\ history'.counted = 0 /\ bus' = Quiet
    BY <1>5 DEF FgRestart
  <2>2. OnTheWire(bus') \in {0, 1} /\ Passed(bus') = 0 /\ Waiting(fg') \in Nat
    BY <2>1, Terms DEF Passed, Quiet, Types
  <2> QED BY <1>1, <1>3, <2>1, <2>2 DEF Accounts, Load
<1>6. CASE RtFault \/ RtWatchdog \/ RtRestart
  <2>1. UNCHANGED <<fg, bus>> /\ history' = Counted(history, 1)
    BY <1>6 DEF RtFault, RtWatchdog, RtRestart
  <2> QED BY <1>1, <1>3, <2>1, CountedGains, Balanced DEF Types
<1> QED BY <1>4, <1>5, <1>6

\* Transfers start on a quiet bus and end on one; a peripheral is armed for one
\* transaction at a time.
LEMMA StepTransfers ==
  ASSUME Types, Types', Transfers, [Next]_vars
  PROVE  Transfers'
<1>1. fg \in FgRecord /\ bus \in BusRecord /\ rt \in RtRecord /\ slave \in SlaveRecord
  BY DEF Types
<1>2. CASE FgQueueAudio \/ FgQueueStatus \/ FgReleasePeer \/ FgStartFails \/ Tick
  <2>1. fg'.active = fg.active /\ UNCHANGED <<bus, slave>> /\ rt'.completion = rt.completion
    BY <1>1, <1>2 DEF FgQueueAudio, FgQueueStatus, FgReleasePeer, FgStartFails, Tick, FgRecord, RtRecord
  <2> QED BY <2>1 DEF Transfers
<1>3. CASE FgFinish \/ FgFail
  <2>1. fg'.active = FALSE /\ bus' = Quiet /\ UNCHANGED <<slave, rt>>
    BY <1>1, <1>3 DEF FgFinish, FgFail, FgRecord
  <2> QED BY <2>1 DEF Transfers, Quiet
<1>4. CASE FgStart
  <2>1. fg'.active = TRUE /\ bus'.state = "running" /\ UNCHANGED <<slave, rt>>
    BY <1>1, <1>4 DEF FgStart, FgRecord
  <2> QED BY <2>1 DEF Transfers
<1>5. CASE FgTimeout \/ FgRestart
  <2>1. fg'.active = FALSE
    <3>1. CASE FgTimeout
      BY <1>1, <3>1 DEF FgTimeout, FgRecord
    <3>2. CASE FgRestart
      BY <3>2 DEF FgRestart, FgStarted
    <3> QED BY <1>5, <3>1, <3>2
  <2>2. bus' = Quiet /\ slave' = Deaf
    BY <1>5 DEF FgTimeout, FgRestart, RtDown
  <2> QED BY <2>1, <2>2 DEF Transfers, Quiet, Deaf
<1>6. CASE RtFault \/ RtWatchdog \/ RtRestart
  <2>1. slave' = Deaf /\ UNCHANGED <<fg, bus>>
    BY <1>6 DEF RtFault, RtWatchdog, RtRestart, RtDown
  <2> QED BY <2>1 DEF Transfers, Deaf
<1>7. CASE Exchange \/ DmaDone \/ DmaError
  <2>1. fg' = fg /\ bus.state # "idle" /\ bus'.state # "idle"
    BY <1>1, <1>7 DEF Exchange, DmaDone, DmaError, BusRecord
  <2>2. slave'.state = "idle" \/ (rt' = rt /\ (slave' = slave \/ slave.state # "idle"))
    <3>1. ASSUME NEW heard, Completes(heard) PROVE slave'.state = "idle"
      BY <3>1 DEF Completes, Deaf
    <3>2. CASE Exchange
      BY <1>1, <3>1, <3>2 DEF Exchange, SlaveRecord
    <3>3. CASE DmaDone
      BY <3>3 DEF DmaDone
    <3>4. CASE DmaError
      BY <1>1, <3>1, <3>4 DEF DmaError, Deaf, SlaveRecord
    <3> QED BY <1>7, <3>2, <3>3, <3>4
  <2> QED BY <2>1, <2>2 DEF Transfers
<1>8. CASE RtBoot \/ RtCapture
  <2>1. UNCHANGED <<fg, bus, slave>> /\ rt'.completion = rt.completion
    BY <1>1, <1>8 DEF RtBoot, RtCapture, RtRecord
  <2> QED BY <2>1 DEF Transfers
<1>9. ASSUME NEW healthy \in BOOLEAN, RtPoll(healthy)
      PROVE  Transfers'
  <2>1. RtReceived \in RtRecord /\ RtReceived.completion = "none"
    BY <1>1 DEF RtReceived, RtRecord, SlaveRecord, Heard
  <2>2. RtArmed(RtReceived) \in RtRecord /\ RtArmed(RtReceived).completion = "none"
    BY <2>1, QueueTypes DEF RtArmed, RtRecord, RequestAsserted
  <2>3. rt'.completion = "none" /\ UNCHANGED <<fg, bus>>
    BY <1>9, <2>2 DEF RtPoll, RtRecord
  <2> QED BY <2>3 DEF Transfers
<1>10. CASE UNCHANGED vars
  BY <1>10 DEF vars, Transfers
<1> QED BY <1>2, <1>3, <1>4, <1>5, <1>6, <1>7, <1>8, <1>9, <1>10 DEF Next

\* Every step keeps the account.
LEMMA StepAccounts ==
  ASSUME Types, Types', Transfers, Accounts, [Next]_vars
  PROVE  Accounts'
<1>1. CASE UNCHANGED vars
  BY <1>1 DEF vars, Accounts, Load
<1>2. CASE Next
  BY <1>2, QueueAccounts, FgAccounts, WireAccounts, RtAccounts, DownAccounts DEF Next
<1> QED BY <1>1, <1>2

\* It starts balanced.
LEMMA InitAccounts ==
  ASSUME Init
  PROVE  Transfers /\ Accounts
<1>1. /\ fg.queue = <<>> /\ fg.prepared = None /\ fg.active = FALSE /\ bus = Quiet /\ slave = Deaf
      /\ rt.completion = "none" /\ history.queued = 0 /\ history.accepted = 0 /\ history.counted = 0
  BY DEF Init, FgStarted, RtIn
<1>2. Waiting(fg) = 0 /\ OnTheWire(bus) = 0 /\ Taken(rt) = 0 /\ Passed(bus) = 0 /\ Void(rt, slave) = 0
  BY <1>1 DEF Waiting, Prepared, OnTheWire, Taken, Passed, Void, None, Audio, Quiet
<1>3. MaxFrames \in Nat
  BY LinkAssumption
<1> QED BY <1>1, <1>2, <1>3 DEF Transfers, Accounts, Load, Quiet, Deaf

\* A frame that openref_audio_fg23_queue took is on its way, was accepted by the RT595
\* or is accounted for by a counter of either side, whatever overruns, failed and
\* spoilt transfers, timeouts, faults and resets it meets.
THEOREM NoSilentLoss == Spec => []LossesAreCounted
<1> DEFINE Inv == IInv /\ Transfers /\ Accounts
<1>1. Init => Inv
  BY InitInv, InitAccounts
<1>2. Inv /\ [Next]_vars => Inv'
  BY StepInv, StepTransfers, StepAccounts DEF IInv
<1>3. Inv => LossesAreCounted
  <2> SUFFICES ASSUME Types, Accounts PROVE LossesAreCounted
    BY DEF IInv
  <2>1. /\ Waiting(fg) \in Nat /\ OnTheWire(bus) \in Nat /\ Taken(rt) \in Nat
        /\ Passed(bus) \in Nat /\ Void(rt, slave) \in Nat
        /\ history.queued \in Nat /\ history.accepted \in Nat /\ history.counted \in Nat
    BY Terms DEF Types, HistoryRecord
  <2>2. Underway = Waiting(fg) + OnTheWire(bus) + Taken(rt)
    BY DEF Underway, Waiting, Prepared, OnTheWire, Taken
  <2> QED BY <2>1, <2>2 DEF Accounts, Load, LossesAreCounted
<1> QED BY <1>1, <1>2, <1>3, PTL DEF Spec

----------------------------------------------------------------------------
(* The order.  What the runtime heard last, what is on the wire, what is   *)
(* prepared and what is queued are, in this order, ascending.              *)

\* The latest frame the RT595 has, polled or still in the completed transaction.
LastHeard(r, s) == IF r.completion = "ok" /\ s.rx \in Audio THEN s.rx ELSE r.last

Ascending(q) == \A i, j \in 1..Len(q) : i < j => q[i] < q[j]
Between(q, low, top) == \A i \in 1..Len(q) : low < q[i] /\ q[i] < top

\* A frame that goes before everything in the queue.
GoesFirst(n, f, low, top) == low < n /\ n < top /\ Between(f.queue, n, top)

Coming(b) == b.state = "running" /\ b.tx \in Audio

\* The part that is about the RT595: a completed transaction brings a newer frame.
BringsNewer(r, s) == r.completion = "ok" /\ s.rx \in Audio => r.last < s.rx

\* The part that is about the FG23, above what the RT595 has heard.
Sent(f, b, low, top) ==
  /\ low < top
  /\ Ascending(f.queue) /\ Between(f.queue, low, top)
  /\ Coming(b) => GoesFirst(b.tx, f, low, top)
  /\ f.prepared \in Audio => ~f.active /\ GoesFirst(f.prepared, f, low, top)

Ordered ==
  /\ BringsNewer(rt, slave)
  /\ Sent(fg, bus, LastHeard(rt, slave), history.queued)

\* A queue stays ascending when its oldest frame leaves, by a pop or an overrun, and
\* when a frame above all of it is pushed.
LEMMA QueueOrder ==
  ASSUME NEW q \in Seq(Audio), NEW low \in Int, NEW top \in Int,
         Ascending(q), Between(q, low, top)
  PROVE  /\ q # <<>> => /\ low < Head(q) /\ Head(q) < top
                        /\ Ascending(Tail(q)) /\ Between(Tail(q), Head(q), top)
                        /\ Between(Tail(q), low, top)
         /\ top \in Audio /\ low < top =>
              Ascending(Append(q, top)) /\ Between(Append(q, top), low, top + 1)
<1>1. \A i \in 1..Len(q) : q[i] \in Int
  BY LinkAssumption DEF Audio
<1>2. ASSUME q # <<>>
      PROVE  /\ low < Head(q) /\ Head(q) < top
             /\ Ascending(Tail(q)) /\ Between(Tail(q), Head(q), top)
             /\ Between(Tail(q), low, top)
  <2>1. /\ Head(q) = q[1] /\ 1 \in 1..Len(q)
        /\ Len(Tail(q)) = Len(q) - 1
        /\ \A i \in 1..Len(Tail(q)) : Tail(q)[i] = q[i + 1] /\ i + 1 \in 1..Len(q) /\ 1 < i + 1
    BY <1>2
  <2>2. low < Head(q) /\ Head(q) < top
    BY <2>1 DEF Between
  <2>3. Ascending(Tail(q))
    BY <2>1 DEF Ascending
  <2>4. Between(Tail(q), Head(q), top) /\ Between(Tail(q), low, top)
    BY <2>1 DEF Between, Ascending
  <2> QED BY <2>2, <2>3, <2>4
<1>3. ASSUME top \in Audio, low < top
      PROVE  Ascending(Append(q, top)) /\ Between(Append(q, top), low, top + 1)
  <2>1. /\ Len(Append(q, top)) = Len(q) + 1
        /\ \A i \in 1..Len(q) : Append(q, top)[i] = q[i]
        /\ Append(q, top)[Len(q) + 1] = top
    BY <1>3
  <2>2. Len(q) \in Nat
    OBVIOUS
  <2>3. Ascending(Append(q, top))
    BY <1>1, <2>1, <2>2 DEF Ascending, Between
  <2>4. Between(Append(q, top), low, top + 1)
    BY <1>1, <1>3, <2>1, <2>2 DEF Between
  <2> QED BY <2>3, <2>4
<1> QED BY <1>2, <1>3

\* A new frame goes behind all the others, also when it pushes the oldest one out.
LEMMA PushOrder ==
  ASSUME NEW q \in Seq(Audio), NEW low \in Int, NEW top \in Audio, low < top,
         Ascending(q), Between(q, low, top)
  PROVE  Ascending(Push(q, top)) /\ Between(Push(q, top), low, top + 1)
<1>1. top \in Int
  BY LinkAssumption DEF Audio
<1>2. CASE Full(q)
  <2>1. q # <<>> /\ Tail(q) \in Seq(Audio)
    BY <1>2, LinkAssumption, QueueTypes DEF Full
  <2>2. Ascending(Tail(q)) /\ Between(Tail(q), low, top)
    BY <1>1, <2>1, QueueOrder
  <2> QED BY <1>1, <1>2, <2>1, <2>2, QueueOrder DEF Push
<1>3. CASE ~Full(q)
  BY <1>1, <1>3, QueueOrder DEF Push
<1> QED BY <1>2, <1>3

\* What prepare_tx takes goes before everything it leaves in the queue.
LEMMA PreparedOrder ==
  ASSUME Types, NEW low \in Int, NEW top \in Int, Sent(fg, bus, low, top)
  PROVE  /\ Ascending(FgPrepared.queue) /\ Between(FgPrepared.queue, low, top)
         /\ FgPrepared.frame \in Audio =>
              /\ low < FgPrepared.frame /\ FgPrepared.frame < top
              /\ Between(FgPrepared.queue, FgPrepared.frame, top)
<1>1. fg \in FgRecord /\ fg.queue \in Seq(Audio) /\ fg.prepared \in Frame \cup {None}
  BY DEF Types, FgRecord
<1>2. Ascending(fg.queue) /\ Between(fg.queue, low, top)
  BY DEF Sent
<1>3. CASE fg.prepared # None
  <2>1. FgPrepared.frame = fg.prepared /\ FgPrepared.queue = fg.queue
    BY <1>3 DEF FgPrepared
  <2> QED BY <1>2, <2>1 DEF Sent, GoesFirst
<1>4. CASE fg.prepared = None /\ fg.queue # <<>>
  <2>1. FgPrepared.frame = Head(fg.queue) /\ FgPrepared.queue = Tail(fg.queue)
    BY <1>4 DEF FgPrepared, RequestAsserted
  <2> QED BY <1>1, <1>2, <1>4, <2>1, QueueOrder
<1>5. CASE fg.prepared = None /\ fg.queue = <<>>
  <2>1. FgPrepared.frame = Status /\ FgPrepared.queue = fg.queue
    BY <1>5 DEF FgPrepared, RequestAsserted
  <2>2. Status \notin Audio
    BY LinkAssumption DEF Status, Audio
  <2> QED BY <1>2, <2>1, <2>2
<1> QED BY <1>3, <1>4, <1>5

\* Frames and the latest frame heard are numbers.
LEMMA Numbers ==
  ASSUME Types
  PROVE  /\ LastHeard(rt, slave) \in Int /\ rt.last \in Int /\ history.queued \in Int
         /\ bus.tx \in Int /\ fg.prepared \in Int
         /\ \A i \in 1..Len(fg.queue) : fg.queue[i] \in Int
<1>1. \A n \in Audio \cup {Status, None} : n \in Int
  BY LinkAssumption DEF Audio, Status, None
<1>2. rt.last \in Audio \cup {None} /\ history.queued \in Int
  BY DEF Types, RtRecord, HistoryRecord
<1>3. bus.tx \in Frame /\ fg.prepared \in Frame \cup {None} /\ fg.queue \in Seq(Audio)
  BY DEF Types, BusRecord, FgRecord
<1> QED BY <1>1, <1>2, <1>3 DEF LastHeard, Frame

\* The order holds when the RT595 has heard less, a transfer is over, or nothing moved.
LEMMA OrderStays ==
  ASSUME Types, Types', Ordered,
         fg'.queue = fg.queue, fg'.prepared = fg.prepared, fg'.active => fg.active,
         Coming(bus') => Coming(bus) /\ bus'.tx = bus.tx,
         history'.queued = history.queued,
         BringsNewer(rt', slave'), LastHeard(rt', slave') <= LastHeard(rt, slave)
  PROVE  Ordered'
<1> DEFINE low   == LastHeard(rt, slave)
           lower == LastHeard(rt', slave')
           top   == history.queued
<1>1. Sent(fg, bus, low, top)
  BY DEF Ordered
<1>2. low \in Int /\ lower \in Int /\ top \in Int /\ bus.tx \in Int /\ fg.prepared \in Int
      /\ \A i \in 1..Len(fg.queue) : fg.queue[i] \in Int
  <2>1. LastHeard(rt', slave') \in Int
    <3>1. \A n \in Audio \cup {None} : n \in Int
      BY LinkAssumption DEF Audio, None
    <3>2. rt'.last \in Audio \cup {None}
      BY DEF Types, RtRecord
    <3> QED BY <3>1, <3>2 DEF LastHeard
  <2> QED BY <2>1, Numbers
<1>3. lower <= low
  OBVIOUS
<1> HIDE DEF low, lower, top
<1>4. lower < top /\ Ascending(fg'.queue) /\ Between(fg'.queue, lower, top)
  BY <1>1, <1>2, <1>3 DEF Sent, Between
<1>5. \A n \in Int : GoesFirst(n, fg, low, top) => GoesFirst(n, fg', lower, top)
  BY <1>2, <1>3 DEF GoesFirst
<1>6. Coming(bus') => GoesFirst(bus'.tx, fg', lower, top)
  BY <1>1, <1>2, <1>5 DEF Sent
<1>7. fg'.prepared \in Audio => ~fg'.active /\ GoesFirst(fg'.prepared, fg', lower, top)
  BY <1>1, <1>2, <1>5 DEF Sent
<1>8. Sent(fg', bus', lower, top)
  BY <1>4, <1>6, <1>7 DEF Sent
<1> QED BY <1>8 DEF Ordered, lower, top

\* A frame queued in the FG23.
LEMMA QueueOrdered ==
  ASSUME Types, Types', Ordered, FgQueueAudio
  PROVE  Ordered'
<1> DEFINE low == LastHeard(rt, slave)
           top == history.queued
<1>1. fg \in FgRecord /\ fg.queue \in Seq(Audio) /\ history \in HistoryRecord
  BY DEF Types, FgRecord
<1>2. top \in Audio /\ top \in Int /\ low \in Int /\ bus.tx \in Int /\ fg.prepared \in Int
  BY <1>1, LinkAssumption, Numbers DEF FgQueueAudio, HistoryRecord, Audio
<1>3. /\ fg'.queue = Push(fg.queue, top) /\ fg'.prepared = fg.prepared /\ fg'.active = fg.active
      /\ UNCHANGED <<bus, rt, slave>>
  BY <1>1 DEF FgQueueAudio, FgRecord
<1>4. history'.queued = top + 1
  <2>1. (IF Full(fg.queue) THEN Counted(history, 1) ELSE history) \in HistoryRecord
    BY <1>1, CountedTypes
  <2>2. (IF Full(fg.queue) THEN Counted(history, 1) ELSE history).queued = top
    BY <1>1 DEF Counted, HistoryRecord
  <2> QED BY <2>1, <2>2 DEF FgQueueAudio, HistoryRecord
<1>5. Sent(fg, bus, low, top) /\ BringsNewer(rt, slave)
  BY DEF Ordered
<1> HIDE DEF low, top
<1>6. ASSUME NEW n \in Int, n < top, Between(fg.queue, n, top)
      PROVE  Between(fg'.queue, n, top + 1)
  BY <1>1, <1>2, <1>3, <1>5, <1>6, PushOrder DEF Sent
<1>7. low < top + 1 /\ Ascending(fg'.queue) /\ Between(fg'.queue, low, top + 1)
  BY <1>1, <1>2, <1>3, <1>5, PushOrder DEF Sent
<1>8. \A n \in Int : GoesFirst(n, fg, low, top) => GoesFirst(n, fg', low, top + 1)
  BY <1>2, <1>6 DEF GoesFirst
<1>9. Sent(fg', bus', low, top + 1)
  BY <1>2, <1>3, <1>5, <1>7, <1>8 DEF Sent
<1> QED BY <1>3, <1>4, <1>5, <1>9 DEF Ordered, low

\* A transfer that starts, or whose descriptor the DMA refuses.
LEMMA StartOrdered ==
  ASSUME Types, Types', Transfers, Ordered, FgStart \/ FgStartFails
  PROVE  Ordered'
<1> DEFINE low == LastHeard(rt, slave)
           top == history.queued
<1>1. fg \in FgRecord /\ bus \in BusRecord /\ low \in Int /\ top \in Int
  BY Numbers DEF Types
<1>2. Sent(fg, bus, low, top) /\ BringsNewer(rt, slave)
  BY DEF Ordered
<1>3. UNCHANGED <<rt, slave, history>> /\ ~fg.active /\ fg'.queue = FgPrepared.queue
  BY <1>1 DEF FgStart, FgStartFails, FgWantsTransfer, FgRecord
<1> HIDE DEF low, top
<1>4. /\ low < top /\ Ascending(fg'.queue) /\ Between(fg'.queue, low, top)
      /\ FgPrepared.frame \in Audio => GoesFirst(FgPrepared.frame, fg', low, top)
  BY <1>1, <1>2, <1>3, PreparedOrder DEF Sent, GoesFirst
<1>5. CASE FgStart
  <2>1. fg'.prepared = None /\ bus'.tx = FgPrepared.frame /\ None \notin Audio
    BY <1>1, <1>5, LinkAssumption DEF FgStart, FgRecord, None, Audio
  <2> QED BY <1>2, <1>3, <1>4, <2>1 DEF Ordered, Sent, Coming, low, top
<1>6. CASE FgStartFails
  <2>1. fg'.prepared = FgPrepared.frame /\ fg'.active = FALSE /\ bus' = bus
    BY <1>1, <1>3, <1>6 DEF FgStartFails, FgRecord
  <2>2. ~Coming(bus')
    BY <1>3, <2>1 DEF Transfers, Coming
  <2> QED BY <1>2, <1>3, <1>4, <2>1, <2>2 DEF Ordered, Sent, low, top
<1> QED BY <1>5, <1>6

\* The end of a transaction passes its frame on at most once.
LEMMA WireOrdered ==
  ASSUME Types, Types', Transfers, Ordered, Exchange \/ DmaError
  PROVE  Ordered'
<1>1. /\ bus \in BusRecord /\ rt \in RtRecord /\ slave \in SlaveRecord
      /\ Garbage \notin Audio /\ None \notin Audio
  BY LinkAssumption DEF Types, Garbage, None, Audio
<1>2. /\ UNCHANGED <<fg, history>> /\ bus.state = "running" /\ bus'.state # "running"
  BY <1>1 DEF Exchange, DmaError, BusRecord
<1>3. fg.active /\ ~Coming(bus')
  BY <1>2 DEF Transfers, Coming
<1>4. rt'.last = rt.last
  <2>1. \/ rt' = rt
        \/ rt' = [rt EXCEPT !.completion = "ok"]
        \/ rt' = [rt EXCEPT !.completion = "error"]
    <3>1. CASE Exchange
      BY <1>1, <3>1 DEF Exchange, Completes, SlaveRecord
    <3>2. CASE DmaError
      BY <3>2 DEF DmaError, Completes
    <3> QED BY <3>1, <3>2
  <2> QED BY <1>1, <2>1 DEF RtRecord
<1>5. LastHeard(rt, slave) \in Int /\ rt.last \in Int /\ bus.tx \in Int
  BY Numbers
<1>6. CASE rt' = rt /\ slave'.rx = slave.rx
  <2>1. LastHeard(rt', slave') = LastHeard(rt, slave) /\ BringsNewer(rt', slave')
    BY <1>6 DEF LastHeard, BringsNewer, Ordered
  <2> QED BY <1>2, <1>3, <1>5, <2>1, OrderStays
<1>7. CASE slave.state # "idle" /\ ~(rt'.completion = "ok" /\ slave'.rx \in Audio)
  <2>1. rt.completion = "none"
    BY <1>7 DEF Transfers
  <2>2. LastHeard(rt', slave') = LastHeard(rt, slave) /\ BringsNewer(rt', slave')
    BY <1>4, <1>7, <2>1 DEF LastHeard, BringsNewer
  <2> QED BY <1>2, <1>3, <1>5, <2>2, OrderStays
<1>8. CASE slave.state # "idle" /\ rt'.completion = "ok" /\ slave'.rx = bus.tx /\ bus.tx \in Audio
  <2>1. rt.completion = "none"
    BY <1>8 DEF Transfers
  <2>2. LastHeard(rt, slave) = rt.last /\ LastHeard(rt', slave') = bus.tx
    BY <1>8, <2>1 DEF LastHeard
  <2>3. GoesFirst(bus.tx, fg, rt.last, history.queued)
    BY <1>2, <1>8, <2>2 DEF Ordered, Sent, Coming
  <2>4. BringsNewer(rt', slave')
    BY <1>4, <1>8, <2>3 DEF BringsNewer, GoesFirst
  <2>5. Sent(fg', bus', bus.tx, history'.queued)
    BY <1>2, <1>3, <2>3 DEF Ordered, Sent, GoesFirst
  <2> QED BY <2>2, <2>4, <2>5 DEF Ordered
<1>9. ASSUME NEW heard \in {bus.tx, Garbage}, Completes(heard)
      PROVE  rt'.completion = "ok" /\ slave'.rx = heard
  BY <1>1, <1>9 DEF Completes, RtRecord, Deaf
<1>10. \/ rt' = rt /\ slave'.rx = slave.rx
       \/ slave.state # "idle" /\ rt'.completion = "error"
       \/ slave.state # "idle" /\ \E heard \in {bus.tx, Garbage} : Completes(heard)
  <2>1. CASE Exchange
    BY <1>1, <2>1 DEF Exchange, SlaveRecord
  <2>2. CASE DmaError
    BY <1>1, <2>2 DEF DmaError, SlaveRecord, RtRecord
  <2> QED BY <2>1, <2>2
<1> QED BY <1>1, <1>6, <1>7, <1>8, <1>9, <1>10

\* What a pass of the main loop does to the RT595: only a completed transaction with
\* audio changes what was heard last, and it is then what was waiting to be heard.
LEMMA PollHears ==
  ASSUME Types, NEW healthy \in BOOLEAN, RtPoll(healthy)
  PROVE  /\ rt'.completion = "none" /\ rt'.last = LastHeard(rt, slave)
         /\ UNCHANGED <<fg, bus>> /\ history'.queued = history.queued
         /\ history'.accepted > history.accepted =>
              rt.completion = "ok" /\ slave.rx \in Audio
<1>1. rt \in RtRecord /\ slave \in SlaveRecord /\ history \in HistoryRecord
  BY DEF Types
<1>2. rt.completion \in {"none", "ok"}
  BY <1>1 DEF RtPoll, RtRecord
<1>3. RtReceived \in RtRecord /\ RtReceived.completion = "none"
      /\ RtReceived.last = LastHeard(rt, slave)
  BY <1>1, <1>2 DEF RtReceived, LastHeard, RtRecord, SlaveRecord, Heard
<1>4. RtArmed(RtReceived) \in RtRecord /\ RtArmed(RtReceived).completion = "none"
      /\ RtArmed(RtReceived).last = LastHeard(rt, slave)
  BY <1>3, QueueTypes DEF RtArmed, RtRecord, RequestAsserted
<1>5. rt'.completion = "none" /\ rt'.last = LastHeard(rt, slave) /\ UNCHANGED <<fg, bus>>
  BY <1>4 DEF RtPoll, RtRecord
<1>6. Counted(history, 1).queued = history.queued
      /\ Counted(history, 1).accepted = history.accepted
  BY <1>1 DEF Counted, HistoryRecord
<1>7. history'.queued = history.queued
  BY <1>1, <1>6 DEF RtPoll, HistoryRecord
<1>8. ~(rt.completion = "ok" /\ slave.rx \in Audio) => history'.accepted = history.accepted
  BY <1>6 DEF RtPoll
<1>9. history.accepted \in Nat
  BY <1>1 DEF HistoryRecord
<1> QED BY <1>5, <1>7, <1>8, <1>9

\* Nothing but a pass of the RT595's main loop accepts a frame.
LEMMA AcceptedOnlyByPoll ==
  ASSUME Types, [Next]_vars, ~(\E healthy \in BOOLEAN : RtPoll(healthy)),
         history'.accepted > history.accepted
  PROVE  FALSE
<1>1. history \in HistoryRecord /\ history.accepted \in Nat
  BY DEF Types, HistoryRecord
<1>2. \A n \in {1, 2} : Counted(history, n).accepted = history.accepted
                       /\ Counted(history, n) \in HistoryRecord
  BY <1>1, CountedTypes DEF Counted, HistoryRecord
<1>3. CASE FgQueueAudio
  <2>1. (IF Full(fg.queue) THEN Counted(history, 1) ELSE history) \in HistoryRecord
        /\ (IF Full(fg.queue) THEN Counted(history, 1) ELSE history).accepted = history.accepted
    BY <1>1, <1>2
  <2>2. history'.accepted = history.accepted
    BY <1>3, <2>1 DEF FgQueueAudio, HistoryRecord
  <2> QED BY <1>1, <2>2
<1>4. CASE FgFinish \/ FgFail \/ FgTimeout \/ RtFault \/ RtWatchdog \/ RtRestart
  <2>1. history'.accepted = history.accepted
    BY <1>2, <1>4 DEF FgFinish, FgFail, FgTimeout, RtFault, RtWatchdog, RtRestart
  <2> QED BY <1>1, <2>1
<1>5. CASE FgRestart
  <2>1. history'.accepted = 0
    BY <1>5 DEF FgRestart
  <2> QED BY <1>1, <2>1
<1>6. CASE FgQueueStatus \/ FgReleasePeer \/ FgStart \/ FgStartFails \/ Exchange \/ DmaDone
             \/ DmaError \/ Tick \/ RtBoot \/ RtCapture \/ UNCHANGED vars
  <2>1. history' = history
    BY <1>6 DEF FgQueueStatus, FgReleasePeer, FgStart, FgStartFails, Exchange, DmaDone,
                DmaError, Tick, RtBoot, RtCapture, vars
  <2> QED BY <1>1, <2>1
<1> QED BY <1>3, <1>4, <1>5, <1>6 DEF Next

\* Every step keeps the order.
LEMMA StepOrdered ==
  ASSUME Types, Types', Transfers, Ordered, [Next]_vars
  PROVE  Ordered'
<1>1. /\ fg \in FgRecord /\ bus \in BusRecord /\ rt \in RtRecord /\ slave \in SlaveRecord
      /\ history \in HistoryRecord
  BY DEF Types
<1>2. LastHeard(rt, slave) \in Int /\ BringsNewer(rt, slave)
  BY Numbers DEF Ordered
<1>3. rt.last <= LastHeard(rt, slave)
  BY <1>2, Numbers DEF LastHeard, BringsNewer
<1>4. CASE FgQueueStatus \/ FgReleasePeer \/ FgFinish \/ FgFail \/ DmaDone \/ Tick
             \/ RtBoot \/ RtCapture \/ UNCHANGED vars
  <2>1. /\ slave' = slave /\ rt'.last = rt.last /\ rt'.completion = rt.completion
    BY <1>1, <1>4 DEF FgQueueStatus, FgReleasePeer, FgFinish, FgFail, DmaDone, Tick, RtBoot,
                      RtCapture, vars, RtRecord
  <2>2. fg'.queue = fg.queue /\ fg'.prepared = fg.prepared /\ (fg'.active => fg.active)
    BY <1>1, <1>4 DEF FgQueueStatus, FgReleasePeer, FgFinish, FgFail, DmaDone, Tick, RtBoot,
                      RtCapture, vars, FgRecord
  <2>3. Coming(bus') => Coming(bus) /\ bus'.tx = bus.tx
    BY <1>1, <1>4 DEF FgQueueStatus, FgReleasePeer, FgFinish, FgFail, DmaDone, Tick, RtBoot,
                      RtCapture, vars, Coming, Quiet, BusRecord
  <2>4. history'.queued = history.queued
    <3>1. Counted(history, 1).queued = history.queued
      BY <1>1 DEF Counted, HistoryRecord
    <3> QED BY <1>4, <3>1 DEF FgQueueStatus, FgReleasePeer, FgFinish, FgFail, DmaDone, Tick,
                              RtBoot, RtCapture, vars
  <2>5. LastHeard(rt', slave') = LastHeard(rt, slave) /\ BringsNewer(rt', slave')
    BY <1>2, <2>1 DEF LastHeard, BringsNewer
  <2> QED BY <1>2, <2>2, <2>3, <2>4, <2>5, OrderStays
<1>5. CASE FgTimeout \/ RtFault \/ RtWatchdog \/ RtRestart
  <2>1. PICK power \in {"reset", "booting", "up", "halted"} : rt' = RtIn(power) /\ slave' = Deaf
    BY <1>5 DEF FgTimeout, RtFault, RtWatchdog, RtRestart, RtDown
  <2>2. BringsNewer(rt', slave') /\ LastHeard(rt', slave') = None
    BY <2>1 DEF BringsNewer, LastHeard, RtIn
  <2>3. None <= LastHeard(rt, slave)
    <3>1. rt.last \in Audio \cup {None} /\ MaxFrames \in Nat
      BY <1>1, LinkAssumption DEF RtRecord
    <3> QED BY <1>3, <1>2, <3>1 DEF None, Audio
  <2>4. fg'.queue = fg.queue /\ fg'.prepared = fg.prepared /\ (fg'.active => fg.active)
    BY <1>1, <1>5 DEF FgTimeout, RtFault, RtWatchdog, RtRestart, FgRecord
  <2>5. Coming(bus') => Coming(bus) /\ bus'.tx = bus.tx
    BY <1>5 DEF FgTimeout, RtFault, RtWatchdog, RtRestart, Coming, Quiet
  <2>6. history'.queued = history.queued
    <3>1. \A n \in {1, 2} : Counted(history, n).queued = history.queued
      BY <1>1 DEF Counted, HistoryRecord
    <3> QED BY <1>5, <3>1 DEF FgTimeout, RtFault, RtWatchdog, RtRestart
  <2> QED BY <2>2, <2>3, <2>4, <2>5, <2>6, OrderStays
<1>6. CASE FgRestart
  <2>1. fg' = FgStarted /\ bus' = Quiet /\ slave' = Deaf /\ rt' = RtIn("reset") /\ history'.queued = 0
    BY <1>6 DEF FgRestart, RtDown
  <2>2. BringsNewer(rt', slave') /\ LastHeard(rt', slave') = None
    BY <2>1 DEF BringsNewer, LastHeard, RtIn
  <2>3. ~Coming(bus') /\ fg'.prepared = None /\ fg'.queue = <<>> /\ None \notin Audio
    BY <2>1, LinkAssumption DEF Coming, Quiet, FgStarted, None, Audio
  <2> QED BY <2>1, <2>2, <2>3 DEF Ordered, Sent, Ascending, Between, None
<1>7. ASSUME NEW healthy \in BOOLEAN, RtPoll(healthy)
      PROVE  Ordered'
  <2>1. LastHeard(rt', slave') = LastHeard(rt, slave) /\ BringsNewer(rt', slave')
    BY <1>7, PollHears DEF LastHeard, BringsNewer
  <2> QED BY <1>2, <1>7, <2>1, PollHears, OrderStays
<1> QED BY <1>4, <1>5, <1>6, <1>7, QueueOrdered, StartOrdered, WireOrdered DEF Next

\* The runtime of the RT595 hears the frames of its peer in their order and none twice.
THEOREM HeardInOrder == Spec => ArrivesInOrderOnce
<1> DEFINE Inv == IInv /\ Transfers /\ Ordered
<1>1. Init => Ordered
  <2> SUFFICES ASSUME Init PROVE Ordered
    OBVIOUS
  <2>1. fg = FgStarted /\ bus = Quiet /\ slave = Deaf /\ rt = RtIn("reset") /\ history.queued = 0
    BY DEF Init
  <2>2. BringsNewer(rt, slave) /\ LastHeard(rt, slave) = None
    BY <2>1 DEF BringsNewer, LastHeard, RtIn
  <2>3. ~Coming(bus) /\ fg.prepared = None /\ fg.queue = <<>> /\ None \notin Audio
    BY <2>1, LinkAssumption DEF Coming, Quiet, FgStarted, None, Audio
  <2> QED BY <2>1, <2>2, <2>3 DEF Ordered, Sent, Ascending, Between, None
<1>2. Init => Inv
  BY <1>1, InitInv, InitAccounts
<1>3. Inv /\ [Next]_vars => Inv'
  BY StepInv, StepTransfers, StepOrdered DEF IInv
<1>4. Inv /\ [Next]_vars => [history'.accepted > history.accepted => rt'.last > rt.last]_vars
  <2> SUFFICES ASSUME Types, Ordered, [Next]_vars, history'.accepted > history.accepted
               PROVE  rt'.last > rt.last
    BY DEF IInv
  <2>1. PICK healthy \in BOOLEAN : RtPoll(healthy)
    BY AcceptedOnlyByPoll
  <2>2. rt.last < slave.rx /\ rt'.last = slave.rx
    BY <2>1, PollHears DEF LastHeard, Ordered, BringsNewer
  <2>3. rt.last \in Int
    BY Numbers
  <2> QED BY <2>2, <2>3
<1> QED BY <1>2, <1>3, <1>4, PTL DEF Spec, ArrivesInOrderOnce
===============================================================================
