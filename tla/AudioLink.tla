------------------------------ MODULE AudioLink ------------------------------
(***************************************************************************)
(* The SPI link between the two processors of a unit.  The FG23 is the     *)
(* controller: its main loop (openref_audio_link_fg23_sdk.c and            *)
(* openref_audio_link_fg23.c) clocks fixed transactions, times them out    *)
(* and resets its peer.  The RT595 (openref_rt595_audio_spi.c and the main *)
(* loop of openref_rt595_integrated.c) keeps one transaction armed and     *)
(* asks for the next with a request line.  Both sit on the queues of       *)
(* openref_audio_transport.c and openref_audio_link.c.                     *)
(*                                                                         *)
(* A frame is its sequence number; Status stands for every status frame    *)
(* and Garbage for what the CRC refuses.  Each direction has one source.   *)
(* A buffer or timer that nothing will read again is cleared.              *)
(***************************************************************************)
EXTENDS Integers, Sequences

CONSTANTS
  Capacity,     \* OPENREF_AUDIO_LINK_QUEUE_CAPACITY
  TransferTime, \* transfer_timeout_us, in ticks of the FG23's clock
  HoldTime,     \* reset_hold_us
  MaxFrames,    \* bound: audio frames per power cycle of each processor
  MaxRestarts   \* bound: restarts of the FG23 and spontaneous ones of the RT595

ASSUME LinkAssumption ==
  /\ Capacity \in Nat \ {0} /\ MaxFrames \in Nat \ {0} /\ MaxRestarts \in Nat
  /\ TransferTime \in Nat \ {0} /\ HoldTime \in Nat \ {0}

None    == -1
Status  == -2
Garbage == -3
Audio   == 0..(MaxFrames - 1)
Timer   == 0..(TransferTime + HoldTime)

VARIABLES
  fg,       \* openref_audio_fg23_t with its transport
  bus,      \* the DMA of the FG23: what it sends and what it has received
  rt,       \* openref_rt595_audio_spi_t with its transport, and the output guard
  slave,    \* the SPI peripheral of the RT595: idle, armed, armed while bits are
            \* already on the wire (late), or left with a part of a frame (skewed)
  request,  \* AUDIO_REQn is asserted
  restarts, \* bound: restarts so far
  history   \* of this power cycle of the FG23: frames queued, frames the
            \* RT595 accepted, losses counted (overruns, failed or malformed
            \* transfers, faults and resets), up to MaxFrames

vars == <<fg, bus, rt, slave, request, restarts, history>>

TypeOK ==
  /\ fg \in [resetting : BOOLEAN, timer : Timer, active : BOOLEAN,
             prepared : Audio \cup {Status, None}, queue : Seq(Audio),
             status : BOOLEAN]
  /\ Len(fg.queue) <= Capacity
  /\ bus \in [state : {"idle", "running", "clocked", "done", "error"},
              tx : Audio \cup {Status}, rx : Audio \cup {Status, Garbage}]
  /\ rt \in [power : {"reset", "booting", "up", "halted"}, queue : Seq(Audio),
             next : 0..MaxFrames, active : BOOLEAN, requested : BOOLEAN,
             completion : {"none", "ok", "error"},
             peer : BOOLEAN, enabled : BOOLEAN, last : Audio \cup {None}]
  /\ Len(rt.queue) <= Capacity
  /\ slave \in [state : {"idle", "armed", "late", "skewed"},
                tx : Audio \cup {Status}, rx : Audio \cup {Status, Garbage}]
  /\ request \in BOOLEAN
  /\ restarts \in 0..MaxRestarts
  /\ history \in [queued : 0..MaxFrames, accepted : 0..MaxFrames,
                  counted : 0..MaxFrames]

----------------------------------------------------------------------------
(* openref_audio_link_queue_push, and openref_audio_transport.c over it.   *)

Full(queue) == Len(queue) = Capacity

\* A full queue drops its oldest frame.
Push(queue, frame) ==
  Append(IF Full(queue) THEN Tail(queue) ELSE queue, frame)

RequestAsserted(t) == t.queue # <<>>

Counted(h, n) ==
  [h EXCEPT !.counted = IF @ + n < MaxFrames THEN @ + n ELSE MaxFrames]

----------------------------------------------------------------------------
(* The two processors as they start, and what a reset does.                *)

FgStarted ==
  [resetting |-> TRUE, timer |-> HoldTime, active |-> FALSE, prepared |-> None,
   queue |-> <<>>, status |-> FALSE]

\* openref_rt595_audio_spi_init, openref_audio_transport_init and
\* openref_rt595_output_guard_init.
RtIn(power) ==
  [power |-> power, queue |-> <<>>, next |-> 0, active |-> FALSE,
   requested |-> FALSE, completion |-> "none", peer |-> FALSE,
   enabled |-> FALSE, last |-> None]

Quiet == [state |-> "idle", tx |-> Status, rx |-> Status]
Deaf  == [state |-> "idle", tx |-> Status, rx |-> Status]

Init ==
  /\ fg = FgStarted /\ bus = Quiet
  /\ rt = RtIn("reset") /\ slave = Deaf /\ request = FALSE
  /\ restarts = 0
  /\ history = [queued |-> 0, accepted |-> 0, counted |-> 0]

\* The reset line or the watchdog takes the RT595 down: its pins float.
RtDown(power) ==
  /\ rt' = RtIn(power) /\ slave' = Deaf /\ request' = FALSE

----------------------------------------------------------------------------
(* The FG23: openref_audio_fg23_queue, and one pass of                     *)
(* openref_audio_fg23_sdk_process.  The peer's reset, abort and start      *)
(* hooks fail as those of the SDK do.                                      *)

FgQueueAudio ==
  /\ history.queued < MaxFrames
  /\ fg' = [fg EXCEPT !.queue = Push(@, history.queued)]
  /\ history' = [(IF Full(fg.queue) THEN Counted(history, 1) ELSE history)
                   EXCEPT !.queued = @ + 1]
  /\ UNCHANGED <<bus, rt, slave, request, restarts>>

\* A status that is still pending is replaced.
FgQueueStatus ==
  /\ fg' = [fg EXCEPT !.status = TRUE]
  /\ UNCHANGED <<bus, rt, slave, request, restarts, history>>

\* The hold time is over.
FgReleasePeer ==
  /\ fg.resetting /\ fg.timer = 0
  /\ fg' = [fg EXCEPT !.resetting = FALSE]
  /\ rt' = [rt EXCEPT !.power = "booting"]
  /\ UNCHANGED <<bus, slave, request, restarts, history>>

\* Mistake: does not count a frame that fails its CRC.
FgFinish_Uncounted ==
  /\ bus.state = "done"
  /\ fg' = [fg EXCEPT !.active = FALSE, !.timer = 0]
  /\ bus' = Quiet
  /\ UNCHANGED <<rt, slave, request, restarts, history>>

\* Both channels and the shifter are done; openref_audio_transport_accept_rx
\* counts what it cannot decode.
FgFinish ==
  /\ bus.state = "done"
  /\ fg' = [fg EXCEPT !.active = FALSE, !.timer = 0]
  /\ bus' = Quiet
  /\ history' = IF bus.rx = Garbage THEN Counted(history, 1) ELSE history
  /\ UNCHANGED <<rt, slave, request, restarts>>

\* Mistake: the frame of a failed transfer is sent again.
FgFail_SendsAgain ==
  /\ bus.state = "error"
  /\ fg' = [fg EXCEPT !.active = FALSE, !.timer = 0, !.prepared = bus.tx]
  /\ bus' = Quiet
  /\ UNCHANGED <<rt, slave, request, restarts, history>>

\* The transfer is aborted and given up with its frame.
FgFail ==
  /\ bus.state = "error"
  /\ fg' = [fg EXCEPT !.active = FALSE, !.timer = 0]
  /\ bus' = Quiet
  /\ history' = Counted(history, 1)
  /\ UNCHANGED <<rt, slave, request, restarts>>

\* The flags of the DMA were not complete when this pass read them, even if the
\* frame went through: the transfer is aborted and the peer reset, and both are
\* counted (transfer_failures, reset_count).
FgTimeout ==
  /\ fg.active /\ fg.timer = 0 /\ bus.state \in {"running", "clocked"}
  /\ fg' = [fg EXCEPT !.active = FALSE, !.resetting = TRUE, !.timer = HoldTime]
  /\ bus' = Quiet
  /\ RtDown("reset")
  /\ history' = Counted(history, 2)
  /\ UNCHANGED restarts

\* openref_audio_transport_prepare_tx: audio first, then a status, then an idle
\* status; a frame prepared for a start that failed goes first of all.
FgPrepared ==
  CASE fg.prepared # None -> [frame |-> fg.prepared, queue |-> fg.queue,
                              status |-> fg.status]
    [] fg.prepared = None /\ RequestAsserted(fg) ->
         [frame |-> Head(fg.queue), queue |-> Tail(fg.queue), status |-> fg.status]
    [] OTHER -> [frame |-> Status, queue |-> fg.queue, status |-> FALSE]

FgWantsTransfer ==
  /\ ~fg.resetting /\ ~fg.active
  /\ fg.prepared # None \/ RequestAsserted(fg) \/ fg.status \/ request

\* DMA and chip select are handed over; "active" was set before that.
FgStart ==
  /\ FgWantsTransfer
  /\ fg' = [fg EXCEPT !.active = TRUE, !.timer = TransferTime, !.prepared = None,
                      !.queue = FgPrepared.queue, !.status = FgPrepared.status]
  /\ bus' = [state |-> "running", tx |-> FgPrepared.frame, rx |-> Status]
  /\ UNCHANGED <<rt, slave, request, restarts, history>>

\* A DMA channel refuses the descriptor: the frame stays prepared.
FgStartFails ==
  /\ FgWantsTransfer
  /\ fg' = [fg EXCEPT !.prepared = FgPrepared.frame, !.queue = FgPrepared.queue,
                      !.status = FgPrepared.status]
  /\ UNCHANGED <<bus, rt, slave, request, restarts, history>>

\* openref_audio_fg23_init holds the peer in reset.
FgRestart ==
  /\ restarts < MaxRestarts
  /\ restarts' = restarts + 1
  /\ fg' = FgStarted /\ bus' = Quiet
  /\ RtDown("reset")
  /\ history' = [queued |-> 0, accepted |-> 0, counted |-> 0]

----------------------------------------------------------------------------
(* The wires, and the interrupts at both ends.                             *)

\* The last bit of a transaction; noise may spoil either direction.  An armed
\* slave completes (openref_rt595_audio_spi_complete), with garbage if a part of
\* another frame came before; one that was armed late is left with a part, and an
\* idle one neither hears nor answers.
Completes(heard) ==
  /\ slave' = [Deaf EXCEPT !.rx = heard]
  /\ rt' = [rt EXCEPT !.completion = "ok"]

Exchange ==
  /\ bus.state = "running"
  /\ \/ /\ slave.state = "armed"
        /\ \E heard \in {bus.tx, Garbage} : Completes(heard)
        /\ \E reply \in {slave.tx, Garbage} :
             bus' = [bus EXCEPT !.state = "clocked", !.rx = reply]
     \/ /\ slave.state # "armed"
        /\ bus' = [bus EXCEPT !.state = "clocked", !.rx = Garbage]
        /\ CASE slave.state = "idle"   -> UNCHANGED <<rt, slave>>
             [] slave.state = "late"   -> /\ slave' = [slave EXCEPT !.state = "skewed"]
                                          /\ UNCHANGED rt
             [] slave.state = "skewed" -> Completes(Garbage)
  /\ UNCHANGED <<fg, request, restarts, history>>

\* dma_done for both channels, and the shifter is empty.
DmaDone ==
  /\ bus.state = "clocked"
  /\ bus' = [bus EXCEPT !.state = "done"]
  /\ UNCHANGED <<fg, rt, slave, request, restarts, history>>

\* dma_done with an error.  The slave may have heard nothing or everything, may
\* report the transfer as failed, or may be left in the middle of a frame.
DmaError ==
  /\ bus.state = "running"
  /\ bus' = [bus EXCEPT !.state = "error"]
  /\ \/ UNCHANGED <<rt, slave>>
     \/ /\ slave.state = "armed"
        /\ Completes(bus.tx)
     \/ /\ slave.state # "idle"
        /\ slave' = Deaf
        /\ rt' = [rt EXCEPT !.completion = "error"]
     \/ /\ slave.state # "idle"
        /\ slave' = [slave EXCEPT !.state = "skewed"]
        /\ UNCHANGED rt
  /\ UNCHANGED <<fg, request, restarts, history>>

Tick ==
  /\ fg.timer > 0
  /\ fg' = [fg EXCEPT !.timer = @ - 1]
  /\ UNCHANGED <<bus, rt, slave, request, restarts, history>>

----------------------------------------------------------------------------
(* The RT595's main loop.                                                  *)

RtBoot ==
  /\ rt.power = "booting"
  /\ rt' = [rt EXCEPT !.power = "up"]
  /\ UNCHANGED <<fg, bus, slave, request, restarts, history>>

\* Mistake: forgets the frame that is already in the armed transaction.
Requests_QueueOnly(r) == RequestAsserted(r)

\* update_request
Requests(r) == (r.active /\ r.requested) \/ RequestAsserted(r)

\* openref_rt595_audio_spi_poll takes in a completed transaction: a status makes
\* the peer known, audio goes through audio_rx to the runtime in the same pass.
RtReceived ==
  IF rt.completion = "none" THEN rt
  ELSE [rt EXCEPT
          !.completion = "none", !.active = FALSE, !.requested = FALSE,
          !.peer = @ \/ slave.rx = Status,
          !.last = IF slave.rx \in Audio THEN slave.rx ELSE @]

\* arm: a transaction is always armed, with an idle status if need be.
RtArmed(r) ==
  IF r.active THEN r
  ELSE [r EXCEPT !.active = TRUE, !.requested = RequestAsserted(r),
                 !.queue = IF @ = <<>> THEN @ ELSE Tail(@)]

SlaveArmed(r) ==
  IF r.active THEN slave' = slave
  ELSE \E state \in {"armed"} \cup (IF bus.state = "running" THEN {"late"} ELSE {}) :
         slave' = [state |-> state, rx |-> Status,
                   tx |-> IF RequestAsserted(r) THEN Head(r.queue) ELSE Status]

\* One pass: poll, openref_rt595_output_guard_set_ready, pop the audio.
\* "healthy" is watchdog_ready with an empty fault mask.
RtPoll(healthy) ==
  LET received == RtReceived
      armed    == RtArmed(received)
      ready    == healthy /\ armed.peer
      ended    == rt.completion = "ok" IN
  /\ rt.power = "up" /\ rt.completion # "error"
  /\ rt.enabled => ready
  /\ rt' = [armed EXCEPT !.enabled = ready]
  /\ SlaveArmed(received)
  /\ request' = Requests(armed)
  /\ history' = IF ended /\ slave.rx \in Audio
                  THEN [history EXCEPT !.accepted = @ + 1]
                ELSE IF ended /\ slave.rx = Garbage THEN Counted(history, 1)
                ELSE history
  /\ UNCHANGED <<fg, bus, restarts>>

\* The microphone gave another 20 ms: openref_rt595_audio_spi_queue.
RtCapture ==
  /\ rt.power = "up" /\ rt.next < MaxFrames
  /\ rt' = [rt EXCEPT !.queue = Push(@, rt.next), !.next = @ + 1]
  /\ request' = Requests(rt')
  /\ UNCHANGED <<fg, bus, slave, restarts, history>>

\* A failed start, transaction or audio DMA, a failed unmute, a block that cannot
\* be processed, or a link or watchdog that goes wrong while the output is on:
\* openref_rt595_output_guard_fault, and the processor waits for its watchdog.
RtFault ==
  /\ rt.power = "up"
  /\ rt' = RtIn("halted") /\ slave' = Deaf /\ request' = FALSE
  /\ history' = Counted(history, 1)
  /\ UNCHANGED <<fg, bus, restarts>>

RtWatchdog ==
  /\ rt.power = "halted"
  /\ RtDown("booting")
  /\ history' = Counted(history, 1)
  /\ UNCHANGED <<fg, bus, restarts>>

\* The RT595 restarts on its own.
RtRestart ==
  /\ rt.power = "up" /\ restarts < MaxRestarts
  /\ restarts' = restarts + 1
  /\ RtDown("booting")
  /\ history' = Counted(history, 1)
  /\ UNCHANGED <<fg, bus>>

Next ==
  \/ FgQueueAudio \/ FgQueueStatus \/ FgReleasePeer \/ FgFinish \/ FgFail
  \/ FgTimeout \/ FgStart \/ FgStartFails \/ FgRestart
  \/ Exchange \/ DmaDone \/ DmaError \/ Tick
  \/ RtBoot \/ RtCapture \/ RtFault \/ RtWatchdog \/ RtRestart
  \/ \E healthy \in BOOLEAN : RtPoll(healthy)

Spec == Init /\ [][Next]_vars

\* Both main loops are endless, clocks run, and a watchdog expires.  A DMA that
\* is started again and again completes or runs into the timeout once.
Fairness ==
  /\ WF_vars(FgReleasePeer) /\ WF_vars(FgFinish) /\ WF_vars(FgFail)
  /\ WF_vars(DmaDone) /\ WF_vars(Tick) /\ SF_vars(FgStart)
  /\ SF_vars(Exchange \/ FgTimeout)
  /\ WF_vars(RtBoot) /\ WF_vars(RtWatchdog)
  /\ WF_vars(RtFault /\ rt.completion = "error")
  /\ WF_vars(\E healthy \in BOOLEAN : RtPoll(healthy))

FairSpec == Spec /\ Fairness

----------------------------------------------------------------------------
(* Properties.                                                             *)

RtHolds(n) == (\E i \in 1..Len(rt.queue) : rt.queue[i] = n)
              \/ (slave.state # "idle" /\ slave.tx = n)

\* Every frame that waits in the RT595, in its queue or already in the armed
\* transaction, keeps AUDIO_REQn asserted, whatever completes, overflows or fails
\* in between: the FG23 starts no transaction of its own to fetch it.
WaitingIsAnnounced ==
  \A n \in Audio : RtHolds(n) => request

\* The runtime of the RT595 hears the frames of its peer in their order and none
\* twice, although transactions fail, time out and are tried again, and frames
\* outlive a reset of the peer in tx_wire.  Nothing at the receiver checks that:
\* a sequence that goes back is only flagged.
ArrivesInOrderOnce ==
  [][history'.accepted > history.accepted => rt'.last > rt.last]_vars

\* "pushes, pops, overruns, CRC failures, sequence gaps, and resets are
\* observable" (docs/interfaces/ICD-005-radio-audio-processor.md): a frame the
\* FG23 queued is on its way, was accepted, or some counter of either side
\* accounts for its loss, even when the peer was not listening.
Underway ==
  LET one(b) == IF b THEN 1 ELSE 0 IN
  Len(fg.queue) + one(fg.prepared \in Audio)
    + one(bus.state # "idle" /\ bus.tx \in Audio) + one(rt.completion # "none")

LossesAreCounted ==
  history.queued <= Underway + history.accepted + history.counted

\* Whatever is lost, late or reset: a frame that waits in the RT595 leaves it.
\* A lost completion costs a timeout and a reset, never the link.
WaitingLeaves ==
  \A n \in Audio : RtHolds(n) ~> ~RtHolds(n)
=============================================================================
