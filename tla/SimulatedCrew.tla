--------------------------- MODULE SimulatedCrew ---------------------------
(***************************************************************************)
(* The protocol simulator: a discrete-event engine, a shared radio medium  *)
(* on which overlapping packets collide, voice nodes that send one frame   *)
(* in each of their slots, and a coordinator that is heard or replaced.    *)
(* A behaviour is one run of one scenario; what is random in the program,  *)
(* the loss of a packet that did not collide, is a choice here.            *)
(*                                                                         *)
(* Times are integers of one unit (the program's microsecond, coarser in   *)
(* an instance) and bit rates are in bits per unit.                        *)
(***************************************************************************)
EXTENDS Integers, Sequences, FiniteSets

CONSTANTS
  Scenarios,      \* the scenarios a behaviour may run
  FirstHeartbeat  \* delay of the first heartbeat, 16 ms in the program

VARIABLES
  scenario,         \* the scenario that runs, fixed from the start
  now,              \* simulated time
  agenda,           \* scheduled callbacks
  order,            \* order number of the next callback that is scheduled
  packets,          \* packets made so far; each has its number
  enabled,          \* per node: switched on
  queue,            \* per node: frames waiting for a slot
  active,           \* transmissions on the air
  collided,         \* numbers of the packets whose transmission collided
  trace,            \* the recorded events the summary is made from
  coordinator,      \* the node all others take their time from
  lastHeartbeat,    \* when a heartbeat was last received
  electionPending,  \* an election has been scheduled
  ended,            \* the run is over
  leaderlessSince   \* history: since when some node is on and the coordinator
                    \* is off, or Never

vars == <<scenario, now, agenda, order, packets, enabled, queue, active, collided, trace,
          coordinator, lastHeartbeat, electionPending, ended, leaderlessSince>>

Never == -1
None == 0     \* no loss
Random == 1   \* a loss probability strictly between 0 and 1
Certain == 2  \* a loss probability of 1

NodeActions == {"disable_node", "enable_node"}

\* What run_scenario refuses (a fault at a negative time or of an unknown node, a
\* negative length) or cannot run with (no bit rate, no interval, a clock that
\* stands still) is excluded; a packet has a header, and a node its own id.
ASSUME ScenarioAssumption ==
  /\ FirstHeartbeat \in Nat
  /\ \A s \in Scenarios :
       /\ s.nodes \in Seq([id : Nat, drift : Int])
       /\ \A i \in DOMAIN s.nodes : s.nodes[i].drift > -100
       /\ \A i, j \in DOMAIN s.nodes : s.nodes[i].id = s.nodes[j].id => i = j
       /\ s.interval \in Nat \ {0} /\ s.timeout \in Nat /\ s.delay \in Nat
       /\ s.frame \in Nat \ {0} /\ s.codec \in Nat /\ s.security \in Nat
       /\ s.radio \in Nat \ {0} /\ s.overhead \in Nat \ {0} /\ s.preamble \in Nat
       /\ s.spacing \in Nat /\ s.maxQueue \in Nat \ {0} /\ s.duration \in Nat
       /\ s.baseLoss \in {None, Random, Certain}
       /\ s.initial \in {s.nodes[i].id : i \in DOMAIN s.nodes}
       /\ s.faults \in Seq([action : NodeActions \cup {"packet_loss"}, time : Nat,
                            node : Nat, duration : Nat, loss : {None, Random, Certain}])
       /\ \A i \in DOMAIN s.faults : s.faults[i].action \in NodeActions =>
            s.faults[i].node \in {s.nodes[j].id : j \in DOMAIN s.nodes}

-----------------------------------------------------------------------------
(* What a scenario comes to. *)

Larger(a, b) == IF a >= b THEN a ELSE b

\* Python's round of the fraction a / b: to nearest, ties to even.
Rounded(a, b) ==
  LET q == a \div b
      r == a % b
  IN IF 2 * r > b \/ (2 * r = b /\ q % 2 = 1) THEN q + 1 ELSE q

NodesOf(s) == {s.nodes[i].id : i \in DOMAIN s.nodes}

\* Time on the air of a packet of so many bytes, rounded up.
PacketAirtime(s, bytes) ==
  s.preamble + ((bytes + s.overhead) * 8 + s.radio - 1) \div s.radio

PayloadBytes(s) == Rounded(s.codec * s.frame, 8)

VoiceAirtime(s) == PacketAirtime(s, PayloadBytes(s) + s.security)

HeartbeatAirtime(s) ==
  PacketAirtime(s, (IF s.fixedLength THEN PayloadBytes(s) ELSE 8) + s.security)

\* The frame interval by the node's own clock, drift in hundredths.
LocalPeriod(s, n) ==
  LET d == (CHOOSE i \in DOMAIN s.nodes : s.nodes[i].id = n)
  IN Larger(1, Rounded(100 * s.frame, 100 + s.nodes[d].drift))

\* Mutant: the span counts a spacing after the last slot.
Capacity_SpanTooLong(s) ==
  [slotGuard    |-> s.spacing - VoiceAirtime(s),
   scheduleSpan |-> s.slots * s.spacing + VoiceAirtime(s),
   used         |-> Len(s.nodes) * VoiceAirtime(s) * s.interval
                    + HeartbeatAirtime(s) * s.frame,
   available    |-> s.frame * s.interval]

\* What estimate_capacity predicts without running anything.
Capacity(s) ==
  [slotGuard    |-> s.spacing - VoiceAirtime(s),
   scheduleSpan |-> (s.slots - 1) * s.spacing + VoiceAirtime(s),
   \* the channel utilization, a fraction, as numerator and denominator
   used         |-> Len(s.nodes) * VoiceAirtime(s) * s.interval
                    + HeartbeatAirtime(s) * s.frame,
   available    |-> s.frame * s.interval]

Variant(base, frame, codec, radio, spacing) ==
  [base EXCEPT !.frame = frame, !.codec = codec, !.radio = radio, !.spacing = spacing]

\* The scenarios a parameter sweep runs for a base scenario.
Sweep(base, frames, codecs, radios, spacings) ==
  {Variant(base, f, c, r, sp) :
     f \in frames, c \in codecs, r \in radios, sp \in spacings}

\* The strongest loss in force when a transmission started.
LossAt(s, t) ==
  LET inForce == {s.baseLoss} \cup
        {s.faults[i].loss : i \in {j \in DOMAIN s.faults :
            /\ s.faults[j].action = "packet_loss"
            /\ s.faults[j].time <= t
            /\ t < s.faults[j].time + s.faults[j].duration}}
  IN CHOOSE p \in inForce : \A q \in inForce : p >= q

\* Mutant: the run stops when the last frame is generated.
Until_AtDuration == scenario.duration

Until == scenario.duration + VoiceAirtime(scenario)

-----------------------------------------------------------------------------
(* The engine: callbacks run in order of time, and at one time in the      *)
(* order in which they were scheduled.                                     *)

Call(o, t, what, arg) == [order |-> o, time |-> t, what |-> what, arg |-> arg]

Before(c, d) == c.time < d.time \/ (c.time = d.time /\ c.order < d.order)

\* e is the callback the engine runs next.
Due(e) ==
  /\ ~ended /\ e \in agenda /\ \A d \in agenda \ {e} : Before(e, d)
  /\ e.time <= Until

\* The engine takes e off the agenda; its callback schedules these calls, two at
\* most, with the order numbers that are next (one may be left out).
Run(e, calls) ==
  /\ Due(e)
  /\ now' = e.time
  /\ agenda' = (agenda \ {e}) \cup calls
  /\ order' = order + 2

Entry(t, event, node, packet) ==
  [time |-> t, event |-> event, node |-> node, packet |-> packet,
   kind |-> "voice", start |-> t, latency |-> 0]

Record(entries) == trace' = trace \cup entries

-----------------------------------------------------------------------------
(* The medium. *)

\* Mutant: one that ends at this instant still counts.
Overlapped_Inclusive(t) == {a \in active : a.end >= t}

\* The transmissions still on the air when another starts at t.
Overlapped(t) == {a \in active : a.end > t}

\* A transmission starts: it and every one still on the air are lost.
Transmit(packet, source, kind, created, t, airtime) ==
  /\ active' = active \cup
       {[packet |-> packet, source |-> source, kind |-> kind, created |-> created,
         start |-> t, end |-> t + airtime]}
  /\ collided' = IF Overlapped(t) = {} THEN collided
                 ELSE collided \cup {packet} \cup {a.packet : a \in Overlapped(t)}

FinishCall(packet, t, airtime) == Call(order, t + airtime, "finish", packet)

\* What may become of a transmission that is over.
Outcomes(tx) ==
  IF tx.packet \in collided THEN {"packet_collided"}
  ELSE CASE LossAt(scenario, tx.start) = None    -> {"packet_delivered"}
         [] LossAt(scenario, tx.start) = Random  -> {"packet_delivered",
                                                     "packet_lost"}
         [] LossAt(scenario, tx.start) = Certain -> {"packet_lost"}

\* A transmission is over; a voice frame may have come too late, and a
\* heartbeat that arrives is the last one heard.
Finish(e) ==
  /\ e.what = "finish"
  /\ Run(e, {})
  /\ \E tx \in active :
       LET latency == e.time + scenario.propagation - tx.created
       IN /\ tx.packet = e.arg
          /\ active' = active \ {tx}
          /\ \E outcome \in Outcomes(tx) :
               /\ Record({[Entry(e.time, outcome, tx.source, tx.packet) EXCEPT
                              !.kind = tx.kind, !.start = tx.start, !.latency = latency]}
                    \cup IF /\ outcome = "packet_delivered" /\ tx.kind = "voice"
                            /\ latency > scenario.deadline
                         THEN {Entry(e.time, "audio_deadline_miss", tx.source, tx.packet)}
                         ELSE {})
               /\ lastHeartbeat' =
                    IF tx.kind = "heartbeat" /\ outcome = "packet_delivered"
                    THEN e.time ELSE lastHeartbeat
  /\ UNCHANGED <<packets, enabled, queue, collided, coordinator, electionPending>>

-----------------------------------------------------------------------------
(* A voice node. *)

\* The next call of a periodic callback, while frames are generated.
NextCall(o, e, n) ==
  LET t == e.time + LocalPeriod(scenario, n)
  IN IF t < scenario.duration THEN {Call(o, t, e.what, n)} ELSE {}

\* A frame is recorded; the oldest one waiting makes room for it.
Generate(e) ==
  LET n == e.arg
      frame == [packet |-> packets + 1, created |-> e.time]
      full == Len(queue[n]) >= scenario.maxQueue
  IN /\ e.what = "generate"
     /\ Run(e, NextCall(order, e, n))
     /\ IF enabled[n]
        THEN /\ packets' = packets + 1
             /\ queue' = [queue EXCEPT ![n] = Append(IF full THEN Tail(@) ELSE @, frame)]
             /\ Record({Entry(e.time, "voice_frame_generated", n, frame.packet)}
                  \cup (IF full
                        THEN {Entry(e.time, "queue_overflow", n, Head(queue[n]).packet)}
                        ELSE {}))
        ELSE UNCHANGED <<packets, queue, trace>>
     /\ UNCHANGED <<enabled, active, collided, coordinator, lastHeartbeat, electionPending>>

\* The node's slot comes: the oldest waiting frame is sent.
Slot(e) ==
  LET n == e.arg
      frame == Head(queue[n])
      airtime == VoiceAirtime(scenario)
  IN /\ e.what = "slot"
     /\ IF enabled[n] /\ queue[n] # <<>>
        THEN /\ Run(e, {FinishCall(frame.packet, e.time, airtime)}
                         \cup NextCall(order + 1, e, n))
             /\ queue' = [queue EXCEPT ![n] = Tail(@)]
             /\ Transmit(frame.packet, n, "voice", frame.created, e.time, airtime)
             /\ IF e.time - frame.created > scenario.deadline
                THEN Record({Entry(e.time, "audio_deadline_miss", n, frame.packet)})
                ELSE UNCHANGED trace
        ELSE /\ Run(e, NextCall(order, e, n))
             /\ UNCHANGED <<queue, active, collided, trace>>
     /\ UNCHANGED <<packets, enabled, coordinator, lastHeartbeat, electionPending>>

\* A fault of the scenario switches a node off or on.
SetEnabled(e) ==
  /\ e.what \in NodeActions
  /\ Run(e, {})
  /\ enabled' = [enabled EXCEPT ![e.arg] = (e.what = "enable_node")]
  /\ UNCHANGED <<packets, queue, active, collided, trace, coordinator, lastHeartbeat,
                 electionPending>>

-----------------------------------------------------------------------------
(* The coordinator. *)

\* The coordinator sends a heartbeat if it is on.
Heartbeat(e) ==
  LET again == Call(order + 1, e.time + scenario.interval, "heartbeat", 0)
      airtime == HeartbeatAirtime(scenario)
  IN /\ e.what = "heartbeat"
     /\ IF enabled[coordinator]
        THEN /\ Run(e, {FinishCall(packets + 1, e.time, airtime), again})
             /\ packets' = packets + 1
             /\ Transmit(packets + 1, coordinator, "heartbeat", e.time, e.time, airtime)
        ELSE /\ Run(e, {again})
             /\ UNCHANGED <<packets, active, collided>>
     /\ UNCHANGED <<enabled, queue, trace, coordinator, lastHeartbeat, electionPending>>

CheckPeriod == Larger(1, scenario.interval \div 2)

\* The crew looks whether a heartbeat is overdue.
CheckTimeout(e) ==
  LET again == Call(order + 1, e.time + CheckPeriod, "check", 0)
      overdue == e.time - lastHeartbeat > scenario.timeout /\ ~electionPending
  IN /\ e.what = "check"
     /\ Run(e, IF overdue THEN {Call(order, e.time + scenario.delay, "elect", 0), again}
               ELSE {again})
     /\ electionPending' = (electionPending \/ overdue)
     /\ UNCHANGED <<packets, enabled, queue, active, collided, trace, coordinator,
                    lastHeartbeat>>

\* Mutant: the lowest node is elected, on or off.
Elect_AnyNode(e) ==
  /\ e.what = "elect"
  /\ Run(e, {})
  /\ coordinator' = CHOOSE n \in NodesOf(scenario) : \A m \in NodesOf(scenario) : n <= m
  /\ lastHeartbeat' = e.time
  /\ Record({Entry(e.time, "coordinator_selected", coordinator', 0)})
  /\ electionPending' = FALSE
  /\ UNCHANGED <<packets, enabled, queue, active, collided>>

\* The lowest node that is on becomes coordinator.
Elect(e) ==
  LET on == {n \in NodesOf(scenario) : enabled[n]}
  IN /\ e.what = "elect"
     /\ Run(e, {})
     /\ IF on # {}
        THEN /\ coordinator' = CHOOSE n \in on : \A m \in on : n <= m
             /\ lastHeartbeat' = e.time
             /\ Record({Entry(e.time, "coordinator_selected", coordinator', 0)})
        ELSE UNCHANGED <<coordinator, lastHeartbeat, trace>>
     /\ electionPending' = FALSE
     /\ UNCHANGED <<packets, enabled, queue, active, collided>>

-----------------------------------------------------------------------------
(* A run: nodes, coordinator and faults are scheduled in this order. *)

StartCalls(s) ==
  LET n == Len(s.nodes)
      first(o, i, what) == Call(2 * i + o, (i - 1) * s.spacing, what, s.nodes[i].id)
  IN {first(0, i, "generate") : i \in 1 .. n} \cup {first(1, i, "slot") : i \in 1 .. n}
     \cup {Call(2 * n + 2, FirstHeartbeat, "heartbeat", 0),
           Call(2 * n + 3, s.timeout, "check", 0)}

FaultCalls(s) ==
  {Call(2 * Len(s.nodes) + 3 + i, s.faults[i].time, s.faults[i].action, s.faults[i].node) :
     i \in {j \in DOMAIN s.faults : s.faults[j].action \in NodeActions}}

Init ==
  /\ scenario \in Scenarios
  /\ now = 0
  /\ agenda = StartCalls(scenario) \cup FaultCalls(scenario)
  /\ order = 2 * Len(scenario.nodes) + 4 + Len(scenario.faults)
  /\ packets = 0
  /\ enabled = [n \in NodesOf(scenario) |-> TRUE]
  /\ queue = [n \in NodesOf(scenario) |-> <<>>]
  /\ active = {} /\ collided = {}
  /\ trace = {}
  /\ coordinator = scenario.initial
  /\ lastHeartbeat = 0
  /\ electionPending = FALSE
  /\ ended = FALSE
  /\ leaderlessSince = Never

Callback(e) ==
  \/ Generate(e) \/ Slot(e) \/ Finish(e) \/ SetEnabled(e)
  \/ Heartbeat(e) \/ CheckTimeout(e) \/ Elect(e)

Step ==
  /\ \E e \in agenda : Callback(e)
  /\ leaderlessSince' =
       IF enabled'[coordinator'] \/ \A n \in NodesOf(scenario) : ~enabled'[n]
       THEN Never
       ELSE IF leaderlessSince = Never THEN now' ELSE leaderlessSince
  /\ UNCHANGED <<scenario, ended>>

\* Mutant: the run goes on until no callback is left at all.
End_WhenEmpty ==
  /\ ~ended
  /\ agenda = {}
  /\ now' = Until
  /\ ended' = TRUE
  /\ UNCHANGED <<scenario, agenda, order, packets, enabled, queue, active, collided, trace,
                 coordinator, lastHeartbeat, electionPending, leaderlessSince>>

\* No callback is left before the end of the run.
End ==
  /\ ~ended
  /\ \A c \in agenda : c.time > Until
  /\ now' = Until
  /\ ended' = TRUE
  /\ UNCHANGED <<scenario, agenda, order, packets, enabled, queue, active, collided, trace,
                 coordinator, lastHeartbeat, electionPending, leaderlessSince>>

Next == Step \/ End

Spec == Init /\ [][Next]_vars /\ WF_vars(Next)

-----------------------------------------------------------------------------
(* The summary of a run, and the verdict of the parameter sweep on it. *)

Events(event) == {x \in trace : x.event = event}
VoiceEvents(event) == {x \in Events(event) : x.kind = "voice"}

\* The i-th smallest latency of the delivered voice packets, from 0.
RankedLatency(i) ==
  LET d == VoiceEvents("packet_delivered")
      v == CHOOSE x \in d :
             /\ Cardinality({y \in d : y.latency < x.latency}) <= i
             /\ Cardinality({y \in d : y.latency <= x.latency}) > i
  IN v.latency

\* Twenty times the 95th percentile: between two ranks it is interpolated.
P95Latency20 ==
  LET index == (Cardinality(VoiceEvents("packet_delivered")) - 1) * 19
      low == index \div 20
      part == index % 20
  IN IF part = 0 THEN 20 * RankedLatency(low)
     ELSE RankedLatency(low) * (20 - part) + RankedLatency(low + 1) * part

Summary ==
  [generated |-> Cardinality(Events("voice_frame_generated")),
   delivered |-> Cardinality(VoiceEvents("packet_delivered")),
   collided  |-> Cardinality(VoiceEvents("packet_collided")),
   lost      |-> Cardinality(VoiceEvents("packet_lost")),
   overflows |-> Cardinality(Events("queue_overflow")),
   misses    |-> Cardinality(Events("audio_deadline_miss"))]

\* The screening criteria, with at most 3/4 of the channel used and at
\* least 999 of 1000 frames delivered.
Feasible ==
  LET c == Capacity(scenario)
  IN /\ Summary.generated > 0
     /\ 1000 * Summary.delivered >= 999 * Summary.generated
     /\ Summary.collided = 0 /\ Summary.overflows = 0 /\ Summary.misses = 0
     /\ 4 * c.used <= 3 * c.available
     /\ c.scheduleSpan <= scenario.frame
     /\ Summary.delivered > 0 => P95Latency20 <= 20 * scenario.deadline

-----------------------------------------------------------------------------
(* Properties. *)

\* No frame is forgotten or counted twice: each one generated is waiting, on
\* the air, delivered, collided, lost or dropped by a full queue, and when
\* the run is over, node faults and all, none is waiting or on the air, so
\* that the delivery ratio is over frames that all met their fate.
FramesAccounted ==
  LET waiting == Cardinality(UNION {{n} \X DOMAIN queue[n] : n \in NodesOf(scenario)})
      flying == Cardinality({a \in active : a.kind = "voice"})
  IN /\ Summary.generated = waiting + flying + Summary.delivered
          + Summary.collided + Summary.lost + Summary.overflows
     /\ ended => waiting + flying = 0

\* A packet is recorded as collided exactly if some other transmission
\* overlapped it in time, whichever of the two started first and whatever
\* ended or started at the same instant.
CollidedIffOverlapping ==
  LET over == Events("packet_collided") \cup Events("packet_delivered")
                \cup Events("packet_lost")
      spans == {[packet |-> x.packet, from |-> x.start, to |-> x.time] : x \in over}
                 \cup {[packet |-> a.packet, from |-> a.start, to |-> a.end] : a \in active}
  IN \A x \in over :
       x.event = "packet_collided"
         <=> \E y \in spans : y.packet # x.packet /\ x.start < y.to /\ y.from < x.time

\* While some node is on, the crew is not without a coordinator for longer
\* than the heartbeat in flight, the timeout, one check period and the
\* election delay, whatever heartbeats, elections and faults came before.
LeaderReplaced ==
  leaderlessSince # Never =>
    now - leaderlessSince <= HeartbeatAirtime(scenario) + scenario.timeout
                               + CheckPeriod + scenario.delay

\* A scenario whose clocks agree, where nothing fails or is lost, whose
\* slots are those of its nodes, whose heartbeats fall behind the last slot
\* and whose channel and deadline suffice.
Orderly(s) ==
  LET c == Capacity(s)
  IN /\ \A i \in DOMAIN s.nodes : s.nodes[i].drift = 0
     /\ s.faults = <<>> /\ s.baseLoss = None
     /\ s.slots = Len(s.nodes) /\ Len(s.nodes) > 1
     /\ s.interval % s.frame = 0
     /\ FirstHeartbeat % s.frame >= (Len(s.nodes) - 1) * s.spacing + VoiceAirtime(s)
     /\ (FirstHeartbeat % s.frame) + HeartbeatAirtime(s) <= s.frame
     /\ s.deadline >= VoiceAirtime(s) + s.propagation
     /\ 4 * c.used <= 3 * c.available
     /\ s.duration > FirstHeartbeat

\* For such a scenario the estimate made without running it decides: the
\* run is feasible exactly if each packet fits its slot.
EstimateDecides ==
  ended /\ Orderly(scenario) =>
    (Feasible <=> Capacity(scenario).slotGuard >= 0)

\* Every run comes to its end.
RunEnds == <>ended
=============================================================================
