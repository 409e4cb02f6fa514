------------------------- MODULE SimulatedCrew_proofs -------------------------
(***************************************************************************)
(* The protocol simulator, for every scenario its loader can produce: a    *)
(* transmission is recorded as collided exactly if another one overlapped  *)
(* it (CollisionsAreOverlaps), every frame is accounted for                *)
(* (EveryFrameAccounted), and a lost coordinator is replaced in time       *)
(* (LostLeaderReplaced).  All three rest on Engine, which says how the     *)
(* agenda, the packets and the medium hang together.                       *)
(***************************************************************************)
EXTENDS SimulatedCrew, FiniteSetTheorems, SequenceTheorems, WellFoundedInduction, TLAPS

Nodes    == NodesOf(scenario)
Airtime(kind) == IF kind = "voice" THEN VoiceAirtime(scenario)
                                   ELSE HeartbeatAirtime(scenario)

NodeCalls == {"generate", "slot"} \cup NodeActions
Calls     == [order : Nat, time : Nat, arg : Nat,
              what : NodeCalls \cup {"finish", "heartbeat", "check", "elect"}]
Frame     == [packet : Nat, created : Nat]
Transmission ==
  [packet : Nat, source : Nat, kind : {"voice", "heartbeat"}, created : Nat,
   start : Nat, end : Nat]

Of(what) == {c \in agenda : c.what = what}

Types ==
  /\ scenario \in Scenarios
  /\ now \in Nat /\ order \in Nat /\ packets \in Nat
  /\ agenda \subseteq Calls
  /\ enabled \in [Nodes -> BOOLEAN]
  /\ queue \in [Nodes -> Seq(Frame)]
  /\ active \subseteq Transmission
  /\ coordinator \in Nodes

\* Nothing on the agenda lies in the past, and no two calls share a number.
AgendaInv ==
  /\ now <= Until
  /\ \A c \in agenda : now <= c.time /\ c.order < order
  /\ \A c, d \in agenda : c.order = d.order => c = d
  /\ \A c \in agenda : c.what \in NodeCalls => c.arg \in Nodes

\* Each transmission on the air has one call that ends it, at its end, and
\* each such call its transmission.
AirInv ==
  /\ \A a \in active : /\ a.packet <= packets /\ a.start <= now
                       /\ a.end = a.start + Airtime(a.kind)
  /\ \A a, b \in active : a.packet = b.packet => a = b
  /\ \A a \in active : \E c \in Of("finish") : c.arg = a.packet /\ c.time = a.end
  /\ \A c \in Of("finish") : \E a \in active : c.arg = a.packet /\ c.time = a.end
  /\ \A c, d \in Of("finish") : c.arg = d.arg => c = d

\* Between its calls, a node generates the next frame and has a slot at the same
\* moment, with no fault in between, and no frame waits.
Rests(n) ==
  /\ queue[n] = <<>>
  /\ \A g \in Of("generate") : g.arg = n =>
       \E s \in Of("slot") :
         /\ s.arg = n /\ s.time = g.time /\ g.order < s.order
         /\ \A f \in agenda : f.what \in NodeActions =>
              f.order < g.order \/ s.order < f.order
  /\ \A s \in Of("slot") : s.arg = n =>
       \E g \in Of("generate") : g.arg = n /\ g.time = s.time /\ g.order < s.order

\* A node has generated a frame and its slot is due: no fault will come before.
SlotDue(n) ==
  \E s \in Of("slot") :
    /\ s.arg = n /\ s.time = now
    /\ \A f \in agenda : f.what \in NodeActions /\ f.time = now => s.order < f.order
    /\ \A g \in Of("generate") : g.arg = n =>
         /\ g.time = now + LocalPeriod(scenario, n) /\ g.time < scenario.duration
         /\ \A f \in agenda : f.what \in NodeActions => f.order < g.order
    /\ now + LocalPeriod(scenario, n) < scenario.duration =>
         \E g \in Of("generate") : g.arg = n
    /\ IF enabled[n]
       THEN /\ Len(queue[n]) = 1
            /\ queue[n][1].packet <= packets
            /\ \A a \in active : a.packet # queue[n][1].packet
       ELSE queue[n] = <<>>

NodesInv ==
  /\ \A n \in Nodes : Rests(n) \/ SlotDue(n)
  /\ \A what \in {"generate", "slot"} : \A c, d \in Of(what) : c.arg = d.arg => c = d
  /\ \A n, m \in Nodes : queue[n] # <<>> /\ queue[m] # <<>>
        /\ queue[n][1].packet = queue[m][1].packet => n = m

Engine == Types /\ AgendaInv /\ AirInv /\ NodesInv

-----------------------------------------------------------------------------
(* The three invariants that rest on it. *)

Over == Events("packet_collided") \cup Events("packet_delivered")
          \cup Events("packet_lost")

Spans == {[packet |-> x.packet, from |-> x.start, to |-> x.time] : x \in Over}
           \cup {[packet |-> a.packet, from |-> a.start, to |-> a.end] : a \in active}

Overlapping(packet, from, to) ==
  \E y \in Spans : y.packet # packet /\ from < y.to /\ y.from < to

\* What is over is past; what collided, on the air or over, is what overlapped.
MediumInv ==
  /\ \A x \in Over : x.time \in Nat /\ x.start \in Nat /\ x.packet \in Nat
                     /\ x.time <= now /\ x.packet <= packets
  /\ \A n \in Nodes : queue[n] # <<>> => \A x \in Over : x.packet # queue[n][1].packet
  /\ \A a \in active : \A x \in Over : x.packet # a.packet
  /\ \A c \in collided : c \in Nat /\ c <= packets
  /\ \A n \in Nodes : queue[n] # <<>> => queue[n][1].packet \notin collided
  /\ \A a \in active : a.packet \in collided <=> Overlapping(a.packet, a.start, a.end)
  /\ \A x \in Over : x.event = "packet_collided" <=> Overlapping(x.packet, x.start, x.time)

\* While there is no leader, no heartbeat is sent, so the next check or the
\* election that is pending comes within the bound.
LeaderInv ==
  LET heard == leaderlessSince + HeartbeatAirtime(scenario)
      checked == heard + scenario.timeout + CheckPeriod
  IN /\ leaderlessSince \in Nat \cup {Never} /\ electionPending \in BOOLEAN
     /\ lastHeartbeat \in Nat /\ lastHeartbeat <= now
     /\ \E c \in Of("check") : c.time <= Larger(now + CheckPeriod, scenario.timeout)
     /\ \A c, d \in Of("check") : c = d
     /\ \A c, d \in Of("elect") : c = d
     /\ electionPending <=> Of("elect") # {}
     /\ \A c \in Of("elect") : c.time <= now + scenario.delay
     /\ leaderlessSince = Never <=>
          (enabled[coordinator] \/ \A n \in Nodes : ~enabled[n])
     /\ leaderlessSince # Never =>
          /\ leaderlessSince <= now /\ lastHeartbeat <= heard
          /\ \A a \in active : a.kind = "heartbeat" => a.start <= leaderlessSince
          /\ ~electionPending => \A c \in Of("check") : c.time <= checked
          /\ \A c \in Of("elect") : c.time <= checked + scenario.delay

Waiting == UNION {{n} \X DOMAIN queue[n] : n \in Nodes}
Flying  == {a \in active : a.kind = "voice"}

Generated == Events("voice_frame_generated")
Delivered == VoiceEvents("packet_delivered")
Collided  == VoiceEvents("packet_collided")
Lost      == VoiceEvents("packet_lost")

\* Every frame is counted where it is.
CountInv ==
  /\ IsFiniteSet(Waiting) /\ IsFiniteSet(active) /\ IsFiniteSet(trace)
  /\ Events("queue_overflow") = {}
  /\ \A x \in Generated : x.packet \in Nat /\ x.packet <= packets
  /\ Cardinality(Generated) = Cardinality(Waiting) + Cardinality(Flying)
        + Cardinality(Delivered) + Cardinality(Collided) + Cardinality(Lost)

\* No node's first slot falls between the time frames are generated and the end of the
\* run: such a frame would be sent and the run over before its fate is known.
NoSlotAtEnd ==
  \A s \in Scenarios : \A i \in DOMAIN s.nodes :
    \/ (i - 1) * s.spacing <= s.duration
    \/ (i - 1) * s.spacing > s.duration + VoiceAirtime(s)

\* Frames are sent early enough for the run to see what becomes of them.
EndInv ==
  /\ \A s \in Of("slot") : s.time <= scenario.duration \/ s.time > Until
  /\ \A a \in Flying : a.start <= scenario.duration
  /\ ended => \A c \in agenda : c.time > Until

-----------------------------------------------------------------------------
(* What a scenario comes to, in numbers. *)

\* A sequence has its elements in its element set.
LEMMA SeqElements ==
  ASSUME NEW S, NEW q \in Seq(S)
  PROVE  /\ Len(q) \in Nat /\ DOMAIN q = 1 .. Len(q)
         /\ \A i \in DOMAIN q : q[i] \in S
OBVIOUS

\* Nothing is left of a sequence of one element when it is taken.
LEMMA TailOfOne ==
  ASSUME NEW S, NEW q \in Seq(S), Len(q) = 1
  PROVE  Tail(q) = <<>>
<1>1. q # <<>>
  BY EmptySeq
<1>2. Tail(q) \in Seq(S) /\ Len(Tail(q)) = 0
  BY <1>1, HeadTailProperties
<1> QED BY <1>2, EmptySeq, Zenon

\* Python's round of a positive fraction is a natural number.
LEMMA RoundedType ==
  ASSUME NEW a \in Nat, NEW b \in Nat \ {0}
  PROVE  Rounded(a, b) \in Nat
<1>1. a \div b \in Nat
  OBVIOUS
<1> QED BY <1>1 DEF Rounded

\* Every packet takes time on the air (packet_airtime_us).
LEMMA AirtimePositive ==
  ASSUME NEW s \in Scenarios, NEW bytes \in Nat
  PROVE  PacketAirtime(s, bytes) \in Nat \ {0}
<1>1. s.radio \in Nat \ {0} /\ s.overhead \in Nat \ {0} /\ s.preamble \in Nat
  BY ScenarioAssumption
<1> DEFINE bits == (bytes + s.overhead) * 8 + s.radio - 1
<1>2. bits \in Nat /\ bits >= s.radio
  BY <1>1
<1>3. bits \div s.radio \in Nat \ {0}
  <2> HIDE DEF bits
  <2>1. ASSUME NEW x \in Nat, NEW r \in Nat \ {0}, x >= r
        PROVE  x \div r \in Nat \ {0}
    BY <2>1
  <2> QED BY <1>1, <1>2, <2>1
<1> QED BY <1>1, <1>3 DEF PacketAirtime

\* What the assumption on scenarios makes of their lengths and nodes.
LEMMA ScenarioFacts ==
  ASSUME NEW s \in Scenarios
  PROVE  /\ VoiceAirtime(s) \in Nat \ {0} /\ HeartbeatAirtime(s) \in Nat \ {0}
         /\ s.interval \in Nat \ {0} /\ s.timeout \in Nat /\ s.delay \in Nat
         /\ s.duration \in Nat /\ s.maxQueue \in Nat \ {0} /\ s.spacing \in Nat
         /\ \A n \in NodesOf(s) : LocalPeriod(s, n) \in Nat \ {0}
         /\ NodesOf(s) \subseteq Nat
<1>1. /\ s.codec \in Nat /\ s.frame \in Nat \ {0} /\ s.security \in Nat
      /\ s.interval \in Nat \ {0} /\ s.timeout \in Nat /\ s.delay \in Nat
      /\ s.duration \in Nat /\ s.maxQueue \in Nat \ {0} /\ s.spacing \in Nat
  BY ScenarioAssumption
<1>2. PayloadBytes(s) \in Nat
  <2>1. s.codec * s.frame \in Nat
    BY <1>1
  <2> QED BY <2>1, RoundedType DEF PayloadBytes
<1>3. VoiceAirtime(s) \in Nat \ {0}
  <2>1. PayloadBytes(s) + s.security \in Nat
    BY <1>1, <1>2
  <2> QED BY <2>1, AirtimePositive DEF VoiceAirtime
<1>4. HeartbeatAirtime(s) \in Nat \ {0}
  <2>1. (IF s.fixedLength THEN PayloadBytes(s) ELSE 8) + s.security \in Nat
    BY <1>1, <1>2
  <2> QED BY <2>1, AirtimePositive DEF HeartbeatAirtime
<1>5. s.nodes \in Seq([id : Nat, drift : Int])
      /\ \A i \in DOMAIN s.nodes : s.nodes[i].drift > -100
  BY ScenarioAssumption
<1>6. \A i \in DOMAIN s.nodes : s.nodes[i] \in [id : Nat, drift : Int]
  BY <1>5, SeqElements, Zenon
<1>7. ASSUME NEW n \in NodesOf(s)
      PROVE  LocalPeriod(s, n) \in Nat \ {0}
  <2> DEFINE d == CHOOSE i \in DOMAIN s.nodes : s.nodes[i].id = n
  <2>1. d \in DOMAIN s.nodes
    BY DEF NodesOf
  <2>2. s.nodes[d].drift \in Int /\ s.nodes[d].drift > -100
    BY <1>5, <1>6, <2>1
  <2>3. 100 + s.nodes[d].drift \in Nat \ {0} /\ 100 * s.frame \in Nat
    BY <1>1, <2>2
  <2>4. Rounded(100 * s.frame, 100 + s.nodes[d].drift) \in Nat
    BY <2>3, RoundedType
  <2> QED BY <2>4 DEF LocalPeriod, Larger
<1>8. NodesOf(s) \subseteq Nat
  BY <1>6 DEF NodesOf
<1> QED BY <1>1, <1>3, <1>4, <1>7, <1>8

\* The checks advance in time, and a run ends after its last frame could be sent.
LEMMA PeriodFacts ==
  ASSUME Types
  PROVE  CheckPeriod \in Nat \ {0} /\ Until \in Nat /\ Until >= scenario.duration
<1>1. scenario.interval \in Nat \ {0} /\ scenario.duration \in Nat
      /\ VoiceAirtime(scenario) \in Nat \ {0}
  BY ScenarioFacts DEF Types
<1> QED BY <1>1 DEF CheckPeriod, Larger, Until

-----------------------------------------------------------------------------
(* One turn of the engine. *)

\* The calls a callback schedules: not for the past, with the next numbers.
Follows(e, calls) ==
  /\ calls \subseteq Calls
  /\ \A c \in calls : e.time <= c.time /\ (c.order = order \/ c.order = order + 1)
  /\ \A c, d \in calls : c.order = d.order => c = d
  /\ \A c \in calls : c.what \in NodeCalls => c.arg \in Nodes

\* The callback that runs is the earliest one; time never goes back (Simulation.run).
LEMMA RunAgenda ==
  ASSUME Types, AgendaInv, UNCHANGED scenario,
         NEW e, NEW calls, Follows(e, calls), Run(e, calls)
  PROVE  /\ e \in agenda /\ e \in Calls /\ now' = e.time /\ now <= now'
         /\ agenda' = (agenda \ {e}) \cup calls
         /\ \A c \in agenda \ {e} : Before(e, c)
         /\ now' \in Nat /\ order' \in Nat /\ agenda' \subseteq Calls /\ AgendaInv'
<1>1. /\ e \in agenda /\ e \in Calls /\ now' = e.time /\ order' = order + 2
      /\ agenda' = (agenda \ {e}) \cup calls
      /\ \A c \in agenda \ {e} : Before(e, c)
      /\ e.time <= Until
  BY DEF Run, Due, Types
<1>2. e.time \in Nat /\ now <= e.time /\ order \in Nat /\ now \in Nat
  BY <1>1 DEF Types, AgendaInv, Calls
<1>3. agenda' \subseteq Calls
  BY <1>1 DEF Types, Follows
<1>4. \A c \in agenda' : now' <= c.time /\ c.order < order'
  <2>1. ASSUME NEW c \in agenda \ {e}
        PROVE  now' <= c.time /\ c.order < order'
    <3>1. c \in Calls /\ c.order < order /\ Before(e, c)
      BY <1>1, <2>1 DEF AgendaInv, Types
    <3> QED BY <1>1, <1>2, <3>1 DEF Before, Calls
  <2>2. ASSUME NEW c \in calls
        PROVE  now' <= c.time /\ c.order < order'
    BY <1>1, <1>2, <2>2 DEF Follows
  <2> QED BY <1>1, <2>1, <2>2
<1>5. \A c, d \in agenda' : c.order = d.order => c = d
  <2>1. \A c \in agenda, d \in calls : c.order # d.order
    BY <1>2 DEF AgendaInv, Follows, Types, Calls
  <2> QED BY <1>1, <2>1 DEF AgendaInv, Follows
<1>6. \A c \in agenda' : c.what \in NodeCalls => c.arg \in Nodes'
  BY <1>1 DEF AgendaInv, Follows, Nodes
<1>7. now' <= Until'
  BY <1>1 DEF Until
<1> QED BY <1>1, <1>2, <1>3, <1>4, <1>5, <1>6, <1>7 DEF AgendaInv

\* A periodic callback of a node comes again after its period, or never.
LEMMA NextCallFollows ==
  ASSUME Types, NEW e \in Calls, e.what \in {"generate", "slot"}, NEW n \in Nodes,
         NEW o \in {order, order + 1}
  PROVE  LET next == Call(o, e.time + LocalPeriod(scenario, n), e.what, n)
         IN /\ NextCall(o, e, n) =
                 IF next.time < scenario.duration THEN {next} ELSE {}
            /\ next \in Calls /\ next.time > e.time
            /\ next.order = o /\ next.what = e.what /\ next.arg = n
            /\ next.time = e.time + LocalPeriod(scenario, n)
<1>1. LocalPeriod(scenario, n) \in Nat \ {0} /\ n \in Nat
  BY ScenarioFacts DEF Types, Nodes
<1>2. e.time \in Nat /\ o \in Nat
  BY DEF Types, Calls
<1> QED BY <1>1, <1>2 DEF NextCall, Call, Calls, NodeCalls

-----------------------------------------------------------------------------
(* The medium's part of Engine. *)

\* Nothing starts or ends on the air.
LEMMA AirKept ==
  ASSUME Engine, NEW e, NEW calls, Follows(e, calls), Run(e, calls),
         e.what # "finish", \A c \in calls : c.what # "finish",
         UNCHANGED <<scenario, active>>, packets' \in Nat, packets <= packets'
  PROVE  AirInv'
<1>1. /\ now <= now' /\ now' \in Nat /\ agenda' = (agenda \ {e}) \cup calls
  BY RunAgenda DEF Engine
<1>2. Of("finish")' = Of("finish")
  BY <1>1 DEF Of
<1>3. \A a \in active : a.packet <= packets' /\ a.start <= now'
  BY <1>1 DEF Engine, AirInv, Types, Transmission
<1> QED BY <1>2, <1>3 DEF Engine, AirInv, Airtime

\* A transmission starts (SharedMedium.transmit).
LEMMA AirTransmit ==
  ASSUME Engine, NEW e, NEW calls, Follows(e, calls), Run(e, calls), UNCHANGED scenario,
         e.what # "finish", NEW f \in calls, f.what = "finish",
         \A c \in calls : c.what = "finish" => c = f,
         NEW tx \in Transmission, f.arg = tx.packet, f.time = tx.end,
         tx.start = e.time, tx.end = tx.start + Airtime(tx.kind),
         active' = active \cup {tx}, \A a \in active : a.packet # tx.packet,
         packets' \in Nat, packets <= packets', tx.packet <= packets'
  PROVE  AirInv' /\ active' \subseteq Transmission
<1>1. /\ now <= now' /\ now' \in Nat /\ now' = e.time
      /\ agenda' = (agenda \ {e}) \cup calls
  BY RunAgenda DEF Engine
<1>2. Of("finish")' = Of("finish") \cup {f}
  BY <1>1 DEF Of
<1>3. \A a \in active' : /\ a.packet <= packets' /\ a.start <= now'
                         /\ a.end = a.start + Airtime(a.kind)'
  BY <1>1, SMTT(30) DEF Engine, AirInv, Types, Transmission, Airtime
<1>4. \A a, b \in active' : a.packet = b.packet => a = b
  BY DEF Engine, AirInv
<1>5. \A c \in Of("finish") : c.arg # f.arg
  BY DEF Engine, AirInv
<1>6. \A a \in active' : \E c \in Of("finish")' : c.arg = a.packet /\ c.time = a.end
  BY <1>2 DEF Engine, AirInv
<1>7. \A c \in Of("finish")' : \E a \in active' : c.arg = a.packet /\ c.time = a.end
  BY <1>2 DEF Engine, AirInv
<1>8. \A c, d \in Of("finish")' : c.arg = d.arg => c = d
  BY <1>2, <1>5 DEF Engine, AirInv
<1>9. active' \subseteq Transmission
  BY DEF Engine, Types
<1> QED BY <1>3, <1>4, <1>6, <1>7, <1>8, <1>9 DEF AirInv

\* A transmission ends (finish of SharedMedium.transmit).
LEMMA AirFinish ==
  ASSUME Engine, NEW e, Run(e, {}), UNCHANGED <<scenario, packets>>,
         e.what = "finish", NEW tx \in active, tx.packet = e.arg, active' = active \ {tx}
  PROVE  AirInv' /\ active' \subseteq Transmission /\ tx.end = e.time
<1>0. Follows(e, {})
  BY DEF Follows
<1>1. /\ now <= now' /\ now' \in Nat /\ agenda' = agenda \ {e} /\ e \in agenda
  BY <1>0, RunAgenda DEF Engine
<1>2. Of("finish")' = Of("finish") \ {e} /\ e \in Of("finish")
  BY <1>1 DEF Of
<1>3. \A a \in active' : /\ a.packet <= packets' /\ a.start <= now'
                         /\ a.end = a.start + Airtime(a.kind)'
  BY <1>1 DEF Engine, AirInv, Types, Transmission, Airtime
<1>4. \A a, b \in active' : a.packet = b.packet => a = b
  BY DEF Engine, AirInv
<1>5. tx.end = e.time
  BY <1>2 DEF Engine, AirInv
<1>6. \A a \in active' : \E c \in Of("finish")' : c.arg = a.packet /\ c.time = a.end
  BY <1>2 DEF Engine, AirInv
<1>7. \A c \in Of("finish")' : \E a \in active' : c.arg = a.packet /\ c.time = a.end
  BY <1>2 DEF Engine, AirInv
<1>8. \A c, d \in Of("finish")' : c.arg = d.arg => c = d
  BY <1>2 DEF Engine, AirInv
<1>9. active' \subseteq Transmission
  BY DEF Engine, Types
<1> QED BY <1>3, <1>4, <1>5, <1>6, <1>7, <1>8, <1>9 DEF AirInv

-----------------------------------------------------------------------------
(* The nodes' part of Engine. *)

\* Nothing happens at a node while another one's callback runs, and no fault of it
\* between a frame and its slot.
LEMMA NodeKept ==
  ASSUME Engine, NEW e, NEW calls, Follows(e, calls), Run(e, calls), UNCHANGED scenario,
         NEW n \in Nodes, ~(e.what \in {"generate", "slot"} /\ e.arg = n),
         \A c \in calls : /\ c.what \notin NodeActions
                          /\ c.what \in {"generate", "slot"} => c.arg # n,
         queue'[n] = queue[n], enabled'[n] # enabled[n] => e.what \in NodeActions,
         packets' \in Nat, packets <= packets',
         queue[n] # <<>> => \A a \in active' : a.packet # queue[n][1].packet
  PROVE  Rests(n)' \/ SlotDue(n)'
<1>1. /\ e \in agenda /\ now' = e.time /\ now <= now' /\ now' \in Nat
      /\ agenda' = (agenda \ {e}) \cup calls
      /\ \A c \in agenda \ {e} : Before(e, c)
  BY RunAgenda DEF Engine
<1>2. \A what \in {"generate", "slot"} :
        \A c : c \in Of(what)' /\ c.arg = n <=> c \in Of(what) /\ c.arg = n
  BY <1>1 DEF Of
<1>3. \A f \in agenda' : f.what \in NodeActions => f \in agenda
  BY <1>1
<1>4. CASE Rests(n)
  <2>1. Rests(n)'
    BY <1>2, <1>3, <1>4 DEF Rests
  <2> QED BY <2>1
<1>5. CASE SlotDue(n)
  <2>1. PICK s \in Of("slot") :
          /\ s.arg = n /\ s.time = now
          /\ \A f \in agenda : f.what \in NodeActions /\ f.time = now => s.order < f.order
          /\ \A g \in Of("generate") : g.arg = n =>
               /\ g.time = now + LocalPeriod(scenario, n) /\ g.time < scenario.duration
               /\ \A f \in agenda : f.what \in NodeActions => f.order < g.order
          /\ now + LocalPeriod(scenario, n) < scenario.duration =>
               \E g \in Of("generate") : g.arg = n
          /\ IF enabled[n]
             THEN /\ Len(queue[n]) = 1
                  /\ queue[n][1].packet <= packets
                  /\ \A a \in active : a.packet # queue[n][1].packet
             ELSE queue[n] = <<>>
    BY <1>5 DEF SlotDue
  <2>2. s \in agenda \ {e} /\ s \in Calls /\ e \in Calls
    BY <1>1, <2>1 DEF Of, Engine, Types
  <2>3. now' = now /\ (e.time = s.time /\ e.order < s.order)
    BY <1>1, <2>1, <2>2, SMTT(30) DEF Before, Calls, Engine, Types
  <2>4. enabled'[n] = enabled[n]
    BY <1>1, <2>1, <2>2, <2>3, SMTT(30) DEF Calls, Engine, Types
  <2>5. queue[n] \in Seq(Frame)
    BY DEF Engine, Types
  <2>6. IF enabled'[n]
        THEN /\ Len(queue'[n]) = 1
             /\ queue'[n][1].packet <= packets'
             /\ \A a \in active' : a.packet # queue'[n][1].packet
        ELSE queue'[n] = <<>>
    <3>1. CASE enabled[n]
      <4>1. queue[n] # <<>> /\ queue[n][1] \in Frame
        BY <2>1, <2>5, <3>1
      <4> QED BY <2>1, <2>4, <3>1, <4>1 DEF Frame, Engine, Types
    <3>2. CASE ~enabled[n]
      BY <2>1, <2>4, <3>2
    <3> QED BY <3>1, <3>2
  <2>7. s \in Of("slot")' /\ s.arg = n /\ s.time = now'
    BY <1>2, <2>1, <2>3
  <2>8. \A f \in agenda' : f.what \in NodeActions /\ f.time = now' => s.order < f.order
    BY <1>3, <2>1, <2>3
  <2>9. \A g \in Of("generate")' : g.arg = n =>
          /\ g.time = now' + LocalPeriod(scenario', n) /\ g.time < scenario'.duration
          /\ \A f \in agenda' : f.what \in NodeActions => f.order < g.order
    BY <1>2, <1>3, <2>1, <2>3
  <2>10. now' + LocalPeriod(scenario', n) < scenario'.duration =>
           \E g \in Of("generate")' : g.arg = n
    BY <1>2, <2>1, <2>3
  <2> QED BY <2>6, <2>7, <2>8, <2>9, <2>10 DEF SlotDue
<1> QED BY <1>4, <1>5 DEF Engine, NodesInv

\* A frame is generated only while the node rests (VoiceNode._generate), and its slot,
\* the same node's next call, comes at the same moment.
LEMMA GenerateAtRest ==
  ASSUME Engine, NEW e, NEW calls, Follows(e, calls), Run(e, calls), UNCHANGED scenario,
         e.what = "generate"
  PROVE  /\ e.arg \in Nodes /\ queue[e.arg] = <<>>
         /\ \E s \in Of("slot") \ {e} :
              /\ s.arg = e.arg /\ s.time = e.time
              /\ \A f \in agenda : f.what \in NodeActions /\ f.time = e.time =>
                   s.order < f.order
<1>1. /\ e \in agenda /\ e \in Calls
      /\ \A c \in agenda \ {e} : Before(e, c)
  BY RunAgenda DEF Engine
<1>2. e.arg \in Nodes /\ e \in Of("generate") /\ now <= e.time /\ now \in Nat
  BY <1>1 DEF Engine, AgendaInv, NodeCalls, Of, Types
<1> DEFINE n == e.arg
<1>3. LocalPeriod(scenario, n) \in Nat \ {0}
  BY <1>2, ScenarioFacts DEF Engine, Types, Nodes
<1>4. ~SlotDue(n)
  <2> SUFFICES ASSUME SlotDue(n) PROVE FALSE
    OBVIOUS
  <2>1. PICK s \in Of("slot") : s.time = now /\ e.time = now + LocalPeriod(scenario, n)
    BY <1>2 DEF SlotDue
  <2>2. s \in agenda \ {e} /\ Before(e, s)
    BY <1>1, <2>1 DEF Of
  <2> QED BY <1>2, <1>3, <2>1, <2>2 DEF Before
<1>5. Rests(n)
  BY <1>2, <1>4 DEF Engine, NodesInv
<1>6. PICK s \in Of("slot") :
        /\ s.arg = n /\ s.time = e.time /\ e.order < s.order
        /\ \A f \in agenda : f.what \in NodeActions => f.order < e.order \/ s.order < f.order
  BY <1>2, <1>5 DEF Rests
<1>7. \A f \in agenda : f.what \in NodeActions /\ f.time = e.time => s.order < f.order
  <2> SUFFICES ASSUME NEW f \in agenda, f.what \in NodeActions, f.time = e.time
               PROVE  s.order < f.order
    OBVIOUS
  <2>1. f # e
    BY DEF NodeActions
  <2>2. Before(e, f) /\ f.order \in Nat /\ e.order \in Nat /\ e.time \in Nat
    BY <1>1, <2>1 DEF Engine, Types, Calls
  <2> QED BY <1>6, <2>2 DEF Before
<1> QED BY <1>2, <1>5, <1>6, <1>7 DEF Rests, Of

\* A slot comes only to a node whose frame was just generated (VoiceNode._slot).
LEMMA SlotAfterFrame ==
  ASSUME Engine, NEW e, NEW calls, Follows(e, calls), Run(e, calls), UNCHANGED scenario,
         e.what = "slot"
  PROVE  /\ e.arg \in Nodes /\ e.time = now
         /\ \A g \in Of("generate") : g.arg = e.arg =>
              /\ g.time = now + LocalPeriod(scenario, e.arg) /\ g.time < scenario.duration
              /\ \A f \in agenda : f.what \in NodeActions => f.order < g.order
         /\ now + LocalPeriod(scenario, e.arg) < scenario.duration =>
              \E g \in Of("generate") : g.arg = e.arg
         /\ IF enabled[e.arg]
            THEN /\ Len(queue[e.arg]) = 1
                 /\ queue[e.arg][1].packet <= packets
                 /\ \A a \in active : a.packet # queue[e.arg][1].packet
            ELSE queue[e.arg] = <<>>
<1>1. /\ e \in agenda /\ e \in Calls
      /\ \A c \in agenda \ {e} : Before(e, c)
  BY RunAgenda DEF Engine
<1>2. e.arg \in Nodes /\ e \in Of("slot")
  BY <1>1 DEF Engine, AgendaInv, NodeCalls, Of
<1> DEFINE n == e.arg
<1>3. ~Rests(n)
  <2> SUFFICES ASSUME Rests(n) PROVE FALSE
    OBVIOUS
  <2>1. PICK g \in Of("generate") : g.arg = n /\ g.time = e.time /\ g.order < e.order
    BY <1>2 DEF Rests
  <2>2. g \in agenda \ {e} /\ Before(e, g) /\ g \in Calls
    BY <1>1, <2>1 DEF Of, Engine, Types
  <2> QED BY <1>1, <2>1, <2>2 DEF Before, Calls
<1>4. SlotDue(n)
  BY <1>2, <1>3 DEF Engine, NodesInv
<1>5. \A s \in Of("slot") : s.arg = n => s = e
  BY <1>2 DEF Engine, NodesInv
<1> QED BY <1>2, <1>4, <1>5 DEF SlotDue

-----------------------------------------------------------------------------
(* Every callback keeps Engine. *)

\* A callback that neither makes nor sends a frame, nor starts or ends a transmission.
LEMMA QuietEngine ==
  ASSUME Engine, NEW e, NEW calls, Follows(e, calls), Run(e, calls),
         UNCHANGED <<scenario, packets, queue, active>>,
         e.what \notin {"generate", "slot", "finish"},
         \A c \in calls : c.what \notin NodeCalls \cup {"finish"},
         enabled' \in [Nodes -> BOOLEAN], enabled' # enabled => e.what \in NodeActions,
         coordinator' \in Nodes
  PROVE  Engine'
<1>1. /\ now' \in Nat /\ order' \in Nat /\ agenda' \subseteq Calls /\ AgendaInv'
      /\ agenda' = (agenda \ {e}) \cup calls
  BY RunAgenda DEF Engine
<1>2. Types'
  BY <1>1 DEF Engine, Types, Nodes
<1>3. AirInv'
  <2>1. packets' \in Nat /\ packets <= packets'
    BY DEF Engine, Types
  <2> QED BY <2>1, AirKept
<1>4. NodesInv'
  <2>1. ASSUME NEW n \in Nodes
        PROVE  Rests(n)' \/ SlotDue(n)'
    <3>1. packets' \in Nat /\ packets <= packets'
      BY DEF Engine, Types
    <3>2. queue[n] # <<>> => \A a \in active' : a.packet # queue[n][1].packet
      BY DEF Engine, NodesInv, Rests, SlotDue
    <3>3. \A c \in calls : /\ c.what \notin NodeActions
                           /\ c.what \in {"generate", "slot"} => c.arg # n
      BY DEF NodeCalls
    <3> QED BY <3>1, <3>2, <3>3, NodeKept
  <2>2. \A what \in {"generate", "slot"} : \A c, d \in Of(what)' : c.arg = d.arg => c = d
    BY <1>1 DEF Of, Engine, NodesInv, NodeCalls
  <2>3. Nodes' = Nodes
    BY DEF Nodes
  <2> QED BY <2>1, <2>2, <2>3 DEF Engine, NodesInv
<1> QED BY <1>1, <1>2, <1>3, <1>4 DEF Engine

\* The queue of each node holds a frame of its own or none.
LEMMA OwnFrames ==
  ASSUME Engine
  PROVE  \A n \in Nodes : queue[n] # <<>> =>
           /\ queue[n][1].packet \in Nat /\ queue[n][1].packet <= packets
           /\ Len(queue[n]) = 1 /\ enabled[n] /\ SlotDue(n)
           /\ \A a \in active : a.packet # queue[n][1].packet
<1> SUFFICES ASSUME NEW n \in Nodes, queue[n] # <<>>
             PROVE  /\ queue[n][1].packet \in Nat /\ queue[n][1].packet <= packets
                    /\ Len(queue[n]) = 1 /\ enabled[n] /\ SlotDue(n)
                    /\ \A a \in active : a.packet # queue[n][1].packet
  OBVIOUS
<1>1. SlotDue(n)
  BY DEF Engine, NodesInv, Rests
<1>2. /\ Len(queue[n]) = 1 /\ queue[n][1].packet <= packets /\ enabled[n]
      /\ \A a \in active : a.packet # queue[n][1].packet
  BY <1>1 DEF SlotDue
<1>3. queue[n] \in Seq(Frame)
  BY DEF Engine, Types
<1>4. queue[n][1] \in Frame
  BY <1>2, <1>3
<1> QED BY <1>1, <1>2, <1>4 DEF Frame

\* VoiceNode._generate
LEMMA GenerateEngine ==
  ASSUME Engine, NEW e, Generate(e), UNCHANGED scenario
  PROVE  /\ Engine'
         /\ enabled[e.arg] => queue' = [queue EXCEPT ![e.arg] =
                                <<[packet |-> packets + 1, created |-> e.time]>>]
         /\ e.arg \in Nodes /\ queue[e.arg] = <<>> /\ e \in Calls /\ now' = e.time
<1> DEFINE n == e.arg
           calls == NextCall(order, e, n)
           frame == [packet |-> packets + 1, created |-> e.time]
<1>1. e.what = "generate" /\ Run(e, calls) /\ e \in Of("generate")
  BY DEF Generate, Run, Due, Of
<1>2. e \in Calls /\ n \in Nodes
  BY <1>1 DEF Of, Engine, Types, AgendaInv, NodeCalls
<1> DEFINE next == Call(order, e.time + LocalPeriod(scenario, n), e.what, n)
<1>3. /\ calls = IF next.time < scenario.duration THEN {next} ELSE {}
      /\ next \in Calls /\ next.time > e.time
      /\ next.order = order /\ next.what = "generate" /\ next.arg = n
      /\ next.time = e.time + LocalPeriod(scenario, n)
  <2>1. Types /\ e.what \in {"generate", "slot"} /\ order \in {order, order + 1}
    BY <1>1 DEF Engine
  <2> QED BY <1>1, <1>2, <2>1, NextCallFollows, ZenonT(60)
<1> HIDE DEF next
<1>4. Follows(e, calls)
  BY <1>2, <1>3 DEF Follows, Calls
<1>5. /\ e \in agenda /\ now' = e.time /\ now <= now'
      /\ agenda' = (agenda \ {e}) \cup calls
      /\ now' \in Nat /\ order' \in Nat /\ agenda' \subseteq Calls /\ AgendaInv'
  BY <1>1, <1>4, RunAgenda DEF Engine
<1>6. /\ queue[n] = <<>>
      /\ \E s \in Of("slot") \ {e} :
              /\ s.arg = n /\ s.time = e.time
              /\ \A f \in agenda : f.what \in NodeActions /\ f.time = e.time =>
                   s.order < f.order
  BY <1>1, <1>4, GenerateAtRest
<1>7. /\ packets' \in Nat /\ packets <= packets'
      /\ enabled[n] => packets' = packets + 1 /\ queue' = [queue EXCEPT ![n] = <<frame>>]
      /\ ~enabled[n] => packets' = packets /\ queue' = queue
      /\ UNCHANGED <<enabled, active, collided, coordinator>>
  <2>1. ~(Len(queue[n]) >= scenario.maxQueue)
    BY <1>6, ScenarioFacts DEF Engine, Types
  <2>2. Append(queue[n], frame) = <<frame>>
    BY <1>6
  <2>3. UNCHANGED <<enabled, active, collided, coordinator>>
    BY DEF Generate
  <2> HIDE DEF n, calls, frame
  <2>0. packets \in Nat /\ packets + 1 \in Nat
    BY DEF Engine, Types
  <2>4. CASE enabled[n]
    <3>1. /\ packets' = packets + 1
          /\ queue' = [queue EXCEPT ![n] = Append(queue[n], frame)]
      BY <1>2, <2>1, <2>4 DEF Generate, n, frame
    <3> QED BY <2>0, <2>2, <2>3, <2>4, <3>1
  <2>5. CASE ~enabled[n]
    <3>1. packets' = packets /\ queue' = queue
      BY <2>5 DEF Generate, n
    <3> QED BY <2>0, <2>3, <2>5, <3>1
  <2> QED BY <2>4, <2>5
<1>8. Types'
  <2>1. frame \in Frame
    BY <1>2 DEF Frame, Calls, Engine, Types
  <2>2. <<frame>> \in Seq(Frame)
    BY <2>1
  <2>3. queue' \in [Nodes -> Seq(Frame)]
    BY <1>7, <2>2 DEF Engine, Types
  <2> QED BY <1>5, <1>7, <2>3 DEF Engine, Types, Nodes
<1>9. AirInv'
  BY <1>1, <1>3, <1>4, <1>7, AirKept
<1>10. ASSUME NEW m \in Nodes, m # n
       PROVE  Rests(m)' \/ SlotDue(m)'
  <2>1. queue'[m] = queue[m]
    BY <1>7, <1>10 DEF Engine, Types
  <2>2. queue[m] # <<>> => \A a \in active' : a.packet # queue[m][1].packet
    BY <1>7, OwnFrames
  <2>3. \A c \in calls : /\ c.what \notin NodeActions
                         /\ c.what \in {"generate", "slot"} => c.arg # m
    BY <1>3, <1>10 DEF NodeActions
  <2>4. ~(e.what \in {"generate", "slot"} /\ e.arg = m)
    BY <1>10
  <2> QED BY <1>1, <1>4, <1>7, <2>1, <2>2, <2>3, <2>4, NodeKept
<1>11. \A what \in {"generate", "slot"} : \A c, d \in Of(what)' : c.arg = d.arg => c = d
  <2>1. \A g \in Of("generate") : g.arg = n => g = e
    BY <1>1 DEF Engine, NodesInv
  <2> QED BY <1>1, <1>3, <1>5, <2>1 DEF Of, Engine, NodesInv
<1>12. SlotDue(n)'
  <2>1. PICK s \in Of("slot") \ {e} :
              /\ s.arg = n /\ s.time = e.time
              /\ \A f \in agenda : f.what \in NodeActions /\ f.time = e.time =>
                   s.order < f.order
    BY <1>6
  <2>2. s \in Of("slot")' /\ s.time = now'
    BY <1>5, <2>1 DEF Of
  <2>3. \A f \in agenda' : f.what \in NodeActions => f \in agenda
    BY <1>3, <1>5 DEF NodeActions
  <2>4. ASSUME NEW g \in Of("generate")', g.arg = n
        PROVE  /\ g = next /\ next.time < scenario.duration
               /\ \A f \in agenda' : f.what \in NodeActions => f.order < g.order
    <3>1. g # e => g \notin agenda
      BY <1>1, <2>4 DEF Of, Engine, NodesInv
    <3>2. e \notin agenda'
      <4>1. \A c \in calls : c.order # e.order
        BY <1>2, <1>3, <1>5 DEF Engine, AgendaInv, Calls, Types
      <4> QED BY <1>5, <4>1
    <3>3. g \in calls
      BY <1>5, <3>1, <3>2, <2>4 DEF Of
    <3> QED BY <1>3, <2>3, <3>3 DEF Engine, AgendaInv
  <2>5. now' + LocalPeriod(scenario', n) < scenario'.duration =>
           \E g \in Of("generate")' : g.arg = n
    BY <1>3, <1>5 DEF Of
  <2>6. IF enabled'[n]
        THEN /\ Len(queue'[n]) = 1
             /\ queue'[n][1].packet <= packets'
             /\ \A a \in active' : a.packet # queue'[n][1].packet
        ELSE queue'[n] = <<>>
    <3>1. CASE enabled[n]
      <4>1. queue'[n] = <<frame>> /\ packets' = packets + 1 /\ enabled' = enabled
        BY <1>7, <3>1, <1>2 DEF Engine, Types
      <4>2. \A a \in active' : a.packet # packets + 1
        BY <1>7 DEF Engine, AirInv, Types, Transmission
      <4> QED BY <3>1, <4>1, <4>2 DEF Engine, Types
    <3>2. CASE ~enabled[n]
      BY <1>6, <1>7, <3>2
    <3> QED BY <3>1, <3>2
  <2> QED BY <1>3, <1>5, <2>1, <2>2, <2>3, <2>4, <2>5, <2>6 DEF SlotDue
<1>13. \A k, m \in Nodes : queue'[k] # <<>> /\ queue'[m] # <<>>
         /\ queue'[k][1].packet = queue'[m][1].packet => k = m
  <2>1. \A m \in Nodes : m # n => queue'[m] = queue[m]
    BY <1>7 DEF Engine, Types
  <2>2. queue'[n] # <<>> => queue'[n][1].packet = packets + 1
    BY <1>2, <1>6, <1>7 DEF Engine, Types
  <2>3. \A m \in Nodes : queue[m] # <<>> =>
          queue[m][1].packet \in Nat /\ queue[m][1].packet <= packets
    BY OwnFrames
  <2> QED BY <2>1, <2>2, <2>3, SMTT(30) DEF Engine, NodesInv, Types
<1>14. NodesInv'
  BY <1>10, <1>11, <1>12, <1>13 DEF NodesInv, Nodes
<1> QED BY <1>2, <1>5, <1>6, <1>7, <1>8, <1>9, <1>14 DEF Engine

\* A node whose slot is over rests until its next frame.
LEMMA SlotRests ==
  ASSUME Engine, NEW e, NEW calls, Follows(e, calls), Run(e, calls), UNCHANGED scenario,
         e.what = "slot", NEW o \in {order, order + 1},
         \A c \in NextCall(o, e, e.arg) : c \in calls,
         \A c \in calls : c.what = "finish" \/ c \in NextCall(o, e, e.arg),
         queue'[e.arg] = <<>>
  PROVE  /\ Rests(e.arg)'
         /\ \A what \in {"generate", "slot"} : \A c, d \in Of(what)' : c.arg = d.arg => c = d
         /\ \A c \in calls : /\ c.what \notin NodeActions
                             /\ c.what \in {"generate", "slot"} => c.arg = e.arg
<1> DEFINE n == e.arg
           next == Call(o, e.time + LocalPeriod(scenario, n), e.what, n)
<1>1. /\ n \in Nodes /\ e.time = now
      /\ \A g \in Of("generate") : g.arg = n =>
           /\ g.time = now + LocalPeriod(scenario, n) /\ g.time < scenario.duration
           /\ \A f \in agenda : f.what \in NodeActions => f.order < g.order
      /\ now + LocalPeriod(scenario, n) < scenario.duration =>
           \E g \in Of("generate") : g.arg = n
  BY SlotAfterFrame
<1>2. /\ e \in Calls /\ now' = e.time /\ agenda' = (agenda \ {e}) \cup calls
      /\ e \in Of("slot")
  BY RunAgenda DEF Engine, Of
<1>3. /\ NextCall(o, e, n) = IF next.time < scenario.duration THEN {next} ELSE {}
      /\ next.order = o /\ next.what = "slot" /\ next.arg = n
      /\ next.time = now + LocalPeriod(scenario, n)
  BY <1>1 DEF NextCall, Call
<1> HIDE DEF n, next
<1>4. \A c \in calls : c.what = "finish" \/ c = next
  BY <1>3 DEF n
<1>5. \A s \in Of("slot") : s.arg = n => s = e
  BY <1>2 DEF Engine, NodesInv, n
<1>6. e \notin calls
  BY <1>2 DEF Follows, Engine, AgendaInv, Calls, Types, Of
<1>7. \A c : c \in Of("slot")' /\ c.arg = n =>
        c = next /\ now + LocalPeriod(scenario, n) < scenario.duration
  BY <1>2, <1>3, <1>4, <1>5, <1>6 DEF Of, n
<1>8. \A c : c \in Of("generate")' <=> c \in Of("generate")
  BY <1>2, <1>3, <1>4 DEF Of
<1>9. \A c \in calls : /\ c.what \notin NodeActions
                       /\ c.what \in {"generate", "slot"} => c.arg = n
  BY <1>3, <1>4 DEF NodeActions
<1>10. \A f \in agenda' : f.what \in NodeActions => f \in agenda
  BY <1>2, <1>9
<1>11. \A g \in Of("generate") : g.order < next.order
  BY <1>2, <1>3 DEF Of, Engine, AgendaInv, Types, Calls
<1>12. Rests(n)'
  <2>1. ASSUME NEW g \in Of("generate")', g.arg = n
        PROVE  \E s \in Of("slot")' :
                 /\ s.arg = n /\ s.time = g.time /\ g.order < s.order
                 /\ \A f \in agenda' : f.what \in NodeActions =>
                      f.order < g.order \/ s.order < f.order
    <3>1. g \in Of("generate") /\ g.time = next.time /\ g.time < scenario.duration
          /\ \A f \in agenda : f.what \in NodeActions => f.order < g.order
      BY <1>1, <1>3, <1>8, <2>1 DEF n
    <3>2. next \in calls
      BY <1>3, <3>1 DEF n
    <3>3. next \in Of("slot")'
      BY <1>2, <1>3, <3>2 DEF Of
    <3> QED BY <1>3, <1>10, <1>11, <3>1, <3>3
  <2>2. ASSUME NEW s \in Of("slot")', s.arg = n
        PROVE  \E g \in Of("generate")' : g.arg = n /\ g.time = s.time /\ g.order < s.order
    BY <1>1, <1>3, <1>7, <1>8, <1>11, <2>2 DEF n
  <2>3. queue'[n] = <<>>
    BY DEF n
  <2> QED BY <2>1, <2>2, <2>3 DEF Rests
<1>13. \A what \in {"generate", "slot"} : \A c, d \in Of(what)' : c.arg = d.arg => c = d
  <2>1. \A c, d \in Of("generate")' : c.arg = d.arg => c = d
    BY <1>8 DEF Engine, NodesInv
  <2>2. \A c \in Of("slot")' : c.arg # n => c \in Of("slot")
    BY <1>2, <1>3, <1>4 DEF Of
  <2>3. \A c, d \in Of("slot")' : c.arg = d.arg => c = d
    BY <1>7, <2>2 DEF Engine, NodesInv
  <2> QED BY <2>1, <2>3
<1> QED BY <1>9, <1>12, <1>13 DEF n

\* What a slot sends.
SlotTx(e) ==
  [packet |-> queue[e.arg][1].packet, source |-> e.arg, kind |-> "voice",
   created |-> queue[e.arg][1].created, start |-> e.time,
   end |-> e.time + VoiceAirtime(scenario)]

\* VoiceNode._slot
LEMMA SlotEngine ==
  ASSUME Engine, NEW e, Slot(e), UNCHANGED scenario
  PROVE  /\ Engine'
         /\ e \in Of("slot") /\ e.arg \in Nodes /\ e.time = now /\ now' = now
         /\ queue[e.arg] # <<>> =>
              /\ SlotTx(e) \in Transmission /\ SlotTx(e).packet <= packets
              /\ active' = active \cup {SlotTx(e)}
              /\ \A a \in active : a.packet # SlotTx(e).packet
         /\ queue[e.arg] = <<>> => active' = active
         /\ queue' = [queue EXCEPT ![e.arg] = <<>>]
         /\ \A c \in Of("slot")' : c.time < scenario.duration \/ c \in Of("slot")
<1> DEFINE n == e.arg
           tx == SlotTx(e)
           sent == FinishCall(tx.packet, e.time, VoiceAirtime(scenario))
           sending == enabled[n] /\ queue[n] # <<>>
           o == IF sending THEN order + 1 ELSE order
           calls == (IF sending THEN {sent} ELSE {}) \cup NextCall(o, e, n)
<1>1. e.what = "slot" /\ e \in Of("slot") /\ Run(e, calls)
  BY DEF Slot, Run, Due, Of, SlotTx
<1>2. e \in Calls /\ n \in Nodes
  BY <1>1 DEF Of, Engine, Types, AgendaInv, NodeCalls
<1>3. queue[n] \in Seq(Frame)
  BY <1>2 DEF Engine, Types
<1>4. queue[n] # <<>> => /\ tx \in Transmission /\ tx.packet <= packets /\ sending
                         /\ Len(queue[n]) = 1
                         /\ \A a \in active : a.packet # tx.packet
  <2> SUFFICES ASSUME queue[n] # <<>>
               PROVE  /\ tx \in Transmission /\ tx.packet <= packets /\ sending
                      /\ Len(queue[n]) = 1
                      /\ \A a \in active : a.packet # tx.packet
    OBVIOUS
  <2>1. /\ queue[n][1].packet \in Nat /\ queue[n][1].packet <= packets
        /\ Len(queue[n]) = 1 /\ enabled[n]
        /\ \A a \in active : a.packet # queue[n][1].packet
    BY <1>2, OwnFrames
  <2>2. queue[n][1] \in Frame
    BY <1>3, <2>1
  <2>3. n \in Nat /\ VoiceAirtime(scenario) \in Nat /\ e.time \in Nat
    BY <1>2, ScenarioFacts DEF Engine, Types, Nodes, Calls
  <2> QED BY <2>1, <2>2, <2>3 DEF SlotTx, Transmission, Frame
<1>5. sending => /\ sent \in Calls /\ sent.what = "finish" /\ sent.order = order
                 /\ sent.arg = tx.packet /\ sent.time = tx.end /\ e.time <= sent.time
  <2>1. VoiceAirtime(scenario) \in Nat /\ e.time \in Nat /\ order \in Nat
    BY <1>2, ScenarioFacts DEF Engine, Types, Nodes, Calls
  <2>2. sending => tx.packet \in Nat
    BY <1>4 DEF Transmission
  <2> QED BY <2>1, <2>2 DEF FinishCall, Call, Calls, SlotTx
<1>6. \A c \in NextCall(o, e, n) :
        /\ c \in Calls /\ e.time <= c.time /\ c.order = o
        /\ c.what = "slot" /\ c.arg = n /\ c.time < scenario.duration
  <2>1. LocalPeriod(scenario, n) \in Nat \ {0} /\ n \in Nat
    BY <1>2, ScenarioFacts DEF Engine, Types, Nodes
  <2>2. e.time \in Nat /\ o \in Nat
    BY <1>2 DEF Engine, Types, Calls
  <2> HIDE DEF o
  <2> QED BY <1>1, <2>1, <2>2 DEF NextCall, Call, Calls, NodeCalls
<1>7. \A c, d \in NextCall(o, e, n) : c = d
  BY DEF NextCall
<1>8. Follows(e, calls)
  <2>1. calls \subseteq Calls
    BY <1>5, <1>6
  <2>2. \A c \in calls : e.time <= c.time /\ (c.order = order \/ c.order = order + 1)
    BY <1>5, <1>6
  <2>3. \A c, d \in calls : c.order = d.order => c = d
    BY <1>5, <1>6, <1>7 DEF Engine, Types
  <2>4. \A c \in calls : c.what \in NodeCalls => c.arg \in Nodes
    BY <1>2, <1>5, <1>6 DEF NodeCalls, NodeActions
  <2> QED BY <2>1, <2>2, <2>3, <2>4 DEF Follows
<1>9. /\ now' = e.time /\ agenda' = (agenda \ {e}) \cup calls
      /\ now' \in Nat /\ order' \in Nat /\ agenda' \subseteq Calls /\ AgendaInv'
  BY <1>1, <1>8, RunAgenda DEF Engine
<1>10. /\ UNCHANGED <<packets, enabled, coordinator>>
       /\ queue[n] # <<>> => active' = active \cup {tx}
       /\ queue[n] = <<>> => active' = active
       /\ queue' = [queue EXCEPT ![n] = <<>>]
  <2>1. UNCHANGED <<packets, enabled, coordinator>>
    BY DEF Slot
  <2>2. CASE queue[n] # <<>>
    <3>1. /\ queue' = [queue EXCEPT ![n] = Tail(@)]
          /\ Transmit(queue[n][1].packet, n, "voice", queue[n][1].created, e.time,
                      VoiceAirtime(scenario))
      BY <1>4, <2>2 DEF Slot
    <3>2. Tail(queue[n]) = <<>>
      BY <1>3, <1>4, <2>2, TailOfOne
    <3> QED BY <2>1, <2>2, <3>1, <3>2 DEF Transmit, SlotTx
  <2>3. CASE queue[n] = <<>>
    BY <2>1, <2>3 DEF Slot, Engine, Types
  <2> QED BY <2>2, <2>3
<1>11. Types' /\ packets' \in Nat /\ packets <= packets'
  <2>1. queue' \in [Nodes -> Seq(Frame)]
    <3>1. <<>> \in Seq(Frame)
      BY EmptySeq
    <3> QED BY <1>10, <3>1 DEF Engine, Types
  <2>2. active' \subseteq Transmission
    BY <1>4, <1>10 DEF Engine, Types
  <2> QED BY <1>9, <1>10, <2>1, <2>2 DEF Engine, Types, Nodes
<1>12. AirInv'
  <2>1. CASE queue[n] # <<>>
    <3>1. tx.start = e.time /\ tx.end = tx.start + Airtime(tx.kind)
      BY DEF SlotTx, Airtime
    <3>2. sent \in calls /\ \A c \in calls : c.what = "finish" => c = sent
      BY <1>4, <1>6, <2>1
    <3>3. tx.packet <= packets'
      BY <1>4, <1>10, <2>1
    <3> HIDE DEF tx, sent, calls
    <3> QED BY <1>1, <1>4, <1>5, <1>8, <1>10, <1>11, <2>1, <3>1, <3>2, <3>3, AirTransmit
  <2>2. CASE queue[n] = <<>>
    <3>1. \A c \in calls : c.what # "finish"
      BY <1>6, <2>2
    <3> HIDE DEF calls
    <3> QED BY <1>1, <1>8, <1>10, <1>11, <2>2, <3>1, AirKept
  <2> QED BY <2>1, <2>2
<1>13. /\ Rests(n)'
       /\ \A what \in {"generate", "slot"} : \A c, d \in Of(what)' : c.arg = d.arg => c = d
       /\ \A c \in calls : /\ c.what \notin NodeActions
                           /\ c.what \in {"generate", "slot"} => c.arg = n
  <2>1. queue'[n] = <<>>
    BY <1>2, <1>10 DEF Engine, Types
  <2>2. \A c \in NextCall(o, e, n) : c \in calls
    OBVIOUS
  <2>3. \A c \in calls : c.what = "finish" \/ c \in NextCall(o, e, n)
    BY <1>5
  <2>4. o \in {order, order + 1}
    OBVIOUS
  <2> HIDE DEF calls, o
  <2> QED BY <1>1, <1>8, <2>1, <2>2, <2>3, <2>4, SlotRests
<1>14. ASSUME NEW m \in Nodes, m # n
       PROVE  Rests(m)' \/ SlotDue(m)'
  <2>1. queue'[m] = queue[m]
    BY <1>10, <1>14 DEF Engine, Types
  <2>2. queue[m] # <<>> => \A a \in active' : a.packet # queue[m][1].packet
    BY <1>2, <1>10, <1>14, OwnFrames DEF SlotTx, Engine, NodesInv
  <2>3. \A c \in calls : /\ c.what \notin NodeActions
                         /\ c.what \in {"generate", "slot"} => c.arg # m
    BY <1>13, <1>14
  <2>4. ~(e.what \in {"generate", "slot"} /\ e.arg = m) /\ enabled'[m] = enabled[m]
    BY <1>10, <1>14
  <2> HIDE DEF calls
  <2> QED BY <1>1, <1>8, <1>11, <2>1, <2>2, <2>3, <2>4, NodeKept
<1>15. NodesInv'
  <2>1. \A m \in Nodes : queue'[m] = (IF m = n THEN <<>> ELSE queue[m])
    BY <1>10 DEF Engine, Types
  <2> QED BY <1>13, <1>14, <2>1 DEF NodesInv, Nodes, Engine
<1>16. e.time = now
  BY <1>1, <1>8, SlotAfterFrame
<1>17. \A c \in Of("slot")' : c.time < scenario.duration \/ c \in Of("slot")
  BY <1>5, <1>6, <1>9 DEF Of
<1> HIDE DEF calls, o, sending, sent, tx
<1> QED BY <1>1, <1>2, <1>4, <1>9, <1>10, <1>11, <1>12, <1>15, <1>16, <1>17 DEF Engine, tx

\* finish in SharedMedium.transmit
LEMMA FinishEngine ==
  ASSUME Engine, NEW e, Finish(e), UNCHANGED scenario
  PROVE  /\ Engine' /\ e \in Calls /\ now' = e.time /\ now <= now' /\ agenda' = agenda \ {e}
         /\ e.what = "finish"
         /\ \A tx \in active : tx.packet = e.arg => tx.end = e.time
<1>1. /\ Run(e, {}) /\ e.what = "finish"
      /\ UNCHANGED <<packets, enabled, queue, collided, coordinator, electionPending>>
  BY DEF Finish
<1>2. PICK tx \in active : tx.packet = e.arg /\ active' = active \ {tx}
  BY DEF Finish
<1>3. Follows(e, {})
  BY DEF Follows
<1>4. /\ e \in Calls /\ now' = e.time /\ now <= now' /\ agenda' = agenda \ {e}
      /\ now' \in Nat /\ order' \in Nat /\ agenda' \subseteq Calls /\ AgendaInv'
  BY <1>1, <1>3, RunAgenda DEF Engine
<1>5. AirInv' /\ active' \subseteq Transmission /\ tx.end = e.time
  BY <1>1, <1>2, AirFinish
<1>6. Types'
  BY <1>1, <1>4, <1>5 DEF Engine, Types, Nodes
<1>7. ASSUME NEW n \in Nodes
      PROVE  Rests(n)' \/ SlotDue(n)'
  <2>1. queue[n] # <<>> => \A a \in active' : a.packet # queue[n][1].packet
    BY <1>2, OwnFrames
  <2>2. packets' \in Nat /\ packets <= packets'
    BY <1>1 DEF Engine, Types
  <2> QED BY <1>1, <1>3, <2>1, <2>2, NodeKept
<1>8. \A what \in {"generate", "slot"} : \A c, d \in Of(what)' : c.arg = d.arg => c = d
  BY <1>4 DEF Of, Engine, NodesInv
<1>9. NodesInv'
  BY <1>1, <1>7, <1>8 DEF NodesInv, Nodes, Engine
<1>10. \A a \in active : a.packet = e.arg => a = tx
  BY <1>2 DEF Engine, AirInv
<1> QED BY <1>1, <1>4, <1>5, <1>6, <1>9, <1>10 DEF Engine

\* What a heartbeat puts on the air.
HeartbeatTx(e) ==
  [packet |-> packets + 1, source |-> coordinator, kind |-> "heartbeat",
   created |-> e.time, start |-> e.time, end |-> e.time + HeartbeatAirtime(scenario)]

\* SimulationRun._heartbeat
LEMMA HeartbeatEngine ==
  ASSUME Engine, NEW e, Heartbeat(e), UNCHANGED scenario
  PROVE  /\ Engine' /\ e \in Calls /\ now' = e.time /\ now <= now'
         /\ e.what = "heartbeat"
         /\ \A c \in agenda' : c \in agenda \/ c.what \in {"finish", "heartbeat"}
         /\ \A c \in agenda : c # e => c \in agenda'
         /\ enabled[coordinator] =>
              /\ HeartbeatTx(e) \in Transmission /\ packets' = packets + 1
              /\ active' = active \cup {HeartbeatTx(e)}
         /\ ~enabled[coordinator] => UNCHANGED <<active, packets>>
<1> DEFINE tx == HeartbeatTx(e)
           sent == FinishCall(packets + 1, e.time, HeartbeatAirtime(scenario))
           again == Call(order + 1, e.time + scenario.interval, "heartbeat", 0)
           sending == enabled[coordinator]
           calls == (IF sending THEN {sent} ELSE {}) \cup {again}
<1>1. /\ e.what = "heartbeat" /\ e \in agenda /\ Run(e, calls)
      /\ UNCHANGED <<enabled, queue, coordinator>>
      /\ sending => packets' = packets + 1 /\ active' = active \cup {tx}
      /\ ~sending => UNCHANGED <<active, packets>>
  BY DEF Heartbeat, Run, Due, Transmit, HeartbeatTx
<1>2. e \in Calls /\ e.time \in Nat /\ order \in Nat /\ packets \in Nat
      /\ coordinator \in Nat /\ scenario.interval \in Nat
      /\ HeartbeatAirtime(scenario) \in Nat
  BY <1>1, ScenarioFacts DEF Engine, Types, Calls, Nodes
<1>3. /\ sent \in Calls /\ sent.what = "finish" /\ sent.order = order
      /\ sent.arg = tx.packet /\ sent.time = tx.end /\ e.time <= sent.time
  BY <1>2 DEF FinishCall, Call, Calls, HeartbeatTx
<1>4. /\ again \in Calls /\ again.what = "heartbeat" /\ again.order = order + 1
      /\ e.time <= again.time
  BY <1>2 DEF Call, Calls
<1>5. tx \in Transmission /\ tx.start = e.time /\ tx.end = tx.start + Airtime(tx.kind)
      /\ tx.packet = packets + 1
  BY <1>2 DEF HeartbeatTx, Transmission, Airtime
<1> HIDE DEF sent, again, tx
<1>6. Follows(e, calls)
  BY <1>2, <1>3, <1>4 DEF Follows, NodeCalls, NodeActions
<1>7. /\ now' = e.time /\ now <= now' /\ agenda' = (agenda \ {e}) \cup calls
      /\ now' \in Nat /\ order' \in Nat /\ agenda' \subseteq Calls /\ AgendaInv'
  BY <1>1, <1>6, RunAgenda DEF Engine
<1>8. /\ Types' /\ packets' \in Nat /\ packets <= packets'
  BY <1>1, <1>2, <1>5, <1>7 DEF Engine, Types, Nodes
<1>9. \A a \in active : a.packet # packets + 1
  BY <1>2 DEF Engine, AirInv, Types, Transmission
<1>10. AirInv'
  <2>1. CASE sending
    <3>1. sent \in calls /\ \A c \in calls : c.what = "finish" => c = sent
      BY <1>4, <2>1
    <3> HIDE DEF calls
    <3>2. tx.packet <= packets' /\ \A a \in active : a.packet # tx.packet
      BY <1>1, <1>2, <1>5, <1>9, <2>1
    <3> QED BY <1>1, <1>3, <1>5, <1>6, <1>8, <2>1, <3>1, <3>2, AirTransmit
  <2>2. CASE ~sending
    <3>1. \A c \in calls : c.what # "finish"
      BY <1>4, <2>2
    <3> HIDE DEF calls
    <3> QED BY <1>1, <1>6, <1>8, <2>2, <3>1, AirKept
  <2> QED BY <2>1, <2>2
<1>11. \A c \in calls : c.what \notin NodeCalls
  BY <1>3, <1>4 DEF NodeCalls, NodeActions
<1>12. ASSUME NEW n \in Nodes
       PROVE  Rests(n)' \/ SlotDue(n)'
  <2>1. queue[n] # <<>> => \A a \in active' : a.packet # queue[n][1].packet
    BY <1>1, <1>2, <1>5, OwnFrames
  <2>2. \A c \in calls : /\ c.what \notin NodeActions
                         /\ c.what \in {"generate", "slot"} => c.arg # n
    BY <1>11 DEF NodeCalls
  <2> HIDE DEF calls
  <2> QED BY <1>1, <1>6, <1>8, <2>1, <2>2, NodeKept
<1>13. \A what \in {"generate", "slot"} : \A c, d \in Of(what)' : c.arg = d.arg => c = d
  BY <1>7, <1>11 DEF Of, Engine, NodesInv, NodeCalls
<1>14. NodesInv'
  BY <1>1, <1>12, <1>13 DEF NodesInv, Nodes, Engine
<1>15. \A c \in agenda' : c \in agenda \/ c.what \in {"finish", "heartbeat"}
  BY <1>3, <1>4, <1>7
<1> QED BY <1>1, <1>2, <1>5, <1>7, <1>8, <1>10, <1>14, <1>15 DEF Engine, tx

\* VoiceNode.disable and enable
LEMMA SetEnabledEngine ==
  ASSUME Engine, NEW e, SetEnabled(e), UNCHANGED scenario
  PROVE  Engine' /\ e \in Calls /\ now' = e.time /\ now <= now' /\ agenda' = agenda \ {e}
<1>1. /\ Run(e, {}) /\ e.what \in NodeActions /\ e \in agenda
      /\ enabled' = [enabled EXCEPT ![e.arg] = (e.what = "enable_node")]
      /\ UNCHANGED <<packets, queue, active, coordinator>>
  BY DEF SetEnabled, Run, Due
<1>2. Follows(e, {})
  BY DEF Follows
<1>3. enabled' \in [Nodes -> BOOLEAN]
  BY <1>1 DEF Engine, Types
<1>4. e.what \notin {"generate", "slot", "finish"} /\ coordinator' \in Nodes
  BY <1>1 DEF NodeActions, Engine, Types
<1>5. Engine'
  BY <1>1, <1>2, <1>3, <1>4, QuietEngine
<1> QED BY <1>1, <1>2, <1>5, RunAgenda DEF Engine

\* SimulationRun._check_timeout
LEMMA CheckEngine ==
  ASSUME Engine, NEW e, CheckTimeout(e), UNCHANGED scenario
  PROVE  /\ Engine' /\ e \in Of("check") /\ e \in Calls /\ now' = e.time /\ now <= now'
         /\ LET again == Call(order + 1, e.time + CheckPeriod, "check", 0)
                elect == Call(order, e.time + scenario.delay, "elect", 0)
                overdue == e.time - lastHeartbeat > scenario.timeout /\ ~electionPending
            IN agenda' = (agenda \ {e}) \cup (IF overdue THEN {elect, again} ELSE {again})
<1> DEFINE again == Call(order + 1, e.time + CheckPeriod, "check", 0)
           elect == Call(order, e.time + scenario.delay, "elect", 0)
           overdue == e.time - lastHeartbeat > scenario.timeout /\ ~electionPending
           calls == IF overdue THEN {elect, again} ELSE {again}
<1>1. /\ e.what = "check" /\ e \in agenda /\ Run(e, calls)
      /\ UNCHANGED <<packets, queue, active, enabled, coordinator>>
  BY DEF CheckTimeout, Run, Due
<1>2. e \in Calls /\ e.time \in Nat /\ order \in Nat /\ scenario.delay \in Nat
      /\ CheckPeriod \in Nat
  BY <1>1, ScenarioFacts, PeriodFacts DEF Engine, Types, Calls
<1>3. /\ again \in Calls /\ again.what = "check" /\ again.order = order + 1
      /\ e.time <= again.time
      /\ elect \in Calls /\ elect.what = "elect" /\ elect.order = order
      /\ e.time <= elect.time
  BY <1>2 DEF Call, Calls
<1>4. Follows(e, calls) /\ \A c \in calls : c.what \notin NodeCalls \cup {"finish"}
  <2> HIDE DEF again, elect, overdue
  <2> QED BY <1>2, <1>3 DEF Follows, NodeCalls, NodeActions
<1>5. enabled' \in [Nodes -> BOOLEAN] /\ coordinator' \in Nodes
  BY <1>1 DEF Engine, Types
<1> HIDE DEF calls
<1>6. Engine'
  BY <1>1, <1>4, <1>5, QuietEngine
<1>7. /\ now' = e.time /\ now <= now' /\ agenda' = (agenda \ {e}) \cup calls
  BY <1>1, <1>4, RunAgenda DEF Engine
<1> QED BY <1>1, <1>2, <1>6, <1>7 DEF Of, calls

\* min() of some node ids is one of them.
LEMMA LeastNode ==
  ASSUME NEW S \in SUBSET Nat, S # {}
  PROVE  (CHOOSE n \in S : \A m \in S : n <= m) \in S
<1>1. \E n \in S : \A m \in S : n <= m
  <2>1. IsWellFoundedOn(OpToRel(<, Nat), Nat)
    BY NatLessThanWellFounded
  <2>2. PICK n \in S : \A m \in S : <<m, n>> \notin OpToRel(<, Nat)
    BY <2>1, WFMin, Zenon
  <2>3. \A m \in S : ~(m < n)
    BY <2>2 DEF OpToRel
  <2>4. \A m \in S : n <= m
    BY <2>3
  <2> QED BY <2>4
<1> QED BY <1>1

\* SimulationRun._elect
LEMMA ElectEngine ==
  ASSUME Engine, NEW e, Elect(e), UNCHANGED scenario
  PROVE  /\ Engine' /\ e \in Of("elect") /\ e \in Calls /\ now' = e.time /\ now <= now'
         /\ agenda' = agenda \ {e}
         /\ (\E n \in Nodes : enabled[n]) => enabled[coordinator'] /\ lastHeartbeat' = e.time
         /\ ~(\E n \in Nodes : enabled[n]) => UNCHANGED <<coordinator, lastHeartbeat, trace>>
<1> DEFINE on == {n \in Nodes : enabled[n]}
<1>1. /\ Run(e, {}) /\ e.what = "elect" /\ e \in agenda
      /\ UNCHANGED <<packets, enabled, queue, active, collided>>
  BY DEF Elect, Run, Due
<1>2. Follows(e, {})
  BY DEF Follows
<1>3. on # {} => /\ coordinator' = CHOOSE n \in on : \A m \in on : n <= m
                 /\ lastHeartbeat' = e.time
  BY DEF Elect, Nodes
<1>4. on = {} => UNCHANGED <<coordinator, lastHeartbeat, trace>>
  BY DEF Elect, Nodes
<1>5. on # {} => coordinator' \in on
  <2>1. on \in SUBSET Nat
    BY ScenarioFacts DEF Engine, Types, Nodes
  <2> HIDE DEF on
  <2> QED BY <1>3, <2>1, LeastNode
<1>6. coordinator' \in Nodes /\ enabled' \in [Nodes -> BOOLEAN]
  BY <1>1, <1>4, <1>5 DEF Engine, Types
<1>7. Engine'
  BY <1>1, <1>2, <1>6, QuietEngine
<1> QED BY <1>1, <1>2, <1>3, <1>4, <1>5, <1>7, RunAgenda DEF Engine, Of

\* The last step (Simulation.run): nothing is due before the end.
LEMMA EndEngine ==
  ASSUME Engine, End
  PROVE  Engine' /\ now <= now'
<1>1. /\ \A c \in agenda : c.time > Until
      /\ now' = Until
      /\ UNCHANGED <<scenario, agenda, order, packets, enabled, queue, active, coordinator>>
  BY DEF End
<1>2. Until \in Nat /\ now \in Nat /\ now <= Until
  BY PeriodFacts DEF Engine, Types, AgendaInv
<1>3. Until' = Until /\ Nodes' = Nodes /\ \A what : Of(what)' = Of(what)
  BY <1>1 DEF Until, Nodes, Of
<1>4. Types'
  BY <1>1, <1>2 DEF Engine, Types, Nodes
<1>5. AgendaInv'
  <2>1. \A c \in agenda : now' <= c.time
    BY <1>1, <1>2 DEF Engine, Types, Calls
  <2> QED BY <1>1, <1>2, <1>3, <2>1 DEF Engine, AgendaInv
<1>6. AirInv'
  <2>1. \A a \in active : a.start <= now'
    BY <1>1, <1>2 DEF Engine, AirInv, Types, Transmission
  <2> QED BY <1>1, <1>3, <2>1 DEF Engine, AirInv, Airtime
<1>7. ASSUME NEW n \in Nodes
      PROVE  Rests(n)'
  <2>1. ~SlotDue(n)
    BY <1>1, <1>2 DEF SlotDue, Of
  <2>2. Rests(n)
    BY <2>1 DEF Engine, NodesInv
  <2> QED BY <1>1, <1>3, <2>2 DEF Rests
<1>8. NodesInv'
  BY <1>1, <1>3, <1>7 DEF Engine, NodesInv
<1> QED BY <1>1, <1>2, <1>4, <1>5, <1>6, <1>8 DEF Engine

\* What is scheduled before a run starts (SimulationRun.__init__, _schedule_faults).
LEMMA StartFacts ==
  ASSUME Init
  PROVE  /\ scenario \in Scenarios
         /\ agenda \subseteq Calls
         /\ \A c \in agenda : c.order < order /\ (c.what \in NodeCalls => c.arg \in Nodes)
         /\ \A c, d \in agenda : c.order = d.order => c = d
         /\ \A what \in {"generate", "slot"} : \A c, d \in Of(what) : c.arg = d.arg => c = d
         /\ \A g \in Of("generate") : \E s \in Of("slot") :
              /\ s.arg = g.arg /\ s.time = g.time /\ g.order < s.order
              /\ \A f \in agenda : f.what \in NodeActions => s.order < f.order
         /\ \A s \in Of("slot") : \E g \in Of("generate") :
              g.arg = s.arg /\ g.time = s.time /\ g.order < s.order
         /\ \A s \in Of("slot") : \E i \in DOMAIN scenario.nodes :
              s.time = (i - 1) * scenario.spacing
         /\ \A c \in agenda : c.what \notin {"finish", "elect"}
         /\ \E c \in Of("check") : c.time = scenario.timeout /\ \A d \in Of("check") : c = d
<1> DEFINE k == Len(scenario.nodes)
           N == 1 .. k
           F == {j \in DOMAIN scenario.faults : scenario.faults[j].action \in NodeActions}
           id(i) == scenario.nodes[i].id
           at(i) == (i - 1) * scenario.spacing
           gen(i) == Call(2 * i + 0, at(i), "generate", id(i))
           slot(i) == Call(2 * i + 1, at(i), "slot", id(i))
           heartbeat == Call(2 * k + 2, FirstHeartbeat, "heartbeat", 0)
           check == Call(2 * k + 3, scenario.timeout, "check", 0)
           fault(j) == Call(2 * k + 3 + j, scenario.faults[j].time,
                            scenario.faults[j].action, scenario.faults[j].node)
<1>1. scenario \in Scenarios /\ order = 2 * k + 4 + Len(scenario.faults)
  BY DEF Init
<1>2. agenda = {gen(i) : i \in N} \cup {slot(i) : i \in N} \cup {heartbeat, check}
                 \cup {fault(j) : j \in F}
  BY DEF Init, StartCalls, FaultCalls
<1>3. /\ k \in Nat /\ DOMAIN scenario.nodes = N
      /\ \A i \in N : id(i) \in Nat /\ id(i) \in Nodes
      /\ \A i, j \in N : id(i) = id(j) => i = j
  <2>1. /\ scenario.nodes \in Seq([id : Nat, drift : Int])
        /\ \A i, j \in DOMAIN scenario.nodes :
             scenario.nodes[i].id = scenario.nodes[j].id => i = j
    BY <1>1, ScenarioAssumption
  <2>2. k \in Nat /\ DOMAIN scenario.nodes = N
        /\ \A i \in N : scenario.nodes[i] \in [id : Nat, drift : Int]
    BY <2>1, SeqElements, Zenon
  <2> QED BY <2>1, <2>2 DEF Nodes, NodesOf
<1>4. /\ Len(scenario.faults) \in Nat
      /\ \A j \in F : /\ j \in Nat \ {0} /\ j <= Len(scenario.faults)
                      /\ scenario.faults[j].time \in Nat
                      /\ scenario.faults[j].action \in NodeActions
                      /\ scenario.faults[j].node \in Nat /\ scenario.faults[j].node \in Nodes
  <2> DEFINE Fault == [action : NodeActions \cup {"packet_loss"}, time : Nat,
                       node : Nat, duration : Nat, loss : {None, Random, Certain}]
  <2>1. /\ scenario.faults \in Seq(Fault)
        /\ \A j \in F : scenario.faults[j].node \in Nodes
    BY <1>1, ScenarioAssumption DEF Nodes, NodesOf
  <2>2. /\ Len(scenario.faults) \in Nat /\ DOMAIN scenario.faults = 1 .. Len(scenario.faults)
        /\ \A j \in DOMAIN scenario.faults : scenario.faults[j] \in Fault
    <3> HIDE DEF Fault
    <3> QED BY <2>1, SeqElements, Zenon
  <2> QED BY <2>1, <2>2
<1>5. \A i \in N : at(i) \in Nat
  <2>1. scenario.spacing \in Nat
    BY <1>1, ScenarioFacts
  <2>2. ASSUME NEW x \in Nat, NEW y \in Nat PROVE x * y \in Nat
    OBVIOUS
  <2>3. ASSUME NEW i \in N PROVE at(i) \in Nat
    <3>1. i - 1 \in Nat
      BY <1>3
    <3> QED BY <2>1, <2>2, <3>1
  <2> QED BY <2>3
<1>6. scenario.timeout \in Nat /\ FirstHeartbeat \in Nat
  BY <1>1, ScenarioFacts, ScenarioAssumption
<1>7. \A i \in N :
        /\ gen(i) \in Calls /\ gen(i).what = "generate" /\ gen(i).arg = id(i)
        /\ gen(i).order = 2 * i /\ gen(i).time = at(i)
        /\ slot(i) \in Calls /\ slot(i).what = "slot" /\ slot(i).arg = id(i)
        /\ slot(i).order = 2 * i + 1 /\ slot(i).time = at(i)
  BY <1>3, <1>5 DEF Call, Calls, NodeCalls
<1>8. /\ heartbeat \in Calls /\ heartbeat.what = "heartbeat" /\ heartbeat.order = 2 * k + 2
      /\ check \in Calls /\ check.what = "check" /\ check.order = 2 * k + 3
      /\ check.time = scenario.timeout
  BY <1>3, <1>6 DEF Call, Calls
<1>9. \A j \in F : /\ fault(j) \in Calls /\ fault(j).what \in NodeActions
                   /\ fault(j).order = 2 * k + 3 + j /\ fault(j).arg \in Nodes
  BY <1>3, <1>4 DEF Call, Calls, NodeCalls
<1> HIDE DEF gen, slot, heartbeat, check, fault, at, id, F, k
<1>10. /\ \A c \in Of("generate") : \E i \in N : c = gen(i)
       /\ \A c \in Of("slot") : \E i \in N : c = slot(i)
       /\ \A c \in agenda : c.what \in NodeActions => \E j \in F : c = fault(j)
       /\ \A c \in Of("check") : c = check
       /\ check \in Of("check")
       /\ \A i \in N : gen(i) \in Of("generate") /\ slot(i) \in Of("slot")
  BY <1>2, <1>7, <1>8, <1>9 DEF Of, NodeActions
<1>11. /\ agenda \subseteq Calls
       /\ \A c \in agenda : c.what \notin {"finish", "elect"}
  BY <1>2, <1>7, <1>8, <1>9 DEF NodeActions
<1>12. \A c \in agenda : c.order < order /\ (c.what \in NodeCalls => c.arg \in Nodes)
  <2>0. /\ order \in Nat
        /\ \A x \in Nat : x <= 2 * k + 3 => x < order
        /\ \A j \in F : 2 * k + 3 + j < order
    <3> DEFINE m == Len(scenario.faults)
    <3>1. order = 2 * k + 4 + m /\ k \in Nat /\ m \in Nat
          /\ \A j \in F : j \in Nat /\ j <= m
      BY <1>1, <1>3, <1>4, Zenon
    <3> HIDE DEF m
    <3> QED BY <3>1
  <2>1. ASSUME NEW i \in N
        PROVE  /\ gen(i).order < order /\ gen(i).arg \in Nodes
               /\ slot(i).order < order /\ slot(i).arg \in Nodes
    <3>1. /\ gen(i).order \in Nat /\ gen(i).order <= 2 * k + 3
          /\ slot(i).order \in Nat /\ slot(i).order <= 2 * k + 3
          /\ gen(i).arg \in Nodes /\ slot(i).arg \in Nodes
      BY <1>3, <1>7
    <3> QED BY <2>0, <3>1, Zenon
  <2>2. heartbeat.order < order /\ check.order < order
    BY <2>0, <1>3, <1>8
  <2>3. ASSUME NEW j \in F
        PROVE  fault(j).order < order /\ fault(j).arg \in Nodes
    <3>1. fault(j).order = 2 * k + 3 + j /\ fault(j).arg \in Nodes
      BY <1>9, Zenon
    <3> QED BY <2>0, <3>1, Zenon
  <2>4. heartbeat.what \notin NodeCalls /\ check.what \notin NodeCalls
    BY <1>8 DEF NodeCalls, NodeActions
  <2> QED BY <1>2, <2>1, <2>2, <2>3, <2>4
<1>13. \A c, d \in agenda : c.order = d.order => c = d
  <2>1. \A i, j \in N : /\ gen(i).order = gen(j).order => i = j
                        /\ slot(i).order = slot(j).order => i = j
                        /\ gen(i).order # slot(j).order
                        /\ gen(i).order < 2 * k + 2 /\ slot(i).order < 2 * k + 2
    BY <1>3, <1>7
  <2>2. \A i, j \in F : /\ fault(i).order = fault(j).order => i = j
                        /\ fault(i).order > 2 * k + 3
    BY <1>3, <1>4, <1>9
  <2>3. heartbeat.order = 2 * k + 2 /\ check.order = 2 * k + 3 /\ k \in Nat
    BY <1>3, <1>8
  <2>4. \A c \in agenda : \/ \E i \in N : c = gen(i) \/ c = slot(i)
                          \/ c = heartbeat \/ c = check
                          \/ \E j \in F : c = fault(j)
    BY <1>2
  <2>5. \A i \in N, j \in F : /\ gen(i).order < fault(j).order
                            /\ slot(i).order < fault(j).order
    BY <1>3, <1>4, <1>7, <1>9
  <2>6. \A i \in N : /\ gen(i).order # heartbeat.order /\ gen(i).order # check.order
                    /\ slot(i).order # heartbeat.order /\ slot(i).order # check.order
    BY <1>3, <1>7, <1>8
  <2>7. \A j \in F : fault(j).order # heartbeat.order /\ fault(j).order # check.order
    BY <1>3, <1>4, <1>8, <1>9
  <2>8. \A i \in N, j \in F : /\ gen(i).order # fault(j).order
                            /\ slot(i).order # fault(j).order
    BY <1>3, <1>4, <1>7, <1>9
  <2>9. heartbeat.order # check.order
    BY <2>3
  <2>10. \A i, j \in N : gen(i).order = gen(j).order => gen(i) = gen(j)
    BY <2>1
  <2>11. \A i, j \in N : slot(i).order = slot(j).order => slot(i) = slot(j)
    BY <2>1
  <2>12. \A i, j \in N : gen(i).order # slot(j).order
    BY <2>1
  <2>13. \A i, j \in F : fault(i).order = fault(j).order => fault(i) = fault(j)
    BY <2>2
  <2> SUFFICES ASSUME NEW c \in agenda, NEW d \in agenda, c.order = d.order
               PROVE  c = d
    OBVIOUS
  <2>14. CASE \E i \in N : c = gen(i)
    BY <2>4, <2>6, <2>8, <2>10, <2>12, <2>14
  <2>15. CASE \E i \in N : c = slot(i)
    BY <2>4, <2>6, <2>8, <2>11, <2>12, <2>15
  <2>16. CASE c = heartbeat \/ c = check
    BY <2>4, <2>6, <2>7, <2>9, <2>16
  <2>17. CASE \E j \in F : c = fault(j)
    BY <2>4, <2>7, <2>8, <2>13, <2>17
  <2> QED BY <2>4, <2>14, <2>15, <2>16, <2>17
<1>14. \A what \in {"generate", "slot"} : \A c, d \in Of(what) : c.arg = d.arg => c = d
  BY <1>3, <1>7, <1>10
<1>15. \A g \in Of("generate") : \E s \in Of("slot") :
         /\ s.arg = g.arg /\ s.time = g.time /\ g.order < s.order
         /\ \A f \in agenda : f.what \in NodeActions => s.order < f.order
  <2> SUFFICES ASSUME NEW i \in N
               PROVE  /\ slot(i) \in Of("slot") /\ slot(i).arg = gen(i).arg
                      /\ slot(i).time = gen(i).time /\ gen(i).order < slot(i).order
                      /\ \A f \in agenda : f.what \in NodeActions => slot(i).order < f.order
    BY <1>10
  <2>1. \A j \in F : slot(i).order < fault(j).order
    BY <1>3, <1>4, <1>7, <1>9
  <2>2. \A f \in agenda : f.what \in NodeActions => slot(i).order < f.order
    BY <1>10, <2>1
  <2>3. slot(i).arg = gen(i).arg /\ slot(i).time = gen(i).time /\ gen(i).order < slot(i).order
    BY <1>3, <1>7
  <2> QED BY <1>10, <2>2, <2>3
<1>16. \A s \in Of("slot") : \E g \in Of("generate") :
         g.arg = s.arg /\ g.time = s.time /\ g.order < s.order
  <2> SUFFICES ASSUME NEW i \in N
               PROVE  /\ gen(i) \in Of("generate") /\ slot(i).arg = gen(i).arg
                      /\ slot(i).time = gen(i).time /\ gen(i).order < slot(i).order
    BY <1>10
  <2>1. slot(i).arg = gen(i).arg /\ slot(i).time = gen(i).time /\ gen(i).order < slot(i).order
    BY <1>3, <1>7
  <2> QED BY <1>10, <2>1
<1>17. \A s \in Of("slot") : \E i \in DOMAIN scenario.nodes :
         s.time = (i - 1) * scenario.spacing
  <2>1. \A i \in N : slot(i).time = (i - 1) * scenario.spacing
    BY <1>7 DEF at
  <2> QED BY <1>3, <1>10, <2>1, Zenon
<1> QED BY <1>1, <1>8, <1>10, <1>11, <1>12, <1>13, <1>14, <1>15, <1>16, <1>17

\* A run starts in a state that hangs together.
LEMMA InitEngine ==
  ASSUME Init
  PROVE  Engine
<1>1. /\ scenario \in Scenarios /\ now = 0 /\ packets = 0 /\ active = {}
      /\ queue = [n \in Nodes |-> <<>>] /\ enabled = [n \in Nodes |-> TRUE]
      /\ coordinator = scenario.initial
  BY DEF Init, Nodes
<1>2. order \in Nat
  <2>1. /\ scenario.nodes \in Seq([id : Nat, drift : Int])
        /\ scenario.faults \in Seq([action : NodeActions \cup {"packet_loss"}, time : Nat,
                                    node : Nat, duration : Nat,
                                    loss : {None, Random, Certain}])
    BY <1>1, ScenarioAssumption
  <2>2. Len(scenario.nodes) \in Nat /\ Len(scenario.faults) \in Nat
    BY <2>1, SeqElements, Zenon
  <2>3. order = 2 * Len(scenario.nodes) + 4 + Len(scenario.faults)
    BY DEF Init
  <2>4. ASSUME NEW a \in Nat, NEW b \in Nat
        PROVE  2 * a + 4 + b \in Nat
    OBVIOUS
  <2> QED BY <2>2, <2>3, <2>4, Zenon
<1>3. Types
  <2>1. coordinator \in Nodes
    BY <1>1, ScenarioAssumption DEF Nodes, NodesOf
  <2>2. queue \in [Nodes -> Seq(Frame)]
    BY <1>1, EmptySeq
  <2> QED BY <1>1, <1>2, <2>1, <2>2, StartFacts DEF Types
<1>4. AgendaInv
  <2>1. \A c \in agenda : now <= c.time
    BY <1>1, <1>3 DEF Types, Calls
  <2>2. now <= Until
    BY <1>1, <1>3, PeriodFacts
  <2> QED BY <2>1, <2>2, StartFacts DEF AgendaInv
<1>5. AirInv
  BY <1>1, StartFacts DEF AirInv, Of
<1>6. \A n \in Nodes : Rests(n)
  BY <1>1, StartFacts DEF Rests
<1>7. NodesInv
  BY <1>1, <1>6, StartFacts DEF NodesInv
<1> QED BY <1>3, <1>4, <1>5, <1>7 DEF Engine

\* The agenda, the packets and the medium hang together throughout a run.
THEOREM EngineHolds == Spec => []Engine
<1>1. ASSUME Engine, [Next]_vars
      PROVE  Engine'
  <2>1. CASE Step
    <3>1. PICK e \in agenda : Callback(e)
      BY <2>1 DEF Step
    <3>2. UNCHANGED scenario
      BY <2>1 DEF Step
    <3> QED BY <1>1, <3>1, <3>2, GenerateEngine, SlotEngine, FinishEngine, SetEnabledEngine,
               HeartbeatEngine, CheckEngine, ElectEngine DEF Callback
  <2>2. CASE End
    BY <1>1, <2>2, EndEngine
  <2>3. CASE UNCHANGED vars
    BY <1>1, <2>3 DEF vars, Engine, Types, AgendaInv, AirInv, NodesInv, Nodes, Of, Until,
                      Airtime, Rests, SlotDue
  <2> QED BY <1>1, <2>1, <2>2, <2>3 DEF Next
<1> QED BY <1>1, InitEngine, PTL DEF Spec

-----------------------------------------------------------------------------
(* Collisions. *)

\* A span is that of a transmission that is over or on the air.
LEMMA OverlapCases ==
  ASSUME NEW packet, NEW from, NEW to
  PROVE  Overlapping(packet, from, to) <=>
           \/ \E x \in Over : x.packet # packet /\ from < x.time /\ x.start < to
           \/ \E a \in active : a.packet # packet /\ from < a.end /\ a.start < to
<1> DEFINE past(x) == [packet |-> x.packet, from |-> x.start, to |-> x.time]
           present(a) == [packet |-> a.packet, from |-> a.start, to |-> a.end]
<1>1. /\ \A x \in Over : past(x) \in Spans
      /\ \A a \in active : present(a) \in Spans
      /\ \A y \in Spans : \/ \E x \in Over : y = past(x)
                        \/ \E a \in active : y = present(a)
  BY DEF Spans
<1>2. ASSUME NEW x
      PROVE  past(x).packet = x.packet /\ past(x).from = x.start /\ past(x).to = x.time
  OBVIOUS
<1>3. ASSUME NEW a
      PROVE  present(a).packet = a.packet /\ present(a).from = a.start /\ present(a).to = a.end
  OBVIOUS
<1> HIDE DEF past, present
<1>4. ASSUME NEW y \in Spans, y.packet # packet, from < y.to, y.from < to
      PROVE  \/ \E x \in Over : x.packet # packet /\ from < x.time /\ x.start < to
             \/ \E a \in active : a.packet # packet /\ from < a.end /\ a.start < to
  <2>1. CASE \E x \in Over : y = past(x)
    BY <1>2, <1>4, <2>1
  <2>2. CASE \E a \in active : y = present(a)
    BY <1>3, <1>4, <2>2
  <2> QED BY <1>1, <2>1, <2>2
<1>5. ASSUME NEW x \in Over, x.packet # packet, from < x.time, x.start < to
      PROVE  Overlapping(packet, from, to)
  <2>1. past(x) \in Spans /\ past(x).packet # packet /\ from < past(x).to /\ past(x).from < to
    BY <1>1, <1>2, <1>5
  <2> QED BY <2>1 DEF Overlapping
<1>6. ASSUME NEW a \in active, a.packet # packet, from < a.end, a.start < to
      PROVE  Overlapping(packet, from, to)
  <2>1. /\ present(a) \in Spans /\ present(a).packet # packet
        /\ from < present(a).to /\ present(a).from < to
    BY <1>1, <1>3, <1>6
  <2> QED BY <2>1 DEF Overlapping
<1> QED BY <1>4, <1>5, <1>6 DEF Overlapping

\* Callbacks that leave the air alone.
LEMMA MediumKept ==
  ASSUME Engine, MediumInv, now' \in Nat, now <= now', packets' \in Nat, packets <= packets',
         UNCHANGED <<scenario, active, collided>>, Over' = Over,
         \A n \in Nodes : queue'[n] # <<>> =>
           \/ queue[n] # <<>> /\ queue'[n][1].packet = queue[n][1].packet
           \/ queue'[n][1].packet = packets + 1
  PROVE  MediumInv'
<1>1. \A packet, from, to : Overlapping(packet, from, to)' <=> Overlapping(packet, from, to)
  BY DEF Overlapping, Spans
<1>2. packets \in Nat /\ now \in Nat
  BY DEF Engine, Types
<1>3. \A x \in Over : x.time <= now' /\ x.packet <= packets' /\ x.packet # packets + 1
  BY <1>2 DEF MediumInv
<1>4. \A c \in collided : c <= packets' /\ c # packets + 1
  BY <1>2 DEF MediumInv
<1>5. Nodes' = Nodes
  BY DEF Nodes
<1> QED BY <1>1, <1>3, <1>4, <1>5 DEF MediumInv

\* A transmission starts (SharedMedium.transmit): it collides with what is on the air.
LEMMA MediumTransmit ==
  ASSUME Engine, Engine', MediumInv, now <= now', packets <= packets', UNCHANGED scenario,
         NEW tx \in Transmission, tx.start = now', tx.end = tx.start + Airtime(tx.kind),
         Transmit(tx.packet, tx.source, tx.kind, tx.created, now', Airtime(tx.kind)),
         active' = active \cup {tx}, \A a \in active : a.packet # tx.packet,
         \A x \in Over : x.packet # tx.packet, tx.packet \notin collided,
         Over' = Over,
         \A n \in Nodes : queue'[n] # <<>> => queue[n] # <<>> /\ queue'[n] = queue[n]
  PROVE  MediumInv'
<1> DEFINE t == now'
<1>1. /\ now \in Nat /\ t \in Nat /\ packets \in Nat /\ packets' \in Nat
      /\ Airtime(tx.kind) \in Nat \ {0}
  BY ScenarioFacts DEF Engine, Types, Airtime
<1>2. tx \in active' /\ tx.packet \in Nat /\ tx.packet <= packets' /\ tx.end > t
  BY <1>1 DEF Engine, AirInv, Transmission
<1>3. \A a \in active : /\ a.start \in Nat /\ a.end \in Nat /\ a.packet \in Nat
                        /\ a.packet <= packets /\ a.start <= now
  BY DEF Engine, Types, AirInv, Transmission
<1>4. \A x \in Over : x.time \in Nat /\ x.start \in Nat /\ x.time <= now
  BY DEF MediumInv
<1>5. collided' = IF Overlapped(t) = {} THEN collided
                  ELSE collided \cup {tx.packet} \cup {a.packet : a \in Overlapped(t)}
  BY DEF Transmit
<1>6. Overlapped(t) = {a \in active : a.end > t}
  BY DEF Overlapped
<1>7. \A packet, from, to : Overlapping(packet, from, to)' <=>
         \/ Overlapping(packet, from, to)
         \/ tx.packet # packet /\ from < tx.end /\ tx.start < to
  <2> DEFINE span == [packet |-> tx.packet, from |-> tx.start, to |-> tx.end]
  <2>1. Spans' = Spans \cup {span}
    BY DEF Spans
  <2>2. span.packet = tx.packet /\ span.from = tx.start /\ span.to = tx.end
    OBVIOUS
  <2> HIDE DEF span
  <2> QED BY <2>1, <2>2 DEF Overlapping
<1> HIDE DEF t
<1>8. \A a \in active : a.packet \in collided' <=> a.packet \in collided \/ a.end > t
  <2>1. \A a, b \in active : a.packet = b.packet => a = b
    BY DEF Engine, AirInv
  <2> QED BY <1>5, <1>6, <2>1
<1>9. ASSUME NEW a \in active
      PROVE  a.packet \in collided' <=> Overlapping(a.packet, a.start, a.end)'
  <2>1. a.packet \in collided <=> Overlapping(a.packet, a.start, a.end)
    BY DEF MediumInv
  <2>2. a.end > t <=> tx.packet # a.packet /\ a.start < tx.end /\ tx.start < a.end
    BY <1>1, <1>2, <1>3 DEF t
  <2> QED BY <1>7, <1>8, <2>1, <2>2
<1>10. tx.packet \in collided' <=> Overlapping(tx.packet, tx.start, tx.end)'
  <2>1. tx.packet \in collided' <=> Overlapped(t) # {}
    BY <1>5
  <2>2. ~ \E x \in Over : tx.start < x.time
    BY <1>1, <1>4 DEF t
  <2>3. Overlapping(tx.packet, tx.start, tx.end) <=>
          \E a \in active : a.packet # tx.packet /\ tx.start < a.end /\ a.start < tx.end
    BY <2>2, OverlapCases
  <2>4. \A a \in active : a.packet # tx.packet /\ a.start < tx.end
    BY <1>1, <1>2, <1>3 DEF t
  <2>5. \A a \in active : tx.start < a.end <=> a \in Overlapped(t)
    BY <1>1, <1>3, <1>6 DEF t
  <2>6. Overlapped(t) \subseteq active
    BY <1>6
  <2> QED BY <1>7, <2>1, <2>3, <2>4, <2>5, <2>6
<1>11. \A x \in Over : Overlapping(x.packet, x.start, x.time)'
                         <=> Overlapping(x.packet, x.start, x.time)
  <2>1. \A x \in Over : ~(tx.start < x.time)
    BY <1>1, <1>4 DEF t
  <2> QED BY <1>7, <2>1
<1>12. \A c \in collided' : c \in Nat /\ c <= packets'
  BY <1>1, <1>2, <1>3, <1>5, <1>6 DEF MediumInv
<1>13. ASSUME NEW n \in Nodes, queue'[n] # <<>>
       PROVE  queue'[n][1].packet \notin collided' /\ \A x \in Over : x.packet # queue'[n][1].packet
  <2>1. queue'[n] = queue[n] /\ queue[n] # <<>>
    BY <1>13
  <2>2. \A a \in active' : a.packet # queue'[n][1].packet
    <3>1. \A m \in Nodes' : Rests(m)' \/ SlotDue(m)'
      BY DEF Engine, NodesInv
    <3>2. n \in Nodes'
      BY DEF Nodes
    <3> QED BY <1>13, <3>1, <3>2 DEF Rests, SlotDue
  <2> QED BY <1>2, <1>5, <1>6, <2>1, <2>2 DEF MediumInv
<1>14. \A x \in Over : x.time <= now' /\ x.packet <= packets' /\ x.packet \in Nat
  BY <1>1, <1>4 DEF MediumInv, t
<1>15. Nodes' = Nodes
  BY DEF Nodes
<1> QED BY <1>2, <1>4, <1>9, <1>10, <1>11, <1>12, <1>13, <1>14, <1>15 DEF MediumInv

\* The loss in force is one of the three (SharedMedium._loss_probability).
LEMMA LossKnown ==
  ASSUME NEW s \in Scenarios, NEW t
  PROVE  LossAt(s, t) \in {None, Random, Certain}
<1> DEFINE inForce == {s.baseLoss} \cup
             {s.faults[i].loss : i \in {j \in DOMAIN s.faults :
                 /\ s.faults[j].action = "packet_loss"
                 /\ s.faults[j].time <= t
                 /\ t < s.faults[j].time + s.faults[j].duration}}
<1>1. inForce \subseteq {None, Random, Certain} /\ inForce # {}
  <2> DEFINE Fault == [action : NodeActions \cup {"packet_loss"}, time : Nat,
                       node : Nat, duration : Nat, loss : {None, Random, Certain}]
  <2>1. s.faults \in Seq(Fault) /\ s.baseLoss \in {None, Random, Certain}
    BY ScenarioAssumption
  <2>2. \A i \in DOMAIN s.faults : s.faults[i] \in Fault
    <3> HIDE DEF Fault
    <3> QED BY <2>1, SeqElements, Zenon
  <2> QED BY <2>1, <2>2
<1> HIDE DEF inForce
<1>2. \E p \in inForce : \A q \in inForce : p >= q
  <2>1. \A q \in inForce : Certain >= q
    BY <1>1 DEF None, Random, Certain
  <2>2. Certain \notin inForce => \A q \in inForce : Random >= q
    BY <1>1 DEF None, Random, Certain
  <2>3. Certain \notin inForce /\ Random \notin inForce =>
          None \in inForce /\ \A q \in inForce : None >= q
    <3>1. PICK q \in inForce : q \in {None, Random, Certain}
      BY <1>1
    <3>2. None >= None
      BY DEF None
    <3>3. Certain \notin inForce /\ Random \notin inForce =>
            \A x \in inForce : x = None
      BY <1>1
    <3> QED BY <3>1, <3>2, <3>3
  <2> QED BY <2>1, <2>2, <2>3
<1>3. LossAt(s, t) = CHOOSE p \in inForce : \A q \in inForce : p >= q
  BY DEF LossAt, inForce
<1> QED BY <1>1, <1>2, <1>3

\* A transmission is over (finish): its span and its fate are what they were.
LEMMA MediumFinish ==
  ASSUME Engine, Engine', MediumInv, NEW e, Finish(e), UNCHANGED scenario
  PROVE  MediumInv'
<1>0. PICK tx \in active :
        /\ tx.packet = e.arg
        /\ active' = active \ {tx}
        /\ \E outcome \in Outcomes(tx) :
             Record({[Entry(e.time, outcome, tx.source, tx.packet) EXCEPT
                         !.kind = tx.kind, !.start = tx.start,
                         !.latency = e.time + scenario.propagation - tx.created]}
                    \cup IF /\ outcome = "packet_delivered" /\ tx.kind = "voice"
                            /\ e.time + scenario.propagation - tx.created > scenario.deadline
                         THEN {Entry(e.time, "audio_deadline_miss", tx.source, tx.packet)}
                         ELSE {})
  BY DEF Finish
<1>1. PICK outcome \in Outcomes(tx) :
             Record({[Entry(e.time, outcome, tx.source, tx.packet) EXCEPT
                         !.kind = tx.kind, !.start = tx.start,
                         !.latency = e.time + scenario.propagation - tx.created]}
                    \cup IF /\ outcome = "packet_delivered" /\ tx.kind = "voice"
                            /\ e.time + scenario.propagation - tx.created > scenario.deadline
                         THEN {Entry(e.time, "audio_deadline_miss", tx.source, tx.packet)}
                         ELSE {})
  BY <1>0
<1> DEFINE x0 == [Entry(e.time, outcome, tx.source, tx.packet) EXCEPT
                    !.kind = tx.kind, !.start = tx.start,
                    !.latency = e.time + scenario.propagation - tx.created]
<1>2. /\ now' = e.time /\ now <= now' /\ tx.end = e.time
  BY <1>0, FinishEngine
<1>3. x0.event = outcome /\ x0.packet = tx.packet /\ x0.start = tx.start /\ x0.time = tx.end
  BY <1>2 DEF Entry
<1>4. /\ outcome \in {"packet_collided", "packet_delivered", "packet_lost"}
      /\ outcome = "packet_collided" <=> tx.packet \in collided
  BY LossKnown DEF Outcomes, Engine, Types, None, Random, Certain
<1>5. Over' = Over \cup {x0}
  <2>1. x0 \in trace' /\ trace \subseteq trace'
    BY <1>1 DEF Record
  <2>2. \A x \in trace' : x \in trace \/ x = x0 \/ x.event = "audio_deadline_miss"
    BY <1>1 DEF Record, Entry
  <2> HIDE DEF x0
  <2> QED BY <1>3, <1>4, <2>1, <2>2 DEF Over, Events
<1> HIDE DEF x0
<1>6. \A packet, from, to : Overlapping(packet, from, to)' <=> Overlapping(packet, from, to)
  BY <1>0, <1>3, <1>5 DEF Overlapping, Spans
<1>7. /\ tx.start \in Nat /\ tx.end \in Nat /\ tx.packet \in Nat /\ tx.packet <= packets
  BY DEF Engine, Types, AirInv, Transmission
<1>8. UNCHANGED <<packets, queue, collided>> /\ Nodes' = Nodes /\ packets \in Nat
      /\ now \in Nat /\ now' \in Nat
  BY DEF Finish, Nodes, Engine, Types
<1>9. \A x \in Over' : x.time \in Nat /\ x.start \in Nat /\ x.packet \in Nat
                       /\ x.time <= now' /\ x.packet <= packets'
  BY <1>2, <1>3, <1>5, <1>7, <1>8 DEF MediumInv
<1>10. \A n \in Nodes : queue[n] # <<>> => \A x \in Over' : x.packet # queue[n][1].packet
  BY <1>3, <1>5, OwnFrames DEF MediumInv
<1>11. \A a \in active' : \A x \in Over' : x.packet # a.packet
  <2>1. \A a \in active' : a.packet # tx.packet
    BY <1>0 DEF Engine, AirInv
  <2> QED BY <1>0, <1>3, <1>5, <2>1 DEF MediumInv
<1>12. \A x \in Over' : x.event = "packet_collided" <=> Overlapping(x.packet, x.start, x.time)
  <2>1. tx.packet \in collided <=> Overlapping(tx.packet, tx.start, tx.end)
    BY DEF MediumInv
  <2> QED BY <1>3, <1>4, <1>5, <2>1 DEF MediumInv
<1>13. \A a \in active' : a.packet \in collided' <=> Overlapping(a.packet, a.start, a.end)
  BY <1>0, <1>8 DEF MediumInv
<1> QED BY <1>6, <1>8, <1>9, <1>10, <1>11, <1>12, <1>13 DEF MediumInv

\* Nothing overlapped before the first callback.
LEMMA InitMedium ==
  ASSUME Init
  PROVE  MediumInv
BY DEF Init, MediumInv, Over, Events, Nodes

\* Every step keeps the medium's books.
LEMMA StepMedium ==
  ASSUME Engine, Engine', MediumInv, [Next]_vars
  PROVE  MediumInv'
<1>1. packets \in Nat /\ packets' \in Nat /\ now' \in Nat
  BY DEF Engine, Types
<1>2. CASE Step
  <2>1. PICK e \in agenda : Callback(e)
    BY <1>2 DEF Step
  <2>2. UNCHANGED scenario
    BY <1>2 DEF Step
  <2>3. CASE Generate(e)
    <3>1. /\ e.arg \in Nodes /\ queue[e.arg] = <<>> /\ now' = e.time
          /\ enabled[e.arg] => queue' = [queue EXCEPT ![e.arg] =
                                <<[packet |-> packets + 1, created |-> e.time]>>]
      BY <2>2, <2>3, GenerateEngine
    <3>2. e \in agenda /\ UNCHANGED <<active, collided>>
          /\ (~enabled[e.arg] => UNCHANGED <<queue, packets>>)
          /\ (enabled[e.arg] => packets' = packets + 1)
      BY <2>3 DEF Generate
    <3>3. now <= now' /\ packets <= packets'
      BY <1>1, <3>1, <3>2 DEF Engine, AgendaInv
    <3>4. Over' = Over
      <4>1. trace \subseteq trace'
            /\ \A x \in trace' : x \in trace \/ x.event = "voice_frame_generated"
                                 \/ x.event = "queue_overflow"
        BY <2>3 DEF Generate, Record, Entry
      <4> QED BY <4>1 DEF Over, Events
    <3>5. \A n \in Nodes : queue'[n] # <<>> =>
           \/ queue[n] # <<>> /\ queue'[n][1].packet = queue[n][1].packet
           \/ queue'[n][1].packet = packets + 1
      BY <3>1, <3>2 DEF Engine, Types
    <3> QED BY <1>1, <2>2, <3>2, <3>3, <3>4, <3>5, MediumKept
  <2>4. CASE Slot(e)
    <3>1. /\ e.arg \in Nodes /\ e.time = now /\ now' = now
          /\ queue[e.arg] # <<>> =>
              /\ SlotTx(e) \in Transmission /\ active' = active \cup {SlotTx(e)}
              /\ \A a \in active : a.packet # SlotTx(e).packet
          /\ queue[e.arg] = <<>> => active' = active
          /\ queue' = [queue EXCEPT ![e.arg] = <<>>]
      BY <2>2, <2>4, SlotEngine
    <3>2. packets' = packets /\ now \in Nat
      BY <2>4 DEF Slot, Engine, Types
    <3>3. Over' = Over
      <4>1. trace \subseteq trace'
            /\ \A x \in trace' : x \in trace \/ x.event = "audio_deadline_miss"
        BY <2>4 DEF Slot, Record, Entry
      <4> QED BY <4>1 DEF Over, Events
    <3>4. \A n \in Nodes : queue'[n] # <<>> => queue[n] # <<>> /\ queue'[n] = queue[n]
      BY <3>1 DEF Engine, Types
    <3>5. CASE queue[e.arg] # <<>>
      <4> DEFINE tx == SlotTx(e)
      <4>1. enabled[e.arg]
        BY <3>1, <3>5, OwnFrames
      <4>2. Transmit(queue[e.arg][1].packet, e.arg, "voice", queue[e.arg][1].created,
                     e.time, VoiceAirtime(scenario))
        BY <2>4, <3>5, <4>1 DEF Slot
      <4>3. /\ tx.packet = queue[e.arg][1].packet /\ tx.source = e.arg /\ tx.kind = "voice"
            /\ tx.created = queue[e.arg][1].created /\ tx.start = now'
            /\ Airtime(tx.kind) = VoiceAirtime(scenario)
            /\ tx.end = tx.start + Airtime(tx.kind)
        BY <3>1 DEF SlotTx, Airtime
      <4>4. Transmit(tx.packet, tx.source, tx.kind, tx.created, now', Airtime(tx.kind))
        BY <3>1, <4>2, <4>3
      <4>5. (\A x \in Over : x.packet # tx.packet) /\ tx.packet \notin collided
        BY <3>1, <3>5, <4>3 DEF MediumInv
      <4>6. now <= now' /\ packets <= packets'
        BY <3>1, <3>2, <1>1
      <4> HIDE DEF tx
      <4> QED BY <2>2, <3>1, <3>3, <3>4, <3>5, <4>3, <4>4, <4>5, <4>6, MediumTransmit DEF tx
    <3>6. CASE queue[e.arg] = <<>>
      <4>1. collided' = collided
        BY <2>4, <3>6 DEF Slot
      <4>2. now <= now' /\ packets <= packets'
        BY <3>1, <3>2, <1>1
      <4> QED BY <1>1, <2>2, <3>1, <3>3, <3>4, <3>6, <4>1, <4>2, MediumKept
    <3> QED BY <3>5, <3>6
  <2>5. CASE Finish(e)
    BY <2>2, <2>5, MediumFinish
  <2>6. CASE SetEnabled(e)
    <3>1. UNCHANGED <<packets, queue, active, collided, trace>>
      BY <2>6 DEF SetEnabled
    <3>2. now <= now' /\ packets <= packets' /\ Over' = Over
      BY <1>1, <2>2, <2>6, <3>1, SetEnabledEngine DEF Over, Events
    <3> QED BY <1>1, <2>2, <3>1, <3>2, MediumKept
  <2>7. CASE Heartbeat(e)
    <3>1. /\ now' = e.time /\ now <= now'
          /\ enabled[coordinator] =>
              /\ HeartbeatTx(e) \in Transmission /\ packets' = packets + 1
              /\ active' = active \cup {HeartbeatTx(e)}
          /\ ~enabled[coordinator] => UNCHANGED <<active, packets>>
      BY <2>2, <2>7, HeartbeatEngine
    <3>2. UNCHANGED <<queue, trace>> /\ packets <= packets'
      BY <1>1, <2>7, <3>1 DEF Heartbeat
    <3>3. Over' = Over
      BY <3>2 DEF Over, Events
    <3>4. CASE enabled[coordinator]
      <4> DEFINE tx == HeartbeatTx(e)
      <4>1. Transmit(packets + 1, coordinator, "heartbeat", e.time, e.time,
                     HeartbeatAirtime(scenario))
        BY <2>7, <3>4 DEF Heartbeat
      <4>2. /\ tx.packet = packets + 1 /\ tx.source = coordinator /\ tx.kind = "heartbeat"
            /\ tx.created = e.time /\ tx.start = now'
            /\ Airtime(tx.kind) = HeartbeatAirtime(scenario)
            /\ tx.end = tx.start + Airtime(tx.kind)
        BY <3>1 DEF HeartbeatTx, Airtime
      <4>3. Transmit(tx.packet, tx.source, tx.kind, tx.created, now', Airtime(tx.kind))
        BY <3>1, <4>1, <4>2
      <4>4. /\ \A x \in Over : x.packet # tx.packet
            /\ tx.packet \notin collided
            /\ \A a \in active : a.packet # tx.packet
        BY <1>1, <4>2 DEF MediumInv, Engine, AirInv, Types, Transmission
      <4> HIDE DEF tx
      <4> QED BY <2>2, <3>1, <3>2, <3>3, <3>4, <4>2, <4>3, <4>4, MediumTransmit DEF tx
    <3>5. CASE ~enabled[coordinator]
      <4>1. UNCHANGED <<active, collided>>
        BY <2>7, <3>5 DEF Heartbeat
      <4> QED BY <1>1, <2>2, <3>1, <3>2, <3>3, <4>1, MediumKept
    <3> QED BY <3>4, <3>5
  <2>8. CASE CheckTimeout(e)
    <3>1. UNCHANGED <<packets, queue, active, collided, trace>>
      BY <2>8 DEF CheckTimeout
    <3>2. now <= now' /\ packets <= packets' /\ Over' = Over
      BY <1>1, <2>2, <2>8, <3>1, CheckEngine DEF Over, Events
    <3> QED BY <1>1, <2>2, <3>1, <3>2, MediumKept
  <2>9. CASE Elect(e)
    <3>1. UNCHANGED <<packets, queue, active, collided>>
      BY <2>9 DEF Elect
    <3>2. Over' = Over
      <4>1. trace \subseteq trace'
            /\ \A x \in trace' : x \in trace \/ x.event = "coordinator_selected"
        BY <2>9 DEF Elect, Record, Entry
      <4> QED BY <4>1 DEF Over, Events
    <3>3. now <= now' /\ packets <= packets'
      BY <1>1, <2>2, <2>9, <3>1, ElectEngine
    <3> QED BY <1>1, <2>2, <3>1, <3>2, <3>3, MediumKept
  <2> QED BY <2>1, <2>3, <2>4, <2>5, <2>6, <2>7, <2>8, <2>9 DEF Callback
<1>3. CASE End
  <2>1. UNCHANGED <<scenario, packets, queue, active, collided, trace>>
    BY <1>3 DEF End
  <2>2. now <= now' /\ packets <= packets' /\ Over' = Over
    BY <1>1, <1>3, <2>1, EndEngine DEF Over, Events
  <2> QED BY <1>1, <2>1, <2>2, MediumKept
<1>4. CASE UNCHANGED vars
  <2>1. UNCHANGED <<scenario, now, packets, queue, active, collided, trace>>
    BY <1>4 DEF vars
  <2>2. now <= now' /\ packets <= packets' /\ Over' = Over
    BY <1>1, <2>1 DEF Over, Events, Engine, Types
  <2> QED BY <1>1, <2>1, <2>2, MediumKept
<1> QED BY <1>2, <1>3, <1>4 DEF Next

\* The medium's books are kept throughout a run.
THEOREM MediumHolds == Spec => []MediumInv
<1>1. Engine /\ Engine' /\ MediumInv /\ [Next]_vars => MediumInv'
  BY StepMedium
<1>2. Init => MediumInv
  BY InitMedium
<1> QED BY <1>1, <1>2, EngineHolds, PTL DEF Spec

\* What the trace records as collided is exactly what overlapped.
THEOREM CollisionsAreOverlaps == Spec => []CollidedIffOverlapping
<1>1. MediumInv => CollidedIffOverlapping
  BY DEF MediumInv, CollidedIffOverlapping, Overlapping, Spans, Over
<1> QED BY <1>1, MediumHolds, PTL

-----------------------------------------------------------------------------
(* The coordinator. *)

\* Whether the crew is left without a coordinator after a step, and since when.
Leaderless == ~(enabled[coordinator] \/ \A n \in Nodes : ~enabled[n])
History ==
  leaderlessSince' = IF ~Leaderless' THEN Never
                     ELSE IF leaderlessSince = Never THEN now' ELSE leaderlessSince

\* The bounds are numbers.
LEMMA LeaderBounds ==
  ASSUME Engine
  PROVE  /\ HeartbeatAirtime(scenario) \in Nat /\ CheckPeriod \in Nat
         /\ scenario.timeout \in Nat /\ scenario.delay \in Nat /\ now \in Nat
         /\ \A c \in agenda : c.time \in Nat /\ now <= c.time
         /\ \A a \in active :
              /\ a.start \in Nat /\ a.start <= now
              /\ a.kind = "heartbeat" => a.end = a.start + HeartbeatAirtime(scenario)
<1>1. HeartbeatAirtime(scenario) \in Nat /\ scenario.timeout \in Nat /\ scenario.delay \in Nat
  BY ScenarioFacts DEF Engine, Types
<1>2. CheckPeriod \in Nat /\ now \in Nat
  BY PeriodFacts DEF Engine, Types
<1>3. \A c \in agenda : c.time \in Nat /\ now <= c.time
  BY DEF Engine, Types, AgendaInv, Calls
<1>4. ASSUME NEW a \in active
      PROVE  /\ a.start \in Nat /\ a.start <= now
             /\ a.kind = "heartbeat" => a.end = a.start + HeartbeatAirtime(scenario)
  BY DEF Engine, Types, AirInv, Transmission, Airtime
<1> QED BY <1>1, <1>2, <1>3, <1>4

\* Steps other than a check and an election: heartbeats stop with the coordinator,
\* and the last one is heard when its time on the air is over.
LEMMA LeaderKept ==
  ASSUME Engine, Engine', LeaderInv, History, now <= now',
         UNCHANGED <<scenario, coordinator, electionPending>>,
         \A c : c \in Of("check")' <=> c \in Of("check"),
         \A c : c \in Of("elect")' <=> c \in Of("elect"),
         \A a \in active' : a.kind = "heartbeat" =>
           a \in active \/ (enabled[coordinator] /\ enabled' = enabled),
         \/ lastHeartbeat' = lastHeartbeat
         \/ /\ lastHeartbeat' = now'
            /\ \E a \in active : a.kind = "heartbeat" /\ a.end = now'
  PROVE  LeaderInv'
<1>1. /\ HeartbeatAirtime(scenario) \in Nat /\ CheckPeriod \in Nat
      /\ scenario.timeout \in Nat /\ scenario.delay \in Nat /\ now \in Nat /\ now' \in Nat
      /\ HeartbeatAirtime(scenario') = HeartbeatAirtime(scenario) /\ CheckPeriod' = CheckPeriod
  BY LeaderBounds DEF Engine, Types, CheckPeriod
<1>2. /\ \A c \in Of("check") : c.time \in Nat
      /\ \A c \in Of("elect") : c.time \in Nat
  BY LeaderBounds DEF Of
<1>3. \A a \in active :
        /\ a.start \in Nat /\ a.start <= now
        /\ a.kind = "heartbeat" => a.end = a.start + HeartbeatAirtime(scenario)
  BY LeaderBounds
<1>4. \A a \in active' : a.start <= now'
  BY DEF Engine, AirInv
<1>5. /\ lastHeartbeat \in Nat /\ lastHeartbeat <= now /\ electionPending \in BOOLEAN
      /\ leaderlessSince \in Nat \cup {Never}
      /\ leaderlessSince = Never <=> ~Leaderless
      /\ electionPending <=> Of("elect") # {}
  BY DEF LeaderInv, Leaderless
<1>6. PICK c0 \in Of("check") : /\ c0.time <= Larger(now + CheckPeriod, scenario.timeout)
                                /\ \A d \in Of("check") : d = c0
  BY DEF LeaderInv
<1>7. lastHeartbeat' \in Nat /\ lastHeartbeat' <= now'
  BY <1>1, <1>5
<1>8. /\ leaderlessSince' \in Nat \cup {Never}
      /\ leaderlessSince' = Never <=> ~Leaderless'
  BY <1>1, <1>5 DEF History, Never
<1>9. c0.time <= Larger(now' + CheckPeriod, scenario.timeout)
  BY <1>1, <1>2, <1>6 DEF Larger
<1>10. \A c \in Of("elect") : c.time <= now' + scenario.delay
  BY <1>1, <1>2 DEF LeaderInv
<1> DEFINE heard == leaderlessSince' + HeartbeatAirtime(scenario)
           checked == heard + scenario.timeout + CheckPeriod
<1>11. ASSUME leaderlessSince' # Never
       PROVE  /\ leaderlessSince' <= now' /\ lastHeartbeat' <= heard
              /\ \A a \in active' : a.kind = "heartbeat" => a.start <= leaderlessSince'
              /\ ~electionPending => \A c \in Of("check") : c.time <= checked
              /\ \A c \in Of("elect") : c.time <= checked + scenario.delay
  <2>1. CASE leaderlessSince = Never
    <3>1. leaderlessSince' = now'
      BY <1>8, <1>11, <2>1 DEF History
    <3>2. c0.time <= checked
      BY <1>1, <1>2, <1>6, <3>1 DEF Larger
    <3>3. \A c \in Of("elect") : c.time <= checked + scenario.delay
      BY <1>1, <1>2, <1>10, <3>1
    <3> QED BY <1>1, <1>4, <1>6, <1>7, <3>1, <3>2, <3>3
  <2>2. CASE leaderlessSince # Never
    <3>1. leaderlessSince' = leaderlessSince /\ ~enabled[coordinator]
      BY <1>5, <1>8, <1>11, <2>2 DEF History, Leaderless
    <3>2. /\ leaderlessSince <= now /\ lastHeartbeat <= heard
          /\ \A a \in active : a.kind = "heartbeat" => a.start <= leaderlessSince
      BY <2>2, <3>1 DEF LeaderInv
    <3>3. lastHeartbeat' <= heard
      BY <1>1, <1>3, <1>5, <2>2, <3>1, <3>2
    <3>4. \A a \in active' : a.kind = "heartbeat" => a.start <= leaderlessSince'
      BY <3>1, <3>2
    <3>5. ~electionPending => \A c \in Of("check") : c.time <= checked
      BY <2>2, <3>1 DEF LeaderInv
    <3>6. \A c \in Of("elect") : c.time <= checked + scenario.delay
      BY <2>2, <3>1 DEF LeaderInv
    <3> QED BY <1>1, <1>5, <2>2, <3>1, <3>2, <3>3, <3>4, <3>5, <3>6
  <2> QED BY <2>1, <2>2
<1>12. \A c, d \in Of("elect")' : c = d
  BY DEF LeaderInv
<1>13. electionPending' <=> Of("elect")' # {}
  BY <1>5
<1>14. \A c, d \in Of("check")' : c = d
  BY <1>6
<1>15. leaderlessSince' = Never <=>
          (enabled'[coordinator'] \/ \A n \in Nodes' : ~enabled'[n])
  BY <1>8 DEF Leaderless
<1> HIDE DEF heard, checked
<1>16. c0 \in Of("check")'
  BY <1>6
<1> QED BY <1>1, <1>5, <1>7, <1>8, <1>9, <1>10, <1>11, <1>12, <1>13, <1>14, <1>15, <1>16
        DEF LeaderInv, heard, checked

\* SimulationRun._check_timeout: without a heartbeat, each check schedules the
\* election or finds one scheduled.
LEMMA LeaderCheck ==
  ASSUME Engine, Engine', LeaderInv, History, NEW e, CheckTimeout(e), UNCHANGED scenario
  PROVE  LeaderInv'
<1> DEFINE again == Call(order + 1, e.time + CheckPeriod, "check", 0)
           elect == Call(order, e.time + scenario.delay, "elect", 0)
           overdue == e.time - lastHeartbeat > scenario.timeout /\ ~electionPending
<1>1. /\ e \in Of("check") /\ e \in Calls /\ now' = e.time /\ now <= now'
      /\ agenda' = (agenda \ {e}) \cup (IF overdue THEN {elect, again} ELSE {again})
  BY CheckEngine
<1>2. /\ electionPending' = (electionPending \/ overdue)
      /\ UNCHANGED <<enabled, active, coordinator, lastHeartbeat>>
  BY DEF CheckTimeout
<1>3. /\ HeartbeatAirtime(scenario) \in Nat /\ CheckPeriod \in Nat
      /\ scenario.timeout \in Nat /\ scenario.delay \in Nat /\ now \in Nat /\ now' \in Nat
      /\ HeartbeatAirtime(scenario') = HeartbeatAirtime(scenario) /\ CheckPeriod' = CheckPeriod
  BY LeaderBounds DEF Engine, Types, CheckPeriod
<1>4. /\ again.what = "check" /\ again.time = e.time + CheckPeriod
      /\ elect.what = "elect" /\ elect.time = e.time + scenario.delay
      /\ e.what = "check" /\ e.time \in Nat
  BY <1>1, <1>3 DEF Call, Of
<1> HIDE DEF again, elect
<1>5. /\ \A c \in Of("check") : c = e
      /\ lastHeartbeat \in Nat /\ lastHeartbeat <= now /\ electionPending \in BOOLEAN
      /\ leaderlessSince \in Nat \cup {Never}
      /\ leaderlessSince = Never <=> ~Leaderless
      /\ electionPending <=> Of("elect") # {}
  BY <1>1 DEF LeaderInv, Leaderless
<1>6. \A c \in Of("check")' : c = again
  BY <1>1, <1>4, <1>5 DEF Of
<1>7. again \in Of("check")'
  BY <1>1, <1>4 DEF Of
<1>8. \A c : c \in Of("elect")' <=> c \in Of("elect") \/ (overdue /\ c = elect)
  BY <1>1, <1>4 DEF Of
<1>9. leaderlessSince' = leaderlessSince
  BY <1>2, <1>5 DEF History, Leaderless, Nodes
<1>10. /\ \A c, d \in Of("elect")' : c = d
       /\ electionPending' \in BOOLEAN
       /\ electionPending' <=> Of("elect")' # {}
  <2>1. overdue => Of("elect") = {}
    BY <1>5
  <2>2. electionPending' \in BOOLEAN /\ (electionPending' <=> electionPending \/ overdue)
    BY <1>2, <1>5
  <2>3. \A c, d \in Of("elect") : c = d
    BY DEF LeaderInv
  <2> HIDE DEF overdue
  <2> QED BY <1>5, <1>8, <2>1, <2>2, <2>3
<1>11. \A c \in Of("elect")' : c.time <= now' + scenario.delay
  <2>1. \A c \in Of("elect") : c.time \in Nat /\ c.time <= now + scenario.delay
    BY LeaderBounds DEF LeaderInv, Of
  <2> QED BY <1>1, <1>3, <1>4, <1>8, <2>1
<1>12. again.time <= Larger(now' + CheckPeriod, scenario.timeout)
  BY <1>1, <1>3, <1>4 DEF Larger
<1> DEFINE heard == leaderlessSince + HeartbeatAirtime(scenario)
           checked == heard + scenario.timeout + CheckPeriod
<1>13. ASSUME leaderlessSince # Never
       PROVE  /\ leaderlessSince <= now' /\ lastHeartbeat <= heard
              /\ \A a \in active : a.kind = "heartbeat" => a.start <= leaderlessSince
              /\ ~electionPending' => again.time <= checked
              /\ \A c \in Of("elect")' : c.time <= checked + scenario.delay
  <2>1. /\ leaderlessSince \in Nat /\ leaderlessSince <= now /\ lastHeartbeat <= heard
        /\ \A a \in active : a.kind = "heartbeat" => a.start <= leaderlessSince
        /\ ~electionPending => e.time <= checked
        /\ \A c \in Of("elect") : c.time <= checked + scenario.delay
    BY <1>1, <1>5, <1>13 DEF LeaderInv
  <2>2. ~electionPending' => again.time <= checked
    <3>1. CASE electionPending
      BY <1>2, <1>5, <3>1
    <3>2. CASE ~electionPending /\ e.time - lastHeartbeat <= scenario.timeout
      BY <1>3, <1>4, <1>5, <2>1, <3>2
    <3>3. CASE ~electionPending /\ ~(e.time - lastHeartbeat <= scenario.timeout)
      <4>1. overdue
        BY <1>3, <1>4, <1>5, <3>3
      <4> QED BY <1>2, <1>5, <4>1
    <3> QED BY <3>1, <3>2, <3>3
  <2>3. overdue => elect.time <= checked + scenario.delay
    BY <1>3, <1>4, <2>1
  <2> HIDE DEF overdue, checked, heard
  <2>4. \A c \in Of("elect")' : c.time <= checked + scenario.delay
    BY <1>8, <2>1, <2>3
  <2> QED BY <1>1, <1>3, <2>1, <2>2, <2>4
<1>14. /\ Nodes' = Nodes
       /\ leaderlessSince = Never <=> (enabled[coordinator] \/ \A n \in Nodes : ~enabled[n])
  BY <1>5 DEF Nodes, Leaderless
<1>15. lastHeartbeat <= now'
  BY <1>1, <1>3, <1>5
<1> HIDE DEF overdue, heard, checked
<1> QED BY <1>2, <1>3, <1>5, <1>6, <1>7, <1>9, <1>10, <1>11, <1>12, <1>13, <1>14, <1>15
        DEF LeaderInv, heard, checked

\* SimulationRun._elect: a crew with a node left has a coordinator that is on.
LEMMA LeaderElect ==
  ASSUME Engine, Engine', LeaderInv, History, NEW e, Elect(e), UNCHANGED scenario
  PROVE  LeaderInv'
<1>1. /\ e \in Of("elect") /\ now' = e.time /\ now <= now' /\ agenda' = agenda \ {e}
      /\ (\E n \in Nodes : enabled[n]) => (enabled[coordinator'] /\ lastHeartbeat' = e.time)
      /\ ~(\E n \in Nodes : enabled[n]) => lastHeartbeat' = lastHeartbeat
  BY ElectEngine
<1>2. electionPending' = FALSE /\ enabled' = enabled
  BY DEF Elect
<1>3. /\ CheckPeriod \in Nat /\ CheckPeriod' = CheckPeriod /\ now \in Nat /\ now' \in Nat
      /\ scenario.timeout \in Nat
  BY LeaderBounds DEF Engine, Types, CheckPeriod
<1>4. Of("elect")' = {}
  BY <1>1 DEF LeaderInv, Of
<1>5. Of("check")' = Of("check")
  BY <1>1 DEF Of
<1>6. ~Leaderless'
  BY <1>1, <1>2 DEF Leaderless, Nodes
<1>7. leaderlessSince' = Never
  BY <1>6 DEF History
<1>8. lastHeartbeat' \in Nat /\ lastHeartbeat' <= now'
  BY <1>1, <1>3 DEF LeaderInv
<1>9. \E c \in Of("check") : c.time <= Larger(now' + CheckPeriod, scenario.timeout)
  <2>1. PICK c \in Of("check") : c.time <= Larger(now + CheckPeriod, scenario.timeout)
    BY DEF LeaderInv
  <2>2. c.time \in Nat
    BY LeaderBounds DEF Of
  <2> QED BY <1>1, <1>3, <2>1, <2>2 DEF Larger
<1>10. \A c, d \in Of("check") : c = d
  BY DEF LeaderInv
<1> QED BY <1>2, <1>3, <1>4, <1>5, <1>6, <1>7, <1>8, <1>9, <1>10 DEF LeaderInv, Leaderless

\* Every step keeps the bound on the time without a coordinator.
LEMMA StepLeader ==
  ASSUME Engine, Engine', LeaderInv, [Next]_vars
  PROVE  LeaderInv'
<1>1. CASE Step
  <2>1. PICK e \in agenda : Callback(e)
    BY <1>1 DEF Step
  <2>2. UNCHANGED scenario
    BY <1>1 DEF Step
  <2>3. History
    <3>1. leaderlessSince' =
            IF enabled'[coordinator'] \/ \A n \in NodesOf(scenario) : ~enabled'[n]
            THEN Never
            ELSE IF leaderlessSince = Never THEN now' ELSE leaderlessSince
      BY <1>1 DEF Step
    <3> QED BY <2>2, <3>1 DEF History, Leaderless, Nodes
  <2>4. CASE Generate(e)
    <3>1. e.what = "generate" /\ now' = e.time
          /\ UNCHANGED <<enabled, active, coordinator, lastHeartbeat, electionPending>>
          /\ agenda' = (agenda \ {e}) \cup NextCall(order, e, e.arg)
      BY <2>4 DEF Generate, Run
    <3>2. \A c \in NextCall(order, e, e.arg) : c.what = "generate"
      BY <3>1 DEF NextCall, Call
    <3>3. now <= now'
      BY <3>1 DEF Engine, AgendaInv
    <3> QED BY <2>2, <2>3, <3>1, <3>2, <3>3, LeaderKept DEF Of
  <2>5. CASE Slot(e)
    <3>1. /\ e.what = "slot" /\ now' = e.time
          /\ UNCHANGED <<enabled, coordinator, lastHeartbeat, electionPending>>
      BY <2>5 DEF Slot, Run
    <3>2. \A c : c.what \in {"check", "elect"} => (c \in agenda' <=> c \in agenda)
      <4>1. \A o : \A c \in NextCall(o, e, e.arg) : c.what = "slot"
        BY <3>1 DEF NextCall, Call
      <4>2. \A p, t, a : FinishCall(p, t, a).what = "finish"
        BY DEF FinishCall, Call
      <4> QED BY <2>5, <3>1, <4>1, <4>2 DEF Slot, Run
    <3>3. \A a \in active' : a.kind = "heartbeat" => a \in active
      <4>1. SlotTx(e).kind = "voice"
        BY DEF SlotTx
      <4>2. active' = active \/ active' = active \cup {SlotTx(e)}
        BY <2>2, <2>5, SlotEngine
      <4> QED BY <4>1, <4>2
    <3>4. now <= now'
      BY <3>1 DEF Engine, AgendaInv
    <3>5. /\ \A c : c \in Of("check")' <=> c \in Of("check")
          /\ \A c : c \in Of("elect")' <=> c \in Of("elect")
      BY <3>2 DEF Of
    <3> QED BY <2>2, <2>3, <3>1, <3>3, <3>4, <3>5, LeaderKept
  <2>6. CASE Finish(e)
    <3>1. /\ now' = e.time /\ now <= now' /\ agenda' = agenda \ {e} /\ e.what = "finish"
          /\ \A tx \in active : tx.packet = e.arg => tx.end = e.time
      BY <2>2, <2>6, FinishEngine
    <3>2. /\ UNCHANGED <<enabled, coordinator, electionPending>>
          /\ \E tx \in active :
               /\ tx.packet = e.arg /\ active' = active \ {tx}
               /\ \/ lastHeartbeat' = lastHeartbeat
                  \/ lastHeartbeat' = e.time /\ tx.kind = "heartbeat"
      BY <2>6 DEF Finish
    <3>3. /\ \A c : c \in Of("check")' <=> c \in Of("check")
          /\ \A c : c \in Of("elect")' <=> c \in Of("elect")
      BY <3>1 DEF Of
    <3>4. \/ lastHeartbeat' = lastHeartbeat
          \/ /\ lastHeartbeat' = now'
             /\ \E a \in active : a.kind = "heartbeat" /\ a.end = now'
      BY <3>1, <3>2
    <3> QED BY <2>2, <2>3, <3>1, <3>2, <3>3, <3>4, LeaderKept
  <2>7. CASE SetEnabled(e)
    <3>1. now <= now' /\ agenda' = agenda \ {e} /\ e.what \in NodeActions
          /\ UNCHANGED <<active, coordinator, lastHeartbeat, electionPending>>
      BY <2>2, <2>7, SetEnabledEngine DEF SetEnabled
    <3>2. /\ \A c : c \in Of("check")' <=> c \in Of("check")
          /\ \A c : c \in Of("elect")' <=> c \in Of("elect")
      BY <3>1 DEF Of, NodeActions
    <3> QED BY <2>2, <2>3, <3>1, <3>2, LeaderKept
  <2>8. CASE Heartbeat(e)
    <3>1. /\ now <= now' /\ e.what = "heartbeat"
          /\ \A c \in agenda' : c \in agenda \/ c.what \in {"finish", "heartbeat"}
          /\ \A c \in agenda : c # e => c \in agenda'
          /\ enabled[coordinator] => active' = active \cup {HeartbeatTx(e)}
          /\ ~enabled[coordinator] => active' = active
      BY <2>2, <2>8, HeartbeatEngine
    <3>2. UNCHANGED <<enabled, coordinator, lastHeartbeat, electionPending>>
      BY <2>8 DEF Heartbeat
    <3>3. /\ \A c : c \in Of("check")' <=> c \in Of("check")
          /\ \A c : c \in Of("elect")' <=> c \in Of("elect")
      BY <3>1 DEF Of
    <3>4. \A a \in active' : a.kind = "heartbeat" =>
            a \in active \/ (enabled[coordinator] /\ enabled' = enabled)
      BY <3>1, <3>2
    <3> QED BY <2>2, <2>3, <3>1, <3>2, <3>3, <3>4, LeaderKept
  <2>9. CASE CheckTimeout(e)
    BY <2>2, <2>3, <2>9, LeaderCheck
  <2>10. CASE Elect(e)
    BY <2>2, <2>3, <2>10, LeaderElect
  <2> QED BY <2>1, <2>4, <2>5, <2>6, <2>7, <2>8, <2>9, <2>10 DEF Callback
<1>2. CASE End \/ UNCHANGED vars
  <2>1. UNCHANGED <<scenario, agenda, enabled, active, coordinator, lastHeartbeat,
                    electionPending, leaderlessSince>>
    BY <1>2 DEF End, vars
  <2>2. now <= now'
    BY <1>2, EndEngine DEF vars, Engine, Types
  <2>3. History
    BY <2>1 DEF History, Leaderless, Nodes, LeaderInv
  <2> QED BY <2>1, <2>2, <2>3, LeaderKept DEF Of
<1> QED BY <1>1, <1>2 DEF Next

\* A crew starts with its coordinator on and the first check scheduled.
LEMMA InitLeader ==
  ASSUME Init
  PROVE  LeaderInv
<1>1. Engine
  BY InitEngine
<1>2. /\ now = 0 /\ lastHeartbeat = 0 /\ electionPending = FALSE /\ leaderlessSince = Never
      /\ enabled = [n \in Nodes |-> TRUE]
  BY DEF Init, Nodes
<1>3. PICK c \in Of("check") : c.time = scenario.timeout /\ \A d \in Of("check") : c = d
  BY StartFacts
<1>4. Of("elect") = {}
  BY StartFacts DEF Of
<1>5. c.time <= Larger(now + CheckPeriod, scenario.timeout)
  BY <1>1, <1>2, <1>3, LeaderBounds DEF Larger
<1>6. enabled[coordinator]
  BY <1>1, <1>2 DEF Engine, Types
<1>7. /\ leaderlessSince \in Nat \cup {Never} /\ electionPending \in BOOLEAN
      /\ lastHeartbeat \in Nat /\ lastHeartbeat <= now
  <2>1. lastHeartbeat \in Nat /\ lastHeartbeat <= now
    BY <1>2
  <2>2. leaderlessSince \in Nat \cup {Never}
    BY <1>2, Zenon
  <2>3. electionPending \in BOOLEAN
    BY <1>2, Zenon
  <2> QED BY <2>1, <2>2, <2>3, Zenon
<1>8. /\ \A c1, d1 \in Of("check") : c1 = d1
      /\ electionPending <=> Of("elect") # {}
      /\ leaderlessSince = Never
  BY <1>2, <1>3, <1>4
<1> QED BY <1>4, <1>5, <1>6, <1>7, <1>8 DEF LeaderInv

\* A lost coordinator is replaced within the bound, as long as a node is on.
THEOREM LostLeaderReplaced == Spec => []LeaderReplaced
<1>1. Engine /\ LeaderInv => LeaderReplaced
  <2> SUFFICES ASSUME Engine, LeaderInv, leaderlessSince # Never
               PROVE  now - leaderlessSince <= HeartbeatAirtime(scenario) + scenario.timeout
                               + CheckPeriod + scenario.delay
    BY DEF LeaderReplaced
  <2> DEFINE checked == leaderlessSince + HeartbeatAirtime(scenario) + scenario.timeout
                          + CheckPeriod
  <2>1. leaderlessSince \in Nat
    BY DEF LeaderInv
  <2>2. CASE electionPending
    <3>1. PICK c \in Of("elect") : c.time <= checked + scenario.delay
      BY <2>2 DEF LeaderInv
    <3>2. c.time \in Nat /\ now <= c.time
      BY LeaderBounds DEF Of
    <3> QED BY <2>1, <3>1, <3>2, LeaderBounds
  <2>3. CASE ~electionPending
    <3>1. PICK c \in Of("check") : c.time <= checked
      BY <2>3 DEF LeaderInv
    <3>2. c.time \in Nat /\ now <= c.time
      BY LeaderBounds DEF Of
    <3> QED BY <2>1, <3>1, <3>2, LeaderBounds
  <2> QED BY <2>2, <2>3
<1>2. Engine /\ Engine' /\ LeaderInv /\ [Next]_vars => LeaderInv'
  BY StepLeader
<1>3. Init => LeaderInv
  BY InitLeader
<1> QED BY <1>1, <1>2, <1>3, EngineHolds, PTL DEF Spec

-----------------------------------------------------------------------------
(* The frames. *)

\* What is counted is finite.
LEMMA CountTypes ==
  ASSUME CountInv
  PROVE  /\ IsFiniteSet(Flying) /\ IsFiniteSet(Generated) /\ IsFiniteSet(Delivered)
         /\ IsFiniteSet(Collided) /\ IsFiniteSet(Lost)
         /\ Cardinality(Waiting) \in Nat /\ Cardinality(Flying) \in Nat
         /\ Cardinality(Generated) \in Nat /\ Cardinality(Delivered) \in Nat
         /\ Cardinality(Collided) \in Nat /\ Cardinality(Lost) \in Nat
<1>1. IsFiniteSet(Waiting) /\ IsFiniteSet(active) /\ IsFiniteSet(trace)
  BY DEF CountInv
<1>2. Flying \in SUBSET active
  BY DEF Flying
<1>3. /\ Generated \in SUBSET trace /\ Delivered \in SUBSET trace
      /\ Collided \in SUBSET trace /\ Lost \in SUBSET trace
  BY DEF Generated, Delivered, Collided, Lost, VoiceEvents, Events
<1>4. /\ IsFiniteSet(Flying) /\ IsFiniteSet(Generated) /\ IsFiniteSet(Delivered)
      /\ IsFiniteSet(Collided) /\ IsFiniteSet(Lost)
  BY <1>1, <1>2, <1>3, FS_Subset
<1> QED BY <1>1, <1>4, FS_CardinalityType

\* Counting one more in a finite set.
LEMMA OneMore ==
  ASSUME NEW S, NEW x, IsFiniteSet(S), x \notin S
  PROVE  IsFiniteSet(S \cup {x}) /\ Cardinality(S \cup {x}) = Cardinality(S) + 1
BY FS_AddElement

\* Counting one less in a finite set.
LEMMA OneLess ==
  ASSUME NEW S, NEW x, IsFiniteSet(S), x \in S
  PROVE  IsFiniteSet(S \ {x}) /\ Cardinality(S \ {x}) = Cardinality(S) - 1
BY FS_RemoveElement

\* Steps that neither make, send nor end a frame.
LEMMA CountKept ==
  ASSUME Engine, CountInv, UNCHANGED scenario, packets' \in Nat, packets <= packets',
         UNCHANGED queue, Flying' = Flying, IsFiniteSet(active'), IsFiniteSet(trace'),
         trace \subseteq trace',
         \A x \in trace' : x \in trace
           \/ x.event \in {"audio_deadline_miss", "coordinator_selected"}
  PROVE  CountInv'
<1>1. Waiting' = Waiting
  BY DEF Waiting, Nodes
<1>2. /\ Generated' = Generated /\ Delivered' = Delivered /\ Collided' = Collided
      /\ Lost' = Lost /\ Events("queue_overflow")' = Events("queue_overflow")
  BY DEF Generated, Delivered, Collided, Lost, VoiceEvents, Events
<1>3. \A x \in Generated : x.packet \in Nat /\ x.packet <= packets'
  BY DEF CountInv, Engine, Types
<1> QED BY <1>1, <1>2, <1>3 DEF CountInv

\* A frame is generated and waits (VoiceNode._generate).
LEMMA CountGenerate ==
  ASSUME Engine, CountInv, NEW e, Generate(e), UNCHANGED scenario
  PROVE  CountInv'
<1> DEFINE n == e.arg
           x0 == Entry(e.time, "voice_frame_generated", n, packets + 1)
           frame == [packet |-> packets + 1, created |-> e.time]
<1>1. n \in Nodes /\ queue[n] = <<>>
  BY GenerateEngine
<1>2. CASE ~enabled[n]
  <2>1. UNCHANGED <<packets, queue, trace, active>>
    BY <1>2 DEF Generate
  <2>2. packets' \in Nat /\ packets <= packets' /\ Flying' = Flying
        /\ IsFiniteSet(active') /\ IsFiniteSet(trace')
    BY <2>1 DEF Engine, Types, Flying, CountInv
  <2> QED BY <2>1, <2>2, CountKept
<1>3. CASE enabled[n]
  <2>1. queue' = [queue EXCEPT ![n] = <<frame>>]
    BY <1>3, GenerateEngine
  <2>2. ~(Len(queue[n]) >= scenario.maxQueue)
    BY <1>1, ScenarioFacts DEF Engine, Types
  <2>3. packets' = packets + 1 /\ active' = active /\ trace' = trace \cup {x0}
    BY <1>3, <2>2 DEF Generate, Record
  <2>4. x0.event = "voice_frame_generated" /\ x0.packet = packets + 1
    BY DEF Entry
  <2> HIDE DEF x0
  <2>5. /\ Generated' = Generated \cup {x0} /\ x0 \notin Generated
        /\ Delivered' = Delivered /\ Collided' = Collided /\ Lost' = Lost
        /\ Events("queue_overflow")' = Events("queue_overflow")
    <3>1. x0 \notin Generated
      BY <2>4 DEF CountInv, Engine, Types
    <3> QED BY <2>3, <2>4, <3>1 DEF Generated, Delivered, Collided, Lost, VoiceEvents, Events
  <2>6. /\ Waiting' = Waiting \cup {<<n, 1>>} /\ <<n, 1>> \notin Waiting
    <3>1. DOMAIN queue[n] = {} /\ DOMAIN <<frame>> = {1}
      BY <1>1
    <3>2. \A m \in Nodes : queue'[m] = IF m = n THEN <<frame>> ELSE queue[m]
      BY <2>1 DEF Engine, Types
    <3>3. <<n, 1>> \notin Waiting
      BY <3>1 DEF Waiting
    <3>4. \A m \in Nodes : {m} \X DOMAIN queue'[m] =
            IF m = n THEN {<<n, 1>>} ELSE {m} \X DOMAIN queue[m]
      BY <3>1, <3>2
    <3>5. Nodes' = Nodes
      BY DEF Nodes
    <3>6. \A m \in Nodes : m # n => {m} \X DOMAIN queue'[m] = {m} \X DOMAIN queue[m]
      BY <3>4
    <3>7. {n} \X DOMAIN queue'[n] = {<<n, 1>>} /\ {n} \X DOMAIN queue[n] = {}
      BY <1>1, <3>1, <3>4
    <3> QED BY <1>1, <3>3, <3>5, <3>6, <3>7 DEF Waiting
  <2>7. Flying' = Flying
    BY <2>3 DEF Flying
  <2>8. \A x \in Generated' : x.packet \in Nat /\ x.packet <= packets'
    BY <2>3, <2>4, <2>5 DEF CountInv, Engine, Types
  <2>9. IsFiniteSet(Waiting') /\ Cardinality(Waiting') = Cardinality(Waiting) + 1
    BY <2>6, OneMore DEF CountInv
  <2>10. IsFiniteSet(trace') /\ IsFiniteSet(active')
    BY <2>3, FS_AddElement DEF CountInv
  <2>11. Cardinality(Generated') = Cardinality(Generated) + 1
    BY <2>5, CountTypes, OneMore
  <2>12. Cardinality(Generated') = Cardinality(Waiting') + Cardinality(Flying')
        + Cardinality(Delivered') + Cardinality(Collided') + Cardinality(Lost')
    BY <2>5, <2>7, <2>9, <2>11, CountTypes DEF CountInv
  <2> QED BY <2>5, <2>8, <2>9, <2>10, <2>12 DEF CountInv
<1> QED BY <1>2, <1>3

\* A waiting frame is sent (VoiceNode._slot).
LEMMA CountSlot ==
  ASSUME Engine, CountInv, NEW e, Slot(e), UNCHANGED scenario
  PROVE  CountInv'
<1> DEFINE n == e.arg
           tx == SlotTx(e)
<1>1. /\ n \in Nodes
      /\ queue[n] # <<>> =>
              /\ active' = active \cup {tx}
              /\ \A a \in active : a.packet # tx.packet
      /\ queue[n] = <<>> => active' = active
      /\ queue' = [queue EXCEPT ![n] = <<>>]
  BY SlotEngine
<1>2. packets' = packets /\ packets' \in Nat /\ packets <= packets'
  BY DEF Slot, Engine, Types
<1>3. /\ trace \subseteq trace' /\ IsFiniteSet(trace')
      /\ \A x \in trace' : x \in trace \/ x.event = "audio_deadline_miss"
  <2>1. trace' = trace \/ \E p : trace' = trace \cup {Entry(e.time, "audio_deadline_miss", n, p)}
    BY DEF Slot, Record
  <2>2. \A p : Entry(e.time, "audio_deadline_miss", n, p).event = "audio_deadline_miss"
    BY DEF Entry
  <2>3. IsFiniteSet(trace')
    BY <2>1, FS_AddElement DEF CountInv
  <2> QED BY <2>1, <2>2, <2>3
<1>4. CASE queue[n] = <<>>
  <2>1. queue' = queue
    BY <1>1, <1>4 DEF Engine, Types
  <2>2. Flying' = Flying /\ IsFiniteSet(active')
    BY <1>1, <1>4 DEF Flying, CountInv
  <2> QED BY <1>2, <1>3, <2>1, <2>2, CountKept
<1>5. CASE queue[n] # <<>>
  <2>1. queue[n] \in Seq(Frame) /\ Len(queue[n]) = 1
    BY <1>1, <1>5, OwnFrames DEF Engine, Types
  <2>2. DOMAIN queue[n] = {1}
    BY <2>1, SeqElements
  <2>3. Waiting' = Waiting \ {<<n, 1>>} /\ <<n, 1>> \in Waiting
    <3>1. \A m \in Nodes : queue'[m] = IF m = n THEN <<>> ELSE queue[m]
      BY <1>1 DEF Engine, Types
    <3>2. DOMAIN queue'[n] = {}
      BY <1>1, <3>1
    <3>3. Nodes' = Nodes
      BY DEF Nodes
    <3>4. <<n, 1>> \in {n} \X DOMAIN queue[n]
      BY <2>2
    <3>5. <<n, 1>> \in Waiting
      BY <1>1, <3>4 DEF Waiting
    <3>6. \A m \in Nodes : m # n => {m} \X DOMAIN queue'[m] = {m} \X DOMAIN queue[m]
      BY <3>1
    <3>7. {n} \X DOMAIN queue'[n] = {} /\ {n} \X DOMAIN queue[n] = {<<n, 1>>}
      BY <2>2, <3>2
    <3>8. \A m \in Nodes : m # n => <<n, 1>> \notin {m} \X DOMAIN queue[m]
      OBVIOUS
    <3> QED BY <1>1, <3>3, <3>5, <3>6, <3>7, <3>8 DEF Waiting
  <2>4. Flying' = Flying \cup {tx} /\ tx \notin Flying
    BY <1>1, <1>5 DEF Flying, SlotTx
  <2>5. /\ Generated' = Generated /\ Delivered' = Delivered /\ Collided' = Collided
        /\ Lost' = Lost /\ Events("queue_overflow")' = Events("queue_overflow")
    BY <1>3 DEF Generated, Delivered, Collided, Lost, VoiceEvents, Events
  <2>6. IsFiniteSet(Waiting') /\ Cardinality(Waiting') = Cardinality(Waiting) - 1
    BY <2>3, OneLess DEF CountInv
  <2>7. Cardinality(Flying') = Cardinality(Flying) + 1
    BY <2>4, CountTypes, OneMore
  <2>8. IsFiniteSet(active')
    BY <1>1, <1>5, FS_AddElement DEF CountInv
  <2>9. Cardinality(Generated') = Cardinality(Waiting') + Cardinality(Flying')
        + Cardinality(Delivered') + Cardinality(Collided') + Cardinality(Lost')
    BY <2>5, <2>6, <2>7, CountTypes DEF CountInv
  <2> QED BY <1>2, <1>3, <2>5, <2>6, <2>8, <2>9 DEF CountInv
<1> QED BY <1>4, <1>5

\* A frame on the air is delivered, collided or lost, once (finish).
LEMMA CountFinish ==
  ASSUME Engine, MediumInv, CountInv, NEW e, Finish(e), UNCHANGED scenario
  PROVE  CountInv'
<1>1. PICK tx \in active :
        /\ tx.packet = e.arg
        /\ active' = active \ {tx}
        /\ \E outcome \in Outcomes(tx) :
             Record({[Entry(e.time, outcome, tx.source, tx.packet) EXCEPT
                         !.kind = tx.kind, !.start = tx.start,
                         !.latency = e.time + scenario.propagation - tx.created]}
                    \cup IF /\ outcome = "packet_delivered" /\ tx.kind = "voice"
                            /\ e.time + scenario.propagation - tx.created > scenario.deadline
                         THEN {Entry(e.time, "audio_deadline_miss", tx.source, tx.packet)}
                         ELSE {})
  BY DEF Finish
<1>2. PICK outcome \in Outcomes(tx) :
             Record({[Entry(e.time, outcome, tx.source, tx.packet) EXCEPT
                         !.kind = tx.kind, !.start = tx.start,
                         !.latency = e.time + scenario.propagation - tx.created]}
                    \cup IF /\ outcome = "packet_delivered" /\ tx.kind = "voice"
                            /\ e.time + scenario.propagation - tx.created > scenario.deadline
                         THEN {Entry(e.time, "audio_deadline_miss", tx.source, tx.packet)}
                         ELSE {})
  BY <1>1
<1> DEFINE x0 == [Entry(e.time, outcome, tx.source, tx.packet) EXCEPT
                    !.kind = tx.kind, !.start = tx.start,
                    !.latency = e.time + scenario.propagation - tx.created]
           miss == Entry(e.time, "audio_deadline_miss", tx.source, tx.packet)
<1>3. x0.event = outcome /\ x0.packet = tx.packet /\ x0.kind = tx.kind
      /\ miss.event = "audio_deadline_miss"
  BY DEF Entry
<1>4. outcome \in {"packet_collided", "packet_delivered", "packet_lost"}
  BY LossKnown DEF Outcomes, Engine, Types, None, Random, Certain
<1>5. trace' = trace \cup {x0} \/ trace' = trace \cup {x0} \cup {miss}
  BY <1>2 DEF Record
<1> HIDE DEF x0, miss
<1>6. x0 \notin Over
  BY <1>1, <1>3 DEF MediumInv
<1>7. /\ UNCHANGED <<packets, queue>> /\ Waiting' = Waiting
      /\ IsFiniteSet(trace') /\ IsFiniteSet(active')
  <2>1. UNCHANGED <<packets, queue>>
    BY DEF Finish
  <2>2. Waiting' = Waiting
    BY <2>1 DEF Waiting, Nodes
  <2>3. IsFiniteSet(trace')
    <3>1. IsFiniteSet(trace \cup {x0})
      BY FS_AddElement DEF CountInv
    <3> QED BY <1>5, <3>1, FS_AddElement
  <2>4. IsFiniteSet(active')
    BY <1>1, FS_RemoveElement DEF CountInv
  <2> QED BY <2>1, <2>2, <2>3, <2>4
<1>8. /\ Generated' = Generated /\ Events("queue_overflow")' = Events("queue_overflow")
  BY <1>3, <1>4, <1>5 DEF Generated, Events
<1>9. ASSUME NEW what \in {"packet_collided", "packet_delivered", "packet_lost"}
      PROVE  VoiceEvents(what)' = IF outcome = what /\ tx.kind = "voice"
                                  THEN VoiceEvents(what) \cup {x0} ELSE VoiceEvents(what)
  BY <1>3, <1>5 DEF VoiceEvents, Events
<1>10. \A what \in {"packet_collided", "packet_delivered", "packet_lost"} :
         x0 \notin VoiceEvents(what)
  BY <1>6 DEF Over, VoiceEvents
<1>11. Flying' = IF tx.kind = "voice" THEN Flying \ {tx} ELSE Flying
  BY <1>1 DEF Flying
<1>12. Cardinality(Generated) = Cardinality(Waiting) + Cardinality(Flying')
        + Cardinality(Delivered') + Cardinality(Collided') + Cardinality(Lost')
  <2>1. CASE tx.kind # "voice"
    <3>1. Delivered' = Delivered /\ Collided' = Collided /\ Lost' = Lost /\ Flying' = Flying
      BY <1>9, <1>11, <2>1 DEF Delivered, Collided, Lost
    <3> QED BY <3>1 DEF CountInv
  <2>2. CASE tx.kind = "voice"
    <3>1. Cardinality(Flying') = Cardinality(Flying) - 1
      <4>1. tx \in Flying
        BY <2>2 DEF Flying
      <4> QED BY <1>11, <2>2, <4>1, CountTypes, OneLess
    <3>2. CASE outcome = "packet_delivered"
      <4>1. Delivered' = Delivered \cup {x0} /\ x0 \notin Delivered
            /\ Collided' = Collided /\ Lost' = Lost
        BY <1>9, <1>10, <2>2, <3>2 DEF Delivered, Collided, Lost
      <4>2. Cardinality(Delivered') = Cardinality(Delivered) + 1
        BY <4>1, CountTypes, OneMore
      <4> QED BY <3>1, <4>1, <4>2, CountTypes DEF CountInv
    <3>3. CASE outcome = "packet_collided"
      <4>1. Collided' = Collided \cup {x0} /\ x0 \notin Collided
            /\ Delivered' = Delivered /\ Lost' = Lost
        BY <1>9, <1>10, <2>2, <3>3 DEF Delivered, Collided, Lost
      <4>2. Cardinality(Collided') = Cardinality(Collided) + 1
        BY <4>1, CountTypes, OneMore
      <4> QED BY <3>1, <4>1, <4>2, CountTypes DEF CountInv
    <3>4. CASE outcome = "packet_lost"
      <4>1. Lost' = Lost \cup {x0} /\ x0 \notin Lost
            /\ Delivered' = Delivered /\ Collided' = Collided
        BY <1>9, <1>10, <2>2, <3>4 DEF Delivered, Collided, Lost
      <4>2. Cardinality(Lost') = Cardinality(Lost) + 1
        BY <4>1, CountTypes, OneMore
      <4> QED BY <3>1, <4>1, <4>2, CountTypes DEF CountInv
    <3> QED BY <1>4, <3>2, <3>3, <3>4
  <2> QED BY <2>1, <2>2
<1> QED BY <1>7, <1>8, <1>12 DEF CountInv

\* Every step keeps the count.
LEMMA StepCount ==
  ASSUME Engine, Engine', MediumInv, CountInv, [Next]_vars
  PROVE  CountInv'
<1>1. packets \in Nat /\ packets' \in Nat
  BY DEF Engine, Types
<1>2. CASE Step
  <2>1. PICK e \in agenda : Callback(e)
    BY <1>2 DEF Step
  <2>2. UNCHANGED scenario
    BY <1>2 DEF Step
  <2>3. CASE Generate(e)
    BY <2>2, <2>3, CountGenerate
  <2>4. CASE Slot(e)
    BY <2>2, <2>4, CountSlot
  <2>5. CASE Finish(e)
    BY <2>2, <2>5, CountFinish
  <2>6. CASE SetEnabled(e) \/ CheckTimeout(e)
    <3>1. UNCHANGED <<packets, queue, active, trace>>
      BY <2>6 DEF SetEnabled, CheckTimeout
    <3>2. Flying' = Flying /\ packets <= packets' /\ IsFiniteSet(active') /\ IsFiniteSet(trace')
      BY <1>1, <3>1 DEF Flying, CountInv
    <3> QED BY <1>1, <2>2, <3>1, <3>2, CountKept
  <2>7. CASE Heartbeat(e)
    <3>1. UNCHANGED <<queue, trace>>
      BY <2>7 DEF Heartbeat
    <3>2. /\ active' = active \cup {HeartbeatTx(e)} \/ active' = active
          /\ packets' = packets + 1 \/ packets' = packets
      BY <2>2, <2>7, HeartbeatEngine
    <3>3. HeartbeatTx(e).kind = "heartbeat"
      BY DEF HeartbeatTx
    <3>4. Flying' = Flying
      BY <3>2, <3>3 DEF Flying
    <3>5. IsFiniteSet(active') /\ IsFiniteSet(trace') /\ packets <= packets'
      BY <1>1, <3>1, <3>2, FS_AddElement DEF CountInv
    <3> QED BY <1>1, <2>2, <3>1, <3>4, <3>5, CountKept
  <2>8. CASE Elect(e)
    <3>1. UNCHANGED <<packets, queue, active>>
      BY <2>8 DEF Elect
    <3>2. trace' = trace \/ \E x : trace' = trace \cup {x} /\ x.event = "coordinator_selected"
      <4>1. trace' = trace \/ \E c : trace' = trace \cup
                                 {Entry(e.time, "coordinator_selected", c, 0)}
        BY <2>8 DEF Elect, Record
      <4>2. \A c : Entry(e.time, "coordinator_selected", c, 0).event = "coordinator_selected"
        BY DEF Entry
      <4> QED BY <4>1, <4>2
    <3>3. Flying' = Flying /\ packets <= packets' /\ IsFiniteSet(active') /\ IsFiniteSet(trace')
      BY <1>1, <3>1, <3>2, FS_AddElement DEF Flying, CountInv
    <3> QED BY <1>1, <2>2, <3>1, <3>2, <3>3, CountKept
  <2> QED BY <2>1, <2>3, <2>4, <2>5, <2>6, <2>7, <2>8 DEF Callback
<1>3. CASE End \/ UNCHANGED vars
  <2>1. UNCHANGED <<scenario, packets, queue, active, trace>>
    BY <1>3 DEF End, vars
  <2>2. Flying' = Flying /\ packets <= packets' /\ IsFiniteSet(active') /\ IsFiniteSet(trace')
    BY <1>1, <2>1 DEF Flying, CountInv
  <2> QED BY <1>1, <2>1, <2>2, CountKept
<1> QED BY <1>2, <1>3 DEF Next

\* Nothing is counted before the first frame.
LEMMA InitCount ==
  ASSUME Init
  PROVE  CountInv
<1>1. active = {} /\ trace = {} /\ queue = [n \in Nodes |-> <<>>]
  BY DEF Init, Nodes
<1>2. Waiting = {}
  BY <1>1 DEF Waiting
<1>3. /\ Flying = {} /\ Generated = {} /\ Delivered = {} /\ Collided = {} /\ Lost = {}
      /\ Events("queue_overflow") = {}
  BY <1>1 DEF Flying, Generated, Delivered, Collided, Lost, VoiceEvents, Events
<1> QED BY <1>1, <1>2, <1>3, FS_EmptySet DEF CountInv

\* Steps keep the last slot that comes, and with it the last frame, within the run.
LEMMA StepEnd ==
  ASSUME Engine, Engine', EndInv, [Next]_vars
  PROVE  EndInv'
<1>1. CASE Step
  <2>1. PICK e \in agenda : Callback(e)
    BY <1>1 DEF Step
  <2>2. UNCHANGED <<scenario, ended>>
    BY <1>1 DEF Step
  <2>3. ~ended /\ e.time \in Nat
    BY <2>1 DEF Callback, Generate, Slot, Finish, SetEnabled, Heartbeat, CheckTimeout, Elect,
                Run, Due, Engine, Types, Calls
  <2>4. SUFFICES /\ \A s \in Of("slot")' : s \in Of("slot") \/ s.time <= scenario.duration
                                              \/ s.time > Until
                 /\ \A a \in active' : a.kind = "voice" =>
                      a \in active \/ a.start <= scenario.duration
    BY <2>2, <2>3 DEF EndInv, Flying, Until
  <2>5. CASE Generate(e)
    <3>1. /\ e.what = "generate" /\ active' = active
          /\ agenda' = (agenda \ {e}) \cup NextCall(order, e, e.arg)
      BY <2>5 DEF Generate, Run
    <3>2. \A c \in NextCall(order, e, e.arg) : c.what = "generate"
      BY <3>1 DEF NextCall, Call
    <3> QED BY <3>1, <3>2 DEF Of
  <2>6. CASE Slot(e)
    <3>1. /\ e \in Of("slot")
          /\ active' = active \cup {SlotTx(e)} \/ active' = active
          /\ \A c \in Of("slot")' : c.time < scenario.duration \/ c \in Of("slot")
      BY <2>2, <2>6, SlotEngine
    <3>2. SlotTx(e).start = e.time /\ e.time <= scenario.duration
      <4>1. e.time <= Until /\ Until \in Nat
        BY <2>6, PeriodFacts DEF Slot, Run, Due, Engine
      <4> QED BY <2>3, <3>1, <4>1 DEF SlotTx, EndInv
    <3>3. \A c \in Of("slot")' : c.time \in Nat /\ scenario.duration \in Nat
      BY ScenarioFacts DEF Engine, Types, Of, Calls
    <3>4. \A s \in Of("slot")' : s \in Of("slot") \/ s.time <= scenario.duration
      BY <3>1, <3>3
    <3> QED BY <3>1, <3>2, <3>4
  <2>7. CASE Finish(e)
    <3>1. agenda' = agenda \ {e} /\ active' \subseteq active
      BY <2>7 DEF Finish, Run
    <3> QED BY <3>1 DEF Of
  <2>8. CASE SetEnabled(e) \/ Elect(e)
    <3>1. agenda' = agenda \ {e} /\ active' = active
      BY <2>8 DEF SetEnabled, Elect, Run
    <3> QED BY <3>1 DEF Of
  <2>9. CASE Heartbeat(e)
    <3>1. /\ \A c \in agenda' : c \in agenda \/ c.what \in {"finish", "heartbeat"}
          /\ active' = active \cup {HeartbeatTx(e)} \/ active' = active
      BY <2>2, <2>9, HeartbeatEngine
    <3>2. HeartbeatTx(e).kind = "heartbeat"
      BY DEF HeartbeatTx
    <3> QED BY <3>1, <3>2 DEF Of
  <2>10. CASE CheckTimeout(e)
    <3>1. active' = active
      BY <2>10 DEF CheckTimeout
    <3>2. \A c \in agenda' : c \in agenda \/ c.what \in {"check", "elect"}
      BY <2>10 DEF CheckTimeout, Run, Call
    <3> QED BY <3>1, <3>2 DEF Of
  <2> QED BY <2>1, <2>5, <2>6, <2>7, <2>8, <2>9, <2>10 DEF Callback
<1>2. CASE End
  BY <1>2 DEF End, EndInv, Of, Flying, Until
<1>3. CASE UNCHANGED vars
  BY <1>3 DEF vars, EndInv, Of, Flying, Until
<1> QED BY <1>1, <1>2, <1>3 DEF Next

\* The first slots lie within the run or behind it.
LEMMA InitEnd ==
  ASSUME NoSlotAtEnd, Init
  PROVE  EndInv
<1>1. \A s \in Of("slot") : s.time <= scenario.duration \/ s.time > Until
  BY StartFacts DEF NoSlotAtEnd, Until
<1>2. Flying = {} /\ ended = FALSE
  BY DEF Init, Flying
<1> QED BY <1>1, <1>2 DEF EndInv

\* When the run is over, no slot is due any more and no voice frame on the air.
LEMMA NothingLeft ==
  ASSUME Engine, EndInv, ended
  PROVE  Waiting = {} /\ Flying = {}
<1>1. \A c \in agenda : c.time \in Nat /\ c.time > Until
  BY DEF EndInv, Engine, Types, Calls
<1>2. now \in Nat /\ now <= Until /\ Until \in Nat
  BY PeriodFacts DEF Engine, Types, AgendaInv
<1>3. ASSUME NEW n \in Nodes
      PROVE  queue[n] = <<>>
  <2> SUFFICES ASSUME queue[n] # <<>> PROVE FALSE
    OBVIOUS
  <2>1. SlotDue(n)
    BY OwnFrames
  <2>2. PICK s \in Of("slot") : s.time = now
    BY <2>1 DEF SlotDue
  <2> QED BY <1>1, <1>2, <2>2 DEF Of
<1>4. Flying = {}
  <2> SUFFICES ASSUME NEW a \in Flying PROVE FALSE
    OBVIOUS
  <2>1. a \in active /\ a.kind = "voice" /\ a.start <= scenario.duration
    BY DEF EndInv, Flying
  <2>2. /\ a.start \in Nat /\ VoiceAirtime(scenario) \in Nat /\ scenario.duration \in Nat
        /\ a.end = a.start + VoiceAirtime(scenario)
    BY <2>1, ScenarioFacts DEF Engine, Types, AirInv, Airtime, Transmission
  <2>3. PICK c \in Of("finish") : c.time = a.end
    BY <2>1 DEF Engine, AirInv
  <2> QED BY <1>1, <2>1, <2>2, <2>3 DEF Of, Until
<1> QED BY <1>3, <1>4 DEF Waiting

\* The counts of a run add up at any time.
LEMMA CountsAddUp ==
  ASSUME CountInv
  PROVE  Summary.generated = Cardinality(Waiting) + Cardinality(Flying) + Summary.delivered
                               + Summary.collided + Summary.lost + Summary.overflows
<1>1. /\ Summary.generated = Cardinality(Generated) /\ Summary.delivered = Cardinality(Delivered)
      /\ Summary.collided = Cardinality(Collided) /\ Summary.lost = Cardinality(Lost)
      /\ Summary.overflows = Cardinality(Events("queue_overflow"))
  BY DEF Summary, Generated, Delivered, Collided, Lost
<1>2. Cardinality(Events("queue_overflow")) = 0
  BY FS_EmptySet DEF CountInv
<1>3. Cardinality(Generated) = Cardinality(Waiting) + Cardinality(Flying)
        + Cardinality(Delivered) + Cardinality(Collided) + Cardinality(Lost)
  BY DEF CountInv
<1>4. Cardinality(Generated) \in Nat
  BY CountTypes
<1> QED BY <1>1, <1>2, <1>3, <1>4

\* The counts add up throughout any run.
THEOREM CountHolds == Spec => []CountInv
<1>1. Engine /\ Engine' /\ MediumInv /\ CountInv /\ [Next]_vars => CountInv'
  BY StepCount
<1>2. Init => CountInv
  BY InitCount
<1> QED BY <1>1, <1>2, EngineHolds, MediumHolds, PTL DEF Spec

\* Each frame generated is accounted for, and when a run without a first slot at its
\* very end is over, each has met its fate.
THEOREM EveryFrameAccounted ==
  ASSUME NoSlotAtEnd
  PROVE  Spec => []FramesAccounted
<1>1. Engine /\ CountInv /\ EndInv => FramesAccounted
  <2> SUFFICES ASSUME Engine, CountInv, EndInv
               PROVE  FramesAccounted
    OBVIOUS
  <2>1. Waiting = UNION {{n} \X DOMAIN queue[n] : n \in NodesOf(scenario)}
        /\ Flying = {a \in active : a.kind = "voice"}
    BY DEF Waiting, Nodes, Flying
  <2>2. Summary.generated = Cardinality(Waiting) + Cardinality(Flying) + Summary.delivered
                              + Summary.collided + Summary.lost + Summary.overflows
    BY CountsAddUp
  <2>3. ended => Cardinality(Waiting) + Cardinality(Flying) = 0
    BY NothingLeft, FS_EmptySet
  <2> QED BY <2>1, <2>2, <2>3 DEF FramesAccounted
<1>2. Engine /\ Engine' /\ EndInv /\ [Next]_vars => EndInv'
  BY StepEnd
<1>3. Init => EndInv
  BY InitEnd
<1> QED BY <1>1, <1>2, <1>3, EngineHolds, CountHolds, PTL DEF Spec
=============================================================================
