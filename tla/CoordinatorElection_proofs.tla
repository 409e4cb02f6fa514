--------------------- MODULE CoordinatorElection_proofs ---------------------
(***************************************************************************)
(* Proofs that the safety properties of CoordinatorElection hold for every *)
(* crew of at most six nodes, every timing and every bound, and that the   *)
(* crew of TimelyElection is never without a coordinator for longer than   *)
(* an interval, a timeout and the election delay when one thing goes wrong.*)
(*                                                                         *)
(* The second result follows the crew through three stages.  The first     *)
(* coordinator leads: a follower's timer and the time to the coordinator's *)
(* next heartbeat stay so far apart that no timeout strikes.  Nobody       *)
(* leads: the timer of every node, plus the outage, stays in a window one  *)
(* interval wide, so the nodes time out and elect within an interval of    *)
(* each other and no heartbeat of the lost coordinator is left over when   *)
(* the second lowest node elects itself.  That node leads: whoever does    *)
(* not follow it yet has its heartbeat coming before the clock moves.      *)
(***************************************************************************)
EXTENDS TimelyElection, TLAPS

\* elect_lowest_member returns a member of the mask it scans whenever the mask
\* is not empty.
LEMMA LowestIsMember ==
  ASSUME NEW S \in SUBSET Member, S # {}
  PROVE  Min(S) \in S
<1>1. S \subseteq 1..6
  BY ConfigAssumption
<1>2. \E x \in S : \A y \in S : x <= y
  <2>1. CASE 1 \in S
    BY <1>1, <2>1
  <2>2. CASE 1 \notin S /\ 2 \in S
    BY <1>1, <2>2
  <2>3. CASE 1 \notin S /\ 2 \notin S /\ 3 \in S
    BY <1>1, <2>3
  <2>4. CASE 1 \notin S /\ 2 \notin S /\ 3 \notin S /\ 4 \in S
    BY <1>1, <2>4
  <2>5. CASE S \cap 1..4 = {} /\ 5 \in S
    BY <1>1, <2>5
  <2>6. CASE S \cap 1..5 = {}
    <3>1. \A y \in S : y = 6
      BY <1>1, <2>6
    <3> QED BY <3>1
  <2> QED BY <2>1, <2>2, <2>3, <2>4, <2>5, <2>6
<1> QED BY <1>2 DEF Min

\* What openref_network_tick elects is a crew member.
LEMMA ElectedIsMember ==
  ASSUME TypeOK, NEW n \in Member, MayElect(n)
  PROVE  Elected(n) \in eligible[n] /\ Elected(n) \in Member
BY LowestIsMember DEF TypeOK, MayElect, Elected

\* The state the boot code leaves is well typed.
LEMMA InitTypeOK == Init => TypeOK
BY ConfigAssumption DEF Init, TypeOK, RoleUnder, TimerUnder, Role, Epoch, Longest,
   Heartbeat, Idle

\* The roles and timers that come with a claim stay within their ranges.
LEMMA TimerRange ==
  ASSUME NEW n \in Member, NEW c \in Member
  PROVE  /\ TimerUnder(n, c) \in 0..Longest
         /\ RoleUnder(n, c) \in Role
         /\ Delay \in 0..Longest
         /\ \A left \in 1..Interval : left \in 0..Longest
BY ConfigAssumption DEF TimerUnder, RoleUnder, Role, Longest

\* Each outcome of openref_network_tick keeps the fields it sets in their types.
LEMMA TickTypes ==
  ASSUME TypeOK, NEW n \in Member, Tick(n)
  PROVE  /\ role' \in [Member -> Role]
         /\ coordinator' \in [Member -> Member]
         /\ eligible' \in [Member -> SUBSET Member]
         /\ epoch' \in [Member -> Epoch]
         /\ timer' \in [Member -> 0..Longest]
         /\ synchronized' \in [Member -> BOOLEAN]
<1>1. CASE TickIdle(n)
  BY <1>1 DEF TickIdle, TypeOK, network
<1>2. CASE TickHeartbeat(n)
  BY <1>2, TimerRange DEF TickHeartbeat, TypeOK
<1>3. CASE TickTimeout(n)
  BY <1>3, TimerRange DEF TickTimeout, TypeOK, Survivors, Role
<1>4. CASE TickElect(n)
  <2>1. Elected(n) \in Member
    BY <1>4, ElectedIsMember DEF TickElect
  <2>2. epoch[n] + 1 \in Epoch
    BY <1>4, ConfigAssumption DEF TickElect, TypeOK, Epoch
  <2> QED BY <1>4, <2>1, <2>2, TimerRange DEF TickElect, TypeOK
<1> QED BY <1>1, <1>2, <1>3, <1>4 DEF Tick

\* A pass of the main loop over a node keeps the types.
LEMMA PassTypeOK ==
  ASSUME TypeOK, NEW n \in Member, Pass(n)
  PROVE  TypeOK'
<1>1. heartbeatPending' \in [Member -> BOOLEAN]
  BY DEF Pass, ScheduleHeartbeat, HoldHeartbeat, TypeOK, Pending, AsksForHeartbeat,
     Expired, MayElect
<1>2. radio' \in [Member -> Epoch \cup {Idle}]
  <2>1. /\ radio \in [Member -> Epoch \cup {Idle}]
        /\ epoch' \in [Member -> Epoch]
    BY TickTypes DEF Pass, TypeOK
  <2>2. CASE ScheduleHeartbeat(n)
    <3>1. epoch'[n] \in Epoch
      BY <2>1
    <3>2. radio' = [radio EXCEPT ![n] = epoch'[n]]
      BY <2>2 DEF ScheduleHeartbeat
    <3> QED BY <2>1, <3>1, <3>2
  <2>3. CASE HoldHeartbeat(n)
    BY <2>1, <2>3 DEF HoldHeartbeat
  <2> QED BY <2>2, <2>3 DEF Pass
<1> QED BY <1>1, <1>2, TickTypes DEF Pass, TypeOK

\* Taking a packet from the inbox keeps the types, whatever its claim.
LEMMA ReceiveTypeOK ==
  ASSUME TypeOK, NEW n \in Member, Receive(n)
  PROVE  TypeOK'
<1> DEFINE beat == Head(inbox[n])
<1>1. inbox[n] # <<>> /\ inbox[n] \in Seq(Heartbeat)
  BY DEF Receive, AcceptHeartbeat, RejectHeartbeat, TypeOK
<1>2. beat \in Heartbeat /\ Tail(inbox[n]) \in Seq(Heartbeat)
  BY <1>1
<1>3. beat.source \in Member /\ beat.epoch \in Epoch
  BY <1>2 DEF Heartbeat
<1>4. CASE AcceptHeartbeat(n)
  BY <1>2, <1>3, <1>4, TimerRange DEF AcceptHeartbeat, TypeOK
<1>5. CASE RejectHeartbeat(n)
  BY <1>2, <1>5 DEF RejectHeartbeat, TypeOK, network, driver
<1> QED BY <1>4, <1>5 DEF Receive

\* A transmission puts only well-formed heartbeats into the inboxes.
LEMMA TransmitTypeOK ==
  ASSUME TypeOK, NEW n \in Member, NEW heard, Transmit(n, heard)
  PROVE  TypeOK'
<1>1. [source |-> n, epoch |-> radio[n]] \in Heartbeat
  BY DEF TypeOK, Transmit, Heartbeat
<1>2. inbox' \in [Member -> Seq(Heartbeat)]
  BY <1>1 DEF Transmit, Deliver, TypeOK
<1> QED BY <1>2 DEF Transmit, TypeOK, network, driver

\* Time, radio events, power and eligibility keep the types.
LEMMA EnvironmentTypeOK ==
  ASSUME TypeOK
  PROVE  /\ Advance => TypeOK'
         /\ \A n \in Member : PowerOn(n) \/ PowerOff(n) => TypeOK'
         /\ \A n, m \in Member : SetMemberEligible(n, m) => TypeOK'
<1>1. ASSUME Advance PROVE TypeOK'
  <2>1. timer' \in [Member -> 0..Longest]
    BY <1>1, ConfigAssumption DEF Advance, TypeOK, Longest
  <2> QED BY <1>1, <2>1 DEF Advance, TypeOK, driver
<1>2. ASSUME NEW n \in Member, PowerOn(n) PROVE TypeOK'
  BY <1>2 DEF PowerOn, TypeOK, network, driver
<1>3. ASSUME NEW n \in Member, PowerOff(n) PROVE TypeOK'
  <2>1. 0 \in Epoch /\ InitialCoordinator \in Member
    BY ConfigAssumption DEF Epoch
  <2>2. up' \subseteq Member /\ role' \in [Member -> Role]
    <3>1. RoleUnder(n, InitialCoordinator) \in Role
      BY DEF RoleUnder, Role
    <3> QED BY <1>3, <3>1 DEF PowerOff, TypeOK
  <2>3. coordinator' \in [Member -> Member]
    BY <1>3, <2>1 DEF PowerOff, TypeOK
  <2>4. eligible' \in [Member -> SUBSET Member]
    BY <1>3 DEF PowerOff, TypeOK
  <2>5. epoch' \in [Member -> Epoch]
    BY <1>3, <2>1 DEF PowerOff, TypeOK
  <2>6. timer' \in [Member -> 0..Longest]
    <3>1. timer \in [Member -> 0..Longest]
      BY DEF TypeOK
    <3>2. TimerUnder(n, InitialCoordinator) \in 0..Longest
      BY <2>1, TimerRange
    <3>3. timer' = [timer EXCEPT ![n] = TimerUnder(n, InitialCoordinator)]
      BY <1>3 DEF PowerOff
    <3> QED BY <3>1, <3>2, <3>3
  <2>7. heartbeatPending' \in [Member -> BOOLEAN]
    BY <1>3 DEF PowerOff, TypeOK
  <2>8. synchronized' \in [Member -> BOOLEAN]
    BY <1>3 DEF PowerOff, TypeOK
  <2>9. radio' \in [Member -> Epoch \cup {Idle}]
    BY <1>3 DEF PowerOff, TypeOK
  <2>10. inbox' \in [Member -> Seq(Heartbeat)]
    BY <1>3 DEF PowerOff, TypeOK
  <2> QED BY <2>2, <2>3, <2>4, <2>5, <2>6, <2>7, <2>8, <2>9, <2>10 DEF TypeOK
<1>4. ASSUME NEW n \in Member, NEW m \in Member, SetMemberEligible(n, m) PROVE TypeOK'
  BY <1>4 DEF SetMemberEligible, TypeOK, driver
<1> QED BY <1>1, <1>2, <1>3, <1>4

\* Every step keeps the types.
LEMMA StepTypeOK == TypeOK /\ [Next]_vars => TypeOK'
<1> SUFFICES ASSUME TypeOK, [Next]_vars PROVE TypeOK'
  OBVIOUS
<1>1. CASE UNCHANGED vars
  BY <1>1 DEF vars, network, driver, TypeOK
<1>2. ASSUME NEW n \in Member, Pass(n) \/ Receive(n) \/ PowerOff(n) \/ PowerOn(n)
      PROVE  TypeOK'
  BY <1>2, PassTypeOK, ReceiveTypeOK, EnvironmentTypeOK
<1>3. ASSUME NEW n \in Member, NEW heard \in SUBSET up, Transmit(n, heard \ {n})
      PROVE  TypeOK'
  BY <1>3, TransmitTypeOK
<1>4. ASSUME NEW n \in Member, NEW m \in Member, SetMemberEligible(n, m)
      PROVE  TypeOK'
  BY <1>4, EnvironmentTypeOK
<1>5. CASE Advance
  BY <1>5, EnvironmentTypeOK
<1> QED BY <1>1, <1>2, <1>3, <1>4, <1>5 DEF Next

\* Every variable keeps its type: in particular every coordinator id a node
\* adopts, elects or boots with is a member of the crew.
THEOREM Typing == Spec => []TypeOK
BY InitTypeOK, StepTypeOK, PTL DEF Spec

-----------------------------------------------------------------------------
(* The safety invariants are inductive together.                           *)

Inv ==
  /\ TypeOK
  /\ RoleMatchesCoordinator
  /\ CanElectItself
  /\ TransmitsOnlyInSchedule

\* What one step does to the protocol state of one powered node k: a pass or a
\* heartbeat of k itself, a toggled eligibility, a power cycle, or nothing.
Unaffected(k) ==
  /\ role'[k] = role[k] /\ coordinator'[k] = coordinator[k] /\ epoch'[k] = epoch[k]
  /\ synchronized'[k] = synchronized[k]
  /\ k \notin Managed => (k \in eligible'[k] <=> k \in eligible[k])

\* Every step of the system is one of these for a given node: the basis of all
\* the case splits below.
LEMMA StepOfNode ==
  ASSUME TypeOK, [Next]_vars, NEW k \in Member
  PROVE  \/ Tick(k) /\ UNCHANGED up
         \/ AcceptHeartbeat(k)
         \/ PowerOff(k)
         \/ Unaffected(k)
<1>1. CASE UNCHANGED vars
  BY <1>1 DEF vars, network, driver, Unaffected
<1>2. ASSUME NEW n \in Member, Pass(n)
      PROVE  (Tick(k) /\ UNCHANGED up) \/ Unaffected(k)
  <2>1. CASE n = k
    BY <1>2, <2>1 DEF Pass
  <2>2. CASE n # k
    <3>1. Tick(n)
      BY <1>2 DEF Pass
    <3>2. CASE TickIdle(n)
      BY <3>2 DEF TickIdle, network, Unaffected
    <3>3. CASE TickHeartbeat(n)
      BY <3>3 DEF TickHeartbeat, Unaffected
    <3>4. CASE TickTimeout(n)
      BY <2>2, <3>4 DEF TickTimeout, Unaffected, TypeOK
    <3>5. CASE TickElect(n)
      BY <2>2, <3>5 DEF TickElect, Unaffected, TypeOK
    <3> QED BY <3>1, <3>2, <3>3, <3>4, <3>5 DEF Tick
  <2> QED BY <2>1, <2>2
<1>3. ASSUME NEW n \in Member, Receive(n)
      PROVE  AcceptHeartbeat(k) \/ Unaffected(k)
  <2>1. CASE RejectHeartbeat(n)
    BY <2>1 DEF RejectHeartbeat, network, driver, Unaffected
  <2>2. CASE AcceptHeartbeat(n) /\ n # k
    BY <2>2 DEF AcceptHeartbeat, Unaffected, TypeOK
  <2> QED BY <1>3, <2>1, <2>2 DEF Receive
<1>4. ASSUME NEW n \in Member, PowerOff(n)
      PROVE  PowerOff(k) \/ Unaffected(k)
  BY <1>4 DEF PowerOff, Unaffected, TypeOK
<1>5. ASSUME NEW n \in Member, PowerOn(n)
      PROVE  Unaffected(k)
  BY <1>5 DEF PowerOn, network, driver, Unaffected
<1>6. ASSUME NEW n \in Member, NEW heard, Transmit(n, heard)
      PROVE  Unaffected(k)
  BY <1>6 DEF Transmit, network, driver, Unaffected
<1>7. ASSUME NEW n \in Member, NEW m \in Member, SetMemberEligible(n, m)
      PROVE  Unaffected(k)
  BY <1>7 DEF SetMemberEligible, driver, Unaffected, TypeOK
<1>8. CASE Advance
  BY <1>8 DEF Advance, driver, Unaffected
<1> QED BY <1>1, <1>2, <1>3, <1>4, <1>5, <1>6, <1>7, <1>8 DEF Next

\* The conjuncts of Inv that speak of one node.
NodeInv(k) ==
  /\ role[k] = "COORDINATOR" => coordinator[k] = k /\ synchronized[k]
  /\ role[k] = "FOLLOWER" => coordinator[k] # k
  /\ role[k] = "ELECTION" => ~synchronized[k]
  /\ k \notin Managed => k \in eligible[k]

\* The invariant is the types and, for every node, NodeInv.
LEMMA NodeInvIsInv ==
  Inv <=> TypeOK /\ \A k \in Member : NodeInv(k)
BY DEF Inv, NodeInv, RoleMatchesCoordinator, CanElectItself, TransmitsOnlyInSchedule

\* A pass of the node keeps its role, coordinator id, schedule flag and
\* candidacy consistent.
LEMMA TickKeepsNodeInv ==
  ASSUME TypeOK, NEW k \in Member, NodeInv(k), Tick(k)
  PROVE  NodeInv(k)'
<1>1. CASE TickIdle(k)
  BY <1>1 DEF TickIdle, network, NodeInv
<1>2. CASE TickHeartbeat(k)
  BY <1>2 DEF TickHeartbeat, NodeInv
<1>3. CASE TickTimeout(k)
  <2>1. coordinator[k] # k
    BY <1>3 DEF TickTimeout, Expired, NodeInv
  <2> QED BY <1>3, <2>1 DEF TickTimeout, Survivors, NodeInv, TypeOK
<1>4. CASE TickElect(k)
  BY <1>4 DEF TickElect, RoleUnder, NodeInv, TypeOK
<1> QED BY <1>1, <1>2, <1>3, <1>4 DEF Tick

\* Every step keeps NodeInv for every node.
LEMMA StepKeepsNodeInv ==
  ASSUME TypeOK, [Next]_vars, NEW k \in Member, NodeInv(k)
  PROVE  NodeInv(k)'
<1>1. CASE Tick(k)
  BY <1>1, TickKeepsNodeInv
<1>2. CASE AcceptHeartbeat(k)
  BY <1>2 DEF AcceptHeartbeat, RoleUnder, NodeInv, TypeOK
<1>3. CASE PowerOff(k)
  BY <1>3 DEF PowerOff, RoleUnder, NodeInv, TypeOK
<1>4. CASE Unaffected(k)
  BY <1>4 DEF Unaffected, NodeInv
<1> QED BY <1>1, <1>2, <1>3, <1>4, StepOfNode

\* The invariant holds in every behaviour.
LEMMA InvHolds == Spec => []Inv
<1>1. Init => Inv
  <2>1. Init => TypeOK
    BY InitTypeOK
  <2>2. Init => RoleMatchesCoordinator
    BY DEF Init, RoleMatchesCoordinator, RoleUnder
  <2>3. Init => CanElectItself
    BY DEF Init, CanElectItself, RoleUnder
  <2>4. Init => TransmitsOnlyInSchedule
    <3>1. ASSUME Init, NEW n \in Member
          PROVE  /\ role[n] = "COORDINATOR" => n = InitialCoordinator
                 /\ role[n] # "ELECTION"
                 /\ n = InitialCoordinator => synchronized[n]
      BY <3>1 DEF Init, RoleUnder
    <3> QED BY <3>1 DEF TransmitsOnlyInSchedule
  <2> QED BY <2>1, <2>2, <2>3, <2>4 DEF Inv
<1>2. Inv /\ [Next]_vars => Inv'
  <2> SUFFICES ASSUME Inv, [Next]_vars PROVE Inv'
    OBVIOUS
  <2>0. TypeOK'
    BY StepTypeOK DEF Inv
  <2>1. \A k \in Member : NodeInv(k)'
    BY NodeInvIsInv, StepKeepsNodeInv DEF Inv
  <2> QED BY <2>0, <2>1 DEF Inv, NodeInv, RoleMatchesCoordinator, CanElectItself,
             TransmitsOnlyInSchedule
<1> QED BY <1>1, <1>2, PTL DEF Spec

\* A coordinator names itself and a follower names another node.
THEOREM RoleConsistency == Spec => []RoleMatchesCoordinator
BY InvHolds, PTL DEF Inv

\* No node that manages its own eligibility is stuck in ELECTION for want of a
\* candidate.
THEOREM SelfElection == Spec => []CanElectItself
BY InvHolds, PTL DEF Inv

\* A coordinator may always transmit and a node in ELECTION never does.
THEOREM ScheduleDiscipline == Spec => []TransmitsOnlyInSchedule
BY InvHolds, PTL DEF Inv

-----------------------------------------------------------------------------
(* Action properties.                                                      *)

\* The types of a node's claim, in the form arithmetic needs.
LEMMA NodeTypes ==
  ASSUME TypeOK, NEW k \in Member
  PROVE  epoch[k] \in Nat /\ coordinator[k] \in 1..6 /\ coordinator[k] \in Member
<1>1. coordinator[k] \in Member /\ epoch[k] \in Epoch
  BY DEF TypeOK
<1>2. epoch[k] \in Nat
  BY <1>1, ConfigAssumption DEF Epoch
<1>3. coordinator[k] \in 1..6
  BY <1>1, ConfigAssumption
<1> QED BY <1>1, <1>2, <1>3

\* A heartbeat a node accepts carries a better claim than the one it follows.
LEMMA AcceptedClaim ==
  ASSUME TypeOK, NEW k \in Member, AcceptHeartbeat(k)
  PROVE  /\ \/ epoch'[k] > epoch[k]
            \/ epoch'[k] = epoch[k] /\ coordinator'[k] <= coordinator[k]
         /\ coordinator'[k] # k
         /\ role'[k] = "FOLLOWER"
<1> DEFINE beat == Head(inbox[k])
<1>1. /\ Accepts(k, beat) /\ beat.source # k
      /\ coordinator' = [coordinator EXCEPT ![k] = beat.source]
      /\ epoch' = [epoch EXCEPT ![k] = beat.epoch]
      /\ role' = [role EXCEPT ![k] = RoleUnder(k, beat.source)]
  BY DEF AcceptHeartbeat
<1>2. coordinator'[k] = beat.source /\ epoch'[k] = beat.epoch
  BY <1>1 DEF TypeOK
<1>3. role'[k] = "FOLLOWER"
  BY <1>1 DEF TypeOK, RoleUnder
<1> QED BY <1>1, <1>2, <1>3 DEF Accepts

\* No step weakens the claim of a node that stays powered.
LEMMA ClaimStep ==
  ASSUME Inv, [Next]_vars, NEW k \in up \cap up'
  PROVE  \/ epoch'[k] > epoch[k]
         \/ epoch'[k] = epoch[k] /\ coordinator'[k] <= coordinator[k]
<1>9. TypeOK /\ k \in Member
  BY DEF Inv, TypeOK
<1>0. /\ k \in Member /\ TypeOK
      /\ epoch[k] \in Nat /\ coordinator[k] \in 1..6
  BY <1>9, NodeTypes
<1>1. CASE Tick(k)
  <2>1. CASE TickIdle(k)
    BY <1>0, <2>1 DEF TickIdle, network
  <2>2. CASE TickHeartbeat(k)
    BY <1>0, <2>2 DEF TickHeartbeat
  <2>3. CASE TickTimeout(k)
    BY <1>0, <2>3 DEF TickTimeout
  <2>4. CASE TickElect(k)
    BY <1>0, <2>4 DEF TickElect, TypeOK
  <2> QED BY <1>1, <2>1, <2>2, <2>3, <2>4 DEF Tick
<1>2. CASE AcceptHeartbeat(k)
  BY <1>0, <1>2, AcceptedClaim
<1>3. CASE PowerOff(k)
  BY <1>3 DEF PowerOff
<1>4. CASE Unaffected(k)
  BY <1>0, <1>4 DEF Unaffected
<1> QED BY <1>0, <1>1, <1>2, <1>3, <1>4, StepOfNode

\* The claim a powered node follows never gives way to a weaker one.
THEOREM ClaimsImprove == Spec => ClaimNeverGoesBack
<1>1. Inv /\ [Next]_vars =>
        [\A n \in up \cap up' :
           \/ epoch'[n] > epoch[n]
           \/ epoch'[n] = epoch[n] /\ coordinator'[n] <= coordinator[n]]_vars
  BY ClaimStep
<1> QED BY <1>1, InvHolds, PTL DEF Spec, ClaimNeverGoesBack

\* A coordinator that stays powered gives up its role only to a better claim.
LEMMA YieldStep ==
  ASSUME Inv, [Next]_vars, NEW k \in up \cap up',
         role[k] = "COORDINATOR", role'[k] # "COORDINATOR"
  PROVE  /\ role'[k] = "FOLLOWER"
         /\ \/ epoch'[k] > epoch[k]
            \/ epoch'[k] = epoch[k] /\ coordinator'[k] < k
<1>9. TypeOK /\ k \in Member
  BY DEF Inv, TypeOK
<1>0. /\ k \in Member /\ TypeOK /\ coordinator[k] = k
      /\ epoch[k] \in Nat /\ k \in 1..6
  BY <1>9, NodeTypes DEF Inv, RoleMatchesCoordinator
<1>1. ~Tick(k) /\ ~Unaffected(k)
  BY <1>0 DEF Tick, TickIdle, TickHeartbeat, TickTimeout, TickElect, MayElect, Expired,
     network, Unaffected
<1>2. CASE AcceptHeartbeat(k)
  <2>1. TypeOK'
    BY <1>0, StepTypeOK
  <2>2. coordinator'[k] \in 1..6
    BY <1>0, <2>1, NodeTypes, ConfigAssumption DEF TypeOK
  <2> QED BY <1>0, <1>2, <2>2, AcceptedClaim
<1>3. CASE PowerOff(k)
  BY <1>3 DEF PowerOff
<1> QED BY <1>0, <1>1, <1>2, <1>3, StepOfNode

\* A coordinator steps down only to a higher epoch or to a lower id of its own epoch.
THEOREM CoordinatorYields == Spec => YieldsOnlyToBetterClaim
<1>1. Inv /\ [Next]_vars =>
        [\A n \in up \cap up' :
           role[n] = "COORDINATOR" /\ role'[n] # "COORDINATOR" =>
             /\ role'[n] = "FOLLOWER"
             /\ \/ epoch'[n] > epoch[n]
                \/ epoch'[n] = epoch[n] /\ coordinator'[n] < n]_vars
  BY YieldStep
<1> QED BY <1>1, InvHolds, PTL DEF Spec, YieldsOnlyToBetterClaim

-----------------------------------------------------------------------------
(* TimelyElection: how long the crew may be without a coordinator when at  *)
(* most one thing goes wrong.                                              *)

First  == InitialCoordinator
Second == Min(Member \ {First})

\* What the bound rests on: someone is left when a node is switched off, a
\* follower that misses one heartbeat hears the next one before its timeout,
\* the radio holds a heartbeat for the main loop, and the limit leaves room for
\* a superframe, a timeout and the election delay.
TimelyCrew ==
  /\ Member # {First}
  /\ 2 * Interval <= Timeout
  /\ RxHeld >= 1
  /\ Interval + Timeout + 1 + Delay <= OutageLimit

Beat(c, e) == [source |-> c, epoch |-> e]

\* A heartbeat of c is due, held by the driver or held by the radio.
Waiting(c) == heartbeatPending[c] \/ radio[c] # Idle \/ timer[c] = 0

\* The time before the next heartbeat of c falls due.
Left(c) == IF Waiting(c) THEN 0 ELSE timer[c]

\* What one lost heartbeat costs a follower.
Slack == IF faults = 0 THEN 0 ELSE Interval

\* Node c coordinates at epoch e and knows of no other claim.
Leading(c, e) ==
  /\ c \in up
  /\ role[c] = "COORDINATOR" /\ coordinator[c] = c /\ epoch[c] = e /\ synchronized[c]
  /\ timer[c] <= Interval /\ inbox[c] = <<>>
  /\ radio[c] = Idle \/ radio[c] = e

Silent(n) == radio[n] = Idle /\ heartbeatPending[n] = FALSE

\* Node n has nothing to send and has heard of no claim but (e, c).
Listens(n, c, e) ==
  /\ Silent(n)
  /\ \A i \in 1..Len(inbox[n]) : inbox[n][i] = Beat(c, e)

\* Node n follows claim (e, c) and the next heartbeat comes before its timeout.
Fresh(n, c, e) ==
  /\ role[n] = "FOLLOWER" /\ coordinator[n] = c /\ epoch[n] = e
  /\ timer[n] + Slack + Interval >= Timeout + 1
  /\ inbox[n] = <<>> => timer[n] + Slack + Interval >= Timeout + 1 + Left(c)

\* The three stages of a node that has not heard from the replacement yet.
Attached(n) ==
  /\ role[n] = "FOLLOWER" /\ coordinator[n] = First /\ epoch[n] = 0
  /\ eligible[n] = Member
Electing(n) ==
  /\ role[n] = "ELECTION" /\ coordinator[n] = First /\ epoch[n] = 0
  /\ eligible[n] = Member \ {First}
Elector(n) == role[n] = "FOLLOWER" /\ coordinator[n] = Second /\ epoch[n] = 1

\* The first coordinator is up and the crew loses touch for one interval at most.
InTouch(n) ==
  /\ eligible[n] = Member
  /\ Fresh(n, First, 0) /\ timer[n] <= Timeout + 1
  /\ synchronized[n] = FALSE /\ inbox[n] = <<>> => outage + Left(First) <= Interval + Slack

FirstLeads ==
  /\ faults = 0 => up = Member
  /\ Leading(First, 0)
  /\ outage <= Interval + Slack
  /\ \A n \in up \ {First} : Listens(n, First, 0) /\ InTouch(n)

\* The first coordinator was switched off when the crew had been out of touch
\* for b units: how far node n is on the way to a replacement.
Orphaned(n, b) ==
  /\ Listens(n, First, 0)
  /\ inbox[n] # <<>> => outage = b
  /\ \/ /\ Attached(n)
        /\ timer[n] + outage <= b + Timeout + 1
        /\ timer[n] + outage + Interval >= b + Timeout + 1
     \/ /\ Electing(n)
        /\ timer[n] + outage <= b + Timeout + 1 + Delay
        /\ timer[n] + outage + Interval >= b + Timeout + 1 + Delay
        /\ outage + Interval >= b + Timeout + 1
     \/ /\ n # Second /\ Elector(n)
        /\ timer[n] + outage + Interval >= b + 2 * (Timeout + 1) + Delay
        /\ outage + Interval >= b + Timeout + 1 + Delay

NobodyLeads ==
  /\ faults = 1 /\ up = Member \ {First}
  /\ \E b \in 0..Interval : outage >= b /\ \A n \in up : Orphaned(n, b)

\* The second lowest node leads; a node that does not follow it yet has its
\* heartbeat coming.
Joining(n) ==
  \/ Fresh(n, Second, 1) /\ synchronized[n] = TRUE
  \/ /\ Attached(n) \/ Electing(n) \/ (Elector(n) /\ timer[n] # 0)
     /\ Waiting(Second) \/ inbox[n] # <<>>

SecondLeads ==
  /\ faults = 1 /\ up = Member \ {First}
  /\ outage <= Interval + Timeout + 1 + Delay
  /\ Leading(Second, 1)
  /\ \A n \in up \ {Second} : Listens(n, Second, 1) /\ Joining(n)

TInv == faults <= 1 => FirstLeads \/ NobodyLeads \/ SecondLeads

\* Nothing of node k changes.
Same(k) ==
  /\ role'[k] = role[k] /\ coordinator'[k] = coordinator[k]
  /\ eligible'[k] = eligible[k] /\ epoch'[k] = epoch[k] /\ timer'[k] = timer[k]
  /\ heartbeatPending'[k] = heartbeatPending[k] /\ synchronized'[k] = synchronized[k]
  /\ radio'[k] = radio[k] /\ inbox'[k] = inbox[k]

\* The constants as numbers.
LEMMA Times ==
  /\ Interval \in Nat /\ Interval > 0 /\ Timeout \in Nat /\ Delay \in Nat
  /\ OutageLimit \in Nat /\ RxHeld \in Nat /\ First \in Member
BY ConfigAssumption, TimingAssumption DEF First

\* The types of one node.
LEMMA NodeOf ==
  ASSUME TypeOK, NEW k \in Member
  PROVE  /\ timer[k] \in Nat /\ epoch[k] \in Nat
         /\ heartbeatPending[k] \in BOOLEAN /\ synchronized[k] \in BOOLEAN
         /\ inbox[k] \in Seq(Heartbeat)
<1>1. timer[k] \in 0..Longest /\ epoch[k] \in Epoch
  BY DEF TypeOK
<1>2. timer[k] \in Nat /\ epoch[k] \in Nat
  BY <1>1, ConfigAssumption DEF Longest, Epoch
<1> QED BY <1>2 DEF TypeOK

\* The second lowest member exists as soon as there are two.
LEMMA SecondIsMember ==
  ASSUME TimelyCrew
  PROVE  Second \in Member /\ Second # First
<1>1. Member \ {First} # {}
  BY Times DEF TimelyCrew
<1>2. Second \in Member \ {First}
  BY <1>1, LowestIsMember DEF Second
<1> QED BY <1>2

\* A node works on its own state: what a pass, a packet or the power switch of
\* one node does leaves the others alone.
LEMMA Elsewhere ==
  ASSUME TypeOK, NEW n \in Member, NEW k \in Member, k # n,
         Pass(n) \/ Receive(n) \/ PowerOff(n)
  PROVE  Same(k)
<1>1. CASE Pass(n)
  <2>1. /\ role'[k] = role[k] /\ coordinator'[k] = coordinator[k]
        /\ eligible'[k] = eligible[k] /\ epoch'[k] = epoch[k] /\ timer'[k] = timer[k]
        /\ synchronized'[k] = synchronized[k]
    <3>1. CASE TickIdle(n)
      BY <3>1 DEF TickIdle, network
    <3>2. CASE TickHeartbeat(n)
      BY <3>2 DEF TickHeartbeat, TypeOK
    <3>3. CASE TickTimeout(n)
      BY <3>3 DEF TickTimeout, TypeOK
    <3>4. CASE TickElect(n)
      BY <3>4 DEF TickElect, TypeOK
    <3> QED BY <1>1, <3>1, <3>2, <3>3, <3>4 DEF Pass, Tick
  <2>2. heartbeatPending'[k] = heartbeatPending[k] /\ radio'[k] = radio[k]
    BY <1>1 DEF Pass, ScheduleHeartbeat, HoldHeartbeat, TypeOK
  <2> QED BY <1>1, <2>1, <2>2 DEF Pass, Same
<1>2. CASE AcceptHeartbeat(n)
  BY <1>2 DEF AcceptHeartbeat, Same, TypeOK
<1>3. CASE RejectHeartbeat(n)
  BY <1>3 DEF RejectHeartbeat, network, driver, Same, TypeOK
<1>4. CASE PowerOff(n)
  BY <1>4 DEF PowerOff, Same, TypeOK
<1> QED BY <1>1, <1>2, <1>3, <1>4 DEF Receive

\* A pass over a node with no deadline due and nothing to send does nothing.
LEMMA Idles ==
  ASSUME TypeOK, NEW n \in Member, Pass(n), Silent(n), timer[n] # 0
  PROVE  Same(n)
<1>1. TickIdle(n) /\ ~AsksForHeartbeat(n)
  BY DEF Pass, Tick, TickHeartbeat, TickTimeout, TickElect, MayElect, Expired,
     AsksForHeartbeat
<1>2. HoldHeartbeat(n) /\ Pending(n) = FALSE
  BY <1>1 DEF Pass, ScheduleHeartbeat, HoldHeartbeat, Pending, Silent
<1> QED BY <1>1, <1>2 DEF Pass, TickIdle, HoldHeartbeat, Same, Silent, network, TypeOK

\* A pass over the coordinator renews its deadline and hands the heartbeat on:
\* one is waiting afterwards if and only if one was waiting before.
LEMMA LeaderPass ==
  ASSUME TypeOK, NEW c \in Member, NEW e \in Nat, Leading(c, e), Pass(c)
  PROVE  Leading(c, e)' /\ Left(c)' = Left(c) /\ Waiting(c)' = Waiting(c)
<1>0. /\ timer[c] \in Nat /\ Interval \in Nat /\ Interval > 0
      /\ heartbeatPending[c] \in BOOLEAN
  BY NodeOf, Times
<1>1. /\ up' = up /\ inbox' = inbox
      /\ role' = role /\ coordinator' = coordinator /\ epoch' = epoch
      /\ synchronized' = synchronized
  BY DEF Pass, Tick, TickIdle, TickHeartbeat, TickTimeout, TickElect, MayElect, Expired,
     Leading, network
<1>2. \/ timer[c] # 0 /\ timer' = timer
      \/ timer[c] = 0 /\ timer'[c] \in 1..Interval
  BY DEF Pass, Tick, TickIdle, TickHeartbeat, TickTimeout, TickElect, MayElect, Expired,
     Leading, network, TypeOK
<1>3. /\ Pending(c) = (heartbeatPending[c] \/ timer[c] = 0)
  BY DEF Pending, AsksForHeartbeat, Expired, MayElect, Leading
<1>4. \/ /\ Pending(c) /\ radio[c] = Idle
         /\ heartbeatPending'[c] = FALSE /\ radio'[c] = epoch[c]
      \/ heartbeatPending'[c] = Pending(c) /\ radio' = radio
  BY <1>1 DEF Pass, ScheduleHeartbeat, HoldHeartbeat, TypeOK
<1>5. epoch[c] = e /\ e # Idle
  BY DEF Leading, Idle
<1>6. Waiting(c)' = Waiting(c)
  BY <1>0, <1>2, <1>3, <1>4, <1>5 DEF Waiting
<1>7. Left(c)' = Left(c)
  BY <1>0, <1>2, <1>3, <1>4, <1>5, <1>6 DEF Left, Waiting
<1>8. Leading(c, e)'
  BY <1>0, <1>1, <1>2, <1>4, <1>5 DEF Leading
<1> QED BY <1>6, <1>7, <1>8

\* The claim node n follows is (e, c) or one of a lower epoch.
Follows(n, c, e) == epoch[n] < e \/ (epoch[n] = e /\ coordinator[n] = c)

\* Node n takes a heartbeat of claim (e, c) and waits a whole timeout for the next.
TurnsTo(n, c, e) ==
  /\ Listens(n, c, e)' /\ up' = up /\ inbox[n] # <<>>
  /\ role'[n] = "FOLLOWER" /\ coordinator'[n] = c /\ epoch'[n] = e
  /\ timer'[n] = Timeout + 1 /\ synchronized'[n] = TRUE
  /\ eligible'[n] = eligible[n] \cup {c}

\* A node that takes a heartbeat of a claim that is no worse than its own
\* follows it with a fresh timeout.
LEMMA Hears ==
  ASSUME TypeOK, NEW n \in Member, NEW c \in Member, NEW e \in Nat, n # c,
         Listens(n, c, e), Receive(n), Follows(n, c, e)
  PROVE  TurnsTo(n, c, e)
<1> DEFINE beat == Head(inbox[n])
<1>1. inbox[n] \in Seq(Heartbeat) /\ inbox[n] # <<>>
  BY NodeOf DEF Receive, AcceptHeartbeat, RejectHeartbeat
<1>2. beat = Beat(c, e)
  <2>1. Len(inbox[n]) \in Nat /\ 1 \in 1..Len(inbox[n]) /\ beat = inbox[n][1]
    BY <1>1
  <2> QED BY <2>1 DEF Listens
<1>3. beat.source = c /\ beat.epoch = e
  BY <1>2 DEF Beat
<1>4. Accepts(n, beat)
  <2>1. epoch[n] \in Nat /\ coordinator[n] \in 1..6
    BY NodeTypes
  <2> QED BY <1>3, <2>1 DEF Accepts, Follows
<1>5. AcceptHeartbeat(n)
  BY <1>3, <1>4 DEF Receive, RejectHeartbeat
<1>6. inbox'[n] = Tail(inbox[n])
  BY <1>5 DEF AcceptHeartbeat, TypeOK
<1>7. Listens(n, c, e)'
  <2>1. Silent(n)'
    BY <1>5 DEF AcceptHeartbeat, Listens, Silent
  <2>2. \A i \in 1..Len(inbox'[n]) : inbox'[n][i] = inbox[n][i + 1] /\ i + 1 \in 1..Len(inbox[n])
    BY <1>1, <1>6
  <2>3. \A i \in 1..Len(inbox[n]) : inbox[n][i] = Beat(c, e)
    BY DEF Listens
  <2>4. \A i \in 1..Len(inbox'[n]) : inbox'[n][i] = Beat(c, e)
    BY <2>2, <2>3
  <2> QED BY <2>1, <2>4 DEF Listens, Beat
<1>8. /\ role'[n] = RoleUnder(n, c) /\ coordinator'[n] = c /\ epoch'[n] = e
      /\ timer'[n] = TimerUnder(n, c) /\ synchronized'[n] = TRUE
      /\ eligible'[n] = eligible[n] \cup {c} /\ up' = up
  BY <1>3, <1>5 DEF AcceptHeartbeat, TypeOK
<1> QED BY <1>1, <1>7, <1>8 DEF RoleUnder, TimerUnder, TurnsTo

\* A transmission of the coordinator reaches the nodes it is heard by, and
\* changes nothing else about the others.
LEMMA Sends ==
  ASSUME TypeOK, TimelyCrew, NEW c \in Member, NEW e \in Nat, Leading(c, e),
         NEW heard, Transmit(c, heard \ {c})
  PROVE  /\ Leading(c, e)' /\ up' = up /\ network' = network /\ driver' = driver
         /\ \A k \in Member \ {c} : radio'[k] = radio[k]
         /\ \A k \in Member \ {c} : Listens(k, c, e) => Listens(k, c, e)'
         /\ \A k \in heard \cap Member : k # c => inbox'[k] # <<>>
         /\ \A k \in Member : k \notin heard => inbox'[k] = inbox[k]
<1>1. radio[c] = e /\ [source |-> c, epoch |-> radio[c]] = Beat(c, e)
  BY DEF Transmit, Leading, Beat
<1>2. /\ up' = up /\ network' = network /\ driver' = driver
      /\ radio' = [radio EXCEPT ![c] = Idle]
      /\ Deliver(Beat(c, e), heard \ {c})
  BY <1>1 DEF Transmit
<1>3. \A k \in Member : inbox'[k] = IF k \in heard \ {c} /\ Len(inbox[k]) < RxHeld
                                      THEN Append(inbox[k], Beat(c, e)) ELSE inbox[k]
  BY <1>2 DEF Deliver
<1>4. \A k \in Member \ {c} : radio'[k] = radio[k]
  BY <1>2 DEF TypeOK
<1>5. ASSUME NEW k \in Member \ {c}, Listens(k, c, e)
      PROVE  Listens(k, c, e)'
  <2>1. Silent(k)'
    BY <1>2, <1>4, <1>5 DEF Listens, Silent, driver
  <2>2. inbox[k] \in Seq(Heartbeat) /\ \A i \in 1..Len(inbox[k]) : inbox[k][i] = Beat(c, e)
    BY <1>5, NodeOf DEF Listens
  <2>3. CASE inbox'[k] = inbox[k]
    BY <2>1, <2>2, <2>3 DEF Listens, Beat
  <2>4. CASE inbox'[k] = Append(inbox[k], Beat(c, e))
    <3>1. Beat(c, e) \in Heartbeat
      BY <1>1 DEF Beat, Heartbeat, TypeOK, Transmit
    <3>2. \A i \in 1..Len(inbox'[k]) : inbox'[k][i] = Beat(c, e)
      BY <2>2, <2>4, <3>1
    <3> QED BY <2>1, <3>2 DEF Listens, Beat
  <2> QED BY <1>3, <2>3, <2>4
<1>6. ASSUME NEW k \in heard \cap Member, k # c
      PROVE  inbox'[k] # <<>>
  <2>1. inbox[k] \in Seq(Heartbeat) /\ RxHeld \in Nat /\ RxHeld >= 1
    BY <1>6, NodeOf, Times DEF TimelyCrew
  <2>2. CASE Len(inbox[k]) < RxHeld
    <3>1. inbox'[k] = Append(inbox[k], Beat(c, e))
      BY <1>3, <1>6, <2>2
    <3>2. Beat(c, e) \in Heartbeat
      BY <1>1 DEF Beat, Heartbeat, TypeOK, Transmit
    <3> QED BY <2>1, <3>1, <3>2
  <2>3. CASE ~(Len(inbox[k]) < RxHeld)
    <3>1. inbox'[k] = inbox[k]
      BY <1>3, <1>6, <2>3
    <3> QED BY <2>1, <2>3, <3>1
  <2> QED BY <2>2, <2>3
<1>7. \A k \in Member : k \notin heard => inbox'[k] = inbox[k]
  BY <1>3
<1>8. Leading(c, e)'
  <2>1. inbox'[c] = inbox[c] /\ radio'[c] = Idle
    BY <1>2, <1>3 DEF TypeOK
  <2> QED BY <1>2, <2>1 DEF Leading, network, driver
<1> QED BY <1>2, <1>4, <1>5, <1>6, <1>7, <1>8

\* The clock starts a time unit only when no heartbeat waits anywhere, and
\* then moves every timer of a powered node by one.
LEMMA Elapses ==
  ASSUME TypeOK, TAdvance
  PROVE  /\ up' = up /\ role' = role /\ coordinator' = coordinator
         /\ eligible' = eligible /\ epoch' = epoch /\ driver' = driver
         /\ radio' = radio /\ inbox' = inbox /\ faults' = faults
         /\ \A k \in up : /\ timer[k] > 0 /\ timer'[k] = timer[k] - 1
                          /\ inbox[k] = <<>> /\ radio[k] = Idle
                          /\ synchronized[k] => heartbeatPending[k] = FALSE
         /\ outage' = IF Agreed THEN 0
                      ELSE IF outage > OutageLimit THEN outage ELSE outage + 1
<1>1. /\ UNCHANGED <<up, role, coordinator, eligible, epoch, driver, radio, inbox>>
      /\ UNCHANGED faults
      /\ timer' = [n \in Member |->
                    IF n \in up /\ timer[n] > 0 THEN timer[n] - 1 ELSE timer[n]]
  BY DEF TAdvance, Advance
<1>2. ASSUME NEW k \in up
      PROVE  /\ timer[k] > 0 /\ timer'[k] = timer[k] - 1
             /\ inbox[k] = <<>> /\ radio[k] = Idle
             /\ synchronized[k] => heartbeatPending[k] = FALSE
  <2>1. k \in Member
    BY DEF TypeOK
  <2>2. timer[k] > 0 /\ inbox[k] = <<>> /\ radio[k] = Idle
    BY DEF TAdvance, Settled
  <2>3. ~(heartbeatPending[k] /\ synchronized[k])
    BY DEF TAdvance, Settled
  <2>4. heartbeatPending[k] \in BOOLEAN
    BY <2>1, NodeOf
  <2>5. timer'[k] = timer[k] - 1
    BY <1>1, <2>1, <2>2
  <2> QED BY <2>2, <2>3, <2>4, <2>5
<1>3. outage' = IF Agreed THEN 0
                ELSE IF outage > OutageLimit THEN outage ELSE outage + 1
  BY DEF TAdvance
<1> QED BY <1>1, <1>2, <1>3

\* What is said of a node's inbox and of how fresh its claim is survives a step
\* that touches neither the node nor the next heartbeat of its coordinator.
LEMMA Carried ==
  ASSUME NEW k \in Member, NEW c \in Member, NEW e \in Nat, Same(k),
         Left(c)' = Left(c), faults' = faults
  PROVE  /\ Listens(k, c, e) => Listens(k, c, e)'
         /\ Fresh(k, c, e) => Fresh(k, c, e)'
<1>1. Listens(k, c, e) => Listens(k, c, e)'
  BY DEF Listens, Silent, Same, Beat
<1>2. Slack' = Slack
  BY DEF Slack
<1>3. Fresh(k, c, e) => Fresh(k, c, e)'
  BY <1>2 DEF Fresh, Same
<1> QED BY <1>1, <1>3

\* A follower that is in touch has some of its timeout left.
LEMMA HasTime ==
  ASSUME TypeOK, TimelyCrew, faults \in 0..1, NEW n \in Member,
         timer[n] + Slack + Interval >= Timeout + 1
  PROVE  timer[n] # 0
BY Times, NodeOf DEF TimelyCrew, Slack

\* The next heartbeat of a coordinator is never more than an interval away.
LEMMA LeftRange ==
  ASSUME TypeOK, NEW c \in Member, NEW e, Leading(c, e)
  PROVE  Left(c) \in Nat /\ Left(c) <= Interval
<1>1. timer[c] \in Nat /\ Interval \in Nat
  BY NodeOf, Times
<1> QED BY <1>1 DEF Left, Leading

\* When a time unit starts, a coordinator's next heartbeat comes nearer.
LEMMA LeftElapses ==
  ASSUME TypeOK, NEW c \in Member, NEW e \in Nat, Leading(c, e), TAdvance
  PROVE  /\ Waiting(c) = FALSE /\ Left(c) = timer[c] /\ timer[c] > 0
         /\ Left(c)' = timer[c] - 1 /\ Leading(c, e)'
<1>0. timer[c] \in Nat /\ Interval \in Nat
  BY NodeOf, Times
<1>1. c \in up /\ synchronized[c] /\ inbox[c] = <<>> /\ timer[c] <= Interval
  BY DEF Leading
<1>2. /\ timer[c] > 0 /\ timer'[c] = timer[c] - 1
      /\ radio[c] = Idle /\ heartbeatPending[c] = FALSE
      /\ up' = up /\ role' = role /\ coordinator' = coordinator /\ epoch' = epoch
      /\ heartbeatPending' = heartbeatPending /\ synchronized' = synchronized
      /\ radio' = radio /\ inbox' = inbox
  BY <1>1, Elapses DEF driver
<1>3. Waiting(c) = FALSE /\ Left(c) = timer[c]
  BY <1>0, <1>2 DEF Waiting, Left
<1>4. Left(c)' = timer[c] - 1
  BY <1>0, <1>2 DEF Waiting, Left
<1>5. Leading(c, e)'
  BY <1>0, <1>1, <1>2 DEF Leading
<1> QED BY <1>2, <1>3, <1>4, <1>5

\* While the first coordinator leads, time passes without losing touch.
LEMMA FirstLeadsElapses ==
  ASSUME TypeOK, TimelyCrew, faults \in 0..1, outage \in Nat, FirstLeads, TAdvance
  PROVE  FirstLeads'
<1>1. /\ up \subseteq Member /\ First \in Member /\ Leading(First, 0) /\ 0 \in Nat
      /\ Interval \in Nat /\ Timeout \in Nat /\ OutageLimit \in Nat
  BY Times DEF TypeOK, FirstLeads
<1>2. /\ Waiting(First) = FALSE /\ Left(First) = timer[First] /\ timer[First] > 0
      /\ Left(First)' = timer[First] - 1 /\ Leading(First, 0)'
  BY <1>1, LeftElapses
<1>3. timer[First] \in Nat
  BY <1>1, NodeOf
<1>4. Slack' = Slack /\ Slack \in Nat
  BY <1>1, Elapses DEF Slack
<1>5. outage' \in Nat /\ outage' <= outage + 1
  BY <1>1, Elapses
<1>6. outage' <= Interval + Slack
  <2>1. CASE Agreed
    BY <2>1, <1>1, <1>4, Elapses
  <2>2. CASE \E n \in up \ {First} : synchronized[n] = FALSE
    <3>1. PICK n \in up \ {First} : synchronized[n] = FALSE
      BY <2>2
    <3>2. inbox[n] = <<>> /\ InTouch(n)
      BY <3>1, Elapses DEF FirstLeads
    <3>3. outage + Left(First) <= Interval + Slack
      BY <3>1, <3>2 DEF InTouch
    <3> QED BY <1>1, <1>2, <1>3, <1>4, <1>5, <3>3
  <2>3. CASE \A n \in up \ {First} : synchronized[n] # FALSE
    <3>1. \A n \in up : /\ coordinator[n] = First /\ epoch[n] = 0 /\ synchronized[n]
      <4> SUFFICES ASSUME NEW n \in up
                   PROVE  coordinator[n] = First /\ epoch[n] = 0 /\ synchronized[n]
        OBVIOUS
      <4>1. CASE n = First
        BY <1>1, <4>1 DEF Leading
      <4>2. CASE n # First
        <5>1. InTouch(n) /\ synchronized[n] \in BOOLEAN /\ synchronized[n] # FALSE
          BY <2>3, <4>2, NodeOf DEF FirstLeads, TypeOK
        <5> QED BY <5>1 DEF InTouch, Fresh
      <4> QED BY <4>1, <4>2
    <3>2. Leads(First)
      BY <1>1, <3>1 DEF Leads, Leading
    <3> QED BY <1>1, <2>1, <3>2 DEF Agreed
  <2> QED BY <2>1, <2>2, <2>3
<1>7. ASSUME NEW n \in up \ {First} PROVE Listens(n, First, 0)' /\ InTouch(n)'
  <2>1. /\ n \in Member /\ n \in up /\ Listens(n, First, 0) /\ InTouch(n)
        /\ timer[n] \in Nat
    BY <1>1, <1>7, NodeOf DEF FirstLeads
  <2>2. /\ role'[n] = role[n] /\ coordinator'[n] = coordinator[n]
        /\ eligible'[n] = eligible[n] /\ epoch'[n] = epoch[n]
        /\ heartbeatPending'[n] = heartbeatPending[n]
        /\ synchronized'[n] = synchronized[n] /\ radio'[n] = radio[n]
        /\ inbox'[n] = inbox[n] /\ inbox[n] = <<>> /\ timer'[n] = timer[n] - 1
        /\ timer[n] > 0
    BY <2>1, Elapses DEF driver
  <2>3. Listens(n, First, 0)'
    BY <2>1, <2>2 DEF Listens, Silent, Beat
  <2>4. /\ eligible'[n] = Member /\ timer'[n] <= Timeout + 1
        /\ role'[n] = "FOLLOWER" /\ coordinator'[n] = First /\ epoch'[n] = 0
    BY <1>1, <2>1, <2>2 DEF InTouch, Fresh
  <2>5. timer'[n] + Slack + Interval >= Timeout + 1 + (timer[First] - 1)
    BY <1>1, <1>2, <1>3, <1>4, <2>1, <2>2 DEF InTouch, Fresh
  <2>6. timer'[n] + Slack + Interval >= Timeout + 1 /\ timer'[n] \in Nat
    BY <1>1, <1>2, <1>3, <1>4, <2>1, <2>2, <2>5
  <2>7. Fresh(n, First, 0)'
    BY <1>2, <1>4, <2>4, <2>5, <2>6 DEF Fresh
  <2>8. synchronized[n] = FALSE => outage + timer[First] <= Interval + Slack
    BY <1>2, <2>1, <2>2 DEF InTouch
  <2>9. synchronized[n] = FALSE => outage' + (timer[First] - 1) <= Interval + Slack
    BY <1>1, <1>3, <1>4, <1>5, <2>8
  <2> QED BY <1>2, <1>4, <2>2, <2>3, <2>4, <2>7, <2>9 DEF InTouch
<1>8. up' = up /\ faults' = faults
  BY Elapses
<1> QED BY <1>2, <1>4, <1>6, <1>7, <1>8 DEF FirstLeads

\* While the first coordinator leads, main loops and radios that do their work
\* keep everyone in touch.
LEMMA FirstLeadsWorks ==
  ASSUME TypeOK, TimelyCrew, faults \in 0..1, outage \in Nat, FirstLeads,
         NEW n \in Member, Work(n)
  PROVE  FirstLeads'
<1>1. /\ up \subseteq Member /\ First \in Member /\ Leading(First, 0) /\ 0 \in Nat
      /\ Interval \in Nat /\ Timeout \in Nat
      /\ faults' = faults /\ outage' = outage /\ Slack' = Slack /\ Slack \in Nat
      /\ Left(First) \in Nat /\ Left(First) <= Interval
  <2>1. Leading(First, 0) /\ First \in Member /\ faults' = faults /\ outage' = outage
    BY Times DEF FirstLeads, Work
  <2> QED BY <2>1, Times, LeftRange DEF TypeOK, Slack
<1>2. ASSUME up' = up, Leading(First, 0)', Left(First)' = Left(First),
             \A k \in up \ {First} : k # n => Same(k),
             n \in up \ {First} => Listens(n, First, 0)' /\ InTouch(n)'
      PROVE  FirstLeads'
  <2>1. ASSUME NEW k \in up \ {First} PROVE Listens(k, First, 0)' /\ InTouch(k)'
    <3>1. CASE k = n
      BY <1>2, <2>1, <3>1
    <3>2. CASE k # n
      <4>1. k \in Member /\ Same(k) /\ Listens(k, First, 0) /\ InTouch(k)
        BY <1>1, <1>2, <2>1, <3>2 DEF FirstLeads
      <4>2. Listens(k, First, 0)' /\ (Fresh(k, First, 0) => Fresh(k, First, 0)')
        BY <1>1, <1>2, <4>1, Carried
      <4> QED BY <1>1, <1>2, <4>1, <4>2 DEF InTouch, Same
    <3> QED BY <3>1, <3>2
  <2> QED BY <1>1, <1>2, <2>1 DEF FirstLeads
<1>3. CASE n = First
  <2>1. CASE Pass(n)
    <3>1. /\ Leading(First, 0)' /\ Left(First)' = Left(First) /\ up' = up
      BY <1>1, <1>3, <2>1, LeaderPass DEF Pass
    <3>2. \A k \in up \ {First} : Same(k)
      BY <1>1, <1>3, <2>1, Elsewhere
    <3> QED BY <1>2, <1>3, <3>1, <3>2
  <2>2. CASE Receive(n)
    BY <1>1, <1>3, <2>2 DEF Receive, AcceptHeartbeat, RejectHeartbeat, Leading
  <2>3. CASE Broadcast(n)
    <3>1. Transmit(First, up \ {First})
      BY <1>3, <2>3 DEF Broadcast
    <3>2. /\ Leading(First, 0)' /\ up' = up /\ network' = network /\ driver' = driver
          /\ \A k \in Member \ {First} : Listens(k, First, 0) => Listens(k, First, 0)'
          /\ \A k \in up \cap Member : k # First => inbox'[k] # <<>>
      BY <1>1, <3>1, Sends
    <3>3. ASSUME NEW k \in up \ {First} PROVE Listens(k, First, 0)' /\ InTouch(k)'
      <4>1. k \in Member /\ Listens(k, First, 0) /\ InTouch(k) /\ inbox'[k] # <<>>
        BY <1>1, <3>2, <3>3 DEF FirstLeads
      <4>2. Listens(k, First, 0)'
        BY <3>2, <4>1, <3>3
      <4>3. Fresh(k, First, 0)'
        BY <1>1, <3>2, <4>1 DEF InTouch, Fresh, network
      <4> QED BY <3>2, <4>1, <4>2, <4>3 DEF InTouch, network
    <3> QED BY <1>1, <3>2, <3>3 DEF FirstLeads
  <2> QED BY <2>1, <2>2, <2>3 DEF Work
<1>4. CASE n # First
  <2>0. n \in up \ {First} /\ up' = up
    BY <1>4 DEF Work, Pass, Receive, AcceptHeartbeat, RejectHeartbeat, Broadcast, Transmit
  <2>1. /\ Listens(n, First, 0) /\ InTouch(n) /\ Fresh(n, First, 0) /\ Silent(n)
    BY <2>0 DEF FirstLeads, InTouch, Listens
  <2>2. timer[n] # 0
    BY <2>1, HasTime DEF Fresh
  <2>3. ASSUME \A k \in Member : k # n => Same(k)
        PROVE  /\ Leading(First, 0)' /\ Left(First)' = Left(First)
               /\ \A k \in up \ {First} : k # n => Same(k)
    <3>1. Same(First)
      BY <1>1, <1>4, <2>3
    <3> QED BY <1>1, <2>0, <2>3, <3>1 DEF Same, Leading, Left, Waiting
  <2>4. CASE Pass(n)
    <3>1. Same(n) /\ \A k \in Member : k # n => Same(k)
      BY <2>1, <2>2, <2>4, Idles, Elsewhere
    <3>2. /\ Leading(First, 0)' /\ Left(First)' = Left(First)
          /\ \A k \in up \ {First} : k # n => Same(k)
      BY <2>3, <3>1
    <3>3. Listens(n, First, 0)' /\ Fresh(n, First, 0)'
      BY <1>1, <2>1, <3>1, <3>2, Carried
    <3>4. InTouch(n)'
      BY <1>1, <2>1, <3>1, <3>2, <3>3 DEF InTouch, Same
    <3> QED BY <1>2, <2>0, <3>2, <3>3, <3>4
  <2>5. CASE Receive(n)
    <3>1. \A k \in Member : k # n => Same(k)
      BY <2>5, Elsewhere
    <3>2. /\ Leading(First, 0)' /\ Left(First)' = Left(First)
          /\ \A k \in up \ {First} : k # n => Same(k)
      BY <2>3, <3>1
    <3>3. epoch[n] = 0 /\ coordinator[n] = First
      BY <2>1 DEF Fresh
    <3>4. /\ Listens(n, First, 0)'
          /\ role'[n] = "FOLLOWER" /\ coordinator'[n] = First /\ epoch'[n] = 0
          /\ timer'[n] = Timeout + 1 /\ synchronized'[n] = TRUE
          /\ eligible'[n] = eligible[n] \cup {First}
      <4>1. First \in Member /\ n # First /\ Listens(n, First, 0)
        BY <1>1, <1>4, <2>1
      <4>2. Follows(n, First, 0) /\ 0 \in Nat
        BY <3>3 DEF Follows
      <4>3. TurnsTo(n, First, 0)
        BY <2>5, <4>1, <4>2, Hears
      <4> QED BY <4>3 DEF TurnsTo
    <3>5. Fresh(n, First, 0)'
      BY <1>1, <3>2, <3>4 DEF Fresh
    <3>6. InTouch(n)'
      BY <1>1, <2>1, <3>4, <3>5 DEF InTouch
    <3> QED BY <1>2, <2>0, <3>2, <3>4, <3>6
  <2>6. CASE Broadcast(n)
    BY <2>1, <2>6 DEF Broadcast, Transmit, Silent
  <2> QED BY <2>4, <2>5, <2>6 DEF Work
<1> QED BY <1>3, <1>4

\* The one thing that goes wrong costs the crew its coordinator, a member or
\* an interval.
LEMMA FirstLeadsFaults ==
  ASSUME TypeOK, TimelyCrew, faults = 0, outage \in Nat, FirstLeads,
         NEW n \in Member, Fault(n)
  PROVE  FirstLeads' \/ NobodyLeads'
<1>1. /\ up = Member /\ First \in Member /\ Leading(First, 0) /\ 0 \in Nat
      /\ Interval \in Nat /\ Timeout \in Nat /\ Delay \in Nat
      /\ faults' = 1 /\ outage' = outage /\ outage <= Interval
      /\ Slack = 0 /\ Slack' = Interval
  BY Times DEF FirstLeads, Fault, Slack
<1>2. Left(First) \in Nat /\ Left(First) <= Interval
  BY <1>1, LeftRange
<1>3. ASSUME NEW k \in up \ {First}
      PROVE  /\ Listens(k, First, 0) /\ InTouch(k) /\ timer[k] \in Nat
             /\ role[k] = "FOLLOWER" /\ coordinator[k] = First /\ epoch[k] = 0
             /\ eligible[k] = Member /\ timer[k] <= Timeout + 1
             /\ timer[k] + Interval >= Timeout + 1
  <2>1. Listens(k, First, 0) /\ InTouch(k) /\ timer[k] \in Nat
    BY <1>1, <1>3, NodeOf DEF FirstLeads
  <2> QED BY <1>1, <2>1 DEF InTouch, Fresh
<1>4. ASSUME \A k \in Member \ {First} : k \in up' =>
               /\ Listens(k, First, 0)'
               /\ role'[k] = role[k] /\ coordinator'[k] = coordinator[k]
               /\ eligible'[k] = eligible[k] /\ epoch'[k] = epoch[k]
               /\ timer'[k] = timer[k],
             Leading(First, 0)', up' \subseteq Member
      PROVE  FirstLeads'
  <2>1. Left(First)' \in Nat /\ Left(First)' <= Interval
    <3>1. timer'[First] <= Interval
      BY <1>4 DEF Leading
    <3>2. TypeOK'
      BY <1>1, TransmitTypeOK, EnvironmentTypeOK DEF Fault
    <3>3. timer'[First] \in 0..Longest
      BY <1>1, <3>2 DEF TypeOK
    <3>4. timer'[First] \in Nat
      BY <3>3, ConfigAssumption DEF Longest
    <3> QED BY <1>1, <3>1, <3>4 DEF Left
  <2>2. ASSUME NEW k \in up' \ {First} PROVE Listens(k, First, 0)' /\ InTouch(k)'
    <3>1. /\ k \in Member /\ Listens(k, First, 0)'
          /\ role'[k] = "FOLLOWER" /\ coordinator'[k] = First /\ epoch'[k] = 0
          /\ eligible'[k] = Member /\ timer'[k] \in Nat /\ timer'[k] <= Timeout + 1
          /\ timer'[k] + Interval >= Timeout + 1
      BY <1>1, <1>3, <1>4, <2>2
    <3>2. Fresh(k, First, 0)'
      BY <1>1, <2>1, <3>1 DEF Fresh
    <3>3. outage' + Left(First)' <= Interval + Slack'
      BY <1>1, <2>1
    <3> QED BY <3>1, <3>2, <3>3 DEF InTouch
  <2>3. outage' <= Interval + Slack' /\ faults' # 0
    BY <1>1
  <2> QED BY <1>4, <2>2, <2>3 DEF FirstLeads
<1>5. CASE PowerOff(n) /\ n = First
  <2>1. up' = Member \ {First}
    BY <1>1, <1>5 DEF PowerOff
  <2>0. PICK b \in 0..Interval : b = outage
    BY <1>1
  <2>2. ASSUME NEW k \in up' PROVE Orphaned(k, b)'
    <3>1. k \in up \ {First} /\ k \in Member /\ Same(k)
      BY <1>1, <1>5, <2>1, <2>2, Elsewhere
    <3>2. Listens(k, First, 0)'
      BY <1>3, <3>1 DEF Listens, Silent, Same, Beat
    <3>3. /\ role'[k] = "FOLLOWER" /\ coordinator'[k] = First /\ epoch'[k] = 0
          /\ eligible'[k] = Member /\ timer'[k] \in Nat /\ timer'[k] <= Timeout + 1
          /\ timer'[k] + Interval >= Timeout + 1
      BY <1>3, <3>1 DEF Same
    <3>4. Attached(k)'
      BY <3>3 DEF Attached
    <3>5. /\ timer'[k] + outage' <= b + Timeout + 1
          /\ timer'[k] + outage' + Interval >= b + Timeout + 1
      BY <1>1, <2>0, <3>3
    <3> QED BY <1>1, <2>0, <3>2, <3>4, <3>5 DEF Orphaned
  <2>3. outage' >= b
    BY <1>1, <2>0
  <2>4. \E t \in 0..Interval : outage' >= t /\ \A k \in up' : Orphaned(k, t)'
    BY <2>2, <2>3
  <2> QED BY <1>1, <2>1, <2>4 DEF NobodyLeads
<1>6. CASE PowerOff(n) /\ n # First
  <2>1. up' = Member \ {n} /\ \A k \in Member : k # n => Same(k)
    BY <1>1, <1>6, Elsewhere DEF PowerOff
  <2>2. Leading(First, 0)'
    BY <1>1, <1>6, <2>1 DEF Leading, Same
  <2>3. ASSUME NEW k \in Member \ {First}, k \in up'
        PROVE  /\ Listens(k, First, 0)' /\ Same(k)
    <3>1. Same(k) /\ Listens(k, First, 0)
      BY <1>1, <1>3, <2>1, <2>3
    <3> QED BY <3>1 DEF Listens, Silent, Same, Beat
  <2>4. FirstLeads'
    BY <1>4, <2>1, <2>2, <2>3 DEF Same
  <2> QED BY <2>4
<1>7. CASE PowerOn(n)
  BY <1>1, <1>7 DEF PowerOn
<1>8. ASSUME NEW m \in up \ {n}, Transmit(n, up \ {n, m})
      PROVE  FirstLeads'
  <2>1. n = First
    BY <1>1, <1>3, <1>8 DEF Transmit, Listens, Silent
  <2>2. Transmit(First, (up \ {m}) \ {First})
    <3>1. up \ {n, m} = (up \ {m}) \ {First}
      BY <2>1
    <3> QED BY <1>8, <2>1, <3>1
  <2>3. /\ Leading(First, 0)' /\ up' = up /\ network' = network
        /\ \A k \in Member \ {First} : Listens(k, First, 0) => Listens(k, First, 0)'
    BY <1>1, <2>2, Sends
  <2> QED BY <1>1, <1>3, <1>4, <2>3 DEF network
<1> QED BY <1>5, <1>6, <1>7, <1>8 DEF Fault

\* A pass over a node that waits for a replacement and is not the one to become
\* it: it goes to the next stage when its timer has run out.
LEMMA StagePass ==
  ASSUME TypeOK, NEW n \in Member, Pass(n), Silent(n),
         Attached(n) \/ Electing(n) \/ (Elector(n) /\ timer[n] # 0),
         n = Second => ~(Electing(n) /\ timer[n] = 0)
  PROVE  /\ Silent(n)' /\ inbox'[n] = inbox[n] /\ up' = up
         /\ \/ Same(n)
            \/ Attached(n) /\ timer[n] = 0 /\ Electing(n)' /\ timer'[n] = Delay
            \/ /\ Electing(n) /\ timer[n] = 0 /\ Elector(n)'
               /\ timer'[n] = Timeout + 1
<1>1. CASE timer[n] # 0
  <2>1. Same(n)
    BY <1>1, Idles
  <2> QED BY <2>1 DEF Same, Silent, Pass
<1>2. CASE Attached(n) /\ timer[n] = 0
  <2>1. TickTimeout(n) /\ ~AsksForHeartbeat(n)
    BY <1>2 DEF Pass, Tick, TickIdle, TickHeartbeat, TickElect, MayElect, Expired,
       AsksForHeartbeat, Attached
  <2>2. HoldHeartbeat(n) /\ Pending(n) = FALSE
    BY <2>1 DEF Pass, ScheduleHeartbeat, HoldHeartbeat, Pending, Silent
  <2>3. /\ Silent(n)' /\ inbox'[n] = inbox[n] /\ up' = up
    BY <2>2 DEF HoldHeartbeat, Silent, Pass, TypeOK
  <2>4. Survivors(n) = Member \ {First}
    BY <1>2 DEF Survivors, Attached
  <2>5. Electing(n)' /\ timer'[n] = Delay
    BY <1>2, <2>1, <2>4 DEF TickTimeout, Attached, Electing, TypeOK
  <2> QED BY <1>2, <2>3, <2>5
<1>3. CASE Electing(n) /\ timer[n] = 0
  <2>0. n # Second /\ Elected(n) = Second
    BY <1>3 DEF Elected, Electing, Second
  <2>1. ~AsksForHeartbeat(n)
    BY <1>3, <2>0 DEF AsksForHeartbeat, Expired, Electing
  <2>2. HoldHeartbeat(n) /\ Pending(n) = FALSE
    BY <2>1 DEF Pass, ScheduleHeartbeat, HoldHeartbeat, Pending, Silent
  <2>3. /\ Silent(n)' /\ inbox'[n] = inbox[n] /\ up' = up
    BY <2>2 DEF HoldHeartbeat, Silent, Pass, TypeOK
  <2>4. CASE TickElect(n)
    <3>1. Elector(n)' /\ timer'[n] = Timeout + 1
      BY <1>3, <2>0, <2>4 DEF TickElect, Electing, Elector, RoleUnder, TimerUnder, TypeOK
    <3> QED BY <1>3, <2>3, <3>1
  <2>5. CASE TickIdle(n)
    BY <2>2, <2>3, <2>5 DEF TickIdle, HoldHeartbeat, Same, Silent, network, TypeOK
  <2> QED BY <1>3, <2>4, <2>5 DEF Pass, Tick, TickHeartbeat, TickTimeout, Expired, Electing
<1> QED BY <1>1, <1>2, <1>3

\* The second lowest node elects itself, leads, and has a heartbeat to send.
LEMMA SecondElects ==
  ASSUME TypeOK, TimelyCrew, Second \in up, Electing(Second), timer[Second] = 0,
         Silent(Second), inbox[Second] = <<>>, Pass(Second)
  PROVE  Same(Second) \/ (Leading(Second, 1)' /\ Waiting(Second)')
<1>1. /\ Second \in Member /\ Elected(Second) = Second
      /\ Interval \in Nat /\ eligible[Second] = Member \ {First}
  BY SecondIsMember, Times DEF Elected, Electing, Second
<1>2. MayElect(Second) /\ Pending(Second)
  <2>1. Second \in eligible[Second]
    BY <1>1, SecondIsMember
  <2>2. MayElect(Second)
    BY <2>1 DEF MayElect, Expired, Electing
  <2>3. AsksForHeartbeat(Second)
    BY <1>1, <2>2 DEF AsksForHeartbeat
  <2> QED BY <2>2, <2>3 DEF Pending
<1>3. TickElect(Second)
  BY <1>2 DEF Pass, Tick, TickIdle, TickHeartbeat, TickTimeout, Expired, MayElect
<1>4. /\ role'[Second] = "COORDINATOR" /\ coordinator'[Second] = Second
      /\ epoch'[Second] = 1 /\ synchronized'[Second] /\ timer'[Second] = Interval
  <2>1. /\ coordinator' = [coordinator EXCEPT ![Second] = Second]
        /\ epoch' = [epoch EXCEPT ![Second] = @ + 1]
        /\ role' = [role EXCEPT ![Second] = "COORDINATOR"]
        /\ timer' = [timer EXCEPT ![Second] = Interval]
        /\ synchronized' = [synchronized EXCEPT ![Second] = TRUE]
    BY <1>1, <1>3 DEF TickElect, RoleUnder, TimerUnder
  <2>2. /\ role'[Second] = "COORDINATOR" /\ coordinator'[Second] = Second
        /\ synchronized'[Second] /\ timer'[Second] = Interval
    BY <1>1, <2>1 DEF TypeOK
  <2>3. epoch'[Second] = epoch[Second] + 1
    BY <1>1, <2>1 DEF TypeOK
  <2> QED BY <2>2, <2>3 DEF Electing
<1>5. \/ radio'[Second] = epoch'[Second]
      \/ heartbeatPending'[Second] = TRUE /\ radio'[Second] = Idle
  BY <1>1, <1>2 DEF Pass, ScheduleHeartbeat, HoldHeartbeat, Silent, TypeOK
<1>6. Waiting(Second)'
  BY <1>4, <1>5 DEF Waiting, Idle
<1>7. Leading(Second, 1)'
  <2>1. up' = up /\ inbox' = inbox
    BY DEF Pass
  <2> QED BY <1>1, <1>4, <1>5, <2>1 DEF Leading
<1> QED BY <1>6, <1>7

\* The second lowest node makes itself coordinator in time.
LEMMA OrphanWindow ==
  ASSUME TypeOK, TimelyCrew, outage \in Nat, NEW b \in Nat, Second \in up,
         \A k \in up : Orphaned(k, b)
  PROVE  outage <= b + Timeout + 1 + Delay
<1>1. /\ Second \in Member /\ Orphaned(Second, b) /\ timer[Second] \in Nat
      /\ Timeout \in Nat /\ Delay \in Nat
  BY SecondIsMember, NodeOf, Times
<1> QED BY <1>1 DEF Orphaned

\* Without a coordinator, time passes by the book.
LEMMA NobodyLeadsElapses ==
  ASSUME TypeOK, TimelyCrew, outage \in Nat, NobodyLeads, TAdvance
  PROVE  NobodyLeads'
<1>1. PICK b \in 0..Interval : outage >= b /\ \A n \in up : Orphaned(n, b)
  BY DEF NobodyLeads
<1>2. /\ b \in Nat /\ b <= Interval /\ Interval \in Nat /\ Timeout \in Nat
      /\ Delay \in Nat /\ OutageLimit \in Nat
      /\ faults = 1 /\ up = Member \ {First} /\ up \subseteq Member /\ Second \in up
  BY <1>1, Times, SecondIsMember DEF NobodyLeads, TypeOK
<1>3. ~Agreed
  BY <1>1 DEF Agreed, Leads, Orphaned, Attached, Electing, Elector
<1>4. outage' = outage + 1
  <2>1. outage <= b + Timeout + 1 + Delay
    BY <1>1, <1>2, OrphanWindow
  <2>2. outage <= OutageLimit
    BY <1>2, <2>1 DEF TimelyCrew
  <2> QED BY <1>2, <1>3, <2>2, Elapses
<1>5. ASSUME NEW n \in up' PROVE Orphaned(n, b)'
  <2>1. n \in up /\ n \in Member /\ Orphaned(n, b) /\ timer[n] \in Nat
    BY <1>1, <1>2, <1>5, Elapses, NodeOf
  <2>2. /\ role'[n] = role[n] /\ coordinator'[n] = coordinator[n]
        /\ eligible'[n] = eligible[n] /\ epoch'[n] = epoch[n]
        /\ heartbeatPending'[n] = heartbeatPending[n] /\ radio'[n] = radio[n]
        /\ inbox'[n] = inbox[n] /\ inbox'[n] = <<>> /\ timer'[n] = timer[n] - 1
        /\ timer[n] > 0
    BY <2>1, Elapses DEF driver
  <2>3. Listens(n, First, 0)'
    BY <2>1, <2>2 DEF Orphaned, Listens, Silent, Beat
  <2>4. timer'[n] + outage' = timer[n] + outage
    BY <1>4, <2>1, <2>2
  <2>5. outage' + Interval >= outage + Interval
    BY <1>2, <1>4
  <2>6. /\ Attached(n)' = Attached(n) /\ Electing(n)' = Electing(n)
        /\ Elector(n)' = Elector(n)
    BY <2>2 DEF Attached, Electing, Elector
  <2>7. \/ /\ Attached(n)'
           /\ timer'[n] + outage' <= b + Timeout + 1
           /\ timer'[n] + outage' + Interval >= b + Timeout + 1
        \/ /\ Electing(n)'
           /\ timer'[n] + outage' <= b + Timeout + 1 + Delay
           /\ timer'[n] + outage' + Interval >= b + Timeout + 1 + Delay
           /\ outage' + Interval >= b + Timeout + 1
        \/ /\ n # Second /\ Elector(n)'
           /\ timer'[n] + outage' + Interval >= b + 2 * (Timeout + 1) + Delay
           /\ outage' + Interval >= b + Timeout + 1 + Delay
    <3>1. CASE Attached(n)
      BY <1>2, <1>4, <2>1, <2>4, <2>5, <2>6, <3>1 DEF Orphaned, Attached, Electing, Elector
    <3>2. CASE Electing(n)
      BY <1>2, <1>4, <2>1, <2>4, <2>5, <2>6, <3>2 DEF Orphaned, Attached, Electing, Elector
    <3>3. CASE Elector(n) /\ n # Second
      BY <1>2, <1>4, <2>1, <2>4, <2>5, <2>6, <3>3, SecondIsMember
         DEF Orphaned, Attached, Electing, Elector
    <3> QED BY <2>1, <3>1, <3>2, <3>3 DEF Orphaned
  <2>8. inbox'[n] # <<>> => outage' = b
    BY <2>2
  <2> QED BY <2>3, <2>7, <2>8 DEF Orphaned
<1>6. up' = up /\ faults' = faults /\ outage' >= b
  BY <1>1, <1>2, <1>4, Elapses
<1> QED BY <1>1, <1>2, <1>5, <1>6 DEF NobodyLeads

\* Without a coordinator, every node that does its work gets on with the
\* election, and the second lowest node ends it.
LEMMA NobodyLeadsWorks ==
  ASSUME TypeOK, TimelyCrew, outage \in Nat, NobodyLeads, NEW n \in Member, Work(n)
  PROVE  NobodyLeads' \/ SecondLeads'
<1>1. PICK b \in 0..Interval : outage >= b /\ \A k \in up : Orphaned(k, b)
  BY DEF NobodyLeads
<1>2. /\ b \in Nat /\ b <= Interval /\ Interval \in Nat /\ Timeout \in Nat
      /\ Delay \in Nat /\ 2 * Interval <= Timeout
      /\ faults = 1 /\ up = Member \ {First} /\ First \in Member /\ Second \in up
      /\ faults' = faults /\ outage' = outage
  BY <1>1, Times, SecondIsMember DEF NobodyLeads, TimelyCrew, Work
<1>3. outage <= b + Timeout + 1 + Delay
  BY <1>1, <1>2, OrphanWindow
<1>4. /\ n \in up /\ up' = up /\ Orphaned(n, b) /\ Listens(n, First, 0) /\ Silent(n)
      /\ timer[n] \in Nat /\ n # First
  <2>1. n \in up /\ up' = up
    BY DEF Work, Pass, Receive, AcceptHeartbeat, RejectHeartbeat, Broadcast, Transmit
  <2> QED BY <1>1, <1>2, <2>1, NodeOf DEF Orphaned, Listens
<1>5. ASSUME NEW k \in up, Same(k) PROVE Orphaned(k, b)'
  <2>1. Orphaned(k, b)
    BY <1>1
  <2>2. Listens(k, First, 0)' = Listens(k, First, 0)
    BY <1>5 DEF Listens, Silent, Same, Beat
  <2>3. /\ Attached(k)' = Attached(k) /\ Electing(k)' = Electing(k)
        /\ Elector(k)' = Elector(k)
    BY <1>5 DEF Attached, Electing, Elector, Same
  <2>4. timer'[k] = timer[k] /\ inbox'[k] = inbox[k]
    BY <1>5 DEF Same
  <2> QED BY <1>2, <2>1, <2>2, <2>3, <2>4 DEF Orphaned
<1>6. ASSUME \A k \in Member : k # n => Same(k), Orphaned(n, b)'
      PROVE  NobodyLeads'
  <2>1. \A k \in up' : Orphaned(k, b)'
    BY <1>2, <1>4, <1>5, <1>6
  <2> QED BY <1>1, <1>2, <1>4, <2>1 DEF NobodyLeads
<1>7. CASE Pass(n)
  <2>0. \A k \in Member : k # n => Same(k)
    BY <1>7, Elsewhere
  <2>1. CASE ~(n = Second /\ Electing(n) /\ timer[n] = 0)
    <3>1. Attached(n) \/ Electing(n) \/ (Elector(n) /\ timer[n] # 0)
      BY <1>2, <1>3, <1>4 DEF Orphaned
    <3>2. /\ Silent(n)' /\ inbox'[n] = inbox[n]
          /\ \/ Same(n)
             \/ Attached(n) /\ timer[n] = 0 /\ Electing(n)' /\ timer'[n] = Delay
             \/ /\ Electing(n) /\ timer[n] = 0 /\ Elector(n)'
                /\ timer'[n] = Timeout + 1
      BY <1>4, <1>7, <2>1, <3>1, StagePass
    <3>3. Listens(n, First, 0)' /\ (inbox'[n] # <<>> => outage' = b)
      BY <1>2, <1>4, <3>2 DEF Listens, Orphaned, Beat
    <3>4. CASE Same(n)
      BY <1>4, <1>5, <1>6, <2>0, <3>4
    <3>5. CASE Attached(n) /\ timer[n] = 0 /\ Electing(n)' /\ timer'[n] = Delay
      <4>1. outage <= b + Timeout + 1 /\ outage + Interval >= b + Timeout + 1
        BY <1>2, <1>4, <3>5 DEF Orphaned, Attached, Electing, Elector
      <4>2. /\ timer'[n] + outage' <= b + Timeout + 1 + Delay
            /\ timer'[n] + outage' + Interval >= b + Timeout + 1 + Delay
            /\ outage' + Interval >= b + Timeout + 1
        BY <1>2, <3>5, <4>1
      <4>3. Orphaned(n, b)'
        BY <3>3, <3>5, <4>2 DEF Orphaned
      <4> QED BY <1>6, <2>0, <4>3
    <3>6. CASE /\ Electing(n) /\ timer[n] = 0 /\ Elector(n)' /\ timer'[n] = Timeout + 1
      <4>1. outage + Interval >= b + Timeout + 1 + Delay
        BY <1>2, <1>4, <3>6 DEF Orphaned, Attached, Electing, Elector
      <4>2. /\ timer'[n] + outage' + Interval >= b + 2 * (Timeout + 1) + Delay
            /\ outage' + Interval >= b + Timeout + 1 + Delay
        BY <1>2, <3>6, <4>1
      <4>3. Orphaned(n, b)'
        BY <2>1, <3>3, <3>6, <4>2 DEF Orphaned
      <4> QED BY <1>6, <2>0, <4>3
    <3> QED BY <3>2, <3>4, <3>5, <3>6
  <2>2. CASE n = Second /\ Electing(n) /\ timer[n] = 0
    <3>1. outage + Interval >= b + Timeout + 1 /\ outage # b
      BY <1>2, <1>4, <2>2 DEF Orphaned, Attached, Electing, Elector
    <3>2. \A k \in up : inbox[k] = <<>>
      BY <1>1, <3>1 DEF Orphaned
    <3>3. Same(Second) \/ (Leading(Second, 1)' /\ Waiting(Second)')
      BY <1>2, <1>4, <1>7, <2>2, <3>2, SecondElects
    <3>4. CASE Same(Second)
      BY <1>2, <1>5, <1>6, <2>0, <2>2, <3>4
    <3>5. CASE Leading(Second, 1)' /\ Waiting(Second)'
      <4>1. ASSUME NEW k \in up' \ {Second} PROVE Listens(k, Second, 1)' /\ Joining(k)'
        <5>1. /\ k \in up /\ k \in Member /\ Same(k) /\ Orphaned(k, b)
              /\ inbox[k] = <<>> /\ timer[k] \in Nat
          BY <1>1, <1>2, <1>4, <2>0, <2>2, <3>2, <4>1, NodeOf
        <5>2. Silent(k)' /\ inbox'[k] = <<>>
          BY <5>1 DEF Orphaned, Listens, Silent, Same
        <5>3. Listens(k, Second, 1)'
          BY <5>2 DEF Listens
        <5>4. Attached(k) \/ Electing(k) \/ (Elector(k) /\ timer[k] # 0)
          BY <1>2, <1>3, <5>1 DEF Orphaned
        <5>5. Attached(k)' \/ Electing(k)' \/ (Elector(k)' /\ timer'[k] # 0)
          BY <5>1, <5>4 DEF Same, Attached, Electing, Elector
        <5> QED BY <3>5, <5>3, <5>5 DEF Joining
      <4>2. outage' <= Interval + Timeout + 1 + Delay
        BY <1>2, <1>3
      <4> QED BY <1>2, <1>4, <3>5, <4>1, <4>2 DEF SecondLeads
    <3> QED BY <3>3, <3>4, <3>5
  <2> QED BY <2>1, <2>2
<1>8. CASE Receive(n)
  <2>0. \A k \in Member : k # n => Same(k)
    BY <1>8, Elsewhere
  <2>1. inbox[n] # <<>>
    BY <1>8 DEF Receive, AcceptHeartbeat, RejectHeartbeat
  <2>2. outage = b
    BY <1>4, <2>1 DEF Orphaned
  <2>3. Attached(n)
    BY <1>2, <1>4, <2>2 DEF Orphaned
  <2>4. epoch[n] = 0 /\ coordinator[n] = First /\ eligible[n] = Member /\ 0 \in Nat
    BY <2>3 DEF Attached
  <2>5. /\ Listens(n, First, 0)'
        /\ role'[n] = "FOLLOWER" /\ coordinator'[n] = First /\ epoch'[n] = 0
        /\ timer'[n] = Timeout + 1 /\ eligible'[n] = eligible[n] \cup {First}
    <3>1. First \in Member /\ n # First /\ Listens(n, First, 0)
      BY <1>2, <1>4
    <3>2. Follows(n, First, 0)
      BY <2>4 DEF Follows
    <3>3. TurnsTo(n, First, 0)
      BY <1>8, <2>4, <3>1, <3>2, Hears
    <3> QED BY <3>3 DEF TurnsTo
  <2>6. Attached(n)'
    BY <1>2, <2>4, <2>5 DEF Attached
  <2>7. Orphaned(n, b)'
    <3>1. /\ timer'[n] + outage' <= b + Timeout + 1
          /\ timer'[n] + outage' + Interval >= b + Timeout + 1
      BY <1>2, <2>2, <2>5
    <3> QED BY <1>2, <2>2, <2>5, <2>6, <3>1 DEF Orphaned
  <2> QED BY <1>6, <2>0, <2>7
<1>9. CASE Broadcast(n)
  BY <1>4, <1>9 DEF Broadcast, Transmit, Silent
<1> QED BY <1>7, <1>8, <1>9 DEF Work

\* Once the second lowest node leads, a node that does not follow it yet has
\* work to do before the clock moves.
LEMMA SecondLeadsElapses ==
  ASSUME TypeOK, TimelyCrew, outage \in Nat, SecondLeads, TAdvance
  PROVE  SecondLeads'
<1>1. /\ Second \in Member /\ Leading(Second, 1) /\ 1 \in Nat /\ up \subseteq Member
      /\ Interval \in Nat /\ Timeout \in Nat /\ Delay \in Nat
      /\ faults = 1 /\ Slack = Interval /\ Slack' = Interval
  <2>1. faults = 1 /\ faults' = 1 /\ Leading(Second, 1)
    BY Elapses DEF SecondLeads
  <2>2. Slack = Interval /\ Slack' = Interval
    BY <2>1 DEF Slack
  <2> QED BY <2>1, <2>2, SecondIsMember, Times DEF TypeOK
<1>2. /\ Waiting(Second) = FALSE /\ Left(Second) = timer[Second] /\ timer[Second] > 0
      /\ Left(Second)' = timer[Second] - 1 /\ Leading(Second, 1)'
      /\ timer[Second] \in Nat
  BY <1>1, LeftElapses, NodeOf
<1>3. ASSUME NEW n \in up \ {Second}
      PROVE  /\ n \in Member /\ Listens(n, Second, 1) /\ Fresh(n, Second, 1)
             /\ synchronized[n] = TRUE /\ inbox[n] = <<>> /\ timer[n] \in Nat
  BY <1>1, <1>2, <1>3, Elapses, NodeOf DEF SecondLeads, Joining
<1>4. Agreed
  <2>1. \A n \in up : coordinator[n] = Second /\ epoch[n] = 1 /\ synchronized[n]
    BY <1>1, <1>3 DEF Leading, Fresh
  <2>2. Leads(Second)
    BY <1>1, <2>1 DEF Leads, Leading
  <2> QED BY <1>1, <2>2 DEF Agreed
<1>5. outage' = 0
  BY <1>4, Elapses
<1>6. ASSUME NEW n \in up' \ {Second} PROVE Listens(n, Second, 1)' /\ Joining(n)'
  <2>1. /\ n \in up /\ n \in Member /\ Listens(n, Second, 1) /\ Fresh(n, Second, 1)
        /\ synchronized[n] = TRUE /\ inbox[n] = <<>> /\ timer[n] \in Nat
    BY <1>3, <1>6, Elapses
  <2>2. /\ role'[n] = role[n] /\ coordinator'[n] = coordinator[n]
        /\ epoch'[n] = epoch[n] /\ heartbeatPending'[n] = heartbeatPending[n]
        /\ synchronized'[n] = synchronized[n] /\ radio'[n] = radio[n]
        /\ inbox'[n] = inbox[n] /\ timer'[n] = timer[n] - 1 /\ timer[n] > 0
    BY <2>1, Elapses DEF driver
  <2>3. Listens(n, Second, 1)'
    BY <2>1, <2>2 DEF Listens, Silent, Beat
  <2>4. timer'[n] + Interval + Interval >= Timeout + 1 + (timer[Second] - 1)
    BY <1>1, <1>2, <2>1, <2>2 DEF Fresh
  <2>5. timer'[n] + Interval + Interval >= Timeout + 1
    BY <1>1, <1>2, <2>1, <2>2, <2>4
  <2>6. Fresh(n, Second, 1)'
    BY <1>1, <1>2, <2>1, <2>2, <2>4, <2>5 DEF Fresh
  <2> QED BY <2>1, <2>2, <2>3, <2>6 DEF Joining
<1>7. up' = up /\ faults' = faults
  BY Elapses
<1> QED BY <1>1, <1>2, <1>5, <1>6, <1>7 DEF SecondLeads

\* Once the second lowest node leads, a heartbeat that waits is sent, reaches
\* every inbox, and is taken.
LEMMA SecondLeadsWorks ==
  ASSUME TypeOK, TimelyCrew, outage \in Nat, SecondLeads, NEW n \in Member, Work(n)
  PROVE  SecondLeads'
<1>1. /\ Second \in Member /\ Second # First /\ Leading(Second, 1) /\ 1 \in Nat
      /\ Interval \in Nat /\ Timeout \in Nat /\ Delay \in Nat
      /\ faults = 1 /\ faults' = faults /\ outage' = outage
  BY SecondIsMember, Times DEF SecondLeads, Work
<1>2. /\ Slack = Interval /\ Slack' = Interval
      /\ Left(Second) \in Nat /\ Left(Second) <= Interval
  BY <1>1, LeftRange DEF Slack
<1>3. \A k \in up \ {Second} : k \in Member /\ Listens(k, Second, 1) /\ Joining(k)
  BY DEF SecondLeads, TypeOK
<1>4. ASSUME up' = up, Leading(Second, 1)', Left(Second)' = Left(Second),
             Waiting(Second)' = Waiting(Second),
             \A k \in up \ {Second} : k # n => Same(k),
             n \in up \ {Second} => Listens(n, Second, 1)' /\ Joining(n)'
      PROVE  SecondLeads'
  <2>1. ASSUME NEW k \in up \ {Second} PROVE Listens(k, Second, 1)' /\ Joining(k)'
    <3>1. CASE k = n
      BY <1>4, <2>1, <3>1
    <3>2. CASE k # n
      <4>1. Same(k) /\ k \in Member /\ Listens(k, Second, 1) /\ Joining(k)
        BY <1>3, <1>4, <2>1, <3>2
      <4>2. Listens(k, Second, 1)' /\ (Fresh(k, Second, 1) => Fresh(k, Second, 1)')
        BY <1>1, <1>4, <4>1, Carried
      <4>3. /\ Attached(k)' = Attached(k) /\ Electing(k)' = Electing(k)
            /\ Elector(k)' = Elector(k) /\ timer'[k] = timer[k] /\ inbox'[k] = inbox[k]
            /\ synchronized'[k] = synchronized[k]
        BY <4>1 DEF Attached, Electing, Elector, Same
      <4> QED BY <1>4, <4>1, <4>2, <4>3 DEF Joining
    <3> QED BY <3>1, <3>2
  <2> QED BY <1>1, <1>4, <2>1 DEF SecondLeads
<1>5. CASE n = Second
  <2>1. CASE Pass(n)
    <3>1. /\ Leading(Second, 1)' /\ Left(Second)' = Left(Second) /\ up' = up
          /\ Waiting(Second)' = Waiting(Second)
      BY <1>1, <1>5, <2>1, LeaderPass DEF Pass
    <3>2. \A k \in up \ {Second} : Same(k)
      BY <1>3, <1>5, <2>1, Elsewhere
    <3> QED BY <1>4, <1>5, <3>1, <3>2
  <2>2. CASE Receive(n)
    BY <1>1, <1>5, <2>2 DEF Receive, AcceptHeartbeat, RejectHeartbeat, Leading
  <2>3. CASE Broadcast(n)
    <3>1. Transmit(Second, up \ {Second})
      BY <1>5, <2>3 DEF Broadcast
    <3>2. /\ Leading(Second, 1)' /\ up' = up /\ network' = network /\ driver' = driver
          /\ \A k \in Member \ {Second} : Listens(k, Second, 1) => Listens(k, Second, 1)'
          /\ \A k \in up \cap Member : k # Second => inbox'[k] # <<>>
      BY <1>1, <3>1, Sends
    <3>3. ASSUME NEW k \in up \ {Second} PROVE Listens(k, Second, 1)' /\ Joining(k)'
      <4>1. k \in Member /\ Listens(k, Second, 1) /\ Joining(k) /\ inbox'[k] # <<>>
        BY <1>3, <3>2, <3>3
      <4>2. Listens(k, Second, 1)'
        BY <3>2, <4>1, <3>3
      <4>3. Fresh(k, Second, 1) => Fresh(k, Second, 1)'
        BY <1>2, <3>2, <4>1 DEF Fresh, network
      <4>4. /\ Attached(k)' = Attached(k) /\ Electing(k)' = Electing(k)
            /\ Elector(k)' = Elector(k) /\ timer'[k] = timer[k]
            /\ synchronized'[k] = synchronized[k]
        BY <3>2 DEF Attached, Electing, Elector, network, driver
      <4> QED BY <4>1, <4>2, <4>3, <4>4 DEF Joining
    <3> QED BY <1>1, <3>2, <3>3 DEF SecondLeads
  <2> QED BY <2>1, <2>2, <2>3 DEF Work
<1>6. CASE n # Second
  <2>0. n \in up \ {Second} /\ up' = up
    BY <1>6 DEF Work, Pass, Receive, AcceptHeartbeat, RejectHeartbeat, Broadcast, Transmit
  <2>1. Listens(n, Second, 1) /\ Joining(n) /\ Silent(n)
    BY <1>3, <2>0 DEF Listens
  <2>2. ASSUME \A k \in Member : k # n => Same(k)
        PROVE  /\ Leading(Second, 1)' /\ Left(Second)' = Left(Second)
               /\ Waiting(Second)' = Waiting(Second)
               /\ \A k \in up \ {Second} : k # n => Same(k)
    <3>1. Same(Second)
      BY <1>1, <1>6, <2>2
    <3> QED BY <1>1, <1>3, <2>0, <2>2, <3>1 DEF Same, Leading, Left, Waiting
  <2>3. CASE Pass(n)
    <3>1. \A k \in Member : k # n => Same(k)
      BY <2>3, Elsewhere
    <3>2. /\ Leading(Second, 1)' /\ Left(Second)' = Left(Second)
          /\ Waiting(Second)' = Waiting(Second)
          /\ \A k \in up \ {Second} : k # n => Same(k)
      BY <2>2, <3>1
    <3>3. CASE Fresh(n, Second, 1) /\ synchronized[n] = TRUE
      <4>1. timer[n] # 0
        BY <1>1, <3>3, HasTime DEF Fresh
      <4>2. Same(n)
        BY <2>1, <2>3, <4>1, Idles
      <4>3. Listens(n, Second, 1)' /\ Fresh(n, Second, 1)'
        BY <1>1, <2>1, <3>2, <3>3, <4>2, Carried
      <4>4. Joining(n)'
        BY <3>3, <4>2, <4>3 DEF Joining, Same
      <4> QED BY <1>4, <2>0, <3>2, <4>3, <4>4
    <3>4. CASE /\ Attached(n) \/ Electing(n) \/ (Elector(n) /\ timer[n] # 0)
               /\ Waiting(Second) \/ inbox[n] # <<>>
      <4>1. /\ Silent(n)' /\ inbox'[n] = inbox[n]
            /\ \/ Same(n)
               \/ Attached(n) /\ timer[n] = 0 /\ Electing(n)' /\ timer'[n] = Delay
               \/ /\ Electing(n) /\ timer[n] = 0 /\ Elector(n)'
                  /\ timer'[n] = Timeout + 1
        BY <1>6, <2>1, <2>3, <3>4, StagePass
      <4>2. Listens(n, Second, 1)'
        BY <2>1, <4>1 DEF Listens, Beat
      <4>3. Attached(n)' \/ Electing(n)' \/ (Elector(n)' /\ timer'[n] # 0)
        <5>1. CASE Same(n)
          BY <3>4, <5>1 DEF Same, Attached, Electing, Elector
        <5>2. Timeout + 1 # 0
          BY <1>1
        <5> QED BY <4>1, <5>1, <5>2
      <4>4. Joining(n)'
        BY <3>2, <3>4, <4>1, <4>3 DEF Joining
      <4> QED BY <1>4, <2>0, <3>2, <4>2, <4>4
    <3> QED BY <2>1, <3>3, <3>4 DEF Joining
  <2>4. CASE Receive(n)
    <3>1. \A k \in Member : k # n => Same(k)
      BY <2>4, Elsewhere
    <3>2. /\ Leading(Second, 1)' /\ Left(Second)' = Left(Second)
          /\ Waiting(Second)' = Waiting(Second)
          /\ \A k \in up \ {Second} : k # n => Same(k)
      BY <2>2, <3>1
    <3>3. Follows(n, Second, 1)
      BY <2>1 DEF Follows, Joining, Fresh, Attached, Electing, Elector
    <3>4. /\ Listens(n, Second, 1)'
          /\ role'[n] = "FOLLOWER" /\ coordinator'[n] = Second /\ epoch'[n] = 1
          /\ timer'[n] = Timeout + 1 /\ synchronized'[n] = TRUE
      <4>1. Second \in Member /\ n # Second /\ Listens(n, Second, 1) /\ 1 \in Nat
        BY <1>1, <1>6, <2>1
      <4>2. TurnsTo(n, Second, 1)
        BY <2>4, <3>3, <4>1, Hears
      <4> QED BY <4>2 DEF TurnsTo
    <3>5. Fresh(n, Second, 1)'
      BY <1>1, <1>2, <3>2, <3>4 DEF Fresh
    <3>6. Joining(n)'
      BY <3>4, <3>5 DEF Joining
    <3> QED BY <1>4, <2>0, <3>2, <3>4, <3>6
  <2>5. CASE Broadcast(n)
    BY <2>1, <2>5 DEF Broadcast, Transmit, Silent
  <2> QED BY <2>3, <2>4, <2>5 DEF Work
<1> QED BY <1>5, <1>6

\* The types and the three stages of a replacement, together.
TimelyInv == TypeOK /\ faults \in Nat /\ outage \in Nat /\ TInv

\* The crew is switched on with its first coordinator leading.
LEMMA StartsInTouch == TInit => TimelyInv
<1> SUFFICES ASSUME TInit PROVE TimelyInv
  OBVIOUS
<1>1. /\ TypeOK /\ up = Member /\ faults = 0 /\ outage = 0 /\ First \in Member
      /\ Interval \in Nat /\ Interval > 0 /\ Timeout \in Nat /\ Slack = 0
  BY InitTypeOK, Times DEF TInit, Init, Slack
<1>2. /\ role[First] = "COORDINATOR" /\ coordinator[First] = First /\ epoch[First] = 0
      /\ synchronized[First] /\ timer[First] = Interval /\ inbox[First] = <<>>
      /\ radio[First] = Idle /\ heartbeatPending[First] = FALSE
  BY <1>1 DEF TInit, Init, RoleUnder, TimerUnder, First
<1>3. Leading(First, 0) /\ Left(First) = Interval
  BY <1>1, <1>2 DEF Leading, Left, Waiting
<1>4. ASSUME NEW n \in up \ {First} PROVE Listens(n, First, 0) /\ InTouch(n)
  <2>1. /\ role[n] = "FOLLOWER" /\ coordinator[n] = First /\ epoch[n] = 0
        /\ eligible[n] = Member /\ timer[n] = Timeout + 1 /\ inbox[n] = <<>>
        /\ radio[n] = Idle /\ heartbeatPending[n] = FALSE
    BY <1>1, <1>4 DEF TInit, Init, RoleUnder, TimerUnder, First
  <2>2. Listens(n, First, 0)
    BY <2>1 DEF Listens, Silent
  <2>3. Fresh(n, First, 0)
    BY <1>1, <1>3, <2>1 DEF Fresh
  <2> QED BY <1>1, <1>3, <2>1, <2>2, <2>3 DEF InTouch
<1>5. FirstLeads
  BY <1>1, <1>3, <1>4 DEF FirstLeads
<1> QED BY <1>1, <1>5 DEF TimelyInv, TInv

\* Every step of the timely crew is a step of the crew.
LEMMA TimelyStep == TypeOK /\ [TNext]_tvars => [Next]_vars
<1> SUFFICES ASSUME TypeOK, [TNext]_tvars PROVE [Next]_vars
  OBVIOUS
<1>1. CASE UNCHANGED tvars
  BY <1>1 DEF tvars
<1>2. CASE TAdvance
  BY <1>2 DEF TAdvance, Next
<1>3. ASSUME NEW n \in Member, Work(n) PROVE [Next]_vars
  BY <1>3 DEF Work, Broadcast, Next
<1>4. ASSUME NEW n \in Member, Fault(n) PROVE [Next]_vars
  <2>1. ASSUME NEW m \in up \ {n}, Transmit(n, up \ {n, m}) PROVE [Next]_vars
    <3>1. up \ {n, m} = (up \ {m}) \ {n} /\ up \ {m} \in SUBSET up
      OBVIOUS
    <3>2. Transmit(n, (up \ {m}) \ {n})
      BY <2>1, <3>1
    <3> QED BY <3>1, <3>2 DEF Next
  <2> QED BY <1>4, <2>1 DEF Fault, Next
<1> QED BY <1>1, <1>2, <1>3, <1>4 DEF TNext

\* Every step of a timely crew keeps it in one of the three stages, as long as
\* at most one thing has gone wrong.
LEMMA TimelyInvStep ==
  ASSUME TimelyCrew, TimelyInv, [TNext]_tvars
  PROVE  TimelyInv'
<1>1. TypeOK' /\ TypeOK /\ faults \in Nat /\ outage \in Nat
  BY TimelyStep, StepTypeOK DEF TimelyInv
<1>2. CASE UNCHANGED tvars
  <2>1. /\ UNCHANGED <<up, role, coordinator, eligible, epoch, timer>>
        /\ UNCHANGED <<heartbeatPending, synchronized, radio, inbox, faults, outage>>
    BY <1>2 DEF tvars, vars, network, driver
  <2>2. FirstLeads' = FirstLeads
    BY <2>1 DEF FirstLeads, Leading, Listens, Silent, InTouch, Fresh, Left, Waiting,
       Slack, Beat
  <2>3. NobodyLeads' = NobodyLeads
    BY <2>1 DEF NobodyLeads, Orphaned, Listens, Silent, Attached, Electing, Elector, Beat
  <2>4. SecondLeads' = SecondLeads
    BY <2>1 DEF SecondLeads, Leading, Listens, Silent, Joining, Fresh, Left, Waiting,
       Slack, Attached, Electing, Elector, Beat
  <2> QED BY <1>1, <2>1, <2>2, <2>3, <2>4 DEF TimelyInv, TInv
<1>3. CASE TAdvance
  <2>1. faults' = faults /\ outage' \in Nat
    BY <1>1, <1>3, Elapses
  <2>2. ASSUME faults <= 1 PROVE FirstLeads' \/ NobodyLeads' \/ SecondLeads'
    <3>1. faults \in 0..1 /\ (FirstLeads \/ NobodyLeads \/ SecondLeads)
      BY <1>1, <2>2 DEF TimelyInv, TInv
    <3> QED BY <1>1, <1>3, <3>1, FirstLeadsElapses, NobodyLeadsElapses, SecondLeadsElapses
  <2> QED BY <1>1, <2>1, <2>2 DEF TimelyInv, TInv
<1>4. ASSUME NEW n \in Member, Work(n) PROVE TimelyInv'
  <2>1. faults' = faults /\ outage' = outage
    BY <1>4 DEF Work
  <2>2. ASSUME faults <= 1 PROVE FirstLeads' \/ NobodyLeads' \/ SecondLeads'
    <3>1. faults \in 0..1 /\ (FirstLeads \/ NobodyLeads \/ SecondLeads)
      BY <1>1, <2>2 DEF TimelyInv, TInv
    <3> QED BY <1>1, <1>4, <3>1, FirstLeadsWorks, NobodyLeadsWorks, SecondLeadsWorks
  <2> QED BY <1>1, <2>1, <2>2 DEF TimelyInv, TInv
<1>5. ASSUME NEW n \in Member, Fault(n) PROVE TimelyInv'
  <2>1. faults' = faults + 1 /\ outage' = outage
    BY <1>5 DEF Fault
  <2>2. ASSUME faults' <= 1 PROVE FirstLeads' \/ NobodyLeads'
    <3>1. faults = 0 /\ FirstLeads
      BY <1>1, <2>1, <2>2 DEF TimelyInv, TInv, NobodyLeads, SecondLeads
    <3> QED BY <1>1, <1>5, <3>1, FirstLeadsFaults
  <2> QED BY <1>1, <2>1, <2>2 DEF TimelyInv, TInv
<1> QED BY <1>2, <1>3, <1>4, <1>5 DEF TNext

\* Each of the three stages keeps the crew's outage within the limit.
LEMMA StagesAreShort ==
  ASSUME TimelyCrew, TimelyInv
  PROVE  ReplacedInTime
<1>1. /\ TypeOK /\ faults \in Nat /\ outage \in Nat /\ Interval \in Nat
      /\ Timeout \in Nat /\ Delay \in Nat /\ OutageLimit \in Nat
      /\ 2 * Interval <= Timeout /\ Interval + Timeout + 1 + Delay <= OutageLimit
  BY Times DEF TimelyInv, TimelyCrew
<1>2. CASE FirstLeads
  <2>1. outage <= Interval + Interval
    BY <1>1, <1>2 DEF FirstLeads, Slack
  <2> QED BY <1>1, <2>1 DEF ReplacedInTime
<1>3. CASE NobodyLeads
  <2>1. PICK b \in 0..Interval : \A n \in up : Orphaned(n, b)
    BY <1>3 DEF NobodyLeads
  <2>2. Second \in up /\ b \in Nat /\ b <= Interval
    BY <1>1, <1>3, SecondIsMember DEF NobodyLeads
  <2>3. outage <= b + Timeout + 1 + Delay
    BY <1>1, <2>1, <2>2, OrphanWindow
  <2> QED BY <1>1, <2>2, <2>3 DEF ReplacedInTime
<1>4. CASE SecondLeads
  BY <1>1, <1>4 DEF SecondLeads, ReplacedInTime
<1> QED BY <1>2, <1>3, <1>4 DEF TimelyInv, TInv, ReplacedInTime

\* Whatever one thing goes wrong, and whenever it does, the crew is without an
\* agreed coordinator for at most a superframe, a timeout and an election delay.
THEOREM ReplacedWithinLimit ==
  ASSUME TimelyCrew
  PROVE  TSpec => []ReplacedInTime
<1>1. TInit => TimelyInv
  BY StartsInTouch
<1>2. TimelyInv /\ [TNext]_tvars => TimelyInv'
  BY TimelyInvStep
<1>3. TimelyInv => ReplacedInTime
  BY StagesAreShort
<1> QED BY <1>1, <1>2, <1>3, PTL DEF TSpec
=============================================================================
