------------------------ MODULE CoordinatorElection ------------------------
(***************************************************************************)
(* Coordinator election of an OpenRef crew: the portable state machine of  *)
(* firmware/common/openref_network.c run by the FG23 main loop of          *)
(* firmware/prototype0/fg23/src/openref_network_fg23.c, one instance per   *)
(* radio, over a broadcast medium that loses packets.                      *)
(*                                                                         *)
(* Time is counted in units of the main loop's choosing.  Each role reads  *)
(* one deadline only, and entering the role sets that deadline, so a node  *)
(* keeps one timer: the time left until                                    *)
(*   - FOLLOWER:    now - last_heartbeat_us exceeds heartbeat_timeout_us,  *)
(*   - COORDINATOR: now reaches next_heartbeat_us,                         *)
(*   - ELECTION:    now reaches election_deadline_us,                      *)
(* with 0 for a deadline that has passed.  Nothing makes a node run when   *)
(* its timer expires: the main loop may be late by any amount.             *)
(***************************************************************************)
EXTENDS Integers, Sequences, FiniteSetsExt

CONSTANTS
  Member,              \* member_mask: the node ids of the crew
  InitialCoordinator,  \* initial_coordinator_id
  Managed,             \* ids whose eligibility the application may change
  Interval,            \* heartbeat_interval_us
  Timeout,             \* heartbeat_timeout_us
  Delay,               \* election_delay_us
  RxHeld,              \* bound: packets a radio holds for the main loop
  MaxEpoch             \* bound: last coordinator_epoch explored

ASSUME ConfigAssumption ==
  /\ Member \subseteq 1..6
  /\ InitialCoordinator \in Member
  /\ Managed \subseteq Member
  /\ Interval \in Nat \ {0}
  /\ Timeout \in Nat \ {0}
  /\ Delay \in Nat \ {0}
  /\ RxHeld \in Nat
  /\ MaxEpoch \in Nat

VARIABLES
  up,                \* the nodes that are powered and configured
  role,              \* openref_network_state_t, one field per function
  coordinator,
  eligible,
  epoch,
  timer,
  heartbeatPending,  \* static state of the FG23 driver
  synchronized,      \* schedule_synchronized
  radio,             \* epoch of the heartbeat RAIL holds for its slot, or Idle
  inbox              \* heartbeats held for process_rx, oldest first

network == <<role, coordinator, eligible, epoch, timer>>
driver  == <<heartbeatPending, synchronized>>
vars    == <<up, network, driver, radio, inbox>>

Role      == {"FOLLOWER", "COORDINATOR", "ELECTION"}
Epoch     == 0..MaxEpoch
Heartbeat == [source : Member, epoch : Epoch]
Idle      == -1

Longest == Timeout + Interval + Delay

TypeOK ==
  /\ up \subseteq Member
  /\ role \in [Member -> Role]
  /\ coordinator \in [Member -> Member]
  /\ eligible \in [Member -> SUBSET Member]
  /\ epoch \in [Member -> Epoch]
  /\ timer \in [Member -> 0..Longest]
  /\ heartbeatPending \in [Member -> BOOLEAN]
  /\ synchronized \in [Member -> BOOLEAN]
  /\ radio \in [Member -> Epoch \cup {Idle}]
  /\ inbox \in [Member -> Seq(Heartbeat)]

----------------------------------------------------------------------------
(* openref_network_init, and what the driver sets beside it.               *)

RoleUnder(n, c)  == IF c = n THEN "COORDINATOR" ELSE "FOLLOWER"
TimerUnder(n, c) == IF c = n THEN Interval ELSE Timeout + 1

Init ==
  /\ up = Member
  /\ role = [n \in Member |-> RoleUnder(n, InitialCoordinator)]
  /\ coordinator = [n \in Member |-> InitialCoordinator]
  /\ eligible = [n \in Member |-> Member]
  /\ epoch = [n \in Member |-> 0]
  /\ timer = [n \in Member |-> TimerUnder(n, InitialCoordinator)]
  /\ heartbeatPending = [n \in Member |-> FALSE]
  /\ synchronized = [n \in Member |-> (n = InitialCoordinator)]
  /\ radio = [n \in Member |-> Idle]
  /\ inbox = [n \in Member |-> <<>>]

----------------------------------------------------------------------------
(* openref_network_tick: its four outcomes.                                *)

Expired(n, r) == role[n] = r /\ timer[n] = 0

MayElect(n) == Expired(n, "ELECTION") /\ eligible[n] # {}

Elected(n) == Min(eligible[n])

\* OPENREF_NETWORK_ACTION_SEND_HEARTBEAT is among the actions returned.
AsksForHeartbeat(n) ==
  \/ Expired(n, "COORDINATOR")
  \/ MayElect(n) /\ Elected(n) = n

TickIdle(n) ==
  /\ ~Expired(n, "COORDINATOR")
  /\ ~Expired(n, "FOLLOWER")
  /\ ~MayElect(n)
  /\ UNCHANGED <<network, synchronized>>

\* advance_periodic keeps to the grid of the first deadline: how much of the
\* next interval is left depends on how late the pass is.
TickHeartbeat(n) ==
  /\ Expired(n, "COORDINATOR")
  /\ \E left \in 1..Interval : timer' = [timer EXCEPT ![n] = left]
  /\ UNCHANGED <<role, coordinator, eligible, epoch, synchronized>>

\* Mistake: clears the bit of the id after the lost coordinator's.
Survivors_WrongBit(n) == eligible[n] \ {coordinator[n] + 1}

\* Mistake: the lost coordinator stays a candidate.
Survivors_All(n) == eligible[n]

Survivors(n) == eligible[n] \ {coordinator[n]}

\* Mistake: the driver ignores COORDINATOR_TIMEOUT.
TickTimeout_KeepsSchedule(n) ==
  /\ Expired(n, "FOLLOWER")
  /\ eligible' = [eligible EXCEPT ![n] = Survivors(n)]
  /\ role' = [role EXCEPT ![n] = "ELECTION"]
  /\ timer' = [timer EXCEPT ![n] = Delay]
  /\ UNCHANGED <<coordinator, epoch, synchronized>>

TickTimeout(n) ==
  /\ Expired(n, "FOLLOWER")
  /\ eligible' = [eligible EXCEPT ![n] = Survivors(n)]
  /\ role' = [role EXCEPT ![n] = "ELECTION"]
  /\ timer' = [timer EXCEPT ![n] = Delay]
  /\ synchronized' = [synchronized EXCEPT ![n] = FALSE]
  /\ UNCHANGED <<coordinator, epoch>>

TickElect(n) ==
  /\ MayElect(n)
  /\ epoch[n] < MaxEpoch
  /\ coordinator' = [coordinator EXCEPT ![n] = Elected(n)]
  /\ epoch' = [epoch EXCEPT ![n] = @ + 1]
  /\ role' = [role EXCEPT ![n] = RoleUnder(n, Elected(n))]
  /\ timer' = [timer EXCEPT ![n] = TimerUnder(n, Elected(n))]
  /\ synchronized' = [synchronized EXCEPT ![n] = Elected(n) = n]
  /\ UNCHANGED eligible

Tick(n) == TickIdle(n) \/ TickHeartbeat(n) \/ TickTimeout(n) \/ TickElect(n)

----------------------------------------------------------------------------
(* The rest of openref_network_fg23_process: at most one packet is handed  *)
(* to the radio per pass, after the previous one has completed, so that    *)
(* tx_pending says whether the radio is busy.  Audio frames share the      *)
(* radio but never touch the election; they are the reason why a heartbeat *)
(* may have to wait.                                                       *)

Pending(n) == heartbeatPending[n] \/ AsksForHeartbeat(n)

\* The heartbeat carries the epoch the node holds now, whoever set it.
ScheduleHeartbeat(n) ==
  /\ Pending(n) /\ radio[n] = Idle /\ synchronized'[n]
  /\ heartbeatPending' = [heartbeatPending EXCEPT ![n] = FALSE]
  /\ radio' = [radio EXCEPT ![n] = epoch'[n]]

\* No heartbeat is due, the radio is busy, the node is not synchronized, its
\* audio slot comes before the control slot, or RAIL refuses the packet.
HoldHeartbeat(n) ==
  /\ heartbeatPending' = [heartbeatPending EXCEPT ![n] = Pending(n)]
  /\ UNCHANGED radio

Pass(n) ==
  /\ n \in up
  /\ Tick(n)
  /\ ScheduleHeartbeat(n) \/ HoldHeartbeat(n)
  /\ UNCHANGED <<up, inbox>>

----------------------------------------------------------------------------
(* process_rx, one packet at a time, and openref_network_receive_heartbeat.*)

\* Mistake: any claim of the current epoch is taken.
Accepts_AnyOfEpoch(n, beat) ==
  beat.source \in Member /\ beat.epoch >= epoch[n]

\* Mistake: a lower id wins whatever its epoch.
Accepts_LowerId(n, beat) ==
  /\ beat.source \in Member
  /\ beat.epoch > epoch[n] \/ beat.source <= coordinator[n]

\* Mistake: two coordinators of one epoch do not give way to each other.
Accepts_NoTieBreak(n, beat) ==
  /\ beat.source \in Member
  /\ \/ beat.epoch > epoch[n]
     \/ beat.epoch = epoch[n] /\ beat.source = coordinator[n]

\* (epoch, lower id) orders claims to the crew; an equal claim is a refresh.
Accepts(n, beat) ==
  /\ beat.source \in Member
  /\ \/ beat.epoch > epoch[n]
     \/ beat.epoch = epoch[n] /\ beat.source <= coordinator[n]

AcceptHeartbeat(n) ==
  LET beat == Head(inbox[n]) IN
  /\ n \in up /\ inbox[n] # <<>>
  /\ beat.source # n
  /\ Accepts(n, beat)
  /\ inbox' = [inbox EXCEPT ![n] = Tail(@)]
  /\ eligible' = [eligible EXCEPT ![n] = @ \cup {beat.source}]
  /\ coordinator' = [coordinator EXCEPT ![n] = beat.source]
  /\ epoch' = [epoch EXCEPT ![n] = beat.epoch]
  /\ role' = [role EXCEPT ![n] = RoleUnder(n, beat.source)]
  /\ timer' = [timer EXCEPT ![n] = TimerUnder(n, beat.source)]
  /\ synchronized' = [synchronized EXCEPT ![n] = TRUE]
  /\ UNCHANGED <<up, heartbeatPending, radio>>

RejectHeartbeat(n) ==
  LET beat == Head(inbox[n]) IN
  /\ n \in up /\ inbox[n] # <<>>
  /\ beat.source = n \/ ~Accepts(n, beat)
  /\ inbox' = [inbox EXCEPT ![n] = Tail(@)]
  /\ UNCHANGED <<up, network, driver, radio>>

Receive(n) == AcceptHeartbeat(n) \/ RejectHeartbeat(n)

----------------------------------------------------------------------------
(* openref_network_set_member_eligible, for the ids in Managed.            *)

SetMemberEligible(n, m) ==
  /\ n \in up /\ m \in Managed
  /\ eligible' = [eligible EXCEPT ![n] = IF m \in @ THEN @ \ {m} ELSE @ \cup {m}]
  /\ UNCHANGED <<up, role, coordinator, epoch, timer, driver, radio, inbox>>

----------------------------------------------------------------------------
(* The radio, the clock and the power switch.                              *)

Deliver(beat, heard) ==
  inbox' = [r \in Member |->
              IF r \in heard /\ Len(inbox[r]) < RxHeld
                THEN Append(inbox[r], beat) ELSE inbox[r]]

\* The scheduled transmission completes; "heard" are the nodes it reaches,
\* none when it is aborted or blocked.
Transmit(n, heard) ==
  /\ n \in up /\ radio[n] # Idle
  /\ radio' = [radio EXCEPT ![n] = Idle]
  /\ Deliver([source |-> n, epoch |-> radio[n]], heard)
  /\ UNCHANGED <<up, network, driver>>

Advance ==
  /\ timer' = [n \in Member |->
                 IF n \in up /\ timer[n] > 0 THEN timer[n] - 1 ELSE timer[n]]
  /\ UNCHANGED <<up, role, coordinator, eligible, epoch, driver, radio, inbox>>

\* Nothing is persisted: what is left is what the next boot will write.
PowerOff(n) ==
  /\ n \in up
  /\ up' = up \ {n}
  /\ role' = [role EXCEPT ![n] = RoleUnder(n, InitialCoordinator)]
  /\ coordinator' = [coordinator EXCEPT ![n] = InitialCoordinator]
  /\ eligible' = [eligible EXCEPT ![n] = Member]
  /\ epoch' = [epoch EXCEPT ![n] = 0]
  /\ timer' = [timer EXCEPT ![n] = TimerUnder(n, InitialCoordinator)]
  /\ heartbeatPending' = [heartbeatPending EXCEPT ![n] = FALSE]
  /\ synchronized' = [synchronized EXCEPT ![n] = (n = InitialCoordinator)]
  /\ radio' = [radio EXCEPT ![n] = Idle]
  /\ inbox' = [inbox EXCEPT ![n] = <<>>]

PowerOn(n) ==
  /\ n \in Member \ up
  /\ up' = up \cup {n}
  /\ UNCHANGED <<network, driver, radio, inbox>>

Next ==
  \/ \E n \in Member : Pass(n) \/ Receive(n) \/ PowerOff(n) \/ PowerOn(n)
  \/ \E n \in Member, heard \in SUBSET up : Transmit(n, heard \ {n})
  \/ \E n, m \in Member : SetMemberEligible(n, m)
  \/ Advance

Spec == Init /\ [][Next]_vars

----------------------------------------------------------------------------
(* Properties.                                                             *)

\* The role and the coordinator id are set in five places of
\* openref_network.c and never disagree: a node that acts as coordinator names
\* itself, a follower names someone else (so a timeout never strikes the node
\* itself out of its own eligible_mask).
RoleMatchesCoordinator ==
  \A n \in Member :
    /\ role[n] = "COORDINATOR" => coordinator[n] = n
    /\ role[n] = "FOLLOWER" => coordinator[n] # n

\* openref_network_tick leaves ELECTION only when someone is eligible; unless
\* the application itself withdraws the node, the node can always elect itself,
\* so a lone survivor never waits in ELECTION forever.
CanElectItself ==
  \A n \in Member \ Managed : n \in eligible[n]

\* The driver's schedule_synchronized follows the role through timeouts,
\* elections and heartbeats: a coordinator may always transmit (it has to send
\* the heartbeat that ends the others' timeout) and a node in ELECTION, whose
\* slot origin is the lost coordinator's, schedules nothing.
TransmitsOnlyInSchedule ==
  \A n \in Member :
    /\ role[n] = "COORDINATOR" => synchronized[n]
    /\ role[n] = "ELECTION" => ~synchronized[n]

\* While a node stays powered, the claim it follows only ever gives way to a
\* higher epoch or to a lower id at the same epoch, whatever is lost, delayed or
\* answered by a returned coordinator ("stale coordinators cannot reclaim the
\* schedule", docs/protocol/prototype-0-network-protocol.md:70-71).
ClaimNeverGoesBack ==
  [][\A n \in up \cap up' :
       \/ epoch'[n] > epoch[n]
       \/ epoch'[n] = epoch[n] /\ coordinator'[n] <= coordinator[n]]_vars

\* A node gives up the coordinator role only to a claim that outranks its own:
\* no expiry, no scheduling failure and no stale heartbeat demotes it.
YieldsOnlyToBetterClaim ==
  [][\A n \in up \cap up' :
       role[n] = "COORDINATOR" /\ role'[n] # "COORDINATOR" =>
         /\ role'[n] = "FOLLOWER"
         /\ \/ epoch'[n] > epoch[n]
            \/ epoch'[n] = epoch[n] /\ coordinator'[n] < n]_vars
============================================================================
