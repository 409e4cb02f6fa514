-------------------------- MODULE TimelyElection --------------------------
(***************************************************************************)
(* CoordinatorElection on a bench that works most of the time: main loops  *)
(* and radios finish what is due before the next time unit starts, and     *)
(* what goes wrong (a heartbeat some node does not hear, a node switched   *)
(* off or on) is counted and bounded.  One time unit must cover the wait   *)
(* for a control slot, a superframe or two of 20 ms, and the main loop's   *)
(* passes in between, which take microseconds.                             *)
(***************************************************************************)
EXTENDS CoordinatorElection

CONSTANTS
  MaxFaults,   \* bound: things that go wrong in one behaviour
  OutageLimit  \* time units the crew may be without an agreed coordinator

ASSUME TimingAssumption ==
  /\ MaxFaults \in Nat
  /\ OutageLimit \in Nat

VARIABLES
  faults,  \* what has gone wrong so far
  outage   \* time units since the crew last agreed on a coordinator

tvars == <<vars, faults, outage>>

\* One powered node acts as coordinator and all the others follow it.
Leads(c) ==
  /\ c \in up /\ role[c] = "COORDINATOR"
  /\ \A n \in up :
       /\ coordinator[n] = c /\ epoch[n] = epoch[c]
       /\ synchronized[n]

Agreed == \E c \in Member : Leads(c)

TInit == Init /\ faults = 0 /\ outage = 0

\* Nothing is left to do at this instant.
Settled ==
  \A n \in up :
    /\ timer[n] > 0
    /\ inbox[n] = <<>>
    /\ radio[n] = Idle
    /\ ~(heartbeatPending[n] /\ synchronized[n])

Broadcast(n) == Transmit(n, up \ {n})

TAdvance ==
  /\ Settled
  /\ Advance
  /\ outage' = IF Agreed THEN 0
               ELSE IF outage > OutageLimit THEN outage ELSE outage + 1
  /\ UNCHANGED faults

Work(n) ==
  /\ Pass(n) \/ Receive(n) \/ Broadcast(n)
  /\ UNCHANGED <<faults, outage>>

Fault(n) ==
  /\ faults < MaxFaults
  /\ \/ PowerOff(n)
     \/ PowerOn(n)
     \/ \E m \in up \ {n} : Transmit(n, up \ {n, m})
  /\ faults' = faults + 1
  /\ UNCHANGED outage

TNext == TAdvance \/ \E n \in Member : Work(n) \/ Fault(n)

\* The main loop runs for ever, RAIL completes every transmission, and a
\* control slot comes up again and again before an audio slot does, so a
\* heartbeat that may be scheduled infinitely often is scheduled in the end.
Fairness ==
  /\ WF_tvars(TAdvance)
  /\ \A n \in Member :
       /\ WF_tvars(Pass(n) /\ UNCHANGED <<faults, outage>>)
       /\ SF_tvars(Pass(n) /\ radio'[n] # radio[n] /\ UNCHANGED <<faults, outage>>)
       /\ WF_tvars(Receive(n) /\ UNCHANGED <<faults, outage>>)
       /\ WF_tvars(Broadcast(n) /\ UNCHANGED <<faults, outage>>)

TSpec == TInit /\ [][TNext]_tvars /\ Fairness

----------------------------------------------------------------------------
\* Once nothing more goes wrong the crew settles on one coordinator that
\* everybody follows at one epoch, for good, whatever mix of roles, epochs and
\* pending heartbeats the faults have left behind
\* (docs/protocol/prototype-0-network-protocol.md:21-22).
Converges == <>[](up = {} \/ Agreed)

\* "Removing the coordinator produces a replacement and resumed scheduling
\* within 500 ms" (docs/protocol/prototype-0-network-protocol.md:83-84).
ReplacedInTime == faults <= 1 => outage <= OutageLimit

============================================================================
