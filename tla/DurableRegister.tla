-------------------------- MODULE DurableRegister --------------------------
(***************************************************************************)
(* What a persistent record store promises its client: a value it has      *)
(* loaded or saved stays durable until another save succeeds or is         *)
(* interrupted, whatever fails and whenever the power is lost.             *)
(***************************************************************************)
CONSTANTS Content, \* what the medium may hold
          Nothing  \* no value: an empty store, no save in progress

VARIABLES durable, \* the value the next start will find
          known,   \* the value the client has loaded or saved since the reset
          request, \* the value being saved
          saved    \* the value of the last save, if it reported success

regVars == <<durable, known, request, saved>>

RInit ==
  /\ durable \in Content \cup {Nothing}
  /\ known = Nothing /\ request = Nothing /\ saved = Nothing

\* A start finds the durable value, or finds that the client cannot use it.
Find ==
  /\ request = Nothing
  /\ known' \in {durable, Nothing}
  /\ UNCHANGED <<durable, request, saved>>

\* A save reaches the medium at once, later or never; a value that an earlier
\* save left there without reporting success may give way to the known one.
Begin(v) ==
  /\ request = Nothing
  /\ request' = v /\ saved' = Nothing
  /\ durable' \in {durable, known, v}
  /\ UNCHANGED known

\* A save reports success only for a value that is durable.
Succeed ==
  /\ request # Nothing /\ durable = request
  /\ known' = request /\ saved' = request /\ request' = Nothing
  /\ UNCHANGED durable

Fail == request' = Nothing /\ UNCHANGED <<durable, known, saved>>

Reset == request' = Nothing /\ known' = Nothing /\ UNCHANGED <<durable, saved>>

RNext == Find \/ Succeed \/ Fail \/ Reset \/ \E v \in Content : Begin(v)

RSpec == RInit /\ [][RNext]_regVars
============================================================================
