---- MODULE MC_SimulatedCrew ----
(* SimulatedCrew for TLC.  One time unit is a millisecond: 20 ms frames of   *)
(* 60 bytes at 500 kbit/s take 2 units on the air, a heartbeat 1.            *)
EXTENDS SimulatedCrew

Nodes(drifts) == [i \in DOMAIN drifts |-> [id |-> i, drift |-> drifts[i]]]

Base ==
  [nodes |-> Nodes(<<0, 0, 0>>), frame |-> 20, codec |-> 24, radio |-> 500,
   overhead |-> 16, security |-> 0, fixedLength |-> FALSE, preamble |-> 0,
   spacing |-> 2, slots |-> 3, propagation |-> 0, baseLoss |-> None,
   maxQueue |-> 2, deadline |-> 10, interval |-> 40, timeout |-> 60,
   delay |-> 10, initial |-> 1, duration |-> 120, faults |-> <<>>]

Fault(action, t, n) ==
  [action |-> action, time |-> t, node |-> n, duration |-> 0, loss |-> None]
Burst(t, d, p) ==
  [action |-> "packet_loss", time |-> t, node |-> 0, duration |-> d, loss |-> p]

\* Slot spacings and payloads that fit, just fit and do not fit.
Schedules ==
  UNION {Sweep([Base EXCEPT !.security = sec, !.fixedLength = f],
               {20}, {24}, {500}, 1 .. 10) : sec \in {0, 16, 80}, f \in BOOLEAN}
  \cup Sweep(Base, {10, 20}, {16, 32}, {250, 500}, {2, 3})

\* Clocks that drift through each other's slots.
Drifting ==
  {[Base EXCEPT !.nodes = Nodes(<<0, a, b>>), !.spacing = 3] :
     a \in {-10, 5, 60}, b \in {0, 25}}

\* The coordinator fails and returns, alone or with others, at any moment.
Failing ==
  {[Base EXCEPT !.nodes = Nodes(<<0, 0>>), !.slots = 2, !.duration = 240,
     !.faults = <<Fault("disable_node", t, 1), Fault("enable_node", t + d, 1)>>] :
     t \in {16, 17, 40, 56, 59}, d \in {1, 70, 100}}
  \cup
  {[Base EXCEPT !.duration = 240, !.interval = i,
     !.faults = <<Fault("disable_node", 30, 1), Fault("disable_node", t, 2),
                  Fault("enable_node", t + 15, 1), Fault("disable_node", 170, 3)>>] :
     t \in {95, 101, 109, 110, 120}, i \in {1, 3, 40}}

\* Packets lost at random or for certain.
Lossy ==
  {[Base EXCEPT !.nodes = Nodes(<<0, 0>>), !.slots = 2, !.timeout = 40,
     !.baseLoss = b, !.faults = <<Burst(30, 50, p)>>] :
     b \in {None, Random}, p \in {Random, Certain}}

MCScenarios == Schedules \cup Drifting \cup Failing \cup Lossy
====
