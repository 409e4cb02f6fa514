------------------------ MODULE ProtectedLink_proofs ------------------------
(***************************************************************************)
(* For any number of sessions, any counter range and any window: no nonce  *)
(* is used twice, and as long as counters stay within half their range no  *)
(* packet is delivered twice.                                              *)
(***************************************************************************)
EXTENDS ProtectedLink, TLAPS

\* Every boot counter a packet was sealed under is in NVM3.
BootsArePersistent ==
  /\ boot <= storedBoot
  /\ \A p \in sent : p.boot <= storedBoot

\* Packets of the present boot belong to sessions joined in it.
SentWhileJoined ==
  /\ last # None => last \in joined
  /\ transport.session # None => boot # 0 /\ transport.session = last
  /\ \A p \in sent : p.boot = boot => p.session \in joined

\* Packets of the present boot and session have used up the counters before next,
\* and next itself only once the transport is exhausted.
CountersSpent ==
  \A p \in sent :
    p.boot = boot /\ p.session = transport.session =>
      p.counter < transport.next \/ transport.exhausted

SenderInv ==
  /\ TypeOK
  /\ BootsArePersistent
  /\ SentWhileJoined
  /\ CountersSpent

\* The receiver remembers everything it accepted: what lies in the window has its
\* bit set, the rest is of an earlier boot or behind the window.
Remembered ==
  /\ replay.first => accepted = {}
  /\ ~replay.first => replay.highest # 0
  /\ \A p \in accepted :
       /\ p.boot <= replay.boot
       /\ p.boot = replay.boot =>
            /\ p.counter <= replay.highest
            /\ replay.highest - p.counter < Window => replay.highest - p.counter \in replay.seen

\* Counters in half of their range, as those of a link are that lives for fewer than
\* 2^31 packets and boots.
ShortLived == MaxBoot <= Half /\ MaxPacket <= Half

----------------------------------------------------------------------------
(* The sender.                                                             *)

\* The transports a sender can have.
Transports == [session : Session \cup {None}, next : 1..MaxPacket, exhausted : BOOLEAN]

\* A transport without a session is one.
LEMMA IdleIsTransport ==
  ASSUME LinkAssumption
  PROVE  Idle \in Transports
<1>1. 1 \in 1..MaxPacket /\ FALSE \in BOOLEAN
  BY DEF LinkAssumption
<1> QED
  BY <1>1 DEF Idle, Transports

\* So is an advanced one; it is exhausted unless the counter went on.
LEMMA AdvancedTransport ==
  ASSUME LinkAssumption, transport \in Transports
  PROVE  /\ AfterProtect(transport) \in Transports
         /\ AfterProtect(transport).session = transport.session
         /\ AfterProtect(transport).exhausted \/ AfterProtect(transport).next = transport.next + 1
<1>1. CASE transport.next = MaxPacket
  <2>1. AfterProtect(transport) = [transport EXCEPT !.exhausted = TRUE]
    BY <1>1 DEF AfterProtect
  <2>2. TRUE \in BOOLEAN
    OBVIOUS
  <2> QED
    BY <2>1, <2>2 DEF Transports
<1>2. CASE transport.next # MaxPacket
  <2>1. AfterProtect(transport) = [transport EXCEPT !.next = transport.next + 1]
    BY <1>2 DEF AfterProtect
  <2>2. transport.next + 1 \in 1..MaxPacket
    BY <1>2 DEF Transports, LinkAssumption
  <2> QED
    BY <2>1, <2>2 DEF Transports
<1> QED
  BY <1>1, <1>2

\* A step of the receiver leaves the sender's invariant alone.
LEMMA ReceiverKeepsSender ==
  ASSUME LinkAssumption, SenderInv, UNCHANGED <<sender, sent>>, TypeOK'
  PROVE  SenderInv'
BY DEF SenderInv, BootsArePersistent, SentWhileJoined, CountersSpent, sender

\* The receiver's steps keep its variables in their types.
LEMMA ReceiverTypes ==
  ASSUME LinkAssumption, TypeOK,
         (\E s \in Session : Listen(s)) \/ (\E p \in sent : Receive(p))
  PROVE  TypeOK' /\ UNCHANGED <<sender, sent>>
<1> DEFINE Positions == [session : Session \cup {None}, first : BOOLEAN,
                         boot : 0..MaxBoot, highest : 0..MaxPacket,
                         seen : SUBSET (0..Window - 1)]
<1>0. ASSUME UNCHANGED <<sender, sent>>, heard' \subseteq Session,
             accepted' \subseteq Packet, replay' \in Positions
      PROVE  TypeOK'
  BY <1>0 DEF TypeOK, sender
<1>1. ASSUME NEW s \in Session, Listen(s) PROVE TypeOK' /\ UNCHANGED <<sender, sent>>
  <2>1. UNCHANGED <<sender, sent>> /\ heard' \subseteq Session /\ accepted' \subseteq Packet
    BY <1>1 DEF Listen, TypeOK
  <2>2. replay' \in Positions
    <3>1. {} \in SUBSET (0..Window - 1) /\ 0 \in 0..MaxBoot /\ 0 \in 0..MaxPacket /\ TRUE \in BOOLEAN
      BY DEF LinkAssumption
    <3>2. Deaf \in Positions
      BY <3>1 DEF Deaf
    <3>3. replay' = [Deaf EXCEPT !.session = s]
      BY <1>1 DEF Listen
    <3> QED
      BY <3>2, <3>3
  <2> QED
    BY <1>0, <2>1, <2>2
<1>2. ASSUME NEW p \in sent, Receive(p) PROVE TypeOK' /\ UNCHANGED <<sender, sent>>
  <2>1. p \in Packet
    BY DEF TypeOK
  <2>2. UNCHANGED <<heard, sender, sent>> /\ accepted' = accepted \cup {p}
    BY <1>2 DEF Receive, AcceptFirst, AcceptNew, AcceptReordered, Admit
  <2>3. replay \in Positions /\ p.boot \in 0..MaxBoot /\ p.counter \in 0..MaxPacket
    BY <2>1 DEF TypeOK, Packet, LinkAssumption
  <2>4. 0 \in 0..Window - 1
    BY DEF LinkAssumption
  <2>5. ASSUME AcceptFirst(p) PROVE replay' \in Positions
    <3>1. replay' = [replay EXCEPT !.first = FALSE, !.boot = p.boot,
                                   !.highest = p.counter, !.seen = {0}]
      BY <2>5 DEF AcceptFirst
    <3> QED
      BY <2>3, <2>4, <3>1
  <2>6. ASSUME AcceptNew(p) PROVE replay' \in Positions
    <3>1. Slide(replay.seen, p.counter - replay.highest) \in SUBSET (0..Window - 1)
      BY <2>4 DEF Slide, LinkAssumption
    <3>2. replay' = [replay EXCEPT !.highest = p.counter,
                                   !.seen = Slide(replay.seen, p.counter - replay.highest)]
      BY <2>6 DEF AcceptNew
    <3> QED
      BY <2>3, <3>1, <3>2
  <2>7. ASSUME AcceptReordered(p) PROVE replay' \in Positions
    <3>1. Age(p) \in 0..Window - 1
      <4>1. Age(p) \in Nat
        BY <2>1 DEF Age, TypeOK, Packet, LinkAssumption
      <4>2. ~(Age(p) >= Window)
        BY <2>7 DEF AcceptReordered, Result
      <4> QED
        BY <4>1, <4>2 DEF LinkAssumption
    <3>2. replay' = [replay EXCEPT !.seen = replay.seen \cup {Age(p)}]
      BY <2>7 DEF AcceptReordered
    <3> QED
      BY <2>3, <3>1, <3>2
  <2>8. replay' \in Positions
    BY <1>2, <2>5, <2>6, <2>7 DEF Receive
  <2> QED
    BY <1>0, <2>1, <2>2, <2>8 DEF TypeOK
<1> QED
  BY <1>1, <1>2

\* The boot counter: the new boot is later than that of every packet sent.
LEMMA StartupKeepsSender ==
  ASSUME LinkAssumption, SenderInv, Startup \/ StartupFails
  PROVE  SenderInv'
<1>1. TypeOK'
  BY DEF SenderInv, TypeOK, Startup, StartupFails, Persists, receiver, LinkAssumption
<1>2. \A p \in sent : p.boot \in Nat /\ p.boot <= storedBoot
  BY DEF SenderInv, TypeOK, Packet, BootsArePersistent
<1>3. storedBoot \in Nat /\ boot \in Nat /\ storedBoot' = storedBoot + 1
  BY DEF SenderInv, TypeOK, Startup, StartupFails, Persists
<1>4. BootsArePersistent'
  BY <1>2, <1>3 DEF Startup, StartupFails, BootsArePersistent, SenderInv
<1>5. SentWhileJoined' /\ CountersSpent'
  <2>1. CASE Startup
    BY <1>2, <1>3, <2>1 DEF Startup, SentWhileJoined, CountersSpent, SenderInv
  <2>2. CASE StartupFails
    BY <2>2 DEF StartupFails, SentWhileJoined, CountersSpent, SenderInv
  <2> QED
    BY <2>1, <2>2
<1> QED
  BY <1>1, <1>4, <1>5 DEF SenderInv

\* A session joined is new to this boot: last is refused and the rest is fresh.
LEMMA JoinKeepsSender ==
  ASSUME LinkAssumption, SenderInv, NEW s \in Session, Join(s)
  PROVE  SenderInv'
<1>1. s \notin joined /\ s # None
  BY DEF Join, Admissible, LinkAssumption
<1>2. TypeOK'
  BY DEF SenderInv, TypeOK, Join, receiver, LinkAssumption
<1>3. BootsArePersistent'
  BY DEF SenderInv, BootsArePersistent, Join
<1>4. SentWhileJoined'
  BY <1>1 DEF SenderInv, SentWhileJoined, Join
<1>5. CountersSpent'
  BY <1>1 DEF SenderInv, SentWhileJoined, CountersSpent, Join
<1> QED
  BY <1>2, <1>3, <1>4, <1>5 DEF SenderInv

\* Leaving keeps or clears the transport, a reset clears it and the boot counter.
LEMMA StopKeepsSender ==
  ASSUME LinkAssumption, SenderInv, Leave \/ Reset
  PROVE  SenderInv'
<1>1. TypeOK'
  <2>1. transport' \in Transports
    BY IdleIsTransport DEF Leave, Reset, SenderInv, TypeOK, Transports
  <2>2. /\ storedBoot' \in 0..MaxBoot /\ boot' \in 0..MaxBoot
        /\ joined' \subseteq Session /\ last' \in Session \cup {None}
    BY DEF Leave, Reset, SenderInv, TypeOK, LinkAssumption
  <2>3. active' \in BOOLEAN
    BY DEF Leave, Reset
  <2>4. UNCHANGED <<sent, receiver>>
    BY DEF Leave, Reset
  <2> QED
    BY <2>1, <2>2, <2>3, <2>4 DEF SenderInv, TypeOK, Transports, receiver
<1>2. BootsArePersistent'
  BY DEF SenderInv, TypeOK, BootsArePersistent, Leave, Reset
<1>3. \A p \in sent : p.boot # 0 /\ p.session # None
  BY DEF SenderInv, TypeOK, Packet, LinkAssumption
<1>4. SentWhileJoined' /\ CountersSpent'
  BY <1>3 DEF SenderInv, SentWhileJoined, CountersSpent, Leave, Reset, Idle
<1> QED
  BY <1>1, <1>2, <1>4 DEF SenderInv

\* A sealed packet spends its counter.
LEMMA ProtectKeepsSender ==
  ASSUME LinkAssumption, SenderInv, Protect
  PROVE  SenderInv'
<1>1. /\ transport.session \in Session /\ transport.session = last /\ last \in joined
      /\ boot # 0 /\ boot \in 1..MaxBoot
      /\ transport.next \in 1..MaxPacket /\ ~transport.exhausted
  BY DEF SenderInv, TypeOK, SentWhileJoined, Protect, CanProtect
<1>2. Nonce \in Packet
  BY <1>1 DEF Nonce, Packet
<1>3. sent' = sent \cup {Nonce} /\ transport' = AfterProtect(transport)
      /\ UNCHANGED <<storedBoot, boot, joined, last, active, receiver>>
  BY DEF Protect
<1>4. /\ transport' \in [session : Session \cup {None}, next : 1..MaxPacket, exhausted : BOOLEAN]
      /\ transport'.session = transport.session
      /\ transport'.exhausted \/ transport'.next = transport.next + 1
  BY <1>3, AdvancedTransport DEF Transports, SenderInv, TypeOK
<1>5. TypeOK'
  BY <1>2, <1>3, <1>4 DEF SenderInv, TypeOK, receiver
<1>6. BootsArePersistent'
  BY <1>3 DEF SenderInv, BootsArePersistent, Nonce
<1>7. SentWhileJoined'
  BY <1>1, <1>3, <1>4 DEF SenderInv, SentWhileJoined, Nonce
<1>8. CountersSpent'
  <2> SUFFICES ASSUME NEW p \in sent', p.boot = boot, p.session = transport.session,
                      ~transport'.exhausted
               PROVE  p.counter < transport'.next
    BY <1>3, <1>4 DEF CountersSpent
  <2>1. p.counter \in Nat
    BY <1>5 DEF TypeOK, Packet
  <2>2. p = Nonce \/ p \in sent
    BY <1>3
  <2>3. p.counter <= transport.next
    BY <1>1, <2>1, <2>2 DEF Nonce, SenderInv, CountersSpent
  <2> QED
    BY <1>1, <1>4, <2>1, <2>3
<1> QED
  BY <1>5, <1>6, <1>7, <1>8 DEF SenderInv

\* Every step keeps the sender's invariant.
LEMMA StepKeepsSender ==
  ASSUME LinkAssumption, SenderInv, [Next]_vars
  PROVE  SenderInv'
<1>1. CASE Startup \/ StartupFails
  BY <1>1, StartupKeepsSender
<1>2. CASE \E s \in Session : Join(s)
  BY <1>2, JoinKeepsSender
<1>3. CASE Leave \/ Reset
  BY <1>3, StopKeepsSender
<1>4. CASE Protect
  BY <1>4, ProtectKeepsSender
<1>5. CASE (\E s \in Session : Listen(s)) \/ (\E p \in sent : Receive(p))
  BY <1>5, ReceiverTypes, ReceiverKeepsSender DEF SenderInv
<1>6. CASE UNCHANGED vars
  <2>1. TypeOK'
    BY <1>6 DEF SenderInv, TypeOK, vars, sender, receiver
  <2> QED
    BY <1>6, <2>1, ReceiverKeepsSender DEF vars
<1> QED
  BY <1>1, <1>2, <1>3, <1>4, <1>5, <1>6 DEF Next

\* The initial state.
LEMMA InitSender ==
  ASSUME LinkAssumption, Init
  PROVE  SenderInv /\ Remembered
<1>1. transport = Idle /\ Idle \in Transports
  BY IdleIsTransport DEF Init
<1>2. replay = Deaf /\ Deaf \in [session : Session \cup {None}, first : BOOLEAN,
                                 boot : 0..MaxBoot, highest : 0..MaxPacket,
                                 seen : SUBSET (0..Window - 1)]
  <2>1. {} \in SUBSET (0..Window - 1) /\ 0 \in 0..MaxBoot /\ 0 \in 0..MaxPacket /\ TRUE \in BOOLEAN
    BY DEF LinkAssumption
  <2> QED
    BY <2>1 DEF Init, Deaf
<1>3. TypeOK
  <2>1. /\ storedBoot \in 0..MaxBoot /\ boot \in 0..MaxBoot
        /\ joined \subseteq Session /\ heard \subseteq Session
        /\ sent \subseteq Packet /\ accepted \subseteq Packet
        /\ last \in Session \cup {None}
    BY DEF Init, LinkAssumption
  <2>2. active \in BOOLEAN
    BY DEF Init
  <2> QED
    BY <1>1, <1>2, <2>1, <2>2 DEF TypeOK, Transports
<1> QED
  BY <1>3 DEF Init, SenderInv, BootsArePersistent, SentWhileJoined, CountersSpent, Remembered, Idle, Deaf

\* No two packets are sealed under one session key and nonce
\* (openref_secure_transport_protect), whatever resets, failing boot-counter writes,
\* sessions and exhausted counters come between.
THEOREM NoncesNeverRepeat ==
  ASSUME LinkAssumption
  PROVE  Spec => [](TypeOK /\ NonceFresh)
<1>1. Init => SenderInv
  BY InitSender
<1>2. SenderInv /\ [Next]_vars => SenderInv'
  BY StepKeepsSender
<1>3. SenderInv => TypeOK /\ NonceFresh
  BY DEF SenderInv, TypeOK, CountersSpent, NonceFresh, CanProtect, Nonce
<1> QED
  BY <1>1, <1>2, <1>3, PTL DEF Spec

----------------------------------------------------------------------------
(* The receiver.                                                           *)

\* In half the range, later is greater.
LEMMA AfterIsGreater ==
  ASSUME LinkAssumption, NEW c \in 1..Half, NEW r \in 1..Half
  PROVE  After(c, r) <=> c > r
BY DEF After, LinkAssumption

\* What a state remembers, it does not take again.
LEMMA RememberedIsRejected ==
  ASSUME LinkAssumption, ShortLived, TypeOK, Remembered
  PROVE  DeliveredOnce
<1> SUFFICES ASSUME NEW p \in accepted
             PROVE  Result(p) \in {"DUPLICATE", "STALE", "OLD_BOOT"}
  BY DEF DeliveredOnce
<1>1. ~replay.first /\ p \in Packet
  BY DEF Remembered, TypeOK
<1>2. p.boot \in 1..Half /\ p.counter \in 1..Half /\ p.boot <= replay.boot
  BY <1>1 DEF Packet, ShortLived, Remembered, LinkAssumption
<1>3. replay.boot \in 1..Half
  BY <1>2 DEF TypeOK, ShortLived, LinkAssumption
<1>4. CASE p.boot # replay.boot
  <2>1. ~After(p.boot, replay.boot)
    BY <1>2, <1>3, <1>4, AfterIsGreater
  <2> QED
    BY <1>1, <1>4, <2>1 DEF Result
<1>5. CASE p.boot = replay.boot
  <2>1. p.counter <= replay.highest /\ replay.highest \in 1..Half
    BY <1>2, <1>5 DEF Remembered, TypeOK, ShortLived, LinkAssumption
  <2>2. ~After(p.counter, replay.highest) /\ Age(p) = replay.highest - p.counter
    BY <1>2, <2>1, AfterIsGreater DEF Age
  <2>3. Age(p) < Window => Age(p) \in replay.seen
    BY <1>5, <2>2 DEF Remembered
  <2>4. Age(p) \in Int /\ Window \in Int
    BY <1>2, <2>1, <2>2 DEF LinkAssumption
  <2> QED
    BY <1>1, <1>5, <2>2, <2>3, <2>4 DEF Result
<1> QED
  BY <1>4, <1>5

\* A delivery is remembered, and what was remembered stays so: it moves up by the
\* shift, falls behind the window or belongs to an earlier boot.
LEMMA ReceiveIsRemembered ==
  ASSUME LinkAssumption, ShortLived, TypeOK, Remembered, NEW p \in sent, Receive(p)
  PROVE  Remembered'
<1>1. p \in Packet /\ accepted' = accepted \cup {p}
  BY DEF TypeOK, Receive, AcceptFirst, AcceptNew, AcceptReordered, Admit
<1>2. p.boot \in 1..Half /\ p.counter \in 1..Half
  BY <1>1 DEF Packet, ShortLived, LinkAssumption
<1>3. \A q \in accepted : q.boot \in 1..Half /\ q.counter \in 1..Half /\ ~replay.first
  BY DEF TypeOK, Packet, ShortLived, LinkAssumption, Remembered
<1>4. replay.boot \in 0..Half /\ replay.highest \in 0..Half /\ Window \in Nat \ {0} /\ Half \in Nat
  BY DEF TypeOK, ShortLived, LinkAssumption
<1>5. CASE AcceptFirst(p)
  <2>1. /\ ~replay'.first /\ replay'.boot = p.boot /\ replay'.highest = p.counter
        /\ replay'.seen = {0}
    BY <1>5 DEF AcceptFirst, TypeOK
  <2>2. \A q \in accepted : q.boot < p.boot
    <3>1. CASE Result(p) = "FIRST"
      BY <3>1 DEF Result, Remembered
    <3>2. CASE Result(p) = "NEW_BOOT"
      <4> TAKE q \in accepted
      <4>1. After(p.boot, replay.boot) /\ q.boot <= replay.boot /\ replay.boot \in 1..Half
        BY <1>3, <1>4, <3>2 DEF Result, Remembered
      <4> QED
        BY <1>2, <1>3, <1>4, <4>1, AfterIsGreater
    <3> QED
      BY <1>5, <3>1, <3>2 DEF AcceptFirst
  <2> QED
    BY <1>1, <1>2, <1>3, <2>1, <2>2 DEF Remembered
<1>6. CASE AcceptNew(p)
  <2>1. /\ ~replay.first /\ ~replay'.first /\ p.boot = replay.boot /\ replay'.boot = replay.boot
        /\ replay'.highest = p.counter
        /\ replay'.seen = Slide(replay.seen, p.counter - replay.highest)
        /\ After(p.counter, replay.highest)
    BY <1>6 DEF AcceptNew, TypeOK, Result
  <2>2. p.counter > replay.highest
    BY <1>2, <1>4, <2>1 DEF After
  <2>3. ASSUME NEW q \in accepted, q.boot = replay.boot
        PROVE  /\ q.counter <= p.counter
               /\ p.counter - q.counter < Window => p.counter - q.counter \in replay'.seen
    <3>1. /\ q.counter <= replay.highest
          /\ replay.highest - q.counter < Window => replay.highest - q.counter \in replay.seen
      BY <2>3 DEF Remembered
    <3>2. p.counter - q.counter \in Nat \ {0}
      BY <1>2, <1>3, <1>4, <2>2, <3>1
    <3>3. (p.counter - q.counter) - (p.counter - replay.highest) = replay.highest - q.counter
      BY <1>2, <1>3, <1>4
    <3>4. ASSUME p.counter - q.counter < Window PROVE p.counter - q.counter \in replay'.seen
      <4>1. replay.highest - q.counter < Window
        BY <1>2, <1>3, <1>4, <2>2, <3>4
      <4>2. p.counter - q.counter \in 1..Window - 1
        BY <1>4, <3>2, <3>4
      <4> QED
        BY <2>1, <3>1, <3>3, <4>1, <4>2 DEF Slide
    <3> QED
      BY <1>2, <1>3, <1>4, <2>2, <3>1, <3>4
  <2>4. 0 \in replay'.seen
    BY <2>1 DEF Slide
  <2>5. p.boot <= replay'.boot /\ p.counter - p.counter = 0 /\ p.counter <= p.counter /\ replay'.highest # 0
    BY <1>2, <2>1
  <2>6. \A q \in accepted : q.boot <= replay'.boot
    BY <2>1 DEF Remembered
  <2> QED
    BY <1>1, <2>1, <2>3, <2>4, <2>5, <2>6 DEF Remembered
<1>7. CASE AcceptReordered(p)
  <2>1. /\ ~replay.first /\ ~replay'.first /\ p.boot = replay.boot /\ replay'.boot = replay.boot
        /\ replay'.highest = replay.highest /\ replay'.seen = replay.seen \cup {Age(p)}
        /\ ~After(p.counter, replay.highest)
    BY <1>7 DEF AcceptReordered, TypeOK, Result
  <2>2. p.counter <= replay.highest
    BY <1>2, <1>4, <2>1 DEF After, Remembered
  <2>3. Age(p) = replay.highest - p.counter
    BY <2>2 DEF Age
  <2>4. p.boot <= replay'.boot
    BY <1>2, <2>1
  <2> QED
    BY <1>1, <2>1, <2>2, <2>3, <2>4 DEF Remembered
<1> QED
  BY <1>5, <1>6, <1>7 DEF Receive

\* No packet is delivered twice within a session (openref_security_accept_authenticated)
\* however it is repeated, delayed and reordered and however often its sender restarts,
\* on a link that stays within half the range of its counters.
THEOREM DeliversOnce ==
  ASSUME LinkAssumption, ShortLived
  PROVE  Spec => []DeliveredOnce
<1> DEFINE Inv == SenderInv /\ Remembered
<1>1. Init => Inv
  BY InitSender
<1>2. Inv /\ [Next]_vars => Inv'
  <2> SUFFICES ASSUME Inv, [Next]_vars PROVE Inv'
    OBVIOUS
  <2>1. SenderInv'
    BY StepKeepsSender
  <2>2. CASE \E p \in sent : Receive(p)
    BY <2>1, <2>2, ReceiveIsRemembered DEF SenderInv
  <2>3. CASE \E s \in Session : Listen(s)
    BY <2>1, <2>3 DEF Listen, Deaf, Remembered
  <2>4. CASE UNCHANGED receiver
    BY <2>1, <2>4 DEF receiver, Remembered
  <2> QED
    BY <2>2, <2>3, <2>4 DEF Next, vars, Startup, StartupFails, Join, Leave, Protect, Reset
<1>3. Inv => DeliveredOnce
  BY RememberedIsRejected DEF SenderInv
<1> QED
  BY <1>1, <1>2, <1>3, PTL DEF Spec

----------------------------------------------------------------------------
(* The window admits what it should.                                       *)

\* The receiver remembers nothing it did not accept: every bit of the window stands
\* for a packet of the present session and boot that was delivered.
BitsAreDeliveries ==
  /\ replay.first => replay.seen = {}
  /\ \A q \in accepted : q.session = replay.session
  /\ \A a \in replay.seen :
       \E q \in accepted : q.boot = replay.boot /\ q.counter = replay.highest - a

\* A delivery sets one bit, for itself; the others stand for the packets they stood for.
LEMMA ReceiveSetsItsBit ==
  ASSUME LinkAssumption, ShortLived, TypeOK, Remembered, BitsAreDeliveries,
         NEW p \in sent, Receive(p)
  PROVE  BitsAreDeliveries'
<1>1. p \in Packet /\ p \in accepted' /\ accepted' = accepted \cup {p} /\ p.session = replay.session
  BY DEF TypeOK, Receive, AcceptFirst, AcceptNew, AcceptReordered, Admit, Opens
<1>2. p.counter \in 1..Half /\ replay.highest \in 0..Half /\ Half \in Nat /\ Window \in Nat
  BY <1>1 DEF TypeOK, Packet, ShortLived, LinkAssumption
<1>3. ~replay'.first /\ replay'.session = replay.session
  BY DEF Receive, AcceptFirst, AcceptNew, AcceptReordered, Result, TypeOK
<1>4. \A q \in accepted' : q.session = replay'.session
  BY <1>1, <1>3 DEF BitsAreDeliveries
<1>5. ASSUME NEW a \in replay'.seen
      PROVE  \E q \in accepted' : q.boot = replay'.boot /\ q.counter = replay'.highest - a
  <2>1. CASE AcceptFirst(p)
    <3>1. replay'.boot = p.boot /\ replay'.highest = p.counter /\ replay'.seen = {0}
      BY <2>1 DEF AcceptFirst, TypeOK
    <3>2. p.counter = replay'.highest - a
      BY <1>2, <1>5, <3>1
    <3> QED
      BY <1>1, <3>1, <3>2
  <2>2. CASE AcceptNew(p)
    <3>1. /\ p.boot = replay.boot /\ replay'.boot = replay.boot /\ replay'.highest = p.counter
          /\ replay'.seen = Slide(replay.seen, p.counter - replay.highest)
      BY <2>2 DEF AcceptNew, TypeOK, Result
    <3>2. CASE a = 0
      BY <1>1, <1>2, <3>1, <3>2
    <3>3. CASE a # 0
      <4>1. a \in Int /\ a - (p.counter - replay.highest) \in replay.seen
        BY <1>2, <1>5, <3>1, <3>3 DEF Slide
      <4>2. PICK q \in accepted : /\ q.boot = replay.boot
                                  /\ q.counter = replay.highest - (a - (p.counter - replay.highest))
        BY <4>1 DEF BitsAreDeliveries
      <4>3. q.counter = p.counter - a
        BY <1>2, <4>1, <4>2
      <4> QED
        BY <1>1, <3>1, <4>2, <4>3
    <3> QED
      BY <3>2, <3>3
  <2>3. CASE AcceptReordered(p)
    <3>1. /\ p.boot = replay.boot /\ replay'.boot = replay.boot
          /\ replay'.highest = replay.highest /\ replay'.seen = replay.seen \cup {Age(p)}
          /\ ~replay.first /\ ~After(p.counter, replay.highest)
      BY <2>3 DEF AcceptReordered, TypeOK, Result
    <3>2. CASE a \in replay.seen
      BY <1>1, <3>1, <3>2 DEF BitsAreDeliveries
    <3>3. CASE a = Age(p)
      <4>1. p.counter <= replay.highest
        BY <1>2, <3>1 DEF After, Remembered
      <4>2. p.counter = replay.highest - a
        BY <1>2, <3>3, <4>1 DEF Age
      <4> QED
        BY <1>1, <3>1, <4>2
    <3> QED
      BY <1>5, <3>1, <3>2, <3>3
  <2> QED
    BY <2>1, <2>2, <2>3 DEF Receive
<1> QED
  BY <1>3, <1>4, <1>5 DEF BitsAreDeliveries

\* A packet that is turned away inside the window has its bit set: it was delivered.
LEMMA WindowIsOpen ==
  ASSUME LinkAssumption, ShortLived, TypeOK, Remembered, BitsAreDeliveries
  PROVE  InWindowIsDelivered
<1> SUFFICES ASSUME NEW p \in sent \ accepted, Opens(p), ~replay.first,
                    p.boot = replay.boot, p.counter > replay.highest - Window
             PROVE  Result(p) \in {"NEW", "REORDERED"}
  BY DEF InWindowIsDelivered
<1>1. p \in Packet /\ p.counter \in 1..Half
  BY DEF TypeOK, Packet, ShortLived, LinkAssumption
<1>2. replay.highest \in 1..Half /\ Window \in Nat \ {0} /\ Half \in Nat \ {0}
  BY DEF TypeOK, Remembered, ShortLived, LinkAssumption
<1>3. CASE After(p.counter, replay.highest)
  BY <1>3 DEF Result
<1>4. CASE ~After(p.counter, replay.highest)
  <2>1. p.counter <= replay.highest
    BY <1>1, <1>2, <1>4, AfterIsGreater
  <2>2. Age(p) = replay.highest - p.counter /\ ~(Age(p) >= Window)
    BY <1>1, <1>2, <2>1 DEF Age
  <2>3. ASSUME Age(p) \in replay.seen PROVE FALSE
    <3>1. PICK q \in accepted : q.boot = replay.boot /\ q.counter = replay.highest - Age(p)
      BY <2>3 DEF BitsAreDeliveries
    <3>2. q.counter = p.counter /\ q.boot = p.boot /\ q.session = p.session /\ q \in Packet
      BY <1>1, <1>2, <2>2, <3>1 DEF BitsAreDeliveries, Opens, TypeOK
    <3>3. q = p
      BY <1>1, <3>2 DEF Packet
    <3> QED
      BY <3>3
  <2> QED
    BY <1>4, <2>2, <2>3 DEF Result
<1> QED
  BY <1>3, <1>4

\* The replay window (openref_security_accept_authenticated) turns no packet away that
\* is of the boot it follows, at most Window - 1 behind the newest and not yet
\* delivered, whatever was lost, repeated and reordered before it.
THEOREM WindowAdmits ==
  ASSUME LinkAssumption, ShortLived
  PROVE  Spec => []InWindowIsDelivered
<1> DEFINE Inv == SenderInv /\ Remembered /\ BitsAreDeliveries
<1>1. Init => Inv
  <2> SUFFICES ASSUME Init PROVE Inv
    OBVIOUS
  <2>1. SenderInv /\ Remembered
    BY InitSender
  <2>2. BitsAreDeliveries
    BY DEF Init, Deaf, BitsAreDeliveries
  <2> QED
    BY <2>1, <2>2
<1>2. Inv /\ [Next]_vars => Inv'
  <2> SUFFICES ASSUME Inv, [Next]_vars PROVE Inv'
    OBVIOUS
  <2>1. SenderInv'
    BY StepKeepsSender
  <2>2. CASE \E p \in sent : Receive(p)
    BY <2>1, <2>2, ReceiveIsRemembered, ReceiveSetsItsBit DEF SenderInv
  <2>3. CASE \E s \in Session : Listen(s)
    BY <2>1, <2>3 DEF Listen, Deaf, Remembered, BitsAreDeliveries
  <2>4. CASE UNCHANGED receiver
    BY <2>1, <2>4 DEF receiver, Remembered, BitsAreDeliveries
  <2> QED
    BY <2>2, <2>3, <2>4 DEF Next, vars, Startup, StartupFails, Join, Leave, Protect, Reset
<1>3. Inv => InWindowIsDelivered
  BY WindowIsOpen DEF SenderInv
<1> QED
  BY <1>1, <1>2, <1>3, PTL DEF Spec
=============================================================================
