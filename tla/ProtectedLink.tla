--------------------------- MODULE ProtectedLink ---------------------------
(***************************************************************************)
(* Protected packets from one node to another: the persistent boot counter *)
(* (firmware/common/openref_boot_counter.c, openref_secure_startup.c), the *)
(* crew session and its transport (openref_crew_session.c,                 *)
(* openref_radio_session.c, openref_secure_transport.c) at the sender, and *)
(* the replay window of the receiver (openref_security.c).                 *)
(*                                                                         *)
(* A packet is the nonce it was sealed under; its content, the AES-CCM     *)
(* callbacks and the header are abstracted to "opens under the session it  *)
(* was sealed for".  The medium may lose, repeat and reorder packets: what *)
(* was once sent may arrive at any time, any number of times.              *)
(***************************************************************************)
EXTENDS Integers

CONSTANTS
  Session,    \* crew session identifiers (one key each)
  None,
  MaxBoot,    \* UINT32_MAX: where the boot counter stops
  MaxPacket,  \* UINT32_MAX: where the packet counter stops
  Half,       \* 2^31: half the range counter_after compares in
  Window      \* OPENREF_SECURITY_REPLAY_WINDOW_BITS

ASSUME LinkAssumption ==
  /\ None \notin Session
  /\ MaxBoot \in Nat \ {0} /\ MaxPacket \in Nat \ {0}
  /\ Half \in Nat \ {0} /\ Window \in Nat \ {0}
  /\ MaxBoot < 2 * Half /\ MaxPacket < 2 * Half /\ Window <= Half

VARIABLES
  storedBoot, \* the boot counter in NVM3, 0 if the object is missing
  boot,       \* active_boot_counter, 0 until the secure startup succeeds
  joined,     \* sessions this node was admitted to since its reset
  last,       \* openref_crew_session_t.last_session_id
  active,     \* openref_crew_session_t.active
  transport,  \* openref_secure_transport_t of the sender
  sent,       \* every packet sealed so far
  replay,     \* the receiver's session and its replay state for the sender
  heard,      \* sessions the receiver was admitted to
  accepted    \* packets opened in the receiver's present session

sender   == <<storedBoot, boot, joined, last, active, transport>>
receiver == <<replay, heard, accepted>>
vars     == <<sender, sent, receiver>>

Packet == [session : Session, boot : 1..MaxBoot, counter : 1..MaxPacket]

Idle == [session |-> None, next |-> 1, exhausted |-> FALSE]
Deaf == [session |-> None, first |-> TRUE, boot |-> 0, highest |-> 0, seen |-> {}]

TypeOK ==
  /\ storedBoot \in 0..MaxBoot /\ boot \in 0..MaxBoot
  /\ joined \subseteq Session /\ heard \subseteq Session
  /\ last \in Session \cup {None}
  /\ active \in BOOLEAN
  /\ transport \in [session : Session \cup {None}, next : 1..MaxPacket, exhausted : BOOLEAN]
  /\ sent \subseteq Packet /\ accepted \subseteq Packet
  /\ replay \in [session : Session \cup {None}, first : BOOLEAN,
                 boot : 0..MaxBoot, highest : 0..MaxPacket,
                 seen : SUBSET (0..Window - 1)]

Init ==
  /\ storedBoot = 0 /\ boot = 0
  /\ joined = {} /\ last = None /\ active = FALSE /\ transport = Idle
  /\ sent = {}
  /\ replay = Deaf /\ heard = {} /\ accepted = {}

----------------------------------------------------------------------------
(* The sender.                                                             *)

\* Mistake: the counter is used although its write was not read back.
Persists_Unverified(next) == storedBoot' \in {storedBoot, next}

\* openref_boot_counter_advance returns true only for a value it read back.
Persists(next) == storedBoot' = next

Startup ==
  /\ boot = 0 /\ storedBoot # MaxBoot
  /\ Persists(storedBoot + 1)
  /\ boot' = storedBoot + 1
  /\ UNCHANGED <<joined, last, active, transport, sent, receiver>>

\* A read, the write, the readback or disabling the radio fails, or the power
\* goes in between; the write may have taken effect.
StartupFails ==
  /\ boot = 0 /\ storedBoot # MaxBoot
  /\ storedBoot' = storedBoot + 1
  /\ UNCHANGED <<boot, joined, last, active, transport, sent, receiver>>

\* The sessions openref_crew_session_activate takes; that a coordinator issues no
\* other identifier twice while the node runs is outside this repository.
Admissible(s) == s # last

\* The crew session activates: the radio session provisions the transport with
\* packet counter 1.
Join(s) ==
  /\ boot # 0 /\ ~active
  /\ s \notin joined \/ s = last
  /\ Admissible(s)
  /\ transport' = [session |-> s, next |-> 1, exhausted |-> FALSE]
  /\ joined' = joined \cup {s} /\ last' = s /\ active' = TRUE
  /\ UNCHANGED <<storedBoot, boot, sent, receiver>>

\* openref_crew_session_leave: inactive even if the radio fails to disable, in
\* which case the transport still holds the key.
Leave ==
  /\ active
  /\ active' = FALSE
  /\ transport' \in {Idle, transport}
  /\ UNCHANGED <<storedBoot, boot, joined, last, sent, receiver>>

AfterProtect(t) ==
  IF t.next = MaxPacket THEN [t EXCEPT !.exhausted = TRUE]
                         ELSE [t EXCEPT !.next = t.next + 1]

CanProtect == transport.session # None /\ ~transport.exhausted
Nonce      == [session |-> transport.session, boot |-> boot, counter |-> transport.next]

Protect ==
  /\ CanProtect
  /\ sent' = sent \cup {Nonce}
  /\ transport' = AfterProtect(transport)
  /\ UNCHANGED <<storedBoot, boot, joined, last, active, receiver>>

Reset ==
  /\ boot # 0
  /\ boot' = 0 /\ joined' = {} /\ last' = None /\ active' = FALSE /\ transport' = Idle
  /\ UNCHANGED <<storedBoot, sent, receiver>>

----------------------------------------------------------------------------
(* The receiver.                                                           *)

\* openref_secure_transport_init clears the replay states of all sources.
Listen(s) ==
  /\ s \notin heard
  /\ heard' = heard \cup {s}
  /\ replay' = [Deaf EXCEPT !.session = s]
  /\ accepted' = {}
  /\ UNCHANGED <<sender, sent>>

\* counter_after: (int32_t)(candidate - reference) > 0
After(candidate, reference) ==
  \/ candidate > reference /\ candidate - reference < Half
  \/ candidate < reference /\ reference - candidate > Half

\* Mistake: the bitmap is not shifted when the window moves.
Slide_Unshifted(seen, shift) == seen \cup {0}

\* Bit 0 is the highest counter; the rest moves up by shift and falls off at the end.
Slide(seen, shift) ==
  {0} \cup {a \in 1..Window - 1 : a - shift \in seen}

\* highest_packet_counter - packet_counter in 32 bits
Age(p) ==
  IF p.counter <= replay.highest THEN replay.highest - p.counter
                                 ELSE 2 * Half - (p.counter - replay.highest)

\* Mistake: the oldest packet of the window is taken for stale.
Result_NarrowWindow(p) ==
  IF replay.first THEN "FIRST"
  ELSE IF p.boot # replay.boot THEN IF After(p.boot, replay.boot) THEN "NEW_BOOT" ELSE "OLD_BOOT"
  ELSE IF After(p.counter, replay.highest) THEN "NEW"
  ELSE IF Age(p) >= Window - 1 THEN "STALE"
  ELSE IF Age(p) \in replay.seen THEN "DUPLICATE"
  ELSE "REORDERED"

\* openref_security_accept_authenticated, as a function of the state and the packet.
Result(p) ==
  IF replay.first THEN "FIRST"
  ELSE IF p.boot # replay.boot THEN IF After(p.boot, replay.boot) THEN "NEW_BOOT" ELSE "OLD_BOOT"
  ELSE IF After(p.counter, replay.highest) THEN "NEW"
  ELSE IF Age(p) >= Window THEN "STALE"
  ELSE IF Age(p) \in replay.seen THEN "DUPLICATE"
  ELSE "REORDERED"

\* Authenticates under the receiver's key.
Opens(p) == p.session = replay.session

Admit(p) == Opens(p) /\ accepted' = accepted \cup {p} /\ UNCHANGED <<heard, sender, sent>>

\* The first packet of the source, or of a later boot of it, opens the window anew.
AcceptFirst(p) ==
  /\ Result(p) \in {"FIRST", "NEW_BOOT"}
  /\ Admit(p)
  /\ replay' = [replay EXCEPT !.first = FALSE, !.boot = p.boot,
                              !.highest = p.counter, !.seen = {0}]

AcceptNew(p) ==
  /\ Result(p) = "NEW"
  /\ Admit(p)
  /\ replay' = [replay EXCEPT !.highest = p.counter,
                              !.seen = Slide(@, p.counter - replay.highest)]

AcceptReordered(p) ==
  /\ Result(p) = "REORDERED"
  /\ Admit(p)
  /\ replay' = [replay EXCEPT !.seen = @ \cup {Age(p)}]

Receive(p) == AcceptFirst(p) \/ AcceptNew(p) \/ AcceptReordered(p)

----------------------------------------------------------------------------
Next ==
  \/ Startup
  \/ StartupFails
  \/ \E s \in Session : Join(s) \/ Listen(s)
  \/ Leave
  \/ Protect
  \/ Reset
  \/ \E p \in sent : Receive(p)

Spec == Init /\ [][Next]_vars

----------------------------------------------------------------------------
(* Properties.                                                             *)

\* No two packets are ever sealed under one key and nonce: not across resets,
\* interrupted boot-counter writes, sessions left and joined, or exhaustion
\* ("nonce reuse is not permitted", docs/security/security-architecture.md:90).
NonceFresh == CanProtect => Nonce \notin sent

\* No packet is delivered twice in a session, however the medium repeats and
\* reorders it and however often its sender restarts.
DeliveredOnce ==
  \A p \in accepted : Result(p) \in {"DUPLICATE", "STALE", "OLD_BOOT"}

\* The window never turns away what it should let in: a packet of the boot it
\* follows that is at most Window - 1 behind the newest and was not delivered.
InWindowIsDelivered ==
  \A p \in sent \ accepted :
    Opens(p) /\ ~replay.first /\ p.boot = replay.boot /\ p.counter > replay.highest - Window
      => Result(p) \in {"NEW", "REORDERED"}

============================================================================
