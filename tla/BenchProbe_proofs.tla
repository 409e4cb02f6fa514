-------------------------- MODULE BenchProbe_proofs --------------------------
(***************************************************************************)
(* Proofs about BenchProbe: whatever happens to the boards, their lines    *)
(* and the serial ports during a bench script, a passed verdict was        *)
(* witnessed by what the receiver heard (PassIsGenuine), the figures it    *)
(* retains agree with each other (RetentionAgrees), and a script that lost *)
(* no command leaves the boards at rest (BoardsLeftAtRest).                *)
(*                                                                         *)
(* Three arguments carry it.  A script is tidy: each command that leaves   *)
(* its board other than at rest is undone later in it, so a board not at   *)
(* rest has its undoing ahead.  A counter that was cleared tells no more   *)
(* than was heard since, and a count without a gap or a fault is a row of  *)
(* the last packets heard.  And what a verdict reads stays true after the  *)
(* phase, because a report copies what the phase has seen.                 *)
(***************************************************************************)
EXTENDS BenchProbe, FiniteSetTheorems, SequenceTheorems, TLAPS

----------------------------------------------------------------------------
(* Types.                                                                  *)

Roles  == {"idle", "rx", "tx", "scheduled"}
Powers == {"normal", "low"}
Levels == {"none", "low", "high"}
Kinds  == {"smoke", "check", "direction", "packets", "autorole", "pressure", "reset",
           "malformed", "watermark", "overflow", "scheduled", "txAt", "tone", "noTone",
           "fault", "lowPower", "restore"}

CommandType ==
  [to : {"rx", "tx"}, do : {"rx", "setRxOverflow", "setTxTone"}, arg : BOOLEAN]
  \cup [to : {"rx", "tx"}, do : {"role"}, arg : Roles \cup {"mem"}]
  \cup [to : {"rx", "tx"}, do : {"resetCounters", "wait", "status", "txCancel", "reset"},
        arg : {0}]
  \cup [to : {"rx", "tx"}, do : {"attempts", "send"}, arg : Nat \ {0}]
  \cup [to : {"rx", "tx"}, do : {"load"}, arg : Int]
  \cup [to : {"rx"}, do : {"getRssi"}, arg : {"baseline", "tone"}]
PowerCommand == [to : {"tx"}, do : {"setPower"}, arg : Powers]

BoardType ==
  [role : Roles, sequence : Nat, next : Nat, rx : Nat, gaps : Nat, faults : Nat,
   attempts : Nat, tried : Nat, taken : Nat, pending : BOOLEAN, reported : BOOLEAN,
   listening : BOOLEAN, overflowing : BOOLEAN, loaded : Int, burst : Nat, left : Nat,
   power : Powers, tone : BOOLEAN, count : Nat, crc : Nat, overflow : {0, 1}, userTx : Nat]

StatusType == [count : Nat, crc : Nat, overflow : {0, 1}, userTx : Nat, rest : BOOLEAN]
MarkerType == [rx : Nat, sequence : Nat, gaps : Nat, faults : Nat]

LogType ==
  [marker : MarkerType \cup {None}, fails : Nat, lines : Nat, seen : SUBSET Int,
   mem : Seq([rx : Nat, gaps : Nat, faults : Nat]), status : StatusType \cup {None},
   overflow : {0, 1}, ends : Seq(Nat), queued : Nat, done : Nat,
   summary : [tried : Nat, taken : Nat] \cup {None},
   rssi : [baseline : Levels, tone : Levels]]

Flaws == {"rx", "setRxOverflow", "setTxTone", "role", "resetCounters", "wait", "status",
          "txCancel", "reset", "attempts", "send", "load", "getRssi", "setPower",
          "restart", "roleLeft"}

TruthType ==
  [heard : Seq(Int), sent : Nat, resets : SUBSET Boards, overflow : BOOLEAN,
   listened : BOOLEAN, tone : BOOLEAN]

PhaseType == [kind : Kinds, rx : Boards, tx : Boards]

EntryType ==
  [kind : Kinds, rx : Boards, tx : Boards, passed : BOOLEAN,
   status : StatusType \cup {None}, ends : Seq(Nat), truth : TruthType,
   flaws : SUBSET Flaws]

HostType ==
  [probe : Probes, phases : Seq(PhaseType), phase : Nat, pc : Nat,
   log : [Boards -> LogType], truth : TruthType, flaws : SUBSET Flaws,
   done : Seq(EntryType), quiet : BOOLEAN]

ReportType == [probe : Probes, phases : Seq(EntryType), quiet : BOOLEAN]

\* The host and the boards hold what they are made for.
Types ==
  /\ board \in [Boards -> BoardType]
  /\ host \in HostType \cup {Idle}
  /\ report \in ReportType \cup {None}
  /\ started \in Nat /\ mishaps \in Nat

\* A running script is at one of its phases, and at a command of it or past the last.
Placed ==
  Running => /\ host.phase \in 1 .. Len(host.phases)
             /\ host.pc \in 1 .. Len(Commands) + 1
             /\ Len(host.done) = host.phase - 1
             /\ \E rx \in Boards : host.phases = Phases(host.probe, rx, Peer(rx))

----------------------------------------------------------------------------
(* The scripts.                                                            *)

\* A command that leaves its board other than at rest, and the one that undoes it.
Dirties(c) ==
  \/ c.do \in {"rx", "setRxOverflow", "setTxTone"} /\ c.arg = TRUE
  \/ c.do = "role" /\ c.arg \notin {"idle", "mem"}
Undo(c) == Step(c.to, c.do, IF c.do = "role" THEN "idle" ELSE FALSE)

\* Every such command is undone later.
Tidy(s) ==
  \A k \in 1 .. Len(s) : Dirties(s[k]) => \E j \in k + 1 .. Len(s) : s[j] = Undo(s[k])

\* All that s leaves is undone somewhere in t.
UndoneIn(s, t) ==
  \A k \in 1 .. Len(s) : Dirties(s[k]) => \E j \in 1 .. Len(t) : t[j] = Undo(s[k])

\* Nothing in s needs to be undone.
Harmless(s) == \A k \in 1 .. Len(s) : ~Dirties(s[k])

\* What one script leaves may be undone by the next one.
LEMMA Concatenation ==
  ASSUME NEW s \in Seq(CommandType), NEW t \in Seq(CommandType)
  PROVE  /\ s \o t \in Seq(CommandType)
         /\ Harmless(s) /\ Harmless(t) => Harmless(s \o t)
         /\ Tidy(s) /\ Tidy(t) => Tidy(s \o t)
         /\ UndoneIn(s, t) /\ Tidy(t) => Tidy(s \o t)
         /\ Harmless(s) => Tidy(s)
<1>1. /\ s \o t \in Seq(CommandType) /\ Len(s) \in Nat /\ Len(t) \in Nat
      /\ Len(s \o t) = Len(s) + Len(t)
      /\ \A i \in 1 .. Len(s) + Len(t) :
           (s \o t)[i] = IF i <= Len(s) THEN s[i] ELSE t[i - Len(s)]
  BY ConcatProperties
<1>2. Harmless(s) => Tidy(s)
  BY DEF Harmless, Tidy
<1>3. ASSUME Harmless(s), Harmless(t) PROVE Harmless(s \o t)
  <2>1. SUFFICES ASSUME NEW k \in 1 .. Len(s) + Len(t) PROVE ~Dirties((s \o t)[k])
    BY <1>1 DEF Harmless
  <2>2. CASE k <= Len(s)
    <3>1. k \in 1 .. Len(s) /\ (s \o t)[k] = s[k]
      BY <1>1, <2>2
    <3> QED BY <1>3, <3>1 DEF Harmless
  <2>3. CASE ~(k <= Len(s))
    <3>1. k - Len(s) \in 1 .. Len(t) /\ (s \o t)[k] = t[k - Len(s)]
      BY <1>1, <2>3
    <3> QED BY <1>3, <3>1 DEF Harmless
  <2> QED BY <2>2, <2>3
<1>4. \A j \in 1 .. Len(t) : Len(s) + j \in 1 .. Len(s) + Len(t) /\ (s \o t)[Len(s) + j] = t[j]
  <2>1. SUFFICES ASSUME NEW j \in 1 .. Len(t)
                 PROVE  Len(s) + j \in 1 .. Len(s) + Len(t) /\ (s \o t)[Len(s) + j] = t[j]
    OBVIOUS
  <2>2. Len(s) + j \in 1 .. Len(s) + Len(t) /\ ~(Len(s) + j <= Len(s)) /\ Len(s) + j - Len(s) = j
    BY <1>1
  <2> QED BY <1>1, <2>2
<1>5. \A k \in 1 .. Len(s) : k \in 1 .. Len(s) + Len(t) /\ (s \o t)[k] = s[k]
  BY <1>1
<1>6. ASSUME Tidy(t), NEW k \in 1 .. Len(s) + Len(t), ~(k <= Len(s)), Dirties((s \o t)[k])
      PROVE  \E j \in k + 1 .. Len(s) + Len(t) : (s \o t)[j] = Undo((s \o t)[k])
  <2>1. k - Len(s) \in 1 .. Len(t) /\ (s \o t)[k] = t[k - Len(s)]
    BY <1>1, <1>6
  <2>2. PICK j \in k - Len(s) + 1 .. Len(t) : t[j] = Undo(t[k - Len(s)])
    BY <1>6, <2>1 DEF Tidy
  <2>3. j \in 1 .. Len(t) /\ Len(s) + j \in k + 1 .. Len(s) + Len(t)
    BY <1>1, <2>1, <2>2
  <2> QED BY <1>4, <2>1, <2>2, <2>3
<1>7. ASSUME Tidy(s), Tidy(t) PROVE Tidy(s \o t)
  <2>1. SUFFICES ASSUME NEW k \in 1 .. Len(s) + Len(t), Dirties((s \o t)[k])
                 PROVE  \E j \in k + 1 .. Len(s) + Len(t) : (s \o t)[j] = Undo((s \o t)[k])
    BY <1>1 DEF Tidy
  <2>2. CASE k <= Len(s)
    <3>1. k \in 1 .. Len(s) /\ (s \o t)[k] = s[k]
      BY <1>1, <2>2
    <3>2. PICK j \in k + 1 .. Len(s) : s[j] = Undo(s[k])
      BY <1>7, <2>1, <3>1 DEF Tidy
    <3>3. j \in 1 .. Len(s) /\ j \in k + 1 .. Len(s) + Len(t)
      BY <1>1, <3>1, <3>2
    <3> QED BY <1>5, <3>1, <3>2, <3>3
  <2> QED BY <1>6, <1>7, <2>1, <2>2
<1>8. ASSUME UndoneIn(s, t), Tidy(t) PROVE Tidy(s \o t)
  <2>1. SUFFICES ASSUME NEW k \in 1 .. Len(s) + Len(t), Dirties((s \o t)[k])
                 PROVE  \E j \in k + 1 .. Len(s) + Len(t) : (s \o t)[j] = Undo((s \o t)[k])
    BY <1>1 DEF Tidy
  <2>2. CASE k <= Len(s)
    <3>1. k \in 1 .. Len(s) /\ (s \o t)[k] = s[k]
      BY <1>1, <2>2
    <3>2. PICK j \in 1 .. Len(t) : t[j] = Undo(s[k])
      BY <1>8, <2>1, <3>1 DEF UndoneIn
    <3>3. Len(s) + j \in k + 1 .. Len(s) + Len(t)
      BY <1>1, <3>1, <3>2
    <3> QED BY <1>4, <3>1, <3>2, <3>3
  <2> QED BY <1>6, <1>8, <2>1, <2>2
<1> QED BY <1>1, <1>2, <1>3, <1>7, <1>8

\* Parts of a script may share the command that undoes what they leave.
LEMMA Together ==
  ASSUME NEW s \in Seq(CommandType), NEW t \in Seq(CommandType), NEW u \in Seq(CommandType),
         UndoneIn(s, u) \/ Harmless(s), UndoneIn(t, u) \/ Harmless(t)
  PROVE  s \o t \in Seq(CommandType) /\ UndoneIn(s \o t, u)
<1>0. s \o t \in Seq(CommandType)
  BY ConcatProperties
<1>1. /\ Len(s) \in Nat /\ Len(t) \in Nat /\ Len(s \o t) = Len(s) + Len(t)
      /\ \A i \in 1 .. Len(s) + Len(t) :
           (s \o t)[i] = IF i <= Len(s) THEN s[i] ELSE t[i - Len(s)]
  BY ConcatProperties
<1>2. SUFFICES ASSUME NEW k \in 1 .. Len(s) + Len(t), Dirties((s \o t)[k])
               PROVE  \E j \in 1 .. Len(u) : u[j] = Undo((s \o t)[k])
  BY <1>0, <1>1 DEF UndoneIn
<1>3. CASE k <= Len(s)
  <2>1. k \in 1 .. Len(s) /\ (s \o t)[k] = s[k]
    BY <1>1, <1>3
  <2> QED BY <1>2, <2>1 DEF UndoneIn, Harmless
<1>4. CASE ~(k <= Len(s))
  <2>1. k - Len(s) \in 1 .. Len(t) /\ (s \o t)[k] = t[k - Len(s)]
    BY <1>1, <1>4
  <2> QED BY <1>2, <2>1 DEF UndoneIn, Harmless
<1> QED BY <1>3, <1>4

\* fg23_pair_smoke's receiver ends at rest (test_direction's last rx 0).
LEMMA PairSmokeTidy == PairSmoke \in Seq(CommandType) /\ Tidy(PairSmoke)
<1> DEFINE p1 == <<Step("rx", "rx", FALSE), Step("tx", "rx", FALSE)>>
           p2 == <<Step("rx", "resetCounters", 0), Step("rx", "rx", TRUE),
                         Step("tx", "resetCounters", 0)>>
           p3 == <<Step("tx", "load", Vendor), Step("tx", "send", Packets)>>
           p4 == <<Step("rx", "status", 0), Step("tx", "status", 0)>>
           p5 == <<Step("rx", "rx", FALSE)>>
<1>1. PairSmoke = p1 \o p2 \o p3 \o p4 \o p5
  BY DEF PairSmoke, Both, SendVendor
<1>2. /\ p1 \in Seq(CommandType) /\ p2 \in Seq(CommandType) /\ p3 \in Seq(CommandType)
      /\ p4 \in Seq(CommandType) /\ p5 \in Seq(CommandType)
  BY BenchAssumption DEF Step, CommandType, Vendor
<1>3. Harmless(p1) /\ Harmless(p3) /\ Harmless(p4) /\ Harmless(p5)
  BY DEF Harmless, Dirties, Step
<1>4. UndoneIn(p2, p5)
  <2>1. p5[1] = Step("rx", "rx", FALSE) /\ Len(p5) = 1 /\ 1 \in 1 .. 1
    OBVIOUS
  <2>2. \A k \in 1 .. Len(p2) : Dirties(p2[k]) => k = 2
    BY DEF Dirties, Step
  <2>3. p5[1] = Undo(p2[2])
    BY DEF Undo, Step
  <2> QED BY <2>1, <2>2, <2>3 DEF UndoneIn
<1> HIDE DEF p1, p2, p3, p4, p5
<1> DEFINE q2 == p1 \o p2
           q3 == q2 \o p3
           q4 == q3 \o p4
<1>5. q2 \in Seq(CommandType) /\ UndoneIn(q2, p5)
  BY <1>2, <1>3, <1>4, Together
<1>6. q3 \in Seq(CommandType) /\ UndoneIn(q3, p5)
  <2> HIDE DEF q2
  <2> QED BY <1>2, <1>3, <1>5, Together
<1>7. q4 \in Seq(CommandType) /\ UndoneIn(q4, p5)
  <2> HIDE DEF q2, q3
  <2> QED BY <1>2, <1>3, <1>6, Together
<1>8. q4 \o p5 \in Seq(CommandType) /\ Tidy(q4 \o p5)
  <2> HIDE DEF q4
  <2> QED BY <1>2, <1>3, <1>7, Concatenation
<1> QED BY <1>1, <1>8

\* Where the commands of a concatenation are.
LEMMA Indices ==
  ASSUME NEW s \in Seq(CommandType), NEW t \in Seq(CommandType)
  PROVE  /\ Len(s \o t) = Len(s) + Len(t)
         /\ \A k \in 1 .. Len(s) : (s \o t)[k] = s[k]
         /\ \A k \in 1 .. Len(t) : (s \o t)[Len(s) + k] = t[k]
<1>1. /\ Len(s) \in Nat /\ Len(t) \in Nat /\ Len(s \o t) = Len(s) + Len(t)
      /\ \A i \in 1 .. Len(s) + Len(t) :
           (s \o t)[i] = IF i <= Len(s) THEN s[i] ELSE t[i - Len(s)]
  BY ConcatProperties
<1>2. \A k \in 1 .. Len(s) : (s \o t)[k] = s[k]
  BY <1>1
<1>3. ASSUME NEW k \in 1 .. Len(t) PROVE (s \o t)[Len(s) + k] = t[k]
  <2>1. Len(s) + k \in 1 .. Len(s) + Len(t) /\ ~(Len(s) + k <= Len(s)) /\ Len(s) + k - Len(s) = k
    BY <1>1
  <2> QED BY <1>1, <2>1
<1> QED BY <1>1, <1>2, <1>3

\* Loading and sending packets leaves nothing to undo.
LEMMA SendEachTidy ==
  ASSUME NEW packets \in Seq(Int)
  PROVE  SendEach(packets) \in Seq(CommandType) /\ Harmless(SendEach(packets))
<1> DEFINE n == 2 * Len(packets)
           s == [k \in 1 .. n |-> IF k % 2 = 1 THEN Step("tx", "load", packets[(k + 1) \div 2])
                                               ELSE Step("tx", "send", 1)]
<1>1. SendEach(packets) = s /\ n \in Nat
  BY DEF SendEach
<1>2. \A k \in 1 .. n : s[k] \in CommandType /\ ~Dirties(s[k])
  <2>1. SUFFICES ASSUME NEW k \in 1 .. n PROVE s[k] \in CommandType /\ ~Dirties(s[k])
    OBVIOUS
  <2>2. CASE k % 2 = 1
    <3>1. (k + 1) \div 2 \in 1 .. Len(packets)
      BY <2>2
    <3>2. packets[(k + 1) \div 2] \in Int
      BY <3>1
    <3>3. s[k] = Step("tx", "load", packets[(k + 1) \div 2])
      BY <2>2
    <3> QED BY <3>2, <3>3 DEF Step, CommandType, Dirties
  <2>3. CASE k % 2 # 1
    <3>1. s[k] = Step("tx", "send", 1)
      BY <2>3
    <3> QED BY <3>1 DEF Step, CommandType, Dirties
  <2> QED BY <2>2, <2>3
<1>3. s \in Seq(CommandType) /\ Len(s) = n
  BY <1>1, <1>2
<1> QED BY <1>1, <1>2, <1>3 DEF Harmless

\* Neither do the scripts that send the vendor packets or malformed ones.
LEMMA Packages ==
  /\ SendAll \in Seq(CommandType) /\ Harmless(SendAll)
  /\ SendMalformed \in Seq(CommandType) /\ Harmless(SendMalformed)
<1>1. [i \in 1 .. Packets |-> i] \in Seq(Int) /\ [i \in 1 .. Injected |-> Malformed] \in Seq(Int)
  BY BenchAssumption DEF Malformed
<1> QED BY <1>1, SendEachTidy DEF SendAll, SendMalformed

\* The packet run of the application's image ends with the receiver off.
LEMMA PacketRunTidy == PacketRun \in Seq(CommandType) /\ Tidy(PacketRun)
<1> DEFINE p1 == <<Step("rx", "rx", FALSE), Step("tx", "rx", FALSE)>>
           p2 == <<Step("rx", "resetCounters", 0), Step("rx", "rx", TRUE),
                         Step("tx", "resetCounters", 0)>>
           p4 == <<Step("rx", "status", 0), Step("tx", "status", 0)>>
           p5 == <<Step("rx", "rx", FALSE)>>
<1>1. PacketRun = p1 \o p2 \o SendAll \o p4 \o p5
  BY DEF PacketRun, Both
<1>2. /\ p1 \in Seq(CommandType) /\ p2 \in Seq(CommandType)
      /\ p4 \in Seq(CommandType) /\ p5 \in Seq(CommandType)
  BY DEF Step, CommandType
<1>3. Harmless(p1) /\ Harmless(p4) /\ Harmless(p5)
  BY DEF Harmless, Dirties, Step
<1>4. UndoneIn(p2, p5)
  <2>1. p5[1] = Step("rx", "rx", FALSE) /\ Len(p5) = 1 /\ 1 \in 1 .. 1
    OBVIOUS
  <2>2. \A k \in 1 .. Len(p2) : Dirties(p2[k]) => k = 2
    BY DEF Dirties, Step
  <2>3. p5[1] = Undo(p2[2])
    BY DEF Undo, Step
  <2> QED BY <2>1, <2>2, <2>3 DEF UndoneIn
<1> HIDE DEF p1, p2, p4, p5
<1> DEFINE q2 == p1 \o p2
           q3 == q2 \o SendAll
           q4 == q3 \o p4
<1>5. q2 \in Seq(CommandType) /\ UndoneIn(q2, p5)
  BY <1>2, <1>3, <1>4, Together
<1>6. q3 \in Seq(CommandType) /\ UndoneIn(q3, p5)
  <2> HIDE DEF q2
  <2> QED BY <1>2, <1>3, <1>5, Together, Packages
<1>7. q4 \in Seq(CommandType) /\ UndoneIn(q4, p5)
  <2> HIDE DEF q2, q3
  <2> QED BY <1>2, <1>3, <1>6, Together
<1>8. q4 \o p5 \in Seq(CommandType) /\ Tidy(q4 \o p5)
  <2> HIDE DEF q4
  <2> QED BY <1>2, <1>3, <1>7, Concatenation
<1> QED BY <1>1, <1>8

\* The automatic transmitter and its receiver are set idle again.
LEMMA AutoRoleTidy == AutoRole \in Seq(CommandType) /\ Tidy(AutoRole)
<1> DEFINE p1 == <<Step("rx", "rx", FALSE), Step("tx", "rx", FALSE)>>
           p2 == <<Step("rx", "resetCounters", 0), Step("tx", "resetCounters", 0)>>
           p3 == <<Step("rx", "role", "rx"), Step("tx", "role", "tx"), Step("tx", "wait", 0)>>
           p4 == <<Step("rx", "role", "idle"), Step("tx", "role", "idle")>>
           p5 == <<Step("rx", "status", 0), Step("tx", "status", 0)>>
<1>1. AutoRole = p1 \o p2 \o p3 \o p4 \o p5
  BY DEF AutoRole, Both
<1>2. /\ p1 \in Seq(CommandType) /\ p2 \in Seq(CommandType) /\ p3 \in Seq(CommandType)
      /\ p4 \in Seq(CommandType) /\ p5 \in Seq(CommandType)
  BY DEF Step, CommandType, Roles
<1>3. Harmless(p1) /\ Harmless(p2) /\ Harmless(p4) /\ Harmless(p5)
  BY DEF Harmless, Dirties, Step
<1>4. UndoneIn(p3, p4)
  <2>1. Len(p4) = 2 /\ 1 \in 1 .. 2 /\ 2 \in 1 .. 2
    OBVIOUS
  <2>2. \A k \in 1 .. Len(p3) : Dirties(p3[k]) => k = 1 \/ k = 2
    BY DEF Dirties, Step
  <2>3. p4[1] = Undo(p3[1]) /\ p4[2] = Undo(p3[2])
    BY DEF Undo, Step
  <2> QED BY <2>1, <2>2, <2>3 DEF UndoneIn
<1> HIDE DEF p1, p2, p3, p4, p5
<1>5. p1 \o p2 \o p3 \in Seq(CommandType) /\ UndoneIn(p1 \o p2 \o p3, p4)
  BY <1>2, <1>3, <1>4, Concatenation, Together
<1>6. p1 \o p2 \o p3 \o p4 \in Seq(CommandType) /\ Tidy(p1 \o p2 \o p3 \o p4)
  BY <1>2, <1>3, <1>5, Concatenation
<1> QED BY <1>1, <1>2, <1>3, <1>6, Concatenation

\* The packets of the host to a board in the RX role, which is left in after.
LEMMA InjectTidy ==
  ASSUME NEW before \in Seq(CommandType), NEW packets \in Seq(CommandType),
         NEW after \in Seq(CommandType),
         Harmless(before), Harmless(packets), Harmless(after),
         NEW j \in 1 .. Len(after), after[j] = Step("rx", "role", "idle")
  PROVE  /\ Inject(before, packets, after) \in Seq(CommandType)
         /\ Tidy(Inject(before, packets, after))
<1> DEFINE p1 == <<Step("rx", "rx", FALSE), Step("tx", "rx", FALSE)>>
           p2 == <<Step("rx", "resetCounters", 0), Step("tx", "resetCounters", 0)>>
           p3 == <<Step("rx", "role", "rx")>>
<1>1. Inject(before, packets, after) = p1 \o p2 \o before \o p3 \o packets \o after
  BY DEF Inject, Both
<1>2. p1 \in Seq(CommandType) /\ p2 \in Seq(CommandType) /\ p3 \in Seq(CommandType)
  BY DEF Step, CommandType, Roles
<1>3. Harmless(p1) /\ Harmless(p2)
  BY DEF Harmless, Dirties, Step
<1>4. UndoneIn(p3, after)
  <2>1. after[j] = Undo(p3[1]) /\ Len(p3) = 1
    BY DEF Undo, Step
  <2> QED BY <2>1 DEF UndoneIn
<1> HIDE DEF p1, p2, p3
<1>5. p1 \o p2 \in Seq(CommandType) /\ Harmless(p1 \o p2)
  BY <1>2, <1>3, Concatenation
<1>6. p1 \o p2 \o before \in Seq(CommandType) /\ Harmless(p1 \o p2 \o before)
  BY <1>5, Concatenation
<1>7. p1 \o p2 \o before \o p3 \in Seq(CommandType) /\ UndoneIn(p1 \o p2 \o before \o p3, after)
  BY <1>2, <1>4, <1>6, Concatenation, Together
<1>8. /\ p1 \o p2 \o before \o p3 \o packets \in Seq(CommandType)
      /\ UndoneIn(p1 \o p2 \o before \o p3 \o packets, after)
  BY <1>7, Concatenation, Together
<1>9. Tidy(after)
  BY Concatenation
<1> QED BY <1>1, <1>8, <1>9, Concatenation

\* The scripts that push packets into the protocol core leave it idle.
LEMMA InjectionsTidy ==
  /\ QueuePressure \in Seq(CommandType) /\ Tidy(QueuePressure)
  /\ MalformedRx \in Seq(CommandType) /\ Tidy(MalformedRx)
  /\ MemoryWatermark \in Seq(CommandType) /\ Tidy(MemoryWatermark)
<1> DEFINE role == <<Step("rx", "role", "idle")>>
           mem == <<Step("rx", "role", "mem")>>
           status == <<Step("rx", "status", 0), Step("tx", "status", 0)>>
<1>1. /\ role \in Seq(CommandType) /\ mem \in Seq(CommandType) /\ status \in Seq(CommandType)
      /\ <<>> \in Seq(CommandType)
  BY DEF Step, CommandType, Roles
<1>2. Harmless(role) /\ Harmless(mem) /\ Harmless(status) /\ Harmless(<<>>)
  BY DEF Harmless, Dirties, Step
<1>3. role[1] = Step("rx", "role", "idle") /\ Len(role) = 1 /\ Len(status) = 2 /\ Len(mem) = 1
  OBVIOUS
<1> HIDE DEF role, mem, status
<1>4. /\ role \o status \in Seq(CommandType) /\ Harmless(role \o status)
      /\ Len(role \o status) = 3 /\ (role \o status)[1] = Step("rx", "role", "idle")
  <2>1. role \o status \in Seq(CommandType) /\ Harmless(role \o status)
    BY <1>1, <1>2, Concatenation
  <2>2. Len(role \o status) = Len(role) + Len(status)
    BY <1>1, Indices
  <2>3. 1 \in 1 .. Len(role)
    BY <1>3
  <2>4. (role \o status)[1] = role[1]
    BY <1>1, <2>3, Indices
  <2> QED BY <1>3, <2>1, <2>2, <2>4
<1>5. /\ mem \o status \in Seq(CommandType) /\ Harmless(mem \o status) /\ Len(mem \o status) = 3
  <2>1. mem \o status \in Seq(CommandType) /\ Harmless(mem \o status)
    BY <1>1, <1>2, Concatenation
  <2>2. Len(mem \o status) = Len(mem) + Len(status)
    BY <1>1, Indices
  <2> QED BY <1>3, <2>1, <2>2
<1>6. /\ mem \o status \o role \in Seq(CommandType) /\ Harmless(mem \o status \o role)
      /\ Len(mem \o status \o role) = 4
      /\ (mem \o status \o role)[4] = Step("rx", "role", "idle")
  <2>1. mem \o status \o role \in Seq(CommandType) /\ Harmless(mem \o status \o role)
    BY <1>1, <1>2, <1>5, Concatenation
  <2>2. Len(mem \o status \o role) = 3 + 1 /\ (mem \o status \o role)[3 + 1] = role[1]
    BY <1>1, <1>3, <1>5, Indices
  <2> QED BY <1>3, <2>1, <2>2
<1>7. SendMalformed \o SendAll \in Seq(CommandType) /\ Harmless(SendMalformed \o SendAll)
  BY Packages, Concatenation
<1>8. QueuePressure = Inject(<<>>, SendAll, role \o status)
  BY DEF QueuePressure, role, status, Both
<1>9. MalformedRx = Inject(<<>>, SendMalformed \o SendAll, role \o status)
  BY DEF MalformedRx, role, status, Both
<1>10. MemoryWatermark = Inject(mem, SendAll, mem \o status \o role)
  BY DEF MemoryWatermark, mem, role, status, Both
<1>11. QueuePressure \in Seq(CommandType) /\ Tidy(QueuePressure)
  <2>1. 1 \in 1 .. Len(role \o status)
    BY <1>4
  <2> QED BY <2>1, <1>1, <1>2, <1>4, <1>8, Packages, InjectTidy
<1>12. MalformedRx \in Seq(CommandType) /\ Tidy(MalformedRx)
  <2>1. 1 \in 1 .. Len(role \o status)
    BY <1>4
  <2> QED BY <2>1, <1>1, <1>2, <1>4, <1>7, <1>9, InjectTidy
<1>13. MemoryWatermark \in Seq(CommandType) /\ Tidy(MemoryWatermark)
  <2>1. 4 \in 1 .. Len(mem \o status \o role)
    BY <1>6
  <2> QED BY <2>1, <1>1, <1>2, <1>6, <1>10, Packages, InjectTidy
<1> QED BY <1>11, <1>12, <1>13

\* A receiver told to overflow is told to stop.
LEMMA OverflowTidy == Overflow \in Seq(CommandType) /\ Tidy(Overflow)
<1> DEFINE p1 == <<Step("rx", "rx", FALSE), Step("tx", "rx", FALSE)>>
           p2 == <<Step("rx", "resetCounters", 0), Step("rx", "setRxOverflow", TRUE),
                   Step("rx", "rx", TRUE), Step("tx", "resetCounters", 0)>>
           p3 == <<Step("tx", "load", Vendor), Step("tx", "send", 1)>>
           p4 == <<Step("rx", "status", 0), Step("rx", "setRxOverflow", FALSE),
                   Step("rx", "rx", FALSE), Step("rx", "status", 0), Step("tx", "rx", FALSE),
                   Step("tx", "status", 0), Step("tx", "reset", 0), Step("rx", "reset", 0)>>
<1>1. Overflow = p1 \o p2 \o p3 \o p4
  BY DEF Overflow, Both, SendVendor
<1>2. /\ p1 \in Seq(CommandType) /\ p2 \in Seq(CommandType)
      /\ p3 \in Seq(CommandType) /\ p4 \in Seq(CommandType)
  BY DEF Step, CommandType, Vendor
<1>3. Harmless(p1) /\ Harmless(p3) /\ Harmless(p4)
  BY DEF Harmless, Dirties, Step
<1>4. UndoneIn(p2, p4)
  <2>1. Len(p4) = 8 /\ 2 \in 1 .. 8 /\ 3 \in 1 .. 8
    OBVIOUS
  <2>2. \A k \in 1 .. Len(p2) : Dirties(p2[k]) => k = 2 \/ k = 3
    BY DEF Dirties, Step
  <2>3. p4[2] = Undo(p2[2]) /\ p4[3] = Undo(p2[3])
    BY DEF Undo, Step
  <2> QED BY <2>1, <2>2, <2>3 DEF UndoneIn
<1> HIDE DEF p1, p2, p3, p4
<1> QED BY <1>1, <1>2, <1>3, <1>4, Concatenation, Together

\* The board that transmits on a schedule is set idle again.
LEMMA ScheduledTxTidy == ScheduledTx \in Seq(CommandType) /\ Tidy(ScheduledTx)
<1>1. ScheduledTx \in Seq(CommandType)
  BY BenchAssumption DEF ScheduledTx, Step, CommandType, Roles
<1>2. \A k \in 1 .. Len(ScheduledTx) : Dirties(ScheduledTx[k]) => k = 4
  BY DEF ScheduledTx, Dirties, Step
<1>3. ScheduledTx[6] = Undo(ScheduledTx[4])
  BY DEF ScheduledTx, Undo, Step
<1>4. Len(ScheduledTx) = 7 /\ 6 \in 4 + 1 .. 7
  BY DEF ScheduledTx
<1> QED BY <1>1, <1>2, <1>3, <1>4 DEF Tidy

\* Transmitting at given times leaves nothing to undo.
LEMMA TxAtTidy == TxAt \in Seq(CommandType) /\ Tidy(TxAt)
<1> DEFINE p1 == <<Step("tx", "rx", FALSE), Step("tx", "resetCounters", 0)>>
           p2 == [i \in 1 .. Packets |-> Step("tx", "send", 1)]
           p3 == <<Step("tx", "status", 0)>>
<1>1. TxAt = p1 \o p2 \o p3
  BY DEF TxAt
<1>2. p1 \in Seq(CommandType) /\ p3 \in Seq(CommandType)
  BY DEF Step, CommandType
<1>3. Harmless(p1) /\ Harmless(p3)
  BY DEF Harmless, Dirties, Step
<1>4. p2 \in Seq(CommandType) /\ Harmless(p2)
  <2>1. Packets \in Nat /\ Step("tx", "send", 1) \in CommandType /\ ~Dirties(Step("tx", "send", 1))
    BY BenchAssumption DEF Step, CommandType, Dirties
  <2>2. p2 \in Seq(CommandType) /\ Len(p2) = Packets
    BY <2>1
  <2>3. \A k \in 1 .. Packets : p2[k] = Step("tx", "send", 1)
    OBVIOUS
  <2> QED BY <2>1, <2>2, <2>3 DEF Harmless
<1> HIDE DEF p1, p2, p3
<1> QED BY <1>1, <1>2, <1>3, <1>4, Concatenation

\* The tone is switched off.
LEMMA ToneTidy == Tone \in Seq(CommandType) /\ Tidy(Tone)
<1> DEFINE p1 == <<Step("rx", "rx", FALSE), Step("tx", "rx", FALSE)>>
           p2 == <<Step("tx", "setTxTone", FALSE), Step("rx", "rx", TRUE),
                   Step("rx", "getRssi", "baseline"), Step("tx", "setTxTone", TRUE),
                   Step("rx", "getRssi", "tone"), Step("tx", "setTxTone", FALSE),
                   Step("rx", "rx", FALSE)>>
<1>1. Tone = p1 \o p2
  BY DEF Tone, Both
<1>2. p1 \in Seq(CommandType) /\ p2 \in Seq(CommandType)
  BY DEF Step, CommandType
<1>3. Harmless(p1)
  BY DEF Harmless, Dirties, Step
<1>4. Tidy(p2)
  <2>1. Len(p2) = 7 /\ 7 \in 2 + 1 .. 7 /\ 6 \in 4 + 1 .. 7
    OBVIOUS
  <2>2. \A k \in 1 .. Len(p2) : Dirties(p2[k]) => k = 2 \/ k = 4
    BY DEF Dirties, Step
  <2>3. p2[7] = Undo(p2[2]) /\ p2[6] = Undo(p2[4])
    BY DEF Undo, Step
  <2> QED BY <2>1, <2>2, <2>3 DEF Tidy
<1> HIDE DEF p1, p2
<1> QED BY <1>1, <1>2, <1>3, <1>4, Concatenation

\* The board that is made to listen alone is stopped.
LEMMA FaultRecoveryTidy == FaultRecovery \in Seq(CommandType) /\ Tidy(FaultRecovery)
<1>1. FaultRecovery \in Seq(CommandType)
  BY DEF FaultRecovery, Step, CommandType
<1>2. \A k \in 1 .. Len(FaultRecovery) : Dirties(FaultRecovery[k]) => k = 3
  BY DEF FaultRecovery, Dirties, Step
<1>3. FaultRecovery[4] = Undo(FaultRecovery[3])
  BY DEF FaultRecovery, Undo, Step
<1>4. Len(FaultRecovery) = 8 /\ 4 \in 3 + 1 .. 8
  BY DEF FaultRecovery
<1> QED BY <1>1, <1>2, <1>3, <1>4 DEF Tidy

\* A reset leaves nothing to undo.
LEMMA ResetTidy ==
  <<Step("rx", "reset", 0)>> \in Seq(CommandType) /\ Tidy(<<Step("rx", "reset", 0)>>)
<1>1. <<Step("rx", "reset", 0)>> \in Seq(CommandType) /\ Harmless(<<Step("rx", "reset", 0)>>)
  BY DEF Step, CommandType, Harmless, Dirties
<1> QED BY <1>1 DEF Harmless, Tidy

\* Setting the transmit power leaves nothing to undo.
LEMMA PowerTidy ==
  ASSUME NEW power \in Powers
  PROVE  /\ SetTxPower(power) \in Seq(CommandType \cup PowerCommand)
         /\ Tidy(SetTxPower(power)) /\ Len(SetTxPower(power)) = 2
         /\ SetTxPower(power)[1] = Step("tx", "rx", FALSE)
         /\ SetTxPower(power)[2] = Step("tx", "setPower", power)
<1>1. SetTxPower(power) \in Seq(CommandType \cup PowerCommand)
  BY DEF SetTxPower, Step, CommandType, PowerCommand
<1>2. Harmless(SetTxPower(power))
  BY DEF SetTxPower, Step, Harmless, Dirties
<1>3. /\ Len(SetTxPower(power)) = 2
      /\ SetTxPower(power)[1] = Step("tx", "rx", FALSE)
      /\ SetTxPower(power)[2] = Step("tx", "setPower", power)
  BY DEF SetTxPower
<1> QED BY <1>1, <1>2, <1>3 DEF Harmless, Tidy

\* Every script consists of commands, and undoes what it does; only the power of
\* the transmitter is left to a later phase.
LEMMA ScriptTidy ==
  ASSUME NEW kind \in Kinds
  PROVE  /\ Script(kind) \in Seq(CommandType \cup PowerCommand) /\ Tidy(Script(kind))
         /\ kind \notin {"lowPower", "restore"} => Script(kind) \in Seq(CommandType)
<1>1. CASE kind \in {"smoke", "check", "direction", "packets", "autorole"}
  <2>1. Script(kind) \in Seq(CommandType) /\ Tidy(Script(kind))
    BY <1>1, PairSmokeTidy, PacketRunTidy, AutoRoleTidy DEF Script
  <2> QED BY <2>1, <1>1
<1>2. CASE kind \in {"pressure", "malformed", "watermark"}
  <2>1. Script(kind) \in Seq(CommandType) /\ Tidy(Script(kind))
    BY <1>2, InjectionsTidy DEF Script
  <2> QED BY <2>1, <1>2
<1>3. CASE kind \in {"overflow", "scheduled", "txAt"}
  <2>1. Script(kind) \in Seq(CommandType) /\ Tidy(Script(kind))
    BY <1>3, OverflowTidy, ScheduledTxTidy, TxAtTidy DEF Script
  <2> QED BY <2>1, <1>3
<1>4. CASE kind \in {"tone", "noTone", "fault", "reset"}
  <2>1. Script(kind) \in Seq(CommandType) /\ Tidy(Script(kind))
    BY <1>4, ToneTidy, FaultRecoveryTidy, ResetTidy DEF Script
  <2> QED BY <2>1, <1>4
<1>5. CASE kind \in {"lowPower", "restore"}
  BY <1>5, PowerTidy DEF Script, Powers
<1> QED BY <1>1, <1>2, <1>3, <1>4, <1>5 DEF Kinds

----------------------------------------------------------------------------
(* What happens to a board.                                                *)

\* What a packet changes at its receiver, and in what is kept of its lines.
Kept(b, c) ==
  /\ c.role = b.role /\ c.sequence = b.sequence /\ c.attempts = b.attempts
  /\ c.tried = b.tried /\ c.taken = b.taken /\ c.pending = b.pending
  /\ c.reported = b.reported /\ c.listening = b.listening /\ c.overflowing = b.overflowing
  /\ c.loaded = b.loaded /\ c.burst = b.burst /\ c.left = b.left /\ c.power = b.power
  /\ c.tone = b.tone /\ c.userTx = b.userTx
KeptLog(l, m) ==
  /\ m.mem = l.mem /\ m.status = l.status /\ m.overflow = l.overflow /\ m.ends = l.ends
  /\ m.queued = l.queued /\ m.done = l.done /\ m.summary = l.summary /\ m.rssi = l.rssi

\* A packet taken by the application: a bad one is only counted as a fault.
Accepted(b, l, p, c, m) ==
  /\ p < 1 => /\ c.rx = b.rx /\ c.next = b.next /\ c.gaps = b.gaps
              /\ c.faults = b.faults + 1
              /\ m.fails = l.fails + 1 /\ m.marker = l.marker
  /\ ~(p < 1) =>
       /\ c.rx = b.rx + 1 /\ c.next = p + 1 /\ c.faults = b.faults
       /\ c.gaps = IF b.next # 0 /\ p # b.next THEN b.gaps + 1 ELSE b.gaps
       /\ m.fails = l.fails
       /\ m.marker \in {l.marker, [rx |-> c.rx, sequence |-> p, gaps |-> c.gaps,
                                   faults |-> c.faults]}

\* A packet that is not.
Untouched(b, l, c, m) ==
  /\ c.rx = b.rx /\ c.next = b.next /\ c.gaps = b.gaps /\ c.faults = b.faults
  /\ m.fails = l.fails /\ m.marker = l.marker

\* What a received packet changes of a board and of its lines.
LEMMA AcceptKeeps ==
  ASSUME NEW b \in BoardType, NEW log \in LogType, NEW p \in Int
  PROVE  LET r == Accept(b, log, p) IN
         /\ r.b \in BoardType /\ r.log \in LogType
         /\ Kept(b, r.b) /\ KeptLog(log, r.log)
         /\ r.b.count = b.count /\ r.b.crc = b.crc /\ r.b.overflow = b.overflow
         /\ r.log.lines = log.lines /\ r.log.seen = log.seen
         /\ Accepted(b, log, p, r.b, r.log)
<1> DEFINE r == Accept(b, log, p)
<1> SUFFICES /\ r.b \in BoardType /\ r.log \in LogType
             /\ Kept(b, r.b) /\ KeptLog(log, r.log)
             /\ r.b.count = b.count /\ r.b.crc = b.crc /\ r.b.overflow = b.overflow
             /\ r.log.lines = log.lines /\ r.log.seen = log.seen
             /\ Accepted(b, log, p, r.b, r.log)
  OBVIOUS
<1>1. CASE p < 1
  <2>1. r.b = [b EXCEPT !.faults = @ + 1] /\ r.log = [log EXCEPT !.fails = @ + 1]
    BY <1>1 DEF Accept
  <2> HIDE DEF r
  <2>2. r.b \in BoardType
    BY <2>1 DEF BoardType
  <2>3. Kept(b, r.b) /\ r.b.count = b.count /\ r.b.crc = b.crc /\ r.b.overflow = b.overflow
    BY <2>1 DEF BoardType, Kept
  <2>4. r.log \in LogType
    <3>1. log.fails + 1 \in Nat
      BY DEF LogType
    <3> QED BY <2>1, <3>1 DEF LogType
  <2>5. KeptLog(log, r.log) /\ r.log.lines = log.lines /\ r.log.seen = log.seen
    BY <2>1 DEF LogType, KeptLog
  <2>6. /\ r.b.rx = b.rx /\ r.b.next = b.next /\ r.b.gaps = b.gaps /\ r.b.faults = b.faults + 1
        /\ r.log.fails = log.fails + 1 /\ r.log.marker = log.marker
    BY <2>1 DEF BoardType, LogType
  <2> QED BY <1>1, <2>2, <2>3, <2>4, <2>5, <2>6 DEF Accepted
<1>2. CASE ~(p < 1)
  <2> DEFINE gap == b.next # 0 /\ p # b.next
             g == IF gap THEN b.gaps + 1 ELSE b.gaps
             after == [b EXCEPT !.rx = @ + 1, !.next = p + 1, !.gaps = g]
             marker == [rx |-> after.rx, sequence |-> p, gaps |-> after.gaps,
                        faults |-> after.faults]
  <2>1. r = [b |-> after, log |-> IF gap \/ after.rx % ReportEvery = 0
                                  THEN [log EXCEPT !.marker = marker] ELSE log]
    BY <1>2 DEF Accept
  <2>2. r.b = after /\ r.log \in {log, [log EXCEPT !.marker = marker]}
    BY <2>1
  <2> HIDE DEF r, g, marker
  <2>3. b.rx \in Nat /\ b.gaps \in Nat /\ p + 1 \in Nat /\ p \in Nat
    BY <1>2 DEF BoardType
  <2>4. g \in Nat
    BY <2>3 DEF g
  <2>5. after \in BoardType
    <3>1. [b EXCEPT !.rx = b.rx + 1] \in BoardType
      BY DEF BoardType
    <3>2. [b EXCEPT !.rx = b.rx + 1, !.next = p + 1] \in BoardType
      BY <2>3, <3>1 DEF BoardType
    <3> QED BY <2>4, <3>2 DEF BoardType
  <2>6. Kept(b, after) /\ after.count = b.count /\ after.crc = b.crc /\ after.overflow = b.overflow
    BY DEF BoardType, Kept
  <2>7. marker \in MarkerType
    <3> HIDE DEF after
    <3> QED BY <2>3, <2>5 DEF BoardType, MarkerType, marker
  <2>8. r.log \in LogType /\ KeptLog(log, r.log) /\ r.log.lines = log.lines
        /\ r.log.seen = log.seen
    BY <2>2, <2>7 DEF LogType, KeptLog
  <2>9. /\ after.rx = b.rx + 1 /\ after.next = p + 1 /\ after.faults = b.faults /\ after.gaps = g
        /\ r.log.fails = log.fails /\ r.log.marker \in {log.marker, marker}
    BY <2>2, <2>3, <2>4 DEF BoardType, LogType
  <2> QED BY <1>2, <2>2, <2>5, <2>6, <2>8, <2>9 DEF Accepted, g, marker
<1> QED BY <1>1, <1>2

\* What p may change at its receiver, which was b with the lines l and becomes c with m.
Received(b, l, p, fate, c, m) ==
  LET heard == b.listening /\ fate = "heard"
      taken == b.role = "rx" /\ heard /\ ~b.overflowing
  IN /\ Kept(b, c) /\ KeptLog(l, m)
     /\ c.count # b.count => c.count = b.count + 1 /\ heard /\ ~b.overflowing
     /\ c.overflow # b.overflow => /\ c.overflow = 1 /\ c.count = b.count
                                   /\ heard /\ b.overflowing
     /\ taken => Accepted(b, l, p, c, m)
     /\ ~taken => Untouched(b, l, c, m)
     /\ \/ m.lines = l.lines /\ m.seen = l.seen
        \/ m.lines = l.lines + 1 /\ m.seen = l.seen \cup {p} /\ heard

\* A packet changes no more than what is counted and printed.
LEMMA ReceiveKeeps ==
  ASSUME NEW b \in BoardType, NEW log \in LogType, NEW p \in Int, NEW fate \in Fates
  PROVE  LET r == Receive(b, log, p, fate) IN
         r.b \in BoardType /\ r.log \in LogType /\ Received(b, log, p, fate, r.b, r.log)
<1> DEFINE r == Receive(b, log, p, fate)
           counted == [b EXCEPT !.count = @ + 1]
           Claim == r.b \in BoardType /\ r.log \in LogType
                    /\ Received(b, log, p, fate, r.b, r.log)
<1> SUFFICES Claim
  OBVIOUS
<1>0. Kept(b, b) /\ KeptLog(log, log) /\ Untouched(b, log, b, log)
  BY DEF Kept, KeptLog, Untouched
<1>1. CASE ~b.listening \/ fate = "lost"
  <2>1. r.b = b /\ r.log = log
    BY <1>1 DEF Receive
  <2> QED BY <1>0, <1>1, <2>1 DEF Received
<1>2. CASE b.listening /\ fate = "corrupt"
  <2>1. r.b = [b EXCEPT !.crc = @ + 1] /\ r.log = log
    BY <1>2 DEF Receive
  <2> HIDE DEF r
  <2>2. r.b \in BoardType
    BY <2>1 DEF BoardType
  <2>3. Kept(b, r.b) /\ r.b.count = b.count /\ r.b.overflow = b.overflow
    BY <2>1 DEF BoardType, Kept
  <2>4. Untouched(b, log, r.b, r.log)
    BY <2>1 DEF BoardType, Untouched
  <2> QED BY <1>0, <1>2, <2>1, <2>2, <2>3, <2>4 DEF Received
<1>3. CASE b.listening /\ fate = "heard" /\ b.overflowing
  <2>1. r.b = [b EXCEPT !.overflow = 1] /\ r.log = log
    BY <1>3 DEF Receive
  <2> HIDE DEF r
  <2>2. r.b \in BoardType
    BY <2>1 DEF BoardType
  <2>3. Kept(b, r.b) /\ r.b.count = b.count /\ r.b.overflow = 1
    BY <2>1 DEF BoardType, Kept
  <2>4. Untouched(b, log, r.b, r.log)
    BY <2>1 DEF BoardType, Untouched
  <2> QED BY <1>0, <1>3, <2>1, <2>2, <2>3, <2>4 DEF Received
<1>4. counted \in BoardType
  BY DEF BoardType
<1>5. /\ Kept(b, counted) /\ counted.count = b.count + 1 /\ counted.overflow = b.overflow
      /\ counted.rx = b.rx /\ counted.next = b.next /\ counted.gaps = b.gaps
      /\ counted.faults = b.faults
  BY DEF BoardType, Kept
<1>6. CASE b.listening /\ fate = "heard" /\ ~b.overflowing /\ b.role # "rx"
  <2>1. r.b = counted /\ r.log = [log EXCEPT !.lines = @ + 1, !.seen = @ \cup {p}]
    BY <1>6 DEF Receive
  <2> HIDE DEF r, counted
  <2>2. r.log \in LogType
    <3>1. log.lines + 1 \in Nat /\ log.seen \cup {p} \in SUBSET Int
      BY DEF LogType
    <3> DEFINE l == log.lines + 1
               seen == log.seen \cup {p}
    <3>2. r.log = [log EXCEPT !.lines = l, !.seen = seen]
      BY <2>1
    <3> HIDE DEF l, seen
    <3> QED BY <3>1, <3>2 DEF LogType, l, seen
  <2>3. KeptLog(log, r.log) /\ r.log.lines = log.lines + 1 /\ r.log.seen = log.seen \cup {p}
    BY <2>1 DEF LogType, KeptLog
  <2>4. Untouched(b, log, r.b, r.log)
    BY <1>5, <2>1 DEF LogType, Untouched
  <2> QED BY <1>4, <1>5, <1>6, <2>1, <2>2, <2>3, <2>4 DEF Received
<1>7. CASE b.listening /\ fate = "heard" /\ ~b.overflowing /\ b.role = "rx"
  <2>1. r = Accept(counted, log, p)
    BY <1>7 DEF Receive
  <2> HIDE DEF r, counted
  <2>2. /\ r.b \in BoardType /\ r.log \in LogType
        /\ Kept(counted, r.b) /\ KeptLog(log, r.log)
        /\ r.b.count = counted.count /\ r.b.overflow = counted.overflow
        /\ r.log.lines = log.lines /\ r.log.seen = log.seen
        /\ Accepted(counted, log, p, r.b, r.log)
    BY <1>4, <2>1, AcceptKeeps
  <2>3. Kept(b, r.b) /\ Accepted(b, log, p, r.b, r.log)
    BY <1>5, <2>2 DEF Kept, Accepted
  <2> QED BY <1>5, <1>7, <2>2, <2>3 DEF Received
<1> QED BY <1>1, <1>2, <1>3, <1>6, <1>7 DEF Fates

\* To clear the packet-pair state leaves the rest alone.
LEMMA InitStateKeeps ==
  ASSUME NEW b \in BoardType
  PROVE  LET c == InitState(b) IN
         /\ c \in BoardType
         /\ c.sequence = 0 /\ c.next = 0 /\ c.rx = 0 /\ c.gaps = 0 /\ c.faults = 0
         /\ c.role = b.role /\ c.listening = b.listening /\ c.overflowing = b.overflowing
         /\ c.tone = b.tone /\ c.power = b.power /\ c.count = b.count /\ c.crc = b.crc
         /\ c.overflow = b.overflow /\ c.userTx = b.userTx /\ c.left = b.left
         /\ c.burst = b.burst /\ c.loaded = b.loaded /\ c.tried = b.tried
         /\ c.taken = b.taken
<1>1. [b EXCEPT !.sequence = 0, !.next = 0] \in BoardType
  BY DEF BoardType
<1>2. [b EXCEPT !.sequence = 0, !.next = 0, !.rx = 0, !.gaps = 0] \in BoardType
  BY <1>1 DEF BoardType
<1>3. InitState(b) \in BoardType
  BY <1>2 DEF BoardType, InitState
<1> QED BY <1>3 DEF BoardType, InitState

\* A role that is new to a board clears what the protocol core counted; one that is
\* not changes nothing.
LEMMA SetRoleKeeps ==
  ASSUME NEW b \in BoardType, NEW role \in Roles
  PROVE  LET c == SetRole(b, role) IN
         /\ c \in BoardType /\ c.role = role
         /\ c.listening = IF role = b.role THEN b.listening ELSE role = "rx"
         /\ role # b.role => /\ c.sequence = 0 /\ c.next = 0 /\ c.rx = 0 /\ c.gaps = 0
                             /\ c.faults = 0 /\ c.tried = 0 /\ c.taken = 0
         /\ role = b.role => c = b
         /\ c.overflowing = b.overflowing
         /\ c.tone = b.tone /\ c.power = b.power /\ c.count = b.count /\ c.crc = b.crc
         /\ c.overflow = b.overflow /\ c.userTx = b.userTx /\ c.left = b.left
         /\ c.burst = b.burst /\ c.loaded = b.loaded
<1>1. CASE role = b.role
  BY <1>1 DEF SetRole
<1>2. CASE role # b.role
  <2> DEFINE i == InitState(b)
             listens == role = "rx"
             c == [i EXCEPT !.role = role, !.listening = listens, !.tried = 0,
                            !.taken = 0, !.pending = FALSE, !.reported = FALSE]
  <2>1. SetRole(b, role) = c
    BY <1>2 DEF SetRole
  <2>2. i \in BoardType /\ listens \in BOOLEAN
    BY InitStateKeeps
  <2> HIDE DEF i, listens
  <2>3. [i EXCEPT !.role = role, !.listening = listens] \in BoardType
    BY <2>2 DEF BoardType
  <2>4. [i EXCEPT !.role = role, !.listening = listens, !.tried = 0, !.taken = 0] \in BoardType
    BY <2>3 DEF BoardType
  <2>5. c \in BoardType
    BY <2>4 DEF BoardType
  <2>6. /\ c.role = role /\ c.listening = listens /\ c.tried = 0 /\ c.taken = 0
        /\ c.sequence = i.sequence /\ c.next = i.next /\ c.rx = i.rx /\ c.gaps = i.gaps
        /\ c.faults = i.faults /\ c.overflowing = i.overflowing /\ c.tone = i.tone
        /\ c.power = i.power /\ c.count = i.count /\ c.crc = i.crc
        /\ c.overflow = i.overflow /\ c.userTx = i.userTx /\ c.left = i.left
        /\ c.burst = i.burst /\ c.loaded = i.loaded
    BY <2>2 DEF BoardType
  <2> HIDE DEF c
  <2> QED BY <1>2, <2>1, <2>5, <2>6, InitStateKeeps DEF i, listens
<1> QED BY <1>1, <1>2

\* After a restart.
LEMMA FreshFields ==
  /\ Fresh \in BoardType
  /\ Fresh.role = "idle" /\ Fresh.listening = FALSE /\ Fresh.overflowing = FALSE
  /\ Fresh.tone = FALSE /\ Fresh.power = "normal" /\ Fresh.count = 0 /\ Fresh.overflow = 0
  /\ Fresh.left = 0 /\ Fresh.rx = 0 /\ Fresh.gaps = 0 /\ Fresh.faults = 0 /\ Fresh.next = 0
<1>1. Packets + 1 \in Nat
  BY BenchAssumption
<1> QED BY <1>1 DEF Fresh, BoardType, Roles, Powers, Vendor

\* The commands that only concern what RAILtest keeps.
LEMMA ObeySimple ==
  ASSUME NEW b \in BoardType, NEW log \in LogType,
         NEW c \in CommandType \cup PowerCommand, c.do \notin {"wait", "getRssi", "role", "reset"}
  PROVE  LET r == Obey(b, log, c.do, c.arg) IN
         /\ r.b \in BoardType /\ r.log \in LogType
         /\ r.b.role = b.role /\ r.b.rx = b.rx /\ r.b.gaps = b.gaps /\ r.b.faults = b.faults
         /\ r.b.next = b.next
         /\ r.b.listening = IF c.do = "rx" THEN c.arg ELSE b.listening
         /\ r.b.overflowing = IF c.do = "setRxOverflow" THEN c.arg ELSE b.overflowing
         /\ r.b.tone = IF c.do = "setTxTone" THEN c.arg ELSE b.tone
         /\ r.b.power = IF c.do = "setPower" THEN c.arg ELSE b.power
         /\ r.b.count = IF c.do = "resetCounters" THEN 0 ELSE b.count
         /\ r.b.overflow = IF c.do = "resetCounters" THEN 0 ELSE b.overflow
         /\ r.b.left = IF c.do = "send" THEN c.arg ELSE b.left
         /\ r.b.burst = IF c.do = "send" THEN c.arg ELSE b.burst
         /\ r.log.status = IF c.do = "status" THEN StatusOf(b) ELSE log.status
         /\ r.log.overflow # log.overflow => c.do = "status" /\ r.log.overflow = b.overflow
         /\ r.log.marker = log.marker /\ r.log.fails = log.fails /\ r.log.lines = log.lines
         /\ r.log.seen = log.seen /\ r.log.mem = log.mem /\ r.log.ends = log.ends
         /\ r.log.queued = log.queued /\ r.log.done = log.done
         /\ r.log.summary = log.summary /\ r.log.rssi = log.rssi
<1> DEFINE r == Obey(b, log, c.do, c.arg)
           Same(m) == /\ m.marker = log.marker /\ m.fails = log.fails /\ m.lines = log.lines
                      /\ m.seen = log.seen /\ m.mem = log.mem /\ m.ends = log.ends
                      /\ m.queued = log.queued /\ m.done = log.done
                      /\ m.summary = log.summary /\ m.rssi = log.rssi
           Claim == /\ r.b \in BoardType /\ r.log \in LogType
                    /\ r.b.role = b.role /\ r.b.rx = b.rx /\ r.b.gaps = b.gaps
                    /\ r.b.faults = b.faults /\ r.b.next = b.next
                    /\ r.b.listening = IF c.do = "rx" THEN c.arg ELSE b.listening
                    /\ r.b.overflowing = IF c.do = "setRxOverflow" THEN c.arg ELSE b.overflowing
                    /\ r.b.tone = IF c.do = "setTxTone" THEN c.arg ELSE b.tone
                    /\ r.b.power = IF c.do = "setPower" THEN c.arg ELSE b.power
                    /\ r.b.count = IF c.do = "resetCounters" THEN 0 ELSE b.count
                    /\ r.b.overflow = IF c.do = "resetCounters" THEN 0 ELSE b.overflow
                    /\ r.b.left = IF c.do = "send" THEN c.arg ELSE b.left
                    /\ r.b.burst = IF c.do = "send" THEN c.arg ELSE b.burst
                    /\ r.log.status = IF c.do = "status" THEN StatusOf(b) ELSE log.status
                    /\ r.log.overflow # log.overflow =>
                         c.do = "status" /\ r.log.overflow = b.overflow
                    /\ Same(r.log)
<1> SUFFICES Claim
  OBVIOUS
<1>0. Same(log)
  OBVIOUS
<1>1. c.do \in {"rx", "setRxOverflow", "setTxTone", "resetCounters", "status", "txCancel",
                "attempts", "send", "load", "setPower"}
  BY DEF CommandType, PowerCommand
<1>2. CASE c.do = "rx"
  <2>1. c.arg \in BOOLEAN /\ r.b = [b EXCEPT !.listening = c.arg] /\ r.log = log
    BY <1>2 DEF Obey, CommandType, PowerCommand
  <2> HIDE DEF r
  <2> QED BY <1>0, <1>2, <2>1 DEF BoardType
<1>3. CASE c.do = "setRxOverflow"
  <2>1. c.arg \in BOOLEAN /\ r.b = [b EXCEPT !.overflowing = c.arg] /\ r.log = log
    BY <1>3 DEF Obey, CommandType, PowerCommand
  <2> HIDE DEF r
  <2> QED BY <1>0, <1>3, <2>1 DEF BoardType
<1>4. CASE c.do = "setTxTone"
  <2>1. c.arg \in BOOLEAN /\ r.b = [b EXCEPT !.tone = c.arg] /\ r.log = log
    BY <1>4 DEF Obey, CommandType, PowerCommand
  <2> HIDE DEF r
  <2> QED BY <1>0, <1>4, <2>1 DEF BoardType
<1>5. CASE c.do = "resetCounters"
  <2>1. /\ r.b = [b EXCEPT !.count = 0, !.crc = 0, !.overflow = 0, !.userTx = 0]
        /\ r.log = log
    BY <1>5 DEF Obey
  <2> HIDE DEF r
  <2>2. [b EXCEPT !.count = 0, !.crc = 0] \in BoardType
    BY DEF BoardType
  <2>3. r.b \in BoardType
    BY <2>1, <2>2, ZenonT(60) DEF BoardType
  <2> QED BY <1>0, <1>5, <2>1, <2>3 DEF BoardType
<1>6. CASE c.do = "status"
  <2> DEFINE o == IF b.overflow > log.overflow THEN b.overflow ELSE log.overflow
             st == StatusOf(b)
  <2>1. r.b = b /\ r.log = [log EXCEPT !.status = st, !.overflow = o]
    BY <1>6 DEF Obey
  <2>2. st \in StatusType
    BY DEF StatusOf, StatusType, BoardType
  <2>3. o \in {0, 1} /\ (o # log.overflow => o = b.overflow)
    BY DEF BoardType, LogType
  <2> HIDE DEF r, o, st
  <2>4. r.log \in LogType
    BY <2>1, <2>2, <2>3 DEF LogType
  <2>5. Same(r.log) /\ r.log.status = st /\ r.log.overflow = o
    BY <2>1 DEF LogType
  <2> QED BY <1>6, <2>1, <2>3, <2>4, <2>5 DEF st
<1>7. CASE c.do = "txCancel"
  <2>1. r.b = b /\ r.log = log
    BY <1>7 DEF Obey
  <2> QED BY <1>0, <1>7, <2>1
<1>8. CASE c.do = "attempts"
  <2>1. c.arg \in Nat /\ r.b = [b EXCEPT !.attempts = c.arg] /\ r.log = log
    BY <1>8 DEF Obey, CommandType, PowerCommand
  <2> HIDE DEF r
  <2> QED BY <1>0, <1>8, <2>1 DEF BoardType
<1>9. CASE c.do = "send"
  <2>1. c.arg \in Nat /\ r.b = [b EXCEPT !.burst = c.arg, !.left = c.arg] /\ r.log = log
    BY <1>9 DEF Obey, CommandType, PowerCommand
  <2> HIDE DEF r
  <2> QED BY <1>0, <1>9, <2>1, ZenonT(60) DEF BoardType
<1>10. CASE c.do = "load"
  <2>1. c.arg \in Int /\ r.b = [b EXCEPT !.loaded = c.arg] /\ r.log = log
    BY <1>10 DEF Obey, CommandType, PowerCommand
  <2> HIDE DEF r
  <2> QED BY <1>0, <1>10, <2>1 DEF BoardType
<1>11. CASE c.do = "setPower"
  <2>1. c.arg \in Powers /\ r.b = [b EXCEPT !.power = c.arg] /\ r.log = log
    BY <1>11 DEF Obey, CommandType, PowerCommand
  <2> HIDE DEF r
  <2> QED BY <1>0, <1>11, <2>1 DEF BoardType
<1> QED BY <1>1, <1>2, <1>3, <1>4, <1>5, <1>6, <1>7, <1>8, <1>9, <1>10, <1>11

\* The commands that take a board out of its role or into another, and a reset.
LEMMA ObeyRole ==
  ASSUME NEW b \in BoardType, NEW log \in LogType,
         NEW c \in CommandType \cup PowerCommand, c.do \in {"role", "reset"}
  PROVE  LET r == Obey(b, log, c.do, c.arg) IN
         /\ r.b \in BoardType /\ r.log \in LogType
         /\ c.do = "reset" => r.b = Fresh
         /\ c.do = "role" =>
              /\ r.b.overflowing = b.overflowing /\ r.b.tone = b.tone /\ r.b.power = b.power
              /\ r.b.count = b.count /\ r.b.overflow = b.overflow /\ r.b.left = b.left
              /\ r.b.burst = b.burst
         /\ c.do = "role" /\ c.arg # "mem" => r.b = SetRole(b, c.arg) /\ c.arg \in Roles
         /\ c.do = "role" /\ c.arg = "mem" =>
              /\ r.b.role = "idle" /\ r.b.listening = FALSE /\ r.b.rx = 0 /\ r.b.gaps = 0
              /\ r.b.faults = 0 /\ r.b.next = 0
         /\ r.log.mem = IF c.do = "role" /\ c.arg = "mem"
                        THEN Append(log.mem, [rx |-> b.rx, gaps |-> b.gaps,
                                              faults |-> b.faults])
                        ELSE log.mem
         /\ r.log.status = log.status /\ r.log.overflow = log.overflow
         /\ r.log.marker = log.marker /\ r.log.fails = log.fails /\ r.log.lines = log.lines
         /\ r.log.seen = log.seen /\ r.log.ends = log.ends
         /\ r.log.queued = log.queued /\ r.log.done = log.done
         /\ r.log.summary = log.summary /\ r.log.rssi = log.rssi
<1> DEFINE r == Obey(b, log, c.do, c.arg)
<1>1. CASE c.do = "reset"
  <2>1. r.b = Fresh /\ r.log = log
    BY <1>1 DEF Obey
  <2> QED BY <1>1, <2>1, FreshFields
<1>2. CASE c.do = "role" /\ c.arg # "mem"
  <2>1. c.arg \in Roles
    BY <1>2 DEF CommandType, PowerCommand
  <2>2. r.b = SetRole(b, c.arg) /\ r.log = log
    BY <1>2 DEF Obey
  <2> HIDE DEF r
  <2> QED BY <1>2, <2>1, <2>2, SetRoleKeeps DEF r
<1>3. CASE c.do = "role" /\ c.arg = "mem"
  <2> DEFINE i == SetRole(b, "idle")
             n == [i EXCEPT !.listening = FALSE]
             m == [rx |-> b.rx, gaps |-> b.gaps, faults |-> b.faults]
             mem == Append(log.mem, m)
  <2>1. r.b = InitState(n) /\ r.log = [log EXCEPT !.mem = mem]
    BY <1>3 DEF Obey
  <2>2. /\ i \in BoardType /\ i.role = "idle" /\ i.overflowing = b.overflowing
        /\ i.tone = b.tone /\ i.power = b.power /\ i.count = b.count
        /\ i.overflow = b.overflow /\ i.left = b.left /\ i.burst = b.burst
    BY SetRoleKeeps DEF Roles
  <2> HIDE DEF i
  <2>3. /\ n \in BoardType /\ n.role = "idle" /\ n.overflowing = b.overflowing
        /\ n.tone = b.tone /\ n.power = b.power /\ n.count = b.count
        /\ n.overflow = b.overflow /\ n.left = b.left /\ n.burst = b.burst
        /\ n.listening = FALSE
    BY <2>2 DEF BoardType
  <2> HIDE DEF n
  <2>4. m \in [rx : Nat, gaps : Nat, faults : Nat]
    BY DEF BoardType
  <2>5. mem \in Seq([rx : Nat, gaps : Nat, faults : Nat])
    <3>1. log.mem \in Seq([rx : Nat, gaps : Nat, faults : Nat])
      BY DEF LogType
    <3> HIDE DEF m
    <3> QED BY <2>4, <3>1
  <2> HIDE DEF r, mem
  <2>6. /\ r.b \in BoardType /\ r.b.role = "idle" /\ r.b.listening = FALSE
        /\ r.b.rx = 0 /\ r.b.gaps = 0 /\ r.b.faults = 0 /\ r.b.next = 0
        /\ r.b.overflowing = b.overflowing /\ r.b.tone = b.tone /\ r.b.power = b.power
        /\ r.b.count = b.count /\ r.b.overflow = b.overflow /\ r.b.left = b.left
        /\ r.b.burst = b.burst
    BY <2>1, <2>3, InitStateKeeps
  <2>7. r.log \in LogType
    BY <2>1, <2>5 DEF LogType
  <2>8. /\ r.log.mem = mem
        /\ r.log.status = log.status /\ r.log.overflow = log.overflow
        /\ r.log.marker = log.marker /\ r.log.fails = log.fails /\ r.log.lines = log.lines
        /\ r.log.seen = log.seen /\ r.log.ends = log.ends
        /\ r.log.queued = log.queued /\ r.log.done = log.done
        /\ r.log.summary = log.summary /\ r.log.rssi = log.rssi
    BY <2>1 DEF LogType
  <2> QED BY <1>3, <2>6, <2>7, <2>8 DEF r, mem
<1> QED BY <1>1, <1>2, <1>3

----------------------------------------------------------------------------
(* The bench.                                                              *)

\* Each board is the peer of the other.
LEMMA TwoBoards ==
  ASSUME NEW b \in Boards
  PROVE  Peer(b) \in Boards /\ Peer(b) # b /\ Boards = {b, Peer(b)} /\ Peer(Peer(b)) = b
<1>1. IsFiniteSet(Boards \ {b}) /\ Cardinality(Boards \ {b}) = 1
  BY BenchAssumption, FS_RemoveElement
<1>2. PICK x : Boards \ {b} = {x}
  BY <1>1, FS_Singleton
<1>3. Boards = {b, x} /\ x # b /\ x \in Boards
  BY <1>2
<1>4. Peer(b) = x
  BY <1>3 DEF Peer
<1>5. Peer(x) = b
  BY <1>3 DEF Peer
<1> QED BY <1>3, <1>4, <1>5

\* The phases of a script have a receiver and the other board as transmitter, and
\* low power is followed by its restoration.
LEMMA PhasesFields ==
  ASSUME NEW probe \in Probes, NEW rx \in Boards
  PROVE  LET phases == Phases(probe, rx, Peer(rx)) IN
         /\ phases \in Seq(PhaseType) /\ Len(phases) \in Nat /\ Len(phases) >= 1
         /\ phases[1].rx = rx
         /\ \A i \in 1 .. Len(phases) :
              /\ phases[i] \in PhaseType /\ phases[i].tx = Peer(phases[i].rx)
              /\ phases[i].kind = "lowPower" =>
                   \E j \in i + 1 .. Len(phases) : phases[j].kind = "restore"
                                                   /\ phases[j].tx = phases[i].tx
<1> DEFINE tx == Peer(rx)
           same(kinds) == [i \in DOMAIN kinds |-> Phase(kinds[i], rx, tx)]
           Good(phases) ==
             /\ phases \in Seq(PhaseType) /\ Len(phases) \in Nat /\ Len(phases) >= 1
             /\ phases[1].rx = rx
             /\ \A i \in 1 .. Len(phases) :
                  /\ phases[i] \in PhaseType /\ phases[i].tx = Peer(phases[i].rx)
                  /\ phases[i].kind = "lowPower" =>
                       \E j \in i + 1 .. Len(phases) : phases[j].kind = "restore"
                                                       /\ phases[j].tx = phases[i].tx
<1>1. tx \in Boards /\ Peer(tx) = rx
  BY TwoBoards
<1> HIDE DEF tx
<1>2. \A kinds \in Seq(Kinds) :
        /\ Len(kinds) >= 1
        /\ \A i \in 1 .. Len(kinds) : kinds[i] = "lowPower" =>
             \E j \in i + 1 .. Len(kinds) : kinds[j] = "restore"
        => Good(same(kinds))
  <2>0. SUFFICES ASSUME NEW kinds \in Seq(Kinds), Len(kinds) >= 1,
                        \A i \in 1 .. Len(kinds) : kinds[i] = "lowPower" =>
                          \E j \in i + 1 .. Len(kinds) : kinds[j] = "restore"
                 PROVE  Good(same(kinds))
    OBVIOUS
  <2> DEFINE phases == same(kinds)
  <2>1. Len(kinds) \in Nat /\ DOMAIN kinds = 1 .. Len(kinds)
        /\ \A i \in 1 .. Len(kinds) : kinds[i] \in Kinds
    OBVIOUS
  <2>2. \A i \in 1 .. Len(kinds) :
          /\ phases[i] \in PhaseType
          /\ phases[i].kind = kinds[i] /\ phases[i].rx = rx /\ phases[i].tx = tx
    BY <1>1, <2>1 DEF Phase, PhaseType
  <2>3. phases \in Seq(PhaseType) /\ Len(phases) = Len(kinds)
    BY <2>1, <2>2
  <2> HIDE DEF phases
  <2>4. Good(phases)
    BY <1>1, <2>0, <2>1, <2>2, <2>3 DEF tx
  <2> QED BY <2>4 DEF phases
<1>3. ASSUME NEW a \in {"smoke", "direction"}
      PROVE  Good(<<Phase(a, rx, tx), Phase(a, tx, rx)>>)
  <2> DEFINE phases == <<Phase(a, rx, tx), Phase(a, tx, rx)>>
  <2>1. phases \in Seq(PhaseType) /\ Len(phases) = 2
    BY <1>1 DEF Phase, PhaseType, Kinds
  <2>2. \A i \in 1 .. 2 : phases[i] \in PhaseType /\ phases[i].kind = a
                          /\ phases[i].tx = Peer(phases[i].rx)
    BY <1>1 DEF Phase, PhaseType, Kinds, tx
  <2>4. phases[1].rx = rx
    BY DEF Phase
  <2> HIDE DEF phases
  <2>3. Good(phases)
    BY <2>1, <2>2, <2>4
  <2> QED BY <2>3 DEF phases
<1> HIDE DEF same, Good
<1>4. CASE probe = "smoke"
  <2>1. Phases(probe, rx, tx) = <<Phase("smoke", rx, tx), Phase("smoke", tx, rx)>>
    BY <1>4 DEF Phases
  <2> QED BY <1>3, <2>1 DEF Good, tx
<1>5. CASE probe = "retention"
  <2>1. Phases(probe, rx, tx) = <<Phase("direction", rx, tx), Phase("direction", tx, rx)>>
    BY <1>5 DEF Phases
  <2> QED BY <1>3, <2>1 DEF Good, tx
<1>6. CASE probe = "capacity"
  <2> DEFINE kinds == <<"check", "check">>
  <2>1. Phases(probe, rx, tx) = same(kinds)
    BY <1>6 DEF Phases, same
  <2>2. kinds \in Seq(Kinds) /\ Len(kinds) = 2
    BY <1>6 DEF Kinds
  <2>3. kinds[1] = "check" /\ kinds[2] = "check"
    OBVIOUS
  <2> HIDE DEF kinds
  <2>4. \A i \in 1 .. Len(kinds) : kinds[i] # "lowPower"
    BY <1>6, <2>2, <2>3
  <2>5. Len(kinds) >= 1
    BY <2>2
  <2>6. Good(same(kinds))
    BY <1>2, <2>2, <2>4, <2>5
  <2> QED BY <2>1, <2>6 DEF Good, tx
<1>7. CASE probe = "powerSweep"
  <2> DEFINE kinds == <<"lowPower", "check", "restore">>
  <2>1. Phases(probe, rx, tx) = same(kinds)
    BY <1>7 DEF Phases, same
  <2>2. kinds \in Seq(Kinds) /\ Len(kinds) = 3
    BY <1>7 DEF Kinds
  <2>3. kinds[1] = "lowPower" /\ kinds[2] = "check" /\ kinds[3] = "restore"
    OBVIOUS
  <2> HIDE DEF kinds
  <2>4. \A i \in 1 .. Len(kinds) : kinds[i] = "lowPower" =>
               \E j \in i + 1 .. Len(kinds) : kinds[j] = "restore"
    <3>1. \A i \in 1 .. 3 : kinds[i] = "lowPower" => i = 1
      BY <2>3
    <3> QED BY <2>2, <2>3, <3>1
  <2>5. Len(kinds) >= 1
    BY <2>2
  <2>6. Good(same(kinds))
    BY <1>2, <2>2, <2>4, <2>5
  <2> QED BY <2>1, <2>6 DEF Good, tx
<1>8. CASE probe = "recovery"
  <2> DEFINE kinds == <<"autorole", "autorole">>
  <2>1. Phases(probe, rx, tx) = same(kinds)
    BY <1>8 DEF Phases, RoleRuns, same
  <2>2. kinds \in Seq(Kinds) /\ Len(kinds) = 2
    BY <1>8 DEF Kinds
  <2>3. kinds[1] = "autorole" /\ kinds[2] = "autorole"
    OBVIOUS
  <2> HIDE DEF kinds
  <2>4. \A i \in 1 .. Len(kinds) : kinds[i] # "lowPower"
    BY <1>8, <2>2, <2>3
  <2>5. Len(kinds) >= 1
    BY <2>2
  <2>6. Good(same(kinds))
    BY <1>2, <2>2, <2>4, <2>5
  <2> QED BY <2>1, <2>6 DEF Good, tx
<1>9. CASE probe = "forcedReset"
  <2> DEFINE kinds == <<"pressure", "reset", "pressure">>
  <2>1. Phases(probe, rx, tx) = same(kinds)
    BY <1>9 DEF Phases, same
  <2>2. kinds \in Seq(Kinds) /\ Len(kinds) = 3
    BY <1>9 DEF Kinds
  <2>3. kinds[1] = "pressure" /\ kinds[2] = "reset" /\ kinds[3] = "pressure"
    OBVIOUS
  <2> HIDE DEF kinds
  <2>4. \A i \in 1 .. Len(kinds) : kinds[i] # "lowPower"
    BY <1>9, <2>2, <2>3
  <2>5. Len(kinds) >= 1
    BY <2>2
  <2>6. Good(same(kinds))
    BY <1>2, <2>2, <2>4, <2>5
  <2> QED BY <2>1, <2>6 DEF Good, tx
<1>10. CASE probe = "overflowRecovery"
  <2> DEFINE kinds == <<"overflow", "check">>
  <2>1. Phases(probe, rx, tx) = same(kinds)
    BY <1>10 DEF Phases, same
  <2>2. kinds \in Seq(Kinds) /\ Len(kinds) = 2
    BY <1>10 DEF Kinds
  <2>3. kinds[1] = "overflow" /\ kinds[2] = "check"
    OBVIOUS
  <2> HIDE DEF kinds
  <2>4. \A i \in 1 .. Len(kinds) : kinds[i] # "lowPower"
    BY <1>10, <2>2, <2>3
  <2>5. Len(kinds) >= 1
    BY <2>2
  <2>6. Good(same(kinds))
    BY <1>2, <2>2, <2>4, <2>5
  <2> QED BY <2>1, <2>6 DEF Good, tx
<1>11. CASE probe \in {"packets", "autorole", "pressure", "malformed", "watermark",
                       "scheduled", "txAt", "tone", "noTone", "fault"}
  <2> DEFINE kinds == <<probe>>
  <2>1. Phases(probe, rx, tx) = same(kinds)
    BY <1>11 DEF Phases, same
  <2>2. kinds \in Seq(Kinds) /\ Len(kinds) = 1
    BY <1>11 DEF Kinds
  <2>3. kinds[1] = probe
    OBVIOUS
  <2> HIDE DEF kinds
  <2>4. \A i \in 1 .. Len(kinds) : kinds[i] # "lowPower"
    BY <1>11, <2>2, <2>3
  <2>5. Len(kinds) >= 1
    BY <2>2
  <2>6. Good(same(kinds))
    BY <1>2, <2>2, <2>4, <2>5
  <2> QED BY <2>1, <2>6 DEF Good, tx
<1> QED BY <1>4, <1>5, <1>6, <1>7, <1>8, <1>9, <1>10, <1>11 DEF Probes, Good, tx

\* Nothing has been printed yet in a blank log.
LEMMA BlankFields ==
  /\ Blank \in LogType
  /\ Blank.marker = None /\ Blank.fails = 0 /\ Blank.lines = 0 /\ Blank.seen = {}
  /\ Blank.mem = <<>> /\ Blank.status = None /\ Blank.overflow = 0 /\ Blank.ends = <<>>
  /\ Blank.done = 0 /\ Blank.summary = None /\ Blank.rssi.tone = "none"
  /\ Blank.rssi.baseline = "none"
  BY DEF Blank, LogType, Levels

\* A running script is told from none by its fields.
LEMMA IdleIsNone == ASSUME NEW h \in HostType PROVE h # Idle
  BY DEF HostType, Idle

\* What a transmission changes: the lines and states of both boards, and what is
\* known of the phase.
LEMMA TransmitKeeps ==
  ASSUME Types, NEW from \in Boards, NEW b \in BoardType, NEW log \in LogType,
         NEW p \in Int, NEW fate \in Fates, Transmit(from, b, log, p, fate)
  PROVE  LET to == Peer(from)
             heard == board[to].listening /\ fate = "heard"
         IN
         /\ board' \in [Boards -> BoardType] /\ host' \in HostType \cup {Idle}
         /\ board'[from] = b
         /\ (host' = Idle <=> host = Idle)
         /\ host = Idle => Kept(board[to], board'[to])
                           /\ \E m \in LogType :
                                Received(board[to], Blank, p, fate, board'[to], m)
         /\ host # Idle =>
              /\ host'.probe = host.probe /\ host'.phases = host.phases
              /\ host'.phase = host.phase /\ host'.pc = host.pc /\ host'.flaws = host.flaws
              /\ host'.done = host.done
              /\ host'.log[from] = log
              /\ Received(board[to], host.log[to], p, fate, board'[to], host'.log[to])
              /\ host'.truth.resets = host.truth.resets
              /\ host'.truth.listened = host.truth.listened
              /\ host'.truth.tone = host.truth.tone
              /\ host'.truth.heard = IF heard /\ to = Current.rx
                                     THEN Append(host.truth.heard, p) ELSE host.truth.heard
              /\ host'.truth.sent = IF from = Current.tx THEN host.truth.sent + 1
                                    ELSE host.truth.sent
              /\ host'.truth.overflow = (host.truth.overflow
                   \/ (heard /\ to = Current.rx /\ board[to].overflowing))
<1> DEFINE to == Peer(from)
           heard == board[to].listening /\ fate = "heard"
           end == Receive(board[to], Log(to), p, fate)
           H == IF heard /\ to = Current.rx THEN Append(host.truth.heard, p) ELSE host.truth.heard
           S == IF from = Current.tx THEN host.truth.sent + 1 ELSE host.truth.sent
           O == host.truth.overflow \/ (heard /\ to = Current.rx /\ board[to].overflowing)
           Q == host.quiet /\ fate = "heard"
           L == [host.log EXCEPT ![from] = log, ![to] = end.log]
           T == [host.truth EXCEPT !.heard = H, !.sent = S, !.overflow = O]
<1>1. to \in Boards /\ to # from
  BY TwoBoards
<1>2. /\ board' = [board EXCEPT ![from] = b, ![to] = end.b]
      /\ host' = IF ~Running THEN host
                 ELSE [host EXCEPT !.log = L, !.truth.heard = H, !.truth.sent = S,
                                   !.truth.overflow = O, !.quiet = Q]
  BY DEF Transmit
<1>3. Blank \in LogType
  BY BlankFields
<1>4. Log(to) \in LogType
  BY <1>1, <1>3 DEF Log, Types, Running, HostType
<1>5. /\ end.b \in BoardType /\ end.log \in LogType
      /\ Received(board[to], Log(to), p, fate, end.b, end.log)
  BY <1>1, <1>4, ReceiveKeeps DEF Types
<1> HIDE DEF to, end, Q
<1>6. board' \in [Boards -> BoardType] /\ board'[from] = b /\ board'[to] = end.b
  BY <1>1, <1>2, <1>5 DEF Types
<1>7. CASE host = Idle
  <2>1. host' = host /\ Log(to) = Blank
    BY <1>2, <1>7 DEF Running, Log
  <2>2. Kept(board[to], board'[to]) /\ Received(board[to], Blank, p, fate, board'[to], end.log)
    BY <1>5, <1>6, <2>1 DEF Received
  <2> QED BY <1>5, <1>6, <1>7, <2>1, <2>2 DEF to
<1>8. CASE host # Idle
  <2>1. host \in HostType /\ Log(to) = host.log[to]
    BY <1>8 DEF Types, Log, Running
  <2>2. /\ host.truth \in TruthType /\ host.log \in [Boards -> LogType]
        /\ host.quiet \in BOOLEAN
    BY <2>1 DEF HostType
  <2>3. /\ H \in Seq(Int) /\ S \in Nat /\ O \in BOOLEAN /\ Q \in BOOLEAN
    BY <2>2 DEF TruthType, Q
  <2>4. L \in [Boards -> LogType] /\ L[from] = log /\ L[to] = end.log
    BY <1>1, <1>5, <2>2
  <2> HIDE DEF H, S, O, L
  <2>5. /\ T \in TruthType /\ T.heard = H /\ T.sent = S /\ T.overflow = O
        /\ T.resets = host.truth.resets /\ T.listened = host.truth.listened
        /\ T.tone = host.truth.tone
    BY <2>2, <2>3 DEF TruthType
  <2>6. host' = [host EXCEPT !.log = L, !.truth = T, !.quiet = Q]
    BY <1>2, <1>8, <2>1 DEF HostType, Running
  <2> HIDE DEF T
  <2>7. /\ host' \in HostType /\ host'.log = L /\ host'.truth = T
        /\ host'.probe = host.probe /\ host'.phases = host.phases
        /\ host'.phase = host.phase /\ host'.pc = host.pc /\ host'.flaws = host.flaws
        /\ host'.done = host.done
    BY <2>1, <2>3, <2>4, <2>5, <2>6 DEF HostType
  <2>8. host' # Idle
    BY <2>7, IdleIsNone
  <2> QED BY <1>5, <1>6, <1>8, <2>1, <2>4, <2>5, <2>7, <2>8 DEF H, S, O, to, heard
<1> QED BY <1>7, <1>8

\* The board a command of the current phase goes to.
Dest(c) == IF c.to = "rx" THEN Current.rx ELSE Current.tx

\* Where a running script stands.
LEMMA Situation ==
  ASSUME Types, Placed, Running
  PROVE  /\ host \in HostType /\ host.truth \in TruthType
         /\ Current \in PhaseType /\ Current.kind \in Kinds
         /\ Current.rx \in Boards /\ Current.tx \in Boards /\ Current.tx # Current.rx
         /\ Current.tx = Peer(Current.rx) /\ Current.rx = Peer(Current.tx)
         /\ Boards = {Current.rx, Current.tx}
         /\ Commands \in Seq(CommandType \cup PowerCommand) /\ Tidy(Commands)
         /\ Current.kind \notin {"lowPower", "restore"} => Commands \in Seq(CommandType)
<1>1. host \in HostType /\ host.truth \in TruthType
  BY DEF Types, Running, HostType
<1>2. Current \in PhaseType /\ Current.tx = Peer(Current.rx)
  <2>1. PICK rx \in Boards : host.phases = Phases(host.probe, rx, Peer(rx))
    BY DEF Placed
  <2>2. host.probe \in Probes /\ host.phase \in 1 .. Len(host.phases)
    BY <1>1 DEF HostType, Placed
  <2> QED BY <2>1, <2>2, PhasesFields DEF Current
<1>3. Current.kind \in Kinds /\ Current.rx \in Boards /\ Current.tx \in Boards
  BY <1>2 DEF PhaseType
<1>4. /\ Current.tx # Current.rx /\ Current.rx = Peer(Current.tx)
      /\ Boards = {Current.rx, Current.tx}
  BY <1>2, <1>3, TwoBoards
<1>5. /\ Commands \in Seq(CommandType \cup PowerCommand) /\ Tidy(Commands)
      /\ Current.kind \notin {"lowPower", "restore"} => Commands \in Seq(CommandType)
  BY <1>3, ScriptTidy DEF Commands
<1> QED BY <1>1, <1>2, <1>3, <1>4, <1>5

\* The command it is at.
LEMMA Instruction ==
  ASSUME Types, Placed, AtCommand
  PROVE  /\ Running /\ host.pc \in 1 .. Len(Commands)
         /\ Command \in CommandType \cup PowerCommand /\ Target \in Boards
         /\ Target = Dest(Command)
         /\ Command.do = "setPower" => /\ Current.kind \in {"lowPower", "restore"}
                                       /\ Target = Current.tx
         /\ Command.do = "getRssi" => /\ Target = Current.rx
                                      /\ Command.arg \in {"baseline", "tone"}
<1>1. Running /\ host.pc \in 1 .. Len(Commands)
  <2>1. host.pc \in 1 .. Len(Commands) + 1 /\ host.pc <= Len(Commands)
    BY DEF AtCommand, Placed
  <2>2. Len(Commands) \in Nat
    BY Situation DEF AtCommand
  <2> QED BY <2>1, <2>2 DEF AtCommand
<1>2. /\ Command \in CommandType \cup PowerCommand
      /\ Current.kind \notin {"lowPower", "restore"} => Command \in CommandType
  BY <1>1, Situation DEF Command
<1>3. Target \in Boards /\ Target = Dest(Command)
  BY <1>1, Situation DEF Target, Dest
<1>4. Command.do = "setPower" => /\ Current.kind \in {"lowPower", "restore"}
                                 /\ Target = Current.tx
  <2>1. Command.do = "setPower" => Command \in PowerCommand /\ Command \notin CommandType
    BY <1>2 DEF CommandType, PowerCommand
  <2> QED BY <1>2, <2>1 DEF PowerCommand, Target
<1>5. Command.do = "getRssi" => Command.to = "rx" /\ Command.arg \in {"baseline", "tone"}
  BY <1>2 DEF CommandType, PowerCommand
<1> QED BY <1>1, <1>2, <1>3, <1>4, <1>5 DEF Target

\* The script is still in the phase it was in.
InPhase ==
  /\ host' \in HostType /\ host' # Idle
  /\ host'.probe = host.probe /\ host'.phases = host.phases /\ host'.phase = host.phase
  /\ host'.done = host.done

\* What a command changes, besides what it does to its board.
LEMMA ExecuteKeeps ==
  ASSUME Types, Placed, Execute
  PROVE  LET out == Obey(board[Target], host.log[Target], Command.do, Command.arg)
         IN
         /\ board[Target] \in BoardType /\ host.log[Target] \in LogType
         /\ out.b \in BoardType /\ out.log \in LogType
         /\ board' = [board EXCEPT ![Target] = out.b]
         /\ InPhase /\ host'.pc = host.pc + 1 /\ host'.flaws = host.flaws
         /\ host'.log = [host.log EXCEPT ![Target] = out.log]
         /\ host'.truth.heard = host.truth.heard /\ host'.truth.sent = host.truth.sent
         /\ host'.truth.overflow = host.truth.overflow
         /\ host'.truth.tone = host.truth.tone
         /\ host'.truth.listened = (host.truth.listened
              \/ (Target = Current.rx /\ out.b.listening))
         /\ host'.truth.resets = IF Command.do = "reset" THEN host.truth.resets \cup {Target}
                                 ELSE host.truth.resets
<1> DEFINE out == Obey(board[Target], host.log[Target], Command.do, Command.arg)
           listened == host.truth.listened \/ (Target = Current.rx /\ out.b.listening)
           R == IF Command.do = "reset" THEN host.truth.resets \cup {Target}
                ELSE host.truth.resets
           L == [host.log EXCEPT ![Target] = out.log]
           T == [host.truth EXCEPT !.listened = listened, !.resets = R]
<1>1. /\ AtCommand /\ Running /\ Command \in CommandType \cup PowerCommand
      /\ Target \in Boards /\ Command.do \notin {"wait", "getRssi"}
  BY Instruction DEF Execute
<1>2. /\ host \in HostType /\ host.truth \in TruthType /\ host.log \in [Boards -> LogType]
      /\ host.pc \in Nat
  BY <1>1, Situation DEF HostType
<1>3. board[Target] \in BoardType /\ host.log[Target] \in LogType
  BY <1>1, <1>2 DEF Types
<1>4. out.b \in BoardType /\ out.log \in LogType
  <2>1. CASE Command.do \in {"role", "reset"}
    BY <1>1, <1>3, <2>1, ObeyRole
  <2>2. CASE Command.do \notin {"role", "reset"}
    BY <1>1, <1>3, <2>2, ObeySimple
  <2> QED BY <2>1, <2>2
<1>5. /\ board' = [board EXCEPT ![Target] = out.b]
      /\ host' = [host EXCEPT !.log[Target] = out.log, !.pc = @ + 1,
                              !.truth.listened = listened, !.truth.resets = R]
  BY DEF Execute
<1> HIDE DEF out
<1>6. listened \in BOOLEAN /\ R \in SUBSET Boards
  <2>1. host.truth.listened \in BOOLEAN /\ host.truth.resets \in SUBSET Boards
    BY <1>2 DEF TruthType
  <2> QED BY <1>1, <2>1
<1>7. L \in [Boards -> LogType]
  BY <1>1, <1>2, <1>4
<1> HIDE DEF listened, R
<1>8. host' = [host EXCEPT !.log = L, !.pc = host.pc + 1, !.truth = T]
  BY <1>2, <1>5 DEF HostType
<1> HIDE DEF L
<1>9. /\ T \in TruthType /\ T.listened = listened /\ T.resets = R
      /\ T.heard = host.truth.heard /\ T.sent = host.truth.sent
      /\ T.overflow = host.truth.overflow /\ T.tone = host.truth.tone
  BY <1>2, <1>6 DEF TruthType
<1> HIDE DEF T
<1>10. /\ host' \in HostType /\ host'.log = L /\ host'.truth = T /\ host'.pc = host.pc + 1
       /\ host'.probe = host.probe /\ host'.phases = host.phases
       /\ host'.phase = host.phase /\ host'.done = host.done /\ host'.flaws = host.flaws
  <2> DEFINE n == host.pc + 1
  <2>1. n \in Nat /\ host' = [host EXCEPT !.log = L, !.pc = n, !.truth = T]
    BY <1>2, <1>8
  <2> HIDE DEF n
  <2>2. [host EXCEPT !.log = L, !.pc = n] \in HostType
    BY <1>2, <1>7, <2>1 DEF HostType
  <2>3. host' \in HostType
    BY <1>9, <2>1, <2>2 DEF HostType
  <2>4. /\ host'.log = L /\ host'.truth = T /\ host'.pc = n
        /\ host'.probe = host.probe /\ host'.phases = host.phases
        /\ host'.phase = host.phase /\ host'.done = host.done /\ host'.flaws = host.flaws
    BY <1>2, <2>1 DEF HostType
  <2> QED BY <2>3, <2>4 DEF n
<1>11. InPhase
  BY <1>10, IdleIsNone DEF InPhase
<1> QED BY <1>3, <1>4, <1>5, <1>9, <1>10, <1>11 DEF out, listened, R, L

\* What a board that sends keeps of itself and of its lines.
SameRadio(b, c) ==
  /\ c.role = b.role /\ c.listening = b.listening /\ c.overflowing = b.overflowing
  /\ c.tone = b.tone /\ c.power = b.power /\ c.count = b.count /\ c.overflow = b.overflow
  /\ c.rx = b.rx /\ c.next = b.next /\ c.gaps = b.gaps /\ c.faults = b.faults
SenderLog(l, m) ==
  /\ m.marker = l.marker /\ m.fails = l.fails /\ m.lines = l.lines /\ m.seen = l.seen
  /\ m.mem = l.mem /\ m.status = l.status /\ m.overflow = l.overflow /\ m.rssi = l.rssi
  /\ m.done <= l.done + 1 /\ Len(m.ends) <= Len(l.ends) + 1

\* A step of the radio of a board, whatever made it send: p is what was sent, if
\* it was, and fate what became of it.
RadioStep(from, p, fate, m) ==
  LET to == Peer(from)
      heard == board[to].listening /\ fate = "heard"
  IN /\ board' \in [Boards -> BoardType] /\ m \in LogType
     /\ SameRadio(board[from], board'[from])
     /\ Received(board[to], Log(to), p, fate, board'[to], m)
     /\ host = Idle => host' = Idle
     /\ host # Idle =>
          /\ InPhase /\ host'.pc = host.pc /\ host'.flaws = host.flaws
          /\ host'.log[to] = m /\ SenderLog(host.log[from], host'.log[from])
          /\ host'.truth.resets = host.truth.resets
          /\ host'.truth.listened = host.truth.listened
          /\ host'.truth.tone = host.truth.tone
          /\ host'.truth.heard = IF heard /\ to = Current.rx
                                 THEN Append(host.truth.heard, p) ELSE host.truth.heard
          /\ \/ host'.truth.sent = host.truth.sent + 1
             \/ /\ host'.truth.sent = host.truth.sent
                /\ from = Current.tx => /\ host'.log[from].done = host.log[from].done
                                        /\ host'.log[from].ends = host.log[from].ends
          /\ host'.truth.overflow = (host.truth.overflow
               \/ (heard /\ to = Current.rx /\ board[to].overflowing))
     /\ report' = report /\ started' = started /\ mishaps' = mishaps

\* A transmission is such a step.
LEMMA TransmissionIsStep ==
  ASSUME Types, Placed, NEW from \in Boards, NEW b \in BoardType, NEW log \in LogType,
         NEW p \in Int, NEW fate \in Fates, Transmit(from, b, log, p, fate),
         SameRadio(board[from], b), SenderLog(Log(from), log),
         UNCHANGED <<report, started, mishaps>>
  PROVE  \E m \in LogType : RadioStep(from, p, fate, m)
<1> DEFINE to == Peer(from)
<1>1. to \in Boards /\ to # from
  BY TwoBoards
<1>2. CASE host = Idle
  <2>1. PICK m \in LogType : Received(board[to], Blank, p, fate, board'[to], m)
    BY <1>2, TransmitKeeps
  <2>2. host' = Idle /\ Log(to) = Blank
    BY <1>2, TransmitKeeps DEF Log, Running
  <2>3. board' \in [Boards -> BoardType] /\ board'[from] = b
    BY TransmitKeeps
  <2> QED BY <1>2, <2>1, <2>2, <2>3 DEF RadioStep
<1>3. CASE host # Idle
  <2>1. Log(to) = host.log[to] /\ Log(from) = host.log[from] /\ Running
    BY <1>3 DEF Log, Running
  <2>2. host.log \in [Boards -> LogType] /\ host.truth.sent \in Nat
    BY <2>1, Situation DEF HostType, TruthType
  <2>3. /\ host' \in HostType /\ host' # Idle
    BY <1>3, TransmitKeeps
  <2>4. host'.log[to] \in LogType /\ host'.log[from] = log
    <3>1. host'.log \in [Boards -> LogType]
      BY <2>3 DEF HostType
    <3>2. host'.log[from] = log
      BY <1>3, TransmitKeeps
    <3> QED BY <1>1, <3>1, <3>2
  <2>5. InPhase /\ host'.pc = host.pc /\ host'.flaws = host.flaws
    BY <1>3, <2>3, TransmitKeeps DEF InPhase
  <2>6. /\ board' \in [Boards -> BoardType] /\ board'[from] = b
        /\ Received(board[to], host.log[to], p, fate, board'[to], host'.log[to])
    BY <1>3, TransmitKeeps
  <2>7. \/ host'.truth.sent = host.truth.sent + 1
        \/ host'.truth.sent = host.truth.sent /\ from # Current.tx
    BY <1>3, TransmitKeeps
  <2>8. RadioStep(from, p, fate, host'.log[to])
    BY <1>3, <2>1, <2>4, <2>5, <2>6, <2>7, TransmitKeeps DEF RadioStep
  <2> QED BY <2>4, <2>8
<1> QED BY <1>2, <1>3

\* So is everything a board does by itself, or goes on with after a command.
LEMMA SenderStep ==
  ASSUME Types, Placed, NEW from \in Boards,
         SendNext(from) \/ AutoTx(from) \/ ScheduledAttempt(from)
  PROVE  \E p \in Int, fate \in Fates : \E m \in LogType : RadioStep(from, p, fate, m)
<1> DEFINE b == board[from]
           l == Log(from)
<1>1. b \in BoardType /\ l \in LogType
  BY BlankFields DEF Types, Log, Running, HostType
<1>2. /\ b.sequence \in Nat /\ b.userTx \in Nat /\ b.left \in Nat /\ b.tried \in Nat
      /\ b.taken \in Nat /\ b.loaded \in Int /\ b.burst \in Nat
  BY <1>1 DEF BoardType
<1>3. /\ l.queued \in Nat /\ l.done \in Nat /\ l.ends \in Seq(Nat) /\ Len(l.ends) \in Nat
  BY <1>1 DEF LogType
<1>4. CASE SendNext(from)
  <2> DEFINE left == b.left - 1
             userTx == b.userTx + 1
             c == [b EXCEPT !.left = left, !.userTx = userTx]
             ends == Append(l.ends, b.burst)
             log == IF b.left = 1 THEN [l EXCEPT !.ends = ends] ELSE l
  <2>1. PICK fate \in Fates : Transmit(from, c, log, b.loaded, fate)
    BY <1>4 DEF SendNext
  <2>2. left \in Nat /\ userTx \in Nat
    BY <1>2, <1>4 DEF SendNext
  <2>3. ends \in Seq(Nat) /\ Len(ends) = Len(l.ends) + 1
    BY <1>2, <1>3
  <2> HIDE DEF left, userTx, ends, b, l
  <2>4. c \in BoardType /\ SameRadio(b, c)
    BY <1>1, <2>2 DEF BoardType, SameRadio
  <2>5. log \in LogType /\ SenderLog(l, log)
    <3>1. l \in LogType /\ SenderLog(l, l)
      BY <1>1, <1>3 DEF SenderLog
    <3>2. [l EXCEPT !.ends = ends] \in LogType
      BY <1>1, <2>3 DEF LogType
    <3>3. SenderLog(l, [l EXCEPT !.ends = ends])
      BY <1>1, <1>3, <2>3 DEF LogType, SenderLog
    <3> QED BY <3>1, <3>2, <3>3
  <2>6. UNCHANGED <<report, started, mishaps>>
    BY <1>4 DEF SendNext
  <2> HIDE DEF c, log
  <2> QED BY <1>2, <2>1, <2>4, <2>5, <2>6, TransmissionIsStep DEF b, l
<1>5. CASE AutoTx(from)
  <2> DEFINE sequence == b.sequence + 1
             userTx == b.userTx + 1
             c == [b EXCEPT !.sequence = sequence, !.userTx = userTx]
  <2>1. PICK fate \in Fates : Transmit(from, c, l, c.sequence, fate)
    BY <1>5 DEF AutoTx
  <2>2. sequence \in Nat /\ userTx \in Nat
    BY <1>2
  <2> HIDE DEF sequence, userTx, b, l
  <2>3. c \in BoardType /\ SameRadio(b, c) /\ c.sequence \in Int
    <3>1. c \in BoardType /\ SameRadio(b, c)
      BY <1>1, <2>2 DEF BoardType, SameRadio
    <3> HIDE DEF c
    <3> QED BY <3>1 DEF BoardType
  <2>4. SenderLog(l, l)
    BY <1>3 DEF SenderLog
  <2>5. UNCHANGED <<report, started, mishaps>>
    BY <1>5 DEF AutoTx
  <2> HIDE DEF c
  <2> QED BY <1>1, <2>1, <2>3, <2>4, <2>5, TransmissionIsStep DEF b, l
<1>6. CASE ScheduledAttempt(from)
  <2> DEFINE t == b.tried + 1
             s == b.sequence + 1
             k == b.taken + 1
             u == b.userTx + 1
             q == l.queued + 1
             d == l.done + 1
             sum == [tried |-> b.tried, taken |-> b.taken]
             tried == [b EXCEPT !.tried = t, !.sequence = s]
             taken == [tried EXCEPT !.taken = k, !.pending = TRUE]
             done == [tried EXCEPT !.taken = k, !.userTx = u]
             reported == [b EXCEPT !.reported = TRUE]
             queued == [l EXCEPT !.queued = q]
             sent == [l EXCEPT !.queued = q, !.done = d]
             summary == [l EXCEPT !.summary = sum]
             Told(c, m) ==
               /\ board' = [board EXCEPT ![from] = c]
               /\ host' = IF Running THEN [host EXCEPT !.log[from] = m, !.quiet = FALSE] ELSE host
             Keep(c, m) ==
               /\ board' = [board EXCEPT ![from] = c]
               /\ \/ host = Idle /\ host' = Idle
                  \/ Running /\ \E x \in BOOLEAN :
                                  host' = [host EXCEPT !.log[from] = m, !.quiet = x]
  <2>1. /\ t \in Nat /\ s \in Nat /\ k \in Nat /\ u \in Nat /\ q \in Nat /\ d \in Nat
        /\ d = l.done + 1
    <3>1. t \in Nat /\ s \in Nat /\ k \in Nat /\ u \in Nat
      BY <1>2
    <3>2. q \in Nat /\ d \in Nat
      BY <1>3
    <3>3. d = l.done + 1
      OBVIOUS
    <3> QED BY <3>1, <3>2, <3>3
  <2>9. sum \in [tried : Nat, taken : Nat]
    BY <1>2
  <2>2. UNCHANGED <<report, started, mishaps>>
    BY <1>6 DEF ScheduledAttempt
  <2>10. tried \in BoardType /\ SameRadio(b, tried) /\ tried.taken = b.taken
         /\ tried.userTx = b.userTx
    <3> HIDE DEF t, s, b
    <3> QED BY <1>1, <2>1 DEF BoardType, SameRadio
  <2>3. \/ Keep(tried, queued) \/ Keep(taken, queued) \/ Keep(reported, summary)
        \/ \E fate \in Fates : Transmit(from, done, sent, done.sequence, fate)
    <3>1. \/ Told(tried, queued) \/ Told(taken, queued)
          \/ \E fate \in Fates : Transmit(from, done, sent, done.sequence, fate)
          \/ /\ board' = [board EXCEPT ![from].reported = TRUE]
             /\ host' = IF Running THEN [host EXCEPT !.log[from].summary = sum] ELSE host
      <4>1. taken = [tried EXCEPT !.taken = @ + 1, !.pending = TRUE]
            /\ done = [tried EXCEPT !.taken = @ + 1, !.userTx = @ + 1]
        BY <2>10
      <4> HIDE DEF taken, done
      <4> QED BY <1>6, <4>1 DEF ScheduledAttempt
    <3>2. ASSUME NEW c, NEW m, Told(c, m) PROVE Keep(c, m)
      BY <3>2 DEF Running
    <3>3. CASE /\ board' = [board EXCEPT ![from].reported = TRUE]
               /\ host' = IF Running THEN [host EXCEPT !.log[from].summary = sum] ELSE host
      <4>1. board' = [board EXCEPT ![from] = reported]
        BY <3>3
      <4>2. CASE host = Idle
        BY <3>3, <4>1, <4>2 DEF Running
      <4>3. CASE host # Idle
        <5>1. host \in HostType /\ host.quiet \in BOOLEAN /\ l = host.log[from]
          BY <4>3 DEF Types, HostType, Log, Running
        <5>2. host' = [host EXCEPT !.log[from] = summary, !.quiet = host.quiet]
          BY <3>3, <4>3, <5>1 DEF HostType, Running
        <5> QED BY <4>1, <4>3, <5>1, <5>2 DEF Running
      <4> QED BY <4>2, <4>3
    <3> HIDE DEF Told, Keep
    <3> QED BY <3>1, <3>2, <3>3
  <2> HIDE DEF t, s, k, u, q, d, sum, b, l, tried
  <2>4. /\ taken \in BoardType /\ SameRadio(b, taken)
        /\ reported \in BoardType /\ SameRadio(b, reported)
        /\ done \in BoardType /\ SameRadio(b, done) /\ done.sequence \in Int
    <3>2. taken \in BoardType /\ SameRadio(b, taken)
      BY <2>10, <2>1 DEF BoardType, SameRadio
    <3>3. reported \in BoardType /\ SameRadio(b, reported)
      BY <1>1 DEF BoardType, SameRadio
    <3>4. done \in BoardType /\ SameRadio(b, done)
      BY <2>10, <2>1 DEF BoardType, SameRadio
    <3>5. done.sequence \in Int
      <4> HIDE DEF done
      <4> QED BY <3>4 DEF BoardType
    <3> QED BY <3>2, <3>3, <3>4, <3>5
  <2>5. /\ queued \in LogType /\ SenderLog(l, queued) /\ queued.done = l.done
        /\ queued.ends = l.ends
        /\ sent \in LogType /\ SenderLog(l, sent)
        /\ summary \in LogType /\ SenderLog(l, summary) /\ summary.done = l.done
        /\ summary.ends = l.ends
    <3>1. queued \in LogType /\ sent \in LogType /\ summary \in LogType
      BY <1>1, <2>1, <2>9 DEF LogType
    <3>2. /\ SenderLog(l, queued) /\ queued.done = l.done /\ queued.ends = l.ends
      BY <1>1, <1>3, <2>1 DEF LogType, SenderLog
    <3>3. SenderLog(l, sent)
      BY <1>1, <1>3, <2>1 DEF LogType, SenderLog
    <3>4. /\ SenderLog(l, summary) /\ summary.done = l.done /\ summary.ends = l.ends
      BY <1>1, <1>3 DEF LogType, SenderLog
    <3> QED BY <3>1, <3>2, <3>3, <3>4
  <2> HIDE DEF taken, done, reported, queued, sent, summary
  <2>6. ASSUME NEW c \in BoardType, SameRadio(b, c), NEW m \in LogType, SenderLog(l, m),
               m.done = l.done, m.ends = l.ends, Keep(c, m)
        PROVE  \E p \in Int, fate \in Fates : \E n \in LogType : RadioStep(from, p, fate, n)
    <3> DEFINE to == Peer(from)
    <3>1. to \in Boards /\ to # from
      BY TwoBoards
    <3>2. /\ board' \in [Boards -> BoardType] /\ board'[from] = c /\ board'[to] = board[to]
      BY <2>6, <3>1 DEF Types
    <3>3. Log(to) \in LogType
      BY <3>1, BlankFields DEF Types, Log, Running, HostType
    <3>4. Received(board[to], Log(to), 0, "lost", board[to], Log(to))
      BY DEF Received, Kept, KeptLog, Untouched
    <3>5. host # Idle =>
            /\ InPhase /\ host'.pc = host.pc /\ host'.flaws = host.flaws
            /\ host'.log[to] = Log(to) /\ host'.log[from] = m /\ l = host.log[from]
            /\ host'.truth = host.truth
      <4>1. SUFFICES ASSUME host # Idle
                     PROVE  /\ InPhase /\ host'.pc = host.pc /\ host'.flaws = host.flaws
                            /\ host'.log[to] = Log(to) /\ host'.log[from] = m
                            /\ l = host.log[from] /\ host'.truth = host.truth
        OBVIOUS
      <4>2. PICK x \in BOOLEAN : host' = [host EXCEPT !.log[from] = m, !.quiet = x]
        BY <2>6, <4>1
      <4>3. /\ host \in HostType /\ host.log \in [Boards -> LogType]
        BY <4>1 DEF Types, HostType
      <4> DEFINE L == [host.log EXCEPT ![from] = m]
      <4>4. L \in [Boards -> LogType] /\ L[from] = m /\ L[to] = host.log[to]
        BY <2>6, <3>1, <4>3
      <4>5. host' = [host EXCEPT !.log = L, !.quiet = x]
        BY <4>2, <4>3 DEF HostType
      <4> HIDE DEF L
      <4>6. /\ host' \in HostType /\ host'.log = L /\ host'.pc = host.pc
            /\ host'.flaws = host.flaws /\ host'.truth = host.truth
            /\ host'.probe = host.probe /\ host'.phases = host.phases
            /\ host'.phase = host.phase /\ host'.done = host.done
        BY <4>3, <4>4, <4>5 DEF HostType
      <4>7. InPhase
        BY <4>6, IdleIsNone DEF InPhase
      <4> QED BY <4>1, <4>4, <4>6, <4>7 DEF l, Log, Running
    <3>6. RadioStep(from, 0, "lost", Log(to))
      <4>1. host = Idle => host' = Idle
        BY <2>6 DEF Running
      <4>2. host # Idle => host.truth.overflow \in BOOLEAN
        BY DEF Types, HostType, TruthType
      <4>3. ASSUME host # Idle
            PROVE  host'.truth.overflow = (host.truth.overflow
                     \/ ((board[to].listening /\ "lost" = "heard") /\ to = Current.rx
                         /\ board[to].overflowing))
        BY <3>5, <4>2, <4>3
      <4>4. SameRadio(board[from], board'[from])
        BY <2>6, <3>2 DEF b
      <4> HIDE DEF Keep
      <4> QED BY <2>2, <2>6, <3>2, <3>3, <3>4, <3>5, <4>1, <4>3, <4>4 DEF RadioStep
    <3> QED BY <3>3, <3>6 DEF Fates
  <2>7. CASE Keep(tried, queued) \/ Keep(taken, queued) \/ Keep(reported, summary)
    BY <2>4, <2>5, <2>6, <2>7, <2>10
  <2>8. CASE \E fate \in Fates : Transmit(from, done, sent, done.sequence, fate)
    <3>1. PICK fate \in Fates : Transmit(from, done, sent, done.sequence, fate)
      BY <2>8
    <3> QED BY <2>2, <2>4, <2>5, <3>1, TransmissionIsStep DEF b, l
  <2> HIDE DEF Keep
  <2> QED BY <2>3, <2>7, <2>8
<1> QED BY <1>4, <1>5, <1>6

\* What is kept of a board's lines, but for the levels it read.
SameLines(l, m) ==
  /\ m.marker = l.marker /\ m.fails = l.fails /\ m.lines = l.lines /\ m.seen = l.seen
  /\ m.mem = l.mem /\ m.status = l.status /\ m.overflow = l.overflow /\ m.ends = l.ends
  /\ m.done = l.done

\* A level read is only put into the lines of the receiver.
LEMMA ReadRssiKeeps ==
  ASSUME Types, Placed, ReadRssi
  PROVE  LET tone == board[Current.tx].tone IN
         /\ AtCommand /\ Command.do = "getRssi" /\ Target = Current.rx
         /\ InPhase /\ host'.pc = host.pc + 1 /\ host'.flaws = host.flaws
         /\ board' = board /\ report' = report /\ started' = started /\ mishaps' = mishaps
         /\ host'.truth.heard = host.truth.heard /\ host'.truth.sent = host.truth.sent
         /\ host'.truth.overflow = host.truth.overflow
         /\ host'.truth.listened = host.truth.listened
         /\ host'.truth.resets = host.truth.resets
         /\ host'.truth.tone = IF Command.arg = "tone" THEN tone ELSE host.truth.tone
         /\ host'.log[Current.tx] = host.log[Current.tx]
         /\ SameLines(host.log[Current.rx], host'.log[Current.rx])
         /\ Command.arg = "tone" => (host'.log[Current.rx].rssi.tone = "high" => tone)
         /\ Command.arg # "tone" =>
              host'.log[Current.rx].rssi.tone = host.log[Current.rx].rssi.tone
<1> DEFINE tone == board[Current.tx].tone
           arg == Command.arg
           rx == Current.rx
<1>1. /\ AtCommand /\ Running /\ Command.do = "getRssi" /\ Target = rx
      /\ arg \in {"baseline", "tone"} /\ Peer(Target) = Current.tx
      /\ rx \in Boards /\ Current.tx \in Boards /\ Current.tx # rx
  BY Instruction, Situation DEF ReadRssi
<1>2. /\ host \in HostType /\ host.truth \in TruthType /\ host.log \in [Boards -> LogType]
      /\ host.pc \in Nat /\ host.quiet \in BOOLEAN /\ tone \in BOOLEAN
      /\ host.truth.tone \in BOOLEAN
  <2>1. host \in HostType /\ host.truth \in TruthType
    BY <1>1, Situation
  <2>2. board[Current.tx] \in BoardType
    BY <1>1 DEF Types
  <2> QED BY <2>1, <2>2 DEF HostType, TruthType, BoardType
<1>3. PICK level \in {"low", "high"} :
        /\ tone \/ level = "low"
        /\ host' = [host EXCEPT !.pc = @ + 1,
             !.log[rx].rssi[arg] = IF board[rx].listening THEN level ELSE "none",
             !.truth.tone = IF arg = "tone" THEN tone ELSE @,
             !.quiet = @ /\ level = IF tone /\ Current.kind = "tone" THEN "high" ELSE "low"]
  BY <1>1, <1>2 DEF ReadRssi
<1> DEFINE read == IF board[rx].listening THEN level ELSE "none"
           quiet == host.quiet /\ level = IF tone /\ Current.kind = "tone" THEN "high" ELSE "low"
           t == IF arg = "tone" THEN tone ELSE host.truth.tone
           l == host.log[rx]
           r == [l.rssi EXCEPT ![arg] = read]
           m == [l EXCEPT !.rssi = r]
           L == [host.log EXCEPT ![rx] = m]
           T == [host.truth EXCEPT !.tone = t]
           n == host.pc + 1
<1>4. l \in LogType
  BY <1>1, <1>2
<1>5. /\ read \in Levels /\ quiet \in BOOLEAN /\ t \in BOOLEAN /\ n \in Nat
      /\ (read = "high" => tone)
  BY <1>2, <1>3 DEF Levels
<1> HIDE DEF read, quiet, t, n
<1>6. /\ r \in [baseline : Levels, tone : Levels]
      /\ r.tone = IF arg = "tone" THEN read ELSE l.rssi.tone
  <2>0. l.rssi \in [baseline : Levels, tone : Levels]
    BY <1>4 DEF LogType
  <2>1. CASE arg = "tone"
    BY <1>5, <2>0, <2>1
  <2>2. CASE arg = "baseline"
    BY <1>5, <2>0, <2>2
  <2> QED BY <1>1, <2>1, <2>2
<1>7. host' = [host EXCEPT !.pc = n, !.log = L, !.truth = T, !.quiet = quiet]
  BY <1>2, <1>3 DEF HostType, n, read, t, quiet
<1> HIDE DEF r
<1>8. m \in LogType /\ SameLines(l, m) /\ m.rssi = r
  BY <1>4, <1>6 DEF LogType, SameLines
<1>9. /\ T \in TruthType /\ T.tone = t /\ T.heard = host.truth.heard
      /\ T.sent = host.truth.sent /\ T.overflow = host.truth.overflow
      /\ T.listened = host.truth.listened /\ T.resets = host.truth.resets
  BY <1>2, <1>5 DEF TruthType
<1> HIDE DEF m, T
<1>10. L \in [Boards -> LogType] /\ L[rx] = m /\ L[Current.tx] = host.log[Current.tx]
  BY <1>1, <1>2, <1>8
<1> HIDE DEF L
<1>11. [host EXCEPT !.pc = n, !.log = L] \in HostType
  BY <1>2, <1>5, <1>10 DEF HostType
<1>12. host' \in HostType
  BY <1>5, <1>7, <1>9, <1>11 DEF HostType
<1>13. /\ host'.log = L /\ host'.truth = T /\ host'.pc = n
       /\ host'.probe = host.probe /\ host'.phases = host.phases
       /\ host'.phase = host.phase /\ host'.done = host.done /\ host'.flaws = host.flaws
  BY <1>2, <1>7 DEF HostType
<1>14. InPhase
  BY <1>12, <1>13, IdleIsNone DEF InPhase
<1>15. UNCHANGED <<board, report, started, mishaps>>
  BY DEF ReadRssi
<1> QED BY <1>1, <1>5, <1>6, <1>8, <1>9, <1>10, <1>13, <1>14, <1>15 DEF n, t

\* A sleep ends, or a command is lost.
LEMMA SkipKeeps ==
  ASSUME Types, Placed, Wait \/ LoseCommand
  PROVE  /\ AtCommand /\ InPhase /\ host'.pc = host.pc + 1
         /\ host'.log = host.log /\ host'.truth = host.truth
         /\ board' = board /\ report' = report /\ started' = started
         /\ Wait => /\ host'.flaws = host.flaws /\ Command.do = "wait"
                    /\ mishaps' = mishaps
         /\ LoseCommand => /\ host'.flaws = host.flaws \cup {Command.do}
                           /\ mishaps' = mishaps + 1
<1>1. AtCommand /\ Running /\ Command \in CommandType \cup PowerCommand
  BY Instruction DEF Wait, LoseCommand
<1>2. host \in HostType /\ host.pc \in Nat /\ host.flaws \in SUBSET Flaws
  BY <1>1, Situation DEF HostType
<1>3. Command.do \in Flaws
  BY <1>1 DEF CommandType, PowerCommand, Flaws
<1> DEFINE n == host.pc + 1
           flaws == host.flaws \cup {Command.do}
<1>4. n \in Nat /\ flaws \in SUBSET Flaws
  BY <1>2, <1>3
<1> HIDE DEF n, flaws
<1>5. CASE Wait
  <2>1. host' = [host EXCEPT !.pc = n]
    BY <1>5 DEF Wait, n
  <2>2. /\ host' \in HostType /\ host'.pc = n /\ host'.log = host.log /\ host'.truth = host.truth
        /\ host'.probe = host.probe /\ host'.phases = host.phases
        /\ host'.phase = host.phase /\ host'.done = host.done /\ host'.flaws = host.flaws
    BY <1>2, <1>4, <2>1 DEF HostType
  <2>3. InPhase
    BY <2>2, IdleIsNone DEF InPhase
  <2>4. /\ UNCHANGED <<board, report, started, mishaps>> /\ Command.do = "wait"
        /\ ~LoseCommand
    BY <1>5 DEF Wait, LoseCommand
  <2> QED BY <1>1, <2>2, <2>3, <2>4 DEF n
<1>6. CASE LoseCommand
  <2>1. host' = [host EXCEPT !.pc = n, !.flaws = flaws, !.quiet = FALSE]
    BY <1>6 DEF LoseCommand, n, flaws
  <2>2. /\ host' \in HostType /\ host'.pc = n /\ host'.log = host.log /\ host'.truth = host.truth
        /\ host'.probe = host.probe /\ host'.phases = host.phases
        /\ host'.phase = host.phase /\ host'.done = host.done /\ host'.flaws = flaws
    BY <1>2, <1>4, <2>1 DEF HostType
  <2>3. InPhase
    BY <2>2, IdleIsNone DEF InPhase
  <2>4. /\ UNCHANGED <<board, report, started>> /\ mishaps' = mishaps + 1 /\ ~Wait
    BY <1>6 DEF Wait, LoseCommand, Mishap
  <2> QED BY <1>1, <2>2, <2>3, <2>4 DEF n, flaws
<1> QED BY <1>5, <1>6

\* A restart leaves the script to go on.
LEMMA RestartKeeps ==
  ASSUME Types, Placed, NEW b \in Boards, Restart(b)
  PROVE  /\ board' \in [Boards -> BoardType] /\ board' = [board EXCEPT ![b] = Fresh]
         /\ host = Idle => host' = Idle
         /\ host # Idle =>
              /\ InPhase /\ host'.pc = host.pc /\ host'.log = host.log
              /\ host'.truth = host.truth /\ host'.flaws = host.flaws \cup {"restart"}
         /\ report' = report /\ started' = started /\ mishaps' = mishaps + 1
<1>1. /\ board' = [board EXCEPT ![b] = Fresh] /\ board' \in [Boards -> BoardType]
      /\ report' = report /\ started' = started /\ mishaps' = mishaps + 1
  BY FreshFields DEF Restart, Types, Mishap
<1>2. host = Idle => host' = Idle
  BY DEF Restart, Running
<1>3. CASE host # Idle
  <2>1. host \in HostType /\ host.flaws \in SUBSET Flaws
    BY <1>3 DEF Types, HostType
  <2> DEFINE flaws == host.flaws \cup {"restart"}
  <2>2. flaws \in SUBSET Flaws
    BY <2>1 DEF Flaws
  <2>3. host' = [host EXCEPT !.quiet = FALSE, !.flaws = flaws]
    BY <1>3 DEF Restart, Running
  <2> HIDE DEF flaws
  <2>4. /\ host' \in HostType /\ host'.pc = host.pc /\ host'.log = host.log
        /\ host'.truth = host.truth
        /\ host'.probe = host.probe /\ host'.phases = host.phases
        /\ host'.phase = host.phase /\ host'.done = host.done /\ host'.flaws = flaws
    BY <2>1, <2>2, <2>3 DEF HostType
  <2>5. InPhase
    BY <2>4, IdleIsNone DEF InPhase
  <2> QED BY <1>1, <1>3, <2>4, <2>5 DEF flaws
<1> QED BY <1>1, <1>2, <1>3

\* A script begins with nothing printed and nothing known.
LEMMA BeginKeeps ==
  ASSUME Types, NEW probe \in ProbesRun, NEW rx \in Boards, Begin(probe, rx)
  PROVE  /\ host = Idle /\ host' \in HostType /\ host' # Idle
         /\ host'.probe = probe /\ host'.phases = Phases(probe, rx, Peer(rx))
         /\ host'.phase = 1 /\ host'.pc = 1 /\ host'.log = [b \in Boards |-> Blank]
         /\ host'.truth = NoTruth /\ host'.flaws = FlawsAtStart(rx) /\ host'.done = <<>>
         /\ board' = board /\ report' = None /\ mishaps' = mishaps
         /\ started' = started + 1
<1> DEFINE phases == Phases(probe, rx, Peer(rx))
           log == [b \in Boards |-> Blank]
<1>1. /\ host = Idle /\ board' = board /\ report' = None /\ mishaps' = mishaps
      /\ started' = started + 1
      /\ host' = [probe |-> probe, phases |-> phases, phase |-> 1, pc |-> 1, log |-> log,
                  truth |-> NoTruth, flaws |-> FlawsAtStart(rx), done |-> <<>>,
                  quiet |-> TRUE]
  BY DEF Begin, Running
<1>2. probe \in Probes /\ phases \in Seq(PhaseType)
  BY BenchAssumption, PhasesFields
<1>3. log \in [Boards -> LogType] /\ NoTruth \in TruthType /\ FlawsAtStart(rx) \in SUBSET Flaws
  BY BlankFields DEF NoTruth, TruthType, FlawsAtStart, Flaws
<1>4. <<>> \in Seq(EntryType)
  OBVIOUS
<1> HIDE DEF phases, log
<1>5. host' \in HostType
  BY <1>1, <1>2, <1>3, <1>4 DEF HostType
<1>6. host' # Idle
  BY <1>5, IdleIsNone
<1> QED BY <1>1, <1>5, <1>6 DEF phases, log

\* The entry a phase leaves.
EntryOf ==
  [kind |-> Current.kind, rx |-> Current.rx, tx |-> Current.tx,
   passed |-> Verdict(Current.kind, host.log[Current.rx], host.log[Current.tx]),
   status |-> host.log[Current.rx].status, ends |-> host.log[Current.tx].ends,
   truth |-> host.truth, flaws |-> host.flaws]

\* The next phase begins with nothing printed and nothing known, or the script ends.
LEMMA FinishKeeps ==
  ASSUME Types, Placed, FinishPhase
  PROVE  /\ Running /\ host.pc = Len(Commands) + 1
         /\ EntryOf.passed \in BOOLEAN => EntryOf \in EntryType
         /\ board' = board /\ started' = started /\ mishaps' = mishaps
         /\ host.phase < Len(host.phases) =>
              /\ host'.probe = host.probe /\ host'.phases = host.phases
              /\ host'.phase = host.phase + 1 /\ host'.pc = 1
              /\ host'.log = [b \in Boards |-> Blank] /\ host'.truth = NoTruth
              /\ host'.flaws = FlawsAtStart(host.phases[host.phase + 1].rx)
              /\ host'.done = Append(host.done, EntryOf)
              /\ report' = report
              /\ EntryOf \in EntryType => host' \in HostType /\ host' # Idle
         /\ ~(host.phase < Len(host.phases)) =>
              /\ host' = Idle
              /\ report' = [probe |-> host.probe, phases |-> Append(host.done, EntryOf),
                            quiet |-> host.quiet]
              /\ EntryOf \in EntryType => report' \in ReportType
<1> DEFINE judged == Append(host.done, EntryOf)
           log == [b \in Boards |-> Blank]
           flaws == FlawsAtStart(host.phases[host.phase + 1].rx)
           phase == host.phase + 1
<1>1. /\ Running /\ host.pc > Len(Commands)
      /\ board' = board /\ started' = started /\ mishaps' = mishaps
      /\ IF host.phase < Len(host.phases)
         THEN /\ host' = [host EXCEPT !.phase = phase, !.pc = 1, !.done = judged,
                  !.log = log, !.truth = NoTruth, !.flaws = flaws]
              /\ report' = report
         ELSE /\ host' = Idle
              /\ report' = [probe |-> host.probe, phases |-> judged, quiet |-> host.quiet]
  BY DEF FinishPhase, EntryOf
<1>2. /\ host \in HostType /\ host.truth \in TruthType /\ host.log \in [Boards -> LogType]
      /\ host.flaws \in SUBSET Flaws /\ host.done \in Seq(EntryType) /\ host.phase \in Nat
      /\ host.probe \in Probes /\ host.quiet \in BOOLEAN
      /\ Current.kind \in Kinds /\ Current.rx \in Boards /\ Current.tx \in Boards
      /\ Len(Commands) \in Nat
  BY <1>1, Situation DEF HostType
<1>3. host.pc = Len(Commands) + 1
  BY <1>1, <1>2 DEF Placed
<1>4. EntryOf.passed \in BOOLEAN => EntryOf \in EntryType
  <2>1. host.log[Current.rx] \in LogType /\ host.log[Current.tx] \in LogType
    BY <1>2
  <2>2. /\ host.log[Current.rx].status \in StatusType \cup {None}
        /\ host.log[Current.tx].ends \in Seq(Nat)
    BY <2>1 DEF LogType
  <2> QED BY <1>2, <2>2 DEF EntryOf, EntryType
<1>5. log \in [Boards -> LogType] /\ NoTruth \in TruthType /\ flaws \in SUBSET Flaws
      /\ phase \in Nat
  BY <1>2, BlankFields DEF NoTruth, TruthType, FlawsAtStart, Flaws
<1>6. EntryOf \in EntryType => judged \in Seq(EntryType)
  BY <1>2
<1> HIDE DEF judged, log, flaws, phase
<1>7. CASE host.phase < Len(host.phases)
  <2>1. /\ host'.probe = host.probe /\ host'.phases = host.phases
        /\ host'.phase = phase /\ host'.pc = 1 /\ host'.log = log /\ host'.truth = NoTruth
        /\ host'.flaws = flaws /\ host'.done = judged /\ report' = report
    BY <1>1, <1>2, <1>7 DEF HostType
  <2>2. ASSUME EntryOf \in EntryType PROVE host' \in HostType
    <3>1. [host EXCEPT !.phase = phase, !.pc = 1, !.done = judged] \in HostType
      BY <1>2, <1>5, <1>6, <2>2 DEF HostType
    <3>2. [host EXCEPT !.phase = phase, !.pc = 1, !.done = judged, !.log = log,
                       !.truth = NoTruth] \in HostType
      BY <1>5, <3>1 DEF HostType
    <3> QED BY <1>1, <1>5, <1>7, <3>2 DEF HostType
  <2>3. EntryOf \in EntryType => host' \in HostType /\ host' # Idle
    BY <2>2, IdleIsNone
  <2> QED BY <1>1, <1>3, <1>4, <1>7, <2>1, <2>3 DEF judged, log, flaws, phase
<1>8. CASE ~(host.phase < Len(host.phases))
  <2>1. EntryOf \in EntryType => report' \in ReportType
    BY <1>1, <1>2, <1>6, <1>8 DEF ReportType
  <2> QED BY <1>1, <1>3, <1>4, <1>8, <2>1 DEF judged
<1> QED BY <1>7, <1>8

\* A verdict is yes or no.
LEMMA VerdictDecides ==
  ASSUME NEW kind \in Kinds, NEW rx \in LogType, NEW tx \in LogType
  PROVE  Verdict(kind, rx, tx) \in BOOLEAN
<1>1. rx.status # None => rx.status.rest \in BOOLEAN
  BY DEF LogType, StatusType
<1>2. FaultProbePasses(rx) \in BOOLEAN
  BY <1>1 DEF FaultProbePasses
<1>3. /\ StatusSmokePasses(rx, tx) \in BOOLEAN /\ PacketCheckPasses(rx, tx) \in BOOLEAN
      /\ DirectionPasses(rx, tx) \in BOOLEAN /\ QueuePressurePasses(rx) \in BOOLEAN
      /\ MalformedPasses(rx) \in BOOLEAN /\ MemoryWatermarkPasses(rx) \in BOOLEAN
      /\ ScheduledTxPasses(tx) \in BOOLEAN /\ TxAtPasses(tx) \in BOOLEAN
      /\ TonePasses(rx, TRUE) \in BOOLEAN /\ TonePasses(rx, FALSE) \in BOOLEAN
      /\ (rx.marker # None /\ Healthy(rx.marker)) \in BOOLEAN
      /\ (1 .. Packets \subseteq rx.seen) \in BOOLEAN /\ (rx.overflow > 0) \in BOOLEAN
  BY DEF StatusSmokePasses, PacketCheckPasses, DirectionPasses, QueuePressurePasses,
         MalformedPasses, MemoryWatermarkPasses, ScheduledTxPasses, TxAtPasses, TonePasses
<1>4. CASE kind \in {"smoke", "check", "direction", "packets", "autorole", "pressure"}
  BY <1>3, <1>4 DEF Verdict
<1>5. CASE kind \in {"malformed", "watermark", "overflow", "scheduled", "txAt"}
  BY <1>3, <1>5 DEF Verdict
<1>6. CASE kind \in {"tone", "noTone", "fault"}
  BY <1>2, <1>3, <1>6 DEF Verdict
<1>7. CASE kind \in {"reset", "lowPower", "restore"}
  BY <1>7 DEF Verdict
<1> QED BY <1>4, <1>5, <1>6, <1>7 DEF Kinds

\* The entry of a phase is well-formed.
LEMMA EntryKept ==
  ASSUME Types, Placed, FinishPhase
  PROVE  EntryOf \in EntryType
<1>1. /\ Current.kind \in Kinds /\ host.log[Current.rx] \in LogType
      /\ host.log[Current.tx] \in LogType
  BY Situation, FinishKeeps DEF HostType
<1>2. EntryOf.passed \in BOOLEAN
  BY <1>1, VerdictDecides DEF EntryOf
<1> QED BY <1>2, FinishKeeps

\* The part of an invariant that only looks at where the script is.
LEMMA StillPlaced ==
  ASSUME Types, Placed, Running, InPhase, host'.pc \in 1 .. Len(Commands) + 1
  PROVE  Placed'
  BY DEF Placed, InPhase, Running, Commands, Current

\* Every step keeps the types, and a running script in one of its phases.
LEMMA TypesKept ==
  ASSUME Types, Placed, [Next]_vars
  PROVE  Types' /\ Placed'
<1>1. ASSUME NEW probe \in ProbesRun, NEW rx \in Boards, Begin(probe, rx)
      PROVE  Types' /\ Placed'
  <2>1. Types'
    BY <1>1, BeginKeeps DEF Types
  <2>2. probe \in Probes
    BY BenchAssumption
  <2>3. /\ host' # Idle /\ host'.phases = Phases(probe, rx, Peer(rx)) /\ host'.probe = probe
        /\ host'.phase = 1 /\ host'.pc = 1 /\ host'.done = <<>>
    BY <1>1, BeginKeeps
  <2>4. host'.phases[1].kind \in Kinds /\ Len(host'.phases) >= 1 /\ Len(host'.phases) \in Nat
    <3>1. /\ Len(host'.phases) >= 1 /\ Len(host'.phases) \in Nat
          /\ \A i \in 1 .. Len(host'.phases) : host'.phases[i] \in PhaseType
      BY <2>2, <2>3, PhasesFields
    <3>2. host'.phases[1] \in PhaseType
      BY <3>1
    <3> QED BY <3>1, <3>2 DEF PhaseType
  <2>5. Len(Script(host'.phases[1].kind)) \in Nat
    BY <2>4, ScriptTidy
  <2>6. Len(host'.done) = 0
    BY <2>3
  <2>7. 1 \in 1 .. Len(host'.phases) /\ 1 \in 1 .. Len(Script(host'.phases[1].kind)) + 1
    BY <2>4, <2>5
  <2>8. Placed'
    BY <2>3, <2>6, <2>7 DEF Placed, Commands, Current
  <2> QED BY <2>1, <2>8
<1>2. ASSUME Execute PROVE Types' /\ Placed'
  <2>1. AtCommand /\ Running /\ host.pc \in 1 .. Len(Commands) /\ Len(Commands) \in Nat
    BY <1>2, Instruction, Situation DEF Execute
  <2>2. /\ InPhase /\ host'.pc = host.pc + 1 /\ Target \in Boards
        /\ UNCHANGED <<report, started, mishaps>>
    BY <1>2, <2>1, Instruction, ExecuteKeeps DEF Execute
  <2>3. board' \in [Boards -> BoardType]
    BY <1>2, <2>2, ExecuteKeeps DEF Types
  <2>4. Types'
    BY <2>2, <2>3 DEF Types, InPhase
  <2> QED BY <2>1, <2>2, <2>4, StillPlaced
<1>3. ASSUME ReadRssi PROVE Types' /\ Placed'
  <2>1. AtCommand /\ Running /\ host.pc \in 1 .. Len(Commands) /\ Len(Commands) \in Nat
    BY <1>3, Instruction, Situation DEF ReadRssi
  <2>2. /\ InPhase /\ host'.pc = host.pc + 1 /\ board' = board
        /\ UNCHANGED <<report, started, mishaps>>
    BY <1>3, ReadRssiKeeps
  <2>3. Types'
    BY <2>2 DEF Types, InPhase
  <2> QED BY <2>1, <2>2, <2>3, StillPlaced
<1>4. ASSUME Wait \/ LoseCommand PROVE Types' /\ Placed'
  <2>1. AtCommand /\ Running /\ host.pc \in 1 .. Len(Commands) /\ Len(Commands) \in Nat
    BY <1>4, Instruction, Situation DEF Wait, LoseCommand
  <2>2. /\ InPhase /\ host'.pc = host.pc + 1 /\ board' = board
        /\ UNCHANGED <<report, started>>
        /\ mishaps' = mishaps \/ mishaps' = mishaps + 1
    BY <1>4, SkipKeeps
  <2>3. Types'
    BY <2>2 DEF Types, InPhase
  <2> QED BY <2>1, <2>2, <2>3, StillPlaced
<1>5. ASSUME FinishPhase PROVE Types' /\ Placed'
  <2>1. EntryOf \in EntryType
    BY <1>5, EntryKept
  <2>2. CASE host.phase < Len(host.phases)
    <3>1. /\ host' \in HostType /\ host' # Idle /\ board' = board
          /\ UNCHANGED <<report, started, mishaps>>
      BY <1>5, <2>1, <2>2, FinishKeeps
    <3>2. Types'
      BY <3>1 DEF Types
    <3>3. /\ host'.probe = host.probe /\ host'.phases = host.phases
          /\ host'.phase = host.phase + 1 /\ host'.pc = 1
          /\ host'.done = Append(host.done, EntryOf)
      BY <1>5, <2>2, FinishKeeps
    <3>4. PICK rx \in Boards : host.phases = Phases(host.probe, rx, Peer(rx))
      BY <1>5, FinishKeeps DEF Placed
    <3>5. host \in HostType
      BY <1>5, FinishKeeps, Situation
    <3>6. host.probe \in Probes /\ host.done \in Seq(EntryType) /\ host.phase \in Nat
      BY <3>5 DEF HostType
    <3>7. Len(host.phases) \in Nat /\ host.phase \in 1 .. Len(host.phases)
          /\ Len(host.done) = host.phase - 1
      BY <1>5, <3>4, <3>6, FinishKeeps, PhasesFields DEF Placed
    <3>8. host.phase + 1 \in 1 .. Len(host.phases)
      BY <2>2, <3>7
    <3>9. host.phases[host.phase + 1] \in PhaseType
      BY <3>4, <3>6, <3>8, PhasesFields
    <3>10. Len(Script(host.phases[host.phase + 1].kind)) \in Nat
      BY <3>9, ScriptTidy DEF PhaseType
    <3>11. 1 \in 1 .. Len(Script(host.phases[host.phase + 1].kind)) + 1
      BY <3>10
    <3>12. Len(host'.done) = host'.phase - 1
      BY <2>1, <3>3, <3>6, <3>7
    <3>13. Placed'
      BY <3>1, <3>3, <3>4, <3>8, <3>11, <3>12 DEF Placed, Commands, Current
    <3> QED BY <3>2, <3>13
  <2>3. CASE ~(host.phase < Len(host.phases))
    <3>1. host' = Idle /\ report' \in ReportType /\ board' = board
          /\ UNCHANGED <<started, mishaps>>
      BY <1>5, <2>1, <2>3, FinishKeeps
    <3> QED BY <3>1 DEF Types, Placed, Running
  <2> QED BY <2>2, <2>3
<1>6. ASSUME Kill PROVE Types' /\ Placed'
  BY <1>6 DEF Kill, Mishap, Types, Placed, Running
<1>7. ASSUME NEW b \in Boards, SendNext(b) \/ AutoTx(b) \/ ScheduledAttempt(b)
      PROVE  Types' /\ Placed'
  <2>1. PICK p \in Int, fate \in Fates : \E m \in LogType : RadioStep(b, p, fate, m)
    BY <1>7, SenderStep
  <2>2. /\ board' \in [Boards -> BoardType]
        /\ UNCHANGED <<report, started, mishaps>>
        /\ host = Idle => host' = Idle
        /\ host # Idle => InPhase /\ host'.pc = host.pc
    BY <2>1 DEF RadioStep
  <2>3. Types'
    BY <2>2 DEF Types, InPhase
  <2>4. CASE host = Idle
    BY <2>2, <2>3, <2>4 DEF Placed, Running
  <2>5. CASE host # Idle
    <3>1. host'.pc \in 1 .. Len(Commands) + 1 /\ Running
      BY <2>2, <2>5 DEF Placed, Running
    <3> QED BY <2>2, <2>3, <2>5, <3>1, StillPlaced
  <2> QED BY <2>3, <2>4, <2>5
<1>8. ASSUME NEW b \in Boards, Restart(b) PROVE Types' /\ Placed'
  <2>1. /\ board' \in [Boards -> BoardType]
        /\ UNCHANGED <<report, started>> /\ mishaps' = mishaps + 1
        /\ host = Idle => host' = Idle
        /\ host # Idle => InPhase /\ host'.pc = host.pc
    BY <1>8, RestartKeeps
  <2>2. Types'
    BY <2>1 DEF Types, InPhase
  <2>3. CASE host = Idle
    BY <2>1, <2>2, <2>3 DEF Placed, Running
  <2>4. CASE host # Idle
    <3>1. host'.pc \in 1 .. Len(Commands) + 1 /\ Running
      BY <2>1, <2>4 DEF Placed, Running
    <3> QED BY <2>1, <2>2, <2>4, <3>1, StillPlaced
  <2> QED BY <2>2, <2>3, <2>4
<1>9. ASSUME UNCHANGED vars PROVE Types' /\ Placed'
  BY <1>9 DEF vars, Types, Placed, Running, Commands, Current
<1> QED BY <1>1, <1>2, <1>3, <1>4, <1>5, <1>6, <1>7, <1>8, <1>9 DEF Next

\* At first nothing runs, and the boards are fresh.
LEMMA TypesInit == ASSUME Init PROVE Types /\ Placed
  BY FreshFields DEF Init, Types, Placed, Running

\* Every reachable state is well-formed: board and line states, and a running
\* script that is at one of its phases and at one of its commands.
THEOREM BenchTypes == Spec => [](Types /\ Placed)
<1>1. Init => Types /\ Placed
  BY TypesInit
<1>2. (Types /\ Placed) /\ [Next]_vars => (Types /\ Placed)'
  BY TypesKept
<1> QED BY <1>1, <1>2, PTL DEF Spec

----------------------------------------------------------------------------
(* Boards at rest.                                                         *)

\* A command is still ahead for b.
Ahead(b, do, arg) ==
  \E k \in host.pc .. Len(Commands) :
    Commands[k].do = do /\ Commands[k].arg = arg /\ Dest(Commands[k]) = b

\* The power of b is still to be restored.
Restoring(b) ==
  \E j \in host.phase .. Len(host.phases) :
    /\ host.phases[j].kind = "restore" /\ host.phases[j].tx = b
    /\ j = host.phase => host.pc <= 2

\* Whatever a board is left in, a command that undoes it is still ahead of it.
AtRestOrAhead(b) ==
  /\ board[b].role # "idle" => Running /\ Ahead(b, "role", "idle")
  /\ board[b].listening /\ board[b].role = "idle" => Running /\ Ahead(b, "rx", FALSE)
  /\ board[b].overflowing => Running /\ Ahead(b, "setRxOverflow", FALSE)
  /\ board[b].tone => Running /\ Ahead(b, "setTxTone", FALSE)
  /\ board[b].power # "normal" => Running /\ Restoring(b)
RestInv == mishaps = 0 => \A b \in Boards : AtRestOrAhead(b)

\* What is ahead stays ahead while the script stays where it is.
LEMMA AheadStays ==
  ASSUME InPhase, host'.pc = host.pc, NEW b, NEW do, NEW arg
  PROVE  /\ Ahead(b, do, arg) => Ahead(b, do, arg)'
         /\ Restoring(b) => Restoring(b)'
  BY DEF Ahead, Restoring, InPhase, Commands, Current, Dest

\* A command carried out is behind; the others stay ahead.
LEMMA AheadPasses ==
  ASSUME Types, Placed, AtCommand, InPhase, host'.pc = host.pc + 1, NEW b, NEW do, NEW arg,
         Ahead(b, do, arg), ~(Command.do = do /\ Command.arg = arg /\ Target = b)
  PROVE  Ahead(b, do, arg)'
<1>1. PICK k \in host.pc .. Len(Commands) :
        Commands[k].do = do /\ Commands[k].arg = arg /\ Dest(Commands[k]) = b
  BY DEF Ahead
<1>2. host.pc \in 1 .. Len(Commands) /\ Len(Commands) \in Nat /\ Target = Dest(Command)
  BY Instruction, Situation
<1>3. k # host.pc
  BY <1>1, <1>2 DEF Command
<1>4. k \in host.pc + 1 .. Len(Commands)
  BY <1>1, <1>2, <1>3
<1>5. Commands' = Commands /\ \A c : Dest(c)' = Dest(c)
  BY DEF InPhase, Commands, Current, Dest
<1> QED BY <1>1, <1>4, <1>5 DEF Ahead

\* A command that leaves its board other than at rest has the one that undoes it
\* ahead.
LEMMA UndoneAhead ==
  ASSUME Types, Placed, AtCommand, InPhase, host'.pc = host.pc + 1, Dirties(Command),
         NEW b, b = Target, NEW do, do = Command.do
  PROVE  Ahead(b, do, IF do = "role" THEN "idle" ELSE FALSE)'
<1>1. /\ host.pc \in 1 .. Len(Commands) /\ Len(Commands) \in Nat /\ Target = Dest(Command)
      /\ Tidy(Commands)
  BY Instruction, Situation
<1>2. PICK j \in host.pc + 1 .. Len(Commands) : Commands[j] = Undo(Command)
  BY <1>1 DEF Tidy, Command
<1>3. /\ Commands[j].do = Command.do /\ Commands[j].to = Command.to
      /\ Commands[j].arg = IF Command.do = "role" THEN "idle" ELSE FALSE
  BY <1>2 DEF Undo, Step
<1>4. Dest(Commands[j]) = Target
  BY <1>1, <1>3 DEF Dest
<1>5. Commands' = Commands /\ \A c : Dest(c)' = Dest(c)
  BY DEF InPhase, Commands, Current, Dest
<1> QED BY <1>2, <1>3, <1>4, <1>5 DEF Ahead

\* The power is restored later, unless it is by the command at hand.
LEMMA RestoringPasses ==
  ASSUME Types, Placed, AtCommand, InPhase, host'.pc = host.pc + 1, NEW b, Restoring(b),
         ~(Command.do = "setPower" /\ Target = b)
  PROVE  Restoring(b)'
<1>1. PICK j \in host.phase .. Len(host.phases) :
        /\ host.phases[j].kind = "restore" /\ host.phases[j].tx = b
        /\ j = host.phase => host.pc <= 2
  BY DEF Restoring
<1>2. ASSUME j = host.phase PROVE host.pc + 1 <= 2
  <2>1. Current.kind = "restore" /\ Current.tx = b
    BY <1>1, <1>2 DEF Current
  <2>2. Commands = SetTxPower("normal")
    BY <2>1 DEF Commands, Script
  <2>3. Commands[2] = Step("tx", "setPower", "normal") /\ Len(Commands) = 2
    BY <2>2, PowerTidy DEF Powers
  <2>4. host.pc \in 1 .. 2 /\ (host.pc = 2 => Command = Commands[2])
    BY <2>3, Instruction DEF Command
  <2>5. host.pc # 2
    BY <2>1, <2>3, <2>4 DEF Target, Step
  <2> QED BY <2>4, <2>5
<1> QED BY <1>1, <1>2 DEF Restoring, InPhase

\* The transmitter is set to low power only before it is restored.
LEMMA LowPowerRestored ==
  ASSUME Types, Placed, AtCommand, InPhase, host'.pc = host.pc + 1,
         Command.do = "setPower", Command.arg # "normal", NEW b, b = Target
  PROVE  Restoring(b)'
<1>1. /\ Current.kind \in {"lowPower", "restore"} /\ Target = Current.tx
      /\ host.pc \in 1 .. Len(Commands) /\ Running
  BY Instruction
<1>2. Current.kind = "lowPower"
  <2>1. SUFFICES ASSUME Current.kind = "restore" PROVE FALSE
    BY <1>1
  <2>2. Commands = SetTxPower("normal")
    BY <2>1 DEF Commands, Script
  <2>3. /\ Commands[2] = Step("tx", "setPower", "normal") /\ Len(Commands) = 2
        /\ Commands[1] = Step("tx", "rx", FALSE)
    BY <2>2, PowerTidy DEF Powers
  <2>4. host.pc = 1 \/ host.pc = 2
    BY <1>1, <2>3
  <2> QED BY <2>3, <2>4 DEF Command, Step
<1>3. PICK rx \in Boards : host.phases = Phases(host.probe, rx, Peer(rx))
  BY <1>1 DEF Placed
<1>4. host.probe \in Probes /\ host.phase \in 1 .. Len(host.phases) /\ host.phase \in Nat
  BY <1>1, Situation DEF HostType, Placed
<1>5. Len(host.phases) \in Nat
      /\ \A i \in 1 .. Len(host.phases) :
           host.phases[i].kind = "lowPower" =>
             \E j \in i + 1 .. Len(host.phases) :
               host.phases[j].kind = "restore" /\ host.phases[j].tx = host.phases[i].tx
  BY <1>3, <1>4, PhasesFields
<1>6. PICK j \in host.phase + 1 .. Len(host.phases) :
        host.phases[j].kind = "restore" /\ host.phases[j].tx = Current.tx
  BY <1>2, <1>4, <1>5 DEF Current
<1>7. j \in host.phase .. Len(host.phases) /\ j # host.phase
  BY <1>4, <1>5, <1>6
<1> QED BY <1>1, <1>6, <1>7 DEF Restoring, InPhase

\* A command leaves every board at rest or with the command ahead that brings it
\* there.
LEMMA ExecuteRests ==
  ASSUME Types, Placed, Execute, NEW b \in Boards, AtRestOrAhead(b)
  PROVE  AtRestOrAhead(b)'
<1> DEFINE out == Obey(board[Target], host.log[Target], Command.do, Command.arg)
<1>1. /\ AtCommand /\ Running /\ Command \in CommandType \cup PowerCommand
      /\ Target \in Boards /\ Target = Dest(Command) /\ InPhase /\ host'.pc = host.pc + 1
      /\ board[Target] \in BoardType /\ host.log[Target] \in LogType
      /\ board' = [board EXCEPT ![Target] = out.b] /\ board \in [Boards -> BoardType]
      /\ Running' /\ Command.do \notin {"wait", "getRssi"}
  BY Instruction, ExecuteKeeps DEF Execute, InPhase, Running, Types
<1>6. Command.do = "role" /\ Command.arg # "mem" =>
        out.b = SetRole(board[Target], Command.arg) /\ Command.arg \in Roles
  <2>1. SUFFICES ASSUME Command.do = "role", Command.arg # "mem"
                 PROVE  out.b = SetRole(board[Target], Command.arg) /\ Command.arg \in Roles
    OBVIOUS
  <2>2. Command.do \in {"role", "reset"}
    BY <2>1
  <2> QED BY <1>1, <2>1, <2>2, ObeyRole, ZenonT(60)
<1>7. Command.do \notin {"role", "reset"} =>
        /\ out.b.role = board[Target].role
        /\ out.b.listening = IF Command.do = "rx" THEN Command.arg ELSE board[Target].listening
        /\ out.b.overflowing = IF Command.do = "setRxOverflow" THEN Command.arg
                               ELSE board[Target].overflowing
        /\ out.b.tone = IF Command.do = "setTxTone" THEN Command.arg ELSE board[Target].tone
        /\ out.b.power = IF Command.do = "setPower" THEN Command.arg ELSE board[Target].power
  BY <1>1, ObeySimple
<1>2. CASE b # Target
  <2>1. board'[b] = board[b]
    BY <1>1, <1>2
  <2>2. \A do, arg : Ahead(b, do, arg) => Ahead(b, do, arg)'
    BY <1>1, <1>2, AheadPasses
  <2>3. Restoring(b) => Restoring(b)'
    BY <1>1, <1>2, RestoringPasses
  <2> QED BY <1>1, <2>1, <2>2, <2>3 DEF AtRestOrAhead
<1>3. CASE b = Target /\ Command.do = "reset"
  <2>1. board'[b] = Fresh
    BY <1>1, <1>3, ObeyRole, ZenonT(60)
  <2> QED BY <2>1, FreshFields DEF AtRestOrAhead
<1>4. CASE b = Target /\ Command.do = "role"
  <2>1. board'[b] = out.b
    BY <1>1, <1>4
  <2>2. /\ out.b.overflowing = board[b].overflowing /\ out.b.tone = board[b].tone
        /\ out.b.power = board[b].power
    BY <1>1, <1>4, ObeyRole, ZenonT(60)
  <2>3. \A do, arg : do # "role" /\ Ahead(b, do, arg) => Ahead(b, do, arg)'
    BY <1>1, <1>4, AheadPasses
  <2>4. Restoring(b) => Restoring(b)'
    BY <1>1, <1>4, RestoringPasses
  <2>5. CASE Command.arg \notin {"idle", "mem"}
    <3>0. Dirties(Command)
      BY <1>4, <2>5 DEF Dirties
    <3>1. Ahead(b, "role", "idle")'
      BY <1>1, <1>4, <3>0, UndoneAhead
    <3>2. out.b = SetRole(board[b], Command.arg) /\ Command.arg \in Roles
      BY <1>1, <1>4, <2>5, ObeyRole, ZenonT(60)
    <3>3. out.b.role # "idle"
      BY <1>1, <1>4, <2>5, <3>2, SetRoleKeeps
    <3> QED BY <1>1, <2>1, <2>2, <2>3, <2>4, <3>1, <3>3 DEF AtRestOrAhead
  <2>6. CASE Command.arg = "mem"
    <3>1. out.b.role = "idle" /\ out.b.listening = FALSE
      BY <1>1, <1>4, <2>6, ObeyRole, ZenonT(60)
    <3> QED BY <1>1, <2>1, <2>2, <2>3, <2>4, <3>1 DEF AtRestOrAhead
  <2>7. CASE Command.arg = "idle"
    <3>0. out.b = SetRole(board[Target], Command.arg)
      BY <1>4, <1>6, <2>7
    <3>1. out.b = SetRole(board[b], "idle")
      BY <1>4, <2>7, <3>0
    <3>2. /\ out.b.role = "idle"
          /\ out.b.listening = IF "idle" = board[b].role THEN board[b].listening ELSE FALSE
      <4>1. board[b] \in BoardType /\ "idle" \in Roles
        BY <1>1, <1>4 DEF Roles
      <4>2. /\ SetRole(board[b], "idle").role = "idle"
            /\ SetRole(board[b], "idle").listening =
                 IF "idle" = board[b].role THEN board[b].listening ELSE "idle" = "rx"
        BY <4>1, SetRoleKeeps
      <4> QED BY <3>1, <4>2
    <3>3. out.b.listening => board[b].listening /\ board[b].role = "idle"
      BY <3>2
    <3> QED BY <1>1, <2>1, <2>2, <2>3, <2>4, <3>2, <3>3 DEF AtRestOrAhead
  <2> QED BY <2>5, <2>6, <2>7
<1>5. CASE b = Target /\ Command.do \notin {"role", "reset"}
  <2>1. board'[b] = out.b /\ board[b] \in BoardType
    BY <1>1, <1>5
  <2>2. /\ out.b.role = board[b].role
        /\ out.b.listening = IF Command.do = "rx" THEN Command.arg ELSE board[b].listening
        /\ out.b.overflowing = IF Command.do = "setRxOverflow" THEN Command.arg
                               ELSE board[b].overflowing
        /\ out.b.tone = IF Command.do = "setTxTone" THEN Command.arg ELSE board[b].tone
        /\ out.b.power = IF Command.do = "setPower" THEN Command.arg ELSE board[b].power
    <3>1. Command.do \notin {"role", "reset"}
      BY <1>5
    <3>2. /\ out.b.role = board[Target].role
          /\ out.b.listening = IF Command.do = "rx" THEN Command.arg
                               ELSE board[Target].listening
          /\ out.b.overflowing = IF Command.do = "setRxOverflow" THEN Command.arg
                                 ELSE board[Target].overflowing
          /\ out.b.tone = IF Command.do = "setTxTone" THEN Command.arg ELSE board[Target].tone
          /\ out.b.power = IF Command.do = "setPower" THEN Command.arg
                           ELSE board[Target].power
      BY <1>7, <3>1
    <3> QED BY <1>5, <3>2
  <2> HIDE DEF out
  <2>3. \A do, arg : Command.do # do /\ Ahead(b, do, arg) => Ahead(b, do, arg)'
    BY <1>1, AheadPasses
  <2>4. /\ Command.do \in {"rx", "setRxOverflow", "setTxTone"} => Command.arg \in BOOLEAN
    BY <1>1 DEF CommandType, PowerCommand
  <2>5. ASSUME NEW do \in {"rx", "setRxOverflow", "setTxTone"}, Command.do = do,
               Command.arg = TRUE
        PROVE  Ahead(b, do, FALSE)'
    <3>1. Dirties(Command) /\ do # "role"
      BY <2>5 DEF Dirties
    <3> QED BY <1>1, <1>5, <2>5, <3>1, UndoneAhead
  <2>6. Command.do # "setPower" /\ Restoring(b) => Restoring(b)'
    BY <1>1, RestoringPasses
  <2>7. ASSUME Command.do = "setPower", Command.arg # "normal" PROVE Restoring(b)'
    BY <1>1, <1>5, <2>7, LowPowerRestored
  <2>8. board'[b].role # "idle" => Ahead(b, "role", "idle")'
    BY <1>5, <2>1, <2>2, <2>3 DEF AtRestOrAhead
  <2>9. board'[b].listening /\ board'[b].role = "idle" => Ahead(b, "rx", FALSE)'
    BY <2>1, <2>2, <2>3, <2>4, <2>5 DEF AtRestOrAhead
  <2>10. board'[b].overflowing => Ahead(b, "setRxOverflow", FALSE)'
    BY <2>1, <2>2, <2>3, <2>4, <2>5 DEF AtRestOrAhead
  <2>11. board'[b].tone => Ahead(b, "setTxTone", FALSE)'
    BY <2>1, <2>2, <2>3, <2>4, <2>5 DEF AtRestOrAhead
  <2>12. board'[b].power # "normal" => Restoring(b)'
    BY <2>1, <2>2, <2>6, <2>7 DEF AtRestOrAhead
  <2> QED BY <1>1, <2>8, <2>9, <2>10, <2>11, <2>12 DEF AtRestOrAhead
<1> QED BY <1>2, <1>3, <1>4, <1>5

\* Every step leaves every board so.
LEMMA RestKept ==
  ASSUME Types, Placed, RestInv, [Next]_vars
  PROVE  RestInv'
<1> SUFFICES ASSUME mishaps' = 0, NEW b \in Boards PROVE AtRestOrAhead(b)'
  BY DEF RestInv
<1>0. Types' /\ Placed' /\ mishaps \in Nat
  BY TypesKept DEF Types
<1>1. ASSUME NEW probe \in ProbesRun, NEW rx \in Boards, Begin(probe, rx)
      PROVE  AtRestOrAhead(b)'
  <2>1. ~Running /\ board' = board /\ mishaps' = mishaps
    BY <1>1, BeginKeeps DEF Running
  <2> QED BY <2>1 DEF RestInv, AtRestOrAhead
<1>2. ASSUME Execute PROVE AtRestOrAhead(b)'
  <2>1. mishaps' = mishaps
    BY <1>2 DEF Execute
  <2> QED BY <1>2, <2>1, ExecuteRests DEF RestInv
<1>3. ASSUME ReadRssi \/ Wait PROVE AtRestOrAhead(b)'
  <2>1. /\ AtCommand /\ InPhase /\ host'.pc = host.pc + 1 /\ board' = board
        /\ mishaps' = mishaps /\ Command.do \in {"getRssi", "wait"}
    BY <1>3, ReadRssiKeeps, SkipKeeps
  <2>2. Running /\ Running'
    BY <2>1 DEF AtCommand, Running, InPhase
  <2>3. \A do, arg : do \notin {"getRssi", "wait"} /\ Ahead(b, do, arg) => Ahead(b, do, arg)'
    BY <2>1, AheadPasses
  <2>4. Restoring(b) => Restoring(b)'
    BY <2>1, RestoringPasses
  <2>5. AtRestOrAhead(b)
    BY <2>1 DEF RestInv
  <2>6. /\ Ahead(b, "role", "idle") => Ahead(b, "role", "idle")'
        /\ Ahead(b, "rx", FALSE) => Ahead(b, "rx", FALSE)'
        /\ Ahead(b, "setRxOverflow", FALSE) => Ahead(b, "setRxOverflow", FALSE)'
        /\ Ahead(b, "setTxTone", FALSE) => Ahead(b, "setTxTone", FALSE)'
    BY <2>3
  <2> QED BY <2>1, <2>2, <2>4, <2>5, <2>6 DEF AtRestOrAhead
<1>4. ASSUME FinishPhase PROVE AtRestOrAhead(b)'
  <2>1. /\ Running /\ host.pc = Len(Commands) + 1 /\ board' = board /\ mishaps' = mishaps
        /\ Len(Commands) \in Nat
    BY <1>4, FinishKeeps, Situation
  <2>2. AtRestOrAhead(b)
    BY <2>1 DEF RestInv
  <2>3. \A do, arg : ~Ahead(b, do, arg)
    BY <2>1 DEF Ahead
  <2>4. /\ board[b].role = "idle" /\ ~board[b].listening /\ ~board[b].overflowing
        /\ ~board[b].tone
        /\ board[b].power # "normal" => Restoring(b)
    BY <2>2, <2>3 DEF AtRestOrAhead
  <2>5. ASSUME Restoring(b)
        PROVE  host.phase < Len(host.phases) /\ Restoring(b)' /\ Running'
    <3>1. PICK j \in host.phase .. Len(host.phases) :
            /\ host.phases[j].kind = "restore" /\ host.phases[j].tx = b
            /\ j = host.phase => host.pc <= 2
      BY <2>5 DEF Restoring
    <3>2. j # host.phase
      <4>1. SUFFICES ASSUME j = host.phase PROVE FALSE
        OBVIOUS
      <4>2. Commands = SetTxPower("normal")
        BY <3>1, <4>1 DEF Commands, Script, Current
      <4>3. Len(Commands) = 2
        BY <4>2, PowerTidy DEF Powers
      <4> QED BY <2>1, <3>1, <4>1, <4>3
    <3>3. host.phase \in Nat /\ Len(host.phases) \in Nat
      <4>1. host \in HostType
        BY <2>1, Situation
      <4> QED BY <4>1 DEF HostType
    <3>4. j \in host.phase + 1 .. Len(host.phases) /\ host.phase < Len(host.phases)
      BY <3>1, <3>2, <3>3
    <3>5. EntryOf \in EntryType
      BY <1>4, EntryKept
    <3>6. /\ host' # Idle /\ host'.phases = host.phases /\ host'.phase = host.phase + 1
          /\ host'.pc = 1
      BY <1>4, <3>4, <3>5, FinishKeeps
    <3> QED BY <3>1, <3>4, <3>6 DEF Restoring, Running
  <2> QED BY <2>1, <2>4, <2>5 DEF AtRestOrAhead
<1>5. ASSUME LoseCommand \/ Kill PROVE AtRestOrAhead(b)'
  BY <1>0, <1>5 DEF LoseCommand, Kill, Mishap
<1>6. ASSUME NEW from \in Boards, SendNext(from) \/ AutoTx(from) \/ ScheduledAttempt(from)
      PROVE  AtRestOrAhead(b)'
  <2>1. PICK p \in Int, fate \in Fates : \E m \in LogType : RadioStep(from, p, fate, m)
    BY <1>6, SenderStep
  <2>2. /\ SameRadio(board[from], board'[from]) /\ Kept(board[Peer(from)], board'[Peer(from)])
        /\ host = Idle => host' = Idle
        /\ host # Idle => InPhase /\ host'.pc = host.pc
        /\ mishaps' = mishaps
    BY <2>1 DEF RadioStep, Received
  <2>3. b = from \/ b = Peer(from)
    BY TwoBoards
  <2>4. /\ board'[b].role = board[b].role /\ board'[b].listening = board[b].listening
        /\ board'[b].overflowing = board[b].overflowing /\ board'[b].tone = board[b].tone
        /\ board'[b].power = board[b].power
    BY <2>2, <2>3 DEF SameRadio, Kept
  <2>5. Running => /\ Running'
                   /\ \A do, arg : Ahead(b, do, arg) => Ahead(b, do, arg)'
                   /\ Restoring(b) => Restoring(b)'
    BY <2>2, AheadStays DEF Running, InPhase
  <2> QED BY <2>2, <2>4, <2>5 DEF RestInv, AtRestOrAhead
<1>7. ASSUME NEW c \in Boards, Restart(c) PROVE AtRestOrAhead(b)'
  BY <1>0, <1>7 DEF Restart, Mishap
<1>8. ASSUME UNCHANGED vars PROVE AtRestOrAhead(b)'
  <2>1. board' = board /\ host' = host /\ mishaps' = mishaps
    BY <1>8 DEF vars
  <2>2. AtRestOrAhead(b)
    BY <1>0, <2>1 DEF RestInv
  <2> QED BY <2>1, <2>2, ZenonT(60)
            DEF AtRestOrAhead, Running, Ahead, Restoring, Commands, Current, Dest
<1> QED BY <1>1, <1>2, <1>3, <1>4, <1>5, <1>6, <1>7, <1>8 DEF Next

\* As long as there was no mishap, every script leaves the boards at rest, whether
\* it passed or failed: whatever it set is undone by one of its own commands, and
\* the power by the last phase of the sweep.
THEOREM LeftAtRest == Spec => []BoardsLeftAtRest
<1>1. Init => Types /\ Placed /\ RestInv
  BY TypesInit, FreshFields DEF Init, RestInv, AtRestOrAhead
<1>2. (Types /\ Placed /\ RestInv) /\ [Next]_vars => (Types /\ Placed /\ RestInv)'
  BY TypesKept, RestKept
<1>3. Types /\ Placed /\ RestInv => BoardsLeftAtRest
  BY DEF RestInv, AtRestOrAhead, BoardsLeftAtRest, Running
<1> QED BY <1>1, <1>2, <1>3, PTL DEF Spec

----------------------------------------------------------------------------
(* What the lines of a phase prove.                                        *)

\* The receiver of the phase, its lines, and what reached its radio.
Receiver == board[Current.rx]
Lines    == host.log[Current.rx]
Heard    == host.truth.heard

\* The packets of the application, and the malformed ones, among those heard.
Proper(heard) == {i \in DOMAIN heard : heard[i] >= 1}
Bad(heard)    == {i \in DOMAIN heard : heard[i] < 1}

\* n packets in a row were heard, the last of them numbered last.
Row(n, last, heard) ==
  \E k \in 0 .. Len(heard) - n : \A i \in 1 .. n : heard[k + i] = last - n + i

\* Only a board in the RX role has a packet-pair state.
ClearOutside(b) ==
  /\ b.role # "rx" => b.rx = 0 /\ b.gaps = 0 /\ b.faults = 0 /\ b.next = 0
  /\ b.rx = 0 <=> b.next = 0
RolesInv == \A b \in Boards : ClearOutside(board[b])

\* Whatever was printed or noted was heard or sent in this phase.
LinesInv ==
  Running =>
    /\ Lines.lines <= Len(Heard)
    /\ \A p \in Lines.seen : \E i \in DOMAIN Heard : Heard[i] = p
    /\ Lines.fails <= Cardinality(Bad(Heard))
    /\ host.log[Current.tx].done <= host.truth.sent
    /\ Len(host.log[Current.tx].ends) <= host.truth.sent

\* One more packet heard is one more of its sort.
LEMMA OneMore ==
  ASSUME NEW heard \in Seq(Int), NEW p \in Int
  PROVE  /\ Append(heard, p) \in Seq(Int) /\ Len(Append(heard, p)) = Len(heard) + 1
         /\ Append(heard, p)[Len(heard) + 1] = p
         /\ \A i \in DOMAIN heard : i \in DOMAIN Append(heard, p) /\ Append(heard, p)[i] = heard[i]
         /\ Cardinality(Bad(heard)) \in Nat /\ Cardinality(Proper(heard)) \in Nat
         /\ Cardinality(Bad(Append(heard, p))) =
              IF p < 1 THEN Cardinality(Bad(heard)) + 1 ELSE Cardinality(Bad(heard))
         /\ Cardinality(Proper(Append(heard, p))) =
              IF p < 1 THEN Cardinality(Proper(heard)) ELSE Cardinality(Proper(heard)) + 1
<1> DEFINE n == Len(heard)
           h == Append(heard, p)
<1>1. /\ h \in Seq(Int) /\ Len(h) = n + 1 /\ h[n + 1] = p /\ n \in Nat
      /\ DOMAIN heard = 1 .. n /\ DOMAIN h = 1 .. n + 1
      /\ \A i \in 1 .. n : i \in DOMAIN h /\ h[i] = heard[i] /\ heard[i] \in Int
  OBVIOUS
<1> HIDE DEF h, n
<1>2. Bad(heard) \subseteq 1 .. n /\ Proper(heard) \subseteq 1 .. n
  BY <1>1 DEF Bad, Proper
<1>3. IsFiniteSet(1 .. n)
  BY <1>1, FS_Interval
<1>4. IsFiniteSet(Bad(heard)) /\ IsFiniteSet(Proper(heard))
  BY <1>2, <1>3, FS_Subset
<1>5. Cardinality(Bad(heard)) \in Nat /\ Cardinality(Proper(heard)) \in Nat
  BY <1>4, FS_CardinalityType
<1>6. n + 1 \notin Bad(heard) /\ n + 1 \notin Proper(heard)
  BY <1>1, <1>2
<1>7. CASE p < 1
  <2>1. Bad(h) = Bad(heard) \cup {n + 1} /\ Proper(h) = Proper(heard)
    BY <1>1, <1>7 DEF Bad, Proper
  <2> QED BY <1>1, <1>4, <1>5, <1>6, <1>7, <2>1, FS_AddElement DEF h, n
<1>8. CASE ~(p < 1)
  <2>1. Proper(h) = Proper(heard) \cup {n + 1} /\ Bad(h) = Bad(heard)
    BY <1>1, <1>8 DEF Bad, Proper
  <2> QED BY <1>1, <1>4, <1>5, <1>6, <1>8, <2>1, FS_AddElement DEF h, n
<1> QED BY <1>7, <1>8

\* No more proper packets were heard than packets.
LEMMA ProperBound ==
  ASSUME NEW heard \in Seq(Int)
  PROVE  Cardinality(Proper(heard)) \in Nat /\ Cardinality(Proper(heard)) <= Len(heard)
<1>1. Proper(heard) \subseteq 1 .. Len(heard) /\ Len(heard) \in Nat
  BY DEF Proper
<1>2. IsFiniteSet(1 .. Len(heard)) /\ Cardinality(1 .. Len(heard)) = Len(heard)
  <2>1. 1 \in Int /\ Len(heard) \in Int
    OBVIOUS
  <2>2. Cardinality(1 .. Len(heard)) = IF 1 > Len(heard) THEN 0 ELSE Len(heard) - 1 + 1
    BY <2>1, FS_Interval
  <2> QED BY <1>1, <2>1, <2>2, FS_Interval, SMTT(90)
<1>3. /\ IsFiniteSet(Proper(heard))
      /\ Cardinality(Proper(heard)) <= Cardinality(1 .. Len(heard))
  BY <1>1, <1>2, FS_Subset
<1> QED BY <1>2, <1>3, FS_CardinalityType

\* A row stays one when more is heard.
LEMMA RowStays ==
  ASSUME NEW heard \in Seq(Int), NEW p \in Int, NEW n \in Nat, NEW last \in Int,
         Row(n, last, heard)
  PROVE  Row(n, last, Append(heard, p))
<1>1. PICK k \in 0 .. Len(heard) - n : \A i \in 1 .. n : heard[k + i] = last - n + i
  BY DEF Row
<1>2. Len(Append(heard, p)) = Len(heard) + 1 /\ Len(heard) \in Nat
      /\ \A i \in 1 .. Len(heard) : Append(heard, p)[i] = heard[i]
  OBVIOUS
<1>3. k \in 0 .. Len(heard) + 1 - n
  BY <1>1, <1>2
<1>4. ASSUME NEW i \in 1 .. n PROVE Append(heard, p)[k + i] = last - n + i
  <2>1. k + i \in 1 .. Len(heard)
    BY <1>1, <1>2
  <2> QED BY <1>1, <1>2, <2>1
<1>5. k \in 0 .. Len(Append(heard, p)) - n
  BY <1>2, <1>3
<1> QED BY <1>4, <1>5 DEF Row

\* Commands do not count packets.
LEMMA ObeyClear ==
  ASSUME NEW b \in BoardType, NEW log \in LogType,
         NEW c \in CommandType \cup PowerCommand, c.do \notin {"wait", "getRssi"},
         ClearOutside(b)
  PROVE  LET d == Obey(b, log, c.do, c.arg).b
         IN /\ ClearOutside(d)
            /\ \/ /\ d.rx = b.rx /\ d.gaps = b.gaps /\ d.faults = b.faults /\ d.next = b.next
                  /\ d.role = b.role
               \/ d.rx = 0 /\ d.gaps = 0 /\ d.faults = 0 /\ d.next = 0
<1> DEFINE d == Obey(b, log, c.do, c.arg).b
<1>1. CASE c.do \notin {"role", "reset"}
  <2>1. /\ d.rx = b.rx /\ d.gaps = b.gaps /\ d.faults = b.faults /\ d.next = b.next
        /\ d.role = b.role
    BY <1>1, ObeySimple
  <2> HIDE DEF d
  <2>2. ClearOutside(d)
    BY <2>1 DEF ClearOutside
  <2> QED BY <2>1, <2>2 DEF d
<1>2. CASE c.do = "reset"
  <2>1. d = Fresh
    BY <1>2, ObeyRole
  <2> QED BY <2>1, FreshFields DEF ClearOutside
<1>3. CASE c.do = "role" /\ c.arg = "mem"
  <2>1. d.role = "idle" /\ d.rx = 0 /\ d.gaps = 0 /\ d.faults = 0 /\ d.next = 0
    <3>1. c.do \in {"role", "reset"}
      BY <1>3
    <3> QED BY <1>3, <3>1, ObeyRole, ZenonT(60)
  <2> HIDE DEF d
  <2>2. ClearOutside(d)
    BY <2>1 DEF ClearOutside
  <2> QED BY <2>1, <2>2 DEF d
<1>4. CASE c.do = "role" /\ c.arg # "mem"
  <2>1. d = SetRole(b, c.arg) /\ c.arg \in Roles
    BY <1>4, ObeyRole
  <2>2. /\ d.role = c.arg
        /\ c.arg # b.role => d.rx = 0 /\ d.gaps = 0 /\ d.faults = 0 /\ d.next = 0
        /\ c.arg = b.role => d = b
    BY <2>1, SetRoleKeeps
  <2> HIDE DEF d
  <2>3. ClearOutside(d)
    BY <2>2 DEF ClearOutside
  <2> QED BY <2>2, <2>3 DEF d
<1> QED BY <1>1, <1>2, <1>3, <1>4

\* Only a status, the memory line and a level are lines of a command.
LEMMA ObeyLines ==
  ASSUME NEW b \in BoardType, NEW log \in LogType,
         NEW c \in CommandType \cup PowerCommand, c.do \notin {"wait", "getRssi"}
  PROVE  LET m == Obey(b, log, c.do, c.arg).log
         IN /\ m.lines = log.lines /\ m.seen = log.seen /\ m.fails = log.fails
            /\ m.done = log.done /\ m.ends = log.ends /\ m.marker = log.marker
            /\ m.rssi = log.rssi
<1>1. CASE c.do \notin {"role", "reset"}
  BY <1>1, ObeySimple
<1>2. CASE c.do \in {"role", "reset"}
  BY <1>2, ObeyRole, ZenonT(60)
<1> QED BY <1>1, <1>2

\* Every step leaves only boards in the RX role with counts.
LEMMA RolesKept ==
  ASSUME Types, Placed, RolesInv, [Next]_vars
  PROVE  RolesInv'
<1> SUFFICES ASSUME NEW b \in Boards PROVE ClearOutside(board'[b])
  BY DEF RolesInv, ClearOutside
<1>0. ClearOutside(board[b]) /\ board \in [Boards -> BoardType]
  BY DEF RolesInv, Types
<1>1. ASSUME Execute PROVE ClearOutside(board'[b])
  <2> DEFINE out == Obey(board[Target], host.log[Target], Command.do, Command.arg)
  <2>1. /\ Command \in CommandType \cup PowerCommand /\ Target \in Boards
        /\ Command.do \notin {"wait", "getRssi"}
        /\ board[Target] \in BoardType /\ host.log[Target] \in LogType
        /\ board' = [board EXCEPT ![Target] = out.b]
    BY <1>1, Instruction, ExecuteKeeps DEF Execute
  <2>2. ClearOutside(out.b)
    BY <2>1, ObeyClear DEF RolesInv
  <2> HIDE DEF out
  <2>3. board'[b] = IF b = Target THEN out.b ELSE board[b]
    BY <1>0, <2>1
  <2> QED BY <1>0, <2>2, <2>3
<1>2. ASSUME NEW from \in Boards, SendNext(from) \/ AutoTx(from) \/ ScheduledAttempt(from)
      PROVE  ClearOutside(board'[b])
  <2>1. PICK p \in Int, fate \in Fates : \E m \in LogType : RadioStep(from, p, fate, m)
    BY <1>2, SenderStep
  <2>2. CASE b = from
    BY <1>0, <2>1, <2>2 DEF RadioStep, SameRadio, ClearOutside
  <2>3. CASE b = Peer(from)
    <3>1. PICK m \in LogType : Received(board[b], Log(b), p, fate, board'[b], m)
      BY <2>1, <2>3 DEF RadioStep
    <3>2. board'[b].role = board[b].role
      BY <3>1 DEF Received, Kept
    <3>3. \/ Untouched(board[b], Log(b), board'[b], m)
          \/ board[b].role = "rx" /\ Accepted(board[b], Log(b), p, board'[b], m)
      BY <3>1 DEF Received
    <3>4. board[b].rx \in Nat
      BY <1>0 DEF BoardType
    <3> QED BY <1>0, <3>2, <3>3, <3>4 DEF Untouched, Accepted, ClearOutside
  <2> QED BY <2>2, <2>3, TwoBoards
<1>3. ASSUME NEW c \in Boards, Restart(c) PROVE ClearOutside(board'[b])
  <2>1. board'[b] = IF b = c THEN Fresh ELSE board[b]
    BY <1>0, <1>3, RestartKeeps
  <2> QED BY <1>0, <2>1, FreshFields DEF ClearOutside
<1>4. CASE board' = board
  BY <1>0, <1>4
<1>5. ASSUME NEW probe \in ProbesRun, NEW rx \in Boards, Begin(probe, rx)
      PROVE  board' = board
  BY <1>5 DEF Begin
<1>6. ReadRssi \/ Wait \/ FinishPhase \/ LoseCommand \/ Kill \/ UNCHANGED vars => board' = board
  BY DEF ReadRssi, Wait, FinishPhase, LoseCommand, Kill, vars
<1> QED BY <1>1, <1>2, <1>3, <1>4, <1>5, <1>6 DEF Next

\* A phase begins, or the script goes on in the one it is in.
NewPhase ==
  /\ host' \in HostType /\ host' # Idle /\ host'.pc = 1 /\ board' = board
  /\ host'.log = [b \in Boards |-> Blank] /\ host'.truth = NoTruth
  /\ host'.flaws = FlawsAtStart(Current'.rx) /\ Current'.rx \in Boards
  /\ Current'.tx \in Boards
WithinPhase ==
  /\ Running
  /\ \/ Execute \/ ReadRssi \/ Wait \/ LoseCommand
     \/ \E b \in Boards : SendNext(b) \/ AutoTx(b) \/ ScheduledAttempt(b) \/ Restart(b)

\* There is nothing else a step can be for a running script.
LEMMA StepsOfPhase ==
  ASSUME Types, Placed, [Next]_vars
  PROVE  NewPhase \/ WithinPhase \/ host' = Idle \/ UNCHANGED <<board, host>>
<1>1. ASSUME NEW probe \in ProbesRun, NEW rx \in Boards, Begin(probe, rx)
      PROVE  NewPhase
  <2>1. probe \in Probes
    BY BenchAssumption
  <2>2. /\ host' \in HostType /\ host' # Idle /\ host'.pc = 1 /\ host'.phase = 1
        /\ host'.log = [b \in Boards |-> Blank] /\ host'.truth = NoTruth
        /\ host'.flaws = FlawsAtStart(rx) /\ host'.phases = Phases(probe, rx, Peer(rx))
        /\ board' = board
    BY <1>1, BeginKeeps
  <2>3. /\ Len(host'.phases) \in Nat /\ Len(host'.phases) >= 1 /\ host'.phases[1].rx = rx
        /\ \A i \in 1 .. Len(host'.phases) : host'.phases[i] \in PhaseType
    BY <2>1, <2>2, PhasesFields
  <2>4. host'.phases[1] \in PhaseType
    BY <2>3
  <2>5. Current'.rx = rx /\ Current'.tx \in Boards
    BY <2>2, <2>3, <2>4 DEF Current, PhaseType
  <2> QED BY <2>2, <2>5 DEF NewPhase
<1>2. ASSUME FinishPhase, host' # Idle PROVE NewPhase
  <2>1. EntryOf \in EntryType /\ Types' /\ Placed'
    BY <1>2, EntryKept, TypesKept
  <2>2. host.phase < Len(host.phases)
    BY <1>2, FinishKeeps
  <2>3. /\ host' \in HostType /\ host'.phases = host.phases /\ host'.phase = host.phase + 1
        /\ host'.pc = 1 /\ host'.log = [b \in Boards |-> Blank] /\ host'.truth = NoTruth
        /\ host'.flaws = FlawsAtStart(host.phases[host.phase + 1].rx) /\ board' = board
    BY <1>2, <2>1, <2>2, FinishKeeps
  <2>4. host'.phase \in 1 .. Len(host'.phases) /\ host'.phases \in Seq(PhaseType)
    BY <1>2, <2>1, <2>3 DEF Placed, Running, HostType
  <2>5. host'.phases[host'.phase] \in PhaseType
    BY <2>4
  <2> QED BY <1>2, <2>3, <2>5 DEF NewPhase, Current, PhaseType
<1>3. ASSUME NEW b \in Boards, SendNext(b) \/ AutoTx(b) \/ ScheduledAttempt(b) \/ Restart(b)
      PROVE  WithinPhase \/ host' = Idle
  <2>1. CASE Running
    BY <1>3, <2>1 DEF WithinPhase
  <2>2. CASE ~Running /\ Restart(b)
    BY <2>2, RestartKeeps DEF Running
  <2>3. CASE ~Running /\ (SendNext(b) \/ AutoTx(b) \/ ScheduledAttempt(b))
    BY <2>3, SenderStep DEF RadioStep, Running
  <2> QED BY <1>3, <2>1, <2>2, <2>3
<1>4. Execute \/ ReadRssi \/ Wait \/ LoseCommand => WithinPhase
  BY DEF WithinPhase, Execute, ReadRssi, Wait, LoseCommand, AtCommand
<1>5. Kill => host' = Idle
  BY DEF Kill
<1>6. UNCHANGED vars => UNCHANGED <<board, host>>
  BY DEF vars
<1> QED BY <1>1, <1>2, <1>3, <1>4, <1>5, <1>6 DEF Next

\* The phase and its script stay the same.
LEMMA PhaseStays ==
  ASSUME InPhase
  PROVE  Current' = Current /\ Commands' = Commands /\ Running'
  BY DEF InPhase, Current, Commands, Running

\* Nothing is kept of the lines of another phase.
LEMMA LinesFresh ==
  ASSUME NewPhase
  PROVE  LinesInv'
<1>1. /\ host'.log[Current'.rx] = Blank /\ host'.log[Current'.tx] = Blank
      /\ host'.truth.heard = <<>> /\ host'.truth.sent = 0
  BY DEF NewPhase, NoTruth
<1>2. /\ Blank.lines = 0 /\ Blank.seen = {} /\ Blank.fails = 0 /\ Blank.done = 0
      /\ Len(Blank.ends) = 0
  BY BlankFields
<1>3. Len(<<>>) = 0 /\ Cardinality(Bad(<<>>)) = 0
  <2>1. Bad(<<>>) = {}
    BY DEF Bad
  <2> QED BY <2>1, FS_EmptySet
<1>4. /\ host'.log[Current'.rx].lines <= Len(host'.truth.heard)
      /\ host'.log[Current'.rx].seen = {}
      /\ host'.log[Current'.rx].fails <= Cardinality(Bad(host'.truth.heard))
      /\ host'.log[Current'.tx].done <= host'.truth.sent
      /\ Len(host'.log[Current'.tx].ends) <= host'.truth.sent
  BY <1>1, <1>2, <1>3
<1> QED BY <1>4 DEF LinesInv, Lines, Heard, Bad

\* A line is printed for what is heard, a note for what is sent.
LEMMA LinesKept ==
  ASSUME Types, Placed, LinesInv, WithinPhase
  PROVE  LinesInv'
<1> DEFINE rx == Current.rx
           tx == Current.tx
           l == host.log[rx]
           t == host.log[tx]
           Says(m, u, heard, sent) ==
             /\ m.lines <= Len(heard)
             /\ \A p \in m.seen : \E i \in DOMAIN heard : heard[i] = p
             /\ m.fails <= Cardinality(Bad(heard))
             /\ u.done <= sent /\ Len(u.ends) <= sent
<1>1. /\ rx \in Boards /\ tx \in Boards /\ rx # tx /\ Boards = {rx, tx}
      /\ Peer(rx) = tx /\ Peer(tx) = rx /\ host \in HostType /\ host.truth \in TruthType
  BY Situation DEF WithinPhase
<1>2. /\ l \in LogType /\ t \in LogType /\ host.truth.heard \in Seq(Int)
      /\ host.truth.sent \in Nat /\ host.log \in [Boards -> LogType]
  BY <1>1 DEF HostType, TruthType
<1>3. Says(l, t, host.truth.heard, host.truth.sent)
  BY DEF LinesInv, Lines, Heard, WithinPhase
<1>4. ASSUME InPhase, Says(host'.log[rx], host'.log[tx], host'.truth.heard, host'.truth.sent)
      PROVE  LinesInv'
  <2>1. Current' = Current
    BY <1>4, PhaseStays
  <2> QED BY <1>4, <2>1 DEF LinesInv, Lines, Heard
<1>5. CASE Execute
  <2> DEFINE out == Obey(board[Target], host.log[Target], Command.do, Command.arg)
  <2>1. /\ InPhase /\ host'.log = [host.log EXCEPT ![Target] = out.log]
        /\ host'.truth.heard = host.truth.heard /\ host'.truth.sent = host.truth.sent
        /\ Target \in Boards /\ Command \in CommandType \cup PowerCommand
        /\ board[Target] \in BoardType /\ host.log[Target] \in LogType
        /\ Command.do \notin {"wait", "getRssi"}
    BY <1>5, Instruction, ExecuteKeeps DEF Execute
  <2>2. /\ out.log.lines = host.log[Target].lines /\ out.log.seen = host.log[Target].seen
        /\ out.log.fails = host.log[Target].fails /\ out.log.done = host.log[Target].done
        /\ out.log.ends = host.log[Target].ends
    BY <2>1, ObeyLines
  <2> HIDE DEF out
  <2>3. \A b \in Boards : /\ host'.log[b].lines = host.log[b].lines
                          /\ host'.log[b].seen = host.log[b].seen
                          /\ host'.log[b].fails = host.log[b].fails
                          /\ host'.log[b].done = host.log[b].done
                          /\ host'.log[b].ends = host.log[b].ends
    BY <1>2, <2>1, <2>2
  <2> QED BY <1>1, <1>3, <1>4, <2>1, <2>3
<1>6. CASE ReadRssi
  <2>1. /\ InPhase /\ SameLines(l, host'.log[rx]) /\ host'.log[tx] = t
        /\ host'.truth.heard = host.truth.heard /\ host'.truth.sent = host.truth.sent
    BY <1>6, ReadRssiKeeps
  <2> QED BY <1>3, <1>4, <2>1 DEF SameLines
<1>7. CASE Wait \/ LoseCommand
  BY <1>3, <1>4, <1>7, SkipKeeps
<1>8. ASSUME NEW b \in Boards, Restart(b) PROVE LinesInv'
  <2>1. InPhase /\ host'.log = host.log /\ host'.truth = host.truth
    BY <1>8, RestartKeeps DEF WithinPhase, Running
  <2> QED BY <1>3, <1>4, <2>1
<1>9. ASSUME NEW from \in Boards, SendNext(from) \/ AutoTx(from) \/ ScheduledAttempt(from)
      PROVE  LinesInv'
  <2>1. PICK p \in Int, fate \in Fates : \E m \in LogType : RadioStep(from, p, fate, m)
    BY <1>9, SenderStep
  <2>2. host # Idle /\ Log(Peer(from)) = host.log[Peer(from)] /\ Peer(from) \in Boards
    BY TwoBoards DEF WithinPhase, Running, Log
  <2>3. /\ InPhase /\ SenderLog(host.log[from], host'.log[from])
        /\ Received(board[Peer(from)], host.log[Peer(from)], p, fate, board'[Peer(from)],
                    host'.log[Peer(from)])
        /\ \/ host'.truth.sent = host.truth.sent + 1
           \/ /\ host'.truth.sent = host.truth.sent
              /\ from = tx => /\ host'.log[from].done = host.log[from].done
                              /\ host'.log[from].ends = host.log[from].ends
        /\ host'.truth.heard = IF (board[Peer(from)].listening /\ fate = "heard")
                                  /\ Peer(from) = rx
                               THEN Append(host.truth.heard, p) ELSE host.truth.heard
    BY <2>1, <2>2 DEF RadioStep
  <2>4. host' \in HostType
    BY <2>3 DEF InPhase
  <2>5. /\ l.lines \in Nat /\ l.fails \in Nat /\ t.done \in Nat /\ Len(t.ends) \in Nat
        /\ t.ends \in Seq(Nat)
    <3>1. l.lines \in Nat /\ l.fails \in Nat /\ t.done \in Nat /\ t.ends \in Seq(Nat)
      BY <1>2 DEF LogType
    <3> QED BY <3>1
  <2>6. CASE from = rx
    <3>1. /\ host'.log[rx].lines = l.lines /\ host'.log[rx].seen = l.seen
          /\ host'.log[rx].fails = l.fails /\ host'.log[tx].done = t.done
          /\ host'.log[tx].ends = t.ends /\ host'.truth.heard = host.truth.heard
      BY <1>1, <2>3, <2>6 DEF SenderLog, Received, KeptLog
    <3>2. host'.truth.sent \in Nat /\ host'.truth.sent >= host.truth.sent
      BY <1>2, <2>3
    <3>3. Says(host'.log[rx], host'.log[tx], host'.truth.heard, host'.truth.sent)
      BY <1>2, <1>3, <2>5, <3>1, <3>2, SMTT(90)
    <3> QED BY <1>4, <2>3, <3>3
  <2>7. CASE from = tx
    <3> DEFINE b == board[rx]
               heard == b.listening /\ fate = "heard"
               m == host'.log[rx]
               u == host'.log[tx]
    <3>1. /\ Received(b, l, p, fate, board'[rx], m) /\ SenderLog(t, u)
          /\ host'.truth.heard = IF heard THEN Append(host.truth.heard, p)
                                 ELSE host.truth.heard
      BY <1>1, <2>3, <2>7
    <3>2. /\ u.done \in Nat /\ Len(u.ends) \in Nat
      <4>1. u \in LogType
        BY <1>1, <2>4 DEF HostType
      <4>2. u.done \in Nat /\ u.ends \in Seq(Nat)
        BY <4>1 DEF LogType
      <4> QED BY <4>2
    <3>3. u.done <= host'.truth.sent /\ Len(u.ends) <= host'.truth.sent
      <4>1. CASE host'.truth.sent = host.truth.sent + 1
        <5>1. u.done <= t.done + 1 /\ Len(u.ends) <= Len(t.ends) + 1
          BY <3>1 DEF SenderLog
        <5> HIDE DEF u, t
        <5> QED BY <1>2, <1>3, <2>5, <3>2, <4>1, <5>1, SMTT(90)
      <4>2. CASE host'.truth.sent = host.truth.sent /\ u.done = t.done /\ u.ends = t.ends
        BY <1>3, <4>2
      <4> QED BY <2>3, <2>7, <4>1, <4>2
    <3>4. \/ m.lines = l.lines /\ m.seen = l.seen
          \/ m.lines = l.lines + 1 /\ m.seen = l.seen \cup {p} /\ heard
      BY <3>1 DEF Received
    <3>5. m.fails = l.fails \/ (m.fails = l.fails + 1 /\ p < 1 /\ heard)
      BY <3>1 DEF Received, Untouched, Accepted
    <3> HIDE DEF heard, m, u, b, l, t
    <3>6. CASE heard
      <4> DEFINE h == Append(host.truth.heard, p)
      <4>1. /\ Len(h) = Len(host.truth.heard) + 1 /\ Len(host.truth.heard) \in Nat
            /\ Len(h) \in DOMAIN h /\ h[Len(h)] = p
            /\ \A i \in DOMAIN host.truth.heard : i \in DOMAIN h /\ h[i] = host.truth.heard[i]
            /\ Cardinality(Bad(host.truth.heard)) \in Nat
            /\ Cardinality(Bad(h)) = IF p < 1 THEN Cardinality(Bad(host.truth.heard)) + 1
                                     ELSE Cardinality(Bad(host.truth.heard))
        BY <1>2, OneMore, SMTT(30)
      <4> HIDE DEF h
      <4>2. m.lines <= Len(h) /\ m.fails <= Cardinality(Bad(h))
        BY <1>3, <2>5, <3>4, <3>5, <4>1
      <4>3. \A q \in m.seen : \E i \in DOMAIN h : h[i] = q
        BY <1>3, <3>4, <4>1
      <4>4. host'.truth.heard = h
        BY <3>1, <3>6 DEF h
      <4>5. Says(m, u, host'.truth.heard, host'.truth.sent)
        BY <3>3, <4>2, <4>3, <4>4
      <4> QED BY <1>4, <2>3, <4>5 DEF m, u
    <3>7. CASE ~heard
      <4>1. /\ host'.truth.heard = host.truth.heard /\ m.lines = l.lines /\ m.seen = l.seen
            /\ m.fails = l.fails
        BY <3>1, <3>4, <3>5, <3>7
      <4>2. Says(m, u, host'.truth.heard, host'.truth.sent)
        BY <1>3, <3>3, <4>1
      <4> QED BY <1>4, <2>3, <4>2 DEF m, u
    <3> QED BY <3>6, <3>7
  <2> QED BY <1>1, <2>6, <2>7
<1> QED BY <1>5, <1>6, <1>7, <1>8, <1>9 DEF WithinPhase


----------------------------------------------------------------------------
(* What may happen to the receiver of a phase.                             *)

\* The receiver overflowed during this phase.
Overflown == host.truth.overflow

\* It is told something.
ByCommand ==
  LET out == Obey(Receiver, Lines, Command.do, Command.arg)
  IN /\ AtCommand /\ Target = Current.rx /\ Command.do \notin {"wait", "getRssi"}
     /\ Receiver' = out.b /\ Lines' = out.log
     /\ Heard' = Heard /\ Overflown' = Overflown
     /\ host'.pc = host.pc + 1 /\ host'.flaws = host.flaws

\* The script goes on without it, or what it is told gets lost.
ByNothing ==
  /\ AtCommand /\ Receiver' = Receiver /\ SameLines(Lines, Lines')
  /\ Heard' = Heard /\ Overflown' = Overflown /\ host'.pc = host.pc + 1
  /\ \/ host'.flaws = host.flaws \cup {Command.do}
     \/ /\ Target # Current.rx \/ Command.do \in {"wait", "getRssi"}
        /\ host'.flaws = host.flaws

\* It sends something itself.
BySending ==
  /\ SameRadio(Receiver, Receiver') /\ SenderLog(Lines, Lines')
  /\ Heard' = Heard /\ Overflown' = Overflown
  /\ host'.pc = host.pc /\ host'.flaws = host.flaws

\* The other board sends a packet.
ByPacket ==
  \E p \in Int, fate \in Fates :
    LET heard == Receiver.listening /\ fate = "heard"
    IN /\ Received(Receiver, Lines, p, fate, Receiver', Lines')
       /\ Heard' = IF heard THEN Append(Heard, p) ELSE Heard
       /\ Overflown' = (Overflown \/ (heard /\ Receiver.overflowing))
       /\ host'.pc = host.pc /\ host'.flaws = host.flaws

\* A board restarts.
ByRestart ==
  /\ Receiver' \in {Receiver, Fresh} /\ Lines' = Lines
  /\ Heard' = Heard /\ Overflown' = Overflown
  /\ host'.pc = host.pc /\ host'.flaws = host.flaws \cup {"restart"}

\* What is known of it at any time.
LEMMA ReceiverType ==
  ASSUME Types, Placed, Running
  PROVE  /\ Receiver \in BoardType /\ Lines \in LogType /\ Heard \in Seq(Int)
         /\ Overflown \in BOOLEAN /\ host.flaws \in SUBSET Flaws /\ host.pc \in Nat
         /\ host.pc \in 1 .. Len(Commands) + 1
<1>1. /\ host \in HostType /\ host.truth \in TruthType /\ Current.rx \in Boards
      /\ board \in [Boards -> BoardType]
  BY Situation DEF Types
<1>2. /\ Receiver \in BoardType /\ Lines \in LogType /\ Heard \in Seq(Int)
      /\ Overflown \in BOOLEAN /\ host.flaws \in SUBSET Flaws /\ host.pc \in Nat
  BY <1>1 DEF HostType, TruthType, Receiver, Lines, Heard, Overflown
<1> QED BY <1>2 DEF Placed, Running

\* That is all.
LEMMA ReceiverSteps ==
  ASSUME Types, Placed, WithinPhase
  PROVE  /\ InPhase /\ Current' = Current /\ Commands' = Commands /\ Running'
         /\ Receiver' \in BoardType /\ Lines' \in LogType
         /\ ByCommand \/ ByNothing \/ BySending \/ ByPacket \/ ByRestart
<1> DEFINE rx == Current.rx
           tx == Current.tx
           Same == /\ InPhase /\ host'.truth.heard = host.truth.heard
                   /\ host'.truth.overflow = host.truth.overflow
<1>1. /\ rx \in Boards /\ tx \in Boards /\ rx # tx /\ Boards = {rx, tx}
      /\ Peer(rx) = tx /\ Peer(tx) = rx /\ Running
      /\ board \in [Boards -> BoardType] /\ host.log \in [Boards -> LogType]
  BY Situation DEF WithinPhase, Types, HostType
<1>2. ASSUME InPhase
      PROVE  /\ Current' = Current /\ Receiver' = board'[rx] /\ Lines' = host'.log[rx]
  <2>1. Current' = Current
    BY <1>2, PhaseStays
  <2> QED BY <2>1 DEF Receiver, Lines
<1>3. ASSUME Execute PROVE InPhase /\ (ByCommand \/ ByNothing)
  <2>1. /\ Same /\ AtCommand /\ Command.do \notin {"wait", "getRssi"} /\ Target \in Boards
        /\ host'.pc = host.pc + 1 /\ host'.flaws = host.flaws
        /\ board' = [board EXCEPT ![Target] =
                       Obey(board[Target], host.log[Target], Command.do, Command.arg).b]
        /\ host'.log = [host.log EXCEPT ![Target] =
                         Obey(board[Target], host.log[Target], Command.do, Command.arg).log]
    BY <1>3, Instruction, ExecuteKeeps DEF Execute
  <2>2. Current' = Current /\ Receiver' = board'[rx] /\ Lines' = host'.log[rx]
    BY <1>2, <2>1
  <2>3. CASE Target = rx
    <3>1. /\ Receiver' = Obey(Receiver, Lines, Command.do, Command.arg).b
          /\ Lines' = Obey(Receiver, Lines, Command.do, Command.arg).log
      BY <1>1, <2>1, <2>2, <2>3 DEF Receiver, Lines
    <3>2. ByCommand
      BY <2>1, <2>3, <3>1 DEF ByCommand, Heard, Overflown
    <3> QED BY <2>1, <3>2
  <2>4. CASE Target # rx
    <3>1. Receiver' = Receiver /\ Lines' = Lines
      BY <1>1, <2>1, <2>2, <2>4 DEF Receiver, Lines
    <3>2. ByNothing
      BY <2>1, <2>4, <3>1 DEF ByNothing, Heard, Overflown, SameLines
    <3> QED BY <2>1, <3>2
  <2> QED BY <2>3, <2>4
<1>4. ASSUME ReadRssi PROVE InPhase /\ ByNothing
  <2>1. /\ AtCommand /\ Command.do = "getRssi" /\ Same /\ host'.pc = host.pc + 1
        /\ host'.flaws = host.flaws /\ board' = board /\ SameLines(host.log[rx], host'.log[rx])
    BY <1>4, ReadRssiKeeps
  <2> QED BY <1>2, <2>1 DEF ByNothing, Receiver, Lines, Heard, Overflown
<1>5. ASSUME Wait \/ LoseCommand PROVE InPhase /\ ByNothing
  <2>1. /\ AtCommand /\ Same /\ host'.pc = host.pc + 1 /\ host'.log = host.log
        /\ board' = board
        /\ \/ host'.flaws = host.flaws \cup {Command.do}
           \/ host'.flaws = host.flaws /\ Command.do = "wait"
    BY <1>5, SkipKeeps
  <2> QED BY <1>2, <2>1 DEF ByNothing, SameLines, Receiver, Lines, Heard, Overflown
<1>6. ASSUME NEW b \in Boards, Restart(b) PROVE InPhase /\ ByRestart
  <2>1. /\ Same /\ host'.pc = host.pc /\ host'.log = host.log
        /\ host'.flaws = host.flaws \cup {"restart"} /\ board' = [board EXCEPT ![b] = Fresh]
    BY <1>1, <1>6, RestartKeeps DEF Running
  <2>2. board'[rx] \in {board[rx], Fresh}
    BY <1>1, <2>1
  <2> QED BY <1>2, <2>1, <2>2 DEF ByRestart, Receiver, Lines, Heard, Overflown
<1>7. ASSUME NEW from \in Boards, SendNext(from) \/ AutoTx(from) \/ ScheduledAttempt(from)
      PROVE  InPhase /\ (BySending \/ ByPacket)
  <2>1. PICK p \in Int, fate \in Fates : \E m \in LogType : RadioStep(from, p, fate, m)
    BY <1>7, SenderStep
  <2>2. host # Idle /\ Log(Peer(from)) = host.log[Peer(from)] /\ Peer(from) \in Boards
    BY <1>1, TwoBoards DEF Running, Log
  <2> DEFINE to == Peer(from)
             heard == board[to].listening /\ fate = "heard"
  <2>3. /\ InPhase /\ SameRadio(board[from], board'[from])
        /\ SenderLog(host.log[from], host'.log[from])
        /\ Received(board[to], host.log[to], p, fate, board'[to], host'.log[to])
        /\ host'.pc = host.pc /\ host'.flaws = host.flaws
        /\ host'.truth.heard = IF heard /\ to = rx THEN Append(host.truth.heard, p)
                               ELSE host.truth.heard
        /\ host'.truth.overflow = (host.truth.overflow
             \/ (heard /\ to = rx /\ board[to].overflowing))
    BY <2>1, <2>2 DEF RadioStep
  <2>4. Current' = Current /\ Receiver' = board'[rx] /\ Lines' = host'.log[rx]
    BY <1>2, <2>3
  <2>5. CASE from = rx
    <3>1. host'.truth.heard = host.truth.heard /\ host'.truth.overflow = host.truth.overflow
      <4>1. to # rx /\ host.truth.overflow \in BOOLEAN
        BY <1>1, <2>5, ReceiverType DEF Overflown
      <4> QED BY <2>3, <4>1
    <3>2. SameRadio(Receiver, Receiver') /\ SenderLog(Lines, Lines')
      BY <2>3, <2>4, <2>5 DEF Receiver, Lines
    <3>3. BySending
      BY <2>3, <3>1, <3>2 DEF BySending, Heard, Overflown
    <3> QED BY <2>3, <3>3
  <2>6. CASE from = tx
    <3>1. /\ Received(Receiver, Lines, p, fate, Receiver', Lines')
          /\ Heard' = IF Receiver.listening /\ fate = "heard" THEN Append(Heard, p) ELSE Heard
          /\ Overflown' = (Overflown
               \/ (Receiver.listening /\ fate = "heard" /\ Receiver.overflowing))
          /\ host'.pc = host.pc /\ host'.flaws = host.flaws
      BY <1>1, <2>3, <2>4, <2>6 DEF Receiver, Lines, Heard, Overflown
    <3>2. ByPacket
      BY <3>1 DEF ByPacket
    <3> QED BY <2>3, <3>2
  <2> QED BY <1>1, <2>5, <2>6
<1>8. InPhase /\ (ByCommand \/ ByNothing \/ BySending \/ ByPacket \/ ByRestart)
  BY <1>3, <1>4, <1>5, <1>6, <1>7 DEF WithinPhase
<1>9. Receiver' \in BoardType /\ Lines' \in LogType
  <2>1. [Next]_vars
    BY DEF WithinPhase, Next
  <2>2. Types' /\ Placed'
    BY <2>1, TypesKept
  <2>3. Current' = Current /\ Current.rx \in Boards /\ host' \in HostType
    BY <1>1, <1>2, <1>8 DEF InPhase
  <2> QED BY <2>2, <2>3 DEF Types, HostType, Receiver, Lines
<1> QED BY <1>8, <1>9, PhaseStays


----------------------------------------------------------------------------
(* Radio counters that were cleared.                                       *)

\* No resetCounters of this phase was lost.
Cleared == Running /\ "resetCounters" \notin host.flaws

\* Once they were, the counters of a receiver tell no more than was heard; one
\* that overflows counts nothing else.
CountersInv ==
  Cleared /\ Current.kind \in {"check", "direction"} =>
    /\ host.pc > 3 => /\ Receiver.count <= Len(Heard)
                      /\ Receiver.overflowing => Receiver.count = 0
                      /\ ~Receiver.overflowing => Receiver.overflow = 0
    /\ Lines.status # None =>
         /\ Lines.status.count <= Len(Heard)
         /\ Lines.status.overflow = 0 \/ Lines.status.count = 0

\* So does the counter of overflows.
OverflowInv ==
  Cleared /\ Current.kind = "overflow" =>
    /\ host.pc > 3 /\ Receiver.overflow > 0 => Overflown
    /\ Lines.overflow > 0 => Overflown

\* Where the commands of a script are.
Without(s, dos) == \A k \in 1 .. Len(s) : s[k].do \notin dos
Leads(s, u) == Len(s) <= Len(u) /\ \A k \in 1 .. Len(s) : u[k] = s[k]

\* What has none of some commands has none of them together.
LEMMA WithoutTogether ==
  ASSUME NEW s \in Seq(CommandType), NEW t \in Seq(CommandType), NEW dos,
         Without(s, dos), Without(t, dos)
  PROVE  s \o t \in Seq(CommandType) /\ Without(s \o t, dos)
<1>1. s \o t \in Seq(CommandType)
  BY Concatenation
<1>2. ASSUME NEW k \in 1 .. Len(s \o t) PROVE (s \o t)[k].do \notin dos
  <2>1. /\ Len(s) \in Nat /\ Len(t) \in Nat /\ Len(s \o t) = Len(s) + Len(t)
    BY Indices
  <2>2. CASE k <= Len(s)
    <3>1. k \in 1 .. Len(s) /\ (s \o t)[k] = s[k]
      BY <2>1, <2>2, Indices
    <3> QED BY <3>1 DEF Without
  <2>3. CASE ~(k <= Len(s))
    <3>1. k - Len(s) \in 1 .. Len(t) /\ Len(s) + (k - Len(s)) = k
      BY <2>1, <2>3
    <3>2. (s \o t)[k] = t[k - Len(s)]
      BY <3>1, Indices
    <3> QED BY <3>1, <3>2 DEF Without
  <2> QED BY <2>2, <2>3
<1> QED BY <1>1, <1>2 DEF Without

\* What leads a script leads a longer one.
LEMMA LeadsOn ==
  ASSUME NEW s \in Seq(CommandType), NEW u \in Seq(CommandType), NEW t \in Seq(CommandType),
         Leads(s, u)
  PROVE  u \o t \in Seq(CommandType) /\ Leads(s, u \o t)
<1>1. /\ u \o t \in Seq(CommandType) /\ Len(u \o t) = Len(u) + Len(t)
      /\ Len(s) \in Nat /\ Len(u) \in Nat /\ Len(t) \in Nat
  BY Concatenation, Indices
<1>2. ASSUME NEW k \in 1 .. Len(s) PROVE (u \o t)[k] = s[k]
  <2>1. k \in 1 .. Len(u)
    BY <1>1, <1>2 DEF Leads
  <2>2. (u \o t)[k] = u[k]
    BY <2>1, Indices
  <2> QED BY <2>2 DEF Leads
<1> QED BY <1>1, <1>2 DEF Leads

\* A command that is not in what leads a script comes after it.
LEMMA AfterLead ==
  ASSUME NEW s \in Seq(CommandType), NEW u \in Seq(CommandType), NEW dos,
         Leads(s, u), Without(s, dos), NEW k \in 1 .. Len(u), u[k].do \in dos
  PROVE  k > Len(s)
<1>1. Len(s) \in Nat /\ Len(u) \in Nat
  OBVIOUS
<1>2. CASE k <= Len(s)
  <2>1. k \in 1 .. Len(s)
    BY <1>1, <1>2
  <2> QED BY <2>1 DEF Leads, Without
<1> QED BY <1>1, <1>2

\* The radios are stopped and the receiver's counters cleared first.
LEMMA ClearedFirst ==
  ASSUME NEW s \in Seq(CommandType), Len(s) >= 1, s[1] = Step("rx", "resetCounters", 0),
         Without(s, {"status"})
  PROVE  LET h == Both("rx", FALSE) \o s
         IN /\ h \in Seq(CommandType) /\ Len(h) >= 3 /\ Without(h, {"status"})
            /\ h[3] = Step("rx", "resetCounters", 0) /\ Leads(h, h)
<1> DEFINE p == <<Step("rx", "rx", FALSE), Step("tx", "rx", FALSE)>>
<1>1. Both("rx", FALSE) = p /\ p \in Seq(CommandType) /\ Len(p) = 2
  BY DEF Both, Step, CommandType
<1>2. Without(p, {"status"})
  BY DEF Without, Step
<1> HIDE DEF p
<1>3. p \o s \in Seq(CommandType) /\ Without(p \o s, {"status"})
  BY <1>1, <1>2, WithoutTogether
<1>4. Len(p \o s) = 2 + Len(s) /\ 1 \in 1 .. Len(s) /\ (p \o s)[2 + 1] = s[1]
  BY <1>1, Indices
<1>5. Len(p \o s) >= 3 /\ (p \o s)[3] = s[1] /\ Len(p \o s) \in Nat
  BY <1>4
<1>6. Leads(p \o s, p \o s)
  BY <1>5 DEF Leads
<1> QED BY <1>1, <1>3, <1>5, <1>6

\* These scripts clear the receiver's counters before they ask for them.
LEMMA CountersAreCleared ==
  ASSUME NEW kind \in {"check", "direction", "overflow"}
  PROVE  /\ Script(kind)[3] = Step("rx", "resetCounters", 0)
         /\ \A k \in 1 .. Len(Script(kind)) :
              /\ Script(kind)[k].do = "status" => k > 3
              /\ kind # "overflow" => Script(kind)[k].do # "setRxOverflow"
<1> DEFINE Goal(u) ==
             /\ u[3] = Step("rx", "resetCounters", 0)
             /\ \A k \in 1 .. Len(u) : u[k].do = "status" => k > 3
<1>1. ASSUME NEW h \in Seq(CommandType), NEW u \in Seq(CommandType), Len(h) >= 3,
             Without(h, {"status"}), h[3] = Step("rx", "resetCounters", 0), Leads(h, u)
      PROVE  Goal(u)
  <2>1. Len(h) \in Nat /\ 3 \in 1 .. Len(h)
    BY <1>1
  <2>2. u[3] = h[3]
    BY <1>1, <2>1 DEF Leads
  <2>3. ASSUME NEW k \in 1 .. Len(u), u[k].do = "status" PROVE k > 3
    <3>1. k > Len(h)
      BY <1>1, <2>3, AfterLead
    <3> QED BY <1>1, <2>1, <3>1
  <2> QED BY <1>1, <2>2, <2>3
<1>2. CASE kind \in {"check", "direction"}
  <2> DEFINE p == <<Step("rx", "rx", FALSE), Step("tx", "rx", FALSE)>>
             s == <<Step("rx", "resetCounters", 0), Step("rx", "rx", TRUE),
                    Step("tx", "resetCounters", 0)>>
             p3 == <<Step("tx", "load", Vendor), Step("tx", "send", Packets)>>
             p4 == <<Step("rx", "status", 0), Step("tx", "status", 0)>>
             p5 == <<Step("rx", "rx", FALSE)>>
             h == Both("rx", FALSE) \o s
  <2>1. /\ p \in Seq(CommandType) /\ s \in Seq(CommandType) /\ p3 \in Seq(CommandType)
        /\ p4 \in Seq(CommandType) /\ p5 \in Seq(CommandType)
        /\ Len(s) >= 1 /\ s[1] = Step("rx", "resetCounters", 0)
    BY BenchAssumption DEF Step, CommandType, Vendor
  <2>2. Script(kind) = h \o p3 \o p4 \o p5 /\ h = p \o s
    BY <1>2 DEF Script, PairSmoke, SendVendor, Both
  <2>3. /\ Without(s, {"status"}) /\ Without(p, {"setRxOverflow"})
        /\ Without(s, {"setRxOverflow"}) /\ Without(p3, {"setRxOverflow"})
        /\ Without(p4, {"setRxOverflow"}) /\ Without(p5, {"setRxOverflow"})
    BY DEF Without, Step
  <2> HIDE DEF p, s, p3, p4, p5
  <2>4. /\ h \in Seq(CommandType) /\ Len(h) >= 3 /\ Without(h, {"status"})
        /\ h[3] = Step("rx", "resetCounters", 0) /\ Leads(h, h)
    BY <2>1, <2>3, ClearedFirst
  <2>5. Without(h, {"setRxOverflow"})
    BY <2>1, <2>2, <2>3, WithoutTogether
  <2> HIDE DEF h
  <2>6. /\ h \o p3 \in Seq(CommandType) /\ Leads(h, h \o p3)
        /\ Without(h \o p3, {"setRxOverflow"})
    BY <2>1, <2>3, <2>4, <2>5, LeadsOn, WithoutTogether
  <2>7. /\ h \o p3 \o p4 \in Seq(CommandType) /\ Leads(h, h \o p3 \o p4)
        /\ Without(h \o p3 \o p4, {"setRxOverflow"})
    BY <2>1, <2>3, <2>4, <2>6, LeadsOn, WithoutTogether
  <2>8. /\ Script(kind) \in Seq(CommandType) /\ Leads(h, Script(kind))
        /\ Without(Script(kind), {"setRxOverflow"})
    <3> DEFINE u == h \o p3 \o p4
    <3>1. u \in Seq(CommandType) /\ Leads(h, u) /\ Without(u, {"setRxOverflow"})
      BY <2>7
    <3> HIDE DEF u
    <3>2. /\ u \o p5 \in Seq(CommandType) /\ Leads(h, u \o p5)
          /\ Without(u \o p5, {"setRxOverflow"})
      BY <2>1, <2>3, <2>4, <3>1, LeadsOn, WithoutTogether
    <3> QED BY <2>2, <3>2 DEF u
  <2>9. Goal(Script(kind))
    BY <1>1, <2>4, <2>8
  <2> QED BY <2>8, <2>9 DEF Without
<1>3. CASE kind = "overflow"
  <2> DEFINE s == <<Step("rx", "resetCounters", 0), Step("rx", "setRxOverflow", TRUE),
                    Step("rx", "rx", TRUE), Step("tx", "resetCounters", 0)>>
             p3 == <<Step("tx", "load", Vendor), Step("tx", "send", 1)>>
             p4 == <<Step("rx", "status", 0), Step("rx", "setRxOverflow", FALSE),
                     Step("rx", "rx", FALSE), Step("rx", "status", 0), Step("tx", "rx", FALSE),
                     Step("tx", "status", 0), Step("tx", "reset", 0), Step("rx", "reset", 0)>>
             h == Both("rx", FALSE) \o s
  <2>1. /\ s \in Seq(CommandType) /\ p3 \in Seq(CommandType) /\ p4 \in Seq(CommandType)
        /\ Len(s) >= 1 /\ s[1] = Step("rx", "resetCounters", 0)
    BY DEF Step, CommandType, Vendor
  <2>2. Script(kind) = h \o p3 \o p4
    <3>1. Overflow = Both("rx", FALSE) \o s \o p3 \o p4
      BY DEF Overflow, SendVendor
    <3> QED BY <1>3, <3>1 DEF Script
  <2>3. Without(s, {"status"})
    BY DEF Without, Step
  <2> HIDE DEF s, p3, p4
  <2>4. /\ h \in Seq(CommandType) /\ Len(h) >= 3 /\ Without(h, {"status"})
        /\ h[3] = Step("rx", "resetCounters", 0) /\ Leads(h, h)
    BY <2>1, <2>3, ClearedFirst
  <2> HIDE DEF h
  <2>5. h \o p3 \in Seq(CommandType) /\ Leads(h, h \o p3)
    BY <2>1, <2>4, LeadsOn
  <2>6. Script(kind) \in Seq(CommandType) /\ Leads(h, Script(kind))
    BY <2>1, <2>2, <2>4, <2>5, LeadsOn
  <2>7. Goal(Script(kind))
    BY <1>1, <2>4, <2>6
  <2> QED BY <1>3, <2>7
<1> QED BY <1>2, <1>3

\* A command that does not clear them leaves the counters alone.
LEMMA ObeyCounts ==
  ASSUME NEW b \in BoardType, NEW log \in LogType,
         NEW c \in CommandType \cup PowerCommand, c.do \notin {"wait", "getRssi"}
  PROVE  LET r == Obey(b, log, c.do, c.arg)
         IN /\ \/ /\ r.b.count = b.count /\ r.b.overflow = b.overflow
                  /\ c.do # "setRxOverflow" => r.b.overflowing = b.overflowing
                  /\ c.do # "resetCounters"
               \/ r.b.count = 0 /\ r.b.overflow = 0
            /\ \/ r.log.status = log.status
               \/ c.do = "status" /\ r.log.status = StatusOf(b)
            /\ \/ r.log.overflow = log.overflow
               \/ c.do = "status" /\ r.log.overflow = b.overflow
<1>1. CASE c.do \notin {"role", "reset"}
  BY <1>1, ObeySimple
<1>2. CASE c.do \in {"role", "reset"}
  BY <1>2, ObeyRole, FreshFields, ZenonT(60)
<1> QED BY <1>1, <1>2


\* Nothing is claimed when a phase begins.
LEMMA CountersFresh ==
  ASSUME NewPhase
  PROVE  CountersInv' /\ OverflowInv'
<1>1. host'.log[Current'.rx] = Blank /\ host'.pc = 1
  BY DEF NewPhase
<1>2. Blank.status = None /\ Blank.overflow = 0
  BY BlankFields
<1>3. ~(host'.pc > 3) /\ ~(host'.log[Current'.rx].status # None)
      /\ ~(host'.log[Current'.rx].overflow > 0)
  BY <1>1, <1>2
<1> QED BY <1>3 DEF CountersInv, OverflowInv, Lines

\* What is known of the counters of a receiver stays true.
LEMMA CountersKept ==
  ASSUME Types, Placed, CountersInv, OverflowInv, WithinPhase
  PROVE  CountersInv' /\ OverflowInv'
<1> DEFINE b == Receiver
           c == Receiver'
           l == Lines
           m == Lines'
           kind == Current.kind
           Claim(d, heard) ==
             /\ d.count <= Len(heard)
             /\ d.overflowing => d.count = 0
             /\ ~d.overflowing => d.overflow = 0
           Read(s, heard) ==
             s # None => s.count <= Len(heard) /\ (s.overflow = 0 \/ s.count = 0)
<1>1. /\ Running /\ b \in BoardType /\ l \in LogType /\ Heard \in Seq(Int)
      /\ Overflown \in BOOLEAN /\ host.pc \in Nat /\ host.pc \in 1 .. Len(Commands) + 1
  BY ReceiverType DEF WithinPhase
<1>2. /\ Current' = Current /\ Running' /\ c \in BoardType /\ m \in LogType
      /\ ByCommand \/ ByNothing \/ BySending \/ ByPacket \/ ByRestart
  BY ReceiverSteps
<1>3. /\ b.count \in Nat /\ b.overflow \in {0, 1} /\ l.overflow \in {0, 1}
      /\ c.count \in Nat /\ c.overflow \in {0, 1} /\ m.overflow \in {0, 1}
      /\ b.overflowing \in BOOLEAN /\ c.overflowing \in BOOLEAN
  BY <1>1, <1>2 DEF BoardType, LogType
<1>4. CountersInv' <=>
        (Cleared' /\ kind \in {"check", "direction"} =>
           (host'.pc > 3 => Claim(c, Heard')) /\ Read(m.status, Heard'))
  BY <1>2 DEF CountersInv
<1>5. CountersInv <=>
        (Cleared /\ kind \in {"check", "direction"} =>
           (host.pc > 3 => Claim(b, Heard)) /\ Read(l.status, Heard))
  BY DEF CountersInv
<1>6. OverflowInv' <=>
        (Cleared' /\ kind = "overflow" =>
           /\ host'.pc > 3 /\ c.overflow > 0 => Overflown'
           /\ m.overflow > 0 => Overflown')
  BY <1>2 DEF OverflowInv
<1>7. OverflowInv <=>
        (Cleared /\ kind = "overflow" =>
           /\ host.pc > 3 /\ b.overflow > 0 => Overflown
           /\ l.overflow > 0 => Overflown)
  BY DEF OverflowInv
<1>8. ASSUME host'.flaws = host.flaws \/ \E f : host'.flaws = host.flaws \cup {f}
      PROVE  Cleared' => Cleared
  BY <1>1, <1>8 DEF Cleared
<1>9. ASSUME host'.pc = host.pc, host'.flaws = host.flaws,
             c.count = b.count, c.overflow = b.overflow, c.overflowing = b.overflowing,
             m.status = l.status, m.overflow = l.overflow, Heard' = Heard,
             Overflown' = Overflown
      PROVE  CountersInv' /\ OverflowInv'
  <2> HIDE DEF b, c, l, m, kind
  <2> QED BY <1>4, <1>5, <1>6, <1>7, <1>8, <1>9
<1>10. CASE BySending
  BY <1>9, <1>10 DEF BySending, SameRadio, SenderLog
<1>11. CASE ByRestart
  <2>1. /\ c \in {b, Fresh} /\ m = l /\ Heard' = Heard /\ Overflown' = Overflown
        /\ host'.pc = host.pc /\ host'.flaws = host.flaws \cup {"restart"}
    BY <1>11 DEF ByRestart
  <2>2. Fresh.count = 0 /\ Fresh.overflow = 0
    BY FreshFields
  <2>3. Cleared' => Cleared
    BY <1>8, <2>1
  <2> HIDE DEF b, c, l, m, kind
  <2>4. Len(Heard) \in Nat
    BY <1>1
  <2> QED BY <1>4, <1>5, <1>6, <1>7, <2>1, <2>2, <2>3, <2>4
<1>12. CASE ByPacket
  <2>1. PICK p \in Int, fate \in Fates :
          LET heard == b.listening /\ fate = "heard"
          IN /\ Received(b, l, p, fate, c, m)
             /\ Heard' = IF heard THEN Append(Heard, p) ELSE Heard
             /\ Overflown' = (Overflown \/ (heard /\ b.overflowing))
             /\ host'.pc = host.pc /\ host'.flaws = host.flaws
    BY <1>12 DEF ByPacket
  <2> DEFINE heard == b.listening /\ fate = "heard"
  <2>2. /\ c.count # b.count => c.count = b.count + 1 /\ heard /\ ~b.overflowing
        /\ c.overflow # b.overflow => c.overflow = 1 /\ c.count = b.count
                                      /\ heard /\ b.overflowing
        /\ m.status = l.status /\ m.overflow = l.overflow /\ c.overflowing = b.overflowing
    BY <2>1 DEF Received, Kept, KeptLog
  <2>3. /\ Len(Heard) \in Nat /\ Len(Heard') \in Nat /\ Len(Heard') >= Len(Heard)
        /\ heard => Len(Heard') = Len(Heard) + 1
    BY <1>1, <2>1
  <2>4. /\ Overflown => Overflown'
        /\ heard /\ b.overflowing => Overflown'
        /\ host'.pc = host.pc /\ (Cleared' => Cleared)
    BY <1>1, <1>8, <2>1
  <2> HIDE DEF b, c, l, m, kind, heard
  <2>5. Claim(b, Heard) => Claim(c, Heard')
    BY <1>3, <2>2, <2>3
  <2>6. Read(l.status, Heard) => Read(m.status, Heard')
    <3> SUFFICES ASSUME l.status # None, l.status.count <= Len(Heard)
                 PROVE  l.status.count <= Len(Heard')
      BY <2>2
    <3>1. l.status \in StatusType
      BY <1>1 DEF LogType, l
    <3>2. l.status.count \in Nat
      BY <3>1 DEF StatusType
    <3> QED BY <2>3, <3>2
  <2>7. CountersInv'
    BY <1>4, <1>5, <2>4, <2>5, <2>6
  <2>8. OverflowInv'
    BY <1>3, <1>6, <1>7, <2>2, <2>4
  <2> QED BY <2>7, <2>8
<1> DEFINE Counting3 == kind \in {"check", "direction", "overflow"}
<1>13. CASE ~Counting3
  BY <1>4, <1>6, <1>13
<1>14. ASSUME Counting3, AtCommand
       PROVE  /\ host.pc = 3 => Command = Step("rx", "resetCounters", 0)
              /\ Command.do = "status" => host.pc > 3
              /\ kind # "overflow" => Command.do # "setRxOverflow"
  <2>1. host.pc \in 1 .. Len(Commands)
    BY <1>14, Instruction
  <2> QED BY <1>14, <2>1, CountersAreCleared DEF Command, Commands
<1>15. ASSUME Counting3, ByNothing PROVE CountersInv' /\ OverflowInv'
  <2>1. /\ AtCommand /\ c = b /\ m.status = l.status /\ m.overflow = l.overflow
        /\ Heard' = Heard /\ Overflown' = Overflown /\ host'.pc = host.pc + 1
        /\ \/ host'.flaws = host.flaws \cup {Command.do}
           \/ /\ Target # Current.rx \/ Command.do \in {"wait", "getRssi"}
              /\ host'.flaws = host.flaws
    BY <1>15 DEF ByNothing, SameLines
  <2>2. Cleared' /\ host'.pc > 3 => host.pc > 3
    <3>1. SUFFICES ASSUME host.pc = 3, "resetCounters" \notin host'.flaws PROVE FALSE
      BY <1>1, <2>1 DEF Cleared
    <3>2. Command = Step("rx", "resetCounters", 0)
      BY <1>14, <1>15, <2>1, <3>1
    <3> QED BY <2>1, <3>1, <3>2 DEF Step, Target
  <2>3. Cleared' => Cleared
    BY <1>8, <2>1
  <2> HIDE DEF b, c, l, m, kind
  <2> QED BY <1>4, <1>5, <1>6, <1>7, <2>1, <2>2, <2>3
<1>16. ASSUME Counting3, ByCommand PROVE CountersInv' /\ OverflowInv'
  <2> DEFINE out == Obey(b, l, Command.do, Command.arg)
  <2>1. /\ AtCommand /\ Command.do \notin {"wait", "getRssi"} /\ c = out.b /\ m = out.log
        /\ Heard' = Heard /\ Overflown' = Overflown /\ host'.pc = host.pc + 1
        /\ host'.flaws = host.flaws
    BY <1>16 DEF ByCommand
  <2>2. Command \in CommandType \cup PowerCommand
    BY <2>1, Instruction
  <2>3. /\ \/ /\ c.count = b.count /\ c.overflow = b.overflow
              /\ Command.do # "setRxOverflow" => c.overflowing = b.overflowing
              /\ Command.do # "resetCounters"
           \/ c.count = 0 /\ c.overflow = 0
        /\ \/ m.status = l.status
           \/ Command.do = "status" /\ m.status = StatusOf(b)
        /\ \/ m.overflow = l.overflow
           \/ Command.do = "status" /\ m.overflow = b.overflow
    BY <1>1, <2>1, <2>2, ObeyCounts
  <2>4. StatusOf(b).count = b.count /\ StatusOf(b).overflow = b.overflow
    BY DEF StatusOf
  <2>5. Cleared' => Cleared
    BY <1>8, <2>1
  <2>6. host.pc = 3 => Command.do = "resetCounters"
    BY <1>14, <1>16, <2>1 DEF Step
  <2>7. /\ Command.do = "status" => host.pc > 3
        /\ kind # "overflow" => Command.do # "setRxOverflow"
    BY <1>14, <1>16, <2>1
  <2>8. Len(Heard) \in Nat
    BY <1>1
  <2> HIDE DEF b, c, l, m, kind, out
  <2>9. ASSUME Cleared', kind \in {"check", "direction"}
        PROVE  (host'.pc > 3 => Claim(c, Heard)) /\ Read(m.status, Heard)
    <3>1. Read(l.status, Heard) /\ (host.pc > 3 => Claim(b, Heard))
      BY <1>5, <2>5, <2>9
    <3>2. Command.do # "setRxOverflow"
      BY <2>7, <2>9
    <3>3. host'.pc > 3 => Claim(c, Heard)
      BY <1>1, <2>1, <2>3, <2>6, <2>8, <3>1, <3>2
    <3>4. Read(m.status, Heard)
      <4>1. CASE m.status = l.status
        BY <3>1, <4>1
      <4>2. CASE Command.do = "status" /\ m.status = StatusOf(b)
        <5>1. Claim(b, Heard)
          BY <2>7, <3>1, <4>2
        <5> QED BY <1>3, <2>4, <4>2, <5>1
      <4> QED BY <2>3, <4>1, <4>2
    <3> QED BY <3>3, <3>4
  <2>10. ASSUME Cleared', kind = "overflow"
         PROVE  /\ host'.pc > 3 /\ c.overflow > 0 => Overflown
                /\ m.overflow > 0 => Overflown
    <3>1. /\ host.pc > 3 /\ b.overflow > 0 => Overflown
          /\ l.overflow > 0 => Overflown
      BY <1>7, <2>5, <2>10
    <3> QED BY <1>1, <1>3, <2>1, <2>3, <2>6, <2>7, <3>1
  <2> QED BY <1>4, <1>6, <2>1, <2>9, <2>10
<1> QED BY <1>2, <1>10, <1>11, <1>12, <1>13, <1>15, <1>16


----------------------------------------------------------------------------
(* Packets that were counted.                                              *)

\* A receiver counts from zero: it had no role when the phase began, or its
\* memory was read, which ends the role, before.
Counting ==
  \/ Current.kind \in {"autorole", "pressure", "malformed"} /\ "roleLeft" \notin host.flaws
  \/ Current.kind = "watermark" /\ Lines.mem # <<>>

\* Its count is of packets heard; without a gap and a fault, of the last ones, in a row.
Counted(b, heard) ==
  /\ b.overflowing => b.rx = 0
  /\ b.rx <= Cardinality(Proper(heard))
  /\ b.gaps = 0 /\ b.faults = 0 =>
       /\ b.rx <= Len(heard)
       /\ \A i \in 1 .. b.rx : heard[Len(heard) - b.rx + i] = b.next - 1 - b.rx + i

\* A report was true of what was heard.
Reported(marker, heard) ==
  /\ marker.rx <= Cardinality(Proper(heard))
  /\ marker.gaps = 0 /\ marker.faults = 0 => Row(marker.rx, marker.sequence, heard)
Remembered(m, heard) ==
  m.gaps = 0 /\ m.faults = 0 => \E last \in Int : Row(m.rx, last, heard)

\* What the counters of a receiver and its lines say was heard.
CountingInv ==
  Running /\ Counting =>
    /\ Counted(Receiver, Heard)
    /\ Current.kind # "watermark" /\ Lines.marker # None => Reported(Lines.marker, Heard)
    /\ Len(Lines.mem) >= 2 => Remembered(Last(Lines.mem), Heard)

\* A count of zero claims nothing.
LEMMA NothingCounted ==
  ASSUME NEW b \in BoardType, NEW heard \in Seq(Int), b.rx = 0
  PROVE  Counted(b, heard)
<1>1. Cardinality(Proper(heard)) \in Nat /\ Len(heard) \in Nat
  BY ProperBound
<1>2. \A i \in 1 .. b.rx : FALSE
  OBVIOUS
<1> QED BY <1>1, <1>2 DEF Counted

\* What is counted without a gap is a row.
LEMMA CountedRow ==
  ASSUME NEW b \in BoardType, NEW heard \in Seq(Int), Counted(b, heard),
         b.gaps = 0, b.faults = 0
  PROVE  Row(b.rx, b.next - 1, heard)
<1>1. b.rx \in Nat /\ b.next \in Nat /\ Len(heard) \in Nat
  BY DEF BoardType
<1> DEFINE k == Len(heard) - b.rx
<1>2. k \in 0 .. Len(heard) - b.rx
  BY <1>1 DEF Counted
<1>3. \A i \in 1 .. b.rx : heard[k + i] = b.next - 1 - b.rx + i
  BY DEF Counted
<1> QED BY <1>2, <1>3 DEF Row

\* One packet more moves the number of each of the packets before it by none.
LEMMA SameAgain ==
  ASSUME NEW x \in Nat, NEW r \in Nat, NEW i \in 1 .. r
  PROVE  (x + 1) - 1 - (r + 1) + i = x - 1 - r + i
OBVIOUS

\* A packet heard is counted, or there is a fault, or nothing is counted.
LEMMA CountedOn ==
  ASSUME NEW b \in BoardType, NEW c \in BoardType, NEW l, NEW m, NEW heard \in Seq(Int),
         NEW p \in Int, NEW fate \in Fates, Received(b, l, p, fate, c, m),
         b.listening, fate = "heard", ClearOutside(b), Counted(b, heard)
  PROVE  /\ Counted(c, Append(heard, p))
         /\ m.marker # l.marker =>
              m.marker = [rx |-> c.rx, sequence |-> c.next - 1, gaps |-> c.gaps,
                          faults |-> c.faults]
<1> DEFINE h == Append(heard, p)
<1>1. /\ b.rx \in Nat /\ b.next \in Nat /\ b.gaps \in Nat /\ b.faults \in Nat
      /\ c.rx \in Nat /\ c.next \in Nat /\ c.gaps \in Nat /\ c.faults \in Nat
      /\ Len(heard) \in Nat
  BY DEF BoardType
<1>2. /\ h \in Seq(Int) /\ Len(h) = Len(heard) + 1 /\ h[Len(heard) + 1] = p
      /\ \A i \in 1 .. Len(heard) : h[i] = heard[i]
      /\ Cardinality(Proper(heard)) \in Nat
      /\ Cardinality(Proper(h)) = IF p < 1 THEN Cardinality(Proper(heard))
                                  ELSE Cardinality(Proper(heard)) + 1
  BY OneMore, ProperBound
<1> HIDE DEF h
<1>3. c.overflowing = b.overflowing
  BY DEF Received, Kept
<1>4. CASE b.role # "rx" \/ b.overflowing
  <2>1. c.rx = b.rx /\ m.marker = l.marker
    BY <1>4 DEF Received, Untouched
  <2>2. b.rx = 0
    BY <1>4 DEF ClearOutside, Counted
  <2> QED BY <1>2, <2>1, <2>2, NothingCounted DEF h
<1>5. CASE b.role = "rx" /\ ~b.overflowing
  <2>1. Accepted(b, l, p, c, m)
    BY <1>5 DEF Received
  <2>2. CASE p < 1
    <3>1. c.rx = b.rx /\ c.faults = b.faults + 1 /\ m.marker = l.marker
      BY <2>1, <2>2 DEF Accepted
    <3>2. c.faults # 0 /\ c.rx <= Cardinality(Proper(h))
      BY <1>1, <1>2, <3>1 DEF Counted
    <3> QED BY <1>3, <1>5, <3>1, <3>2 DEF Counted, h
  <2>3. CASE ~(p < 1)
    <3>1. /\ c.rx = b.rx + 1 /\ c.next = p + 1 /\ c.faults = b.faults
          /\ c.gaps = IF b.next # 0 /\ p # b.next THEN b.gaps + 1 ELSE b.gaps
          /\ m.marker \in {l.marker, [rx |-> c.rx, sequence |-> p, gaps |-> c.gaps,
                                      faults |-> c.faults]}
      BY <2>1, <2>3 DEF Accepted
    <3>2. c.rx <= Cardinality(Proper(h))
      BY <1>1, <1>2, <2>3, <3>1 DEF Counted
    <3>3. ASSUME c.gaps = 0, c.faults = 0
          PROVE  /\ c.rx <= Len(h)
                 /\ \A i \in 1 .. c.rx : h[Len(h) - c.rx + i] = c.next - 1 - c.rx + i
      <4>1. b.gaps = 0 /\ b.faults = 0 /\ (b.next = 0 \/ p = b.next)
        BY <1>1, <3>1, <3>3
      <4>2. /\ b.rx <= Len(heard)
            /\ \A i \in 1 .. b.rx : heard[Len(heard) - b.rx + i] = b.next - 1 - b.rx + i
        BY <4>1 DEF Counted
      <4>3. b.next = 0 => b.rx = 0
        BY DEF ClearOutside
      <4>4. /\ c.rx <= Len(h)
            /\ \A i \in 1 .. c.rx : i # c.rx =>
                 /\ i \in 1 .. b.rx /\ Len(heard) - b.rx + i \in 1 .. Len(heard)
                 /\ Len(h) - c.rx + i = Len(heard) - b.rx + i
        <5> DEFINE n == Len(heard)
                   k == Len(h)
                   r == b.rx
                   t == c.rx
        <5>1. /\ n \in Nat /\ k \in Nat /\ r \in Nat /\ t \in Nat
              /\ k = n + 1 /\ t = r + 1 /\ r <= n
          BY <1>1, <1>2, <3>1, <4>2
        <5> HIDE DEF n, k, r, t
        <5>2. t <= k
          BY <5>1
        <5>3. \A i \in 1 .. t : i # t =>
                i \in 1 .. r /\ n - r + i \in 1 .. n /\ k - t + i = n - r + i
          BY <5>1
        <5> QED BY <5>2, <5>3 DEF n, k, r, t
      <4>5. ASSUME NEW i \in 1 .. c.rx
            PROVE  h[Len(h) - c.rx + i] = c.next - 1 - c.rx + i
        <5>1. CASE i = c.rx
          <6>1. Len(h) - c.rx + i = Len(heard) + 1 /\ c.next - 1 - c.rx + i = p
            BY <1>1, <1>2, <3>1, <5>1, SMTT(90)
          <6> QED BY <1>2, <6>1
        <5>2. CASE i # c.rx
          <6>1. /\ i \in 1 .. b.rx /\ Len(heard) - b.rx + i \in 1 .. Len(heard)
                /\ Len(h) - c.rx + i = Len(heard) - b.rx + i
            BY <4>4, <5>2
          <6>2. p = b.next
            BY <1>1, <4>1, <4>3, <6>1, SMTT(90)
          <6>3. c.next - 1 - c.rx + i = b.next - 1 - b.rx + i
            <7>1. c.next = b.next + 1
              BY <3>1, <6>2
            <7>2. c.rx = b.rx + 1
              BY <3>1
            <7>3. b.next \in Nat /\ b.rx \in Nat /\ i \in 1 .. b.rx
              BY <1>1, <6>1
            <7>4. (b.next + 1) - 1 - (b.rx + 1) + i = b.next - 1 - b.rx + i
              BY <7>3, SameAgain, Zenon
            <7> QED BY <7>1, <7>2, <7>4, Zenon
          <6>4. h[Len(heard) - b.rx + i] = heard[Len(heard) - b.rx + i]
            BY <1>2, <6>1
          <6> QED BY <4>2, <6>1, <6>3, <6>4
        <5> QED BY <5>1, <5>2
      <4> QED BY <4>4, <4>5
    <3>4. c.next - 1 = p
      BY <3>1
    <3> QED BY <1>3, <1>5, <3>1, <3>2, <3>3, <3>4 DEF Counted, h
  <2> QED BY <2>2, <2>3
<1> QED BY <1>4, <1>5

\* A report stays true when more is heard.
LEMMA ReportStays ==
  ASSUME NEW heard \in Seq(Int), NEW p \in Int
  PROVE  /\ \A m \in MarkerType : Reported(m, heard) => Reported(m, Append(heard, p))
         /\ \A m \in [rx : Nat, gaps : Nat, faults : Nat] :
              Remembered(m, heard) => Remembered(m, Append(heard, p))
<1>1. /\ Cardinality(Proper(heard)) \in Nat
      /\ Cardinality(Proper(Append(heard, p))) \in Nat
      /\ Cardinality(Proper(Append(heard, p))) >= Cardinality(Proper(heard))
  BY OneMore, ProperBound
<1>2. ASSUME NEW m \in MarkerType, Reported(m, heard)
      PROVE  Reported(m, Append(heard, p))
  <2>1. m.rx \in Nat /\ m.sequence \in Int
    BY DEF MarkerType
  <2>2. m.rx <= Cardinality(Proper(Append(heard, p)))
    BY <1>1, <1>2, <2>1 DEF Reported
  <2> QED BY <1>2, <2>1, <2>2, RowStays DEF Reported
<1>3. ASSUME NEW m \in [rx : Nat, gaps : Nat, faults : Nat], Remembered(m, heard)
      PROVE  Remembered(m, Append(heard, p))
  <2>1. m.rx \in Nat
    OBVIOUS
  <2> QED BY <1>3, <2>1, RowStays DEF Remembered
<1> QED BY <1>2, <1>3

\* A command starts the count anew or leaves it.
LEMMA ObeyRow ==
  ASSUME NEW b \in BoardType, NEW log \in LogType,
         NEW c \in CommandType \cup PowerCommand,
         c.do \notin {"wait", "getRssi", "setRxOverflow"}
  PROVE  LET r == Obey(b, log, c.do, c.arg)
         IN /\ \/ /\ r.b.rx = b.rx /\ r.b.gaps = b.gaps /\ r.b.faults = b.faults
                  /\ r.b.next = b.next /\ r.b.overflowing = b.overflowing
               \/ r.b.rx = 0
            /\ \/ r.log.mem = log.mem
               \/ /\ r.b.rx = 0
                  /\ r.log.mem = Append(log.mem, [rx |-> b.rx, gaps |-> b.gaps,
                                                  faults |-> b.faults])
<1> DEFINE r == Obey(b, log, c.do, c.arg)
<1>1. CASE c.do \notin {"role", "reset"}
  <2>1. c.do \notin {"wait", "getRssi", "role", "reset"} /\ c.do # "setRxOverflow"
    BY <1>1
  <2>2. /\ r.b.rx = b.rx /\ r.b.gaps = b.gaps /\ r.b.faults = b.faults
        /\ r.b.next = b.next /\ r.b.overflowing = b.overflowing /\ r.log.mem = log.mem
    BY <2>1, ObeySimple
  <2> QED BY <2>2
<1>0. ASSUME c.do \in {"role", "reset"}
      PROVE  /\ c.do = "reset" => r.b = Fresh
             /\ c.do = "role" /\ c.arg # "mem" => r.b = SetRole(b, c.arg) /\ c.arg \in Roles
             /\ c.do = "role" /\ c.arg = "mem" => r.b.rx = 0
             /\ r.log.mem = IF c.do = "role" /\ c.arg = "mem"
                            THEN Append(log.mem, [rx |-> b.rx, gaps |-> b.gaps,
                                                  faults |-> b.faults])
                            ELSE log.mem
  BY <1>0, ObeyRole
<1>2. CASE c.do = "reset"
  <2>1. r.b.rx = 0 /\ r.log.mem = log.mem
    BY <1>0, <1>2, FreshFields
  <2> QED BY <2>1
<1>3. CASE c.do = "role" /\ c.arg = "mem"
  <2>1. /\ r.b.rx = 0
        /\ r.log.mem = Append(log.mem, [rx |-> b.rx, gaps |-> b.gaps, faults |-> b.faults])
    BY <1>0, <1>3
  <2> QED BY <2>1
<1>4. CASE c.do = "role" /\ c.arg # "mem"
  <2>1. r.b = SetRole(b, c.arg) /\ c.arg \in Roles /\ r.log.mem = log.mem
    BY <1>0, <1>4
  <2>2. \/ SetRole(b, c.arg) = b
        \/ SetRole(b, c.arg).rx = 0
    BY <2>1, SetRoleKeeps
  <2> HIDE DEF r
  <2>3. \/ r.b = b
        \/ r.b.rx = 0
    BY <2>1, <2>2
  <2> QED BY <2>1, <2>3 DEF r
<1> QED BY <1>1, <1>2, <1>3, <1>4


\* None of the scripts that count packets makes the receiver overflow.
LEMMA CountingScripts ==
  ASSUME NEW kind \in {"autorole", "pressure", "malformed", "watermark"}
  PROVE  Without(Script(kind), {"setRxOverflow"})
<1> DEFINE dos == {"setRxOverflow"}
           Fine(s) == s \in Seq(CommandType) /\ Without(s, dos)
           pair(do, arg) == <<Step("rx", do, arg), Step("tx", do, arg)>>
           role == <<Step("rx", "role", "rx")>>
           idle == <<Step("rx", "role", "idle")>>
           mem == <<Step("rx", "role", "mem")>>
           auto == <<Step("rx", "role", "rx"), Step("tx", "role", "tx"), Step("tx", "wait", 0)>>
<1>1. ASSUME NEW s, NEW t, Fine(s), Fine(t) PROVE Fine(s \o t)
  BY <1>1, WithoutTogether
<1>2. /\ Fine(pair("rx", FALSE)) /\ Fine(pair("resetCounters", 0)) /\ Fine(pair("status", 0))
      /\ Fine(pair("role", "idle"))
  BY DEF Step, CommandType, Roles, Without
<1>3. Fine(role) /\ Fine(idle) /\ Fine(mem) /\ Fine(auto) /\ Fine(<<>>)
  BY DEF Step, CommandType, Roles, Without
<1>4. \A do, arg : Both(do, arg) = pair(do, arg)
  BY DEF Both
<1>5. ASSUME NEW packets \in Seq(Int) PROVE Fine(SendEach(packets))
  <2>1. SendEach(packets) \in Seq(CommandType) /\ Harmless(SendEach(packets))
    BY SendEachTidy
  <2>2. ASSUME NEW k \in 1 .. Len(SendEach(packets))
        PROVE  SendEach(packets)[k].do \notin dos
    <3>1. SendEach(packets)[k] \in CommandType /\ ~Dirties(SendEach(packets)[k])
      BY <2>1, <2>2 DEF Harmless
    <3>2. k \in 1 .. 2 * Len(packets)
      BY <2>2 DEF SendEach
    <3>3. SendEach(packets)[k] \in {Step("tx", "load", packets[(k + 1) \div 2]),
                                    Step("tx", "send", 1)}
      BY <3>2 DEF SendEach
    <3> QED BY <3>3 DEF Step
  <2> QED BY <2>1, <2>2 DEF Without
<1>6. Fine(SendAll) /\ Fine(SendMalformed)
  <2>1. /\ [i \in 1 .. Packets |-> i] \in Seq(Int)
        /\ [i \in 1 .. Injected |-> Malformed] \in Seq(Int)
    BY BenchAssumption DEF Malformed
  <2> QED BY <1>5, <2>1 DEF SendAll, SendMalformed
<1> HIDE DEF Fine, role, idle, mem, auto
<1>7. ASSUME NEW before, NEW packets, NEW after, Fine(before), Fine(packets), Fine(after)
      PROVE  Fine(Inject(before, packets, after))
  <2>1. Inject(before, packets, after)
          = Both("rx", FALSE) \o Both("resetCounters", 0) \o before \o role \o packets \o after
    BY DEF Inject, role
  <2>2. Fine(Both("rx", FALSE)) /\ Fine(Both("resetCounters", 0))
    BY <1>2, <1>4
  <2>3. Fine(Both("rx", FALSE) \o Both("resetCounters", 0))
    BY <1>1, <2>2
  <2>4. Fine(Both("rx", FALSE) \o Both("resetCounters", 0) \o before)
    BY <1>1, <1>7, <2>3
  <2>5. Fine(Both("rx", FALSE) \o Both("resetCounters", 0) \o before \o role)
    BY <1>1, <1>3, <2>4
  <2>6. Fine(Both("rx", FALSE) \o Both("resetCounters", 0) \o before \o role \o packets)
    BY <1>1, <1>7, <2>5
  <2> QED BY <1>1, <1>7, <2>1, <2>6
<1>8. CASE kind = "autorole"
  <2>1. AutoRole = Both("rx", FALSE) \o Both("resetCounters", 0) \o auto
                   \o Both("role", "idle") \o Both("status", 0)
    BY DEF AutoRole, auto
  <2>2. /\ Fine(Both("rx", FALSE)) /\ Fine(Both("resetCounters", 0))
        /\ Fine(Both("role", "idle")) /\ Fine(Both("status", 0))
    BY <1>2, <1>4
  <2>3. Fine(Both("rx", FALSE) \o Both("resetCounters", 0))
    BY <1>1, <2>2
  <2>4. Fine(Both("rx", FALSE) \o Both("resetCounters", 0) \o auto)
    BY <1>1, <1>3, <2>3
  <2>5. Fine(Both("rx", FALSE) \o Both("resetCounters", 0) \o auto \o Both("role", "idle"))
    BY <1>1, <2>2, <2>4
  <2>6. Fine(AutoRole)
    BY <1>1, <2>1, <2>2, <2>5
  <2> QED BY <1>8, <2>6 DEF Script, Fine
<1>9. Fine(Both("status", 0)) /\ Fine(idle \o Both("status", 0))
  BY <1>1, <1>2, <1>3, <1>4
<1>10. CASE kind = "pressure"
  <2>1. QueuePressure = Inject(<<>>, SendAll, idle \o Both("status", 0))
    BY DEF QueuePressure, idle
  <2>2. Fine(QueuePressure)
    BY <1>3, <1>6, <1>7, <1>9, <2>1
  <2> QED BY <1>10, <2>2 DEF Script, Fine
<1>11. CASE kind = "malformed"
  <2>1. MalformedRx = Inject(<<>>, SendMalformed \o SendAll, idle \o Both("status", 0))
    BY DEF MalformedRx, idle
  <2>2. Fine(SendMalformed \o SendAll)
    BY <1>1, <1>6
  <2>3. Fine(MalformedRx)
    BY <1>3, <1>7, <1>9, <2>1, <2>2
  <2> QED BY <1>11, <2>3 DEF Script, Fine
<1>12. CASE kind = "watermark"
  <2>1. MemoryWatermark = Inject(mem, SendAll, mem \o Both("status", 0) \o idle)
    BY DEF MemoryWatermark, idle, mem
  <2>2. Fine(mem \o Both("status", 0))
    BY <1>1, <1>3, <1>9
  <2>3. Fine(mem \o Both("status", 0) \o idle)
    BY <1>1, <1>3, <2>2
  <2>4. Fine(MemoryWatermark)
    BY <1>3, <1>6, <1>7, <2>1, <2>3
  <2> QED BY <1>12, <2>4 DEF Script, Fine
<1> QED BY <1>8, <1>10, <1>11, <1>12

\* Nothing was reported when a phase begins, and a receiver without a role has counted nothing.
LEMMA CountingFresh ==
  ASSUME Types, RolesInv, NewPhase
  PROVE  CountingInv'
<1>1. /\ Lines' = Blank /\ Heard' = <<>> /\ host'.flaws = FlawsAtStart(Current'.rx)
      /\ Receiver' = board[Current'.rx] /\ Current'.rx \in Boards
  BY DEF NewPhase, NoTruth, Lines, Heard, Receiver
<1>2. Lines'.marker = None /\ Lines'.mem = <<>> /\ Len(Lines'.mem) = 0
  BY <1>1, BlankFields
<1>3. ASSUME Counting' PROVE Counted(Receiver', Heard')
  <2>1. "roleLeft" \notin host'.flaws
    BY <1>2, <1>3 DEF Counting
  <2>2. Receiver'.role = "idle"
    BY <1>1, <2>1 DEF FlawsAtStart
  <2>3. Receiver' \in BoardType /\ ClearOutside(Receiver') /\ Heard' \in Seq(Int)
    BY <1>1 DEF Types, RolesInv
  <2>4. Receiver'.rx = 0
    BY <2>2, <2>3 DEF ClearOutside
  <2> QED BY <2>3, <2>4, NothingCounted
<1>4. ~(Lines'.marker # None) /\ ~(Len(Lines'.mem) >= 2)
  BY <1>2
<1> QED BY <1>3, <1>4 DEF CountingInv


\* What was counted and reported stays true.
LEMMA CountingKept ==
  ASSUME Types, Placed, RolesInv, CountingInv, WithinPhase
  PROVE  CountingInv'
<1> DEFINE b == Receiver
           c == Receiver'
           l == Lines
           m == Lines'
           kind == Current.kind
           Memory == [rx : Nat, gaps : Nat, faults : Nat]
           Counts(flaws, lines) ==
             \/ kind \in {"autorole", "pressure", "malformed"} /\ "roleLeft" \notin flaws
             \/ kind = "watermark" /\ lines.mem # <<>>
           Claim(d, lines, heard) ==
             /\ Counted(d, heard)
             /\ kind # "watermark" /\ lines.marker # None => Reported(lines.marker, heard)
             /\ Len(lines.mem) >= 2 => Remembered(Last(lines.mem), heard)
<1>1. /\ Running /\ b \in BoardType /\ l \in LogType /\ Heard \in Seq(Int)
      /\ ClearOutside(b)
  BY ReceiverType, Situation DEF WithinPhase, RolesInv, Receiver
<1>2. /\ Current' = Current /\ Running' /\ c \in BoardType /\ m \in LogType
      /\ ByCommand \/ ByNothing \/ BySending \/ ByPacket \/ ByRestart
  BY ReceiverSteps
<1>3. /\ l.marker \in MarkerType \cup {None} /\ m.marker \in MarkerType \cup {None}
      /\ l.mem \in Seq(Memory) /\ m.mem \in Seq(Memory)
  BY <1>1, <1>2 DEF LogType
<1>4. /\ CountingInv' <=> (Counts(host'.flaws, m) => Claim(c, m, Heard'))
      /\ CountingInv <=> (Counts(host.flaws, l) => Claim(b, l, Heard))
  BY <1>1, <1>2 DEF CountingInv, Counting
<1>5. ASSUME host'.flaws = host.flaws \/ \E f : host'.flaws = host.flaws \cup {f}
      PROVE  "roleLeft" \notin host'.flaws => "roleLeft" \notin host.flaws
  BY <1>5
<1>6. \A lines \in LogType : Len(lines.mem) >= 2 => Last(lines.mem) \in Memory
  <2>1. SUFFICES ASSUME NEW s \in Seq(Memory), Len(s) >= 2 PROVE Last(s) \in Memory
    BY DEF LogType
  <2>2. Len(s) \in 1 .. Len(s)
    BY <2>1
  <2> HIDE DEF Memory
  <2>3. s[Len(s)] \in Memory
    BY <2>2, ElementOfSeq
  <2> QED BY <2>3 DEF Last
<1>7. ASSUME c.rx = 0 \/ Counted(c, Heard), m.marker = l.marker, m.mem = l.mem, Heard' = Heard,
             host'.flaws = host.flaws \/ \E f : host'.flaws = host.flaws \cup {f}
      PROVE  CountingInv'
  <2>1. SUFFICES ASSUME Counts(host'.flaws, m) PROVE Claim(c, m, Heard')
    BY <1>4
  <2>2. Counts(host.flaws, l)
    BY <1>5, <1>7, <2>1
  <2>3. Claim(b, l, Heard)
    BY <1>4, <2>2
  <2>4. Counted(c, Heard)
    BY <1>1, <1>2, <1>7, NothingCounted
  <2> HIDE DEF b, c, l, m
  <2> QED BY <1>7, <2>3, <2>4
<1>8. ASSUME c.rx = b.rx, c.gaps = b.gaps, c.faults = b.faults, c.next = b.next,
             c.overflowing = b.overflowing, Counted(b, Heard)
      PROVE  Counted(c, Heard)
  BY <1>8 DEF Counted
<1>9. ASSUME c.rx = 0 \/ (/\ c.rx = b.rx /\ c.gaps = b.gaps /\ c.faults = b.faults
                          /\ c.next = b.next /\ c.overflowing = b.overflowing),
             m.marker = l.marker, m.mem = l.mem, Heard' = Heard,
             host'.flaws = host.flaws \/ \E f : host'.flaws = host.flaws \cup {f}
      PROVE  CountingInv'
  <2>1. CASE Counts(host'.flaws, m)
    <3>1. Counts(host.flaws, l)
      BY <1>5, <1>9, <2>1
    <3>2. Counted(b, Heard)
      BY <1>4, <3>1
    <3>3. c.rx = 0 \/ Counted(c, Heard)
      BY <1>8, <1>9, <3>2
    <3> QED BY <1>7, <1>9, <3>3
  <2>2. CASE ~Counts(host'.flaws, m)
    BY <1>4, <2>2
  <2> QED BY <2>1, <2>2
<1>10. CASE BySending
  <2>1. /\ SameRadio(b, c) /\ SenderLog(l, m) /\ Heard' = Heard /\ host'.flaws = host.flaws
    BY <1>10 DEF BySending
  <2> QED BY <1>9, <2>1 DEF SameRadio, SenderLog
<1>11. CASE ByRestart
  <2>1. c \in {b, Fresh} /\ m = l /\ Heard' = Heard
        /\ host'.flaws = host.flaws \cup {"restart"}
    BY <1>11 DEF ByRestart
  <2>2. c = b \/ c.rx = 0
    BY <2>1, FreshFields
  <2> HIDE DEF b, c, l, m
  <2> QED BY <1>9, <2>1, <2>2
<1>12. CASE ByNothing
  <2>1. /\ c = b /\ SameLines(l, m) /\ Heard' = Heard
        /\ host'.flaws = host.flaws \/ \E f : host'.flaws = host.flaws \cup {f}
    BY <1>12 DEF ByNothing
  <2> HIDE DEF b, c, l, m
  <2> QED BY <1>9, <2>1 DEF SameLines
<1>13. CASE ByPacket
  <2>1. PICK p \in Int, fate \in Fates :
          LET heard == b.listening /\ fate = "heard"
          IN /\ Received(b, l, p, fate, c, m)
             /\ Heard' = IF heard THEN Append(Heard, p) ELSE Heard
             /\ host'.flaws = host.flaws
    BY <1>13 DEF ByPacket
  <2>2. m.mem = l.mem /\ c.overflowing = b.overflowing
    BY <2>1 DEF Received, Kept, KeptLog
  <2>3. CASE ~(b.listening /\ fate = "heard")
    <3>1. Untouched(b, l, c, m) /\ Heard' = Heard
      BY <2>1, <2>3 DEF Received
    <3> QED BY <1>9, <2>1, <2>2, <3>1 DEF Untouched
  <2>4. CASE b.listening /\ fate = "heard"
    <3> DEFINE h == Append(Heard, p)
    <3>1. Received(b, l, p, fate, c, m) /\ Heard' = h /\ host'.flaws = host.flaws
      BY <2>1, <2>4
    <3>2. SUFFICES ASSUME Counts(host'.flaws, m) PROVE Claim(c, m, h)
      BY <1>4, <3>1
    <3>3. Claim(b, l, Heard)
      BY <1>4, <2>2, <3>1, <3>2
    <3>4. /\ Counted(c, h)
          /\ m.marker # l.marker =>
               m.marker = [rx |-> c.rx, sequence |-> c.next - 1, gaps |-> c.gaps,
                           faults |-> c.faults]
      BY <1>1, <1>2, <2>4, <3>1, <3>3, CountedOn
    <3>5. h \in Seq(Int)
      BY <1>1
    <3>6. ASSUME kind # "watermark", m.marker # None PROVE Reported(m.marker, h)
      <4>1. CASE m.marker = l.marker
        <5>1. l.marker \in MarkerType /\ Reported(l.marker, Heard)
          BY <1>3, <3>3, <3>6, <4>1
        <5>2. Reported(l.marker, h)
          BY <1>1, <5>1, ReportStays
        <5> QED BY <4>1, <5>2
      <4>2. CASE m.marker # l.marker
        <5>1. /\ m.marker.rx = c.rx /\ m.marker.sequence = c.next - 1
              /\ m.marker.gaps = c.gaps /\ m.marker.faults = c.faults
          BY <3>4, <4>2
        <5>2. c.gaps = 0 /\ c.faults = 0 => Row(c.rx, c.next - 1, h)
          BY <1>2, <3>4, <3>5, CountedRow
        <5>3. c.rx <= Cardinality(Proper(h))
          BY <3>4 DEF Counted
        <5> QED BY <5>1, <5>2, <5>3 DEF Reported
      <4> QED BY <4>1, <4>2
    <3>7. ASSUME Len(m.mem) >= 2 PROVE Remembered(Last(m.mem), h)
      <4>1. Remembered(Last(l.mem), Heard) /\ Last(l.mem) \in Memory
        BY <1>1, <1>6, <2>2, <3>3, <3>7
      <4> QED BY <1>1, <2>2, <4>1, ReportStays
    <3> HIDE DEF h, b, c, l, m
    <3> QED BY <3>4, <3>6, <3>7
  <2> QED BY <2>3, <2>4
<1>14. CASE ByCommand
  <2> DEFINE out == Obey(b, l, Command.do, Command.arg)
             note == [rx |-> b.rx, gaps |-> b.gaps, faults |-> b.faults]
  <2>1. /\ AtCommand /\ Command.do \notin {"wait", "getRssi"} /\ c = out.b /\ m = out.log
        /\ Heard' = Heard /\ host'.flaws = host.flaws
    BY <1>14 DEF ByCommand
  <2>2. Command \in CommandType \cup PowerCommand /\ host.pc \in 1 .. Len(Commands)
    BY <2>1, Instruction
  <2>3. SUFFICES ASSUME kind \in {"autorole", "pressure", "malformed", "watermark"}
                 PROVE  CountingInv'
    BY <1>4
  <2>4. Command.do \notin {"wait", "getRssi", "setRxOverflow"}
    BY <2>1, <2>2, <2>3, CountingScripts DEF Without, Command, Commands
  <2>5. m.marker = l.marker
    BY <1>1, <2>1, <2>2, ObeyLines
  <2>6. /\ \/ /\ c.rx = b.rx /\ c.gaps = b.gaps /\ c.faults = b.faults
              /\ c.next = b.next /\ c.overflowing = b.overflowing
           \/ c.rx = 0
        /\ \/ m.mem = l.mem
           \/ c.rx = 0 /\ m.mem = Append(l.mem, note)
    BY <1>1, <2>1, <2>2, <2>4, ObeyRow
  <2> HIDE DEF out
  <2>7. CASE m.mem = l.mem
    BY <1>9, <2>1, <2>5, <2>6, <2>7
  <2>8. CASE c.rx = 0 /\ m.mem = Append(l.mem, note)
    <3>1. SUFFICES ASSUME Counts(host'.flaws, m) PROVE Claim(c, m, Heard)
      BY <1>4, <2>1
    <3>2. Counted(c, Heard)
      BY <1>1, <1>2, <2>8, NothingCounted
    <3>3. ASSUME kind # "watermark", m.marker # None PROVE Reported(m.marker, Heard)
      <4>1. Counts(host.flaws, l)
        BY <2>1, <3>1, <3>3
      <4> QED BY <1>4, <2>5, <3>3, <4>1
    <3>4. ASSUME Len(m.mem) >= 2 PROVE Remembered(Last(m.mem), Heard)
      <4>1. note \in Memory /\ Last(m.mem) = note /\ Len(m.mem) = Len(l.mem) + 1
        <5>1. note \in Memory
          BY <1>1 DEF BoardType
        <5> HIDE DEF note
        <5>2. Len(Append(l.mem, note)) = Len(l.mem) + 1 /\ Len(l.mem) \in Nat
              /\ Append(l.mem, note)[Len(l.mem) + 1] = note
          BY <1>3, <5>1
        <5> QED BY <2>8, <5>1, <5>2 DEF Last
      <4>2. l.mem # <<>>
        BY <1>3, <3>4, <4>1
      <4>3. Counts(host.flaws, l)
        BY <2>1, <3>1, <4>2
      <4>4. Counted(b, Heard)
        BY <1>4, <4>3
      <4>5. b.gaps = 0 /\ b.faults = 0 => Row(b.rx, b.next - 1, Heard)
        BY <1>1, <4>4, CountedRow
      <4>6. b.next - 1 \in Int
        BY <1>1 DEF BoardType
      <4>7. note.rx = b.rx /\ note.gaps = b.gaps /\ note.faults = b.faults
        OBVIOUS
      <4> QED BY <4>1, <4>5, <4>6, <4>7 DEF Remembered
    <3> HIDE DEF b, c, l, m
    <3> QED BY <3>2, <3>3, <3>4
  <2> QED BY <2>6, <2>7, <2>8
<1> QED BY <1>2, <1>10, <1>11, <1>12, <1>13, <1>14


----------------------------------------------------------------------------
(* Resets, a receiver that listens, and a tone.                            *)

\* The transmitter was not switched to its tone.
Toneless == host.flaws \cap {"setTxTone", "restart"} # {}

OthersInv ==
  Running =>
    /\ Current.kind = "reset" /\ host.pc > 1 =>
         Current.rx \in host.truth.resets \/ "reset" \in host.flaws
    /\ Current.kind = "fault" /\ host.pc > 3 => host.truth.listened \/ "rx" \in host.flaws
    /\ Lines.rssi.tone = "high" => host.truth.tone
    /\ Current.kind = "noTone" =>
         /\ host.pc = 7 => board[Current.tx].tone \/ Toneless
         /\ Lines.rssi.tone # "none" => host.truth.tone \/ Toneless

\* The commands these claims are about.
LEMMA OtherScripts ==
  /\ Script("reset") = <<Step("rx", "reset", 0)>>
  /\ Script("fault")[3] = Step("rx", "rx", TRUE)
  /\ Script("noTone")[6] = Step("tx", "setTxTone", TRUE)
  /\ \A k \in 1 .. Len(Script("noTone")) :
       Script("noTone")[k].do = "getRssi" /\ Script("noTone")[k].arg = "tone" => k = 7
<1>1. Script("reset") = <<Step("rx", "reset", 0)>>
  BY DEF Script
<1>2. Script("fault")[3] = Step("rx", "rx", TRUE)
  BY DEF Script, FaultRecovery
<1> DEFINE p == <<Step("rx", "rx", FALSE), Step("tx", "rx", FALSE)>>
           q == <<Step("tx", "setTxTone", FALSE), Step("rx", "rx", TRUE),
                  Step("rx", "getRssi", "baseline"), Step("tx", "setTxTone", TRUE),
                  Step("rx", "getRssi", "tone"), Step("tx", "setTxTone", FALSE),
                  Step("rx", "rx", FALSE)>>
<1>3. Script("noTone") = p \o q
  BY DEF Script, Tone, Both
<1>4. p \in Seq(CommandType) /\ q \in Seq(CommandType) /\ Len(p) = 2 /\ Len(q) = 7
  BY DEF Step, CommandType
<1>5. q[4] = Step("tx", "setTxTone", TRUE)
  OBVIOUS
<1>6. Without(p, {"getRssi"})
  BY DEF Without, Step
<1>7. \A k \in 1 .. 7 : q[k].do = "getRssi" /\ q[k].arg = "tone" => k = 5
  BY DEF Step
<1> HIDE DEF p, q
<1>10. /\ Len(p \o q) = Len(p) + Len(q)
       /\ \A k \in 1 .. Len(p) : (p \o q)[k] = p[k]
       /\ \A k \in 1 .. Len(q) : (p \o q)[Len(p) + k] = q[k]
  BY <1>4, Indices
<1>11. /\ Len(p \o q) = 9
       /\ \A k \in 1 .. 2 : (p \o q)[k] = p[k]
       /\ \A k \in 1 .. 7 : (p \o q)[2 + k] = q[k]
  BY <1>4, <1>10
<1>8. Script("noTone")[6] = Step("tx", "setTxTone", TRUE)
  <2>1. 4 \in 1 .. 7 /\ 2 + 4 = 6
    OBVIOUS
  <2>2. (p \o q)[6] = q[4]
    BY <1>11, <2>1
  <2> QED BY <1>3, <1>5, <2>2
<1>9. ASSUME NEW k \in 1 .. Len(p \o q), (p \o q)[k].do = "getRssi", (p \o q)[k].arg = "tone"
      PROVE  k = 7
  <2>1. Len(p \o q) = 9
    BY <1>11
  <2>2. CASE k <= 2
    <3>1. k \in 1 .. Len(p) /\ (p \o q)[k] = p[k]
      BY <1>4, <1>11, <2>1, <2>2
    <3> QED BY <1>6, <1>9, <3>1 DEF Without
  <2>3. CASE ~(k <= 2)
    <3>1. k - 2 \in 1 .. 7 /\ 2 + (k - 2) = k
      BY <2>1, <2>3
    <3>2. (p \o q)[k] = q[k - 2]
      BY <1>11, <3>1
    <3>3. k - 2 = 5
      BY <1>7, <1>9, <3>1, <3>2
    <3> QED BY <3>1, <3>3
  <2> QED BY <2>2, <2>3
<1> QED BY <1>1, <1>2, <1>3, <1>8, <1>9

\* Nothing is claimed when a phase begins.
LEMMA OthersFresh ==
  ASSUME NewPhase
  PROVE  OthersInv'
<1>1. Lines' = Blank /\ host'.pc = 1
  BY DEF NewPhase, Lines
<1>2. Lines'.rssi.tone = "none"
  BY <1>1, BlankFields
<1> QED BY <1>1, <1>2 DEF OthersInv

\* These claims stay true.
LEMMA OthersKept ==
  ASSUME Types, Placed, OthersInv, WithinPhase
  PROVE  OthersInv'
<1> DEFINE rx == Current.rx
           tx == Current.tx
           kind == Current.kind
           level == host.log[rx].rssi.tone
           level2 == host'.log[rx].rssi.tone
           Silent(flaws) == flaws \cap {"setTxTone", "restart"} # {}
           ResetClaim(pc, resets, flaws) ==
             kind = "reset" /\ pc > 1 => rx \in resets \/ "reset" \in flaws
           FaultClaim(pc, listened, flaws) ==
             kind = "fault" /\ pc > 3 => listened \/ "rx" \in flaws
           ToneClaim(lev, tone) == lev = "high" => tone
           SilentClaim(pc, sends, lev, tone, flaws) ==
             kind = "noTone" =>
               /\ pc = 7 => sends \/ Silent(flaws)
               /\ lev # "none" => tone \/ Silent(flaws)
<1>1. /\ Running /\ rx \in Boards /\ tx \in Boards /\ rx # tx /\ Boards = {rx, tx}
      /\ Peer(rx) = tx /\ Peer(tx) = rx
      /\ board \in [Boards -> BoardType] /\ host.log \in [Boards -> LogType]
      /\ host.truth.resets \in SUBSET Boards /\ host.truth.listened \in BOOLEAN
      /\ host.truth.tone \in BOOLEAN /\ host.pc \in Nat /\ host.flaws \in SUBSET Flaws
  BY Situation DEF WithinPhase, Types, HostType, TruthType
<1>2. /\ ResetClaim(host.pc, host.truth.resets, host.flaws)
      /\ FaultClaim(host.pc, host.truth.listened, host.flaws)
      /\ ToneClaim(level, host.truth.tone)
      /\ SilentClaim(host.pc, board[tx].tone, level, host.truth.tone, host.flaws)
  BY <1>1 DEF OthersInv, Lines, Toneless
<1>3. ASSUME InPhase,
             ResetClaim(host'.pc, host'.truth.resets, host'.flaws),
             FaultClaim(host'.pc, host'.truth.listened, host'.flaws),
             ToneClaim(level2, host'.truth.tone),
             SilentClaim(host'.pc, board'[tx].tone, level2, host'.truth.tone, host'.flaws)
      PROVE  OthersInv'
  <2>1. Current' = Current
    BY <1>3, PhaseStays
  <2> QED BY <1>3, <2>1 DEF OthersInv, Lines, Toneless
<1>4. ASSUME AtCommand
      PROVE  /\ kind = "reset" => host.pc = 1 /\ Command = Step("rx", "reset", 0)
             /\ kind = "fault" /\ host.pc = 3 => Command = Step("rx", "rx", TRUE)
             /\ kind = "noTone" /\ host.pc = 6 => Command = Step("tx", "setTxTone", TRUE)
             /\ kind = "noTone" /\ Command.do = "getRssi" /\ Command.arg = "tone" =>
                  host.pc = 7
             /\ Command \in CommandType \cup PowerCommand
  <2>1. host.pc \in 1 .. Len(Commands) /\ Command \in CommandType \cup PowerCommand
    BY <1>4, Instruction
  <2>2. kind = "reset" => Len(Commands) = 1 /\ Commands[1] = Step("rx", "reset", 0)
    BY OtherScripts DEF Commands
  <2>3. kind = "fault" => Commands[3] = Step("rx", "rx", TRUE)
    BY OtherScripts DEF Commands
  <2>4. kind = "noTone" =>
          /\ Commands[6] = Step("tx", "setTxTone", TRUE)
          /\ \A k \in 1 .. Len(Commands) :
               Commands[k].do = "getRssi" /\ Commands[k].arg = "tone" => k = 7
    BY OtherScripts DEF Commands
  <2>5. kind = "reset" => host.pc = 1
    <3>1. ASSUME NEW n, n = 1, host.pc \in 1 .. n PROVE host.pc = 1
      BY <3>1
    <3> QED BY <2>1, <2>2, <3>1
  <2> QED BY <2>1, <2>2, <2>3, <2>4, <2>5 DEF Command
<1>5. ASSUME host'.pc = host.pc, host.flaws \subseteq host'.flaws,
             host'.truth.resets = host.truth.resets,
             host'.truth.listened = host.truth.listened,
             host'.truth.tone = host.truth.tone, level2 = level, InPhase,
             board'[tx].tone = board[tx].tone \/ "restart" \in host'.flaws
      PROVE  OthersInv'
  <2>1. Silent(host.flaws) => Silent(host'.flaws)
    BY <1>5
  <2>2. board[tx].tone => board'[tx].tone \/ Silent(host'.flaws)
    BY <1>5
  <2> HIDE DEF Silent, level, level2
  <2>3. /\ ResetClaim(host'.pc, host'.truth.resets, host'.flaws)
        /\ FaultClaim(host'.pc, host'.truth.listened, host'.flaws)
        /\ ToneClaim(level2, host'.truth.tone)
    BY <1>2, <1>5
  <2>4. SilentClaim(host'.pc, board'[tx].tone, level2, host'.truth.tone, host'.flaws)
    BY <1>2, <1>5, <2>1, <2>2
  <2> QED BY <1>3, <1>5, <2>3, <2>4
<1>6. CASE Execute
  <2> DEFINE out == Obey(board[Target], host.log[Target], Command.do, Command.arg)
  <2>1. /\ AtCommand /\ InPhase /\ host'.pc = host.pc + 1 /\ host'.flaws = host.flaws
        /\ Command.do \notin {"wait", "getRssi"} /\ Target \in Boards
        /\ board[Target] \in BoardType /\ host.log[Target] \in LogType
        /\ board' = [board EXCEPT ![Target] = out.b]
        /\ host'.log = [host.log EXCEPT ![Target] = out.log]
        /\ host'.truth.tone = host.truth.tone
        /\ host'.truth.listened = (host.truth.listened
              \/ (Target = rx /\ out.b.listening))
        /\ host'.truth.resets = IF Command.do = "reset" THEN host.truth.resets \cup {Target}
                                ELSE host.truth.resets
    BY <1>6, Instruction, ExecuteKeeps DEF Execute
  <2>2. Command \in CommandType \cup PowerCommand
    BY <1>4, <2>1
  <2>3. out.log.rssi = host.log[Target].rssi
    BY <2>1, <2>2, ObeyLines
  <2>4. level2 = level
    <3> HIDE DEF out
    <3> QED BY <1>1, <2>1, <2>3
  <2>5. ResetClaim(host'.pc, host'.truth.resets, host'.flaws)
    <3>1. ASSUME kind = "reset" PROVE rx \in host'.truth.resets
      <4>1. Command = Step("rx", "reset", 0)
        BY <1>4, <2>1, <3>1
      <4>2. Command.do = "reset" /\ Target = rx
        BY <4>1 DEF Step, Target
      <4> QED BY <2>1, <4>2
    <3> QED BY <3>1
  <2>6. FaultClaim(host'.pc, host'.truth.listened, host'.flaws)
    <3>1. SUFFICES ASSUME kind = "fault", host.pc = 3 PROVE host'.truth.listened
      BY <1>1, <1>2, <2>1
    <3>2. Command = Step("rx", "rx", TRUE)
      BY <1>4, <2>1, <3>1
    <3>3. Command.do = "rx" /\ Command.arg = TRUE /\ Target = rx
      BY <3>2 DEF Step, Target
    <3>4. Command.do \notin {"wait", "getRssi", "role", "reset"}
      BY <3>3
    <3>5. out.b.listening = TRUE
      BY <2>1, <2>2, <3>3, <3>4, ObeySimple
    <3> QED BY <2>1, <3>3, <3>5
  <2>7. SilentClaim(host'.pc, board'[tx].tone, level2, host'.truth.tone, host'.flaws)
    <3>1. ASSUME kind = "noTone", host.pc = 6 PROVE board'[tx].tone
      <4>1. Command = Step("tx", "setTxTone", TRUE)
        BY <1>4, <2>1, <3>1
      <4>2. Command.do = "setTxTone" /\ Command.arg = TRUE /\ Target = tx
        BY <4>1 DEF Step, Target
      <4>3. Command.do \notin {"wait", "getRssi", "role", "reset"}
        BY <4>2
      <4>4. out.b.tone = TRUE
        BY <2>1, <2>2, <4>2, <4>3, ObeySimple
      <4> HIDE DEF out
      <4> QED BY <1>1, <2>1, <4>2, <4>4
    <3> HIDE DEF level, level2, Silent
    <3>2. host'.pc = 7 => host.pc = 6
      BY <1>1, <2>1
    <3> QED BY <1>2, <2>1, <2>4, <3>1, <3>2
  <2>8. ToneClaim(level2, host'.truth.tone)
    <3> HIDE DEF level, level2
    <3> QED BY <1>2, <2>1, <2>4
  <2> HIDE DEF ResetClaim, FaultClaim, ToneClaim, SilentClaim
  <2> QED BY <1>3, <2>1, <2>5, <2>6, <2>7, <2>8
<1>7. CASE ReadRssi
  <2>1. /\ AtCommand /\ Command.do = "getRssi" /\ InPhase /\ host'.pc = host.pc + 1
        /\ host'.flaws = host.flaws /\ board' = board
        /\ host'.truth.resets = host.truth.resets
        /\ host'.truth.listened = host.truth.listened
        /\ host'.truth.tone = IF Command.arg = "tone" THEN board[tx].tone ELSE host.truth.tone
        /\ Command.arg = "tone" => (level2 = "high" => board[tx].tone)
        /\ Command.arg # "tone" => level2 = level
    BY <1>7, ReadRssiKeeps
  <2>2. /\ kind # "reset" /\ ~(kind = "fault" /\ host.pc = 3)
        /\ ~(kind = "noTone" /\ host.pc = 6)
        /\ kind = "noTone" /\ Command.arg = "tone" => host.pc = 7
    BY <1>4, <2>1 DEF Step
  <2> HIDE DEF level, level2, Silent
  <2>3. /\ ResetClaim(host'.pc, host'.truth.resets, host'.flaws)
        /\ FaultClaim(host'.pc, host'.truth.listened, host'.flaws)
    BY <1>1, <1>2, <2>1, <2>2
  <2>4. ToneClaim(level2, host'.truth.tone)
    BY <1>2, <2>1
  <2>5. SilentClaim(host'.pc, board'[tx].tone, level2, host'.truth.tone, host'.flaws)
    <3>1. ~(kind = "noTone" /\ host'.pc = 7)
      BY <1>1, <2>1, <2>2
    <3>2. CASE Command.arg = "tone"
      BY <1>2, <2>1, <2>2, <3>1, <3>2
    <3>3. CASE Command.arg # "tone"
      BY <1>2, <2>1, <3>1, <3>3
    <3> QED BY <3>2, <3>3
  <2> HIDE DEF ResetClaim, FaultClaim, ToneClaim, SilentClaim
  <2> QED BY <1>3, <2>1, <2>3, <2>4, <2>5
<1>8. CASE Wait \/ LoseCommand
  <2>1. /\ AtCommand /\ InPhase /\ host'.pc = host.pc + 1 /\ host'.log = host.log
        /\ host'.truth = host.truth /\ board' = board
        /\ \/ host'.flaws = host.flaws /\ Command.do = "wait"
           \/ host'.flaws = host.flaws \cup {Command.do}
    BY <1>8, SkipKeeps
  <2>2. /\ kind = "reset" => Command.do = "reset"
        /\ kind = "fault" /\ host.pc = 3 => Command.do = "rx"
        /\ kind = "noTone" /\ host.pc = 6 => Command.do = "setTxTone"
    BY <1>4, <2>1 DEF Step
  <2>3. ResetClaim(host'.pc, host'.truth.resets, host'.flaws)
    BY <1>2, <2>1, <2>2
  <2>4. FaultClaim(host'.pc, host'.truth.listened, host'.flaws)
    BY <1>1, <1>2, <2>1, <2>2
  <2>5. level2 = level /\ ToneClaim(level2, host'.truth.tone)
    BY <1>2, <2>1
  <2>6. SilentClaim(host'.pc, board'[tx].tone, level2, host'.truth.tone, host'.flaws)
    <3>1. ASSUME kind = "noTone", host.pc = 6 PROVE "setTxTone" \in host'.flaws
      BY <2>1, <2>2, <3>1
    <3>2. Silent(host.flaws) => Silent(host'.flaws)
      BY <2>1
    <3>3. "setTxTone" \in host'.flaws => Silent(host'.flaws)
      OBVIOUS
    <3>4. host'.pc = 7 => host.pc = 6
      BY <1>1, <2>1
    <3> HIDE DEF level, level2, Silent
    <3> QED BY <1>2, <2>1, <2>5, <3>1, <3>2, <3>3, <3>4
  <2> HIDE DEF ResetClaim, FaultClaim, ToneClaim, SilentClaim
  <2> QED BY <1>3, <2>1, <2>3, <2>4, <2>5, <2>6
<1>9. ASSUME NEW b \in Boards, Restart(b) PROVE OthersInv'
  <2>1. /\ InPhase /\ host'.pc = host.pc /\ host'.log = host.log
        /\ host'.truth = host.truth /\ host'.flaws = host.flaws \cup {"restart"}
    BY <1>1, <1>9, RestartKeeps DEF Running
  <2> QED BY <1>5, <2>1
<1>10. ASSUME NEW from \in Boards, SendNext(from) \/ AutoTx(from) \/ ScheduledAttempt(from)
       PROVE  OthersInv'
  <2>1. PICK p \in Int, fate \in Fates : \E m \in LogType : RadioStep(from, p, fate, m)
    BY <1>10, SenderStep
  <2>2. host # Idle /\ Log(Peer(from)) = host.log[Peer(from)] /\ Peer(from) \in Boards
    BY <1>1, TwoBoards DEF Running, Log
  <2>3. /\ InPhase /\ SameRadio(board[from], board'[from])
        /\ SenderLog(host.log[from], host'.log[from])
        /\ Received(board[Peer(from)], host.log[Peer(from)], p, fate, board'[Peer(from)],
                    host'.log[Peer(from)])
        /\ host'.pc = host.pc /\ host'.flaws = host.flaws
        /\ host'.truth.resets = host.truth.resets
        /\ host'.truth.listened = host.truth.listened
        /\ host'.truth.tone = host.truth.tone
    BY <2>1, <2>2 DEF RadioStep
  <2>4. \A b \in Boards : board'[b].tone = board[b].tone
                          /\ host'.log[b].rssi = host.log[b].rssi
    <3>1. /\ board'[from].tone = board[from].tone /\ host'.log[from].rssi = host.log[from].rssi
      BY <2>3 DEF SameRadio, SenderLog
    <3>2. /\ board'[Peer(from)].tone = board[Peer(from)].tone
          /\ host'.log[Peer(from)].rssi = host.log[Peer(from)].rssi
      BY <2>3 DEF Received, Kept, KeptLog
    <3> QED BY <3>1, <3>2, TwoBoards
  <2> QED BY <1>1, <1>5, <2>3, <2>4
<1> QED BY <1>6, <1>7, <1>8, <1>9, <1>10 DEF WithinPhase


----------------------------------------------------------------------------
(* What a verdict proves.                                                  *)

\* What is known of the phase that runs.
PhaseInv ==
  RolesInv /\ LinesInv /\ CountersInv /\ OverflowInv /\ CountingInv /\ OthersInv

\* All of it stays true.
LEMMA PhaseKept ==
  ASSUME Types, Placed, PhaseInv, [Next]_vars
  PROVE  PhaseInv'
<1>1. RolesInv'
  BY RolesKept DEF PhaseInv
<1>2. CASE NewPhase
  BY <1>1, <1>2, LinesFresh, CountersFresh, CountingFresh, OthersFresh DEF PhaseInv
<1>3. CASE WithinPhase
  BY <1>1, <1>3, LinesKept, CountersKept, CountingKept, OthersKept DEF PhaseInv
<1>4. CASE host' = Idle
  <2>1. ~Running'
    BY <1>4 DEF Running
  <2> QED BY <1>1, <2>1 DEF PhaseInv, LinesInv, CountersInv, OverflowInv, CountingInv,
                            OthersInv, Cleared
<1>5. CASE UNCHANGED <<board, host>>
  <2>1. /\ Running' = Running /\ Current' = Current /\ host' = host /\ board' = board
    BY <1>5 DEF Running, Current
  <2>2. /\ Lines' = Lines /\ Heard' = Heard /\ Receiver' = Receiver
        /\ Overflown' = Overflown /\ Toneless' = Toneless /\ Cleared' = Cleared
    BY <2>1 DEF Lines, Heard, Receiver, Overflown, Toneless, Cleared
  <2>3. Counting' = Counting
    BY <2>1, <2>2 DEF Counting
  <2>4. LinesInv'
    BY <2>1, <2>2 DEF PhaseInv, LinesInv
  <2>5. CountersInv' /\ OverflowInv'
    BY <2>1, <2>2 DEF PhaseInv, CountersInv, OverflowInv
  <2>6. CountingInv'
    BY <2>1, <2>2, <2>3 DEF PhaseInv, CountingInv
  <2>7. OthersInv'
    BY <2>1, <2>2 DEF PhaseInv, OthersInv
  <2> QED BY <1>1, <2>4, <2>5, <2>6, <2>7 DEF PhaseInv
<1> QED BY <1>2, <1>3, <1>4, <1>5, StepsOfPhase

\* A long row has a row of any smaller length at its end.
LEMMA RowInside ==
  ASSUME NEW heard \in Seq(Int), NEW n \in Nat, NEW last \in Int, Row(n, last, heard),
         n >= Packets
  PROVE  \E k \in 0 .. Len(heard) - Packets :
           \A i \in 1 .. Packets : heard[k + i] = last - Packets + i
<1>1. PICK k \in 0 .. Len(heard) - n : \A i \in 1 .. n : heard[k + i] = last - n + i
  BY DEF Row
<1>2. Packets \in Nat /\ Len(heard) \in Nat
  BY BenchAssumption
<1> DEFINE j == k + n - Packets
<1>3. j \in 0 .. Len(heard) - Packets
  BY <1>1, <1>2
<1>4. ASSUME NEW i \in 1 .. Packets PROVE heard[j + i] = last - Packets + i
  <2>1. n - Packets + i \in 1 .. n /\ k + (n - Packets + i) = j + i
    BY <1>1, <1>2
  <2>2. last - n + (n - Packets + i) = last - Packets + i
    BY <1>2
  <2>3. heard[k + (n - Packets + i)] = last - n + (n - Packets + i)
    BY <1>1, <2>1
  <2> QED BY <2>1, <2>2, <2>3
<1> QED BY <1>3, <1>4

\* The packets a passing verdict is about were there.
LEMMA VerdictIsGenuine ==
  ASSUME Types, Placed, PhaseInv, FinishPhase, EntryOf.passed
  PROVE  EntryOf.flaws \cap Relied(EntryOf.kind) # {} \/ Genuine(EntryOf)
<1> DEFINE kind == Current.kind
           rx == host.log[Current.rx]
           tx == host.log[Current.tx]
           heard == host.truth.heard
<1>1. /\ Running /\ host.pc = Len(Commands) + 1
  BY FinishKeeps
<1>2. /\ Current.kind \in Kinds /\ rx \in LogType /\ tx \in LogType /\ heard \in Seq(Int)
      /\ host.truth \in TruthType /\ host.flaws \in SUBSET Flaws
      /\ host.truth.sent \in Nat
  BY <1>1, Situation DEF HostType, TruthType
<1>3. /\ EntryOf.kind = kind /\ EntryOf.rx = Current.rx /\ EntryOf.truth = host.truth
      /\ EntryOf.flaws = host.flaws /\ EntryOf.passed = Verdict(kind, rx, tx)
  BY DEF EntryOf
<1>4. /\ rx.lines <= Len(heard)
      /\ \A p \in rx.seen : \E i \in DOMAIN heard : heard[i] = p
      /\ rx.fails <= Cardinality(Bad(heard))
      /\ tx.done <= host.truth.sent /\ Len(tx.ends) <= host.truth.sent
  BY <1>1 DEF PhaseInv, LinesInv, Lines, Heard
<1>5. /\ Packets \in Nat /\ Packets >= 1 /\ Injected \in Nat /\ Len(heard) \in Nat
      /\ Cardinality(Proper(heard)) \in Nat /\ Cardinality(Proper(heard)) <= Len(heard)
      /\ Cardinality(Bad(heard)) \in Nat
  BY <1>2, BenchAssumption, ProperBound, OneMore
<1>6. Verdict(kind, rx, tx)
  BY <1>3
<1>7. CASE kind = "smoke"
  <2>1. rx.lines = Packets
    BY <1>6, <1>7 DEF Verdict, StatusSmokePasses
  <2> QED BY <1>3, <1>4, <1>7, <2>1 DEF Genuine
<1>8. CASE kind \in {"check", "direction"}
  <2>1. rx.status # None /\ rx.status.count = Packets
    BY <1>6, <1>8 DEF Verdict, DirectionPasses, PacketCheckPasses
  <2>2. CASE "resetCounters" \in host.flaws
    BY <1>3, <1>8, <2>2 DEF Relied
  <2>3. CASE "resetCounters" \notin host.flaws
    <3>1. rx.status.count <= Len(heard)
      BY <1>1, <1>8, <2>1, <2>3 DEF PhaseInv, CountersInv, Cleared, Lines, Heard
    <3> QED BY <1>3, <1>8, <2>1, <3>1 DEF Genuine
  <2> QED BY <2>2, <2>3
<1>9. CASE kind = "packets"
  <2>1. \A n \in 1 .. Packets : n \in rx.seen
    BY <1>6, <1>9 DEF Verdict
  <2> QED BY <1>3, <1>4, <1>9, <2>1 DEF Genuine
<1>10. ASSUME kind \in {"autorole", "pressure", "malformed"},
              "roleLeft" \notin host.flaws, rx.marker # None
       PROVE  Reported(rx.marker, heard) /\ rx.marker \in MarkerType
  <2>1. Reported(rx.marker, heard)
    BY <1>1, <1>10 DEF PhaseInv, CountingInv, Counting, Lines, Heard
  <2> QED BY <1>2, <1>10, <2>1 DEF LogType
<1>11. CASE kind \in {"autorole", "pressure", "malformed"} /\ "roleLeft" \in host.flaws
  BY <1>3, <1>11 DEF Relied
<1>12. CASE kind = "autorole" /\ "roleLeft" \notin host.flaws
  <2>1. rx.marker # None /\ rx.marker.rx >= Packets
    BY <1>6, <1>12 DEF Verdict, Healthy
  <2>2. rx.marker.rx \in Nat /\ rx.marker.rx <= Cardinality(Proper(heard))
    BY <1>10, <1>12, <2>1 DEF Reported, MarkerType
  <2>3. Len(heard) >= Packets
    BY <1>5, <2>1, <2>2
  <2> QED BY <1>3, <1>12, <2>3 DEF Genuine
<1>13. CASE kind = "pressure" /\ "roleLeft" \notin host.flaws
  <2>1. /\ rx.marker # None /\ rx.marker.rx >= Packets /\ rx.marker.gaps = 0
        /\ rx.marker.faults = 0 /\ rx.marker.sequence = Packets
    BY <1>6, <1>13 DEF Verdict, QueuePressurePasses, Healthy
  <2>2. rx.marker.rx \in Nat /\ Row(rx.marker.rx, Packets, heard)
    BY <1>10, <1>13, <2>1 DEF Reported, MarkerType
  <2>3. PICK k \in 0 .. Len(heard) - Packets :
          \A i \in 1 .. Packets : heard[k + i] = Packets - Packets + i
    <3>1. Packets \in Int
      BY <1>5
    <3> QED BY <1>2, <2>1, <2>2, <3>1, RowInside
  <2>4. \A i \in 1 .. Packets : Packets - Packets + i = 1 + i - 1
    BY <1>5
  <2>5. \A i \in 1 .. Packets : heard[k + i] = 1 + i - 1
    BY <2>3, <2>4
  <2> HIDE DEF heard
  <2>6. \E j \in 0 .. Len(heard) - Packets :
          \A i \in 1 .. Packets : heard[j + i] = 1 + i - 1
    BY <2>5
  <2> QED BY <1>3, <1>13, <2>6 DEF Genuine, heard
<1>14. CASE kind = "malformed" /\ "roleLeft" \notin host.flaws
  <2>1. rx.fails >= Injected /\ rx.marker # None /\ rx.marker.rx >= Packets
    BY <1>6, <1>14 DEF Verdict, MalformedPasses
  <2>2. rx.marker.rx \in Nat /\ rx.marker.rx <= Cardinality(Proper(heard))
    BY <1>10, <1>14, <2>1 DEF Reported, MarkerType
  <2>3. rx.fails \in Nat
    BY <1>2 DEF LogType
  <2>4. Cardinality(Bad(heard)) >= Injected /\ Cardinality(Proper(heard)) >= Packets
    BY <1>4, <1>5, <2>1, <2>2, <2>3
  <2> QED BY <1>3, <1>14, <2>4 DEF Genuine, Bad, Proper
<1>15. CASE kind = "watermark"
  <2>1. /\ Len(rx.mem) >= 2 /\ Last(rx.mem).rx >= Packets /\ Last(rx.mem).gaps = 0
        /\ Last(rx.mem).faults = 0
    BY <1>6, <1>15 DEF Verdict, MemoryWatermarkPasses, Healthy
  <2> DEFINE Memory == [rx : Nat, gaps : Nat, faults : Nat]
             n == Last(rx.mem).rx
  <2>2. rx.mem # <<>> /\ n \in Nat
    <3>1. rx.mem \in Seq(Memory)
      BY <1>2 DEF LogType
    <3> HIDE DEF Memory
    <3>2. Len(rx.mem) \in 1 .. Len(rx.mem)
      BY <2>1, <3>1
    <3>3. Last(rx.mem) \in Memory
      BY <3>1, <3>2, ElementOfSeq DEF Last
    <3>4. rx.mem # <<>>
      BY <2>1
    <3> QED BY <3>3, <3>4 DEF Memory
  <2>3. Remembered(Last(rx.mem), heard)
    BY <1>1, <1>15, <2>1, <2>2 DEF PhaseInv, CountingInv, Counting, Lines, Heard
  <2>4. PICK last \in Int : Row(n, last, heard)
    BY <2>1, <2>3 DEF Remembered
  <2>5. PICK k \in 0 .. Len(heard) - Packets :
          \A i \in 1 .. Packets : heard[k + i] = last - Packets + i
    BY <1>2, <1>5, <2>1, <2>2, <2>4, RowInside, ZenonT(60)
  <2>6. k + 1 \in DOMAIN heard /\ heard[k + 1] = last - Packets + 1
    BY <1>2, <1>5, <2>5
  <2>7. \A i \in 1 .. Packets : last - Packets + i = last - Packets + 1 + i - 1
    BY <1>5
  <2>8. \A i \in 1 .. Packets : heard[k + i] = heard[k + 1] + i - 1
    BY <2>5, <2>6, <2>7
  <2> HIDE DEF heard
  <2>9. \E j \in DOMAIN heard : \E m \in 0 .. Len(heard) - Packets :
          \A i \in 1 .. Packets : heard[m + i] = heard[j] + i - 1
    BY <2>6, <2>8
  <2>10. EntryOf.kind = "watermark" /\ EntryOf.truth.heard = heard
    BY <1>3, <1>15 DEF heard
  <2> HIDE DEF kind
  <2>11. Genuine(EntryOf) <=>
           \E j \in DOMAIN heard : \E m \in 0 .. Len(heard) - Packets :
             \A i \in 1 .. Packets : heard[m + i] = heard[j] + i - 1
    BY <2>10 DEF Genuine
  <2> QED BY <2>9, <2>11
<1>16. CASE kind = "reset"
  <2>1. host.pc = 2
    <3>1. Len(Commands) = 1
      BY <1>16, OtherScripts DEF Commands
    <3> QED BY <1>1, <3>1
  <2>2. Current.rx \in host.truth.resets \/ "reset" \in host.flaws
    BY <1>1, <1>16, <2>1 DEF PhaseInv, OthersInv
  <2> QED BY <1>3, <1>16, <2>2 DEF Genuine, Relied
<1>17. CASE kind = "overflow"
  <2>1. rx.overflow > 0
    BY <1>6, <1>17 DEF Verdict
  <2>2. "resetCounters" \notin host.flaws => host.truth.overflow
    BY <1>1, <1>17, <2>1 DEF PhaseInv, OverflowInv, Cleared, Lines, Overflown
  <2> QED BY <1>3, <1>17, <2>2 DEF Genuine, Relied
<1>18. CASE kind \in {"scheduled", "txAt"}
  <2>1. tx.done \in Nat /\ Len(tx.ends) \in Nat
    <3>1. tx.done \in Nat /\ tx.ends \in Seq(Nat)
      BY <1>2 DEF LogType
    <3> QED BY <3>1
  <2>2. tx.done >= Packets \/ Len(tx.ends) = Packets
    BY <1>6, <1>18 DEF Verdict, ScheduledTxPasses, TxAtPasses
  <2>3. host.truth.sent >= Packets
    BY <1>2, <1>4, <1>5, <2>1, <2>2
  <2> QED BY <1>3, <1>18, <2>3 DEF Genuine
<1>19. CASE kind = "tone"
  <2>1. rx.rssi.tone = "high"
    BY <1>6, <1>19 DEF Verdict, TonePasses
  <2>2. host.truth.tone
    BY <1>1, <2>1 DEF PhaseInv, OthersInv, Lines
  <2> QED BY <1>3, <1>19, <2>2 DEF Genuine
<1>20. CASE kind = "noTone"
  <2>1. rx.rssi.tone # "none"
    BY <1>6, <1>20 DEF Verdict, TonePasses
  <2>2. host.truth.tone \/ Toneless
    BY <1>1, <1>20, <2>1 DEF PhaseInv, OthersInv, Lines
  <2> QED BY <1>3, <1>20, <2>2 DEF Genuine, Relied, Toneless
<1>21. CASE kind = "fault"
  <2>1. Len(Commands) = 8
    BY <1>21 DEF Commands, Script, FaultRecovery
  <2>2. host.pc > 3
    BY <1>1, <2>1
  <2>3. host.truth.listened \/ "rx" \in host.flaws
    BY <1>1, <1>21, <2>2 DEF PhaseInv, OthersInv
  <2> QED BY <1>3, <1>21, <2>3 DEF Genuine, Relied
<1>22. CASE kind \in {"lowPower", "restore"}
  BY <1>3, <1>22 DEF Genuine
<1> QED BY <1>2, <1>7, <1>8, <1>9, <1>11, <1>12, <1>13, <1>14, <1>15, <1>16, <1>17, <1>18,
           <1>19, <1>20, <1>21, <1>22 DEF Kinds


\* What the entry of a phase says, and what it proves if the phase passed.
Told(p, phase) ==
  /\ p.kind = phase.kind /\ p.rx = phase.rx
  /\ p.passed => p.flaws \cap Relied(p.kind) # {} \/ Genuine(p)
  /\ p.passed /\ p.kind = "direction" =>
       /\ p.ends # <<>> /\ Last(p.ends) = Packets
       /\ p.status # None /\ p.status.count = Packets /\ p.status.crc = 0
       /\ p.status.overflow > 0 => "resetCounters" \in p.flaws

\* A script has told the truth of the phases behind it, and a report of all of them.
DoneInv == Running => \A i \in 1 .. Len(host.done) : Told(host.done[i], host.phases[i])
ReportInv ==
  report # None =>
    \E rx \in Boards :
      LET phases == Phases(report.probe, rx, Peer(rx))
      IN /\ Len(report.phases) = Len(phases)
         /\ \A i \in 1 .. Len(phases) : Told(report.phases[i], phases[i])

\* The entry a phase leaves is such a one.
LEMMA EntryTold ==
  ASSUME Types, Placed, PhaseInv, FinishPhase
  PROVE  Told(EntryOf, Current)
<1>1. EntryOf.kind = Current.kind /\ EntryOf.rx = Current.rx
  BY DEF EntryOf
<1>2. EntryOf.passed => EntryOf.flaws \cap Relied(EntryOf.kind) # {} \/ Genuine(EntryOf)
  BY VerdictIsGenuine
<1>3. ASSUME EntryOf.passed, EntryOf.kind = "direction"
      PROVE  /\ EntryOf.ends # <<>> /\ Last(EntryOf.ends) = Packets
             /\ EntryOf.status # None /\ EntryOf.status.count = Packets
             /\ EntryOf.status.crc = 0
             /\ EntryOf.status.overflow > 0 => "resetCounters" \in EntryOf.flaws
  <2> DEFINE rx == host.log[Current.rx]
             tx == host.log[Current.tx]
  <2>1. /\ EntryOf.status = rx.status /\ EntryOf.ends = tx.ends
        /\ EntryOf.flaws = host.flaws /\ EntryOf.passed = Verdict(Current.kind, rx, tx)
    BY DEF EntryOf
  <2>2. DirectionPasses(rx, tx)
    BY <1>1, <1>3, <2>1 DEF Verdict
  <2>3. /\ tx.ends # <<>> /\ Last(tx.ends) = Packets
        /\ rx.status # None /\ rx.status.count = Packets /\ rx.status.crc = 0
    BY <2>2 DEF DirectionPasses, PacketCheckPasses, PairSmokePasses
  <2>4. "resetCounters" \notin host.flaws => rx.status.overflow = 0 \/ rx.status.count = 0
    BY <1>1, <1>3, <2>3, FinishKeeps DEF PhaseInv, CountersInv, Cleared, Lines
  <2>5. "resetCounters" \notin host.flaws => rx.status.overflow = 0
    BY <2>3, <2>4, BenchAssumption
  <2> QED BY <2>1, <2>3, <2>5
<1> QED BY <1>1, <1>2, <1>3 DEF Told

\* Entries keep what they say.
LEMMA DoneKept ==
  ASSUME Types, Placed, PhaseInv, DoneInv, ReportInv, [Next]_vars
  PROVE  DoneInv' /\ ReportInv'
<1>1. CASE FinishPhase
  <2> DEFINE judged == Append(host.done, EntryOf)
  <2>1. /\ Running /\ EntryOf \in EntryType /\ host.done \in Seq(EntryType)
        /\ host.phase \in Nat /\ host.phases \in Seq(PhaseType)
    BY <1>1, EntryKept, FinishKeeps, Situation DEF HostType
  <2>2. /\ host.phase \in 1 .. Len(host.phases) /\ Len(host.done) = host.phase - 1
        /\ host.done = host.done
    BY <2>1 DEF Placed
  <2>3. /\ Len(judged) = host.phase
        /\ \A i \in 1 .. Len(host.done) : judged[i] = host.done[i]
        /\ judged[host.phase] = EntryOf
    <3>1. /\ Len(judged) = Len(host.done) + 1 /\ judged[Len(host.done) + 1] = EntryOf
          /\ \A i \in 1 .. Len(host.done) : judged[i] = host.done[i]
      BY <2>1
    <3>2. Len(host.done) + 1 = host.phase
      BY <2>1, <2>2
    <3> QED BY <3>1, <3>2
  <2> HIDE DEF judged
  <2>4. ASSUME NEW i \in 1 .. host.phase PROVE Told(judged[i], host.phases[i])
    <3>1. CASE i = host.phase
      <4>1. Told(EntryOf, host.phases[host.phase])
        BY <1>1, EntryTold DEF Current
      <4> QED BY <2>3, <3>1, <4>1
    <3>2. CASE i # host.phase
      <4>1. i \in 1 .. Len(host.done)
        BY <2>1, <2>2, <3>2
      <4>2. Told(host.done[i], host.phases[i])
        BY <2>1, <4>1 DEF DoneInv
      <4> QED BY <2>3, <4>1, <4>2
    <3> QED BY <3>1, <3>2
  <2>5. CASE host.phase < Len(host.phases)
    <3>1. host'.phases = host.phases /\ host'.done = judged /\ report' = report
      BY <1>1, <2>5, FinishKeeps DEF judged
    <3> QED BY <2>3, <2>4, <3>1 DEF DoneInv, ReportInv
  <2>6. CASE ~(host.phase < Len(host.phases))
    <3>1. /\ host' = Idle
          /\ report' = [probe |-> host.probe, phases |-> judged, quiet |-> host.quiet]
      BY <1>1, <2>6, FinishKeeps DEF judged
    <3>2. report'.probe = host.probe /\ report'.phases = judged
      BY <3>1
    <3>3. host.phase = Len(host.phases)
      BY <2>1, <2>2, <2>6
    <3>4. PICK rx \in Boards : host.phases = Phases(host.probe, rx, Peer(rx))
      BY <2>1 DEF Placed
    <3>5. /\ Len(report'.phases) = Len(Phases(report'.probe, rx, Peer(rx)))
          /\ \A i \in 1 .. Len(Phases(report'.probe, rx, Peer(rx))) :
               Told(report'.phases[i], Phases(report'.probe, rx, Peer(rx))[i])
      BY <2>3, <2>4, <3>2, <3>3, <3>4
    <3>6. ReportInv'
      BY <3>5 DEF ReportInv
    <3> QED BY <3>1, <3>6 DEF DoneInv, Running
  <2> QED BY <2>5, <2>6
<1>2. ASSUME NEW probe \in ProbesRun, NEW rx \in Boards, Begin(probe, rx)
      PROVE  DoneInv' /\ ReportInv'
  <2>1. host'.done = <<>> /\ report' = None
    BY <1>2 DEF Begin
  <2>2. Len(host'.done) = 0
    BY <2>1
  <2> QED BY <2>1, <2>2 DEF DoneInv, ReportInv
<1>3. ASSUME host' = Idle \/ (Running /\ host'.done = host.done /\ host'.phases = host.phases)
               \/ host' = host,
             report' = report
      PROVE  DoneInv' /\ ReportInv'
  <2>1. ReportInv'
    BY <1>3 DEF ReportInv
  <2>2. DoneInv'
    BY <1>3 DEF DoneInv, Running
  <2> QED BY <2>1, <2>2
<1>4. ASSUME WithinPhase PROVE report' = report /\ InPhase
  <2>1. Execute => report' = report
    BY DEF Execute
  <2>2. ReadRssi => report' = report
    BY DEF ReadRssi
  <2>3. Wait \/ LoseCommand => report' = report
    BY DEF Wait, LoseCommand
  <2>4. ASSUME NEW b \in Boards, SendNext(b) \/ AutoTx(b) \/ ScheduledAttempt(b) \/ Restart(b)
        PROVE  report' = report
    BY <2>4, SenderStep, RestartKeeps DEF RadioStep
  <2> QED BY <1>4, <2>1, <2>2, <2>3, <2>4, ReceiverSteps DEF WithinPhase
<1>5. CASE WithinPhase
  BY <1>3, <1>4, <1>5 DEF InPhase, WithinPhase
<1>6. ASSUME NEW b \in Boards, SendNext(b) \/ AutoTx(b) \/ ScheduledAttempt(b) \/ Restart(b),
             ~Running
      PROVE  DoneInv' /\ ReportInv'
  <2>1. host' = Idle /\ report' = report
    BY <1>6, SenderStep, RestartKeeps DEF RadioStep, Running
  <2> QED BY <1>3, <2>1
<1>7. CASE Kill
  BY <1>3, <1>7 DEF Kill
<1>8. CASE UNCHANGED vars
  BY <1>3, <1>8 DEF vars
<1>9. Execute \/ ReadRssi \/ Wait \/ LoseCommand => WithinPhase
  BY DEF WithinPhase, Execute, ReadRssi, Wait, LoseCommand, AtCommand
<1>10. ASSUME NEW b \in Boards, SendNext(b) \/ AutoTx(b) \/ ScheduledAttempt(b) \/ Restart(b)
       PROVE  DoneInv' /\ ReportInv'
  BY <1>5, <1>6, <1>10 DEF WithinPhase
<1> QED BY <1>1, <1>2, <1>5, <1>7, <1>8, <1>9, <1>10 DEF Next

\* The inductive invariant.
BenchInv == Types /\ Placed /\ PhaseInv /\ DoneInv /\ ReportInv

\* All of it holds at any time.
LEMMA BenchHolds == Spec => []BenchInv
<1>1. Init => BenchInv
  <2> SUFFICES ASSUME Init PROVE BenchInv
    OBVIOUS
  <2>1. Types /\ Placed
    BY TypesInit
  <2>2. ~Running /\ report = None /\ board = [b \in Boards |-> Fresh]
    BY DEF Init, Running
  <2>3. RolesInv
    BY <2>2, FreshFields DEF RolesInv, ClearOutside
  <2> QED BY <2>1, <2>2, <2>3 DEF BenchInv, PhaseInv, LinesInv, CountersInv, OverflowInv,
                                  CountingInv, OthersInv, Cleared, DoneInv, ReportInv
<1>2. BenchInv /\ [Next]_vars => BenchInv'
  BY TypesKept, PhaseKept, DoneKept DEF BenchInv
<1> QED BY <1>1, <1>2, PTL DEF Spec

\* No earlier run that was killed, no lost command or packet and no restart makes a
\* script pass on old counts, old roles or lines of another run: what it claims was heard,
\* sent or seen in its phases, or its claim rests on something it is known not to notice.
THEOREM PassingIsGenuine == Spec => []PassIsGenuine
<1>1. BenchInv => PassIsGenuine
  <2> SUFFICES ASSUME BenchInv, report # None, Passed(report),
                      NEW i \in DOMAIN report.phases
               PROVE  \/ report.phases[i].flaws \cap Relied(report.phases[i].kind) # {}
                      \/ Genuine(report.phases[i])
    BY DEF PassIsGenuine
  <2>1. PICK rx \in Boards :
          LET phases == Phases(report.probe, rx, Peer(rx))
          IN /\ Len(report.phases) = Len(phases)
             /\ \A j \in 1 .. Len(phases) : Told(report.phases[j], phases[j])
    BY DEF BenchInv, ReportInv
  <2>2. report.phases \in Seq(EntryType)
    BY DEF BenchInv, Types, ReportType
  <2>3. i \in 1 .. Len(Phases(report.probe, rx, Peer(rx)))
    BY <2>1, <2>2
  <2>4. report.phases[i].passed
    BY DEF Passed
  <2> QED BY <2>1, <2>3, <2>4 DEF Told
<1> QED BY <1>1, BenchHolds, PTL

\* A retention run that calls itself passed has the counters the audit of gate E0-01
\* asks for, but for an overflow of an earlier script whose counter was not cleared.
THEOREM RetentionIsProven == Spec => []RetentionAgrees
<1>1. BenchInv => RetentionAgrees
  <2> SUFFICES ASSUME BenchInv, report # None, report.probe = "retention", Passed(report),
                      \A p \in ToSet(report.phases) :
                        ~("resetCounters" \in p.flaws /\ p.status.overflow > 0)
               PROVE  RetentionProven(report)
    BY DEF RetentionAgrees
  <2>1. PICK rx \in Boards :
          LET phases == Phases(report.probe, rx, Peer(rx))
          IN /\ Len(report.phases) = Len(phases)
             /\ \A j \in 1 .. Len(phases) : Told(report.phases[j], phases[j])
    BY DEF BenchInv, ReportInv
  <2> DEFINE phases == <<Phase("direction", rx, Peer(rx)), Phase("direction", Peer(rx), rx)>>
             e == report.phases
  <2>2. /\ Phases(report.probe, rx, Peer(rx)) = phases
        /\ Len(phases) = 2 /\ phases[1].kind = "direction" /\ phases[2].kind = "direction"
        /\ phases[1].rx = rx /\ phases[2].rx = Peer(rx)
    BY DEF Phases, Phase
  <2>3. /\ e \in Seq(EntryType) /\ Len(e) = 2 /\ DOMAIN e = {1, 2}
    BY <2>1, <2>2 DEF BenchInv, Types, ReportType
  <2>4. ToSet(e) = {e[1], e[2]}
    BY <2>3 DEF ToSet
  <2>5. Told(e[1], phases[1]) /\ Told(e[2], phases[2]) /\ e[1].passed /\ e[2].passed
    BY <2>1, <2>2, <2>3 DEF Passed
  <2>6. /\ e[1].kind = "direction" /\ e[1].rx = rx
        /\ e[2].kind = "direction" /\ e[2].rx = Peer(rx)
    BY <2>2, <2>5 DEF Told
  <2>7. {p.rx : p \in ToSet(e)} = Boards
    BY <2>4, <2>6, TwoBoards
  <2>8. ASSUME NEW p \in ToSet(e)
        PROVE  /\ p.ends # <<>> /\ Last(p.ends) = Packets
               /\ p.status # None /\ p.status.count = Packets
               /\ SyncDetect(p.status) = Packets /\ p.status.crc = 0
    <3>1. /\ p.ends # <<>> /\ Last(p.ends) = Packets
          /\ p.status # None /\ p.status.count = Packets /\ p.status.crc = 0
          /\ p.status.overflow > 0 => "resetCounters" \in p.flaws
      BY <2>4, <2>5, <2>6 DEF Told
    <3>2. p \in EntryType
      BY <2>3, <2>4
    <3>3. p.status \in StatusType
      BY <3>1, <3>2 DEF EntryType
    <3>4. p.status.overflow \in {0, 1} /\ ~(p.status.overflow > 0)
      BY <3>1, <3>3 DEF StatusType
    <3>5. p.status.overflow = 0 /\ Packets \in Nat
      BY <3>4, BenchAssumption
    <3> QED BY <3>1, <3>5 DEF SyncDetect
  <2> QED BY <2>3, <2>7, <2>8 DEF RetentionProven
<1> QED BY <1>1, BenchHolds, PTL
=============================================================================
