----------------------------- MODULE BenchProbe -----------------------------
(***************************************************************************)
(* The bench of Prototype 0: two FG23 boards on serial lines, and host     *)
(* scripts that send them commands without an acknowledgement, wait, send  *)
(* packets from one board to the other, and judge from the lines the       *)
(* boards printed.  Boards keep their state from one script to the next;   *)
(* packets get lost or corrupted on the air, commands on the line; a       *)
(* script is killed or a board restarts at any moment.                     *)
(*                                                                         *)
(* Sleeps are long enough for a command to take effect and for its lines   *)
(* to be read, and no old line is waiting in a port when it is opened.     *)
(* Lengths, RF paths and notifications are left out.                       *)
(***************************************************************************)
EXTENDS Integers, Sequences, FiniteSets, SequencesExt

CONSTANTS
  Boards,       \* the two boards
  Packets,      \* packets, expected packets or attempts of a script
  Injected,     \* malformed packets of the script that sends some
  ReportEvery,  \* a board in the RX role reports every so many packets
  ProbesRun,    \* the scripts that are run
  MaxSequence,  \* bound on the packets of a board in the TX role
  MaxProbes,    \* bound on the scripts started
  MaxMishaps    \* bound on lost commands, killed scripts and restarts

\* The scripts; those of the last lines consist of several phases.
Probes == {"packets", "autorole", "pressure", "malformed", "watermark", "scheduled", "txAt",
           "tone", "noTone", "fault", "forcedReset", "smoke", "retention", "capacity",
           "powerSweep", "recovery", "overflowRecovery"}

ASSUME BenchAssumption ==
  /\ IsFiniteSet(Boards) /\ Cardinality(Boards) = 2 /\ ProbesRun \subseteq Probes
  /\ Packets \in Nat \ {0} /\ ReportEvery \in Nat \ {0} /\ Packets % ReportEvery = 0
  /\ Injected \in Nat \ {0} /\ MaxSequence \in Nat /\ MaxSequence >= Packets

VARIABLES
  board,   \* per board: its application and RAILtest state
  host,    \* the running script
  report,  \* the outcome of the last script, None while one runs
  started, \* scripts started
  mishaps  \* mishaps so far

vars == <<board, host, report, started, mishaps>>

Vendor == -1     \* a packet without an OpenRef header
Malformed == 0   \* a packet with a bad header; others have their sequence number
None == [none |-> TRUE]

Idle == [probe |-> "none"]

-----------------------------------------------------------------------------
(* A board: the OpenRef application beside RAILtest's command line. *)

\* sequence, next, rx, gaps and faults are the packet-pair state, next = 0
\* when no sequence is expected; attempts, tried and taken belong to scheduled
\* transmission, the rest to RAILtest, which has sent all but left of the
\* burst packets of its last tx command.
Fresh == [role |-> "idle", sequence |-> 0, next |-> 0, rx |-> 0, gaps |-> 0, faults |-> 0,
          attempts |-> Packets + 1, tried |-> 0, taken |-> 0, pending |-> FALSE,
          reported |-> FALSE, listening |-> FALSE, overflowing |-> FALSE, loaded |-> Vendor,
          burst |-> 0, left |-> 0,
          power |-> "normal", tone |-> FALSE, count |-> 0, crc |-> 0, overflow |-> 0, userTx |-> 0]

\* What the host keeps of the lines of a board: the last report and status, the
\* ends of transmissions, and how many or which of the others.
Blank == [marker |-> None, fails |-> 0, lines |-> 0, seen |-> {}, mem |-> <<>>, status |-> None,
          overflow |-> 0, ends |-> <<>>, queued |-> 0, done |-> 0, summary |-> None,
          rssi |-> [baseline |-> "none", tone |-> "none"]]

InitState(b) ==
  [b EXCEPT !.sequence = 0, !.next = 0, !.rx = 0, !.gaps = 0, !.faults = 0]

\* Mutant: a change of role keeps the counts of the last one.
SetRole_KeepsState(b, role) ==
  IF role = b.role THEN b
  ELSE [b EXCEPT !.role = role, !.listening = (role = "rx"), !.tried = 0,
                 !.taken = 0, !.pending = FALSE, !.reported = FALSE]

\* A role is taken up, with the state cleared and the radio stopped, only if
\* it differs from the one before.
SetRole(b, role) ==
  IF role = b.role THEN b
  ELSE [InitState(b) EXCEPT !.role = role, !.listening = (role = "rx"), !.tried = 0,
                            !.taken = 0, !.pending = FALSE, !.reported = FALSE]

\* A packet held for the application: parsed, counted, and reported every so
\* often and at a gap.
Accept(b, log, p) ==
  LET gap == b.next # 0 /\ p # b.next
      after == [b EXCEPT !.rx = @ + 1, !.next = p + 1, !.gaps = IF gap THEN @ + 1 ELSE @]
      marker == [rx |-> after.rx, sequence |-> p, gaps |-> after.gaps, faults |-> after.faults]
  IN IF p < 1
     THEN [b |-> [b EXCEPT !.faults = @ + 1], log |-> [log EXCEPT !.fails = @ + 1]]
     ELSE [b |-> after,
           log |-> IF gap \/ after.rx % ReportEvery = 0
                   THEN [log EXCEPT !.marker = marker] ELSE log]

\* A packet reaches a board.  RAILtest counts it, and prints it unless the
\* application takes it.
Receive(b, log, p, fate) ==
  LET counted == [b EXCEPT !.count = @ + 1]
  IN CASE ~b.listening \/ fate = "lost" -> [b |-> b, log |-> log]
       [] b.listening /\ fate = "corrupt" -> [b |-> [b EXCEPT !.crc = @ + 1], log |-> log]
       [] b.listening /\ fate = "heard" /\ b.overflowing ->
            [b |-> [b EXCEPT !.overflow = 1], log |-> log]
       [] b.listening /\ fate = "heard" /\ ~b.overflowing /\ b.role = "rx" ->
            Accept(counted, log, p)
       [] OTHER -> [b |-> counted, log |-> [log EXCEPT !.lines = @ + 1, !.seen = @ \cup {p}]]

StatusOf(b) == [count |-> b.count, crc |-> b.crc, overflow |-> b.overflow, userTx |-> b.userTx,
                rest |-> ~b.listening /\ ~b.tone]

\* A command that only concerns the board itself.
Obey(b, log, do, arg) ==
  LET keep(c) == [b |-> c, log |-> log]
  IN CASE do = "rx" -> keep([b EXCEPT !.listening = arg])
       [] do = "resetCounters" ->
            keep([b EXCEPT !.count = 0, !.crc = 0, !.overflow = 0, !.userTx = 0])
       [] do = "role" /\ arg # "mem" -> keep(SetRole(b, arg))
       [] do = "role" /\ arg = "mem" ->
            [b |-> InitState([SetRole(b, "idle") EXCEPT !.listening = FALSE]),
             log |-> [log EXCEPT !.mem = Append(@, [rx |-> b.rx, gaps |-> b.gaps,
                                                     faults |-> b.faults])]]
       [] do = "attempts" -> keep([b EXCEPT !.attempts = arg])
       [] do = "load" -> keep([b EXCEPT !.loaded = arg])
       [] do = "send" -> keep([b EXCEPT !.burst = arg, !.left = arg])
       [] do = "setRxOverflow" -> keep([b EXCEPT !.overflowing = arg])
       [] do = "setPower" -> keep([b EXCEPT !.power = arg])
       [] do = "setTxTone" -> keep([b EXCEPT !.tone = arg])
       [] do = "txCancel" -> keep(b)
       [] do = "reset" -> keep(Fresh)
       [] do = "status" -> [b |-> b, log |-> [log EXCEPT !.status = StatusOf(b),
                              !.overflow = IF b.overflow > @ THEN b.overflow ELSE @]]

-----------------------------------------------------------------------------
(* The scripts: a probe is a sequence of phases, each one a list of         *)
(* commands to the boards in the roles rx and tx, and a verdict.            *)

Step(to, do, arg) == [to |-> to, do |-> do, arg |-> arg]
Both(do, arg) == <<Step("rx", do, arg), Step("tx", do, arg)>>

\* Load each packet into the transmitter and send it.
SendEach(packets) ==
  [k \in 1 .. 2 * Len(packets) |->
     IF k % 2 = 1 THEN Step("tx", "load", packets[(k + 1) \div 2]) ELSE Step("tx", "send", 1)]
SendAll == SendEach([i \in 1 .. Packets |-> i])
SendMalformed == SendEach([i \in 1 .. Injected |-> Malformed])

\* Send n packets of the vendor; to load is to set their length.
SendVendor(n) == <<Step("tx", "load", Vendor), Step("tx", "send", n)>>

PairSmoke ==
  Both("rx", FALSE) \o <<Step("rx", "resetCounters", 0), Step("rx", "rx", TRUE),
                         Step("tx", "resetCounters", 0)>>
  \o SendVendor(Packets) \o Both("status", 0) \o <<Step("rx", "rx", FALSE)>>

PacketRun ==
  Both("rx", FALSE) \o <<Step("rx", "resetCounters", 0), Step("rx", "rx", TRUE),
                         Step("tx", "resetCounters", 0)>>
  \o SendAll \o Both("status", 0) \o <<Step("rx", "rx", FALSE)>>

\* Mutant: only the receiver is taken out of its role in the end.
AutoRole_SenderLeft ==
  Both("rx", FALSE) \o Both("resetCounters", 0)
  \o <<Step("rx", "role", "rx"), Step("tx", "role", "tx"), Step("tx", "wait", 0),
       Step("rx", "role", "idle")>> \o Both("status", 0)

AutoRole ==
  Both("rx", FALSE) \o Both("resetCounters", 0)
  \o <<Step("rx", "role", "rx"), Step("tx", "role", "tx"), Step("tx", "wait", 0)>>
  \o Both("role", "idle") \o Both("status", 0)

\* Packets of the host to a board in the RX role.
Inject(before, packets, after) ==
  Both("rx", FALSE) \o Both("resetCounters", 0) \o before \o <<Step("rx", "role", "rx")>>
  \o packets \o after

QueuePressure ==
  Inject(<<>>, SendAll, <<Step("rx", "role", "idle")>> \o Both("status", 0))

MalformedRx ==
  Inject(<<>>, SendMalformed \o SendAll,
            <<Step("rx", "role", "idle")>> \o Both("status", 0))

MemoryWatermark ==
  LET mem == <<Step("rx", "role", "mem")>>
  IN Inject(mem, SendAll,
               mem \o Both("status", 0) \o <<Step("rx", "role", "idle")>>)

Overflow ==
  Both("rx", FALSE)
  \o <<Step("rx", "resetCounters", 0), Step("rx", "setRxOverflow", TRUE),
       Step("rx", "rx", TRUE), Step("tx", "resetCounters", 0)>> \o SendVendor(1)
  \o <<Step("rx", "status", 0), Step("rx", "setRxOverflow", FALSE), Step("rx", "rx", FALSE),
       Step("rx", "status", 0), Step("tx", "rx", FALSE), Step("tx", "status", 0),
       Step("tx", "reset", 0), Step("rx", "reset", 0)>>

ScheduledTx ==
  <<Step("tx", "rx", FALSE), Step("tx", "resetCounters", 0), Step("tx", "attempts", Packets),
    Step("tx", "role", "scheduled"), Step("tx", "wait", 0), Step("tx", "role", "idle"),
    Step("tx", "status", 0)>>

TxAt ==
  <<Step("tx", "rx", FALSE), Step("tx", "resetCounters", 0)>>
  \o [i \in 1 .. Packets |-> Step("tx", "send", 1)] \o <<Step("tx", "status", 0)>>

\* The level at the receiver is read without and with a tone of the transmitter.
Tone ==
  Both("rx", FALSE)
  \o <<Step("tx", "setTxTone", FALSE), Step("rx", "rx", TRUE),
       Step("rx", "getRssi", "baseline"), Step("tx", "setTxTone", TRUE),
       Step("rx", "getRssi", "tone"), Step("tx", "setTxTone", FALSE), Step("rx", "rx", FALSE)>>

\* One board alone is made to listen and stopped.
FaultRecovery ==
  <<Step("rx", "rx", FALSE), Step("rx", "resetCounters", 0), Step("rx", "rx", TRUE),
    Step("rx", "rx", FALSE), Step("rx", "txCancel", 0), Step("rx", "status", 0),
    Step("rx", "rx", FALSE), Step("rx", "status", 0)>>

\* The power read back is only noted.
SetTxPower(power) ==
  <<Step("tx", "rx", FALSE), Step("tx", "setPower", power)>>

\* The commands of a phase.
Script(kind) ==
  CASE kind \in {"smoke", "check", "direction"} -> PairSmoke
    [] kind = "packets" -> PacketRun
    [] kind = "autorole" -> AutoRole
    [] kind = "pressure" -> QueuePressure
    [] kind = "reset" -> <<Step("rx", "reset", 0)>>
    [] kind = "malformed" -> MalformedRx
    [] kind = "watermark" -> MemoryWatermark
    [] kind = "overflow" -> Overflow
    [] kind = "scheduled" -> ScheduledTx
    [] kind = "txAt" -> TxAt
    [] kind \in {"tone", "noTone"} -> Tone
    [] kind = "fault" -> FaultRecovery
    [] kind = "lowPower" -> SetTxPower("low")
    [] kind = "restore" -> SetTxPower("normal")

\* The recovery probe repeats one run; the capacity sweep varies the payload.
RoleRuns == <<"autorole", "autorole">>

\* The phases of a probe from rx to tx.
Phase(kind, rx, tx) == [kind |-> kind, rx |-> rx, tx |-> tx]
Phases(probe, rx, tx) ==
  LET same(kinds) == [i \in DOMAIN kinds |-> Phase(kinds[i], rx, tx)]
  IN CASE probe = "smoke" -> <<Phase("smoke", rx, tx), Phase("smoke", tx, rx)>>
       [] probe = "retention" -> <<Phase("direction", rx, tx), Phase("direction", tx, rx)>>
       [] probe = "capacity" -> same(<<"check", "check">>)
       [] probe = "powerSweep" -> same(<<"lowPower", "check", "restore">>)
       [] probe = "recovery" -> same(RoleRuns)
       [] probe = "forcedReset" -> same(<<"pressure", "reset", "pressure">>)
       [] probe = "overflowRecovery" -> same(<<"overflow", "check">>)
       [] OTHER -> same(<<probe>>)

\* What a script makes of the lines of its receiver and its transmitter.
CountersClean(rx) == rx.status = None \/ rx.status.overflow = 0

Healthy(marker) == marker.rx >= Packets /\ marker.gaps = 0 /\ marker.faults = 0

PairSmokePasses(rx, tx) == rx.lines > 0 /\ tx.ends # <<>>

PacketCheckPasses(rx, tx) ==
  /\ PairSmokePasses(rx, tx)
  /\ Last(tx.ends) = Packets
  /\ rx.status # None /\ rx.status.count = Packets

\* Mutant: packets dropped with a bad checksum do not matter.
DirectionPasses_AnyDrops(rx, tx) == PacketCheckPasses(rx, tx)

\* One direction of the retention run.
DirectionPasses(rx, tx) == PacketCheckPasses(rx, tx) /\ rx.status.crc = 0

\* The smoke test of a status run.
StatusSmokePasses(rx, tx) ==
  /\ PairSmokePasses(rx, tx)
  /\ rx.lines = Packets /\ Last(tx.ends) = Packets
  /\ rx.status # None /\ rx.status.count = Packets
  /\ rx.status.crc = 0 /\ rx.status.overflow = 0
  /\ tx.status # None /\ tx.status.userTx = Packets

\* Mutant: the last report of a phase decides, gaps or not.
QueuePressurePasses_AnyGaps(rx) ==
  /\ rx.marker # None /\ rx.marker.rx >= Packets
  /\ CountersClean(rx)

QueuePressurePasses(rx) ==
  /\ rx.marker # None /\ Healthy(rx.marker) /\ rx.marker.sequence = Packets
  /\ CountersClean(rx)

MalformedPasses(rx) ==
  /\ rx.fails >= Injected
  /\ rx.marker # None /\ rx.marker.rx >= Packets /\ rx.marker.faults >= Injected

MemoryWatermarkPasses(rx) ==
  Len(rx.mem) >= 2 /\ Healthy(Last(rx.mem)) /\ CountersClean(rx)

ScheduledTxPasses(tx) ==
  /\ tx.summary = [tried |-> Packets, taken |-> Packets]
  /\ tx.queued >= Packets /\ tx.done >= Packets

TxAtPasses(tx) ==
  Len(tx.ends) = Packets /\ tx.status # None /\ tx.status.userTx = Packets

\* The level rises with the tone, or is expected not to.
TonePasses(rx, expected) ==
  /\ rx.rssi.baseline # "none" /\ rx.rssi.tone # "none"
  /\ (rx.rssi.baseline = "low" /\ rx.rssi.tone = "high") = expected

FaultProbePasses(rx) == rx.status # None /\ rx.status.rest

Verdict(kind, rx, tx) ==
  CASE kind = "smoke" -> StatusSmokePasses(rx, tx)
    [] kind = "check" -> PacketCheckPasses(rx, tx)
    [] kind = "direction" -> DirectionPasses(rx, tx)
    [] kind = "packets" -> 1 .. Packets \subseteq rx.seen
    [] kind = "autorole" -> rx.marker # None /\ Healthy(rx.marker)
    [] kind = "pressure" -> QueuePressurePasses(rx)
    [] kind = "malformed" -> MalformedPasses(rx)
    [] kind = "watermark" -> MemoryWatermarkPasses(rx)
    [] kind = "overflow" -> rx.overflow > 0
    [] kind = "scheduled" -> ScheduledTxPasses(tx)
    [] kind = "txAt" -> TxAtPasses(tx)
    [] kind = "tone" -> TonePasses(rx, TRUE)
    [] kind = "noTone" -> TonePasses(rx, FALSE)
    [] kind = "fault" -> FaultProbePasses(rx)
    [] kind \in {"reset", "lowPower", "restore"} -> TRUE

-----------------------------------------------------------------------------
(* Steps. *)

\* truth: what really happened in the phase, whatever was printed: packets
\* that reached a listening receiver, packets sent, boards restarted, a receiver
\* that listened, a tone while its level was read.
NoTruth == [heard |-> <<>>, sent |-> 0, resets |-> {}, overflow |-> FALSE,
            listened |-> FALSE, tone |-> FALSE]

Running == host # Idle
Current == host.phases[host.phase]
Commands == Script(Current.kind)

\* A sleep after tx lasts until the packets are sent.
Sent == \A b \in Boards : board[b].left = 0

AtCommand == Running /\ host.pc <= Len(Commands) /\ Sent
Command == Commands[host.pc]
Target == IF Command.to = "rx" THEN Current.rx ELSE Current.tx
Peer(b) == CHOOSE other \in Boards : other # b
Log(b) == IF Running THEN host.log[b] ELSE Blank

\* flaws: commands lost in the phase, a restart, and a role its receiver had
\* before it.
FlawsAtStart(rx) == IF board[rx].role = "idle" THEN {} ELSE {"roleLeft"}

Begin(probe, rx) ==
  /\ ~Running /\ Sent /\ started < MaxProbes
  /\ started' = started + 1
  /\ host' = [probe |-> probe, phases |-> Phases(probe, rx, Peer(rx)), phase |-> 1, pc |-> 1,
              log |-> [b \in Boards |-> Blank], truth |-> NoTruth,
              flaws |-> FlawsAtStart(rx), done |-> <<>>, quiet |-> TRUE]
  /\ report' = None
  /\ UNCHANGED <<board, mishaps>>

Fates == {"heard", "lost", "corrupt"}

\* A board sends p: both boards and the host afterwards.  b is the sender and
\* log what is kept of its lines.
Transmit(from, b, log, p, fate) ==
  LET to == Peer(from)
      end == Receive(board[to], Log(to), p, fate)
      heard == board[to].listening /\ fate = "heard"
  IN /\ board' = [board EXCEPT ![from] = b, ![to] = end.b]
     /\ host' = IF ~Running THEN host
                ELSE [host EXCEPT
                  !.log = [@ EXCEPT ![from] = log, ![to] = end.log],
                  !.truth.heard = IF heard /\ to = Current.rx THEN Append(@, p) ELSE @,
                  !.truth.sent = IF from = Current.tx THEN @ + 1 ELSE @,
                  !.truth.overflow = @ \/ (heard /\ to = Current.rx /\ board[to].overflowing),
                  !.quiet = @ /\ fate = "heard"]

\* The next command reaches its board and is carried out.
Execute ==
  /\ AtCommand /\ Command.do \notin {"wait", "getRssi"}
  /\ LET out == Obey(board[Target], host.log[Target], Command.do, Command.arg)
     IN /\ board' = [board EXCEPT ![Target] = out.b]
        /\ host' = [host EXCEPT !.log[Target] = out.log, !.pc = @ + 1,
             !.truth.listened = @ \/ (Target = Current.rx /\ out.b.listening),
             !.truth.resets = IF Command.do = "reset" THEN @ \cup {Target} ELSE @]
  /\ UNCHANGED <<report, started, mishaps>>

\* A board sends the next packet of a tx command; after the last one it prints
\* how many it sent.
SendNext(from) ==
  /\ board[from].left > 0
  /\ \E fate \in Fates :
       LET b == board[from]
       IN Transmit(from, [b EXCEPT !.left = @ - 1, !.userTx = @ + 1],
                   IF b.left = 1 THEN [Log(from) EXCEPT !.ends = Append(@, b.burst)]
                                 ELSE Log(from),
                   b.loaded, fate)
  /\ UNCHANGED <<report, started, mishaps>>

\* A listening board tells the level at its antenna: high if the other one's
\* tone comes through.
ReadRssi ==
  /\ AtCommand /\ Command.do = "getRssi"
  /\ LET tone == board[Peer(Target)].tone
         expected == IF tone /\ Current.kind = "tone" THEN "high" ELSE "low"
     IN \E level \in IF tone THEN {"low", "high"} ELSE {"low"} :
          host' = [host EXCEPT !.pc = @ + 1,
            !.log[Target].rssi[Command.arg] = IF board[Target].listening THEN level ELSE "none",
            !.truth.tone = IF Command.arg = "tone" THEN tone ELSE @,
            !.quiet = @ /\ level = expected]
  /\ UNCHANGED <<board, report, started, mishaps>>

\* The script sleeps until the board has had time for what it was told.
Wait ==
  /\ AtCommand /\ Command.do = "wait"
  /\ LET b == board[Target]
     IN /\ b.role = "tx" => b.sequence >= Packets
        /\ b.role = "scheduled" => b.reported \/ b.pending
  /\ host' = [host EXCEPT !.pc = @ + 1]
  /\ UNCHANGED <<board, report, started, mishaps>>

\* A board in the TX role sends its next packet, told by the host or not.
AutoTx(from) ==
  /\ board[from].role = "tx" /\ board[from].sequence < MaxSequence
  /\ \E fate \in Fates :
       LET b == [board[from] EXCEPT !.sequence = @ + 1, !.userTx = @ + 1]
       IN Transmit(from, b, Log(from), b.sequence, fate)
  /\ UNCHANGED <<report, started, mishaps>>

\* A scheduled transmission is refused, or queued and done, or queued and
\* never completed; after the last attempt a summary is printed.
ScheduledAttempt(from) ==
  LET b == board[from]
      log == Log(from)
      tried == [b EXCEPT !.tried = @ + 1, !.sequence = @ + 1]
      keep(to, lines) ==
        /\ board' = [board EXCEPT ![from] = to]
        /\ host' = IF Running THEN [host EXCEPT !.log[from] = lines, !.quiet = FALSE] ELSE host
  IN /\ b.role = "scheduled" /\ ~b.pending /\ ~b.reported
     /\ \/ /\ b.tried < b.attempts
           /\ \/ keep(tried, [log EXCEPT !.queued = @ + 1])
              \/ keep([tried EXCEPT !.taken = @ + 1, !.pending = TRUE],
                      [log EXCEPT !.queued = @ + 1])
              \/ \E fate \in Fates :
                   LET done == [tried EXCEPT !.taken = @ + 1, !.userTx = @ + 1]
                   IN Transmit(from, done, [log EXCEPT !.queued = @ + 1, !.done = @ + 1],
                               done.sequence, fate)
        \/ /\ b.tried >= b.attempts
           /\ board' = [board EXCEPT ![from].reported = TRUE]
           /\ host' = IF Running
                      THEN [host EXCEPT !.log[from].summary =
                              [tried |-> b.tried, taken |-> b.taken]]
                      ELSE host
     /\ UNCHANGED <<report, started, mishaps>>

Passed(r) == \A i \in DOMAIN r.phases : r.phases[i].passed

\* The script judges a phase, and goes on to the next or ends.
FinishPhase ==
  /\ Running /\ host.pc > Len(Commands) /\ Sent
  /\ LET judged == Append(host.done,
            [kind |-> Current.kind, rx |-> Current.rx, tx |-> Current.tx,
             passed |-> Verdict(Current.kind, host.log[Current.rx], host.log[Current.tx]),
             status |-> host.log[Current.rx].status, ends |-> host.log[Current.tx].ends,
             truth |-> host.truth, flaws |-> host.flaws])
     IN IF host.phase < Len(host.phases)
        THEN /\ host' = [host EXCEPT !.phase = @ + 1, !.pc = 1, !.done = judged,
                  !.log = [b \in Boards |-> Blank], !.truth = NoTruth,
                  !.flaws = FlawsAtStart(host.phases[host.phase + 1].rx)]
             /\ UNCHANGED report
        ELSE /\ host' = Idle
             /\ report' = [probe |-> host.probe, phases |-> judged, quiet |-> host.quiet]
  /\ UNCHANGED <<board, started, mishaps>>

Mishap == mishaps < MaxMishaps /\ mishaps' = mishaps + 1

\* A command does not arrive.
LoseCommand ==
  /\ Mishap /\ AtCommand /\ Command.do # "wait"
  /\ host' = [host EXCEPT !.pc = @ + 1, !.flaws = @ \cup {Command.do}, !.quiet = FALSE]
  /\ UNCHANGED <<board, report, started>>

\* The script is killed.
Kill ==
  /\ Mishap /\ Running /\ host' = Idle
  /\ UNCHANGED <<board, report, started>>

\* A board restarts by itself.
Restart(b) ==
  /\ Mishap /\ board[b] # Fresh
  /\ board' = [board EXCEPT ![b] = Fresh]
  /\ host' = IF Running THEN [host EXCEPT !.quiet = FALSE, !.flaws = @ \cup {"restart"}]
             ELSE host
  /\ UNCHANGED <<report, started>>

Init ==
  /\ board = [b \in Boards |-> Fresh]
  /\ host = Idle /\ report = None /\ started = 0 /\ mishaps = 0

Next ==
  \/ \E probe \in ProbesRun, rx \in Boards : Begin(probe, rx)
  \/ Execute \/ ReadRssi \/ Wait \/ FinishPhase \/ LoseCommand \/ Kill
  \/ \E b \in Boards : SendNext(b) \/ AutoTx(b) \/ ScheduledAttempt(b) \/ Restart(b)

Spec == Init /\ [][Next]_vars

-----------------------------------------------------------------------------
(* The audit of gate E0-01 reads what a retention run reported. *)

\* A sync word was found for every packet that was counted or dropped.
SyncDetect(status) == status.count + status.crc + status.overflow

RetentionProven(r) ==
  /\ Passed(r) /\ Len(r.phases) = 2
  /\ {p.rx : p \in ToSet(r.phases)} = Boards
  /\ \A p \in ToSet(r.phases) :
       /\ p.ends # <<>> /\ Last(p.ends) = Packets
       /\ p.status # None /\ p.status.count = Packets
       /\ SyncDetect(p.status) = Packets /\ p.status.crc = 0

-----------------------------------------------------------------------------
(* Properties. *)

\* What a verdict claims, told by what really happened in the phase.
Genuine(p) ==
  LET heard == p.truth.heard
      run(first) == \E k \in 0 .. Len(heard) - Packets :
                      \A i \in 1 .. Packets : heard[k + i] = first + i - 1
  IN CASE p.kind \in {"smoke", "check", "direction"} -> Len(heard) >= Packets
       [] p.kind = "packets" -> \A n \in 1 .. Packets : \E i \in DOMAIN heard : heard[i] = n
       [] p.kind = "autorole" -> Len(heard) >= Packets
       [] p.kind = "pressure" -> run(1)
       [] p.kind = "watermark" -> \E i \in DOMAIN heard : run(heard[i])
       [] p.kind = "malformed" ->
            /\ Cardinality({i \in DOMAIN heard : heard[i] < 1}) >= Injected
            /\ Cardinality({i \in DOMAIN heard : heard[i] >= 1}) >= Packets
       [] p.kind = "reset" -> p.rx \in p.truth.resets
       [] p.kind = "overflow" -> p.truth.overflow
       [] p.kind \in {"scheduled", "txAt"} -> p.truth.sent >= Packets
       [] p.kind \in {"tone", "noTone"} -> p.truth.tone
       [] p.kind = "fault" -> p.truth.listened
       [] OTHER -> TRUE

\* What a verdict does not notice.  The counters it compares may be older than
\* the phase if their reset got lost; a restart is taken for granted; a
\* receiver still in its role when the phase begins counts on; that no tone is
\* received proves nothing if none was sent.
Relied(kind) ==
  CASE kind \in {"check", "direction", "overflow"} -> {"resetCounters"}
    [] kind = "reset" -> {"reset"}
    [] kind = "noTone" -> {"setTxTone", "restart"}
    [] kind = "fault" -> {"rx"}
    [] kind \in {"autorole", "pressure", "malformed"} -> {"roleLeft"}
    [] OTHER -> {}

\* A script that passes measured what it claims to: no earlier run that was
\* killed, lost command, lost packet or restart makes it pass on old counts,
\* old roles or lines of another run.
PassIsGenuine ==
  report # None /\ Passed(report) =>
    \A i \in DOMAIN report.phases :
      LET p == report.phases[i] IN p.flaws \cap Relied(p.kind) # {} \/ Genuine(p)

\* As long as there was no mishap, a script during which no packet was lost
\* passes, whatever scripts ran before it.
QuietProbePasses ==
  report # None /\ mishaps = 0 /\ report.quiet => Passed(report)

\* The audit, which checks the counters of a retention run by its own rules,
\* accepts every run that called itself passed: no run passes on counters
\* that cannot prove the gate.  Only the script's blindness to overflows lets
\* one through, when a count of an earlier script was not cleared.
RetentionAgrees ==
  report # None /\ report.probe = "retention" /\ Passed(report) =>
    \/ RetentionProven(report)
    \/ \E p \in ToSet(report.phases) :
         "resetCounters" \in p.flaws /\ p.status.overflow > 0

\* As long as there was no mishap, boards are at rest between scripts, whether
\* these passed or failed: no role, no reception, no tone, no fault left on,
\* and the power the user set.
BoardsLeftAtRest ==
  host = Idle /\ mishaps = 0 =>
    \A b \in Boards :
      /\ board[b].role = "idle" /\ ~board[b].listening /\ ~board[b].overflowing
      /\ ~board[b].tone /\ board[b].power = "normal"
=============================================================================
