------------------------- MODULE FixtureGate_proofs -------------------------
(***************************************************************************)
(* Proofs about FixtureGate: whatever the operator changes while the       *)
(* runner is at work, a promotion rests on a contract check and an         *)
(* analysis of the captures that are there.                                *)
(*                                                                         *)
(* The captures of a name only get higher serial numbers.  A content that  *)
(* was recorded for a report is therefore either still there, or           *)
(* superseded for good; the audit compares contents and refuses the        *)
(* second case.                                                            *)
(*                                                                         *)
(* The last part is about what the status run prints (PrototypeStatus): it *)
(* searches the readiness files by date and the reports by name, and its   *)
(* advice is right because a name never has two readiness files.           *)
(***************************************************************************)
EXTENDS PrototypeStatus, SequenceTheorems, TLAPS

-----------------------------------------------------------------------------
(* Captures c with e unasked changes so far; a is a content of the name n. *)

GoodOf(g, n) == [data |-> Good[g][n], serial |-> MaxEdits + 1]

\* Serial numbers count the unasked changes; the last capture of all is good.
Numbered(g, c, e) ==
  /\ e \in 0 .. MaxEdits
  /\ \A n \in DOMAIN c : \/ c[n].serial \in 0 .. e
                         \/ e = MaxEdits /\ c[n] = GoodOf(g, n)

\* The content is gone, and never comes back.
Superseded(n, a, c, e) ==
  /\ a.serial \in 0 .. e
  /\ n \in DOMAIN c => c[n].serial \in Nat /\ c[n].serial > a.serial

Current(n, a, c) == n \in DOMAIN c /\ c[n] = a

-----------------------------------------------------------------------------
(* A report r, or what there is of it. *)

Stale(r, c, e) ==
  \E i \in DOMAIN r.inputs :
    /\ r.inputs[i].data # <<>>
    /\ Superseded(r.inputs[i].name, r.inputs[i].data[1], c, e)

Recorded(r, c, e) ==
  \A i \in DOMAIN r.inputs :
    \/ r.inputs[i].data = <<>>
    \/ Current(r.inputs[i].name, r.inputs[i].data[1], c)
    \/ Superseded(r.inputs[i].name, r.inputs[i].data[1], c, e)

Named(r) ==
  /\ DOMAIN r.inputs = DOMAIN r.command.inputs
  /\ \A i \in DOMAIN r.inputs : r.inputs[i].name = r.command.inputs[i]

AllRead(r) == \A i \in DOMAIN r.inputs : r.inputs[i].data # <<>>

Kept(r) == [i \in DOMAIN r.inputs |-> r.inputs[i].data[1].data]

Checked(r, g)  == MeetsContract(g, r.command, Kept(r))
Analyzed(r, g) == Analyze(g, r.command, Kept(r)) = "pass"

\* What a report that says "passed" stands for.
Sound(r, g, c, e) ==
  /\ Valid(g, r.command) /\ Named(r)
  /\ Stale(r, c, e) \/ (Checked(r, g) /\ Analyzed(r, g))

-----------------------------------------------------------------------------
(* The invariant. *)

Fields == {"status", "readiness", "command", "hash", "inputs", "summary"}

\* What each phase of the runner may rely on.
RunInv ==
  /\ run.phase # "idle" => {"phase", "report"} \subseteq DOMAIN run
                           /\ Fields \subseteq DOMAIN run.report
  /\ run.phase \in {"inputs", "readiness", "contract", "analyze", "load"} =>
       Valid(gate, run.report.command) /\ run.report.status = "pending"
  /\ run.phase \in {"readiness", "contract", "analyze", "load"} =>
       Named(run.report) /\ Recorded(run.report, captures, edits)
  /\ run.phase \in {"contract", "analyze", "load"} => AllRead(run.report)
  /\ run.phase \in {"analyze", "load"} =>
       Stale(run.report, captures, edits) \/ Checked(run.report, gate)
  /\ run.phase = "load" /\ run.exit = 0 =>
       Stale(run.report, captures, edits) \/ Analyzed(run.report, gate)
  /\ run.phase \in {"summary", "write"} /\ run.report.status = "passed" =>
       Sound(run.report, gate, captures, edits)

\* The reports are a sequence, and those that say "passed" stand for it.
ReportsInv ==
  /\ \E S : reports \in Seq(S)
  /\ \A i \in DOMAIN reports : reports[i].data.status = "passed" =>
       Sound(reports[i].data, gate, captures, edits)

Inv == Numbered(gate, captures, edits) /\ RunInv /\ ReportsInv

-----------------------------------------------------------------------------
(* Captures and serial numbers. *)

\* What a step does to captures and serial numbers.
CapturesMove ==
  \/ captures' = captures /\ edits' \in edits .. MaxEdits
  \/ \E name, data : /\ edits < MaxEdits /\ edits' = edits + 1
                     /\ Measure(name, data, edits + 1)
  \/ \E name : /\ edits < MaxEdits /\ edits' = edits + 1
               /\ captures' = [n \in DOMAIN captures \ {name} |-> captures[n]]
  \/ \E name : /\ edits' = MaxEdits /\ Artifact(name) # <<GoodOf(gate, name)>>
               /\ Measure(name, Good[gate][name], MaxEdits + 1)

\* A report changes in one field.
LEMMA NotedFields ==
  ASSUME NEW r, NEW field \in Fields, NEW value, Fields \subseteq DOMAIN r
  PROVE  /\ Fields \subseteq DOMAIN Noted(r, field, value)
         /\ Noted(r, field, value)[field] = value
         /\ \A f \in Fields : f # field => Noted(r, field, value)[f] = r[f]
BY Zenon DEF Noted

\* The captures only move as above.
LEMMA StepsMove ==
  ASSUME edits \in 0 .. MaxEdits, [Next]_vars
  PROVE  gate' = gate /\ CapturesMove
<1> USE GateAssumption
<1>1. CASE UNCHANGED vars
  BY <1>1 DEF vars, CapturesMove
<1>2. CASE Runner
  BY <1>2 DEF Runner, HashInputs, HashReadiness, CheckInputs, RunAnalyzer, LoadSummary,
              HashSummary, WriteReport, CapturesMove
<1>3. CASE FollowFill \/ FollowRun \/ StartWithNone
  BY <1>3 DEF FollowFill, FollowRun, StartWithNone, Start, CapturesMove
<1>4. CASE WriteTemplate \/ RemoveSummary \/ Checkout \/ Kill
  BY <1>4 DEF WriteTemplate, RemoveSummary, Checkout, Kill, Unasked, CapturesMove
<1>5. ASSUME NEW name, NEW m, Fill(name, m)
      PROVE  gate' = gate /\ CapturesMove
  BY <1>5 DEF Fill, Unasked, CapturesMove
<1>6. ASSUME NEW name, MeasureGood(name)
      PROVE  gate' = gate /\ CapturesMove
  BY <1>6 DEF MeasureGood, CapturesMove, GoodOf
<1>7. ASSUME NEW name, Delete(name)
      PROVE  gate' = gate /\ CapturesMove
  BY <1>7 DEF Delete, Unasked, CapturesMove
<1>8. ASSUME NEW name, NEW data, Replace(name, data)
      PROVE  gate' = gate /\ CapturesMove
  BY <1>8 DEF Replace, Unasked, CapturesMove
<1>9. ASSUME NEW name, DryRun(name) \/ DiscoverRun(name)
      PROVE  gate' = gate /\ CapturesMove
  BY <1>9 DEF DryRun, DiscoverRun, Start, Unasked, CapturesMove
<1> QED BY <1>1, <1>2, <1>3, <1>4, <1>5, <1>6, <1>7, <1>8, <1>9 DEF Next, Operator

\* Every step keeps the serial numbers of captures in line with the changes made.
LEMMA NumbersGrow ==
  ASSUME Numbered(gate, captures, edits), gate' = gate, CapturesMove
  PROVE  Numbered(gate', captures', edits')
<1> USE GateAssumption DEF Numbered
<1>1. CASE captures' = captures /\ edits' \in edits .. MaxEdits
  BY <1>1
<1>2. ASSUME NEW name, NEW data, edits < MaxEdits, edits' = edits + 1,
             Measure(name, data, edits + 1)
      PROVE  Numbered(gate', captures', edits')
  BY <1>2 DEF Measure
<1>3. ASSUME NEW name, edits < MaxEdits, edits' = edits + 1,
             captures' = [n \in DOMAIN captures \ {name} |-> captures[n]]
      PROVE  Numbered(gate', captures', edits')
  BY <1>3
<1>4. ASSUME NEW name, edits' = MaxEdits, Measure(name, Good[gate][name], MaxEdits + 1)
      PROVE  Numbered(gate', captures', edits')
  BY <1>4 DEF Measure, GoodOf
<1> QED BY <1>1, <1>2, <1>3, <1>4 DEF CapturesMove

\* A capture that was measured again or overwritten never gets its old content back.
LEMMA SupersededForGood ==
  ASSUME Numbered(gate, captures, edits), CapturesMove, NEW n, NEW a,
         Superseded(n, a, captures, edits)
  PROVE  Superseded(n, a, captures', edits')
<1> USE GateAssumption DEF Numbered, Superseded
<1>1. CASE captures' = captures /\ edits' \in edits .. MaxEdits
  BY <1>1
<1>2. ASSUME NEW name, NEW data, edits < MaxEdits, edits' = edits + 1,
             Measure(name, data, edits + 1)
      PROVE  Superseded(n, a, captures', edits')
  BY <1>2 DEF Measure
<1>3. ASSUME NEW name, edits < MaxEdits, edits' = edits + 1,
             captures' = [k \in DOMAIN captures \ {name} |-> captures[k]]
      PROVE  Superseded(n, a, captures', edits')
  BY <1>3
<1>4. ASSUME NEW name, edits' = MaxEdits, Measure(name, Good[gate][name], MaxEdits + 1)
      PROVE  Superseded(n, a, captures', edits')
  BY <1>4 DEF Measure
<1> QED BY <1>1, <1>2, <1>3, <1>4 DEF CapturesMove

\* A content that was there is there, or gone for good.
LEMMA CurrentOrSuperseded ==
  ASSUME Numbered(gate, captures, edits), CapturesMove, NEW n, NEW a,
         Current(n, a, captures)
  PROVE  Current(n, a, captures') \/ Superseded(n, a, captures', edits')
<1> USE GateAssumption DEF Numbered, Current, Superseded
<1>1. CASE captures' = captures /\ edits' \in edits .. MaxEdits
  BY <1>1
<1>2. ASSUME NEW name, NEW data, edits < MaxEdits, edits' = edits + 1,
             Measure(name, data, edits + 1)
      PROVE  Current(n, a, captures') \/ Superseded(n, a, captures', edits')
  BY <1>2 DEF Measure
<1>3. ASSUME NEW name, edits < MaxEdits, edits' = edits + 1,
             captures' = [k \in DOMAIN captures \ {name} |-> captures[k]]
      PROVE  Current(n, a, captures') \/ Superseded(n, a, captures', edits')
  BY <1>3
<1>4. ASSUME NEW name, edits' = MaxEdits, Artifact(name) # <<GoodOf(gate, name)>>,
             Measure(name, Good[gate][name], MaxEdits + 1)
      PROVE  Current(n, a, captures') \/ Superseded(n, a, captures', edits')
  <2>1. CASE n # name
    BY <1>4, <2>1 DEF Measure
  <2>2. CASE n = name
    <3>1. captures[n] # GoodOf(gate, n)
      BY <1>4, <2>2 DEF Artifact
    <3>2. a.serial \in 0 .. edits
      BY <3>1
    <3>3. n \in DOMAIN captures' /\ captures'[n].serial = MaxEdits + 1
      BY <1>4, <2>2 DEF Measure
    <3> QED BY <3>2, <3>3, <1>4
  <2> QED BY <2>1, <2>2
<1> QED BY <1>1, <1>2, <1>3, <1>4 DEF CapturesMove

\* What was gone stays gone, and what was recorded is still there or gone.
LEMMA ReportsAge ==
  ASSUME Numbered(gate, captures, edits), CapturesMove, gate' = gate, NEW r
  PROVE  /\ Stale(r, captures, edits) => Stale(r, captures', edits')
         /\ Recorded(r, captures, edits) => Recorded(r, captures', edits')
         /\ Sound(r, gate, captures, edits) => Sound(r, gate', captures', edits')
<1>1. ASSUME Stale(r, captures, edits)  PROVE  Stale(r, captures', edits')
  BY <1>1, SupersededForGood DEF Stale
<1>2. ASSUME Recorded(r, captures, edits)  PROVE  Recorded(r, captures', edits')
  BY <1>2, SupersededForGood, CurrentOrSuperseded DEF Recorded
<1> QED BY <1>1, <1>2 DEF Sound

\* A report none of whose recorded contents is gone is about the captures
\* that are there.
LEMMA FreshIsThere ==
  ASSUME NEW r, Named(r), AllRead(r), Recorded(r, captures, edits),
         Stale(r, captures, edits) = FALSE
  PROVE  Present(r.command.inputs) /\ Contents(r.command.inputs) = Kept(r)
<1>1. ASSUME NEW i \in DOMAIN r.inputs
      PROVE  /\ r.command.inputs[i] \in DOMAIN captures
             /\ captures[r.command.inputs[i]] = r.inputs[i].data[1]
  <2>1. Current(r.inputs[i].name, r.inputs[i].data[1], captures)
    BY DEF Recorded, AllRead, Stale
  <2> QED BY <2>1 DEF Current, Named
<1>2. Present(r.command.inputs)
  BY <1>1 DEF Present, Named
<1>3. Contents(r.command.inputs) = Kept(r)
  BY <1>1 DEF Contents, Kept, Named
<1> QED BY <1>2, <1>3

-----------------------------------------------------------------------------
(* Reports are put and reordered. *)

\* A sequence without one of its elements.
LEMMA RemovedElements ==
  ASSUME NEW S, NEW dir \in Seq(S), NEW at \in DOMAIN dir
  PROVE  /\ RemoveAt(dir, at) \in Seq(S)
         /\ Len(RemoveAt(dir, at)) = Len(dir) - 1
         /\ \A i \in 1 .. Len(dir) - 1 :
              RemoveAt(dir, at)[i] = IF i < at THEN dir[i] ELSE dir[i + 1]
<1> DEFINE before == SubSeq(dir, 1, at - 1)
           after  == SubSeq(dir, at + 1, Len(dir))
           kept   == RemoveAt(dir, at)
<1>1. at \in 1 .. Len(dir)
  OBVIOUS
<1>2. kept = before \o after
  BY Zenon DEF RemoveAt
<1> HIDE DEF kept
<1>3. /\ before \in Seq(S) /\ Len(before) = at - 1
      /\ \A i \in 1 .. at - 1 : before[i] = dir[i]
  <2>1. at - 1 \in Int /\ \A i \in 1 .. at - 1 : dir[i] \in S
    BY <1>1
  <2>2. /\ before \in Seq(S)
        /\ Len(before) = IF 1 <= at - 1 THEN at - 1 - 1 + 1 ELSE 0
        /\ \A i \in 1 .. at - 1 - 1 + 1 : before[i] = dir[1 + i - 1]
    BY ONLY <2>1, SubSeqProperties
  <2> HIDE DEF before
  <2> QED BY <1>1, <2>2
<1>4. /\ after \in Seq(S) /\ Len(after) = Len(dir) - at
      /\ \A i \in 1 .. Len(dir) - at : after[i] = dir[at + i]
  <2>1. /\ at + 1 \in Int /\ Len(dir) \in Int
        /\ \A i \in at + 1 .. Len(dir) : dir[i] \in S
    BY <1>1
  <2>2. /\ after \in Seq(S)
        /\ Len(after) = IF at + 1 <= Len(dir) THEN Len(dir) - (at + 1) + 1 ELSE 0
        /\ \A i \in 1 .. Len(dir) - (at + 1) + 1 : after[i] = dir[at + 1 + i - 1]
    BY ONLY <2>1, SubSeqProperties
  <2> HIDE DEF after
  <2> QED BY <1>1, <2>2
<1> HIDE DEF before, after
<1>5. kept \in Seq(S) /\ Len(kept) = Len(dir) - 1
  BY <1>1, <1>2, <1>3, <1>4
<1>6. ASSUME NEW i \in 1 .. Len(dir) - 1
      PROVE  kept[i] = IF i < at THEN dir[i] ELSE dir[i + 1]
  <2>1. CASE i < at
    BY <1>1, <1>2, <1>3, <1>4, <1>5, <2>1
  <2>2. CASE ~(i < at)
    <3>1. /\ i - (at - 1) \in 1 .. Len(dir) - at
          /\ i \in Len(before) + 1 .. Len(before) + Len(after)
      <4>1. /\ Len(dir) \in Nat /\ at \in 1 .. Len(dir) /\ i \in 1 .. Len(dir) - 1
            /\ i >= at
        BY <1>1, <2>2
      <4>2. i - (at - 1) \in 1 .. Len(dir) - at
        BY ONLY <4>1
      <4>3. i \in (at - 1) + 1 .. (at - 1) + (Len(dir) - at)
        BY ONLY <4>1
      <4> QED BY <1>3, <1>4, <4>2, <4>3
    <3>2. kept[i] = after[i - Len(before)]
      <4>1. before \in Seq(S) /\ after \in Seq(S)
        BY <1>3, <1>4
      <4> QED BY ONLY <1>2, <3>1, <4>1
    <3>3. /\ i - Len(before) = i - (at - 1) /\ at + (i - (at - 1)) = i + 1
          /\ (i < at) = FALSE
      BY <1>1, <1>3, <2>2
    <3>4. after[i - (at - 1)] = dir[at + (i - (at - 1))]
      BY <1>4, <3>1
    <3> QED BY <3>2, <3>3, <3>4
  <2> QED BY <2>1, <2>2
<1> QED BY <1>5, <1>6 DEF kept

\* Writing a file adds its content and keeps the other files.
LEMMA PutElements ==
  ASSUME NEW S, NEW dir \in Seq(S), NEW name, NEW data
  PROVE  /\ Put(dir, name, data) \in Seq(S \cup {[name |-> name, data |-> data]})
         /\ \A i \in DOMAIN Put(dir, name, data) :
              \/ Put(dir, name, data)[i].data = data
              \/ \E j \in DOMAIN dir : Put(dir, name, data)[i] = dir[j]
<1> DEFINE kept == Without(dir, name)
           new  == [name |-> name, data |-> data]
<1>1. kept \in Seq(S) /\ \A i \in DOMAIN kept : \E j \in DOMAIN dir : kept[i] = dir[j]
  <2>1. CASE name \notin NamesIn(dir)
    BY <2>1 DEF Without
  <2>2. CASE name \in NamesIn(dir)
    <3> DEFINE at == CHOOSE i \in DOMAIN dir : dir[i].name = name
    <3>1. at \in DOMAIN dir
      BY <2>2 DEF NamesIn
    <3>2. kept = RemoveAt(dir, at)
      BY <2>2, Zenon DEF Without
    <3> HIDE DEF at, kept
    <3>3. /\ kept \in Seq(S) /\ Len(kept) = Len(dir) - 1
          /\ \A i \in 1 .. Len(dir) - 1 :
               kept[i] = IF i < at THEN dir[i] ELSE dir[i + 1]
      BY <3>1, <3>2, RemovedElements
    <3>4. \A i \in DOMAIN kept : i \in DOMAIN dir /\ i + 1 \in DOMAIN dir
      BY <3>1, <3>3
    <3> QED BY <3>3, <3>4
  <2> QED BY <2>1, <2>2
<1>2. Put(dir, name, data) = Append(kept, new)
  BY DEF Put
<1> HIDE DEF kept
<1>3. new.data = data
  OBVIOUS
<1> HIDE DEF new
<1>4. Put(dir, name, data) \in Seq(S \cup {new})
  BY <1>1, <1>2
<1>5. ASSUME NEW i \in DOMAIN Put(dir, name, data)
      PROVE  \/ Put(dir, name, data)[i].data = data
             \/ \E j \in DOMAIN dir : Put(dir, name, data)[i] = dir[j]
  <2>1. CASE i = Len(kept) + 1
    BY <1>1, <1>2, <1>3, <2>1
  <2>2. CASE i # Len(kept) + 1
    <3>1. i \in DOMAIN kept /\ Put(dir, name, data)[i] = kept[i]
      BY <1>1, <1>2, <1>5, <2>2
    <3> QED BY <3>1, <1>1
  <2> QED BY <2>1, <2>2
<1> QED BY <1>4, <1>5 DEF new

\* A new checkout reorders files and brings no new ones.
LEMMA OrdersElements ==
  ASSUME NEW S, NEW dir \in Seq(S), NEW other \in Orders(dir)
  PROVE  other \in Seq(S) /\ \A i \in DOMAIN other : \E j \in DOMAIN dir : other[i] = dir[j]
<1>1. PICK p \in [DOMAIN dir -> DOMAIN dir] : other = [i \in DOMAIN dir |-> dir[p[i]]]
  BY DEF Orders
<1>2. \A i \in DOMAIN dir : dir[p[i]] \in S
  BY <1>1
<1>3. other \in Seq(S) /\ DOMAIN other = DOMAIN dir
  BY <1>1, <1>2
<1> QED BY <1>1, <1>3

\* The reports of a step are old ones, or stand on their own.
LEMMA ReportsStand ==
  ASSUME Inv, CapturesMove, gate' = gate,
         \E S : reports' \in Seq(S),
         \A i \in DOMAIN reports' :
           \/ \E j \in DOMAIN reports : reports'[i] = reports[j]
           \/ reports'[i].data.status = "passed" =>
                Sound(reports'[i].data, gate, captures, edits)
  PROVE  ReportsInv'
<1>1. ASSUME NEW i \in DOMAIN reports', reports'[i].data.status = "passed"
      PROVE  Sound(reports'[i].data, gate, captures, edits)
  BY <1>1 DEF Inv, ReportsInv
<1>2. ASSUME NEW i \in DOMAIN reports', reports'[i].data.status = "passed"
      PROVE  Sound(reports'[i].data, gate', captures', edits')
  BY <1>1, <1>2, ReportsAge DEF Inv
<1> QED BY <1>2 DEF ReportsInv

\* A report that is put stands if it does when it says "passed".
LEMMA PutStands ==
  ASSUME Inv, CapturesMove, gate' = gate, NEW name, NEW r,
         reports' = Put(reports, name, r),
         r.status = "passed" => Sound(r, gate, captures, edits)
  PROVE  ReportsInv'
<1>1. PICK S : reports \in Seq(S)
  BY DEF Inv, ReportsInv
<1>2. /\ Put(reports, name, r) \in Seq(S \cup {[name |-> name, data |-> r]})
      /\ \A i \in DOMAIN Put(reports, name, r) :
           \/ Put(reports, name, r)[i].data = r
           \/ \E j \in DOMAIN reports : Put(reports, name, r)[i] = reports[j]
  BY ONLY <1>1, PutElements
<1> QED BY <1>2, ReportsStand

\* Reports that stay as they are.
LEMMA OldReportsStand ==
  ASSUME Inv, CapturesMove, gate' = gate, reports' = reports
  PROVE  ReportsInv'
BY ReportsStand DEF Inv, ReportsInv

-----------------------------------------------------------------------------
(* The runner. *)

\* A run that the operator leaves alone.
LEMMA RunStands ==
  ASSUME Inv, CapturesMove, gate' = gate, run' = run
  PROVE  RunInv'
<1>1. /\ Stale(run.report, captures, edits) => Stale(run.report, captures', edits')
      /\ Recorded(run.report, captures, edits) => Recorded(run.report, captures', edits')
      /\ Sound(run.report, gate, captures, edits) => Sound(run.report, gate', captures', edits')
  BY ReportsAge DEF Inv
<1> QED BY <1>1 DEF Inv, RunInv

\* A run that is over.
LEMMA IdleStands == run' = Idle => RunInv'
BY DEF RunInv, Idle

\* A run that starts.
LEMMA StartStands ==
  ASSUME NEW name, Start(name)
  PROVE  RunInv'
<1> DEFINE m == ContentIn(readiness, name)
<1> HIDE DEF m
<1>1. CASE Valid(gate, m)
  <2>1. run' = [phase |-> "inputs", report |-> Noted(Failed("pending", name), "command", m)]
    BY <1>1, Zenon DEF Start, m
  <2>2. /\ Fields \subseteq DOMAIN Failed("pending", name)
        /\ Failed("pending", name).status = "pending"
    BY DEF Fields, Failed
  <2>3. /\ Fields \subseteq DOMAIN run'.report
        /\ run'.report.command = m /\ run'.report.status = "pending"
    BY <2>1, <2>2, NotedFields DEF Fields
  <2> QED BY <1>1, <2>1, <2>3 DEF RunInv, Start
<1>2. CASE ~Valid(gate, m)
  <2>1. run' = [phase |-> "write", report |-> Failed("not-ready", name)]
    BY <1>2, Zenon DEF Start, m
  <2>2. /\ Fields \subseteq DOMAIN Failed("not-ready", name)
        /\ Failed("not-ready", name).status = "not-ready"
    BY DEF Fields, Failed
  <2> QED BY <2>1, <2>2 DEF RunInv
<1> QED BY <1>1, <1>2

\* Hashing records what is there.
LEMMA HashInputsStands ==
  ASSUME Inv, HashInputs
  PROVE  RunInv'
<1> DEFINE names  == run.report.command.inputs
           hashed == [i \in DOMAIN names |-> [name |-> names[i], data |-> Artifact(names[i])]]
           r      == Noted(run.report, "inputs", hashed)
<1>1. run' = [phase |-> "readiness", report |-> r]
  BY DEF HashInputs
<1>2. /\ Fields \subseteq DOMAIN run.report
      /\ Valid(gate, run.report.command) /\ run.report.status = "pending"
  BY DEF HashInputs, Inv, RunInv
<1>3. /\ Fields \subseteq DOMAIN r
      /\ r.inputs = hashed
      /\ r.command = run.report.command /\ r.status = run.report.status
  BY <1>2, NotedFields DEF Fields
<1> HIDE DEF r
<1>4. Named(r)
  BY <1>3 DEF Named
<1>5. ASSUME NEW i \in DOMAIN r.inputs
      PROVE  \/ r.inputs[i].data = <<>>
             \/ Current(r.inputs[i].name, r.inputs[i].data[1], captures)
  <2>1. r.inputs[i].name = names[i] /\ r.inputs[i].data = Artifact(names[i])
    BY <1>3
  <2>2. CASE names[i] \in DOMAIN captures
    <3>1. r.inputs[i].data = <<captures[names[i]]>>
      BY <2>1, <2>2 DEF Artifact
    <3>2. Current(r.inputs[i].name, captures[names[i]], captures)
      BY <2>1, <2>2 DEF Current
    <3> QED BY <3>1, <3>2
  <2>3. CASE names[i] \notin DOMAIN captures
    BY <2>1, <2>3 DEF Artifact
  <2> QED BY <2>2, <2>3
<1>6. Recorded(r, captures, edits)
  BY <1>5 DEF Recorded
<1>7. gate' = gate /\ captures' = captures /\ edits' = edits
  BY DEF HashInputs
<1>8. run'.phase = "readiness" /\ run'.report = r /\ DOMAIN run' = {"phase", "report"}
  BY <1>1
<1> QED BY <1>2, <1>3, <1>4, <1>6, <1>7, <1>8 DEF RunInv

\* Another field changes nothing of what a report says of its captures.
LEMMA SameInputs ==
  ASSUME NEW q, NEW r, q.inputs = r.inputs, q.command = r.command
  PROVE  /\ Named(r) => Named(q)
         /\ AllRead(r) => AllRead(q)
         /\ Recorded(r, captures, edits) => Recorded(q, captures, edits)
         /\ Stale(r, captures, edits) => Stale(q, captures, edits)
         /\ Checked(r, gate) => Checked(q, gate)
         /\ Analyzed(r, gate) => Analyzed(q, gate)
         /\ Sound(r, gate, captures, edits) => Sound(q, gate, captures, edits)
<1>1. Kept(q) = Kept(r)
  BY DEF Kept
<1>2. /\ Named(r) => Named(q)
      /\ AllRead(r) => AllRead(q)
      /\ Recorded(r, captures, edits) => Recorded(q, captures, edits)
      /\ Stale(r, captures, edits) => Stale(q, captures, edits)
  BY DEF Named, AllRead, Recorded, Stale
<1>3. /\ Checked(r, gate) => Checked(q, gate)
      /\ Analyzed(r, gate) => Analyzed(q, gate)
  BY <1>1 DEF Checked, Analyzed
<1> QED BY <1>2, <1>3 DEF Sound

\* Hashing the readiness file keeps what the runner may rely on.
LEMMA HashReadinessStands ==
  ASSUME Inv, HashReadiness
  PROVE  RunInv'
<1> DEFINE r == Noted(run.report, "hash", <<ContentIn(readiness, run.report.readiness)>>)
<1>1. run' = IF \E i \in DOMAIN r.inputs : r.inputs[i].data = <<>>
             THEN [phase |-> "write", report |-> Noted(r, "status", "missing-inputs")]
             ELSE [phase |-> "contract", report |-> r]
  BY DEF HashReadiness
<1>2. /\ Fields \subseteq DOMAIN run.report
      /\ Valid(gate, run.report.command) /\ run.report.status = "pending"
      /\ Named(run.report) /\ Recorded(run.report, captures, edits)
  BY DEF HashReadiness, Inv, RunInv
<1>3. /\ Fields \subseteq DOMAIN r
      /\ r.inputs = run.report.inputs
      /\ r.command = run.report.command /\ r.status = run.report.status
  BY <1>2, NotedFields DEF Fields
<1> HIDE DEF r
<1>4. Named(r) /\ Recorded(r, captures, edits)
  BY <1>2, <1>3, SameInputs
<1>5. gate' = gate /\ captures' = captures /\ edits' = edits
  BY DEF HashReadiness
<1>6. CASE AllRead(r)
  <2>1. run'.phase = "contract" /\ run'.report = r /\ DOMAIN run' = {"phase", "report"}
    BY <1>1, <1>6 DEF AllRead
  <2> QED BY <1>2, <1>3, <1>4, <1>5, <1>6, <2>1 DEF RunInv
<1>7. CASE ~AllRead(r)
  <2> DEFINE q == Noted(r, "status", "missing-inputs")
  <2>1. Fields \subseteq DOMAIN q /\ q.status = "missing-inputs"
    BY <1>3, NotedFields DEF Fields
  <2>2. run'.phase = "write" /\ run'.report = q /\ DOMAIN run' = {"phase", "report"}
    BY <1>1, <1>7 DEF AllRead
  <2> HIDE DEF q
  <2> QED BY <2>1, <2>2 DEF RunInv
<1> QED BY <1>6, <1>7

\* A check of the captures that are there, or of captures that are gone.
LEMMA CheckInputsStands ==
  ASSUME Inv, CheckInputs
  PROVE  RunInv'
<1> DEFINE r == run.report
           q == Noted(r, "status", "invalid-inputs")
<1>1. run' = IF ~Present(r.command.inputs) THEN Idle
             ELSE IF MeetsContract(gate, r.command, Contents(r.command.inputs))
             THEN [phase |-> "analyze", report |-> r]
             ELSE [phase |-> "write", report |-> q]
  BY DEF CheckInputs
<1>2. /\ Fields \subseteq DOMAIN r
      /\ Valid(gate, r.command) /\ r.status = "pending"
      /\ Named(r) /\ Recorded(r, captures, edits) /\ AllRead(r)
  BY DEF CheckInputs, Inv, RunInv
<1>3. Fields \subseteq DOMAIN q /\ q.status = "invalid-inputs"
  BY <1>2, NotedFields DEF Fields
<1>4. gate' = gate /\ captures' = captures /\ edits' = edits
  BY DEF CheckInputs
<1> HIDE DEF r, q
<1>5. CASE run' = Idle
  BY <1>5, IdleStands
<1>6. CASE run' = [phase |-> "analyze", report |-> r] /\ Present(r.command.inputs)
           /\ MeetsContract(gate, r.command, Contents(r.command.inputs))
  <2>1. Stale(r, captures, edits) \/ Checked(r, gate)
    <3>1. CASE Stale(r, captures, edits) = FALSE
      BY <1>2, <1>6, <3>1, FreshIsThere DEF Checked
    <3> QED BY <3>1 DEF Stale
  <2>2. run'.phase = "analyze" /\ run'.report = r /\ DOMAIN run' = {"phase", "report"}
    BY <1>6
  <2> QED BY <1>2, <1>4, <2>1, <2>2 DEF RunInv
<1>7. CASE run' = [phase |-> "write", report |-> q]
  <2>1. run'.phase = "write" /\ run'.report = q /\ DOMAIN run' = {"phase", "report"}
    BY <1>7
  <2> QED BY <1>3, <2>1 DEF RunInv
<1> QED BY <1>1, <1>5, <1>6, <1>7

\* The analyzer exits with zero only if the captures that are there pass.
LEMMA RunAnalyzerStands ==
  ASSUME Inv, RunAnalyzer
  PROVE  RunInv'
<1> DEFINE r == run.report
           verdict == IF Present(r.command.inputs)
                      THEN Analyze(gate, r.command, Contents(r.command.inputs)) ELSE Crash
<1>1. run' = [phase |-> "load", report |-> r, exit |-> IF verdict = "pass" THEN 0 ELSE 1]
  BY Zenon DEF RunAnalyzer
<1>2. /\ Fields \subseteq DOMAIN r
      /\ Valid(gate, r.command) /\ r.status = "pending"
      /\ Named(r) /\ Recorded(r, captures, edits) /\ AllRead(r)
      /\ Stale(r, captures, edits) \/ Checked(r, gate)
  BY DEF RunAnalyzer, Inv, RunInv
<1>3. gate' = gate /\ captures' = captures /\ edits' = edits
  BY DEF RunAnalyzer
<1>4. run'.exit = 0 => Stale(r, captures, edits) \/ Analyzed(r, gate)
  <2>1. SUFFICES ASSUME run'.exit = 0, Stale(r, captures, edits) = FALSE
                 PROVE  Analyzed(r, gate)
    BY DEF Stale
  <2>2. verdict = "pass"
    BY <1>1, <2>1
  <2>3. Analyze(gate, r.command, Contents(r.command.inputs)) = "pass"
    BY <2>2 DEF Crash
  <2>4. Contents(r.command.inputs) = Kept(r)
    BY <1>2, <2>1, FreshIsThere
  <2> QED BY <2>3, <2>4 DEF Analyzed
<1>5. run'.phase = "load" /\ run'.report = r /\ DOMAIN run' = {"phase", "report", "exit"}
  BY <1>1
<1> HIDE DEF r, verdict
<1> QED BY <1>2, <1>3, <1>4, <1>5 DEF RunInv

\* A run passes only with the exit status zero.
LEMMA LoadSummaryStands ==
  ASSUME Inv, LoadSummary
  PROVE  RunInv'
<1> DEFINE r == run.report
           q == Noted(r, "status", Outcome(run.exit, summary))
<1>1. run'.phase = "summary" /\ run'.report = q /\ DOMAIN run' = {"phase", "report"}
  BY DEF LoadSummary
<1>2. /\ Fields \subseteq DOMAIN r
      /\ Valid(gate, r.command) /\ Named(r)
      /\ Stale(r, captures, edits) \/ Checked(r, gate)
      /\ run.exit = 0 => Stale(r, captures, edits) \/ Analyzed(r, gate)
  BY DEF LoadSummary, Inv, RunInv
<1>3. /\ Fields \subseteq DOMAIN q /\ q.status = Outcome(run.exit, summary)
      /\ q.inputs = r.inputs /\ q.command = r.command
  BY <1>2, NotedFields DEF Fields
<1>4. gate' = gate /\ captures' = captures /\ edits' = edits
  BY DEF LoadSummary
<1> HIDE DEF r, q
<1>5. q.status = "passed" => Sound(q, gate, captures, edits)
  <2>1. SUFFICES ASSUME q.status = "passed"
                 PROVE  Sound(r, gate, captures, edits)
    BY <1>3, SameInputs
  <2>2. run.exit = 0
    BY <1>3, <2>1 DEF Outcome
  <2> QED BY <1>2, <2>2 DEF Sound
<1> QED BY <1>1, <1>3, <1>4, <1>5 DEF RunInv

\* Hashing the summary makes a report that was passed by a check and an analysis, or is stale.
LEMMA HashSummaryStands ==
  ASSUME Inv, HashSummary
  PROVE  RunInv'
<1> DEFINE r == run.report
           q == Noted(r, "summary", summary)
<1>1. run'.phase = "write" /\ run'.report = q /\ DOMAIN run' = {"phase", "report"}
  BY DEF HashSummary
<1>2. /\ Fields \subseteq DOMAIN r
      /\ r.status = "passed" => Sound(r, gate, captures, edits)
  BY DEF HashSummary, Inv, RunInv
<1>3. /\ Fields \subseteq DOMAIN q /\ q.status = r.status
      /\ q.inputs = r.inputs /\ q.command = r.command
  BY <1>2, NotedFields DEF Fields
<1>4. gate' = gate /\ captures' = captures /\ edits' = edits
  BY DEF HashSummary
<1> HIDE DEF r, q
<1>5. q.status = "passed" => Sound(q, gate, captures, edits)
  BY <1>2, <1>3, SameInputs
<1> QED BY <1>1, <1>3, <1>4, <1>5 DEF RunInv

-----------------------------------------------------------------------------
(* Every step. *)

\* An empty directory satisfies the invariant.
LEMMA InitInv == Init => Inv
<1>1. ASSUME Init  PROVE  Numbered(gate, captures, edits)
  BY <1>1, GateAssumption DEF Init, Numbered
<1>2. ASSUME Init  PROVE  RunInv
  BY <1>2 DEF Init, RunInv, Idle
<1>3. ASSUME Init  PROVE  ReportsInv
  <2>1. reports \in Seq({}) /\ DOMAIN reports = {}
    BY <1>3 DEF Init
  <2> QED BY <2>1 DEF ReportsInv
<1> QED BY <1>1, <1>2, <1>3 DEF Inv

\* Every step of run_prototype0_fixture_analysis keeps the invariant.
LEMMA RunnerKeepsInv ==
  ASSUME Inv, Runner, CapturesMove, gate' = gate
  PROVE  RunInv' /\ ReportsInv'
<1>1. CASE HashInputs
  BY <1>1, HashInputsStands, OldReportsStand DEF HashInputs
<1>2. CASE HashReadiness
  BY <1>2, HashReadinessStands, OldReportsStand DEF HashReadiness
<1>3. CASE CheckInputs
  BY <1>3, CheckInputsStands, OldReportsStand DEF CheckInputs
<1>4. CASE RunAnalyzer
  BY <1>4, RunAnalyzerStands, OldReportsStand DEF RunAnalyzer
<1>5. CASE LoadSummary
  BY <1>5, LoadSummaryStands, OldReportsStand DEF LoadSummary
<1>6. CASE HashSummary
  BY <1>6, HashSummaryStands, OldReportsStand DEF HashSummary
<1>7. CASE WriteReport
  <2>1. run.report.status = "passed" => Sound(run.report, gate, captures, edits)
    BY <1>7 DEF WriteReport, Inv, RunInv
  <2>2. ReportsInv'
    BY <1>7, <2>1, PutStands DEF WriteReport
  <2> QED BY <1>7, <2>2, IdleStands DEF WriteReport
<1> QED BY <1>1, <1>2, <1>3, <1>4, <1>5, <1>6, <1>7 DEF Runner

\* What the operator does to the run and to the reports.
LEMMA OperatorKeepsInv ==
  ASSUME Inv, Operator, CapturesMove, gate' = gate
  PROVE  RunInv' /\ ReportsInv'
<1>1. CASE FollowFill \/ WriteTemplate \/ RemoveSummary
  BY <1>1, RunStands, OldReportsStand DEF FollowFill, WriteTemplate, RemoveSummary
<1>2. CASE FollowRun
  BY <1>2, StartStands, OldReportsStand DEF FollowRun, Start
<1>3. CASE StartWithNone
  <2>1. Failed("no-readiness", None).status = "no-readiness"
    BY DEF Failed
  <2>2. ReportsInv'
    BY <1>3, <2>1, PutStands DEF StartWithNone
  <2> QED BY <1>3, <2>2, RunStands DEF StartWithNone
<1>4. CASE Checkout
  <2>1. PICK S : reports \in Seq(S)
    BY DEF Inv, ReportsInv
  <2>2. /\ reports' \in Seq(S)
        /\ \A i \in DOMAIN reports' : \E j \in DOMAIN reports : reports'[i] = reports[j]
    BY <1>4, <2>1, OrdersElements DEF Checkout
  <2>3. ReportsInv'
    BY <2>2, ReportsStand
  <2> QED BY <1>4, <2>3, RunStands DEF Checkout
<1>5. CASE Kill
  <2>1. CASE run.phase = "write"
    <3>1. Failed("invalid", None).status = "invalid"
      BY DEF Failed
    <3>2. reports' = Put(reports, Report, Failed("invalid", None))
      BY <1>5, <2>1 DEF Kill
    <3>3. ReportsInv'
      BY <3>1, <3>2, PutStands
    <3> QED BY <1>5, <3>3, IdleStands DEF Kill
  <2>2. CASE run.phase # "write"
    BY <1>5, <2>2, IdleStands, OldReportsStand DEF Kill
  <2> QED BY <2>1, <2>2
<1>6. ASSUME NEW name, NEW m, Fill(name, m)  PROVE  RunInv' /\ ReportsInv'
  BY <1>6, RunStands, OldReportsStand DEF Fill
<1>7. ASSUME NEW name, MeasureGood(name) \/ Delete(name)  PROVE  RunInv' /\ ReportsInv'
  BY <1>7, RunStands, OldReportsStand DEF MeasureGood, Delete
<1>8. ASSUME NEW name, NEW data, Replace(name, data)  PROVE  RunInv' /\ ReportsInv'
  BY <1>8, RunStands, OldReportsStand DEF Replace
<1>9. ASSUME NEW name, DryRun(name)  PROVE  RunInv' /\ ReportsInv'
  <2> DEFINE status == IF Valid(gate, ContentIn(readiness, name)) THEN "dry-run" ELSE "not-ready"
  <2>1. Failed(status, name).status # "passed"
    BY DEF Failed
  <2>2. reports' = Put(reports, Other, Failed(status, name))
    BY <1>9 DEF DryRun
  <2>3. ReportsInv'
    BY <2>1, <2>2, PutStands
  <2> QED BY <1>9, <2>3, RunStands DEF DryRun
<1>10. ASSUME NEW name, DiscoverRun(name)  PROVE  RunInv' /\ ReportsInv'
  BY <1>10, StartStands, OldReportsStand DEF DiscoverRun, Start
<1> QED BY <1>1, <1>2, <1>3, <1>4, <1>5, <1>6, <1>7, <1>8, <1>9, <1>10 DEF Operator

\* Every step of runner and operator keeps the invariant.
LEMMA NextInv ==
  ASSUME Inv, [Next]_vars
  PROVE  Inv'
<1>1. gate' = gate /\ CapturesMove
  BY StepsMove DEF Inv, Numbered
<1>2. Numbered(gate', captures', edits')
  BY <1>1, NumbersGrow DEF Inv
<1>3. RunInv' /\ ReportsInv'
  <2>1. CASE UNCHANGED vars
    BY <1>1, <2>1, RunStands, OldReportsStand DEF vars
  <2> QED BY <1>1, <2>1, RunnerKeepsInv, OperatorKeepsInv DEF Next
<1> QED BY <1>2, <1>3 DEF Inv

-----------------------------------------------------------------------------
(* Promotions. *)

\* A promotion whose captures are all there rests on valid metadata, and on a
\* contract check and an analysis of exactly these captures, although the
\* runner hashed, checked and analyzed them at three different times.
PromotedIsAnalyzed ==
  Promoted /\ Present(NewestReport.command.inputs) =>
    LET m == NewestReport.command
    IN /\ Valid(gate, m)
       /\ MeetsContract(gate, m, Contents(m.inputs))
       /\ Analyze(gate, m, Contents(m.inputs)) = "pass"

\* The audit refuses a report with a content that is gone.
LEMMA PromotedIsFresh ==
  ASSUME Inv, Promoted, Present(NewestReport.command.inputs), Named(NewestReport)
  PROVE  /\ AllRead(NewestReport) /\ Recorded(NewestReport, captures, edits)
         /\ Stale(NewestReport, captures, edits) = FALSE
<1> DEFINE r == NewestReport
<1>1. InputsStand(r)
  BY Zenon DEF Promoted
<1>2. \A i \in DOMAIN r.inputs : r.inputs[i].name \in DOMAIN captures
  BY DEF Present, Named
<1> HIDE DEF r
<1>3. ASSUME NEW i \in DOMAIN r.inputs
      PROVE  r.inputs[i].data = <<captures[r.inputs[i].name]>>
  BY <1>1, <1>2 DEF InputsStand, Artifact
<1>4. AllRead(r)
  BY <1>1 DEF AllRead, InputsStand
<1>5. Recorded(r, captures, edits)
  BY <1>2, <1>3 DEF Recorded, Current
<1>6. ASSUME Stale(r, captures, edits)  PROVE  FALSE
  <2>1. PICK i \in DOMAIN r.inputs :
          Superseded(r.inputs[i].name, r.inputs[i].data[1], captures, edits)
    BY <1>6 DEF Stale
  <2>2. captures[r.inputs[i].name] = r.inputs[i].data[1]
    BY <1>3
  <2> QED BY <1>2, <2>1, <2>2, GateAssumption DEF Superseded, Inv, Numbered
<1> QED BY <1>4, <1>5, <1>6 DEF r, Stale

\* Under the invariant, what the audit promotes was checked and analyzed as it is.
LEMMA InvPromotes == Inv => PromotedIsAnalyzed
<1> SUFFICES ASSUME Inv, Promoted, Present(NewestReport.command.inputs)
             PROVE  PromotedIsAnalyzed
  BY DEF PromotedIsAnalyzed
<1> DEFINE r == NewestReport
<1>1. r.status = "passed" /\ reports # <<>>
  BY Zenon DEF Promoted
<1>2. Sound(r, gate, captures, edits)
  <2>1. Len(reports) \in DOMAIN reports
    BY <1>1 DEF Inv, ReportsInv
  <2> QED BY <1>1, <2>1 DEF NewestReport, Inv, ReportsInv
<1>3. Checked(r, gate) /\ Analyzed(r, gate) /\ Contents(r.command.inputs) = Kept(r)
  BY <1>2, PromotedIsFresh, FreshIsThere DEF Sound
<1> QED BY <1>2, <1>3 DEF PromotedIsAnalyzed, Sound, Checked, Analyzed

\* Whatever changes between the steps of the runner, every promotion is of
\* captures that were checked and analyzed as they are.
THEOREM PromotionsAreAnalyzed == Spec => []PromotedIsAnalyzed
<1>1. Inv /\ [Next]_vars => Inv'
  BY NextInv
<1> QED BY <1>1, InitInv, InvPromotes, PTL DEF Spec

\* What the audit compares with the report is the summary and the captures as
\* they are, so that none of them is replaced under a promotion.
THEOREM PromotionsArePinned == Spec => EvidenceIsPinned
<1>1. ASSUME Promoted, Promoted', NewestReport' = NewestReport
      PROVE  /\ summary' = summary
             /\ \A i \in DOMAIN NewestReport.inputs :
                  LET n == NewestReport.inputs[i].name
                  IN n \in DOMAIN captures \cap DOMAIN captures' =>
                       captures'[n] = captures[n]
  <2> DEFINE r == NewestReport
  <2>1. InputsStand(r) /\ SummaryStands(r)
    BY <1>1, Zenon DEF Promoted
  <2>2. InputsStand(r)' /\ SummaryStands(r)'
    BY <1>1, Zenon DEF Promoted
  <2> HIDE DEF r
  <2>3. r' = r
    BY <1>1 DEF r
  <2>4. summary' = summary
    BY <2>1, <2>2, <2>3 DEF SummaryStands
  <2>5. ASSUME NEW i \in DOMAIN r.inputs,
               r.inputs[i].name \in DOMAIN captures \cap DOMAIN captures'
        PROVE  captures'[r.inputs[i].name] = captures[r.inputs[i].name]
    <3>1. r.inputs[i].data = <<captures[r.inputs[i].name]>>
      BY <2>1, <2>5 DEF InputsStand, Artifact
    <3>2. r.inputs[i].data = <<captures'[r.inputs[i].name]>>
      BY <2>2, <2>3, <2>5 DEF InputsStand, Artifact
    <3> QED BY <3>1, <3>2
  <2> QED BY <2>4, <2>5 DEF r
<1>2. [Next]_vars =>
        [Promoted /\ Promoted' /\ NewestReport' = NewestReport =>
           /\ summary' = summary
           /\ \A i \in DOMAIN NewestReport.inputs :
                LET n == NewestReport.inputs[i].name
                IN n \in DOMAIN captures \cap DOMAIN captures' =>
                     captures'[n] = captures[n]]_vars
  BY <1>1
<1> QED BY <1>2, PTL DEF Spec, EvidenceIsPinned

-----------------------------------------------------------------------------
(* Readiness files: never two of a name.                                   *)

Unique(dir) == \A i, j \in DOMAIN dir : dir[i].name = dir[j].name => i = j

ReadinessInv == (\E S : readiness \in Seq(S)) /\ Unique(readiness)

\* A file that is written takes the place of the one of its name.
LEMMA PutUnique ==
  ASSUME NEW S, NEW dir \in Seq(S), NEW name, NEW data, Unique(dir)
  PROVE  Unique(Put(dir, name, data))
<1> DEFINE kept == Without(dir, name)
           new  == [name |-> name, data |-> data]
<1>1. kept \in Seq(S) /\ Unique(kept) /\ \A i \in DOMAIN kept : kept[i].name # name
  <2>1. CASE name \notin NamesIn(dir)
    BY <2>1 DEF Without, NamesIn
  <2>2. CASE name \in NamesIn(dir)
    <3> DEFINE at == CHOOSE i \in DOMAIN dir : dir[i].name = name
    <3>1. at \in DOMAIN dir /\ dir[at].name = name
      BY <2>2 DEF NamesIn
    <3>2. kept = RemoveAt(dir, at)
      BY <2>2, Zenon DEF Without
    <3> HIDE DEF at, kept
    <3>3. /\ kept \in Seq(S) /\ Len(kept) = Len(dir) - 1
          /\ \A i \in 1 .. Len(dir) - 1 :
               kept[i] = IF i < at THEN dir[i] ELSE dir[i + 1]
      BY <3>1, <3>2, RemovedElements
    <3> DEFINE from(i) == IF i < at THEN i ELSE i + 1
    <3>4. /\ DOMAIN kept = 1 .. Len(dir) - 1 /\ DOMAIN dir = 1 .. Len(dir)
          /\ Len(dir) \in Nat /\ at \in Int
      BY <3>1, <3>3
    <3>5. \A i, j \in DOMAIN kept :
            /\ from(i) \in DOMAIN dir /\ from(i) # at /\ (from(i) = from(j) => i = j)
      BY <3>4
    <3>6. \A i \in DOMAIN kept : kept[i] = dir[from(i)]
      BY <3>3, <3>4
    <3> HIDE DEF from
    <3> QED BY <3>1, <3>3, <3>5, <3>6 DEF Unique
  <2> QED BY <2>1, <2>2
<1>2. Put(dir, name, data) = Append(kept, new) /\ new.name = name
  BY DEF Put
<1> HIDE DEF kept, new
<1>3. /\ DOMAIN Put(dir, name, data) = 1 .. Len(kept) + 1 /\ DOMAIN kept = 1 .. Len(kept)
      /\ Len(kept) \in Nat
      /\ \A i \in DOMAIN kept : Put(dir, name, data)[i] = kept[i]
      /\ Put(dir, name, data)[Len(kept) + 1].name = name
  BY <1>1, <1>2
<1> QED BY <1>1, <1>3 DEF Unique

\* Another order of the same files.
LEMMA OrdersUnique ==
  ASSUME NEW S, NEW dir \in Seq(S), Unique(dir), NEW other \in Orders(dir)
  PROVE  Unique(other)
<1>1. PICK p \in [DOMAIN dir -> DOMAIN dir] :
        /\ other = [i \in DOMAIN dir |-> dir[p[i]]]
        /\ \A i, j \in DOMAIN dir : i # j => p[i] # p[j]
  BY DEF Orders
<1>2. DOMAIN other = DOMAIN dir /\ \A i \in DOMAIN dir : p[i] \in DOMAIN dir /\ other[i] = dir[p[i]]
  BY <1>1
<1> QED BY <1>1, <1>2 DEF Unique

\* The only writes to a readiness file.
LEMMA ReadinessMoves ==
  ASSUME [Next]_vars
  PROVE  \/ readiness' = readiness
         \/ \E name, m : readiness' = Put(readiness, name, m)
         \/ readiness' \in Orders(readiness)
<1>1. CASE UNCHANGED vars
  BY <1>1 DEF vars
<1>2. CASE Runner
  BY <1>2 DEF Runner, HashInputs, HashReadiness, CheckInputs, RunAnalyzer, LoadSummary,
              HashSummary, WriteReport
<1>3. CASE FollowFill \/ WriteTemplate
  BY <1>3, Zenon DEF FollowFill, WriteTemplate
<1>4. CASE FollowRun \/ StartWithNone \/ RemoveSummary \/ Checkout \/ Kill
  BY <1>4, Zenon DEF FollowRun, Start, StartWithNone, RemoveSummary, Checkout, Kill
<1>5. ASSUME NEW name, NEW m, Fill(name, m)
      PROVE  \E n, data : readiness' = Put(readiness, n, data)
  BY <1>5, Zenon DEF Fill
<1>6. ASSUME NEW name, MeasureGood(name) \/ Delete(name) \/ DryRun(name) \/ DiscoverRun(name)
      PROVE  readiness' = readiness
  BY <1>6, Zenon DEF MeasureGood, Delete, DryRun, DiscoverRun, Start
<1>7. ASSUME NEW name, NEW data, Replace(name, data)
      PROVE  readiness' = readiness
  BY <1>7, Zenon DEF Replace
<1> QED BY <1>1, <1>2, <1>3, <1>4, <1>5, <1>6, <1>7 DEF Next, Operator

\* Every step keeps the names of readiness files distinct.
LEMMA ReadinessStep == ReadinessInv /\ [Next]_vars => ReadinessInv'
<1> SUFFICES ASSUME ReadinessInv, [Next]_vars PROVE ReadinessInv'
  OBVIOUS
<1>1. PICK S : readiness \in Seq(S)
  BY DEF ReadinessInv
<1>2. Unique(readiness)
  BY DEF ReadinessInv
<1>3. CASE readiness' = readiness
  BY <1>1, <1>2, <1>3 DEF ReadinessInv
<1>4. ASSUME NEW name, NEW m, readiness' = Put(readiness, name, m)
      PROVE  ReadinessInv'
  BY <1>1, <1>2, <1>4, PutElements, PutUnique DEF ReadinessInv
<1>5. CASE readiness' \in Orders(readiness)
  BY <1>1, <1>2, <1>5, OrdersElements, OrdersUnique DEF ReadinessInv
<1> QED BY <1>3, <1>4, <1>5, ReadinessMoves

-----------------------------------------------------------------------------
(* The status of the prototype.                                            *)

\* The fixture gates are the three whose target status is left to fixture evidence.
LEMMA TheFixtureGates == FixtureGates = {"E0-03", "E0-05", "E0-07"}
BY DEF FixtureGates, GateIds, TargetStatus

\* Only a fixture gate can be waiting for work outside, and it is passed only by
\* evidence.
LEMMA GateStatuses ==
  ASSUME NEW g \in GateIds, NEW doc, NEW promoted \in BOOLEAN
  PROVE  /\ GateStatus(g, doc, promoted) \in
              {"missing-evidence", "weak-evidence", "passed", "partial", "blocked"}
         /\ GateStatus(g, doc, promoted) \in {"partial", "blocked"} =>
              g \in FixtureGates /\ ~promoted
         /\ GateStatus(g, doc, promoted) = "passed" =>
              /\ g \in FixtureGates => promoted
              /\ doc.exist /\ doc.sound /\ doc.referenced
BY TheFixtureGates DEF GateStatus, GateIds, TargetStatus

\* The newest readiness file is the one discovery finds, if it is no template.
LEMMA NewestIsDiscovered ==
  ASSUME ReadinessInv, readiness # <<>>, readiness[Len(readiness)].name = Filled
  PROVE  Discovered = {Filled} /\ ContentIn(readiness, Filled) = readiness[Len(readiness)].data
<1>1. /\ DOMAIN readiness = 1 .. Len(readiness) /\ Len(readiness) \in Nat
      /\ Len(readiness) \in DOMAIN readiness
  BY DEF ReadinessInv
<1>2. Filled # Template
  BY DEF Filled, Template
<1> DEFINE live == {i \in DOMAIN readiness : readiness[i].name # Template}
<1>3. Len(readiness) \in live /\ \A k \in live : k <= Len(readiness) /\ k \in Int
  BY <1>1, <1>2
<1>4. {j \in live : \A k \in live : k <= j} = {Len(readiness)}
  BY <1>1, <1>3
<1>5. Discovered = {Filled}
  BY <1>4 DEF Discovered
<1>6. (CHOOSE i \in DOMAIN readiness : readiness[i].name = Filled) = Len(readiness)
  BY <1>1 DEF ReadinessInv, Unique
<1> QED BY <1>5, <1>6 DEF ContentIn

\* What the status tells the operator while the gate is not promoted.
LEMMA AdviceIsRight ==
  ASSUME ReadinessInv, ~AuditCrashes, ~Promoted
  PROVE  /\ NextCommand # None
         /\ NextCommand = "run" /\ readiness[Len(readiness)].name = Filled =>
              LET m == ContentIn(readiness, Filled)
              IN MissingInputs = {m.inputs[i] : i \in DOMAIN m.inputs} \ DOMAIN captures
<1>1. NextCommand = IF ReadinessStatus = "ready" THEN "run" ELSE "fill"
  BY DEF NextCommand
<1>2. NextCommand # None
  BY <1>1 DEF None
<1>3. ASSUME NextCommand = "run", readiness[Len(readiness)].name = Filled
      PROVE  LET m == ContentIn(readiness, Filled)
             IN MissingInputs = {m.inputs[i] : i \in DOMAIN m.inputs} \ DOMAIN captures
  <2> DEFINE m == ContentIn(readiness, Filled)
  <2>1. readiness # <<>> /\ Valid(gate, readiness[Len(readiness)].data)
    BY <1>1, <1>3 DEF ReadinessStatus
  <2>2. Discovered = {Filled} /\ Valid(gate, m)
    BY <1>3, <2>1, NewestIsDiscovered
  <2>3. DryRunInputs = {m.inputs[i] : i \in DOMAIN m.inputs}
    <3>1. DryRunInputs = UNION {IF Valid(gate, ContentIn(readiness, name))
                                THEN {ContentIn(readiness, name).inputs[i] :
                                        i \in DOMAIN ContentIn(readiness, name).inputs}
                                ELSE {} : name \in {Filled}}
      BY <2>2, Zenon DEF DryRunInputs
    <3> HIDE DEF m
    <3> QED BY <2>2, <3>1 DEF m
  <2> QED BY <2>3, Zenon DEF MissingInputs
<1> QED BY <1>2, <1>3

\* Whatever the documents and the other gates: what the status run computes from the
\* audit and the readiness files is true of this gate.
LEMMA InvIsHonest ==
  ASSUME ReadinessInv, gate \in Gates
  PROVE  StatusHonest
<1> SUFFICES ASSUME ~AuditCrashes,
                    NEW others \in {{}, FixtureGates}, NEW doc \in DocumentStates
             PROVE  LET audit == Audit([g \in GateIds |-> IF g = gate THEN doc ELSE Fine],
                                       (others \ {gate}) \cup {g \in {gate} : Promoted})
                    IN /\ Complete(audit) =>
                            Promoted /\ others = FixtureGates
                            /\ doc.exist /\ doc.sound /\ doc.referenced
                       /\ StatusPasses(audit, {}) =>
                            /\ OnlyExternalBlockers(audit)
                            /\ Complete(audit) # AllRemainingExternal(audit)
                            /\ gate \in External(audit) => ~Promoted
  BY AdviceIsRight DEF StatusHonest
<1> DEFINE documents == [g \in GateIds |-> IF g = gate THEN doc ELSE Fine]
           promoted  == (others \ {gate}) \cup {g \in {gate} : Promoted}
           audit     == Audit(documents, promoted)
<1>1. gate \in GateIds /\ gate \in FixtureGates /\ FixtureGates \subseteq GateIds
  BY TheFixtureGates, GateAssumption DEF GateIds
<1>2. /\ gate \in promoted => Promoted
      /\ Promoted => gate \in promoted
      /\ \A g \in GateIds : g # gate => (g \in promoted => g \in others)
  OBVIOUS
<1>3. \A g \in GateIds : audit[g] = GateStatus(g, documents[g], g \in promoted)
  BY Zenon DEF Audit
<1>4. documents[gate] = doc
  BY <1>1
<1> HIDE DEF documents, promoted, audit
<1>5. \A g \in GateIds :
        /\ audit[g] \in {"missing-evidence", "weak-evidence", "passed", "partial", "blocked"}
        /\ audit[g] \in {"partial", "blocked"} => g \notin promoted
        /\ audit[g] = "passed" =>
             /\ g \in FixtureGates => g \in promoted
             /\ documents[g].exist /\ documents[g].sound /\ documents[g].referenced
  <2> SUFFICES ASSUME NEW g \in GateIds
               PROVE  /\ audit[g] \in {"missing-evidence", "weak-evidence", "passed",
                                       "partial", "blocked"}
                      /\ audit[g] \in {"partial", "blocked"} => g \notin promoted
                      /\ audit[g] = "passed" =>
                           /\ g \in FixtureGates => g \in promoted
                           /\ documents[g].exist /\ documents[g].sound
                           /\ documents[g].referenced
    OBVIOUS
  <2> DEFINE there == g \in promoted
  <2>1. there \in BOOLEAN /\ audit[g] = GateStatus(g, documents[g], there)
    BY <1>3
  <2>2. there => g \in promoted
    OBVIOUS
  <2>3. ~there => g \notin promoted
    OBVIOUS
  <2> HIDE DEF there
  <2> QED BY <2>1, <2>2, <2>3, GateStatuses
<1>6. Complete(audit) =>
        Promoted /\ others = FixtureGates /\ doc.exist /\ doc.sound /\ doc.referenced
  <2> SUFFICES ASSUME Complete(audit)
               PROVE  Promoted /\ others = FixtureGates
                      /\ doc.exist /\ doc.sound /\ doc.referenced
    OBVIOUS
  <2>1. \A g \in GateIds : audit[g] = "passed"
    BY DEF Complete
  <2>2. Promoted /\ doc.exist /\ doc.sound /\ doc.referenced
    BY <1>1, <1>2, <1>4, <1>5, <2>1
  <2>3. \E g \in FixtureGates : g # gate
    BY TheFixtureGates
  <2>4. others # {}
    BY <1>1, <1>2, <1>5, <2>1, <2>3
  <2> QED BY <2>2, <2>4
<1>7. ASSUME StatusPasses(audit, {})
      PROVE  /\ OnlyExternalBlockers(audit)
             /\ Complete(audit) # AllRemainingExternal(audit)
             /\ gate \in External(audit) => ~Promoted
  <2>1. Problems(audit) = {}
    BY <1>7 DEF StatusPasses
  <2>2. \A g \in GateIds : audit[g] \in {"passed", "partial", "blocked"}
    BY <1>5, <2>1 DEF Problems
  <2>3. Complete(audit) <=> External(audit) = {}
    BY <2>2 DEF Complete, External
  <2>4. AllRemainingExternal(audit) <=> External(audit) # {}
    BY <2>2 DEF AllRemainingExternal, External
  <2>5. Complete(audit) # AllRemainingExternal(audit)
    BY <2>3, <2>4 DEF Complete, AllRemainingExternal
  <2>6. gate \in External(audit) => ~Promoted
    BY <1>1, <1>2, <1>5 DEF External
  <2> QED BY <2>1, <2>5, <2>6 DEF OnlyExternalBlockers
<1> QED BY <1>6, <1>7 DEF audit, documents, promoted

\* The status run calls the prototype complete only with documents in place and
\* evidence for every fixture gate; one that passes leaves nothing but fixture work,
\* and tells the operator the next step and the captures it would miss, whatever
\* readiness files, templates and checkouts came before.
THEOREM StatusIsHonest == Spec => []StatusHonest
<1> DEFINE All == Inv /\ ReadinessInv /\ gate \in Gates
<1>1. Init => All
  <2>1. Init => ReadinessInv /\ gate \in Gates
    <3> SUFFICES ASSUME Init PROVE ReadinessInv /\ gate \in Gates
      OBVIOUS
    <3>1. readiness \in Seq({}) /\ DOMAIN readiness = {} /\ gate \in Gates
      BY DEF Init
    <3> QED BY <3>1 DEF ReadinessInv, Unique
  <2> QED BY <2>1, InitInv
<1>2. All /\ [Next]_vars => All'
  <2> SUFFICES ASSUME Inv, ReadinessInv, gate \in Gates, [Next]_vars PROVE All'
    OBVIOUS
  <2>1. gate' = gate
    BY StepsMove DEF Inv, Numbered
  <2> QED BY <2>1, NextInv, ReadinessStep
<1>3. All => StatusHonest
  BY InvIsHonest
<1> QED BY <1>1, <1>2, <1>3, PTL DEF Spec

=============================================================================
