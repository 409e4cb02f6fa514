---------------------------- MODULE FixtureGate ----------------------------
(***************************************************************************)
(* How one of the fixture gates E0-03, E0-05 and E0-07 of Prototype 0 is   *)
(* closed: readiness metadata is filled in, a capture is measured, the     *)
(* runner checks both, runs the analyzer and writes a report, and the      *)
(* audit promotes the gate from the newest report.  All of it lies in      *)
(* files of one directory that the operator may change at any time, also   *)
(* while the runner is at work.                                            *)
(*                                                                         *)
(* Files are compared by size and SHA-256 in the program; here two files   *)
(* are the same if they hold the same content.  A capture has a serial     *)
(* number: no two measurements give the same bytes.                        *)
(***************************************************************************)
EXTENDS FixtureCapture

CONSTANTS
  Gates,       \* the gates a behaviour may be about
  Minimum,     \* per gate: samples the metadata must at least ask for
  Required,    \* per gate: fields that must be filled in
  Default,     \* per gate: the metadata that the published fill command writes
  OtherFills,  \* per gate: further metadata the operator fills in
  Good,        \* per gate: the captures an operator ends with, input -> data
  Measured,    \* per gate: data an operator may measure before that
  Specimens,   \* per gate: captures that undisturbed runs start with
  MaxEdits     \* bound on what the operator does unasked

ASSUME GateAssumption ==
  MaxEdits \in Nat /\ Gates \subseteq {"E0-03", "E0-05", "E0-07"}

VARIABLES
  gate,      \* the gate, fixed from the start
  readiness, \* readiness files, a sequence of [name, data], oldest first
  reports,   \* run reports, likewise
  captures,  \* input files: a function from the names of those that exist
  summary,   \* the analyzer's summary file, a sequence of at most one
  run,       \* the runner
  edits,     \* what the operator did unasked
  calm       \* history: nothing but the runner moved since it last started

vars == <<gate, readiness, reports, captures, summary, run, edits, calm>>

Filled == "filled"      \* the readiness file of the published commands
Template == "template"  \* a file whose name has "template" in it
Retake == "retake"      \* any other readiness file
Report == "run-report"  \* the report file of the published commands
Other == "dry-report"   \* any other report file

None == "none"           \* no readiness file

Idle == [phase |-> "idle"]

-----------------------------------------------------------------------------
(* Files with a modification time. *)

NamesIn(dir) == {dir[i].name : i \in DOMAIN dir}
ContentIn(dir, name) == dir[CHOOSE i \in DOMAIN dir : dir[i].name = name].data
Without(dir, name) ==
  IF name \in NamesIn(dir)
  THEN RemoveAt(dir, CHOOSE i \in DOMAIN dir : dir[i].name = name)
  ELSE dir
Put(dir, name, data) == Append(Without(dir, name), [name |-> name, data |-> data])
Orders(dir) == {[i \in DOMAIN dir |-> dir[p[i]]] :
                  p \in {q \in [DOMAIN dir -> DOMAIN dir] :
                           \A i, j \in DOMAIN dir : i # j => q[i] # q[j]}}

-----------------------------------------------------------------------------
(* Readiness metadata. *)

\* What a fill that does not validate writes in the place of metadata: an
\* object that holds the metadata, and none of its fields.
FailedFill == [wrapped |-> TRUE, filled |-> {}, samples |-> 0,
               target |-> 0, maximum |-> 0, inputs |-> <<>>]

\* The template of a gate, with placeholders in the fields still to fill.
TemplateFor(g) == [Default[g] EXCEPT !.filled = {}]

Valid(g, m) ==
  /\ ~m.wrapped
  /\ Required[g] \subseteq m.filled
  /\ m.samples >= Minimum[g]
  /\ g = "E0-05" => Len(m.inputs) > 1
  /\ g = "E0-07" => m.target > 0 /\ m.maximum > 0 /\ m.maximum >= m.target

\* The newest readiness file that is no template, or none.
Discovered ==
  LET live == {i \in DOMAIN readiness : readiness[i].name # Template}
  IN {readiness[i].name : i \in {j \in live : \A k \in live : k <= j}}

-----------------------------------------------------------------------------
(* The runner. *)

Failed(status, name) == [status |-> status, readiness |-> name, command |-> FailedFill,
                         hash |-> <<>>, inputs |-> <<>>, summary |-> <<>>]

\* The report with another value in one field.
Noted(report, field, value) == [report EXCEPT ![field] = value]

\* A file of captures as it is at this moment, recorded for the report.
Artifact(name) == IF name \in DOMAIN captures THEN <<captures[name]>> ELSE <<>>

Contents(inputs) == [i \in DOMAIN inputs |-> captures[inputs[i]].data]

Present(inputs) == \A i \in DOMAIN inputs : inputs[i] \in DOMAIN captures

\* Discovery finds no readiness file.
StartWithNone ==
  /\ run.phase = "idle" /\ Discovered = {}
  /\ reports' = Put(reports, Report, Failed("no-readiness", None))
  /\ calm' = TRUE
  /\ UNCHANGED <<gate, readiness, captures, summary, run, edits>>

\* Load and validate the named readiness file.  A runner that finds no such
\* file ends with an exception and no report.
Start(name) ==
  /\ run.phase = "idle"
  /\ name \in NamesIn(readiness)
  /\ LET m == ContentIn(readiness, name)
     IN run' = IF Valid(gate, m)
               THEN [phase |-> "inputs",
                     report |-> Noted(Failed("pending", name), "command", m)]
               ELSE [phase |-> "write", report |-> Failed("not-ready", name)]
  /\ calm' = TRUE
  /\ UNCHANGED <<gate, readiness, reports, captures, summary>>

\* Record what is going to be analyzed.
HashInputs ==
  /\ run.phase = "inputs"
  /\ LET names == run.report.command.inputs
     IN run' = [phase |-> "readiness",
                report |-> Noted(run.report, "inputs", [i \in DOMAIN names |->
                  [name |-> names[i], data |-> Artifact(names[i])]])]
  /\ UNCHANGED <<gate, readiness, reports, captures, summary, edits, calm>>

HashReadiness ==
  /\ run.phase = "readiness"
  /\ LET hashed == Noted(run.report, "hash",
                         <<ContentIn(readiness, run.report.readiness)>>)
     IN run' = IF \E i \in DOMAIN hashed.inputs : hashed.inputs[i].data = <<>>
               THEN [phase |-> "write",
                     report |-> Noted(hashed, "status", "missing-inputs")]
               ELSE [phase |-> "contract", report |-> hashed]
  /\ UNCHANGED <<gate, readiness, reports, captures, summary, edits, calm>>

\* An input that has gone since raises an exception.
CheckInputs ==
  /\ run.phase = "contract"
  /\ LET m == run.report.command
     IN run' = IF ~Present(m.inputs) THEN Idle
               ELSE IF MeetsContract(gate, m, Contents(m.inputs))
               THEN [phase |-> "analyze", report |-> run.report]
               ELSE [phase |-> "write",
                     report |-> Noted(run.report, "status", "invalid-inputs")]
  /\ UNCHANGED <<gate, readiness, reports, captures, summary, edits, calm>>

\* The analyzer writes a summary unless it raises an exception; it exits
\* with zero if the summary passes.
RunAnalyzer ==
  /\ run.phase = "analyze"
  /\ LET m == run.report.command
         verdict == IF Present(m.inputs) THEN Analyze(gate, m, Contents(m.inputs))
                    ELSE Crash
     IN /\ summary' = IF verdict = Crash THEN summary
                      ELSE <<[verdict |-> verdict, of |-> Contents(m.inputs)]>>
        /\ run' = [phase |-> "load", report |-> run.report,
                   exit |-> IF verdict = "pass" THEN 0 ELSE 1]
  /\ UNCHANGED <<gate, readiness, reports, captures, edits, calm>>

\* Mutant: the summary alone decides.
Outcome_SummaryOnly(exit, found) ==
  IF found # <<>> /\ found[1].verdict = "pass" THEN "passed" ELSE "failed"

\* A run passes if the analyzer exited with zero and left a passing summary.
Outcome(exit, found) ==
  IF exit = 0 /\ found # <<>> /\ found[1].verdict = "pass" THEN "passed" ELSE "failed"

LoadSummary ==
  /\ run.phase = "load"
  /\ run' = [phase |-> "summary",
             report |-> Noted(run.report, "status", Outcome(run.exit, summary))]
  /\ UNCHANGED <<gate, readiness, reports, captures, summary, edits, calm>>

HashSummary ==
  /\ run.phase = "summary"
  /\ run' = [phase |-> "write", report |-> Noted(run.report, "summary", summary)]
  /\ UNCHANGED <<gate, readiness, reports, captures, summary, edits, calm>>

WriteReport ==
  /\ run.phase = "write"
  /\ reports' = Put(reports, Report, run.report)
  /\ run' = Idle
  /\ UNCHANGED <<gate, readiness, captures, summary, edits, calm>>

Runner == \/ HashInputs \/ HashReadiness \/ CheckInputs \/ RunAnalyzer
          \/ LoadSummary \/ HashSummary \/ WriteReport

-----------------------------------------------------------------------------
(* The audit: it reads the files and changes nothing. *)

NewestReport == reports[Len(reports)].data

\* The state of the newest readiness file, a template or not.
ReadinessStatus ==
  IF readiness = <<>> THEN "missing"
  ELSE IF Valid(gate, readiness[Len(readiness)].data) THEN "ready" ELSE "not-ready"

\* The audit derives the analysis from the report's readiness file also if
\* that does not validate, and raises an exception if it is no metadata.
AuditCrashes ==
  /\ reports # <<>> /\ NewestReport.readiness \in NamesIn(readiness)
  /\ ContentIn(readiness, NewestReport.readiness).wrapped

\* What the readiness file of a report must be for a promotion.
ReadinessStands(r) ==
  /\ r.readiness \in NamesIn(readiness)
  /\ LET m == ContentIn(readiness, r.readiness)
     IN /\ r.hash = <<m>> /\ Valid(gate, m)
        /\ [i \in DOMAIN r.inputs |-> r.inputs[i].name] = m.inputs

\* Mutant: inputs are not compared with what was analyzed.
InputsStand_Unread(r) ==
  r.inputs # <<>> /\ \A i \in DOMAIN r.inputs : r.inputs[i].data # <<>>

\* Every input existed, and still holds what was analyzed unless it is gone.
InputsStand(r) ==
  /\ r.inputs # <<>>
  /\ \A i \in DOMAIN r.inputs :
       /\ r.inputs[i].data # <<>>
       /\ Artifact(r.inputs[i].name) \in {<<>>, r.inputs[i].data}

SummaryStands(r) ==
  r.summary # <<>> /\ summary = r.summary /\ summary[1].verdict = "pass"

\* The newest report promotes the gate from partial or blocked to passed.
Promoted ==
  /\ reports # <<>> /\ ~AuditCrashes
  /\ LET r == NewestReport
     IN r.status = "passed" /\ ReadinessStands(r) /\ InputsStand(r) /\ SummaryStands(r)

\* Mutant: the run command is printed although nothing is ready.
NextCommand_AlwaysRun == IF AuditCrashes \/ Promoted THEN None ELSE "run"

\* What the status tells the operator to do: fill in the metadata, or run
\* the analysis over the file of the published commands.
NextCommand ==
  IF AuditCrashes \/ Promoted THEN None
  ELSE IF ReadinessStatus = "ready" THEN "run" ELSE "fill"

-----------------------------------------------------------------------------
(* The operator. *)

\* Measuring never gives the bytes of another measurement.
Measure(name, data, serial) ==
  captures' = [n \in DOMAIN captures \cup {name} |->
                 IF n = name THEN [data |-> data, serial |-> serial] ELSE captures[n]]

FollowFill ==
  /\ NextCommand = "fill"
  /\ readiness' = Put(readiness, Filled, Default[gate])
  /\ calm' = FALSE
  /\ UNCHANGED <<gate, reports, captures, summary, run, edits>>

FollowRun == NextCommand = "run" /\ Start(Filled) /\ UNCHANGED edits

\* In the end the operator measures what the metadata ask for, and does no
\* more unasked.
MeasureGood(name) ==
  /\ NextCommand = "run" /\ edits' = MaxEdits
  /\ LET good == [data |-> Good[gate][name], serial |-> MaxEdits + 1]
     IN /\ Artifact(name) # <<good>>
        /\ Measure(name, good.data, good.serial)
  /\ calm' = FALSE
  /\ UNCHANGED <<gate, readiness, reports, summary, run>>

\* The runner, started for the readiness file it discovers.
DiscoverRun(name) ==
  edits < MaxEdits /\ edits' = edits + 1 /\ Start(name)

Unasked == edits < MaxEdits /\ edits' = edits + 1 /\ calm' = FALSE

WriteTemplate ==
  /\ Unasked
  /\ readiness' = Put(readiness, Template, TemplateFor(gate))
  /\ UNCHANGED <<gate, reports, captures, summary, run>>

\* A fill that does not validate still writes its file.
Fill(name, data) ==
  /\ Unasked
  /\ readiness' = Put(readiness, name, data)
  /\ UNCHANGED <<gate, reports, captures, summary, run>>

Replace(name, data) ==
  /\ Unasked /\ Measure(name, data, edits + 1)
  /\ UNCHANGED <<gate, readiness, reports, summary, run>>

Delete(name) ==
  /\ Unasked /\ name \in DOMAIN captures
  /\ captures' = [n \in DOMAIN captures \ {name} |-> captures[n]]
  /\ UNCHANGED <<gate, readiness, reports, summary, run>>

RemoveSummary ==
  /\ Unasked /\ summary # <<>> /\ summary' = <<>>
  /\ UNCHANGED <<gate, readiness, reports, captures, run>>

\* A dry run of the runner checks the metadata and analyzes nothing.
DryRun(name) ==
  /\ Unasked /\ run.phase = "idle" /\ name \in NamesIn(readiness)
  /\ reports' = Put(reports, Other, Failed(
       IF Valid(gate, ContentIn(readiness, name)) THEN "dry-run" ELSE "not-ready", name))
  /\ UNCHANGED <<gate, readiness, captures, summary, run>>

\* A checkout of the repository sets modification times in any order.
Checkout ==
  /\ Unasked
  /\ readiness' \in Orders(readiness) /\ reports' \in Orders(reports)
  /\ UNCHANGED <<gate, captures, summary, run>>

\* The runner is stopped; a report being written is left incomplete.
Kill ==
  /\ Unasked /\ run.phase # "idle" /\ run' = Idle
  /\ reports' = IF run.phase = "write" THEN Put(reports, Report, Failed("invalid", None))
                ELSE reports
  /\ UNCHANGED <<gate, readiness, captures, summary>>

Operator ==
  \/ FollowFill \/ FollowRun \/ StartWithNone
  \/ WriteTemplate \/ RemoveSummary \/ Checkout \/ Kill
  \/ \E name \in {Filled, Retake}, m \in OtherFills[gate] \cup {FailedFill} :
       Fill(name, m)
  \/ \E name \in DOMAIN Good[gate] :
       \/ MeasureGood(name) \/ Delete(name)
       \/ \E data \in Measured[gate] : Replace(name, data)
  \/ \E name \in Discovered : DryRun(name) \/ DiscoverRun(name)

\* The examples, in the place of captures.
ExampleCaptures(g) == [name \in DOMAIN Good[g] |-> CaptureTemplate(g)]

\* From an empty directory, or undisturbed over a specimen or the examples.
Init ==
  /\ gate \in Gates
  /\ \/ edits = 0 /\ captures = <<>>
     \/ /\ edits = MaxEdits
        /\ \E s \in Specimens[gate] \cup {ExampleCaptures(gate)} :
             captures = [n \in DOMAIN s |-> [data |-> s[n], serial |-> 0]]
  /\ readiness = <<>> /\ reports = <<>> /\ summary = <<>>
  /\ run = Idle /\ calm = FALSE

Next == Runner \/ Operator

Spec == Init /\ [][Next]_vars

\* A runner always gets to its end, and the operator does what the status says
\* and measures in the end.  (A runner that is at work can always move, so the
\* first conjunct is weak fairness of Runner.)
Fairness ==
  /\ []<>(run = Idle)
  /\ WF_vars(FollowFill) /\ WF_vars(FollowRun)
  /\ WF_vars(\E name \in DOMAIN Good[gate] : MeasureGood(name))

FairSpec == Spec /\ Fairness

-----------------------------------------------------------------------------
(* What a capture must show, said without the analyzer. *)

\* Rising edges of one logic channel.
Rises(c, channel) ==
  IF c.shape = "edge-list"
  THEN {c.rows[i].time : i \in {j \in DOMAIN c.rows : c.rows[j].channel = channel
                                  /\ c.rows[j].value # "low"}}
  ELSE {c.rows[i].time : i \in {j \in DOMAIN c.rows : c.rows[j][channel]
                                  /\ (j > 1 => ~c.rows[j - 1][channel])}}

\* At any time no more transmissions have started than were queued, and in
\* the end as many, and no fewer than asked for.
Scheduled(m, c) ==
  LET queued == Rises(c, "queue")
      started == Rises(c, "start")
      upTo(S, t) == Cardinality({x \in S : x <= t})
  IN /\ Cardinality(queued) >= m.samples
     /\ Cardinality(started) = Cardinality(queued)
     /\ \A t \in started : upTo(started, t) <= upTo(queued, t)

\* Every file tells of enough packets, and a hundredth of those of one file
\* was lost.
Attenuated(m, files) ==
  /\ \A i \in DOMAIN files : Len(files[i].steps) = 1
  /\ \A i \in DOMAIN files : LET s == files[i].steps[1] IN
       /\ s.rx >= 0 /\ s.transmitted >= m.samples
       /\ s.requested = Absent \/ s.requested >= m.samples
  /\ \E i \in DOMAIN files : LET s == files[i].steps[1] IN
       IF s.ratio = Absent THEN 100 * (s.transmitted - s.rx) >= s.transmitted
       ELSE s.ratio <= 99

\* Enough frames are marked at every stage; none of those runs backwards,
\* none takes longer than the maximum, and at most a twentieth is above the
\* target.
InTime(m, c) ==
  LET frames == FramesOf(c)
      marked == {f \in DOMAIN frames : FrameEvents \subseteq DOMAIN frames[f]}
      delay(f) == frames[f]["playback"] - frames[f]["impulse"]
  IN /\ Cardinality(marked) >= m.samples
     /\ \A f \in marked :
          /\ frames[f]["impulse"] <= frames[f]["capture"]
          /\ frames[f]["capture"] <= frames[f]["queue"]
          /\ frames[f]["tx_start"] <= frames[f]["rx"]
          /\ frames[f]["rx"] <= frames[f]["playback"]
          /\ delay(f) <= m.maximum
     /\ 20 * Cardinality({f \in marked : delay(f) > m.target}) <= Cardinality(marked)

Shows(m, files) ==
  CASE gate = "E0-03" -> files[1].recognized /\ Scheduled(m, files[1])
    [] gate = "E0-05" -> Attenuated(m, files)
    [] gate = "E0-07" -> files[1].recognized /\ InTime(m, files[1])

-----------------------------------------------------------------------------
(* Properties. *)

\* The captures of a promoted gate, if they are all there, show what the
\* metadata of its run ask for, and those were valid, however the operator
\* changed the files while the runner and the audit read them one by one.
\* (The audit takes no offence at a capture that is gone.)
PromotedIsGenuine ==
  Promoted /\ Present(NewestReport.command.inputs) =>
    LET m == NewestReport.command
    IN Valid(gate, m) /\ Shows(m, Contents(m.inputs))

\* After a run that nobody disturbed the gate is promoted exactly if its
\* metadata are valid and its captures show what they ask for: analyzer,
\* runner and audit agree with the pass criteria in both directions.
CalmRunDecides ==
  calm /\ run = Idle =>
    LET m == NewestReport.command
    IN Promoted <=> /\ Valid(gate, m) /\ Present(m.inputs)
                    /\ Shows(m, Contents(m.inputs))

\* As long as a gate rests on one report, no capture it names and no summary
\* is replaced: another measurement takes another run.
EvidenceIsPinned ==
  [][Promoted /\ Promoted' /\ NewestReport' = NewestReport =>
       /\ summary' = summary
       /\ \A i \in DOMAIN NewestReport.inputs :
            LET n == NewestReport.inputs[i].name
            IN n \in DOMAIN captures \cap DOMAIN captures' =>
                 captures'[n] = captures[n]]_vars

\* The printed run command is for another file than the newest, which is
\* ready, and that file is missing or does not validate.
Misdirected ==
  /\ NextCommand = "run" /\ ReadinessStatus = "ready"
  /\ Filled \in NamesIn(readiness) => ~Valid(gate, ContentIn(readiness, Filled))

\* An operator who does what the status prints, and in the end measures what
\* is asked for, gets the gate promoted for good, whatever happened before,
\* unless the audit crashes or points at the wrong readiness file.
GuidancePromotes == <>[](Promoted \/ AuditCrashes \/ Misdirected)
=============================================================================
