-------------------------- MODULE PrototypeStatus --------------------------
(***************************************************************************)
(* The status of Prototype 0: the audit gives each of seven gates a status *)
(* from its documents, from the rollup document and, for a fixture gate,   *)
(* from the fixture evidence (FixtureGate); the status run sums them up,   *)
(* says whether the prototype is complete and what is still to be done.    *)
(***************************************************************************)
EXTENDS FixtureGate

GateIds == {"E0-01", "E0-02", "E0-03", "E0-04", "E0-05", "E0-06", "E0-07"}

\* What a gate is expected to be; the last three need a fixture.
TargetStatus(g) ==
  CASE g = "E0-03" -> "partial"
    [] g \in {"E0-05", "E0-07"} -> "blocked"
    [] OTHER -> "passed"

FixtureGates == {g \in GateIds : TargetStatus(g) \in {"partial", "blocked"}}

\* exist: all evidence files are there; sound: its JSON files are valid and
\* pass; referenced: there is a rollup and it names every Markdown file;
\* covered: it takes up the blockers.
Fine == [exist |-> TRUE, sound |-> TRUE, referenced |-> TRUE, covered |-> TRUE]
DocumentStates == {Fine} \cup {[Fine EXCEPT ![defect] = FALSE] : defect \in DOMAIN Fine}

-----------------------------------------------------------------------------
(* The audit and the status run. *)

\* Mutant: fixture evidence is looked at before the documents.
GateStatus_PromotedFirst(g, doc, promoted) ==
  IF g \in FixtureGates /\ promoted THEN "passed"
  ELSE IF ~doc.exist THEN "missing-evidence"
  ELSE IF ~doc.sound \/ ~doc.referenced \/ ~doc.covered THEN "weak-evidence"
  ELSE TargetStatus(g)

\* Blockers need not be taken up once the fixture evidence is there.
GateStatus(g, doc, promoted) ==
  IF ~doc.exist THEN "missing-evidence"
  ELSE IF ~doc.sound \/ ~doc.referenced THEN "weak-evidence"
  ELSE IF g \in FixtureGates /\ promoted THEN "passed"
  ELSE IF ~doc.covered THEN "weak-evidence"
  ELSE TargetStatus(g)

\* The status of every gate, if the fixture evidence of those in promoted holds.
Audit(documents, promoted) ==
  [g \in GateIds |-> GateStatus(g, documents[g], g \in promoted)]

Problems(audit) == {g \in GateIds : audit[g] \in {"missing-evidence", "weak-evidence"}}

\* Gates whose remaining work is outside; each of them has blockers.
External(audit) == {g \in GateIds : audit[g] \in {"partial", "blocked"}}

Complete(audit) == \A g \in GateIds : audit[g] = "passed"

AllRemainingExternal(audit) ==
  /\ External(audit) # {}
  /\ \A g \in GateIds \ External(audit) : audit[g] = "passed"

OnlyExternalBlockers(audit) == Problems(audit) = {}

\* checks: the outcomes of the tests, power and packet checks asked for.
StatusPasses(audit, checks) == Problems(audit) = {} /\ FALSE \notin checks

\* The inputs of the readiness file that discovery finds, from a dry run that
\* leaves no report.
DryRunInputs ==
  UNION {LET m == ContentIn(readiness, name)
         IN IF Valid(gate, m) THEN {m.inputs[i] : i \in DOMAIN m.inputs} ELSE {} :
         name \in Discovered}

\* Those of them the inventory lists as missing.
MissingInputs == DryRunInputs \ DOMAIN captures

-----------------------------------------------------------------------------
(* Properties. *)

\* Whatever the documents of this gate and the evidence of the others: the
\* prototype is complete only with documents in place and fixture evidence for
\* every fixture gate; a status run that passes is either complete or leaves
\* only fixture work, and then tells the operator what to do about this gate
\* and which captures the run it prints would miss.
StatusHonest ==
  ~AuditCrashes =>
  LET here == Promoted
      next == NextCommand
      advised ==
        /\ next # None
        /\ next = "run" /\ readiness[Len(readiness)].name = Filled =>
             LET m == ContentIn(readiness, Filled)
             IN MissingInputs = {m.inputs[i] : i \in DOMAIN m.inputs} \ DOMAIN captures
  IN \A others \in {{}, FixtureGates}, doc \in DocumentStates :
       LET audit == Audit([g \in GateIds |-> IF g = gate THEN doc ELSE Fine],
                          (others \ {gate}) \cup {g \in {gate} : here})
       IN /\ Complete(audit) =>
               here /\ others = FixtureGates /\ doc.exist /\ doc.sound /\ doc.referenced
          /\ StatusPasses(audit, {}) =>
               /\ OnlyExternalBlockers(audit)
               /\ Complete(audit) # AllRemainingExternal(audit)
               /\ gate \in External(audit) => advised
=============================================================================
