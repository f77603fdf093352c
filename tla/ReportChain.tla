------------------------------ MODULE ReportChain ------------------------------
(***************************************************************************)
(* The v0.2.0 command chain.  npm run v020:report and v020:readiness run   *)
(* the same gates one after another, each a process of its own; a gate     *)
(* reads the working tree or the file an earlier gate left in              *)
(* reports/current, and replaces its own file there.  Nothing is locked:   *)
(* several commands may run in one tree while its files are edited, and a  *)
(* command may be killed.                                                  *)
(*                                                                         *)
(* A file is the set of its contents, empty when it does not exist.  One   *)
(* file is written at once.  The copies under reports/history are left     *)
(* out, and so is the webhook gate, which checks literals of its own.      *)
(***************************************************************************)
EXTENDS CandidateEvaluation, Sequences

CONSTANTS
  Files,            \* fixtures/v020/candidates/*.json
  Candidates,       \* what a file may hold
  AcceptedRepos,    \* repositories of the accepted graph
  ExpectedQuarantined, \* quarantined cases the simulator insists on (4 of 5)
  Procs,            \* commands that may be started
  MaxEdits          \* bound: edits of the working tree

ASSUME ChainAssumption ==
  /\ IsFiniteSet(Files)
  /\ \A c \in Candidates : IsCandidate(c)
  /\ ExpectedQuarantined \in Nat /\ MaxEdits \in Nat

VARIABLES
  tree,    \* candidate in each file
  broken,  \* gates whose own inputs are invalid
  edits,   \* edits made
  cur,     \* reports/current
  proc     \* the commands: program, step, gates whose output held their
           \* token, what was read and not yet written

vars == <<tree, broken, edits, cur, proc>>

Reports == {"schema", "comparator", "verdict", "quarantine", "operator", "sim",
            "hostile", "bundle", "readiness"}
Breakable == {"schema", "hostile"}

(* Each script reads, then writes the report it is named after here; the    *)
(* operator's and the simulator's scripts run their predecessor first.      *)
QuarantineScript == <<"quarantine">>
OperatorScript == QuarantineScript \o <<"operator">>
SimScript == OperatorScript \o <<"sim">>

Gates ==
  <<"schema", "comparator", "verdict">> \o QuarantineScript \o OperatorScript
  \o SimScript \o <<"hostile">>

(* Mutants of Program: the operator's reports are refreshed once more after *)
(* the bundle was made; the simulator's script trusts the operator bundle   *)
(* it finds.                                                                *)
ProgramRefreshesLate(job) ==
  CASE job = "v020:report" -> Gates \o <<"bundle">> \o OperatorScript
    [] job = "v020:readiness" -> Gates \o <<"readiness">>
    [] job = "v020:operator-review" -> OperatorScript
    [] job = "v020:writer-sim" -> SimScript

ProgramSimAlone(job) ==
  CASE job = "v020:report" ->
         <<"schema", "comparator", "verdict", "hostile", "sim", "quarantine", "operator",
           "bundle">>
    [] job = "v020:readiness" -> Gates \o <<"readiness">>
    [] job = "v020:operator-review" -> OperatorScript
    [] job = "v020:writer-sim" -> SimScript

Program(job) ==
  CASE job = "v020:report" -> Gates \o <<"bundle">>
    [] job = "v020:readiness" -> Gates \o <<"readiness">>
    [] job = "v020:operator-review" -> OperatorScript
    [] job = "v020:writer-sim" -> SimScript

Jobs == {"v020:report", "v020:readiness", "v020:operator-review", "v020:writer-sim"}

-----------------------------------------------------------------------------
(* What the scripts compute.  "source" is the directory a report was        *)
(* computed from, which the code does not record.                           *)
ComparatorSuite(dir) ==
  [ source  |-> dir,
    results |-> [f \in Files |-> CompareAcceptedVsCandidate(AcceptedRepos, dir[f])] ]

VerdictSuite(dir) ==
  [ source  |-> dir,
    results |-> [f \in Files |-> CompileAdmissionReceipt(CompileActuatorVerdict(dir[f]))] ]

QuarantineSuite(dir) ==
  [ source  |-> dir, results |-> [f \in Files |-> QuarantineResult(dir[f])] ]

OperatorReviewBundle(suite) ==
  [ source |-> suite.source,
    cases  |-> [f \in Files |-> OperatorCase(suite.results[f])] ]

WriterSimulation(bundle) ==
  [ source      |-> bundle.source,
    cases       |-> bundle.cases,
    conclusions |-> [f \in Files |-> SimulatedConclusion(bundle.cases[f])],
    issues      |-> {f \in Files : bundle.cases[f].required} ]

(* write-report-bundle.js lists every file of reports/current, an older     *)
(* bundle among them.                                                       *)
Hashed == Reports \ {"bundle", "readiness"}
CurrentReportHashes == [r \in Hashed |-> cur[r]]

(* Both artifacts count the gates whose output held no PASS token, and say  *)
(* PASS where there is none.  Gate 9 asks only that the bundle found in     *)
(* reports/current says so.                                                 *)
Bundle(passed) == [hashes |-> CurrentReportHashes, failed |-> Hashed \ passed]

BindingGate == "report_writers_history_binding"
ReadinessArtifact(passed) ==
  [failed |-> (Hashed \ passed)
              \cup {g \in {BindingGate} : \A b \in cur.bundle : b.failed # {}}]

(* What the script of a report computes, as the set of its results: empty   *)
(* where the file it reads is missing.                                      *)
Computed(report, passed) ==
  CASE report \in Breakable -> {[ok |-> report \notin broken]}
    [] report = "comparator" -> {ComparatorSuite(tree)}
    [] report = "verdict" -> {VerdictSuite(tree)}
    [] report = "quarantine" -> {QuarantineSuite(tree)}
    [] report = "operator" -> {OperatorReviewBundle(suite) : suite \in cur.quarantine}
    [] report = "sim" -> {WriterSimulation(bundle) : bundle \in cur.operator}
    [] report = "bundle" -> {Bundle(passed)}
    [] report = "readiness" -> {ReadinessArtifact(passed)}

(* simulate-test-mode-writer.js exits before it writes; the schema, hostile *)
(* and sealing scripts write what failed and exit then.                     *)
Refused(report, result) ==
  report = "sim" /\ Cardinality(result.issues) # ExpectedQuarantined

(* Mutant of ExitsNonZero: a gate says what failed and exits 0.             *)
ExitsOnSeals(report, result) ==
  report \in {"bundle", "readiness"} /\ result.failed # {}

ExitsNonZero(report, result) ==
  \/ report \in Breakable /\ ~result.ok
  \/ report \in {"bundle", "readiness"} /\ result.failed # {}

(* The PASS token of a gate, looked for in the output of its script.        *)
PrintsToken(report, result) == report \in Breakable => result.ok

-----------------------------------------------------------------------------
Idle == [status |-> "idle", job |-> "none", at |-> 0, phase |-> "read",
         held |-> {}, passed |-> {}, lone |-> FALSE]

Live(p) == proc[p].status = "running"
Report(p) == Program(proc[p].job)[proc[p].at]

Init ==
  /\ tree \in [Files -> Candidates]
  /\ broken \in SUBSET Breakable
  /\ edits = 0
  /\ cur = [r \in Reports |-> {}]
  /\ proc = [p \in Procs |-> Idle]

(* Mutant of Start: a command empties reports/current first.                *)
StartClean(p, job) ==
  /\ proc[p].status = "idle"
  /\ cur' = [r \in Reports |-> {}]
  /\ proc' = [q \in Procs |->
       IF q = p THEN [Idle EXCEPT !.status = "running", !.job = job, !.at = 1,
                                  !.lone = \A o \in Procs : ~Live(o)]
       ELSE [proc[q] EXCEPT !.lone = FALSE]]
  /\ UNCHANGED <<tree, broken, edits>>

(* A command starts; "lone" says that no other ran or runs beside it.       *)
Start(p, job) ==
  /\ proc[p].status = "idle"
  /\ proc' = [q \in Procs |->
       IF q = p THEN [Idle EXCEPT !.status = "running", !.job = job, !.at = 1,
                                  !.lone = \A o \in Procs : ~Live(o)]
       ELSE [proc[q] EXCEPT !.lone = FALSE]]
  /\ UNCHANGED <<tree, broken, edits, cur>>

ReadStep(p) ==
  /\ Live(p) /\ proc[p].phase = "read"
  /\ Computed(Report(p), proc[p].passed) # {}
  /\ proc' = [proc EXCEPT ![p].held = Computed(Report(p), proc[p].passed),
                          ![p].phase = "write"]
  /\ UNCHANGED <<tree, broken, edits, cur>>

(* execSync and execFileSync throw when a script exits non-zero, which ends *)
(* the command that ran it.                                                 *)
End(p, status) ==
  proc' = [proc EXCEPT ![p] = [Idle EXCEPT !.status = status, !.job = proc[p].job,
                                           !.lone = proc[p].lone]]

RefuseToWrite(p) ==
  /\ Live(p) /\ proc[p].phase = "write"
  /\ \E x \in proc[p].held : Refused(Report(p), x)
  /\ End(p, "failed")
  /\ UNCHANGED <<tree, broken, edits, cur>>

WriteStep(p) ==
  /\ Live(p) /\ proc[p].phase = "write"
  /\ \E x \in proc[p].held :
       /\ ~Refused(Report(p), x)
       /\ cur' = [cur EXCEPT ![Report(p)] = {x}]
       /\ IF ExitsNonZero(Report(p), x) THEN End(p, "failed")
          ELSE IF proc[p].at = Len(Program(proc[p].job))
          THEN End(p, "done")
          ELSE proc' = [proc EXCEPT ![p].at = @ + 1, ![p].phase = "read", ![p].held = {},
                                    ![p].passed = @ \cup {r \in {Report(p)} : PrintsToken(r, x)}]
  /\ UNCHANGED <<tree, broken, edits>>

Kill(p) ==
  /\ Live(p)
  /\ End(p, "killed")
  /\ UNCHANGED <<tree, broken, edits, cur>>

(* Someone edits a candidate, or the inputs of another gate.                *)
EditCandidate(f, c) ==
  /\ edits < MaxEdits
  /\ edits' = edits + 1
  /\ tree' = [tree EXCEPT ![f] = c]
  /\ UNCHANGED <<broken, cur, proc>>

EditGateInput(g) ==
  /\ edits < MaxEdits
  /\ edits' = edits + 1
  /\ broken' = IF g \in broken THEN broken \ {g} ELSE broken \cup {g}
  /\ UNCHANGED <<tree, cur, proc>>

Next ==
  \/ \E p \in Procs :
       \/ \E job \in Jobs : Start(p, job)
       \/ ReadStep(p) \/ RefuseToWrite(p) \/ WriteStep(p)
       \/ Kill(p)
  \/ \E f \in Files, c \in Candidates : EditCandidate(f, c)
  \/ \E g \in Breakable : EditGateInput(g)

Spec == Init /\ [][Next]_vars

-----------------------------------------------------------------------------
Dangerous(c) ==
  "truth" \in c.facets \/ c.signals # {} \/ \E m \in c.mentions : m.form = "asserted"

Statuses == {"idle", "running", "done", "failed", "killed"}

(* Type invariant. *)
TypeOK ==
  /\ tree \in [Files -> Candidates]
  /\ broken \subseteq Breakable
  /\ edits \in 0 .. MaxEdits
  /\ DOMAIN cur = Reports /\ \A r \in Reports : Cardinality(cur[r]) <= 1
  /\ \A p \in Procs :
       /\ proc[p].status \in Statuses /\ proc[p].lone \in BOOLEAN
       /\ proc[p].passed \subseteq Hashed
       /\ Live(p) => proc[p].job \in Jobs /\ proc[p].at \in DOMAIN Program(proc[p].job)
       /\ proc[p].held # {} <=> Live(p) /\ proc[p].phase = "write"

(* A candidate that touches truth, carries a signal or asserts a dangerous  *)
(* phrase never ends in a successful simulated check run, and a harmless    *)
(* one always does: six modules and four files lie between the candidate    *)
(* and the packet, and commands race over the files.                        *)
DangerNeverSucceeds ==
  \A sim \in cur.sim : \A f \in Files :
    sim.conclusions[f] = "success" <=> ~Dangerous(sim.source[f])

(* Suites computed from one state of the candidates agree though each       *)
(* classifies again: what the comparator admits is admitted by the receipt, *)
(* and a receipt admits exactly what is not quarantined.                    *)
SuitesAgree ==
  /\ \A c \in cur.comparator, v \in cur.verdict : c.source = v.source =>
       \A f \in Files : c.results[f].mergeAllowed
                        => v.results[f].admission = "REPORT_ONLY_ADMISSION"
  /\ \A v \in cur.verdict, q \in cur.quarantine : v.source = q.source =>
       \A f \in Files : (v.results[f].admission = "REPORT_ONLY_ADMISSION")
                        <=> ~q.results[f].quarantine.required

(* A command that ran alone leaves a chain of reports that fit together,    *)
(* whatever was edited while it ran and whatever a killed command left      *)
(* before it: the operator bundle is that of the quarantine suite, and the  *)
(* simulation is that of the bundle.                                        *)
LoneChainFits ==
  \A p \in Procs : proc[p].status = "done" /\ proc[p].lone =>
    /\ cur.operator = {OperatorReviewBundle(suite) : suite \in cur.quarantine}
    /\ proc[p].job # "v020:operator-review" =>
         cur.sim = {WriterSimulation(bundle) : bundle \in cur.operator}

(* The hashes in the bundle of a lone v020:report are those of the files it *)
(* leaves behind (its own earlier bundle, which it lists too, excepted).    *)
LoneBundleBinds ==
  \A p \in Procs : proc[p].status = "done" /\ proc[p].lone /\ proc[p].job = "v020:report"
    => \A b \in cur.bundle : \A r \in Hashed : b.hashes[r] = cur[r] /\ cur[r] # {}

(* What the gates make of the tree as it stands.                            *)
OfThisTree(report) ==
  CASE report \in Breakable -> [ok |-> report \notin broken]
    [] report = "comparator" -> ComparatorSuite(tree)
    [] report = "verdict" -> VerdictSuite(tree)
    [] report = "quarantine" -> QuarantineSuite(tree)
    [] report = "operator" -> OperatorReviewBundle(QuarantineSuite(tree))
    [] report = "sim" -> WriterSimulation(OperatorReviewBundle(QuarantineSuite(tree)))

(* Commands that race over the reports of a tree nobody edits leave what    *)
(* one alone would leave, though each replaces and reads the files of the   *)
(* others and any may fail or be killed: whatever a finished command ran    *)
(* has left its report, the one report of this tree, and every bundle holds *)
(* the hashes of the whole chain.                                           *)
RacesLeaveOneChain ==
  edits = 0 =>
    /\ \A p \in Procs : proc[p].status = "done" =>
         \A i \in DOMAIN Program(proc[p].job) :
           LET r == Program(proc[p].job)[i] IN r \in Hashed => cur[r] = {OfThisTree(r)}
    /\ \A b \in cur.bundle : \A r \in Hashed : b.hashes[r] = {OfThisTree(r)}

(* A gate that fails ends the command that runs it: a command goes on only  *)
(* past gates whose token it heard.  So no bundle counts a failed step or   *)
(* hashes a simulation whose counts were wrong, a published FAIL names the  *)
(* binding gate alone, and the bundle of a lone v020:report hashes no       *)
(* report of a failed gate, though failed gates do publish theirs.          *)
FailuresSealNothing ==
  /\ \A p \in Procs : Live(p) =>
       \A i \in 1 .. proc[p].at - 1 : Program(proc[p].job)[i] \in proc[p].passed
  /\ \A a \in cur.readiness : a.failed \subseteq {BindingGate}
  /\ \A b \in cur.bundle :
       b.failed = {} /\ \A g \in b.hashes.sim : Cardinality(g.issues) = ExpectedQuarantined
  /\ \A p \in Procs :
       proc[p].status = "done" /\ proc[p].lone /\ proc[p].job = "v020:report" =>
         \A b \in cur.bundle, g \in Breakable : \A x \in b.hashes[g] : x.ok
=============================================================================
