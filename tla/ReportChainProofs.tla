---------------------------- MODULE ReportChainProofs ----------------------------
(***************************************************************************)
(* The report chain proved for any candidates, any number of files and any *)
(* number of commands.  The invariant says of every report, written or     *)
(* still in the memory of a command, that it was computed from some one    *)
(* state of the candidates: races choose which state, never a mixture.     *)
(* ChainInv adds what a command that runs alone has left so far, which is  *)
(* what its last reports need to fit together, and that nothing written    *)
(* was refused.                                                            *)
(***************************************************************************)
EXTENDS ReportChain, FiniteSetTheorems, SequenceTheorems, TLAPS

Trees == [Files -> Candidates]

(* x is what the scripts make of one state of the candidates.               *)
Made(report, x) ==
  /\ report = "comparator" => \E t \in Trees : x = ComparatorSuite(t)
  /\ report = "verdict" => \E t \in Trees : x = VerdictSuite(t)
  /\ report = "quarantine" => \E t \in Trees : x = QuarantineSuite(t)
  /\ report = "operator" => \E t \in Trees : x = OperatorReviewBundle(QuarantineSuite(t))
  /\ report = "sim" =>
       \E t \in Trees : x = WriterSimulation(OperatorReviewBundle(QuarantineSuite(t)))

Fields == {"status", "job", "at", "phase", "held", "passed", "lone"}

ProcShape == DOMAIN proc = Procs /\ \A p \in Procs : DOMAIN proc[p] = Fields

Running(p) ==
  Live(p) => /\ proc[p].job \in Jobs
             /\ proc[p].at \in 1 .. Len(Program(proc[p].job))
             /\ \A x \in proc[p].held : Made(Report(p), x)

IInv ==
  /\ tree \in Trees
  /\ DOMAIN cur = Reports
  /\ \A r \in Reports : \A x \in cur[r] : Made(r, x)
  /\ ProcShape
  /\ \A p \in Procs : Running(p)

-----------------------------------------------------------------------------
LEMMA ProgramsNameReports ==
  ASSUME NEW job \in Jobs
  PROVE  /\ Program(job) \in Seq(Reports)
         /\ Len(Program(job)) \in Nat \ {0}
         /\ \A i \in 1 .. Len(Program(job)) : Program(job)[i] \in Reports
<1>1. /\ QuarantineScript \in Seq(Reports) /\ Len(QuarantineScript) = 1
  BY DEF QuarantineScript, Reports
<1>2. /\ <<"operator">> \in Seq(Reports) /\ <<"sim">> \in Seq(Reports)
      /\ <<"hostile">> \in Seq(Reports) /\ <<"bundle">> \in Seq(Reports)
      /\ <<"readiness">> \in Seq(Reports)
      /\ <<"schema", "comparator", "verdict">> \in Seq(Reports)
  BY DEF Reports
<1>3. OperatorScript \in Seq(Reports) /\ Len(OperatorScript) >= 1
  BY <1>1, <1>2 DEF OperatorScript
<1>4. SimScript \in Seq(Reports) /\ Len(SimScript) >= 1
  BY <1>2, <1>3 DEF SimScript
<1>5. Gates \in Seq(Reports) /\ Len(Gates) >= 1
  BY <1>1, <1>2, <1>3, <1>4 DEF Gates
<1>6. Program(job) \in Seq(Reports) /\ Len(Program(job)) >= 1
  BY <1>2, <1>3, <1>4, <1>5 DEF Program, Jobs
<1> QED
  BY <1>6

(* What a script computes from reports that are made is made.               *)
LEMMA ComputedIsMade ==
  ASSUME tree \in Trees, NEW r \in Reports,
         \A q \in Reports : \A y \in cur[q] : Made(q, y),
         NEW passed, NEW x \in Computed(r, passed)
  PROVE  Made(r, x)
<1>1. CASE r \in {"schema", "hostile", "bundle", "readiness"}
  BY <1>1 DEF Made
<1>2. CASE r = "comparator"
  <2>1. x = ComparatorSuite(tree)
    BY <1>2 DEF Computed, Breakable
  <2> QED
    BY <1>2, <2>1 DEF Made
<1>3. CASE r = "verdict"
  <2>1. x = VerdictSuite(tree)
    BY <1>3 DEF Computed, Breakable
  <2> QED
    BY <1>3, <2>1 DEF Made
<1>4. CASE r = "quarantine"
  <2>1. x = QuarantineSuite(tree)
    BY <1>4 DEF Computed, Breakable
  <2> QED
    BY <1>4, <2>1 DEF Made
<1>5. CASE r = "operator"
  <2>1. PICK suite \in cur["quarantine"] : x = OperatorReviewBundle(suite)
    BY <1>5 DEF Computed, Breakable
  <2>2. Made("quarantine", suite)
    BY DEF Reports
  <2> QED
    BY <1>5, <2>1, <2>2 DEF Made
<1>6. CASE r = "sim"
  <2>1. PICK bundle \in cur["operator"] : x = WriterSimulation(bundle)
    BY <1>6 DEF Computed, Breakable
  <2>2. Made("operator", bundle)
    BY DEF Reports
  <2> QED
    BY <1>6, <2>1, <2>2 DEF Made
<1> QED
  BY <1>1, <1>2, <1>3, <1>4, <1>5, <1>6 DEF Reports

LEMMA InitInvariant == Init => IInv
  BY DEF Init, IInv, Trees, ProcShape, Running, Live, Idle, Fields

LEMMA EndInvariant ==
  ASSUME IInv, NEW p \in Procs, NEW status \in {"done", "failed", "killed"},
         End(p, status)
  PROVE  ProcShape' /\ \A q \in Procs : Running(q)'
<1>1. proc' = [proc EXCEPT ![p] = [Idle EXCEPT !.status = status, !.job = proc[p].job,
                                               !.lone = proc[p].lone]]
  BY DEF End
<1>2. ProcShape'
  BY <1>1 DEF IInv, ProcShape, Idle, Fields
<1>3. ~Live(p)' /\ \A q \in Procs \ {p} : proc'[q] = proc[q]
  BY <1>1 DEF IInv, ProcShape, Idle, Live
<1> QED
  BY <1>2, <1>3 DEF IInv, Running, Live, Report

(* What a command writes, and how it goes on: a gate that lets it go on has *)
(* printed its token.                                                       *)
GoesOn(p) ==
  /\ proc[p].at # Len(Program(proc[p].job))
  /\ proc' = [proc EXCEPT ![p].at = @ + 1, ![p].phase = "read", ![p].held = {},
                          ![p].passed = @ \cup {Report(p)}]

LEMMA WriteEffect ==
  ASSUME NEW p \in Procs, WriteStep(p)
  PROVE  \E x \in proc[p].held :
           /\ ~Refused(Report(p), x)
           /\ cur' = [cur EXCEPT ![Report(p)] = {x}]
           /\ \/ End(p, "failed")
              \/ /\ ~ExitsNonZero(Report(p), x)
                 /\ \/ End(p, "done") /\ proc[p].at = Len(Program(proc[p].job))
                    \/ GoesOn(p)
<1>1. PICK x \in proc[p].held :
        /\ ~Refused(Report(p), x)
        /\ cur' = [cur EXCEPT ![Report(p)] = {x}]
        /\ IF ExitsNonZero(Report(p), x) THEN End(p, "failed")
           ELSE IF proc[p].at = Len(Program(proc[p].job))
           THEN End(p, "done")
           ELSE proc' = [proc EXCEPT ![p].at = @ + 1, ![p].phase = "read", ![p].held = {},
                                     ![p].passed = @ \cup {r \in {Report(p)} : PrintsToken(r, x)}]
  BY DEF WriteStep
<1>2. ASSUME ~ExitsNonZero(Report(p), x)
      PROVE  {r \in {Report(p)} : PrintsToken(r, x)} = {Report(p)}
  BY <1>2 DEF ExitsNonZero, PrintsToken
<1> QED
  BY <1>1, <1>2 DEF GoesOn

LEMMA StepInvariant == IInv /\ [Next]_vars => IInv'
<1> SUFFICES ASSUME IInv, [Next]_vars PROVE IInv'
  OBVIOUS
<1> USE DEF IInv
<1>1. ASSUME NEW p \in Procs, NEW job \in Jobs, Start(p, job) PROVE IInv'
  <2>1. proc'[p] = [Idle EXCEPT !.status = "running", !.job = job, !.at = 1,
                                !.lone = \A o \in Procs : ~Live(o)]
    BY <1>1 DEF Start
  <2>2. \A q \in Procs \ {p} : proc'[q] = [proc[q] EXCEPT !.lone = FALSE]
    BY <1>1 DEF Start
  <2>3. DOMAIN proc' = Procs
    BY <1>1 DEF Start
  <2>4. ProcShape'
    BY <2>1, <2>2, <2>3 DEF ProcShape, Idle, Fields
  <2>5. Running(p)'
    <3>1. proc'[p].job = job /\ proc'[p].at = 1 /\ proc'[p].held = {}
      BY <2>1 DEF Idle
    <3> QED
      BY <3>1, ProgramsNameReports DEF Running
  <2>6. ASSUME NEW q \in Procs \ {p} PROVE Running(q)'
    <3>1. /\ proc'[q].status = proc[q].status /\ proc'[q].job = proc[q].job
          /\ proc'[q].at = proc[q].at /\ proc'[q].held = proc[q].held
      BY <2>2 DEF ProcShape, Fields
    <3> QED
      BY <3>1 DEF Running, Live, Report
  <2> QED
    BY <1>1, <2>4, <2>5, <2>6 DEF Start
<1>2. ASSUME NEW p \in Procs, ReadStep(p) PROVE IInv'
  <2>1. Report(p) \in Reports
    BY <1>2, ProgramsNameReports DEF ReadStep, Running, Report
  <2>2. \A x \in Computed(Report(p), proc[p].passed) : Made(Report(p), x)
    BY <2>1, ComputedIsMade
  <2>3. proc' = [proc EXCEPT ![p].held = Computed(Report(p), proc[p].passed),
                             ![p].phase = "write"]
    BY <1>2 DEF ReadStep
  <2>4. ProcShape'
    BY <2>3 DEF ProcShape, Fields
  <2>5. /\ proc'[p].held = Computed(Report(p), proc[p].passed) /\ proc'[p].job = proc[p].job
        /\ proc'[p].at = proc[p].at /\ proc'[p].status = proc[p].status
        /\ \A q \in Procs \ {p} : proc'[q] = proc[q]
    BY <2>3 DEF ProcShape, Fields
  <2>6. \A q \in Procs : Running(q)'
    BY <2>2, <2>5 DEF Running, Live, Report
  <2> QED
    BY <1>2, <2>4, <2>6 DEF ReadStep
<1>3. ASSUME NEW p \in Procs, RefuseToWrite(p) PROVE IInv'
  BY <1>3, EndInvariant DEF RefuseToWrite
<1>4. ASSUME NEW p \in Procs, WriteStep(p) PROVE IInv'
  <2>1. PICK x \in proc[p].held :
          /\ cur' = [cur EXCEPT ![Report(p)] = {x}]
          /\ End(p, "failed") \/ End(p, "done") \/ GoesOn(p)
    BY <1>4, WriteEffect
  <2>2. Made(Report(p), x) /\ Live(p)
    BY <1>4 DEF WriteStep, Running
  <2>3. DOMAIN cur' = Reports /\ \A r \in Reports : \A y \in cur'[r] : Made(r, y)
    BY <2>1, <2>2
  <2>4. ASSUME GoesOn(p)
        PROVE  ProcShape' /\ \A q \in Procs : Running(q)'
    <3>1. ProcShape'
      BY <2>4 DEF GoesOn, ProcShape, Fields
    <3>2. /\ proc'[p].held = {} /\ proc'[p].job = proc[p].job
          /\ proc'[p].at = proc[p].at + 1
          /\ \A q \in Procs \ {p} : proc'[q] = proc[q]
      BY <2>4 DEF GoesOn, ProcShape, Fields
    <3>3. /\ proc[p].job \in Jobs
          /\ proc[p].at + 1 \in 1 .. Len(Program(proc[p].job))
      BY <2>2, <2>4, ProgramsNameReports DEF GoesOn, Running
    <3>4. Running(p)'
      BY <3>2, <3>3 DEF Running
    <3>5. \A q \in Procs \ {p} : Running(q)'
      BY <3>2 DEF Running, Live, Report
    <3> QED
      BY <3>1, <3>4, <3>5
  <2>5. ProcShape' /\ \A q \in Procs : Running(q)'
    BY <2>1, <2>4, EndInvariant
  <2> QED
    BY <1>4, <2>3, <2>5 DEF WriteStep
<1>5. ASSUME NEW p \in Procs, Kill(p) PROVE IInv'
  BY <1>5, EndInvariant DEF Kill
<1>6. ASSUME NEW f \in Files, NEW c \in Candidates, EditCandidate(f, c) PROVE IInv'
  <2>1. tree' \in Trees
    BY <1>6 DEF EditCandidate, Trees
  <2> QED
    BY <1>6, <2>1 DEF EditCandidate, ProcShape, Running, Live, Report
<1>7. ASSUME NEW g \in Breakable, EditGateInput(g) PROVE IInv'
  BY <1>7 DEF EditGateInput, ProcShape, Running, Live, Report
<1>8. CASE UNCHANGED vars
  BY <1>8 DEF vars, ProcShape, Running, Live, Report
<1> QED
  BY <1>1, <1>2, <1>3, <1>4, <1>5, <1>6, <1>7, <1>8 DEF Next

LEMMA Invariant == Spec => []IInv
  BY InitInvariant, StepInvariant, PTL DEF Spec

-----------------------------------------------------------------------------
(* The three classifiers together find every danger, and nothing else.      *)
LEMMA RiskIsDanger ==
  ASSUME NEW c, IsCandidate(c)
  PROVE  CompileActuatorVerdict(c).state = "ADMISSIBLE_REPORT_ONLY" <=> ~Dangerous(c)
<1> DEFINE surface == ClassifySurface(c)
           mutation == ClassifyMutation(c, surface)
<1>1. surface.facets = c.facets /\ surface.sovereign = HasSovereignDanger(c)
  BY DEF ClassifySurface
<1>2. mutation.redClasses = MutationClasses(c, surface) \cap RedClasses
  BY DEF ClassifyMutation
<1>3. HasSovereignDanger(c) <=> \E m \in c.mentions : m.form = "asserted"
  BY DEF HasSovereignDanger, DangerText
<1>4. c.signals # {} => mutation.redClasses # {}
  <2>1. c.signals \subseteq {"contents_write", "package_publish", "secret"}
    BY DEF IsCandidate, Signals
  <2> QED
    BY <1>2, <2>1 DEF MutationClasses, RedClasses
<1>5. mutation.redClasses # {} => Dangerous(c)
  <2>1. DangerText(c) \cap RolePhrases # {} => HasSovereignDanger(c)
    BY DEF HasSovereignDanger
  <2> QED
    BY <1>1, <1>2, <1>3, <2>1 DEF MutationClasses, RedClasses, Dangerous
<1>6. mutation.redClasses \subseteq RedClasses
  BY <1>2
<1>7. RiskReasons(surface, mutation) # {} <=> Dangerous(c)
  BY <1>1, <1>3, <1>4, <1>5, <1>6 DEF RiskReasons, Dangerous
<1> QED
  BY <1>7 DEF CompileActuatorVerdict, ClassifyTruthRisk

(* docs/ADMISSORIUM_V020_TEST_MODE_WRITER_SIMULATION.md: no packet reports  *)
(* success for a dangerous candidate, however many commands race over the   *)
(* reports, and every harmless one gets its success.                        *)
THEOREM NoSuccessForDanger == Spec => []DangerNeverSucceeds
<1>1. IInv => DangerNeverSucceeds
  <2> SUFFICES ASSUME IInv, NEW sim \in cur["sim"], NEW f \in Files
               PROVE  sim.conclusions[f] = "success" <=> ~Dangerous(sim.source[f])
    BY DEF DangerNeverSucceeds
  <2>1. PICK t \in Trees : sim = WriterSimulation(OperatorReviewBundle(QuarantineSuite(t)))
    BY DEF IInv, Made, Reports
  <2>2. t[f] \in Candidates /\ IsCandidate(t[f])
    BY <2>1, ChainAssumption DEF Trees
  <2> DEFINE result == QuarantineResult(t[f])
             case == OperatorCase(result)
  <2>3. sim.source = t /\ sim.conclusions[f] = SimulatedConclusion(case)
    BY <2>1 DEF WriterSimulation, OperatorReviewBundle, QuarantineSuite
  <2>4. case.required = Blocked(CompileActuatorVerdict(t[f]))
    BY DEF OperatorCase, QuarantineResult, RouteQuarantine
  <2> HIDE DEF case
  <2>5. sim.conclusions[f] = "success" <=> ~Blocked(CompileActuatorVerdict(t[f]))
    BY <2>3, <2>4 DEF SimulatedConclusion
  <2> QED
    BY <2>2, <2>3, <2>5, RiskIsDanger DEF Blocked
<1> QED
  BY <1>1, Invariant, PTL

(* Suites of one state of the candidates agree, for any candidates: what    *)
(* the comparator admits gets a receipt, and a receipt admits exactly what  *)
(* is not quarantined.                                                      *)
THEOREM SuitesStayTogether == Spec => []SuitesAgree
<1>1. ASSUME NEW c, CompareAcceptedVsCandidate(AcceptedRepos, c).mergeAllowed
      PROVE  CompileActuatorVerdict(c).state = "ADMISSIBLE_REPORT_ONLY"
  <2> DEFINE surface == ClassifySurface(c)
             mutation == ClassifyMutation(c, surface)
             risk == ClassifyTruthRisk(surface, mutation)
  <2>1. Contradictions(AcceptedRepos, c, surface, mutation, risk) = {}
    BY <1>1 DEF CompareAcceptedVsCandidate
  <2>2. risk.risk # "RED"
    <3> HIDE DEF surface, mutation, risk
    <3> QED
      BY <2>1 DEF Contradictions
  <2>3. risk.risk = "GREEN"
    BY <2>2 DEF ClassifyTruthRisk
  <2> QED
    BY <2>3 DEF CompileActuatorVerdict
<1>2. ASSUME NEW v
      PROVE  CompileAdmissionReceipt(v).admission = "REPORT_ONLY_ADMISSION"
               <=> v.state = "ADMISSIBLE_REPORT_ONLY"
  BY DEF CompileAdmissionReceipt
<1>3. IInv => SuitesAgree
  <2> SUFFICES ASSUME IInv PROVE SuitesAgree
    OBVIOUS
  <2>1. ASSUME NEW c \in cur["comparator"], NEW v \in cur["verdict"], c.source = v.source,
               NEW f \in Files, c.results[f].mergeAllowed
        PROVE  v.results[f].admission = "REPORT_ONLY_ADMISSION"
    <3>1. PICK t \in Trees : c = ComparatorSuite(t)
      BY DEF IInv, Made, Reports
    <3>2. PICK u \in Trees : v = VerdictSuite(u)
      BY DEF IInv, Made, Reports
    <3>3. t = u
      BY <2>1, <3>1, <3>2 DEF ComparatorSuite, VerdictSuite
    <3>4. /\ c.results[f] = CompareAcceptedVsCandidate(AcceptedRepos, t[f])
          /\ v.results[f] = CompileAdmissionReceipt(CompileActuatorVerdict(t[f]))
      BY <3>1, <3>2, <3>3 DEF ComparatorSuite, VerdictSuite
    <3> QED
      BY <1>1, <1>2, <2>1, <3>4
  <2>2. ASSUME NEW v \in cur["verdict"], NEW q \in cur["quarantine"], v.source = q.source,
               NEW f \in Files
        PROVE  (v.results[f].admission = "REPORT_ONLY_ADMISSION")
                 <=> ~q.results[f].quarantine.required
    <3>1. PICK t \in Trees : q = QuarantineSuite(t)
      BY DEF IInv, Made, Reports
    <3>2. PICK u \in Trees : v = VerdictSuite(u)
      BY DEF IInv, Made, Reports
    <3>3. t = u
      BY <2>2, <3>1, <3>2 DEF QuarantineSuite, VerdictSuite
    <3>4. /\ q.results[f] = QuarantineResult(t[f])
          /\ v.results[f] = CompileAdmissionReceipt(CompileActuatorVerdict(t[f]))
      BY <3>1, <3>2, <3>3 DEF QuarantineSuite, VerdictSuite
    <3>5. q.results[f].quarantine.required = Blocked(CompileActuatorVerdict(t[f]))
      BY <3>4 DEF QuarantineResult, RouteQuarantine
    <3> QED
      BY <1>2, <3>4, <3>5 DEF Blocked
  <2> QED
    BY <2>1, <2>2 DEF SuitesAgree
<1> QED
  BY <1>3, Invariant, PTL

(* The reports in reports/current that a script reads, where they are all   *)
(* it reads.                                                                *)
Derived == {"operator", "sim", "bundle"}

Inputs(r) ==
  CASE r = "operator" -> {"quarantine"}
    [] r = "sim" -> {"operator"}
    [] r = "bundle" -> Hashed

(* What a script that heard every token makes of reports/current.           *)
Current(r) == Computed(r, Hashed)

(* A command heard the token of every gate behind it, and those gates left  *)
(* their reports.                                                           *)
Heard(p) ==
  /\ \A r \in proc[p].passed : r \in Hashed /\ cur[r] # {}
  /\ Live(p) =>
       \A job \in Jobs : \A n \in 0 .. Len(Program(job)) :
         proc[p].job = job /\ proc[p].at = n + 1 =>
           \A i \in 1 .. n : Program(job)[i] \in proc[p].passed
  /\ proc[p].status = "done" =>
       /\ proc[p].job \in Jobs
       /\ \A job \in Jobs : proc[p].job = job =>
            \A i \in 1 .. Len(Program(job)) : cur[Program(job)[i]] # {}

HeardInv == \A p \in Procs : Heard(p)

AtMostOne(S) == S = {} \/ \E x \in S : S = {x}

WellTyped(p) ==
  /\ proc[p].status \in Statuses /\ proc[p].lone \in BOOLEAN
  /\ Live(p) => proc[p].phase \in {"read", "write"}
  /\ proc[p].held # {} <=> Live(p) /\ proc[p].phase = "write"
  /\ AtMostOne(proc[p].held)

TypeInv ==
  /\ broken \subseteq Breakable
  /\ edits \in 0 .. MaxEdits
  /\ \A r \in Reports : AtMostOne(cur[r])
  /\ \A p \in Procs : WellTyped(p)

(* The first n steps of a command have left their reports, none of a failed *)
(* gate, and a report whose inputs were not replaced since is what its      *)
(* script makes of them.                                                    *)
Fits(job, n) ==
  \A i \in 1 .. n :
    LET r == Program(job)[i] IN
    /\ cur[r] # {}
    /\ r \in Breakable => \A x \in cur[r] : x.ok
    /\ r \in Derived /\ (\A j \in (i + 1) .. n : Program(job)[j] \notin Inputs(r))
         => cur[r] = Current(r)

(* Of a command that runs, or ran, alone.                                   *)
LoneState(p) ==
  proc[p].lone =>
    /\ \A q \in Procs : q # p => ~Live(q)
    /\ Live(p) =>
         /\ \A job \in Jobs : \A n \in 0 .. Len(Program(job)) :
              proc[p].job = job /\ proc[p].at = n + 1 => Fits(job, n)
         /\ proc[p].phase = "write" =>
              \A r \in Derived : Report(p) = r => proc[p].held = Current(r)
    /\ proc[p].status = "done" =>
         /\ proc[p].job \in Jobs
         /\ \A job \in Jobs : proc[p].job = job => Fits(job, Len(Program(job)))

LoneInv == \A p \in Procs : LoneState(p)

(* A written report was not refused, and nothing is derived from one that   *)
(* was.                                                                     *)
Sound(report, x) ==
  /\ report = "sim" => Cardinality(x.issues) = ExpectedQuarantined
  /\ report = "bundle" =>
       /\ x.failed = {}
       /\ \A s \in x.hashes["sim"] : Cardinality(s.issues) = ExpectedQuarantined
  /\ report = "readiness" => x.failed \subseteq {BindingGate}

SealInv ==
  /\ \A r \in Reports : \A x \in cur[r] : Sound(r, x)
  /\ \A p \in Procs : Live(p) =>
       \A x \in proc[p].held : Report(p) # "sim" => Sound(Report(p), x)

(* As long as nobody edits, every report is that of the tree, in the memory *)
(* of a command too.                                                        *)
OfTree(report, x) ==
  /\ report \in Hashed => x = OfThisTree(report)
  /\ report = "bundle" => \A r \in Hashed : x.hashes[r] = {OfThisTree(r)}

RaceInv ==
  edits = 0 =>
    /\ \A r \in Reports : \A x \in cur[r] : OfTree(r, x)
    /\ \A p \in Procs : Live(p) => \A x \in proc[p].held : OfTree(Report(p), x)

ChainInv == IInv /\ TypeInv /\ HeardInv /\ LoneInv /\ SealInv /\ RaceInv

-----------------------------------------------------------------------------
(* u performs what s and then what t performs.                              *)
Joins(u, s, t) ==
  /\ u \in Seq(Reports)
  /\ Len(u) = Len(s) + Len(t)
  /\ \A i \in 1 .. Len(s) : u[i] = s[i]
  /\ \A i \in 1 .. Len(t) : u[Len(s) + i] = t[i]

LEMMA Appended ==
  ASSUME NEW s \in Seq(Reports), NEW t \in Seq(Reports)
  PROVE  Joins(s \o t, s, t)
<1>1. /\ s \o t \in Seq(Reports) /\ Len(s \o t) = Len(s) + Len(t)
      /\ \A i \in 1 .. Len(s) + Len(t) : (s \o t)[i] = IF i <= Len(s) THEN s[i] ELSE t[i - Len(s)]
  BY ConcatProperties
<1>2. ASSUME NEW i \in 1 .. Len(t) PROVE (s \o t)[Len(s) + i] = t[i]
  <2>1. Len(s) + i \in 1 .. Len(s) + Len(t) /\ ~(Len(s) + i <= Len(s))
        /\ (Len(s) + i) - Len(s) = i
    OBVIOUS
  <2> QED
    BY <1>1, <2>1
<1> QED
  BY <1>1, <1>2 DEF Joins

LEMMA PerformsOperator ==
  /\ OperatorScript \in Seq(Reports) /\ Len(OperatorScript) = 2
  /\ OperatorScript[1] = "quarantine" /\ OperatorScript[2] = "operator"
<1> DEFINE t == <<"operator">>
<1>1. /\ t \in Seq(Reports) /\ Len(t) = 1 /\ t[1] = "operator"
      /\ QuarantineScript \in Seq(Reports) /\ Len(QuarantineScript) = 1
      /\ QuarantineScript[1] = "quarantine"
  BY DEF QuarantineScript, Reports
<1> HIDE DEF t
<1>2. Joins(OperatorScript, QuarantineScript, t)
  BY <1>1, Appended DEF OperatorScript, t
<1>3. OperatorScript[1 + 1] = "operator"
  BY <1>1, <1>2 DEF Joins
<1> QED
  BY <1>1, <1>2, <1>3 DEF Joins

LEMMA PerformsSim ==
  /\ SimScript \in Seq(Reports) /\ Len(SimScript) = 3
  /\ SimScript[1] = "quarantine" /\ SimScript[2] = "operator" /\ SimScript[3] = "sim"
<1> DEFINE t == <<"sim">>
<1>1. t \in Seq(Reports) /\ Len(t) = 1 /\ t[1] = "sim"
  BY DEF Reports
<1> HIDE DEF t
<1>2. Joins(SimScript, OperatorScript, t)
  BY <1>1, PerformsOperator, Appended DEF SimScript, t
<1>3. SimScript[2 + 1] = "sim"
  BY <1>1, <1>2, PerformsOperator DEF Joins
<1> QED
  BY <1>1, <1>2, <1>3, PerformsOperator DEF Joins

LEMMA PerformsGates ==
  /\ Gates \in Seq(Reports) /\ Len(Gates) = 10
  /\ Gates[1] = "schema" /\ Gates[2] = "comparator" /\ Gates[3] = "verdict"
  /\ Gates[4] = "quarantine"
  /\ Gates[5] = "quarantine" /\ Gates[6] = "operator"
  /\ Gates[7] = "quarantine" /\ Gates[8] = "operator" /\ Gates[9] = "sim"
  /\ Gates[10] = "hostile"
<1> DEFINE s == <<"schema", "comparator", "verdict">>
           t == <<"hostile">>
           a == s \o QuarantineScript
           b == a \o OperatorScript
           c == b \o SimScript
<1>1. /\ s \in Seq(Reports) /\ Len(s) = 3
      /\ s[1] = "schema" /\ s[2] = "comparator" /\ s[3] = "verdict"
      /\ t \in Seq(Reports) /\ Len(t) = 1 /\ t[1] = "hostile"
      /\ QuarantineScript \in Seq(Reports) /\ Len(QuarantineScript) = 1
      /\ QuarantineScript[1] = "quarantine"
  BY DEF QuarantineScript, Reports
<1> HIDE DEF s, t
<1>2. Joins(a, s, QuarantineScript)
  BY <1>1, Appended
<1>3. Joins(b, a, OperatorScript)
  BY <1>2, PerformsOperator, Appended DEF Joins
<1>4. Joins(c, b, SimScript)
  BY <1>3, PerformsSim, Appended DEF Joins
<1>5. Joins(Gates, c, t)
  BY <1>1, <1>4, Appended DEF Joins, Gates, s, t
<1> HIDE DEF a, b, c
<1>6. /\ Len(a) = 4
      /\ a[1] = "schema" /\ a[2] = "comparator" /\ a[3] = "verdict" /\ a[4] = "quarantine"
  <2>1. a[3 + 1] = "quarantine"
    BY <1>1, <1>2 DEF Joins
  <2> QED
    BY <1>1, <1>2, <2>1 DEF Joins
<1>7. /\ Len(b) = 6 /\ \A i \in 1 .. 4 : b[i] = a[i]
      /\ b[5] = "quarantine" /\ b[6] = "operator"
  <2>1. b[4 + 1] = "quarantine" /\ b[4 + 2] = "operator"
    BY <1>3, <1>6, PerformsOperator DEF Joins
  <2> QED
    BY <1>3, <1>6, <2>1, PerformsOperator DEF Joins
<1>8. /\ Len(c) = 9 /\ \A i \in 1 .. 6 : c[i] = b[i]
      /\ c[7] = "quarantine" /\ c[8] = "operator" /\ c[9] = "sim"
  <2>1. c[6 + 1] = "quarantine" /\ c[6 + 2] = "operator" /\ c[6 + 3] = "sim"
    BY <1>4, <1>7, PerformsSim DEF Joins
  <2> QED
    BY <1>4, <1>7, <2>1, PerformsSim DEF Joins
<1>9. /\ Gates \in Seq(Reports) /\ Len(Gates) = 10
      /\ \A i \in 1 .. 9 : Gates[i] = c[i]
      /\ Gates[10] = "hostile"
  <2>1. Gates[9 + 1] = "hostile"
    BY <1>1, <1>5, <1>8 DEF Joins
  <2> QED
    BY <1>1, <1>5, <1>8, <2>1 DEF Joins
<1> QED
  BY <1>6, <1>7, <1>8, <1>9

(* What the two long commands perform, step by step.                        *)
LEMMA PerformsAll ==
  ASSUME NEW job \in {"v020:report", "v020:readiness"}
  PROVE  /\ Len(Program(job)) = 11
         /\ \A i \in 1 .. 10 : Program(job)[i] = Gates[i]
         /\ Program(job)[11] = IF job = "v020:report" THEN "bundle" ELSE "readiness"
<1> DEFINE last == IF job = "v020:report" THEN "bundle" ELSE "readiness"
           t == <<last>>
<1>1. t \in Seq(Reports) /\ Len(t) = 1 /\ t[1] = last
  BY DEF Reports
<1>2. Program(job) = Gates \o t
  BY DEF Program
<1> HIDE DEF t, last
<1>3. Joins(Program(job), Gates, t)
  BY <1>1, <1>2, PerformsGates, Appended
<1>4. Program(job)[10 + 1] = last
  BY <1>1, <1>3, PerformsGates DEF Joins
<1> QED
  BY <1>1, <1>3, <1>4, PerformsGates DEF Joins, last

-----------------------------------------------------------------------------
(* A derived report is a function of its inputs in reports/current.         *)
LEMMA ComputedDepends ==
  ASSUME NEW r \in Derived, \A q \in Inputs(r) : cur'[q] = cur[q]
  PROVE  Current(r)' = Current(r)
<1>1. CASE r = "operator"
  <2>1. cur'["quarantine"] = cur["quarantine"]
    BY <1>1 DEF Inputs
  <2>2. /\ Current(r) = {OperatorReviewBundle(suite) : suite \in cur["quarantine"]}
        /\ Current(r)' = {OperatorReviewBundle(suite) : suite \in cur'["quarantine"]}
    BY <1>1 DEF Current, Computed, Breakable, OperatorReviewBundle
  <2> QED
    BY <2>1, <2>2
<1>2. CASE r = "sim"
  <2>1. cur'["operator"] = cur["operator"]
    BY <1>2 DEF Inputs
  <2>2. /\ Current(r) = {WriterSimulation(bundle) : bundle \in cur["operator"]}
        /\ Current(r)' = {WriterSimulation(bundle) : bundle \in cur'["operator"]}
    BY <1>2 DEF Current, Computed, Breakable, WriterSimulation
  <2> QED
    BY <2>1, <2>2
<1>3. CASE r = "bundle"
  <2>1. CurrentReportHashes' = CurrentReportHashes
    BY <1>3 DEF Inputs, CurrentReportHashes
  <2> QED
    BY <1>3, <2>1 DEF Current, Computed, Breakable, Bundle
<1> QED
  BY <1>1, <1>2, <1>3 DEF Derived

(* A script has at most one result.                                         *)
LEMMA ComputedSingle ==
  ASSUME \A q \in Reports : AtMostOne(cur[q]), NEW r \in Reports, NEW passed
  PROVE  AtMostOne(Computed(r, passed))
<1>1. CASE r \in {"schema", "hostile", "comparator", "verdict", "quarantine",
                  "bundle", "readiness"}
  <2>1. \E x : Computed(r, passed) = {x}
    BY <1>1 DEF Computed, Breakable
  <2> QED
    BY <2>1 DEF AtMostOne
<1>2. CASE r = "operator"
  <2>1. Computed(r, passed) = {OperatorReviewBundle(suite) : suite \in cur["quarantine"]}
    BY <1>2 DEF Computed, Breakable
  <2>2. AtMostOne(cur["quarantine"])
    BY DEF Reports
  <2>3. CASE cur["quarantine"] = {}
    BY <2>1, <2>3 DEF AtMostOne
  <2>4. ASSUME NEW y, cur["quarantine"] = {y} PROVE Computed(r, passed) = {OperatorReviewBundle(y)}
    BY <2>1, <2>4
  <2> QED
    BY <2>2, <2>3, <2>4 DEF AtMostOne
<1>3. CASE r = "sim"
  <2>1. Computed(r, passed) = {WriterSimulation(bundle) : bundle \in cur["operator"]}
    BY <1>3 DEF Computed, Breakable
  <2>2. AtMostOne(cur["operator"])
    BY DEF Reports
  <2>3. CASE cur["operator"] = {}
    BY <2>1, <2>3 DEF AtMostOne
  <2>4. ASSUME NEW y, cur["operator"] = {y} PROVE Computed(r, passed) = {WriterSimulation(y)}
    BY <2>1, <2>4
  <2> QED
    BY <2>2, <2>3, <2>4 DEF AtMostOne
<1> QED
  BY <1>1, <1>2, <1>3 DEF Reports

(* One more step of a command extends what its reports make together.       *)
LEMMA FitsGrows ==
  ASSUME NEW job, NEW n \in Nat, Fits(job, n), NEW x,
         DOMAIN cur = Reports, Program(job)[n + 1] \in Reports,
         cur' = [cur EXCEPT ![Program(job)[n + 1]] = {x}],
         Program(job)[n + 1] \in Derived => {x} = Current(Program(job)[n + 1]),
         Program(job)[n + 1] \in Breakable => x.ok
  PROVE  Fits(job, n + 1)'
<1> DEFINE new == Program(job)[n + 1]
<1>1. cur'[new] = {x} /\ \A r \in Reports \ {new} : cur'[r] = cur[r]
  OBVIOUS
<1>2. \A r : r \in Derived => Inputs(r) \subseteq Reports /\ r \notin Inputs(r)
  BY DEF Derived, Inputs, Hashed, Reports
<1>3. new \in Derived => cur'[new] = Current(new)'
  <2> SUFFICES ASSUME new \in Derived PROVE cur'[new] = Current(new)'
    OBVIOUS
  <2>1. \A q \in Inputs(new) : cur'[q] = cur[q]
    BY <1>1, <1>2
  <2>2. Current(new)' = Current(new)
    BY <2>1, ComputedDepends
  <2> QED
    BY <1>1, <2>2
<1>4. ASSUME NEW i \in 1 .. n + 1
      PROVE  LET r == Program(job)[i] IN
             /\ cur'[r] # {}
             /\ r \in Breakable => \A y \in cur'[r] : y.ok
             /\ r \in Derived /\ (\A j \in (i + 1) .. (n + 1) : Program(job)[j] \notin Inputs(r))
                  => cur'[r] = Current(r)'
  <2> DEFINE r == Program(job)[i]
  <2>1. CASE r = new
    BY <1>1, <1>3, <2>1
  <2>2. CASE r # new
    <3>1. i \in 1 .. n /\ n + 1 \in (i + 1) .. (n + 1)
          /\ \A j \in (i + 1) .. n : j \in (i + 1) .. (n + 1)
      BY <2>2
    <3>2. cur[r] # {} /\ (r \in Breakable => \A y \in cur[r] : y.ok)
      BY <3>1 DEF Fits
    <3>3. cur'[r] = cur[r]
      BY <2>2
    <3>4. ASSUME r \in Derived, \A j \in (i + 1) .. (n + 1) : Program(job)[j] \notin Inputs(r)
          PROVE  cur'[r] = Current(r)'
      <4>1. cur[r] = Current(r)
        BY <3>1, <3>4 DEF Fits
      <4>2. \A q \in Inputs(r) : cur'[q] = cur[q]
        BY <1>1, <1>2, <3>1, <3>4
      <4>3. Current(r)' = Current(r)
        BY <3>4, <4>2, ComputedDepends
      <4> QED
        BY <3>3, <4>1, <4>3
    <3> QED
      BY <3>2, <3>3, <3>4
  <2> QED
    BY <2>1, <2>2
<1> QED
  BY <1>4 DEF Fits

LEMMA FitsStays ==
  ASSUME UNCHANGED cur, NEW job, NEW n, Fits(job, n)
  PROVE  Fits(job, n)'
<1>1. \A r \in Derived : Current(r)' = Current(r)
  BY ComputedDepends
<1> QED
  BY <1>1 DEF Fits

LEMMA EndEffect ==
  ASSUME IInv, NEW p \in Procs, NEW status \in {"done", "failed", "killed"},
         End(p, status)
  PROVE  /\ proc'[p].status = status /\ proc'[p].job = proc[p].job
         /\ proc'[p].held = {} /\ proc'[p].lone = proc[p].lone
         /\ proc'[p].phase = "read" /\ proc'[p].passed = {}
         /\ \A q \in Procs \ {p} : proc'[q] = proc[q]
  BY DEF IInv, ProcShape, End, Idle

LEMMA AdvanceEffect ==
  ASSUME IInv, NEW p \in Procs, GoesOn(p)
  PROVE  /\ proc'[p].status = proc[p].status /\ proc'[p].job = proc[p].job
         /\ proc'[p].held = {} /\ proc'[p].lone = proc[p].lone
         /\ proc'[p].phase = "read" /\ proc'[p].at = proc[p].at + 1
         /\ proc'[p].passed = proc[p].passed \cup {Report(p)}
         /\ \A q \in Procs \ {p} : proc'[q] = proc[q]
  BY DEF IInv, ProcShape, Fields, GoesOn

LEMMA ReadEffect ==
  ASSUME IInv, NEW p \in Procs, ReadStep(p)
  PROVE  /\ proc'[p].status = proc[p].status /\ proc'[p].job = proc[p].job
         /\ proc'[p].held = Computed(Report(p), proc[p].passed)
         /\ proc'[p].lone = proc[p].lone /\ proc'[p].passed = proc[p].passed
         /\ proc'[p].phase = "write" /\ proc'[p].at = proc[p].at
         /\ \A q \in Procs \ {p} : proc'[q] = proc[q]
  BY DEF IInv, ProcShape, Fields, ReadStep

LEMMA StartEffect ==
  ASSUME IInv, NEW p \in Procs, NEW job \in Jobs, Start(p, job)
  PROVE  /\ proc'[p].status = "running" /\ proc'[p].job = job
         /\ proc'[p].held = {} /\ proc'[p].lone = (\A o \in Procs : ~Live(o))
         /\ proc'[p].phase = "read" /\ proc'[p].at = 1 /\ proc'[p].passed = {}
         /\ \A q \in Procs \ {p} :
              /\ proc'[q].status = proc[q].status /\ proc'[q].job = proc[q].job
              /\ proc'[q].held = proc[q].held /\ proc'[q].lone = FALSE
              /\ proc'[q].phase = proc[q].phase /\ proc'[q].at = proc[q].at
              /\ proc'[q].passed = proc[q].passed
<1>1. proc'[p] = [Idle EXCEPT !.status = "running", !.job = job, !.at = 1,
                              !.lone = \A o \in Procs : ~Live(o)]
  BY DEF Start
<1>2. \A q \in Procs \ {p} : proc'[q] = [proc[q] EXCEPT !.lone = FALSE]
  BY DEF Start
<1>3. /\ proc'[p].status = "running" /\ proc'[p].job = job
      /\ proc'[p].held = {} /\ proc'[p].phase = "read" /\ proc'[p].at = 1
      /\ proc'[p].passed = {}
  BY <1>1 DEF Idle
<1>4. proc'[p].lone = (\A o \in Procs : ~Live(o))
  BY <1>1 DEF Idle
<1> QED
  BY <1>2, <1>3, <1>4 DEF IInv, ProcShape, Fields

LEMMA LiveReports ==
  ASSUME IInv, NEW p \in Procs, Live(p)
  PROVE  /\ Report(p) \in Reports /\ proc[p].job \in Jobs
         /\ proc[p].at \in 1 .. Len(Program(proc[p].job))
  BY ProgramsNameReports DEF IInv, Running, Report

LEMMA TypeInit == Init => TypeInv
<1> SUFFICES ASSUME Init PROVE TypeInv
  OBVIOUS
<1>1. broken \subseteq Breakable /\ edits \in 0 .. MaxEdits
  BY ChainAssumption DEF Init
<1>2. \A r \in Reports : AtMostOne(cur[r])
  BY DEF Init, AtMostOne
<1>3. ASSUME NEW p \in Procs PROVE WellTyped(p)
  <2>1. proc[p] = Idle
    BY DEF Init
  <2> QED
    BY <2>1 DEF WellTyped, Idle, Live, AtMostOne, Statuses
<1> QED
  BY <1>1, <1>2, <1>3 DEF TypeInv

(* A command that does nothing stays well typed.                            *)
LEMMA StaysWellTyped ==
  ASSUME NEW q, WellTyped(q), proc'[q] = proc[q]
  PROVE  WellTyped(q)'
  BY DEF WellTyped, Live

LEMMA EndTyped ==
  ASSUME IInv, TypeInv, NEW p \in Procs, NEW status \in {"done", "failed", "killed"},
         End(p, status)
  PROVE  \A q \in Procs : WellTyped(q)'
<1>1. WellTyped(p)'
  BY EndEffect DEF TypeInv, WellTyped, Live, Statuses, AtMostOne
<1>2. \A q \in Procs \ {p} : WellTyped(q)'
  BY EndEffect, StaysWellTyped DEF TypeInv
<1> QED
  BY <1>1, <1>2

LEMMA TypeStep == IInv /\ TypeInv /\ [Next]_vars => TypeInv'
<1> SUFFICES ASSUME IInv, TypeInv, [Next]_vars PROVE TypeInv'
  OBVIOUS
<1>1. ASSUME NEW p \in Procs, NEW job \in Jobs, Start(p, job) PROVE TypeInv'
  <2>1. proc'[p].lone \in BOOLEAN
    BY <1>1, StartEffect
  <2>2. WellTyped(p)'
    BY <1>1, <2>1, StartEffect DEF WellTyped, Live, Statuses, AtMostOne
  <2>3. \A q \in Procs \ {p} : WellTyped(q)'
    <3> SUFFICES ASSUME NEW q \in Procs \ {p} PROVE WellTyped(q)'
      OBVIOUS
    <3>1. /\ proc'[q].status = proc[q].status /\ proc'[q].held = proc[q].held
          /\ proc'[q].phase = proc[q].phase /\ proc'[q].lone = FALSE
      BY <1>1, StartEffect
    <3>2. WellTyped(q)
      BY DEF TypeInv
    <3> QED
      BY <3>1, <3>2 DEF WellTyped, Live
  <2> QED
    BY <1>1, <2>2, <2>3 DEF Start, TypeInv
<1>2. ASSUME NEW p \in Procs, ReadStep(p) PROVE TypeInv'
  <2>1. /\ AtMostOne(Computed(Report(p), proc[p].passed))
        /\ Computed(Report(p), proc[p].passed) # {}
    BY <1>2, LiveReports, ComputedSingle DEF ReadStep, TypeInv
  <2>2. WellTyped(p)'
    BY <1>2, <2>1, ReadEffect DEF ReadStep, TypeInv, WellTyped, Live, AtMostOne
  <2>3. \A q \in Procs \ {p} : WellTyped(q)'
    BY <1>2, ReadEffect, StaysWellTyped DEF TypeInv
  <2> QED
    BY <1>2, <2>2, <2>3 DEF ReadStep, TypeInv
<1>3. ASSUME NEW p \in Procs, RefuseToWrite(p) PROVE TypeInv'
  BY <1>3, EndTyped DEF RefuseToWrite, TypeInv
<1>4. ASSUME NEW p \in Procs, WriteStep(p) PROVE TypeInv'
  <2>1. PICK x \in proc[p].held :
          /\ cur' = [cur EXCEPT ![Report(p)] = {x}]
          /\ End(p, "failed") \/ End(p, "done") \/ GoesOn(p)
    BY <1>4, WriteEffect
  <2>2. \A r \in Reports : AtMostOne(cur'[r])
    BY <2>1 DEF IInv, TypeInv, AtMostOne
  <2>3. ASSUME GoesOn(p)
        PROVE  \A q \in Procs : WellTyped(q)'
    <3>1. WellTyped(p)'
      BY <2>3, AdvanceEffect DEF TypeInv, WellTyped, Live, AtMostOne
    <3>2. \A q \in Procs \ {p} : WellTyped(q)'
      BY <2>3, AdvanceEffect, StaysWellTyped DEF TypeInv
    <3> QED
      BY <3>1, <3>2
  <2>4. \A q \in Procs : WellTyped(q)'
    BY <2>1, <2>3, EndTyped
  <2> QED
    BY <1>4, <2>2, <2>4 DEF WriteStep, TypeInv
<1>5. ASSUME NEW p \in Procs, Kill(p) PROVE TypeInv'
  BY <1>5, EndTyped DEF Kill, TypeInv
<1>6. ASSUME NEW f \in Files, NEW c \in Candidates, EditCandidate(f, c) PROVE TypeInv'
  BY <1>6, StaysWellTyped, ChainAssumption DEF EditCandidate, TypeInv
<1>7. ASSUME NEW g \in Breakable, EditGateInput(g) PROVE TypeInv'
  BY <1>7, StaysWellTyped, ChainAssumption DEF EditGateInput, TypeInv
<1>8. CASE UNCHANGED vars
  BY <1>8, StaysWellTyped DEF vars, TypeInv
<1> QED
  BY <1>1, <1>2, <1>3, <1>4, <1>5, <1>6, <1>7, <1>8 DEF Next

-----------------------------------------------------------------------------
(* Only the last step of a command seals.                                   *)
LEMMA SealsComeLast ==
  ASSUME NEW job \in Jobs, NEW i \in 1 .. Len(Program(job)), Program(job)[i] \notin Hashed
  PROVE  job \in {"v020:report", "v020:readiness"} /\ i = Len(Program(job)) /\ i = 11
<1>1. CASE job = "v020:operator-review"
  <2>1. Program(job) = OperatorScript
    BY <1>1 DEF Program
  <2>2. i = 1 \/ i = 2
    BY <2>1, PerformsOperator
  <2> QED
    BY <2>1, <2>2, PerformsOperator DEF Hashed, Reports
<1>2. CASE job = "v020:writer-sim"
  <2>1. Program(job) = SimScript
    BY <1>2 DEF Program
  <2>2. i = 1 \/ i = 2 \/ i = 3
    BY <2>1, PerformsSim
  <2> QED
    BY <2>1, <2>2, PerformsSim DEF Hashed, Reports
<1>3. CASE job \in {"v020:report", "v020:readiness"}
  <2>1. Len(Program(job)) = 11 /\ \A j \in 1 .. 10 : Program(job)[j] = Gates[j]
    BY <1>3, PerformsAll
  <2>2. ASSUME NEW j \in 1 .. 10 PROVE Gates[j] \in Hashed
    <3>1. j = 1 \/ j = 2 \/ j = 3 \/ j = 4 \/ j = 5 \/ j = 6 \/ j = 7 \/ j = 8 \/ j = 9 \/ j = 10
      OBVIOUS
    <3> QED
      BY <3>1, PerformsGates DEF Hashed, Reports
  <2>3. i \in 1 .. 11 /\ i \notin 1 .. 10
    BY <2>1, <2>2
  <2> QED
    BY <1>3, <2>1, <2>3
<1> QED
  BY <1>1, <1>2, <1>3 DEF Jobs

LEMMA EveryGateRuns ==
  ASSUME NEW job \in {"v020:report", "v020:readiness"}, NEW r \in Hashed
  PROVE  \E i \in 1 .. 10 : Program(job)[i] = r
<1>1. r \in {"schema", "comparator", "verdict", "quarantine", "operator", "sim", "hostile"}
  BY DEF Hashed, Reports
<1>2. {1, 2, 3, 4, 8, 9, 10} \subseteq 1 .. 10
  OBVIOUS
<1>3. \E i \in 1 .. 10 : Gates[i] = r
  BY <1>1, <1>2, PerformsGates
<1> QED
  BY <1>3, PerformsAll

(* A command that seals heard every token, so that it computes what a       *)
(* script does to which all gates passed.                                   *)
LEMMA AllHeard ==
  ASSUME IInv, HeardInv, NEW p \in Procs, Live(p), Report(p) \notin Hashed
  PROVE  /\ Hashed \subseteq proc[p].passed
         /\ \A r \in Hashed : cur[r] # {}
<1>1. PICK job \in Jobs : proc[p].job = job
  BY LiveReports
<1>2. /\ job \in {"v020:report", "v020:readiness"}
      /\ proc[p].at = 11 /\ Len(Program(job)) = 11
  BY <1>1, LiveReports, SealsComeLast DEF Report
<1>3. \A i \in 1 .. 10 : Program(job)[i] \in proc[p].passed
  <2>1. 10 \in 0 .. Len(Program(job)) /\ proc[p].at = 10 + 1
    BY <1>2
  <2> QED
    BY <1>1, <2>1 DEF HeardInv, Heard
<1>4. Hashed \subseteq proc[p].passed
  BY <1>2, <1>3, EveryGateRuns
<1> QED
  BY <1>4 DEF HeardInv, Heard

LEMMA ReadsCurrent ==
  ASSUME IInv, HeardInv, NEW p \in Procs, Live(p)
  PROVE  Computed(Report(p), proc[p].passed) = Current(Report(p))
<1>1. CASE Report(p) \in Hashed
  BY <1>1 DEF Current, Computed, Breakable, Hashed, Reports
<1>2. CASE Report(p) \notin Hashed
  <2>1. Hashed \ proc[p].passed = {} /\ Hashed \ Hashed = {}
    BY <1>2, AllHeard
  <2>2. /\ Bundle(proc[p].passed) = Bundle(Hashed)
        /\ ReadinessArtifact(proc[p].passed) = ReadinessArtifact(Hashed)
    BY <2>1 DEF Bundle, ReadinessArtifact
  <2>3. Report(p) \in {"bundle", "readiness"}
    BY <1>2, LiveReports DEF Hashed
  <2> QED
    BY <2>2, <2>3 DEF Current, Computed, Breakable
<1> QED
  BY <1>1, <1>2

LEMMA HeardInit == Init => HeardInv
<1> SUFFICES ASSUME Init, NEW p \in Procs PROVE Heard(p)
  BY DEF HeardInv
<1>1. proc[p] = Idle
  BY DEF Init
<1> QED
  BY <1>1 DEF Heard, Live, Idle

(* Reports are replaced, never removed.                                     *)
LEMMA HeardStays ==
  ASSUME NEW q, Heard(q), \A r : cur[r] # {} => cur'[r] # {},
         proc'[q].status = proc[q].status, proc'[q].job = proc[q].job,
         proc'[q].at = proc[q].at, proc'[q].passed = proc[q].passed
  PROVE  Heard(q)'
  BY DEF Heard, Live

LEMMA HeardStep == IInv /\ HeardInv /\ [Next]_vars => HeardInv'
<1> SUFFICES ASSUME IInv, HeardInv, [Next]_vars PROVE HeardInv'
  OBVIOUS
<1>a. \A q \in Procs : Heard(q)
  BY DEF HeardInv
<1>1. ASSUME NEW p \in Procs, NEW job \in Jobs, Start(p, job) PROVE HeardInv'
  <2>1. UNCHANGED cur
    BY <1>1 DEF Start
  <2>2. Heard(p)'
    <3>1. /\ proc'[p].at = 1 /\ proc'[p].status = "running" /\ proc'[p].passed = {}
      BY <1>1, StartEffect
    <3>2. \A n \in Nat : 1 = n + 1 => 1 .. n = {}
      OBVIOUS
    <3>3. \A k \in Jobs : Len(Program(k)) \in Nat
      BY ProgramsNameReports
    <3> QED
      BY <3>1, <3>2, <3>3 DEF Heard, Live
  <2>3. \A q \in Procs \ {p} : Heard(q)'
    BY <1>1, <1>a, <2>1, StartEffect, HeardStays
  <2> QED
    BY <2>2, <2>3 DEF HeardInv
<1>2. ASSUME NEW p \in Procs, ReadStep(p) PROVE HeardInv'
  <2>1. UNCHANGED cur
    BY <1>2 DEF ReadStep
  <2> QED
    BY <1>2, <1>a, <2>1, ReadEffect, HeardStays DEF HeardInv
<1>3. ASSUME NEW p \in Procs, NEW status \in {"failed", "killed"}, End(p, status),
             \A r : cur[r] # {} => cur'[r] # {}
      PROVE  HeardInv'
  <2>1. Heard(p)'
    BY <1>3, EndEffect DEF Heard, Live
  <2>2. \A q \in Procs \ {p} : Heard(q)'
    BY <1>3, <1>a, EndEffect, HeardStays
  <2> QED
    BY <2>1, <2>2 DEF HeardInv
<1>4. ASSUME NEW p \in Procs, RefuseToWrite(p) PROVE HeardInv'
  BY <1>3, <1>4 DEF RefuseToWrite
<1>5. ASSUME NEW p \in Procs, WriteStep(p) PROVE HeardInv'
  <2>1. PICK x \in proc[p].held :
          /\ cur' = [cur EXCEPT ![Report(p)] = {x}]
          /\ \/ End(p, "failed")
             \/ End(p, "done") /\ proc[p].at = Len(Program(proc[p].job))
             \/ GoesOn(p)
    BY <1>5, WriteEffect
  <2>2. Live(p)
    BY <1>5 DEF WriteStep
  <2>3. PICK job \in Jobs : proc[p].job = job
    BY <2>2, LiveReports
  <2>4. /\ \A r : cur[r] # {} => cur'[r] # {}
        /\ cur'[Report(p)] # {} /\ Report(p) = Program(job)[proc[p].at]
        /\ Len(Program(job)) \in Nat /\ proc[p].at \in 1 .. Len(Program(job))
    <3>1. DOMAIN cur = Reports /\ Report(p) \in Reports
      BY <2>2, LiveReports DEF IInv
    <3>2. \A r : r \notin Reports => cur'[r] = cur[r]
      BY <2>1, <3>1
    <3> QED
      BY <2>1, <2>2, <2>3, <3>1, <3>2, LiveReports, ProgramsNameReports DEF Report
  <2>5. PICK m \in Nat : proc[p].at = m + 1 /\ m \in 0 .. Len(Program(job))
    <3>1. proc[p].at - 1 \in 0 .. Len(Program(job)) /\ proc[p].at = (proc[p].at - 1) + 1
      BY <2>4
    <3> QED
      BY <3>1
  <2>6. \A i \in 1 .. m : Program(job)[i] \in proc[p].passed /\ cur[Program(job)[i]] # {}
    BY <1>a, <2>2, <2>3, <2>5 DEF Heard
  <2>7. CASE End(p, "failed")
    BY <1>3, <2>4, <2>7
  <2>8. CASE End(p, "done") /\ proc[p].at = Len(Program(proc[p].job))
    <3>1. \A i \in 1 .. Len(Program(job)) : cur'[Program(job)[i]] # {}
      <4>1. \A i \in 1 .. Len(Program(job)) : i \in 1 .. m \/ i = proc[p].at
        BY <2>3, <2>4, <2>5, <2>8
      <4> QED
        BY <2>4, <2>6, <4>1
    <3>2. Heard(p)'
      BY <2>3, <2>8, <3>1, EndEffect DEF Heard, Live
    <3>3. \A q \in Procs \ {p} : Heard(q)'
      BY <1>a, <2>4, <2>8, EndEffect, HeardStays
    <3> QED
      BY <3>2, <3>3 DEF HeardInv
  <2>9. CASE GoesOn(p)
    <3>1. /\ proc'[p].status = "running" /\ proc'[p].job = job
          /\ proc'[p].at = proc[p].at + 1
          /\ proc'[p].passed = proc[p].passed \cup {Report(p)}
      BY <2>2, <2>3, <2>9, AdvanceEffect DEF Live
    <3>2. Report(p) \in Hashed
      BY <2>3, <2>4, <2>9, SealsComeLast DEF GoesOn
    <3>3. \A r \in proc'[p].passed : r \in Hashed /\ cur'[r] # {}
      BY <1>a, <2>4, <3>1, <3>2 DEF Heard
    <3>4. ASSUME NEW n \in 0 .. Len(Program(job)), proc'[p].at = n + 1, NEW i \in 1 .. n
          PROVE  Program(job)[i] \in proc'[p].passed
      <4>1. i \in 1 .. m \/ i = proc[p].at
        BY <2>4, <2>5, <3>1, <3>4
      <4> QED
        BY <2>4, <2>6, <3>1, <4>1
    <3>5. Heard(p)'
      BY <3>1, <3>3, <3>4 DEF Heard, Live
    <3>6. \A q \in Procs \ {p} : Heard(q)'
      BY <1>a, <2>4, <2>9, AdvanceEffect, HeardStays
    <3> QED
      BY <3>5, <3>6 DEF HeardInv
  <2> QED
    BY <2>1, <2>7, <2>8, <2>9
<1>6. ASSUME NEW p \in Procs, Kill(p) PROVE HeardInv'
  BY <1>3, <1>6 DEF Kill
<1>7. UNCHANGED <<cur, proc>> => HeardInv'
  BY <1>a, HeardStays DEF HeardInv
<1>8. ASSUME NEW f \in Files, NEW c \in Candidates, EditCandidate(f, c) PROVE HeardInv'
  BY <1>7, <1>8 DEF EditCandidate
<1>9. ASSUME NEW g \in Breakable, EditGateInput(g) PROVE HeardInv'
  BY <1>7, <1>9 DEF EditGateInput
<1>10. CASE UNCHANGED vars
  BY <1>7, <1>10 DEF vars
<1> QED
  BY <1>1, <1>2, <1>4, <1>5, <1>6, <1>8, <1>9, <1>10 DEF Next

-----------------------------------------------------------------------------
LEMMA LoneInit == Init => LoneInv
<1> SUFFICES ASSUME Init, NEW p \in Procs PROVE ~proc[p].lone
  BY DEF LoneInv, LoneState
<1>1. proc[p] = Idle
  BY DEF Init
<1> QED
  BY <1>1 DEF Idle

(* While a command runs no other one is lone.                               *)
LEMMA OthersNotLone ==
  ASSUME LoneInv, NEW p \in Procs, Live(p), NEW q \in Procs \ {p},
         proc'[q] = proc[q]
  PROVE  LoneState(q)'
<1>1. ~proc[q].lone
  BY DEF LoneInv, LoneState
<1> QED
  BY <1>1 DEF LoneState

LEMMA EndLone ==
  ASSUME IInv, LoneInv, NEW p \in Procs, Live(p),
         NEW status \in {"failed", "killed"}, End(p, status)
  PROVE  LoneInv'
<1>1. LoneState(p)'
  <2>1. proc'[p].status = status /\ proc'[p].lone = proc[p].lone
        /\ \A q \in Procs \ {p} : proc'[q] = proc[q]
    BY EndEffect
  <2>2. proc[p].lone => \A q \in Procs \ {p} : ~Live(q)
    BY DEF LoneInv, LoneState
  <2> QED
    BY <2>1, <2>2 DEF LoneState, Live
<1>2. \A q \in Procs \ {p} : LoneState(q)'
  BY EndEffect, OthersNotLone
<1> QED
  BY <1>1, <1>2 DEF LoneInv

(* A step that leaves the commands and the reports alone.                   *)
LEMMA LoneStays == LoneInv /\ UNCHANGED <<cur, proc>> => LoneInv'
<1> SUFFICES ASSUME LoneInv, UNCHANGED <<cur, proc>>, NEW p \in Procs PROVE LoneState(p)'
  BY DEF LoneInv
<1>1. LoneState(p)
  BY DEF LoneInv
<1>2. \A job, n : Fits(job, n) => Fits(job, n)'
  BY FitsStays
<1>3. \A r \in Derived : Current(r)' = Current(r)
  BY ComputedDepends
<1> QED
  BY <1>1, <1>2, <1>3 DEF LoneState, Live, Report

LEMMA LoneStep == IInv /\ TypeInv /\ HeardInv /\ LoneInv /\ [Next]_vars => LoneInv'
<1> SUFFICES ASSUME IInv, TypeInv, HeardInv, LoneInv, [Next]_vars PROVE LoneInv'
  OBVIOUS
<1>1. ASSUME NEW p \in Procs, NEW job \in Jobs, Start(p, job) PROVE LoneInv'
  <2>1. \A q \in Procs \ {p} : LoneState(q)'
    BY <1>1, StartEffect DEF LoneState
  <2>2. LoneState(p)'
    <3>1. /\ proc'[p].at = 1 /\ proc'[p].phase = "read" /\ proc'[p].status = "running"
          /\ proc'[p].lone => \A o \in Procs : ~Live(o)
          /\ \A q \in Procs \ {p} : proc'[q].status = proc[q].status
      BY <1>1, StartEffect
    <3>2. ASSUME NEW k \in Jobs, NEW n \in 0 .. Len(Program(k)), 1 = n + 1
          PROVE  Fits(k, n)'
      <4>1. n = 0
        BY <3>2, ProgramsNameReports
      <4> QED
        BY <4>1 DEF Fits
    <3> QED
      BY <3>1, <3>2 DEF LoneState, Live
  <2> QED
    BY <2>1, <2>2 DEF LoneInv
<1>2. ASSUME NEW p \in Procs, ReadStep(p) PROVE LoneInv'
  <2>1. Live(p) /\ UNCHANGED cur
    BY <1>2 DEF ReadStep
  <2>2. \A q \in Procs \ {p} : LoneState(q)'
    BY <1>2, <2>1, ReadEffect, OthersNotLone
  <2>3. LoneState(p)'
    <3>1. /\ proc'[p].status = "running" /\ proc'[p].job = proc[p].job
          /\ proc'[p].held = Current(Report(p)) /\ proc'[p].at = proc[p].at
          /\ proc'[p].lone = proc[p].lone
          /\ \A q \in Procs \ {p} : proc'[q] = proc[q]
      BY <1>2, <2>1, ReadEffect, ReadsCurrent DEF Live
    <3>2. LoneState(p) /\ Report(p)' = Report(p)
      BY <3>1 DEF LoneInv, Report
    <3>3. \A job, n : Fits(job, n) => Fits(job, n)'
      BY <2>1, FitsStays
    <3>4. \A r \in Derived : Current(r)' = Current(r)
      BY <2>1, ComputedDepends
    <3>5. \A r \in Derived : Report(p) = r => proc'[p].held = Current(r)
      BY <3>1
    <3> QED
      BY <2>1, <3>1, <3>2, <3>3, <3>4, <3>5 DEF LoneState, Live
  <2> QED
    BY <2>2, <2>3 DEF LoneInv
<1>3. ASSUME NEW p \in Procs, RefuseToWrite(p) PROVE LoneInv'
  BY <1>3, EndLone DEF RefuseToWrite
<1>4. ASSUME NEW p \in Procs, WriteStep(p) PROVE LoneInv'
  <2>1. PICK x \in proc[p].held :
           /\ cur' = [cur EXCEPT ![Report(p)] = {x}]
           /\ \/ End(p, "failed")
              \/ /\ ~ExitsNonZero(Report(p), x)
                 /\ \/ End(p, "done") /\ proc[p].at = Len(Program(proc[p].job))
                    \/ GoesOn(p)
    BY <1>4, WriteEffect
  <2>2. Live(p) /\ proc[p].phase = "write"
    BY <1>4 DEF WriteStep
  <2>3. CASE End(p, "failed")
    BY <2>2, <2>3, EndLone
  <2>4. proc[p].held = {x}
    BY DEF TypeInv, WellTyped, AtMostOne
  <2>5. ASSUME proc[p].lone, NEW job \in Jobs, proc[p].job = job,
               NEW n \in Nat, proc[p].at = n + 1, ~ExitsNonZero(Report(p), x)
        PROVE  Fits(job, n + 1)'
    <3>1. /\ Report(p) = Program(job)[n + 1] /\ Report(p) \in Reports
          /\ n \in 0 .. Len(Program(job))
      BY <2>2, <2>5, LiveReports, ProgramsNameReports DEF Report
    <3>2. /\ Fits(job, n)
          /\ Program(job)[n + 1] \in Derived => {x} = Current(Program(job)[n + 1])
      BY <2>2, <2>4, <2>5, <3>1 DEF LoneInv, LoneState
    <3>3. /\ DOMAIN cur = Reports /\ Program(job)[n + 1] \in Reports
          /\ cur' = [cur EXCEPT ![Program(job)[n + 1]] = {x}]
      BY <2>1, <3>1 DEF IInv
    <3>4. Program(job)[n + 1] \in Breakable => x.ok
      BY <2>5, <3>1 DEF ExitsNonZero
    <3> QED
      BY <3>2, <3>3, <3>4, FitsGrows
  <2>6. /\ proc[p].job \in Jobs /\ proc[p].at \in Nat \ {0}
        /\ proc[p].at - 1 \in Nat /\ proc[p].at = (proc[p].at - 1) + 1
    BY <2>2, LiveReports, ProgramsNameReports
  <2>7. proc[p].lone => \A q \in Procs \ {p} : ~Live(q)
    BY DEF LoneInv, LoneState
  <2>8. CASE /\ ~ExitsNonZero(Report(p), x)
             /\ End(p, "done") /\ proc[p].at = Len(Program(proc[p].job))
    <3>1. /\ proc'[p].status = "done" /\ proc'[p].job = proc[p].job
          /\ proc'[p].lone = proc[p].lone
          /\ \A q \in Procs \ {p} : proc'[q] = proc[q]
      BY <2>8, EndEffect
    <3>2. ASSUME proc[p].lone, NEW job \in Jobs, proc[p].job = job
          PROVE  Fits(job, Len(Program(job)))'
      <4>1. PICK n \in Nat : proc[p].at = n + 1 /\ n + 1 = Len(Program(job))
        BY <2>6, <2>8, <3>2
      <4> QED
        BY <2>5, <2>8, <3>2, <4>1
    <3>3. LoneState(p)'
      BY <2>6, <2>7, <3>1, <3>2 DEF LoneState, Live
    <3> QED
      BY <2>2, <3>1, <3>3, OthersNotLone DEF LoneInv
  <2>9. CASE ~ExitsNonZero(Report(p), x) /\ GoesOn(p)
    <3>1. /\ proc'[p].status = "running" /\ proc'[p].job = proc[p].job
          /\ proc'[p].lone = proc[p].lone /\ proc'[p].phase = "read"
          /\ proc'[p].at = proc[p].at + 1
          /\ \A q \in Procs \ {p} : proc'[q] = proc[q]
      BY <2>2, <2>9, AdvanceEffect DEF Live
    <3>2. ASSUME proc[p].lone, NEW job \in Jobs, proc[p].job = job,
                 NEW m \in 0 .. Len(Program(job)), proc[p].at + 1 = m + 1
          PROVE  Fits(job, m)'
      <4>1. PICK n \in Nat : proc[p].at = n + 1 /\ n + 1 = m
        BY <2>6, <3>2, ProgramsNameReports
      <4> QED
        BY <2>5, <2>9, <3>2, <4>1
    <3>3. LoneState(p)'
      BY <2>7, <3>1, <3>2 DEF LoneState, Live
    <3> QED
      BY <2>2, <3>1, <3>3, OthersNotLone DEF LoneInv
  <2> QED
    BY <2>1, <2>3, <2>8, <2>9
<1>5. ASSUME NEW p \in Procs, Kill(p) PROVE LoneInv'
  BY <1>5, EndLone DEF Kill
<1>6. ASSUME NEW f \in Files, NEW c \in Candidates, EditCandidate(f, c) PROVE LoneInv'
  BY <1>6, LoneStays DEF EditCandidate
<1>7. ASSUME NEW g \in Breakable, EditGateInput(g) PROVE LoneInv'
  BY <1>7, LoneStays DEF EditGateInput
<1>8. CASE UNCHANGED vars
  BY <1>8, LoneStays DEF vars
<1> QED
  BY <1>1, <1>2, <1>3, <1>4, <1>5, <1>6, <1>7, <1>8 DEF Next

-----------------------------------------------------------------------------
LEMMA SealInit == Init => SealInv
<1> SUFFICES ASSUME Init PROVE SealInv
  OBVIOUS
<1>1. \A p \in Procs : ~Live(p)
  BY DEF Init, Live, Idle
<1> QED
  BY <1>1 DEF Init, SealInv

LEMMA SealStep == IInv /\ HeardInv /\ SealInv /\ [Next]_vars => SealInv'
<1> SUFFICES ASSUME IInv, HeardInv, SealInv, [Next]_vars PROVE SealInv'
  OBVIOUS
<1> DEFINE HeldSound(p) ==
             Live(p) => \A x \in proc[p].held : Report(p) # "sim" => Sound(Report(p), x)
           CurSound == \A r \in Reports : \A x \in cur[r] : Sound(r, x)
<1>a. CurSound /\ \A p \in Procs : HeldSound(p)
  BY DEF SealInv
<1>b. CurSound' /\ (\A p \in Procs : HeldSound(p)') => SealInv'
  BY DEF SealInv
<1>c. UNCHANGED cur => CurSound'
  BY <1>a DEF Sound
<1>d. ASSUME NEW p \in Procs, proc'[p].held = {} PROVE HeldSound(p)'
  BY <1>d
<1>e. ASSUME NEW p \in Procs, proc'[p].status = proc[p].status,
             proc'[p].job = proc[p].job, proc'[p].at = proc[p].at,
             proc'[p].held = proc[p].held
      PROVE  HeldSound(p)'
  BY <1>a, <1>e DEF Live, Report, Sound
<1> HIDE DEF HeldSound, CurSound
<1>1. ASSUME NEW p \in Procs, NEW job \in Jobs, Start(p, job) PROVE SealInv'
  <2>1. HeldSound(p)'
    BY <1>1, <1>d, StartEffect
  <2>2. \A q \in Procs \ {p} : HeldSound(q)'
    BY <1>1, <1>e, StartEffect
  <2> QED
    BY <1>1, <1>b, <1>c, <2>1, <2>2 DEF Start
<1>2. ASSUME NEW p \in Procs, ReadStep(p) PROVE SealInv'
  <2>1. Live(p) /\ UNCHANGED cur
    BY <1>2 DEF ReadStep
  <2>2. \A q \in Procs \ {p} : HeldSound(q)'
    BY <1>2, <1>e, ReadEffect
  <2>3. ASSUME NEW r \in Reports, r # "sim", NEW x \in Current(r) PROVE Sound(r, x)
    <3>1. CASE r = "bundle"
      <4>1. x.hashes = [q \in Hashed |-> cur[q]] /\ x.failed = {}
        BY <2>3, <3>1 DEF Current, Computed, Breakable, Bundle, CurrentReportHashes
      <4>2. x.hashes["sim"] = cur["sim"]
        BY <4>1 DEF Hashed, Reports
      <4>3. \A s \in cur["sim"] : Sound("sim", s)
        BY <1>a DEF CurSound, Reports
      <4> QED
        BY <3>1, <4>1, <4>2, <4>3 DEF Sound
    <3>2. CASE r = "readiness"
      <4>1. x = ReadinessArtifact(Hashed)
        BY <2>3, <3>2 DEF Current, Computed, Breakable
      <4>2. x.failed \subseteq {BindingGate}
        BY <4>1 DEF ReadinessArtifact
      <4> QED
        BY <3>2, <4>2 DEF Sound
    <3>3. CASE r \notin {"bundle", "readiness"}
      BY <2>3, <3>3 DEF Sound
    <3> QED
      BY <3>1, <3>2, <3>3
  <2>4. HeldSound(p)'
    <3>1. proc'[p].held = Current(Report(p)) /\ Report(p)' = Report(p)
      BY <1>2, <2>1, ReadEffect, ReadsCurrent DEF Report
    <3>2. Report(p) \in Reports
      BY <2>1, LiveReports
    <3>3. \A x \in proc'[p].held : Report(p) # "sim" => Sound(Report(p), x)
      BY <2>3, <3>1, <3>2
    <3> QED
      BY <3>1, <3>3 DEF HeldSound, Sound
  <2> QED
    BY <1>b, <1>c, <2>1, <2>2, <2>4
<1>3. ASSUME NEW p \in Procs, NEW status \in {"done", "failed", "killed"}, End(p, status)
      PROVE  \A q \in Procs : HeldSound(q)'
  BY <1>3, <1>d, <1>e, EndEffect
<1>4. ASSUME NEW p \in Procs, RefuseToWrite(p) PROVE SealInv'
  BY <1>3, <1>4, <1>b, <1>c DEF RefuseToWrite
<1>5. ASSUME NEW p \in Procs, WriteStep(p) PROVE SealInv'
  <2>1. PICK x \in proc[p].held :
          /\ ~Refused(Report(p), x)
          /\ cur' = [cur EXCEPT ![Report(p)] = {x}]
          /\ End(p, "failed") \/ End(p, "done") \/ GoesOn(p)
    BY <1>5, WriteEffect
  <2>2. Live(p)
    BY <1>5 DEF WriteStep
  <2>3. Sound(Report(p), x)
    <3>1. CASE Report(p) = "sim"
      BY <2>1, <3>1 DEF Refused, Sound
    <3>2. CASE Report(p) # "sim"
      BY <1>a, <2>2, <3>2 DEF HeldSound
    <3> QED
      BY <3>1, <3>2
  <2>4. CurSound'
    <3>1. ASSUME NEW r \in Reports, NEW y \in cur'[r] PROVE Sound(r, y)
      <4>1. CASE r = Report(p)
        BY <2>1, <2>3, <3>1, <4>1 DEF IInv
      <4>2. CASE r # Report(p)
        BY <1>a, <2>1, <3>1, <4>2 DEF IInv, CurSound
      <4> QED
        BY <4>1, <4>2
    <3> QED
      BY <3>1 DEF CurSound, Sound
  <2>5. ASSUME GoesOn(p)
        PROVE  \A q \in Procs : HeldSound(q)'
    BY <2>5, <1>d, <1>e, AdvanceEffect
  <2> QED
    BY <1>3, <1>b, <2>1, <2>4, <2>5
<1>6. ASSUME NEW p \in Procs, Kill(p) PROVE SealInv'
  BY <1>3, <1>6, <1>b, <1>c DEF Kill
<1>7. UNCHANGED <<cur, proc>> => SealInv'
  BY <1>b, <1>c, <1>e
<1>8. ASSUME NEW f \in Files, NEW c \in Candidates, EditCandidate(f, c) PROVE SealInv'
  BY <1>7, <1>8 DEF EditCandidate
<1>9. ASSUME NEW g \in Breakable, EditGateInput(g) PROVE SealInv'
  BY <1>7, <1>9 DEF EditGateInput
<1>10. CASE UNCHANGED vars
  BY <1>7, <1>10 DEF vars
<1> QED
  BY <1>1, <1>2, <1>4, <1>5, <1>6, <1>8, <1>9, <1>10 DEF Next

(* Of a tree nobody edits every script makes the reports of this tree.      *)
LEMMA ComputedOfTree ==
  ASSUME \A q \in Reports : \A y \in cur[q] : OfTree(q, y),
         NEW r \in Reports, r = "bundle" => \A q \in Hashed : cur[q] # {},
         NEW x \in Current(r)
  PROVE  OfTree(r, x)
<1> USE DEF Current, Computed, Breakable
<1>1. CASE r = "operator"
  <2>1. PICK suite \in cur["quarantine"] : x = OperatorReviewBundle(suite)
    BY <1>1
  <2>2. suite = QuarantineSuite(tree)
    BY DEF OfTree, OfThisTree, Hashed, Reports
  <2> QED
    BY <1>1, <2>1, <2>2 DEF OfTree, OfThisTree
<1>2. CASE r = "sim"
  <2>1. PICK bundle \in cur["operator"] : x = WriterSimulation(bundle)
    BY <1>2
  <2>2. bundle = OperatorReviewBundle(QuarantineSuite(tree))
    BY DEF OfTree, OfThisTree, Hashed, Reports
  <2> QED
    BY <1>2, <2>1, <2>2 DEF OfTree, OfThisTree
<1>3. CASE r = "bundle"
  <2>1. x.hashes = [q \in Hashed |-> cur[q]]
    BY <1>3 DEF Bundle, CurrentReportHashes
  <2>2. ASSUME NEW q \in Hashed PROVE cur[q] = {OfThisTree(q)}
    <3>1. cur[q] # {} /\ \A y \in cur[q] : y = OfThisTree(q)
      BY <1>3 DEF OfTree, Hashed
    <3> QED
      BY <3>1
  <2> QED
    BY <1>3, <2>1, <2>2 DEF OfTree, Hashed
<1>4. CASE r = "readiness"
  BY <1>4 DEF OfTree, Hashed
<1>5. CASE r \in {"schema", "hostile"}
  BY <1>5 DEF OfTree, OfThisTree
<1>6. CASE r \in {"comparator", "verdict", "quarantine"}
  BY <1>6 DEF OfTree, OfThisTree
<1> QED
  BY <1>1, <1>2, <1>3, <1>4, <1>5, <1>6 DEF Reports

LEMMA RaceInit == Init => RaceInv
<1> SUFFICES ASSUME Init PROVE RaceInv
  OBVIOUS
<1>1. \A p \in Procs : ~Live(p)
  BY DEF Init, Live, Idle
<1> QED
  BY <1>1 DEF Init, RaceInv

LEMMA RaceStep == IInv /\ TypeInv /\ HeardInv /\ RaceInv /\ [Next]_vars => RaceInv'
<1> SUFFICES ASSUME IInv, TypeInv, HeardInv, RaceInv, [Next]_vars, edits' = 0
             PROVE  /\ \A r \in Reports : \A x \in cur'[r] : OfTree(r, x)'
                    /\ \A p \in Procs : Live(p)' => \A x \in proc'[p].held : OfTree(Report(p), x)'
  BY DEF RaceInv
<1>a. UNCHANGED <<tree, broken, edits>>
  <2>1. edits \in Nat /\ edits + 1 # 0
    BY ChainAssumption DEF TypeInv
  <2>2. \A f, c : ~EditCandidate(f, c)
    BY <2>1 DEF EditCandidate
  <2>3. \A g : ~EditGateInput(g)
    BY <2>1 DEF EditGateInput
  <2> QED
    BY <2>2, <2>3 DEF Next, Start, ReadStep, RefuseToWrite, WriteStep, Kill, vars
<1> DEFINE HeldOf(p) == Live(p) => \A x \in proc[p].held : OfTree(Report(p), x)
           CurOf == \A r \in Reports : \A x \in cur[r] : OfTree(r, x)
<1>b. CurOf /\ \A p \in Procs : HeldOf(p)
  BY <1>a DEF RaceInv
<1>c. \A r, x : OfTree(r, x)' <=> OfTree(r, x)
  <2>1. \A r : OfThisTree(r)' = OfThisTree(r)
    BY <1>a DEF OfThisTree
  <2> QED
    BY <2>1 DEF OfTree
<1>d. UNCHANGED cur => CurOf'
  BY <1>b, <1>c
<1>e. ASSUME NEW p \in Procs, proc'[p].held = {} PROVE HeldOf(p)'
  BY <1>e
<1>f. ASSUME NEW p \in Procs, proc'[p].status = proc[p].status,
             proc'[p].job = proc[p].job, proc'[p].at = proc[p].at,
             proc'[p].held = proc[p].held
      PROVE  HeldOf(p)'
  BY <1>b, <1>c, <1>f DEF Live, Report
<1> SUFFICES CurOf' /\ \A p \in Procs : HeldOf(p)'
  OBVIOUS
<1>g. ASSUME NEW p \in Procs, NEW status \in {"done", "failed", "killed"}, End(p, status)
      PROVE  \A q \in Procs : HeldOf(q)'
  <2> HIDE DEF HeldOf, CurOf
  <2> QED
    BY <1>g, <1>e, <1>f, EndEffect
<1>1. ASSUME NEW p \in Procs, NEW job \in Jobs, Start(p, job)
      PROVE  CurOf' /\ \A q \in Procs : HeldOf(q)'
  <2> HIDE DEF HeldOf, CurOf
  <2>1. HeldOf(p)'
    BY <1>1, <1>e, StartEffect
  <2>2. \A q \in Procs \ {p} : HeldOf(q)'
    BY <1>1, <1>f, StartEffect
  <2> QED
    BY <1>1, <1>d, <2>1, <2>2 DEF Start
<1>2. ASSUME NEW p \in Procs, ReadStep(p) PROVE CurOf' /\ \A q \in Procs : HeldOf(q)'
  <2>1. Live(p) /\ UNCHANGED cur
    BY <1>2 DEF ReadStep
  <2>2. \A q \in Procs \ {p} : HeldOf(q)'
    <3> HIDE DEF HeldOf, CurOf
    <3> QED
      BY <1>2, <1>f, ReadEffect
  <2>3. proc'[p].held = Current(Report(p)) /\ Report(p)' = Report(p) /\ Report(p) \in Reports
    BY <1>2, <2>1, ReadEffect, ReadsCurrent, LiveReports DEF Report
  <2>4. Report(p) = "bundle" => \A q \in Hashed : cur[q] # {}
    BY <2>1, AllHeard DEF Hashed
  <2>5. \A x \in Current(Report(p)) : OfTree(Report(p), x)
    BY <1>b, <2>3, <2>4, ComputedOfTree
  <2>6. HeldOf(p)'
    BY <1>c, <2>3, <2>5
  <2> HIDE DEF HeldOf, CurOf
  <2> QED
    BY <1>d, <2>1, <2>2, <2>6
<1>3. ASSUME NEW p \in Procs, RefuseToWrite(p) PROVE CurOf' /\ \A q \in Procs : HeldOf(q)'
  <2> HIDE DEF HeldOf, CurOf
  <2> QED
    BY <1>3, <1>d, <1>g DEF RefuseToWrite
<1>4. ASSUME NEW p \in Procs, WriteStep(p) PROVE CurOf' /\ \A q \in Procs : HeldOf(q)'
  <2>1. PICK x \in proc[p].held :
          /\ cur' = [cur EXCEPT ![Report(p)] = {x}]
          /\ End(p, "failed") \/ End(p, "done") \/ GoesOn(p)
    BY <1>4, WriteEffect
  <2>2. OfTree(Report(p), x)
    BY <1>4, <1>b DEF WriteStep
  <2>3. CurOf'
    <3>1. ASSUME NEW r \in Reports, NEW y \in cur'[r] PROVE OfTree(r, y)
      <4>1. CASE r = Report(p)
        BY <2>1, <2>2, <3>1, <4>1 DEF IInv
      <4>2. CASE r # Report(p)
        BY <1>b, <2>1, <3>1, <4>2 DEF IInv
      <4> QED
        BY <4>1, <4>2
    <3> QED
      BY <1>c, <3>1
  <2> HIDE DEF HeldOf, CurOf
  <2>4. ASSUME GoesOn(p) PROVE \A q \in Procs : HeldOf(q)'
    BY <2>4, <1>e, <1>f, AdvanceEffect
  <2> QED
    BY <1>g, <2>1, <2>3, <2>4
<1>5. ASSUME NEW p \in Procs, Kill(p) PROVE CurOf' /\ \A q \in Procs : HeldOf(q)'
  <2> HIDE DEF HeldOf, CurOf
  <2> QED
    BY <1>5, <1>d, <1>g DEF Kill
<1>6. UNCHANGED <<cur, proc>> => CurOf' /\ \A q \in Procs : HeldOf(q)'
  <2> HIDE DEF HeldOf, CurOf
  <2> QED
    BY <1>d, <1>f
<1> HIDE DEF HeldOf, CurOf
<1>7. ASSUME NEW f \in Files, NEW c \in Candidates, EditCandidate(f, c)
      PROVE  CurOf' /\ \A q \in Procs : HeldOf(q)'
  BY <1>6, <1>7 DEF EditCandidate
<1>8. ASSUME NEW g \in Breakable, EditGateInput(g)
      PROVE  CurOf' /\ \A q \in Procs : HeldOf(q)'
  BY <1>6, <1>8 DEF EditGateInput
<1>9. CASE UNCHANGED vars
  BY <1>6, <1>9 DEF vars
<1> QED
  BY <1>1, <1>2, <1>3, <1>4, <1>5, <1>7, <1>8, <1>9 DEF Next

LEMMA ChainInvariant == Spec => []ChainInv
<1>1. Init => ChainInv
  BY InitInvariant, TypeInit, HeardInit, LoneInit, SealInit, RaceInit DEF ChainInv
<1>2. ChainInv /\ [Next]_vars => ChainInv'
  BY StepInvariant, TypeStep, HeardStep, LoneStep, SealStep, RaceStep DEF ChainInv
<1> QED
  BY <1>1, <1>2, PTL DEF Spec

-----------------------------------------------------------------------------
(* Type correctness, for any number of commands.                            *)
THEOREM ChainTypeCorrect == Spec => []TypeOK
<1>1. ChainInv => TypeOK
  <2> SUFFICES ASSUME ChainInv PROVE TypeOK
    OBVIOUS
  <2> USE DEF ChainInv
  <2>1. tree \in [Files -> Candidates] /\ broken \subseteq Breakable /\ edits \in 0 .. MaxEdits
        /\ DOMAIN cur = Reports
    BY DEF IInv, Trees, TypeInv
  <2>2. ASSUME NEW r \in Reports PROVE Cardinality(cur[r]) <= 1
    <3>1. cur[r] = {} \/ \E x : cur[r] = {x}
      BY DEF TypeInv, AtMostOne
    <3>2. Cardinality({}) = 0
      BY FS_EmptySet
    <3>3. \A x : Cardinality({x}) = 1
      BY FS_Singleton
    <3>4. Cardinality(cur[r]) = 0 \/ Cardinality(cur[r]) = 1
      BY <3>1, <3>2, <3>3
    <3> QED
      BY <3>4
  <2>3. ASSUME NEW p \in Procs, Live(p) PROVE proc[p].at \in DOMAIN Program(proc[p].job)
    <3>1. proc[p].job \in Jobs /\ proc[p].at \in 1 .. Len(Program(proc[p].job))
      BY <2>3, LiveReports
    <3>2. Program(proc[p].job) \in Seq(Reports)
      BY <3>1, ProgramsNameReports
    <3> QED
      BY <3>1, <3>2
  <2>4. \A p \in Procs :
          /\ proc[p].status \in Statuses /\ proc[p].lone \in BOOLEAN
          /\ proc[p].passed \subseteq Hashed
          /\ proc[p].held # {} <=> Live(p) /\ proc[p].phase = "write"
    BY DEF TypeInv, WellTyped, HeardInv, Heard
  <2> QED
    BY <2>1, <2>2, <2>3, <2>4, LiveReports DEF TypeOK
<1> QED
  BY <1>1, ChainInvariant, PTL

(* write-report-bundle.js, simulate-test-mode-writer.js: a command that ran *)
(* alone leaves the operator bundle of the quarantine suite and the         *)
(* simulation of that bundle, although it runs the quarantine and operator  *)
(* scripts again after each of them, whatever is edited meanwhile and       *)
(* whatever killed or failed commands left before it.                       *)
THEOREM LoneChainsFit == Spec => []LoneChainFits
<1>1. ChainInv => LoneChainFits
  <2> SUFFICES ASSUME ChainInv, NEW p \in Procs, proc[p].status = "done", proc[p].lone
               PROVE  /\ cur["operator"] = Current("operator")
                      /\ proc[p].job # "v020:operator-review" => cur["sim"] = Current("sim")
    BY DEF LoneChainFits, Current, Computed, Breakable
  <2> DEFINE job == proc[p].job
             P == Program(job)
  <2>1. job \in Jobs /\ Fits(job, Len(P))
    BY DEF ChainInv, LoneInv, LoneState
  <2>2. /\ "operator" \in Derived /\ Inputs("operator") = {"quarantine"}
        /\ "sim" \in Derived /\ Inputs("sim") = {"operator"}
    BY DEF Derived, Inputs
  <2> HIDE DEF job
  <2>3. ASSUME NEW i \in 1 .. Len(P), P[i] \in Derived,
               \A j \in (i + 1) .. Len(P) : P[j] \notin Inputs(P[i])
        PROVE  cur[P[i]] = Current(P[i])
    BY <2>1, <2>3 DEF Fits
  <2>4. CASE job = "v020:operator-review"
    <3>1. P = OperatorScript
      BY <2>4 DEF Program
    <3>2. Len(P) = 2 /\ P[2] = "operator" /\ 2 \in 1 .. Len(P)
      BY <3>1, PerformsOperator
    <3>3. \A j \in (2 + 1) .. Len(P) : P[j] \notin Inputs(P[2])
      BY <3>2
    <3> HIDE DEF P
    <3> QED
      BY <2>2, <2>3, <2>4, <3>2, <3>3 DEF job
  <2>5. CASE job = "v020:writer-sim"
    <3>1. P = SimScript
      BY <2>5 DEF Program
    <3>2. /\ Len(P) = 3 /\ P[2] = "operator" /\ P[3] = "sim"
          /\ 2 \in 1 .. Len(P) /\ 3 \in 1 .. Len(P)
      BY <3>1, PerformsSim
    <3>3. \A j \in (2 + 1) .. Len(P) : P[j] \notin Inputs(P[2])
      BY <2>2, <3>2
    <3>4. \A j \in (3 + 1) .. Len(P) : P[j] \notin Inputs(P[3])
      BY <3>2
    <3> HIDE DEF P
    <3> QED
      BY <2>2, <2>3, <3>2, <3>3, <3>4
  <2>6. CASE job \in {"v020:report", "v020:readiness"}
    <3>1. /\ Len(P) = 11 /\ P[8] = "operator" /\ P[9] = "sim" /\ P[10] = "hostile"
          /\ P[11] \in {"bundle", "readiness"}
          /\ 8 \in 1 .. Len(P) /\ 9 \in 1 .. Len(P)
      BY <2>6, PerformsGates, PerformsAll
    <3>2. \A j \in (8 + 1) .. Len(P) : P[j] \notin Inputs(P[8])
      <4>1. \A j \in 9 .. 11 : j = 9 \/ j = 10 \/ j = 11
        OBVIOUS
      <4> QED
        BY <2>2, <3>1, <4>1
    <3>3. \A j \in (9 + 1) .. Len(P) : P[j] \notin Inputs(P[9])
      <4>1. \A j \in 10 .. 11 : j = 10 \/ j = 11
        OBVIOUS
      <4> QED
        BY <2>2, <3>1, <4>1
    <3> HIDE DEF P
    <3> QED
      BY <2>2, <2>3, <3>1, <3>2, <3>3
  <2> QED
    BY <2>1, <2>4, <2>5, <2>6 DEF Jobs
<1> QED
  BY <1>1, ChainInvariant, PTL

LEMMA LoneBinds == ChainInv => LoneBundleBinds
<1> SUFFICES ASSUME ChainInv, NEW p \in Procs, proc[p].status = "done", proc[p].lone,
                    proc[p].job = "v020:report", NEW b \in cur["bundle"], NEW r \in Hashed
             PROVE  b.hashes[r] = cur[r] /\ cur[r] # {}
  BY DEF LoneBundleBinds
<1> DEFINE P == Program("v020:report")
<1>1. Fits("v020:report", Len(P))
  BY DEF ChainInv, LoneInv, LoneState, Jobs
<1>2. /\ Len(P) = 11 /\ P[11] = "bundle" /\ \A i \in 1 .. 10 : P[i] = Gates[i]
  BY PerformsAll
<1> HIDE DEF P
<1>3. cur["bundle"] = Current("bundle")
  <2>1. 11 \in 1 .. Len(P) /\ \A j \in (11 + 1) .. Len(P) : P[j] \notin Inputs(P[11])
    BY <1>2
  <2>2. "bundle" \in Derived
    BY DEF Derived
  <2> QED
    BY <1>1, <1>2, <2>1, <2>2 DEF Fits, P
<1>4. b.hashes[r] = cur[r]
  BY <1>3 DEF Current, Computed, Breakable, Bundle, CurrentReportHashes
<1>5. \E i \in 1 .. 10 : P[i] = r
  BY EveryGateRuns DEF P
<1>6. ASSUME NEW i \in 1 .. 10 PROVE cur[P[i]] # {}
  <2>1. i \in 1 .. Len(P)
    BY <1>2
  <2> QED
    BY <1>1, <2>1 DEF Fits, P
<1> QED
  BY <1>2, <1>4, <1>5, <1>6

(* write-report-bundle.js: the hashes in the bundle a lone v020:report      *)
(* leaves are those of the reports beside it, and none is missing.          *)
THEOREM LoneBundlesBind == Spec => []LoneBundleBinds
  BY LoneBinds, ChainInvariant, PTL

(* compile-operator-review-bundle.js, simulate-test-mode-writer.js: the     *)
(* scripts read files that other commands replace meanwhile.  As long as    *)
(* nobody edits the tree it does no harm: what a finished command ran has   *)
(* left the report of this tree, and every bundle hashes the whole chain,   *)
(* for any number of commands, killed or failed at any step.                *)
THEOREM RacesAreHarmless == Spec => []RacesLeaveOneChain
<1>1. ChainInv => RacesLeaveOneChain
  <2> SUFFICES ASSUME ChainInv, edits = 0 PROVE RacesLeaveOneChain
    BY DEF RacesLeaveOneChain
  <2>1. \A r \in Reports : \A x \in cur[r] : OfTree(r, x)
    BY DEF ChainInv, RaceInv
  <2>2. ASSUME NEW p \in Procs, proc[p].status = "done",
               NEW i \in DOMAIN Program(proc[p].job), Program(proc[p].job)[i] \in Hashed
        PROVE  cur[Program(proc[p].job)[i]] = {OfThisTree(Program(proc[p].job)[i])}
    <3>1. PICK job \in Jobs : proc[p].job = job
      BY <2>2 DEF ChainInv, HeardInv, Heard
    <3>2. i \in 1 .. Len(Program(job))
      BY <2>2, <3>1, ProgramsNameReports
    <3>3. cur[Program(job)[i]] # {}
      BY <2>2, <3>1, <3>2 DEF ChainInv, HeardInv, Heard
    <3>4. \A x \in cur[Program(job)[i]] : x = OfThisTree(Program(job)[i])
      BY <2>1, <2>2, <3>1 DEF OfTree, Hashed
    <3> QED
      BY <3>1, <3>3, <3>4
  <2>3. \A b \in cur["bundle"] : \A r \in Hashed : b.hashes[r] = {OfThisTree(r)}
    BY <2>1 DEF OfTree, Reports
  <2> QED
    BY <2>2, <2>3 DEF RacesLeaveOneChain
<1> QED
  BY <1>1, ChainInvariant, PTL

(* write-report-bundle.js, compile-readiness-artifact.js: a failed gate     *)
(* ends the command that runs it, so that a command goes on only past       *)
(* gates it heard pass, no bundle counts a failed step or hashes a refused  *)
(* simulation, a published FAIL names the binding gate alone, and a lone    *)
(* v020:report hashes no report of a failed gate, however the commands      *)
(* race, fail or are killed.                                                *)
THEOREM FailuresSeal == Spec => []FailuresSealNothing
<1>1. ChainInv => FailuresSealNothing
  <2> SUFFICES ASSUME ChainInv PROVE FailuresSealNothing
    OBVIOUS
  <2>1. \A r \in Reports : \A x \in cur[r] : Sound(r, x)
    BY DEF ChainInv, SealInv
  <2>2. /\ \A a \in cur["readiness"] : Sound("readiness", a)
        /\ \A b \in cur["bundle"] : Sound("bundle", b)
    BY <2>1 DEF Reports
  <2>3. ASSUME NEW p \in Procs, Live(p), NEW i \in 1 .. proc[p].at - 1
        PROVE  Program(proc[p].job)[i] \in proc[p].passed
    <3>1. PICK job \in Jobs : proc[p].job = job
      BY <2>3, LiveReports DEF ChainInv
    <3>2. proc[p].at \in 1 .. Len(Program(job)) /\ Len(Program(job)) \in Nat
      BY <2>3, <3>1, LiveReports, ProgramsNameReports DEF ChainInv
    <3>3. PICK n \in 0 .. Len(Program(job)) : proc[p].at = n + 1 /\ n = proc[p].at - 1
      <4>1. proc[p].at - 1 \in 0 .. Len(Program(job)) /\ proc[p].at = (proc[p].at - 1) + 1
        BY <3>2
      <4> QED
        BY <4>1
    <3> QED
      BY <2>3, <3>1, <3>3 DEF ChainInv, HeardInv, Heard
  <2>4. ASSUME NEW p \in Procs, proc[p].status = "done", proc[p].lone,
               proc[p].job = "v020:report",
               NEW b \in cur["bundle"], NEW g \in Breakable, NEW x \in b.hashes[g]
        PROVE  x.ok
    <3> DEFINE P == Program("v020:report")
    <3>1. Fits("v020:report", Len(P))
      BY <2>4 DEF ChainInv, LoneInv, LoneState, Jobs
    <3>2. Len(P) = 11 /\ g \in Hashed
      BY PerformsAll DEF Breakable, Hashed, Reports
    <3> HIDE DEF P
    <3>3. PICK i \in 1 .. 10 : P[i] = g
      BY <3>2, EveryGateRuns DEF P
    <3>4. \A y \in cur[g] : y.ok
      <4>1. i \in 1 .. Len(P)
        BY <3>2
      <4> QED
        BY <3>1, <3>3, <4>1 DEF Fits, P
    <3>5. b.hashes[g] = cur[g]
      <4>1. LoneBundleBinds
        BY LoneBinds
      <4> QED
        BY <2>4, <3>2, <4>1 DEF LoneBundleBinds
    <3> QED
      BY <2>4, <3>4, <3>5
  <2> QED
    BY <2>2, <2>3, <2>4 DEF FailuresSealNothing, Sound
<1> QED
  BY <1>1, ChainInvariant, PTL
=============================================================================
