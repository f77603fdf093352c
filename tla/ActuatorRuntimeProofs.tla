------------------------- MODULE ActuatorRuntimeProofs -------------------------
(***************************************************************************)
(* The guarded actuator acts only on earned effects, and implements        *)
(* ActuatorPromise when the runtime passes process.env to the writers: for *)
(* any number of deliveries, any requests and reports, any environment.    *)
(***************************************************************************)
EXTENDS ActuatorRuntime, AdmissibilityLemmas

Environments == [Switches -> SwitchValues]

LEMMA EnvironmentTypes ==
  ASSUME NEW p \in Environments, NEW arg \in EnvArgs
  PROVE EnvOrProcess(arg, p) \in Environments /\ EnvOrNothing(arg, p) \in Environments
BY DEF Environments, EnvOrProcess, EnvOrNothing, AllUnset, SwitchValues

(* What the handler asks of a request before it looks at the route.         *)
WellFormed(req) == HeadersPresent(req) /\ ValidSignature(req) /\ req.json

(* The webhook handler accepts only authentic deliveries and answers them   *)
(* with 202; what it refuses is answered with another status.               *)
LEMMA HandlerSound ==
  ASSUME NEW req \in Requests, NEW env \in Environments,
         NEW w, w = HandleWebhookRequest(req, env)
  PROVE /\ w.accepted \in BOOLEAN
        /\ w.status \in {202, 400, 401, 403, 422}
        /\ w.accepted <=> w.status = 202
        /\ w.accepted => Authentic(req) /\ ~DispatchStopped(env)
        /\ w.accepted => w.route.repo = req.repo
        /\ w.accepted => w.route.sha = IF req.event = "ping" THEN NoSha ELSE req.sha
        /\ w.accepted /\ req.event # "ping" => req.sha \in Shas /\ req.repo # NoRepo
        /\ w.status \in {400, 401} => ~WellFormed(req)
<1>1. /\ HeadersPresent(req) \in BOOLEAN /\ req.json \in BOOLEAN
      /\ req.sha \in Shas \cup {NoSha} /\ req.repo \in Repos \cup {NoRepo}
      /\ req.event \in {"absent", "ping", "pull_request", "push", "other"}
  BY DEF Requests, HeadersPresent
<1> DEFINE route == DispatchWebhookRoute(req, env)
<1>2. /\ route.decision \notin RouteDenials =>
           /\ ~DispatchStopped(env)
           /\ req.event # "other"
           /\ route.sha = IF req.event = "ping" THEN NoSha ELSE req.sha
           /\ req.event # "ping" => req.sha # NoSha /\ req.repo # NoRepo
      /\ route.repo = req.repo
  BY <1>1 DEF DispatchWebhookRoute, RouteDenials
<1>3. /\ RouteStatus(route.decision) \in {202, 403, 422}
      /\ RouteStatus(route.decision) = 202 <=> route.decision \notin RouteDenials
  BY DEF RouteStatus, RouteDenials
<1> HIDE DEF route
<1>4. w =
        IF ~HeadersPresent(req) THEN [accepted |-> FALSE, status |-> 400, route |-> NoRoute]
        ELSE IF ~ValidSignature(req) THEN [accepted |-> FALSE, status |-> 401, route |-> NoRoute]
        ELSE IF ~req.json THEN [accepted |-> FALSE, status |-> 400, route |-> NoRoute]
        ELSE [ accepted |-> route.decision \notin RouteDenials,
               status |-> RouteStatus(route.decision), route |-> route ]
  BY DEF HandleWebhookRequest, route
<1>5. CASE ~WellFormed(req)
  <2>1. w.accepted = FALSE /\ w.status \in {400, 401}
    BY <1>4, <1>5 DEF WellFormed
  <2>2. ~w.accepted /\ w.accepted \in BOOLEAN
    BY <2>1
  <2>3. w.status \in {202, 400, 401, 403, 422} /\ w.status # 202
    BY <2>1
  <2> QED
    BY <1>5, <2>2, <2>3
<1>6. CASE WellFormed(req)
  <2>1. /\ w.accepted = (route.decision \notin RouteDenials)
        /\ w.status = RouteStatus(route.decision)
        /\ w.route = route
    BY <1>4, <1>6 DEF WellFormed
  <2>2. w.accepted => Authentic(req) /\ ~DispatchStopped(env)
    BY <1>2, <1>6, <2>1 DEF Authentic, ValidSignature, WellFormed
  <2>3. w.accepted \in BOOLEAN /\ (w.accepted <=> w.status = 202)
    <3>1. (w.status = 202) <=> (route.decision \notin RouteDenials)
      BY <1>3, <2>1
    <3>2. w.accepted \in BOOLEAN
      BY <2>1
    <3>3. w.accepted <=> (route.decision \notin RouteDenials)
      BY <2>1
    <3> QED
      BY <3>1, <3>2, <3>3
  <2>4. w.status \in {202, 400, 401, 403, 422}
    BY <1>3, <2>1
  <2>5. w.accepted => w.route.sha = IF req.event = "ping" THEN NoSha ELSE req.sha
    BY <1>2, <2>1
  <2>6. w.route.repo = req.repo
    BY <1>2, <2>1
  <2>7. w.accepted /\ req.event # "ping" => req.sha \in Shas /\ req.repo # NoRepo
    BY <1>1, <1>2, <2>1
  <2>8. w.status \notin {400, 401}
    BY <1>3, <2>1
  <2> QED
    BY <2>2, <2>3, <2>4, <2>5, <2>6, <2>7, <2>8
<1> QED
  BY <1>5, <1>6

(* decideWrite, asked as app/check-run-plan.ts asks it, depends on the      *)
(* write switch alone.                                                      *)
LEMMA CheckRunPermissionByStop ==
  ASSUME NEW env
  PROVE  CheckRunPermission(env) =
           IF ExactlyTrue(env, "WRITE_DISABLED") THEN "DENY_WRITE_DISABLED" ELSE "ALLOW"
<1> DEFINE req == WriteRequest("block", "CHECK_RUN", <<>>, FALSE)
           review == TouchesProtected(<<>>, DefaultProtectedClasses)
<1>1. req.class = "CHECK_RUN" /\ req.mode = "block" /\ req.paths = <<>>
  BY DEF WriteRequest
<1>2. ~review
  <2>1. DOMAIN <<>> = {}
    BY DOMAIN <<>> = 1 .. Len(<<>>), Len(<<>>) = 0
  <2> QED
    BY <2>1 DEF TouchesProtected
<1>3. PolicyOf(LoadedModes, NormalMode("block")).checkRuns
  BY DEF PolicyOf, LoadedModes, WithPermissionDefaults, NormalMode, DefaultModes, ModePolicy
<1>4. NormalMode("block") # "audit"
  BY DEF NormalMode
<1>5. AllowedByClass(req, LoadedModes, review)
  BY <1>1, <1>2, <1>3, <1>4 DEF AllowedByClass
<1> QED
  BY <1>1, <1>5 DEF CheckRunPermission, DecideWrite

(* The summary of a planned orchestration sees the stop when the check-run  *)
(* plan does: where it does not fall back on process.env, the dispatcher,   *)
(* which does, has let the delivery through.                                *)
LEMMA StopSeenAlike ==
  ASSUME NEW p \in Environments, NEW inEnv \in EnvArgs, NEW reqEnv \in EnvArgs,
         ~DispatchStopped(EnvOrProcess(reqEnv, p))
  PROVE LET env == EnvOf(inEnv, reqEnv) IN
        ExactlyTrue(EnvOrNothing(env, p), "WRITE_DISABLED")
          <=> ExactlyTrue(EnvOrProcess(env, p), "WRITE_DISABLED")
<1>1. AllUnset["WRITE_DISABLED"] = "unset"
  BY DEF AllUnset, Switches
<1> QED
  BY <1>1 DEF EnvArgs, EnvOf, EnvOrNothing, EnvOrProcess, ExactlyTrue, DispatchStopped, Enabled

(* What the plans of a report ask for is in its findings. *)
LEMMA PlansSound ==
  ASSUME NEW fs, IsFiniteSet(fs)
  PROVE /\ QuarantineIssuePlan(Report(fs)).required =>
             \E f \in fs : f.quarantine \/ f.idTag # "plain"
        /\ ProjectionRepairPrPlan(Report(fs)).required =>
             \E f \in fs : f.severity = "YELLOW" /\ f.autofix /\ ~IsProtectedSurface(f.surface)
        /\ CheckConclusion(Report(fs)) = "success" =>
             \A f \in fs : f.severity # "RED" /\ ~f.quarantine
        /\ CheckConclusion(Report(fs)) \in {"success", "neutral", "failure"}
        /\ QuarantineIssuePlan(Report(fs)).required \in BOOLEAN
        /\ ProjectionRepairPrPlan(Report(fs)).required \in BOOLEAN
<1>0. Report(fs).findings = fs
  BY DEF Report
<1>1. QuarantineIssuePlan(Report(fs)).required =>
        \E f \in fs : f.quarantine \/ f.idTag # "plain"
  <2>1. (Report(fs).quarantine > 0) <=> (ActionQuarantined(fs) # {})
    BY CountersCount
  <2> QED
    BY <1>0, <2>1 DEF QuarantineIssuePlan, QuarantineRelevantFindings, ActionQuarantined
<1>2. ProjectionRepairPrPlan(Report(fs)).required =>
        \E f \in fs : f.severity = "YELLOW" /\ f.autofix /\ ~IsProtectedSurface(f.surface)
  BY <1>0 DEF ProjectionRepairPrPlan, RepairChanges, ProjectionRepairFindings
<1>3. CheckConclusion(Report(fs)) = "success" =>
        \A f \in fs : f.severity # "RED" /\ ~f.quarantine
  BY FailureMeansRed DEF BySeverity, ActionQuarantined
<1>4. CheckConclusion(Report(fs)) \in {"success", "neutral", "failure"}
  BY DEF CheckConclusion
<1> QED
  BY <1>1, <1>2, <1>3, <1>4 DEF QuarantineIssuePlan, ProjectionRepairPrPlan

(* A planner in any mode answers one of its decisions, and is ready only in *)
(* guarded-exchange mode with complete references and no raw key.           *)
LEMMA TokenDecisionSound ==
  ASSUME NEW mode, NEW refs \in Refs, NEW env
  PROVE /\ TokenDecision(mode, refs, env) \in TokenDecisions
        /\ TokenDecision(mode, refs, env) = "READY_FOR_GUARDED_EXCHANGE" =>
             /\ mode = "guarded-exchange"
             /\ refs.app /\ refs.installation /\ refs.key = "ref"
<1>1. refs.key \in {"ref", "raw", "blank"} /\ refs.app \in BOOLEAN /\ refs.installation \in BOOLEAN
  BY DEF Refs
<1> QED
  BY <1>1 DEF TokenDecision, TokenDecisions, RawPrivateKeyMaterial

-----------------------------------------------------------------------------
(* What the record of a planned delivery guarantees to the adapters. *)
SoundPlan(d) ==
  /\ d.status = 202
  /\ Authentic(d.req)
  /\ d.plans.sha = IF d.req.event = "ping" THEN ZeroSha ELSE d.req.sha
  /\ d.plans.repo \in {d.req.repo} \cup Overrides
  /\ d.plans.permission \in {"ALLOW", "DENY_WRITE_DISABLED"}
  /\ d.plans.writeDisabled <=> d.plans.permission = "DENY_WRITE_DISABLED"
  /\ d.plans.conclusion = "success" =>
       \A f \in d.findings : f.severity # "RED" /\ ~f.quarantine
  /\ d.plans.issueRequired =>
       \E f \in d.findings : f.quarantine \/ f.idTag # "plain"
  /\ d.plans.prRequired =>
       \E f \in d.findings :
         f.severity = "YELLOW" /\ f.autofix /\ ~IsProtectedSurface(f.surface)
  /\ d.token.decision = "READY_FOR_GUARDED_EXCHANGE" =>
       d.refs.app /\ d.refs.installation /\ d.refs.key = "ref"

(* What a delivery that was denied but acknowledged must have been. *)
PingWithoutRepository(d) ==
  Authentic(d.req) /\ d.req.event = "ping" /\ d.req.repo = NoRepo

Processed(d) ==
  /\ d \in JobType
  /\ d.stage = "PIPELINE_PLANNED" => SoundPlan(d)
  /\ d.stage # "PIPELINE_PLANNED" /\ d.status = 202 => PingWithoutRepository(d)
  /\ d.status \in {400, 401} => ~WellFormed(d.req)

LEMMA OrchestrationSound ==
  ASSUME NEW fs, IsFiniteSet(fs), NEW repo \in Repos, NEW sha \in Shas \cup {ZeroSha},
         NEW p \in Environments, NEW inEnv \in EnvArgs, NEW reqEnv \in EnvArgs,
         ~DispatchStopped(EnvOrProcess(reqEnv, p)),
         NEW o, o = OrchestrateActuatorDryRun(fs, repo, sha, EnvOf(inEnv, reqEnv), p)
  PROVE /\ o \in OrchestrationType
        /\ o.repo = repo /\ o.sha = sha
        /\ o.permission \in {"ALLOW", "DENY_WRITE_DISABLED"}
        /\ o.writeDisabled <=> o.permission = "DENY_WRITE_DISABLED"
        /\ o.conclusion = CheckConclusion(Report(fs))
        /\ o.issueRequired = QuarantineIssuePlan(Report(fs)).required
        /\ o.prRequired = ProjectionRepairPrPlan(Report(fs)).required
<1> DEFINE env == EnvOf(inEnv, reqEnv)
           permission == CheckRunPermission(EnvOrProcess(env, p))
           disabled == ExactlyTrue(EnvOrNothing(env, p), "WRITE_DISABLED")
<1>1. disabled <=> permission = "DENY_WRITE_DISABLED"
  BY StopSeenAlike, CheckRunPermissionByStop
<1>2. permission \in {"ALLOW", "DENY_WRITE_DISABLED"} /\ disabled \in BOOLEAN
  BY CheckRunPermissionByStop DEF ExactlyTrue
<1>3. /\ CheckConclusion(Report(fs)) \in {"success", "neutral", "failure"}
      /\ QuarantineIssuePlan(Report(fs)).required \in BOOLEAN
      /\ ProjectionRepairPrPlan(Report(fs)).required \in BOOLEAN
  BY PlansSound
<1>4. o = [ repo |-> repo, sha |-> sha, conclusion |-> CheckConclusion(Report(fs)),
            permission |-> permission,
            prRequired |-> ProjectionRepairPrPlan(Report(fs)).required,
            issueRequired |-> QuarantineIssuePlan(Report(fs)).required,
            writeDisabled |-> disabled ]
  BY DEF OrchestrateActuatorDryRun
<1> HIDE DEF permission, disabled, env
<1>5. o \in OrchestrationType
  BY <1>2, <1>3, <1>4 DEF OrchestrationType
<1>6. o.writeDisabled <=> o.permission = "DENY_WRITE_DISABLED"
  BY <1>1, <1>4
<1> QED
  BY <1>2, <1>4, <1>5, <1>6

(* The whole pipeline: every delivery is recorded soundly, whatever env the *)
(* runtime passes to the handler and to the planners.                       *)
LEMMA PipelineSound ==
  ASSUME NEW req \in RequestChoices, NEW fs \in Reports, NEW override \in Overrides,
         NEW refs \in RefChoices, NEW inEnv \in PlanEnvs, NEW reqEnv \in PlanEnvs,
         NEW p \in Environments,
         NEW plan, plan = BuildActuatorRequestPipelinePlan(
                            req, fs, override, refs, inEnv, reqEnv, p)
  PROVE Processed([ stage |-> plan.decision, status |-> plan.status, req |-> req,
                    findings |-> fs, refs |-> refs, plans |-> plan.plans,
                    token |-> [mode |-> "dry-run", decision |-> plan.token] ])
<1> DEFINE webhook == HandleWebhookRequest(req, EnvOrProcess(reqEnv, p))
           repo == ResolvedRepository(override, webhook.route)
           sha == HeadSha(webhook.route)
           env == EnvOf(inEnv, reqEnv)
           token == TokenDecision("dry-run", refs, EnvOrProcess(env, p))
           o == OrchestrateActuatorDryRun(fs, repo, sha, env, p)
           d == [ stage |-> plan.decision, status |-> plan.status, req |-> req,
                  findings |-> fs, refs |-> refs, plans |-> plan.plans,
                  token |-> [mode |-> "dry-run", decision |-> plan.token] ]
<1>1. /\ req \in Requests /\ refs \in Refs /\ IsFiniteSet(fs)
      /\ override \in Repos \cup {NoRepo}
      /\ inEnv \in EnvArgs /\ reqEnv \in EnvArgs
  BY RuntimeAssumption
<1>2. EnvOrProcess(reqEnv, p) \in Environments
  BY <1>1, EnvironmentTypes
<1>3. /\ webhook.accepted \in BOOLEAN
      /\ webhook.status \in {202, 400, 401, 403, 422}
      /\ webhook.accepted <=> webhook.status = 202
      /\ webhook.accepted => Authentic(req) /\ ~DispatchStopped(EnvOrProcess(reqEnv, p))
      /\ webhook.accepted => webhook.route.repo = req.repo
      /\ webhook.accepted =>
           webhook.route.sha = IF req.event = "ping" THEN NoSha ELSE req.sha
      /\ webhook.accepted /\ req.event # "ping" => req.sha \in Shas /\ req.repo # NoRepo
      /\ webhook.status \in {400, 401} => ~WellFormed(req)
  BY <1>1, <1>2, HandlerSound
<1>4. plan = IF ~webhook.accepted \/ repo = NoRepo
             THEN [ decision |-> "PIPELINE_DENIED", status |-> webhook.status,
                    token |-> "none", plans |-> NoOrchestration ]
             ELSE [ decision |-> "PIPELINE_PLANNED", status |-> webhook.status,
                    token |-> token, plans |-> o ]
  BY DEF BuildActuatorRequestPipelinePlan
<1>5. req.repo \in Repos \cup {NoRepo} /\ req.sha \in Shas \cup {NoSha}
  BY <1>1 DEF Requests
<1> HIDE DEF webhook
<1>6. CASE ~webhook.accepted \/ repo = NoRepo
  <2>1. /\ plan.decision = "PIPELINE_DENIED" /\ plan.status = webhook.status
        /\ plan.token = "none" /\ plan.plans = NoOrchestration
    BY <1>4, <1>6
  <2>2. NoOrchestration \in OrchestrationType
    BY DEF NoOrchestration, OrchestrationType
  <2>3. d \in JobType
    BY <1>3, <2>1, <2>2 DEF JobType
  <2>4. webhook.status = 202 => PingWithoutRepository(d)
    <3> SUFFICES ASSUME webhook.status = 202 PROVE PingWithoutRepository(d)
      OBVIOUS
    <3>1. webhook.accepted /\ repo = NoRepo
      BY <1>3, <1>6
    <3>2. req.repo = NoRepo
      BY <1>3, <3>1 DEF ResolvedRepository
    <3> QED
      BY <1>3, <3>1, <3>2 DEF PingWithoutRepository
  <2>5. d.status \in {400, 401} => ~WellFormed(d.req)
    BY <1>3, <2>1
  <2> QED
    BY <2>1, <2>3, <2>4, <2>5 DEF Processed
<1>7. CASE webhook.accepted /\ repo # NoRepo
  <2>1. /\ plan.decision = "PIPELINE_PLANNED" /\ plan.status = 202
        /\ plan.token = token /\ plan.plans = o
    BY <1>3, <1>4, <1>7
  <2>2. sha = IF req.event = "ping" THEN ZeroSha ELSE req.sha
    BY <1>3, <1>7, PipelineAssumption DEF HeadSha
  <2>3. sha \in Shas \cup {ZeroSha}
    BY <1>3, <1>7, <2>2
  <2>4. repo \in {req.repo} \cup Overrides /\ repo \in Repos
    BY <1>1, <1>3, <1>5, <1>7 DEF ResolvedRepository
  <2>5. token \in TokenDecisions /\ token # "READY_FOR_GUARDED_EXCHANGE"
    BY <1>1, TokenDecisionSound
  <2> HIDE DEF token, repo, sha
  <2>6. /\ o \in OrchestrationType
        /\ o.repo = repo /\ o.sha = sha
        /\ o.permission \in {"ALLOW", "DENY_WRITE_DISABLED"}
        /\ o.writeDisabled <=> o.permission = "DENY_WRITE_DISABLED"
        /\ o.conclusion = CheckConclusion(Report(fs))
        /\ o.issueRequired = QuarantineIssuePlan(Report(fs)).required
        /\ o.prRequired = ProjectionRepairPrPlan(Report(fs)).required
    BY <1>1, <1>3, <1>7, <2>3, <2>4, OrchestrationSound
  <2> HIDE DEF o
  <2>7. d \in JobType
    BY <2>1, <2>5, <2>6 DEF JobType
  <2>8. SoundPlan(d)
    BY <1>1, <1>3, <1>7, <2>1, <2>2, <2>4, <2>5, <2>6, PlansSound DEF SoundPlan
  <2> QED
    BY <2>1, <2>7, <2>8 DEF Processed
<1> QED
  BY <1>3, <1>6, <1>7

-----------------------------------------------------------------------------
(* The inductive invariant of the runtime. *)
JobsProcessed == \A j \in Jobs : job[j] # IdleJob => Processed(job[j])

(* An effect in flight or landed is earned and has a well-formed target. *)
Effect(j, k) == call[j][k] = "pending" \/ k \in performed[j]

EffectsSound ==
  \A j \in Jobs, k \in Kinds : Effect(j, k) =>
    Earned(j, k) /\ (k # "token" => job[j].plans.repo \notin MalformedRepos)

IInv == TypeOK /\ JobsProcessed /\ EffectsSound

(* The adapters' answers, and what a pending one implies.                   *)
AdapterOutcome(j, k, outcome) ==
  \E armed, execute \in BOOLEAN, env \in WriterEnvs :
    \/ k = "check_run" /\ outcome = WriterGate(j, job[j].plans.permission = "ALLOW",
                                               armed, execute, env)
    \/ k = "issue" /\ outcome = WriterGate(j, job[j].plans.issueRequired, armed, execute, env)
    \/ k = "pull_request" /\ outcome = WriterGate(j, job[j].plans.prRequired, armed, execute, env)
    \/ k = "token" /\ outcome = ExchangeGate(j, armed, execute, EnvOrProcess(env, proc))

LEMMA AdapterAnswers ==
  ASSUME NEW j \in Jobs, Adapters(j)
  PROVE \E k \in Kinds : \E outcome : Answer(j, k, outcome) /\ AdapterOutcome(j, k, outcome)
<1>1. PICK armed \in BOOLEAN, execute \in BOOLEAN, env \in WriterEnvs :
        \/ WriteGitHubCheckRunGuarded(j, armed, execute, env)
        \/ WriteQuarantineIssueGuarded(j, armed, execute, env)
        \/ WriteProjectionRepairPrGuarded(j, armed, execute, env)
        \/ GuardedInstallationTokenExchange(j, armed, execute, env)
  BY DEF Adapters
<1>2. ASSUME NEW k, NEW outcome, Answer(j, k, outcome), AdapterOutcome(j, k, outcome)
      PROVE \E kk \in Kinds : \E oo : Answer(j, kk, oo) /\ AdapterOutcome(j, kk, oo)
  <2>1. k \in Kinds
    BY <1>2 DEF Answer
  <2> QED
    BY <1>2, <2>1
<1>3. CASE WriteGitHubCheckRunGuarded(j, armed, execute, env)
  <2> DEFINE g == WriterGate(j, job[j].plans.permission = "ALLOW", armed, execute, env)
  <2>1. Answer(j, "check_run", g)
    BY <1>3 DEF WriteGitHubCheckRunGuarded
  <2>2. AdapterOutcome(j, "check_run", g)
    BY DEF AdapterOutcome
  <2> HIDE DEF g
  <2> QED
    BY <1>2, <2>1, <2>2
<1>4. CASE WriteQuarantineIssueGuarded(j, armed, execute, env)
  <2> DEFINE g == WriterGate(j, job[j].plans.issueRequired, armed, execute, env)
  <2>1. Answer(j, "issue", g)
    BY <1>4 DEF WriteQuarantineIssueGuarded
  <2>2. AdapterOutcome(j, "issue", g)
    BY DEF AdapterOutcome
  <2> HIDE DEF g
  <2> QED
    BY <1>2, <2>1, <2>2
<1>5. CASE WriteProjectionRepairPrGuarded(j, armed, execute, env)
  <2> DEFINE g == WriterGate(j, job[j].plans.prRequired, armed, execute, env)
  <2>1. Answer(j, "pull_request", g)
    BY <1>5 DEF WriteProjectionRepairPrGuarded
  <2>2. AdapterOutcome(j, "pull_request", g)
    BY DEF AdapterOutcome
  <2> HIDE DEF g
  <2> QED
    BY <1>2, <2>1, <2>2
<1>6. CASE GuardedInstallationTokenExchange(j, armed, execute, env)
  <2> DEFINE g == ExchangeGate(j, armed, execute, EnvOrProcess(env, proc))
  <2>1. Answer(j, "token", g)
    BY <1>6 DEF GuardedInstallationTokenExchange
  <2>2. AdapterOutcome(j, "token", g)
    BY DEF AdapterOutcome
  <2> HIDE DEF g
  <2> QED
    BY <1>2, <2>1, <2>2
<1> QED
  BY <1>1, <1>3, <1>4, <1>5, <1>6

(* An adapter calls its client only for an earned effect. *)
LEMMA PendingIsEarned ==
  ASSUME TypeOK, JobsProcessed, NEW j \in Jobs, NEW k \in Kinds, NEW outcome,
         Planned(j), AdapterOutcome(j, k, outcome)
  PROVE /\ outcome \in Outcomes
        /\ outcome = "pending" =>
             Earned(j, k) /\ (k # "token" => job[j].plans.repo \notin MalformedRepos)
<1>1. SoundPlan(job[j])
  BY DEF Planned, JobsProcessed, Processed, IdleJob
<1>2. PICK armed \in BOOLEAN, execute \in BOOLEAN, env \in WriterEnvs :
        \/ k = "check_run" /\ outcome = WriterGate(j, job[j].plans.permission = "ALLOW",
                                                   armed, execute, env)
        \/ k = "issue" /\ outcome = WriterGate(j, job[j].plans.issueRequired, armed, execute, env)
        \/ k = "pull_request" /\ outcome = WriterGate(j, job[j].plans.prRequired,
                                                      armed, execute, env)
        \/ k = "token" /\ outcome = ExchangeGate(j, armed, execute, EnvOrProcess(env, proc))
  BY DEF AdapterOutcome
<1>3. ASSUME NEW wanted, outcome = WriterGate(j, wanted, armed, execute, env)
      PROVE /\ outcome \in Outcomes
            /\ outcome = "pending" => wanted /\ job[j].plans.repo \notin MalformedRepos
  BY <1>3 DEF WriterGate, Outcomes
<1>4. CASE k = "check_run"
  <2>1. outcome = WriterGate(j, job[j].plans.permission = "ALLOW", armed, execute, env)
    BY <1>2, <1>4
  <2>2. /\ outcome \in Outcomes
        /\ outcome = "pending" => /\ job[j].plans.permission = "ALLOW"
                                 /\ job[j].plans.repo \notin MalformedRepos
    BY <1>3, <2>1
  <2> QED
    BY <1>1, <1>4, <2>2 DEF SoundPlan, Earned, CalledFor
<1>5. CASE k = "issue"
  <2>1. outcome = WriterGate(j, job[j].plans.issueRequired, armed, execute, env)
    BY <1>2, <1>5
  <2>2. /\ outcome \in Outcomes
        /\ outcome = "pending" => /\ job[j].plans.issueRequired
                                 /\ job[j].plans.repo \notin MalformedRepos
    BY <1>3, <2>1
  <2> QED
    BY <1>1, <1>5, <2>2 DEF SoundPlan, Earned, CalledFor
<1>6. CASE k = "pull_request"
  <2>1. outcome = WriterGate(j, job[j].plans.prRequired, armed, execute, env)
    BY <1>2, <1>6
  <2>2. /\ outcome \in Outcomes
        /\ outcome = "pending" => /\ job[j].plans.prRequired
                                 /\ job[j].plans.repo \notin MalformedRepos
    BY <1>3, <2>1
  <2> QED
    BY <1>1, <1>6, <2>2 DEF SoundPlan, Earned, CalledFor
<1>7. CASE k = "token"
  <2>1. /\ outcome \in Outcomes
        /\ outcome = "pending" => job[j].token.decision = "READY_FOR_GUARDED_EXCHANGE"
    BY <1>2, <1>7 DEF ExchangeGate, Outcomes
  <2> QED
    BY <1>1, <1>7, <2>1 DEF SoundPlan, Earned, CalledFor
<1> QED
  BY <1>2, <1>4, <1>5, <1>6, <1>7

-----------------------------------------------------------------------------
LEMMA IInvInit == Init => IInv
<1> SUFFICES ASSUME Init PROVE IInv
  OBVIOUS
<1>1. TypeOK
  BY DEF Init, TypeOK, AllUnset, SwitchValues, Outcomes
<1>2. JobsProcessed
  BY DEF Init, JobsProcessed
<1>3. EffectsSound
  BY DEF Init, EffectsSound, Effect
<1> QED
  BY <1>1, <1>2, <1>3 DEF IInv

(* Receiving a delivery: it had no effect before, and is recorded soundly.  *)
LEMMA ReceiveSound ==
  ASSUME IInv, NEW j \in Jobs, NEW req \in RequestChoices, NEW fs \in Reports,
         Receive(j, req, fs)
  PROVE IInv'
<1> USE DEF IInv
<1>1. PICK override \in Overrides, refs \in RefChoices, inEnv \in PlanEnvs, reqEnv \in PlanEnvs :
        LET plan == BuildActuatorRequestPipelinePlan(
                      req, fs, override, refs, inEnv, reqEnv, proc)
        IN job' = [job EXCEPT ![j] =
                     [ stage |-> plan.decision, status |-> plan.status, req |-> req,
                       findings |-> fs, refs |-> refs, plans |-> plan.plans,
                       token |-> [mode |-> "dry-run", decision |-> plan.token] ]]
  BY DEF Receive
<1> DEFINE plan == BuildActuatorRequestPipelinePlan(
                     req, fs, override, refs, inEnv, reqEnv, proc)
           d == [ stage |-> plan.decision, status |-> plan.status, req |-> req,
                  findings |-> fs, refs |-> refs, plans |-> plan.plans,
                  token |-> [mode |-> "dry-run", decision |-> plan.token] ]
<1>2. proc \in Environments
  BY DEF TypeOK, Environments
<1>3. Processed(d)
  BY <1>2, PipelineSound
<1>4. job' = [job EXCEPT ![j] = d]
  BY <1>1
<1>5. UNCHANGED <<proc, call, performed>> /\ job[j] = IdleJob
  BY DEF Receive
<1> HIDE DEF d
<1>6. TypeOK'
  BY <1>3, <1>4, <1>5 DEF TypeOK, Processed
<1>7. JobsProcessed'
  BY <1>3, <1>4, <1>5 DEF TypeOK, JobsProcessed
<1>8. EffectsSound'
  <2> SUFFICES ASSUME NEW q \in Jobs, NEW k \in Kinds, Effect(q, k)'
               PROVE (Earned(q, k) /\ (k # "token" => job[q].plans.repo \notin MalformedRepos))'
    BY DEF EffectsSound
  <2>1. Effect(q, k)
    BY <1>5 DEF Effect
  <2>2. Planned(q)
    BY <2>1 DEF EffectsSound, Earned
  <2>3. q # j
    BY <1>5, <2>2 DEF Planned, IdleJob
  <2>4. job'[q] = job[q]
    BY <1>4, <2>3 DEF TypeOK
  <2> QED
    BY <2>1, <2>4 DEF EffectsSound, Earned, Planned, CalledFor
<1> QED
  BY <1>6, <1>7, <1>8

(* Another token plan changes nothing of what an effect is earned by.       *)
LEMMA PlanExchangeSound ==
  ASSUME IInv, NEW j \in Jobs, PlanExchange(j)
  PROVE IInv'
<1> USE DEF IInv
<1>1. PICK env \in PlanEnvs :
        job' = [job EXCEPT ![j].token =
                  [ mode |-> "guarded-exchange",
                    decision |-> TokenDecision("guarded-exchange", job[j].refs,
                                               EnvOrProcess(env, proc)) ]]
  BY DEF PlanExchange
<1> DEFINE decision == TokenDecision("guarded-exchange", job[j].refs, EnvOrProcess(env, proc))
           d == [job[j] EXCEPT !.token = [mode |-> "guarded-exchange", decision |-> decision]]
<1>2. UNCHANGED <<proc, call, performed>> /\ Planned(j)
  BY DEF PlanExchange
<1>3. job[j] # IdleJob /\ job[j] \in JobType /\ SoundPlan(job[j])
  BY <1>2 DEF JobsProcessed, Processed, Planned, IdleJob
<1>4. job[j].refs \in Refs
  BY <1>3, RuntimeAssumption DEF JobType
<1>5. /\ decision \in TokenDecisions
      /\ decision = "READY_FOR_GUARDED_EXCHANGE" =>
           job[j].refs.app /\ job[j].refs.installation /\ job[j].refs.key = "ref"
  BY <1>4, TokenDecisionSound
<1>6. job' = [job EXCEPT ![j] = d]
  BY <1>1 DEF TypeOK
<1> HIDE DEF decision
<1>7. /\ d.stage = job[j].stage /\ d.status = job[j].status /\ d.req = job[j].req
      /\ d.findings = job[j].findings /\ d.refs = job[j].refs /\ d.plans = job[j].plans
      /\ d.token.decision = decision
      /\ d \in JobType
  BY <1>3, <1>5 DEF JobType
<1> HIDE DEF d
<1>8. Processed(d)
  BY <1>2, <1>3, <1>5, <1>7 DEF Processed, SoundPlan, Planned
<1>9. TypeOK'
  BY <1>2, <1>6, <1>7 DEF TypeOK
<1>10. JobsProcessed'
  BY <1>2, <1>6, <1>8 DEF TypeOK, JobsProcessed
<1>11. EffectsSound'
  <2> SUFFICES ASSUME NEW q \in Jobs, NEW k \in Kinds, Effect(q, k)'
               PROVE (Earned(q, k) /\ (k # "token" => job[q].plans.repo \notin MalformedRepos))'
    BY DEF EffectsSound
  <2>1. Effect(q, k)
    BY <1>2 DEF Effect
  <2>2. /\ job'[q].stage = job[q].stage /\ job'[q].req = job[q].req
        /\ job'[q].findings = job[q].findings /\ job'[q].refs = job[q].refs
        /\ job'[q].plans = job[q].plans
    BY <1>6, <1>7 DEF TypeOK
  <2> QED
    BY <2>1, <2>2 DEF EffectsSound, Earned, Planned, CalledFor
<1> QED
  BY <1>9, <1>10, <1>11

LEMMA AdaptersSound ==
  ASSUME IInv, NEW j \in Jobs, Adapters(j)
  PROVE IInv'
<1> USE DEF IInv
<1>0. PICK k \in Kinds : \E outcome : Answer(j, k, outcome) /\ AdapterOutcome(j, k, outcome)
  BY AdapterAnswers
<1>1. PICK outcome : Answer(j, k, outcome) /\ AdapterOutcome(j, k, outcome)
  BY <1>0
<1>2. /\ outcome \in Outcomes
      /\ outcome = "pending" =>
           Earned(j, k) /\ (k # "token" => job[j].plans.repo \notin MalformedRepos)
  BY <1>1, PendingIsEarned DEF Answer
<1>3. call' = [call EXCEPT ![j][k] = outcome] /\ UNCHANGED <<proc, job, performed>>
  BY <1>1 DEF Answer
<1>4. TypeOK'
  BY <1>2, <1>3 DEF TypeOK
<1>5. JobsProcessed'
  BY <1>3 DEF JobsProcessed
<1>6. EffectsSound'
  <2> SUFFICES ASSUME NEW q \in Jobs, NEW l \in Kinds, Effect(q, l)'
               PROVE (Earned(q, l) /\ (l # "token" => job[q].plans.repo \notin MalformedRepos))'
    BY DEF EffectsSound
  <2>1. Effect(q, l) \/ (q = j /\ l = k /\ outcome = "pending")
    BY <1>3 DEF Effect, TypeOK
  <2>2. Earned(q, l) /\ (l # "token" => job[q].plans.repo \notin MalformedRepos)
    BY <1>2, <2>1 DEF EffectsSound
  <2> QED
    BY <1>3, <2>2 DEF Earned, Planned, CalledFor
<1> QED
  BY <1>4, <1>5, <1>6

(* A client that settles lands only what was in flight. *)
LEMMA SettleSound ==
  ASSUME IInv, NEW j \in Jobs, NEW k \in Kinds, ClientSettles(j, k)
  PROVE IInv'
<1> USE DEF IInv
<1>1. PICK outcome \in Outcomes \ {"pending"}, effect \in SUBSET {k} :
        /\ call' = [call EXCEPT ![j][k] = outcome]
        /\ performed' = [performed EXCEPT ![j] = @ \cup effect]
  BY DEF ClientSettles, ClientResolves, ClientRejects, Outcomes
<1>2. call[j][k] = "pending" /\ UNCHANGED <<proc, job>>
  BY DEF ClientSettles, ClientResolves, ClientRejects
<1>3. TypeOK'
  BY <1>1, <1>2 DEF TypeOK
<1>4. JobsProcessed'
  BY <1>2 DEF JobsProcessed
<1>5. EffectsSound'
  <2> SUFFICES ASSUME NEW q \in Jobs, NEW l \in Kinds, Effect(q, l)'
               PROVE (Earned(q, l) /\ (l # "token" => job[q].plans.repo \notin MalformedRepos))'
    BY DEF EffectsSound
  <2>1. Effect(q, l)
    BY <1>1, <1>2 DEF Effect, TypeOK
  <2>2. Earned(q, l) /\ (l # "token" => job[q].plans.repo \notin MalformedRepos)
    BY <2>1 DEF EffectsSound
  <2> QED
    BY <1>2, <2>2 DEF Earned, Planned, CalledFor
<1> QED
  BY <1>3, <1>4, <1>5

LEMMA IInvNext == IInv /\ [Next]_vars => IInv'
<1> SUFFICES ASSUME IInv, [Next]_vars PROVE IInv'
  OBVIOUS
<1>1. ASSUME NEW s \in Switches, NEW v \in SwitchValues, SetSwitch(s, v) PROVE IInv'
  BY <1>1 DEF SetSwitch, IInv, TypeOK, JobsProcessed, EffectsSound, Effect, Earned, Planned,
    CalledFor
<1>2. CASE UNCHANGED vars
  BY <1>2 DEF vars, IInv, TypeOK, JobsProcessed, EffectsSound, Effect, Earned, Planned, CalledFor
<1> QED
  BY <1>1, <1>2, ReceiveSound, PlanExchangeSound, AdaptersSound, SettleSound DEF Next

LEMMA Invariance == Spec => []IInv
BY IInvInit, IInvNext, PTL DEF Spec

-----------------------------------------------------------------------------
(* The type invariant of the runtime. *)
THEOREM RuntimeTypeCorrect == Spec => []TypeOK
<1>1. IInv => TypeOK
  BY DEF IInv
<1> QED
  BY <1>1, Invariance, PTL

(* No client is called, and nothing lands on GitHub, without an authentic   *)
(* delivery and a finding or complete references that call for it.          *)
THEOREM EffectsAreEarned == Spec => []OnlyEarnedEffects
<1>1. IInv => OnlyEarnedEffects
  BY DEF IInv, EffectsSound, OnlyEarnedEffects, InFlight, Landed, Effect
<1> QED
  BY <1>1, Invariance, PTL

(* A green check run on GitHub comes from a report without red findings.    *)
THEOREM GreenIsSound == Spec => []GreenLightSound
<1>1. IInv => GreenLightSound
  <2> SUFFICES ASSUME IInv, NEW j \in Jobs, <<j, "check_run">> \in Landed,
                      job[j].plans.conclusion = "success"
               PROVE \A f \in job[j].findings : f.severity # "RED" /\ ~f.quarantine
    BY DEF GreenLightSound
  <2>1. Planned(j)
    BY DEF IInv, EffectsSound, Effect, Landed, Earned
  <2>2. SoundPlan(job[j])
    BY <2>1 DEF IInv, JobsProcessed, Processed, Planned, IdleJob
  <2> QED
    BY <2>2 DEF SoundPlan
<1> QED
  BY <1>1, Invariance, PTL

(* The summary records the stop exactly when the check-run plan obeys it.   *)
THEOREM SummaryIsConsistent == Spec => []SummaryAgreesWithDecision
<1>1. IInv => SummaryAgreesWithDecision
  <2> SUFFICES ASSUME IInv, NEW j \in Jobs, Planned(j)
               PROVE job[j].plans.writeDisabled
                       <=> job[j].plans.permission = "DENY_WRITE_DISABLED"
    BY DEF SummaryAgreesWithDecision
  <2>1. SoundPlan(job[j])
    BY DEF IInv, JobsProcessed, Processed, Planned, IdleJob
  <2> QED
    BY <2>1 DEF SoundPlan
<1> QED
  BY <1>1, Invariance, PTL

(* A check run lands on the commit that the delivery named. *)
THEOREM CheckRunTarget == Spec => []CheckRunOnDeliveredCommit
<1>1. IInv => CheckRunOnDeliveredCommit
  <2> SUFFICES ASSUME IInv, NEW j \in Jobs, <<j, "check_run">> \in Landed
               PROVE /\ job[j].plans.sha = IF job[j].req.event = "ping" THEN ZeroSha
                                           ELSE job[j].req.sha
                     /\ job[j].plans.repo \in ({job[j].req.repo} \cup Overrides) \ MalformedRepos
    BY DEF CheckRunOnDeliveredCommit
  <2>1. Planned(j) /\ job[j].plans.repo \notin MalformedRepos
    BY DEF IInv, EffectsSound, Effect, Landed, Earned
  <2>2. SoundPlan(job[j])
    BY <2>1 DEF IInv, JobsProcessed, Processed, Planned, IdleJob
  <2> QED
    BY <2>1, <2>2 DEF SoundPlan
<1> QED
  BY <1>1, Invariance, PTL

(* Only a ping without repository is acknowledged and then dropped. *)
THEOREM AcceptedIsPlanned == Spec => []AcceptedMeansPlanned
<1>1. IInv => AcceptedMeansPlanned
  BY DEF IInv, JobsProcessed, Processed, SoundPlan, PingWithoutRepository, Planned,
    AcceptedMeansPlanned
<1> QED
  BY <1>1, Invariance, PTL

(* The intake accepts what has both headers, the exact signature, a listed  *)
(* event, a delivery id and a body, and of that the verifier what has a     *)
(* secret.                                                                  *)
LEMMA IntakeSound ==
  ASSUME NEW req \in Requests, NEW e, e = ParseGitHubWebhookEnvelope(req)
  PROVE /\ e.verdict = "ACCEPTED" <=>
             /\ WellFormed(req) /\ req.event \in AllowedEvents /\ req.delivery = "id"
        /\ e.verdict = "ACCEPTED" =>
             /\ e.repo = req.repo
             /\ VerifyWebhookEnvelope(req).accepted <=> req.secret = "set"
<1>1. /\ req.signature \in SignatureForms /\ req.delivery \in {"absent", "empty", "id"}
      /\ req.json \in BOOLEAN /\ req.secret \in {"set", "empty"}
  BY DEF Requests
<1>2. req.signature # "exact" => VerifyGitHubWebhookSignature(req) # "VALID"
  BY <1>1, Zenon DEF SignatureForms, VerifyGitHubWebhookSignature
<1>3. req.signature = "exact" => VerifyGitHubWebhookSignature(req) = "VALID"
  BY Zenon DEF VerifyGitHubWebhookSignature
<1>4. /\ req.signature = "exact" /\ req.secret = "set"
           => VerifyWebhookSignature(req) = "signature_valid"
      /\ req.secret = "empty" => VerifyWebhookSignature(req) # "signature_valid"
  <2>1. "set" # "empty" /\ "missing_webhook_secret" # "signature_valid"
    OBVIOUS
  <2>2. req.secret = "empty" => VerifyWebhookSignature(req) = "missing_webhook_secret"
    BY Zenon DEF VerifyWebhookSignature
  <2>3. req.signature = "exact" /\ req.secret # "empty"
          => VerifyWebhookSignature(req) = "signature_valid"
    BY Zenon DEF VerifyWebhookSignature
  <2> QED
    BY <2>1, <2>2, <2>3
<1>5. e.verdict = "ACCEPTED" <=>
        /\ VerifyGitHubWebhookSignature(req) = "VALID"
        /\ req.event # "absent" /\ req.delivery = "id"
        /\ req.event \in AllowedEvents /\ req.json
  BY <1>1 DEF ParseGitHubWebhookEnvelope
<1>6. e.verdict = "ACCEPTED" => e.repo = req.repo
  BY <1>5 DEF ParseGitHubWebhookEnvelope
<1>7. req.signature = "exact" /\ req.event # "absent" /\ req.delivery = "id"
        => (VerifyWebhookEnvelope(req).accepted <=> req.secret = "set")
  BY <1>1, <1>4 DEF VerifyWebhookEnvelope
<1> QED
  BY <1>2, <1>3, <1>5, <1>6, <1>7 DEF WellFormed, HeadersPresent, ValidSignature, AllowedEvents

(* The three readings of a delivery agree as far as they look at the same   *)
(* things.                                                                  *)
THEOREM IntakesFollowOneAnother == Spec => []IntakesAgree
<1>1. IInv => IntakesAgree
  <2> SUFFICES ASSUME IInv, NEW j \in Jobs, job[j] # IdleJob
               PROVE  LET req == job[j].req
                          envelope == ParseGitHubWebhookEnvelope(req)
                      IN /\ envelope.verdict = "ACCEPTED" =>
                              /\ job[j].status \notin {400, 401}
                              /\ VerifyWebhookEnvelope(req).accepted <=> req.secret = "set"
                         /\ Planned(j) /\ req.event # "ping" /\ req.delivery # "empty" =>
                              /\ envelope.verdict = "ACCEPTED"
                              /\ job[j].plans.repo \in {envelope.repo} \cup Overrides
    BY DEF IntakesAgree
  <2> DEFINE req == job[j].req
             envelope == ParseGitHubWebhookEnvelope(req)
  <2>1. Processed(job[j])
    BY DEF IInv, JobsProcessed
  <2>2. req \in Requests
    BY <2>1, RuntimeAssumption DEF Processed, JobType
  <2>3. /\ envelope.verdict = "ACCEPTED" <=>
             /\ WellFormed(req) /\ req.event \in AllowedEvents /\ req.delivery = "id"
        /\ envelope.verdict = "ACCEPTED" =>
             /\ envelope.repo = req.repo
             /\ VerifyWebhookEnvelope(req).accepted <=> req.secret = "set"
    BY <2>2, IntakeSound
  <2> HIDE DEF envelope
  <2>4. envelope.verdict = "ACCEPTED" => job[j].status \notin {400, 401}
    BY <2>1, <2>3 DEF Processed
  <2>5. ASSUME Planned(j), req.event # "ping", req.delivery # "empty"
        PROVE  /\ envelope.verdict = "ACCEPTED"
               /\ job[j].plans.repo \in {envelope.repo} \cup Overrides
    <3>1. Authentic(req) /\ job[j].plans.repo \in {req.repo} \cup Overrides
      BY <2>1, <2>5 DEF Processed, Planned, SoundPlan
    <3>2. WellFormed(req) /\ req.event \in AllowedEvents /\ req.delivery = "id"
      BY <2>2, <2>5, <3>1
      DEF Authentic, WellFormed, ValidSignature, HeadersPresent, AllowedEvents, Requests
    <3> QED
      BY <2>3, <3>1, <3>2
  <2> QED
    BY <2>3, <2>4, <2>5 DEF envelope
<1> QED
  BY <1>1, Invariance, PTL

-----------------------------------------------------------------------------
(* Refinement.  What the abstract specification calls earned only grows,    *)
(* because a delivery is planned once and its plans are never revised.      *)
EarnedSet == {e \in Jobs \X Kinds : Earned(e[1], e[2])}

LEMMA InitRefines == Init => Promise!Init
<1> SUFFICES ASSUME Init PROVE Promise!Init
  OBVIOUS
<1>1. Stopped \subseteq Kinds
  BY DEF Stopped
<1>2. EarnedSet = {}
  BY DEF Init, EarnedSet, Earned, Planned, IdleJob
<1>3. InFlight = {} /\ Landed = {}
  BY DEF Init, InFlight, Landed
<1> QED
  BY <1>1, <1>2, <1>3 DEF Promise!Init, EarnedSet

(* Setting a switch is an operation of the abstract operator. *)
LEMMA SwitchRefines ==
  ASSUME NEW s \in Switches, NEW v \in SwitchValues, SetSwitch(s, v)
  PROVE Promise!Operate
<1>1. UNCHANGED <<job, call, performed>>
  BY DEF SetSwitch
<1>2. Stopped' \subseteq Kinds
  BY DEF Stopped
<1>3. EarnedSet' = EarnedSet
  BY <1>1 DEF EarnedSet, Earned, Planned, CalledFor
<1>4. InFlight' = InFlight /\ Landed' = Landed
  BY <1>1 DEF InFlight, Landed
<1> QED
  BY <1>2, <1>3, <1>4 DEF Promise!Operate, EarnedSet

(* Planning earns effects and takes none back. *)
LEMMA PlanRefines ==
  ASSUME UNCHANGED <<proc, call, performed>>,
         \A q \in Jobs, k \in Kinds : Earned(q, k) => Earned(q, k)'
  PROVE Promise!Earn
<1>1. Stopped' = Stopped
  BY DEF Stopped
<1>2. EarnedSet' \subseteq Jobs \X Kinds /\ EarnedSet \subseteq EarnedSet'
  BY DEF EarnedSet
<1>3. InFlight' = InFlight /\ Landed' = Landed
  BY DEF InFlight, Landed
<1> QED
  BY <1>1, <1>2, <1>3 DEF Promise!Earn, Promise!Effects, EarnedSet

(* An adapter's answer begins an earned call that is not stopped, or is a   *)
(* stutter.  Here the writers must read process.env.                        *)
LEMMA AdaptersRefine ==
  ASSUME WriterEnvs \subseteq {"live"}, IInv, NEW j \in Jobs, Adapters(j)
  PROVE Promise!Next \/ UNCHANGED <<Stopped, EarnedSet, InFlight, Landed>>
<1>0. PICK k \in Kinds : \E outcome : Answer(j, k, outcome) /\ AdapterOutcome(j, k, outcome)
  BY AdapterAnswers
<1>1. PICK outcome : Answer(j, k, outcome) /\ AdapterOutcome(j, k, outcome)
  BY <1>0
<1>2. /\ call' = [call EXCEPT ![j][k] = outcome] /\ UNCHANGED <<proc, job, performed>>
      /\ call[j][k] # "pending" /\ Planned(j)
  BY <1>1 DEF Answer
<1>3. /\ Stopped' = Stopped
      /\ EarnedSet' = EarnedSet
      /\ Landed' = Landed
  BY <1>2 DEF Stopped, EarnedSet, Earned, Planned, CalledFor, Landed
<1>4. CASE outcome = "pending"
  <2>1. Earned(j, k)
    BY <1>1, <1>2, <1>4, PendingIsEarned DEF IInv
  <2>2. k \notin Stopped
    <3>1. PICK armed \in BOOLEAN, execute \in BOOLEAN, env \in WriterEnvs :
            \/ /\ k # "token"
               /\ \E wanted : outcome = WriterGate(j, wanted, armed, execute, env)
            \/ k = "token" /\ outcome = ExchangeGate(j, armed, execute, EnvOrProcess(env, proc))
      BY <1>1 DEF AdapterOutcome
    <3>2. env = "live"
      OBVIOUS
    <3>3. k # "token" => ~ExactlyTrue(proc, "WRITE_DISABLED")
      BY <1>4, <3>1, <3>2 DEF WriterGate, WriterStopped, EnvOrNothing
    <3>4. k = "token" => ~ExchangeStopped(proc)
      BY <1>4, <3>1, <3>2 DEF ExchangeGate, EnvOrProcess
    <3> QED
      BY <3>3, <3>4 DEF Stopped, ExchangeStopped
  <2>3. InFlight' = InFlight \cup {<<j, k>>}
    BY <1>2, <1>4 DEF InFlight, IInv, TypeOK
  <2>4. <<j, k>> \in EarnedSet /\ <<j, k>> \in Jobs \X Kinds
    BY <2>1 DEF EarnedSet
  <2>5. Promise!Begin(<<j, k>>)
    BY <1>3, <2>2, <2>3, <2>4 DEF Promise!Begin, EarnedSet
  <2> QED
    BY <2>4, <2>5 DEF Promise!Next, Promise!Effects
<1>5. CASE outcome # "pending"
  <2>1. InFlight' = InFlight
    BY <1>2, <1>5 DEF InFlight, IInv, TypeOK
  <2> QED
    BY <1>3, <2>1
<1> QED
  BY <1>4, <1>5

LEMMA SettleRefines ==
  ASSUME IInv, NEW j \in Jobs, NEW k \in Kinds, ClientSettles(j, k)
  PROVE Promise!Settle(<<j, k>>)
<1>1. PICK outcome \in Outcomes \ {"pending"}, effect \in SUBSET {k} :
        /\ call' = [call EXCEPT ![j][k] = outcome]
        /\ performed' = [performed EXCEPT ![j] = @ \cup effect]
  BY DEF ClientSettles, ClientResolves, ClientRejects, Outcomes
<1>2. call[j][k] = "pending" /\ UNCHANGED <<proc, job>>
  BY DEF ClientSettles, ClientResolves, ClientRejects
<1>3. Stopped' = Stopped /\ EarnedSet' = EarnedSet
  BY <1>2 DEF Stopped, EarnedSet, Earned, Planned, CalledFor
<1>4. <<j, k>> \in InFlight /\ InFlight' = InFlight \ {<<j, k>>}
  BY <1>1, <1>2 DEF InFlight, IInv, TypeOK
<1>5. CASE effect = {}
  <2>1. Landed' = Landed
    BY <1>1, <1>5 DEF Landed, IInv, TypeOK
  <2> QED
    BY <1>3, <1>4, <2>1 DEF Promise!Settle, EarnedSet
<1>6. CASE effect = {k}
  <2>1. Landed' = Landed \cup {<<j, k>>}
    BY <1>1, <1>6 DEF Landed, IInv, TypeOK
  <2> QED
    BY <1>3, <1>4, <2>1 DEF Promise!Settle, EarnedSet
<1> QED
  BY <1>1, <1>5, <1>6

LEMMA NextRefines ==
  ASSUME WriterEnvs \subseteq {"live"}
  PROVE IInv /\ [Next]_vars => [Promise!Next]_(Promise!vars)
<1> SUFFICES ASSUME WriterEnvs \subseteq {"live"}, IInv, [Next]_vars
             PROVE Promise!Next \/ UNCHANGED <<Stopped, EarnedSet, InFlight, Landed>>
  BY DEF Promise!vars, EarnedSet
<1>1. ASSUME NEW s \in Switches, NEW v \in SwitchValues, SetSwitch(s, v)
      PROVE Promise!Next
  BY <1>1, SwitchRefines DEF Promise!Next
<1>2. ASSUME NEW j \in Jobs, NEW req \in RequestChoices, NEW fs \in Reports,
             Receive(j, req, fs)
      PROVE Promise!Next
  <2>1. job[j] = IdleJob /\ UNCHANGED <<proc, call, performed>>
    BY <1>2 DEF Receive
  <2>2. \A q \in Jobs : q # j => job'[q] = job[q]
    BY <1>2 DEF Receive, IInv, TypeOK
  <2>3. ASSUME NEW q \in Jobs, NEW k \in Kinds, Earned(q, k) PROVE Earned(q, k)'
    <3>1. q # j
      BY <2>1, <2>3 DEF Earned, Planned, IdleJob
    <3>2. job'[q] = job[q]
      BY <2>2, <3>1
    <3> QED
      BY <2>3, <3>2 DEF Earned, Planned, CalledFor
  <2> QED
    BY <2>1, <2>3, PlanRefines DEF Promise!Next
<1>3. ASSUME NEW j \in Jobs, PlanExchange(j) PROVE Promise!Next
  <2>1. UNCHANGED <<proc, call, performed>> /\ Planned(j)
    BY <1>3 DEF PlanExchange
  <2>2. job[j] \in JobType
    BY <2>1 DEF IInv, TypeOK, Planned, IdleJob
  <2>3. \A q \in Jobs :
          /\ job'[q].stage = job[q].stage /\ job'[q].req = job[q].req
          /\ job'[q].findings = job[q].findings /\ job'[q].refs = job[q].refs
          /\ job'[q].plans = job[q].plans
    BY <1>3, <2>2 DEF PlanExchange, IInv, TypeOK, JobType
  <2>4. \A q \in Jobs, k \in Kinds : Earned(q, k) => Earned(q, k)'
    BY <2>3 DEF Earned, Planned, CalledFor
  <2> QED
    BY <2>1, <2>4, PlanRefines DEF Promise!Next
<1>4. ASSUME NEW j \in Jobs, NEW k \in Kinds, ClientSettles(j, k) PROVE Promise!Next
  <2>1. Promise!Settle(<<j, k>>)
    BY <1>4, SettleRefines
  <2> QED
    BY <2>1 DEF Promise!Next, Promise!Effects
<1>5. CASE UNCHANGED vars
  BY <1>5 DEF vars, Stopped, EarnedSet, Earned, Planned, CalledFor, InFlight, Landed
<1> QED
  BY <1>1, <1>2, <1>3, <1>4, <1>5, AdaptersRefine DEF Next

(* The guarded actuator implements ActuatorPromise: nothing new begins      *)
(* while stopped, and only what is in flight lands, for a runtime that      *)
(* passes process.env to the writers.                                       *)
THEOREM ActuatorKeepsPromise ==
  ASSUME WriterEnvs \subseteq {"live"}
  PROVE Spec => KeepsPromise
<1>1. Init => Promise!Init
  BY InitRefines
<1>2. IInv /\ [Next]_vars => [Promise!Next]_(Promise!vars)
  BY NextRefines
<1> QED
  BY <1>1, <1>2, Invariance, PTL DEF Spec, KeepsPromise, Promise!Spec

(* The guarded adapters (app/check-run-writer-adapter.ts and its siblings): *)
(* a client call that begins is earned, and no switch stopped its kind when *)
(* the gates were read.  This is the safety half of StopQuiesces: a kind    *)
(* that stays stopped begins nothing more.                                  *)
THEOREM StopBeginsNothing ==
  ASSUME WriterEnvs \subseteq {"live"}
  PROVE  Spec => [][\A e \in InFlight' \ InFlight : e \in EarnedSet /\ e[2] \notin Stopped]_vars
<1>1. IInv /\ [Next]_vars =>
        [\A e \in InFlight' \ InFlight : e \in EarnedSet /\ e[2] \notin Stopped]_vars
  <2> SUFFICES ASSUME IInv, [Next]_vars, NEW e \in InFlight' \ InFlight
               PROVE  e \in EarnedSet /\ e[2] \notin Stopped
    OBVIOUS
  <2>1. [Promise!Next]_(Promise!vars)
    BY NextRefines
  <2>2. PICK f \in Promise!Effects : Promise!Begin(f)
    BY <2>1 DEF Promise!Next, Promise!vars, Promise!Operate, Promise!Earn, Promise!Settle
  <2>3. e = f
    BY <2>2 DEF Promise!Begin
  <2> QED
    BY <2>2, <2>3 DEF Promise!Begin, EarnedSet
<1> QED
  BY <1>1, Invariance, PTL DEF Spec

(* app/installation-token-exchange-adapter.ts takes process.env where it is *)
(* given no env (the three writers do not): its stop holds for a caller     *)
(* that passes process.env and for one that passes nothing.                 *)
THEOREM TokenStopNeedsNoEnv ==
  ASSUME WriterEnvs \subseteq {"live", "omitted"}
  PROVE  Spec => [][\A e \in InFlight' \ InFlight : e[2] = "token" => "token" \notin Stopped]_vars
<1>1. IInv /\ [Next]_vars =>
        [\A e \in InFlight' \ InFlight : e[2] = "token" => "token" \notin Stopped]_vars
  <2> SUFFICES ASSUME IInv, [Next]_vars, NEW e \in InFlight' \ InFlight, e[2] = "token"
               PROVE  "token" \notin Stopped
    OBVIOUS
  <2>1. call' # call
    BY DEF InFlight
  <2>2. \A j \in Jobs, k \in Kinds : ~ClientSettles(j, k)
    BY SettleRefines DEF Promise!Settle
  <2>3. PICK j \in Jobs : Adapters(j)
    BY <2>1, <2>2 DEF Next, vars, SetSwitch, Receive, PlanExchange
  <2>4. PICK k \in Kinds : \E outcome : Answer(j, k, outcome) /\ AdapterOutcome(j, k, outcome)
    BY <2>3, AdapterAnswers
  <2>5. PICK outcome : Answer(j, k, outcome) /\ AdapterOutcome(j, k, outcome)
    BY <2>4
  <2>6. call' = [call EXCEPT ![j][k] = outcome]
    BY <2>5 DEF Answer
  <2>7. k = "token" /\ outcome = "pending"
    <3>1. PICK i \in Jobs, m \in Kinds : e = <<i, m>> /\ call'[i][m] = "pending" /\ call[i][m] # "pending"
      BY DEF InFlight
    <3>2. i = j /\ m = k
      BY <2>6, <3>1 DEF IInv, TypeOK
    <3> QED
      BY <2>6, <3>1, <3>2 DEF IInv, TypeOK
  <2>8. PICK armed \in BOOLEAN, execute \in BOOLEAN, env \in WriterEnvs :
          outcome = ExchangeGate(j, armed, execute, EnvOrProcess(env, proc))
    BY <2>5, <2>7 DEF AdapterOutcome
  <2>9. EnvOrProcess(env, proc) = proc
    BY DEF EnvOrProcess
  <2> QED
    BY <2>7, <2>8, <2>9 DEF ExchangeGate, ExchangeStopped, Stopped
<1> QED
  BY <1>1, Invariance, PTL DEF Spec
=============================================================================
