---------------------------- MODULE ActuatorRuntime ----------------------------
(***************************************************************************)
(* A process that embeds ADMISSORIUM's actuator: webhook deliveries are    *)
(* turned into plans by the pipeline, the plans are made executable by the *)
(* embedding runtime (outside this repository) and handed to the guarded   *)
(* adapters, each of which checks its gates and then awaits a GitHub       *)
(* client.  Between the check and the answer of the client anything may    *)
(* happen: other deliveries, other calls, and the operator's stop.         *)
(*                                                                         *)
(* A job is one delivery together with the report it is judged by; GitHub  *)
(* redelivering, duplicating or reordering events is other jobs that carry *)
(* the same request.  Nothing in app/ remembers a delivery.                *)
(***************************************************************************)
EXTENDS WebhookIntake

CONSTANTS
  Jobs,            \* deliveries
  Kinds,           \* the adapters exercised, a subset of AllKinds
  RequestChoices,  \* the webhook requests that arrive
  Reports,         \* the findings of the reports at hand, as sets
  Overrides,       \* values of input.repositoryFullName, NoRepo for none
  RefChoices,      \* credential references the runtime is configured with
  PlanEnvs,        \* how the runtime passes env to the pipeline
  WriterEnvs       \* how the runtime passes env to the writers

AllKinds == {"check_run", "issue", "pull_request", "token"}

ASSUME RuntimeAssumption ==
  /\ Kinds \subseteq AllKinds
  /\ RequestChoices \subseteq Requests
  /\ Overrides \subseteq Repos \cup {NoRepo}
  /\ RefChoices \subseteq Refs
  /\ PlanEnvs \subseteq EnvArgs
  /\ WriterEnvs \subseteq EnvArgs
  /\ \A fs \in Reports : IsFiniteSet(fs)

VARIABLES
  proc,       \* process.env: the value of each stop switch
  job,        \* what the runtime holds of each delivery
  call,       \* the last outcome of each adapter for each job
  performed   \* the effects GitHub has performed for each job

vars == <<proc, job, call, performed>>

IdleJob == [stage |-> "idle"]

OrchestrationType ==
  [ repo : Repos \cup {NoRepo}, sha : Shas \cup {NoSha, ZeroSha},
    conclusion : {"success", "neutral", "failure", "none"},
    permission : {"ALLOW", "DENY_WRITE_DISABLED", "none"},
    prRequired : BOOLEAN, issueRequired : BOOLEAN, writeDisabled : BOOLEAN ]

(* What the runtime holds of a delivery that has been through the pipeline. *)
JobType ==
  [ stage : {"PIPELINE_PLANNED", "PIPELINE_DENIED"},
    status : {202, 400, 401, 403, 422},
    req : RequestChoices, findings : Reports, refs : RefChoices,
    plans : OrchestrationType,
    token : [ mode : {"dry-run", "guarded-exchange"},
              decision : TokenDecisions \cup {"none"} ] ]

Outcomes ==
  {"none", "pending", "REJECTED", "THREW", "SKIPPED_DRY_RUN",
   "SKIPPED_WRITE_DISABLED", "SKIPPED_NOT_WANTED", "WRITTEN",
   "DENIED_EXPLICIT_EXECUTION_REQUIRED", "DENIED_EMERGENCY_STOP",
   "DENIED_PLAN_NOT_READY", "DENIED_RAW_TOKEN_MATERIAL",
   "EXCHANGED_TOKEN_REFERENCE"}

Planned(j) == job[j].stage = "PIPELINE_PLANNED"

Init ==
  /\ proc = AllUnset
  /\ job = [j \in Jobs |-> IdleJob]
  /\ call = [j \in Jobs |-> [k \in Kinds |-> "none"]]
  /\ performed = [j \in Jobs |-> {}]

(* The operator edits a switch of the environment at any moment. *)
SetSwitch(s, v) ==
  /\ proc' = [proc EXCEPT ![s] = v]
  /\ UNCHANGED <<job, call, performed>>

(* A delivery goes through the whole synchronous pipeline. *)
Receive(j, req, fs) ==
  /\ job[j] = IdleJob
  /\ \E override \in Overrides, refs \in RefChoices, inEnv, reqEnv \in PlanEnvs :
       LET plan == BuildActuatorRequestPipelinePlan(
                     req, fs, override, refs, inEnv, reqEnv, proc)
       IN job' = [job EXCEPT ![j] =
                    [ stage |-> plan.decision, status |-> plan.status, req |-> req,
                      findings |-> fs, refs |-> refs, plans |-> plan.plans,
                      token |-> [mode |-> "dry-run", decision |-> plan.token] ]]
  /\ UNCHANGED <<proc, call, performed>>

(* The pipeline's own token plan never leaves dry-run mode; to exchange, a  *)
(* runtime asks the planner for another one, with the same references.      *)
PlanExchange(j) ==
  /\ "token" \in Kinds
  /\ Planned(j)
  /\ \E env \in PlanEnvs :
       job' = [job EXCEPT ![j].token =
                 [ mode |-> "guarded-exchange",
                   decision |-> TokenDecision("guarded-exchange", job[j].refs,
                                              EnvOrProcess(env, proc)) ]]
  /\ UNCHANGED <<proc, call, performed>>

-----------------------------------------------------------------------------
(* Adapters.  An adapter answers at once or leaves a client call pending;   *)
(* it may be called again once the previous call has settled.               *)
Answer(j, k, outcome) ==
  /\ k \in Kinds
  /\ Planned(j)
  /\ call[j][k] # "pending"
  /\ call' = [call EXCEPT ![j][k] = outcome]
  /\ UNCHANGED <<proc, job, performed>>

(* writeDisabled() of the writers; its mutant compares with "1".            *)
WriterStoppedByAlias(env) == EnvOrNothing(env, proc)["WRITE_DISABLED"] = "alias"

WriterStopped(env) == ExactlyTrue(EnvOrNothing(env, proc), "WRITE_DISABLED")

(* The gates shared by the three writers, in their order; armed says that   *)
(* the caller has set dry_run to false on the plan, wanted is the last gate. *)
WriterGate(j, wanted, armed, execute, env) ==
  IF job[j].plans.repo \in MalformedRepos THEN "THREW"
  ELSE IF ~execute \/ ~armed THEN "SKIPPED_DRY_RUN"
  ELSE IF WriterStopped(env) THEN "SKIPPED_WRITE_DISABLED"
  ELSE IF ~wanted THEN "SKIPPED_NOT_WANTED"
  ELSE "pending"

WriteGitHubCheckRunGuarded(j, armed, execute, env) ==
  Answer(j, "check_run",
         WriterGate(j, job[j].plans.permission = "ALLOW", armed, execute, env))

WriteQuarantineIssueGuarded(j, armed, execute, env) ==
  Answer(j, "issue", WriterGate(j, job[j].plans.issueRequired, armed, execute, env))

WriteProjectionRepairPrGuarded(j, armed, execute, env) ==
  Answer(j, "pull_request", WriterGate(j, job[j].plans.prRequired, armed, execute, env))

(* app/installation-token-exchange-adapter.ts, up to its await. *)
ExchangeGate(j, armed, execute, env) ==
  IF ~armed THEN "SKIPPED_DRY_RUN"
  ELSE IF ~execute THEN "DENIED_EXPLICIT_EXECUTION_REQUIRED"
  ELSE IF ExchangeStopped(env) THEN "DENIED_EMERGENCY_STOP"
  ELSE IF job[j].token.decision # "READY_FOR_GUARDED_EXCHANGE"
    THEN "DENIED_PLAN_NOT_READY"
  ELSE "pending"

GuardedInstallationTokenExchange(j, armed, execute, envArg) ==
  Answer(j, "token", ExchangeGate(j, armed, execute, EnvOrProcess(envArg, proc)))

(* The client's promise resolves and the adapter's continuation runs. *)
ClientResolves(j, k) ==
  /\ call[j][k] = "pending"
  /\ \E outcome \in IF k = "token"
                    THEN {"EXCHANGED_TOKEN_REFERENCE", "DENIED_RAW_TOKEN_MATERIAL"}
                    ELSE {"WRITTEN"} :
       call' = [call EXCEPT ![j][k] = outcome]
  /\ performed' = [performed EXCEPT ![j] = @ \cup {k}]
  /\ UNCHANGED <<proc, job>>

(* It rejects: no adapter catches.  The effect may have happened anyway.    *)
ClientRejects(j, k) ==
  /\ call[j][k] = "pending"
  /\ call' = [call EXCEPT ![j][k] = "REJECTED"]
  /\ \E effect \in {{}, {k}} :
       performed' = [performed EXCEPT ![j] = @ \cup effect]
  /\ UNCHANGED <<proc, job>>

ClientSettles(j, k) == ClientResolves(j, k) \/ ClientRejects(j, k)

Adapters(j) ==
  \E armed, execute \in BOOLEAN, env \in WriterEnvs :
    \/ WriteGitHubCheckRunGuarded(j, armed, execute, env)
    \/ WriteQuarantineIssueGuarded(j, armed, execute, env)
    \/ WriteProjectionRepairPrGuarded(j, armed, execute, env)
    \/ GuardedInstallationTokenExchange(j, armed, execute, env)

Next ==
  \/ \E s \in Switches, v \in SwitchValues : SetSwitch(s, v)
  \/ \E j \in Jobs :
       \/ \E req \in RequestChoices, fs \in Reports : Receive(j, req, fs)
       \/ PlanExchange(j)
       \/ Adapters(j)
       \/ \E k \in Kinds : ClientSettles(j, k)

Spec == Init /\ [][Next]_vars

(* Every HTTP call of a client settles, by an answer or by its timeout; the *)
(* runtime, GitHub and the operator owe nothing.                            *)
Fairness == \A j \in Jobs, k \in Kinds : WF_vars(ClientSettles(j, k))

FairSpec == Spec /\ Fairness
-----------------------------------------------------------------------------
(* Type invariant of the runtime. *)
TypeOK ==
  /\ proc \in [Switches -> SwitchValues]
  /\ job \in [Jobs -> JobType \cup {IdleJob}]
  /\ call \in [Jobs -> [Kinds -> Outcomes]]
  /\ performed \in [Jobs -> SUBSET Kinds]

InFlight == {e \in Jobs \X Kinds : call[e[1]][e[2]] = "pending"}
Landed == {e \in Jobs \X Kinds : e[2] \in performed[e[1]]}

(* What calls for an effect, stated on the delivery, the findings and the   *)
(* references, not on the plans computed from them.                          *)
Authentic(req) ==
  HeadersPresent(req) /\ req.signature = "exact" /\ req.json /\ req.event # "other"

CalledFor(j, k) ==
  CASE k = "check_run" -> ~job[j].plans.writeDisabled
    [] k = "issue" ->
         \E f \in job[j].findings : f.quarantine \/ f.idTag # "plain"
    [] k = "pull_request" ->
         \E f \in job[j].findings :
           f.severity = "YELLOW" /\ f.autofix /\ ~IsProtectedSurface(f.surface)
    [] k = "token" ->
         job[j].refs.app /\ job[j].refs.installation /\ job[j].refs.key = "ref"

Earned(j, k) == Planned(j) /\ Authentic(job[j].req) /\ CalledFor(j, k)

(* Whatever the interleaving of deliveries, plans, gates, client answers    *)
(* and switches, a client is called and GitHub acts only for an authentic   *)
(* delivery, a finding that asks for that very effect, complete credential  *)
(* references without raw key, and, for a check run, a summary that did not *)
(* record the stop when the plan was made.                                  *)
OnlyEarnedEffects == \A e \in InFlight \cup Landed : Earned(e[1], e[2])

(* A green check run on GitHub means that the report it was planned from    *)
(* has no red and no quarantining finding.                                  *)
GreenLightSound ==
  \A j \in Jobs :
    <<j, "check_run">> \in Landed /\ job[j].plans.conclusion = "success" =>
      \A f \in job[j].findings : f.severity # "RED" /\ ~f.quarantine

(* The stop recorded in the orchestration summary (which never falls back   *)
(* on process.env) and the permission decision of the check-run plan (which *)
(* does) agree on every planned delivery.                                   *)
SummaryAgreesWithDecision ==
  \A j \in Jobs : Planned(j) =>
    (job[j].plans.writeDisabled <=> job[j].plans.permission = "DENY_WRITE_DISABLED")

(* A check run lands on the commit and, unless the runtime names another    *)
(* repository, in the repository that the delivery named; only a ping, that *)
(* names no commit, is checked at the zero commit.                          *)
CheckRunOnDeliveredCommit ==
  \A j \in Jobs : <<j, "check_run">> \in Landed =>
    /\ job[j].plans.sha = IF job[j].req.event = "ping" THEN ZeroSha ELSE job[j].req.sha
    /\ job[j].plans.repo \in ({job[j].req.repo} \cup Overrides) \ MalformedRepos

(* A delivery is planned only when it is answered with 202, and answered    *)
(* with 202 without being planned only when it is a ping that names no      *)
(* repository: no other delivery is acknowledged and then dropped.          *)
AcceptedMeansPlanned ==
  \A j \in Jobs : job[j] # IdleJob =>
    /\ Planned(j) => job[j].status = 202
    /\ job[j].status = 202 /\ ~Planned(j) =>
         Authentic(job[j].req) /\ job[j].req.event = "ping" /\ job[j].req.repo = NoRepo

(* Three modules judge a delivery, in different orders and by different     *)
(* comparisons.  What the intake accepts, the handler refuses at most for   *)
(* its route, and the local verifier accepts it exactly when the secret is  *)
(* not empty: of the three, it alone refuses to verify with an empty one.   *)
(* What is planned the intake accepts too, for the same repository, but for *)
(* a ping, which it does not list, and for a delivery id that is there and  *)
(* empty, which counts as missing in the intake and the verifier only.      *)
IntakesAgree ==
  \A j \in Jobs : job[j] # IdleJob =>
    LET req == job[j].req
        envelope == ParseGitHubWebhookEnvelope(req)
    IN /\ envelope.verdict = "ACCEPTED" =>
            /\ job[j].status \notin {400, 401}
            /\ VerifyWebhookEnvelope(req).accepted <=> req.secret = "set"
       /\ Planned(j) /\ req.event # "ping" /\ req.delivery # "empty" =>
            /\ envelope.verdict = "ACCEPTED"
            /\ job[j].plans.repo \in {envelope.repo} \cup Overrides

(* The kinds of effect that the switches of process.env stop.               *)
Stopped ==
  {k \in Kinds :
     IF k = "token"
     THEN Enabled(proc, "WRITE_DISABLED") \/ Enabled(proc, "TOKEN_EXCHANGE_DISABLED")
     ELSE ExactlyTrue(proc, "WRITE_DISABLED")}

Promise == INSTANCE ActuatorPromise WITH
  stopped <- Stopped,
  earned <- {e \in Jobs \X Kinds : Earned(e[1], e[2])},
  inflight <- InFlight,
  landed <- Landed

(* A runtime that passes process.env to the writers keeps ActuatorPromise:  *)
(* every call begins earned and not stopped, and only calls in flight land. *)
KeepsPromise == Promise!Spec

(* The stop drains: once a kind of effect stays stopped, its last call in   *)
(* flight settles and no other ever begins, however often adapters are      *)
(* called again.                                                            *)
StopQuiesces ==
  \A j \in Jobs, k \in Kinds :
    <>[](k \in Stopped) => <>[](call[j][k] # "pending")

(* docs/check-run-writer-adapter.md:40 "ADMISSORIUM_WRITE_DISABLED=true     *)
(* must prevent the GitHub client from being called."                       *)
StopPreventsClientCall ==
  [][\A j \in Jobs, k \in Kinds \ {"token"} :
       ExactlyTrue(proc, "WRITE_DISABLED") /\ call[j][k] # "pending"
         => call'[j][k] # "pending"]_vars
=============================================================================
