---------------------------- MODULE WebhookPipeline ----------------------------
(***************************************************************************)
(* The plan-only path of the actuator, from a webhook request to the plans *)
(* that guarded adapters may later execute: request handler, route         *)
(* dispatcher, installation token plan, dry-run orchestration.  All of it  *)
(* is synchronous and reads nothing but its input and the environment.     *)
(*                                                                         *)
(* An environment maps the three stop switches to a value; "alias" is any  *)
(* of "1" and "yes".  A caller passes process.env itself ("live"), an      *)
(* object of its own that lacks the switches ("bare"), or nothing          *)
(* ("omitted"); the components differ in what they do then: most read      *)
(* process.env, the orchestrator's summary and the writers read nothing.   *)
(***************************************************************************)
EXTENDS Admissibility, Permissions

CONSTANTS
  Repos,         \* values of repository.full_name
  MalformedRepos,\* those of them that are not "owner/name"
  Shas,          \* commit ids
  NoRepo,        \* the payload has no repository.full_name
  NoSha,         \* the payload has no head commit
  ZeroSha        \* forty zeros

ASSUME PipelineAssumption ==
  /\ MalformedRepos \subseteq Repos
  /\ NoRepo \notin Repos
  /\ NoSha \notin Shas /\ ZeroSha \notin Shas /\ NoSha # ZeroSha

Switches == {"WRITE_DISABLED", "WEBHOOK_DISPATCH_DISABLED", "TOKEN_EXCHANGE_DISABLED"}
SwitchValues == {"unset", "true", "alias"}
AllUnset == [s \in Switches |-> "unset"]

EnvArgs == {"omitted", "live", "bare"}

(* `input.env ?? process.env` *)
EnvOrProcess(arg, proc) == IF arg = "bare" THEN AllUnset ELSE proc

(* `env?.`: with no environment passed, no switch is seen. *)
EnvOrNothing(arg, proc) == IF arg = "live" THEN proc ELSE AllUnset

(* What x-hub-signature-256 is: the digest as it is computed, in capitals,  *)
(* or with white space around it; another digest; no digest at all; without *)
(* the prefix "sha256="; no such header.                                    *)
SignatureForms ==
  {"exact", "recased", "padded", "wrong", "malformed", "foreign", "absent"}

(* The headers and the payload of a delivery, and the secret it is verified *)
(* with: the signature is a form of the digest under that secret, which an  *)
(* embedder may have left empty.  "other" is an event that the dispatcher   *)
(* does not route and the intake lists, such as issues.                     *)
Requests ==
  [ event : {"absent", "ping", "pull_request", "push", "other"},
    delivery : {"absent", "empty", "id"},
    signature : SignatureForms,
    secret : {"set", "empty"},
    json : BOOLEAN,                           \* the body parses
    repo : Repos \cup {NoRepo},
    sha : Shas \cup {NoSha} ]

(* References as cleanRef leaves them; a raw key is one that carries PEM. *)
Refs == [ app : BOOLEAN, installation : BOOLEAN, key : {"ref", "raw", "blank"} ]

(* enabled() / isEnabled() of the dispatcher, the token plan and the        *)
(* exchange adapter accept three spellings; the writers, decideWrite and    *)
(* the orchestrator accept one.                                             *)
Enabled(env, s) == env[s] \in {"true", "alias"}
ExactlyTrue(env, s) == env[s] = "true"

-----------------------------------------------------------------------------
(* Mutant of DispatchStopped: only the dispatcher's own switch stops it.    *)
DispatchSwitchOnly(env) == Enabled(env, "WEBHOOK_DISPATCH_DISABLED")

DispatchStopped(env) ==
  Enabled(env, "WEBHOOK_DISPATCH_DISABLED") \/ Enabled(env, "WRITE_DISABLED")

(* app/webhook-route-dispatcher.ts *)
DispatchWebhookRoute(req, env) ==
  LET plan(decision, sha) == [decision |-> decision, repo |-> req.repo, sha |-> sha]
  IN IF DispatchStopped(env) THEN plan("DENY_EMERGENCY_STOP", NoSha)
     ELSE IF req.event = "ping" THEN plan("ACKNOWLEDGE_ONLY", NoSha)
     ELSE IF req.repo = NoRepo THEN plan("DENY_MISSING_REPOSITORY", NoSha)
     ELSE IF req.event = "other" THEN plan("DENY_UNSUPPORTED_EVENT", NoSha)
     ELSE IF req.sha = NoSha THEN plan("DENY_MISSING_HEAD_SHA", NoSha)
     ELSE IF req.event = "push" THEN plan("DISPATCH_PUSH_PLAN", req.sha)
     ELSE plan("DISPATCH_PULL_REQUEST_PLAN", req.sha)

RouteDenials ==
  {"DENY_EMERGENCY_STOP", "DENY_MISSING_REPOSITORY", "DENY_MISSING_HEAD_SHA",
   "DENY_UNSUPPORTED_EVENT"}

NoRoute == [decision |-> "NO_ROUTE", repo |-> NoRepo, sha |-> NoSha]

(* Mutants of RouteStatus: acknowledged with 200; denials without stop pass. *)
RouteStatusOk(decision) == IF decision \in RouteDenials THEN 403 ELSE 200

RouteStatusStop(decision) == IF decision = "DENY_EMERGENCY_STOP" THEN 403 ELSE 202

RouteStatus(decision) ==
  CASE decision = "DENY_EMERGENCY_STOP" -> 403
    [] decision \in RouteDenials \ {"DENY_EMERGENCY_STOP"} -> 422
    [] OTHER -> 202

(* Mutant of ValidSignature: any signature of the right form is accepted.   *)
WellFormedSignature(req) == req.signature \in {"exact", "recased", "wrong"}

(* No secret is refused: the digest is computed with whatever is given.     *)
ValidSignature(req) == req.signature = "exact"

(* header() answers null for an absent header only.                         *)
HeadersPresent(req) == req.event # "absent" /\ req.delivery # "absent"

(* app/webhook-request-handler.ts: headers, then signature, then JSON. *)
HandleWebhookRequest(req, env) ==
  LET intake(status) == [accepted |-> FALSE, status |-> status, route |-> NoRoute]
      route == DispatchWebhookRoute(req, env)
  IN IF ~HeadersPresent(req) THEN intake(400)
     ELSE IF ~ValidSignature(req) THEN intake(401)
     ELSE IF ~req.json THEN intake(400)
     ELSE [ accepted |-> route.decision \notin RouteDenials,
            status |-> RouteStatus(route.decision),
            route |-> route ]

(* The stop of the token planner and of the exchange adapter; its mutant    *)
(* forgets the switch of the exchange.                                      *)
ExchangeStoppedByWrites(env) == Enabled(env, "WRITE_DISABLED")

ExchangeStopped(env) ==
  Enabled(env, "WRITE_DISABLED") \/ Enabled(env, "TOKEN_EXCHANGE_DISABLED")

RawPrivateKeyMaterial(refs) == refs.key = "raw"

(* app/installation-token-plan.ts; the first failing precondition decides. *)
TokenDecision(mode, refs, env) ==
  IF ExchangeStopped(env) THEN "DENY_EMERGENCY_STOP"
  ELSE IF RawPrivateKeyMaterial(refs) THEN "DENY_RAW_PRIVATE_KEY_MATERIAL"
  ELSE IF mode # "guarded-exchange" THEN "NO_TOKEN_EXCHANGE"
  ELSE IF ~refs.app THEN "DENY_MISSING_APP_ID"
  ELSE IF ~refs.installation THEN "DENY_MISSING_INSTALLATION_ID"
  ELSE IF refs.key = "blank" THEN "DENY_MISSING_PRIVATE_KEY_REF"
  ELSE "READY_FOR_GUARDED_EXCHANGE"

TokenDecisions ==
  {"DENY_EMERGENCY_STOP", "DENY_RAW_PRIVATE_KEY_MATERIAL", "NO_TOKEN_EXCHANGE",
   "DENY_MISSING_APP_ID", "DENY_MISSING_INSTALLATION_ID",
   "DENY_MISSING_PRIVATE_KEY_REF", "READY_FOR_GUARDED_EXCHANGE"}

(* app/check-run-plan.ts asks decideWrite for a CHECK_RUN in mode "block",  *)
(* with no path and no executeWrite.                                        *)
CheckRunPermission(env) ==
  DecideWrite(WriteRequest("block", "CHECK_RUN", <<>>, FALSE), LoadedModes,
              DefaultProtectedClasses, ExactlyTrue(env, "WRITE_DISABLED")).decision

(* app/actuator-dry-run-orchestrator.ts.  The check-run plan falls back on  *)
(* process.env, the summary's write_disabled does not.                      *)
OrchestrateActuatorDryRun(fs, repo, sha, envArg, proc) ==
  LET r == Report(fs) IN
  [ repo           |-> repo,
    sha            |-> sha,
    conclusion     |-> CheckConclusion(r),
    permission     |-> CheckRunPermission(EnvOrProcess(envArg, proc)),
    prRequired     |-> ProjectionRepairPrPlan(r).required,
    issueRequired  |-> QuarantineIssuePlan(r).required,
    writeDisabled  |-> ExactlyTrue(EnvOrNothing(envArg, proc), "WRITE_DISABLED") ]

NoOrchestration ==
  [ repo |-> NoRepo, sha |-> NoSha, conclusion |-> "none", permission |-> "none",
    prRequired |-> FALSE, issueRequired |-> FALSE, writeDisabled |-> FALSE ]

(* app/actuator-request-pipeline-plan.ts.  The handler sees request.env and *)
(* the planners input.env, or request.env when that is left out.            *)
(* Mutant of HeadSha: reads a field that the route plan does not set.       *)
HeadShaUnset(route) == ZeroSha

HeadSha(route) == IF route.sha = NoSha THEN ZeroSha ELSE route.sha

ResolvedRepository(override, route) ==
  IF override # NoRepo THEN override ELSE route.repo

EnvOf(inEnv, reqEnv) == IF inEnv # "omitted" THEN inEnv ELSE reqEnv

BuildActuatorRequestPipelinePlan(req, fs, override, refs, inEnv, reqEnv, proc) ==
  LET webhook == HandleWebhookRequest(req, EnvOrProcess(reqEnv, proc))
      repo == ResolvedRepository(override, webhook.route)
      env == EnvOf(inEnv, reqEnv)
  IN IF ~webhook.accepted \/ repo = NoRepo
     THEN [ decision |-> "PIPELINE_DENIED", status |-> webhook.status,
            token |-> "none", plans |-> NoOrchestration ]
     ELSE [ decision |-> "PIPELINE_PLANNED", status |-> webhook.status,
            token |-> TokenDecision("dry-run", refs, EnvOrProcess(env, proc)),
            plans |-> OrchestrateActuatorDryRun(fs, repo, HeadSha(webhook.route), env, proc) ]
=============================================================================
