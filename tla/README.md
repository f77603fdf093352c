# ADMISSORIUM in TLA+

ADMISSORIUM audits the repositories of an organisation, compiles a verdict
(green, yellow or red, with quarantines), and plans what a GitHub App would do
about it: a check run, a quarantine issue, a projection-repair pull request, an
installation token. By design it never decides truth and never writes without an
explicit, unstopped, earned permission. This directory models that claim's
machinery: the audit, its files, the permission desk, the webhook pipeline with
its guarded adapters, the v0.2.0 command chain, and the gates over the chain of
accepted objects. Paths below are paths of the repository.

    tlc -workers 2 -config MCAuditRun.cfg MCAuditRun      # any run, likewise
    tlapm ActuatorRuntimeProofs.tla                       # any proof module

## 1. Inventory

| part | state | operations | interacts with |
|---|---|---|---|
| audit CLI (`cli/admissorium.ts`) | list of findings, exit status | load registries, four invariants, count, compile, exit | reads registries and checkouts, writes reports |
| wired invariants (`invariants/{repo-perimeter,repo-class-registry,license-consistency,package-registry}.ts`) | none | push findings | called by the CLI in a fixed order |
| unwired invariants (seven more in `invariants/`) | none | push findings | tests only |
| loaders, graph builders (`graph/`) | none | parse files, tolerate or throw | feed the CLI |
| report decisions (`reports/merge-verdict.ts`, `reports/finding-lists.ts`, `compilers/`) | none | counters to verdict, conclusion, lists, repair plan | read by the CLI, by the planners, by the gate in CI |
| artifacts and history (`cli/admissorium.ts` 212-238, `reports/history-writer.ts`) | `reports/current`, `reports/history/<run_id>` | write files one by one, seal with a manifest | shared by every audit in the tree |
| permissions (`app/permissions.ts`, `policies/*.json`) | files and environment, read again at each call | `decideWrite` | asked by the check-run plan |
| webhook handler, dispatcher (`app/webhook-request-handler.ts`, `app/webhook-route-dispatcher.ts`) | none | headers, HMAC, JSON, route | first half of the pipeline |
| planners (`app/*-plan.ts`, orchestrator, pipeline) | plans as values | plan a check run, an issue, a pull request, a token | read env in three different ways |
| guarded adapters (`app/*-adapter.ts`) | a pending client call each | gates, await, continuation | embedding runtime, GitHub client |
| webhook intake (`app/webhook-intake.ts`), local verifier (`src/app/webhook-signature.js`) | none | signature, headers, body, in orders of their own | nothing imports the one, a command's six fixed deliveries the other |
| v0.2.0 evaluation (`src/classify` ... `src/writer-sim`) | none | classify three times, compare, verdict, receipt, quarantine, repair packet, review case, simulated packets | called by the commands |
| v0.2.0 commands (`src/v020/*.js`, `package.json`) | `reports/current`, `reports/history` | gates as child processes, bundle, readiness | one another, through files |
| admission gates (`src/admission/assert-*.ts`) | none; they read objects of other repositories | eleven checks of an object, its index, what it binds and the surfaces beside it | a caller, who passes what it has |
| hostile battery (`src/hostile`, `src/v020/run-hostile-fixtures.js`) | its report | evaluate each fixture | the spine; a gate of the commands |
| schema and signature checks | none | verify fixtures | gates of the commands |
| policy evaluators, firewall, stubs (`src/policy`, `src/firewall`) | none | small decisions | tests |

What is hard, and what makes each part correct:

- **Audit CLI.** Stages append and return early; an unparsable file ends the
  process with the exit status of a yellow report. Correct: the verdict is the
  drift of the world, no stage takes a finding back, the exit status agrees with
  the check run.
- **Report decisions.** Several readers decide by different fields what a
  quarantine, a repair or a failure is. Correct: they agree on every report the
  invariants can produce.
- **History.** No lock, two system calls for one check, kills between and inside
  writes, run ids made of a wall clock. Correct: a manifest seals one audit's
  whole snapshot for ever.
- **Permissions.** Mode, class, paths, stop and `executeWrite` in one decision
  with several answer fields. Correct: paths and stop dominate, answers cohere,
  more paths never help.
- **Actuator.** Environment read before an await and by different rules, repeated
  deliveries and calls, rejected calls that took effect. Correct: only earned
  effects, none begun while stopped, green is sound, the right commit.
- **v0.2.0.** Three classifications of one candidate, files handed from command to
  command without a lock. Correct: danger never succeeds, the suites agree, a
  command that ran alone leaves reports that fit together.
- **Webhook intakes.** Three readings of one delivery, with different comparisons
  of signatures and notions of a missing header. Correct: none is a second way in.
- **Admission gates.** Objects are published apart, each gate sees some of them, if
  it is handed them at all, and none sees the chain. Correct: together they accept
  only a grounded chain, one order and one set of counts, and more evidence never
  hides a finding.
- **Hostile battery.** Its pass should mean that the fixtures are refused. It does not.

`PROJECT.json` lists the hazards at their lines with the properties that answer them.

## 2. Modules

Components (state machines), each with its MC module and, where there are
theorems, a proof module beside it:

- `Admissibility` (operators, `AdmissibilityLemmas`): findings, counters, verdict,
  conclusion, lists, repair plan, pull-request and issue plans. Extended by the next four.
- `AuditRun`: `main()` as one action per stage. State: stage, findings, report,
  exit status, over a constant *world* (what the registries and checkouts say).
- `ReportReaders`: one action, `Detect`, builds any report out of a catalogue of
  findings; the properties relate what its readers make of it.
- `WebhookPipeline` (operators; extends `Admissibility` and `Permissions`): from
  the request to the plans, with the ways env is read: `env ?? process.env`,
  `env?.X`, and the permission's own.
- `ActuatorRuntime` (extends `WebhookPipeline`): process.env, deliveries, client
  calls, effects on GitHub. Actions: `SetSwitch`, `Receive` (the whole synchronous
  pipeline), `PlanExchange`, the four adapters up to their await, `ClientResolves`
  and `ClientRejects`. It implements `ActuatorPromise`, the abstract
  specification: four sets (stopped, earned, in flight, landed) and what may move
  between them. The mapping takes `stopped` from the switches, `earned` from the
  delivery and its findings, the other two from the calls and their effects.
- `AuditHistory`: one action per file operation of an audit. It implements
  `SnapshotStore`, the abstract specification: a set of whole snapshots to which an
  audit adds its own in one step, at most once and under a run id no other has. The
  mapping (`Published`) takes as a snapshot what lies under a whole manifest.
- `Permissions` (operators), `PermissionDesk`: `decideWrite`, asked at any moment
  of a change that grows, a stop that flips and a policy file that comes and goes.
- `WebhookIntake` (operators; extends `WebhookPipeline`, extended by
  `ActuatorRuntime`): the two other readings of a delivery, on the same requests.
- `CandidateEvaluation` (operators), `ReportChain`: the v0.2.0 spine, and the
  commands as processes that read one report and write the next, and remember the
  gates whose output held its PASS token, as `runStep` and `runGate` do.
- `HostileBattery` (extends `CandidateEvaluation`): fixtures come and go, the
  battery runs. What it hands to the spine is modelled as the spine sees it: a
  candidate without files, then a wrapper whose text holds every key.
- `AdmissionGates` (operators), `AdmissionChain`: the eleven gates, and the store
  they read. Actions: `Publish` (a commit replaces some objects), `Supply` and
  `Withhold` (the caller passes more or fewer of the optional inputs). The gates
  keep no state, so each is an operator of store and inputs, and the properties
  relate the answers of several.

How data is abstracted: a finding is its severity, surface, autofix flag, the tag
in its id and whether its action quarantines; a finding's text is gone. A path of
a change is written as the glob it matches. A candidate is the facets of its
paths, the phrases its text mentions (and whether in a form the mask knows) and
its signals. The digest of an object is the object: two digests agree when
the objects do. A file holds the audit, or the value, that wrote it. A signature
is one of six forms (absent, of another scheme, malformed, wrong, and the right
digest in capitals, with spaces or exact), a secret set or empty. Names are sets, but
for the lines of `GOVERNED_REPOS.txt`, which are counted with their repetitions. An accepted object is its id (the
accepted one, another that mentions it, or another), the references, duties and
powers its gate looks at, and whether index, status and form are right.

## 3. Runs

| run | module, cfg | question | distinct states |
|---|---|---|---|
| audit_run | MCAuditRun | verdict, exit status and check of every world near the clean one | 48 716 |
| report_readers | MCReportReaders | do the readers of a report agree? | 1 024 |
| actuator_checks | MCActuatorRuntime, MCActuatorChecks | effects earned, green sound, the three verifiers, refinement, all delivery kinds | 286 929 |
| actuator_tokens | MCActuatorRuntime, MCActuatorTokens | tokens and pull requests, refinement, the stop drains | 106 137 |
| audit_history | MCAuditHistory | three audits, kills, reused run ids, refinement of `SnapshotStore` | 113 888 |
| permission_desk | MCPermissionDesk | paths, stop, coherence, monotonicity | 179 280 |
| report_chain | MCReportChain | two commands, kills, edits: danger, suites, what lone and racing commands leave, what failures seal | 878 346 |
| admission_gates | MCAdmissionChain | what the eleven gates accept together, and with any one input withheld | 120 160 |

Runs that end in a violation show a disagreement between the code and its own documentation:

| run | what TLC finds |
|---|---|
| license_repair | a LICENSE finding becomes a change of the repair pull request, though LICENSE is a protected path |
| omitted_env | a writer called without env writes under `ADMISSORIUM_WRITE_DISABLED=true` |
| history_race | two audits of one millisecond both pass `existsSync`; the second overwrites a sealed snapshot |
| hostile_battery | the shipped fixtures pass the battery, and the spine calls the changes of three of them (package-publish, secret-persistence, webhook-token-overreach) admissible |

### Bounds, and why they are enough

- *AuditRun*: 3 governed repositories (the two the code names and another) and one
  outside the perimeter, 2 packages, worlds
  at most two facts away from the clean one (6 256 of them; a fact may be that a line
  of the list repeats a name, or that nothing is checked out). Stages read disjoint parts of the
  world but for the perimeter and the crash, so two departures reach every pair of
  stages. `PerimeterSize` = 3 stands for 35.
- *ReportReaders*: the catalogue has a kind for each combination of fields that
  `invariants/` produces; all its subsets are enumerated. Severity GREEN and the
  array `blocked`, which no invariant pushes, do not occur.
- *ActuatorRuntime*: deliveries share nothing but process.env, so one delivery,
  over which calls repeat without bound, shows what any of them may do; the theorems hold for any
  number. Requests: one well-formed of each event, and one with each defect, the
  forms of a signature under either secret and an empty delivery id among them. The
  two cfgs split the four adapters, since adapters share no state but the switches.
- *AuditHistory*: 3 audits, 2 run ids, 3 artifacts that stand for the 12 in the
  two orders in which the code writes them. Two audits race while a third meets
  what they left; the proofs cover any number.
- *PermissionDesk*: `MaxPaths` = 2; one path of each sort (ordinary, protected by
  both policies, by the default only, a registry); six spellings of a mode.
- *ReportChain*: 2 files and 1 expected quarantine stand for 5 and 4, 3
  candidates, 2 commands, `MaxEdits` = 1. The candidates are chosen so that each
  classifier alone would miss one. `reports/current` starts empty; killed and failed
  commands fill it with leftovers.
- *AdmissionChain*: `MaxCommits` = 2, `MaxWithheld` = 1. A commit changes one field
  of one object (over a hundred of them), or reorders or shortens the claim classes in
  all records but one. A property that relates two objects needs two commits to be
  broken, and an order that slips through needs the records that are compared with
  one another changed at once; the theorems cover any commits and any inputs.
- *HostileBattery*: the six fixtures of `fixtures/v020/hostile`, in any subset.

Symmetry is used for audits, files and commands, none of which the
specifications tell apart; no run with symmetry checks liveness.
`CHECK_DEADLOCK FALSE` is set where processes end or where a run may find nothing
left to do: an audit exits, a command finishes, the store has had its commits. The actuator and the permission desk never stop.

### Fairness

`ActuatorRuntime` assumes weak fairness of `ClientSettles` alone: an HTTP call
answers or times out. The runtime, GitHub and the operator owe nothing, so
`StopQuiesces` is about draining only. `AuditRun` assumes weak fairness of its
steps, being one synchronous function (`RunEnds`). The others state safety only.

## 4. Proofs

Every theorem is checked by TLAPS for all values of the constants under the named
assumptions of the modules (types of the constants, finiteness, orders that cover
the artifacts).

- `ActuatorRuntimeProofs`. The invariant `IInv` is `TypeOK`, `JobsProcessed`
  (what the runtime holds of a delivery satisfies what the pipeline guarantees of
  *some* environment, since the one it was planned in is gone), and `EffectsSound`
  (every pending or landed effect is earned). The properties alone are not
  inductive: a call is begun from a stored plan, so the plan's soundness must be
  carried. `PipelineSound` proves it once from lemmas for handler, findings, token
  decision and orchestration. `ActuatorKeepsPromise` is step simulation: initial
  states map to initial states, and each action to a step of the promise or a
  stutter, *assuming that the writers are given process.env*
  (`WriterEnvs \subseteq {"live"}`); run omitted_env shows that it fails otherwise.
  `IntakesFollowOneAnother` needs no more than `JobsProcessed`: a stored delivery
  still has the status and the plans that the handler gave it. `StopBeginsNothing`
  is read off the refinement: among the steps of the promise only `Begin` adds a call,
  and it asks that the effect is earned and not stopped. `TokenStopNeedsNoEnv` goes
  through the gates again and assumes less: the token adapter falls back on
  process.env, so its stop also holds for a caller that passes nothing.
- `AdmissionChainProofs`. The properties are consequences of the gates' answers, so
  no invariant carries them; the work is in what a green light stands for
  (`GreenLink` and one lemma per gate) and, for `OneOrder`, that the stable sort of
  a chain in its expected positions changes nothing, with the ranks counted by
  cardinalities. `EvidenceOnlyAdds` has one lemma per gate. `TypeCorrect` is the
  one theorem by induction.
- `AuditRunProofs`. `IInv` says what has been found when a stage begins: exactly
  what the stages that are over find in the world (`FoundSoFar`), and that the
  report and the exit status of a finished audit are computed from it. Each stage
  has a lemma saying when it finds red and when yellow (`ClassesFind`, ...), so
  the verdict of the report is the drift of the world stated on its own.
  `ExitMatchesCheck` and `NothingIsExcused` speak of counters and so need finitely
  many repositories and packages (`FiniteAssumption`). `RunsWindDown` is the part of
  `RunEnds` that needs no fairness: every step leaves fewer of the seven stages
  (`StagesLeft`), and where none is left the end is the right one: a crash exactly
  if a file that was read is corrupt (`ReadSoFar` carries what a stage that is over
  has read).
- `ReportReadersProofs`. From `TypeOK` and the conventions the catalogue keeps
  (`CatalogueAssumption`), by cardinalities of finite sets.
- `AuditHistoryProofs`. `IInv` adds to the properties that live audits have
  directories of their own, that nothing exists outside a directory, that the
  answer of `existsSync` still holds when the directory is made, and that an audit
  filling a directory owns it: no manifest yet, no other audit's file, and every
  file it has counted. `ManifestSeals` alone is not inductive: a manifest may only
  be written by the owner of all the files. The theorems but the typing one and `LoneAuditsPublish` assume
  `~SameMillisecond`, and history_race shows why. A clock set back is allowed.
  `LoneAuditsPublish` needs no such assumption, two audits of one millisecond not
  being alone, but an invariant of its own (`LoneInv`): of an audit beside which none
  runs, the files that its counter has passed, in current and in its directory, are
  its own. `HistoryPublishes` is step simulation: under `IInv` a manifest that becomes
  whole (`ManifestPublishes`) is a `Publish`, and every other file operation, torn
  manifest and kill a stutter.
- `PermissionDeskProofs`. `IInv` ties the last answer to what it was computed
  from and its paths to a prefix of the present ones; `AllowedShrinks` gives monotonicity.
  `AnswersCohere` also needs that the class the desk reports is that of the *first*
  protected path, and so that there is a first one: `LeastElement` gets the least
  number of a set from the well-foundedness of strict inclusion, without induction.
- `ReportChainProofs`. `IInv` says that every report in `reports/current`, and
  every value a command holds and has not yet written, is what its script makes of
  *some* state of the candidates. It needs no fact about scheduling, which is why
  concurrency, kills and edits cannot break `NoSuccessForDanger` and
  `SuitesStayTogether`. `RiskIsDanger` then relates the classifiers to what is in the
  candidate. The five other theorems rest on `ChainInv`, which adds five parts.
  `TypeInv`: a report has at most one content. `HeardInv`: a command has heard the
  token of every gate behind it, and each of those gates has left its report.
  `LoneInv`: for a command beside which
  none runs, every report its steps have written is there, and one whose inputs none
  of its later steps replaced is what its script makes of them now (`Fits`).
  `LoneChainFits` is not inductive without it, for it says nothing of a command that
  is half way, when a quarantine suite is newer than the operator bundle beside it;
  that the two fit again at the end is in the order of the steps, which
  `PerformsOperator` to `PerformsAll` spell out of the concatenated scripts.
  `SealInv`: what is written, and what is held to be written, counts no failed gate.
  That it counts none follows from `HeardInv` (`AllHeard`: a command that seals heard
  every gate), and that one from the exit codes: `WriteEffect` shows that a command
  goes on only past a script that exits 0, which prints its token. The eight `passed`
  values of the code can so never be false; the model computes them and proves it.
  `RaceInv`: until the first edit every report, held ones too, is that of the tree,
  which makes races harmless (`RacesAreHarmless`); once someone edits, racing commands
  may leave an operator bundle older than the quarantine suite beside it, and only a
  lone command is known to leave what fits.
  `ComputedDepends` says that a derived report is a function of its inputs alone and
  `FitsGrows` that one more step extends what fits. TLC found no state of the
  instance of report_chain outside `ChainInv`.

Only model-checked: the two liveness properties (`RunEnds`, `StopQuiesces`), since
TLAPS has no rule for fairness and ENABLED here; of each the safety half is proved
(`RunsWindDown`, `StopBeginsNothing`). Every other property of a passing run has its
theorem. Conversely eight theorems state what no run repeats: those two;
`TokenStopNeedsNoEnv`; `StopDeniesAll`, that the stop denies every write class;
`ListCounts`, that each list carries its number; and three typings,
`ReadersTypeCorrect`, `ChainTypeCorrect` and the `TypeCorrect` of the admission chain.

## 5. What is left out

- A crash of the actuator process: it keeps nothing, so a crash is a delivery
  that gets no further, and its redelivery another delivery. The server itself
  and the GitHub client are not in the repository; whether the runtime arms a plan
  (`dry_run` false), passes `executeWrite`, passes or omits env is free.
- `ReportChain`: copies in `reports/history`; the webhook gate, which verifies
  literals of its own; the commands that are one gate alone; torn single files;
  deletion of candidate files. Signatures are functions of objects, so no
  signature failure occurs.
- `blocked` in the CLI report is empty for every finding the invariants push.
- The mode argument of the CLI is copied into the report and changes nothing.
- Wording, Markdown, titles, branch names, labels, and token permissions requested.
- `src/v020/verify-webhook-signature.js`, which runs the local verifier over six
  deliveries of its own; the compatibility calls of the battery beyond the receipt
  (quarantine and repair packet of a wrapper, whose fields nothing reads).
- Not modelled: the unwired invariants' detection, the readiness checklists
  (`reports/*-readiness.ts`, `scripts/`), which look at file names, the shapes that
  loaders tolerate, the rules of the schemas, the evaluators and stubs of
  `src/policy`, `src/app/webhook-server.ts` and `src/firewall`.

### Observations without a run

- A ping that names a repository is acknowledged by the dispatcher and nevertheless
  planned, at the zero commit; `CheckRunOnDeliveredCommit` states that exception.
- The three webhook verifiers differ at the edges: the local one takes
  capitals and spaces in a digest and alone refuses an empty secret
  (`src/app/webhook-signature.js:56`), the handler takes an empty delivery id, and only
  the older intake refuses a ping. `IntakesAgree` states what they share and where
  the empty secret divides them.
- A redelivery is planned again: the delivery id is required and not remembered. Nothing
  promises to write once, so the actuator's properties are about earning, not counting.
- `policies/protected-paths.json` names `current/**` in a flat list that
  `withProtectedPathDefaults` (`app/permissions.ts:202`) does not read: with the file
  present, a projection repair of `current/` is allowed, and without it refused. Paths
  of accepted objects such as `verification/current` and `recognition/current` are
  protected by neither.
- `compileActuatorVerdict` classifies again and never sees the comparison: a candidate
  of an unknown repository is inadmissible for the comparator and has a receipt of
  admission. `SuitesAgree` and `DangerNeverSucceeds` relate the suites in what they share.
- No single gate sees the chain: `assert-authority-freeze-required.ts` looks for an id
  anywhere in the text of an object and never for the authority's own; a historical
  snapshot may carry `truth_status` or be a truth source, which the same gate forbids
  a projection. The chain as a whole is grounded all the same (`GreenChainIsGrounded`).
- `canonicalize` of `invariants/receipt-identity.ts:4` passes top-level keys as an
  allow-list that applies at every depth, so bodies differing in a nested key have
  one digest.

## 6. Plan

Order of the work, most important behaviour first.

1. Core, done: `Admissibility`, `AuditRun`, `ReportReaders`, `WebhookPipeline`,
   `ActuatorPromise`, `ActuatorRuntime`, `AuditHistory`, with their proofs.
2. Done: `Permissions`, `PermissionDesk`, `CandidateEvaluation`, `ReportChain`.
3. Done: `AdmissionGates`, `AdmissionChain` and their proofs, `WebhookIntake`,
   `HostileBattery`.
4. Next, modules: `PolicyEvaluators` (rollout stages as a machine, emergency stop),
   the unwired invariants, the receipt identity first, `SchemaRules`.
5. Done: `SnapshotStore`, which `AuditHistory` implements. Next, in what exists:
   history copies and the single-gate commands in `ReportChain`.
6. Proofs, done: every safety property of the passing runs. To come: an abstract
   specification of `reports/current` for `ReportChain` to implement (a command that
   ran alone is one step), and what the abstract specifications themselves imply.
