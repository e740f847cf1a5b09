# A TLA+ verification of CyberGuard

CyberGuard turns security evidence into investigations and, with a human's
approval, into responses that change a real target. This directory models the
response path (executor, laboratories, recovery checks), the admission of model
calls, the investigation jobs, the operations console with the gateway's ledgers,
and the services and scripts around them, and checks what they promise. What the
executor promises with either laboratory, the recovery check and the live run
over it, the model guard, the investigation jobs, the gateway's investigation store
with its runner, the console's decisions with the gateway's evidence, the onboarding
service, the serial harness, the Suricata adapter and the console's accounts is
also proved, for every value of the constants. What is not modelled is named with its reason.

All paths are relative to the repository. TLC configurations are named after
the question they ask; every property is stated in English above its definition.

## 1. The system

| Component | Code | State | Operations | What makes it correct |
| --- | --- | --- | --- | --- |
| Response executor | `services/response-executor/app/main.py`, `lab.py` | `actions.jsonl`, an HMAC-chained append-only journal; one process-wide lock | propose, approve, execute, rollback, reconcile; audit views | no effect without an unexpired approval; no operation sent twice; the audit says what is true; closed actions stay closed; the lock is always released |
| Identity laboratory | `services/lab-identity/server.py` | SQLite: one account row, one receipt per operation | POST/GET operation, access probe | one action holds the account; account and receipt change together |
| Process laboratory | `services/host-lab/server.py`, `worker.py` | workload process, persistence file, receipts in SQLite, one lock, a supervisor thread | POST/GET operation, snapshot, supervise, restart | an operation hits the very target it names, once; a half-done one stays visible |
| Recovery verification | `services/security-tool-gateway/app/host_lab.py`, `lab_verification.py` | none beyond one request | audit read, snapshots or probes, verdict | a verdict is about the action and environment it names, and true |
| Gateway store and views | `.../store.py`, `run_view.py`, `main.py` | `evidence.jsonl`, `workflow.jsonl`, a lock per access | collect, transition, summarise, view a run | only legal transitions; nothing shown as verified that no longer is |
| Investigation intake | `.../investigation.py` | SQLite: bundles, runs, reports, receipts | import, create run, read evidence, submit report, list | an answer agrees with what is stored; budget and receipts agree |
| Model admission | `cyberguard_investigation/admission.py`, `model_guard.py` | SQLite ledger; process-local `armed` flag and lock | arm, close, prepare, dispatch, settle, fail | every request is forwarded at most once ever; budgets hold; no dispatch after close |
| Investigation jobs | `services/operations-console/app/jobs.py`, `agentteams_native.py`, `agentteams_bridge.py` | job rows, a dispatch lease, backend checkpoints | submit, tick, cancel, restart with another environment | ended jobs stay ended; nobody is asked twice with one credential; answers are not missed; every job ends |
| Console decisions | `.../api.py`, `idempotency.py`, `clients.py`, `audit.py`, forms in `pages.py` | idempotency rows, decision rows | decide, move a workflow, replay | a replayed request acts once; a decision and its approval agree |
| Console access | `.../auth.py`, `apikeys.py`, `bootstrap.py`, forms in `pages.py` | users, sessions, keys, login rows | setup, login, logout, members, keys | guesses are bounded; an administrator remains |
| Onboarding host service | `deploy/onboarding/service.py` and the scripts it runs | phase in memory; files, container, ledger, platform | save, apply, open budget, initialise, status | a guard opened for use runs the saved model; ready means complete; one initialisation at a time |
| Model runner | `cyberguard_investigation/model_runner.py` | one record per run in an attempt ledger | claim, model requests, tool calls, final record | a completed record is of its own work; usage is not understated |
| Suricata adapter | `scripts/ingest-suricata.py` | lines of `evidence.jsonl` | convert, append, open the workflow | running it again loses and doubles nothing |
| Serial harness | `deploy/agentteams-local/run-guarded-serial.py` | its result file | one task per role through one budget, always clean up | roles use the budget one at a time; what is left open is said |
| Live response run | `scripts/live-host-response.py` | its manifest | two rounds of collect, plan, approve, execute, verify | a run that passes has shown recurrence and recovery |
| Rendering, validation, other scripts, skills, benchmark | `services/operations-console/app/render.py`, `scripts/`, `integrations/`, ... | none | I/O | not modelled (section 6) |

Interactions. The console (or a script) calls the gateway for evidence and
workflow and the executor for decisions. The executor calls one laboratory over
loopback HTTP with a three second timeout, holding its lock. The gateway reads
the executor's audit with a read-only credential and, independently, probes the
laboratory. Model calls of an investigation pass the admission guard; jobs are
moved along by a dispatcher thread that polls a backend. Nothing is
transactional across services: every pair communicates by requests that may be
lost, answered late or cut by a restart on either side.

Hard behaviours: a request may be applied after the caller gave up; either side
may be restarted between intent and effect, and the executor even with another
mode or origin; approvals expire while requests travel; the process laboratory
changes by itself and fails half way; verification reads several services one
after another; a dispatcher outlives its lease; one decision spans three
services; a read is checked under one lock and acted on under another; a form is
awaited between the check and the change; a provisioning thread goes on after
its request; files are appended to by processes that share no lock.
`PROJECT.json` lists every such hazard at its line.

## 2. Modules

| Module | What it is |
| --- | --- |
| `ResponseExecutor` | the executor: journal, clock, lock-holding call, wire |
| `IdentityLab` | the identity laboratory: account and receipts |
| `IdentityResponse` | executor x identity laboratory; safety properties and the refinement mapping |
| `ContainmentContract` | the abstract specification: what controlled response promises, with no journal, wire or crash |
| `HostLab` | the process laboratory, step by step |
| `HostResponse` | executor x process laboratory |
| `HostVerification`, `LabVerification` | the gateway's two recovery checks over those compositions |
| `LiveHostRun` | the scripted live run over `HostVerification` |
| `AdmissionLedger` | the ledger of one run's model requests, one operator per transaction |
| `ModelGuard` | the guard process over that ledger: event loop, request threads, operator, restarts |
| `InvestigationQueue` | the job table, the dispatch lease, the tick and its write, cancellation |
| `NativeTeam`, `MatrixRelay` | the two backends a tick may advance, with the installation or the rooms they talk to |
| `InvestigationJobs` | queue x backends, with fairness |
| `WorkflowJournal` | `workflow.jsonl` with its two lock acquisitions |
| `ConsoleDecisions` | requests of the console over executor and journal: lookup, calls, record, stored reply |
| `GatewayEvidence` | `evidence.jsonl` and the two views, over the executor's journal |
| `OperationsConsole` | decisions x evidence x executor |
| `ConsoleAccess` | accounts, login, sessions, setup, members, keys |
| `InvestigationIntake` | the gateway's investigation store, statement by statement |
| `ModelRunner` | attempts of the runner as clients of that store |
| `SuricataIngest` | runs of the adapter over `evidence.jsonl` (in chunks) and `WorkflowJournal` |
| `GuardInstallation` | files, guard container, ledger and platform, and the deployment scripts that change them |
| `OnboardingService` | the onboarding service over `GuardInstallation` |
| `GuardedSerial` | the serial harness with Workers, guard and gateway around it |
| `MC*` | constants and symmetry for TLC; `MCServices` puts eight independent scenes in one run |
| `ExecutorProofs` | proofs: what holds of the executor whatever laboratory it talks to |
| `IdentityResponseProofs` | proofs: with the identity laboratory; and that this implements `ContainmentContract` |
| `HostResponseProofs` | proofs: with the process laboratory, its recovery check, and the live run over both |
| `InvestigationIntakeProofs` | proofs: the investigation store under any callers, and the runner's attempts among them |
| `OperationsConsoleProofs` | proofs: decisions, evidence and executor together |
| `ServicesProofs` | proofs: the onboarding service, the console's accounts, the serial harness and the Suricata adapter, which share nothing |
| `ModelGuardProofs`, `InvestigationJobsProofs` | proofs: of the module each is named after |

### How state and actions correspond to the code

`history[a]` is the subsequence of `actions.jsonl` with that `action_id`, because
every handler filters the journal so before reading it; `IsLatest` is the
`next(... reversed(events) ...)` idiom. A record's digest is its position:
`cites` is the position of the record whose digest it carries. `auditValid` is the
verdict of `verify_audit`: hashes and HMACs are abstracted to it, and it becomes
FALSE when a crash tears an append (`TornAppend`). `call` is the HTTP call of
`lab.request`, during which `LOCK` is held: every handler's guard begins with
`Ready`, the lock being free and the audit valid. `inflight` is the wire: a POST
stays there until the laboratory takes it or it is lost, also after the executor
timed out, crashed or was restarted. `posts` is auxiliary.

| Code | Action |
| --- | --- |
| `propose`, `approve` | `Propose`, `Approve` |
| `execute`, `rollback`, `dispatch_lab` | `Execute`, `Rollback`, both through `Dispatch` (intent) |
| `lab.apply` after the intent is on disk | `SendPost` |
| `finish_lab`, the `_unknown` branch | `Finish`, `NoReceipt` |
| `reconcile_action` | `Reconcile` (a GET) then `Finish` or `NoReceipt` |
| process death, an append that raises, a restart with another environment | `Crash(c)`, `TornAppend` |
| `IdentityStore.apply`, `do_GET` | `LabPost`, `LabGet` |
| `Lab.operation` | `Begin`, `Quarantine`, `Terminate`, `Commit`, or `Fail` between any two |
| `Lab.supervise`, `Lab.__init__` again | `Supervise`, `Restart` |
| `host_lab.verify` | `ReadActive`, three `TakeSnapshot`, `Conclude` or `GiveUp` |
| `lab_verification.verify` | `ReadAudit`, `ProbeTarget`, `ProbeControl` |
| `AdmissionLedger.reserve`, `begin_dispatch`, `settle`, `mark_unknown`, `close_run` | `Reserve`, `BeginDispatch`, `Settle`, `MarkUnknown`, `CloseRun`, each one SQLite transaction |
| `ModelGuard.prepare` | `PrepareCheck`, then `PrepareReserve`, `PrepareRefuse` or `PrepareClose` |
| `ModelGuard.execute` | `TakeLock`, `CommitDispatch` or `RefuseDispatch`, `Forward`, `SettleUsage`, `Deliver`; `TraceFails`, `CallFails` |
| its `except` branch | `Disarm`, `Account`, `CloseFailed` |
| `arm`, `close` | `ArmRead`, `ArmCommit`; `CloseDisarm`, `CloseCommit` |
| the service is killed and started again | `Restart` |

In `ModelGuard`, `request[r]` is the row of a request identifier, which is the hash
of role and normalised body, so the same identifier is the same work. `thread[r]`
says where `execute` is: `reserve` answers `forward` once per row, so a request has
one thread at most. `preparing` is one request because `completions` is a
coroutine that does not await inside `prepare`. `stateLock` is `state_lock`; a ledger
transaction that raises leaves the ledger as it was. `forwards` and `orphans` are
auxiliary.

| Code | Action |
| --- | --- |
| `JobStore.submit`, `cancel` (jobs.py) | `Submit`; `CancelRead`, `CancelPause`, `CancelWrite` |
| `tick`: the lease, the oldest job, the step, the conditional update | `Lease`, `Read`, a step of the backend, `Write`; `LeaseRunsOut`, `Overrun`, `Crash` |
| `tick`: which backend advances the job (jobs.py:206-211) | `Settled`, `Chosen` |
| the process comes back, perhaps with another backend or credential | `Restart`, with the environment in `setting` |
| `agentteams_native.py`: create, assign, observe | `CreateProject`, `Assign`, `Observe`, `Rebuild` |
| `agentteams_bridge.py`: cursor, send, poll | `Prepare`, `Send`, `Poll`, `GiveUp`, `CredentialChanged`; `ChangeCredential` when a login is too old |
| `transition_workflow` | `CheckTransition` and `AppendTransition`, as called by console, agents and adapter |
| `run_idempotent`, `decide`, the two forms | `Arrive`, `Lookup`, `AskApprove`, `FindIncident`, `ChooseSession`, `SendTransition`, `RecordResult`, `StoreReply` |
| `collect`, `_append`; `incident_summary`; `run_view.build` | `CollectFixture`, `CollectLab`, `CollectLive`, `AppendEvidence`; `Summary`, `Verification` |
| `attempt_login`; `session_principal`; members, keys, setup handlers | `BeginLogin` ... `RecordSuccess`; `UseSession`; `BeginChange` then the change |
| `database()`, `import_bundle`, `create_run`, `run_evidence`, `submit_report`, `run_reports` | `Begin`, `ImportBundle`, `CreateRun`, `SpendCall`, `StoreReport`, `Commit`, `List...` |
| `run_model` | `Claim`, `Preflight`, `FreshRun`, `RequestModel`, `CallTool`, `ToolAnswers`, `EndRound`, `SaveLast` |
| `ingest-suricata.py` `main` | `StartAdapter`, `Convert`, `WriteLine`, `WriteTail`, `LookAtWorkflow`, `OpenWorkflow` |
| `save_model`, `apply_model`, `open_budget`, `initialize`, `provision` | `Store`, `ApplyStep`, `BeginOpen` ... `Arm`, `Initialize`, `ProvisionStep` |
| `run-guarded-serial.py` `main` | `ReadStatus`, `SendTask`, `SeeReports`, `SleepWorker`, `Drain`, `CloseGuard`, `SleepEach`, `Conclude` |
| `live-host-response.py` `main` | `LiveCollect`, `LivePlan`, `LivePropose`, `LiveApprove`, `LiveExecute`, `LiveVerify`, `LiveVerdict` |

A thread that makes several calls is a record with a `step` (or `stage`, `at`) and
what it has read so far; each call is an action, so that everybody else may come
between two of them. Where a transaction or a lock makes several statements one
step for the others, they are one action. A process that dies loses its record
or takes no further step; what it wrote stays.

Abstractions, each chosen so that no property can tell the difference:

- A handler that refuses or answers from the journal changes nothing and is not
  an action. Authentication, field validation and wording are left out.
- `execute` compares the expiry with the clock and stamps the record a moment
  later; the model takes one instant for both.
- The GET of `/health` that binds a proposal is one step with the proposal; it is
  read-only and the laboratory's environment identifier is stable while it runs.
- `run_id` and `incident_id` are functions of the action and never change, so the
  checks that compare them are the checks on the action. Four of the six action
  names behave alike or not at all in a laboratory: `block_ioc` stands for
  `isolate_endpoint` and `quarantine_workload`.
- The account and its receipt commit in one SQLite transaction, so a restart of
  the identity laboratory is invisible; its database is assumed to survive.
- A process identity is a counter, a persistence file is known by the
  environment it was written for. The pause of 1.1 s between snapshots is
  dropped: nothing is assumed of the supervisor's speed.
- One run and one guard process over its ledger; the immutable bindings of a run
  are constants. A tool failure repeated in a history closes the run at any time
  (`PrepareClose`), which covers both tool policies. Tokens are small numbers,
  reservations are given, and an answer whose usage is missing or not a count is
  an answer that fails.
- In the console one principal makes all requests, so a stored reply is found by
  key and endpoint; a decision's workflow move goes to the first session that
  awaits it. `recorded_at` is the order of appends. The verdict of a laboratory in
  `GatewayEvidence` is any that `LabVerification` could give.
- The connector of a live observation is taken to match the tool it was asked
  for. The gateway may be deployed with or without the executor's audit service
  (`_recovery_record` then reads the journal's file), so either verdict may come.
- In `ConsoleAccess` a clock tick stands for a lock window, an idle time or half a
  lifetime; `last_seen` is written on every use and not only after 60 seconds. The
  login of a finished setup is an ordinary login. Roles below admin do not matter.
- A credential of the Matrix rooms stands for the server that takes it too, so a
  serial job whose endpoint or roles are changed behaves as one whose credential is.
  The uploaded case's address only saves a second upload and is left out.
- In `OnboardingService` a model is one value for URL, name and key; commands fail
  before, within or after their effect; `running()` tells the truth. The rollback's
  own `write_config` does not fail, and nobody runs `budget.py new-run` by hand.
- An attempt of the runner that dies takes no further step. In its scene the run
  exists and the gateway serves one request at a time, since the scene `intake` is
  about what comes between them.
- Files grow in chunks that may end within a line; a line is its event. The adapter
  splits lines with `splitlines()` (`ingest-suricata.py:264`), which also parts them
  at U+2028, U+2029 and U+0085, and its decoding raises on half a character. Neither
  is in the model: `IngestedOnce` is about events without those characters, torn
  between characters.
- Not modelled: a persistence file edited or restored by hand, a workload that
  survives a killed server, a journal replaced or rewritten from outside, two
  executor processes over one journal (`docs/LAB_EXECUTION.md` excludes them),
  and the simulated actions' fixture recovery.

## 3. Runs

| Run | Checks | Bounds |
| --- | --- | --- |
| `identity_response` | `ApprovedBeforeEffect`, `PostedAtMostOnce`, `ActiveIsInForce`, `OutcomesHaveReceipts`, `ClosedStaysClosed`, `ImplementsContract` | 2 actions, 2 keys, clock to 2, lifetime 1, three environments |
| `host_response` | `ApprovedBeforeEffect`, `OneEffectOnTheTarget`, `OutcomesAreTrue`, `HalfDoneStaysOpen`, `VerdictsAreTrue`, `RunShowsRecovery` | 2 actions, one check, clock to 1, 2 environments, 3 processes; any caller, or the live run alone |
| `lab_verdict` | `VerdictIsAboutAction`, violated | 2 actions, clock to 1 |
| `model_guard` | `ForwardedOnce`, `CountsWithinLimits`, `TokensWithinLimits`, `OrphansDisarm`, `OnlyDrains` | 5 requests, 2 roles, limits of 3, 2 at a time, 1 for the leader, 4 and 3 tokens |
| `model_guard_arming` | `UncertainPreventsArming`, violated | 5 requests |
| `locks` | `LockReleased`, `ThreadsEnd` | the executor with 2 actions, clock to 1, laboratory mode; the guard with 2 requests; no symmetry |
| `operations_console` | `ApprovalsAccounted`, `RepliesBacked`, `RetryFindsReply`, `VerifiedSummaryHolds`, `GreenRunIsLive` | 2 requests, 1 agent, 2 actions, 2 sessions, 5 workflow events, 2 evidence lines |
| `workflow_race` | `JournalIsChain`, violated | the same |
| `investigation_jobs` | `OneAssignmentPerAttempt`, `CompletedIsAccepted`, `AskedOnce`, `AnswerNotSkipped`, `EndedStaysEnded`, `CheckpointsOnlyAdvance` | 2 dispatchers, 2 jobs, 2 workers, 2 faults, 2 backends, 2 credentials, 2 rebuilds |
| `investigation_settles` | `EveryJobSettles` | the same, with 1 credential and 1 rebuild |
| `services` | `ReadyIsComplete`, `OpensSavedModel`, `GuessesBounded`, `AdminRemains`, `AnswersHold`, `CompletedOwnsRun`, `UsageIsTrue`, `IngestedOnce`, `HarnessEndsSafely` | eight scenes, see below |
| `onboarding_overlap` | `OneProvisioner`, violated | 2 models, 2 roles, 2 provisioning threads |

Types are proved where the module is proved about (`TypeCorrect`,
`HostTypeCorrect`, `JobsTypeCorrect`, and as parts of the harness's and the
accounts' invariants); the other modules state theirs as `TypeOK` and the like,
which no run spends time on.

Why the bounds suffice. Two actions are what contention for the one account or
one workload needs, and each of them goes through approval, dispatch, doubt,
reconciliation and rollback. A clock of two with a lifetime of one lets an
approval lapse, be superseded and lapse again; in the host runs `Minutes` is
`{0}`, so an approval is good until the next tick and lapses then. Three
environments are the right one, another origin, and simulation. Two
environments of the process laboratory are one restart; three processes are a
restart of the workload by the supervisor and one with the server, so a target
can be replaced in either way. In `host_response` the clock ticks only while an
unused approval exists and stands still during a check, as time matters to
nothing else there. Other bounds are none: histories are bounded because every
handler stops appending. Symmetry is used in the runs with invariants (and box
actions, which hold of steps), over actions, keys and the like, and not in runs
with liveness. Deadlock is checked except where the modelled actors may really
be done: jobs have ended, requests are served, the services have no more work.

For the guard, each limit is smaller than what the others let through, so every
one of them is the one that refuses in some behaviour: two leaders for one
place, four candidates for three, three threads for two slots, and reservations
that fit one by one and not together. Reports of usage fall below, on and above
the reservation. Restarts and repeated requests are not bounded.

In `investigation_jobs` the initial states are two instances: one job and two
faults (a crash, an overrun lease, a lost answer, a replaced installation, a
login that yields another credential each count as one), and two jobs behind one
another, after the last fault; both are states of the service. Both dispatchers
begin with one setting and either may be restarted with any other. Two workers
suffice for a stage to be passed and the next begun, two credentials for one that is
changed and changed back. One job is tampered with. `investigation_settles` has one
credential and one rebuild, to keep the liveness graph small: a second credential
only adds ways for a serial job to fail, which ends it, or for the native team to be
asked again, and the second rebuild repeats the first.

In `operations_console` either two requests decide and move while the ledger is
full, or both actions are approved and the ledger is empty while the executor
goes on: the two halves meet in the executor's journal only. A reply outlives
its 24 hours at any time.

The scenes of `services` share nothing, so the states of the run are their sum:

- *onboarding*: two models, two roles, three run numbers: the first plan, one
  applied model and one new run. One provisioning thread, as a second one is the
  violation below.
- *login*: two guesses at a time against one account, threshold two, a window of
  one tick; *members*: two handlers and a login, two users; *keys*: one key.
- *intake*: two requests at a time on two reports and limits of one and two, so
  that the last call of a budget is raced for.
- *attempts*: two attempts and another client on one run with two calls; a model
  request costs two of three tokens, so the second exhausts the budget.
- *ingest*: two adapters and the gateway; exports with a repeated event, a flow
  and an event that breaks the schema; two lines of the gateway.
- *serial*: two roles, two starts, one request and two reports per role, one
  refused request. One request per role is enough for it to be in flight when
  its Worker is put to sleep.

What the violations show. `lab_verification.verify` reads the audit's active
actions once and probes afterwards. An action that is active when the audit is
read can be rolled back before the probe, and a request of another action that
was given up as lost can then disable the account: the probe is refused, and
the verdict is `verified` for an action that holds nothing. `host_lab.verify`
reads the audit a second time and compares; `VerdictsAreTrue` shows that this
is enough there, with `last_mutation` in the snapshots. `docs/LAB_EXECUTION.md:88`
states the stronger promise.

`/admin/arm` reads the ledger and sets `armed` under `state_lock`, which neither
`prepare` nor the failure path of `execute` takes. An operator who arms a guard that
is armed can overwrite the disarming of a request that failed in between, against
`docs/MODEL_GUARD.md:15`. The window is small and the failing thread closes the run
next, so work is admitted after it only if that transaction fails as well.
`ForwardedOnce`, `OnlyDrains` and the limits hold all the same, and an orphan of an
earlier process does prevent arming (`OrphansDisarm`).

`transition_workflow` reads a session's state under one acquisition of the
store's lock and appends under another. An operator's approval and an agent's
time-out that both read `awaiting_approval` are both appended, though no time-out
follows an approval; `docs/OPERATIONS_CONSOLE.md:61` says invalid transitions
are refused with 409.

`apply_model` in the provisioning thread sets the phase `failed` before it has
brought the previous guard back, and `initialize` looks at the phase only: a
second thread begins while the first still stops and starts the container,
against `docs/WEB_ONBOARDING.zh-CN.md:92`.

What modelling showed without a violation run. Each of these is an exception
written into a property, or a limit of what the property claims:

- `OneAssignmentPerAttempt` speaks of each credential by itself. The native backend
  sends its assignment with the `MATRIX_TOKEN` of the moment and keeps no
  fingerprint of it (`agentteams_native.py:347-349`); the older one does
  (`agentteams_bridge.py:211-213`), because Matrix recognises a repeated transaction
  only from the credential it was first sent with
  (`docs/AGENTTEAMS_MATRIX_LEGACY.md:34-35`). When a receipt is lost and the process
  comes back with another credential, the same room is given the assignment twice,
  against `docs/AGENTTEAMS_TASK_SERVICE.md:10`; the model has those behaviours.
- `CheckpointsOnlyAdvance` lets a serial job go over to the native backend. It counts
  as begun once its checkpoint has a `stage` (`jobs.py:207`), which is first stored
  with the first worker's report (`agentteams_bridge.py:256`). Until then a dispatcher
  that comes back with `CYBERGUARD_AGENTTEAMS_BACKEND=native` goes on with it in
  the native backend, against `docs/AGENTTEAMS_TASK_SERVICE.md:46`. If the first
  worker had been asked, the receipt of that request is taken for that of an
  assignment, and a project is created that nobody is asked to work on.
- `EveryJobSettles` excepts `Forgotten`, a project that is found and that no team
  was asked to work on. Either an installation was replaced and a dispatcher
  without a lease then created the project again, or the job came over from the
  older backend with the receipt of a worker's request. A cancellation reads the job before the
  project is stored and then pauses nothing (`jobs.py:149-157`), although
  `docs/INVESTIGATION_TASKS.md:52` speaks of a pause.
- `ApprovalsAccounted` allows an unrecorded approval of a request whose answer was
  lost or whose console crashed, against the letter of
  `docs/OPERATIONS_CONSOLE.md:63`. Two concurrent requests with one idempotency key
  both run their handler; `RetryFindsReply` is about a retry after an answer. `Lookup`
  is one step where `idempotency.py:20-29` reads, looks at the age and deletes in
  three: a request may so delete a reply that another has just stored anew, but
  only of a key whose reply had once been 24 hours old, which `RetryFindsReply` excepts.
- `VerifiedSummaryHolds` excepts an open rollback: the summary looks for
  `rolled_back` and not for one dispatched or unknown. `GreenRunIsLive` needs none.
- `AdminRemains` excepts changes that crossed: two administrators can demote each
  other. Two setups that were both begun before either ended create two
  administrators. A login under way while its account is disabled leaves a
  session row, which opens nothing.
- `OpensSavedModel` excepts a rollback that was cut short or failed, a
  provisioning thread at work, and a model that was applied while a thread's
  rollback had written the old file back but not restarted the guard: the two
  then restart it in turn, and a death between them leaves a guard on the old
  model. It takes four run numbers to meet this last case, one more than the run
  has; the proof asked for it. Some failures leave the installation where every
  further initialisation fails (a plan directory without the guard's file,
  routes without a marker, a torn environment file with the container removed);
  they are refused, not shown as ready. `ready` after a restart between
  configuring and connecting does not imply that the console was reconnected.
- `AnswersHold`: a listing without a transaction may answer 409 while a call
  commits, never 200 with something that does not agree.
- `CompletedOwnsRun`: the report's own receipt may belong to a client who
  submitted the same report first. The record on disk may say completed where the
  returned one says failed to save.
- `IngestedOnce`: after a torn line the next run's first line is glued to the
  fragment, counted as appended, and found missing by the run after that. The
  gateway's reads fail while a torn line is there. Deduplication ignores the incident.
- `HarnessEndsSafely`: a second report of an earlier role that is filed late is
  taken for the next role's (`role_attribution` says not attested). A refused
  start still closes the guard of a run in progress. A killed harness leaves the
  guard open and Workers awake until the next start.

Fairness. For the executor, `Fairness` assumes weak fairness of three steps of the handler thread
only: sending after the intent, recording a receipt, and giving up when none
came, which the socket timeout of `lab.request` justifies. The laboratory, the
wire, clients and operators get none, so `LockReleased` holds though the
laboratory may never answer. No run claims that an action is ever completed:
the code says a lost request stays unresolved until a person acts, and it does.
In `ModelGuard`, a thread that has left the lock's queue goes on, the provider
answers or its socket times out, and a handler that holds the lock goes on (weak
fairness); a thread that waits for the lock gets it if it is free again and again
(strong fairness). Traces that fail to be written, operators, clients and
restarts get none.
In `InvestigationJobs` the dispatcher's loop goes on and a supervisor restarts
it, an unrenewed lease runs out, the operator opens the budget, a cancellation
that was begun ends, and whoever was asked answers or is attended to in the end
(weak fairness). Faults and submissions get none. That a job ends therefore
rests on people and teams that answer, and on nothing else: the loop polls the
oldest job, and the other waits behind it.

Each property of a passing run has a mutant in `PROJECT.json`: an operator next
to a definition, marked "Mutant" in its comment, that changes the definition as
a plausible bug would and under which TLC finds the property violated.

## 4. Proofs

Each theorem holds for every value of the constants that satisfies the modules'
named assumptions; these are typing facts (bounds are naturals, `NoJob` is no
job, modes are supported ones) and are stated where the constants are declared.
An inductive invariant is a conjunction of named parts, each shown to be kept by
one step per action and, under that, one per conjunct the action can disturb; the
properties the runs check are consequences of it. Every invariant was checked
with TLC under the bounds of its run before it was proved.

| Module | Theorems | Runs' properties stated |
| --- | --- | --- |
| `IdentityResponseProofs` | `InductiveInvariant`, `TypeCorrect`, `NeverReplayed`, `EffectsApproved`, `ActiveInForce`, `ReportsAreTrue`, `ClosedForGood`, `ContractImplemented` | all of `identity_response` |
| `HostResponseProofs` | `HostInvariantHolds`, `HostTypeCorrect`, `HostEffectsApproved`, `HostEffectsOnTarget`, `HostOutcomesTrue`, `HostHalfDoneOpen`, `CheckedInvariantHolds`, `HostVerdictsTrue`, `LiveInvariantHolds`, `LiveRunShowsRecovery` | all of `host_response` |
| `ModelGuardProofs` | `TypeCorrect`, `Invariant`, `NeverForwardedTwice`, `OrphanedRunsStop`, `StoppedRunsDrain`, `CountsBounded` | all safety of `model_guard` but the tokens |
| `InvestigationJobsProofs` | `JobsInvariant`, `JobsTypeCorrect`, `JobsEndedStayEnded`, `JobsCheckpointsAdvance`, `JobsCompletedAccepted`, `JobsOneAssignment`, `JobsAskedOnce`, `JobsAnswerNotSkipped` | all safety of `investigation_jobs` |
| `InvestigationIntakeProofs` | `IntakeInvariantHolds`, `AnswersAreSo`, `RunnerInvariantHolds`, `CompletedOwnsItsRun`, `UsageIsToldTruly` | `AnswersHold`, `CompletedOwnsRun`, `UsageIsTrue` |
| `OperationsConsoleProofs` | `ConsoleSystemSafe`, `SafeFromAnyState`, `SummariesHold`, `GreenRunsAreLive`, `RepliesAreBacked`, `RetriesFindReplies`, `ApprovalsAreAccounted` | all of `operations_console` |
| `ServicesProofs`: onboarding | `InstallationHolds`, `ReadyInstallationsAreComplete`, `SavedModelIsOpened` | `ReadyIsComplete`, `OpensSavedModel` |
| `ServicesProofs`: accounts | `AccessInvariantHolds`, `AdministratorRemains`, `GuessesStayBounded` | `AdminRemains`, `GuessesBounded` |
| `ServicesProofs`: adapter | `IngestHolds`, `EventsIngestedOnce` | `IngestedOnce` |
| `ServicesProofs`: harness | `SerialInvariantHolds`, `SerialHarnessSafe` | `HarnessEndsSafely` |

### The executor, with either laboratory

`ExecutorProofs` says what the executor's handlers keep whatever the laboratory
answers. Its invariant `ExecInvariant` is the types and

- `ProposalsFirst`: a history starts with its proposal, so the binding checks
  always look at the same record;
- `IntentsApproved`: every recorded intent to execute cites an approval of this
  proposal that had not expired;
- `SentAfterIntent` and `CallIntended`: nothing is sent, and no handler waits, for
  an operation whose intent is not in the journal.

`IdentityResponseProofs` adds what ties the journal to the identity laboratory.
The properties are not inductive by themselves: nothing in `ActiveIsInForce` says
why a late disable cannot take an account that is active for somebody else, or
why a reconciliation asks about the right phase.

- `LastTells`: the last record tells how far an action has gone, and one whose
  rollback was dispatched is no longer active; this is why reconciliation, which
  goes by the last record, asks about the right phase;
- `IntentBeforePost` and `WireWasPosted`: nothing is posted that is not in the
  journal, nothing twice, and what is on the wire or has a receipt was posted;
- `CallIsOpen`: a handler that waits for the laboratory works on a dispatched
  operation without an outcome, and has only seen receipts that exist;
- `OutcomesHaveReceipts` and `OwnerHoldsAccount`: outcomes have receipts, and
  the account's owner is the one action whose disable but not whose restore was
  applied.

`ContractImplemented` says that the same specification implements
`ContainmentContract`: initial states map to initial states, and every step maps
to a step of the contract or a stutter, by cases on the record appended and on
the laboratory's transaction.

`HostResponseProofs` rests on one chain, each link of which is written before the
next: approved intent in the journal, receipt *unknown* in the laboratory, effect on
the host, complete receipt, answer, outcome in the journal. The parts of
`HostInvariant` are its links:

- `TargetsSeen` and `ReceiptsIntended`: a proposal names an environment and a
  process there have been; the laboratory knows no operation without an intent;
- `EffectsReceipted`, `EffectsNamed`: an effect has a receipt, is of the kind and
  on the process or environment its proposal names, and happened once;
- `StagesTrue`: what the operation that holds the laboratory's lock has and has not
  done at each of its stages, restarts of the supervisor in between;
- `AppliedTrue`: a complete receipt is true *and stays true* of this environment.
  That needs `FileTaken`: once the persistence file is gone an operation took it,
  and the supervisor starts nothing again;
- `AnswersBacked`: an answer in hand, and an outcome in the journal, is the
  laboratory's complete receipt.

For the gateway's check, which reads the audit and then several snapshots while
everything else goes on, `CheckTrue` adds that the snapshots taken so far, when
clean in their own environment, are clean for good, so that the verdict is as
true at its end as at its last snapshot. `HostVerdictsTrue` follows.

The live run is proved on top of that, as `LiveSpec`: the script is the only client
of executor and check, as `scripts/live-host-response.py` assumes, or it is not run
and anybody calls. `LiveInvariant` says that processes are seen in the order they
were started, that what was done so far was done to processes the script had seen
before, and that the one file can only have gone with an action of the kind
`disable_persistence`, which no round before the second proposes; the environment
never changes. So a process that is seen after the first response is another one,
and a run that passes has verified the action that took the file.

### The model guard

`ModelGuardProofs` proves, for every set of requests and roles and for all limits,
reservations and reports, what `model_guard` checks except for tokens. The
invariant is `TypeOK`, `ThreadTells` (a thread between admission and dispatch has a
pending row and the provider has heard nothing; one that forwards has a
dispatched row and has not yet forwarded) and `OrphanedRunIsDead` (with an orphan
no request is prepared, no thread runs, and nobody is between the two steps of
arming). `CountsBounded` rests on `LedgerCounts`, the limits in the ledger's own
terms: a reservation adds one row, under each limit, and no other transaction
adds a row or takes a settlement back.

### Investigation jobs

`InvestigationJobsProofs` proves the queue, both backends and their workers
together, for any number of jobs and dispatchers. A dispatcher whose lease has run
out goes on working on a checkpoint it has copied, while another takes over; the
invariant says what its copy is worth:

- `HolderUpToDate` and `CopyNotAhead`: the holder of the lease works on the stored
  checkpoint, and everybody else on one that the stored one has gone on from.
  `CheckpointsOnlyAdvance` and `EndedStaysEnded` follow with the write's guard.
  `ChosenNative` is the one lemma about the environment: a copy that goes to the
  native backend is native, new, or serial at its first stage;
- `CheckpointsGrounded` and `CompletionsBacked`: what any checkpoint, stored or in
  hand, says of rooms, reports and cursors is so outside, and what completes a
  job was accepted there;
- `CopiesBound`, `RequestsBound`, `RequestsOnce`, `AnswersAsked`, `NothingSkipped`:
  all bound copies of a serial job have one credential, a worker was asked under it
  and only after its cursor was set, so it is asked once and its answer comes after
  the cursor. `CopiesBound` is needed beside the stored checkpoint because that may
  have become a native one, which keeps no credential, while a late dispatcher
  still holds a serial copy;
- `OneRoomPerAttempt`: a function from attempts to rooms exists of which every
  assignment, and every checkpoint with a room, is a value. It is a witness each
  step extends, never state of the code. As an assignment is its room and its
  credential, `OneAssignmentPerAttempt` follows for each credential; nothing
  bounds them across credentials.

### The investigation store and its runner

`InvestigationIntakeProofs` proves the store for callers that ask anything at any
time (`IntakeSpec`). A caller in a transaction is the writer and its draft only
adds to what is committed (`OneWriter`, `DraftAdds`); receipts are numbered as the
calls that were used, and they and the reports of a run account for each other,
in the database and, but for the one report that is about to be written, in the
draft (`Sound`, `DraftSound`). Runs therefore only grow, so that the receipt a
call was answered with stays in its place (`CallTrue`). For a listing, which has no
transaction, `ListingTrue` says that what it has read is a beginning of the run, and
that if no receipt was added since it read the reports, those are the reports of
its receipts: that is what its second count establishes.

`RunnerSpec` puts attempts over that store, beside any other callers. `Owns`
says that an attempt that has counted `n` receipts owns the first `n` of its run:
each acknowledged receipt must be numbered one more than the last, and numbers are
places. As a read precedes the report, the first receipt of a completed run is the
attempt's, which rules out a second one. `Pays` and `Shows` relate what was spent,
recorded and billed: they differ only while an answer is awaited, and a final
record is written when nothing more will be billed.

### Decisions and evidence

`OperationsConsoleProofs` proves the console, the journal of the gateway, its
evidence and the executor together as `ConsoleSystemSpec`, which is more than the
run has: the executor also gets proposals, reconciliations, crashes and any answer
of a laboratory. `SafeFromAnyState` says that the run's own steps keep the
invariant from any state that has it, and TLC finds it in the run's initial states,
which lie in the middle of an incident. The invariant has four parts.

- `JournalInvariant` adds to the executor's `ExecInvariant` that a rollback follows
  an execution and nothing but its own outcome comes after it (`RollbackTells`), and
  that a handler waits for an operation that is still open (`CallStillOpen`). Hence
  what was executed is active, unless its rollback was begun.
- `VerdictsStand`: what a verified record rests on, in the file or in a collector's
  hand, was executed, whenever it was read. With the first part this is what the
  summary and the run view show, though each reads evidence and audit at two times.
- `ThreadHonest`, `StoredBacked` and `AnswersKept`: what a thread of the console has
  reached with what it holds; that a stored reply is true of its order; and that a
  recorded answer with a key is found until its day is over. Two requests with one
  key may both run their handler, and the second must not take the first one's
  reply away.
- `Accounted`: rows and requests past their approval do not exceed the approvals in
  the executor's journal, which do not exceed rows and requests that are under way,
  refused or cut off. The counts are cardinalities; a step moves one request, one
  row or one approval from one set to another.

`ConsoleShape` gives the types: the session a thread works on is whatever the journal
named, since the order of the sessions comes from `SelectSeq`, of whose recursive
definition nothing can be proved here. The proof needs that a thread of the console
is no thread of an agent, and that the requests are finitely many.

### The onboarding service

`ServicesProofs` proves `ReadyIsComplete` for any number of provisioning threads
(`InstallationInvariant`): each thing that was made rests on what is made before it
(`InOrder`), and every actor has what its next step needs (`InHand`), whatever fails,
is done half or is repeated.

`OpensSavedModel` is proved for behaviours in which one thread provisions at a time
(`OneProvisioner`). `onboarding_overlap` shows that a second can be begun while the
first rolls back; for such behaviours nothing is proved. A thread beside which
something else works is at the end of its rollback (`ThreadsLate`); a run number is
given to one model (`RunsTold`); files hold what their writer has written so far
(`WrittenBy`); and unless a change is unsure (`GuardAgrees`) a guard about to be
replaced has a closed run, and the guard, or the file that will start one, has the
model of the files or a run that is over. `open_budget` arms no guard whose run is
over, which is why that is enough.

### The serial harness

`ServicesProofs` proves `HarnessEndsSafely` for any number of roles, requests,
reports and denials and any number of starts. `InTurn` and `AtStage` are the core:
before a role is asked all earlier ones have spent and gone to sleep, and while the
harness is at a stage only that role can be served. `ReportsSeen` counts one
report a stage, `SuccessBacked` says what success has brought about and that it
lasts until the result is written, `CleanedUp` what a cleanup that is called clean
has closed, whatever failed on the way.

### Accounts and logins

`ServicesProofs` proves that an enabled administrator remains whatever
administrators do to each other in interleaved requests, and that the recent
failures of a user never exceed the threshold by more than the logins at work.
The latter is not inductive, since a login that has found the password wrong has
yet to write its failure: `GuessesCounted` counts those with the failures written.
It assumes finitely many users and logins.

### The sensor's adapter

`ServicesProofs` proves `IngestedOnce` for any events, exports and number of runs,
and whatever the gateway appends among their lines. Per run (`RunTrue`): the digests
it read are on lines that are there, and are all that were there (`ReadTrue`); it
writes what it did not know (`WritesNew`), each event once (`WritesOnce`); its buffer
holds new events once each (`Buffered`); an event it was asked for is known, in the
buffer or written (`NoneLost`). One lemma carries the file: a piece more changes no
line before it (`LinesStay`), so what was read stays read whatever is torn later. The
buffer lists the first places of the new events, numbered by how many come up to each
(`FirstsListed`, on cardinalities alone). The workflow is opened by the runs
(`JournalOpened`): in this scene the gateway's own clients do not transition.

### What is only model-checked

`TokensWithinLimits`: sums of tokens are folds over a set, about which nothing can
be proved here without induction. `LockReleased`, `ThreadsEnd` and `EveryJobSettles`
are liveness under fairness, which the provers cannot state.

## 5. Plan

What was planned is modelled, checked and, where the provers allow it, proved. A
next step would be `OpensSavedModel` with two provisioning threads, once the service
decides what the second one should see. No module declares a RECURSIVE operator.

## 6. Not modelled

- The conversion of connector records (`normalization.py`), the knowledge lookup,
  the collector, analysis and evaluation: sequential functions of one input
  whose results nothing here depends on. Only the quality score is modelled.
- Rendering, form validation, configuration, CSRF and origin checks of the
  console; credentials and roles elsewhere. Each guards a single request.
- What the pages show of a running native team, and audit rows other than
  decisions and logins: nothing reads them again.
- Scripts that export, package, validate, install or demonstrate; prompts, skills,
  benchmark and assets. They keep no state of their own.
- `ensure_public_demo_admin` (`auth.py:121-136`), which only adds an administrator
  at a start in demo mode; a Console override that is half written
  (`configure-native-team.py:82` writes it in place), and then no longer
  parses for the next step's compose command; the process laboratory's records in `GatewayEvidence`, whose
  verdict is any the identity check could give.
- Several harnesses or onboarding services over one installation, and files
  changed by hand: the documents exclude them.
