------------------------- MODULE OnboardingService --------------------------
(***************************************************************************)
(* The privileged onboarding service, deploy/onboarding/service.py, asked  *)
(* by the Console: save a model and apply it, initialize the installation, *)
(* open the model budget.                                                  *)
(*                                                                         *)
(* One lock serialises the requests; a request that came after the bridge  *)
(* gave up waiting is not different from one whose answer is lost.  The    *)
(* lock is not held by the thread that initialize starts, so the actors    *)
(* are one handler and the provisioning threads.  They share the phase,    *)
(* which is in memory.  Any command may fail, and the service may die      *)
(* between any two of them.                                                *)
(***************************************************************************)
EXTENDS GuardInstallation

CONSTANTS
  Handler,       \* the request that holds the lock
  Provisioners   \* bound on the provisioning threads at work

ASSUME ServiceAssumption ==
  Handler \notin Provisioners /\ IsFiniteSet(Provisioners)

VARIABLES
  phase,    \* state["phase"]
  at,       \* [actor -> what it does next]
  args,     \* [actor -> the model, the configurations it works with]
  unsure    \* a change of the guard was cut short, not undone, or begun
            \* beside a provisioning thread

serviceVars == <<phase, at, args, unsure>>
onboardingVars == <<serviceVars, installVars>>

Actors == Provisioners \cup {Handler}

Applying == {"file", "env", "swap", "start", "await"}
Undoing  == {"undo file", "undo env", "undo swap", "undo start", "undo await"}
Renewing == {"new file", "new env", "new swap", "new start"}
Stages ==
  Applying \cup Undoing \cup Renewing \cup
  {"off", "apply", "store", "open", "arm", "begin", "wait guard", "check",
   "platform", "config", "team", "routes", "marker", "create", "workers",
   "configure", "connect", "verify"}

NoArgs == [model |-> NoModel, old |-> NoConfig, new |-> NoConfig]

ServiceInit ==
  /\ phase = "idle"
  /\ at = [a \in Actors |-> "off"]
  /\ args = [a \in Actors |-> NoArgs]
  /\ unsure = FALSE

-----------------------------------------------------------------------------
(* What an actor does next; a thread that fails says so in the phase, a    *)
(* request answers with the error.                                         *)

Goto(a, stage) == at' = [at EXCEPT ![a] = stage]

Finish(a) ==
  /\ Goto(a, "off")
  /\ args' = [args EXCEPT ![a] = NoArgs]

Fail(a) ==
  /\ Finish(a)
  /\ phase' = IF a \in Provisioners THEN "failed" ELSE phase

Keep == UNCHANGED <<phase, args, unsure>>

(* ensure_idle: without a configuration there is nothing to disturb.       *)
(* Requests in flight or a job in the queue may refuse it at any time.     *)
Idle(closed) ==
  ~Prepared \/ (guard.up /\ ~guard.armed /\ (closed => ~RunOpen))

(* wait_guard: the guard answers, with that run.                           *)
Answers(c) == guard.up /\ guard.cfg.run = c.run

(* Mutant: that some model is saved is enough.                             *)
NothingSaved == StoredModel = NoModel

(* guard_file's model, endpoint and key against the saved ones.            *)
PendingApply == files.guard.model # StoredModel

-----------------------------------------------------------------------------
(* Requests.                                                               *)

Ask(stage, model) ==
  /\ at[Handler] = "off"
  /\ phase # "initializing"
  /\ Goto(Handler, stage)
  /\ args' = [args EXCEPT ![Handler] = [NoArgs EXCEPT !.model = model]]
  /\ UNCHANGED <<phase, unsure, installVars>>

SaveModel(m)  == Ask("store", m)
ApplyModel(m) == Ask("apply", m)
OpenBudget    == Ask("open", NoModel)

(* The end of save_model.  Without a configuration apply_model applied     *)
(* nothing.  The new model is written last; an applied one makes the       *)
(* phase idle.                                                             *)
Store ==
  /\ at[Handler] = "store"
  /\ files' = [files EXCEPT !.stored = args[Handler].model]
  /\ phase' = IF args[Handler].new # NoConfig THEN "idle" ELSE phase
  /\ Finish(Handler)
  /\ UNCHANGED <<unsure, guard, ledger, platform, lastRun>>

(* initialize: a model must be saved; a guard that runs must not be in     *)
(* use.                                                                    *)
Initialize(p) ==
  /\ at[Handler] = "off"
  /\ phase # "initializing"
  /\ StoredModel # NoModel
  /\ guard.up => Idle(FALSE)
  /\ at[p] = "off"
  /\ phase' = "initializing"
  /\ Goto(p, "begin")
  /\ UNCHANGED <<args, unsure, installVars>>

-----------------------------------------------------------------------------
(* apply_model, by the request or by a provisioning thread.                *)

(* What follows an applied model.                                          *)
AfterApply(a) == IF a = Handler THEN "store" ELSE "team"

(* Nothing to do, or a fresh run for the new model.  new records that the  *)
(* model was applied.                                                      *)
BeginApply(a) ==
  /\ at[a] = "apply"
  /\ LET m == args[a].model
         fresh == [run |-> lastRun + 1, model |-> m]
     IN \/ /\ ~Prepared \/ files.guard.model = m
           /\ Goto(a, AfterApply(a))
           /\ args' = [args EXCEPT ![a].new = files.guard]
           /\ UNCHANGED <<lastRun, unsure>>
        \/ /\ Prepared /\ files.guard.model # m
           /\ Idle(TRUE)
           /\ lastRun < MaxRun
           /\ lastRun' = lastRun + 1
           /\ Goto(a, "file")
           /\ args' = [args EXCEPT ![a].old = files.guard, ![a].new = fresh]
           /\ unsure' = (unsure \/ \E p \in Provisioners \ {a} : at[p] # "off")
  /\ UNCHANGED <<phase, files, guard, ledger, platform>>

RefuseApply(a) ==
  /\ at[a] = "apply"
  /\ Prepared /\ files.guard.model # args[a].model
  /\ Fail(a)
  /\ UNCHANGED <<unsure, installVars>>

WriteFile(a, from, to, value) ==
  /\ at[a] = from
  /\ files' = [files EXCEPT !.guard = value]
  /\ Goto(a, to)
  /\ Keep
  /\ UNCHANGED <<guard, ledger, platform, lastRun>>

WriteEnv(a, from, to, value) ==
  /\ at[a] = from
  /\ files' = [files EXCEPT !.env = value]
  /\ Goto(a, to)
  /\ Keep
  /\ UNCHANGED <<guard, ledger, platform, lastRun>>

(* Stop and remove the container, then start one.                          *)
Swap(a, from, to) ==
  /\ at[a] = from
  /\ StopGuard(TRUE)
  /\ Goto(a, to)
  /\ Keep
  /\ UNCHANGED <<files, ledger, platform, lastRun>>

StartNew(a, from, to) ==
  /\ at[a] = from
  /\ RunGuard
  /\ Goto(a, to)
  /\ Keep
  /\ UNCHANGED <<files, platform, lastRun>>

Apply(a) ==
  \/ WriteFile(a, "file", "env", args[a].new)
  \/ WriteEnv(a, "env", "swap", args[a].new)
  \/ Swap(a, "swap", "start")
  \/ StartNew(a, "start", "await")

Applied(a) ==
  /\ at[a] = "await"
  /\ Answers(args[a].new)
  /\ Goto(a, AfterApply(a))
  /\ unsure' = FALSE
  /\ UNCHANGED <<phase, args, installVars>>

(* A command of apply_model fails, or the guard does not answer in time.   *)
ApplyFails(a) ==
  /\ at[a] \in Applying
  /\ Goto(a, "undo file")
  /\ Keep
  /\ \/ UNCHANGED <<guard, ledger>>
     \/ at[a] = "swap" /\ StopGuard(FALSE) /\ UNCHANGED ledger
     \/ at[a] = "start" /\ RunGuard
  /\ UNCHANGED <<files, platform, lastRun>>

(* The handler of that failure restores the files, calls the phase failed, *)
(* and restarts the guard; the failures of these commands it ignores.      *)
UndoEnv(a) ==
  /\ at[a] = "undo env"
  /\ files' = [files EXCEPT !.env = args[a].old]
  /\ phase' = "failed"
  /\ Goto(a, "undo swap")
  /\ UNCHANGED <<args, unsure, guard, ledger, platform, lastRun>>

UndoSwap(a) ==
  /\ at[a] = "undo swap"
  /\ \/ \E removed \in BOOLEAN : StopGuard(removed)
     \/ UNCHANGED guard
  /\ Goto(a, "undo start")
  /\ Keep
  /\ UNCHANGED <<files, ledger, platform, lastRun>>

Undo(a) ==
  \/ WriteFile(a, "undo file", "undo env", args[a].old)
  \/ UndoEnv(a)
  \/ UndoSwap(a)
  \/ StartNew(a, "undo start", "undo await")

Undone(a) ==
  /\ at[a] \in {"undo start", "undo await"}
  /\ unsure' = (at[a] = "undo start" \/ ~Answers(args[a].old) \/ unsure)
  /\ Fail(a)
  /\ UNCHANGED installVars

ApplyStep(a) ==
  \/ BeginApply(a) \/ RefuseApply(a) \/ Apply(a) \/ Applied(a)
  \/ ApplyFails(a) \/ Undo(a) \/ Undone(a)

-----------------------------------------------------------------------------
(* open_budget.                                                            *)

BeginOpen ==
  /\ at[Handler] = "open"
  /\ Prepared /\ ~PendingApply /\ guard.up
  /\ \/ /\ guard.armed
        /\ Finish(Handler)
        /\ UNCHANGED lastRun
     \/ /\ RunOpen /\ ~guard.armed
        /\ Goto(Handler, "arm")
        /\ UNCHANGED <<args, lastRun>>
     \/ /\ RunClosed
        /\ lastRun < MaxRun
        /\ lastRun' = lastRun + 1
        /\ Goto(Handler, "new file")
        /\ args' = [args EXCEPT ![Handler].new =
                      [files.guard EXCEPT !.run = lastRun + 1]]
  /\ UNCHANGED <<phase, unsure, files, guard, ledger, platform>>

(* budget.py new-run.                                                      *)
NewRun ==
  \/ WriteFile(Handler, "new file", "new env", args[Handler].new)
  \/ WriteEnv(Handler, "new env", "new swap", args[Handler].new)
  \/ Swap(Handler, "new swap", "new start")
  \/ StartNew(Handler, "new start", "arm")

Arm ==
  /\ at[Handler] = "arm"
  /\ ArmGuard
  /\ Finish(Handler)
  /\ UNCHANGED <<phase, unsure, files, ledger, platform, lastRun>>

(* A check refuses, a step of the script fails, the guard never answers.   *)
OpenFails ==
  /\ at[Handler] \in {"open", "arm"} \cup Renewing
  /\ \/ UNCHANGED guard
     \/ at[Handler] = "new swap" /\ StopGuard(FALSE)
  /\ Fail(Handler)
  /\ UNCHANGED <<unsure, files, ledger, platform, lastRun>>

HandlerStep ==
  \/ \E m \in Models : SaveModel(m) \/ ApplyModel(m)
  \/ OpenBudget \/ BeginOpen \/ NewRun \/ Arm \/ OpenFails
  \/ Store
  \/ \E p \in Provisioners : Initialize(p)

-----------------------------------------------------------------------------
(* provision.                                                              *)

(* restore_guard, with the model of the moment.                            *)
Restore(p) ==
  /\ at[p] = "begin"
  /\ args' = [args EXCEPT ![p].model = StoredModel]
  /\ \/ /\ ~Prepared \/ guard.up
        /\ Goto(p, "check")
        /\ UNCHANGED <<guard, ledger>>
     \/ /\ Prepared
        /\ StartGuard \/ RunGuard
        /\ Goto(p, "wait guard")
  /\ UNCHANGED <<phase, unsure, files, platform, lastRun>>

Restored(p) ==
  /\ at[p] = "wait guard"
  /\ Answers(files.guard)
  /\ Goto(p, "check")
  /\ unsure' = FALSE
  /\ UNCHANGED <<phase, args, installVars>>

CheckIdle(p) ==
  /\ at[p] = "check"
  /\ Idle(FALSE)
  /\ Goto(p, "platform")
  /\ Keep /\ UNCHANGED installVars

(* The controller runs, is started, or is built and started.               *)
RunPlatform(p) ==
  /\ at[p] = "platform"
  /\ platform' = [platform EXCEPT !.controller = "running"]
  /\ Goto(p, IF Prepared THEN "apply" ELSE "config")
  /\ Keep /\ UNCHANGED <<files, guard, ledger, lastRun>>

Prepare(p) ==
  /\ at[p] = "config"
  /\ PrepareTeam(args[p].model, 4)
  /\ Goto(p, "team")
  /\ Keep

(* Mutant: routes that exist are taken for a finished registration.        *)
NextByRoutes ==
  IF files.deployment THEN "workers"
  ELSE IF platform.routes # {} THEN "create" ELSE "routes"

(* Nothing to do for a team that is ready.  What was created once is not   *)
(* created again: deployment.json and the marker say so.                   *)
NextOfTeam ==
  IF files.deployment THEN "workers"
  ELSE IF files.marker THEN "create" ELSE "routes"

InspectTeam(p) ==
  /\ at[p] = "team"
  /\ \/ files.runtimeReady /\ TeamComplete /\ Goto(p, "connect")
     \/ Goto(p, NextOfTeam)
  /\ Keep /\ UNCHANGED installVars

Register(p) ==
  /\ at[p] = "routes"
  /\ RegisterRoutes(Roles)
  /\ Goto(p, "marker")
  /\ Keep /\ UNCHANGED files

WriteMarker(p) ==
  /\ at[p] = "marker"
  /\ files' = [files EXCEPT !.marker = TRUE]
  /\ Goto(p, "create")
  /\ Keep /\ UNCHANGED <<guard, ledger, platform, lastRun>>

Create(p) ==
  /\ at[p] = "create"
  /\ CreateTeam(Roles, TRUE, TRUE)
  /\ Goto(p, "workers")
  /\ Keep

(* Wake the Workers of the manifest, install, restart, wait.               *)
InstallWorkers(p) ==
  /\ at[p] = "workers"
  /\ InstallCollaboration
  /\ Goto(p, "configure")
  /\ Keep

Configure(p) ==
  /\ at[p] = "configure"
  /\ ConfigureTeam(TRUE)
  /\ Goto(p, "connect")
  /\ Keep

Connect(p) ==
  /\ at[p] = "connect"
  /\ ConnectConsole
  /\ Goto(p, "verify")
  /\ Keep

Complete(p) ==
  /\ at[p] = "verify"
  /\ TeamComplete
  /\ phase' = "ready"
  /\ Finish(p)
  /\ UNCHANGED <<unsure, installVars>>

(* A step fails, perhaps with part of its work done.                       *)
HalfDone(p) ==
  \/ at[p] = "config" /\ \E done \in 0..3 : PrepareTeam(args[p].model, done)
  \/ /\ at[p] = "routes"
     /\ \E done \in SUBSET Roles : RegisterRoutes(done)
     /\ UNCHANGED files
  \/ /\ at[p] = "create"
     /\ \E done \in SUBSET Roles, audit \in BOOLEAN :
          CreateTeam(done, FALSE, audit)
  \/ at[p] = "configure" /\ ConfigureTeam(FALSE)

ProvisionFails(p) ==
  /\ at[p] \notin {"off", "apply"} \cup Applying \cup Undoing
  /\ Fail(p)
  /\ HalfDone(p) \/ UNCHANGED installVars
  /\ UNCHANGED unsure

ProvisionStep(p) ==
  \/ Restore(p) \/ Restored(p) \/ CheckIdle(p) \/ RunPlatform(p)
  \/ Prepare(p) \/ InspectTeam(p) \/ Register(p) \/ WriteMarker(p)
  \/ Create(p) \/ InstallWorkers(p) \/ Configure(p) \/ Connect(p)
  \/ Complete(p) \/ ProvisionFails(p)

-----------------------------------------------------------------------------
(* The service dies with its threads and starts again, its phase idle.     *)
Restart ==
  /\ phase' = "idle"
  /\ at' = [a \in Actors |-> "off"]
  /\ args' = [a \in Actors |-> NoArgs]
  /\ unsure' = (unsure \/ \E a \in Actors : at[a] \in Undoing)
  /\ UNCHANGED installVars

ServiceStep ==
  \/ HandlerStep
  \/ \E a \in Actors : ApplyStep(a)
  \/ \E p \in Provisioners : ProvisionStep(p)
  \/ Restart
  \/ OthersStep /\ UNCHANGED serviceVars

OnboardingInit == FreshInit /\ ServiceInit
OnboardingSpec == OnboardingInit /\ [][ServiceStep]_onboardingVars

-----------------------------------------------------------------------------
(* Properties.                                                             *)

OnboardingTypeOK ==
  /\ InstallTypeOK
  /\ phase \in {"idle", "initializing", "failed", "ready"}
  /\ at \in [Actors -> Stages]
  /\ args \in [Actors -> [model : Models \cup {NoModel},
                          old : Configs \cup {NoConfig},
                          new : Configs \cup {NoConfig}]]
  /\ unsure \in BOOLEAN

(* status: the Console shows the installation ready.                       *)
ReportedReady ==
  /\ files.runtimeReady /\ phase \in {"idle", "ready"}
  /\ guard.up /\ TeamComplete

(* An installation shown as ready has everything the steps of provision    *)
(* produce, whatever failed, was repeated or was cut short on the way to   *)
(* it: the guard's configuration, the plan, a route for every role, the    *)
(* Workers with the collaboration tools, and the override the Console is   *)
(* connected with.                                                         *)
ReadyIsComplete ==
  ReportedReady =>
    /\ Prepared /\ files.plan # NoConfig
    /\ platform.routes = Roles /\ platform.workers = Roles
    /\ platform.installed /\ files.override

(* "Initialize the saved model configuration before enabling               *)
(* investigations": the guard that open_budget arms runs the saved model,  *)
(* unless a provisioning thread is at work, a rollback of the guard was    *)
(* cut short or did not bring the previous guard back, of which the error  *)
(* says "verify model service availability", or a model was applied while  *)
(* a thread's rollback had the guard's file already back.                  *)
OpensSavedModel ==
  [][Arm => \/ guard.cfg.model = StoredModel
            \/ unsure
            \/ \E p \in Provisioners : at[p] # "off"]_onboardingVars

(* "Wait for initialization to finish": one thread provisions at a time.   *)
OneProvisioner == Cardinality({p \in Provisioners : at[p] # "off"}) <= 1
=============================================================================
