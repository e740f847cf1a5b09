------------------------- MODULE GuardInstallation --------------------------
(***************************************************************************)
(* What the onboarding service of deploy/onboarding/service.py works on:   *)
(* the private files, the container of the model guard with the ledger in  *)
(* its volume, and the AgentTeams platform, as the scripts under           *)
(* deploy/investigation-service and deploy/agentteams-local change them.   *)
(*                                                                         *)
(* A model stands for its base URL, its name and its key together.  A      *)
(* configuration is what a start of the guard binds: a run and a model.    *)
(* Role credentials, limits and the admin token never change.              *)
(***************************************************************************)
EXTENDS Naturals, FiniteSets

CONSTANTS
  Models,   \* model configurations an administrator enters
  NoModel,
  Roles,    \* roles of the team, a Worker and a route each
  MaxRun    \* bound on the run ids handed out

ASSUME InstallationAssumption ==
  /\ NoModel \notin Models
  /\ IsFiniteSet(Roles) /\ Roles # {}
  /\ MaxRun \in Nat

VARIABLES
  files,     \* the private directory and the plan
  guard,     \* container cyberguard-native-model-guard
  ledger,    \* [run -> its status in the ledger]
  platform,  \* controller, routes, Workers, team, Console
  lastRun    \* run ids are fresh: here, counted

installVars == <<files, guard, ledger, platform, lastRun>>

Runs     == 1..MaxRun
Configs  == [run : Runs, model : Models]
NoConfig == [run |-> 0, model |-> NoModel]

(* plan is the manifest, NoConfig while there is none; the directory may   *)
(* exist without it.  override is console.override.json, marker            *)
(* onboarding-routes-registered.json.                                      *)
Files ==
  [guard : Configs \cup {NoConfig}, env : Configs \cup {NoConfig},
   stored : Models \cup {NoModel}, planned : BOOLEAN,
   plan : Configs \cup {NoConfig}, marker : BOOLEAN, deployment : BOOLEAN,
   override : BOOLEAN, runtimeReady : BOOLEAN]
Containers ==
  [exists : BOOLEAN, up : BOOLEAN, cfg : Configs \cup {NoConfig},
   armed : BOOLEAN]
Platforms ==
  [controller : {"absent", "stopped", "running"}, routes : SUBSET Roles,
   workers : SUBSET Roles, team : BOOLEAN, installed : BOOLEAN,
   connected : BOOLEAN]

NoContainer == [exists |-> FALSE, up |-> FALSE, cfg |-> NoConfig,
                armed |-> FALSE]

Prepared == files.guard # NoConfig

(* stored_model: the saved model, or else the one in the guard's file.     *)
StoredModel ==
  IF files.stored # NoModel THEN files.stored ELSE files.guard.model

RunOpen   == guard.up /\ ledger[guard.cfg.run] = "open"
RunClosed == guard.up /\ ledger[guard.cfg.run] = "closed"

FreshInit ==
  /\ files = [guard |-> NoConfig, env |-> NoConfig, stored |-> NoModel,
              planned |-> FALSE, plan |-> NoConfig, marker |-> FALSE,
              deployment |-> FALSE, override |-> FALSE,
              runtimeReady |-> FALSE]
  /\ guard = NoContainer
  /\ ledger = [r \in Runs |-> "none"]
  /\ platform = [controller |-> "absent", routes |-> {}, workers |-> {},
                 team |-> FALSE, installed |-> FALSE, connected |-> FALSE]
  /\ lastRun = 0

-----------------------------------------------------------------------------
(* The container.  A guard that starts opens its run in the ledger, or     *)
(* finds it there.  A run is never given to two models, so the guard's     *)
(* own check of what a run is bound to cannot fail.                        *)
Started(c) ==
  /\ guard' = [exists |-> TRUE, up |-> TRUE, cfg |-> c, armed |-> FALSE]
  /\ ledger' = [ledger EXCEPT ![c.run] = IF @ = "none" THEN "open" ELSE @]

(* start_guard, docker run: the environment file is read, and a container  *)
(* of that name must not exist.                                            *)
RunGuard == ~guard.exists /\ files.env # NoConfig /\ Started(files.env)

(* docker start keeps the environment the container was created with.      *)
StartGuard == guard.exists /\ ~guard.up /\ Started(guard.cfg)

(* docker stop and docker rm; the second may fail after the first.         *)
StopGuard(removed) ==
  /\ guard.exists
  /\ guard' = IF removed THEN NoContainer
              ELSE [guard EXCEPT !.up = FALSE, !.armed = FALSE]

(* POST /admin/arm.                                                        *)
ArmGuard ==
  /\ RunOpen
  /\ guard' = [guard EXCEPT !.armed = TRUE]

-----------------------------------------------------------------------------
(* Others: the operator's budget.py, and what happens by itself.           *)

OperatorArms == ArmGuard /\ UNCHANGED <<files, ledger, platform, lastRun>>

(* budget.py close, or the guard closes its run after a failure.           *)
RunCloses ==
  /\ RunOpen
  /\ guard' = [guard EXCEPT !.armed = FALSE]
  /\ ledger' = [ledger EXCEPT ![guard.cfg.run] = "closed"]
  /\ UNCHANGED <<files, platform, lastRun>>

(* The guard restarts, disarmed; the host's containers are stopped.        *)
GuardRestarts ==
  /\ guard.armed
  /\ guard' = [guard EXCEPT !.armed = FALSE]
  /\ UNCHANGED <<files, ledger, platform, lastRun>>

HostStops ==
  /\ platform.controller = "running"
  /\ guard' = [guard EXCEPT !.up = FALSE, !.armed = FALSE]
  /\ platform' = [platform EXCEPT !.controller = "stopped"]
  /\ UNCHANGED <<files, ledger, lastRun>>

OthersStep == OperatorArms \/ RunCloses \/ GuardRestarts \/ HostStops

-----------------------------------------------------------------------------
(* The scripts.  Each may fail after any part of its work.                 *)

(* prepare-native-team.py refuses to touch an existing plan or             *)
(* configuration; then it writes the plan, the guard's two files, and      *)
(* starts the guard.                                                       *)
PrepareTeam(m, done) ==
  /\ ~Prepared /\ ~files.planned
  /\ lastRun < MaxRun
  /\ lastRun' = lastRun + 1
  /\ LET c == [run |-> lastRun + 1, model |-> m] IN
     /\ files' = [files EXCEPT
          !.planned = TRUE,
          !.plan  = IF done >= 1 THEN c ELSE @,
          !.guard = IF done >= 2 THEN c ELSE @,
          !.env   = IF done >= 3 THEN c ELSE @]
     /\ IF done = 4 THEN ~guard.exists /\ Started(c)
                    ELSE UNCHANGED <<guard, ledger>>
  /\ UNCHANGED platform

(* register-guarded-routes.py: run and model must be those of the plan,    *)
(* the guard disarmed, and none of the routes there already.  The files    *)
(* are the caller's: it writes the marker.                                 *)
RegisterRoutes(done) ==
  /\ files.plan # NoConfig
  /\ files.env = files.plan
  /\ guard.up /\ ~guard.armed
  /\ platform.routes = {}
  /\ platform' = [platform EXCEPT !.routes = done]
  /\ UNCHANGED <<guard, ledger, lastRun>>

(* apply-guarded-team.py: no such Worker or team may exist.  The audit     *)
(* file deployment.json is written after each Worker, the team comes last. *)
CreateTeam(done, team, audit) ==
  /\ files.plan # NoConfig
  /\ ~files.deployment
  /\ platform.workers = {} /\ ~platform.team
  /\ guard.up /\ ~guard.armed
  /\ team => done = Roles
  /\ audit => done # {}
  /\ ~audit => Cardinality(done) <= 1 /\ ~team
  /\ platform' = [platform EXCEPT !.workers = done, !.team = team]
  /\ files' = [files EXCEPT !.deployment = audit]
  /\ UNCHANGED <<guard, ledger, lastRun>>

(* Waking the Workers, install-collaboration.py and their restart.         *)
InstallCollaboration ==
  /\ platform.workers = Roles
  /\ platform' = [platform EXCEPT !.installed = TRUE]
  /\ UNCHANGED <<files, guard, ledger, lastRun>>

(* configure-native-team.py reads the team, writes the Console's override  *)
(* and at last runtime-ready.json.                                         *)
ConfigureTeam(ready) ==
  /\ platform.workers = Roles /\ platform.team
  /\ files' = [files EXCEPT !.override = TRUE, !.runtimeReady = @ \/ ready]
  /\ UNCHANGED <<guard, ledger, platform, lastRun>>

(* docker compose up operations-console, with the override.                *)
ConnectConsole ==
  /\ files.override
  /\ platform' = [platform EXCEPT !.connected = TRUE]
  /\ UNCHANGED <<files, guard, ledger, lastRun>>

(* team_ready asks the controller; Workers may also be down.               *)
TeamComplete == platform.controller = "running" /\ platform.team
                  /\ platform.workers = Roles

InstallTypeOK ==
  /\ files \in Files
  /\ guard \in Containers
  /\ ledger \in [Runs -> {"none", "open", "closed"}]
  /\ platform \in Platforms
  /\ lastRun \in 0..MaxRun
=============================================================================
