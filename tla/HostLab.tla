------------------------------ MODULE HostLab -------------------------------
(***************************************************************************)
(* The process laboratory, services/host-lab/server.py: a workload,        *)
(* compute, that a supervisor thread restarts for as long as a persistence *)
(* file exists.  An operation kills the workload, or quarantines the file  *)
(* and then kills the workload.  One lock serialises operations, the       *)
(* supervisor and the readers; a step of an operation may raise, and the   *)
(* server may be restarted between any two steps.                          *)
(*                                                                         *)
(* A process identity (environment, pid, start ticks, hashes) is the number*)
(* of the process in order of creation; the reference of the persistence   *)
(* file is the number of the environment it was written for.  The control  *)
(* workload, which no operation may touch, is left to the verification.    *)
(***************************************************************************)
EXTENDS Naturals

CONSTANTS
  LabActions,   \* identifiers of the operations that reach this server
  MaxEnv,       \* bound on environments, that is on restarts
  MaxProcess    \* bound on processes ever spawned

VARIABLES
  env,          \* environment_id of the running server
  persistence,  \* the persistence file exists
  compute,      \* the running workload process, or 0
  spawned,      \* how many workload processes there have been
  operations,   \* the result of each operation's durable receipt, or "none"
  busy,         \* the operation that holds the lock, and its next step
  lastMutation, \* in memory: the last operation that passed its check
  effects       \* auxiliary: what operations did to files and processes

hostVars == <<env, persistence, compute, spawned, operations, busy,
              lastMutation, effects>>

Idle       == [stage |-> "idle"]
NoMutation == [result |-> "none"]

HostInit ==
  /\ env = 1
  /\ persistence = TRUE
  /\ compute = 1
  /\ spawned = 1
  /\ operations = [a \in LabActions |-> "none"]
  /\ busy = Idle
  /\ lastMutation = NoMutation
  /\ effects = {}

(* The request names the environment and the very target in it.            *)
Valid(request) ==
  /\ request.env = env
  /\ \/ /\ request.kind = "terminate_process"
        /\ compute # 0 /\ request.target = compute
     \/ /\ request.kind = "disable_persistence"
        /\ persistence /\ request.target = env

(* operation, up to the commit of the unknown intent; an operation that is *)
(* known is answered with its receipt.                                     *)
Begin(a, request) ==
  /\ busy = Idle
  /\ \/ /\ operations[a] # "none"
        /\ UNCHANGED hostVars
     \/ /\ operations[a] = "none"
        /\ ~Valid(request)
        /\ operations' = [operations EXCEPT ![a] = "rejected"]
        /\ UNCHANGED <<env, persistence, compute, spawned, busy, lastMutation,
                       effects>>
     \/ /\ operations[a] = "none"
        /\ Valid(request)
        /\ operations' = [operations EXCEPT ![a] = "unknown"]
        /\ lastMutation' = [action |-> a, result |-> "unknown"]
        /\ busy' = [action |-> a,
                    stage |-> IF request.kind = "disable_persistence"
                                THEN "quarantine" ELSE "terminate"]
        /\ UNCHANGED <<env, persistence, compute, spawned, effects>>

Quarantine ==
  /\ busy.stage = "quarantine"
  /\ persistence' = FALSE
  /\ effects' = effects \cup {<<busy.action, "persistence", env>>}
  /\ busy' = [busy EXCEPT !.stage = "terminate"]
  /\ UNCHANGED <<env, compute, spawned, operations, lastMutation>>

(* terminate signals whatever process is the workload now, if it lives.    *)
Signal == effects \cup (IF compute = 0 THEN {}
                        ELSE {<<busy.action, "process", compute>>})

Terminate ==
  /\ busy.stage = "terminate"
  /\ effects' = Signal
  /\ compute' = 0
  /\ busy' = [busy EXCEPT !.stage = "commit"]
  /\ UNCHANGED <<env, persistence, spawned, operations, lastMutation>>

Commit ==
  /\ busy.stage = "commit"
  /\ operations' = [operations EXCEPT ![busy.action] = "applied"]
  /\ lastMutation' = [lastMutation EXCEPT !.result = "applied"]
  /\ busy' = Idle
  /\ UNCHANGED <<env, persistence, compute, spawned, effects>>

(* A step raises (the log, the rename, pidfd_open, the wait of two seconds *)
(* after the signal, the commit): the lock is released, the receipt stays  *)
(* unknown, and nobody is answered.                                        *)
Fail ==
  /\ busy # Idle
  /\ \/ UNCHANGED effects
     \/ busy.stage = "terminate" /\ effects' = Signal
  /\ busy' = Idle
  /\ UNCHANGED <<env, persistence, compute, spawned, operations, lastMutation>>

(* Mutant: the supervisor does not take the lock.                          *)
SuperviseUnlocked ==
  /\ persistence
  /\ compute = 0
  /\ spawned < MaxProcess
  /\ spawned' = spawned + 1
  /\ compute' = spawned'
  /\ UNCHANGED <<env, persistence, operations, busy, lastMutation, effects>>

(* Mutant: the supervisor does not look for the file.                      *)
SuperviseAlways ==
  /\ busy = Idle
  /\ compute = 0
  /\ spawned < MaxProcess
  /\ spawned' = spawned + 1
  /\ compute' = spawned'
  /\ UNCHANGED <<env, persistence, operations, busy, lastMutation, effects>>

(* supervise: every second, under the lock.                                *)
Supervise ==
  /\ busy = Idle
  /\ persistence
  /\ compute = 0
  /\ spawned < MaxProcess
  /\ spawned' = spawned + 1
  /\ compute' = spawned'
  /\ UNCHANGED <<env, persistence, operations, busy, lastMutation, effects>>

(* The workload ends by itself, or of a signal that was not waited for.    *)
WorkloadExits ==
  /\ compute # 0
  /\ compute' = 0
  /\ UNCHANGED <<env, persistence, spawned, operations, busy, lastMutation,
                 effects>>

(* The server stops at any point and is started again (__init__): a new    *)
(* environment with its file and its workload; only the database survives. *)
Restart ==
  /\ env < MaxEnv
  /\ spawned < MaxProcess
  /\ env' = env + 1
  /\ persistence' = TRUE
  /\ spawned' = spawned + 1
  /\ compute' = spawned'
  /\ busy' = Idle
  /\ lastMutation' = NoMutation
  /\ UNCHANGED <<operations, effects>>

HostTypeOK ==
  /\ env \in 1..MaxEnv
  /\ persistence \in BOOLEAN
  /\ spawned \in 1..MaxProcess
  /\ compute \in 0..spawned
  /\ operations \in
       [LabActions -> {"none", "rejected", "unknown", "applied"}]
  /\ busy \in {Idle} \cup
       [action : LabActions, stage : {"quarantine", "terminate", "commit"}]
  /\ lastMutation \in {NoMutation} \cup
       [action : LabActions, result : {"unknown", "applied"}]
  /\ effects \subseteq LabActions \X {"process", "persistence"} \X Nat
=============================================================================
