------------------------- MODULE InvestigationQueue -------------------------
(***************************************************************************)
(* The durable queue of investigation jobs and the dispatchers that serve  *)
(* it.  A job is one row; one row of another table is the lease a          *)
(* dispatcher takes before each tick.  A tick reads the oldest open job,   *)
(* lets a backend take one step on its copy without holding any lock, and  *)
(* writes the copy back only while it still holds the lease and the job is *)
(* still open.  The lease may run out during a step, a dispatcher may die  *)
(* anywhere, and an operator may cancel at any time.                       *)
(*                                                                         *)
(* What a backend keeps of a job between two steps is its checkpoint; the  *)
(* modules of the two backends say what they put there.                    *)
(***************************************************************************)
EXTENDS Naturals, FiniteSets, SequencesExt

CONSTANTS Jobs, Dispatchers, NoJob, Nobody,
          MaxOutstanding,  \* the queue refuses more open jobs than this
          Settings,        \* what a dispatcher's process may be started with
          Tampered,        \* jobs whose stored input no longer has its digest
          Gated,           \* is the budget looked at before the first dispatch
          MaxFaults        \* bound: crashes, overruns, lost calls, resets

ASSUME QueueAssumption ==
  /\ NoJob \notin Jobs
  /\ Nobody \notin Dispatchers
  /\ MaxOutstanding \in Nat \ {0}
  /\ Settings # {}
  /\ Settings \subseteq [backend : {"native", "matrix"}, bearer : Nat \ {0}]
  /\ Tampered \subseteq Jobs
  /\ Gated \in BOOLEAN
  /\ MaxFaults \in Nat

VARIABLES job,         \* what is stored of each job
          queue,       \* the jobs in the order of their creation
          lease,       \* who may write, and whether the lease still runs
          tick,        \* how far each dispatcher's tick is
          cancelling,  \* how far the cancellation of each job is
          setting,     \* what each dispatcher's process was started with
          budget,      \* is the model guard available and armed
          faults       \* auxiliary: faults so far

queueVars == <<job, queue, lease, tick, cancelling, setting, budget, faults>>

Terminal == {"completed", "failed", "canceled"}
Stored   == {"queued", "running", "waiting_backend"} \cup Terminal
Nothing  == [backend |-> "none"]

(* A setting is the environment of a process: the backend of the jobs that *)
(* have not settled on one, and the credential it talks to the rooms with, *)
(* which stands for the server that takes it too.                          *)
Bearers == {s.bearer : s \in Settings}

Open == {j \in Jobs : job[j].status \in Stored \ Terminal}

IdleTick == [at |-> "idle", job |-> NoJob, cp |-> Nothing,
             status |-> "queued", report |-> FALSE]

QueueTypeOK ==
  /\ \A j \in Jobs : job[j].status \in Stored \cup {"absent"}
                     /\ job[j].report \in BOOLEAN
  /\ ToSet(queue) = {j \in Jobs : job[j].status # "absent"}
  /\ lease \in [owner : Dispatchers \cup {Nobody}, runs : BOOLEAN]
  /\ \A d \in Dispatchers :
        /\ tick[d].at \in {"down", "idle", "reading", "advancing", "writing"}
        /\ tick[d].job \in Jobs \cup {NoJob}
  /\ cancelling \in [Jobs -> {"no", "pausing", "writing"}]
  /\ setting \in [Dispatchers -> Settings]
  /\ budget \in BOOLEAN
  /\ faults \in 0..MaxFaults

QueueInit ==
  /\ job = [j \in Jobs |-> [status |-> "absent", cp |-> Nothing, report |-> FALSE]]
  /\ queue = <<>>
  /\ lease = [owner |-> Nobody, runs |-> FALSE]
  /\ tick = [d \in Dispatchers |-> IdleTick]
  /\ cancelling = [j \in Jobs |-> "no"]
  /\ setting \in [Dispatchers -> Settings]
  /\ budget = FALSE
  /\ faults = 0

Fault == faults < MaxFaults /\ faults' = faults + 1

-----------------------------------------------------------------------------
(* submit: one transaction.  A repeated key finds the job it made before   *)
(* and changes nothing.                                                    *)
Submit(j) ==
  /\ job[j].status = "absent"
  /\ Cardinality(Open) < MaxOutstanding
  /\ job' = [job EXCEPT ![j].status = "queued"]
  /\ queue' = Append(queue, j)
  /\ UNCHANGED <<lease, tick, cancelling, setting, budget, faults>>

-----------------------------------------------------------------------------
(* cancel reads the job, pauses the project the copy names, and only then  *)
(* opens the transaction that reads the job again.                         *)
CancelRead(j) ==
  /\ j \in Open
  /\ cancelling[j] = "no"
  /\ cancelling' = [cancelling EXCEPT ![j] =
       IF job[j].cp.backend = "native" /\ job[j].cp.project THEN "pausing" ELSE "writing"]
  /\ UNCHANGED <<job, queue, lease, tick, setting, budget, faults>>

CancelWrite(j) ==
  /\ cancelling[j] = "writing"
  /\ job' = [job EXCEPT ![j].status = IF @ \in Terminal THEN @ ELSE "canceled"]
  /\ cancelling' = [cancelling EXCEPT ![j] = "no"]
  /\ UNCHANGED <<queue, lease, tick, setting, budget, faults>>

-----------------------------------------------------------------------------
(* tick.  The lease is renewed by its owner and taken over by another only *)
(* when it has run out.                                                    *)

(* Mutant: a lease that ran out is not taken over.                         *)
LeaseOwnOnly(d) ==
  /\ tick[d].at = "idle"
  /\ lease.owner = d
  /\ lease' = [owner |-> d, runs |-> TRUE]
  /\ tick' = [tick EXCEPT ![d].at = "reading"]
  /\ UNCHANGED <<job, queue, cancelling, setting, budget, faults>>

Lease(d) ==
  /\ tick[d].at = "idle"
  /\ lease.owner = d \/ ~lease.runs
  /\ lease' = [owner |-> d, runs |-> TRUE]
  /\ tick' = [tick EXCEPT ![d].at = "reading"]
  /\ UNCHANGED <<job, queue, cancelling, setting, budget, faults>>

(* The open job that was created before every other.                       *)
Oldest(j) ==
  \E n \in DOMAIN queue :
    /\ queue[n] = j
    /\ j \in Open
    /\ \A m \in 1..(n - 1) : queue[m] \notin Open

Read(d) ==
  /\ tick[d].at = "reading"
  /\ \/ Open = {} /\ tick' = [tick EXCEPT ![d] = IdleTick]
     \/ \E j \in Jobs :
          /\ Oldest(j)
          /\ tick' = [tick EXCEPT ![d] =
               [at |-> "advancing", job |-> j, cp |-> job[j].cp,
                status |-> job[j].status, report |-> job[j].report]]
  /\ UNCHANGED <<job, queue, lease, cancelling, setting, budget, faults>>

(* The update a step returns: it replaces what the copy held.              *)
Return(d, status, cp) ==
  tick' = [tick EXCEPT ![d].at = "writing", ![d].status = status, ![d].cp = cp,
                       ![d].report = status = "completed"]

Blocked(d) == Gated /\ ~budget /\ tick[d].cp = Nothing

(* The copy may go to a backend.                                           *)
Dispatchable(d) ==
  /\ tick[d].at = "advancing"
  /\ tick[d].job \notin Tampered
  /\ ~Blocked(d)

RefuseTampered(d) ==
  /\ tick[d].at = "advancing"
  /\ tick[d].job \in Tampered
  /\ Return(d, "failed", tick[d].cp)
  /\ UNCHANGED <<job, queue, lease, cancelling, setting, budget, faults>>

AwaitBudget(d) ==
  /\ tick[d].at = "advancing"
  /\ tick[d].job \notin Tampered
  /\ Blocked(d)
  /\ Return(d, "waiting_backend", tick[d].cp)
  /\ UNCHANGED <<job, queue, lease, cancelling, setting, budget, faults>>

Holds(d) == lease.owner = d /\ lease.runs

(* Mutant: the lease is not looked at again before writing.                *)
WriteWithoutLease(d) ==
  LET t == tick[d] IN
  /\ t.at = "writing"
  /\ job' = IF job[t.job].status \notin Terminal
            THEN [job EXCEPT ![t.job] =
                    [status |-> t.status, cp |-> t.cp, report |-> t.report]]
            ELSE job
  /\ tick' = [tick EXCEPT ![d] = IdleTick]
  /\ UNCHANGED <<queue, lease, cancelling, setting, budget, faults>>

(* Mutant: a job canceled meanwhile is overwritten.                        *)
WriteOverTerminal(d) ==
  LET t == tick[d] IN
  /\ t.at = "writing"
  /\ job' = IF Holds(d)
            THEN [job EXCEPT ![t.job] =
                    [status |-> t.status, cp |-> t.cp, report |-> t.report]]
            ELSE job
  /\ tick' = [tick EXCEPT ![d] = IdleTick]
  /\ UNCHANGED <<queue, lease, cancelling, setting, budget, faults>>

Write(d) ==
  LET t == tick[d] IN
  /\ t.at = "writing"
  /\ job' = IF Holds(d) /\ job[t.job].status \notin Terminal
            THEN [job EXCEPT ![t.job] =
                    [status |-> t.status, cp |-> t.cp, report |-> t.report]]
            ELSE job
  /\ tick' = [tick EXCEPT ![d] = IdleTick]
  /\ UNCHANGED <<queue, lease, cancelling, setting, budget, faults>>

-----------------------------------------------------------------------------
(* start_dispatcher.  An orderly stop deletes the lease; a dispatcher that *)
(* dies leaves it to run out, and comes back under another name.           *)
Stop(d) ==
  /\ tick[d].at = "idle"
  /\ Fault
  /\ tick' = [tick EXCEPT ![d].at = "down"]
  /\ lease' = IF lease.owner = d THEN [owner |-> Nobody, runs |-> FALSE] ELSE lease
  /\ UNCHANGED <<job, queue, cancelling, setting, budget>>

Crash(d) ==
  /\ tick[d].at \notin {"down", "idle"}
  /\ Fault
  /\ tick' = [tick EXCEPT ![d] = [IdleTick EXCEPT !.at = "down"]]
  /\ lease' = IF lease.owner = d THEN [lease EXCEPT !.owner = Nobody] ELSE lease
  /\ UNCHANGED <<job, queue, cancelling, setting, budget>>

(* The process that comes back may have been given another environment.    *)
Restart(d) ==
  /\ tick[d].at = "down"
  /\ tick' = [tick EXCEPT ![d] = IdleTick]
  /\ \E s \in Settings : setting' = [setting EXCEPT ![d] = s]
  /\ UNCHANGED <<job, queue, lease, cancelling, budget, faults>>

(* 120 seconds pass: nobody is left to renew the lease, or a step takes    *)
(* longer than that.                                                       *)
LeaseRunsOut ==
  /\ lease.runs
  /\ lease.owner = Nobody
  /\ lease' = [lease EXCEPT !.runs = FALSE]
  /\ UNCHANGED <<job, queue, tick, cancelling, setting, budget, faults>>

Overrun ==
  /\ lease.runs
  /\ lease.owner # Nobody
  /\ tick[lease.owner].at # "idle"
  /\ Fault
  /\ lease' = [lease EXCEPT !.runs = FALSE]
  /\ UNCHANGED <<job, queue, tick, cancelling, setting, budget>>

(* The operator opens and closes the model budget.                         *)
OpenBudget ==
  /\ ~budget
  /\ budget' = TRUE
  /\ UNCHANGED <<job, queue, lease, tick, cancelling, setting, faults>>

CloseBudget ==
  /\ budget
  /\ Fault
  /\ budget' = FALSE
  /\ UNCHANGED <<job, queue, lease, tick, cancelling, setting>>
=============================================================================
