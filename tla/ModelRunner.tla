---------------------------- MODULE ModelRunner -----------------------------
(***************************************************************************)
(* Attempts of the single-agent runner, model_runner.py of                 *)
(* cyberguard_investigation: a loop of model requests and tool calls under *)
(* token and tool budgets, with its evidence read from and its report      *)
(* submitted to the gateway.                                               *)
(*                                                                         *)
(* An attempt is a caller of the gateway and waits for one answer at a     *)
(* time; the answer, or the model's, may not come.  A request to the model *)
(* that fails may have been billed.  An attempt whose process dies is one  *)
(* that takes no further step.  The provider is external: what it          *)
(* reports it has used is what it has used.  Attempts claim their run id   *)
(* in a ledger of their user, so that two ledgers may know of one run.     *)
(***************************************************************************)
EXTENDS InvestigationIntake

CONSTANTS
  Attempts,    \* processes of run_model, among the callers
  Ledgers,     \* attempt ledgers, one for each user
  TokenLimit,  \* max_input_tokens and max_output_tokens, as one
  Bills,       \* tokens a request may cost
  Replies,     \* sequences of tool calls a model may answer with
  MaxRounds    \* 12 in the code

(* The two tools a model may call, the second with a report, and what it   *)
(* may call that is neither.                                               *)
ToolCalls == InvReports \cup {"read", "invalid"}

ASSUME RunnerAssumption ==
  /\ Attempts \subseteq Callers
  /\ TokenLimit \in Nat /\ MaxRounds \in Nat /\ Bills \subseteq Nat
  /\ Replies \subseteq Seq(ToolCalls)

VARIABLES
  claimed,  \* [ledger -> the run ids in it]
  attempts, \* [attempt -> its loop and record]
  disk,     \* [attempt -> run-record.json]
  billed    \* [attempt -> tokens the provider has used for it]

runnerVars == <<claimed, attempts, disk, billed>>

NoAttempt == [step |-> "off"]
NoRecord == [status |-> "none"]

RunnerInit ==
  /\ claimed = [l \in Ledgers |-> {}]
  /\ attempts = [a \in Attempts |-> NoAttempt]
  /\ disk = [a \in Attempts |-> NoRecord]
  /\ billed = [a \in Attempts |-> 0]

-----------------------------------------------------------------------------
At(a, step) == attempts[a].step = step

Set(a, now) == attempts' = [attempts EXCEPT ![a] = now]

(* What save() would write.                                                *)
Record(now) ==
  [status |-> now.status, run |-> now.run, report |-> now.report,
   known |-> now.known, spent |-> now.spent, calls |-> now.calls]

(* A ModelRunError or any other exception, on the way to the last save.    *)
Failed(now) == [now EXCEPT !.step = "final", !.status = "failed"]

FailNow(a) ==
  /\ Set(a, Failed(attempts[a]))
  /\ UNCHANGED <<claimed, disk, billed>>

(* save() writes the record, then the trace; a write may fail before or    *)
(* after the record is in its place.                                       *)
Saving(a, written, unwritten) ==
  \/ /\ disk' = [disk EXCEPT ![a] = Record(written)]
     /\ Set(a, written)
  \/ /\ disk' = [disk EXCEPT ![a] = Record(written)]
     /\ Set(a, unwritten)
  \/ /\ UNCHANGED disk
     /\ Set(a, unwritten)

-----------------------------------------------------------------------------
(* Before the loop.                                                        *)

(* claim_attempt: a run id is claimed once in a ledger.                    *)
Claim(a, l, r, limit) ==
  /\ At(a, "off")
  /\ LET now == [step |-> "prepare", run |-> r, limit |-> limit, spent |-> 0,
                 known |-> TRUE, awaiting |-> FALSE, calls |-> 0, rounds |-> 0,
                 sequence |-> 0, read |-> FALSE, todo |-> <<>>,
                 report |-> NoReport, status |-> "running"]
     IN IF r \in claimed[l]
        THEN Set(a, Failed(now)) /\ UNCHANGED claimed
        ELSE /\ Set(a, now)
             /\ claimed' = [claimed EXCEPT ![l] = @ \cup {r}]
  /\ UNCHANGED <<disk, billed, intakeVars>>

(* http_json, to the gateway.                                              *)
Request(a, op, step) ==
  /\ Arrive(a, op)
  /\ Set(a, [attempts[a] EXCEPT !.step = step])
  /\ UNCHANGED <<claimed, disk, billed>>

Preflight(a) ==
  /\ At(a, "prepare")
  /\ Request(a, [kind |-> "list", run |-> attempts[a].run,
                 report |-> NoReport], "preflight")

(* The run must be the one of the protocol, and fresh.                     *)
FreshRun(a) ==
  LET reply == asked[a].reply IN
  /\ reply.ok
  /\ reply.listing.used = 0
  /\ records.runs[attempts[a].run].limit = attempts[a].limit

PreflightAnswered(a) ==
  /\ At(a, "preflight") /\ Hear(a)
  /\ IF FreshRun(a) THEN Set(a, [attempts[a] EXCEPT !.step = "model"])
                 ELSE Set(a, Failed(attempts[a]))
  /\ UNCHANGED <<claimed, disk, billed, records, draft, writer>>

(* No answer, late, or none that can be read.                              *)
Unheard(a) ==
  /\ attempts[a].step \in {"preflight", "calling"}
  /\ FailNow(a)
  /\ UNCHANGED intakeVars

-----------------------------------------------------------------------------
(* The loop.                                                               *)

(* The budgets are looked at, the trace saved, the request sent.           *)
RequestModel(a) ==
  LET now == attempts[a] IN
  /\ At(a, "model")
  /\ IF now.rounds = MaxRounds \/ now.spent >= TokenLimit
           \/ now.calls >= now.limit
     THEN FailNow(a)
     ELSE /\ Saving(a, [now EXCEPT !.step = "thinking", !.awaiting = TRUE],
                       Failed(now))
          /\ UNCHANGED <<claimed, billed>>
  /\ UNCHANGED intakeVars

Bill(a, tokens) == billed' = [billed EXCEPT ![a] = @ + tokens]

(* Mutant: what is awaited is forgotten when the request fails.            *)
FailWithoutUsage(a, tokens) ==
  /\ At(a, "thinking")
  /\ Bill(a, tokens)
  /\ Set(a, [Failed(attempts[a]) EXCEPT !.awaiting = FALSE])
  /\ UNCHANGED <<claimed, disk, intakeVars>>

(* The request fails, or its answer has no usage in it.                    *)
ModelFails(a, tokens) ==
  /\ At(a, "thinking")
  /\ Bill(a, tokens)
  /\ Set(a, Failed(attempts[a]))
  /\ UNCHANGED <<claimed, disk, intakeVars>>

(* The answer tells its usage, and what is to be called; a message that is *)
(* cut off or malformed fails as a budget exceeded does.                   *)
ModelAnswers(a, tokens, todo) ==
  LET now == [attempts[a] EXCEPT !.spent = @ + tokens, !.awaiting = FALSE] IN
  /\ At(a, "thinking")
  /\ Bill(a, tokens)
  /\ \/ /\ now.spent <= TokenLimit
        /\ Set(a, [now EXCEPT !.step = "tools", !.todo = todo])
     \/ Set(a, Failed(now))
  /\ UNCHANGED <<claimed, disk, intakeVars>>

(* A call of the answer is counted; one that is not valid, or a report     *)
(* before the evidence was read, only gets an error for the model to read. *)
CallTool(a) ==
  LET now == attempts[a]
      call == Head(now.todo)
      counted == [now EXCEPT !.calls = @ + 1]
      op == [kind |-> IF call = "read" THEN "read" ELSE "submit",
             run |-> now.run,
             report |-> IF call = "read" THEN NoReport ELSE call]
  IN
  /\ At(a, "tools") /\ now.todo # <<>>
  /\ IF now.calls >= now.limit THEN FailNow(a) /\ UNCHANGED intakeVars
     ELSE IF call = "invalid" \/ (call # "read" /\ ~now.read)
     THEN /\ Set(a, [counted EXCEPT !.todo = Tail(@)])
          /\ UNCHANGED <<claimed, disk, billed, intakeVars>>
     ELSE /\ Arrive(a, op)
          /\ Set(a, [counted EXCEPT !.step = "calling"])
          /\ UNCHANGED <<claimed, disk, billed>>

(* Mutant: the receipt's sequence is not compared with the calls made.     *)
AnyReceipt(a) == asked[a].reply.ok

(* _receipt: the receipt is of the next call of this run.                  *)
NextReceipt(a) ==
  /\ asked[a].reply.ok
  /\ asked[a].reply.receipt.sequence = attempts[a].sequence + 1

(* The loop ends with the first report the gateway has acknowledged.       *)
ToolAnswers(a) ==
  LET now == [attempts[a] EXCEPT !.step = "tools", !.sequence = @ + 1,
                                 !.todo = Tail(@)]
      op == asked[a].op
  IN
  /\ At(a, "calling") /\ Hear(a)
  /\ IF ~NextReceipt(a) THEN Set(a, Failed(attempts[a]))
     ELSE IF op.kind = "read" THEN Set(a, [now EXCEPT !.read = TRUE])
     ELSE Set(a, [now EXCEPT !.step = "save", !.report = op.report,
                             !.status = "completed"])
  /\ UNCHANGED <<claimed, disk, billed, records, draft, writer>>

(* The save at the end of a round.                                         *)
EndRound(a) ==
  LET now == attempts[a] IN
  /\ \/ At(a, "tools") /\ now.todo = <<>>
     \/ At(a, "save")
  /\ Saving(a, IF At(a, "save") THEN [now EXCEPT !.step = "final"]
               ELSE [now EXCEPT !.step = "model", !.rounds = @ + 1],
            Failed(now))
  /\ UNCHANGED <<claimed, billed, intakeVars>>

(* finally: usage that is not accounted for is not given.  A record that   *)
(* cannot be saved is returned as failed, whatever is on the disk.         *)
SaveLast(a) ==
  LET now == [attempts[a] EXCEPT !.step = "done",
                                 !.known = ~attempts[a].awaiting]
  IN
  /\ At(a, "final")
  /\ Saving(a, now, [now EXCEPT !.status = "failed"])
  /\ UNCHANGED <<claimed, billed, intakeVars>>

RunnerStep(a) ==
  \/ \E l \in Ledgers, r \in InvRuns, limit \in Limits : Claim(a, l, r, limit)
  \/ Preflight(a) \/ PreflightAnswered(a) \/ Unheard(a)
  \/ RequestModel(a)
  \/ \E t \in Bills \cup {0} : ModelFails(a, t)
  \/ \E t \in Bills, todo \in Replies : ModelAnswers(a, t, todo)
  \/ CallTool(a) \/ ToolAnswers(a) \/ EndRound(a) \/ SaveLast(a)

-----------------------------------------------------------------------------
Returned(a) == At(a, "done")

(* A completed attempt, in what it returned or on its disk, has its report *)
(* at the gateway, and the run's calls up to that report are its own: no   *)
(* other client and no attempt of another ledger came between them.  (One  *)
(* who submitted the same report first may hold the report's receipt.)     *)
(* Hence no two attempts complete one run.                                 *)
Completed(a) ==
  disk[a].status = "completed" \/ (Returned(a) /\ attempts[a].status = "completed")

CompletedOwnsRun ==
  \A a \in Attempts : Completed(a) =>
    LET now == attempts[a]
        run == records.runs[now.run]
    IN
    /\ now.report \in run.reports
    /\ run.receipts[now.sequence].report = now.report
    /\ \A i \in 1..(now.sequence - 1) : run.receipts[i].by = a
    /\ \A b \in Attempts \ {a} : Completed(b) => attempts[b].run # now.run

(* A final record that gives its usage gives all that was billed, however  *)
(* it ended and whatever could not be saved; a completed one gives it, and *)
(* is within the budgets.                                                  *)
Final(a) ==
  {r \in {disk[a]} \cup (IF Returned(a) THEN {Record(attempts[a])} ELSE {}) :
     r.status \in {"completed", "failed"}}

UsageIsTrue ==
  \A a \in Attempts : \A r \in Final(a) :
    /\ r.known => r.spent = billed[a]
    /\ r.status = "completed" =>
         r.known /\ r.spent <= TokenLimit /\ r.calls <= attempts[a].limit
=============================================================================
