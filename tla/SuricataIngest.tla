--------------------------- MODULE SuricataIngest ---------------------------
(***************************************************************************)
(* The Suricata adapter, scripts/ingest-suricata.py: events of a sensor's  *)
(* export become lines of the gateway's evidence.jsonl, and the incident's *)
(* workflow is opened.                                                     *)
(*                                                                         *)
(* The adapter is a process of its own: it takes no lock the gateway or    *)
(* another adapter would see, and may die at any time, which here is not   *)
(* to take another step.  Its lines leave its buffer in chunks, so that a  *)
(* chunk may end within a line.  An event is named by the digest of its    *)
(* content; what a record says, and its score, are left out.               *)
(***************************************************************************)
EXTENDS WorkflowJournal, FiniteSets

CONSTANTS
  Adapters,      \* runs of the script
  Sensed,        \* events of the sensor, by digest
  ClassOf,       \* [Sensed -> what the conversion makes of an event]
  Exports,       \* the event sequences the input files may hold
  IngestSession, \* the workflow session of the adapter
  TheGateway,    \* the gateway, when it appends evidence of its own
  MaxPieces      \* bound on the evidence file, for the gateway's lines

Classes == {"alert", "flow", "other", "invalid", "violating"}

ASSUME IngestAssumption ==
  /\ ClassOf \in [Sensed -> Classes]
  /\ Exports \subseteq Seq(Sensed)
  /\ TheGateway \notin Adapters /\ TheGateway \notin Sensed
  /\ Adapters = Movers /\ IngestSession \in Sessions

VARIABLES
  pieces,   \* evidence.jsonl, as the chunks written to it
  adapters  \* [adapter -> what it works on]

ingestVars == <<pieces, adapters, wfVars>>

Unstarted == [step |-> "off"]

IngestInit ==
  /\ pieces = <<>>
  /\ adapters = [i \in Adapters |-> Unstarted]
  /\ WorkflowInit(<<>>)

-----------------------------------------------------------------------------
(* Lines.  A piece is a whole line, or the head of one (which has no end), *)
(* or the tail that belongs to a head.                                     *)

Piece(event, by, part) == [event |-> event, by |-> by, part |-> part]

StartsLine(k) == k = 1 \/ pieces[k - 1].part # "head"

(* The places where a line ends that can be decoded.                       *)
Decoded ==
  {k \in DOMAIN pieces :
     \/ pieces[k].part = "whole" /\ StartsLine(k)
     \/ /\ pieces[k].part = "tail" /\ k > 1 /\ StartsLine(k - 1)
        /\ pieces[k - 1] = Piece(pieces[k].event, pieces[k].by, "head")}

(* Mutant: a line that cannot be decoded still counts as ingested.         *)
MentionedEvents == {pieces[k].event : k \in DOMAIN pieces}

(* existing_sha256: lines that cannot be decoded are passed over.          *)
KnownEvents == {pieces[k].event : k \in Decoded}

-----------------------------------------------------------------------------
Adapter(i, step) == adapters[i].step = step

(* What the options ask to be converted.                                   *)
Wanted(i) ==
  {e \in Sensed :
     /\ \E k \in DOMAIN adapters[i].export : adapters[i].export[k] = e
     /\ ClassOf[e] \in {"alert", "violating"}
          \cup (IF adapters[i].flows THEN {"flow"} ELSE {})}

(* The digests that are known are read before the export.                  *)
StartAdapter(i, export, flows, dry, workflow) ==
  /\ Adapter(i, "off")
  /\ adapters' = [adapters EXCEPT ![i] =
       [step |-> "convert", export |-> export, flows |-> flows, dry |-> dry,
        workflow |-> workflow, known |-> KnownEvents,
        since |-> Len(pieces), out |-> <<>>]]
  /\ UNCHANGED <<pieces, wfVars>>

(* The loop over the events: what is of no interest, known, or met before  *)
(* is skipped; one record that violates the contract ends the run before   *)
(* anything is written.                                                    *)
Convert(i) ==
  LET now == adapters[i]
      new == Wanted(i) \ now.known
      firsts == {k \in DOMAIN now.export :
                   /\ now.export[k] \in new
                   /\ \A j \in 1..(k - 1) : now.export[j] # now.export[k]}
      out == [k \in 1..Cardinality(firsts) |->
                now.export[CHOOSE f \in firsts :
                  Cardinality({g \in firsts : g <= f}) = k]]
  IN
  /\ Adapter(i, "convert")
  /\ adapters' = [adapters EXCEPT
       ![i].out = IF now.dry THEN <<>> ELSE out,
       ![i].step = IF \E e \in new : ClassOf[e] = "violating" THEN "failed"
                   ELSE IF now.dry THEN "done" ELSE "write"]
  /\ UNCHANGED <<pieces, wfVars>>

Put(i, part) == pieces' = Append(pieces, Piece(Head(adapters[i].out), i, part))

(* writelines, a chunk at a time.                                          *)
WriteLine(i) ==
  /\ Adapter(i, "write") /\ adapters[i].out # <<>>
  /\ \/ /\ Put(i, "whole")
        /\ adapters' = [adapters EXCEPT ![i].out = Tail(@)]
     \/ /\ Put(i, "head")
        /\ adapters' = [adapters EXCEPT ![i].step = "tail"]
  /\ UNCHANGED wfVars

WriteTail(i) ==
  /\ Adapter(i, "tail")
  /\ Put(i, "tail")
  /\ adapters' = [adapters EXCEPT ![i].step = "write", ![i].out = Tail(@)]
  /\ UNCHANGED wfVars

Written(i) ==
  /\ Adapter(i, "write") /\ adapters[i].out = <<>>
  /\ adapters' = [adapters EXCEPT ![i].step =
       IF adapters[i].workflow THEN "workflow" ELSE "done"]
  /\ UNCHANGED <<pieces, wfVars>>

(* write_workflow: the session's state is looked at once, and the          *)
(* transitions that lead from it to investigating are made; the store      *)
(* raises when another has made them meanwhile.                            *)
LookAtWorkflow(i) ==
  /\ Adapter(i, "workflow")
  /\ adapters' = [adapters EXCEPT ![i].step =
       CASE StateOf(IngestSession) = "none" -> "received"
         [] StateOf(IngestSession) = "received" -> "investigating"
         [] OTHER -> "done"]
  /\ UNCHANGED <<pieces, wfVars>>

OpenWorkflow(i) ==
  /\ adapters[i].step \in {"received", "investigating"}
  /\ \/ CheckTransition(i, IngestSession, adapters[i].step) /\ UNCHANGED adapters
     \/ /\ AppendTransition(i)
        /\ adapters' = [adapters EXCEPT ![i].step =
             IF @ = "received" THEN "investigating" ELSE "done"]
     \/ /\ transit[i] = NoEvent
        /\ adapters[i].step \notin Transitions[StateOf(IngestSession)]
        /\ adapters' = [adapters EXCEPT ![i].step = "failed"]
        /\ UNCHANGED wfVars
  /\ UNCHANGED pieces

(* ScenarioStore._append, in the gateway.                                  *)
GatewayAppends ==
  /\ Len(pieces) < MaxPieces
  /\ pieces' = Append(pieces, Piece(TheGateway, TheGateway, "whole"))
  /\ UNCHANGED <<adapters, wfVars>>

IngestStep ==
  \/ GatewayAppends
  \/ \E i \in Adapters :
       \/ \E export \in Exports, flows, dry, workflow \in BOOLEAN :
            StartAdapter(i, export, flows, dry, workflow)
       \/ Convert(i) \/ WriteLine(i) \/ WriteTail(i) \/ Written(i)
       \/ LookAtWorkflow(i) \/ OpenWorkflow(i)

-----------------------------------------------------------------------------
(* Running the adapter again is safe, and enough.  After a run that ends   *)
(* well, every event it was to convert is on a line that can be decoded,   *)
(* unless the line it wrote itself ran into a fragment or a fragment ran   *)
(* into it; and its workflow session has been opened.  Two lines carry the *)
(* same event only when the second's run had started before the first was  *)
(* written.                                                                *)
LinesOf(e) == {k \in Decoded : pieces[k].event = e}

WroteOver(i, e) ==
  \E k \in DOMAIN pieces \ Decoded :
    pieces[k].event = e /\ pieces[k].by = i /\ pieces[k].part # "head"

IngestedOnce ==
  /\ \A i \in Adapters : (Adapter(i, "done") /\ ~adapters[i].dry) =>
       /\ \A e \in Wanted(i) : LinesOf(e) # {} \/ WroteOver(i, e)
       /\ adapters[i].workflow =>
            \E k \in DOMAIN journal : journal[k].state = "investigating"
  /\ \A e \in Sensed : \A j, k \in LinesOf(e) : j < k =>
       adapters[pieces[k].by].since < j /\ pieces[k].by # pieces[j].by
=============================================================================
