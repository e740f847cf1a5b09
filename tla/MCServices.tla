----------------------------- MODULE MCServices -----------------------------
(***************************************************************************)
(* Small instances of the services around the response path, each a scene  *)
(* of its own: they share nothing, so a run has one scene from start to    *)
(* end, and its states are the sum of the scenes'.                         *)
(*   onboarding  two models, two roles, three run numbers                  *)
(*   login       two guesses at a time against one account and its lock    *)
(*   members     two handlers that change members, while one logs in       *)
(*   keys        an API key and a session beside a handler                 *)
(*   intake      two requests at the investigation store, which fails      *)
(*   attempts    two attempts of the runner and another client of the run  *)
(*   ingest      two runs of the adapter and the gateway's own lines       *)
(*   serial      two starts of the harness, two roles, tasks told twice    *)
(***************************************************************************)
EXTENDS OnboardingService, ConsoleAccess, ModelRunner, SuricataIngest,
        GuardedSerial

(* The scenes share their model values: three pairs that may be swapped,    *)
(* and what is told apart.                                                 *)
CONSTANTS x1, x2, y1, y2, z1, z2,
          p1, p2, k1, r1, q1, q2, e1, e2, e3, ws

VARIABLE scene

Scenes == {"onboarding", "login", "members", "keys", "intake", "attempts",
           "ingest", "serial"}

MCModels == {x1, x2}
MCRoles == {y1, y2}
MCOneProvisioner == {p1}
MCTwoProvisioners == {p1, p2}
MCUsers == {x1, x2}
MCSids == {y1, y2}
MCApiKeys == {k1}
MCLogins == {z1, z2}
MCChanges == {z1, z2}
MCOthers == {p1, p2}
MCRuns == {r1}
MCReports == {q1, q2}
MCContents == {e1, e2}
MCAttempts == {x1, x2}
MCCallers == MCAttempts \cup MCOthers
MCLedgers == {y1, y2}
MCBills == {2}
MCReplies == {<<"read">>, <<"invalid", q1>>, <<"read", q1>>}
MCAdapters == {x1, x2}
MCSensed == {e1, e2, e3}
MCClassOf == (e1 :> "alert") @@ (e2 :> "flow") @@ (e3 :> "violating")
MCExports == {<<e1, e1>>, <<e2, e1>>, <<e1, e3>>}
MCSessions == {ws}

Symmetry ==
  Permutations({x1, x2}) \cup Permutations({y1, y2}) \cup Permutations({z1, z2})

-----------------------------------------------------------------------------
(* Access: what is asked for, and how many log in at a time.               *)

AskFor(kinds, n) ==
  /\ \A r \in Changes : changes'[r] # NoChange => changes'[r].kind \in kinds
  /\ Cardinality({r \in Changes : changes'[r] # NoChange}) <= n

Entering(n) ==
  /\ \A t \in Logins : logins'[t] # NoLogin => logins'[t].step # "refuse"
  /\ Cardinality({t \in Logins : logins'[t] # NoLogin}) <= n

OneAccount ==
  Cardinality({u \in Users : accounts'[u].exists \/ failures'[u] # <<>>}) <= 1

AccessNext ==
  /\ scene \in {"login", "members", "keys"}
  /\ AccessStep
  /\ \/ scene = "login" /\ AskFor({"setup"}, 1) /\ OneAccount
        /\ Cardinality({s \in Sids : sessions'[s].open}) <= 1
     \/ scene = "members" /\ clock' = 0
        /\ AskFor(MemberKinds \cup {"setup"}, 2) /\ Entering(1)
     \/ scene = "keys" /\ clock' <= 2 /\ OneAccount
        /\ AskFor(KeyKinds \cup {"setup"}, 1) /\ Entering(1)
  /\ UNCHANGED <<onboardingVars, intakeVars, runnerVars, ingestVars, serialVars>>

OnboardingNext ==
  /\ scene = "onboarding"
  /\ ServiceStep
  /\ UNCHANGED <<accessVars, intakeVars, runnerVars, ingestVars, serialVars>>

-----------------------------------------------------------------------------
Heard(c) == Hear(c) /\ UNCHANGED <<records, draft, writer>>

IntakeNext ==
  /\ scene = "intake"
  /\ \/ Gateway
     \/ \E c \in MCOthers :
          (\E op \in Operations : Arrive(c, op)) \/ Heard(c)
  /\ UNCHANGED <<onboardingVars, accessVars, runnerVars, ingestVars, serialVars>>

(* Attempts: the gateway serves one request after the other (the scene     *)
(* above is about what comes between them), and an attempt that only has   *)
(* to save its record does so at once, as nobody else reads it.            *)
InService == {c \in Callers : Waits(c) /\ asked[c].step # "asked"}
Saved == {a \in Attempts : At(a, "final")}

OtherClient ==
  \/ Heard(p1)
  \/ \E op \in Operations :
       /\ op.kind = "read" \/ (op.kind = "submit" /\ op.report = q1)
       /\ Arrive(p1, op)

AttemptsNext ==
  /\ scene = "attempts"
  /\ \/ /\ \E c \in Callers : Serve(c) /\ InService \subseteq {c}
        /\ UNCHANGED runnerVars
     \/ /\ InService = {}
        /\ \/ \E a \in Attempts : Saved \subseteq {a} /\ RunnerStep(a)
           \/ /\ \/ OtherClient /\ Saved = {}
                 \/ \E a \in Attempts :
                      attempts[a].step \in {"final", "done"} /\ Heard(a)
              /\ UNCHANGED runnerVars
  /\ \A a \in Attempts : attempts'[a] # NoAttempt => attempts'[a].limit = 2
  /\ UNCHANGED <<onboardingVars, accessVars, ingestVars, serialVars>>

(* Ingest: which options are tried together.                               *)
IngestNext ==
  /\ scene = "ingest"
  /\ IngestStep
  /\ \A i \in Adapters : adapters'[i] # Unstarted =>
       LET now == adapters'[i] IN
       /\ now.dry => ~now.workflow /\ ~now.flows
       /\ now.flows => now.export = <<e2, e1>>
       /\ now.workflow => now.export = <<e1, e1>>
  /\ UNCHANGED <<onboardingVars, accessVars, intakeVars, runnerVars, serialVars>>

SerialNext ==
  /\ scene = "serial"
  /\ SerialStep
  /\ UNCHANGED <<onboardingVars, accessVars, intakeVars, runnerVars, ingestVars>>

-----------------------------------------------------------------------------
MCVars ==
  <<scene, onboardingVars, accessVars, intakeVars, runnerVars, ingestVars,
    serialVars>>

(* The attempts begin when their run has been created.                     *)
RunCreated ==
  /\ records = [bundle |-> e1, runs |->
       (r1 :> [limit |-> 2, content |-> e1, used |-> 0, receipts |-> <<>>,
              reports |-> {}])]
  /\ draft = records
  /\ writer = NoCaller
  /\ asked = [c \in Callers |-> NoRequest]

MCInit ==
  /\ scene \in Scenes
  /\ OnboardingInit /\ AccessInit /\ RunnerInit /\ IngestInit /\ SerialInit
  /\ IF scene = "attempts" THEN RunCreated ELSE IntakeInit

MCNext ==
  /\ \/ OnboardingNext \/ AccessNext \/ IntakeNext \/ AttemptsNext
     \/ IngestNext \/ SerialNext
  /\ UNCHANGED scene

MCSpec == MCInit /\ [][MCNext]_MCVars

(* The onboarding service alone, for the run with two provisioners.        *)
OverlapSpec ==
  /\ MCInit /\ scene = "onboarding"
  /\ [][OnboardingNext /\ UNCHANGED scene]_MCVars
=============================================================================
