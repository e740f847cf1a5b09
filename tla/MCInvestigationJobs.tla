------------------------- MODULE MCInvestigationJobs ------------------------
(* Two instances in one: a single job with as many faults as MaxFaults     *)
(* allows, the other having been canceled before; and two jobs, one behind *)
(* the other, after the last fault.  Both are states the service reaches.  *)
EXTENDS InvestigationJobs

CONSTANTS j1, j2, d1, d2

MCRoles == <<"investigator", "verifier">>

NativeWith(n) == [backend |-> "native", bearer |-> n]
MatrixWith(n) == [backend |-> "matrix", bearer |-> n]

MCSettings == {NativeWith(1), NativeWith(2), MatrixWith(1), MatrixWith(2)}

(* One credential, and either backend.                                     *)
MCBackends == {NativeWith(1), MatrixWith(1)}

MCInit ==
  /\ NativeInit
  /\ RelayInit
  /\ setting \in {[d \in Dispatchers |-> s] : s \in MCBackends}
  /\ lease = [owner |-> d1, runs |-> TRUE]
  /\ tick = [d \in Dispatchers |-> IdleTick]
  /\ cancelling = [j \in Jobs |-> "no"]
  /\ faults \in {0, MaxFaults}
  /\ budget = (faults = 0)
  /\ queue = IF faults = 0 THEN <<j2, j1>> ELSE <<j1>>
  /\ job = [j \in Jobs |->
       [status |-> IF j = j1 THEN "queued" ELSE IF faults = 0 THEN "canceled" ELSE "absent",
        cp |-> Nothing, report |-> FALSE]]

MCSpec == MCInit /\ [][Next]_vars /\ Fairness
=============================================================================
