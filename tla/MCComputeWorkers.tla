---- MODULE MCComputeWorkers ----
(* Instances of ComputeWorkers for TLC: budgets and symmetry.                *)
EXTENDS ComputeWorkers, TLC

NoFaults == [k \in FaultKinds |-> 0]

OneOfEachButExpiry == [k \in FaultKinds |-> IF k = "expire" THEN 0 ELSE 1]

OneOverdue == [NoFaults EXCEPT !["overdue"] = 1]

EveryMishap == [k \in Mishaps |-> 1]

LostReports == [k \in Mishaps |-> IF k = "lost_report" THEN 1 ELSE 0]

Symmetry == Permutations(JobIds) \cup Permutations(Handlers) \cup Permutations(WorkerIds)
====
