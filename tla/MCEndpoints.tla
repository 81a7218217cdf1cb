---- MODULE MCEndpoints ----
(* An instance of Endpoints for TLC: processes, their threads, and faults.   *)
EXTENDS Endpoints, TLC

CONSTANTS h1, h2, p1, p2

\* Two threads, each of a process of its own.
OneEach == [h \in Handlers |-> IF h = h2 THEN p2 ELSE p1]

EveryFault == [k \in FaultKinds |-> 1]

\* The permutations that take each thread's process along.
Symmetry == Permutations(WorkerIds) \cup
            {f \in Permutations(Handlers \cup Hosts) :
                \A h \in Handlers : f[h] \in Handlers /\ HostOf[f[h]] = f[HostOf[h]]}
====
