---- MODULE JobQueuePort ----
(* The promise of the JobQueue protocol (ports/queue.py): an enqueued job id *)
(* stays available until one caller of try_claim takes it, and no second     *)
(* caller ever receives it.                                                  *)
EXTENDS Naturals

CONSTANT JobIds

VARIABLES available,  \* the job ids a caller of try_claim may still receive
          returned    \* returned[j]: how many callers have received j

portVars == <<available, returned>>

Init == /\ available = {}
        /\ returned = [j \in JobIds |-> 0]

\* Job ids are fresh (uuid4), so an id that was handed out never comes back.
Enqueue(j) == /\ j \notin available
              /\ returned[j] = 0
              /\ available' = available \cup {j}
              /\ UNCHANGED returned

TryClaim(j) == /\ j \in available
               /\ available' = available \ {j}
               /\ returned' = [returned EXCEPT ![j] = @ + 1]

Next == \E j \in JobIds : Enqueue(j) \/ TryClaim(j)

Spec == Init /\ [][Next]_portVars
====
