---- MODULE JobLifecycle ----
(* What the service promises about a job (domain/jobs.py, the README's "Job  *)
(* lifecycle" and "Security"): it is queued, then processed by one worker,   *)
(* then completed or failed for good by a report of that same worker, whose  *)
(* outcome the user is told at most once.                                    *)
EXTENDS Sequences

CONSTANTS JobIds, WorkerIds,
          Nobody   \* the owner of a job nobody has claimed

VARIABLES status, owner, notices,
          reporting   \* reporting[j]: who is having a report on j carried out

lifecycleVars == <<status, owner, notices, reporting>>

Init ==
    /\ status = [j \in JobIds |-> "absent"]
    /\ owner = [j \in JobIds |-> Nobody]
    /\ notices = [j \in JobIds |-> << >>]
    /\ reporting = [j \in JobIds |-> {}]

Move(j, from, to) == /\ status[j] = from
                     /\ status' = [status EXCEPT ![j] = to]

Submit(j) == /\ Move(j, "absent", "queued")
             /\ UNCHANGED <<owner, notices, reporting>>

Claim(j, w) == /\ Move(j, "queued", "processing")
               /\ owner' = [owner EXCEPT ![j] = w]
               /\ UNCHANGED <<notices, reporting>>

\* A report is accepted from the owner only, and no second one beside it.
Report(j, w) == /\ status[j] = "processing"
                /\ owner[j] = w
                /\ reporting[j] = {}
                /\ reporting' = [reporting EXCEPT ![j] = {w}]
                /\ UNCHANGED <<status, owner, notices>>

End(j, outcome) == /\ reporting[j] # {}
                   /\ Move(j, "processing", outcome)
                   /\ UNCHANGED <<owner, notices, reporting>>

Notify(j) == /\ reporting[j] # {}
             /\ status[j] \in {"completed", "failed"}
             /\ notices[j] = << >>
             /\ notices' = [notices EXCEPT ![j] = <<status[j]>>]
             /\ reporting' = [reporting EXCEPT ![j] = {}]
             /\ UNCHANGED <<status, owner>>

\* What carries the report out stops: before the job's end, or before the notice.
BreakOff(j) == /\ reporting' = [reporting EXCEPT ![j] = {}]
               /\ UNCHANGED <<status, owner, notices>>

Next ==
    \E j \in JobIds :
        \/ Submit(j)
        \/ \E w \in WorkerIds : Claim(j, w) \/ Report(j, w)
        \/ End(j, "completed") \/ End(j, "failed")
        \/ Notify(j) \/ BreakOff(j)

Spec == Init /\ [][Next]_lifecycleVars
====
