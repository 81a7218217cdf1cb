---- MODULE MCJobService ----
(* Instances of JobService for TLC: fault budgets.                           *)
EXTENDS JobService, TLC

NoFaults == [k \in FaultKinds |-> 0]

\* Faults that a run of the lifecycle survives: everything but a repeated send.
CrashesAndTimeouts ==
    [k \in FaultKinds |-> IF k = "resend" THEN 0 ELSE 1]

\* Two losses, two early ends of a visibility timeout, an expired message.
TwoCrashesAndTimeouts ==
    [CrashesAndTimeouts EXCEPT !["abort"] = 2, !["overdue"] = 2]
====
