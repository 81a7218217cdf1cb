---- MODULE StorageQueue ----
(* StorageQueueJobQueue (adapters/azure/storage_queue.py) and the Azure      *)
(* Storage Queue behind it.  A received message is hidden, and carries a pop *)
(* receipt that a later receive of the same message makes stale; try_claim   *)
(* deletes the message under its receipt before it returns the job id.       *)
EXTENDS Naturals, PythonNone

CONSTANTS JobIds,     \* the uuid4 job ids
          Handlers,   \* the request handlers that may run at the same time
          MaxFaults   \* how often each kind of fault may happen

(* abort    a handler stops: crash, execution timeout or storage error       *)
(* overdue  a visibility timeout ends although the receiver is still working *)
(* resend   the SDK repeats a send_message whose first answer was lost       *)
(* expire   the service drops a message at the end of its time to live       *)
FaultKinds == {"abort", "overdue", "resend", "expire"}

\* A message is named by the job id it carries and by which send produced it.
Messages == JobIds \X {"sent", "resent"}

ASSUME NoneIsNotAMessage == None \notin Messages
ASSUME NoneIsNotAHandler == None \notin Handlers
ASSUME MaxFaultsType == MaxFaults \in [FaultKinds -> Nat]

VARIABLES sent,      \* the job ids enqueue was called with
          queued,    \* the messages the service stores
          hidden,    \* those whose visibility timeout is running
          receipt,   \* receipt[m]: the handler whose pop receipt for m is current
          taking,    \* taking[h]: the message h has received and not yet deleted
          returned,  \* returned[m]: how often try_claim returned m's job id
          budget     \* budget[k]: faults of kind k that may still happen

queueVars == <<sent, queued, hidden, receipt, taking, returned>>
vars == <<sent, queued, hidden, receipt, taking, returned, budget>>

TypeOK ==
    /\ sent \subseteq JobIds
    /\ queued \subseteq Messages
    /\ hidden \subseteq queued
    /\ receipt \in [Messages -> Handlers \cup {None}]
    /\ taking \in [Handlers -> Messages \cup {None}]
    /\ returned \in [Messages -> Nat]
    /\ budget \in [FaultKinds -> Nat]

Init ==
    /\ sent = {}
    /\ queued = {}
    /\ hidden = {}
    /\ receipt = [m \in Messages |-> None]
    /\ taking = [h \in Handlers |-> None]
    /\ returned = [m \in Messages |-> 0]
    /\ budget = MaxFaults

Spend(kind) == /\ budget[kind] > 0
               /\ budget' = [budget EXCEPT ![kind] = @ - 1]

----
\* enqueue: one send_message; the job id is fresh.
Enqueue(j) ==
    /\ j \notin sent
    /\ sent' = sent \cup {j}
    /\ queued' = queued \cup {<<j, "sent">>}
    /\ UNCHANGED <<hidden, receipt, taking, returned, budget>>

\* enqueue whose send_message the SDK's retry policy repeats after the first
\* one was stored but not acknowledged: two messages carry the same job id.
EnqueueResent(j) ==
    /\ j \notin sent
    /\ Spend("resend")
    /\ sent' = sent \cup {j}
    /\ queued' = queued \cup {<<j, "sent">>, <<j, "resent">>}
    /\ UNCHANGED <<hidden, receipt, taking, returned>>

\* Faulty variant: the message is deleted as soon as it is received.
ReceiveAndDelete(h, m) ==
    /\ taking[h] = None
    /\ m \in queued \ hidden
    /\ queued' = queued \ {m}
    /\ taking' = [taking EXCEPT ![h] = m]
    /\ UNCHANGED <<sent, hidden, receipt, returned, budget>>

\* try_claim, first half: receive_messages hides one visible message.
Receive(h, m) ==
    /\ taking[h] = None
    /\ m \in queued \ hidden
    /\ hidden' = hidden \cup {m}
    /\ receipt' = [receipt EXCEPT ![m] = h]
    /\ taking' = [taking EXCEPT ![h] = m]
    /\ UNCHANGED <<sent, queued, returned, budget>>

\* The service deletes a message only for the receipt it issued last.
HoldsCurrentReceipt(h) == /\ taking[h] \in queued
                          /\ receipt[taking[h]] = h

\* Faulty variant: a rejected delete_message is ignored, the id returned anyway.
DeleteIgnoringReceipt(h) ==
    /\ taking[h] # None
    /\ queued' = queued \ {taking[h]}
    /\ hidden' = hidden \ {taking[h]}
    /\ returned' = [returned EXCEPT ![taking[h]] = @ + 1]
    /\ taking' = [taking EXCEPT ![h] = None]
    /\ UNCHANGED <<sent, receipt, budget>>

\* try_claim, second half: delete_message succeeds and the job id is returned.
Delete(h) ==
    /\ taking[h] # None
    /\ HoldsCurrentReceipt(h)
    /\ queued' = queued \ {taking[h]}
    /\ hidden' = hidden \ {taking[h]}
    /\ returned' = [returned EXCEPT ![taking[h]] = @ + 1]
    /\ taking' = [taking EXCEPT ![h] = None]
    /\ UNCHANGED <<sent, receipt, budget>>

\* delete_message raises on a stale receipt: try_claim returns no job id.
DeleteRejected(h) ==
    /\ taking[h] # None
    /\ ~HoldsCurrentReceipt(h)
    /\ taking' = [taking EXCEPT ![h] = None]
    /\ UNCHANGED <<sent, queued, hidden, receipt, returned, budget>>

\* The handler stops, between receive_messages and delete_message or elsewhere.
Abandon(h) ==
    /\ Spend("abort")
    /\ taking' = [taking EXCEPT ![h] = None]
    /\ UNCHANGED <<sent, queued, hidden, receipt, returned>>

----
InProgress(m) == \E h \in Handlers : taking[h] = m /\ receipt[m] = h

\* The visibility timeout ends; the receiver is gone.
Reappear(m) ==
    /\ m \in hidden
    /\ ~InProgress(m)
    /\ hidden' = hidden \ {m}
    /\ UNCHANGED <<sent, queued, receipt, taking, returned, budget>>

\* The visibility timeout ends before a slow receiver has called delete_message.
ReappearOverdue(m) ==
    /\ m \in hidden
    /\ InProgress(m)
    /\ Spend("overdue")
    /\ hidden' = hidden \ {m}
    /\ UNCHANGED <<sent, queued, receipt, taking, returned>>

\* The message's time to live (seven days, send_message's default) ends.
Expire(m) ==
    /\ m \in queued
    /\ Spend("expire")
    /\ queued' = queued \ {m}
    /\ hidden' = hidden \ {m}
    /\ UNCHANGED <<sent, receipt, taking, returned>>

Next ==
    \/ \E j \in JobIds : Enqueue(j) \/ EnqueueResent(j)
    \/ \E h \in Handlers, m \in Messages : Receive(h, m)
    \/ \E h \in Handlers : Delete(h) \/ DeleteRejected(h) \/ Abandon(h)
    \/ \E m \in Messages : Reappear(m) \/ ReappearOverdue(m) \/ Expire(m)

Spec == Init /\ [][Next]_vars

----
\* No message is returned by try_claim twice, and none that was returned is
\* still stored, however often timeouts, crashes and resends interleave with
\* the receive and the delete of several handlers.
HandedOutOnce ==
    \A m \in Messages : returned[m] <= (IF m \in queued THEN 0 ELSE 1)

\* The adapter implements the port (ports/queue.py: a job id returned to one
\* caller is returned to no other) as long as no send is repeated and no message
\* expires: a stored message is available until it is deleted.
Port == INSTANCE JobQueuePort WITH
            available <- {j \in JobIds : <<j, "sent">> \in queued},
            returned  <- [j \in JobIds |-> returned[<<j, "sent">>]]

ImplementsPort == Port!Spec

\* Every stored message is handed out in the end, unless it is one that expires:
\* an abandoned or overdue message is received again.
EveryMessageIsTaken ==
    \A m \in Messages :
        m \in queued ~> \/ returned[m] = 1
                        \/ m \notin queued /\ budget["expire"] < MaxFaults["expire"]
====
