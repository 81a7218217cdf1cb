---- MODULE StorageQueueProofs ----
(* Theorems about StorageQueue, for every set of job ids and handlers and    *)
(* every fault budget.                                                       *)
EXTENDS StorageQueue, TLAPS

\* A job id that enqueue was not called with is neither stored nor handed out.
FreshIdsUnused ==
    \A m \in Messages : m[1] \notin sent => m \notin queued /\ returned[m] = 0

QueueInv == TypeOK /\ FreshIdsUnused /\ HandedOutOnce

LEMMA MessageParts ==
    \A m \in Messages : m[1] \in JobIds /\ m[2] \in {"sent", "resent"} /\ m = <<m[1], m[2]>>
BY DEF Messages

LEMMA MessagesOfJob ==
    \A j \in JobIds : <<j, "sent">> \in Messages /\ <<j, "resent">> \in Messages
BY DEF Messages

LEMMA SpendType ==
    ASSUME NEW kind \in FaultKinds, budget \in [FaultKinds -> Nat], Spend(kind)
    PROVE  budget' \in [FaultKinds -> Nat]
BY DEF Spend

LEMMA InitTypeOK == Init => TypeOK
BY MaxFaultsType DEF Init, TypeOK

LEMMA NextTypeOK == TypeOK /\ [Next]_vars => TypeOK'
<1> SUFFICES ASSUME TypeOK, [Next]_vars PROVE TypeOK'
  OBVIOUS
<1> USE DEF TypeOK
<1>1. ASSUME NEW j \in JobIds, Enqueue(j) PROVE TypeOK'
  BY <1>1, MessagesOfJob DEF Enqueue
<1>2. ASSUME NEW j \in JobIds, EnqueueResent(j) PROVE TypeOK'
  BY <1>2, MessagesOfJob, SpendType DEF EnqueueResent, FaultKinds
<1>3. ASSUME NEW h \in Handlers, NEW m \in Messages, Receive(h, m) PROVE TypeOK'
  BY <1>3 DEF Receive
<1>4. ASSUME NEW h \in Handlers, Delete(h) PROVE TypeOK'
  BY <1>4 DEF Delete, HoldsCurrentReceipt
<1>5. ASSUME NEW h \in Handlers, DeleteRejected(h) PROVE TypeOK'
  BY <1>5 DEF DeleteRejected
<1>6. ASSUME NEW h \in Handlers, Abandon(h) PROVE TypeOK'
  BY <1>6, SpendType DEF Abandon, FaultKinds
<1>7. ASSUME NEW m \in Messages, Reappear(m) PROVE TypeOK'
  BY <1>7 DEF Reappear
<1>8. ASSUME NEW m \in Messages, ReappearOverdue(m) PROVE TypeOK'
  BY <1>8, SpendType DEF ReappearOverdue, FaultKinds
<1>9. ASSUME NEW m \in Messages, Expire(m) PROVE TypeOK'
  BY <1>9, SpendType DEF Expire, FaultKinds
<1>10. CASE UNCHANGED vars
  BY <1>10 DEF vars
<1> QED
  BY <1>1, <1>2, <1>3, <1>4, <1>5, <1>6, <1>7, <1>8, <1>9, <1>10 DEF Next

\* The queue's state keeps its types.
THEOREM QueueTypeOK == Spec => []TypeOK
<1>1. Init => TypeOK
  BY InitTypeOK
<1>2. TypeOK /\ [Next]_vars => TypeOK'
  BY NextTypeOK
<1> QED
  BY <1>1, <1>2, PTL DEF Spec

----
LEMMA InitQueueInv == Init => QueueInv
BY InitTypeOK DEF Init, QueueInv, FreshIdsUnused, HandedOutOnce

LEMMA NextQueueInv == QueueInv /\ [Next]_vars => QueueInv'
<1> SUFFICES ASSUME QueueInv, [Next]_vars PROVE QueueInv'
  OBVIOUS
<1> USE DEF QueueInv
<1>0. TypeOK /\ TypeOK'
  BY NextTypeOK
<1> DEFINE Goal == FreshIdsUnused' /\ HandedOutOnce'
<1> USE DEF TypeOK, FreshIdsUnused, HandedOutOnce
<1>1. ASSUME NEW j \in JobIds, Enqueue(j) PROVE Goal
  BY <1>0, <1>1, MessageParts, MessagesOfJob DEF Enqueue
<1>2. ASSUME NEW j \in JobIds, EnqueueResent(j) PROVE Goal
  BY <1>0, <1>2, MessageParts, MessagesOfJob DEF EnqueueResent
<1>3. ASSUME NEW h \in Handlers, NEW m \in Messages, Receive(h, m) PROVE Goal
  BY <1>0, <1>3 DEF Receive
<1>4. ASSUME NEW h \in Handlers, Delete(h) PROVE Goal
  BY <1>0, <1>4 DEF Delete, HoldsCurrentReceipt
<1>5. ASSUME NEW h \in Handlers, DeleteRejected(h) PROVE Goal
  BY <1>0, <1>5 DEF DeleteRejected
<1>6. ASSUME NEW h \in Handlers, Abandon(h) PROVE Goal
  BY <1>0, <1>6 DEF Abandon
<1>7. ASSUME NEW m \in Messages, Reappear(m) \/ ReappearOverdue(m) PROVE Goal
  BY <1>0, <1>7 DEF Reappear, ReappearOverdue
<1>8. ASSUME NEW m \in Messages, Expire(m) PROVE Goal
  BY <1>0, <1>8 DEF Expire
<1>9. CASE UNCHANGED vars
  BY <1>0, <1>9 DEF vars
<1> QED
  BY <1>0, <1>1, <1>2, <1>3, <1>4, <1>5, <1>6, <1>7, <1>8, <1>9 DEF Next

\* No message is returned by try_claim twice, however many handlers receive it
\* and whichever of their visibility timeouts end early: delete_message is the
\* point at which one of them wins (storage_queue.py, try_claim).
THEOREM QueueHandsOutOnce == Spec => []HandedOutOnce
<1>1. Init => QueueInv
  BY InitQueueInv
<1>2. QueueInv /\ [Next]_vars => QueueInv'
  BY NextQueueInv
<1>3. QueueInv => HandedOutOnce
  BY DEF QueueInv
<1> QED
  BY <1>1, <1>2, <1>3, PTL DEF Spec

----
\* Under a budget without resends and expiries, only first sends are stored.
OnlyFirstSends ==
    /\ budget["resend"] = 0 /\ budget["expire"] = 0
    /\ \A m \in queued : m[2] = "sent"

LossFree == MaxFaults["resend"] = 0 /\ MaxFaults["expire"] = 0

LEMMA NextOnlyFirstSends ==
    QueueInv /\ OnlyFirstSends /\ [Next]_vars => OnlyFirstSends'
<1> SUFFICES ASSUME QueueInv, OnlyFirstSends, [Next]_vars PROVE OnlyFirstSends'
  OBVIOUS
<1> USE DEF QueueInv, TypeOK, OnlyFirstSends, Spend, FaultKinds
<1>1. ASSUME NEW j \in JobIds, Enqueue(j) \/ EnqueueResent(j) PROVE OnlyFirstSends'
  BY <1>1 DEF Enqueue, EnqueueResent
<1>2. ASSUME NEW h \in Handlers, NEW m \in Messages, Receive(h, m) PROVE OnlyFirstSends'
  BY <1>2 DEF Receive
<1>3. ASSUME NEW h \in Handlers, Delete(h) \/ DeleteRejected(h) \/ Abandon(h)
      PROVE OnlyFirstSends'
  BY <1>3 DEF Delete, DeleteRejected, Abandon
<1>4. ASSUME NEW m \in Messages, Reappear(m) \/ ReappearOverdue(m) \/ Expire(m)
      PROVE OnlyFirstSends'
  BY <1>4 DEF Reappear, ReappearOverdue, Expire
<1>5. CASE UNCHANGED vars
  BY <1>5 DEF vars
<1> QED
  BY <1>1, <1>2, <1>3, <1>4, <1>5 DEF Next

LEMMA InitMapsToPort == Init => Port!Init
BY MessagesOfJob DEF Init, Port!Init

LEMMA NextMapsToPort ==
    QueueInv /\ OnlyFirstSends /\ [Next]_vars => [Port!Next]_Port!portVars
<1> SUFFICES ASSUME QueueInv, OnlyFirstSends, [Next]_vars
             PROVE  [Port!Next]_Port!portVars
  OBVIOUS
<1> USE DEF QueueInv, TypeOK, OnlyFirstSends
<1> DEFINE Stutter == UNCHANGED Port!portVars
<1>1. ASSUME NEW j \in JobIds, Enqueue(j) PROVE Port!Enqueue(j)
  <2>1. j \notin sent /\ returned' = returned /\ queued' = queued \cup {<<j, "sent">>}
    BY <1>1 DEF Enqueue
  <2>2. <<j, "sent">> \notin queued /\ returned[<<j, "sent">>] = 0
    BY <2>1, MessagesOfJob, MessageParts DEF FreshIdsUnused
  <2> QED
    BY <2>1, <2>2 DEF Port!Enqueue
<1>2. ASSUME NEW j \in JobIds, EnqueueResent(j) PROVE FALSE
  BY <1>2 DEF EnqueueResent, Spend
<1>3. ASSUME NEW h \in Handlers, Delete(h) PROVE \E j \in JobIds : Port!TryClaim(j)
  <2>1. PICK m \in Messages :
            /\ m \in queued
            /\ queued' = queued \ {m}
            /\ returned' = [returned EXCEPT ![m] = @ + 1]
    BY <1>3 DEF Delete, HoldsCurrentReceipt
  <2>2. PICK j \in JobIds : m = <<j, "sent">>
    BY <2>1, MessageParts
  <2>3. \A i \in JobIds : <<i, "sent">> \in queued' <=> <<i, "sent">> \in queued /\ i # j
    BY <2>1, <2>2
  <2>4. \A i \in JobIds :
            returned'[<<i, "sent">>]
                = IF i = j THEN returned[<<i, "sent">>] + 1 ELSE returned[<<i, "sent">>]
    <3> TAKE i \in JobIds
    <3> DEFINE n == <<i, "sent">>
    <3>1. n \in Messages /\ (n = m <=> i = j)
      BY <2>2, MessagesOfJob
    <3> HIDE DEF n
    <3>2. returned'[n] = IF i = j THEN returned[n] + 1 ELSE returned[n]
      BY <2>1, <3>1
    <3> QED
      BY <3>2 DEF n
  <2>5. Port!TryClaim(j)
    BY <2>1, <2>2, <2>3, <2>4, MessagesOfJob DEF Port!TryClaim
  <2> QED
    BY <2>2, <2>5
<1>4. ASSUME NEW h \in Handlers, DeleteRejected(h) \/ Abandon(h) PROVE Stutter
  BY <1>4 DEF DeleteRejected, Abandon, Port!portVars
<1>5. ASSUME NEW h \in Handlers, NEW m \in Messages, Receive(h, m) PROVE Stutter
  BY <1>5 DEF Receive, Port!portVars
<1>6. ASSUME NEW m \in Messages, Reappear(m) \/ ReappearOverdue(m) PROVE Stutter
  BY <1>6 DEF Reappear, ReappearOverdue, Port!portVars
<1>7. ASSUME NEW m \in Messages, Expire(m) PROVE FALSE
  BY <1>7 DEF Expire, Spend
<1>8. CASE UNCHANGED vars
  BY <1>8 DEF vars, Port!portVars
<1> QED
  BY <1>1, <1>2, <1>3, <1>4, <1>5, <1>6, <1>7, <1>8 DEF Next, Port!Next

\* The adapter keeps the promise of ports/queue.py, for any number of crashes
\* and of visibility timeouts that end early, as long as no send is repeated
\* and no message expires.
THEOREM QueueImplementsPort == LossFree /\ Spec => ImplementsPort
<1>1. LossFree /\ Init => OnlyFirstSends
  BY DEF LossFree, Init, OnlyFirstSends
<1>2. QueueInv /\ OnlyFirstSends /\ [Next]_vars => OnlyFirstSends'
  BY NextOnlyFirstSends
<1>3. Init => QueueInv /\ Port!Init
  BY InitQueueInv, InitMapsToPort
<1>4. QueueInv /\ [Next]_vars => QueueInv'
  BY NextQueueInv
<1>5. QueueInv /\ OnlyFirstSends /\ [Next]_vars => [Port!Next]_Port!portVars
  BY NextMapsToPort
<1> QED
  BY <1>1, <1>2, <1>3, <1>4, <1>5, PTL DEF Spec, ImplementsPort, Port!Spec
====
