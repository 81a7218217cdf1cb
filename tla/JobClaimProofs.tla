---- MODULE JobClaimProofs ----
(* How the queue and the table stay in step: whoever holds a job, or has     *)
(* claimed it, got it through a message of its own.  So a job that was not   *)
(* handed out twice has one holder at most, and its row says queued as long  *)
(* as it has one.  Then the service implements JobLifecycle.                 *)
EXTENDS JobServiceProofs

\* The assumptions some theorems need: an SDK that does not repeat a stored
\* send, and workers that name themselves.
OneMessagePerJob == MaxFaults["resend"] = 0

WorkersHaveNames == Blank \notin WorkerIds

Row(h) == table[call[h].job_id]

Claimed(row) == row.status \in {"processing", "completed", "failed"}

\* The handlers of claim_job that were handed job j and may yet record a claim.
Holds(h, j) == call[h].step \in {"load", "record"} /\ call[h].job_id = j

HandedOut(j) == \E copy \in {"sent", "resent"} : returned[<<j, copy>>] > 0

\* Every holder of a job, and the claim its row records, took a message of the
\* job, which has two at most.
MessagesAccount(j) ==
    /\ Claimed(table[j]) => HandedOut(j)
    /\ \A h \in Handlers : Holds(h, j) =>
        /\ HandedOut(j)
        /\ Claimed(table[j]) => HandedOutTwice(j)
    /\ \A g, h \in Handlers : Holds(g, j) /\ Holds(h, j) /\ g # h =>
        /\ HandedOutTwice(j)
        /\ ~Claimed(table[j])
    /\ \A f, g, h \in Handlers : Holds(f, j) /\ Holds(g, j) /\ Holds(h, j)
        => f = g \/ g = h \/ f = h

\* A job is submitted once, and its message is not sent before its row is there.
SubmitsOnce ==
    /\ \A j \in sent : Exists(j)
    /\ \A h \in Handlers : At(h, "enqueue") => call[h].job_id \notin sent
    /\ \A g, h \in Handlers :
        At(g, "enqueue") /\ At(h, "enqueue") /\ call[g].job_id = call[h].job_id => g = h

SavesFollowClaims == \A h \in Handlers : At(h, "save") => Claimed(Row(h))

ClaimInv == /\ \A j \in JobIds : MessagesAccount(j)
            /\ SubmitsOnce
            /\ SavesFollowClaims

\* The invariants this module's theorems follow from, whatever faults happen.
JobInv == /\ ServiceInv
          /\ QueueInv
          /\ RowsExist
          /\ CallsPrepared
          /\ ClaimInv

----
\* The columns claim_job and complete_job or fail_job write.
LEMMA StoredColumns ==
    ASSUME NEW job \in Jobs
    PROVE  /\ JobToEntity(job).status = job.status
           /\ job.worker_id \in WorkerIds => JobToEntity(job).worker_id = job.worker_id
BY NoneIsNoString DEF JobToEntity, ToColumn, Jobs

\* A job that is stored is read back as it was exactly if none of its texts is
\* empty: the conversions of table_repository.py turn an empty one into None.
THEOREM JobsSurviveStorage ==
    ASSUME NEW job \in Jobs
    PROVE  EntityToJob(JobToEntity(job)) = job
             <=> Blank \notin {job.worker_id, job.result_reference, job.error_message}
<1>1. /\ EntityToJob(JobToEntity(job)).status = job.status
      /\ EntityToJob(JobToEntity(job)).worker_id = FromColumn(ToColumn(job.worker_id))
      /\ EntityToJob(JobToEntity(job)).result_reference
            = FromColumn(ToColumn(job.result_reference))
      /\ EntityToJob(JobToEntity(job)).error_message = FromColumn(ToColumn(job.error_message))
  BY DEF JobToEntity, EntityToJob
<1>2. \A field : FromColumn(ToColumn(field)) = field <=> field # Blank
  BY NoneIsNoString DEF FromColumn, ToColumn
<1>3. EntityToJob(JobToEntity(job)) = job
        <=> /\ EntityToJob(JobToEntity(job)).worker_id = job.worker_id
            /\ EntityToJob(JobToEntity(job)).result_reference = job.result_reference
            /\ EntityToJob(JobToEntity(job)).error_message = job.error_message
  BY <1>1 DEF EntityToJob, Jobs
<1> QED
  BY <1>1, <1>2, <1>3

LEMMA LoadedColumns ==
    ASSUME NEW entity \in TableEntities
    PROVE  /\ EntityToJob(entity).status = entity.status
           /\ entity.worker_id # Blank => EntityToJob(entity).worker_id = entity.worker_id
BY DEF EntityToJob, FromColumn

\* Three of the handlers' calls write a row.
LEMMA RowWriters ==
    ASSUME [ServiceNext]_allVars
    PROVE  \/ UNCHANGED table
           \/ \E h \in Handlers : ClaimRecord(h) \/ ReportSave(h)
           \/ \E h \in Handlers, j \in JobIds : SubmitCreate(h, j)
BY DEF ServiceNext, Request, HandlerStep, ClaimReceive, CompleteLoad, FailLoad,
       BeginReport, SubmitEnqueue, ClaimDelete, ClaimDeleteRejected, ClaimAccepted, ClaimLoad,
       ClaimRefused, ReportNotify, Abort, QueueService, serviceVars, allVars

LEMMA RowWritten ==
    ASSUME ServiceInv, CallsPrepared, NEW h \in Handlers, ClaimRecord(h) \/ ReportSave(h)
    PROVE  /\ call[h].job_id \in JobIds /\ call[h].job \in Jobs
           /\ \A i \in JobIds :
                table'[i] = IF i = call[h].job_id THEN JobToEntity(call[h].job) ELSE table[i]
           /\ JobToEntity(call[h].job).status = call[h].job.status
           /\ ClaimRecord(h) => call[h].job.status = "processing"
           /\ ReportSave(h) => call[h].job.status \in Outcomes
<1>1. call[h].job_id \in JobIds /\ call[h].job \in Jobs
  BY DEF ServiceInv, CallsShaped, CallShape, ClaimRecord, ReportSave, At
<1>2. table' = [table EXCEPT ![call[h].job_id] = JobToEntity(call[h].job)]
  BY DEF ClaimRecord, ReportSave, Update
<1>3. /\ ClaimRecord(h) => call[h].job.status = "processing"
      /\ ReportSave(h) => call[h].job.status \in Outcomes
  BY DEF ServiceInv, CallsShaped, CallShape, CallsPrepared, CallPrepared, ClaimRecord,
         ReportSave, At
<1> QED
  BY <1>1, <1>2, <1>3, StoredColumns DEF ServiceInv, ServiceTypeOK

\* A claim, once recorded, stays one: no row goes back to queued, whatever races.
LEMMA ClaimedStays ==
    ASSUME JobInv, [ServiceNext]_allVars, NEW j \in JobIds, Claimed(table[j])
    PROVE  Claimed(table[j])'
<1>1. ASSUME NEW h \in Handlers, NEW i \in JobIds, SubmitCreate(h, i)
      PROVE  table'[j] = table[j]
  BY <1>1 DEF SubmitCreate, Exists, NoEntity, Claimed, JobInv, ServiceInv, ServiceTypeOK
<1>2. ASSUME NEW h \in Handlers, ClaimRecord(h) \/ ReportSave(h)
      PROVE  Claimed(table'[j])
  BY <1>2, RowWritten DEF JobInv, Claimed, Outcomes
<1> QED
  BY <1>1, <1>2, RowWriters DEF Claimed

----
LEMMA InitJobInv == ServiceInit => JobInv
<1> SUFFICES ASSUME ServiceInit PROVE JobInv
  OBVIOUS
<1>1. ServiceInv /\ QueueInv
  BY InitServiceInv, InitIsQueueInit, InitQueueInv
<1>2. RowsExist /\ CallsPrepared /\ ClaimInv
  BY DEF ServiceInit, Init, Idle, NoEntity, RowsExist, CallsPrepared, CallPrepared, ClaimInv,
         MessagesAccount, Holds, Claimed, SubmitsOnce, SavesFollowClaims, At
<1> QED
  BY <1>1, <1>2 DEF JobInv

\* What takes no message, finds no holder and records no claim.
LEMMA AccountKept ==
    ASSUME NEW j \in JobIds, MessagesAccount(j), UNCHANGED returned,
           \A g \in Handlers : Holds(g, j)' => Holds(g, j),
           Claimed(table[j])' => Claimed(table[j])
    PROVE  MessagesAccount(j)'
BY DEF MessagesAccount, Holds, Claimed, HandedOut, HandedOutTwice

\* A job counts a message as taken when delete_message succeeds ...
LEMMA DeleteAccounts ==
    ASSUME JobInv, NEW h \in Handlers, ClaimDelete(h), NEW j \in JobIds
    PROVE  MessagesAccount(j)'
<1> DEFINE m == taking[h]
<1>1. /\ m \in Messages /\ m \in queued /\ call[h].step = "delete" /\ call[h].job_id = m[1]
      /\ call \in [Handlers -> Calls] /\ returned \in [Messages -> Nat]
      /\ taking \in [Handlers -> Messages \cup {None}]
  BY DEF ClaimDelete, Delete, HoldsCurrentReceipt, JobInv, ServiceInv, ServiceTypeOK, TypeOK,
         CallsPrepared, CallPrepared, At
<1>2. /\ returned' = [returned EXCEPT ![m] = @ + 1] /\ UNCHANGED table
      /\ call' = [call EXCEPT ![h].step = "load"]
  BY DEF ClaimDelete, Delete
<1>3. returned[m] = 0
  BY <1>1 DEF JobInv, QueueInv, HandedOutOnce
<1> HIDE DEF m
<1>4. \A n \in Messages : returned'[n] = IF n = m THEN 1 ELSE returned[n]
  BY <1>1, <1>2, <1>3
<1>5. \A g \in Handlers : Holds(g, j)' <=> Holds(g, j) \/ (g = h /\ j = m[1])
  BY <1>1, <1>2 DEF Holds, Calls
<1>6. MessagesAccount(j)
  BY DEF JobInv, ClaimInv
<1>7. CASE j # m[1]
  <2>1. returned'[<<j, "sent">>] = returned[<<j, "sent">>]
        /\ returned'[<<j, "resent">>] = returned[<<j, "resent">>]
    BY <1>4, <1>7, MessagesOfJob
  <2>2. (HandedOut(j)' <=> HandedOut(j)) /\ (HandedOutTwice(j)' <=> HandedOutTwice(j))
    BY <2>1 DEF HandedOut, HandedOutTwice
  <2> QED
    BY <1>2, <1>5, <1>6, <1>7, <2>2 DEF MessagesAccount, Claimed
<1>8. CASE j = m[1]
  <2>1. m \in {<<j, "sent">>, <<j, "resent">>}
    BY <1>1, <1>8, MessageParts
  <2>2. ~HandedOutTwice(j) /\ HandedOut(j)' /\ (HandedOut(j) => HandedOutTwice(j)')
    BY <1>1, <1>3, <1>4, <2>1, MessagesOfJob DEF HandedOut, HandedOutTwice
  <2>3. ~Holds(h, j)
    BY <1>1 DEF Holds
  <2> QED
    BY <1>2, <1>5, <1>6, <1>8, <2>2, <2>3 DEF MessagesAccount, Claimed
<1> QED
  BY <1>7, <1>8

\* ... and the holder that took it passes it on to the row.
LEMMA RecordAccounts ==
    ASSUME JobInv, NEW h \in Handlers, ClaimRecord(h), NEW j \in JobIds
    PROVE  MessagesAccount(j)'
<1>1. /\ call \in [Handlers -> Calls] /\ call[h].step = "record"
      /\ call' = [call EXCEPT ![h] = Idle] /\ UNCHANGED returned
      /\ MessagesAccount(j)
  BY DEF ClaimRecord, Finish, At, JobInv, ServiceInv, ServiceTypeOK, ClaimInv, queueVars
<1>2. /\ call[h].job_id = j => Claimed(table'[j])
      /\ call[h].job_id # j => table'[j] = table[j]
  BY RowWritten DEF JobInv, Claimed
<1>3. \A g \in Handlers : Holds(g, j)' <=> Holds(g, j) /\ g # h
  BY <1>1 DEF Holds, Idle
<1>4. (HandedOut(j)' <=> HandedOut(j)) /\ (HandedOutTwice(j)' <=> HandedOutTwice(j))
  BY <1>1 DEF HandedOut, HandedOutTwice
<1>5. CASE call[h].job_id # j
  BY <1>1, <1>2, <1>3, <1>4, <1>5 DEF MessagesAccount, Claimed
<1>6. CASE call[h].job_id = j
  <2>1. Holds(h, j)
    BY <1>1, <1>6 DEF Holds
  <2> QED
    BY <1>1, <1>2, <1>3, <1>4, <1>6, <2>1 DEF MessagesAccount
<1> QED
  BY <1>5, <1>6

LEMMA NextMessagesAccount ==
    ASSUME JobInv, [ServiceNext]_allVars, NEW j \in JobIds
    PROVE  MessagesAccount(j)'
<1> DEFINE NoNewHolder == \A g \in Handlers : Holds(g, j)' => Holds(g, j)
           NoNewClaim == Claimed(table[j])' => Claimed(table[j])
<1>0. /\ call \in [Handlers -> Calls] /\ table \in [JobIds -> TableEntities \cup {NoEntity}]
      /\ MessagesAccount(j)
  BY DEF JobInv, ServiceInv, ServiceTypeOK, ClaimInv
<1>1. ASSUME NoNewHolder, UNCHANGED <<returned, table>>
      PROVE  MessagesAccount(j)'
  BY <1>0, <1>1, AccountKept DEF Claimed
<1>2. ASSUME NEW h \in Handlers, NEW i \in JobIds, SubmitCreate(h, i)
      PROVE  MessagesAccount(j)'
  <2>1. NoNewHolder /\ UNCHANGED returned
    BY <1>0, <1>2 DEF SubmitCreate, Begin, Holds, Idle, queueVars
  <2>2. NoNewClaim
    BY <1>0, <1>2 DEF SubmitCreate, Claimed, JobToEntity, NewJob
  <2> QED
    BY <1>0, <2>1, <2>2, AccountKept
<1>3. ASSUME NEW h \in Handlers, NEW w \in WorkerIds, ClaimReceive(h, w)
      PROVE  MessagesAccount(j)'
  <2>1. NoNewHolder
    BY <1>0, <1>3 DEF ClaimReceive, Begin, Holds, Idle
  <2> QED
    BY <1>1, <1>3, <2>1 DEF ClaimReceive, Receive
<1>4. ASSUME NEW h \in Handlers, NEW i, NEW w, NEW job, BeginReport(h, i, w, job)
      PROVE  MessagesAccount(j)'
  <2>1. NoNewHolder
    BY <1>0, <1>4 DEF BeginReport, Begin, Holds
  <2> QED
    BY <1>1, <1>4, <2>1 DEF BeginReport, queueVars
<1>5. ASSUME NEW h \in Handlers,
             \/ SubmitEnqueue(h) \/ ClaimDeleteRejected(h) \/ ClaimRefused(h)
             \/ ReportNotify(h) \/ Abort(h)
      PROVE  MessagesAccount(j)'
  <2>1. Finish(h) /\ UNCHANGED <<returned, table>>
    BY <1>5 DEF SubmitEnqueue, Enqueue, EnqueueResent, ClaimDeleteRejected, DeleteRejected,
                ClaimRefused, ClaimLoad, ReportNotify, Abort, Abandon, queueVars
  <2>2. NoNewHolder
    BY <1>0, <2>1 DEF Finish, Holds, Idle
  <2> QED
    BY <1>1, <2>1, <2>2
<1>6. ASSUME NEW h \in Handlers, ClaimAccepted(h)
      PROVE  MessagesAccount(j)'
  <2>1. NoNewHolder
    BY <1>0, <1>6 DEF ClaimAccepted, ClaimLoad, At, Holds, Calls
  <2> QED
    BY <1>1, <1>6, <2>1 DEF ClaimAccepted, ClaimLoad, queueVars
<1>7. ASSUME NEW h \in Handlers, ReportSave(h)
      PROVE  MessagesAccount(j)'
  <2>1. NoNewHolder /\ UNCHANGED returned
    BY <1>0, <1>7 DEF ReportSave, Holds, Calls, queueVars
  <2>2. NoNewClaim
    BY <1>7, RowWritten DEF JobInv, ClaimInv, SavesFollowClaims, Claimed, Row, ReportSave
  <2> QED
    BY <1>0, <2>1, <2>2, AccountKept
<1>8. ASSUME QueueService \/ UNCHANGED allVars
      PROVE  MessagesAccount(j)'
  <2>1. UNCHANGED <<returned, table, call>>
    BY <1>8 DEF QueueService, Reappear, ReappearOverdue, Expire, allVars, queueVars, serviceVars
  <2> QED
    BY <1>1, <2>1 DEF Holds
<1> QED
  BY <1>2, <1>3, <1>4, <1>5, <1>6, <1>7, <1>8, DeleteAccounts, RecordAccounts
     DEF ServiceNext, Request, HandlerStep, CompleteLoad, FailLoad, ClaimAccepted, ClaimRefused

LEMMA NextSubmitsOnce ==
    ASSUME JobInv, [ServiceNext]_allVars
    PROVE  SubmitsOnce'
<1>0. /\ call \in [Handlers -> Calls] /\ SubmitsOnce
      /\ \A h \in Handlers : At(h, "enqueue") => call[h].job_id \in JobIds
                                                 /\ Exists(call[h].job_id)
      /\ table \in [JobIds -> TableEntities \cup {NoEntity}] /\ sent \subseteq JobIds
  BY DEF JobInv, ServiceInv, ServiceTypeOK, TypeOK, ClaimInv, CallsShaped, CallShape,
         RowsExist, At
<1> USE DEF SubmitsOnce, At
\* No row is deleted.
<1>1. \A j \in JobIds : Exists(j) => Exists(j)'
  <2>1. ASSUME NEW h \in Handlers, NEW i \in JobIds, SubmitCreate(h, i), NEW j \in JobIds, Exists(j)
        PROVE  table'[j] # NoEntity
    BY <1>0, <2>1, NewJobType, JobToEntityType, NoEntityIsNoEntity DEF SubmitCreate, Exists
  <2>2. ASSUME NEW h \in Handlers, ClaimRecord(h) \/ ReportSave(h), NEW j \in JobIds, Exists(j)
        PROVE  table'[j] # NoEntity
    BY <2>2, UpdateKeepsRows DEF ClaimRecord, ReportSave, JobInv
  <2> QED
    BY <2>1, <2>2, RowWriters DEF Exists
<1>2. ASSUME UNCHANGED sent,
             \A g \in Handlers : At(g, "enqueue")' => call'[g] = call[g]
      PROVE  SubmitsOnce'
  BY <1>0, <1>1, <1>2
<1>3. ASSUME NEW h \in Handlers, NEW j \in JobIds, SubmitCreate(h, j)
      PROVE  SubmitsOnce'
  <2>1. /\ ~Exists(j) /\ UNCHANGED sent
        /\ \A g \in Handlers : g # h => call'[g] = call[g]
        /\ call'[h].job_id = j
    BY <1>0, <1>3 DEF SubmitCreate, Begin, Idle, queueVars
  <2> QED
    BY <1>0, <1>1, <2>1
<1>4. ASSUME NEW h \in Handlers, SubmitEnqueue(h)
      PROVE  SubmitsOnce'
  <2>1. /\ call[h].step = "enqueue" /\ sent' = sent \cup {call[h].job_id}
        /\ \A g \in Handlers : call'[g] = IF g = h THEN Idle ELSE call[g]
    BY <1>0, <1>4 DEF SubmitEnqueue, Enqueue, EnqueueResent, Finish
  <2> QED
    BY <1>0, <1>1, <2>1 DEF Idle
<1>5. ASSUME NEW h \in Handlers, NEW w \in WorkerIds, ClaimReceive(h, w)
      PROVE  SubmitsOnce'
  BY <1>0, <1>2, <1>5 DEF ClaimReceive, Receive, Begin, Idle
<1>6. ASSUME NEW h \in Handlers, NEW i, NEW w, NEW job, BeginReport(h, i, w, job)
      PROVE  SubmitsOnce'
  BY <1>0, <1>2, <1>6 DEF BeginReport, Begin, queueVars
<1>7. ASSUME NEW h \in Handlers,
             \/ ClaimDeleteRejected(h) \/ ClaimRefused(h) \/ ClaimRecord(h)
             \/ ReportNotify(h) \/ Abort(h)
      PROVE  SubmitsOnce'
  <2>1. Finish(h) /\ UNCHANGED sent
    BY <1>7 DEF ClaimDeleteRejected, DeleteRejected, ClaimRefused, ClaimLoad, ClaimRecord,
                ReportNotify, Abort, Abandon, queueVars
  <2> QED
    BY <1>0, <1>2, <2>1 DEF Finish, Idle
<1>8. ASSUME NEW h \in Handlers, ClaimDelete(h) \/ ClaimAccepted(h) \/ ReportSave(h)
      PROVE  SubmitsOnce'
  <2>1. UNCHANGED sent /\ \A g \in Handlers : g # h => call'[g] = call[g]
    BY <1>0, <1>8 DEF ClaimDelete, Delete, ClaimAccepted, ClaimLoad, ReportSave, queueVars
  <2>2. call'[h].step # "enqueue"
    BY <1>0, <1>8 DEF ClaimDelete, ClaimAccepted, ClaimLoad, ReportSave, Calls
  <2> QED
    BY <1>2, <2>1, <2>2
<1>9. ASSUME QueueService \/ UNCHANGED allVars
      PROVE  SubmitsOnce'
  BY <1>2, <1>9 DEF QueueService, Reappear, ReappearOverdue, Expire, allVars, queueVars, serviceVars
<1> HIDE DEF SubmitsOnce, At
<1> QED
  BY <1>3, <1>4, <1>5, <1>6, <1>7, <1>8, <1>9
     DEF ServiceNext, Request, HandlerStep, CompleteLoad, FailLoad, ClaimAccepted, ClaimRefused

\* A report is about the job of a row that is claimed, and remains so.
LEMMA ReportedIsProcessing ==
    ASSUME ServiceInv, NEW h \in Handlers, NEW j \in JobIds, NEW w \in WorkerIds,
           \/ \E r \in References : CompleteLoad(h, j, w, r)
           \/ \E e \in ErrorMessages : FailLoad(h, j, w, e)
    PROVE  /\ Exists(j) /\ Get(j) \in Jobs /\ Get(j).status = "processing"
           /\ EnsureClaimedBy(Get(j), w)
           /\ \E job \in Jobs : job.worker_id = Get(j).worker_id /\ BeginReport(h, j, w, job)
<1>1. /\ Exists(j) /\ Get(j) \in Jobs /\ EnsureClaimedBy(Get(j), w)
      /\ CanTransition(Get(j), "completed") \/ CanTransition(Get(j), "failed")
  BY GetType DEF CompleteLoad, FailLoad, MayReport, ServiceInv
<1>2. Get(j).status = "processing"
  BY <1>1 DEF CanTransition, ALLOWED_TRANSITIONS, Jobs
<1>3. /\ \A r \in References : AsCompleted(Get(j), r).worker_id = Get(j).worker_id
      /\ \A e \in ErrorMessages : AsFailed(Get(j), e).worker_id = Get(j).worker_id
  BY <1>1 DEF AsCompleted, AsFailed, Jobs
<1> QED
  BY <1>1, <1>2, <1>3, TransitionTypes DEF CompleteLoad, FailLoad

LEMMA NextSavesFollowClaims ==
    ASSUME JobInv, [ServiceNext]_allVars
    PROVE  SavesFollowClaims'
<1>0. /\ call \in [Handlers -> Calls] /\ SavesFollowClaims
      /\ \A h \in Handlers : At(h, "save") => call[h].job_id \in JobIds
  BY DEF JobInv, ServiceInv, ServiceTypeOK, ClaimInv, CallsShaped, CallShape, At
<1>1. \A j \in JobIds : Claimed(table[j]) => Claimed(table'[j])
  BY ClaimedStays DEF Claimed
<1> USE DEF SavesFollowClaims, Row, At
<1>2. ASSUME \A g \in Handlers : At(g, "save")' => call'[g] = call[g]
      PROVE  SavesFollowClaims'
  BY <1>0, <1>1, <1>2 DEF Claimed
<1>3. ASSUME NEW h \in Handlers, NEW j \in JobIds, NEW w \in WorkerIds,
             \/ \E r \in References : CompleteLoad(h, j, w, r)
             \/ \E e \in ErrorMessages : FailLoad(h, j, w, e)
      PROVE  SavesFollowClaims'
  <2>1. Get(j).status = "processing" /\ \E job : BeginReport(h, j, w, job)
    BY <1>3, ReportedIsProcessing DEF JobInv
  <2>2. Claimed(table'[j])
    BY <1>1, <2>1 DEF Claimed, Get, EntityToJob
  <2>3. call'[h].job_id = j /\ \A g \in Handlers : g # h => call'[g] = call[g]
    BY <1>0, <2>1 DEF BeginReport, Begin
  <2> QED
    BY <1>0, <1>1, <2>2, <2>3 DEF Claimed
<1>4. ASSUME NEW h \in Handlers, \E c : c.step # "save" /\ call' = [call EXCEPT ![h] = c]
      PROVE  SavesFollowClaims'
  BY <1>0, <1>2, <1>4
<1>5. ASSUME NEW h \in Handlers,
             \/ \E j \in JobIds : SubmitCreate(h, j)
             \/ \E w \in WorkerIds : ClaimReceive(h, w)
             \/ SubmitEnqueue(h) \/ ClaimDeleteRejected(h) \/ ClaimRefused(h) \/ ClaimRecord(h)
             \/ ReportNotify(h) \/ Abort(h)
      PROVE  SavesFollowClaims'
  <2>1. \E c : c.step # "save" /\ call' = [call EXCEPT ![h] = c]
    BY <1>5 DEF SubmitCreate, ClaimReceive, Begin, SubmitEnqueue, ClaimDeleteRejected,
                ClaimRefused, ClaimLoad, ClaimRecord, ReportNotify, Abort, Finish, Idle
  <2> QED
    BY <1>4, <2>1
<1>6. ASSUME NEW h \in Handlers, ClaimDelete(h) \/ ClaimAccepted(h) \/ ReportSave(h)
      PROVE  SavesFollowClaims'
  <2>1. \A g \in Handlers : g # h => call'[g] = call[g]
    BY <1>0, <1>6 DEF ClaimDelete, ClaimAccepted, ClaimLoad, ReportSave
  <2>2. call'[h].step # "save"
    BY <1>0, <1>6 DEF ClaimDelete, ClaimAccepted, ClaimLoad, ReportSave, Calls
  <2> QED
    BY <1>2, <2>1, <2>2
<1>7. ASSUME QueueService \/ UNCHANGED allVars
      PROVE  SavesFollowClaims'
  BY <1>2, <1>7 DEF QueueService, allVars, serviceVars
<1> HIDE DEF SavesFollowClaims, Row, At
<1> QED
  BY <1>3, <1>5, <1>6, <1>7 DEF ServiceNext, Request, HandlerStep, ClaimAccepted, ClaimRefused

LEMMA NextJobInv == JobInv /\ [ServiceNext]_allVars => JobInv'
<1> SUFFICES ASSUME JobInv, [ServiceNext]_allVars PROVE JobInv'
  OBVIOUS
<1>1. ServiceInv' /\ QueueInv' /\ RowsExist' /\ CallsPrepared'
  BY NextServiceInv, StepIsQueueStep, NextQueueInv, NextRowsExist, NextCallsPrepared DEF JobInv
<1>2. ClaimInv'
  BY NextMessagesAccount, NextSubmitsOnce, NextSavesFollowClaims DEF ClaimInv
<1> QED
  BY <1>1, <1>2 DEF JobInv

----
\* What a handler that holds a job finds in its row, unless a second message
\* of the job was handed out.
LEMMA HolderFinds ==
    ASSUME JobInv, NEW h \in Handlers, call[h].step \in {"load", "record"}
    PROVE  /\ call[h].job_id \in JobIds
           /\ Exists(call[h].job_id)
           /\ Row(h).status \in JobStatus
           /\ Row(h).status = "queued" \/ HandedOutTwice(call[h].job_id)
<1>1. call[h].job_id \in JobIds /\ Exists(call[h].job_id)
  BY DEF JobInv, ServiceInv, CallsShaped, CallShape, RowsExist, At
<1>2. Row(h).status \in JobStatus
  BY <1>1 DEF Row, Exists, JobInv, ServiceInv, ServiceTypeOK, TableEntities
<1>3. Claimed(Row(h)) => HandedOutTwice(call[h].job_id)
  BY <1>1 DEF JobInv, ClaimInv, MessagesAccount, Holds, Row
<1> QED
  BY <1>1, <1>2, <1>3 DEF Claimed, JobStatus

\* Until a message of it is sent, a job is queued.
LEMMA SubmitterFinds ==
    ASSUME JobInv, NEW h \in Handlers, At(h, "enqueue")
    PROVE  call[h].job_id \in JobIds /\ Row(h).status = "queued"
<1> DEFINE j == call[h].job_id
<1>1. j \in JobIds /\ j \notin sent /\ Exists(j) /\ MessagesAccount(j)
  BY DEF JobInv, ServiceInv, CallsShaped, CallShape, RowsExist, At, ClaimInv, SubmitsOnce
<1>2. ~HandedOut(j)
  BY <1>1, MessagesOfJob DEF JobInv, QueueInv, FreshIdsUnused, HandedOut
<1>3. table[j].status \in JobStatus /\ ~Claimed(table[j])
  BY <1>1, <1>2 DEF Exists, JobInv, ServiceInv, ServiceTypeOK, TableEntities, MessagesAccount
<1> QED
  BY <1>1, <1>3 DEF Row, Claimed, JobStatus

\* What has been handed out remains so.
LEMMA TwiceStays ==
    ASSUME ServiceInv, [ServiceNext]_allVars, NEW j \in JobIds, HandedOutTwice(j)
    PROVE  HandedOutTwice(j)'
<1>1. returned \in [Messages -> Nat]
  BY DEF ServiceInv, ServiceTypeOK, TypeOK
<1>2. [Next]_vars
  BY StepIsQueueStep
<1>3. ASSUME NEW h \in Handlers, Delete(h), NEW m \in Messages
      PROVE  returned'[m] >= returned[m]
  BY <1>1, <1>3 DEF Delete
<1>4. UNCHANGED returned \/ \E h \in Handlers : Delete(h)
  BY <1>2 DEF Next, Enqueue, EnqueueResent, Receive, DeleteRejected, Abandon, Reappear,
              ReappearOverdue, Expire, vars
<1>5. \A m \in Messages : returned[m] > 0 => returned'[m] > 0
  <2>1. CASE UNCHANGED returned
    BY <2>1
  <2>2. ASSUME NEW h \in Handlers, Delete(h), NEW m \in Messages, returned[m] > 0
        PROVE  returned'[m] > 0
    <3>1. returned'[m] >= returned[m] /\ returned[m] \in Nat /\ returned'[m] \in Nat
      BY <1>1, <1>3, <2>2, StepIsQueueStep, NextTypeOK DEF ServiceInv, ServiceTypeOK, TypeOK
    <3> QED
      BY <2>2, <3>1
  <2> QED
    BY <1>4, <2>1, <2>2
<1> QED
  BY <1>5, MessagesOfJob DEF HandedOutTwice

\* Between the read and the update of claim_job nobody moves the job on: its
\* message led to this handler only, and another handler needs another message.
THEOREM ClaimsAreCurrent == ServiceSpec => []ClaimStillCurrent
<1>1. ServiceInit => JobInv
  BY InitJobInv
<1>2. JobInv /\ [ServiceNext]_allVars => JobInv'
  BY NextJobInv
<1>3. JobInv => ClaimStillCurrent
  BY HolderFinds DEF ClaimStillCurrent, At, Row
<1> QED
  BY <1>1, <1>2, <1>3, PTL DEF ServiceSpec

----
\* Whose a job is: the row of a claimed job names a worker, a handler writes back
\* the name of its own worker, and a report comes from the worker the row names.
RowsOwned ==
    \A j \in JobIds :
        table[j].worker_id \in (IF Claimed(table[j]) THEN WorkerIds ELSE {Blank})

CallOwned(h) ==
    /\ call[h].step \in {"record", "save"} => call[h].job.worker_id = call[h].worker_id
    /\ At(h, "save") /\ ~HandedOutTwice(call[h].job_id)
            => Row(h).worker_id = call[h].worker_id

OwnerInv == RowsOwned /\ \A h \in Handlers : CallOwned(h)

LEMMA InitOwnerInv == ServiceInit => OwnerInv
BY DEF ServiceInit, Idle, NoEntity, OwnerInv, RowsOwned, CallOwned, Claimed, At

\* A handler that writes a row names its worker there; only a second claim of a
\* job that was handed out twice names another one than the row did.
LEMMA RowWriterOwns ==
    ASSUME JobInv, OwnerInv, NEW h \in Handlers, ClaimRecord(h) \/ ReportSave(h)
    PROVE  /\ call[h].worker_id \in WorkerIds
           /\ table'[call[h].job_id].worker_id = call[h].worker_id
           /\ Claimed(table'[call[h].job_id])
           /\ Claimed(Row(h)) /\ ~HandedOutTwice(call[h].job_id)
                => Row(h).worker_id = call[h].worker_id
<1> DEFINE j == call[h].job_id
<1>1. /\ j \in JobIds /\ call[h].job \in Jobs
      /\ table'[j] = JobToEntity(call[h].job) /\ Claimed(table'[j])
  BY RowWritten DEF JobInv, Claimed, Outcomes
<1>2. /\ call[h].step \in {"record", "save"}
      /\ call[h].worker_id \in WorkerIds /\ call[h].job.worker_id = call[h].worker_id
  BY DEF ClaimRecord, ReportSave, At, JobInv, ServiceInv, CallsShaped, CallShape,
         OwnerInv, CallOwned
<1>3. table'[j].worker_id = call[h].worker_id
  BY <1>1, <1>2, StoredColumns
<1>4. CASE call[h].step = "record"
  <2>1. Claimed(Row(h)) => HandedOutTwice(j)
    BY <1>4, HolderFinds DEF Claimed
  <2> QED
    BY <1>1, <1>2, <1>3, <2>1
<1>5. CASE call[h].step = "save"
  BY <1>1, <1>2, <1>3, <1>5 DEF OwnerInv, CallOwned, At
<1> QED
  BY <1>2, <1>4, <1>5

\* Only a row that is not claimed yet, or one of a job that was handed out twice,
\* is given another owner.
LEMMA OwnerKept ==
    ASSUME JobInv, OwnerInv, [ServiceNext]_allVars, NEW j \in JobIds,
           table[j].worker_id # Blank, ~HandedOutTwice(j)
    PROVE  table'[j].worker_id = table[j].worker_id
<1>0. Claimed(table[j])
  BY DEF OwnerInv, RowsOwned
<1>1. ASSUME NEW h \in Handlers, NEW i \in JobIds, SubmitCreate(h, i)
      PROVE  table'[j].worker_id = table[j].worker_id
  BY <1>0, <1>1 DEF SubmitCreate, Exists, NoEntity, Claimed, JobInv, ServiceInv, ServiceTypeOK
<1>2. ASSUME NEW h \in Handlers, ClaimRecord(h) \/ ReportSave(h)
      PROVE  table'[j].worker_id = table[j].worker_id
  <2>1. j # call[h].job_id => table'[j] = table[j]
    BY <1>2, RowWritten DEF JobInv
  <2> QED
    BY <1>0, <1>2, <2>1, RowWriterOwns DEF Row
<1> QED
  BY <1>1, <1>2, RowWriters

\* Only who the row names gets to report, since the row of a claimed job names
\* somebody.
LEMMA ReporterOwns ==
    ASSUME WorkersHaveNames, JobInv, OwnerInv,
           NEW h \in Handlers, NEW j \in JobIds, NEW w \in WorkerIds,
           \/ \E r \in References : CompleteLoad(h, j, w, r)
           \/ \E e \in ErrorMessages : FailLoad(h, j, w, e)
    PROVE  /\ table[j].status = "processing"
           /\ table[j].worker_id = w /\ Get(j).worker_id = w
<1>1. /\ table[j] \in TableEntities /\ EnsureClaimedBy(Get(j), w)
      /\ table[j].status = "processing" /\ Claimed(table[j])
  BY ReportedIsProcessing
     DEF JobInv, ServiceInv, ServiceTypeOK, Exists, Claimed, Get, EntityToJob
<1> QED
  BY <1>1, LoadedColumns, NoneIsNoString
     DEF Get, EnsureClaimedBy, WorkersHaveNames, OwnerInv, RowsOwned

LEMMA NextOwnerInv ==
    ASSUME WorkersHaveNames, JobInv, OwnerInv, [ServiceNext]_allVars
    PROVE  OwnerInv'
<1>0. /\ call \in [Handlers -> Calls] /\ table \in [JobIds -> TableEntities \cup {NoEntity}]
      /\ \A h \in Handlers : CallOwned(h)
      /\ \A h \in Handlers : At(h, "save") => call[h].job_id \in JobIds /\ Claimed(Row(h))
  BY DEF JobInv, ServiceInv, ServiceTypeOK, CallsShaped, CallShape, ClaimInv, SavesFollowClaims,
         OwnerInv, At
<1>1. \A j \in JobIds : HandedOutTwice(j) => HandedOutTwice(j)'
  BY TwiceStays DEF JobInv
\* A handler that goes on as it was, while its row keeps its owner or is one that
\* was handed out twice.
<1>K. ASSUME NEW g \in Handlers, call'[g] = call[g],
             \A j \in JobIds : Claimed(table[j]) /\ ~HandedOutTwice(j)
                                 => table'[j].worker_id = table[j].worker_id
      PROVE  CallOwned(g)'
  BY <1>0, <1>1, <1>K DEF CallOwned, At, Row
<1>T. \A j \in JobIds : Claimed(table[j]) /\ ~HandedOutTwice(j)
                          => table'[j].worker_id = table[j].worker_id
  BY OwnerKept DEF OwnerInv, RowsOwned, WorkersHaveNames
<1>R. RowsOwned'
  <2>1. ASSUME NEW h \in Handlers, NEW i \in JobIds, SubmitCreate(h, i)
        PROVE  RowsOwned'
    <3>1. JobToEntity(NewJob).status = "queued" /\ JobToEntity(NewJob).worker_id = Blank
      BY DEF JobToEntity, NewJob, ToColumn
    <3> QED
      BY <1>0, <2>1, <3>1 DEF SubmitCreate, OwnerInv, RowsOwned, Claimed
  <2>2. ASSUME NEW h \in Handlers, ClaimRecord(h) \/ ReportSave(h)
        PROVE  RowsOwned'
    <3>1. \A j \in JobIds : j # call[h].job_id => table'[j] = table[j]
      BY <2>2, RowWritten DEF JobInv
    <3>2. table'[call[h].job_id].worker_id \in WorkerIds /\ Claimed(table'[call[h].job_id])
      BY <2>2, RowWriterOwns
    <3> QED
      BY <3>1, <3>2 DEF OwnerInv, RowsOwned, Claimed
  <2> QED
    BY <2>1, <2>2, RowWriters DEF OwnerInv, RowsOwned, Claimed
<1>2. ASSUME NEW h \in Handlers, NEW c, call' = [call EXCEPT ![h] = c], CallOwned(h)'
      PROVE  OwnerInv'
  <2>1. \A g \in Handlers : g # h => call'[g] = call[g]
    BY <1>0, <1>2
  <2> QED
    BY <1>2, <1>K, <1>T, <1>R, <2>1 DEF OwnerInv
<1>3. ASSUME NEW h \in Handlers, NEW c, c.step \notin {"record", "save"},
             call' = [call EXCEPT ![h] = c]
      PROVE  OwnerInv'
  <2>1. CallOwned(h)'
    BY <1>0, <1>3 DEF CallOwned, At
  <2> QED
    BY <1>2, <1>3, <2>1
<1>4. ASSUME NEW h \in Handlers,
             \/ \E j \in JobIds : SubmitCreate(h, j)
             \/ \E w \in WorkerIds : ClaimReceive(h, w)
             \/ SubmitEnqueue(h) \/ ClaimDeleteRejected(h) \/ ClaimRefused(h) \/ ClaimRecord(h)
             \/ ReportNotify(h) \/ Abort(h)
      PROVE  OwnerInv'
  <2>1. \E c : c.step \notin {"record", "save"} /\ call' = [call EXCEPT ![h] = c]
    BY <1>4 DEF SubmitCreate, ClaimReceive, Begin, SubmitEnqueue, ClaimDeleteRejected,
                ClaimRefused, ClaimLoad, ClaimRecord, ReportNotify, Abort, Finish, Idle
  <2> QED
    BY <1>3, <2>1
<1>5. ASSUME NEW h \in Handlers, ClaimDelete(h) \/ ReportSave(h)
      PROVE  OwnerInv'
  <2>1. \E s \in {"load", "notify"} : call' = [call EXCEPT ![h] = [@ EXCEPT !.step = s]]
    BY <1>5 DEF ClaimDelete, ReportSave
  <2>2. \A s \in {"load", "notify"} : [call[h] EXCEPT !.step = s].step = s
    BY <1>0 DEF Calls
  <2> QED
    BY <1>3, <2>1, <2>2
<1>6. ASSUME NEW h \in Handlers, ClaimAccepted(h)
      PROVE  OwnerInv'
  <2>1. PICK job : job = AsClaimed(Get(call[h].job_id), call[h].worker_id)
    OBVIOUS
  <2>2. job.worker_id = call[h].worker_id
    BY <2>1 DEF AsClaimed, Get, EntityToJob
  <2>3. call' = [call EXCEPT ![h] = [call[h] EXCEPT !.step = "record", !.job = job]]
    BY <1>6, <2>1 DEF ClaimAccepted, ClaimLoad
  <2>4. CallOwned(h)'
    BY <1>0, <2>2, <2>3 DEF CallOwned, At, Calls
  <2> QED
    BY <1>2, <2>3, <2>4
<1>7. ASSUME NEW h \in Handlers, NEW j \in JobIds, NEW w \in WorkerIds,
             \/ \E r \in References : CompleteLoad(h, j, w, r)
             \/ \E e \in ErrorMessages : FailLoad(h, j, w, e)
      PROVE  OwnerInv'
  <2>1. table[j].worker_id = w /\ Get(j).worker_id = w
    BY <1>7, ReporterOwns
  <2>2. PICK job \in Jobs : job.worker_id = w /\ BeginReport(h, j, w, job)
    BY <1>7, <2>1, ReportedIsProcessing DEF JobInv
  <2>3. /\ call' = [call EXCEPT ![h] = [step |-> "save", job_id |-> j, worker_id |-> w, job |-> job]]
        /\ UNCHANGED table
    BY <2>2 DEF BeginReport, Begin
  <2>4. CallOwned(h)'
    BY <1>0, <2>1, <2>2, <2>3 DEF CallOwned, At, Row
  <2> QED
    BY <1>2, <2>3, <2>4
<1>8. ASSUME QueueService \/ UNCHANGED allVars
      PROVE  OwnerInv'
  <2>1. UNCHANGED call
    BY <1>8 DEF QueueService, allVars, serviceVars
  <2> QED
    BY <1>K, <1>T, <1>R, <2>1 DEF OwnerInv
<1> QED
  BY <1>4, <1>5, <1>6, <1>7, <1>8
     DEF ServiceNext, Request, HandlerStep, ClaimAccepted, ClaimRefused

LEMMA ServiceOwners ==
    ASSUME WorkersHaveNames
    PROVE  ServiceSpec => [](JobInv /\ OwnerInv)
<1>1. ServiceInit => JobInv /\ OwnerInv
  BY InitJobInv, InitOwnerInv
<1>2. JobInv /\ OwnerInv /\ [ServiceNext]_allVars => (JobInv /\ OwnerInv)'
  BY NextJobInv, NextOwnerInv
<1> QED
  BY <1>1, <1>2, PTL DEF ServiceSpec

\* A report that is about to be saved comes from the worker the row names, also
\* when several reports on the job are being handled (README, Security).
THEOREM ClaimantsReport ==
    ASSUME WorkersHaveNames
    PROVE  ServiceSpec => []OnlyClaimantReports
<1>1. OwnerInv => OnlyClaimantReports
  BY DEF OwnerInv, CallOwned, OnlyClaimantReports, Row
<1> QED
  BY <1>1, ServiceOwners, PTL

\* A recorded claim is never taken over by another worker, unless the job was
\* handed out twice.
THEOREM OwnersAreStable ==
    ASSUME WorkersHaveNames
    PROVE  ServiceSpec => OwnerIsStable
<1>1. JobInv /\ OwnerInv /\ [ServiceNext]_allVars
        => [\A j \in JobIds : table[j].worker_id # Blank /\ ~HandedOutTwice(j)
                                => table'[j].worker_id = table[j].worker_id]_allVars
  BY OwnerKept
<1> QED
  BY <1>1, ServiceOwners, PTL DEF ServiceSpec, OwnerIsStable

----
\* Reports, as long as no worker reports on a job that it is already reporting
\* on: one handler reports on a job, its copy agrees with the row, and its user
\* has not been told before - unless the job was handed out twice.
ReportsDoNotOverlap == OverlappingReports = FALSE

Reporting(h) == call[h].step \in {"save", "notify"}

ReportCurrent(h) ==
    Reporting(h) /\ ~HandedOutTwice(call[h].job_id) =>
        /\ At(h, "save") => Row(h).status = "processing"
        /\ At(h, "notify") => /\ Row(h).status = call[h].job.status
                              /\ notices[call[h].job_id] = << >>

OneReporter ==
    \A g, h \in Handlers :
        Reporting(g) /\ Reporting(h) /\ call[g].job_id = call[h].job_id => g = h

UnfinishedUnnoticed ==
    \A j \in JobIds :
        ~HandedOutTwice(j) /\ table[j].status \notin Outcomes => notices[j] = << >>

ReportInv == /\ \A h \in Handlers : ReportCurrent(h)
             /\ OneReporter
             /\ UnfinishedUnnoticed

LEMMA InitReportInv == ServiceInit => ReportInv
BY DEF ServiceInit, Idle, ReportInv, ReportCurrent, OneReporter, Reporting,
       UnfinishedUnnoticed, At

LEMMA NextReportInv ==
    ASSUME ReportsDoNotOverlap, JobInv, ReportInv, [ServiceNext]_allVars
    PROVE  ReportInv'
<1> DEFINE Typed == /\ call \in [Handlers -> Calls]
                    /\ table \in [JobIds -> TableEntities \cup {NoEntity}]
                    /\ notices \in [JobIds -> Seq(Outcomes)]
<1>0. Typed /\ ReportInv
  BY DEF JobInv, ServiceInv, ServiceTypeOK
<1>a. \A h \in Handlers : Reporting(h) => /\ call[h].job_id \in JobIds
                                          /\ call[h].job.status \in Outcomes
  BY DEF JobInv, ServiceInv, CallsShaped, CallShape, Reporting, At
<1>b. \A h \in Handlers : Reporting(h) =>
        \/ HandedOutTwice(call[h].job_id)
        \/ Row(h).status \in {"processing"} \cup Outcomes
  BY <1>0, <1>a DEF ReportInv, ReportCurrent, Reporting, At
<1>t. \A j \in JobIds : HandedOutTwice(j) => HandedOutTwice(j)'
  BY TwiceStays DEF JobInv
<1> USE DEF ReportInv, ReportCurrent, OneReporter, Reporting, UnfinishedUnnoticed, At, Row
\* Steps that write neither the table nor the notices and start no report.
<1>1. ASSUME UNCHANGED <<table, notices>>,
             \A h \in Handlers : Reporting(h)' => call'[h] = call[h]
      PROVE  ReportInv'
  BY <1>0, <1>a, <1>t, <1>1
\* Steps that replace the row of a job nobody is reporting on, or of one that was
\* handed out twice.
<1>2. ASSUME NEW j \in JobIds, NEW row \in TableEntities,
             table' = [table EXCEPT ![j] = row], UNCHANGED notices,
             \/ HandedOutTwice(j)
             \/ /\ row.status \notin Outcomes /\ table[j].status \notin Outcomes
                /\ \A h \in Handlers : Reporting(h) => call[h].job_id # j,
             \A h \in Handlers : Reporting(h)' => call'[h] = call[h]
      PROVE  ReportInv'
  BY <1>0, <1>a, <1>t, <1>2
<1>3. ASSUME NEW h \in Handlers, NEW j \in JobIds, SubmitCreate(h, j) PROVE ReportInv'
  <2>1. table[j].status = "absent"
    BY <1>3 DEF SubmitCreate, Exists, NoEntity
  <2>2. HandedOutTwice(j) \/ \A g \in Handlers : Reporting(g) => call[g].job_id # j
    BY <1>b, <2>1 DEF Outcomes
  <2>3. \A g \in Handlers : Reporting(g)' => call'[g] = call[g]
    BY <1>0, <1>3 DEF SubmitCreate, Begin, Idle
  <2>4. JobToEntity(NewJob) \in TableEntities /\ JobToEntity(NewJob).status \notin Outcomes
    BY NewJobType, JobToEntityType DEF JobToEntity, NewJob, Outcomes
  <2>5. table' = [table EXCEPT ![j] = JobToEntity(NewJob)] /\ UNCHANGED notices
    BY <1>3 DEF SubmitCreate
  <2> QED
    BY <1>2, <2>1, <2>2, <2>3, <2>4, <2>5 DEF Outcomes
<1>4. ASSUME NEW h \in Handlers, ClaimRecord(h) PROVE ReportInv'
  <2> DEFINE j == call[h].job_id
             row == JobToEntity(call[h].job)
  <2>1. /\ j \in JobIds /\ call[h].job \in Jobs /\ row.status = "processing"
    BY <1>4, RowWritten DEF JobInv
  <2>2. table[j].status = "queued" \/ HandedOutTwice(j)
    BY <1>4, HolderFinds DEF ClaimRecord
  <2>3. HandedOutTwice(j) \/ \A g \in Handlers : Reporting(g) => call[g].job_id # j
    BY <1>b, <2>2 DEF Outcomes
  <2>4. \A g \in Handlers : Reporting(g)' => call'[g] = call[g]
    BY <1>0, <1>4 DEF ClaimRecord, Finish, Idle
  <2>5. row \in TableEntities /\ row.status \notin Outcomes
    BY <2>1, JobToEntityType DEF Outcomes
  <2>6. table' = [table EXCEPT ![j] = row] /\ UNCHANGED notices
    BY <1>4 DEF ClaimRecord, Update
  <2> HIDE DEF j, row
  <2> QED
    BY <1>2, <2>1, <2>2, <2>3, <2>4, <2>5, <2>6 DEF Outcomes
<1>5. ASSUME NEW h \in Handlers, NEW j \in JobIds, NEW w \in WorkerIds, NEW job \in Jobs,
             Get(j).status = "processing", ~BeingReported(j), BeginReport(h, j, w, job)
      PROVE  ReportInv'
  <2>1. table[j].status = "processing" /\ (notices[j] = << >> \/ HandedOutTwice(j))
    BY <1>0, <1>5 DEF Get, EntityToJob, Outcomes
  <2>2. \A g \in Handlers : Reporting(g) => call[g].job_id # j
    BY <1>5 DEF BeingReported
  <2>3. /\ call'[h].step = "save" /\ call'[h].job_id = j
        /\ \A g \in Handlers : g # h => call'[g] = call[g]
    BY <1>0, <1>5 DEF BeginReport, Begin
  <2>4. UNCHANGED <<table, notices>>
    BY <1>5 DEF BeginReport
  <2>5. ASSUME NEW g \in Handlers PROVE ReportCurrent(g)'
    <3>1. CASE g = h
      BY <1>5, <2>1, <2>3, <2>4, <3>1
    <3>2. CASE g # h
      BY <1>0, <1>a, <1>t, <2>3, <2>4, <3>2
    <3> QED
      BY <3>1, <3>2
  <2>6. OneReporter'
    BY <1>0, <2>2, <2>3
  <2>7. UnfinishedUnnoticed'
    BY <1>0, <1>t, <2>4
  <2> QED
    BY <2>5, <2>6, <2>7
<1>6. ASSUME NEW h \in Handlers, ReportSave(h) PROVE ReportInv'
  <2> DEFINE j == call[h].job_id
             row == JobToEntity(call[h].job)
  <2>1. /\ j \in JobIds /\ call[h].job.status \in Outcomes /\ Reporting(h)
        /\ row.status = call[h].job.status
        /\ \A i \in JobIds : table'[i] = IF i = j THEN row ELSE table[i]
    BY <1>a, <1>6, RowWritten DEF ReportSave, JobInv
  <2>2. HandedOutTwice(j) \/ (table[j].status = "processing" /\ notices[j] = << >>)
    BY <1>0, <1>6, <2>1 DEF ReportSave, Outcomes
  <2>4. \A g \in Handlers : g # h => call'[g] = call[g]
    BY <1>0, <1>6 DEF ReportSave
  <2>5. call'[h].step = "notify" /\ call'[h].job_id = j /\ call'[h].job = call[h].job
    BY <1>0, <1>6 DEF ReportSave, Calls
  <2>6. \A g \in Handlers : g # h /\ Reporting(g) => call[g].job_id # j
    BY <1>0, <2>1
  <2>7. UNCHANGED notices
    BY <1>6 DEF ReportSave
  <2> HIDE DEF row, j
  <2>8. ASSUME NEW g \in Handlers PROVE ReportCurrent(g)'
    <3>1. CASE g = h
      BY <1>t, <3>1, <2>1, <2>2, <2>5, <2>7
    <3>2. CASE g # h
      BY <1>0, <1>a, <1>t, <3>2, <2>1, <2>4, <2>6, <2>7
    <3> QED
      BY <3>1, <3>2
  <2>9. OneReporter'
    BY <1>0, <2>4, <2>5, <2>6
  <2>10. UnfinishedUnnoticed'
    BY <1>0, <1>t, <2>1, <2>2, <2>7
  <2> QED
    BY <2>8, <2>9, <2>10
<1>7. ASSUME NEW h \in Handlers, ReportNotify(h) PROVE ReportInv'
  <2> DEFINE j == call[h].job_id
  <2>1. /\ j \in JobIds /\ Reporting(h)
        /\ table[j].status \in Outcomes \/ HandedOutTwice(j)
    BY <1>0, <1>a, <1>7 DEF ReportNotify
  <2>2. \A g \in Handlers : call'[g] = IF g = h THEN Idle ELSE call[g]
    BY <1>0, <1>7 DEF ReportNotify, Finish
  <2>3. \A g \in Handlers : g # h /\ Reporting(g) => call[g].job_id # j
    BY <1>0, <2>1
  <2>4. UNCHANGED table /\ \A i \in JobIds : i # j => notices'[i] = notices[i]
    BY <1>0, <1>7 DEF ReportNotify
  <2>5. ASSUME NEW g \in Handlers PROVE ReportCurrent(g)'
    <3>1. CASE g = h
      BY <3>1, <2>2 DEF Idle
    <3>2. CASE g # h
      <4>1. call'[g] = call[g] /\ (Reporting(g) => call[g].job_id \in JobIds \ {j})
        BY <1>a, <3>2, <2>2, <2>3
      <4> HIDE DEF j
      <4> QED
        BY <1>0, <1>t, <4>1, <2>4
    <3> QED
      BY <3>1, <3>2
  <2>6. OneReporter'
    BY <1>0, <2>2 DEF Idle
  <2>7. UnfinishedUnnoticed'
    <3> HIDE DEF j
    <3> QED
      BY <1>0, <1>t, <2>1, <2>4
  <2> QED
    BY <2>5, <2>6, <2>7
<1>8. ASSUME NEW h \in Handlers, NEW w \in WorkerIds, ClaimReceive(h, w) PROVE ReportInv'
  BY <1>0, <1>1, <1>8 DEF ClaimReceive, Begin, Idle
<1>9. ASSUME NEW h \in Handlers, ClaimDelete(h) \/ ClaimAccepted(h) PROVE ReportInv'
  BY <1>0, <1>1, <1>9 DEF ClaimDelete, ClaimAccepted, ClaimLoad, Calls
<1>10. ASSUME NEW h \in Handlers,
              SubmitEnqueue(h) \/ ClaimDeleteRejected(h) \/ ClaimRefused(h) \/ Abort(h)
       PROVE  ReportInv'
  BY <1>0, <1>1, <1>10 DEF SubmitEnqueue, ClaimDeleteRejected, ClaimRefused, ClaimLoad, Abort,
                           Finish, Idle
<1>11. ASSUME QueueService \/ UNCHANGED allVars PROVE ReportInv'
  BY <1>1, <1>11 DEF QueueService, serviceVars, allVars
<1>12. ASSUME NEW h \in Handlers, NEW j \in JobIds, NEW w \in WorkerIds,
              \/ \E r \in References : CompleteLoad(h, j, w, r)
              \/ \E e \in ErrorMessages : FailLoad(h, j, w, e)
       PROVE  ReportInv'
  <2>1. Get(j).status = "processing" /\ \E job \in Jobs : BeginReport(h, j, w, job)
    BY <1>12, ReportedIsProcessing DEF JobInv
  <2>2. ~BeingReported(j)
    BY <1>12 DEF CompleteLoad, FailLoad, MayReport, ReportsDoNotOverlap
  <2> QED
    BY <1>5, <2>1, <2>2
<1> HIDE DEF ReportInv
<1> QED
  BY <1>3, <1>4, <1>6, <1>7, <1>8, <1>9, <1>10, <1>11, <1>12
     DEF ServiceNext, Request, HandlerStep, ClaimAccepted, ClaimRefused

----
\* What a step may do to a row.
Moves(old, new) ==
    \/ new = old
    \/ old.status = "absent" /\ new.status = "queued"
    \/ old.status = "queued" /\ new.status = "processing"
    \/ old.status = "processing" /\ new.status \in Outcomes

\* Rows only move along the state machine, unless the job was handed out twice.
LEMMA RowsMove ==
    ASSUME JobInv, ReportInv, [ServiceNext]_allVars, NEW j \in JobIds, ~HandedOutTwice(j)
    PROVE  Moves(table[j], table'[j])
<1>0. table \in [JobIds -> TableEntities \cup {NoEntity}]
  BY DEF JobInv, ServiceInv, ServiceTypeOK
<1>1. ASSUME NEW h \in Handlers, NEW i \in JobIds, SubmitCreate(h, i)
      PROVE  Moves(table[j], table'[j])
  <2>1. JobToEntity(NewJob).status = "queued" /\ table[i].status = "absent"
    BY <1>1 DEF JobToEntity, NewJob, SubmitCreate, Exists, NoEntity
  <2> QED
    BY <1>0, <1>1, <2>1 DEF SubmitCreate, Moves
<1>2. ASSUME NEW h \in Handlers, ClaimRecord(h) \/ ReportSave(h)
      PROVE  Moves(table[j], table'[j])
  <2>1. CASE call[h].job_id # j
    <3>1. table'[j] = table[j]
      BY <1>2, <2>1, RowWritten DEF JobInv
    <3> QED
      BY <3>1 DEF Moves
  <2>2. CASE call[h].job_id = j
    <3>1. /\ ClaimRecord(h) => table'[j].status = "processing"
          /\ ReportSave(h) => table'[j].status \in Outcomes
      BY <1>2, <2>2, RowWritten DEF JobInv
    <3>2. ClaimRecord(h) => table[j].status = "queued"
      BY <2>2, HolderFinds DEF ClaimRecord, At, Row
    <3>3. ReportSave(h) => table[j].status = "processing"
      BY <2>2 DEF ReportSave, ReportInv, ReportCurrent, Reporting, At, Row
    <3> QED
      BY <1>2, <3>1, <3>2, <3>3 DEF Moves
  <2> QED
    BY <2>1, <2>2
<1> QED
  BY <1>1, <1>2, RowWriters DEF Moves

\* Unless the job was handed out twice, what replaces a row is a transition that
\* the row itself allows, although transition_status was asked about an older copy.
THEOREM WritesStayAllowed ==
    ASSUME ReportsDoNotOverlap
    PROVE  ServiceSpec => WritesAreAllowed
<1>1. ServiceInit => JobInv /\ ReportInv
  BY InitJobInv, InitReportInv
<1>2. JobInv /\ ReportInv /\ [ServiceNext]_allVars => (JobInv /\ ReportInv)'
  BY NextJobInv, NextReportInv
<1>3. ASSUME JobInv, ReportInv, [ServiceNext]_allVars,
             NEW j \in JobIds, Exists(j), ~HandedOutTwice(j), table'[j] # table[j]
      PROVE  CanTransition(Get(j), table'[j].status)
  <2>1. table[j].status \in JobStatus
    BY <1>3 DEF Exists, JobInv, ServiceInv, ServiceTypeOK, TableEntities
  <2>2. \/ table[j].status = "queued" /\ table'[j].status = "processing"
        \/ table[j].status = "processing" /\ table'[j].status \in Outcomes
    BY <1>3, <2>1, RowsMove DEF Moves, JobStatus
  <2> QED
    BY <2>1, <2>2 DEF CanTransition, Get, EntityToJob, ALLOWED_TRANSITIONS, Outcomes
<1>4. JobInv /\ ReportInv /\ [ServiceNext]_allVars
        => [\A j \in JobIds :
                Exists(j) /\ ~HandedOutTwice(j) /\ table'[j] # table[j]
                    => CanTransition(Get(j), table'[j].status)]_allVars
  BY <1>3
<1> QED
  BY <1>1, <1>2, <1>4, PTL DEF ServiceSpec, WritesAreAllowed

----
\* Without repeated sends nothing is handed out twice.
SentOnce ==
    /\ budget["resend"] = 0
    /\ \A m \in queued : m[2] = "sent"
    /\ \A m \in Messages : m[2] = "resent" => returned[m] = 0

LEMMA InitSentOnce == OneMessagePerJob /\ ServiceInit => SentOnce
BY DEF OneMessagePerJob, ServiceInit, Init, SentOnce

LEMMA NextSentOnce == ServiceInv /\ SentOnce /\ [ServiceNext]_allVars => SentOnce'
<1> SUFFICES ASSUME TypeOK, SentOnce, [Next]_vars PROVE SentOnce'
  BY StepIsQueueStep DEF ServiceInv, ServiceTypeOK
<1> USE DEF TypeOK, SentOnce, Spend, FaultKinds
<1>1. ASSUME NEW j \in JobIds, Enqueue(j) \/ EnqueueResent(j) PROVE SentOnce'
  BY <1>1 DEF Enqueue, EnqueueResent
<1>2. ASSUME NEW h \in Handlers, Delete(h) PROVE SentOnce'
  <2>1. PICK m \in queued : /\ m \in Messages
                            /\ queued' = queued \ {m} /\ UNCHANGED budget
                            /\ returned' = [returned EXCEPT ![m] = @ + 1]
    BY <1>2 DEF Delete, HoldsCurrentReceipt
  <2> QED
    BY <2>1
<1>3. ASSUME NEW h \in Handlers,
             \/ \E m \in Messages : Receive(h, m)
             \/ DeleteRejected(h) \/ Abandon(h)
      PROVE  SentOnce'
  BY <1>3 DEF Receive, DeleteRejected, Abandon
<1>4. ASSUME NEW m \in Messages, Reappear(m) \/ ReappearOverdue(m) \/ Expire(m)
      PROVE  SentOnce'
  BY <1>4 DEF Reappear, ReappearOverdue, Expire
<1>5. CASE UNCHANGED vars
  BY <1>5 DEF vars
<1> QED
  BY <1>1, <1>2, <1>3, <1>4, <1>5 DEF Next

LEMMA SentOnceTakenOnce == SentOnce => \A j \in JobIds : ~HandedOutTwice(j)
<1> SUFFICES ASSUME SentOnce, NEW j \in JobIds PROVE ~(returned[<<j, "resent">>] > 0)
  BY DEF HandedOutTwice
<1> DEFINE m == <<j, "resent">>
<1>1. m \in Messages /\ m[2] = "resent"
  BY MessagesOfJob
<1> HIDE DEF m
<1>2. returned[m] = 0
  BY <1>1 DEF SentOnce
<1> QED
  BY <1>2 DEF m

----
\* The refinement: the service implements JobLifecycle.  A row is written as the
\* lifecycle allows, and its user told, unless its job was handed out twice.
LEMMA FirstSaveFinds ==
    ASSUME JobInv, OwnerInv, ReportInv, NEW h \in Handlers, ReportSave(h),
           ~HandedOutTwice(call[h].job_id)
    PROVE  Row(h).status = "processing" /\ Row(h).worker_id = call[h].worker_id
<1>1. Row(h).status = "processing"
  BY DEF ReportInv, ReportCurrent, Reporting, ReportSave, At
<1> QED
  BY <1>1, RowWriterOwns DEF Claimed

\* A handler that begins, ends or goes on with a report of a job changes who is
\* reporting on that job, and on no other.
LEMMA ReportersKept ==
    ASSUME call \in [Handlers -> Calls], NEW h \in Handlers, NEW c,
           call' = [call EXCEPT ![h] = c],
           \/ ~Reporting(h) /\ c.step \notin {"save", "notify"}
           \/ /\ Reporting(h) /\ c.step \in {"save", "notify"}
              /\ c.job_id = call[h].job_id /\ c.worker_id = call[h].worker_id
    PROVE  \A j \in JobIds : Reporters(j)' = Reporters(j)
<1>1. \A g \in Handlers : /\ Reporting(g)' <=> Reporting(g)
                          /\ Reporting(g) => /\ call'[g].job_id = call[g].job_id
                                             /\ call'[g].worker_id = call[g].worker_id
  BY DEF Reporting
<1> QED
  BY <1>1 DEF Reporting, Reporters

LEMMA ReporterLeaves ==
    ASSUME call \in [Handlers -> Calls], OneReporter, NEW h \in Handlers, Reporting(h),
           call' = [call EXCEPT ![h] = Idle]
    PROVE  /\ Reporters(call[h].job_id) # {}
           /\ \A j \in JobIds :
                Reporters(j)' = IF j = call[h].job_id THEN {} ELSE Reporters(j)
<1>1. \A g \in Handlers : call'[g] = IF g = h THEN Idle ELSE call[g]
  OBVIOUS
<1>2. ASSUME NEW j \in JobIds, j = call[h].job_id PROVE Reporters(j)' = {}
  BY <1>1, <1>2 DEF OneReporter, Reporting, Reporters, Idle
<1>3. ASSUME NEW j \in JobIds, j # call[h].job_id PROVE Reporters(j)' = Reporters(j)
  BY <1>1, <1>3 DEF Reporters, Idle
<1>4. Reporters(call[h].job_id) # {}
  BY DEF Reporters, Reporting
<1> QED
  BY <1>2, <1>3, <1>4

LEMMA ReporterJoins ==
    ASSUME call \in [Handlers -> Calls], NEW h \in Handlers, NEW j \in JobIds, NEW c,
           call[h] = Idle, ~BeingReported(j),
           call' = [call EXCEPT ![h] = c], c.step = "save", c.job_id = j
    PROVE  /\ Reporters(j) = {}
           /\ \A i \in JobIds : Reporters(i)' = IF i = j THEN {c.worker_id} ELSE Reporters(i)
<1>1. \A g \in Handlers : call'[g] = IF g = h THEN c ELSE call[g]
  OBVIOUS
<1>2. Reporters(j) = {}
  BY DEF Reporters, BeingReported
<1>3. Reporters(j)' = {c.worker_id}
  BY <1>1 DEF Reporters, BeingReported
<1>4. ASSUME NEW i \in JobIds, i # j PROVE Reporters(i)' = Reporters(i)
  BY <1>1, <1>4 DEF Reporters, Idle
<1> QED
  BY <1>2, <1>3, <1>4

LEMMA InitMapsToLifecycle == ServiceInit => Lifecycle!Init
<1> SUFFICES ASSUME ServiceInit PROVE Lifecycle!Init
  OBVIOUS
<1>1. \A j \in JobIds : Reporters(j) = {}
  BY DEF ServiceInit, Idle, Reporters
<1> QED
  BY <1>1 DEF ServiceInit, Lifecycle!Init, NoEntity

LEMMA NextMapsToLifecycle ==
    ASSUME ReportsDoNotOverlap, WorkersHaveNames, JobInv, OwnerInv, ReportInv, SentOnce,
           [ServiceNext]_allVars
    PROVE  [Lifecycle!Next]_Lifecycle!lifecycleVars
<1> DEFINE Goal == [Lifecycle!Next]_Lifecycle!lifecycleVars
           Replaced(j, row) == \A i \in JobIds : table'[i] = IF i = j THEN row ELSE table[i]
           SameReporters == \A i \in JobIds : Reporters(i)' = Reporters(i)
<1>0. /\ table \in [JobIds -> TableEntities \cup {NoEntity}]
      /\ notices \in [JobIds -> Seq(Outcomes)]
      /\ call \in [Handlers -> Calls]
      /\ \A j \in JobIds : ~HandedOutTwice(j)
      /\ OneReporter
  BY SentOnceTakenOnce DEF JobInv, ServiceInv, ServiceTypeOK, ReportInv
<1>1. ASSUME NEW h \in Handlers, NEW j \in JobIds, SubmitCreate(h, j) PROVE Goal
  <2> DEFINE row == JobToEntity(NewJob)
  <2>1. row.status = "queued" /\ row.worker_id = Blank
    BY DEF JobToEntity, NewJob, ToColumn
  <2>2. table[j].status = "absent" /\ table[j].worker_id = Blank
    BY <1>1 DEF SubmitCreate, Exists, NoEntity
  <2>3. Replaced(j, row) /\ UNCHANGED notices
    BY <1>0, <1>1 DEF SubmitCreate
  <2>4. SameReporters
    <3>1. \E c : c.step = "enqueue" /\ call' = [call EXCEPT ![h] = c]
      BY <1>1 DEF SubmitCreate, Begin, Idle
    <3>2. ~Reporting(h)
      BY <1>1 DEF SubmitCreate, Begin, Idle, Reporting
    <3> QED
      BY <1>0, <3>1, <3>2, ReportersKept
  <2> HIDE DEF row
  <2>5. Lifecycle!Submit(j)
    BY <2>1, <2>2, <2>3, <2>4 DEF Lifecycle!Submit, Lifecycle!Move
  <2> QED
    BY <2>5 DEF Lifecycle!Next
<1>2. ASSUME NEW h \in Handlers, ClaimRecord(h) \/ ReportSave(h) PROVE Goal
  <2>1. PICK j \in JobIds, w \in WorkerIds : j = call[h].job_id /\ w = call[h].worker_id
    BY <1>2, RowWritten, RowWriterOwns DEF JobInv
  <2>2. PICK row : row = JobToEntity(call[h].job)
    OBVIOUS
  <2>3. /\ Replaced(j, row) /\ UNCHANGED notices
        /\ row.worker_id = w
        /\ ClaimRecord(h) => row.status = "processing"
        /\ ReportSave(h) => row.status \in {"completed", "failed"}
    BY <1>2, <2>1, <2>2, RowWritten, RowWriterOwns
       DEF JobInv, ClaimRecord, ReportSave, Outcomes
  <2>4. CASE ClaimRecord(h)
    <3>1. table[j].status = "queued"
      BY <1>0, <2>1, <2>4, HolderFinds DEF ClaimRecord, At, Row
    <3>2. SameReporters
      BY <1>0, <2>4, ReportersKept DEF ClaimRecord, At, Finish, Idle, Reporting
    <3>3. Lifecycle!Claim(j, w)
      BY <2>3, <2>4, <3>1, <3>2 DEF Lifecycle!Claim, Lifecycle!Move
    <3> QED
      BY <3>3 DEF Lifecycle!Next
  <2>5. CASE ReportSave(h)
    <3>1. table[j].status = "processing" /\ table[j].worker_id = w
      BY <1>0, <2>1, <2>5, FirstSaveFinds DEF Row
    <3>2. Reporters(j) # {}
      BY <2>1, <2>5 DEF ReportSave, At, Reporters
    <3>3. SameReporters
      <4>1. call' = [call EXCEPT ![h] = [call[h] EXCEPT !.step = "notify"]]
        BY <2>5 DEF ReportSave
      <4>2. /\ [call[h] EXCEPT !.step = "notify"].step = "notify"
            /\ [call[h] EXCEPT !.step = "notify"].job_id = call[h].job_id
            /\ [call[h] EXCEPT !.step = "notify"].worker_id = call[h].worker_id
        BY <1>0 DEF Calls
      <4>3. Reporting(h)
        BY <2>5 DEF ReportSave, At, Reporting
      <4> QED
        BY <1>0, <4>1, <4>2, <4>3, ReportersKept
    <3>4. Lifecycle!End(j, "completed") \/ Lifecycle!End(j, "failed")
      BY <2>3, <2>5, <3>1, <3>2, <3>3 DEF Lifecycle!End, Lifecycle!Move
    <3> QED
      BY <3>4 DEF Lifecycle!Next
  <2> QED
    BY <1>2, <2>4, <2>5
<1>3. ASSUME NEW h \in Handlers, NEW j \in JobIds, NEW w \in WorkerIds,
             \/ \E r \in References : CompleteLoad(h, j, w, r)
             \/ \E e \in ErrorMessages : FailLoad(h, j, w, e)
      PROVE  Goal
  <2>1. PICK job : BeginReport(h, j, w, job)
    BY <1>3 DEF CompleteLoad, FailLoad
  <2>2. /\ table[j].status = "processing" /\ table[j].worker_id = w
        /\ ~BeingReported(j)
    BY <1>3, ReporterOwns DEF CompleteLoad, FailLoad, MayReport, ReportsDoNotOverlap
  <2>3. /\ Reporters(j) = {}
        /\ \A i \in JobIds : Reporters(i)' = IF i = j THEN {w} ELSE Reporters(i)
    <3>1. PICK c : /\ c.step = "save" /\ c.job_id = j /\ c.worker_id = w
                   /\ call' = [call EXCEPT ![h] = c] /\ call[h] = Idle
      BY <2>1 DEF BeginReport, Begin
    <3>2. /\ Reporters(j) = {}
          /\ \A i \in JobIds :
                Reporters(i)' = IF i = j THEN {c.worker_id} ELSE Reporters(i)
      BY <1>0, <2>2, <3>1, ReporterJoins
    <3> QED
      BY <3>1, <3>2
  <2>4. UNCHANGED <<table, notices>>
    BY <2>1 DEF BeginReport
  <2>5. Lifecycle!Report(j, w)
    BY <2>2, <2>3, <2>4 DEF Lifecycle!Report
  <2> QED
    BY <2>5 DEF Lifecycle!Next
<1>4. ASSUME NEW h \in Handlers, ReportNotify(h) PROVE Goal
  <2>1. PICK j \in JobIds :
            /\ j = call[h].job_id /\ call[h].job.status \in {"completed", "failed"}
            /\ table[j].status = call[h].job.status /\ notices[j] = << >>
    BY <1>0, <1>4 DEF ReportNotify, At, JobInv, ServiceInv, CallsShaped, CallShape, ReportInv,
                      ReportCurrent, Reporting, Row, Outcomes
  <2>2. UNCHANGED table /\ notices' = [notices EXCEPT ![j] = <<table[j].status>>]
    BY <1>0, <1>4, <2>1 DEF ReportNotify
  <2>3. /\ Reporters(j) # {}
        /\ \A i \in JobIds : Reporters(i)' = IF i = j THEN {} ELSE Reporters(i)
    BY <1>0, <1>4, <2>1, ReporterLeaves DEF ReportNotify, At, Finish, Reporting
  <2>4. Lifecycle!Notify(j)
    BY <2>1, <2>2, <2>3 DEF Lifecycle!Notify
  <2> QED
    BY <2>1, <2>4 DEF Lifecycle!Next
<1>5. ASSUME UNCHANGED <<table, notices>>, SameReporters PROVE Goal
  BY <1>5 DEF Lifecycle!lifecycleVars
<1>6. ASSUME NEW h \in Handlers, Abort(h) PROVE Goal
  <2>1. call' = [call EXCEPT ![h] = Idle] /\ UNCHANGED <<table, notices>>
    BY <1>6 DEF Abort, Finish
  <2>2. CASE Reporting(h)
    <3>1. PICK j \in JobIds : j = call[h].job_id
      BY <2>2 DEF JobInv, ServiceInv, CallsShaped, CallShape, Reporting, At
    <3>2. \A i \in JobIds : Reporters(i)' = IF i = j THEN {} ELSE Reporters(i)
      BY <1>0, <2>1, <2>2, <3>1, ReporterLeaves
    <3>3. Lifecycle!BreakOff(j)
      BY <2>1, <3>2 DEF Lifecycle!BreakOff
    <3> QED
      BY <3>3 DEF Lifecycle!Next
  <2>3. CASE ~Reporting(h)
    BY <1>0, <1>5, <2>1, <2>3, ReportersKept DEF Idle
  <2> QED
    BY <2>2, <2>3
<1>7. ASSUME NEW h \in Handlers,
             \/ \E w \in WorkerIds : ClaimReceive(h, w)
             \/ SubmitEnqueue(h) \/ ClaimDelete(h) \/ ClaimDeleteRejected(h) \/ ClaimLoad(h)
      PROVE  Goal
  <2>1. UNCHANGED <<table, notices>> /\ ~Reporting(h)
    <3>1. UNCHANGED <<table, notices>>
      BY <1>7 DEF ClaimReceive, SubmitEnqueue, ClaimDelete, ClaimDeleteRejected, ClaimLoad
    <3>2. call[h].step \in {"idle", "enqueue", "delete", "load"}
      <4>1. CASE \E w \in WorkerIds : ClaimReceive(h, w)
        BY <4>1 DEF ClaimReceive, Begin, Idle
      <4>2. CASE SubmitEnqueue(h) \/ ClaimDelete(h) \/ ClaimDeleteRejected(h) \/ ClaimLoad(h)
        <5>1. At(h, "enqueue") \/ At(h, "delete") \/ At(h, "load")
          BY <4>2 DEF SubmitEnqueue, ClaimDelete, ClaimDeleteRejected, ClaimLoad
        <5> QED
          BY <5>1 DEF At
      <4> QED
        BY <1>7, <4>1, <4>2
    <3> QED
      BY <3>1, <3>2 DEF Reporting
  <2>2. \E c : c.step \notin {"save", "notify"} /\ call' = [call EXCEPT ![h] = c]
    <3>1. CASE \/ \E w \in WorkerIds : ClaimReceive(h, w)
               \/ SubmitEnqueue(h) \/ ClaimDeleteRejected(h)
      BY <3>1 DEF ClaimReceive, Begin, SubmitEnqueue, ClaimDeleteRejected, Finish, Idle
    <3>2. CASE ClaimDelete(h)
      <4>1. [call[h] EXCEPT !.step = "load"].step = "load"
        BY <1>0 DEF Calls
      <4> QED
        BY <3>2, <4>1 DEF ClaimDelete
    <3>3. CASE ClaimLoad(h)
      <4>1. \A job : [call[h] EXCEPT !.step = "record", !.job = job].step = "record"
        BY <1>0 DEF Calls
      <4> QED
        BY <3>3, <4>1 DEF ClaimLoad, Finish, Idle
    <3> QED
      BY <1>7, <3>1, <3>2, <3>3
  <2>3. SameReporters
    BY <1>0, <2>1, <2>2, ReportersKept
  <2> QED
    BY <1>5, <2>1, <2>3
<1>8. CASE QueueService \/ UNCHANGED allVars
  <2>1. UNCHANGED serviceVars
    BY <1>8 DEF QueueService, allVars
  <2>2. SameReporters
    BY <2>1 DEF serviceVars, Reporters
  <2> QED
    BY <1>5, <2>1, <2>2 DEF serviceVars
<1> QED
  BY <1>1, <1>2, <1>3, <1>4, <1>6, <1>7, <1>8 DEF ServiceNext, Request, HandlerStep

\* Through any number of crashes, early timeouts and expired messages, a job is
\* claimed by one worker, ended for good by a report that ensure_claimed_by let
\* through from that worker and from nobody else, and its user told that end at
\* most once - if no worker reports on a job while its earlier report on it is
\* being handled.
THEOREM ServiceImplementsLifecycle ==
    ASSUME OneMessagePerJob, WorkersHaveNames, ReportsDoNotOverlap
    PROVE  ServiceSpec => ImplementsLifecycle
<1>1. ServiceInit => JobInv /\ OwnerInv /\ ReportInv /\ SentOnce /\ Lifecycle!Init
  BY InitJobInv, InitOwnerInv, InitReportInv, InitSentOnce, InitMapsToLifecycle
<1>2. JobInv /\ OwnerInv /\ [ServiceNext]_allVars => (JobInv /\ OwnerInv)'
  BY NextJobInv, NextOwnerInv
<1>3. JobInv /\ ReportInv /\ [ServiceNext]_allVars => ReportInv'
  BY NextReportInv
<1>4. JobInv /\ SentOnce /\ [ServiceNext]_allVars => SentOnce'
  BY NextSentOnce DEF JobInv
<1>5. JobInv /\ OwnerInv /\ ReportInv /\ SentOnce /\ [ServiceNext]_allVars
        => [Lifecycle!Next]_Lifecycle!lifecycleVars
  BY NextMapsToLifecycle
<1> QED
  BY <1>1, <1>2, <1>3, <1>4, <1>5, PTL DEF ServiceSpec, ImplementsLifecycle, Lifecycle!Spec

\* A completed or failed job stays so: only a report overlapping another one, or a
\* repeated send, takes the end of a job back (domain/jobs.py, ALLOWED_TRANSITIONS).
THEOREM EndsAreFinal ==
    ASSUME OneMessagePerJob, ReportsDoNotOverlap
    PROVE  ServiceSpec => TerminalIsFinal
<1>1. ServiceInit => JobInv /\ ReportInv /\ SentOnce
  BY InitJobInv, InitReportInv, InitSentOnce
<1>2. JobInv /\ [ServiceNext]_allVars => JobInv'
  BY NextJobInv
<1>3. JobInv /\ ReportInv /\ [ServiceNext]_allVars => ReportInv'
  BY NextReportInv
<1>4. JobInv /\ SentOnce /\ [ServiceNext]_allVars => SentOnce'
  BY NextSentOnce DEF JobInv
<1>5. ASSUME JobInv, ReportInv, SentOnce, [ServiceNext]_allVars,
             NEW j \in JobIds, table[j].status \in Outcomes
      PROVE  table'[j].status = table[j].status
  BY <1>5, SentOnceTakenOnce, RowsMove DEF Moves, Outcomes
<1>6. JobInv /\ ReportInv /\ SentOnce /\ [ServiceNext]_allVars
        => [\A j \in JobIds : table[j].status \in Outcomes
                                => table'[j].status = table[j].status]_allVars
  BY <1>5
<1> QED
  BY <1>1, <1>2, <1>3, <1>4, <1>6, PTL DEF ServiceSpec, TerminalIsFinal
====
