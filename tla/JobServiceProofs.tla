---- MODULE JobServiceProofs ----
(* Theorems about JobService, for every set of jobs, workers and handlers    *)
(* and every fault budget.                                                   *)
EXTENDS JobService, StorageQueueProofs, FiniteSetTheorems

\* What a handler's locals hold at each step of its operation.
CallShape(c) ==
    /\ c.step # "idle" => c.job_id \in JobIds
    /\ c.step \in {"delete", "load", "record", "save", "notify"}
            => c.worker_id \in WorkerIds
    /\ c.step \in {"record", "save", "notify"} => c.job \in Jobs
    /\ c.step \in {"save", "notify"} => c.job.status \in Outcomes

CallsShaped == \A h \in Handlers : CallShape(call[h])

ServiceInv == ServiceTypeOK /\ CallsShaped

----
\* The conversions and transitions of SimulationJobs keep to their types.
LEMMA NewJobType == NewJob \in Jobs
BY DEF NewJob, Jobs, JobStatus

LEMMA JobToEntityType ==
    ASSUME NEW job \in Jobs
    PROVE  JobToEntity(job) \in TableEntities
BY DEF Jobs, JobToEntity, TableEntities, Columns, ToColumn

LEMMA EntityToJobType ==
    ASSUME NEW entity \in TableEntities
    PROVE  EntityToJob(entity) \in Jobs
BY DEF Jobs, EntityToJob, TableEntities, Columns, FromColumn

LEMMA TransitionTypes ==
    ASSUME NEW job \in Jobs
    PROVE  /\ \A w \in WorkerIds : AsClaimed(job, w) \in Jobs
           /\ \A r \in References : AsCompleted(job, r) \in Jobs
           /\ \A e \in ErrorMessages : AsFailed(job, e) \in Jobs
BY DEF Jobs, JobStatus, AsClaimed, AsCompleted, AsFailed

LEMMA TransitionStatus ==
    ASSUME NEW job \in Jobs
    PROVE  /\ \A w \in WorkerIds : AsClaimed(job, w).status = "processing"
           /\ \A r \in References : AsCompleted(job, r).status = "completed"
           /\ \A e \in ErrorMessages : AsFailed(job, e).status = "failed"
BY DEF Jobs, AsClaimed, AsCompleted, AsFailed

LEMMA NoEntityIsNoEntity == NoEntity \notin TableEntities
BY DEF NoEntity, TableEntities, JobStatus

LEMMA GetType ==
    ASSUME ServiceTypeOK, NEW j \in JobIds, Exists(j)
    PROVE  Get(j) \in Jobs
<1>1. table[j] \in TableEntities
  BY DEF ServiceTypeOK, Exists
<1> QED
  BY <1>1, EntityToJobType DEF Get

LEMMA UpdateType ==
    ASSUME ServiceInv, NEW h \in Handlers, Update(h),
           call[h].step \in {"record", "save"}
    PROVE  table' \in [JobIds -> TableEntities \cup {NoEntity}]
<1>1. call[h].job_id \in JobIds /\ call[h].job \in Jobs
  BY DEF ServiceInv, CallsShaped, CallShape
<1>2. JobToEntity(call[h].job) \in TableEntities
  BY <1>1, JobToEntityType
<1> QED
  BY <1>1, <1>2 DEF Update, ServiceInv, ServiceTypeOK

\* A call that is replaced by a well-shaped one leaves every call well shaped.
LEMMA CallReplaced ==
    ASSUME ServiceInv, NEW h \in Handlers, NEW c \in Calls, CallShape(c),
           call' = [call EXCEPT ![h] = c]
    PROVE  call' \in [Handlers -> Calls] /\ CallsShaped'
<1>1. call' \in [Handlers -> Calls]
  BY DEF ServiceInv, ServiceTypeOK
<1>2. ASSUME NEW g \in Handlers PROVE CallShape(call'[g])
  <2>1. call'[g] = IF g = h THEN c ELSE call[g]
    BY DEF ServiceInv, ServiceTypeOK
  <2> QED
    BY <2>1 DEF ServiceInv, CallsShaped
<1>3. CallsShaped'
  BY <1>2 DEF CallsShaped, CallShape
<1> QED
  BY <1>1, <1>3

LEMMA IdleShape == Idle \in Calls /\ CallShape(Idle)
BY DEF Idle, Calls, Steps, CallShape

LEMMA FinishShape ==
    ASSUME ServiceInv, NEW h \in Handlers, Finish(h)
    PROVE  call' \in [Handlers -> Calls] /\ CallsShaped'
BY IdleShape, CallReplaced DEF Finish

LEMMA BeginReportShape ==
    ASSUME ServiceInv, NEW h \in Handlers, NEW j \in JobIds, NEW w \in WorkerIds,
           NEW job \in Jobs, job.status \in Outcomes, BeginReport(h, j, w, job)
    PROVE  call' \in [Handlers -> Calls] /\ CallsShaped'
<1> DEFINE c == [step |-> "save", job_id |-> j, worker_id |-> w, job |-> job]
<1>1. c \in Calls /\ CallShape(c)
  BY DEF Calls, Steps, CallShape
<1> QED
  BY <1>1, CallReplaced DEF BeginReport, Begin

----
LEMMA InitIsQueueInit == ServiceInit => Init
BY DEF ServiceInit

LEMMA InitServiceInv == ServiceInit => ServiceInv
<1> SUFFICES ASSUME ServiceInit PROVE ServiceInv
  OBVIOUS
<1>1. TypeOK
  BY InitTypeOK DEF ServiceInit
<1>2. table \in [JobIds -> TableEntities \cup {NoEntity}]
  BY DEF ServiceInit
<1>3. call \in [Handlers -> Calls] /\ CallsShaped
  BY IdleShape DEF ServiceInit, CallsShaped
<1>4. notices \in [JobIds -> Seq(Outcomes)]
  BY DEF ServiceInit
<1> QED
  BY <1>1, <1>2, <1>3, <1>4 DEF ServiceInv, ServiceTypeOK

\* Every step of the service is a step of the queue or leaves it alone.
LEMMA StepIsQueueStep == ServiceInv /\ [ServiceNext]_allVars => [Next]_vars
<1> SUFFICES ASSUME ServiceInv, [ServiceNext]_allVars PROVE [Next]_vars
  OBVIOUS
<1> USE DEF vars, queueVars
<1>1. ASSUME NEW h \in Handlers, Request(h) PROVE [Next]_vars
  BY <1>1 DEF Request, SubmitCreate, ClaimReceive, CompleteLoad, FailLoad,
              BeginReport, Next
<1>2. ASSUME NEW h \in Handlers, HandlerStep(h) PROVE [Next]_vars
  <2>1. CASE SubmitEnqueue(h)
    <3>1. call[h].job_id \in JobIds
      BY <2>1 DEF SubmitEnqueue, At, ServiceInv, CallsShaped, CallShape
    <3> QED
      BY <2>1, <3>1 DEF SubmitEnqueue, Next
  <2>2. CASE ClaimDelete(h) \/ ClaimDeleteRejected(h)
    BY <2>2 DEF ClaimDelete, ClaimDeleteRejected, Next
  <2>3. CASE ClaimAccepted(h) \/ ClaimRefused(h) \/ ClaimRecord(h)
    BY <2>3 DEF ClaimAccepted, ClaimLoad, ClaimRefused, ClaimRecord
  <2>4. CASE ReportSave(h) \/ ReportNotify(h)
    BY <2>4 DEF ReportSave, ReportNotify
  <2> QED
    BY <1>2, <2>1, <2>2, <2>3, <2>4 DEF HandlerStep, ClaimAccepted, ClaimRefused
<1>3. ASSUME NEW h \in Handlers, Abort(h) PROVE [Next]_vars
  BY <1>3 DEF Abort, Next
<1>4. CASE QueueService
  BY <1>4 DEF QueueService, Next
<1>5. CASE UNCHANGED allVars
  BY <1>5 DEF allVars
<1> QED
  BY <1>1, <1>2, <1>3, <1>4, <1>5 DEF ServiceNext

LEMMA NextServiceInv == ServiceInv /\ [ServiceNext]_allVars => ServiceInv'
<1> SUFFICES ASSUME ServiceInv, [ServiceNext]_allVars PROVE ServiceInv'
  OBVIOUS
<1>0. TypeOK'
  BY StepIsQueueStep, NextTypeOK DEF ServiceInv, ServiceTypeOK
<1> DEFINE CallPart == call' \in [Handlers -> Calls] /\ CallsShaped'
           TablePart == table' \in [JobIds -> TableEntities \cup {NoEntity}]
           NoticesPart == notices' \in [JobIds -> Seq(Outcomes)]
           Goal == CallPart /\ TablePart /\ NoticesPart
<1>a. /\ call \in [Handlers -> Calls] /\ CallsShaped
      /\ table \in [JobIds -> TableEntities \cup {NoEntity}]
      /\ notices \in [JobIds -> Seq(Outcomes)]
  BY DEF ServiceInv, ServiceTypeOK
<1>b. UNCHANGED table => TablePart
  BY <1>a
<1>c. UNCHANGED notices => NoticesPart
  BY <1>a
<1>d. UNCHANGED call => CallPart
  BY <1>a DEF CallsShaped, CallShape
<1>1. ASSUME NEW h \in Handlers, NEW j \in JobIds, SubmitCreate(h, j) PROVE Goal
  <2> DEFINE c == [Idle EXCEPT !.step = "enqueue", !.job_id = j]
  <2>1. c \in Calls /\ CallShape(c)
    BY DEF Idle, Calls, Steps, CallShape
  <2>2. CallPart
    BY <1>1, <2>1, CallReplaced DEF SubmitCreate, Begin
  <2>3. TablePart
    BY <1>1, <1>a, NewJobType, JobToEntityType DEF SubmitCreate
  <2> QED
    BY <1>1, <1>c, <2>2, <2>3 DEF SubmitCreate
<1>2. ASSUME NEW h \in Handlers, NEW w \in WorkerIds, ClaimReceive(h, w) PROVE Goal
  <2>1. PICK m \in Messages :
            Begin(h, [Idle EXCEPT !.step = "delete", !.job_id = m[1], !.worker_id = w])
    BY <1>2 DEF ClaimReceive
  <2> DEFINE c == [Idle EXCEPT !.step = "delete", !.job_id = m[1], !.worker_id = w]
  <2>2. c \in Calls /\ CallShape(c)
    BY MessageParts DEF Idle, Calls, Steps, CallShape
  <2>3. CallPart
    BY <2>1, <2>2, CallReplaced DEF Begin
  <2> QED
    BY <1>2, <1>b, <1>c, <2>3 DEF ClaimReceive
<1>3. ASSUME NEW h \in Handlers, NEW j \in JobIds, NEW w \in WorkerIds,
             NEW r \in References, CompleteLoad(h, j, w, r)
      PROVE  Goal
  <2>1. Get(j) \in Jobs
    BY <1>3, GetType DEF CompleteLoad, MayReport, ServiceInv
  <2>2. /\ AsCompleted(Get(j), r) \in Jobs
        /\ AsCompleted(Get(j), r).status \in Outcomes
    BY <2>1, TransitionTypes, TransitionStatus DEF Outcomes
  <2>3. CallPart
    BY <1>3, <2>2, BeginReportShape DEF CompleteLoad
  <2> QED
    BY <1>3, <1>b, <1>c, <2>3 DEF CompleteLoad, BeginReport
<1>4. ASSUME NEW h \in Handlers, NEW j \in JobIds, NEW w \in WorkerIds,
             NEW e \in ErrorMessages, FailLoad(h, j, w, e)
      PROVE  Goal
  <2>1. Get(j) \in Jobs
    BY <1>4, GetType DEF FailLoad, MayReport, ServiceInv
  <2>2. /\ AsFailed(Get(j), e) \in Jobs
        /\ AsFailed(Get(j), e).status \in Outcomes
    BY <2>1, TransitionTypes, TransitionStatus DEF Outcomes
  <2>3. CallPart
    BY <1>4, <2>2, BeginReportShape DEF FailLoad
  <2> QED
    BY <1>4, <1>b, <1>c, <2>3 DEF FailLoad, BeginReport
<1>5. ASSUME NEW h \in Handlers,
             SubmitEnqueue(h) \/ ClaimDeleteRejected(h) \/ ClaimRefused(h) \/ Abort(h)
      PROVE  Goal
  <2>1. CallPart
    BY <1>5, FinishShape DEF SubmitEnqueue, ClaimDeleteRejected, ClaimRefused, ClaimLoad, Abort
  <2> QED
    BY <1>5, <1>b, <1>c, <2>1 DEF SubmitEnqueue, ClaimDeleteRejected, ClaimRefused, ClaimLoad, Abort
<1>6. ASSUME NEW h \in Handlers, ClaimDelete(h) PROVE Goal
  <2> DEFINE c == [call[h] EXCEPT !.step = "load"]
  <2>1. c \in Calls /\ CallShape(c)
    BY <1>6, <1>a DEF ClaimDelete, At, CallsShaped, CallShape, Calls, Steps
  <2>2. call' = [call EXCEPT ![h] = c]
    BY <1>6 DEF ClaimDelete
  <2> QED
    BY <1>6, <1>b, <1>c, <2>1, <2>2, CallReplaced DEF ClaimDelete
<1>7. ASSUME NEW h \in Handlers, ClaimAccepted(h) PROVE Goal
  <2> DEFINE job == AsClaimed(Get(call[h].job_id), call[h].worker_id)
             c == [call[h] EXCEPT !.step = "record", !.job = job]
  <2>1. call[h].job_id \in JobIds /\ call[h].worker_id \in WorkerIds
    BY <1>7, <1>a DEF ClaimAccepted, ClaimLoad, At, CallsShaped, CallShape
  <2>2. job \in Jobs
    BY <1>7, <2>1, GetType, TransitionTypes DEF ClaimAccepted, ClaimLoad, CanClaim, ServiceInv
  <2>3. c \in Calls /\ CallShape(c)
    <3> HIDE DEF job
    <3> QED BY <1>a, <2>1, <2>2 DEF CallShape, Calls, Steps
  <2>4. call' = [call EXCEPT ![h] = c]
    BY <1>7 DEF ClaimAccepted, ClaimLoad
  <2> QED
    BY <1>7, <1>b, <1>c, <2>3, <2>4, CallReplaced DEF ClaimAccepted, ClaimLoad
<1>8. ASSUME NEW h \in Handlers, ClaimRecord(h) PROVE Goal
  BY <1>8, <1>c, UpdateType, FinishShape DEF ClaimRecord, At
<1>9. ASSUME NEW h \in Handlers, ReportSave(h) PROVE Goal
  <2> DEFINE c == [call[h] EXCEPT !.step = "notify"]
  <2>1. c \in Calls /\ CallShape(c)
    BY <1>9, <1>a DEF ReportSave, At, CallsShaped, CallShape, Calls, Steps
  <2>2. call' = [call EXCEPT ![h] = c]
    BY <1>9 DEF ReportSave
  <2>3. TablePart
    BY <1>9, UpdateType DEF ReportSave, At
  <2> QED
    BY <1>9, <1>c, <2>1, <2>2, <2>3, CallReplaced DEF ReportSave
<1>10. ASSUME NEW h \in Handlers, ReportNotify(h) PROVE Goal
  <2>1. CallPart
    BY <1>10, FinishShape DEF ReportNotify
  <2>2. call[h].job_id \in JobIds /\ call[h].job.status \in Outcomes
    BY <1>10, <1>a DEF ReportNotify, At, CallsShaped, CallShape
  <2>3. NoticesPart
    BY <1>10, <1>a, <2>2 DEF ReportNotify
  <2> QED
    BY <1>10, <1>b, <2>1, <2>3 DEF ReportNotify
<1>11. ASSUME QueueService PROVE Goal
  BY <1>11, <1>b, <1>c, <1>d DEF QueueService, serviceVars
<1>12. ASSUME UNCHANGED allVars PROVE Goal
  BY <1>12, <1>b, <1>c, <1>d DEF allVars, serviceVars
<1>13. Goal
  BY <1>1, <1>2, <1>3, <1>4, <1>5, <1>6, <1>7, <1>8, <1>9, <1>10, <1>11, <1>12
     DEF ServiceNext, Request, HandlerStep, ClaimAccepted, ClaimRefused
<1> QED
  BY <1>0, <1>13 DEF ServiceInv, ServiceTypeOK

\* The service's state keeps its types.
THEOREM ServiceTypes == ServiceSpec => []ServiceTypeOK
<1>1. ServiceInit => ServiceInv
  BY InitServiceInv
<1>2. ServiceInv /\ [ServiceNext]_allVars => ServiceInv'
  BY NextServiceInv
<1>3. ServiceInv => ServiceTypeOK
  BY DEF ServiceInv
<1> QED
  BY <1>1, <1>2, <1>3, PTL DEF ServiceSpec

\* The service drives its queue only through the adapter's operations, so what
\* StorageQueueProofs shows of the queue alone holds inside the service.
THEOREM ServiceUsesQueue == ServiceSpec => Spec
<1>1. ServiceInit => ServiceInv /\ Init
  BY InitServiceInv DEF ServiceInit
<1>2. ServiceInv /\ [ServiceNext]_allVars => ServiceInv'
  BY NextServiceInv
<1>3. ServiceInv /\ [ServiceNext]_allVars => [Next]_vars
  BY StepIsQueueStep
<1> QED
  BY <1>1, <1>2, <1>3, PTL DEF ServiceSpec, Spec

----
\* A row, once created, stays: every message and every operation under way is
\* about a job that exists.
RowsExist ==
    /\ \A m \in queued : Exists(m[1])
    /\ \A h \in Handlers : ~At(h, "idle") => Exists(call[h].job_id)

LEMMA UpdateKeepsRows ==
    ASSUME ServiceInv, NEW h \in Handlers, Update(h),
           call[h].step \in {"record", "save"}, NEW j \in JobIds, Exists(j)
    PROVE  table'[j] # NoEntity
<1>1. call[h].job_id \in JobIds /\ call[h].job \in Jobs
  BY DEF ServiceInv, CallsShaped, CallShape
<1>2. JobToEntity(call[h].job) # NoEntity
  BY <1>1, JobToEntityType, NoEntityIsNoEntity
<1> QED
  BY <1>1, <1>2 DEF Update, Exists, ServiceInv, ServiceTypeOK

LEMMA NextRowsExist ==
    ASSUME ServiceInv, RowsExist, [ServiceNext]_allVars
    PROVE  RowsExist'
<1>0. /\ call \in [Handlers -> Calls] /\ queued \subseteq Messages
      /\ table \in [JobIds -> TableEntities \cup {NoEntity}]
      /\ \A h \in Handlers : ~At(h, "idle") => call[h].job_id \in JobIds
  BY DEF ServiceInv, ServiceTypeOK, TypeOK, CallsShaped, CallShape, At
<1> USE DEF RowsExist, At
<1>1. ASSUME NEW h \in Handlers, NEW j \in JobIds, SubmitCreate(h, j) PROVE RowsExist'
  <2>1. table' = [table EXCEPT ![j] = JobToEntity(NewJob)]
    BY <1>1 DEF SubmitCreate
  <2>2. JobToEntity(NewJob) # NoEntity
    BY NewJobType, JobToEntityType, NoEntityIsNoEntity
  <2>3. \A i \in JobIds : Exists(i) \/ i = j => table'[i] # NoEntity
    BY <1>0, <2>1, <2>2 DEF Exists
  <2>4. \A g \in Handlers : call'[g] = IF g = h THEN [Idle EXCEPT !.step = "enqueue", !.job_id = j]
                                                ELSE call[g]
    BY <1>0, <1>1 DEF SubmitCreate, Begin
  <2> QED
    BY <1>0, <1>1, <2>3, <2>4, MessageParts DEF SubmitCreate, queueVars, Idle, Exists
<1>2. ASSUME NEW h \in Handlers, NEW w \in WorkerIds, ClaimReceive(h, w) PROVE RowsExist'
  BY <1>0, <1>2 DEF ClaimReceive, Receive, Begin, Idle, Exists
<1>3. ASSUME NEW h \in Handlers, NEW j \in JobIds, NEW w \in WorkerIds, NEW job \in Jobs,
             Exists(j), BeginReport(h, j, w, job)
      PROVE  RowsExist'
  BY <1>0, <1>3 DEF BeginReport, Begin, queueVars, Exists
<1>4. ASSUME NEW h \in Handlers, SubmitEnqueue(h) PROVE RowsExist'
  <2>1. Exists(call[h].job_id) /\ UNCHANGED table
    BY <1>4 DEF SubmitEnqueue
  <2>2. queued' \subseteq queued \cup {<<call[h].job_id, "sent">>, <<call[h].job_id, "resent">>}
    BY <1>4 DEF SubmitEnqueue, Enqueue, EnqueueResent
  <2>3. \A m \in queued' : Exists(m[1])'
    BY <2>1, <2>2 DEF Exists
  <2>4. \A g \in Handlers : call'[g] = IF g = h THEN Idle ELSE call[g]
    BY <1>0, <1>4 DEF SubmitEnqueue, Finish
  <2> QED
    BY <2>1, <2>3, <2>4 DEF Idle, Exists
<1>5. ASSUME NEW h \in Handlers, ClaimDelete(h) PROVE RowsExist'
  BY <1>0, <1>5 DEF ClaimDelete, Delete, Calls, Exists
<1>6. ASSUME NEW h \in Handlers, ClaimDeleteRejected(h) \/ ClaimRefused(h) PROVE RowsExist'
  BY <1>0, <1>6 DEF ClaimDeleteRejected, DeleteRejected, ClaimRefused, ClaimLoad, Finish, Idle,
                    queueVars, Exists
<1>7. ASSUME NEW h \in Handlers, ClaimAccepted(h) PROVE RowsExist'
  BY <1>0, <1>7 DEF ClaimAccepted, ClaimLoad, queueVars, Calls, Exists
<1>8. ASSUME NEW h \in Handlers, ClaimRecord(h) \/ ReportSave(h) PROVE RowsExist'
  <2>1. \A j \in JobIds : Exists(j) => table'[j] # NoEntity
    BY <1>8, UpdateKeepsRows DEF ClaimRecord, ReportSave
  <2>2. UNCHANGED queued
    BY <1>8 DEF ClaimRecord, ReportSave, queueVars
  <2>3. \A g \in Handlers :
            call'[g].step # "idle" => call[g].step # "idle" /\ call'[g].job_id = call[g].job_id
    BY <1>0, <1>8 DEF ClaimRecord, ReportSave, Finish, Idle, Calls
  <2> QED
    BY <1>0, <2>1, <2>2, <2>3, MessageParts DEF Exists
<1>9. ASSUME NEW h \in Handlers, ReportNotify(h) PROVE RowsExist'
  BY <1>0, <1>9 DEF ReportNotify, Finish, Idle, queueVars, Exists
<1>10. ASSUME NEW h \in Handlers, Abort(h) PROVE RowsExist'
  BY <1>0, <1>10 DEF Abort, Abandon, Finish, Idle, Exists
<1>11. ASSUME QueueService PROVE RowsExist'
  BY <1>0, <1>11 DEF QueueService, Reappear, ReappearOverdue, Expire, serviceVars, Exists
<1>12. ASSUME UNCHANGED allVars PROVE RowsExist'
  BY <1>0, <1>12 DEF allVars, queueVars, serviceVars, Exists
<1>13. ASSUME NEW h \in Handlers, NEW j \in JobIds, NEW w \in WorkerIds,
              \/ \E r \in References : CompleteLoad(h, j, w, r)
              \/ \E e \in ErrorMessages : FailLoad(h, j, w, e)
       PROVE  RowsExist'
  <2>1. Exists(j) /\ Get(j) \in Jobs
    BY <1>13, GetType DEF CompleteLoad, FailLoad, MayReport, ServiceInv
  <2>2. \E job \in Jobs : BeginReport(h, j, w, job)
    BY <1>13, <2>1, TransitionTypes DEF CompleteLoad, FailLoad
  <2> QED
    BY <1>3, <2>1, <2>2
<1> HIDE DEF RowsExist
<1> QED
  BY <1>1, <1>2, <1>4, <1>5, <1>6, <1>7, <1>8, <1>9, <1>10, <1>11, <1>12, <1>13
     DEF ServiceNext, Request, HandlerStep, ClaimAccepted, ClaimRefused

\* The JobNotFoundError branch of claim_job ("pragma: no cover") is dead under
\* every fault the model knows, repeated sends included.
THEOREM ClaimAlwaysFindsJob == ServiceSpec => []ClaimFindsJob
<1>1. ServiceInit => ServiceInv /\ RowsExist
  BY InitServiceInv DEF ServiceInit, Init, RowsExist, Idle, At
<1>2. ServiceInv /\ [ServiceNext]_allVars => ServiceInv'
  BY NextServiceInv
<1>3. ServiceInv /\ RowsExist /\ [ServiceNext]_allVars => RowsExist'
  BY NextRowsExist
<1>4. RowsExist => ClaimFindsJob
  BY DEF RowsExist, ClaimFindsJob, At
<1> QED
  BY <1>1, <1>2, <1>3, <1>4, PTL DEF ServiceSpec

----
\* Coherent rows: whatever handlers race on a row, and however often a job is
\* claimed, the row is that of one consistent job.

\* No worker sends an empty string, which the table cannot tell from None.
NoEmptyStrings == Blank \notin WorkerIds \cup References \cup ErrorMessages

Coherent(job) ==
    /\ job.worker_id # None <=> job.status # "queued"
    /\ job.result_reference # None <=> job.status = "completed"
    /\ job.error_message # None <=> job.status = "failed"

CoherentRow(row) ==
    /\ row.worker_id # Blank <=> row.status \notin {"absent", "queued"}
    /\ row.result_reference # Blank <=> row.status = "completed"
    /\ row.error_message # Blank <=> row.status = "failed"

\* The job a handler is about to write back, or has written.
CopyCoherent(c) == c.step \in {"record", "save"} => Coherent(c.job)

RowsCoherent == \A j \in JobIds : CoherentRow(table[j])

CopiesCoherent == \A h \in Handlers : CopyCoherent(call[h])

CoherenceInv == RowsCoherent /\ CopiesCoherent

----
\* The conversions keep coherence in both directions, as long as no string that
\* is stored is empty.
LEMMA StoredCoherent ==
    ASSUME NoEmptyStrings, NEW job \in Jobs, Coherent(job)
    PROVE  CoherentRow(JobToEntity(job))
BY NoneIsNoString
   DEF NoEmptyStrings, Jobs, JobStatus, Coherent, CoherentRow, JobToEntity, ToColumn

LEMMA LoadedCoherent ==
    ASSUME NEW entity \in TableEntities, CoherentRow(entity)
    PROVE  Coherent(EntityToJob(entity))
BY NoneIsNoString
   DEF TableEntities, Columns, JobStatus, Coherent, CoherentRow, EntityToJob, FromColumn

LEMMA GetCoherent ==
    ASSUME ServiceInv, CoherenceInv, NEW j \in JobIds, Exists(j)
    PROVE  Get(j) \in Jobs /\ Coherent(Get(j))
<1>1. table[j] \in TableEntities /\ CoherentRow(table[j])
  BY DEF ServiceInv, ServiceTypeOK, Exists, CoherenceInv, RowsCoherent
<1> QED
  BY <1>1, LoadedCoherent, EntityToJobType DEF Get

\* So do the three uses of transition_status.
LEMMA ClaimedCoherent ==
    ASSUME NEW job \in Jobs, Coherent(job), CanTransition(job, "processing"),
           NEW w \in WorkerIds
    PROVE  Coherent(AsClaimed(job, w))
BY NoneIsNoString
   DEF Jobs, JobStatus, Coherent, AsClaimed, CanTransition, ALLOWED_TRANSITIONS

LEMMA CompletedCoherent ==
    ASSUME NEW job \in Jobs, Coherent(job), CanTransition(job, "completed"),
           NEW r \in References
    PROVE  Coherent(AsCompleted(job, r))
BY NoneIsNoString
   DEF Jobs, JobStatus, Coherent, AsCompleted, CanTransition, ALLOWED_TRANSITIONS

LEMMA FailedCoherent ==
    ASSUME NEW job \in Jobs, Coherent(job), CanTransition(job, "failed"),
           NEW e \in ErrorMessages
    PROVE  Coherent(AsFailed(job, e))
BY NoneIsNoString
   DEF Jobs, JobStatus, Coherent, AsFailed, CanTransition, ALLOWED_TRANSITIONS

LEMMA NewJobCoherent ==
    ASSUME NoEmptyStrings PROVE CoherentRow(JobToEntity(NewJob))
BY NewJobType, StoredCoherent DEF Coherent, NewJob

----
\* A call that is replaced by a coherent one leaves all copies coherent.
LEMMA CopyReplaced ==
    ASSUME ServiceInv, CopiesCoherent, NEW h \in Handlers, NEW c, CopyCoherent(c),
           call' = [call EXCEPT ![h] = c]
    PROVE  CopiesCoherent'
<1>1. ASSUME NEW g \in Handlers PROVE CopyCoherent(call'[g])
  <2>1. call'[g] = IF g = h THEN c ELSE call[g]
    BY DEF ServiceInv, ServiceTypeOK
  <2> QED
    BY <2>1 DEF CopiesCoherent
<1> QED
  BY <1>1 DEF CopiesCoherent, CopyCoherent, Coherent

LEMMA FinishCoherent ==
    ASSUME ServiceInv, CopiesCoherent, NEW h \in Handlers, Finish(h)
    PROVE  CopiesCoherent'
BY CopyReplaced DEF Finish, Idle, CopyCoherent

LEMMA UpdateCoherent ==
    ASSUME NoEmptyStrings, ServiceInv, CoherenceInv, NEW h \in Handlers,
           Update(h), call[h].step \in {"record", "save"}
    PROVE  RowsCoherent'
<1>1. call[h].job_id \in JobIds /\ call[h].job \in Jobs /\ Coherent(call[h].job)
  BY DEF ServiceInv, CallsShaped, CallShape, CoherenceInv, CopiesCoherent, CopyCoherent
<1>2. CoherentRow(JobToEntity(call[h].job))
  BY <1>1, StoredCoherent
<1>3. ASSUME NEW j \in JobIds PROVE CoherentRow(table'[j])
  <2>1. table'[j] = IF j = call[h].job_id THEN JobToEntity(call[h].job) ELSE table[j]
    BY <1>1 DEF Update, ServiceInv, ServiceTypeOK
  <2> QED
    BY <1>2, <2>1 DEF CoherenceInv, RowsCoherent
<1> QED
  BY <1>3 DEF RowsCoherent, CoherentRow

LEMMA NextCoherenceInv ==
    ASSUME NoEmptyStrings, ServiceInv, CoherenceInv, [ServiceNext]_allVars
    PROVE  CoherenceInv'
<1>a. RowsCoherent /\ CopiesCoherent
  BY DEF CoherenceInv
<1>b. UNCHANGED table => RowsCoherent'
  BY <1>a DEF RowsCoherent, CoherentRow
<1>c. UNCHANGED call => CopiesCoherent'
  BY <1>a DEF CopiesCoherent, CopyCoherent, Coherent
<1> DEFINE Goal == RowsCoherent' /\ CopiesCoherent'
<1>1. ASSUME NEW h \in Handlers, NEW j \in JobIds, SubmitCreate(h, j) PROVE Goal
  <2>1. CopiesCoherent'
    BY <1>1, <1>a, CopyReplaced DEF SubmitCreate, Begin, Idle, CopyCoherent
  <2>2. ASSUME NEW i \in JobIds PROVE CoherentRow(table'[i])
    <3>1. table'[i] = IF i = j THEN JobToEntity(NewJob) ELSE table[i]
      BY <1>1 DEF SubmitCreate, ServiceInv, ServiceTypeOK
    <3> QED
      BY <1>a, <3>1, NewJobCoherent DEF RowsCoherent
  <2> QED
    BY <2>1, <2>2 DEF RowsCoherent, CoherentRow
<1>2. ASSUME NEW h \in Handlers, NEW w \in WorkerIds, ClaimReceive(h, w) PROVE Goal
  <2>1. PICK m \in Messages :
            Begin(h, [Idle EXCEPT !.step = "delete", !.job_id = m[1], !.worker_id = w])
    BY <1>2 DEF ClaimReceive
  <2>2. CopiesCoherent'
    BY <1>a, <2>1, CopyReplaced DEF Begin, Idle, CopyCoherent
  <2> QED
    BY <1>2, <1>b, <2>2 DEF ClaimReceive
<1>3. ASSUME NEW h \in Handlers, NEW j \in JobIds, NEW w \in WorkerIds, NEW job,
             Coherent(job), BeginReport(h, j, w, job)
      PROVE  Goal
  <2>1. CopiesCoherent'
    BY <1>3, <1>a, CopyReplaced DEF BeginReport, Begin, CopyCoherent
  <2> QED
    BY <1>3, <1>b, <2>1 DEF BeginReport
<1>4. ASSUME NEW h \in Handlers, NEW j \in JobIds, NEW w \in WorkerIds,
             \/ \E r \in References : CompleteLoad(h, j, w, r)
             \/ \E e \in ErrorMessages : FailLoad(h, j, w, e)
      PROVE  Goal
  <2>1. Get(j) \in Jobs /\ Coherent(Get(j))
    BY <1>4, GetCoherent DEF CompleteLoad, FailLoad, MayReport
  <2>2. \E job : Coherent(job) /\ BeginReport(h, j, w, job)
    BY <1>4, <2>1, CompletedCoherent, FailedCoherent DEF CompleteLoad, FailLoad, MayReport
  <2> QED
    BY <1>3, <2>2
<1>5. ASSUME NEW h \in Handlers,
             SubmitEnqueue(h) \/ ClaimDeleteRejected(h) \/ ClaimRefused(h)
                \/ Abort(h) \/ ReportNotify(h)
      PROVE  Goal
  BY <1>5, <1>a, <1>b, FinishCoherent
     DEF SubmitEnqueue, ClaimDeleteRejected, ClaimRefused, ClaimLoad, Abort, ReportNotify
<1>6. ASSUME NEW h \in Handlers, ClaimDelete(h) PROVE Goal
  <2> DEFINE c == [call[h] EXCEPT !.step = "load"]
  <2>1. CopyCoherent(c)
    BY DEF ServiceInv, ServiceTypeOK, Calls, CopyCoherent
  <2>2. call' = [call EXCEPT ![h] = c]
    BY <1>6 DEF ClaimDelete
  <2> QED
    BY <1>6, <1>a, <1>b, <2>1, <2>2, CopyReplaced DEF ClaimDelete
<1>7. ASSUME NEW h \in Handlers, ClaimAccepted(h) PROVE Goal
  <2> DEFINE job == AsClaimed(Get(call[h].job_id), call[h].worker_id)
             c == [call[h] EXCEPT !.step = "record", !.job = job]
  <2>1. call[h].job_id \in JobIds /\ call[h].worker_id \in WorkerIds
    BY <1>7 DEF ClaimAccepted, ClaimLoad, At, ServiceInv, CallsShaped, CallShape
  <2>2. Coherent(job)
    BY <1>7, <2>1, GetCoherent, ClaimedCoherent DEF ClaimAccepted, ClaimLoad, CanClaim
  <2>3. c.job = job
    BY DEF ServiceInv, ServiceTypeOK, Calls
  <2>4. CopyCoherent(c)
    <3> HIDE DEF c, job
    <3> QED BY <2>2, <2>3 DEF CopyCoherent
  <2>5. call' = [call EXCEPT ![h] = c]
    BY <1>7 DEF ClaimAccepted, ClaimLoad
  <2> QED
    BY <1>7, <1>a, <1>b, <2>4, <2>5, CopyReplaced DEF ClaimAccepted, ClaimLoad
<1>8. ASSUME NEW h \in Handlers, ClaimRecord(h) PROVE Goal
  BY <1>8, <1>a, UpdateCoherent, FinishCoherent DEF ClaimRecord, At
<1>9. ASSUME NEW h \in Handlers, ReportSave(h) PROVE Goal
  <2> DEFINE c == [call[h] EXCEPT !.step = "notify"]
  <2>1. CopyCoherent(c)
    BY DEF ServiceInv, ServiceTypeOK, Calls, CopyCoherent
  <2>2. call' = [call EXCEPT ![h] = c]
    BY <1>9 DEF ReportSave
  <2>3. RowsCoherent'
    BY <1>9, UpdateCoherent DEF ReportSave, At
  <2> QED
    BY <1>a, <2>1, <2>2, <2>3, CopyReplaced
<1>10. ASSUME QueueService PROVE Goal
  BY <1>10, <1>b, <1>c DEF QueueService, serviceVars
<1>11. ASSUME UNCHANGED allVars PROVE Goal
  BY <1>11, <1>b, <1>c DEF allVars, serviceVars
<1>12. Goal
  BY <1>1, <1>2, <1>4, <1>5, <1>6, <1>7, <1>8, <1>9, <1>10, <1>11
     DEF ServiceNext, Request, HandlerStep, ClaimAccepted, ClaimRefused
<1> QED
  BY <1>12 DEF CoherenceInv

\* The columns of a row never mix two jobs' states: races of reports, two claims
\* of one job after a repeated send, and stops at any point included.
THEOREM RowsAreCoherent ==
    ASSUME NoEmptyStrings
    PROVE  ServiceSpec => []RowCoherent
<1>1. ServiceInit => ServiceInv /\ CoherenceInv
  BY InitServiceInv
     DEF ServiceInit, CoherenceInv, RowsCoherent, CopiesCoherent, CoherentRow,
         CopyCoherent, NoEntity, Idle
<1>2. ServiceInv /\ [ServiceNext]_allVars => ServiceInv'
  BY NextServiceInv
<1>3. ServiceInv /\ CoherenceInv /\ [ServiceNext]_allVars => CoherenceInv'
  BY NextCoherenceInv
<1>4. CoherenceInv => RowCoherent
  BY DEF CoherenceInv, RowsCoherent, CoherentRow, RowCoherent
<1> QED
  BY <1>1, <1>2, <1>3, <1>4, PTL DEF ServiceSpec

----
\* Lost jobs are counted against the faults that lost them.

\* What a claim handler has received carries the id it works on, and what it is
\* about to record is a claim.
CallPrepared(h) ==
    /\ At(h, "delete") => taking[h] = None \/ taking[h][1] = call[h].job_id
    /\ At(h, "record") => call[h].job.status = "processing"

CallsPrepared == \A h \in Handlers : CallPrepared(h)

Lost(j) == Stranded(j) \/ Silent(j)

LostJobs == {j \in JobIds : Lost(j)}

Spent == FaultsSpent("abort") + FaultsSpent("expire")

LossInv == CallsPrepared /\ OneFaultOneLoss

LEMMA NextCallsPrepared ==
    ASSUME ServiceInv, CallsPrepared, [ServiceNext]_allVars
    PROVE  CallsPrepared'
<1>0. /\ call \in [Handlers -> Calls]
      /\ taking \in [Handlers -> Messages \cup {None}]
      /\ table \in [JobIds -> TableEntities \cup {NoEntity}]
  BY DEF ServiceInv, ServiceTypeOK, TypeOK
<1> USE DEF CallPrepared, At
<1>C. \A h \in Handlers : CallPrepared(h)
  BY DEF CallsPrepared
<1> DEFINE Goal == \A g \in Handlers : CallPrepared(g)'
<1>1. ASSUME NEW h \in Handlers, Finish(h),
             \A g \in Handlers : g # h => taking'[g] = taking[g]
      PROVE  Goal
  BY <1>0, <1>C, <1>1 DEF Finish, Idle
<1>2. ASSUME NEW h \in Handlers, NEW j \in JobIds, SubmitCreate(h, j) PROVE Goal
  BY <1>0, <1>C, <1>2 DEF SubmitCreate, Begin, Idle, queueVars
<1>3. ASSUME NEW h \in Handlers, NEW w \in WorkerIds, ClaimReceive(h, w) PROVE Goal
  BY <1>0, <1>C, <1>3 DEF ClaimReceive, Receive, Begin, Idle
<1>4. ASSUME NEW h \in Handlers, NEW j, NEW w, NEW job, BeginReport(h, j, w, job) PROVE Goal
  BY <1>0, <1>C, <1>4 DEF BeginReport, Begin, queueVars
<1>5. ASSUME NEW h \in Handlers, ClaimDelete(h) PROVE Goal
  BY <1>0, <1>C, <1>5 DEF ClaimDelete, Delete, Calls
<1>6. ASSUME NEW h \in Handlers, ClaimAccepted(h) PROVE Goal
  <2> DEFINE job == AsClaimed(Get(call[h].job_id), call[h].worker_id)
  <2>1. /\ call[h].step = "load" /\ CanClaim(call[h].job_id)
        /\ call' = [call EXCEPT ![h].step = "record", ![h].job = job]
        /\ UNCHANGED queueVars
    BY <1>6 DEF ClaimAccepted, ClaimLoad
  <2>2. call[h].job_id \in JobIds /\ call[h].worker_id \in WorkerIds
    BY <2>1 DEF ServiceInv, CallsShaped, CallShape
  <2>3. job.status = "processing"
    BY <2>1, <2>2, GetType, TransitionStatus DEF CanClaim, ServiceInv
  <2> HIDE DEF job
  <2> QED
    BY <1>0, <1>C, <2>1, <2>3 DEF Calls, queueVars
<1>7. ASSUME NEW h \in Handlers, ReportSave(h) PROVE Goal
  BY <1>0, <1>C, <1>7 DEF ReportSave, Calls, queueVars
<1>8. ASSUME NEW h \in Handlers,
             \/ SubmitEnqueue(h) \/ ClaimDeleteRejected(h) \/ ClaimRefused(h)
             \/ ClaimRecord(h) \/ ReportNotify(h) \/ Abort(h)
      PROVE  Goal
  <2>1. Finish(h)
    BY <1>8 DEF SubmitEnqueue, ClaimDeleteRejected, ClaimRefused, ClaimLoad, ClaimRecord,
                ReportNotify, Abort
  <2>2. taking' = taking \/ taking' = [taking EXCEPT ![h] = None]
    BY <1>8 DEF SubmitEnqueue, Enqueue, EnqueueResent, ClaimDeleteRejected, DeleteRejected,
                ClaimRefused, ClaimLoad, ClaimRecord, ReportNotify, Abort, Abandon, queueVars
  <2> QED
    BY <1>0, <1>1, <2>1, <2>2
<1>9. ASSUME UNCHANGED <<call, taking>> PROVE Goal
  BY <1>C, <1>9
<1>10. QueueService => UNCHANGED <<call, taking>>
  BY DEF QueueService, Reappear, ReappearOverdue, Expire, serviceVars
<1>11. UNCHANGED allVars => UNCHANGED <<call, taking>>
  BY DEF allVars, queueVars, serviceVars
<1>12. Goal
  <2> HIDE DEF CallPrepared
  <2> QED
    BY <1>2, <1>3, <1>4, <1>5, <1>6, <1>7, <1>8, <1>9, <1>10, <1>11
       DEF ServiceNext, Request, HandlerStep, CompleteLoad, FailLoad, ClaimAccepted, ClaimRefused
<1> QED
  BY <1>12 DEF CallsPrepared

\* A step that is no fault loses no job.
LEMMA NothingElseLoses ==
    ASSUME ServiceInv, CallsPrepared, NEW h \in Handlers, Request(h) \/ HandlerStep(h)
    PROVE  LostJobs' \subseteq LostJobs
<1>0. /\ call \in [Handlers -> Calls]
      /\ queued \subseteq Messages
      /\ table \in [JobIds -> TableEntities \cup {NoEntity}]
      /\ notices \in [JobIds -> Seq(Outcomes)]
      /\ \A g \in Handlers : CallShape(call[g])
  BY DEF ServiceInv, ServiceTypeOK, TypeOK, CallsShaped
<1> SUFFICES ASSUME NEW j \in JobIds, ~Lost(j) PROVE ~Lost(j)'
  BY DEF LostJobs
<1> USE DEF Lost, Stranded, Silent, InHands
\* A new request leaves rows, messages and the other handlers as they are.
<1>1. ASSUME NEW c, Begin(h, c), UNCHANGED <<table, notices, queued>> PROVE ~Lost(j)'
  BY <1>0, <1>1 DEF Begin, Idle
<1>2. ASSUME NEW i \in JobIds, SubmitCreate(h, i) PROVE ~Lost(j)'
  <2>1. /\ call[h] = Idle
        /\ \A g \in Handlers : g # h => call'[g] = call[g]
        /\ call'[h].step = "enqueue" /\ call'[h].job_id = i
        /\ \A k \in JobIds : k # i => table'[k] = table[k]
        /\ table'[i].status = "queued"
        /\ UNCHANGED <<queued, notices>>
    BY <1>0, <1>2 DEF SubmitCreate, Begin, Idle, JobToEntity, NewJob, queueVars
  <2>2. ASSUME NEW steps, InHands(j, steps), "idle" \notin steps PROVE InHands(j, steps)'
    <3>1. PICK g \in Handlers : call[g].job_id = j /\ call[g].step \in steps
      BY <2>2
    <3>2. g # h
      BY <2>1, <2>2, <3>1 DEF Idle
    <3>3. call'[g].job_id = j /\ call'[g].step \in steps
      BY <2>1, <3>1, <3>2
    <3> QED
      BY <3>3
  <2>3. CASE j = i
    BY <2>1, <2>3 DEF Outcomes
  <2>4. CASE j # i
    <3> HIDE DEF InHands
    <3> QED BY <2>1, <2>2, <2>4
  <2> QED
    BY <2>3, <2>4
<1>3. ASSUME NEW w \in WorkerIds, ClaimReceive(h, w) PROVE ~Lost(j)'
  BY <1>1, <1>3 DEF ClaimReceive, Receive
<1>4. ASSUME NEW i, NEW w, NEW job, BeginReport(h, i, w, job) PROVE ~Lost(j)'
  BY <1>1, <1>4 DEF BeginReport, queueVars
<1>5. ASSUME SubmitEnqueue(h) PROVE ~Lost(j)'
  <2>1. /\ queued \cup {<<call[h].job_id, "sent">>} \subseteq queued'
        /\ \A g \in Handlers : g # h => call'[g] = call[g]
        /\ call[h].step = "enqueue"
        /\ UNCHANGED <<table, notices>>
    BY <1>0, <1>5 DEF SubmitEnqueue, Enqueue, EnqueueResent, Finish, At
  <2> QED
    BY <1>0, <2>1
<1>6. ASSUME ClaimDelete(h) PROVE ~Lost(j)'
  <2>1. /\ queued' = queued \ {taking[h]}
        /\ taking[h][1] = call[h].job_id
        /\ \A g \in Handlers : g # h => call'[g] = call[g]
        /\ call[h].step = "delete"
        /\ call'[h].step = "load" /\ call'[h].job_id = call[h].job_id
        /\ UNCHANGED <<table, notices>>
    BY <1>0, <1>6 DEF ClaimDelete, Delete, At, Calls, CallsPrepared, CallPrepared
  <2> QED
    BY <1>0, <2>1
<1>7. ASSUME ClaimDeleteRejected(h) \/ ClaimRefused(h) PROVE ~Lost(j)'
  <2>1. /\ \A g \in Handlers : g # h => call'[g] = call[g]
        /\ call[h].step \in {"delete", "load"}
        /\ call[h].step = "load" => ~CanClaim(call[h].job_id)
        /\ UNCHANGED <<table, notices, queued>>
    BY <1>0, <1>7 DEF ClaimDeleteRejected, DeleteRejected, ClaimRefused, ClaimLoad, Finish, At,
                      queueVars
  <2>2. call[h].job_id = j /\ ~CanClaim(j) => table[j].status # "queued"
    BY <1>0 DEF CanClaim, Exists, Get, EntityToJob, CanTransition, ALLOWED_TRANSITIONS,
                JobStatus, NoEntity
  <2> QED
    BY <1>0, <2>1, <2>2
<1>8. ASSUME ClaimAccepted(h) PROVE ~Lost(j)'
  <2>1. /\ \A g \in Handlers : g # h => call'[g] = call[g]
        /\ call[h].step = "load"
        /\ call'[h].step = "record" /\ call'[h].job_id = call[h].job_id
        /\ UNCHANGED <<table, notices, queued>>
    BY <1>0, <1>8 DEF ClaimAccepted, ClaimLoad, At, Calls, queueVars
  <2> QED
    BY <1>0, <2>1
<1>9. ASSUME ClaimRecord(h) \/ ReportSave(h) PROVE ~Lost(j)'
  <2> DEFINE i == call[h].job_id
  <2>1. i \in JobIds /\ call[h].job.status \in {"processing", "completed", "failed"}
    BY <1>0, <1>9 DEF ClaimRecord, ReportSave, At, CallShape, CallsPrepared, CallPrepared, Outcomes
  <2>2. /\ \A g \in Handlers : g # h => call'[g] = call[g]
        /\ \A k \in JobIds : k # i => table'[k] = table[k]
        /\ table'[i].status = call[h].job.status
        /\ call[h].step \in {"record", "save"}
        /\ call[h].step = "save" => call'[h].step = "notify" /\ call'[h].job_id = i
        /\ UNCHANGED <<queued, notices>>
    BY <1>0, <1>9, <2>1 DEF ClaimRecord, ReportSave, At, Update, JobToEntity, Finish, Calls,
                            queueVars
  <2>3. call[h].step = "record" => call[h].job.status = "processing"
    BY DEF CallsPrepared, CallPrepared, At
  <2> QED
    BY <1>0, <2>1, <2>2, <2>3 DEF Outcomes
<1>10. ASSUME ReportNotify(h) PROVE ~Lost(j)'
  <2> DEFINE i == call[h].job_id
  <2>1. i \in JobIds /\ call[h].job.status \in Outcomes /\ call[h].step = "notify"
    BY <1>0, <1>10 DEF ReportNotify, At, CallShape
  <2>2. /\ \A g \in Handlers : g # h => call'[g] = call[g]
        /\ \A k \in JobIds : k # i => notices'[k] = notices[k]
        /\ notices'[i] = Append(notices[i], call[h].job.status)
        /\ UNCHANGED <<queued, table>>
    BY <1>0, <1>10, <2>1 DEF ReportNotify, Finish, queueVars
  <2>3. notices'[i] # << >>
    BY <1>0, <2>1, <2>2
  <2> QED
    BY <1>0, <2>1, <2>2, <2>3
<1> QED
  BY <1>2, <1>3, <1>4, <1>5, <1>6, <1>7, <1>8, <1>9, <1>10
     DEF Request, HandlerStep, CompleteLoad, FailLoad, ClaimAccepted, ClaimRefused

\* A handler that stops loses at most the job it was working on.
LEMMA StopLosesOne ==
    ASSUME ServiceInv, NEW h \in Handlers, Abort(h)
    PROVE  Spent' = Spent + 1 /\ LostJobs' \subseteq LostJobs \cup {call[h].job_id}
<1> USE DEF LostJobs, Lost, Stranded, Silent, InHands
<1>1. /\ call \in [Handlers -> Calls]
      /\ budget \in [FaultKinds -> Nat] /\ MaxFaults \in [FaultKinds -> Nat]
  BY MaxFaultsType DEF ServiceInv, ServiceTypeOK, TypeOK
<1>2. /\ budget["abort"] > 0 /\ budget' = [budget EXCEPT !["abort"] = @ - 1]
      /\ \A g \in Handlers : g # h => call'[g] = call[g]
      /\ UNCHANGED <<table, notices, queued>>
  BY <1>1 DEF Abort, Abandon, Spend, Finish
<1>3. Spent' = Spent + 1
  BY <1>1, <1>2 DEF Spent, FaultsSpent, FaultKinds
<1> QED
  BY <1>1, <1>2, <1>3

\* A message that expires loses at most the job it carries; the end of a
\* visibility timeout loses nothing.
LEMMA ClockLosesOne ==
    ASSUME ServiceInv, QueueService
    PROVE  \/ LostJobs' \subseteq LostJobs /\ Spent' = Spent
           \/ Spent' = Spent + 1 /\ \E i : LostJobs' \subseteq LostJobs \cup {i}
<1> USE DEF LostJobs, Lost, Stranded, Silent, InHands
<1>1. budget \in [FaultKinds -> Nat] /\ MaxFaults \in [FaultKinds -> Nat]
  BY MaxFaultsType DEF ServiceInv, ServiceTypeOK, TypeOK
<1>2. ASSUME NEW m \in Messages, Expire(m), UNCHANGED serviceVars
      PROVE  Spent' = Spent + 1 /\ LostJobs' \subseteq LostJobs \cup {m[1]}
  <2>1. /\ budget["expire"] > 0 /\ budget' = [budget EXCEPT !["expire"] = @ - 1]
        /\ queued' = queued \ {m}
        /\ UNCHANGED <<table, notices, call>>
    BY <1>2 DEF Expire, Spend, serviceVars
  <2>2. Spent' = Spent + 1
    BY <1>1, <2>1 DEF Spent, FaultsSpent, FaultKinds
  <2> QED
    BY <2>1, <2>2
<1>3. ASSUME NEW m \in Messages, Reappear(m) \/ ReappearOverdue(m), UNCHANGED serviceVars
      PROVE  LostJobs' \subseteq LostJobs /\ Spent' = Spent
  <2>1. UNCHANGED <<queued, table, notices, call>>
    BY <1>3 DEF Reappear, ReappearOverdue, serviceVars
  <2>2. Spent' = Spent
    BY <1>1, <1>3 DEF Reappear, ReappearOverdue, Spend, Spent, FaultsSpent, FaultKinds
  <2> QED
    BY <2>1, <2>2
<1> QED
  BY <1>2, <1>3 DEF QueueService

\* Handlers' own steps spend no fault that loses anything.
LEMMA NothingElseSpends ==
    ASSUME ServiceInv, NEW h \in Handlers, Request(h) \/ HandlerStep(h)
    PROVE  Spent' = Spent
<1>1. budget \in [FaultKinds -> Nat]
  BY DEF ServiceInv, ServiceTypeOK, TypeOK
<1>2. budget' = budget \/ budget' = [budget EXCEPT !["resend"] = @ - 1]
  BY DEF Request, SubmitCreate, ClaimReceive, Receive, CompleteLoad, FailLoad, BeginReport,
         HandlerStep, SubmitEnqueue, Enqueue, EnqueueResent, Spend, ClaimDelete, Delete,
         ClaimDeleteRejected, DeleteRejected, ClaimLoad, ClaimRecord, ReportSave, ReportNotify
<1> QED
  BY <1>1, <1>2 DEF Spent, FaultsSpent, FaultKinds

\* Counting: a set of jobs that grows by no more than one job per unit spent.
LEMMA PaidFor ==
    ASSUME NEW S, NEW T, IsFiniteSet(S), IsFiniteSet(T), NEW p \in Int, NEW q \in Int,
           Cardinality(S) <= p,
           \/ T \subseteq S /\ q = p
           \/ q = p + 1 /\ \E i : T \subseteq S \cup {i}
    PROVE  Cardinality(T) <= q
<1>0. Cardinality(S) \in Nat /\ Cardinality(T) \in Nat
  BY FS_CardinalityType
<1>1. CASE T \subseteq S /\ q = p
  <2>1. Cardinality(T) <= Cardinality(S)
    BY <1>1, FS_Subset
  <2> QED
    BY <1>0, <1>1, <2>1
<1>2. ASSUME NEW i, T \subseteq S \cup {i}, q = p + 1
      PROVE  Cardinality(T) <= q
  <2>1. /\ IsFiniteSet(S \cup {i})
        /\ Cardinality(S \cup {i}) =
              IF i \in S THEN Cardinality(S) ELSE Cardinality(S) + 1
    BY FS_AddElement
  <2>2. Cardinality(T) <= Cardinality(S \cup {i})
    BY <1>2, <2>1, FS_Subset
  <2> QED
    BY <1>0, <1>2, <2>1, <2>2
<1> QED
  BY <1>1, <1>2

LEMMA NextOneFaultOneLoss ==
    ASSUME IsFiniteSet(JobIds), ServiceInv, CallsPrepared, OneFaultOneLoss,
           [ServiceNext]_allVars
    PROVE  OneFaultOneLoss'
<1>1. Cardinality(LostJobs) <= Spent
  BY DEF OneFaultOneLoss, LostJobs, Lost, Spent
<1>2. IsFiniteSet(LostJobs) /\ IsFiniteSet(LostJobs')
  <2>1. LostJobs \in SUBSET JobIds /\ LostJobs' \in SUBSET JobIds
    BY DEF LostJobs
  <2> QED
    BY <2>1, FS_Subset
<1>3. Spent \in Int
  BY MaxFaultsType DEF Spent, FaultsSpent, FaultKinds, ServiceInv, ServiceTypeOK, TypeOK
<1>4. ASSUME NEW h \in Handlers, Request(h) \/ HandlerStep(h)
      PROVE  LostJobs' \subseteq LostJobs /\ Spent' = Spent
  BY <1>4, NothingElseLoses, NothingElseSpends
<1>5. ASSUME UNCHANGED allVars PROVE LostJobs' \subseteq LostJobs /\ Spent' = Spent
  BY <1>5 DEF allVars, queueVars, serviceVars, LostJobs, Lost, Stranded, Silent, InHands, Spent,
              FaultsSpent
<1>6. \/ LostJobs' \subseteq LostJobs /\ Spent' = Spent
      \/ Spent' = Spent + 1 /\ \E i : LostJobs' \subseteq LostJobs \cup {i}
  BY <1>4, <1>5, StopLosesOne, ClockLosesOne DEF ServiceNext
<1>7. Spent' \in Int
  BY <1>3, <1>6
<1>8. Cardinality(LostJobs') <= Spent'
  BY <1>1, <1>2, <1>3, <1>6, <1>7, PaidFor
<1> QED
  BY <1>8 DEF OneFaultOneLoss, LostJobs, Lost, Spent

LEMMA InitLossInv == ServiceInit => LossInv
<1> SUFFICES ASSUME ServiceInit PROVE LossInv
  OBVIOUS
<1>1. CallsPrepared
  BY DEF ServiceInit, Idle, CallsPrepared, CallPrepared, At
<1>2. LostJobs = {}
  BY DEF ServiceInit, LostJobs, Lost, Stranded, Silent, NoEntity, Outcomes
<1>3. Spent = 0
  BY MaxFaultsType DEF ServiceInit, Init, Spent, FaultsSpent, FaultKinds
<1>4. Cardinality(LostJobs) <= Spent
  BY <1>2, <1>3, FS_EmptySet
<1> QED
  BY <1>1, <1>4 DEF LossInv, OneFaultOneLoss, LostJobs, Lost, Spent

\* However many jobs, handlers and faults there are: no more jobs are lost than
\* handlers stopped and messages expired.  Early timeouts, repeated sends and
\* racing reports lose none.
THEOREM FaultsPayForLosses ==
    ASSUME IsFiniteSet(JobIds)
    PROVE  ServiceSpec => []OneFaultOneLoss
<1>1. ServiceInit => ServiceInv /\ LossInv
  BY InitServiceInv, InitLossInv
<1>2. ServiceInv /\ [ServiceNext]_allVars => ServiceInv'
  BY NextServiceInv
<1>3. ServiceInv /\ LossInv /\ [ServiceNext]_allVars => LossInv'
  BY NextCallsPrepared, NextOneFaultOneLoss DEF LossInv
<1>4. LossInv => OneFaultOneLoss
  BY DEF LossInv
<1> QED
  BY <1>1, <1>2, <1>3, <1>4, PTL DEF ServiceSpec
====
