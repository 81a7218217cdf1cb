---- MODULE ComputeWorkersProofs ----
(* The compute workers are clients of the service like any others, so what   *)
(* is proved of the service holds with them; what they believe about their   *)
(* job agrees with its row; and who drops a job is at fault for it.          *)
EXTENDS ComputeWorkers, JobClaimProofs

WorkerTypeOK ==
    /\ worker \in [WorkerIds -> Workers]
    /\ mishaps \in [Mishaps -> Nat]

\* A worker that waits for an answer waits for the handler of its own request.
Attended(w) ==
    LET c == call[worker[w].via]
    IN  /\ HasJob(w) => worker[w].job_id \in JobIds
        /\ worker[w].mode \in {"polling", "running"} => worker[w].via = None
        /\ Waiting(w) => worker[w].via \in Handlers /\ c.worker_id = w
        /\ worker[w].mode = "claiming" => c.step \in {"delete", "load", "record"}
        /\ worker[w].mode = "reporting" => /\ c.step \in {"save", "notify"}
                                           /\ c.job_id = worker[w].job_id

WorkerInv == WorkerTypeOK /\ \A w \in WorkerIds : Attended(w)

----
LEMMA InitWorkerInv == WorkersInit => WorkerInv
BY MaxMishapsType DEF WorkersInit, WorkerInv, WorkerTypeOK, Workers, Modes, Polling,
   Attended, HasJob, Waiting

\* Every step of the workers' system is a step of the service or leaves it alone.
LEMMA StepIsServiceStep == WorkerInv /\ [WorkersNext]_systemVars => [ServiceNext]_allVars
<1> SUFFICES ASSUME WorkerInv, [WorkersNext]_systemVars PROVE [ServiceNext]_allVars
  OBVIOUS
<1>1. ASSUME NEW h \in Handlers, PostJob(h) PROVE ServiceNext
  BY <1>1 DEF PostJob, ServiceNext, Request
<1>2. ASSUME NEW h \in Handlers, HandlerWorks(h) PROVE ServiceNext
  BY <1>2 DEF HandlerWorks, ServiceNext, HandlerStep, ClaimAccepted, ClaimRefused
<1>3. ASSUME NEW h \in Handlers, HandlerStops(h) PROVE ServiceNext
  BY <1>3 DEF HandlerStops, ServiceNext
<1>4. ASSUME NEW w \in WorkerIds, NEW h \in Handlers, PostClaim(w, h) PROVE ServiceNext
  BY <1>4 DEF PostClaim, ServiceNext, Request
<1>5. ASSUME NEW w \in WorkerIds, NEW h \in Handlers, PostReport(w, h) PROVE ServiceNext
  <2>1. worker[w].job_id \in JobIds
    BY <1>5 DEF PostReport, WorkerInv, Attended, HasJob
  <2> QED
    BY <1>5, <2>1 DEF PostReport, ServiceNext, Request
<1>6. ASSUME NEW w \in WorkerIds, ReportRefused(w) \/ LoseAnswer(w) \/ Crash(w)
      PROVE  UNCHANGED allVars
  BY <1>6 DEF ReportRefused, LoseAnswer, Crash
<1> QED
  BY <1>1, <1>2, <1>3, <1>4, <1>5, <1>6 DEF WorkersNext, ServiceNext, systemVars

----
\* Handlers other than h go on as they were.
LEMMA OthersUntouched ==
    ASSUME ServiceInv, NEW h \in Handlers, HandlerWorks(h) \/ HandlerStops(h),
           NEW g \in Handlers, g # h
    PROVE  call'[g] = call[g]
BY DEF ServiceInv, ServiceTypeOK, HandlerWorks, HandlerStops, SubmitEnqueue,
       ClaimDelete, ClaimDeleteRejected, ClaimAccepted, ClaimLoad, ClaimRefused,
       ClaimRecord, ReportSave, ReportNotify, Abort, Finish

LEMMA NextWorkerInv ==
    ASSUME ServiceInv, WorkerInv, [WorkersNext]_systemVars
    PROVE  WorkerInv'
<1> DEFINE Settled(w) == worker'[w] \in Workers /\ Attended(w)'
<1>0. /\ worker \in [WorkerIds -> Workers] /\ mishaps \in [Mishaps -> Nat]
      /\ call \in [Handlers -> Calls]
  BY DEF WorkerInv, WorkerTypeOK, ServiceInv, ServiceTypeOK
\* A worker whose own state and whose handler's call do not change.
<1>U. ASSUME NEW w \in WorkerIds, worker'[w] = worker[w],
             Waiting(w) => call'[worker[w].via] = call[worker[w].via]
      PROVE  Settled(w)
  BY <1>0, <1>U DEF WorkerInv, Attended, HasJob, Waiting
\* A worker that is left without a job.
<1>P. ASSUME NEW w \in WorkerIds, worker'[w] = Polling PROVE Settled(w)
  BY <1>P DEF Polling, Workers, Modes, Attended, HasJob, Waiting
\* A worker that goes back to the job it was reporting.
<1>R. ASSUME NEW w \in WorkerIds, worker[w].mode = "reporting",
             worker'[w] = Running(worker[w].job_id)
      PROVE  Settled(w)
  <2>1. worker[w].job_id \in JobIds
    BY <1>R DEF HasJob, WorkerInv, Attended
  <2> QED
    BY <1>R, <2>1 DEF Running, Workers, Modes, Attended, HasJob, Waiting
<1>1. ASSUME NEW h \in Handlers, PostJob(h), NEW w \in WorkerIds PROVE Settled(w)
  <2>1. PICK j \in JobIds : SubmitCreate(h, j)
    BY <1>1 DEF PostJob
  <2>2. \A g \in Handlers : g # h => call'[g] = call[g]
    BY <1>0, <2>1 DEF SubmitCreate, Begin
  <2>3. Waiting(w) => worker[w].via \in Handlers \ {h}
    BY <2>1 DEF SubmitCreate, Begin, Idle, WorkerInv, Attended, Waiting
  <2> QED
    BY <1>1, <1>U, <2>2, <2>3 DEF PostJob, workerVars
<1>2. ASSUME NEW h \in Handlers, NEW w \in WorkerIds, worker[w].via # h \/ ~Waiting(w),
             HandlerWorks(h) \/ HandlerStops(h)
      PROVE  Settled(w)
  <2>1. Waiting(w) => /\ worker[w].via \in Handlers
                      /\ call'[worker[w].via] = call[worker[w].via]
    BY <1>2, OthersUntouched DEF WorkerInv, Attended
  <2>2. worker[w].via # h
    BY <1>2, NoneIsNotAHandler DEF WorkerInv, WorkerTypeOK, Attended, Waiting, Workers, Modes
  <2>3. worker'[w] = worker[w]
    BY <1>0, <1>2, <2>2 DEF HandlerWorks, HandlerStops, Reply, workerVars
  <2> QED
    BY <1>U, <2>1, <2>3
<1>3. ASSUME NEW h \in Handlers, NEW w \in WorkerIds, worker[w].via = h, Waiting(w),
             HandlerWorks(h) \/ HandlerStops(h)
      PROVE  Settled(w)
  <2>0. /\ Attended(w) /\ call[h].worker_id = w
        /\ worker[w].mode \in {"claiming", "reporting"}
        /\ worker[w].mode = "claiming" => call[h].step \in {"delete", "load", "record"}
        /\ worker[w].mode = "reporting" => /\ call[h].step \in {"save", "notify"}
                                           /\ call[h].job_id = worker[w].job_id
    BY <1>3 DEF WorkerInv, Attended, Waiting
  <2>1. CASE SubmitEnqueue(h)
    BY <2>0, <2>1 DEF SubmitEnqueue, At
  <2>2. CASE (ClaimDelete(h) \/ ClaimAccepted(h) \/ ReportSave(h)) /\ UNCHANGED workerVars
    <3> DEFINE Moved(from, to) == /\ call[h].step = from
                                  /\ call'[h].step = to
                                  /\ call'[h].worker_id = call[h].worker_id
                                  /\ call'[h].job_id = call[h].job_id
    <3>a. ClaimDelete(h) => Moved("delete", "load")
      BY <1>0 DEF ClaimDelete, At, Calls
    <3>b. ClaimAccepted(h) => Moved("load", "record")
      BY <1>0 DEF ClaimAccepted, ClaimLoad, At, Calls
    <3>c. ReportSave(h) => Moved("save", "notify")
      BY <1>0 DEF ReportSave, At, Calls
    <3>1. Moved("delete", "load") \/ Moved("load", "record") \/ Moved("save", "notify")
      BY <2>2, <3>a, <3>b, <3>c
    <3>2. worker'[w] = worker[w]
      BY <2>2 DEF workerVars
    <3> QED
      BY <1>0, <1>3, <2>0, <3>1, <3>2 DEF Attended, HasJob, Waiting
  <2>3. CASE ClaimRecord(h) /\ Reply(h, 200)
    <3>1. worker[w].mode = "claiming"
      BY <2>0, <2>3 DEF ClaimRecord, At
    <3>2. worker'[w] = Running(call[h].job_id)
      BY <1>0, <1>3, <2>3, <3>1 DEF Reply, After
    <3>3. call[h].job_id \in JobIds
      BY <2>3 DEF ClaimRecord, At, ServiceInv, CallsShaped, CallShape
    <3> QED
      BY <3>2, <3>3 DEF Running, Workers, Modes, Attended, HasJob, Waiting
  <2>4. CASE ReportNotify(h) /\ Reply(h, 200)
    <3>1. worker[w].mode = "reporting"
      BY <2>0, <2>4 DEF ReportNotify, At
    <3>2. worker'[w] = Polling
      BY <1>0, <1>3, <2>4, <3>1 DEF Reply, After
    <3> QED
      BY <1>P, <3>2
  <2>5. CASE Reply(h, 500)
    <3>1. worker'[w] = IF worker[w].mode = "claiming" THEN Polling
                                                       ELSE Running(call[h].job_id)
      BY <1>0, <1>3, <2>5 DEF Reply, After
    <3> QED
      BY <1>P, <1>R, <2>0, <3>1
  <2> QED
    BY <1>3, <2>1, <2>2, <2>3, <2>4, <2>5 DEF HandlerWorks, HandlerStops
<1>4. ASSUME NEW v \in WorkerIds, NEW h \in Handlers, PostClaim(v, h), NEW w \in WorkerIds
      PROVE  Settled(w)
  <2>1. /\ call[h] = Idle
        /\ call'[h].step = "delete" /\ call'[h].worker_id = v
        /\ \A g \in Handlers : g # h => call'[g] = call[g]
    BY <1>0, <1>4 DEF PostClaim, ClaimReceive, Begin, Idle
  <2>2. CASE w = v
    <3>1. worker'[w] = [mode |-> "claiming", job_id |-> None, via |-> h]
      BY <1>0, <1>4, <2>2 DEF PostClaim
    <3>2. worker'[w] \in Workers
      BY <3>1 DEF Workers, Modes
    <3>3. /\ worker'[w].mode = "claiming" /\ worker'[w].via = h
          /\ call'[worker'[w].via].worker_id = w
          /\ call'[worker'[w].via].step = "delete"
      BY <2>1, <2>2, <3>1
    <3>4. ~HasJob(w)'
      BY <3>3 DEF HasJob
    <3> QED
      BY <3>2, <3>3, <3>4 DEF Attended, Waiting
  <2>3. CASE w # v
    <3>1. Waiting(w) => worker[w].via \in Handlers \ {h}
      BY <2>1 DEF Idle, WorkerInv, Attended, Waiting
    <3> QED
      BY <1>0, <1>4, <1>U, <2>1, <2>3, <3>1 DEF PostClaim
  <2> QED
    BY <2>2, <2>3
<1>5. ASSUME NEW v \in WorkerIds, NEW h \in Handlers, PostReport(v, h), NEW w \in WorkerIds
      PROVE  Settled(w)
  <2>1. /\ call[h] = Idle
        /\ call'[h].step = "save" /\ call'[h].worker_id = v
        /\ call'[h].job_id = worker[v].job_id
        /\ \A g \in Handlers : g # h => call'[g] = call[g]
    BY <1>0, <1>5 DEF PostReport, CompleteLoad, FailLoad, BeginReport, Begin, Idle
  <2>2. CASE w = v
    <3>1. HasJob(w) /\ worker[w].job_id \in JobIds
      BY <1>5, <2>2 DEF PostReport, HasJob, WorkerInv, Attended
    <3>2. worker'[w] = [mode |-> "reporting", job_id |-> worker[w].job_id, via |-> h]
      BY <1>0, <1>5, <2>2 DEF PostReport, Workers
    <3> QED
      BY <2>1, <2>2, <3>1, <3>2 DEF Workers, Modes, Attended, HasJob, Waiting
  <2>3. CASE w # v
    <3>1. Waiting(w) => worker[w].via \in Handlers \ {h}
      BY <2>1 DEF Idle, WorkerInv, Attended, Waiting
    <3> QED
      BY <1>0, <1>5, <1>U, <2>1, <2>3, <3>1 DEF PostReport
  <2> QED
    BY <2>2, <2>3
<1>6. ASSUME NEW v \in WorkerIds, ReportRefused(v) \/ LoseAnswer(v) \/ Crash(v),
             NEW w \in WorkerIds
      PROVE  Settled(w)
  <2>1. UNCHANGED call
    BY <1>6 DEF ReportRefused, LoseAnswer, Crash, allVars, serviceVars
  <2>2. \/ worker'[w] = worker[w]
        \/ worker'[w] = Polling
        \/ worker[w].mode = "reporting" /\ worker'[w] = Running(worker[w].job_id)
    BY <1>0, <1>6 DEF ReportRefused, LoseAnswer, Crash, Waiting
  <2> QED
    BY <1>U, <1>P, <1>R, <2>1, <2>2
<1>7. ASSUME UNCHANGED workerVars, UNCHANGED call, NEW w \in WorkerIds PROVE Settled(w)
  BY <1>7, <1>U DEF workerVars
<1>8. ASSUME NEW w \in WorkerIds PROVE Settled(w)
  <2> HIDE DEF Settled
  <2> QED
    BY <1>1, <1>2, <1>3, <1>4, <1>5, <1>6, <1>7, <1>8
       DEF WorkersNext, QueueService, serviceVars, systemVars, allVars
<1>9. worker' \in [WorkerIds -> Workers]
  <2>1. worker' = [w \in WorkerIds |-> worker'[w]]
    BY <1>0 DEF WorkersNext, PostJob, HandlerWorks, HandlerStops, Reply, PostClaim,
       PostReport, ReportRefused, LoseAnswer, Crash, workerVars, systemVars
  <2> QED
    BY <1>8, <2>1
<1>10. mishaps' \in [Mishaps -> Nat]
  <2>1. UNCHANGED mishaps \/ \E kind \in Mishaps : Befalls(kind)
    BY DEF WorkersNext, PostJob, HandlerWorks, HandlerStops, Reply, PostClaim,
       PostReport, ReportRefused, LoseAnswer, Crash, Mishaps, workerVars, systemVars
  <2> QED
    BY <1>0, <2>1 DEF Befalls
<1> QED
  BY <1>8, <1>9, <1>10 DEF WorkerInv, WorkerTypeOK

----
----
LEMMA InitServiceWorkers == WorkersInit => ServiceInv /\ WorkerInv
BY InitServiceInv, InitWorkerInv DEF WorkersInit

LEMMA NextServiceWorkers ==
    ServiceInv /\ WorkerInv /\ [WorkersNext]_systemVars => ServiceInv' /\ WorkerInv'
BY StepIsServiceStep, NextServiceInv, NextWorkerInv

\* The workers and the handlers that serve them stay of their kinds.
THEOREM WorkersTypes == WorkersSpec => []WorkersTypeOK
<1>1. WorkersInit => ServiceInv /\ WorkerInv
  BY InitServiceWorkers
<1>2. ServiceInv /\ WorkerInv /\ [WorkersNext]_systemVars => ServiceInv' /\ WorkerInv'
  BY NextServiceWorkers
<1>3. ServiceInv /\ WorkerInv => WorkersTypeOK
  BY DEF ServiceInv, WorkerInv, WorkerTypeOK, WorkersTypeOK
<1> QED
  BY <1>1, <1>2, <1>3, PTL DEF WorkersSpec

\* The workers' system is the service with particular callers, so what holds in
\* every run of the service holds with them.
THEOREM WorkersUseService == WorkersSpec => ServiceSpec
<1>1. WorkersInit => ServiceInit /\ ServiceInv /\ WorkerInv
  BY InitServiceWorkers DEF WorkersInit
<1>2. ServiceInv /\ WorkerInv /\ [WorkersNext]_systemVars => ServiceInv' /\ WorkerInv'
  BY NextServiceWorkers
<1>3. WorkerInv /\ [WorkersNext]_systemVars => [ServiceNext]_allVars
  BY StepIsServiceStep
<1> QED
  BY <1>1, <1>2, <1>3, PTL DEF WorkersSpec, ServiceSpec

----
\* What a worker believes and what its job's row says.
RunnerOwns(w, j) == Claimed(table[j]) /\ (~HandedOutTwice(j) => table[j].worker_id = w)

RunnersClaimed == \A w \in WorkerIds : HasJob(w) => RunnerOwns(w, worker[w].job_id)

SystemInv == JobInv /\ OwnerInv /\ WorkerInv

\* A worker gets a job by the answer to a claim of its own, just recorded.
LEMMA JobsComeFromClaims ==
    ASSUME ServiceInv, WorkerInv, [WorkersNext]_systemVars, NEW w \in WorkerIds, HasJob(w)'
    PROVE  \/ HasJob(w) /\ worker'[w].job_id = worker[w].job_id
           \/ \E h \in Handlers : /\ ClaimRecord(h)
                                  /\ worker'[w].job_id = call[h].job_id
                                  /\ call[h].worker_id = w
<1>0. /\ worker \in [WorkerIds -> Workers] /\ Attended(w)
  BY DEF WorkerInv, WorkerTypeOK
<1>1. CASE UNCHANGED worker
  BY <1>1 DEF HasJob
<1>2. ASSUME NEW v \in WorkerIds,
             \/ \E h \in Handlers : PostClaim(v, h) \/ PostReport(v, h)
             \/ ReportRefused(v) \/ LoseAnswer(v) \/ Crash(v)
      PROVE  HasJob(w) /\ worker'[w].job_id = worker[w].job_id
  <2>1. \/ worker'[w] = worker[w]
        \/ worker'[w].mode \in {"polling", "claiming"}
        \/ /\ worker[w].mode \in {"running", "reporting"}
           /\ worker'[w].job_id = worker[w].job_id
    BY <1>0, <1>2 DEF PostClaim, PostReport, ReportRefused, LoseAnswer, Crash, Waiting, Polling,
                      Running, Workers
  <2> QED
    BY <2>1 DEF HasJob
<1>3. ASSUME NEW h \in Handlers, HandlerWorks(h) \/ HandlerStops(h), worker'[w] # worker[w]
      PROVE  \/ HasJob(w) /\ worker'[w].job_id = worker[w].job_id
             \/ /\ ClaimRecord(h)
                /\ worker'[w].job_id = call[h].job_id
                /\ call[h].worker_id = w
  <2>1. PICK code \in {200, 500} : /\ Reply(h, code)
                                   /\ code = 200 => ClaimRecord(h) \/ ReportNotify(h)
    BY <1>3 DEF HandlerWorks, HandlerStops, workerVars
  <2>2. worker[w].via = h /\ worker'[w] = After(worker[w], code, call[h].job_id)
    BY <1>0, <1>3, <2>1 DEF Reply
  <2>3. Waiting(w) /\ call[h].worker_id = w
    BY <1>0, <2>2, NoneIsNotAHandler DEF Attended, Waiting, Workers, Modes
  <2>4. CASE worker[w].mode = "claiming"
    <3>1. code = 200 /\ worker'[w].job_id = call[h].job_id
      BY <2>1, <2>2, <2>4 DEF After, Running, Polling, HasJob
    <3>2. ~ReportNotify(h)
      BY <1>0, <2>2, <2>4 DEF ReportNotify, At, Attended
    <3> QED
      BY <2>1, <2>3, <3>1, <3>2
  <2>5. CASE worker[w].mode = "reporting"
    BY <1>0, <2>2, <2>5 DEF After, Running, Polling, HasJob, Attended
  <2> QED
    BY <2>3, <2>4, <2>5 DEF Waiting
<1> QED
  BY <1>1, <1>2, <1>3 DEF WorkersNext, PostJob, workerVars, systemVars, HasJob

LEMMA NextRunnersClaimed ==
    ASSUME WorkersHaveNames, SystemInv, RunnersClaimed, [WorkersNext]_systemVars
    PROVE  RunnersClaimed'
<1>0. [ServiceNext]_allVars /\ ServiceInv
  BY StepIsServiceStep DEF SystemInv, JobInv
<1> SUFFICES ASSUME NEW w \in WorkerIds, HasJob(w)' PROVE RunnerOwns(w, worker[w].job_id)'
  BY DEF RunnersClaimed
<1>1. CASE HasJob(w) /\ worker'[w].job_id = worker[w].job_id
  <2>1. PICK j \in JobIds : j = worker[w].job_id
    BY <1>1 DEF SystemInv, WorkerInv, Attended
  <2>2. RunnerOwns(w, j)
    BY <1>1, <2>1 DEF RunnersClaimed
  <2>3. Claimed(table[j])'
    BY <1>0, <2>2, ClaimedStays DEF SystemInv, RunnerOwns
  <2>4. ~HandedOutTwice(j)' => table'[j].worker_id = w
    BY <1>0, <2>2, OwnerKept, TwiceStays DEF SystemInv, RunnerOwns, WorkersHaveNames
  <2> QED
    BY <1>1, <2>1, <2>3, <2>4 DEF RunnerOwns, Claimed
<1>2. ASSUME NEW h \in Handlers, ClaimRecord(h), worker'[w].job_id = call[h].job_id,
             call[h].worker_id = w
      PROVE  RunnerOwns(w, worker[w].job_id)'
  BY <1>2, RowWriterOwns DEF SystemInv, RunnerOwns, Claimed
<1> QED
  BY <1>0, <1>1, <1>2, JobsComeFromClaims DEF SystemInv

LEMMA InitSystemInv == WorkersInit => SystemInv /\ RunnersClaimed
<1> SUFFICES ASSUME WorkersInit PROVE SystemInv /\ RunnersClaimed
  OBVIOUS
<1>1. SystemInv
  BY InitJobInv, InitOwnerInv, InitWorkerInv DEF WorkersInit, SystemInv
<1> QED
  BY <1>1 DEF WorkersInit, Polling, HasJob, RunnersClaimed

LEMMA NextSystemInv ==
    ASSUME WorkersHaveNames, SystemInv, [WorkersNext]_systemVars
    PROVE  SystemInv'
<1>1. [ServiceNext]_allVars
  BY StepIsServiceStep DEF SystemInv
<1> QED
  BY <1>1, NextJobInv, NextOwnerInv, NextWorkerInv DEF SystemInv, JobInv

\* With retrying workers in the place of arbitrary callers, a worker that
\* believes it has a job has claimed it, and owns it unless the job was handed
\* out twice, whatever answers are lost.
THEOREM WorkersOwnTheirJobs ==
    ASSUME WorkersHaveNames
    PROVE  WorkersSpec => []RunnersOwnTheirJob
<1>1. WorkersInit => SystemInv /\ RunnersClaimed
  BY InitSystemInv
<1>2. SystemInv /\ RunnersClaimed /\ [WorkersNext]_systemVars
        => (SystemInv /\ RunnersClaimed)'
  BY NextSystemInv, NextRunnersClaimed
<1>3. RunnersClaimed => RunnersOwnTheirJob
  BY DEF RunnersClaimed, RunnerOwns, Claimed, RunnersOwnTheirJob
<1> QED
  BY <1>1, <1>2, <1>3, PTL DEF WorkersSpec

\* The owner of a job that is still processing may report on it.
LEMMA RefusedIsOver ==
    ASSUME WorkersHaveNames, SystemInv, NEW w \in WorkerIds, ReportRefused(w),
           table[worker[w].job_id].worker_id = w
    PROVE  table[worker[w].job_id].status # "processing"
<1> DEFINE j == worker[w].job_id
<1>1. j \in JobIds
  BY DEF ReportRefused, SystemInv, WorkerInv, Attended, HasJob
<1>2. PICK target \in Outcomes : ~MayReport(j, w, target)
  BY DEF ReportRefused
<1>3. table[j] \in TableEntities \cup {NoEntity} /\ w # Blank
  BY <1>1 DEF SystemInv, JobInv, ServiceInv, ServiceTypeOK, WorkersHaveNames
<1>4. Exists(j) /\ table[j] \in TableEntities
  BY <1>1, <1>3 DEF Exists, NoEntity
<1>5. EnsureClaimedBy(Get(j), w) /\ Get(j).status = table[j].status
  BY <1>1, <1>3, <1>4, LoadedColumns DEF Get, EnsureClaimedBy
<1> QED
  BY <1>2, <1>4, <1>5, WorkersMayRetry
     DEF MayReport, CanTransition, ALLOWED_TRANSITIONS, JobStatus, Outcomes

\* A worker that owns a job which is still processing may report on it, so a
\* refused report is about a job that an earlier report of the worker has ended.
THEOREM RefusedReportsAreSaved ==
    ASSUME WorkersHaveNames
    PROVE  WorkersSpec => RefusalMeansReported
<1> DEFINE Reported(w) == /\ table[worker[w].job_id].worker_id = w
                          /\ table[worker[w].job_id].status \in Outcomes
<1>1. WorkersInit => SystemInv /\ RunnersClaimed
  BY InitSystemInv
<1>2. SystemInv /\ RunnersClaimed /\ [WorkersNext]_systemVars
        => (SystemInv /\ RunnersClaimed)'
  BY NextSystemInv, NextRunnersClaimed
<1>3. ASSUME SystemInv, RunnersClaimed, NEW w \in WorkerIds, ReportRefused(w),
             ~HandedOutTwice(worker[w].job_id)
      PROVE  Reported(w)
  <2>1. HasJob(w)
    BY <1>3 DEF ReportRefused, HasJob
  <2>2. RunnerOwns(w, worker[w].job_id)
    BY <1>3, <2>1 DEF RunnersClaimed
  <2> QED
    BY <1>3, <2>2, RefusedIsOver DEF RunnerOwns, Claimed, Outcomes
<1>4. SystemInv /\ RunnersClaimed /\ [WorkersNext]_systemVars
        => [\A w \in WorkerIds :
              ReportRefused(w) /\ ~HandedOutTwice(worker[w].job_id) =>
                LET row == table[worker[w].job_id]
                IN  row.worker_id = w /\ row.status \in Outcomes]_systemVars
  BY <1>3
<1> QED
  BY <1>1, <1>2, <1>4, PTL DEF WorkersSpec, RefusalMeansReported

----
\* Losses with workers around the service.  Besides what the service loses there
\* are the jobs that were dropped: being processed without their owner keeping
\* them, or being claimed for a worker that does not wait for the answer any more.
\* Forgotten jobs alone are not paid for when they come about: a dropped job may
\* still be in the hands of another worker that claimed it.
Kept(w, j) ==
    /\ table[j].worker_id = w
    /\ worker[w].job_id = j
    /\ \/ worker[w].mode = "running"
       \/ worker[w].mode = "reporting" /\ call[worker[w].via].step = "save"

Awaited(h) == \E w \in WorkerIds : worker[w].mode = "claiming" /\ worker[w].via = h

Unawaited(j) ==
    \E h \in Handlers : /\ call[h].job_id = j
                        /\ call[h].step \in {"delete", "load", "record"}
                        /\ ~Awaited(h)

Dropped(j) == \/ table[j].status = "processing" /\ \A w \in WorkerIds : ~Kept(w, j)
              \/ Unawaited(j)

DroppedJobs == {j \in JobIds : Dropped(j)}

DoomedJobs == LostJobs \cup DroppedJobs

MishapsSpent == (MaxMishaps["crash"] - mishaps["crash"])
                + (MaxMishaps["lost_claim"] - mishaps["lost_claim"])

LossesPaid == Cardinality(DoomedJobs) <= Spent + MishapsSpent

\* A job is not dropped by a step that moves its row away from processing, leaves
\* row and owner as they are or gives it an owner, and that leaves every handler
\* that claims it awaited.
LEMMA NotDropped ==
    ASSUME NEW j \in JobIds, ~Dropped(j),
           \/ table'[j].status # "processing"
           \/ /\ table'[j] = table[j]
              /\ \A w \in WorkerIds : Kept(w, j) => Kept(w, j)'
           \/ \E w \in WorkerIds : Kept(w, j)',
           \A h \in Handlers :
              call'[h].job_id = j /\ call'[h].step \in {"delete", "load", "record"}
                => \/ Awaited(h)'
                   \/ /\ call[h].job_id = j
                      /\ call[h].step \in {"delete", "load", "record"}
                      /\ Awaited(h) => Awaited(h)'
    PROVE  ~Dropped(j)'
<1>1. table'[j].status = "processing" => \E w \in WorkerIds : Kept(w, j)'
  BY DEF Dropped
<1>2. ASSUME Unawaited(j)' PROVE FALSE
  <2>1. PICK h \in Handlers : /\ call'[h].job_id = j
                              /\ call'[h].step \in {"delete", "load", "record"}
                              /\ ~Awaited(h)'
    BY <1>2 DEF Unawaited, Awaited
  <2>2. /\ call[h].job_id = j
        /\ call[h].step \in {"delete", "load", "record"}
        /\ ~Awaited(h)
    BY <2>1 DEF Awaited
  <2> QED
    BY <2>2 DEF Dropped, Unawaited
<1> QED
  BY <1>1, <1>2 DEF Dropped, Kept

\* A worker keeps its job while neither its row nor the worker nor the handler
\* that saves its report moves.
LEMMA StillKept ==
    ASSUME WorkerInv, NEW w \in WorkerIds, NEW j \in JobIds, Kept(w, j),
           table'[j] = table[j], worker'[w] = worker[w],
           Waiting(w) => call'[worker[w].via].step = call[worker[w].via].step
    PROVE  Kept(w, j)'
BY DEF Kept, Waiting

\* Rows, handlers' steps and workers after each step that costs nothing.
LEMMA HandlersDropNothing ==
    ASSUME SystemInv, NEW h \in Handlers, PostJob(h) \/ HandlerWorks(h)
    PROVE  DroppedJobs' \subseteq DroppedJobs
<1>0. /\ call \in [Handlers -> Calls]
      /\ worker \in [WorkerIds -> Workers]
      /\ table \in [JobIds -> TableEntities \cup {NoEntity}]
      /\ \A g \in Handlers : CallShape(call[g])
      /\ \A w \in WorkerIds : Attended(w)
  BY DEF SystemInv, JobInv, ServiceInv, ServiceTypeOK, CallsShaped, WorkerInv, WorkerTypeOK
<1> SUFFICES ASSUME NEW j \in JobIds, ~Dropped(j) PROVE ~Dropped(j)'
  BY DEF DroppedJobs
<1> DEFINE i == call[h].job_id
           Others == \A g \in Handlers : g # h => call'[g] = call[g]
\* Who keeps j has a handler at save, or none.
<1>W. /\ \A w \in WorkerIds : Kept(w, j) => HasJob(w) /\ worker[w].job_id = j
      /\ \A w \in WorkerIds : Kept(w, j) /\ Waiting(w) => /\ worker[w].via \in Handlers
                                                          /\ call[worker[w].via].step = "save"
                                                          /\ call[worker[w].via].job_id = j
      /\ \A w \in WorkerIds : Kept(w, j) /\ worker[w].via = h => Waiting(w)
      /\ \A w \in WorkerIds : worker[w].mode = "claiming" /\ worker[w].via = h
            => call[h].step \in {"delete", "load", "record"} /\ call[h].worker_id = w
  BY <1>0, NoneIsNotAHandler DEF Attended, Kept, HasJob, Waiting
\* So it keeps it while another handler works, one that saves nothing on it.
<1>K. ASSUME Others, call[h].step # "save" \/ j # i, table'[j] = table[j],
             \A w \in WorkerIds : worker[w].via # h => worker'[w] = worker[w],
             NEW w \in WorkerIds, Kept(w, j)
      PROVE  Kept(w, j)'
  <2>1. Waiting(w) => worker[w].via # h
    BY <1>W, <1>K
  <2>2. worker[w].via # h
    BY <1>W, <1>K, <2>1
  <2> QED
    BY <1>W, <1>K, <2>1, <2>2, StillKept DEF SystemInv
<1>1. ASSUME PostJob(h) \/ (SubmitEnqueue(h) /\ UNCHANGED workerVars) PROVE ~Dropped(j)'
  <2>1. /\ Others /\ call[h].step \in {"idle", "enqueue"}
        /\ call'[h].step \in {"idle", "enqueue"}
        /\ UNCHANGED worker
        /\ table'[j] = table[j] \/ table'[j].status = "queued"
    <3>1. ASSUME NEW k \in JobIds, SubmitCreate(h, k)
          PROVE  /\ Others /\ call[h].step = "idle" /\ call'[h].step = "enqueue"
                 /\ table'[j] = table[j] \/ table'[j].status = "queued"
      BY <1>0, <3>1 DEF SubmitCreate, Begin, Idle, JobToEntity, NewJob
    <3>2. ASSUME SubmitEnqueue(h)
          PROVE  /\ Others /\ call[h].step = "enqueue" /\ call'[h].step = "idle"
                 /\ table'[j] = table[j]
      BY <1>0, <3>2 DEF SubmitEnqueue, At, Finish, Idle
    <3> QED
      BY <1>1, <3>1, <3>2 DEF PostJob, workerVars
  <2> QED
    BY <1>K, <2>1, NotDropped DEF Awaited
<1>2. ASSUME ClaimDelete(h) \/ ClaimAccepted(h), UNCHANGED workerVars PROVE ~Dropped(j)'
  <2>1. /\ Others /\ call[h].step \in {"delete", "load"}
        /\ call'[h].step \in {"load", "record"} /\ call'[h].job_id = i
        /\ UNCHANGED <<worker, table>>
    BY <1>0, <1>2 DEF ClaimDelete, ClaimAccepted, ClaimLoad, At, Calls, workerVars
  <2> QED
    BY <1>K, <2>1, NotDropped DEF Awaited
<1>3. ASSUME ReportSave(h), UNCHANGED workerVars PROVE ~Dropped(j)'
  <2>1. i \in JobIds /\ call[h].job.status \in Outcomes
    BY <1>0, <1>3 DEF ReportSave, At, CallShape
  <2>2. /\ Others /\ call[h].step = "save" /\ call'[h].step = "notify"
        /\ UNCHANGED worker
        /\ j # i => table'[j] = table[j]
        /\ j = i => table'[j].status # "processing"
    BY <1>0, <1>3, <2>1 DEF ReportSave, At, Calls, Update, JobToEntity, Outcomes, workerVars
  <2> QED
    BY <1>K, <2>2, NotDropped DEF Awaited
<1>4. ASSUME ClaimDeleteRejected(h) \/ ClaimRefused(h) \/ ReportNotify(h),
             \E code : Reply(h, code)
      PROVE  ~Dropped(j)'
  <2>1. /\ Others /\ call[h].step \in {"delete", "load", "notify"} /\ call'[h].step = "idle"
        /\ \A w \in WorkerIds : worker[w].via # h => worker'[w] = worker[w]
        /\ table' = table
    BY <1>0, <1>4 DEF ClaimDeleteRejected, ClaimRefused, ClaimLoad, ReportNotify, At, Finish,
                      Idle, Reply
  <2> QED
    BY <1>K, <2>1, NotDropped DEF Awaited
<1>5. ASSUME ClaimRecord(h), Reply(h, 200) PROVE ~Dropped(j)'
  <2>1. /\ Others /\ call[h].step = "record" /\ call'[h].step = "idle"
        /\ \A w \in WorkerIds :
              worker'[w] = IF worker[w].via = h THEN After(worker[w], 200, i) ELSE worker[w]
        /\ i \in JobIds
        /\ j # i => table'[j] = table[j]
    BY <1>0, <1>5 DEF ClaimRecord, At, Finish, Idle, Reply, Update, CallShape
  <2>2. CASE j # i
    BY <1>K, <2>1, <2>2, NotDropped DEF Awaited
  <2>3. CASE j = i
    <3>1. Awaited(h)
      BY <2>1, <2>3 DEF Dropped, Unawaited
    <3>2. PICK w \in WorkerIds : worker[w].mode = "claiming" /\ worker[w].via = h
      BY <3>1 DEF Awaited
    <3>3. call[h].worker_id = w /\ table'[j].worker_id = w
      BY <1>W, <1>5, <2>3, <3>2, RowWriterOwns DEF SystemInv
    <3>4. Kept(w, j)'
      BY <2>1, <2>3, <3>2, <3>3 DEF After, Running, Kept
    <3> QED
      BY <2>1, <3>4, NotDropped DEF Awaited
  <2> QED
    BY <2>2, <2>3
<1> QED
  BY <1>1, <1>2, <1>3, <1>4, <1>5 DEF HandlerWorks

LEMMA WorkersDropNothing ==
    ASSUME SystemInv, WorkersHaveNames, NEW w \in WorkerIds,
           \/ \E h \in Handlers : PostClaim(w, h) \/ PostReport(w, h)
           \/ ReportRefused(w)
           \/ LoseAnswer(w) /\ worker[w].mode = "reporting"
    PROVE  DroppedJobs' \subseteq DroppedJobs
<1>0. /\ call \in [Handlers -> Calls]
      /\ worker \in [WorkerIds -> Workers]
      /\ \A v \in WorkerIds : Attended(v)
  BY DEF SystemInv, JobInv, ServiceInv, ServiceTypeOK, WorkerInv, WorkerTypeOK
<1> SUFFICES ASSUME NEW j \in JobIds, ~Dropped(j) PROVE ~Dropped(j)'
  BY DEF DroppedJobs
<1>1. ASSUME NEW h \in Handlers, PostClaim(w, h) PROVE ~Dropped(j)'
  <2>1. /\ \A g \in Handlers : g # h => call'[g] = call[g]
        /\ call[h].step = "idle"
        /\ worker[w].mode = "polling"
        /\ worker'[w].mode = "claiming" /\ worker'[w].via = h
        /\ \A v \in WorkerIds : v # w => worker'[v] = worker[v]
        /\ UNCHANGED table
    <3>1. /\ worker[w] = Polling
          /\ worker' = [worker EXCEPT ![w] =
                            [mode |-> "claiming", job_id |-> None, via |-> h]]
          /\ call[h] = Idle /\ UNCHANGED table
          /\ \E c : call' = [call EXCEPT ![h] = c]
      BY <1>1 DEF PostClaim, ClaimReceive, Begin
    <3> QED
      BY <1>0, <3>1 DEF Idle, Polling
  <2>2. \A v \in WorkerIds : Kept(v, j) => Kept(v, j)'
    BY <1>0, <2>1 DEF Kept, Attended, Waiting
  <2> QED
    BY <2>1, <2>2, NotDropped DEF Awaited
<1>2. ASSUME NEW h \in Handlers, PostReport(w, h) PROVE ~Dropped(j)'
  <2>1. /\ \A g \in Handlers : g # h => call'[g] = call[g]
        /\ call[h].step = "idle" /\ call'[h].step = "save"
        /\ worker[w].mode = "running" /\ worker'[w].via = h
        /\ worker'[w].mode = "reporting" /\ worker'[w].job_id = worker[w].job_id
        /\ \A v \in WorkerIds : v # w => worker'[v] = worker[v]
        /\ UNCHANGED table
    <3>1. /\ worker[w].mode = "running"
          /\ worker' = [worker EXCEPT ![w].mode = "reporting", ![w].via = h]
          /\ call[h] = Idle /\ UNCHANGED table
          /\ \E c : c.step = "save" /\ call' = [call EXCEPT ![h] = c]
      BY <1>2 DEF PostReport, CompleteLoad, FailLoad, BeginReport, Begin
    <3> QED
      BY <1>0, <3>1 DEF Idle, Workers
  <2>2. \A v \in WorkerIds : Kept(v, j) => Kept(v, j)'
    BY <1>0, <2>1 DEF Kept, Attended, Waiting
  <2> QED
    BY <2>1, <2>2, NotDropped DEF Awaited
<1>3. ASSUME ReportRefused(w) PROVE ~Dropped(j)'
  <2>1. /\ UNCHANGED <<call, table>>
        /\ worker[w].mode = "running" /\ worker'[w].mode = "polling"
        /\ \A v \in WorkerIds : v # w => worker'[v] = worker[v]
    BY <1>0, <1>3 DEF ReportRefused, Polling, allVars, serviceVars
  <2>2. Kept(w, j) => table'[j].status # "processing"
    BY <1>3, <2>1, RefusedIsOver DEF Kept
  <2>3. \A v \in WorkerIds : v # w /\ Kept(v, j) => Kept(v, j)'
    BY <2>1 DEF Kept
  <2> QED
    BY <2>1, <2>2, <2>3, NotDropped DEF Awaited
<1>4. ASSUME LoseAnswer(w), worker[w].mode = "reporting" PROVE ~Dropped(j)'
  <2>1. /\ UNCHANGED <<call, table>>
        /\ worker'[w].mode = "running" /\ worker'[w].job_id = worker[w].job_id
        /\ \A v \in WorkerIds : v # w => worker'[v] = worker[v]
    BY <1>0, <1>4 DEF LoseAnswer, Running, allVars, serviceVars
  <2>2. \A v \in WorkerIds : Kept(v, j) => Kept(v, j)'
    BY <2>1 DEF Kept
  <2> QED
    BY <1>4, <2>1, <2>2, NotDropped DEF Awaited
<1> QED
  BY <1>1, <1>2, <1>3, <1>4

\* A handler that stops drops at most its own job, and so does a worker that
\* restarts or gives up waiting for a claim.
LEMMA StopDropsOne ==
    ASSUME SystemInv, NEW h \in Handlers, HandlerStops(h)
    PROVE  DroppedJobs' \subseteq DroppedJobs \cup {call[h].job_id}
<1>0. /\ call \in [Handlers -> Calls]
      /\ worker \in [WorkerIds -> Workers]
      /\ \A w \in WorkerIds : Attended(w)
  BY DEF SystemInv, JobInv, ServiceInv, ServiceTypeOK, WorkerInv, WorkerTypeOK
<1> SUFFICES ASSUME NEW j \in JobIds, ~Dropped(j), j # call[h].job_id PROVE ~Dropped(j)'
  BY DEF DroppedJobs
<1>1. /\ \A g \in Handlers : g # h => call'[g] = call[g]
      /\ call'[h].step = "idle"
      /\ \A w \in WorkerIds : worker[w].via # h => worker'[w] = worker[w]
      /\ UNCHANGED table
  BY <1>0 DEF HandlerStops, Abort, Finish, Idle, Reply
<1>2. \A w \in WorkerIds : Kept(w, j) => worker[w].via # h
  BY <1>0, NoneIsNotAHandler DEF Attended, Kept, HasJob, Waiting
<1>3. \A w \in WorkerIds : Kept(w, j) => Kept(w, j)'
  BY <1>0, <1>1, <1>2 DEF Kept, Attended, Waiting
<1> QED
  BY <1>1, <1>3, NotDropped DEF Awaited

LEMMA MishapDropsOne ==
    ASSUME SystemInv, NEW w \in WorkerIds,
           Crash(w) \/ (LoseAnswer(w) /\ worker[w].mode = "claiming")
    PROVE  \E i : DroppedJobs' \subseteq DroppedJobs \cup {i}
<1>0. worker \in [WorkerIds -> Workers]
  BY DEF SystemInv, WorkerInv, WorkerTypeOK
<1> DEFINE i == IF worker[w].mode = "claiming" THEN call[worker[w].via].job_id
                                               ELSE worker[w].job_id
<1>1. /\ UNCHANGED <<call, table>>
      /\ worker'[w].mode = "polling"
      /\ \A v \in WorkerIds : v # w => worker'[v] = worker[v]
  BY <1>0 DEF Crash, LoseAnswer, Polling, allVars, serviceVars
<1>2. ASSUME NEW j \in JobIds, ~Dropped(j), j # i PROVE ~Dropped(j)'
  <2>1. \A v \in WorkerIds : Kept(v, j) => Kept(v, j)'
    BY <1>1, <1>2 DEF Kept
  <2> QED
    BY <1>1, <1>2, <2>1, NotDropped DEF Awaited
<1>3. DroppedJobs' \subseteq DroppedJobs \cup {i}
  BY <1>2 DEF DroppedJobs
<1> QED
  BY <1>3

\* The handlers' and the workers' ordinary steps spend no mishap that loses
\* anything.
LEMMA NextLossesPaid ==
    ASSUME IsFiniteSet(JobIds), WorkersHaveNames, SystemInv, LossesPaid, [WorkersNext]_systemVars
    PROVE  LossesPaid'
<1> DEFINE S == DoomedJobs
           Free == S' \subseteq S /\ Spent' = Spent /\ MishapsSpent' = MishapsSpent
           Paid == /\ Spent' + MishapsSpent' = Spent + MishapsSpent + 1
                   /\ \E i : S' \subseteq S \cup {i}
<1>0. /\ ServiceInv /\ CallsPrepared
      /\ mishaps \in [Mishaps -> Nat] /\ MaxMishaps \in [Mishaps -> Nat]
  BY MaxMishapsType DEF SystemInv, JobInv, WorkerInv, WorkerTypeOK
<1>1. Spent \in Int /\ MishapsSpent \in Int
  BY <1>0, MaxFaultsType DEF Spent, FaultsSpent, FaultKinds, ServiceInv, ServiceTypeOK, TypeOK,
     MishapsSpent, Mishaps
<1>2. IsFiniteSet(S) /\ IsFiniteSet(S')
  <2>1. S \in SUBSET JobIds /\ S' \in SUBSET JobIds
    BY DEF DoomedJobs, LostJobs, DroppedJobs
  <2> QED
    BY <2>1, FS_Subset
\* What does not touch the workers, or the service.
<1>K. ASSUME UNCHANGED mishaps PROVE MishapsSpent' = MishapsSpent
  BY <1>K DEF MishapsSpent
<1>L. ASSUME UNCHANGED allVars PROVE LostJobs' = LostJobs /\ Spent' = Spent
  BY <1>L DEF allVars, queueVars, serviceVars, LostJobs, Lost, Stranded, Silent, InHands, Spent,
              FaultsSpent
<1>D. ASSUME UNCHANGED <<serviceVars, worker>> PROVE DroppedJobs' = DroppedJobs
  BY <1>D DEF serviceVars, DroppedJobs, Dropped, Kept, Unawaited, Awaited
<1>3. ASSUME NEW h \in Handlers, PostJob(h) \/ HandlerWorks(h) PROVE Free
  <2>1. Request(h) \/ HandlerStep(h)
    BY <1>3 DEF PostJob, HandlerWorks, Request, HandlerStep, ClaimAccepted, ClaimRefused
  <2>2. UNCHANGED mishaps
    BY <1>3 DEF PostJob, HandlerWorks, Reply, workerVars
  <2> QED
    BY <1>0, <1>3, <1>K, <2>1, <2>2, NothingElseLoses, NothingElseSpends, HandlersDropNothing
       DEF DoomedJobs
<1>4. ASSUME NEW w \in WorkerIds, NEW h \in Handlers, PostClaim(w, h) \/ PostReport(w, h)
      PROVE  Free
  <2>1. Request(h)
    <3>1. PostReport(w, h) => worker[w].job_id \in JobIds
      BY DEF PostReport, SystemInv, WorkerInv, Attended, HasJob
    <3> QED
      BY <1>4, <3>1 DEF PostClaim, PostReport, Request
  <2>2. UNCHANGED mishaps
    BY <1>4 DEF PostClaim, PostReport
  <2> QED
    BY <1>0, <1>4, <1>K, <2>1, <2>2, NothingElseLoses, NothingElseSpends, WorkersDropNothing
       DEF DoomedJobs
<1>5. ASSUME NEW w \in WorkerIds,
             ReportRefused(w) \/ (LoseAnswer(w) /\ worker[w].mode = "reporting")
      PROVE  Free
  <2>1. UNCHANGED allVars
    BY <1>5 DEF ReportRefused, LoseAnswer
  <2>2. mishaps' = mishaps \/ mishaps' = [mishaps EXCEPT !["lost_report"] = @ - 1]
    BY <1>5 DEF ReportRefused, LoseAnswer, Befalls
  <2>3. MishapsSpent' = MishapsSpent
    BY <1>0, <2>2 DEF MishapsSpent, Mishaps
  <2> QED
    BY <1>5, <1>L, <2>1, <2>3, WorkersDropNothing DEF DoomedJobs
<1>6. ASSUME NEW w \in WorkerIds,
             Crash(w) \/ (LoseAnswer(w) /\ worker[w].mode = "claiming")
      PROVE  Paid
  <2>1. UNCHANGED allVars
    BY <1>6 DEF Crash, LoseAnswer
  <2>2. \E kind \in {"crash", "lost_claim"} : Befalls(kind)
    BY <1>6 DEF Crash, LoseAnswer
  <2>3. MishapsSpent' = MishapsSpent + 1
    BY <1>0, <2>2 DEF MishapsSpent, Mishaps, Befalls
  <2>4. Spent' + MishapsSpent' = Spent + MishapsSpent + 1
    BY <1>1, <1>L, <2>1, <2>3
  <2>5. \E i : S' \subseteq S \cup {i}
    BY <1>6, <1>L, <2>1, MishapDropsOne DEF DoomedJobs
  <2> QED
    BY <2>4, <2>5
<1>7. ASSUME NEW h \in Handlers, HandlerStops(h) PROVE Paid
  <2>1. Abort(h) /\ UNCHANGED mishaps
    BY <1>7 DEF HandlerStops, Reply
  <2>2. Spent' = Spent + 1 /\ MishapsSpent' = MishapsSpent
    BY <1>0, <1>K, <2>1, StopLosesOne
  <2>3. S' \subseteq S \cup {call[h].job_id}
    BY <1>0, <1>7, <2>1, StopLosesOne, StopDropsOne DEF DoomedJobs
  <2> QED
    BY <1>1, <2>2, <2>3
<1>8. ASSUME QueueService, UNCHANGED workerVars PROVE Free \/ Paid
  <2>1. DroppedJobs' = DroppedJobs /\ MishapsSpent' = MishapsSpent
    BY <1>8, <1>D, <1>K DEF QueueService, workerVars
  <2>2. \/ LostJobs' \subseteq LostJobs /\ Spent' = Spent
        \/ Spent' = Spent + 1 /\ \E i : LostJobs' \subseteq LostJobs \cup {i}
    BY <1>0, <1>8, ClockLosesOne
  <2>3. CASE LostJobs' \subseteq LostJobs /\ Spent' = Spent
    BY <2>1, <2>3 DEF DoomedJobs
  <2>4. ASSUME NEW i, LostJobs' \subseteq LostJobs \cup {i}, Spent' = Spent + 1
        PROVE  Paid
    <3>1. S' \subseteq S \cup {i}
      BY <2>1, <2>4 DEF DoomedJobs
    <3> QED
      BY <1>1, <2>1, <2>4, <3>1
  <2> HIDE DEF Paid
  <2> QED
    BY <2>2, <2>3, <2>4
<1>9. ASSUME UNCHANGED systemVars PROVE Free
  BY <1>9, <1>D, <1>K, <1>L DEF systemVars, workerVars, allVars, DoomedJobs
<1>10. Free \/ Paid
  <2> HIDE DEF Free, Paid
  <2>1. \A w \in WorkerIds : LoseAnswer(w) => worker[w].mode \in {"claiming", "reporting"}
    BY DEF LoseAnswer, Waiting
  <2> QED
    BY <1>3, <1>4, <1>5, <1>6, <1>7, <1>8, <1>9, <2>1 DEF WorkersNext
<1>11. Spent' + MishapsSpent' \in Int
  BY <1>1, <1>10
<1>12. \/ S' \subseteq S /\ Spent' + MishapsSpent' = Spent + MishapsSpent
       \/ Paid
  BY <1>10
<1>13. Cardinality(S') <= Spent' + MishapsSpent'
  <2> DEFINE p == Spent + MishapsSpent
             q == Spent' + MishapsSpent'
  <2>1. p \in Int /\ q \in Int /\ Cardinality(S) <= p
    BY <1>1, <1>11 DEF LossesPaid
  <2>2. \/ S' \subseteq S /\ q = p
        \/ q = p + 1 /\ \E i : S' \subseteq S \cup {i}
    BY <1>12
  <2>3. Cardinality(S') <= q
    <3> HIDE DEF p, q, S
    <3> QED
      BY <1>2, <2>1, <2>2, PaidFor
  <2> QED
    BY <2>3
<1> QED
  BY <1>13 DEF LossesPaid

LEMMA InitLossesPaid == WorkersInit => LossesPaid
<1> SUFFICES ASSUME WorkersInit PROVE LossesPaid
  OBVIOUS
<1>1. DoomedJobs = {}
  BY DEF WorkersInit, ServiceInit, Idle, NoEntity, Outcomes, DoomedJobs, LostJobs, Lost, Stranded,
         Silent, DroppedJobs, Dropped, Unawaited
<1>2. Spent = 0 /\ MishapsSpent = 0
  BY MaxFaultsType, MaxMishapsType
     DEF WorkersInit, ServiceInit, Init, Spent, FaultsSpent, FaultKinds, MishapsSpent, Mishaps
<1> QED
  BY <1>1, <1>2, FS_EmptySet DEF LossesPaid

\* Every job that never ends, or ends untold, is paid for by a stop, an expired
\* message, a restarted worker or a lost answer to a claim of its own, with any
\* number of workers that retry, of lost answers to their reports and of jobs that
\* two workers claimed because a send was repeated.
THEOREM LossesHaveCauses ==
    ASSUME IsFiniteSet(JobIds), WorkersHaveNames
    PROVE  WorkersSpec => []EveryLossHasACause
<1>1. WorkersInit => SystemInv /\ LossesPaid
  BY InitSystemInv, InitLossesPaid
<1>2. SystemInv /\ [WorkersNext]_systemVars => SystemInv'
  BY NextSystemInv
<1>3. SystemInv /\ LossesPaid /\ [WorkersNext]_systemVars => LossesPaid'
  BY NextLossesPaid
<1>4. SystemInv /\ LossesPaid => EveryLossHasACause
  <2> DEFINE Losses == {j \in JobIds : Stranded(j) \/ Silent(j) \/ Forgotten(j)}
  <2> SUFFICES ASSUME SystemInv, LossesPaid PROVE EveryLossHasACause
    OBVIOUS
  <2>0. ASSUME NEW j \in JobIds, Forgotten(j) PROVE Dropped(j)
    <3>1. ASSUME NEW w \in WorkerIds, Kept(w, j) PROVE FALSE
      BY <2>0, <3>1 DEF Forgotten, Kept, HasJob
    <3> QED
      BY <2>0, <3>1 DEF Dropped, Forgotten
  <2>1. Losses \in SUBSET DoomedJobs /\ DoomedJobs \in SUBSET JobIds
    BY <2>0 DEF DoomedJobs, LostJobs, Lost, DroppedJobs
  <2>2. /\ IsFiniteSet(Losses) /\ IsFiniteSet(DoomedJobs)
        /\ Cardinality(Losses) <= Cardinality(DoomedJobs)
    BY <2>1, FS_Subset
  <2>3. Cardinality(Losses) \in Nat /\ Cardinality(DoomedJobs) \in Nat
    BY <2>2, FS_CardinalityType
  <2>4. /\ MaxFaults \in [FaultKinds -> Nat] /\ budget \in [FaultKinds -> Nat]
        /\ MaxMishaps \in [Mishaps -> Nat] /\ mishaps \in [Mishaps -> Nat]
    BY MaxFaultsType, MaxMishapsType
       DEF SystemInv, JobInv, ServiceInv, ServiceTypeOK, TypeOK, WorkerInv, WorkerTypeOK
  <2>5. Cardinality(DoomedJobs) <= Spent + MishapsSpent
    BY DEF LossesPaid
  <2> HIDE DEF Losses
  <2>6. Cardinality(Losses) <= FaultsSpent("abort") + FaultsSpent("expire")
                               + (MaxMishaps["crash"] - mishaps["crash"])
                               + (MaxMishaps["lost_claim"] - mishaps["lost_claim"])
    BY <2>2, <2>3, <2>4, <2>5 DEF Spent, FaultsSpent, FaultKinds, MishapsSpent, Mishaps
  <2> QED
    BY <2>6 DEF Losses, EveryLossHasACause
<1> QED
  BY <1>1, <1>2, <1>3, <1>4, PTL DEF WorkersSpec
====
