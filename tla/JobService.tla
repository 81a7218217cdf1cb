---- MODULE JobService ----
(* JobService (services/job_service.py) over its Azure adapters.  A request  *)
(* handler runs one operation; every call it makes to the table or to the    *)
(* queue is a step of its own, between which other handlers take steps and   *)
(* after which the handler may stop.                                         *)
(*                                                                           *)
(* A request that is refused before it has changed anything (an empty queue, *)
(* an unknown job, a wrong worker, a forbidden transition: None, 404 or 409) *)
(* leaves every variable as it is and is a stuttering step here.             *)
EXTENDS StorageQueue, SimulationJobs, Sequences, FiniteSets

CONSTANT OverlappingReports  \* may a worker report on a job again while an
                             \* earlier report of it is still being handled?

ASSUME OverlappingReportsType == OverlappingReports \in BOOLEAN

VARIABLES table,    \* table[j]: the entity of job j
          call,     \* call[h]: where the operation handler h runs has got to
          notices   \* notices[j]: the outcomes the notifier was called with

serviceVars == <<table, call, notices>>
allVars == <<queueVars, budget, serviceVars>>

Outcomes == {"completed", "failed"}

Steps == {"idle",      \* no request
          "enqueue",   \* submit_job has created the row
          "delete",    \* try_claim has received a message
          "load",      \* try_claim has returned the job id to claim_job
          "record",    \* claim_job has loaded the job and moved it on
          "save",      \* complete_job or fail_job has done so
          "notify"}    \* ... and has updated the row

Calls == [step : Steps,
          job_id : JobIds \cup {None},
          worker_id : WorkerIds \cup {None},
          job : Jobs \cup {None}]

Idle == [step |-> "idle", job_id |-> None, worker_id |-> None, job |-> None]

ServiceTypeOK ==
    /\ TypeOK
    /\ table \in [JobIds -> TableEntities \cup {NoEntity}]
    /\ call \in [Handlers -> Calls]
    /\ notices \in [JobIds -> Seq(Outcomes)]

ServiceInit ==
    /\ Init
    /\ table = [j \in JobIds |-> NoEntity]
    /\ call = [h \in Handlers |-> Idle]
    /\ notices = [j \in JobIds |-> << >>]

\* get: the row as a job; without a row, None and then JobNotFoundError.
Exists(j) == table[j] # NoEntity

Get(j) == EntityToJob(table[j])

Begin(h, newCall) == /\ call[h] = Idle
                     /\ call' = [call EXCEPT ![h] = newCall]

At(h, step) == call[h].step = step

Finish(h) == call' = [call EXCEPT ![h] = Idle]

\* Faulty variant: mode="merge", and empty columns are not sent.
MergeUpdate(h) ==
    LET j == call[h].job_id
        entity == JobToEntity(call[h].job)
    IN  table' = [table EXCEPT ![j] =
                    [c \in DOMAIN @ |-> IF entity[c] = Blank THEN @[c] ELSE entity[c]]]

\* update: update_entity with mode="replace" and no etag, whatever is there.
Update(h) ==
    table' = [table EXCEPT ![call[h].job_id] = JobToEntity(call[h].job)]

----
\* Faulty variants: the message is sent before the row is created, or never.
SubmitSendFirst(h, j) ==
    /\ ~Exists(j)
    /\ Enqueue(j)
    /\ Begin(h, [Idle EXCEPT !.step = "enqueue", !.job_id = j])
    /\ UNCHANGED <<table, notices>>

SubmitWithoutMessage(h, j) ==
    /\ ~Exists(j)
    /\ table' = [table EXCEPT ![j] = JobToEntity(NewJob)]
    /\ UNCHANGED <<queueVars, budget, call, notices>>

\* submit_job: create, then enqueue.
SubmitCreate(h, j) ==
    /\ ~Exists(j)
    /\ table' = [table EXCEPT ![j] = JobToEntity(NewJob)]
    /\ Begin(h, [Idle EXCEPT !.step = "enqueue", !.job_id = j])
    /\ UNCHANGED <<queueVars, budget, notices>>

SubmitEnqueue(h) ==
    /\ At(h, "enqueue")
    /\ Enqueue(call[h].job_id) \/ EnqueueResent(call[h].job_id)
    /\ Finish(h)
    /\ UNCHANGED <<table, notices>>

----
\* claim_job: try_claim (receive, delete), get, transition, update.
ClaimReceive(h, w) ==
    \E m \in Messages :
        /\ Receive(h, m)
        /\ Begin(h, [Idle EXCEPT !.step = "delete", !.job_id = m[1], !.worker_id = w])
        /\ UNCHANGED <<table, notices>>

ClaimDelete(h) ==
    /\ At(h, "delete")
    /\ Delete(h)
    /\ call' = [call EXCEPT ![h].step = "load"]
    /\ UNCHANGED <<table, notices>>

ClaimDeleteRejected(h) ==
    /\ At(h, "delete")
    /\ DeleteRejected(h)
    /\ Finish(h)
    /\ UNCHANGED <<table, notices>>

CanClaim(j) == Exists(j) /\ CanTransition(Get(j), "processing")

\* The job of a second message is not queued any more: InvalidTransitionError.
ClaimLoad(h) ==
    /\ At(h, "load")
    /\ \/ /\ CanClaim(call[h].job_id)
          /\ call' = [call EXCEPT ![h].step = "record",
                                  ![h].job = AsClaimed(Get(call[h].job_id), call[h].worker_id)]
       \/ ~CanClaim(call[h].job_id) /\ Finish(h)
    /\ UNCHANGED <<queueVars, budget, table, notices>>

ClaimAccepted(h) == ClaimLoad(h) /\ CanClaim(call[h].job_id)

ClaimRefused(h) == ClaimLoad(h) /\ ~CanClaim(call[h].job_id)

ClaimRecord(h) ==
    /\ At(h, "record")
    /\ Update(h)
    /\ Finish(h)
    /\ UNCHANGED <<queueVars, budget, notices>>

----
\* complete_job and fail_job: get, ensure_claimed_by, transition; update; notify.
BeingReported(j) ==
    \E h \in Handlers : call[h].job_id = j /\ call[h].step \in {"save", "notify"}

MayReport(j, w, target) ==
    /\ Exists(j)
    /\ EnsureClaimedBy(Get(j), w)
    /\ CanTransition(Get(j), target)
    /\ OverlappingReports \/ ~BeingReported(j)

BeginReport(h, j, w, job) ==
    /\ Begin(h, [step |-> "save", job_id |-> j, worker_id |-> w, job |-> job])
    /\ UNCHANGED <<queueVars, budget, table, notices>>

CompleteLoad(h, j, w, reference) ==
    /\ MayReport(j, w, "completed")
    /\ BeginReport(h, j, w, AsCompleted(Get(j), reference))

FailLoad(h, j, w, message) ==
    /\ MayReport(j, w, "failed")
    /\ BeginReport(h, j, w, AsFailed(Get(j), message))

\* Faulty variant: the notifier is not called.
SaveWithoutNotice(h) ==
    /\ At(h, "save")
    /\ Update(h)
    /\ Finish(h)
    /\ UNCHANGED <<queueVars, budget, notices>>

ReportSave(h) ==
    /\ At(h, "save")
    /\ Update(h)
    /\ call' = [call EXCEPT ![h].step = "notify"]
    /\ UNCHANGED <<queueVars, budget, notices>>

\* The handler's own copy of the job, not the row, is what the user is told.
ReportNotify(h) ==
    /\ At(h, "notify")
    /\ notices' = [notices EXCEPT ![call[h].job_id] = Append(@, call[h].job.status)]
    /\ Finish(h)
    /\ UNCHANGED <<queueVars, budget, table>>

----
\* A handler stops before its next call takes effect: the process crashes, the
\* host's execution timeout ends it, or the storage service or the result store
\* raises.  A message it has received reappears.
Abort(h) ==
    /\ ~At(h, "idle")
    /\ Abandon(h)
    /\ Finish(h)
    /\ UNCHANGED <<table, notices>>

QueueService ==
    /\ \E m \in Messages : Reappear(m) \/ ReappearOverdue(m) \/ Expire(m)
    /\ UNCHANGED serviceVars

HandlerStep(h) ==
    \/ SubmitEnqueue(h)
    \/ ClaimDelete(h) \/ ClaimDeleteRejected(h)
    \/ ClaimLoad(h) \/ ClaimRecord(h)
    \/ ReportSave(h) \/ ReportNotify(h)

Request(h) ==
    \/ \E j \in JobIds : SubmitCreate(h, j)
    \/ \E w \in WorkerIds : ClaimReceive(h, w)
    \/ \E j \in JobIds, w \in WorkerIds :
        \/ \E reference \in References : CompleteLoad(h, j, w, reference)
        \/ \E message \in ErrorMessages : FailLoad(h, j, w, message)

ServiceNext ==
    \/ \E h \in Handlers : Request(h) \/ HandlerStep(h) \/ Abort(h)
    \/ QueueService

ServiceSpec == ServiceInit /\ [][ServiceNext]_allVars

\* Workers keep asking for jobs, a handler that was not stopped takes its next
\* step, and the visibility timeout of an abandoned message ends.
ServiceFairness ==
    /\ \A h \in Handlers :
        /\ WF_allVars(HandlerStep(h))
        /\ WF_allVars(\E w \in WorkerIds : ClaimReceive(h, w))
    /\ \A m \in Messages : WF_allVars(Reappear(m) /\ UNCHANGED serviceVars)

FairServiceSpec == ServiceSpec /\ ServiceFairness

----
\* The branch of claim_job marked "pragma: no cover" is dead: a handed-out job
\* id always has a row, because submit_job creates the row before it enqueues.
ClaimFindsJob ==
    /\ \A m \in queued : Exists(m[1])
    /\ \A h \in Handlers : At(h, "load") => Exists(call[h].job_id)

\* Whatever handlers race on a row, it is the row of one consistent job: the
\* replaced columns never mix two reports or a report with an unclaimed job.
RowCoherent ==
    \A j \in JobIds :
        LET row == table[j]
        IN  /\ row.worker_id # Blank <=> row.status \notin {"absent", "queued"}
            /\ row.result_reference # Blank <=> row.status = "completed"
            /\ row.error_message # Blank <=> row.status = "failed"

\* Both messages of a repeated send have been taken from the queue: the job was
\* given to two handlers of claim_job, and may be claimed twice.
HandedOutTwice(j) == \A copy \in {"sent", "resent"} : returned[<<j, copy>>] > 0

\* claim_job updates a row it read earlier: unless the job was handed out twice,
\* nobody has moved it on in between, so a claim never overwrites another one.
ClaimStillCurrent ==
    \A h \in Handlers :
        At(h, "record") /\ ~HandedOutTwice(call[h].job_id)
            => table[call[h].job_id].status = "queued"

\* A report that is about to be saved comes from the worker the row names, also
\* when reports overlap (README, Security: only the worker that claimed a job
\* can complete or fail it).
OnlyClaimantReports ==
    \A h \in Handlers :
        At(h, "save") /\ ~HandedOutTwice(call[h].job_id)
            => call[h].worker_id = table[call[h].job_id].worker_id

\* What one fault can lose: the message of a job whose row still says queued,
\* or the e-mail about a finished one.
InHands(j, steps) == \E h \in Handlers : call[h].job_id = j /\ call[h].step \in steps

Stranded(j) == /\ table[j].status = "queued"
               /\ \A m \in queued : m[1] # j
               /\ ~InHands(j, {"enqueue", "load", "record"})

Silent(j) == /\ table[j].status \in Outcomes
             /\ notices[j] = << >>
             /\ ~InHands(j, {"notify"})

FaultsSpent(kind) == MaxFaults[kind] - budget[kind]

\* Every job that is lost on the way (queued for ever, or finished without an
\* e-mail) is the work of a fault of its own; overdue timeouts and repeated
\* sends lose nothing.
OneFaultOneLoss ==
    Cardinality({j \in JobIds : Stranded(j) \/ Silent(j)})
        <= FaultsSpent("abort") + FaultsSpent("expire")

\* Once recorded, a claim is never taken over by another worker, unless the job
\* was handed out twice.
OwnerIsStable ==
    [][\A j \in JobIds : table[j].worker_id # Blank /\ ~HandedOutTwice(j)
                            => table'[j].worker_id = table[j].worker_id]_allVars

\* transition_status is asked about a copy of the row, and the row is replaced
\* later, whatever it has become (no etag): what is written is nevertheless a
\* transition of what is there, while no worker reports on a job it is already
\* reporting on, unless the job was handed out twice.
WritesAreAllowed ==
    [][\A j \in JobIds :
            Exists(j) /\ ~HandedOutTwice(j) /\ table'[j] # table[j]
                => CanTransition(Get(j), table'[j].status)]_allVars

\* domain/jobs.py: "`completed` and `failed` are terminal."
TerminalIsFinal ==
    [][\A j \in JobIds : table[j].status \in Outcomes
                            => table'[j].status = table[j].status]_allVars

\* storage_queue.py: the message "is only deleted once the caller has durably
\* recorded the claim".
DeletedOnceRecorded ==
    \A j \in JobIds : returned[<<j, "sent">>] > 0 => table[j].status # "queued"

\* The workers whose complete_job or fail_job on j has passed ensure_claimed_by,
\* and has neither returned nor been stopped.
Reporters(j) ==
    {call[h].worker_id :
        h \in {g \in Handlers : call[g].job_id = j /\ call[g].step \in {"save", "notify"}}}

\* The job's life as its users see it (see JobLifecycle).
Lifecycle == INSTANCE JobLifecycle WITH
                 Nobody    <- Blank,
                 status    <- [j \in JobIds |-> table[j].status],
                 owner     <- [j \in JobIds |-> table[j].worker_id],
                 reporting <- [j \in JobIds |-> Reporters(j)]

\* While no worker reports on a job it is already reporting on, and no send is
\* repeated, every run of the service is a run of the lifecycle, through any
\* number of crashes, timeouts and expired messages: in particular it is by a
\* report of the worker that claimed it, and of nobody else, that a job ends.
ImplementsLifecycle == Lifecycle!Spec
====
