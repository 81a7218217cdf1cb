---- MODULE SimulationJobs ----
(* The job and its state machine (domain/jobs.py), and the table entity a    *)
(* job is stored as (adapters/azure/table_repository.py).  Only the fields   *)
(* the services read back to decide something are kept.                      *)
EXTENDS PythonNone

CONSTANTS Blank,          \* the empty string, a table column's "no value"
          WorkerIds,      \* worker_id strings that workers send
          References,     \* result_reference strings that workers send
          ErrorMessages   \* error_message strings that workers send

ASSUME NoneIsNoString ==
    None \notin WorkerIds \cup References \cup ErrorMessages \cup {Blank}

JobStatus == {"queued", "processing", "completed", "failed"}

\* Faulty variant: a completed job may still be failed.
LateFailureAllowed ==
    [status \in JobStatus |->
        IF status = "queued" THEN {"processing"}
        ELSE IF status = "processing" THEN {"completed", "failed"}
        ELSE IF status = "completed" THEN {"failed"}
        ELSE {}]

\* Faulty variant: a job that was claimed cannot fail.
FailureNotAllowed ==
    [status \in JobStatus |->
        IF status = "queued" THEN {"processing"}
        ELSE IF status = "processing" THEN {"completed"}
        ELSE {}]

ALLOWED_TRANSITIONS ==
    [status \in JobStatus |->
        IF status = "queued" THEN {"processing"}
        ELSE IF status = "processing" THEN {"completed", "failed"}
        ELSE {}]

Jobs == [status : JobStatus,
         worker_id : WorkerIds \cup {None},
         result_reference : References \cup {None},
         error_message : ErrorMessages \cup {None}]

NewJob == [status |-> "queued", worker_id |-> None,
           result_reference |-> None, error_message |-> None]

\* transition_status: the condition under which it does not raise, and the job
\* each of its three callers leaves behind.
CanTransition(job, target) == target \in ALLOWED_TRANSITIONS[job.status]

AsClaimed(job, worker) ==
    [job EXCEPT !.status = "processing", !.worker_id = worker]

AsCompleted(job, reference) ==
    [job EXCEPT !.status = "completed", !.result_reference = reference]

AsFailed(job, message) ==
    [job EXCEPT !.status = "failed", !.error_message = message]

\* Faulty variant: the caller's worker_id is not looked at.
AnyoneMayReport(job, worker) == job.worker_id # None

\* ensure_claimed_by: a job without a worker_id may be reported by anybody.
EnsureClaimedBy(job, worker) == job.worker_id \in {None, worker}

----
Columns(texts) == texts \cup {Blank}

TableEntities == [status : JobStatus,
                  worker_id : Columns(WorkerIds),
                  result_reference : Columns(References),
                  error_message : Columns(ErrorMessages)]

\* What get_entity finds for a RowKey without an entity (ResourceNotFoundError).
NoEntity == [status |-> "absent", worker_id |-> Blank,
             result_reference |-> Blank, error_message |-> Blank]

\* Both directions conflate None with the empty string: `x or ""`, `x or None`.
ToColumn(field) == IF field = None THEN Blank ELSE field

FromColumn(column) == IF column = Blank THEN None ELSE column

\* Faulty variant: None is written to the columns as it is.
JobToRawEntity(job) == job

JobToEntity(job) ==
    [status |-> job.status,
     worker_id |-> ToColumn(job.worker_id),
     result_reference |-> ToColumn(job.result_reference),
     error_message |-> ToColumn(job.error_message)]

EntityToJob(entity) ==
    [status |-> entity.status,
     worker_id |-> FromColumn(entity.worker_id),
     result_reference |-> FromColumn(entity.result_reference),
     error_message |-> FromColumn(entity.error_message)]
====
