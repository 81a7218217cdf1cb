---- MODULE ComputeWorkers ----
(* The compute servers of the README ("How the compute server is expected to *)
(* interact with the API") as the clients of the job service: each polls for *)
(* a job, runs it, and reports it under its own worker_id until the API      *)
(* accepts or refuses the report.  What the API answers is the code's; what  *)
(* a worker does with an answer is outside the repository.                   *)
EXTENDS JobService

CONSTANT MaxMishaps   \* how often each kind of mishap may befall a worker

(* crash        a worker restarts and has forgotten its job                  *)
(* lost_claim   it stops waiting for the answer to a claim                   *)
(* lost_report  it stops waiting for the answer to a report                  *)
Mishaps == {"crash", "lost_claim", "lost_report"}

ASSUME MaxMishapsType == MaxMishaps \in [Mishaps -> Nat]

\* Nothing stops a worker from reporting again when an answer was lost.
ASSUME WorkersMayRetry == OverlappingReports

VARIABLES worker,    \* worker[w]: what the compute server with worker_id w does
          mishaps    \* mishaps[k]: mishaps of kind k that may still happen

workerVars == <<worker, mishaps>>
systemVars == <<allVars, workerVars>>

Modes == {"polling",     \* without a job
          "claiming",    \* waiting for the answer to POST /jobs/claim
          "running",     \* has a job, whose outcome is not reported yet
          "reporting"}   \* waiting for the answer to complete or fail

Workers == [mode : Modes, job_id : JobIds \cup {None}, via : Handlers \cup {None}]

Polling == [mode |-> "polling", job_id |-> None, via |-> None]

Running(j) == [mode |-> "running", job_id |-> j, via |-> None]

WorkersTypeOK ==
    /\ ServiceTypeOK
    /\ worker \in [WorkerIds -> Workers]
    /\ mishaps \in [Mishaps -> Nat]

WorkersInit ==
    /\ ServiceInit
    /\ worker = [w \in WorkerIds |-> Polling]
    /\ mishaps = MaxMishaps

Waiting(w) == worker[w].mode \in {"claiming", "reporting"}

HasJob(w) == worker[w].mode \in {"running", "reporting"}

\* What a worker does with an answer: a report answered 500 is sent again; one
\* that is accepted (200) or refused (404, 409) is not.
After(state, code, j) ==
    IF state.mode = "claiming"
    THEN IF code = 200 THEN Running(j) ELSE Polling
    ELSE IF code = 500 THEN Running(j) ELSE Polling

\* The answer of the request handler h runs reaches whoever still waits for it.
Reply(h, code) ==
    /\ worker' = [w \in WorkerIds |->
                    IF worker[w].via = h THEN After(worker[w], code, call[h].job_id)
                                         ELSE worker[w]]
    /\ UNCHANGED mishaps

Befalls(kind) == /\ mishaps[kind] > 0
                 /\ mishaps' = [mishaps EXCEPT ![kind] = @ - 1]

----
\* POST /jobs: users are not followed any further.
PostJob(h) ==
    /\ \E j \in JobIds : SubmitCreate(h, j)
    /\ UNCHANGED workerVars

\* POST /jobs/claim; without a visible message it is answered 204 at once.
PostClaim(w, h) ==
    /\ worker[w] = Polling
    /\ ClaimReceive(h, w)
    /\ worker' = [worker EXCEPT ![w] = [mode |-> "claiming", job_id |-> None, via |-> h]]
    /\ UNCHANGED mishaps

\* POST /jobs/{job_id}/complete and /fail, by the worker that runs the job.
PostReport(w, h) ==
    /\ worker[w].mode = "running"
    /\ \/ \E reference \in References : CompleteLoad(h, worker[w].job_id, w, reference)
       \/ \E message \in ErrorMessages : FailLoad(h, worker[w].job_id, w, message)
    /\ worker' = [worker EXCEPT ![w].mode = "reporting", ![w].via = h]
    /\ UNCHANGED mishaps

\* ... answered 404 or 409 at once: the service has raised one of its errors.
ReportRefused(w) ==
    /\ worker[w].mode = "running"
    /\ \E target \in Outcomes : ~MayReport(worker[w].job_id, w, target)
    /\ worker' = [worker EXCEPT ![w] = Polling]
    /\ UNCHANGED <<allVars, mishaps>>

\* A handler's next call; its last one is answered, and so is every exception
\* that no route translates.
HandlerWorks(h) ==
    \/ /\ SubmitEnqueue(h) \/ ClaimDelete(h) \/ ClaimAccepted(h) \/ ReportSave(h)
       /\ UNCHANGED workerVars
    \/ (ClaimRecord(h) \/ ReportNotify(h)) /\ Reply(h, 200)
    \/ (ClaimDeleteRejected(h) \/ ClaimRefused(h)) /\ Reply(h, 500)

HandlerStops(h) == Abort(h) /\ Reply(h, 500)

----
\* The worker's HTTP client times out, or the answer is lost; the handler goes
\* on.  A worker that waited for a claim polls again, one that reported retries.
LoseAnswer(w) ==
    /\ Waiting(w)
    /\ \/ worker[w].mode = "claiming" /\ Befalls("lost_claim")
       \/ worker[w].mode = "reporting" /\ Befalls("lost_report")
    /\ worker' = [worker EXCEPT ![w] =
                    IF worker[w].mode = "claiming" THEN Polling ELSE Running(@.job_id)]
    /\ UNCHANGED allVars

Crash(w) ==
    /\ worker[w] # Polling
    /\ Befalls("crash")
    /\ worker' = [worker EXCEPT ![w] = Polling]
    /\ UNCHANGED allVars

WorkersNext ==
    \/ \E h \in Handlers : PostJob(h) \/ HandlerWorks(h) \/ HandlerStops(h)
    \/ \E w \in WorkerIds, h \in Handlers : PostClaim(w, h) \/ PostReport(w, h)
    \/ \E w \in WorkerIds : ReportRefused(w) \/ LoseAnswer(w) \/ Crash(w)
    \/ QueueService /\ UNCHANGED workerVars

WorkersSpec == WorkersInit /\ [][WorkersNext]_systemVars

\* The host runs its handlers, a worker without a job polls, a worker with one
\* finishes and reports it, and the queue's clock goes on.
WorkersFairness ==
    /\ \A h \in Handlers : WF_systemVars(HandlerWorks(h))
    /\ \A w \in WorkerIds :
        /\ WF_systemVars(\E h \in Handlers : PostClaim(w, h))
        /\ WF_systemVars((\E h \in Handlers : PostReport(w, h)) \/ ReportRefused(w))
    /\ \A m \in Messages : WF_systemVars(Reappear(m) /\ UNCHANGED <<serviceVars, workerVars>>)

FairWorkersSpec == WorkersSpec /\ WorkersFairness

----
\* A worker that believes it has a job has claimed it, and is the one the job's
\* row names unless the job was handed out twice, whatever answers were lost and
\* whoever else claims and reports meanwhile (README: claim hands a job to exactly
\* one caller).
RunnersOwnTheirJob ==
    \A w \in WorkerIds : HasJob(w) =>
        LET j == worker[w].job_id
        IN  /\ table[j].status # "queued"
            /\ ~HandedOutTwice(j) => table[j].worker_id = w

\* A refusal (404, 409) of a report never loses a result: the worker's job has
\* ended by an earlier report of its own whose answer it did not get, unless the
\* job was handed out twice and the other worker has overtaken this one.
RefusalMeansReported ==
    [][\A w \in WorkerIds :
        ReportRefused(w) /\ ~HandedOutTwice(worker[w].job_id) =>
            LET row == table[worker[w].job_id]
            IN  row.worker_id = w /\ row.status \in Outcomes]_systemVars

\* A job that is processing although nobody works on it.
Forgotten(j) ==
    /\ table[j].status = "processing"
    /\ \A w \in WorkerIds : ~(HasJob(w) /\ worker[w].job_id = j)
    /\ ~InHands(j, {"save"})

\* Every job that will never end, or end untold, is the work of a fault or a
\* mishap of its own.  Answers to reports can be lost without losing anything, and
\* so can two workers claim one job of a repeated send.
EveryLossHasACause ==
    Cardinality({j \in JobIds : Stranded(j) \/ Silent(j) \/ Forgotten(j)})
        <= FaultsSpent("abort") + FaultsSpent("expire")
           + (MaxMishaps["crash"] - mishaps["crash"])
           + (MaxMishaps["lost_claim"] - mishaps["lost_claim"])

\* With workers that retry, every submitted job ends and its user is told,
\* although answers to reports are lost and visibility timeouts end early.
EveryJobEnds ==
    \A j \in JobIds : table[j].status = "queued"
                        ~> (table[j].status \in Outcomes /\ notices[j] # << >>)
====
