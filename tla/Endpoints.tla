---- MODULE Endpoints ----
(* The job endpoints of the function app (api/function_app.py) around the    *)
(* job service: a request arrives at a thread of a host process, which       *)
(* builds the process's JobService unless that is cached, parses the body,   *)
(* runs one operation of the service, and translates what that returns or    *)
(* raises into an answer.  The FastAPI routes (api/routes_jobs.py) do the    *)
(* same from their operation on.  GET / and GET /forms are in FormPages.     *)
EXTENDS JobService

CONSTANTS Hosts,       \* the function app's processes
          HostOf,      \* HostOf[h]: the process that thread h belongs to
          MaxOutages   \* storage errors before an operation's first effect

ASSUME HostOfType == HostOf \in [Handlers -> Hosts]
ASSUME OutagesType == MaxOutages \in Nat

VARIABLES exchange,   \* exchange[h]: the request h handles and its answer
          cached,     \* cached[p]: is _job_service set in process p?
          stores,     \* the table, queue and container that exist
          shown,      \* shown[j]: what clients have been told of j's status
          failures,   \* how often the answer was 500
          outages     \* storage errors that may still happen

exchangeVars == <<exchange, shown, failures>>
hostVars == <<cached, stores, outages>>
endpointVars == <<allVars, exchangeVars, hostVars>>

\* What build_job_service's adapters create, in this order, unless it is there.
Stores == <<"table", "queue", "results">>

Reports == {"complete", "fail"}

Routes == {"submit", "get", "claim"} \cup Reports

\* The URL of the blob of that name in the results container.
BuildResultUrl(reference) == [blob |-> reference]

\* An answer's body, as far as it speaks of a job ("nothing" if it does not).
Bodies == [status : JobStatus \cup {"absent", "nothing"},
           result_url : {BuildResultUrl(r) : r \in References} \cup {None},
           error_message : ErrorMessages \cup {None}]

Silence == [status |-> "nothing", result_url |-> None, error_message |-> None]

NotFound == [Silence EXCEPT !.status = "absent"]

Exchanges == [phase : {"none", "building", "ready", "working", "answered"},
              route : Routes \cup {"none"},
              job_id : JobIds \cup {None},
              told : JobStatus \cup {"absent"},   \* shown[job_id] on arrival
              built : 0 .. Len(Stores),
              code : {0, 200, 201, 204, 400, 404, 409, 422, 500},
              body : Bodies,
              touched : BOOLEAN]                  \* has it changed a job's state?

NoExchange == [phase |-> "none", route |-> "none", job_id |-> None, told |-> "absent",
               built |-> 0, code |-> 0, body |-> Silence, touched |-> FALSE]

EndpointsTypeOK ==
    /\ ServiceTypeOK
    /\ exchange \in [Handlers -> Exchanges]
    /\ cached \in [Hosts -> BOOLEAN]
    /\ stores \subseteq {Stores[i] : i \in DOMAIN Stores}
    /\ shown \in [JobIds -> JobStatus \cup {"absent"}]
    /\ failures \in Nat
    /\ outages \in 0 .. MaxOutages

EndpointsInit ==
    /\ ServiceInit
    /\ exchange = [h \in Handlers |-> NoExchange]
    /\ cached = [p \in Hosts |-> FALSE]
    /\ stores = {}
    /\ shown = [j \in JobIds |-> "absent"]
    /\ failures = 0
    /\ outages = MaxOutages

----
\* resolve_result_url.
ResultUrl(job) ==
    IF job.result_reference = None THEN None ELSE BuildResultUrl(job.result_reference)

\* JobResponse.from_domain(job, result_url=...).
JobResponse(job) == [status |-> job.status,
                     result_url |-> ResultUrl(job),
                     error_message |-> job.error_message]

In(h, phase) == exchange[h].phase = phase

\* A job that was in status s may be in status t now (domain/jobs.py, 3-8).
Leads(s, t) ==
    \/ s = t
    \/ s = "absent"
    \/ s = "queued" /\ t \in {"processing"} \cup Outcomes
    \/ s = "processing" /\ t \in Outcomes

Changed == <<queueVars, table, notices>>' # <<queueVars, table, notices>>

\* The exchange e after a step of its thread.
After(e, phase, code, j, body) ==
    [phase |-> phase, route |-> e.route, job_id |-> j, told |-> e.told, built |-> 0,
     code |-> code, body |-> body, touched |-> e.touched \/ Changed]

\* The thread goes on with its operation.
Continue(h) ==
    /\ exchange' = [exchange EXCEPT ![h] = After(@, "working", 0, @.job_id, Silence)]
    /\ UNCHANGED <<shown, failures>>

\* The thread's answer: its code, and the job its body speaks of.
AnswerAbout(h, code, j, body) ==
    /\ exchange' = [exchange EXCEPT ![h] = After(@, "answered", code, j, body)]
    /\ failures' = IF code = 500 THEN failures + 1 ELSE failures
    /\ UNCHANGED shown

Answer(h, code) == AnswerAbout(h, code, None, Silence)

----
\* A bound: no more submissions at a time than there are job ids left.
Submitting == Cardinality({g \in Handlers : exchange[g].route = "submit"
                                              /\ exchange[g].phase \in {"building", "ready"}})

\* A request reaches a thread.  The trigger functions call _get_job_service
\* before anything else; what it finds decides whether this thread builds.
Arrive(h, route, j) ==
    /\ In(h, "none")
    /\ j = None <=> route \in {"submit", "claim"}
    /\ route = "submit" => Submitting < Cardinality({i \in JobIds : ~Exists(i)})
    /\ exchange' = [exchange EXCEPT ![h] =
                      [NoExchange EXCEPT
                         !.phase = IF cached[HostOf[h]] THEN "ready" ELSE "building",
                         !.route = route, !.job_id = j,
                         !.told = IF j = None THEN "absent" ELSE shown[j]]]
    /\ UNCHANGED <<allVars, hostVars, shown, failures>>

\* Faulty variant: _job_service is set before the adapters are constructed.
ConstructCachingFirst(h) ==
    /\ In(h, "building")
    /\ stores' = stores \cup {Stores[exchange[h].built + 1]}
    /\ exchange' = [exchange EXCEPT
                      ![h].built = IF @ + 1 = Len(Stores) THEN 0 ELSE @ + 1,
                      ![h].phase = IF exchange[h].built + 1 = Len(Stores) THEN "ready" ELSE @]
    /\ cached' = [cached EXCEPT ![HostOf[h]] = TRUE]
    /\ UNCHANGED <<allVars, shown, failures, outages>>

\* Faulty variant: ResourceExistsError is not caught.
ConstructOnce(h) ==
    /\ In(h, "building")
    /\ LET next == Stores[exchange[h].built + 1]
           done == exchange[h].built + 1 = Len(Stores)
       IN  IF next \in stores
           THEN UNCHANGED <<allVars, hostVars>> /\ Answer(h, 500)
           ELSE /\ stores' = stores \cup {next}
                /\ exchange' = [exchange EXCEPT
                                  ![h].built = IF done THEN 0 ELSE @ + 1,
                                  ![h].phase = IF done THEN "ready" ELSE @]
                /\ cached' = [cached EXCEPT ![HostOf[h]] = done \/ @]
                /\ UNCHANGED <<allVars, shown, failures, outages>>

\* One adapter is constructed: it creates its store, or finds that it exists.
\* The last one completes the service, which is then cached.
Construct(h) ==
    /\ In(h, "building")
    /\ LET e == exchange[h]
           next == e.built + 1
           done == next = Len(Stores)
       IN  /\ stores' = stores \cup {Stores[next]}
           /\ exchange' = [exchange EXCEPT ![h] =
                             IF done THEN [e EXCEPT !.phase = "ready", !.built = 0]
                                     ELSE [e EXCEPT !.built = next]]
           /\ cached' = [cached EXCEPT ![HostOf[h]] = done \/ @]
    /\ UNCHANGED <<allVars, shown, failures, outages>>

\* The storage raises while the service is built or at an operation's first
\* call; nothing is cached, and no route translates the exception.
Raise(h) ==
    /\ In(h, "building") \/ In(h, "ready")
    /\ outages > 0
    /\ outages' = outages - 1
    /\ UNCHANGED <<allVars, cached, stores>>
    /\ Answer(h, 500)

\* _parse_json_body: a body that is no JSON, or does not match the model.
RefuseBody(h) ==
    /\ In(h, "ready")
    /\ exchange[h].route # "get"
    /\ UNCHANGED <<allVars, hostVars>>
    /\ \E code \in {400, 422} : Answer(h, code)

----
\* GET /jobs/{job_id}.
GetJob(h) ==
    LET j == exchange[h].job_id
    IN  /\ In(h, "ready") /\ exchange[h].route = "get"
        /\ UNCHANGED <<allVars, hostVars>>
        /\ IF Exists(j) THEN AnswerAbout(h, 200, j, JobResponse(Get(j)))
                        ELSE AnswerAbout(h, 404, j, NotFound)

\* POST /jobs.
SubmitJob(h) ==
    /\ In(h, "ready") /\ exchange[h].route = "submit"
    /\ \E j \in JobIds : SubmitCreate(h, j)
    /\ Continue(h)
    /\ UNCHANGED hostVars

\* Created: the handler's own copy of the job is what the client is shown.
SubmitAnswer(h) ==
    /\ SubmitEnqueue(h)
    /\ AnswerAbout(h, 201, call[h].job_id, JobResponse(NewJob))
    /\ UNCHANGED hostVars

\* POST /jobs/claim: a message, or 204.
ClaimJob(h) ==
    /\ In(h, "ready") /\ exchange[h].route = "claim"
    /\ \/ (\E w \in WorkerIds : ClaimReceive(h, w)) /\ Continue(h)
       \/ queued \ hidden = {} /\ UNCHANGED allVars /\ Answer(h, 204)
    /\ UNCHANGED hostVars

\* ClaimedJobResponse names no status: who is handed a job knows it is processing.
ClaimAnswer(h) ==
    /\ ClaimRecord(h)
    /\ AnswerAbout(h, 200, call[h].job_id, JobResponse(call[h].job))
    /\ UNCHANGED hostVars

\* Faulty variant: a claim's InvalidTransitionError is answered as an empty queue.
ClaimRaisesQuietly(h) ==
    /\ ClaimDeleteRejected(h) \/ ClaimRefused(h)
    /\ Answer(h, 204)
    /\ UNCHANGED hostVars

\* claim_job has no except clause: neither a rejected delete_message nor an
\* InvalidTransitionError is translated.
ClaimRaises(h) ==
    /\ ClaimDeleteRejected(h) \/ ClaimRefused(h)
    /\ Answer(h, 500)
    /\ UNCHANGED hostVars

\* POST /jobs/{job_id}/complete and /fail, with any worker's worker_id.
ReportJob(h) ==
    LET j == exchange[h].job_id
    IN  /\ In(h, "ready")
        /\ \/ /\ exchange[h].route = "complete"
              /\ \E w \in WorkerIds, reference \in References : CompleteLoad(h, j, w, reference)
           \/ /\ exchange[h].route = "fail"
              /\ \E w \in WorkerIds, message \in ErrorMessages : FailLoad(h, j, w, message)
        /\ Continue(h)
        /\ UNCHANGED hostVars

\* The operation a report's route calls moves the job to this status.
Target(route) == IF route = "complete" THEN "completed" ELSE "failed"

\* JobNotFoundError; JobOwnershipError and InvalidTransitionError.
RefuseReport(h) ==
    LET j == exchange[h].job_id
    IN  /\ In(h, "ready") /\ exchange[h].route \in Reports
        /\ UNCHANGED <<allVars, hostVars>>
        /\ \/ ~Exists(j) /\ AnswerAbout(h, 404, j, NotFound)
           \/ /\ Exists(j)
              /\ \/ \E w \in WorkerIds : ~EnsureClaimedBy(Get(j), w)
                 \/ ~CanTransition(Get(j), Target(exchange[h].route))
              /\ Answer(h, 409)

ReportAnswer(h) ==
    /\ ReportNotify(h)
    /\ AnswerAbout(h, 200, call[h].job_id, JobResponse(call[h].job))
    /\ UNCHANGED hostVars

\* A step of the operation that is not its last one.
Proceed(h) ==
    /\ ClaimDelete(h) \/ ClaimAccepted(h) \/ ReportSave(h)
    /\ Continue(h)
    /\ UNCHANGED hostVars

\* The thread stops half way: the client is answered 500, or waits in vain.
StopShort(h) ==
    /\ Abort(h)
    /\ Answer(h, 500)
    /\ UNCHANGED hostVars

\* The answer reaches the client.
Deliver(h) ==
    LET j == exchange[h].job_id
        status == exchange[h].body.status
    IN  /\ In(h, "answered")
        /\ exchange' = [exchange EXCEPT ![h] = NoExchange]
        /\ shown' = IF status \in {"nothing", "absent"} THEN shown
                    ELSE [shown EXCEPT ![j] = IF Leads(@, status) THEN status ELSE @]
        /\ UNCHANGED <<allVars, hostVars, failures>>

\* The platform takes an idle process away and starts another one in its place.
Recycle(p) ==
    /\ cached[p]
    /\ \A h \in Handlers : HostOf[h] = p => In(h, "none")
    /\ cached' = [cached EXCEPT ![p] = FALSE]
    /\ UNCHANGED <<allVars, exchangeVars, stores, outages>>

Work(h) ==
    \/ Construct(h) \/ GetJob(h) \/ SubmitJob(h) \/ ClaimJob(h) \/ ReportJob(h)
    \/ RefuseBody(h) \/ RefuseReport(h) \/ Proceed(h)
    \/ SubmitAnswer(h) \/ ClaimAnswer(h) \/ ClaimRaises(h) \/ ReportAnswer(h)

EndpointsNext ==
    \/ \E h \in Handlers :
        \/ \E route \in Routes, j \in JobIds \cup {None} : Arrive(h, route, j)
        \/ Work(h) \/ Raise(h) \/ StopShort(h) \/ Deliver(h)
    \/ \E p \in Hosts : Recycle(p)
    \/ QueueService /\ UNCHANGED <<exchangeVars, hostVars>>

EndpointsSpec == EndpointsInit /\ [][EndpointsNext]_endpointVars

----
\* What an answer says of a job is never older than what any client had been
\* told when the request arrived, and never ahead of the job's row; the result
\* URL and the error message it gives are those of the row - unless the job was
\* handed out twice.  In particular no job that was answered once is a 404 later
\* (README, API).
AnswersAreCurrent ==
    \A h \in Handlers :
        LET e == exchange[h]
            row == table[e.job_id]
        IN  e.body.status # "nothing" /\ ~HandedOutTwice(e.job_id) =>
                /\ Leads(e.told, e.body.status)
                /\ Leads(e.body.status, row.status)
                /\ e.body.status = row.status =>
                    e.body = IF Exists(e.job_id) THEN JobResponse(Get(e.job_id)) ELSE NotFound

\* A client that is refused (400, 404, 409, 422) or told that nothing is queued
\* (204) may ask again: its request has changed neither a row nor the queue.
RefusalsChangeNothing ==
    \A h \in Handlers : exchange[h].code \in {204, 400, 404, 409, 422} => ~exchange[h].touched

\* Every 500 is the work of a fault of its own: no order of well-formed or
\* malformed requests, first requests of a process included, makes the API fail.
FailuresHaveACause ==
    failures <= FaultsSpent("abort") + FaultsSpent("overdue") + FaultsSpent("resend")
                + FaultsSpent("expire") + (MaxOutages - outages)

\* An operation runs on a table and a queue that exist: the service that is
\* cached, or that a thread has built for itself, is complete.
ServiceIsComplete ==
    /\ \A p \in Hosts : cached[p] => stores = {Stores[i] : i \in DOMAIN Stores}
    /\ \A h \in Handlers : call[h] # Idle => stores = {Stores[i] : i \in DOMAIN Stores}
====
