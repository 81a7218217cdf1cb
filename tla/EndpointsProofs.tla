---- MODULE EndpointsProofs ----
(* Theorems about Endpoints, for every set of processes, threads, jobs and   *)
(* workers, and every fault budget.                                          *)
EXTENDS Endpoints, JobClaimProofs

AllStores == {Stores[i] : i \in DOMAIN Stores}

Codes == {0, 200, 201, 204, 400, 404, 409, 422, 500}

Refusals == {204, 400, 404, 409, 422}

\* How a thread's exchange fits its operation of the job service.
Attended(h) ==
    LET e == exchange[h]
    IN  /\ e.phase = "working" <=> call[h] # Idle
        /\ e.phase \in {"building", "ready", "working"} =>
            /\ e.route \in {"get"} \cup Reports => e.job_id \in JobIds
            /\ e.route \in {"submit", "claim"} => e.told = "absent"
        /\ e.phase # "answered" => e.code = 0 /\ e.body = Silence
        /\ e.phase \in {"none", "building", "ready"} => ~e.touched
        /\ e.phase = "building" => e.built < Len(Stores)
        /\ e.code \in Refusals => ~e.touched

\* What has been constructed is there.
Built(h) ==
    /\ \A i \in 1 .. exchange[h].built : Stores[i] \in stores
    /\ exchange[h].phase \in {"ready", "working"} => stores = AllStores

PageTypes == /\ exchange \in [Handlers -> Exchanges]
             /\ cached \in [Hosts -> BOOLEAN]
             /\ stores \subseteq AllStores
             /\ shown \in [JobIds -> JobStatus \cup {"absent"}]
             /\ failures \in Nat
             /\ outages \in 0 .. MaxOutages

EndpointsInv == /\ ServiceInv
                /\ PageTypes
                /\ \A h \in Handlers : Attended(h) /\ Built(h)
                /\ \A p \in Hosts : cached[p] => stores = AllStores

----
\* Threads other than h go on as they were.
OthersKept(h) == \A g \in Handlers : g # h => exchange'[g] = exchange[g] /\ call'[g] = call[g]

StoresKept == stores' = stores /\ cached' = cached /\ outages' \in 0 .. MaxOutages

\* The kinds of steps a thread takes: it answers, or goes on.
Answers(h) ==
    \E code \in Codes, j \in JobIds \cup {None}, body \in Bodies :
        /\ AnswerAbout(h, code, j, body)
        /\ exchange[h].phase \in {"building", "ready", "working"}
        /\ call'[h] = Idle
        /\ code \in Refusals => ~In(h, "working") /\ ~Changed
        /\ OthersKept(h) /\ StoresKept

GoesOn(h) == /\ Continue(h)
             /\ exchange[h].phase \in {"ready", "working"}
             /\ call'[h] # Idle
             /\ OthersKept(h) /\ StoresKept

----
LEMMA StoresAre == Len(Stores) = 3 /\ DOMAIN Stores = 1 .. 3 /\ 1 .. Len(Stores) = DOMAIN Stores
  BY DEF Stores

LEMMA JobResponseType ==
    ASSUME NEW job \in Jobs
    PROVE  JobResponse(job) \in Bodies
  BY DEF Jobs, JobResponse, ResultUrl, Bodies

LEMMA OtherBodies == Silence \in Bodies /\ NotFound \in Bodies /\ JobResponse(NewJob) \in Bodies
<1>1. JobResponse(NewJob) \in Bodies
  BY JobResponseType, NewJobType
<1> QED
  BY <1>1 DEF Silence, NotFound, Bodies

LEMMA InitEndpointsInv == EndpointsInit => EndpointsInv
<1> SUFFICES ASSUME EndpointsInit
             PROVE  EndpointsInv
  OBVIOUS
<1>1. ServiceInv
  BY InitServiceInv DEF EndpointsInit
<1>2. NoExchange \in Exchanges
  BY StoresAre, OtherBodies DEF NoExchange, Exchanges
<1>3. PageTypes
  BY <1>2, OutagesType DEF EndpointsInit, PageTypes
<1>4. ASSUME NEW h \in Handlers
      PROVE  Attended(h) /\ Built(h)
  BY <1>4 DEF EndpointsInit, ServiceInit, Attended, Built, NoExchange, Refusals
<1> QED
  BY <1>1, <1>3, <1>4 DEF EndpointsInit, EndpointsInv

\* A step that touches neither the job service nor the other threads.
LEMMA Alone ==
    ASSUME PageTypes, ServiceTypeOK, NEW h \in Handlers, NEW e,
           exchange' = [exchange EXCEPT ![h] = e], UNCHANGED allVars
    PROVE  OthersKept(h)
  BY DEF PageTypes, OthersKept, allVars, serviceVars

LEMMA OneCall ==
    ASSUME PageTypes, ServiceTypeOK, NEW h \in Handlers, NEW e, NEW c,
           exchange' = [exchange EXCEPT ![h] = e], call' = [call EXCEPT ![h] = c]
    PROVE  OthersKept(h) /\ call'[h] = c
  BY DEF PageTypes, ServiceTypeOK, OthersKept

----
\* An answer of a thread whose operation ends with this step.
LEMMA AnswersAfter ==
    ASSUME EndpointsInv, NEW h \in Handlers, NEW code \in Codes,
           NEW j \in JobIds \cup {None}, NEW body \in Bodies,
           AnswerAbout(h, code, j, body), Finish(h), call[h] # Idle,
           code \notin Refusals, UNCHANGED hostVars
    PROVE  Answers(h)
<1>1. exchange[h].phase = "working"
  BY DEF EndpointsInv, Attended
<1>2. OthersKept(h) /\ call'[h] = Idle
  BY OneCall DEF EndpointsInv, ServiceInv, AnswerAbout, Finish
<1>3. StoresKept
  BY DEF EndpointsInv, PageTypes, hostVars, StoresKept
<1> QED
  BY <1>1, <1>2, <1>3 DEF Answers

\* An answer of a thread that has not called the service.
LEMMA AnswersBefore ==
    ASSUME EndpointsInv, NEW h \in Handlers, NEW code \in Codes,
           NEW j \in JobIds \cup {None}, NEW body \in Bodies,
           AnswerAbout(h, code, j, body), UNCHANGED allVars,
           exchange[h].phase \in {"building", "ready"}, StoresKept
    PROVE  Answers(h)
<1>1. call'[h] = Idle
  BY DEF EndpointsInv, Attended, allVars, serviceVars
<1>2. OthersKept(h)
  BY Alone DEF EndpointsInv, ServiceInv, AnswerAbout
<1>3. ~In(h, "working")
  BY DEF In
<1>4. ~Changed
  BY DEF Changed, allVars, serviceVars
<1> QED
  BY <1>1, <1>2, <1>3, <1>4 DEF Answers

LEMMA BeforeAnswers ==
    ASSUME EndpointsInv, NEW h \in Handlers,
           \/ Raise(h) \/ RefuseBody(h) \/ GetJob(h) \/ RefuseReport(h)
           \/ UNCHANGED <<allVars, hostVars>> /\ In(h, "ready") /\ Answer(h, 204)
    PROVE  Answers(h)
<1> USE DEF Codes
<1>k. UNCHANGED hostVars => StoresKept
  BY DEF EndpointsInv, PageTypes, hostVars, StoresKept
<1>1. CASE Raise(h)
  <2>1. StoresKept
    BY <1>1, OutagesType DEF Raise, EndpointsInv, PageTypes, StoresKept
  <2> QED
    BY <1>1, <2>1, AnswersBefore, OtherBodies DEF Raise, Answer, In
<1>2. CASE RefuseBody(h)
  <2>1. PICK code \in {400, 422} : AnswerAbout(h, code, None, Silence)
    BY <1>2 DEF RefuseBody, Answer
  <2> QED
    BY <1>2, <1>k, <2>1, AnswersBefore, OtherBodies DEF RefuseBody, In
<1>3. CASE GetJob(h)
  <2>1. exchange[h].job_id \in JobIds
    BY <1>3 DEF GetJob, In, EndpointsInv, Attended
  <2>2. CASE Exists(exchange[h].job_id)
    <3>1. JobResponse(Get(exchange[h].job_id)) \in Bodies
      BY <2>1, <2>2, GetType, JobResponseType DEF EndpointsInv, ServiceInv
    <3> QED
      BY <1>3, <1>k, <2>1, <2>2, <3>1, AnswersBefore DEF GetJob, In
  <2>3. CASE ~Exists(exchange[h].job_id)
    BY <1>3, <1>k, <2>1, <2>3, AnswersBefore, OtherBodies DEF GetJob, In
  <2> QED
    BY <2>2, <2>3
<1>4. CASE RefuseReport(h)
  <2>1. exchange[h].job_id \in JobIds
    BY <1>4 DEF RefuseReport, In, EndpointsInv, Attended
  <2> QED
    BY <1>4, <1>k, <2>1, AnswersBefore, OtherBodies DEF RefuseReport, Answer, In
<1>5. CASE UNCHANGED <<allVars, hostVars>> /\ In(h, "ready") /\ Answer(h, 204)
  BY <1>5, <1>k, AnswersBefore, OtherBodies DEF Answer, In
<1> QED
  BY <1>1, <1>2, <1>3, <1>4, <1>5

LEMMA AfterAnswers ==
    ASSUME EndpointsInv, NEW h \in Handlers,
           \/ SubmitAnswer(h) \/ ClaimAnswer(h) \/ ClaimRaises(h)
           \/ ReportAnswer(h) \/ StopShort(h)
    PROVE  Answers(h)
<1> USE DEF Codes, Refusals
<1>0. CallShape(call[h])
  BY DEF EndpointsInv, ServiceInv, CallsShaped
<1>1. CASE SubmitAnswer(h)
  <2>1. call[h].job_id \in JobIds /\ call[h] # Idle
    BY <1>0, <1>1 DEF SubmitAnswer, SubmitEnqueue, At, CallShape, Idle
  <2> QED
    BY <1>1, <2>1, AnswersAfter, OtherBodies DEF SubmitAnswer, SubmitEnqueue
<1>2. CASE ClaimAnswer(h)
  <2>1. call[h].job_id \in JobIds /\ call[h].job \in Jobs /\ call[h] # Idle
    BY <1>0, <1>2 DEF ClaimAnswer, ClaimRecord, At, CallShape, Idle
  <2> QED
    BY <1>2, <2>1, AnswersAfter, JobResponseType DEF ClaimAnswer, ClaimRecord
<1>3. CASE ClaimRaises(h)
  <2>1. call[h] # Idle
    BY <1>3 DEF ClaimRaises, ClaimDeleteRejected, ClaimRefused, ClaimLoad, At, Idle
  <2> QED
    BY <1>3, <2>1, AnswersAfter, OtherBodies
       DEF ClaimRaises, ClaimDeleteRejected, ClaimRefused, ClaimLoad, Answer
<1>4. CASE ReportAnswer(h)
  <2>1. call[h].job_id \in JobIds /\ call[h].job \in Jobs /\ call[h] # Idle
    BY <1>0, <1>4 DEF ReportAnswer, ReportNotify, At, CallShape, Idle
  <2> QED
    BY <1>4, <2>1, AnswersAfter, JobResponseType DEF ReportAnswer, ReportNotify
<1>5. CASE StopShort(h)
  <2>1. call[h] # Idle
    BY <1>5 DEF StopShort, Abort, At, Idle
  <2> QED
    BY <1>5, <2>1, AnswersAfter, OtherBodies DEF StopShort, Abort, Answer
<1> QED
  BY <1>1, <1>2, <1>3, <1>4, <1>5

LEMMA ThreadGoesOn ==
    ASSUME EndpointsInv, NEW h \in Handlers,
           \/ SubmitJob(h) \/ ReportJob(h) \/ Proceed(h)
           \/ /\ In(h, "ready") /\ (\E w \in WorkerIds : ClaimReceive(h, w))
              /\ Continue(h) /\ UNCHANGED hostVars
    PROVE  GoesOn(h)
<1>k. UNCHANGED hostVars => StoresKept
  BY DEF EndpointsInv, PageTypes, hostVars, StoresKept
<1>w. call[h] # Idle => exchange[h].phase = "working"
  BY DEF EndpointsInv, Attended
<1>1. PICK c : call' = [call EXCEPT ![h] = c] /\ c # Idle
  <2>1. CASE SubmitJob(h)
    <3>1. PICK j \in JobIds :
            call' = [call EXCEPT ![h] = [Idle EXCEPT !.step = "enqueue", !.job_id = j]]
      BY <2>1 DEF SubmitJob, SubmitCreate, Begin
    <3>2. [Idle EXCEPT !.step = "enqueue", !.job_id = j].step # Idle.step
      BY DEF Idle
    <3> QED
      BY <3>1, <3>2
  <2>2. CASE ReportJob(h)
    BY <2>2 DEF ReportJob, CompleteLoad, FailLoad, BeginReport, Begin, Idle
  <2>3. CASE \E w \in WorkerIds : ClaimReceive(h, w)
    <3>1. PICK w \in WorkerIds, m \in Messages :
            call' = [call EXCEPT ![h] = [Idle EXCEPT !.step = "delete", !.job_id = m[1],
                                                     !.worker_id = w]]
      BY <2>3 DEF ClaimReceive, Begin
    <3>2. [Idle EXCEPT !.step = "delete", !.job_id = m[1], !.worker_id = w].step # Idle.step
      BY DEF Idle
    <3> QED
      BY <3>1, <3>2
  <2>4. CASE Proceed(h)
    <3>1. call \in [Handlers -> Calls]
      BY DEF EndpointsInv, ServiceInv, ServiceTypeOK
    <3>2. call' = [call EXCEPT ![h] = call'[h]]
      BY <2>4, <3>1 DEF Proceed, ClaimDelete, ClaimAccepted, ClaimLoad, ReportSave
    <3>3. call'[h].step \in {"load", "record", "notify"}
      BY <2>4, <3>1 DEF Proceed, ClaimDelete, ClaimAccepted, ClaimLoad, ReportSave, Calls
    <3> QED
      BY <3>2, <3>3 DEF Idle
  <2> QED
    BY <2>1, <2>2, <2>3, <2>4
<1>2. exchange[h].phase \in {"ready", "working"}
  <2>1. CASE Proceed(h)
    BY <1>w, <2>1 DEF Proceed, ClaimDelete, ClaimAccepted, ClaimLoad, ReportSave, At, Idle
  <2> QED
    BY <2>1 DEF SubmitJob, ReportJob, In
<1>3. Continue(h) /\ UNCHANGED hostVars
  BY DEF SubmitJob, ReportJob, Proceed
<1>4. \E e : exchange' = [exchange EXCEPT ![h] = e]
  BY <1>3 DEF Continue, EndpointsInv, PageTypes
<1>5. OthersKept(h) /\ call'[h] # Idle
  BY <1>1, <1>4, OneCall DEF EndpointsInv, ServiceInv
<1> QED
  BY <1>2, <1>3, <1>5, <1>k DEF GoesOn

----
\* Every step of the endpoints is a step of the service or leaves it alone.
LEMMA StepIsServiceStep ==
    ASSUME EndpointsInv, [EndpointsNext]_endpointVars
    PROVE  [ServiceNext]_allVars
<1>1. ASSUME NEW h \in Handlers, SubmitJob(h)
      PROVE  ServiceNext
  BY <1>1 DEF SubmitJob, ServiceNext, Request
<1>2. ASSUME NEW h \in Handlers, ClaimJob(h)
      PROVE  [ServiceNext]_allVars
  BY <1>2 DEF ClaimJob, ServiceNext, Request
<1>3. ASSUME NEW h \in Handlers, ReportJob(h)
      PROVE  ServiceNext
  <2>1. exchange[h].job_id \in JobIds
    BY <1>3 DEF ReportJob, In, EndpointsInv, Attended, Reports
  <2> QED
    BY <1>3, <2>1 DEF ReportJob, ServiceNext, Request
<1>4. ASSUME NEW h \in Handlers,
             \/ Proceed(h) \/ SubmitAnswer(h) \/ ClaimAnswer(h) \/ ClaimRaises(h)
             \/ ReportAnswer(h)
      PROVE  ServiceNext
  BY <1>4 DEF Proceed, SubmitAnswer, ClaimAnswer, ClaimRaises, ReportAnswer,
              ServiceNext, HandlerStep, ClaimAccepted, ClaimRefused
<1>5. ASSUME NEW h \in Handlers, StopShort(h)
      PROVE  ServiceNext
  BY <1>5 DEF StopShort, ServiceNext
<1>6. ASSUME NEW h \in Handlers,
             \/ \E route \in Routes, j \in JobIds \cup {None} : Arrive(h, route, j)
             \/ Construct(h) \/ GetJob(h) \/ RefuseBody(h) \/ RefuseReport(h)
             \/ Raise(h) \/ Deliver(h)
      PROVE  UNCHANGED allVars
  BY <1>6 DEF Arrive, Construct, GetJob, RefuseBody, RefuseReport, Raise, Deliver
<1>7. ASSUME NEW p \in Hosts, Recycle(p)
      PROVE  UNCHANGED allVars
  BY <1>7 DEF Recycle
<1>8. CASE QueueService
  BY <1>8 DEF ServiceNext
<1>9. CASE UNCHANGED endpointVars
  BY <1>9 DEF endpointVars
<1> QED
  BY <1>1, <1>2, <1>3, <1>4, <1>5, <1>6, <1>7, <1>8, <1>9 DEF EndpointsNext, Work

LEMMA StepKinds ==
    ASSUME EndpointsInv, EndpointsNext
    PROVE  \/ \E h \in Handlers :
                \/ \E route \in Routes, j \in JobIds \cup {None} : Arrive(h, route, j)
                \/ Construct(h) \/ Answers(h) \/ GoesOn(h) \/ Deliver(h)
           \/ \E p \in Hosts : Recycle(p)
           \/ QueueService /\ UNCHANGED <<exchangeVars, hostVars>>
<1>1. ASSUME NEW h \in Handlers, ClaimJob(h)
      PROVE  Answers(h) \/ GoesOn(h)
  BY <1>1, BeforeAnswers, ThreadGoesOn DEF ClaimJob
<1>2. ASSUME NEW h \in Handlers, Work(h) \/ Raise(h) \/ StopShort(h)
      PROVE  Construct(h) \/ Answers(h) \/ GoesOn(h)
  BY <1>1, <1>2, BeforeAnswers, AfterAnswers, ThreadGoesOn DEF Work
<1> QED
  BY <1>2 DEF EndpointsNext

----
\* A thread's exchange is replaced, the others are kept.
LEMMA ExchangeReplaced ==
    ASSUME EndpointsInv, ServiceInv', NEW h \in Handlers, NEW e \in Exchanges,
           exchange' = [exchange EXCEPT ![h] = e], OthersKept(h),
           cached' \in [Hosts -> BOOLEAN],
           stores \subseteq stores', stores' \subseteq AllStores,
           \A p \in Hosts : cached'[p] => stores' = AllStores,
           shown' \in [JobIds -> JobStatus \cup {"absent"}],
           failures' \in Nat, outages' \in 0 .. MaxOutages,
           Attended(h)', Built(h)'
    PROVE  EndpointsInv'
<1>1. PageTypes'
  BY DEF EndpointsInv, PageTypes
<1>2. ASSUME NEW g \in Handlers, g # h
      PROVE  Attended(g)' /\ Built(g)'
  <2>1. exchange'[g] = exchange[g] /\ call'[g] = call[g]
    BY <1>2 DEF OthersKept
  <2>2. Attended(g) /\ Built(g)
    BY DEF EndpointsInv
  <2>3. Attended(g)'
    BY <2>1, <2>2 DEF Attended
  <2>4. Built(g)'
    BY <2>1, <2>2 DEF Built
  <2> QED
    BY <2>3, <2>4
<1> QED
  BY <1>1, <1>2 DEF EndpointsInv

LEMMA AnswersKeepInv ==
    ASSUME EndpointsInv, ServiceInv', NEW h \in Handlers, Answers(h)
    PROVE  EndpointsInv'
<1>1. PICK code \in Codes, j \in JobIds \cup {None}, body \in Bodies :
         /\ AnswerAbout(h, code, j, body)
         /\ exchange[h].phase \in {"building", "ready", "working"}
         /\ call'[h] = Idle
         /\ code \in Refusals => ~In(h, "working") /\ ~Changed
         /\ OthersKept(h) /\ StoresKept
  BY DEF Answers
<1>2. PICK touched \in BOOLEAN : touched = (exchange[h].touched \/ Changed)
  OBVIOUS
<1>3. PICK e : e = [phase |-> "answered", route |-> exchange[h].route, job_id |-> j,
                    told |-> exchange[h].told, built |-> 0, code |-> code,
                    body |-> body, touched |-> touched]
  OBVIOUS
<1>4. exchange' = [exchange EXCEPT ![h] = e]
  BY <1>1, <1>2, <1>3 DEF AnswerAbout, After
<1>5. exchange[h] \in Exchanges
  BY DEF EndpointsInv, PageTypes
<1>6. e \in Exchanges
  BY <1>1, <1>3, <1>5, StoresAre DEF Exchanges, Codes
<1>7. exchange'[h] = e
  BY <1>4 DEF EndpointsInv, PageTypes
<1>8. code \in Refusals => ~touched
  BY <1>1, <1>2 DEF EndpointsInv, Attended, In
<1>9. Attended(h)'
  BY <1>1, <1>3, <1>7, <1>8 DEF Attended
<1>10. Built(h)'
  BY <1>3, <1>7 DEF Built
<1>11. failures' \in Nat /\ shown' = shown
  BY <1>1 DEF AnswerAbout, EndpointsInv, PageTypes
<1> QED
  BY <1>1, <1>4, <1>6, <1>9, <1>10, <1>11, ExchangeReplaced
     DEF StoresKept, EndpointsInv, PageTypes

LEMMA GoesOnKeepsInv ==
    ASSUME EndpointsInv, ServiceInv', NEW h \in Handlers, GoesOn(h)
    PROVE  EndpointsInv'
<1>1. exchange[h] \in Exchanges /\ Attended(h) /\ Built(h)
  BY DEF EndpointsInv, PageTypes
<1>2. PICK touched \in BOOLEAN : touched = (exchange[h].touched \/ Changed)
  OBVIOUS
<1>3. PICK e : e = [phase |-> "working", route |-> exchange[h].route,
                    job_id |-> exchange[h].job_id, told |-> exchange[h].told,
                    built |-> 0, code |-> 0, body |-> Silence, touched |-> touched]
  OBVIOUS
<1>4. exchange' = [exchange EXCEPT ![h] = e]
  BY <1>2, <1>3 DEF GoesOn, Continue, After
<1>5. e \in Exchanges
  BY <1>1, <1>3, StoresAre, OtherBodies DEF Exchanges
<1>6. exchange'[h] = e
  BY <1>4 DEF EndpointsInv, PageTypes
<1>7. Attended(h)'
  <2>1. /\ e.code = 0 /\ e.body = Silence
        /\ e.route \in {"get"} \cup Reports => e.job_id \in JobIds
        /\ e.route \in {"submit", "claim"} => e.told = "absent"
    BY <1>1, <1>3 DEF GoesOn, Attended
  <2>2. e.phase = "working" /\ call'[h] # Idle
    BY <1>3 DEF GoesOn
  <2> QED
    BY <1>6, <2>1, <2>2 DEF Attended, Refusals
<1>8. Built(h)'
  BY <1>1, <1>3, <1>6 DEF GoesOn, Built, StoresKept
<1> QED
  BY <1>4, <1>5, <1>7, <1>8, ExchangeReplaced
     DEF GoesOn, Continue, StoresKept, EndpointsInv, PageTypes

\* Steps that leave the job service alone.
LEMMA ServiceLeftAlone ==
    ASSUME EndpointsInv, UNCHANGED allVars
    PROVE  ServiceInv'
  BY NextServiceInv DEF EndpointsInv

LEMMA ArriveKeepsInv ==
    ASSUME EndpointsInv, NEW h \in Handlers, NEW route \in Routes,
           NEW j \in JobIds \cup {None}, Arrive(h, route, j)
    PROVE  EndpointsInv'
<1>1. PICK e : e = [NoExchange EXCEPT
                      !.phase = IF cached[HostOf[h]] THEN "ready" ELSE "building",
                      !.route = route, !.job_id = j,
                      !.told = IF j = None THEN "absent" ELSE shown[j]]
  OBVIOUS
<1>2. exchange' = [exchange EXCEPT ![h] = e] /\ UNCHANGED <<allVars, hostVars, shown, failures>>
  BY <1>1 DEF Arrive
<1>3. /\ e.phase = IF cached[HostOf[h]] THEN "ready" ELSE "building"
      /\ e.route = route /\ e.job_id = j
      /\ e.told = IF j = None THEN "absent" ELSE shown[j]
      /\ e.built = 0 /\ e.code = 0 /\ e.body = Silence /\ e.touched = FALSE
  BY <1>1 DEF NoExchange
<1>4. e = [phase |-> e.phase, route |-> e.route, job_id |-> e.job_id, told |-> e.told,
           built |-> e.built, code |-> e.code, body |-> e.body, touched |-> e.touched]
  BY <1>1 DEF NoExchange
<1>5. e \in Exchanges
  <2>1. e.told \in JobStatus \cup {"absent"}
    BY <1>3 DEF EndpointsInv, PageTypes
  <2>2. e.phase \in {"none", "building", "ready", "working", "answered"}
          /\ e.route \in Routes \cup {"none"} /\ e.job_id \in JobIds \cup {None}
    BY <1>3
  <2>3. e.built \in 0 .. Len(Stores)
    BY <1>3, StoresAre
  <2>4. e.body \in Bodies
    BY <1>3, OtherBodies
  <2>5. e.code \in {0, 200, 201, 204, 400, 404, 409, 422, 500} /\ e.touched \in BOOLEAN
    BY <1>3
  <2> QED
    BY <1>4, <2>1, <2>2, <2>3, <2>4, <2>5 DEF Exchanges
<1>6. exchange'[h] = e
  BY <1>2 DEF EndpointsInv, PageTypes
<1>7. ServiceInv' /\ OthersKept(h)
  BY <1>2, ServiceLeftAlone, Alone DEF EndpointsInv, ServiceInv
<1>8. call'[h] = Idle
  <2>1. call[h] = Idle
    BY DEF Arrive, In, EndpointsInv, Attended
  <2> QED
    BY <1>2, <2>1 DEF allVars, serviceVars
<1>9. Attended(h)'
  <2>1. route \in {"submit", "claim"} <=> j = None
    BY DEF Arrive
  <2>2. e.phase # "working"
    BY <1>3
  <2>3. e.route \in {"get"} \cup Reports => e.job_id \in JobIds
    BY <1>3, <2>1 DEF Reports
  <2>4. e.route \in {"submit", "claim"} => e.told = "absent"
    BY <1>3, <2>1
  <2> QED
    BY <1>3, <1>6, <1>8, <2>2, <2>3, <2>4, StoresAre DEF Attended, Refusals
<1>10. Built(h)'
  <2>1. cached[HostOf[h]] => stores = AllStores
    BY HostOfType DEF EndpointsInv
  <2> QED
    BY <1>2, <1>3, <1>6, <2>1 DEF Built, hostVars
<1> QED
  BY <1>2, <1>5, <1>7, <1>9, <1>10, ExchangeReplaced DEF EndpointsInv, PageTypes, hostVars

LEMMA ConstructKeepsInv ==
    ASSUME EndpointsInv, NEW h \in Handlers, Construct(h)
    PROVE  EndpointsInv'
<1>1. PICK n : n = exchange[h].built + 1
  OBVIOUS
<1>2. exchange[h] \in Exchanges /\ Attended(h) /\ Built(h) /\ exchange[h].phase = "building"
  BY DEF EndpointsInv, PageTypes, Construct, In
<1>3. n \in 1 .. Len(Stores) /\ exchange[h].built \in 0 .. Len(Stores)
  BY <1>1, <1>2, StoresAre DEF Attended, Exchanges
<1>4. PICK e : e = IF n = Len(Stores)
                   THEN [exchange[h] EXCEPT !.phase = "ready", !.built = 0]
                   ELSE [exchange[h] EXCEPT !.built = n]
  OBVIOUS
<1>5. /\ exchange' = [exchange EXCEPT ![h] = e]
      /\ stores' = stores \cup {Stores[n]}
      /\ cached' = [cached EXCEPT ![HostOf[h]] = (n = Len(Stores)) \/ cached[HostOf[h]]]
      /\ UNCHANGED <<allVars, shown, failures, outages>>
  BY <1>1, <1>4, HostOfType DEF Construct, EndpointsInv, PageTypes
<1>6. /\ e \in Exchanges
      /\ e.phase = IF n = Len(Stores) THEN "ready" ELSE "building"
      /\ e.built = IF n = Len(Stores) THEN 0 ELSE n
      /\ e.route = exchange[h].route /\ e.job_id = exchange[h].job_id
      /\ e.told = exchange[h].told /\ e.code = exchange[h].code
      /\ e.body = exchange[h].body /\ e.touched = exchange[h].touched
  <2>1. CASE n = Len(Stores)
    <3>1. PICK ready : ready = [exchange[h] EXCEPT !.phase = "ready"]
      OBVIOUS
    <3>2. e = [ready EXCEPT !.built = 0]
      BY <1>4, <2>1, <3>1
    <3>3. /\ ready \in Exchanges /\ ready.phase = "ready"
          /\ ready.route = exchange[h].route /\ ready.job_id = exchange[h].job_id
          /\ ready.told = exchange[h].told /\ ready.code = exchange[h].code
          /\ ready.body = exchange[h].body /\ ready.touched = exchange[h].touched
      BY <1>2, <3>1 DEF Exchanges
    <3> QED
      BY <2>1, <3>2, <3>3, StoresAre DEF Exchanges
  <2>2. CASE n # Len(Stores)
    <3>1. e = [exchange[h] EXCEPT !.built = n] /\ n \in 0 .. Len(Stores)
      BY <1>3, <1>4, <2>2, StoresAre
    <3> QED
      BY <1>2, <2>2, <3>1 DEF Exchanges
  <2> QED
    BY <2>1, <2>2
<1>7. exchange'[h] = e
  BY <1>5 DEF EndpointsInv, PageTypes
<1>8. ServiceInv' /\ OthersKept(h) /\ call'[h] = call[h]
  BY <1>5, ServiceLeftAlone, Alone DEF EndpointsInv, ServiceInv, allVars, serviceVars
<1>9. Attended(h)'
  BY <1>2, <1>3, <1>6, <1>7, <1>8, StoresAre DEF Attended, Refusals
<1>10. stores \subseteq stores' /\ stores' \subseteq AllStores
  BY <1>3, <1>5, StoresAre DEF EndpointsInv, PageTypes, AllStores
<1>11. \A i \in 1 .. n : Stores[i] \in stores'
  BY <1>1, <1>2, <1>3, <1>5 DEF Built
<1>12. n = Len(Stores) => stores' = AllStores
  BY <1>10, <1>11, StoresAre DEF AllStores
<1>13. Built(h)'
  BY <1>1, <1>2, <1>3, <1>6, <1>7, <1>11, <1>12 DEF Built
<1>14. \A p \in Hosts : cached'[p] => stores' = AllStores
  BY <1>5, <1>10, <1>12 DEF EndpointsInv, PageTypes
<1> QED
  BY <1>5, <1>6, <1>8, <1>9, <1>10, <1>13, <1>14, ExchangeReplaced
     DEF EndpointsInv, PageTypes

LEMMA DeliverKeepsInv ==
    ASSUME EndpointsInv, NEW h \in Handlers, Deliver(h)
    PROVE  EndpointsInv'
<1>1. /\ exchange' = [exchange EXCEPT ![h] = NoExchange]
      /\ exchange[h].phase = "answered"
      /\ UNCHANGED <<allVars, hostVars, failures>>
  BY DEF Deliver, In
<1>2. NoExchange \in Exchanges
  BY StoresAre, OtherBodies DEF NoExchange, Exchanges
<1>3. exchange[h].body.status \in JobStatus \cup {"absent", "nothing"}
  BY DEF EndpointsInv, PageTypes, Exchanges, Bodies
<1>4. shown' \in [JobIds -> JobStatus \cup {"absent"}]
  BY <1>3 DEF Deliver, EndpointsInv, PageTypes
<1>5. ServiceInv' /\ OthersKept(h) /\ exchange'[h] = NoExchange
  BY <1>1, ServiceLeftAlone, Alone DEF EndpointsInv, ServiceInv, PageTypes
<1>6. call'[h] = Idle
  BY <1>1 DEF EndpointsInv, Attended, allVars, serviceVars
<1>7. Attended(h)' /\ Built(h)'
  BY <1>5, <1>6 DEF Attended, Built, NoExchange, Refusals
<1> QED
  BY <1>1, <1>2, <1>4, <1>5, <1>7, ExchangeReplaced DEF EndpointsInv, PageTypes, hostVars

LEMMA NextEndpointsInv ==
    ASSUME EndpointsInv, [EndpointsNext]_endpointVars
    PROVE  EndpointsInv'
<1>0. ServiceInv'
  BY StepIsServiceStep, NextServiceInv DEF EndpointsInv
<1>1. ASSUME NEW h \in Handlers,
             \/ \E route \in Routes, j \in JobIds \cup {None} : Arrive(h, route, j)
             \/ Construct(h) \/ Answers(h) \/ GoesOn(h) \/ Deliver(h)
      PROVE  EndpointsInv'
  BY <1>0, <1>1, ArriveKeepsInv, ConstructKeepsInv, AnswersKeepInv, GoesOnKeepsInv,
     DeliverKeepsInv
<1>2. ASSUME UNCHANGED <<call, exchangeVars, stores, outages>>,
             cached' \in [Hosts -> BOOLEAN], \A p \in Hosts : cached'[p] => cached[p]
      PROVE  EndpointsInv'
  <2>1. PageTypes'
    BY <1>2 DEF EndpointsInv, PageTypes, exchangeVars
  <2>2. \A h \in Handlers : Attended(h)' /\ Built(h)'
    BY <1>2 DEF EndpointsInv, Attended, Built, exchangeVars
  <2> QED
    BY <1>0, <1>2, <2>1, <2>2 DEF EndpointsInv
<1>3. ASSUME NEW p \in Hosts, Recycle(p)
      PROVE  EndpointsInv'
  BY <1>2, <1>3 DEF Recycle, EndpointsInv, PageTypes, allVars, serviceVars
<1>4. CASE QueueService /\ UNCHANGED <<exchangeVars, hostVars>>
  BY <1>2, <1>4 DEF QueueService, serviceVars, hostVars, EndpointsInv, PageTypes
<1>5. CASE UNCHANGED endpointVars
  BY <1>2, <1>5 DEF endpointVars, allVars, serviceVars, hostVars, EndpointsInv, PageTypes
<1> QED
  BY <1>1, <1>3, <1>4, <1>5, StepKinds

LEMMA EndpointsInvariant == EndpointsSpec => []EndpointsInv
<1>1. EndpointsInit => EndpointsInv
  BY InitEndpointsInv
<1>2. EndpointsInv /\ [EndpointsNext]_endpointVars => EndpointsInv'
  BY NextEndpointsInv
<1> QED
  BY <1>1, <1>2, PTL DEF EndpointsSpec

----
\* Every variable stays of its kind, whatever requests arrive at whatever
\* process and wherever their threads stop.
THEOREM EndpointsTypes == EndpointsSpec => []EndpointsTypeOK
<1>1. EndpointsInv => EndpointsTypeOK
  BY DEF EndpointsInv, ServiceInv, PageTypes, EndpointsTypeOK, AllStores
<1> QED
  BY <1>1, EndpointsInvariant, PTL

\* Around the endpoints the job service does what it does alone: its theorems
\* hold for the function app.
THEOREM EndpointsUseService == EndpointsSpec => ServiceSpec
<1>1. EndpointsInit => ServiceInit
  BY DEF EndpointsInit
<1>2. EndpointsInv /\ [EndpointsNext]_endpointVars => [ServiceNext]_allVars
  BY StepIsServiceStep
<1> QED
  BY <1>1, <1>2, EndpointsInvariant, PTL DEF EndpointsSpec, ServiceSpec

\* So whatever requests clients send, a job has the life JobLifecycle gives it.
COROLLARY EndpointsImplementLifecycle ==
    ASSUME OneMessagePerJob, WorkersHaveNames, ReportsDoNotOverlap
    PROVE  EndpointsSpec => ImplementsLifecycle
BY EndpointsUseService, ServiceImplementsLifecycle

\* _get_job_service: threads that build the service at the same time, and builds
\* that fail half way, never leave a service whose stores are not there.
THEOREM ServicesAreComplete == EndpointsSpec => []ServiceIsComplete
<1>1. EndpointsInv => ServiceIsComplete
  BY DEF EndpointsInv, Attended, Built, ServiceIsComplete, AllStores
<1> QED
  BY <1>1, EndpointsInvariant, PTL

\* A request that was refused may be sent again: it has changed nothing.
THEOREM RefusedRequestsChangeNothing == EndpointsSpec => []RefusalsChangeNothing
<1>1. EndpointsInv => RefusalsChangeNothing
  BY DEF EndpointsInv, Attended, RefusalsChangeNothing, Refusals
<1> QED
  BY <1>1, EndpointsInvariant, PTL

----
\* What an answer says of a job whose row is this.
Shows(row) == IF row # NoEntity THEN JobResponse(EntityToJob(row)) ELSE NotFound

Matches(e, row) ==
    /\ Leads(e.told, e.body.status)
    /\ Leads(e.body.status, row.status)
    /\ e.body.status = row.status => e.body = Shows(row)

\* What a request has been told, and what its answer says, of a job that was not
\* handed out twice.
Current(h) ==
    LET e == exchange[h]
        j == call[h].job_id
    IN  /\ e.phase \in {"building", "ready"} /\ e.job_id \in JobIds =>
               HandedOutTwice(e.job_id) \/ Leads(e.told, table[e.job_id].status)
        /\ e.phase = "working" =>
               j \in JobIds /\ (HandedOutTwice(j) \/ Leads(e.told, Row(h).status))
        /\ e.body.status # "nothing" =>
               e.job_id \in JobIds
                 /\ (HandedOutTwice(e.job_id) \/ Matches(e, table[e.job_id]))
        /\ At(h, "notify") => HandedOutTwice(j) \/ Row(h) = JobToEntity(call[h].job)

CurrentInv == /\ \A h \in Handlers : Current(h)
              /\ \A j \in JobIds : HandedOutTwice(j) \/ Leads(shown[j], table[j].status)

\* What the job service guarantees as long as a worker waits for the answer to
\* its report and no string is empty.
SafeInv == EndpointsInv /\ JobInv /\ ReportInv /\ CoherenceInv

Statuses == JobStatus \cup {"absent"}

LEMMA LeadsTransitive ==
    ASSUME NEW r \in Statuses, NEW s \in Statuses, NEW t \in Statuses,
           Leads(r, s), Leads(s, t)
    PROVE  Leads(r, t)
  BY DEF Statuses, JobStatus, Leads, Outcomes

LEMMA MovesLead ==
    ASSUME NEW old, NEW new, Moves(old, new),
           old.status \in Statuses, new.status \in Statuses
    PROVE  /\ Leads(old.status, new.status)
           /\ Leads(new.status, old.status) => new = old
  BY DEF Statuses, JobStatus, Leads, Outcomes, Moves

LEMMA RowStatus ==
    ASSUME ServiceTypeOK, NEW j \in JobIds
    PROVE  table[j].status \in Statuses
  BY DEF ServiceTypeOK, TableEntities, NoEntity, Statuses

\* A body that matched a row matches it after any step.
LEMMA MatchesStill ==
    ASSUME NEW e, NEW old, NEW new, Matches(e, old), Moves(old, new),
           e.told \in Statuses, e.body.status \in Statuses,
           old.status \in Statuses, new.status \in Statuses
    PROVE  Matches(e, new)
<1>1. Leads(e.body.status, new.status)
  BY MovesLead, LeadsTransitive DEF Matches
<1>2. ASSUME e.body.status = new.status
      PROVE  e.body = Shows(new)
  BY <1>2, MovesLead DEF Matches
<1> QED
  BY <1>1, <1>2 DEF Matches

\* What is written to a row is what an answer shows of it.
LEMMA StoredShows ==
    ASSUME NoEmptyStrings, NEW job \in Jobs
    PROVE  Shows(JobToEntity(job)) = JobResponse(job)
<1>1. JobToEntity(job) # NoEntity
  BY JobToEntityType, NoEntityIsNoEntity
<1>2. EntityToJob(JobToEntity(job)) = job
  BY NoneIsNoString, JobsSurviveStorage DEF NoEmptyStrings, Jobs
<1> QED
  BY <1>1, <1>2 DEF Shows, JobResponse, ResultUrl

LEMMA QueuedShows ==
    ASSUME NEW row \in TableEntities, CoherentRow(row), row.status = "queued"
    PROVE  Shows(row) = JobResponse(NewJob)
<1>1. row # NoEntity
  BY NoEntityIsNoEntity
<1>2. row.result_reference = Blank /\ row.error_message = Blank
  BY DEF CoherentRow
<1>3. /\ EntityToJob(row).status = "queued" /\ EntityToJob(row).result_reference = None
      /\ EntityToJob(row).error_message = None
  BY <1>2 DEF EntityToJob, FromColumn
<1> QED
  BY <1>1, <1>3 DEF Shows, JobResponse, ResultUrl, NewJob

----
\* The facts that every step of SafeInv provides.
StepOfRows == /\ SafeInv /\ CurrentInv /\ EndpointsInv' /\ JobInv'
              /\ \A j \in JobIds : HandedOutTwice(j) => HandedOutTwice(j)'
              /\ \A j \in JobIds : HandedOutTwice(j) \/ Moves(table[j], table'[j])

LEMMA ToldStatus ==
    ASSUME EndpointsInv, NEW h \in Handlers
    PROVE  /\ exchange[h].told \in Statuses
           /\ exchange[h].body.status # "nothing" => exchange[h].body.status \in Statuses
<1>1. exchange[h] \in Exchanges
  BY DEF EndpointsInv, PageTypes
<1> QED
  BY <1>1 DEF Exchanges, Bodies, Statuses

\* A thread whose exchange and call are left alone, or whose call has ended.
LEMMA CurrentKept ==
    ASSUME StepOfRows, NEW h \in Handlers, exchange'[h] = exchange[h],
           call'[h] = call[h] \/ (call'[h] = Idle /\ exchange[h].phase # "working")
    PROVE  Current(h)'
<1>e. PICK e : e = exchange[h] /\ e = exchange'[h]
  OBVIOUS
<1>1. /\ Current(h) /\ Attended(h) /\ CallShape(call[h])
      /\ ReportCurrent(h) /\ e.told \in Statuses
  BY <1>e, ToldStatus DEF StepOfRows, SafeInv, CurrentInv, EndpointsInv, ServiceInv,
                          CallsShaped, ReportInv
<1>2. \A j \in JobIds : table[j].status \in Statuses /\ table'[j].status \in Statuses
  <2>1. ServiceTypeOK /\ ServiceTypeOK'
    BY DEF StepOfRows, SafeInv, EndpointsInv, ServiceInv
  <2> QED
    BY <2>1, RowStatus DEF ServiceTypeOK, TableEntities, NoEntity, Statuses
<1>3. \A j \in JobIds : HandedOutTwice(j) \/ Leads(table[j].status, table'[j].status)
  BY <1>2, MovesLead DEF StepOfRows
<1>t. \A j \in JobIds : HandedOutTwice(j) => HandedOutTwice(j)'
  BY DEF StepOfRows
<1>4. ASSUME e.phase \in {"building", "ready"}, e.job_id \in JobIds
      PROVE  HandedOutTwice(e.job_id)' \/ Leads(e.told, table'[e.job_id].status)
  <2>1. HandedOutTwice(e.job_id) \/ Leads(e.told, table[e.job_id].status)
    BY <1>e, <1>1, <1>4 DEF Current
  <2>2. HandedOutTwice(e.job_id) \/ Leads(e.told, table'[e.job_id].status)
    BY <1>1, <1>2, <1>3, <1>4, <2>1, LeadsTransitive
  <2> QED
    BY <1>4, <1>t, <2>2
<1>5. ASSUME e.phase = "working", call'[h] = call[h]
      PROVE  LET j == call[h].job_id
             IN  j \in JobIds /\ (HandedOutTwice(j)' \/ Leads(e.told, table'[j].status))
  <2>1. PICK j \in JobIds : j = call[h].job_id /\ j = call'[h].job_id
                              /\ (HandedOutTwice(j) \/ Leads(e.told, table[j].status))
    BY <1>e, <1>1, <1>5 DEF Current, Row
  <2>2. HandedOutTwice(j) \/ Leads(e.told, table'[j].status)
    BY <1>1, <1>2, <1>3, <2>1, LeadsTransitive
  <2> QED
    BY <1>t, <2>1, <2>2
<1>6. ASSUME e.body.status # "nothing"
      PROVE  e.job_id \in JobIds /\ (HandedOutTwice(e.job_id)' \/ Matches(e, table'[e.job_id]))
  <2>1. e.job_id \in JobIds /\ (HandedOutTwice(e.job_id) \/ Matches(e, table[e.job_id]))
    BY <1>e, <1>1, <1>6 DEF Current
  <2>2. e.body.status \in Statuses
          /\ (HandedOutTwice(e.job_id) \/ Moves(table[e.job_id], table'[e.job_id]))
    BY <1>e, <1>6, <2>1, ToldStatus DEF StepOfRows, SafeInv
  <2> QED
    BY <1>1, <1>2, <1>t, <2>1, <2>2, MatchesStill
<1>7. ASSUME call'[h] = call[h], call[h].step = "notify"
      PROVE  LET j == call[h].job_id
             IN  HandedOutTwice(j)' \/ table'[j] = JobToEntity(call[h].job)
  <2>1. call[h].job_id \in JobIds
          /\ (\/ HandedOutTwice(call[h].job_id)
              \/ Row(h) = JobToEntity(call[h].job) /\ Row(h).status \in Outcomes)
    BY <1>1, <1>7 DEF Current, At, CallShape, ReportCurrent, Reporting
  <2> QED
    BY <1>7, <2>1 DEF StepOfRows, Moves, Row, Outcomes
<1>8. Idle.step = "idle"
  BY DEF Idle
<1>9. call'[h] = call[h] \/ (call'[h].step = "idle" /\ e.phase # "working")
  BY <1>e, <1>8
<1> QED
  BY <1>e, <1>4, <1>5, <1>6, <1>7, <1>9 DEF Current, At, Row

\* A thread that answers says what the row says, or what it said before.
LEMMA CurrentAnswer ==
    ASSUME StepOfRows, NEW h \in Handlers, NEW code, NEW j, NEW body,
           AnswerAbout(h, code, j, body), call'[h] = Idle,
           body.status # "nothing" =>
               /\ j \in JobIds
               /\ \/ HandedOutTwice(j)'
                  \/ /\ Leads(exchange[h].told, body.status)
                     /\ Leads(body.status, table'[j].status)
                     /\ body.status = table'[j].status => body = Shows(table'[j])
    PROVE  Current(h)'
<1>1. /\ exchange'[h].phase = "answered" /\ exchange'[h].told = exchange[h].told
      /\ exchange'[h].job_id = j /\ exchange'[h].body = body
  BY DEF AnswerAbout, After, StepOfRows, SafeInv, EndpointsInv, PageTypes
<1>2. call'[h].step # "notify"
  BY DEF Idle
<1> QED
  BY <1>1, <1>2 DEF Current, Matches, At

\* The thread has not called the service yet, and its answer speaks of no job.
LEMMA CurrentSilence ==
    ASSUME StepOfRows, NEW h \in Handlers, NEW code, Answer(h, code), call'[h] = Idle
    PROVE  Current(h)'
  BY CurrentAnswer DEF Answer, Silence

\* It speaks of the row that it has read.
LEMMA CurrentRead ==
    ASSUME StepOfRows, NEW h \in Handlers, GetJob(h) \/ RefuseReport(h)
    PROVE  Current(h)'
<1>0. PICK j : j = exchange[h].job_id
  OBVIOUS
<1>1. call'[h] = Idle /\ UNCHANGED table
  BY DEF GetJob, RefuseReport, In, StepOfRows, SafeInv, EndpointsInv, Attended,
         allVars, serviceVars
<1>2. j \in JobIds /\ (HandedOutTwice(j)' \/ Leads(exchange[h].told, table[j].status))
  BY <1>0 DEF GetJob, RefuseReport, In, StepOfRows, SafeInv, EndpointsInv, Attended,
              CurrentInv, Current
<1>3. CASE Exists(j) /\ \E code : AnswerAbout(h, code, j, JobResponse(Get(j)))
  <2>1. JobResponse(Get(j)) = Shows(table[j])
    BY <1>3 DEF Exists, Get, Shows
  <2>2. JobResponse(Get(j)).status = table[j].status
    BY DEF JobResponse, Get, EntityToJob
  <2>3. Leads(table[j].status, table[j].status)
    BY DEF Leads
  <2> QED
    BY <1>1, <1>2, <1>3, <2>1, <2>2, <2>3, CurrentAnswer
<1>4. CASE ~Exists(j) /\ \E code : AnswerAbout(h, code, j, NotFound)
  <2>1. NotFound = Shows(table[j]) /\ NotFound.status = table[j].status
    BY <1>4 DEF Exists, Shows, NotFound, Silence, NoEntity
  <2>2. Leads(table[j].status, table[j].status)
    BY DEF Leads
  <2> QED
    BY <1>1, <1>2, <1>4, <2>1, <2>2, CurrentAnswer
<1>5. CASE \E code : Answer(h, code)
  BY <1>1, <1>5, CurrentSilence
<1> QED
  BY <1>0, <1>3, <1>4, <1>5 DEF GetJob, RefuseReport

\* It speaks of the job that its operation ends with.
LEMMA CurrentAfter ==
    ASSUME NoEmptyStrings, StepOfRows, NEW h \in Handlers,
           SubmitAnswer(h) \/ ClaimAnswer(h) \/ ReportAnswer(h)
    PROVE  Current(h)'
<1>0. PICK j : j = call[h].job_id
  OBVIOUS
<1>1. /\ call[h].step \in {"enqueue", "record", "notify"} /\ call[h] # Idle
      /\ Finish(h)
  BY DEF SubmitAnswer, SubmitEnqueue, ClaimAnswer, ClaimRecord, ReportAnswer,
         ReportNotify, At, Idle
<1>2. /\ call'[h] = Idle /\ j \in JobIds
      /\ Attended(h) /\ Current(h) /\ ReportCurrent(h) /\ CallShape(call[h])
      /\ JobInv /\ ServiceInv /\ CallsPrepared
      /\ HandedOutTwice(j) => HandedOutTwice(j)'
  BY <1>0, <1>1 DEF StepOfRows, SafeInv, JobInv, ServiceInv, ServiceTypeOK, CallsShaped,
                    CallShape, EndpointsInv, CurrentInv, ReportInv, Finish
<1>3. HandedOutTwice(j) \/ Leads(exchange[h].told, table[j].status)
  BY <1>0, <1>1, <1>2 DEF Attended, Current, Row
<1>4. /\ table \in [JobIds -> TableEntities \cup {NoEntity}]
      /\ exchange[h].told \in Statuses
  BY ToldStatus DEF StepOfRows, SafeInv, EndpointsInv, ServiceInv, ServiceTypeOK
<1>5. Leads("queued", "queued") /\ Leads("queued", "processing")
        /\ \A status \in Outcomes : Leads(status, status)
  BY DEF Leads
<1>6. CASE SubmitAnswer(h)
  <2>1. table[j].status = "queued" /\ UNCHANGED table
    BY <1>0, <1>2, <1>6, SubmitterFinds DEF SubmitAnswer, SubmitEnqueue, Row
  <2>2. table[j] \in TableEntities /\ CoherentRow(table[j])
    BY <1>2, <1>4, <2>1
       DEF NoEntity, StepOfRows, SafeInv, CoherenceInv, RowsCoherent
  <2>3. JobResponse(NewJob) = Shows(table[j]) /\ JobResponse(NewJob).status = "queued"
    BY <2>1, <2>2, QueuedShows DEF JobResponse, NewJob
  <2>4. AnswerAbout(h, 201, j, JobResponse(NewJob))
    BY <1>0, <1>6 DEF SubmitAnswer
  <2> QED
    BY <1>2, <1>3, <1>5, <2>1, <2>3, <2>4, CurrentAnswer
<1>7. ASSUME ClaimAnswer(h) \/ ReportAnswer(h),
             \/ HandedOutTwice(j)
             \/ /\ table'[j] = JobToEntity(call[h].job)
                /\ Leads(exchange[h].told, call[h].job.status), call[h].job \in Jobs
      PROVE  Current(h)'
  <2>1. PICK job : job = call[h].job
    OBVIOUS
  <2>2. HandedOutTwice(j) \/ JobResponse(job) = Shows(table'[j])
    BY <1>7, <2>1, StoredShows
  <2>3. /\ JobResponse(job).status = job.status
        /\ HandedOutTwice(j) \/ table'[j].status = job.status
    BY <1>7, <2>1, StoredColumns DEF JobResponse
  <2>4. Leads(job.status, job.status)
    BY DEF Leads
  <2>5. AnswerAbout(h, 200, j, JobResponse(job))
    BY <1>0, <1>7, <2>1 DEF ClaimAnswer, ReportAnswer
  <2> QED
    BY <1>2, <1>7, <2>1, <2>2, <2>3, <2>4, <2>5, CurrentAnswer
<1>8. CASE ClaimAnswer(h)
  <2>1. ClaimRecord(h) /\ call[h].step \in {"load", "record"}
    BY <1>8 DEF ClaimAnswer, ClaimRecord, At
  <2>2. /\ HandedOutTwice(j) \/ table[j].status = "queued"
        /\ table'[j] = JobToEntity(call[h].job)
        /\ call[h].job.status = "processing" /\ call[h].job \in Jobs
    BY <1>0, <1>2, <2>1, HolderFinds, RowWritten DEF Row
  <2>3. "queued" \in Statuses /\ "processing" \in Statuses
    BY DEF Statuses, JobStatus
  <2>4. HandedOutTwice(j) \/ Leads(exchange[h].told, "processing")
    BY <1>3, <1>4, <1>5, <2>2, <2>3, LeadsTransitive
  <2> QED
    BY <1>7, <1>8, <2>2, <2>4
<1>9. CASE ReportAnswer(h)
  <2>1. At(h, "notify") /\ UNCHANGED table
    BY <1>9 DEF ReportAnswer, ReportNotify
  <2>2. /\ call[h].job \in Jobs
        /\ \/ HandedOutTwice(j)
           \/ table[j] = JobToEntity(call[h].job) /\ table[j].status = call[h].job.status
    BY <1>0, <1>2, <2>1 DEF Current, CallShape, ReportCurrent, Reporting, At, Row
  <2> QED
    BY <1>3, <1>7, <1>9, <2>1, <2>2
<1> QED
  BY <1>6, <1>8, <1>9

LEMMA CurrentAborted ==
    ASSUME StepOfRows, NEW h \in Handlers, ClaimRaises(h) \/ StopShort(h)
    PROVE  Current(h)'
<1>1. Finish(h) /\ Answer(h, 500)
  BY DEF ClaimRaises, ClaimDeleteRejected, ClaimRefused, ClaimLoad, StopShort, Abort
<1>2. call'[h] = Idle
  BY <1>1 DEF Finish, StepOfRows, SafeInv, EndpointsInv, ServiceInv, ServiceTypeOK
<1> QED
  BY <1>1, <1>2, CurrentSilence

\* A thread that goes on: its job is the one that the request named, or one
\* that no client of this request has been told of.
LEMMA CurrentGoesOn ==
    ASSUME StepOfRows, NEW h \in Handlers, Continue(h),
           \/ SubmitJob(h) \/ ReportJob(h) \/ Proceed(h)
           \/ In(h, "ready") /\ exchange[h].route = "claim"
                /\ (\E w \in WorkerIds : ClaimReceive(h, w))
    PROVE  Current(h)'
<1>1. /\ exchange'[h].phase = "working" /\ exchange'[h].told = exchange[h].told
      /\ exchange'[h].body.status = "nothing"
  BY DEF Continue, After, Silence, StepOfRows, SafeInv, EndpointsInv, PageTypes
<1>2. /\ Attended(h) /\ Current(h) /\ exchange[h].told \in Statuses
      /\ call \in [Handlers -> Calls]
      /\ table \in [JobIds -> TableEntities \cup {NoEntity}]
  BY ToldStatus DEF StepOfRows, SafeInv, EndpointsInv, CurrentInv, ServiceInv, ServiceTypeOK
<1>3. \A j \in JobIds : /\ table[j].status \in Statuses /\ table'[j].status \in Statuses
                        /\ HandedOutTwice(j) => HandedOutTwice(j)'
                        /\ HandedOutTwice(j) \/ Leads(table[j].status, table'[j].status)
  <2>1. ServiceTypeOK /\ ServiceTypeOK'
    BY DEF StepOfRows, SafeInv, EndpointsInv, ServiceInv
  <2>2. \A j \in JobIds : table[j].status \in Statuses /\ table'[j].status \in Statuses
    BY <2>1 DEF ServiceTypeOK, TableEntities, NoEntity, Statuses
  <2> QED
    BY <2>2, MovesLead DEF StepOfRows
<1>4. ASSUME NEW j \in JobIds, call'[h].job_id = j,
             \/ exchange[h].told = "absent"
             \/ HandedOutTwice(j) \/ Leads(exchange[h].told, table[j].status),
             call'[h].step = "notify" =>
                HandedOutTwice(j)' \/ table'[j] = JobToEntity(call'[h].job)
      PROVE  Current(h)'
  <2>1. HandedOutTwice(j)' \/ Leads(exchange[h].told, table'[j].status)
    BY <1>2, <1>3, <1>4, LeadsTransitive DEF Leads
  <2> QED
    BY <1>1, <1>4, <2>1 DEF Current, At, Row
<1>5. CASE SubmitJob(h)
  <2>1. PICK j \in JobIds : SubmitCreate(h, j)
    BY <1>5 DEF SubmitJob
  <2>2. call'[h] = [Idle EXCEPT !.step = "enqueue", !.job_id = j]
    BY <1>2, <2>1 DEF SubmitCreate, Begin
  <2>3. call'[h].job_id = j /\ call'[h].step = "enqueue"
    BY <2>2 DEF Idle
  <2>4. exchange[h].told = "absent"
    BY <1>2, <1>5 DEF SubmitJob, In, Attended
  <2> QED
    BY <1>4, <2>3, <2>4
<1>6. CASE In(h, "ready") /\ exchange[h].route = "claim"
             /\ \E w \in WorkerIds : ClaimReceive(h, w)
  <2>1. PICK w \in WorkerIds, m \in Messages :
          call' = [call EXCEPT ![h] = [Idle EXCEPT !.step = "delete", !.job_id = m[1],
                                                   !.worker_id = w]]
    BY <1>6 DEF ClaimReceive, Begin
  <2>2. call'[h].job_id = m[1] /\ call'[h].step = "delete"
    BY <1>2, <2>1 DEF Idle
  <2>3. m[1] \in JobIds
    BY MessageParts
  <2>4. exchange[h].told = "absent"
    BY <1>2, <1>6 DEF In, Attended
  <2> QED
    BY <1>4, <2>2, <2>3, <2>4
<1>7. CASE ReportJob(h)
  <2>0. PICK j : j = exchange[h].job_id
    OBVIOUS
  <2>1. j \in JobIds /\ (HandedOutTwice(j) \/ Leads(exchange[h].told, table[j].status))
    BY <1>2, <1>7, <2>0 DEF ReportJob, In, Attended, Current, Reports
  <2>2. PICK w, job : BeginReport(h, j, w, job)
    BY <1>7, <2>0 DEF ReportJob, CompleteLoad, FailLoad
  <2>3. call'[h].job_id = j /\ call'[h].step = "save"
    BY <1>2, <2>2 DEF BeginReport, Begin
  <2> QED
    BY <1>4, <2>1, <2>3
<1>8. CASE Proceed(h)
  <2>0. PICK j : j = call[h].job_id
    OBVIOUS
  <2>1. exchange[h].phase = "working"
    BY <1>2, <1>8 DEF Proceed, ClaimDelete, ClaimAccepted, ClaimLoad, ReportSave, At, Idle, Attended
  <2>2. j \in JobIds /\ (HandedOutTwice(j) \/ Leads(exchange[h].told, table[j].status))
    BY <1>2, <2>0, <2>1 DEF Current, Row
  <2>3. call'[h].job_id = j
    BY <1>2, <1>8, <2>0 DEF Proceed, ClaimDelete, ClaimAccepted, ClaimLoad, ReportSave, Calls
  <2>4. call'[h].step = "notify" => table'[j] = JobToEntity(call'[h].job)
    <3>1. CASE ReportSave(h)
      <4>1. call'[h].job = call[h].job
        BY <1>2, <3>1 DEF ReportSave, Calls
      <4>2. table'[j] = JobToEntity(call[h].job)
        BY <1>2, <2>0, <2>2, <3>1 DEF ReportSave, Update
      <4> QED
        BY <4>1, <4>2
    <3>2. CASE ClaimDelete(h) \/ ClaimAccepted(h)
      BY <1>2, <3>2 DEF ClaimDelete, ClaimAccepted, ClaimLoad, Calls
    <3> QED
      BY <1>8, <3>1, <3>2 DEF Proceed
  <2> QED
    BY <1>4, <2>2, <2>3, <2>4
<1> QED
  BY <1>5, <1>6, <1>7, <1>8

\* A request that arrives is told what its client knew; the service is built.
LEMMA CurrentArrives ==
    ASSUME StepOfRows, NEW h \in Handlers,
           \/ \E route \in Routes, j \in JobIds \cup {None} : Arrive(h, route, j)
           \/ Construct(h)
    PROVE  Current(h)'
<1>1. UNCHANGED allVars /\ call[h] = Idle
  BY DEF Arrive, Construct, In, StepOfRows, SafeInv, EndpointsInv, Attended
<1>2. call'[h] = Idle /\ UNCHANGED <<table, returned>>
  BY <1>1 DEF allVars, queueVars, serviceVars
<1>t. \A j \in JobIds : HandedOutTwice(j) => HandedOutTwice(j)'
  BY DEF StepOfRows
<1>3. /\ Attended(h) /\ Current(h) /\ exchange[h] \in Exchanges /\ Attended(h)'
      /\ exchange'[h] \in Exchanges
  BY DEF StepOfRows, SafeInv, EndpointsInv, PageTypes, CurrentInv
<1>4. ASSUME exchange'[h].phase # "answered",
             exchange'[h].job_id \in JobIds =>
                \/ HandedOutTwice(exchange[h].job_id)'
                \/ Leads(exchange'[h].told, table[exchange'[h].job_id].status)
      PROVE  Current(h)'
  <2>1. exchange'[h].phase # "working" /\ exchange'[h].body.status = "nothing"
    BY <1>2, <1>3, <1>4 DEF Attended, Silence
  <2> QED
    BY <1>2, <1>4, <2>1 DEF Current, At, Idle
<1>5. ASSUME NEW route \in Routes, NEW j \in JobIds \cup {None}, Arrive(h, route, j)
      PROVE  Current(h)'
  <2>1. PICK e : /\ e = [NoExchange EXCEPT
                          !.phase = IF cached[HostOf[h]] THEN "ready" ELSE "building",
                          !.route = route, !.job_id = j,
                          !.told = IF j = None THEN "absent" ELSE shown[j]]
                 /\ exchange' = [exchange EXCEPT ![h] = e]
    BY <1>5 DEF Arrive
  <2>2. /\ e.phase \in {"ready", "building"} /\ e.job_id = j
        /\ e.told = IF j = None THEN "absent" ELSE shown[j]
    BY <2>1 DEF NoExchange
  <2>3. exchange'[h] = e
    BY <2>1 DEF StepOfRows, SafeInv, EndpointsInv, PageTypes
  <2>4. j \in JobIds => HandedOutTwice(j)' \/ Leads(e.told, table[j].status)
    BY <2>2 DEF StepOfRows, CurrentInv, Leads
  <2> QED
    BY <1>4, <2>2, <2>3, <2>4
<1>6. CASE Construct(h)
  <2>1. PICK n \in {exchange[h].built + 1}, done \in BOOLEAN :
          exchange' = [exchange EXCEPT ![h] =
                         IF done THEN [exchange[h] EXCEPT !.phase = "ready", !.built = 0]
                                 ELSE [exchange[h] EXCEPT !.built = n]]
    BY <1>6 DEF Construct
  <2>2. exchange'[h] = IF done THEN [exchange[h] EXCEPT !.phase = "ready", !.built = 0]
                               ELSE [exchange[h] EXCEPT !.built = n]
    BY <2>1 DEF StepOfRows, SafeInv, EndpointsInv, PageTypes
  <2>3. exchange[h].phase = "building"
    BY <1>6 DEF Construct, In
  <2>4. /\ exchange'[h].phase \in {"ready", "building"}
        /\ exchange'[h].job_id = exchange[h].job_id
        /\ exchange'[h].told = exchange[h].told
    <3>1. CASE done
      <4>1. PICK ready : ready = [exchange[h] EXCEPT !.phase = "ready"]
        OBVIOUS
      <4>2. exchange'[h] = [ready EXCEPT !.built = 0]
        BY <2>2, <3>1, <4>1
      <4>3. /\ ready \in Exchanges /\ ready.phase = "ready"
            /\ ready.job_id = exchange[h].job_id /\ ready.told = exchange[h].told
        BY <1>3, <4>1 DEF Exchanges
      <4> QED
        BY <4>2, <4>3 DEF Exchanges
    <3>2. CASE ~done
      BY <1>3, <2>2, <2>3, <3>2 DEF Exchanges
    <3> QED
      BY <3>1, <3>2
  <2> QED
    BY <1>3, <1>t, <1>4, <2>3, <2>4 DEF Current
<1> QED
  BY <1>5, <1>6

LEMMA InitCurrentInv == EndpointsInit => CurrentInv
  BY DEF EndpointsInit, ServiceInit, CurrentInv, Current, NoExchange, Silence, Idle,
         NoEntity, Leads, At

LEMMA NextCurrentInv ==
    ASSUME NoEmptyStrings, StepOfRows, [EndpointsNext]_endpointVars
    PROVE  CurrentInv'
<1>1. ASSUME NEW j \in JobIds,
             \/ shown'[j] = shown[j]
             \/ HandedOutTwice(j) \/ Leads(shown'[j], table[j].status)
      PROVE  HandedOutTwice(j)' \/ Leads(shown'[j], table'[j].status)
  <2>1. HandedOutTwice(j) \/ Leads(shown'[j], table[j].status)
    BY <1>1 DEF StepOfRows, CurrentInv
  <2>2. table[j].status \in Statuses /\ table'[j].status \in Statuses
    <3>1. ServiceTypeOK /\ ServiceTypeOK'
      BY DEF StepOfRows, SafeInv, EndpointsInv, ServiceInv
    <3> QED
      BY <3>1 DEF ServiceTypeOK, TableEntities, NoEntity, Statuses
  <2>3. shown'[j] \in Statuses
    BY DEF StepOfRows, EndpointsInv, PageTypes, Statuses
  <2> QED
    BY <2>1, <2>2, <2>3, MovesLead, LeadsTransitive DEF StepOfRows
<1>2. ASSUME shown' = shown, \A h \in Handlers : Current(h)'
      PROVE  CurrentInv'
  BY <1>1, <1>2 DEF CurrentInv
<1>3. ASSUME NEW h \in Handlers, OthersKept(h), Current(h)', shown' = shown
      PROVE  CurrentInv'
  <2>1. ASSUME NEW g \in Handlers
        PROVE  Current(g)'
    <3>1. CASE g = h
      BY <1>3, <3>1
    <3>2. CASE g # h
      BY <1>3, <3>2, CurrentKept DEF OthersKept
    <3> QED
      BY <3>1, <3>2
  <2> QED
    BY <1>2, <1>3, <2>1
<1>4. ASSUME NEW h \in Handlers, Answers(h) \/ GoesOn(h), Current(h)'
      PROVE  CurrentInv'
  BY <1>3, <1>4 DEF Answers, GoesOn, AnswerAbout, Continue
<1>e. EndpointsInv
  BY DEF StepOfRows, SafeInv
<1>5. ASSUME NEW h \in Handlers,
             \/ \E route \in Routes, j \in JobIds \cup {None} : Arrive(h, route, j)
             \/ Construct(h)
      PROVE  CurrentInv'
  <2>1. \E e : exchange' = [exchange EXCEPT ![h] = e]
    BY <1>5 DEF Arrive, Construct
  <2>2. UNCHANGED allVars /\ shown' = shown
    BY <1>5 DEF Arrive, Construct
  <2>3. OthersKept(h)
    BY <1>e, <2>1, <2>2, Alone DEF EndpointsInv, ServiceInv
  <2> QED
    BY <1>3, <1>5, <2>2, <2>3, CurrentArrives
<1>6. ASSUME NEW h \in Handlers, GetJob(h) \/ RefuseReport(h)
      PROVE  CurrentInv'
  BY <1>e, <1>4, <1>6, BeforeAnswers, CurrentRead
<1>7. ASSUME NEW h \in Handlers,
             \/ Raise(h) \/ RefuseBody(h)
             \/ UNCHANGED <<allVars, hostVars>> /\ In(h, "ready") /\ Answer(h, 204)
      PROVE  CurrentInv'
  <2>1. Answers(h) /\ \E code : Answer(h, code)
    BY <1>e, <1>7, BeforeAnswers DEF Raise, RefuseBody
  <2>2. call'[h] = Idle
    BY <2>1 DEF Answers
  <2> QED
    BY <1>4, <2>1, <2>2, CurrentSilence
<1>8. ASSUME NEW h \in Handlers, SubmitAnswer(h) \/ ClaimAnswer(h) \/ ReportAnswer(h)
      PROVE  CurrentInv'
  BY <1>e, <1>4, <1>8, AfterAnswers, CurrentAfter
<1>9. ASSUME NEW h \in Handlers, ClaimRaises(h) \/ StopShort(h)
      PROVE  CurrentInv'
  BY <1>e, <1>4, <1>9, AfterAnswers, CurrentAborted
<1>10. ASSUME NEW h \in Handlers,
              \/ SubmitJob(h) \/ ReportJob(h) \/ Proceed(h)
              \/ ClaimJob(h) /\ (\E w \in WorkerIds : ClaimReceive(h, w)) /\ Continue(h)
       PROVE  CurrentInv'
  <2>1. GoesOn(h) /\ Continue(h)
    BY <1>e, <1>10, ThreadGoesOn DEF ClaimJob, SubmitJob, ReportJob, Proceed
  <2>2. Current(h)'
    BY <1>10, <2>1, CurrentGoesOn DEF ClaimJob
  <2> QED
    BY <1>4, <2>1, <2>2
<1>11. ASSUME NEW h \in Handlers, ClaimJob(h)
       PROVE  CurrentInv'
  BY <1>7, <1>10, <1>11 DEF ClaimJob
<1>12. ASSUME NEW h \in Handlers, Deliver(h)
       PROVE  CurrentInv'
  <2>1. /\ exchange' = [exchange EXCEPT ![h] = NoExchange] /\ UNCHANGED allVars
        /\ Current(h)
    BY <1>12 DEF Deliver, StepOfRows, CurrentInv
  <2>2. OthersKept(h) /\ exchange'[h] = NoExchange
    BY <1>e, <2>1, Alone DEF EndpointsInv, PageTypes, ServiceInv
  <2>3. call'[h] = Idle
    BY <1>e, <1>12, <2>1 DEF Deliver, In, EndpointsInv, Attended, allVars, serviceVars
  <2>4. Current(h)'
    BY <2>2, <2>3 DEF Current, NoExchange, Silence, At, Idle
  <2>5. ASSUME NEW g \in Handlers
        PROVE  Current(g)'
    <3>1. CASE g = h
      BY <2>4, <3>1
    <3>2. CASE g # h
      BY <2>2, <3>2, CurrentKept DEF OthersKept
    <3> QED
      BY <3>1, <3>2
  <2>6. ASSUME NEW j \in JobIds
        PROVE  \/ shown'[j] = shown[j]
               \/ HandedOutTwice(j) \/ Leads(shown'[j], table[j].status)
    <3>1. CASE exchange[h].body.status \in {"nothing", "absent"}
      BY <1>12, <3>1 DEF Deliver
    <3>2. CASE exchange[h].body.status \notin {"nothing", "absent"}
      <4>0. PICK i : i = exchange[h].job_id
        OBVIOUS
      <4>1. HandedOutTwice(i) \/ Leads(exchange[h].body.status, table[i].status)
        BY <2>1, <3>2, <4>0 DEF Current, Matches
      <4>2. shown' = [shown EXCEPT ![i] = IF Leads(shown[i], exchange[h].body.status)
                                          THEN exchange[h].body.status ELSE shown[i]]
        BY <1>12, <3>2, <4>0 DEF Deliver
      <4>3. shown'[j] = shown[j] \/ (i = j /\ shown'[j] = exchange[h].body.status)
        BY <1>e, <4>2 DEF EndpointsInv, PageTypes
      <4> QED
        BY <4>1, <4>3
    <3> QED
      BY <3>1, <3>2
  <2> QED
    BY <1>1, <2>5, <2>6 DEF CurrentInv
<1>13. ASSUME UNCHANGED <<call, exchange, shown>>
       PROVE  CurrentInv'
  <2>1. ASSUME NEW h \in Handlers
        PROVE  Current(h)'
    <3>1. exchange'[h] = exchange[h] /\ call'[h] = call[h]
      BY <1>13
    <3> QED
      BY <3>1, CurrentKept
  <2> QED
    BY <1>2, <1>13, <2>1
<1>14. ASSUME \/ \E p \in Hosts : Recycle(p)
              \/ QueueService /\ UNCHANGED <<exchangeVars, hostVars>>
              \/ UNCHANGED endpointVars
       PROVE  CurrentInv'
  BY <1>13, <1>14 DEF Recycle, QueueService, endpointVars, allVars, serviceVars, exchangeVars
<1> QED
  BY <1>5, <1>6, <1>7, <1>8, <1>9, <1>10, <1>11, <1>12, <1>14 DEF EndpointsNext, Work

\* Whatever requests overlap, wherever handlers stop and timeouts end, an answer
\* is never older than what was known when the request arrived, unless its job was
\* handed out twice: as long as no string is empty, and no second report on a job
\* is let through while the first is being carried out.
THEOREM AnswersStayCurrent ==
    ASSUME NoEmptyStrings, ReportsDoNotOverlap
    PROVE  EndpointsSpec => []AnswersAreCurrent
<1>1. EndpointsInit => SafeInv /\ CurrentInv
  <2>1. ServiceInit => JobInv /\ ReportInv /\ CoherenceInv
    BY InitJobInv, InitReportInv
       DEF ServiceInit, CoherenceInv, RowsCoherent, CopiesCoherent, CoherentRow,
           CopyCoherent, NoEntity, Idle
  <2> QED
    BY <2>1, InitEndpointsInv, InitCurrentInv DEF EndpointsInit, SafeInv
<1>2. SafeInv /\ CurrentInv /\ [EndpointsNext]_endpointVars => SafeInv' /\ CurrentInv'
  <2> SUFFICES ASSUME SafeInv, CurrentInv, [EndpointsNext]_endpointVars
               PROVE  SafeInv' /\ CurrentInv'
    OBVIOUS
  <2>1. [ServiceNext]_allVars
    BY StepIsServiceStep DEF SafeInv
  <2>2. JobInv' /\ ReportInv' /\ CoherenceInv' /\ EndpointsInv'
    BY <2>1, NextJobInv, NextReportInv, NextCoherenceInv, NextEndpointsInv
       DEF SafeInv, EndpointsInv
  <2>3. StepOfRows
    BY <2>1, <2>2, RowsMove, TwiceStays DEF StepOfRows, SafeInv, JobInv
  <2> QED
    BY <2>2, <2>3, NextCurrentInv DEF SafeInv
<1>3. SafeInv /\ CurrentInv => AnswersAreCurrent
  <2> SUFFICES ASSUME CurrentInv, NEW h \in Handlers, exchange[h].body.status # "nothing",
                      ~HandedOutTwice(exchange[h].job_id)
               PROVE  LET e == exchange[h]
                          row == table[e.job_id]
                      IN  /\ Leads(e.told, e.body.status)
                          /\ Leads(e.body.status, row.status)
                          /\ e.body.status = row.status =>
                               e.body = IF Exists(e.job_id) THEN JobResponse(Get(e.job_id))
                                                            ELSE NotFound
    BY DEF AnswersAreCurrent
  <2> QED
    BY DEF CurrentInv, Current, Matches, Shows, Exists, Get
<1> QED
  BY <1>1, <1>2, <1>3, PTL DEF EndpointsSpec

----
\* Answers of 500 are counted against the faults that caused them.

\* A thread whose delete_message is going to be rejected: its message is visible
\* again, is gone, or has been received by another thread.
Overtaken(h) == taking[h] # None /\ ~(receipt[taking[h]] = h /\ taking[h] \in hidden)

OvertakenThreads == {h \in Handlers : Overtaken(h)}

\* A job that may be claimed a second time: its send was repeated, and a message
\* of it, or a thread that took one, is still there.
SentTwice(j) == <<j, "resent">> \in queued \/ returned[<<j, "resent">>] > 0

Awaited(j) == (\E m \in queued : m[1] = j) \/ (\E h \in Handlers : Holds(h, j))

DoubledJobs == {j \in JobIds : SentTwice(j) /\ Awaited(j)}

\* The answers of 500 that faults so far have paid for, and that are still to come.
Debts == ({"rejected"} \X OvertakenThreads) \cup ({"refused"} \X DoubledJobs)

Causes == FaultsSpent("abort") + FaultsSpent("overdue") + FaultsSpent("resend")
          + FaultsSpent("expire") + (MaxOutages - outages)

\* Every fault accounts for an answer of 500 or for one that is still to come.
Counted == failures + Cardinality(Debts) <= Causes

LEMMA CausesCount ==
    ASSUME EndpointsInv, [EndpointsNext]_endpointVars
    PROVE  /\ Causes \in Int /\ Causes' \in Int
           /\ budget' = budget => Causes' = Causes + (outages - outages')
           /\ \A kind \in FaultKinds :
                Spend(kind) /\ outages' = outages => Causes' = Causes + 1
<1> USE DEF Causes, FaultsSpent
<1>1. /\ budget \in [FaultKinds -> Nat] /\ MaxFaults \in [FaultKinds -> Nat]
      /\ outages \in Int /\ MaxOutages \in Int
  BY MaxFaultsType, OutagesType DEF EndpointsInv, PageTypes, ServiceInv, ServiceTypeOK, TypeOK
<1>2. Causes \in Int
  BY <1>1 DEF FaultKinds
<1>3. outages' \in Int /\ budget' \in [FaultKinds -> Nat]
  BY NextEndpointsInv, OutagesType DEF EndpointsInv, PageTypes, ServiceInv, ServiceTypeOK, TypeOK
<1>4. Causes' \in Int
  BY <1>1, <1>3 DEF FaultKinds
<1>5. ASSUME budget' = budget
      PROVE  Causes' = Causes + (outages - outages')
  BY <1>1, <1>3, <1>5 DEF FaultKinds
<1>6. ASSUME NEW kind \in FaultKinds, Spend(kind), outages' = outages
      PROVE  Causes' = Causes + 1
  <2>1. budget' = [budget EXCEPT ![kind] = budget[kind] - 1]
    BY <1>6 DEF Spend
  <2>2. \A k \in FaultKinds : budget'[k] = IF k = kind THEN budget[k] - 1 ELSE budget[k]
    BY <1>1, <2>1
  <2> QED
    BY <1>1, <1>6, <2>2 DEF FaultKinds
<1> QED
  BY <1>2, <1>4, <1>5, <1>6

\* The steps of the service that neither stop a thread nor reject a receipt
\* overtake nobody; at most they spend a fault.
LEMMA NobodyIsOvertaken ==
    ASSUME ServiceInv, NEW h \in Handlers, Request(h) \/ HandlerStep(h)
    PROVE  /\ OvertakenThreads' \subseteq OvertakenThreads
           /\ budget' = budget \/ Spend("resend")
           /\ ClaimDeleteRejected(h) =>
                /\ h \in OvertakenThreads
                /\ OvertakenThreads' \subseteq OvertakenThreads \ {h}
<1> USE DEF OvertakenThreads, Overtaken
<1>1. /\ hidden \subseteq queued /\ receipt \in [Messages -> Handlers \cup {None}]
      /\ taking \in [Handlers -> Messages \cup {None}]
      /\ call \in [Handlers -> Calls]
  BY DEF ServiceInv, ServiceTypeOK, TypeOK
<1>2. CASE UNCHANGED <<hidden, receipt, taking>> /\ (budget' = budget \/ Spend("resend"))
             /\ ~ClaimDeleteRejected(h)
  BY <1>2
<1>3. ASSUME \/ \E j \in JobIds : SubmitCreate(h, j)
             \/ SubmitEnqueue(h) \/ ClaimLoad(h) \/ ClaimRecord(h)
             \/ ReportSave(h) \/ ReportNotify(h)
             \/ \E j \in JobIds, w \in WorkerIds :
                 \/ \E reference \in References : CompleteLoad(h, j, w, reference)
                 \/ \E message \in ErrorMessages : FailLoad(h, j, w, message)
      PROVE  /\ UNCHANGED <<hidden, receipt, taking>> /\ (budget' = budget \/ Spend("resend"))
             /\ ~ClaimDeleteRejected(h)
  <2>1. CASE \/ \E j \in JobIds : SubmitCreate(h, j)
             \/ \E j \in JobIds, w \in WorkerIds :
                 \/ \E reference \in References : CompleteLoad(h, j, w, reference)
                 \/ \E message \in ErrorMessages : FailLoad(h, j, w, message)
    <3>1. UNCHANGED <<queueVars, budget>> /\ call[h] = Idle
      BY <2>1 DEF SubmitCreate, CompleteLoad, FailLoad, BeginReport, Begin
    <3>2. ~ClaimDeleteRejected(h)
      BY <3>1 DEF ClaimDeleteRejected, At, Idle
    <3> QED
      BY <3>1, <3>2 DEF queueVars
  <2>2. CASE \/ SubmitEnqueue(h) \/ ClaimLoad(h) \/ ClaimRecord(h)
             \/ ReportSave(h) \/ ReportNotify(h)
    <3>1. ~At(h, "delete")
      BY <2>2 DEF SubmitEnqueue, ClaimLoad, ClaimRecord, ReportSave, ReportNotify, At
    <3>2. UNCHANGED <<hidden, receipt, taking>> /\ (budget' = budget \/ Spend("resend"))
      BY <2>2 DEF SubmitEnqueue, Enqueue, EnqueueResent, ClaimLoad, ClaimRecord,
                  ReportSave, ReportNotify, queueVars
    <3> QED
      BY <3>1, <3>2 DEF ClaimDeleteRejected
  <2> QED
    BY <1>3, <2>1, <2>2
<1>4. ASSUME NEW m \in Messages, Receive(h, m), ~At(h, "delete")
      PROVE  OvertakenThreads' \subseteq OvertakenThreads /\ budget' = budget
  <2>1. /\ taking' = [taking EXCEPT ![h] = m] /\ receipt' = [receipt EXCEPT ![m] = h]
        /\ hidden' = hidden \cup {m} /\ m \notin hidden /\ budget' = budget
    BY <1>4 DEF Receive
  <2>2. ~Overtaken(h)'
    BY <1>1, <2>1
  <2>3. ASSUME NEW g \in Handlers, g # h, Overtaken(g)'
        PROVE  Overtaken(g)
    BY <1>1, <2>1, <2>3
  <2> QED
    BY <2>1, <2>2, <2>3
<1>5. ASSUME NEW w \in WorkerIds, ClaimReceive(h, w)
      PROVE  OvertakenThreads' \subseteq OvertakenThreads /\ budget' = budget
             /\ ~ClaimDeleteRejected(h)
  <2>1. ~At(h, "delete")
    BY <1>5 DEF ClaimReceive, Begin, At, Idle
  <2> QED
    BY <1>4, <1>5, <2>1 DEF ClaimReceive, ClaimDeleteRejected
<1>6. ASSUME ClaimDelete(h)
      PROVE  OvertakenThreads' \subseteq OvertakenThreads /\ budget' = budget
             /\ ~ClaimDeleteRejected(h)
  <2>1. /\ taking[h] # None /\ receipt[taking[h]] = h
        /\ taking' = [taking EXCEPT ![h] = None] /\ receipt' = receipt
        /\ hidden' = hidden \ {taking[h]} /\ budget' = budget
        /\ ~ClaimDeleteRejected(h)
    BY <1>6 DEF ClaimDelete, Delete, HoldsCurrentReceipt, ClaimDeleteRejected, DeleteRejected
  <2>2. ASSUME NEW g \in Handlers, Overtaken(g)'
        PROVE  Overtaken(g)
    BY <1>1, <2>1, <2>2
  <2> QED
    BY <2>1, <2>2
<1>7. ASSUME ClaimDeleteRejected(h)
      PROVE  /\ OvertakenThreads' \subseteq OvertakenThreads \ {h} /\ budget' = budget
             /\ h \in OvertakenThreads
  <2>1. /\ taking[h] # None /\ ~HoldsCurrentReceipt(h)
        /\ taking' = [taking EXCEPT ![h] = None] /\ receipt' = receipt
        /\ hidden' = hidden /\ budget' = budget
    BY <1>7 DEF ClaimDeleteRejected, DeleteRejected
  <2>2. Overtaken(h)
    BY <1>1, <2>1 DEF HoldsCurrentReceipt
  <2>3. ASSUME NEW g \in Handlers, Overtaken(g)'
        PROVE  Overtaken(g) /\ g # h
    BY <1>1, <2>1, <2>3
  <2> QED
    BY <2>1, <2>2, <2>3
<1> QED
  BY <1>2, <1>3, <1>5, <1>6, <1>7 DEF Request, HandlerStep

\* A visibility timeout overtakes a thread only if it ends early.
LEMMA ClockOvertakesOne ==
    ASSUME ServiceInv, QueueService
    PROVE  \/ OvertakenThreads' \subseteq OvertakenThreads /\ budget' = budget
           \/ /\ \E kind \in FaultKinds : Spend(kind)
              /\ \E g : OvertakenThreads' \subseteq OvertakenThreads \cup {g}
<1> USE DEF OvertakenThreads, Overtaken
<1>1. /\ receipt \in [Messages -> Handlers \cup {None}]
      /\ taking \in [Handlers -> Messages \cup {None}]
  BY DEF ServiceInv, ServiceTypeOK, TypeOK
<1>2. ASSUME NEW m \in Messages, Reappear(m)
      PROVE  OvertakenThreads' \subseteq OvertakenThreads /\ budget' = budget
  BY <1>1, <1>2 DEF Reappear, InProgress
<1>3. ASSUME NEW m \in Messages, ReappearOverdue(m) \/ Expire(m)
      PROVE  /\ \E kind \in FaultKinds : Spend(kind)
             /\ OvertakenThreads' \subseteq OvertakenThreads \cup {receipt[m]}
  <2>1. hidden' = hidden \ {m} /\ UNCHANGED <<receipt, taking>>
    BY <1>3 DEF ReappearOverdue, Expire
  <2>2. \E kind \in FaultKinds : Spend(kind)
    BY <1>3 DEF ReappearOverdue, Expire, FaultKinds
  <2>3. ASSUME NEW g \in Handlers, Overtaken(g)', g # receipt[m]
        PROVE  Overtaken(g)
    BY <1>1, <2>1, <2>3
  <2> QED
    BY <2>2, <2>3
<1> QED
  BY <1>2, <1>3 DEF QueueService

\* A job is doubled by the repeated send of its message only.
LEMMA SendDoubles ==
    ASSUME JobInv, NEW h \in Handlers, SubmitEnqueue(h)
    PROVE  \/ DoubledJobs' \subseteq DoubledJobs /\ budget' = budget
           \/ /\ Spend("resend")
              /\ \E j : DoubledJobs' \subseteq DoubledJobs \cup {j}
<1> USE DEF DoubledJobs
<1>0. PICK j \in JobIds : j = call[h].job_id
  BY SubmitterFinds DEF SubmitEnqueue
<1>1. /\ call \in [Handlers -> Calls] /\ Finish(h)
      /\ UNCHANGED returned /\ (Enqueue(j) \/ EnqueueResent(j))
  BY <1>0 DEF SubmitEnqueue, Enqueue, EnqueueResent, JobInv, ServiceInv, ServiceTypeOK
<1>2. \A g \in Handlers, i \in JobIds : Holds(g, i)' => Holds(g, i)
  BY <1>1 DEF Finish, Holds, Idle
<1>3. ASSUME NEW i \in JobIds, i # j
      PROVE  (SentTwice(i)' => SentTwice(i)) /\ (Awaited(i)' => Awaited(i))
  <2>1. \A m \in queued' : m \in queued \/ m[1] = j
    BY <1>1 DEF Enqueue, EnqueueResent
  <2>2. <<i, "resent">> \in queued' => <<i, "resent">> \in queued
    BY <1>1, <1>3 DEF Enqueue, EnqueueResent
  <2> QED
    BY <1>1, <1>2, <1>3, <2>1, <2>2 DEF SentTwice, Awaited
<1>4. CASE Enqueue(j)
  <2>1. <<j, "resent">> \in queued' => <<j, "resent">> \in queued
    BY <1>4 DEF Enqueue
  <2>2. ~SentTwice(j)
    <3>1. \A m \in Messages : m[1] = j => m \notin queued /\ returned[m] = 0
      BY <1>4 DEF Enqueue, JobInv, QueueInv, FreshIdsUnused
    <3>2. <<j, "resent">> \notin queued /\ returned[<<j, "resent">>] = 0
      BY <3>1, MessagesOfJob
    <3> QED
      BY <3>2 DEF SentTwice
  <2>3. ~SentTwice(j)'
    BY <1>1, <2>1, <2>2 DEF SentTwice
  <2> QED
    BY <1>3, <1>4, <2>3 DEF Enqueue
<1>5. CASE EnqueueResent(j)
  BY <1>3, <1>5 DEF EnqueueResent
<1> QED
  BY <1>1, <1>4, <1>5

\* Who holds a job has taken a message of it.
LEMMA HolderArises ==
    ASSUME JobInv, [ServiceNext]_allVars, NEW h \in Handlers, NEW j \in JobIds, Holds(h, j)'
    PROVE  Holds(h, j) \/ \E m \in queued : m[1] = j
<1>0. call \in [Handlers -> Calls]
  BY DEF JobInv, ServiceInv, ServiceTypeOK
<1>1. CASE call'[h] = call[h]
  BY <1>1 DEF Holds
<1>2. ASSUME NEW g \in Handlers, ClaimDelete(g)
      PROVE  Holds(h, j) \/ \E m \in queued : m[1] = j
  <2>1. /\ taking[g] \in queued /\ taking[g][1] = call[g].job_id
        /\ call' = [call EXCEPT ![g].step = "load"]
    BY <1>2 DEF ClaimDelete, Delete, HoldsCurrentReceipt, JobInv, CallsPrepared, CallPrepared
  <2>2. call'[g].job_id = call[g].job_id /\ (g # h => call'[h] = call[h])
    BY <1>0, <2>1 DEF Calls
  <2> QED
    BY <1>1, <2>1, <2>2 DEF Holds
<1>3. ASSUME NEW g \in Handlers, ClaimAccepted(g)
      PROVE  Holds(h, j) \/ \E m \in queued : m[1] = j
  BY <1>0, <1>1, <1>3 DEF ClaimAccepted, ClaimLoad, At, Holds, Calls
<1>4. ASSUME NEW g \in Handlers, NEW c, call' = [call EXCEPT ![g] = c],
             c.step \notin {"load", "record"}
      PROVE  Holds(h, j)
  BY <1>0, <1>1, <1>4 DEF Holds
<1>5. ASSUME NEW g \in Handlers, Request(g)
      PROVE  Holds(h, j)
  BY <1>4, <1>5 DEF Request, SubmitCreate, ClaimReceive, CompleteLoad, FailLoad, BeginReport,
                    Begin, Idle
<1>6. ASSUME NEW g \in Handlers,
             \/ SubmitEnqueue(g) \/ ClaimDeleteRejected(g) \/ ClaimRefused(g) \/ ClaimRecord(g)
             \/ ReportNotify(g) \/ Abort(g)
      PROVE  Holds(h, j)
  BY <1>4, <1>6 DEF SubmitEnqueue, ClaimDeleteRejected, ClaimRefused, ClaimLoad, ClaimRecord,
                    ReportNotify, Abort, Finish, Idle
<1>7. ASSUME NEW g \in Handlers, ReportSave(g)
      PROVE  Holds(h, j)
  BY <1>0, <1>1, <1>7 DEF ReportSave, Holds, Calls
<1>8. CASE QueueService \/ UNCHANGED allVars
  BY <1>1, <1>8 DEF QueueService, allVars, serviceVars
<1> QED
  BY <1>2, <1>3, <1>5, <1>6, <1>7, <1>8
     DEF ServiceNext, HandlerStep, ClaimAccepted, ClaimRefused

\* Every other step leaves as many of them or fewer.
LEMMA NothingElseDoubles ==
    ASSUME JobInv, [ServiceNext]_allVars, UNCHANGED sent
    PROVE  DoubledJobs' \subseteq DoubledJobs
<1>0. /\ call \in [Handlers -> Calls] /\ returned \in [Messages -> Nat]
      /\ taking \in [Handlers -> Messages \cup {None}]
  BY DEF JobInv, ServiceInv, ServiceTypeOK, TypeOK
<1>1. [Next]_vars
  BY StepIsQueueStep DEF JobInv
<1>2. queued' \subseteq queued
  BY <1>1 DEF Next, Enqueue, EnqueueResent, Receive, Delete, DeleteRejected, Abandon,
              Reappear, ReappearOverdue, Expire, vars
<1>3. ASSUME NEW h \in Handlers, Delete(h)
      PROVE  /\ taking[h] \in queued /\ taking[h] \in Messages
             /\ returned' = [returned EXCEPT ![taking[h]] = @ + 1]
  BY <1>0, <1>3 DEF Delete, HoldsCurrentReceipt, JobInv, ServiceInv, ServiceTypeOK, TypeOK
<1>4. UNCHANGED returned \/ \E h \in Handlers : Delete(h)
  BY <1>1 DEF Next, Enqueue, EnqueueResent, Receive, DeleteRejected, Abandon, Reappear,
              ReappearOverdue, Expire, vars
<1>5. ASSUME NEW j \in JobIds, SentTwice(j)'
      PROVE  SentTwice(j)
  <2> DEFINE m == <<j, "resent">>
  <2>1. m \in Messages
    BY MessagesOfJob
  <2>2. m \in queued' \/ returned'[m] > 0
    BY <1>5 DEF SentTwice
  <2> HIDE DEF m
  <2>3. m \in queued \/ returned[m] > 0
    BY <1>0, <1>2, <1>3, <1>4, <2>1, <2>2
  <2> QED
    BY <2>3 DEF m, SentTwice
<1> QED
  BY <1>2, <1>5, HolderArises DEF DoubledJobs, Awaited

\* A job that claim_job is refused is not given out again: both its messages have
\* been taken, and no other thread holds one.
LEMMA RefusalSettles ==
    ASSUME JobInv, NEW h \in Handlers, ClaimRefused(h)
    PROVE  \E j \in DoubledJobs : DoubledJobs' \subseteq DoubledJobs \ {j}
<1>0. PICK j \in JobIds : j = call[h].job_id
  BY HolderFinds DEF ClaimRefused, ClaimLoad, At
<1>1. /\ call \in [Handlers -> Calls] /\ returned \in [Messages -> Nat]
      /\ queued \subseteq Messages
      /\ call[h].step = "load" /\ ~CanClaim(j) /\ Finish(h) /\ UNCHANGED queueVars
  BY <1>0 DEF ClaimRefused, ClaimLoad, At, JobInv, ServiceInv, ServiceTypeOK, TypeOK
<1>2. HandedOutTwice(j) /\ Claimed(table[j])
  <2>1. /\ Exists(j) /\ table[j].status \in JobStatus
        /\ table[j].status = "queued" \/ HandedOutTwice(j)
    BY <1>0, <1>1, HolderFinds DEF Row
  <2>2. table[j].status # "queued"
    BY <1>1, <2>1 DEF CanClaim, Get, EntityToJob, CanTransition, ALLOWED_TRANSITIONS
  <2> QED
    BY <2>1, <2>2 DEF Claimed, JobStatus
<1>3. \A m \in queued : m[1] # j
  <2> SUFFICES ASSUME NEW m \in queued, m[1] = j PROVE FALSE
    OBVIOUS
  <2>1. m \in Messages /\ returned[m] <= 0
    BY <1>1 DEF JobInv, QueueInv, HandedOutOnce
  <2>2. m = <<j, "sent">> \/ m = <<j, "resent">>
    BY <2>1, MessageParts
  <2>3. returned[m] > 0
    BY <1>2, <2>2 DEF HandedOutTwice
  <2> QED
    BY <1>1, <2>1, <2>3
<1>4. \A g \in Handlers : Holds(g, j) => g = h
  BY <1>0, <1>1, <1>2 DEF JobInv, ClaimInv, MessagesAccount, Holds
<1>5. \A g \in Handlers, i \in JobIds : Holds(g, i)' => Holds(g, i) /\ g # h
  BY <1>1 DEF Finish, Holds, Idle
<1>6. ~Awaited(j)'
  BY <1>1, <1>3, <1>4, <1>5 DEF Awaited, queueVars
<1>7. \A i \in JobIds : (SentTwice(i)' => SentTwice(i)) /\ (Awaited(i)' => Awaited(i))
  BY <1>1, <1>5 DEF SentTwice, Awaited, queueVars
<1>8. j \in DoubledJobs
  BY <1>0, <1>1, <1>2 DEF DoubledJobs, SentTwice, Awaited, Holds, HandedOutTwice
<1> QED
  BY <1>6, <1>7, <1>8 DEF DoubledJobs

\* Counting: f answers and the threads of S are paid for by p faults.
LEMMA StillPaidFor ==
    ASSUME NEW S, NEW T, IsFiniteSet(S), IsFiniteSet(T),
           NEW f \in Int, NEW g \in Int, NEW p \in Int, NEW q \in Int,
           f + Cardinality(S) <= p,
           \/ T \subseteq S /\ g = f /\ q >= p
           \/ (\E i : T \subseteq S \cup {i}) /\ g = f /\ q = p + 1
           \/ T \subseteq S /\ g = f + 1 /\ q = p + 1
           \/ (\E i \in S : T \subseteq S \ {i}) /\ g = f + 1 /\ q = p
    PROVE  g + Cardinality(T) <= q
<1>0. Cardinality(S) \in Nat /\ Cardinality(T) \in Nat
  BY FS_CardinalityType
<1>1. T \subseteq S => Cardinality(T) <= Cardinality(S)
  BY FS_Subset
<1>2. ASSUME NEW i, T \subseteq S \cup {i}, g = f, q = p + 1
      PROVE  g + Cardinality(T) <= q
  <2>1. Cardinality(T) <= Cardinality(S) + 1
    BY <1>0, <1>2, PaidFor
  <2> QED
    BY <1>0, <1>2, <2>1
<1>3. ASSUME NEW i \in S, T \subseteq S \ {i}, g = f + 1, q = p
      PROVE  g + Cardinality(T) <= q
  <2>1. IsFiniteSet(S \ {i}) /\ Cardinality(S \ {i}) = Cardinality(S) - 1
    BY FS_RemoveElement
  <2>2. Cardinality(T) <= Cardinality(S \ {i})
    BY <1>3, <2>1, FS_Subset
  <2> QED
    BY <1>0, <1>3, <2>1, <2>2
<1>4. CASE (\E i : T \subseteq S \cup {i}) /\ g = f /\ q = p + 1
  BY <1>2, <1>4
<1>5. CASE (\E i \in S : T \subseteq S \ {i}) /\ g = f + 1 /\ q = p
  BY <1>3, <1>5
<1>6. CASE T \subseteq S /\ g = f /\ q >= p
  BY <1>0, <1>1, <1>6
<1>7. CASE T \subseteq S /\ g = f + 1 /\ q = p + 1
  BY <1>0, <1>1, <1>7
<1> QED
  BY <1>4, <1>5, <1>6, <1>7

LEMMA DebtsAreFinite ==
    ASSUME IsFiniteSet(Handlers), IsFiniteSet(JobIds)
    PROVE  IsFiniteSet(Debts) /\ IsFiniteSet(Debts')
<1>1. ASSUME NEW S \in SUBSET Handlers, NEW T \in SUBSET JobIds
      PROVE  IsFiniteSet(({"rejected"} \X S) \cup ({"refused"} \X T))
  <2>1. IsFiniteSet(S) /\ IsFiniteSet(T)
    BY FS_Subset
  <2>2. IsFiniteSet({"rejected"}) /\ IsFiniteSet({"refused"})
    BY FS_Singleton
  <2>3. IsFiniteSet({"rejected"} \X S) /\ IsFiniteSet({"refused"} \X T)
    BY <2>1, <2>2, FS_Product
  <2> QED
    BY <2>3, FS_Union
<1>2. /\ OvertakenThreads \in SUBSET Handlers /\ OvertakenThreads' \in SUBSET Handlers
      /\ DoubledJobs \in SUBSET JobIds /\ DoubledJobs' \in SUBSET JobIds
  BY DEF OvertakenThreads, DoubledJobs
<1> QED
  BY <1>1, <1>2 DEF Debts

LEMMA NextCounted ==
    ASSUME IsFiniteSet(Handlers), IsFiniteSet(JobIds), EndpointsInv, JobInv, Counted,
           [EndpointsNext]_endpointVars
    PROVE  Counted'
<1> DEFINE Same == /\ Debts' \subseteq Debts
                   /\ failures' = failures /\ Causes' >= Causes
           More == /\ \E i : Debts' \subseteq Debts \cup {i}
                   /\ failures' = failures /\ Causes' = Causes + 1
           Caused == /\ Debts' \subseteq Debts
                     /\ failures' = failures + 1 /\ Causes' = Causes + 1
           Fewer == /\ \E i \in Debts : Debts' \subseteq Debts \ {i}
                    /\ failures' = failures + 1 /\ Causes' = Causes
<1>0. [ServiceNext]_allVars
  BY StepIsServiceStep
<1>1. /\ Causes \in Int /\ outages \in Int
      /\ budget' = budget => Causes' = Causes + (outages - outages')
      /\ \A kind \in FaultKinds :
           Spend(kind) /\ outages' = outages => Causes' = Causes + 1
  BY CausesCount, OutagesType DEF EndpointsInv, PageTypes
\* What becomes of the debts.
<1>a. ASSUME OvertakenThreads' \subseteq OvertakenThreads, DoubledJobs' \subseteq DoubledJobs
      PROVE  Debts' \subseteq Debts
  BY <1>a DEF Debts
<1>b. ASSUME DoubledJobs' \subseteq DoubledJobs,
             NEW g, OvertakenThreads' \subseteq OvertakenThreads \cup {g}
      PROVE  \E i : Debts' \subseteq Debts \cup {i}
  <2>1. Debts' \subseteq Debts \cup {<<"rejected", g>>}
    BY <1>b DEF Debts
  <2> QED
    BY <2>1
<1>c. ASSUME OvertakenThreads' \subseteq OvertakenThreads,
             NEW j, DoubledJobs' \subseteq DoubledJobs \cup {j}
      PROVE  \E i : Debts' \subseteq Debts \cup {i}
  <2>1. Debts' \subseteq Debts \cup {<<"refused", j>>}
    BY <1>c DEF Debts
  <2> QED
    BY <2>1
<1>d. ASSUME DoubledJobs' \subseteq DoubledJobs, NEW g \in OvertakenThreads,
             OvertakenThreads' \subseteq OvertakenThreads \ {g}
      PROVE  \E i \in Debts : Debts' \subseteq Debts \ {i}
  <2>1. <<"rejected", g>> \in Debts /\ Debts' \subseteq Debts \ {<<"rejected", g>>}
    BY <1>d DEF Debts
  <2> QED
    BY <2>1
<1>e. ASSUME OvertakenThreads' \subseteq OvertakenThreads, NEW j \in DoubledJobs,
             DoubledJobs' \subseteq DoubledJobs \ {j}
      PROVE  \E i \in Debts : Debts' \subseteq Debts \ {i}
  <2>1. <<"refused", j>> \in Debts /\ Debts' \subseteq Debts \ {<<"refused", j>>}
    BY <1>e DEF Debts
  <2> QED
    BY <2>1
<1>s. UNCHANGED sent => DoubledJobs' \subseteq DoubledJobs
  BY <1>0, NothingElseDoubles
<1>2. ASSUME UNCHANGED <<sent, hidden, receipt, taking, budget, outages, failures>>
      PROVE  Same
  <2>1. OvertakenThreads' = OvertakenThreads
    BY <1>2 DEF OvertakenThreads, Overtaken
  <2>2. Causes' = Causes
    BY <1>1, <1>2
  <2> QED
    BY <1>1, <1>2, <1>a, <1>s, <2>1, <2>2
<1>3. ASSUME NEW h \in Handlers, Request(h) \/ HandlerStep(h),
             failures' = failures, outages' = outages
      PROVE  Same \/ More
  <2>1. OvertakenThreads' \subseteq OvertakenThreads /\ (budget' = budget \/ Spend("resend"))
    BY <1>3, NobodyIsOvertaken DEF EndpointsInv
  <2>2. "resend" \in FaultKinds
    BY DEF FaultKinds
  <2>3. CASE SubmitEnqueue(h)
    <3>1. CASE DoubledJobs' \subseteq DoubledJobs
      BY <1>1, <1>3, <1>a, <2>1, <2>2, <3>1
    <3>2. CASE \E j : DoubledJobs' \subseteq DoubledJobs \cup {j} /\ Spend("resend")
      BY <1>1, <1>3, <1>c, <2>1, <2>2, <3>2
    <3> QED
      BY <2>3, <3>1, <3>2, SendDoubles
  <2>4. CASE ~SubmitEnqueue(h)
    <3>1. UNCHANGED sent
      BY <1>3, <2>4 DEF Request, HandlerStep, SubmitCreate, ClaimReceive, Receive, CompleteLoad,
                        FailLoad, BeginReport, ClaimDelete, Delete, ClaimDeleteRejected,
                        DeleteRejected, ClaimLoad, ClaimRecord, ReportSave, ReportNotify, queueVars
    <3> QED
      BY <1>1, <1>3, <1>a, <1>s, <2>1, <2>2, <3>1
  <2> QED
    BY <2>3, <2>4
<1>4. ASSUME NEW h \in Handlers,
             \/ SubmitJob(h) \/ ReportJob(h) \/ Proceed(h)
             \/ SubmitAnswer(h) \/ ClaimAnswer(h) \/ ReportAnswer(h)
             \/ (\E w \in WorkerIds : ClaimReceive(h, w)) /\ Continue(h) /\ UNCHANGED hostVars
      PROVE  Same \/ More
  <2>1. failures' = failures /\ outages' = outages
    BY <1>4 DEF SubmitJob, ReportJob, Proceed, SubmitAnswer, ClaimAnswer, ReportAnswer,
                Continue, AnswerAbout, hostVars
  <2>2. ReportJob(h) => exchange[h].job_id \in JobIds
    BY DEF ReportJob, In, EndpointsInv, Attended, Reports
  <2>3. Request(h) \/ HandlerStep(h)
    BY <1>4, <2>2 DEF SubmitJob, ReportJob, Proceed, SubmitAnswer, ClaimAnswer, ReportAnswer,
                      Request, HandlerStep, ClaimAccepted
  <2> QED
    BY <1>3, <2>1, <2>3
<1>5. ASSUME NEW h \in Handlers, ClaimRaises(h)
      PROVE  Fewer
  <2>1. failures' = failures + 1 /\ outages' = outages
    BY <1>5 DEF ClaimRaises, Answer, AnswerAbout, hostVars
  <2>2. UNCHANGED <<sent, budget>>
    BY <1>5 DEF ClaimRaises, ClaimDeleteRejected, DeleteRejected, ClaimRefused, ClaimLoad, queueVars
  <2>3. CASE ClaimDeleteRejected(h)
    <3>1. h \in OvertakenThreads /\ OvertakenThreads' \subseteq OvertakenThreads \ {h}
      BY <2>3, NobodyIsOvertaken DEF EndpointsInv, HandlerStep
    <3> QED
      BY <1>1, <1>d, <1>s, <2>1, <2>2, <3>1
  <2>4. CASE ClaimRefused(h)
    <3>1. OvertakenThreads' \subseteq OvertakenThreads
      BY <2>4, NobodyIsOvertaken DEF EndpointsInv, HandlerStep, ClaimRefused
    <3> QED
      BY <1>1, <1>e, <2>1, <2>2, <2>4, <3>1, RefusalSettles
  <2> QED
    BY <1>5, <2>3, <2>4 DEF ClaimRaises
<1>6. ASSUME NEW h \in Handlers, StopShort(h)
      PROVE  Caused
  <2>1. /\ failures' = failures + 1 /\ outages' = outages /\ Spend("abort")
        /\ taking' = [taking EXCEPT ![h] = None] /\ UNCHANGED <<sent, hidden, receipt>>
    BY <1>6 DEF StopShort, Answer, AnswerAbout, hostVars, Abort, Abandon
  <2>2. taking \in [Handlers -> Messages \cup {None}]
    BY DEF EndpointsInv, ServiceInv, ServiceTypeOK, TypeOK
  <2>3. OvertakenThreads' \subseteq OvertakenThreads
    BY <2>1, <2>2 DEF OvertakenThreads, Overtaken
  <2>4. Causes' = Causes + 1
    BY <1>1, <2>1 DEF FaultKinds
  <2> QED
    BY <1>a, <1>s, <2>1, <2>3, <2>4
<1>7. ASSUME NEW h \in Handlers, Raise(h)
      PROVE  Caused
  <2>1. /\ failures' = failures + 1 /\ outages' = outages - 1
        /\ UNCHANGED <<sent, hidden, receipt, taking, budget>>
    BY <1>7 DEF Raise, Answer, AnswerAbout, allVars, queueVars
  <2>2. OvertakenThreads' = OvertakenThreads
    BY <2>1 DEF OvertakenThreads, Overtaken
  <2>3. Causes' = Causes + 1
    BY <1>1, <2>1
  <2> QED
    BY <1>a, <1>s, <2>1, <2>2, <2>3
<1>8. ASSUME NEW h \in Handlers,
             \/ \E route \in Routes, j \in JobIds \cup {None} : Arrive(h, route, j)
             \/ Construct(h) \/ GetJob(h) \/ RefuseBody(h) \/ RefuseReport(h) \/ Deliver(h)
             \/ UNCHANGED <<allVars, hostVars>> /\ Answer(h, 204)
      PROVE  Same
  <2>1. UNCHANGED <<allVars, outages>>
    BY <1>8 DEF Arrive, Construct, GetJob, RefuseBody, RefuseReport, Deliver, hostVars
  <2>2. ASSUME NEW code \in Codes \ {500}, NEW j, NEW body, AnswerAbout(h, code, j, body)
        PROVE  failures' = failures
    BY <2>2 DEF AnswerAbout
  <2>3. failures' = failures
    <3>1. CASE \/ \E route \in Routes, j \in JobIds \cup {None} : Arrive(h, route, j)
               \/ Construct(h) \/ Deliver(h)
      BY <3>1 DEF Arrive, Construct, Deliver
    <3>2. CASE GetJob(h) \/ RefuseBody(h) \/ RefuseReport(h) \/ Answer(h, 204)
      BY <2>2, <3>2 DEF GetJob, RefuseBody, RefuseReport, Answer, Codes
    <3> QED
      BY <1>8, <3>1, <3>2
  <2> QED
    BY <1>2, <2>1, <2>3 DEF allVars, queueVars
<1>9. ASSUME QueueService, UNCHANGED <<exchangeVars, hostVars>>
      PROVE  Same \/ More
  <2>1. failures' = failures /\ outages' = outages
    BY <1>9 DEF exchangeVars, hostVars
  <2>2. UNCHANGED sent
    BY <1>9 DEF QueueService, Reappear, ReappearOverdue, Expire
  <2>3. CASE OvertakenThreads' \subseteq OvertakenThreads /\ budget' = budget
    BY <1>1, <1>a, <1>s, <2>1, <2>2, <2>3
  <2>4. CASE /\ \E kind \in FaultKinds : Spend(kind)
             /\ \E g : OvertakenThreads' \subseteq OvertakenThreads \cup {g}
    BY <1>1, <1>b, <1>s, <2>1, <2>2, <2>4
  <2> QED
    BY <1>9, <2>3, <2>4, ClockOvertakesOne DEF EndpointsInv
<1>10. ASSUME (\E p \in Hosts : Recycle(p)) \/ UNCHANGED endpointVars
       PROVE  Same
  BY <1>2, <1>10 DEF Recycle, endpointVars, allVars, queueVars, exchangeVars, hostVars
<1>11. Same \/ More \/ Caused \/ Fewer
  <2>1. ASSUME NEW h \in Handlers, ClaimJob(h)
        PROVE  Same \/ More
    BY <1>4, <1>8, <2>1 DEF ClaimJob
  <2>2. ASSUME NEW h \in Handlers, Work(h)
        PROVE  Same \/ More \/ Fewer
    BY <1>4, <1>5, <1>8, <2>1, <2>2 DEF Work
  <2> QED
    BY <1>6, <1>7, <1>8, <1>9, <1>10, <2>2 DEF EndpointsNext
<1>12. IsFiniteSet(Debts) /\ IsFiniteSet(Debts')
  BY DebtsAreFinite
<1>13. failures \in Int /\ failures' \in Int /\ Causes' \in Int
  BY <1>1, NextEndpointsInv, CausesCount DEF EndpointsInv, PageTypes
<1>14. failures' + Cardinality(Debts') <= Causes'
  BY <1>1, <1>11, <1>12, <1>13, StillPaidFor DEF Counted
<1> QED
  BY <1>14 DEF Counted

\* Every 500 has a fault to itself, however many threads, processes and requests
\* there are: a stopped thread, a storage error, one timeout that ended early or
\* message that expired under the thread that held it, or one repeated send whose
\* second message claim_job took when the job was no longer queued.
THEOREM FailuresAreCaused ==
    ASSUME IsFiniteSet(Handlers), IsFiniteSet(JobIds)
    PROVE  EndpointsSpec => []FailuresHaveACause
<1>1. EndpointsInit => EndpointsInv /\ JobInv /\ Counted
  <2> SUFFICES ASSUME EndpointsInit PROVE Counted
    BY InitEndpointsInv, InitJobInv DEF EndpointsInit
  <2>1. Debts = {}
    <3>1. OvertakenThreads = {}
      BY DEF EndpointsInit, ServiceInit, Init, OvertakenThreads, Overtaken
    <3>2. DoubledJobs = {}
      BY DEF EndpointsInit, ServiceInit, Init, Idle, DoubledJobs, Awaited, Holds
    <3> QED
      BY <3>1, <3>2 DEF Debts
  <2>2. Causes = 0 /\ failures = 0
    BY MaxFaultsType, OutagesType
       DEF EndpointsInit, ServiceInit, Init, Causes, FaultsSpent, FaultKinds
  <2> QED
    BY <2>1, <2>2, FS_EmptySet DEF Counted
<1>2. EndpointsInv /\ JobInv /\ Counted /\ [EndpointsNext]_endpointVars
        => EndpointsInv' /\ JobInv' /\ Counted'
  BY NextEndpointsInv, StepIsServiceStep, NextJobInv, NextCounted
<1>3. EndpointsInv /\ Counted => FailuresHaveACause
  <2> SUFFICES ASSUME EndpointsInv, Counted PROVE FailuresHaveACause
    OBVIOUS
  <2>1. IsFiniteSet(Debts)
    BY DebtsAreFinite
  <2>2. Cardinality(Debts) \in Nat
    BY <2>1, FS_CardinalityType
  <2>3. failures \in Int /\ Causes \in Int
    BY MaxFaultsType, OutagesType
       DEF EndpointsInv, PageTypes, ServiceInv, ServiceTypeOK, TypeOK, Causes, FaultsSpent,
           FaultKinds
  <2>4. failures <= Causes
    BY <2>2, <2>3 DEF Counted
  <2> QED
    BY <2>4 DEF FailuresHaveACause, Causes
<1> QED
  BY <1>1, <1>2, <1>3, PTL DEF EndpointsSpec
====
