---- MODULE JobFormProofs ----
(* What a form page sends is what was entered, and what it shows about a job *)
(* is true, for every page and any number of requests, handlers and faults.  *)
EXTENDS JobForm, JobServiceProofs

RequestsIndexed == request = [r \in Requests |-> request[r]]

\* A request being handled waits for the submission its handler has begun.
Attended(r) ==
    LET h == request[r].via
    IN  /\ request[r].state = "handled"
                => h \in Handlers /\ At(h, "enqueue") /\ call[h].job_id = request[r].job_id
        /\ request[r].state = "created"
                => Exists(request[r].job_id) /\ request[r].job_id \in sent

AllAttended == \A r \in Requests : Attended(r)

FormInv ==
    /\ ServiceInv /\ RowsExist
    /\ FormTypeOK /\ RequestsIndexed
    /\ AllAttended
    /\ ShownJobsAreEnqueued

----
\* Every step of the page is a step of the service or leaves it alone.
LEMMA StepIsServiceStep == [FormNext]_formVars => [ServiceNext]_allVars
<1> SUFFICES ASSUME [FormNext]_formVars PROVE [ServiceNext]_allVars
  OBVIOUS
<1>1. ASSUME NEW r \in Requests, NEW h \in Handlers, Handle(r, h) PROVE ServiceNext
  BY <1>1 DEF Handle, ServiceNext, Request
<1>2. ASSUME NEW h \in Handlers, HandlerEnds(h) \/ HandlerBreaks(h) PROVE ServiceNext
  BY <1>2 DEF HandlerEnds, HandlerBreaks, ServiceNext, HandlerStep
<1>3. ASSUME NEW r \in Requests,
             \/ Submit(r) \/ Refuse(r) \/ LoseConnection(r)
             \/ ShowCreated(r) \/ ShowRefused(r) \/ ShowBroken(r)
      PROVE  UNCHANGED allVars
  BY <1>3 DEF Submit, Refuse, LoseConnection, ShowCreated, ShowRefused, ShowBroken
<1>4. ASSUME NEW i \in DOMAIN entered, Enter(i) PROVE UNCHANGED allVars
  BY <1>4 DEF Enter
<1>5. CASE SubmitInvalid
  BY <1>5 DEF SubmitInvalid
<1>6. CASE UNCHANGED formVars
  BY <1>6 DEF formVars
<1> QED
  BY <1>1, <1>2, <1>3, <1>4, <1>5, <1>6 DEF FormNext

\* Jobs stay, and stay enqueued.
LEMMA JobsStay ==
    ASSUME FormInv, [FormNext]_formVars
    PROVE  \A j : Exists(j) /\ j \in sent /\ j \in JobIds => Exists(j)' /\ j \in sent'
<1> SUFFICES ASSUME NEW j, Exists(j), j \in sent, j \in JobIds
             PROVE  Exists(j)' /\ j \in sent'
  OBVIOUS
<1>1. ASSUME NEW r \in Requests, NEW h \in Handlers, Handle(r, h)
      PROVE  Exists(j)' /\ j \in sent'
  BY <1>1 DEF Handle, SubmitCreate, Exists, queueVars, FormInv, ServiceInv, ServiceTypeOK
<1>2. ASSUME NEW h \in Handlers, HandlerEnds(h) PROVE Exists(j)' /\ j \in sent'
  BY <1>2 DEF HandlerEnds, SubmitEnqueue, Enqueue, EnqueueResent, Exists
<1>3. ASSUME NEW h \in Handlers, HandlerBreaks(h) PROVE Exists(j)' /\ j \in sent'
  BY <1>3 DEF HandlerBreaks, Abort, Abandon, Exists
<1>4. ASSUME UNCHANGED allVars PROVE Exists(j)' /\ j \in sent'
  BY <1>4 DEF allVars, serviceVars, queueVars, Exists
<1> QED
  BY <1>1, <1>2, <1>3, <1>4
     DEF FormNext, Enter, SubmitInvalid, Submit, Refuse, LoseConnection, ShowCreated,
         ShowRefused, ShowBroken, formVars

\* A request that changes leaves the others as they are.
LEMMA RequestReplaced ==
    ASSUME FormInv, NEW r \in Requests, NEW p, request' = [request EXCEPT ![r] = p]
    PROVE  /\ request' = [q \in Requests |-> IF q = r THEN p ELSE request[q]]
           /\ RequestsIndexed'
<1>1. request = [q \in Requests |-> request[q]]
  BY DEF FormInv, RequestsIndexed
<1>2. request' = [q \in Requests |-> IF q = r THEN p ELSE request[q]]
  BY <1>1
<1> QED
  BY <1>2 DEF RequestsIndexed, Requests

----
\* The page's variables keep their types.
Texts == {Blank} \cup NumberTexts \cup OtherTexts \cup ValidEmails

RequestType(p) ==
    /\ p.state \in {"new", "sent", "handled", "created", "refused", "broken", "done"}
    /\ p.via \in Handlers \cup {None}
    /\ p.job_id \in JobIds \cup {None}

RequestTypes == \A r \in Requests : RequestType(request[r])

StatusType(st) == st \in [kind : {"none", "invalid", "success", "error", "network"},
                          of : 0 .. MaxRequests, job_id : JobIds \cup {None}]

PageTypes ==
    /\ parameters \in Generated
    /\ entered \in [DOMAIN FieldNames -> Texts]
    /\ StatusType(status)
    /\ RequestTypes
    /\ told \subseteq JobIds
    /\ unanswered \in 0 .. MaxLostAnswers

LEMMA FormTypesOfPage == FormTypeOK <=> ServiceTypeOK /\ PageTypes
BY DEF FormTypeOK, PageTypes, Texts, RequestTypes, RequestType, StatusType

LEMMA RequestTypeKept ==
    ASSUME FormInv, NEW r \in Requests, NEW p, RequestType(p),
           request' = [request EXCEPT ![r] = p]
    PROVE  RequestTypes'
<1>1. \A q \in Requests : request'[q] = IF q = r THEN p ELSE request[q]
  BY RequestReplaced
<1>2. RequestTypes
  BY FormTypesOfPage DEF FormInv, PageTypes
<1>3. \A q \in Requests : RequestType(request'[q])
  BY <1>1, <1>2 DEF RequestTypes
<1> QED
  BY <1>3 DEF RequestTypes, RequestType, Requests

LEMMA ProgressType ==
    ASSUME NEW state \in {"new", "sent", "handled", "created", "refused", "broken", "done"},
           NEW h \in Handlers \cup {None}, NEW j \in JobIds \cup {None}
    PROVE  RequestType(Progress(state, h, j))
BY DEF RequestType, Progress

LEMMA AnswerType ==
    ASSUME FormInv, NEW h \in Handlers, NEW state \in {"created", "broken"},
           AnswerTo(h, state)
    PROVE  RequestTypes' /\ RequestsIndexed'
<1>1. ASSUME NEW r \in Requests PROVE RequestType(request'[r])
  <2>1. RequestType(request[r])
    BY FormTypesOfPage DEF FormInv, PageTypes, RequestTypes
  <2>2. RequestType(Progress(state, None, request[r].job_id))
    BY <2>1, ProgressType DEF RequestType
  <2> QED
    BY <2>1, <2>2 DEF AnswerTo
<1>2. RequestsIndexed'
  BY DEF AnswerTo, RequestsIndexed, Requests
<1> QED
  BY <1>1, <1>2 DEF RequestTypes, RequestType, Requests

LEMMA NextPageTypes ==
    ASSUME FormInv, [FormNext]_formVars
    PROVE  PageTypes' /\ RequestsIndexed'
<1>a. PageTypes /\ RequestsIndexed
  BY FormTypesOfPage DEF FormInv
<1>b. UNCHANGED request => RequestTypes' /\ RequestsIndexed'
  BY <1>a DEF PageTypes, RequestTypes, RequestType, RequestsIndexed, Requests
<1>c. UNCHANGED <<parameters, entered>> => entered' \in [DOMAIN FieldNames' -> Texts]
  BY <1>a DEF PageTypes, FieldNames
<1>d. UNCHANGED status => StatusType(status')
  BY <1>a DEF PageTypes
<1> DEFINE Goal == PageTypes' /\ RequestsIndexed'
           Rest == /\ UNCHANGED <<parameters, told, unanswered>>
                   /\ RequestTypes' /\ RequestsIndexed'
<1>1. ASSUME Rest, UNCHANGED entered, StatusType(status') PROVE Goal
  BY <1>1, <1>a, <1>c DEF PageTypes, StatusType
<1>2. ASSUME NEW i \in DOMAIN entered, Enter(i) PROVE Goal
  <2>1. PICK text \in Enterable(i) : entered' = [entered EXCEPT ![i] = text]
    BY <1>2 DEF Enter
  <2>2. text \in Texts
    BY <2>1 DEF Enterable, Texts
  <2>3. entered' \in [DOMAIN FieldNames -> Texts]
    BY <1>a, <2>1, <2>2 DEF PageTypes
  <2>4. FieldNames' = FieldNames
    BY <1>2 DEF Enter, FieldNames
  <2> QED
    BY <1>2, <1>a, <1>b, <1>d, <2>3, <2>4 DEF Enter, PageTypes, StatusType
<1>3. ASSUME SubmitInvalid PROVE Goal
  <2>1. StatusType(status')
    BY <1>3, BudgetsType DEF SubmitInvalid, Status, StatusType
  <2> QED
    BY <1>3, <1>1, <1>b, <2>1 DEF SubmitInvalid
<1>4. ASSUME NEW r \in Requests, Submit(r) PROVE Goal
  <2>1. RequestTypes' /\ RequestsIndexed'
    BY <1>4, RequestReplaced, RequestTypeKept DEF Submit, RequestType
  <2>2. StatusType(status')
    BY <1>4, BudgetsType DEF Submit, NoStatus, Status, StatusType
  <2> QED
    BY <1>4, <1>1, <2>1, <2>2 DEF Submit
<1>5. ASSUME NEW r \in Requests, NEW state \in {"handled", "refused"},
             NEW h \in Handlers \cup {None}, NEW j \in JobIds \cup {None},
             Becomes(r, state, h, j)
      PROVE  Goal
  <2>1. RequestTypes' /\ RequestsIndexed'
    BY <1>5, RequestReplaced, RequestTypeKept, ProgressType DEF Becomes
  <2> QED
    BY <1>5, <1>1, <1>d, <2>1 DEF Becomes
<1>6. ASSUME NEW h \in Handlers, NEW state \in {"created", "broken"}, AnswerTo(h, state)
      PROVE  Goal
  BY <1>6, <1>1, <1>d, AnswerType DEF AnswerTo
<1>7. ASSUME NEW r \in Requests, Done(r) PROVE RequestTypes' /\ RequestsIndexed'
  BY <1>7, RequestReplaced, RequestTypeKept, ProgressType DEF Done
<1>8. ASSUME NEW r \in Requests, ShowCreated(r) PROVE Goal
  <2>1. RequestTypes' /\ RequestsIndexed'
    BY <1>8, <1>7 DEF ShowCreated
  <2>2. request[r].job_id \in JobIds
    BY <1>8 DEF ShowCreated, FormInv, AllAttended, Attended, ServiceInv, ServiceTypeOK, TypeOK
  <2>3. StatusType(status') /\ told' \subseteq JobIds
    BY <1>8, <1>a, <2>2, BudgetsType DEF ShowCreated, Status, StatusType, PageTypes, Requests
  <2>4. entered' \in [DOMAIN FieldNames -> Texts]
    BY <1>8, <1>a DEF ShowCreated, Empty, PageTypes, Texts
  <2>5. FieldNames' = FieldNames
    BY <1>8 DEF ShowCreated, FieldNames
  <2> QED
    BY <1>8, <1>a, <2>1, <2>3, <2>4, <2>5 DEF ShowCreated, PageTypes, StatusType
<1>9. ASSUME NEW r \in Requests, ShowRefused(r) \/ ShowBroken(r) PROVE Goal
  <2>1. StatusType(status')
    BY <1>9, BudgetsType DEF ShowRefused, ShowBroken, Status, StatusType, Requests
  <2> QED
    BY <1>9, <1>1, <1>7, <2>1 DEF ShowRefused, ShowBroken
<1>10. ASSUME NEW r \in Requests, LoseConnection(r) PROVE Goal
  <2>1. StatusType(status')
    BY <1>10, BudgetsType DEF LoseConnection, Status, StatusType, Requests
  <2>2. unanswered' \in 0 .. MaxLostAnswers
    BY <1>10, <1>a, BudgetsType DEF LoseConnection, PageTypes
  <2> QED
    BY <1>10, <1>7, <1>a, <1>c, <2>1, <2>2 DEF LoseConnection, PageTypes, StatusType
<1>11. ASSUME UNCHANGED formVars PROVE Goal
  BY <1>11, <1>1, <1>b, <1>d DEF formVars, pageVars
<1> HIDE DEF Goal
<1>12. ASSUME NEW r \in Requests, NEW h \in Handlers, Handle(r, h) PROVE Goal
  BY <1>12, <1>5 DEF Handle
<1>13. ASSUME NEW h \in Handlers, HandlerEnds(h) \/ HandlerBreaks(h) PROVE Goal
  BY <1>13, <1>6 DEF HandlerEnds, HandlerBreaks
<1>14. ASSUME NEW r \in Requests, Refuse(r) PROVE Goal
  BY <1>14, <1>5 DEF Refuse
<1>15. Goal
  BY <1>2, <1>3, <1>4, <1>8, <1>9, <1>10, <1>11, <1>12, <1>13, <1>14 DEF FormNext
<1> QED
  BY <1>15 DEF Goal

----
\* A request that has changed is attended, and so are the others if the handlers
\* they wait for have not moved.
LEMMA AttendedKept ==
    ASSUME FormInv, [FormNext]_formVars, NEW r \in Requests, request'[r] = request[r],
           \/ request[r].state # "handled"
           \/ call'[request[r].via] = call[request[r].via]
    PROVE  Attended(r)'
<1>1. Attended(r)
  BY DEF FormInv, AllAttended
<1>2. request[r].state = "created" => request[r].job_id \in JobIds
  BY <1>1 DEF Attended, FormInv, ServiceInv, ServiceTypeOK, TypeOK
<1> QED
  BY <1>1, <1>2, JobsStay DEF Attended, At

LEMMA NextAttended ==
    ASSUME FormInv, [FormNext]_formVars
    PROVE  AllAttended'
<1>a. \A r \in Requests : Attended(r)
  BY DEF FormInv, AllAttended
<1>b. ASSUME NEW r \in Requests, request'[r].state \notin {"handled", "created"}
      PROVE  Attended(r)'
  BY <1>b DEF Attended
<1>1. ASSUME UNCHANGED <<request, call>> PROVE AllAttended'
  <2>1. \A r \in Requests : Attended(r)'
    BY <1>1, AttendedKept
  <2> QED
    BY <2>1 DEF AllAttended, Requests
<1>2. ASSUME NEW r \in Requests, NEW p, request' = [request EXCEPT ![r] = p],
             p.state \notin {"handled", "created"}, UNCHANGED call
      PROVE  AllAttended'
  <2>1. \A q \in Requests : request'[q] = IF q = r THEN p ELSE request[q]
    BY <1>2, RequestReplaced
  <2>2. \A q \in Requests : Attended(q)'
    BY <1>2, <1>b, <2>1, AttendedKept
  <2> QED
    BY <2>2 DEF AllAttended, Requests
<1>3. ASSUME NEW r \in Requests, NEW h \in Handlers, Handle(r, h) PROVE AllAttended'
  <2>1. PICK j \in JobIds : SubmitCreate(h, j) /\ Becomes(r, "handled", h, j)
    BY <1>3 DEF Handle
  <2>2. \A q \in Requests :
            request'[q] = IF q = r THEN Progress("handled", h, j) ELSE request[q]
    BY <2>1, RequestReplaced DEF Becomes
  <2>3. /\ call[h] = Idle
        /\ call' = [call EXCEPT ![h] = [Idle EXCEPT !.step = "enqueue", !.job_id = j]]
        /\ call \in [Handlers -> Calls]
    BY <2>1 DEF SubmitCreate, Begin, FormInv, ServiceInv, ServiceTypeOK
  <2>4. Attended(r)'
    <3>1. call'[h].step = "enqueue" /\ call'[h].job_id = j
      BY <2>3 DEF Idle
    <3> QED
      BY <2>2, <3>1 DEF Attended, Progress, At
  <2>5. ASSUME NEW q \in Requests, q # r PROVE Attended(q)'
    <3>1. request[q].state = "handled" => request[q].via # h /\ request[q].via \in Handlers
      BY <1>a, <2>3 DEF Attended, At, Idle
    <3>2. request[q].state = "handled" => call'[request[q].via] = call[request[q].via]
      BY <2>3, <3>1
    <3> QED
      BY <2>2, <2>5, <3>2, AttendedKept
  <2> QED
    BY <2>4, <2>5 DEF AllAttended, Requests
<1>4. ASSUME NEW h \in Handlers, NEW state \in {"created", "broken"}, AnswerTo(h, state),
             Finish(h),
             state = "created" => /\ table'[call[h].job_id] # NoEntity
                                  /\ call[h].job_id \in sent'
      PROVE  AllAttended'
  <2>1. call' = [call EXCEPT ![h] = Idle] /\ call \in [Handlers -> Calls]
    BY <1>4 DEF Finish, FormInv, ServiceInv, ServiceTypeOK
  <2>2. ASSUME NEW r \in Requests PROVE Attended(r)'
    <3>1. CASE request[r].state = "handled" /\ request[r].via = h
      <4>1. request'[r] = Progress(state, None, request[r].job_id)
        BY <1>4, <3>1 DEF AnswerTo
      <4>2. request[r].job_id = call[h].job_id
        BY <1>a, <3>1 DEF Attended
      <4> QED
        BY <1>4, <4>1, <4>2 DEF Attended, Progress, Exists
    <3>2. CASE ~(request[r].state = "handled" /\ request[r].via = h)
      <4>1. request'[r] = request[r]
        BY <1>4, <3>2 DEF AnswerTo
      <4>2. request[r].state = "handled" => request[r].via \in Handlers
        BY <1>a DEF Attended
      <4>3. request[r].state = "handled" => call'[request[r].via] = call[request[r].via]
        BY <2>1, <3>2, <4>2
      <4> QED
        BY <4>1, <4>3, AttendedKept
    <3> QED
      BY <3>1, <3>2
  <2> QED
    BY <2>2 DEF AllAttended, Requests
<1>5. ASSUME NEW h \in Handlers, HandlerEnds(h) PROVE AllAttended'
  <2>1. Exists(call[h].job_id) /\ UNCHANGED table
    BY <1>5 DEF HandlerEnds, SubmitEnqueue, At, FormInv, RowsExist
  <2>2. call[h].job_id \in sent'
    BY <1>5 DEF HandlerEnds, SubmitEnqueue, Enqueue, EnqueueResent
  <2> QED
    BY <1>4, <1>5, <2>1, <2>2 DEF HandlerEnds, SubmitEnqueue, Exists
<1>6. ASSUME NEW h \in Handlers, HandlerBreaks(h) PROVE AllAttended'
  BY <1>4, <1>6 DEF HandlerBreaks, Abort
<1>7. ASSUME UNCHANGED allVars PROVE UNCHANGED call
  BY <1>7 DEF allVars, serviceVars
<1>8. ASSUME NEW r \in Requests, Submit(r) PROVE AllAttended'
  <2> DEFINE p == [state |-> "sent", via |-> None, job_id |-> None, body |-> Body]
  <2>1. p.state \notin {"handled", "created"}
    OBVIOUS
  <2>2. request' = [request EXCEPT ![r] = p]
    BY <1>8 DEF Submit
  <2> QED
    BY <1>2, <1>7, <1>8, <2>1, <2>2 DEF Submit
<1>9. \A state, h, j : Progress(state, h, j).state = state
  BY DEF Progress
<1>10. ASSUME NEW r \in Requests, Refuse(r) PROVE AllAttended'
  BY <1>2, <1>7, <1>9, <1>10 DEF Refuse, Becomes
<1>11. ASSUME NEW r \in Requests,
              ShowCreated(r) \/ ShowRefused(r) \/ ShowBroken(r) \/ LoseConnection(r)
       PROVE  AllAttended'
  BY <1>2, <1>7, <1>9, <1>11 DEF ShowCreated, ShowRefused, ShowBroken, LoseConnection, Done
<1>12. ASSUME \/ \E i \in DOMAIN entered : Enter(i)
              \/ SubmitInvalid
              \/ UNCHANGED formVars
       PROVE  AllAttended'
  BY <1>1, <1>7, <1>12 DEF Enter, SubmitInvalid, formVars, pageVars
<1> QED
  BY <1>3, <1>5, <1>6, <1>8, <1>10, <1>11, <1>12 DEF FormNext

LEMMA NextShown ==
    ASSUME FormInv, [FormNext]_formVars
    PROVE  ShownJobsAreEnqueued'
<1>1. told \subseteq JobIds /\ \A j \in told : Exists(j)' /\ j \in sent'
  BY JobsStay, FormTypesOfPage DEF FormInv, ShownJobsAreEnqueued, PageTypes
<1>2. ASSUME NEW r \in Requests, ShowCreated(r)
      PROVE  table'[request[r].job_id] # NoEntity /\ request[r].job_id \in sent'
  BY <1>2 DEF ShowCreated, FormInv, AllAttended, Attended, Exists, allVars, serviceVars,
              queueVars
<1>3. \A j \in told' : \/ j \in told
                      \/ \E r \in Requests : ShowCreated(r) /\ j = request[r].job_id
  BY DEF FormNext, Enter, SubmitInvalid, Submit, Refuse, LoseConnection, ShowCreated,
         ShowRefused, ShowBroken, Handle, HandlerEnds, HandlerBreaks, Becomes, AnswerTo,
         formVars, pageVars
<1> QED
  BY <1>1, <1>2, <1>3 DEF ShownJobsAreEnqueued, Exists

LEMMA InitFormInv == FormInit => FormInv
<1> SUFFICES ASSUME FormInit PROVE FormInv
  OBVIOUS
<1>1. ServiceInv /\ RowsExist
  BY InitServiceInv DEF FormInit, ServiceInit, Init, RowsExist, Idle, At
<1>2. entered \in [DOMAIN FieldNames -> Texts]
  BY DEF FormInit, Empty, Texts
<1>3. StatusType(status)
  BY BudgetsType DEF FormInit, NoStatus, Status, StatusType
<1>4. RequestTypes /\ RequestsIndexed /\ AllAttended
  BY ProgressType DEF FormInit, NotSent, Progress, RequestTypes, RequestType,
     RequestsIndexed, AllAttended, Attended
<1>5. PageTypes /\ ShownJobsAreEnqueued
  BY <1>2, <1>3, <1>4, BudgetsType DEF FormInit, PageTypes, ShownJobsAreEnqueued
<1> QED
  BY <1>1, <1>4, <1>5, FormTypesOfPage DEF FormInv, ServiceInv

LEMMA NextFormInv == FormInv /\ [FormNext]_formVars => FormInv'
<1> SUFFICES ASSUME FormInv, [FormNext]_formVars PROVE FormInv'
  OBVIOUS
<1>1. ServiceInv' /\ RowsExist'
  BY StepIsServiceStep, NextServiceInv, NextRowsExist DEF FormInv
<1>2. FormTypeOK'
  BY <1>1, NextPageTypes DEF ServiceInv, FormTypeOK, PageTypes, Texts, RequestTypes,
                             RequestType, StatusType, Requests
<1> QED
  BY <1>1, <1>2, NextPageTypes, NextAttended, NextShown DEF FormInv

\* The page and its requests keep their types.
THEOREM FormTypes == FormSpec => []FormTypeOK
<1>1. FormInv => FormTypeOK
  BY DEF FormInv
<1> QED
  BY <1>1, InitFormInv, NextFormInv, PTL DEF FormSpec

\* The page never shows the id of a job that does not exist or was not enqueued,
\* however many requests are under way and whichever handlers stop.
THEOREM ShownJobsExist == FormSpec => []ShownJobsAreEnqueued
<1>1. FormInv => ShownJobsAreEnqueued
  BY DEF FormInv
<1> QED
  BY <1>1, InitFormInv, NextFormInv, PTL DEF FormSpec

----
\* The page's fields, and what the handler finds under a name if names differ.
LEMMA Fields ==
    ASSUME FormInv
    PROVE  /\ parameters \in Seq(Definitions)
           /\ Len(parameters) \in Nat
           /\ DOMAIN entered = 1 .. Len(parameters) + 1
           /\ Len(entered) = Len(parameters) + 1
           /\ DOMAIN FieldNames = 1 .. Len(parameters) + 1
           /\ FieldNames[Len(parameters) + 1] = user_email
           /\ \A i \in 1 .. Len(parameters) : FieldNames[i] = parameters[i].name
<1>1. PageTypes
  BY FormTypesOfPage DEF FormInv
<1>2. parameters \in Seq(Definitions) /\ Len(parameters) \in Nat
  BY <1>1, GeneratedType DEF PageTypes
<1>3. /\ DOMAIN FieldNames = 1 .. Len(parameters) + 1
      /\ FieldNames[Len(parameters) + 1] = user_email
      /\ \A i \in 1 .. Len(parameters) : FieldNames[i] = parameters[i].name
  BY <1>2 DEF FieldNames
<1>4. entered \in [1 .. Len(parameters) + 1 -> Texts]
  BY <1>1, <1>3 DEF PageTypes
<1>5. entered \in Seq(Texts) /\ Len(entered) = Len(parameters) + 1
  BY <1>2, <1>4
<1> QED
  BY <1>2, <1>3, <1>4, <1>5

LEMMA NamedOnce ==
    ASSUME FormInv, NamesDiffer, NEW i \in DOMAIN entered
    PROVE  FirstNamed(FieldNames[i]) = i /\ LastNamed(FieldNames[i]) = i
<1>1. DOMAIN entered = DOMAIN FieldNames /\ DOMAIN entered \subseteq Nat
  BY Fields
<1>2. \A k \in DOMAIN entered : FieldNames[k] = FieldNames[i] => k = i
  BY <1>1 DEF NamesDiffer
<1> DEFINE First(f) == FieldNames[f] = FieldNames[i]
                         /\ \A k \in DOMAIN entered : k < f => FieldNames[k] # FieldNames[i]
           Last(l) == FieldNames[l] = FieldNames[i]
                         /\ \A k \in DOMAIN entered : k > l => FieldNames[k] # FieldNames[i]
<1>3. First(i) /\ Last(i)
  BY <1>1, <1>2
<1>4. \A k \in DOMAIN entered : First(k) \/ Last(k) => k = i
  BY <1>2
<1> HIDE DEF First, Last
<1>5. (CHOOSE f \in DOMAIN entered : First(f)) = i
  BY <1>3, <1>4
<1>6. (CHOOSE l \in DOMAIN entered : Last(l)) = i
  BY <1>3, <1>4
<1> QED
  BY <1>5, <1>6 DEF FirstNamed, LastNamed, First, Last

LEMMA KeysAreParameters ==
    ASSUME FormInv, NamesDiffer
    PROVE  /\ ParameterKeys = {parameters[i].name : i \in DOMAIN parameters}
           /\ \A i \in DOMAIN parameters :
                 parameters[i].name \in NUMERIC_FIELDS <=> parameters[i].numeric
<1> DEFINE n == Len(parameters)
<1>1. DOMAIN parameters = 1 .. n /\ n \in Nat
  BY Fields
<1>2. \A i, k \in 1 .. n : parameters[i].name = parameters[k].name => i = k
  BY <1>1, Fields DEF NamesDiffer
<1>3. \A i \in 1 .. n : parameters[i].name # user_email
  <2> SUFFICES ASSUME NEW i \in 1 .. n, parameters[i].name = user_email PROVE FALSE
    OBVIOUS
  <2>1. FieldNames[i] = FieldNames[n + 1] /\ i \in DOMAIN FieldNames /\ n + 1 \in DOMAIN FieldNames
    BY <1>1, Fields
  <2>2. i = n + 1
    BY <2>1 DEF NamesDiffer
  <2> QED
    BY <1>1, <2>2
<1>4. {FieldNames[i] : i \in DOMAIN entered}
        = {parameters[i].name : i \in 1 .. n} \cup {user_email}
  <2>1. \A i \in DOMAIN entered : i \in 1 .. n \/ i = n + 1
    BY <1>1, Fields
  <2>2. \A i \in 1 .. n : i \in DOMAIN entered
    BY <1>1, Fields
  <2>3. n + 1 \in DOMAIN entered
    BY <1>1, Fields
  <2> QED
    BY <2>1, <2>2, <2>3, Fields
<1>5. ParameterKeys = {parameters[i].name : i \in DOMAIN parameters}
  BY <1>1, <1>3, <1>4 DEF ParameterKeys
<1>6. ASSUME NEW i \in DOMAIN parameters
      PROVE  parameters[i].name \in NUMERIC_FIELDS <=> parameters[i].numeric
  BY <1>1, <1>2 DEF NUMERIC_FIELDS
<1> QED
  BY <1>5, <1>6

LEMMA BodyAsEntered ==
    ASSUME FormInv, NamesDiffer
    PROVE  /\ Body.user_email = entered[Len(entered)]
           /\ DOMAIN Body.parameters = {parameters[i].name : i \in DOMAIN parameters}
           /\ \A i \in DOMAIN parameters :
                 Body.parameters[parameters[i].name] =
                    [text |-> entered[i],
                     as |-> IF parameters[i].numeric THEN "number" ELSE "string"]
<1>1. Len(entered) \in DOMAIN entered /\ FieldNames[Len(entered)] = user_email
  BY Fields
<1>2. Body.user_email = entered[Len(entered)]
  BY <1>1, NamedOnce DEF Body
<1>3. DOMAIN Body.parameters = {parameters[i].name : i \in DOMAIN parameters}
  BY KeysAreParameters DEF Body
<1>4. ASSUME NEW i \in DOMAIN parameters
      PROVE  Body.parameters[parameters[i].name] =
                [text |-> entered[i],
                 as |-> IF parameters[i].numeric THEN "number" ELSE "string"]
  <2>1. i \in DOMAIN entered /\ FieldNames[i] = parameters[i].name
    BY Fields
  <2>2. LastNamed(parameters[i].name) = i
    BY <2>1, NamedOnce
  <2>3. parameters[i].name \in ParameterKeys
    BY KeysAreParameters
  <2>4. Body.parameters[parameters[i].name]
          = Sent(entered[i], parameters[i].name \in NUMERIC_FIELDS)
    BY <2>2, <2>3 DEF Body
  <2> QED
    BY <2>4, KeysAreParameters DEF Sent
<1> QED
  BY <1>2, <1>3, <1>4

\* What a page sends is what its user entered, whatever the parameters are, as
\* long as their names differ from each other and from the e-mail field's.
THEOREM PagesSendWhatIsEntered == FormSpec => SentAsEntered
<1> DEFINE Sends == \A r \in Requests : NamesDiffer /\ Submit(r) =>
               LET body == request'[r].body
               IN  /\ body.user_email = entered[Len(entered)]
                   /\ DOMAIN body.parameters = {parameters[i].name : i \in DOMAIN parameters}
                   /\ \A i \in DOMAIN parameters :
                        body.parameters[parameters[i].name] =
                            [text |-> entered[i],
                             as |-> IF parameters[i].numeric THEN "number" ELSE "string"]
<1>1. FormInv /\ [FormNext]_formVars => [Sends]_formVars
  <2> SUFFICES ASSUME FormInv, NEW r \in Requests, NamesDiffer, Submit(r)
               PROVE  request'[r].body = Body
    BY BodyAsEntered
  <2>1. request' = [request EXCEPT ![r] = [state |-> "sent", via |-> None, job_id |-> None,
                                           body |-> Body]]
    BY DEF Submit
  <2>2. request'[r] = [state |-> "sent", via |-> None, job_id |-> None, body |-> Body]
    BY <2>1, RequestReplaced
  <2> QED
    BY <2>2
<1>2. FormSpec => [][Sends]_formVars
  BY <1>1, InitFormInv, NextFormInv, PTL DEF FormSpec
<1> QED
  BY <1>2 DEF SentAsEntered

----
\* Jobs nobody is told of.  A job whose request was broken off counts before the
\* page has shown that: this is when it is paid for.
WithoutJob == \A r \in Requests :
    request[r].state \in {"new", "sent", "refused"} => request[r].job_id = None

Untold(j) == Exists(j) /\ j \notin told /\ \A r \in Requests : request[r].job_id # j

Broken(j) == \E r \in Requests : request[r].state = "broken" /\ request[r].job_id = j

SilentJobs == {j \in JobIds : Untold(j) \/ Broken(j)}

CausesSpent == FaultsSpent("abort") + (MaxLostAnswers - unanswered)

SilencePaid == Cardinality(SilentJobs) <= CausesSpent

\* A request that moves on stays with its job, or had none, or told of it.
LEMMA NextWithoutJob ==
    ASSUME FormInv, WithoutJob, [FormNext]_formVars
    PROVE  WithoutJob'
<1> DEFINE Fits(p) == p.state \in {"new", "sent", "refused"} => p.job_id = None
<1>1. \A r \in Requests : Fits(request[r])
  BY DEF WithoutJob
<1>2. ASSUME NEW r \in Requests, NEW p, request' = [request EXCEPT ![r] = p], Fits(p)
      PROVE  \A q \in Requests : Fits(request'[q])
  BY <1>1, <1>2, RequestReplaced
<1>3. ASSUME NEW r \in Requests, NEW state \in {"handled", "refused", "done"}, NEW h, NEW j,
             request' = [request EXCEPT ![r] = Progress(state, h, j)],
             state = "refused" => j = None
      PROVE  \A q \in Requests : Fits(request'[q])
  <2>1. Fits(Progress(state, h, j))
    BY <1>3 DEF Progress
  <2> HIDE DEF Fits
  <2> QED
    BY <1>2, <1>3, <2>1
<1>4. ASSUME NEW r \in Requests, Submit(r) PROVE \A q \in Requests : Fits(request'[q])
  <2> DEFINE p == [state |-> "sent", via |-> None, job_id |-> None, body |-> Body]
  <2>1. request' = [request EXCEPT ![r] = p] /\ Fits(p)
    BY <1>4 DEF Submit
  <2> HIDE DEF Fits, p
  <2> QED
    BY <1>2, <2>1
<1>5. ASSUME NEW h \in Handlers, NEW state \in {"created", "broken"}, AnswerTo(h, state)
      PROVE  \A q \in Requests : Fits(request'[q])
  BY <1>1, <1>5 DEF AnswerTo, Progress
<1>6. UNCHANGED request => \A q \in Requests : Fits(request'[q])
  BY <1>1
<1>7. \A q \in Requests : Fits(request'[q])
  <2> HIDE DEF Fits
  <2> QED
    BY <1>3, <1>4, <1>5, <1>6
       DEF FormNext, Enter, SubmitInvalid, Refuse, Handle, Becomes, HandlerEnds, HandlerBreaks,
           LoseConnection, ShowCreated, ShowRefused, ShowBroken, Done, formVars, pageVars
<1> QED
  BY <1>7 DEF WithoutJob, Requests

LEMMA NextSilencePaid ==
    ASSUME IsFiniteSet(JobIds), None \notin JobIds, FormInv, WithoutJob, SilencePaid,
           [FormNext]_formVars
    PROVE  SilencePaid'
<1> DEFINE S == SilentJobs
           Free == S' \subseteq S /\ CausesSpent' = CausesSpent
           Paid == CausesSpent' = CausesSpent + 1 /\ \E i : S' \subseteq S \cup {i}
<1>0. /\ budget \in [FaultKinds -> Nat] /\ MaxFaults \in [FaultKinds -> Nat]
      /\ MaxLostAnswers \in Nat /\ unanswered \in Int
      /\ call \in [Handlers -> Calls]
      /\ table \in [JobIds -> TableEntities \cup {NoEntity}]
      /\ \A r \in Requests : Attended(r)
  BY MaxFaultsType, BudgetsType DEF FormInv, ServiceInv, ServiceTypeOK, TypeOK, FormTypeOK,
     AllAttended
<1>1. IsFiniteSet(S) /\ IsFiniteSet(S') /\ CausesSpent \in Int
  <2>1. S \in SUBSET JobIds /\ S' \in SUBSET JobIds
    BY DEF SilentJobs
  <2>2. CausesSpent \in Int
    BY <1>0 DEF CausesSpent, FaultsSpent, FaultKinds
  <2> QED
    BY <2>1, <2>2, FS_Subset
<1>B. UNCHANGED <<budget, unanswered>> => CausesSpent' = CausesSpent
  BY DEF CausesSpent, FaultsSpent
\* Nothing happens to a job while no request leaves it, and none breaks off.
<1>2. ASSUME UNCHANGED <<table, told, request>> PROVE S' \subseteq S
  BY <1>2 DEF SilentJobs, Untold, Broken, Exists, Requests
<1>3. ASSUME NEW r \in Requests, NEW p, request' = [request EXCEPT ![r] = p],
             p.state # "broken", told \subseteq told', UNCHANGED table,
             NEW j \in S', j \notin S
      PROVE  j = request[r].job_id /\ j \notin told'
  <2>1. \A q \in Requests : request'[q] = IF q = r THEN p ELSE request[q]
    BY <1>3, RequestReplaced
  <2>2. ~Broken(j)'
    BY <1>3, <2>1 DEF SilentJobs, Broken, Requests
  <2>3. j \in JobIds /\ Untold(j)'
    BY <1>3, <2>2 DEF SilentJobs
  <2>4. Exists(j) /\ j \notin told /\ j \notin told'
    BY <1>3, <2>3 DEF Untold, Exists
  <2>5. PICK q \in Requests : request[q].job_id = j
    BY <1>3, <2>3, <2>4 DEF SilentJobs, Untold
  <2>6. q = r
    BY <2>1, <2>3, <2>5 DEF Untold, Requests
  <2> QED
    BY <2>4, <2>5, <2>6
<1>P. \A state, h, j : Progress(state, h, j).state = state
  BY DEF Progress
<1>4. ASSUME NEW r \in Requests, Submit(r) \/ Refuse(r) PROVE Free
  <2>1. \E p : request' = [request EXCEPT ![r] = p] /\ p.state # "broken"
    <3> DEFINE p == [state |-> "sent", via |-> None, job_id |-> None, body |-> Body]
    <3>1. p.state # "broken"
      OBVIOUS
    <3>2. Submit(r) => request' = [request EXCEPT ![r] = p]
      BY DEF Submit
    <3>3. Refuse(r) => request' = [request EXCEPT ![r] = Progress("refused", None, None)]
      BY DEF Refuse, Becomes
    <3> HIDE DEF p
    <3> QED
      BY <1>4, <1>P, <3>1, <3>2, <3>3
  <2>2. request[r].job_id = None
    BY <1>4 DEF Submit, Refuse, NotSent, Progress, WithoutJob
  <2>3. UNCHANGED <<table, told, budget, unanswered>>
    BY <1>4 DEF Submit, Refuse, Becomes, allVars, serviceVars
  <2>4. S' \subseteq JobIds
    BY DEF SilentJobs
  <2> HIDE DEF S
  <2> QED
    BY <1>3, <1>B, <2>1, <2>2, <2>3, <2>4
<1>5. ASSUME NEW r \in Requests, NEW h \in Handlers, Handle(r, h) PROVE Free
  <2>1. PICK i \in JobIds : SubmitCreate(h, i) /\ Becomes(r, "handled", h, i)
    BY <1>5 DEF Handle
  <2>2. \A q \in Requests :
            request'[q] = IF q = r THEN Progress("handled", h, i) ELSE request[q]
    BY <2>1, RequestReplaced DEF Becomes
  <2>3. request[r].job_id = None
    BY <1>5 DEF Handle, WithoutJob
  <2>4. /\ \A k \in JobIds : k # i => table'[k] = table[k]
        /\ UNCHANGED <<told, budget, unanswered>>
    BY <1>0, <2>1 DEF SubmitCreate, Becomes
  <2>5. ASSUME NEW j \in S' PROVE j \in S
    <3>1. ~Broken(j)' \/ Broken(j)
      BY <2>2 DEF Broken, Progress, Requests
    <3>2. ASSUME Untold(j)' PROVE Untold(j)
      <4>1. j \in JobIds /\ j # i /\ j # None
        BY <2>2, <2>5, <3>2 DEF SilentJobs, Untold, Progress, Requests
      <4> QED
        BY <2>2, <2>3, <2>4, <3>2, <4>1 DEF Untold, Exists, Requests
    <3> QED
      BY <2>5, <3>1, <3>2 DEF SilentJobs
  <2> QED
    BY <1>B, <2>4, <2>5
<1>6. ASSUME NEW h \in Handlers, NEW state \in {"created", "broken"}, AnswerTo(h, state),
             UNCHANGED table, NEW j \in S', j \notin S
      PROVE  state = "broken" /\ j = call[h].job_id
  <2>1. \A r \in Requests : request'[r].job_id = request[r].job_id
    BY <1>6 DEF AnswerTo, Progress
  <2>2. told' = told
    BY <1>6 DEF AnswerTo
  <2>3. ~Untold(j)'
    BY <1>6, <2>1, <2>2 DEF SilentJobs, Untold, Exists, Requests
  <2>4. PICK r \in Requests : request'[r].state = "broken" /\ request'[r].job_id = j
    BY <1>6, <2>3 DEF SilentJobs, Broken, Requests
  <2>5. request[r].state # "broken"
    BY <1>6, <2>1, <2>4 DEF SilentJobs, Broken
  <2>6. request[r].state = "handled" /\ request[r].via = h /\ state = "broken"
    BY <1>6, <2>4, <2>5 DEF AnswerTo, Progress
  <2> QED
    BY <1>0, <2>1, <2>4, <2>6 DEF Attended
<1>7. ASSUME NEW h \in Handlers, HandlerEnds(h) PROVE Free
  <2>1. UNCHANGED <<table, unanswered>> /\ AnswerTo(h, "created")
    BY <1>7 DEF HandlerEnds, SubmitEnqueue, AnswerTo
  <2>2. budget' = budget \/ budget' = [budget EXCEPT !["resend"] = @ - 1]
    BY <1>7 DEF HandlerEnds, SubmitEnqueue, Enqueue, EnqueueResent, Spend
  <2>3. CausesSpent' = CausesSpent
    BY <1>0, <2>1, <2>2 DEF CausesSpent, FaultsSpent, FaultKinds
  <2> HIDE DEF S
  <2> QED
    BY <1>6, <2>1, <2>3
<1>8. ASSUME NEW h \in Handlers, HandlerBreaks(h) PROVE Paid
  <2>1. UNCHANGED <<table, unanswered>> /\ AnswerTo(h, "broken")
    BY <1>8 DEF HandlerBreaks, Abort, AnswerTo
  <2>2. budget["abort"] > 0 /\ budget' = [budget EXCEPT !["abort"] = @ - 1]
    BY <1>8 DEF HandlerBreaks, Abort, Abandon, Spend
  <2>3. CausesSpent' = CausesSpent + 1
    BY <1>0, <2>1, <2>2 DEF CausesSpent, FaultsSpent, FaultKinds
  <2>4. S' \subseteq S \cup {call[h].job_id}
    <3> HIDE DEF S
    <3> QED BY <1>6, <2>1
  <2> QED
    BY <2>3, <2>4
<1>9. ASSUME NEW r \in Requests, ShowCreated(r) PROVE Free
  <2>1. \E p : request' = [request EXCEPT ![r] = p] /\ p.state # "broken"
    BY <1>9, <1>P DEF ShowCreated, Done
  <2>2. request[r].job_id \in told' /\ told \subseteq told'
    BY <1>9 DEF ShowCreated
  <2>3. UNCHANGED <<table, budget, unanswered>>
    BY <1>9 DEF ShowCreated, allVars, serviceVars
  <2> HIDE DEF S
  <2> QED
    BY <1>3, <1>B, <2>1, <2>2, <2>3
<1>10. ASSUME NEW r \in Requests, ShowRefused(r) \/ ShowBroken(r) PROVE Free
  <2>1. \E p : request' = [request EXCEPT ![r] = p] /\ p.state # "broken"
    BY <1>10, <1>P DEF ShowRefused, ShowBroken, Done
  <2>2. \/ request[r].job_id = None
        \/ request[r].job_id \in JobIds => request[r].job_id \in S
    BY <1>10 DEF ShowRefused, ShowBroken, WithoutJob, SilentJobs, Broken
  <2>3. UNCHANGED <<table, told, budget, unanswered>>
    BY <1>10 DEF ShowRefused, ShowBroken, allVars, serviceVars
  <2>4. S' \subseteq JobIds
    BY DEF SilentJobs
  <2> HIDE DEF S
  <2> QED
    BY <1>3, <1>B, <2>1, <2>2, <2>3, <2>4
<1>11. ASSUME NEW r \in Requests, LoseConnection(r) PROVE Paid
  <2>1. \E p : request' = [request EXCEPT ![r] = p] /\ p.state # "broken"
    <3>1. request' = [request EXCEPT ![r] = Progress("done", None, None)]
      BY <1>11 DEF LoseConnection, Done
    <3>2. Progress("done", None, None).state # "broken"
      BY <1>P
    <3> QED
      BY <3>1, <3>2
  <2>2. UNCHANGED <<table, told, budget>> /\ unanswered' = unanswered - 1
    BY <1>11 DEF LoseConnection, allVars, serviceVars
  <2>3. CausesSpent' = CausesSpent + 1
    BY <1>0, <2>2 DEF CausesSpent, FaultsSpent, FaultKinds
  <2>4. S' \subseteq S \cup {request[r].job_id}
    <3> HIDE DEF S
    <3> QED BY <1>3, <2>1, <2>2
  <2> QED
    BY <2>3, <2>4
<1>12. ASSUME \/ \E i \in DOMAIN entered : Enter(i)
              \/ SubmitInvalid
              \/ UNCHANGED formVars
       PROVE  Free
  <2>1. UNCHANGED <<table, told, request, budget, unanswered>>
    BY <1>12 DEF Enter, SubmitInvalid, formVars, pageVars, allVars, serviceVars
  <2> QED
    BY <1>2, <1>B, <2>1
<1>13. Free \/ Paid
  <2> HIDE DEF Free, Paid
  <2> QED
    BY <1>4, <1>5, <1>7, <1>8, <1>9, <1>10, <1>11, <1>12 DEF FormNext
<1>14. CausesSpent' \in Int /\ Cardinality(S) <= CausesSpent
  BY <1>1, <1>13 DEF SilencePaid
<1>15. Cardinality(S') <= CausesSpent'
  <2>1. \/ S' \subseteq S /\ CausesSpent' = CausesSpent
        \/ CausesSpent' = CausesSpent + 1 /\ \E i : S' \subseteq S \cup {i}
    BY <1>13
  <2> HIDE DEF S
  <2> QED
    BY <1>1, <1>14, <2>1, PaidFor
<1> QED
  BY <1>15 DEF SilencePaid

\* A job the user is never told of is paid for by a stopped handler or a lost
\* answer of its own, for any number of requests, answered in any order.
THEOREM UntoldJobsArePaidFor ==
    ASSUME IsFiniteSet(JobIds), None \notin JobIds
    PROVE  FormSpec => []UntoldJobsHaveACause
<1>1. FormInit => FormInv /\ WithoutJob /\ SilencePaid
  <2> SUFFICES ASSUME FormInit PROVE WithoutJob /\ SilencePaid
    BY InitFormInv
  <2>1. WithoutJob
    BY DEF FormInit, WithoutJob, NotSent, Progress
  <2>2. SilentJobs = {}
    BY DEF FormInit, ServiceInit, SilentJobs, Untold, Broken, Exists, NotSent, Progress
  <2>3. CausesSpent = 0
    BY MaxFaultsType, BudgetsType
       DEF FormInit, ServiceInit, Init, CausesSpent, FaultsSpent, FaultKinds
  <2> QED
    BY <2>1, <2>2, <2>3, FS_EmptySet DEF SilencePaid
<1>2. FormInv /\ [FormNext]_formVars => FormInv'
  BY NextFormInv
<1>3. FormInv /\ WithoutJob /\ [FormNext]_formVars => WithoutJob'
  BY NextWithoutJob
<1>4. FormInv /\ WithoutJob /\ SilencePaid /\ [FormNext]_formVars => SilencePaid'
  BY NextSilencePaid
<1>5. FormInv /\ SilencePaid => UntoldJobsHaveACause
  <2> DEFINE U == {j \in JobIds : /\ Exists(j) /\ j \notin told
                                  /\ \A r \in Requests : request[r].job_id # j}
  <2> SUFFICES ASSUME FormInv, SilencePaid PROVE Cardinality(U) <= CausesSpent
    BY DEF UntoldJobsHaveACause, CausesSpent
  <2>1. U \in SUBSET SilentJobs /\ SilentJobs \in SUBSET JobIds
    BY DEF SilentJobs, Untold
  <2>2. /\ IsFiniteSet(U) /\ IsFiniteSet(SilentJobs)
        /\ Cardinality(U) <= Cardinality(SilentJobs)
    BY <2>1, FS_Subset
  <2>3. Cardinality(U) \in Nat /\ Cardinality(SilentJobs) \in Nat
    BY <2>2, FS_CardinalityType
  <2>4. CausesSpent \in Int
    BY MaxFaultsType, BudgetsType DEF CausesSpent, FaultsSpent, FaultKinds, FormInv, ServiceInv,
       ServiceTypeOK, TypeOK, FormTypeOK
  <2>5. Cardinality(SilentJobs) <= CausesSpent
    BY DEF SilencePaid
  <2> HIDE DEF U
  <2> QED
    BY <2>2, <2>3, <2>4, <2>5
<1> QED
  BY <1>1, <1>2, <1>3, <1>4, <1>5, PTL DEF FormSpec
====
