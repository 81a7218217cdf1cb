---- MODULE JobForm ----
(* A generated form page (generate_form_html of services/form_renderer.py)   *)
(* in a user's browser, submitting to POST /jobs: what its script makes of   *)
(* the fields, and what it shows when the answers come.  Nothing keeps the   *)
(* user from submitting again while a request is under way.                  *)
EXTENDS JobService

CONSTANTS ParameterNames,   \* names of form parameters
          user_email,       \* the name of the e-mail field
          Generated,        \* the parameter lists pages are generated from
          NumberTexts, OtherTexts, ValidEmails,   \* what users enter
          MaxRequests,      \* how many requests the page may send
          MaxLostAnswers    \* how many of them may stay unanswered

Definitions == [name : ParameterNames \cup {user_email}, numeric : BOOLEAN]

ASSUME GeneratedType == Generated \subseteq Seq(Definitions)
ASSUME BudgetsType == MaxRequests \in Nat /\ MaxLostAnswers \in Nat
ASSUME TextsDiffer == /\ NumberTexts \cap (OtherTexts \cup ValidEmails) = {}
                      /\ Blank \notin NumberTexts \cup ValidEmails

VARIABLES parameters,   \* the page's parameter definitions
          entered,      \* the values of its fields, in the page's order
          status,       \* what the page shows below the form
          request,      \* request[r]: the r-th request the page has sent
          told,         \* the job ids the page has shown
          unanswered    \* answers that may still be lost

pageVars == <<parameters, entered, status, request, told, unanswered>>
formVars == <<allVars, pageVars>>

Requests == 1 .. MaxRequests

\* The page's fields: one per parameter, and the e-mail field below them.
FieldNames == [i \in 1 .. Len(parameters) + 1 |->
                IF i <= Len(parameters) THEN parameters[i].name ELSE user_email]

\* What a field can hold: a type="number" input gives no other text away, and
\* the form's novalidate leaves the e-mail field unchecked.
Enterable(i) ==
    IF i > Len(parameters) THEN {Blank} \cup OtherTexts \cup ValidEmails
    ELSE {Blank} \cup NumberTexts \cup (IF parameters[i].numeric THEN {} ELSE OtherTexts)

Empty(fields) == [i \in DOMAIN fields |-> Blank]

----
\* The submit handler.  FormData lists the fields in order; get returns the
\* first of a name, and of the assignments to parameters[key] the last one stays.
FirstNamed(n) == CHOOSE i \in DOMAIN entered :
    FieldNames[i] = n /\ \A k \in DOMAIN entered : k < i => FieldNames[k] # n

LastNamed(n) == CHOOSE i \in DOMAIN entered :
    FieldNames[i] = n /\ \A k \in DOMAIN entered : k > i => FieldNames[k] # n

NUMERIC_FIELDS == {parameters[i].name : i \in {k \in DOMAIN parameters : parameters[k].numeric}}

\* Faulty variant: the key check of the e-mail field is missing.
EveryKey == {FieldNames[i] : i \in DOMAIN entered}

ParameterKeys == {FieldNames[i] : i \in DOMAIN entered} \ {user_email}

Invalid == {i \in DOMAIN entered : /\ FieldNames[i] \in ParameterKeys \cap NUMERIC_FIELDS
                                   /\ entered[i] \notin NumberTexts}

Sent(text, numeric) == [text |-> text, as |-> IF numeric THEN "number" ELSE "string"]

Body == [user_email |-> entered[FirstNamed(user_email)],
         parameters |-> [n \in ParameterKeys |->
                            Sent(entered[LastNamed(n)], n \in NUMERIC_FIELDS)]]

NoBody == [user_email |-> Blank, parameters |-> << >>]

Status(kind, r, j) == [kind |-> kind, of |-> r, job_id |-> j]

NoStatus == Status("none", 0, None)

\* A request without its body, which nothing reads once it has arrived.
Progress(state, h, j) == [state |-> state, via |-> h, job_id |-> j, body |-> NoBody]

NotSent == Progress("new", None, None)

FormTypeOK ==
    /\ ServiceTypeOK
    /\ parameters \in Generated
    /\ entered \in [DOMAIN FieldNames -> {Blank} \cup NumberTexts \cup OtherTexts \cup ValidEmails]
    /\ status \in [kind : {"none", "invalid", "success", "error", "network"},
                   of : 0 .. MaxRequests, job_id : JobIds \cup {None}]
    /\ \A r \in Requests :
        /\ request[r].state \in {"new", "sent", "handled", "created", "refused", "broken", "done"}
        /\ request[r].via \in Handlers \cup {None}
        /\ request[r].job_id \in JobIds \cup {None}
    /\ told \subseteq JobIds
    /\ unanswered \in 0 .. MaxLostAnswers

FormInit ==
    /\ ServiceInit
    /\ parameters \in Generated
    /\ entered = Empty(FieldNames)
    /\ status = NoStatus
    /\ request = [r \in Requests |-> NotSent]
    /\ told = {}
    /\ unanswered = MaxLostAnswers

Enter(i) ==
    /\ \E text \in Enterable(i) : entered' = [entered EXCEPT ![i] = text]
    /\ UNCHANGED <<allVars, parameters, status, request, told, unanswered>>

SubmitInvalid ==
    /\ Invalid # {}
    /\ status' = Status("invalid", 0, None)
    /\ UNCHANGED <<allVars, parameters, entered, request, told, unanswered>>

Submit(r) ==
    /\ request[r] = NotSent
    /\ \A q \in Requests : q < r => request[q] # NotSent
    /\ Invalid = {}
    /\ status' = NoStatus
    /\ request' = [request EXCEPT ![r] = [state |-> "sent", via |-> None, job_id |-> None,
                                           body |-> Body]]
    /\ UNCHANGED <<allVars, parameters, entered, told, unanswered>>

----
Awaited(r) == request[r].state \in {"sent", "handled", "created", "refused", "broken"}

Becomes(r, state, h, j) ==
    /\ request' = [request EXCEPT ![r] = Progress(state, h, j)]
    /\ UNCHANGED <<parameters, entered, status, told, unanswered>>

\* POST /jobs: a user_email that is no e-mail address is answered 422 ...
Refuse(r) ==
    /\ request[r].state = "sent"
    /\ request[r].body.user_email \notin ValidEmails
    /\ Becomes(r, "refused", None, None)
    /\ UNCHANGED allVars

\* Faulty variant: 201 is answered once the row is created.
HandleEarly(r, h) ==
    /\ request[r].state = "sent"
    /\ request[r].body.user_email \in ValidEmails
    /\ \E j \in JobIds : SubmitCreate(h, j) /\ Becomes(r, "created", h, j)

\* ... any other body makes a job, and is answered 201 once that is enqueued.
Handle(r, h) ==
    /\ request[r].state = "sent"
    /\ request[r].body.user_email \in ValidEmails
    /\ \E j \in JobIds : SubmitCreate(h, j) /\ Becomes(r, "handled", h, j)

\* What a finished handler h means for the request that waits for it, if any does.
AnswerTo(h, state) ==
    /\ request' = [r \in Requests |->
                    IF request[r].state = "handled" /\ request[r].via = h
                    THEN Progress(state, None, request[r].job_id)
                    ELSE request[r]]
    /\ UNCHANGED <<parameters, entered, status, told, unanswered>>

HandlerEnds(h) == SubmitEnqueue(h) /\ AnswerTo(h, "created")

\* The answer is a 500 whose body is not JSON.
HandlerBreaks(h) == Abort(h) /\ AnswerTo(h, "broken")

----
Done(r) == request' = [request EXCEPT ![r] = Progress("done", None, None)]

\* Faulty variant: only the answer to the latest request is shown.
ShowLatestCreated(r) ==
    /\ request[r].state = "created"
    /\ IF \A q \in Requests : q > r => request[q] = NotSent
       THEN /\ status' = Status("success", r, request[r].job_id)
            /\ told' = told \cup {request[r].job_id}
            /\ entered' = Empty(entered)
       ELSE UNCHANGED <<status, told, entered>>
    /\ Done(r)
    /\ UNCHANGED <<allVars, parameters, unanswered>>

ShowCreated(r) ==
    /\ request[r].state = "created"
    /\ status' = Status("success", r, request[r].job_id)
    /\ told' = told \cup {request[r].job_id}
    /\ entered' = Empty(entered)
    /\ Done(r)
    /\ UNCHANGED <<allVars, parameters, unanswered>>

ShowRefused(r) ==
    /\ request[r].state = "refused"
    /\ status' = Status("error", r, None)
    /\ Done(r)
    /\ UNCHANGED <<allVars, parameters, entered, told, unanswered>>

\* Faulty variant: there is no catch.
IgnoreBroken(r) ==
    /\ request[r].state = "broken"
    /\ Done(r)
    /\ UNCHANGED <<allVars, parameters, entered, status, told, unanswered>>

\* The catch: response.json() has failed.
ShowBroken(r) ==
    /\ request[r].state = "broken"
    /\ status' = Status("network", r, None)
    /\ Done(r)
    /\ UNCHANGED <<allVars, parameters, entered, told, unanswered>>

\* The connection breaks, before or after the request has arrived; what is
\* handled goes on.  fetch fails, which the catch shows as well.
LoseConnection(r) ==
    /\ Awaited(r)
    /\ unanswered > 0
    /\ unanswered' = unanswered - 1
    /\ status' = Status("network", r, None)
    /\ Done(r)
    /\ UNCHANGED <<allVars, parameters, entered, told>>

Show(r) == ShowCreated(r) \/ ShowRefused(r) \/ ShowBroken(r)

FormNext ==
    \/ \E i \in DOMAIN entered : Enter(i)
    \/ SubmitInvalid
    \/ \E r \in Requests : \/ Submit(r) \/ Refuse(r) \/ LoseConnection(r)
                           \/ ShowCreated(r) \/ ShowRefused(r) \/ ShowBroken(r)
    \/ \E r \in Requests, h \in Handlers : Handle(r, h)
    \/ \E h \in Handlers : HandlerEnds(h) \/ HandlerBreaks(h)

FormSpec == FormInit /\ [][FormNext]_formVars

\* The API takes requests and its handlers go on; the browser runs the callbacks.
FormFairness ==
    /\ \A r \in Requests : /\ WF_formVars(Show(r))
                           /\ WF_formVars(Refuse(r) \/ \E h \in Handlers : Handle(r, h))
    /\ \A h \in Handlers : WF_formVars(HandlerEnds(h))

FairFormSpec == FormSpec /\ FormFairness

----
\* Each parameter has a name of its own, and none has the e-mail field's.
NamesDiffer == \A i, k \in DOMAIN FieldNames : FieldNames[i] = FieldNames[k] => i = k

\* What is sent is what the user entered: each parameter under its name, as a
\* number if it is one, and the e-mail address - on every page whose parameters
\* have different names and none the e-mail field's.
SentAsEntered ==
    [][\A r \in Requests : NamesDiffer /\ Submit(r) =>
        LET body == request'[r].body
        IN  /\ body.user_email = entered[Len(entered)]
            /\ DOMAIN body.parameters = {parameters[i].name : i \in DOMAIN parameters}
            /\ \A i \in DOMAIN parameters :
                body.parameters[parameters[i].name] =
                    [text |-> entered[i],
                     as |-> IF parameters[i].numeric THEN "number" ELSE "string"]]_formVars

\* A job id the page shows is that of a job that exists and was enqueued, not of
\* one whose handler stopped in between.
ShownJobsAreEnqueued == \A j \in told : Exists(j) /\ j \in sent

\* A job the user was never told of is the work of a stopped handler or a lost
\* answer of its own, whatever order answers come in and however often the user
\* submits meanwhile.
UntoldJobsHaveACause ==
    Cardinality({j \in JobIds : /\ Exists(j) /\ j \notin told
                                /\ \A r \in Requests : request[r].job_id # j})
        <= FaultsSpent("abort") + (MaxLostAnswers - unanswered)

\* After a submission the page does not stay blank.
EverySubmissionIsAnswered ==
    \A r \in Requests : Awaited(r) ~> status.kind # "none"
====
