---- MODULE FormPagesProofs ----
(* What processes link to and serve, for every registry, number of versions, *)
(* processes and threads, and any failed uploads, deployments and stops.     *)
EXTENDS FormPages, FiniteSetTheorems, SequenceTheorems, TLAPS

\* A page that is there and, unless a form has the public form's name, is the
\* registry's, of a version not older than v or of one of the elders.
Explained(v, elders, page) ==
    /\ page # NoPage
    /\ PUBLIC_FORM_NAME \notin FormIds
         => page.by = "registry" /\ (page.version >= v \/ page.version \in elders)

\* The first n pages of p's registry are explained to p.
ExplainedUpTo(p, n) ==
    \A i \in 1 .. n :
        Explained(process[p].version, process[p].elders,
                  pages[<<Place(p), Forms(process[p].version)[i]>>])

VersionsRun ==
    \A p \in Processes : process[p] # Down => process[p].version \in 1 .. deployed

\* Of two processes that run, one is newer or the other knew of it.
Cohorts ==
    \A p, q \in Processes : process[p] # Down /\ process[q] # Down
        => \/ process[q].version >= process[p].version
           \/ process[q].version \in process[p].elders

ThreadExplained(p, t) ==
    thread[p][t] # Idle =>
        /\ process[p] # Down
        /\ thread[p][t].uploaded <= Len(Forms(process[p].version))
        /\ ExplainedUpTo(p, thread[p][t].uploaded)

ThreadsExplained == \A p \in Processes, t \in Threads : ThreadExplained(p, t)

\* The startup handler runs alone, before the app serves.
StartsAlone ==
    \A p \in Processes, t \in Threads : thread[p][t].route = "startup"
        => /\ ~process[p].serving
           /\ \A u \in Threads : u # t => thread[p][u] = Idle

LinksExplained ==
    \A p \in Processes : process[p].urls
        => ExplainedUpTo(p, Len(Forms(process[p].version)))

PagesInv ==
    /\ PagesTypeOK /\ VersionsRun /\ Cohorts
    /\ ThreadsExplained /\ StartsAlone /\ LinksExplained

----
\* load_forms gives ids.
LEMMA LoadedIds ==
    ASSUME NEW file \in Files
    PROVE  load_forms(file).forms \in Seq(FormIds)
<1>1. file.entries \in Seq(FormEntries)
  BY DEF Files
<1>2. Raised("ValueError").forms \in Seq(FormIds) /\ Raised("TypeError").forms \in Seq(FormIds)
  BY DEF Raised
<1>3. ASSUME \A i \in DOMAIN file.entries : Validates(file.entries[i])
      PROVE  EntryIds(file) \in Seq(FormIds)
  <2>1. \A i \in DOMAIN file.entries : file.entries[i] \in FormEntries
    BY <1>1
  <2>2. \A i \in DOMAIN file.entries : file.entries[i].id \in FormIds
    BY <1>3, <2>1 DEF FormEntries, Validates
  <2>3. DOMAIN file.entries = 1 .. Len(file.entries) /\ Len(file.entries) \in Nat
    BY <1>1
  <2>4. EntryIds(file) \in [1 .. Len(file.entries) -> FormIds]
    BY <2>2, <2>3 DEF EntryIds
  <2> QED
    BY <2>3, <2>4
<1>4. Loaded(EntryIds(file)).forms = EntryIds(file)
  BY DEF Loaded
<1> QED
  BY <1>2, <1>3, <1>4 DEF load_forms

LEMMA FormsType ==
    ASSUME PagesTypeOK, NEW v \in 1 .. Versions
    PROVE  Forms(v) \in Seq(FormIds) /\ Len(Forms(v)) \in Nat
<1>1. definitions[v] \in Files
  BY ReleasesType DEF PagesTypeOK
<1>2. Forms(v) \in Seq(FormIds)
  BY <1>1, LoadedIds DEF Forms
<1> QED
  BY <1>2

LEMMA RunsVersion ==
    ASSUME PagesInv, NEW p \in Processes, process[p] # Down
    PROVE  process[p].version \in 1 .. Versions
BY VersionsType DEF PagesInv, PagesTypeOK, VersionsRun

LEMMA PlaceType ==
    ASSUME NEW p \in Processes PROVE Place(p) \in Places
BY DEF Place, Places

\* A thread with uploads left is busy with one of its process's forms.
LEMMA UploaderRuns ==
    ASSUME PagesInv, NEW p \in Processes, NEW t \in Threads, Remaining(p, t) > 0
    PROVE  LET v == process[p].version
               n == thread[p][t].uploaded + 1
           IN  /\ thread[p][t] # Idle /\ process[p] # Down
               /\ v \in 1 .. Versions
               /\ n \in 1 .. Len(Forms(v))
               /\ Forms(v)[n] \in FormIds
<1> DEFINE v == process[p].version
           n == thread[p][t].uploaded + 1
<1>1. thread[p][t] # Idle
  BY DEF Remaining
<1>2. process[p] # Down
  BY <1>1 DEF PagesInv, ThreadsExplained, ThreadExplained
<1>3. v \in 1 .. Versions
  BY <1>2, RunsVersion
<1>4. thread[p][t].uploaded \in Nat
  BY DEF PagesInv, PagesTypeOK
<1>5. Forms(v) \in Seq(FormIds) /\ Len(Forms(v)) \in Nat
  BY <1>3, FormsType DEF PagesInv
<1>6. n \in 1 .. Len(Forms(v))
  BY <1>1, <1>4, <1>5 DEF Remaining
<1> QED
  BY <1>1, <1>2, <1>3, <1>5, <1>6

----
\* An upload replaces one page by one that is explained to everybody who runs,
\* and deploying the public form replaces none of the registry's.
LEMMA UploadExplained ==
    ASSUME PagesInv, NEW p \in Processes, process[p] # Down,
           NEW q \in Processes, NEW t \in Threads, Upload(q, t)
    PROVE  Explained(process[p].version, process[p].elders,
                     [by |-> "registry", version |-> process[q].version])
<1>1. process[q] # Down
  BY UploaderRuns DEF Upload
<1>2. \/ process[q].version >= process[p].version
      \/ process[q].version \in process[p].elders
  BY <1>1 DEF PagesInv, Cohorts
<1> QED
  BY <1>2 DEF Explained, NoPage

LEMMA ExplainedStays ==
    ASSUME PagesInv, [PagesNext]_pageVars, NEW p \in Processes, process[p] # Down,
           NEW place \in Places, NEW id \in FormIds,
           Explained(process[p].version, process[p].elders, pages[<<place, id>>])
    PROVE  Explained(process[p].version, process[p].elders, pages'[<<place, id>>])
<1>0. pages \in [Places \X Names -> [by : {"nobody", "registry", "public"},
                                     version : 0 .. Versions]]
  BY DEF PagesInv, PagesTypeOK
<1> DEFINE Goal == Explained(process[p].version, process[p].elders, pages'[<<place, id>>])
<1>1. ASSUME UNCHANGED pages PROVE Goal
  BY <1>1
<1>2. ASSUME NEW q \in Processes, NEW t \in Threads, Upload(q, t) PROVE Goal
  <2> DEFINE written == [by |-> "registry", version |-> process[q].version]
  <2>1. PICK x \in Places \X Names : pages' = [pages EXCEPT ![x] = written]
    BY <1>2, UploaderRuns, PlaceType DEF Upload, Names
  <2>2. pages'[<<place, id>>] \in {written, pages[<<place, id>>]}
    BY <1>0, <2>1
  <2> QED
    BY <1>2, <2>2, UploadExplained
<1>3. ASSUME NEW v \in 1 .. deployed, DeployPublicForm(v) PROVE Goal
  <2> DEFINE written == [by |-> "public", version |-> v]
  <2>1. pages' = [pages EXCEPT ![<<Container, PUBLIC_FORM_NAME>>] = written]
    BY <1>3 DEF DeployPublicForm
  <2>2. CASE id # PUBLIC_FORM_NAME
    <3>1. pages'[<<place, id>>] = pages[<<place, id>>]
      BY <1>0, <2>1, <2>2 DEF Names
    <3> QED
      BY <3>1
  <2>3. CASE id = PUBLIC_FORM_NAME
    <3>1. PUBLIC_FORM_NAME \in FormIds
      BY <2>3
    <3>2. pages'[<<place, id>>] \in {written, pages[<<place, id>>]}
      BY <1>0, <2>1 DEF Names
    <3>3. written # NoPage
      BY DEF NoPage
    <3> QED
      BY <3>1, <3>2, <3>3 DEF Explained
  <2> QED
    BY <2>2, <2>3
<1> QED
  BY <1>1, <1>2, <1>3
     DEF PagesNext, pageVars, Deploy, StartServing, RenderIndex, Stop, StartPrerendering,
         Visit, UploadFails, Publish

\* A process that goes on under its version keeps the pages it has.
LEMMA UpToStays ==
    ASSUME PagesInv, [PagesNext]_pageVars, NEW p \in Processes, process[p] # Down,
           process'[p].version = process[p].version,
           process'[p].elders = process[p].elders,
           NEW n \in Nat, n <= Len(Forms(process[p].version)), ExplainedUpTo(p, n)
    PROVE  ExplainedUpTo(p, n)'
<1> DEFINE v == process[p].version
<1>1. v \in 1 .. Versions /\ Forms(v) \in Seq(FormIds) /\ Len(Forms(v)) \in Nat
  BY RunsVersion, FormsType DEF PagesInv
<1>2. UNCHANGED definitions
  BY DEF PagesNext, pageVars, Deploy, DeployPublicForm, StartServing, RenderIndex, Stop,
         StartPrerendering, Visit, Upload, UploadFails, Publish
<1>3. Place(p)' = Place(p) /\ Forms(process[p].version)' = Forms(v)
  BY <1>2 DEF Place, Forms
<1>4. ASSUME NEW i \in 1 .. n
      PROVE  Explained(v, process[p].elders, pages'[<<Place(p), Forms(v)[i]>>])
  <2>1. Forms(v)[i] \in FormIds
    BY <1>1
  <2>2. Explained(v, process[p].elders, pages[<<Place(p), Forms(v)[i]>>])
    BY DEF ExplainedUpTo
  <2> QED
    BY <2>1, <2>2, PlaceType, ExplainedStays
<1> QED
  BY <1>3, <1>4 DEF ExplainedUpTo
----
ProcessType(pr) ==
    pr \in [version : 0 .. Versions, elders : SUBSET (1 .. Versions),
            serving : BOOLEAN, urls : BOOLEAN, index : BOOLEAN]

LEMMA StartingType ==
    ASSUME PagesInv, NEW serving \in BOOLEAN
    PROVE  ProcessType(Starting(serving))
<1>1. deployed \in 0 .. Versions
  BY VersionsType DEF PagesInv, PagesTypeOK
<1>2. {process[q].version : q \in Running} \subseteq 1 .. Versions
  BY RunsVersion DEF Running
<1> QED
  BY <1>1, <1>2 DEF Starting, ProcessType

LEMMA DownType == ProcessType(Down)
BY VersionsType DEF Down, ProcessType

PageType(page) ==
    page \in [by : {"nobody", "registry", "public"}, version : 0 .. Versions]

LEMMA PageReplaced ==
    ASSUME PagesTypeOK, NEW page, PageType(page), NEW x \in Places \X Names,
           pages' = [pages EXCEPT ![x] = page]
    PROVE  pages' \in [Places \X Names -> [by : {"nobody", "registry", "public"},
                                           version : 0 .. Versions]]
BY DEF PagesTypeOK, PageType

LEMMA NextPagesTypeOK ==
    ASSUME PagesInv, [PagesNext]_pageVars
    PROVE  PagesTypeOK'
<1>a. PagesTypeOK
  BY DEF PagesInv
<1> USE DEF PagesTypeOK
<1>1. CASE Deploy
  BY <1>1, <1>a, VersionsType DEF Deploy
<1>2. ASSUME NEW v \in 1 .. deployed, DeployPublicForm(v) PROVE PagesTypeOK'
  <2> DEFINE written == [by |-> "public", version |-> v]
  <2>1. v \in 0 .. Versions
    BY <1>a, VersionsType
  <2>2. PageType(written)
    BY <2>1 DEF PageType
  <2>3. pages' = [pages EXCEPT ![<<Container, PUBLIC_FORM_NAME>>] = written]
    BY <1>2 DEF DeployPublicForm
  <2>4. <<Container, PUBLIC_FORM_NAME>> \in Places \X Names
    BY DEF Places, Names
  <2> HIDE DEF written
  <2> QED
    BY <1>2, <1>a, <2>2, <2>3, <2>4, PageReplaced DEF DeployPublicForm
<1>3. ASSUME NEW p \in Processes, NEW pr, ProcessType(pr),
             process' = [process EXCEPT ![p] = pr],
             UNCHANGED <<definitions, deployed, thread, pages, outages>>
      PROVE  PagesTypeOK'
  BY <1>3, <1>a DEF ProcessType
<1>4. ASSUME NEW p \in Processes, StartServing(p) PROVE PagesTypeOK'
  BY <1>3, <1>4, StartingType DEF StartServing
<1>5. ASSUME NEW p \in Processes, RenderIndex(p) PROVE PagesTypeOK'
  <2> DEFINE pr == [process[p] EXCEPT !.index = TRUE]
  <2>1. ProcessType(pr)
    BY <1>a DEF ProcessType
  <2>2. process' = [process EXCEPT ![p] = pr]
    BY <1>5 DEF RenderIndex
  <2> HIDE DEF pr
  <2> QED
    BY <1>3, <1>5, <2>1, <2>2 DEF RenderIndex
<1>6. ASSUME NEW p \in Processes, Stop(p) PROVE PagesTypeOK'
  <2>1. thread' \in [Processes -> [Threads -> [route : Routes \cup {"none"}, uploaded : Nat]]]
    BY <1>6, <1>a DEF Stop, Idle
  <2>2. process' = [process EXCEPT ![p] = Down]
    BY <1>6 DEF Stop
  <2> QED
    BY <1>6, <1>a, <2>1, <2>2, DownType DEF Stop, ProcessType
<1>7. ASSUME NEW p \in Processes, NEW t \in Threads,
             NEW th \in [route : Routes \cup {"none"}, uploaded : Nat],
             thread' = [thread EXCEPT ![p][t] = th]
      PROVE  thread' \in [Processes -> [Threads -> [route : Routes \cup {"none"}, uploaded : Nat]]]
  BY <1>7, <1>a
<1>8. ASSUME NEW p \in Processes, NEW t \in Threads, StartPrerendering(p, t)
      PROVE  PagesTypeOK'
  <2>1. thread' \in [Processes -> [Threads -> [route : Routes \cup {"none"}, uploaded : Nat]]]
    BY <1>7, <1>8 DEF StartPrerendering, Routes
  <2>2. process' = [process EXCEPT ![p] = Starting(FALSE)]
    BY <1>8 DEF StartPrerendering
  <2> QED
    BY <1>8, <1>a, <2>1, <2>2, StartingType DEF StartPrerendering, ProcessType
<1>9. ASSUME NEW p \in Processes, NEW t \in Threads, NEW route \in {"/", "/forms"},
             Visit(p, t, route)
      PROVE  PagesTypeOK'
  <2>1. thread' \in [Processes -> [Threads -> [route : Routes \cup {"none"}, uploaded : Nat]]]
    BY <1>7, <1>9 DEF Visit, Routes
  <2> QED
    BY <1>9, <1>a, <2>1 DEF Visit
<1>10. ASSUME NEW p \in Processes, NEW t \in Threads, Upload(p, t) PROVE PagesTypeOK'
  <2> DEFINE v == process[p].version
             written == [by |-> "registry", version |-> v]
             th == [thread[p][t] EXCEPT !.uploaded = @ + 1]
  <2>1. PICK x \in Places \X Names : pages' = [pages EXCEPT ![x] = written]
    BY <1>10, UploaderRuns, PlaceType DEF Upload, Names
  <2>2. PageType(written)
    BY <1>a DEF PageType
  <2>3. th \in [route : Routes \cup {"none"}, uploaded : Nat]
    <3>1. thread[p][t] \in [route : Routes \cup {"none"}, uploaded : Nat]
      BY <1>a
    <3>2. th = [route |-> thread[p][t].route, uploaded |-> thread[p][t].uploaded + 1]
      BY <3>1
    <3> QED
      BY <3>1, <3>2
  <2>4. thread' = [thread EXCEPT ![p][t] = th]
    BY <1>10 DEF Upload
  <2> HIDE DEF written, th
  <2>5. thread' \in [Processes -> [Threads -> [route : Routes \cup {"none"}, uploaded : Nat]]]
    BY <1>7, <2>3, <2>4
  <2> QED
    BY <1>10, <1>a, <2>1, <2>2, <2>5, PageReplaced DEF Upload
<1>11. Idle \in [route : Routes \cup {"none"}, uploaded : Nat]
  BY DEF Idle
<1>12. ASSUME NEW p \in Processes, NEW t \in Threads, UploadFails(p, t)
       PROVE  PagesTypeOK'
  <2>1. thread' \in [Processes -> [Threads -> [route : Routes \cup {"none"}, uploaded : Nat]]]
    BY <1>7, <1>11, <1>12 DEF UploadFails
  <2>2. PICK pr : ProcessType(pr) /\ process' = [process EXCEPT ![p] = pr]
    BY <1>12, <1>a, DownType DEF UploadFails, ProcessType
  <2>3. outages' \in 0 .. MaxOutages
    BY <1>12, <1>a, MaxOutagesType DEF UploadFails
  <2> QED
    BY <1>12, <1>a, <2>1, <2>2, <2>3 DEF UploadFails, ProcessType
<1>13. ASSUME NEW p \in Processes, NEW t \in Threads, Publish(p, t) PROVE PagesTypeOK'
  <2>1. thread' \in [Processes -> [Threads -> [route : Routes \cup {"none"}, uploaded : Nat]]]
    BY <1>7, <1>11, <1>13 DEF Publish
  <2>2. PICK pr : ProcessType(pr) /\ process' = [process EXCEPT ![p] = pr]
    BY <1>13, <1>a DEF Publish, ProcessType
  <2> QED
    BY <1>13, <1>a, <2>1, <2>2 DEF Publish, ProcessType
<1>14. CASE UNCHANGED pageVars
  BY <1>14, <1>a DEF pageVars
<1> QED
  BY <1>1, <1>2, <1>4, <1>5, <1>6, <1>8, <1>9, <1>10, <1>12, <1>13, <1>14 DEF PagesNext

----
\* What a step may do to a process: it goes on, starts, or is down.
GoesOn(p) == /\ process[p] # Down /\ process'[p] # Down
             /\ process'[p].version = process[p].version
             /\ process'[p].elders = process[p].elders

Starts(p) == /\ process[p] = Down
             /\ \E serving \in BOOLEAN : process'[p] = Starting(serving)
             /\ \A q \in Processes : q # p => process'[q] = process[q]
             /\ UNCHANGED <<definitions, deployed, pages>>
             /\ StartServing(p) \/ \E t \in Threads : StartPrerendering(p, t)

LEMMA StartingIsUp == \A serving : Starting(serving).version = deployed
                                 /\ Starting(serving).elders = {process[q].version : q \in Running}
                                 /\ ~Starting(serving).urls
BY DEF Starting

LEMMA ProcessStep ==
    ASSUME PagesInv, [PagesNext]_pageVars, NEW p \in Processes
    PROVE  GoesOn(p) \/ Starts(p) \/ process'[p] = Down
<1>a. process \in [Processes -> [version : 0 .. Versions, elders : SUBSET (1 .. Versions),
                                serving : BOOLEAN, urls : BOOLEAN, index : BOOLEAN]]
  BY DEF PagesInv, PagesTypeOK
<1> DEFINE Goal == GoesOn(p) \/ Starts(p) \/ process'[p] = Down
<1>1. ASSUME process'[p] = process[p] PROVE Goal
  BY <1>1 DEF GoesOn
<1>2. ASSUME NEW q \in Processes,
             StartServing(q) \/ \E t \in Threads : StartPrerendering(q, t)
      PROVE  Goal
  <2>1. PICK serving \in BOOLEAN : process' = [process EXCEPT ![q] = Starting(serving)]
    BY <1>2 DEF StartServing, StartPrerendering
  <2>2. process[q] = Down /\ UNCHANGED <<definitions, deployed, pages>>
    BY <1>2 DEF StartServing, StartPrerendering
  <2>3. CASE q = p
    BY <1>a, <1>2, <2>1, <2>2, <2>3 DEF Starts
  <2>4. CASE q # p
    BY <1>a, <1>1, <2>1, <2>4
  <2> QED
    BY <2>3, <2>4
<1>3. ASSUME NEW q \in Processes, RenderIndex(q) PROVE Goal
  <2>1. CASE q = p
    <3>1. process[p].serving
      BY <1>3, <2>1 DEF RenderIndex
    <3>2. /\ process'[p].serving /\ process'[p].version = process[p].version
          /\ process'[p].elders = process[p].elders
      BY <1>3, <1>a, <2>1, <3>1 DEF RenderIndex
    <3> QED
      BY <3>1, <3>2 DEF GoesOn, Down
  <2>2. CASE q # p
    BY <1>3, <1>a, <1>1, <2>2 DEF RenderIndex
  <2> QED
    BY <2>1, <2>2
<1>4. ASSUME NEW q \in Processes, Stop(q) PROVE Goal
  BY <1>4, <1>a, <1>1 DEF Stop
<1>5. ASSUME NEW q \in Processes, NEW t \in Threads, UploadFails(q, t) PROVE Goal
  BY <1>5, <1>a, <1>1 DEF UploadFails
<1>6. ASSUME NEW q \in Processes, NEW t \in Threads, Publish(q, t) PROVE Goal
  <2>1. CASE q = p
    <3>1. process[p] # Down
      BY <1>6, <2>1 DEF Publish, PagesInv, ThreadsExplained, ThreadExplained
    <3>2. /\ process'[p].serving /\ process'[p].version = process[p].version
          /\ process'[p].elders = process[p].elders
      BY <1>6, <1>a, <2>1 DEF Publish
    <3> QED
      BY <3>1, <3>2 DEF GoesOn, Down
  <2>2. CASE q # p
    BY <1>6, <1>a, <1>1, <2>2 DEF Publish
  <2> QED
    BY <2>1, <2>2
<1>7. ASSUME UNCHANGED process PROVE Goal
  BY <1>7, <1>1
<1> HIDE DEF Goal
<1>8. Goal
  BY <1>2, <1>3, <1>4, <1>5, <1>6, <1>7
     DEF PagesNext, pageVars, Deploy, DeployPublicForm, Visit, Upload
<1> QED
  BY <1>8 DEF Goal

LEMMA NextVersionsRun ==
    ASSUME PagesInv, [PagesNext]_pageVars
    PROVE  VersionsRun' /\ Cohorts'
<1>1. deployed' \in Nat /\ deployed \in 1 .. deployed'
  <2>1. deployed \in Nat /\ deployed >= 1
    BY VersionsType DEF PagesInv, PagesTypeOK
  <2>2. deployed' \in {deployed, deployed + 1}
    BY DEF PagesNext, pageVars, Deploy, DeployPublicForm, StartServing, RenderIndex, Stop,
           StartPrerendering, Visit, Upload, UploadFails, Publish
  <2> QED
    BY <2>1, <2>2
<1>2. \A p \in Processes : process[p] # Down => process[p].version \in 1 .. deployed
  BY DEF PagesInv, VersionsRun
<1>3. ASSUME NEW p \in Processes, process'[p] # Down
      PROVE  process'[p].version \in 1 .. deployed'
  <2>1. CASE GoesOn(p)
    BY <1>1, <1>2, <2>1 DEF GoesOn
  <2>2. CASE Starts(p)
    BY <1>1, <2>2, StartingIsUp DEF Starts
  <2> QED
    BY <1>3, <2>1, <2>2, ProcessStep
<1>4. ASSUME NEW p \in Processes, NEW q \in Processes, process'[p] # Down, process'[q] # Down
      PROVE  \/ process'[q].version >= process'[p].version
             \/ process'[q].version \in process'[p].elders
  <2>1. CASE GoesOn(p) /\ GoesOn(q)
    BY <2>1 DEF GoesOn, PagesInv, Cohorts
  <2>2. CASE Starts(p) /\ GoesOn(q)
    <3>1. q \in Running
      BY <2>2 DEF GoesOn, Running
    <3> QED
      BY <2>2, <3>1, StartingIsUp DEF Starts, GoesOn
  <2>3. CASE GoesOn(p) /\ Starts(q)
    <3>1. process'[q].version = deployed
      BY <2>3, StartingIsUp DEF Starts
    <3> QED
      BY <1>1, <1>2, <2>3, <3>1 DEF GoesOn
  <2>4. CASE Starts(p) /\ Starts(q)
    <3>1. p = q
      BY <1>4, <2>4 DEF Starts
    <3>2. process'[p].version \in 1 .. deployed'
      BY <1>3, <1>4
    <3> QED
      BY <3>1, <3>2
  <2> QED
    BY <1>4, <2>1, <2>2, <2>3, <2>4, ProcessStep
<1> QED
  BY <1>3, <1>4 DEF VersionsRun, Cohorts

----
\* What a step may do to a thread that is busy after it.
ThreadGoesOn(p, t) == /\ thread'[p][t] = thread[p][t]
                      /\ GoesOn(p)

ThreadStarts(p, t) == /\ thread'[p][t].uploaded = 0
                      /\ process'[p] # Down

ThreadUploads(p, t) == /\ Upload(p, t)
                       /\ thread'[p][t].uploaded = thread[p][t].uploaded + 1

LEMMA BusyIsUp ==
    ASSUME PagesInv, NEW p \in Processes, NEW t \in Threads, thread[p][t] # Idle
    PROVE  process[p] # Down
BY DEF PagesInv, ThreadsExplained, ThreadExplained

LEMMA ThreadStep ==
    ASSUME PagesInv, [PagesNext]_pageVars, NEW p \in Processes, NEW t \in Threads,
           thread'[p][t] # Idle
    PROVE  ThreadGoesOn(p, t) \/ ThreadStarts(p, t) \/ ThreadUploads(p, t)
<1>a. process \in [Processes -> [version : 0 .. Versions, elders : SUBSET (1 .. Versions),
                                serving : BOOLEAN, urls : BOOLEAN, index : BOOLEAN]]
  BY DEF PagesInv, PagesTypeOK
<1>b. thread \in [Processes -> [Threads -> [route : Routes \cup {"none"}, uploaded : Nat]]]
  BY DEF PagesInv, PagesTypeOK
<1> DEFINE Goal == ThreadGoesOn(p, t) \/ ThreadStarts(p, t) \/ ThreadUploads(p, t)
<1>1. ASSUME thread'[p][t] = thread[p][t], process'[p] # Down PROVE Goal
  <2>1. process[p] # Down
    BY <1>1, BusyIsUp
  <2>2. GoesOn(p)
    BY <1>1, <2>1, ProcessStep DEF Starts
  <2> QED
    BY <1>1, <2>2 DEF ThreadGoesOn
<1>2. ASSUME thread'[p][t] = thread[p][t], process'[p] = process[p] PROVE Goal
  BY <1>1, <1>2, BusyIsUp
<1>3. ASSUME NEW q \in Processes, StartServing(q) \/ RenderIndex(q) PROVE Goal
  <2>1. thread'[p][t] = thread[p][t]
    BY <1>3 DEF StartServing, RenderIndex
  <2>2. q = p \/ process'[p] = process[p]
    BY <1>3, <1>a DEF StartServing, RenderIndex
  <2>3. CASE q = p
    <3>1. RenderIndex(p)
      BY <1>3, <2>1, <2>3, BusyIsUp DEF StartServing
    <3>2. process'[p].serving
      BY <3>1, <1>a DEF RenderIndex
    <3> QED
      BY <1>1, <2>1, <3>2 DEF Down
  <2> QED
    BY <1>2, <2>1, <2>2, <2>3
<1>4. ASSUME NEW q \in Processes, Stop(q) PROVE Goal
  <2>1. q # p
    BY <1>4 DEF Stop, PagesInv, PagesTypeOK
  <2>2. thread'[p][t] = thread[p][t] /\ process'[p] = process[p]
    BY <1>4, <1>a, <2>1 DEF Stop, PagesInv, PagesTypeOK
  <2> QED
    BY <1>2, <2>2
<1>5. ASSUME NEW q \in Processes, NEW u \in Threads, StartPrerendering(q, u) PROVE Goal
  <2>1. /\ process' = [process EXCEPT ![q] = Starting(FALSE)]
        /\ thread' = [thread EXCEPT ![q][u] = [route |-> "startup", uploaded |-> 0]]
        /\ process[q] = Down
    BY <1>5 DEF StartPrerendering
  <2>2. thread'[p][t] = IF p = q /\ t = u THEN [route |-> "startup", uploaded |-> 0]
                                           ELSE thread[p][t]
    BY <2>1, <1>b
  <2>3. CASE q = p /\ t = u
    <3>1. process'[p].version = deployed
      BY <1>a, <2>1, <2>3 DEF Starting
    <3>2. process'[p] # Down
      BY <3>1, VersionsType DEF Down, PagesInv, PagesTypeOK
    <3> QED
      BY <2>2, <2>3, <3>2 DEF ThreadStarts
  <2>4. CASE q # p
    BY <1>2, <1>a, <2>1, <2>2, <2>4
  <2>5. CASE q = p /\ t # u
    BY <2>1, <2>2, <2>5, BusyIsUp
  <2> QED
    BY <2>3, <2>4, <2>5
<1>6. ASSUME NEW q \in Processes, NEW u \in Threads, NEW route, Visit(q, u, route)
      PROVE  Goal
  <2>1. thread'[p][t] = IF p = q /\ t = u THEN [route |-> route, uploaded |-> 0]
                                           ELSE thread[p][t]
    BY <1>6, <1>b DEF Visit
  <2>2. UNCHANGED process /\ process[q].serving
    BY <1>6 DEF Visit
  <2>3. CASE q = p /\ t = u
    BY <2>1, <2>2, <2>3 DEF ThreadStarts, Down
  <2> QED
    BY <1>2, <2>1, <2>2, <2>3
<1>7. ASSUME NEW q \in Processes, NEW u \in Threads, Upload(q, u) PROVE Goal
  <2> DEFINE th == [thread[q][u] EXCEPT !.uploaded = @ + 1]
  <2>1. thread' = [thread EXCEPT ![q][u] = th] /\ UNCHANGED process
    BY <1>7 DEF Upload
  <2> HIDE DEF th
  <2>2. thread'[p][t] = IF p = q /\ t = u THEN th ELSE thread[p][t]
    BY <2>1, <1>b
  <2>3. th.uploaded = thread[q][u].uploaded + 1
    <3> USE DEF th
    <3>1. thread[q][u] \in [route : Routes \cup {"none"}, uploaded : Nat]
      BY DEF PagesInv, PagesTypeOK
    <3> QED
      BY <3>1
  <2> QED
    BY <1>2, <1>7, <2>1, <2>2, <2>3 DEF ThreadUploads
<1>8. ASSUME NEW q \in Processes, NEW u \in Threads, UploadFails(q, u) PROVE Goal
  <2>1. thread'[p][t] = IF p = q /\ t = u THEN Idle ELSE thread[p][t]
    <3>1. thread' = [thread EXCEPT ![q][u] = Idle]
      BY <1>8 DEF UploadFails
    <3> QED
      BY <3>1, <1>b
  <2>2. CASE p = q
    <3>1. t # u /\ thread[p][t] # Idle
      BY <2>1, <2>2
    <3>2. thread[q][u].route # "startup"
      BY <2>2, <3>1 DEF PagesInv, StartsAlone
    <3>3. process'[p] = process[p]
      BY <1>8, <1>a, <2>2, <3>2 DEF UploadFails
    <3> QED
      BY <1>2, <2>1, <3>1, <3>3
  <2>3. CASE p # q
    BY <1>2, <1>8, <1>a, <2>1, <2>3 DEF UploadFails
  <2> QED
    BY <2>2, <2>3
<1>9. ASSUME NEW q \in Processes, NEW u \in Threads, Publish(q, u) PROVE Goal
  <2>1. thread'[p][t] = IF p = q /\ t = u THEN Idle ELSE thread[p][t]
    <3>1. thread' = [thread EXCEPT ![q][u] = Idle]
      BY <1>9 DEF Publish
    <3> QED
      BY <3>1, <1>b
  <2>2. CASE p = q
    <3>1. process'[p].serving
      BY <1>9, <1>a, <2>2 DEF Publish
    <3> QED
      BY <1>1, <2>1, <3>1 DEF Down
  <2>3. CASE p # q
    BY <1>2, <1>9, <1>a, <2>1, <2>3 DEF Publish
  <2> QED
    BY <2>2, <2>3
<1>10. ASSUME UNCHANGED <<process, thread>> PROVE Goal
  BY <1>2, <1>10
<1> HIDE DEF Goal
<1>11. Goal
  BY <1>3, <1>4, <1>5, <1>6, <1>7, <1>8, <1>9, <1>10
     DEF PagesNext, pageVars, Deploy, DeployPublicForm
<1> QED
  BY <1>11 DEF Goal

LEMMA NextStartsAlone ==
    ASSUME PagesInv, [PagesNext]_pageVars
    PROVE  StartsAlone'
<1>a. process \in [Processes -> [version : 0 .. Versions, elders : SUBSET (1 .. Versions),
                                serving : BOOLEAN, urls : BOOLEAN, index : BOOLEAN]]
  BY DEF PagesInv, PagesTypeOK
<1>b. thread \in [Processes -> [Threads -> [route : Routes \cup {"none"}, uploaded : Nat]]]
  BY DEF PagesInv, PagesTypeOK
<1>c. \A p \in Processes, t \in Threads : thread[p][t].route = "startup"
        => ~process[p].serving /\ \A u \in Threads : u # t => thread[p][u] = Idle
  BY DEF PagesInv, StartsAlone
<1>d. Idle.route # "startup" /\ ~Down.serving
  BY DEF Idle, Down
<1>1. ASSUME NEW q \in Processes, StartServing(q) PROVE StartsAlone'
  <2>1. \A t \in Threads : thread[q][t] = Idle
    BY <1>1, BusyIsUp DEF StartServing
  <2>2. UNCHANGED thread /\ \A p \in Processes : p # q => process'[p] = process[p]
    BY <1>1, <1>a DEF StartServing
  <2> QED
    BY <1>c, <1>d, <2>1, <2>2 DEF StartsAlone
<1>2. ASSUME NEW q \in Processes, RenderIndex(q) PROVE StartsAlone'
  <2>1. UNCHANGED thread /\ \A p \in Processes : process'[p].serving = process[p].serving
    BY <1>2, <1>a DEF RenderIndex
  <2> QED
    BY <1>c, <2>1 DEF StartsAlone
<1>3. ASSUME NEW q \in Processes, Stop(q) PROVE StartsAlone'
  <2>1. \A t \in Threads : thread'[q][t] = Idle
    BY <1>3, <1>b DEF Stop
  <2>2. \A p \in Processes : p # q => process'[p] = process[p] /\ thread'[p] = thread[p]
    BY <1>3, <1>a, <1>b DEF Stop
  <2> QED
    BY <1>c, <1>d, <2>1, <2>2 DEF StartsAlone
<1>4. ASSUME NEW q \in Processes, NEW u \in Threads, StartPrerendering(q, u)
      PROVE  StartsAlone'
  <2>1. \A t \in Threads : t # u => thread'[q][t] = Idle
    BY <1>4, <1>b, BusyIsUp DEF StartPrerendering
  <2>2. ~process'[q].serving
    BY <1>4, <1>a DEF StartPrerendering, Starting
  <2>3. \A p \in Processes : p # q => process'[p] = process[p] /\ thread'[p] = thread[p]
    BY <1>4, <1>a, <1>b DEF StartPrerendering
  <2> QED
    BY <1>c, <1>d, <2>1, <2>2, <2>3 DEF StartsAlone
<1>5. ASSUME NEW q \in Processes, NEW u \in Threads, NEW route \in {"/", "/forms"},
             Visit(q, u, route)
      PROVE  StartsAlone'
  <2>1. thread' = [thread EXCEPT ![q][u] = [route |-> route, uploaded |-> 0]]
    BY <1>5 DEF Visit
  <2>2. process[q].serving /\ UNCHANGED process
    BY <1>5 DEF Visit
  <2>3. \A t \in Threads : thread'[q][t].route # "startup"
    BY <1>b, <1>c, <2>1, <2>2
  <2>4. \A p \in Processes : p # q => thread'[p] = thread[p]
    BY <1>b, <2>1
  <2> QED
    BY <1>c, <2>2, <2>3, <2>4 DEF StartsAlone
<1>6. ASSUME NEW q \in Processes, NEW u \in Threads, Upload(q, u) PROVE StartsAlone'
  <2> DEFINE th == [thread[q][u] EXCEPT !.uploaded = @ + 1]
  <2>1. thread' = [thread EXCEPT ![q][u] = th] /\ UNCHANGED process
    BY <1>6 DEF Upload
  <2>2. th.route = thread[q][u].route
    <3>1. thread[q][u] \in [route : Routes \cup {"none"}, uploaded : Nat]
      BY <1>b
    <3> QED
      BY <3>1
  <2>3. thread[q][u] # Idle
    BY <1>6, UploaderRuns DEF Upload
  <2> HIDE DEF th
  <2>4. \A p \in Processes, t \in Threads :
            /\ thread'[p][t].route = thread[p][t].route
            /\ thread[p][t] = Idle => thread'[p][t] = Idle
    BY <1>b, <2>1, <2>2, <2>3
  <2> QED
    BY <1>c, <2>1, <2>4 DEF StartsAlone
<1>7. ASSUME NEW q \in Processes, NEW u \in Threads, UploadFails(q, u) PROVE StartsAlone'
  <2>1. thread' = [thread EXCEPT ![q][u] = Idle]
    BY <1>7 DEF UploadFails
  <2>2. \A p \in Processes, t \in Threads : thread'[p][t] \in {Idle, thread[p][t]}
    BY <1>b, <2>1
  <2>3. \A p \in Processes : process'[p] \in {Down, process[p]}
    BY <1>7, <1>a DEF UploadFails
  <2> QED
    BY <1>c, <1>d, <2>2, <2>3 DEF StartsAlone
<1>8. ASSUME NEW q \in Processes, NEW u \in Threads, Publish(q, u) PROVE StartsAlone'
  <2>1. thread' = [thread EXCEPT ![q][u] = Idle] /\ thread[q][u] # Idle
    BY <1>8 DEF Publish
  <2>2. \A t \in Threads : thread'[q][t].route # "startup"
    BY <1>b, <1>c, <1>d, <2>1
  <2>3. \A p \in Processes : p # q => thread'[p] = thread[p] /\ process'[p] = process[p]
    BY <1>8, <1>a, <1>b, <2>1 DEF Publish
  <2> QED
    BY <1>c, <2>2, <2>3 DEF StartsAlone
<1>9. ASSUME UNCHANGED <<process, thread>> PROVE StartsAlone'
  BY <1>9, <1>c DEF StartsAlone
<1> QED
  BY <1>1, <1>2, <1>3, <1>4, <1>5, <1>6, <1>7, <1>8, <1>9
     DEF PagesNext, pageVars, Deploy, DeployPublicForm

LEMMA SameForms ==
    ASSUME [PagesNext]_pageVars, NEW p \in Processes, GoesOn(p)
    PROVE  /\ Forms(process[p].version)' = Forms(process[p].version)
           /\ Place(p)' = Place(p)
<1>1. UNCHANGED definitions
  BY DEF PagesNext, pageVars, Deploy, DeployPublicForm, StartServing, RenderIndex, Stop,
         StartPrerendering, Visit, Upload, UploadFails, Publish
<1> QED
  BY <1>1 DEF Forms, Place, GoesOn

\* What an upload adds is explained to the process that uploads it.
LEMMA UploadAdds ==
    ASSUME PagesInv, [PagesNext]_pageVars, NEW p \in Processes, NEW t \in Threads,
           Upload(p, t), NEW n \in Nat, n = thread[p][t].uploaded
    PROVE  /\ GoesOn(p)
           /\ n + 1 <= Len(Forms(process[p].version))
           /\ ExplainedUpTo(p, n + 1)'
<1> DEFINE v == process[p].version
           written == [by |-> "registry", version |-> v]
           x == <<Place(p), Forms(v)[n + 1]>>
<1>1. /\ thread[p][t] # Idle /\ process[p] # Down
      /\ v \in 1 .. Versions
      /\ n + 1 \in 1 .. Len(Forms(v))
      /\ Forms(v)[n + 1] \in FormIds
  BY UploaderRuns DEF Upload
<1>2. UNCHANGED process
  BY DEF Upload
<1>3. GoesOn(p)
  BY <1>1, <1>2 DEF GoesOn
<1>4. Len(Forms(v)) \in Nat
  BY <1>1, FormsType DEF PagesInv
<1>5. ExplainedUpTo(p, n)'
  <2>1. ExplainedUpTo(p, n)
    BY <1>1 DEF PagesInv, ThreadsExplained, ThreadExplained
  <2> QED
    BY <1>1, <1>2, <1>4, <2>1, UpToStays
<1>6. pages'[x] = written
  <2>1. x \in Places \X Names
    BY <1>1, PlaceType DEF Names
  <2>2. pages' = [pages EXCEPT ![x] = written]
    BY DEF Upload
  <2> HIDE DEF x, written
  <2> QED
    BY <2>1, <2>2 DEF PagesInv, PagesTypeOK
<1>7. Explained(v, process[p].elders, pages'[x])
  BY <1>1, <1>6, UploadExplained
<1>8. Forms(process[p].version)' = Forms(v) /\ Place(p)' = Place(p)
  BY <1>3, SameForms
<1>9. ASSUME NEW i \in 1 .. n + 1
      PROVE  Explained(v, process[p].elders, pages'[<<Place(p), Forms(v)[i]>>])
  <2>1. CASE i = n + 1
    BY <1>7, <2>1
  <2>2. CASE i \in 1 .. n
    BY <1>2, <1>5, <1>8, <2>2 DEF ExplainedUpTo
  <2> QED
    BY <2>1, <2>2
<1>10. ExplainedUpTo(p, n + 1)'
  BY <1>2, <1>8, <1>9 DEF ExplainedUpTo
<1> QED
  BY <1>1, <1>3, <1>4, <1>10

LEMMA NextThreadsExplained ==
    ASSUME PagesInv, [PagesNext]_pageVars
    PROVE  ThreadsExplained'
<1>1. ASSUME NEW p \in Processes, NEW t \in Threads, thread'[p][t] # Idle,
             NEW m \in Nat, m = thread'[p][t].uploaded
      PROVE  /\ process'[p] # Down
             /\ m <= Len(Forms(process[p].version)')
             /\ ExplainedUpTo(p, m)'
  <2>1. CASE ThreadGoesOn(p, t)
    <3>1. /\ process[p] # Down /\ m <= Len(Forms(process[p].version))
          /\ ExplainedUpTo(p, m)
      BY <1>1, <2>1 DEF ThreadGoesOn, PagesInv, ThreadsExplained, ThreadExplained
    <3>2. ExplainedUpTo(p, m)'
      BY <2>1, <3>1, UpToStays DEF ThreadGoesOn, GoesOn
    <3> QED
      BY <2>1, <3>1, <3>2, SameForms DEF ThreadGoesOn, GoesOn
  <2>2. CASE ThreadStarts(p, t)
    <3>1. process'[p] # Down /\ m = 0
      BY <1>1, <2>2 DEF ThreadStarts
    <3>2. PagesTypeOK' /\ VersionsRun'
      BY NextPagesTypeOK, NextVersionsRun
    <3>3. process'[p].version \in 1 .. Versions
      BY <3>1, <3>2, VersionsType DEF PagesTypeOK, VersionsRun
    <3>4. definitions'[process'[p].version] \in Files
      BY <3>2, <3>3, ReleasesType DEF PagesTypeOK
    <3>5. Len(Forms(process[p].version)') \in Nat
      BY <3>4, LoadedIds DEF Forms
    <3>6. ExplainedUpTo(p, m)'
      BY <3>1 DEF ExplainedUpTo
    <3> QED
      BY <3>1, <3>5, <3>6
  <2>3. CASE ThreadUploads(p, t)
    <3>1. PICK n \in Nat : n = thread[p][t].uploaded
      BY DEF PagesInv, PagesTypeOK
    <3>2. m = n + 1
      BY <1>1, <2>3, <3>1 DEF ThreadUploads
    <3>3. /\ GoesOn(p) /\ n + 1 <= Len(Forms(process[p].version))
          /\ ExplainedUpTo(p, n + 1)'
      BY <2>3, <3>1, UploadAdds DEF ThreadUploads
    <3> QED
      BY <3>2, <3>3, SameForms DEF GoesOn
  <2> QED
    BY <1>1, <2>1, <2>2, <2>3, ThreadStep
<1>2. \A p \in Processes, t \in Threads : thread'[p][t].uploaded \in Nat
  BY NextPagesTypeOK DEF PagesTypeOK
<1>3. ASSUME NEW p \in Processes, NEW t \in Threads, thread'[p][t] # Idle
      PROVE  ThreadExplained(p, t)'
  <2>1. PICK m \in Nat : m = thread'[p][t].uploaded
    BY <1>2
  <2>2. /\ process'[p] # Down
        /\ m <= Len(Forms(process[p].version)')
        /\ ExplainedUpTo(p, m)'
    BY <1>1, <1>3, <2>1
  <2>3. ExplainedUpTo(p, thread[p][t].uploaded)'
    BY <2>1, <2>2 DEF ExplainedUpTo
  <2> QED
    BY <2>1, <2>2, <2>3 DEF ThreadExplained
<1> QED
  BY <1>3 DEF ThreadsExplained, ThreadExplained

\* Links appear when a thread is through, and stay as long as the process goes on.
LEMMA NextLinksExplained ==
    ASSUME PagesInv, [PagesNext]_pageVars
    PROVE  LinksExplained'
<1>a. process \in [Processes -> [version : 0 .. Versions, elders : SUBSET (1 .. Versions),
                                serving : BOOLEAN, urls : BOOLEAN, index : BOOLEAN]]
  BY DEF PagesInv, PagesTypeOK
<1>1. ASSUME NEW p \in Processes, process'[p].urls
      PROVE  GoesOn(p) /\ ExplainedUpTo(p, Len(Forms(process[p].version)))
  <2>1. GoesOn(p)
    BY <1>1, ProcessStep, StartingIsUp DEF Starts, Down
  <2>2. CASE process[p].urls
    BY <2>1, <2>2 DEF PagesInv, LinksExplained
  <2>3. CASE ~process[p].urls
    <3>1. PICK t \in Threads : Publish(p, t)
      BY <1>1, <1>a, <2>1, <2>3
         DEF PagesNext, pageVars, Deploy, DeployPublicForm, StartServing, RenderIndex, Stop,
             StartPrerendering, Visit, Upload, UploadFails, Publish, GoesOn, Down
    <3>2. /\ ExplainedUpTo(p, thread[p][t].uploaded)
          /\ Len(Forms(process[p].version)) - thread[p][t].uploaded = 0
      BY <3>1 DEF Publish, Remaining, PagesInv, ThreadsExplained, ThreadExplained
    <3>3. Len(Forms(process[p].version)) \in Nat /\ thread[p][t].uploaded \in Nat
      BY <2>1, RunsVersion, FormsType DEF GoesOn, PagesInv, PagesTypeOK
    <3>4. thread[p][t].uploaded = Len(Forms(process[p].version))
      BY <3>2, <3>3
    <3> QED
      BY <2>1, <3>2, <3>4
  <2> QED
    BY <2>1, <2>2, <2>3
<1>2. ASSUME NEW p \in Processes, process'[p].urls
      PROVE  ExplainedUpTo(p, Len(Forms(process[p].version)))'
  <2>1. GoesOn(p) /\ ExplainedUpTo(p, Len(Forms(process[p].version)))
    BY <1>1, <1>2
  <2>2. PICK n \in Nat : n = Len(Forms(process[p].version))
    BY <2>1, RunsVersion, FormsType DEF GoesOn, PagesInv
  <2>3. ExplainedUpTo(p, n)'
    BY <2>1, <2>2, UpToStays DEF GoesOn
  <2>4. Len(Forms(process[p].version))' = n
    BY <2>1, <2>2, SameForms
  <2> QED
    BY <2>3, <2>4 DEF ExplainedUpTo
<1> QED
  BY <1>2 DEF LinksExplained

LEMMA InitPagesInv == PagesInit => PagesInv
<1> SUFFICES ASSUME PagesInit PROVE PagesInv
  OBVIOUS
<1>1. PagesTypeOK
  <2>1. Idle \in [route : Routes \cup {"none"}, uploaded : Nat]
    BY DEF Idle
  <2>2. NoPage \in [by : {"nobody", "registry", "public"}, version : 0 .. Versions]
    BY VersionsType DEF NoPage
  <2>3. process \in [Processes -> [version : 0 .. Versions, elders : SUBSET (1 .. Versions),
                                  serving : BOOLEAN, urls : BOOLEAN, index : BOOLEAN]]
    BY DownType DEF PagesInit, ProcessType
  <2>4. deployed \in 1 .. Versions /\ outages \in 0 .. MaxOutages
    BY VersionsType, MaxOutagesType DEF PagesInit
  <2> QED
    BY <2>1, <2>2, <2>3, <2>4 DEF PagesInit, PagesTypeOK
<1>2. \A p \in Processes : process[p] = Down /\ ~process[p].urls
  BY DEF PagesInit, Down
<1>3. \A p \in Processes, t \in Threads : thread[p][t] = Idle /\ Idle.route # "startup"
  BY DEF PagesInit, Idle
<1> QED
  BY <1>1, <1>2, <1>3
     DEF PagesInv, VersionsRun, Cohorts, ThreadsExplained, ThreadExplained, StartsAlone,
         LinksExplained

LEMMA NextPagesInv == PagesInv /\ [PagesNext]_pageVars => PagesInv'
<1> SUFFICES ASSUME PagesInv, [PagesNext]_pageVars PROVE PagesInv'
  OBVIOUS
<1>1. PagesTypeOK' /\ VersionsRun' /\ Cohorts'
  BY NextPagesTypeOK, NextVersionsRun
<1>2. ThreadsExplained' /\ StartsAlone' /\ LinksExplained'
  BY NextThreadsExplained, NextStartsAlone, NextLinksExplained
<1> QED
  BY <1>1, <1>2 DEF PagesInv

LEMMA PagesInvariant == PagesSpec => []PagesInv
<1>1. PagesInit => PagesInv
  BY InitPagesInv
<1>2. PagesInv /\ [PagesNext]_pageVars => PagesInv'
  BY NextPagesInv
<1> HIDE DEF PagesInv, PagesInit, PagesNext, pageVars
<1> QED
  BY <1>1, <1>2, PTL DEF PagesSpec

----
\* The processes, their threads and the store of pages keep their types.
THEOREM PagesTypes == PagesSpec => []PagesTypeOK
<1>1. PagesInv => PagesTypeOK
  BY DEF PagesInv
<1> HIDE DEF PagesInv, PagesTypeOK, PagesSpec
<1> QED
  BY <1>1, PagesInvariant, PTL

\* Every page a process links to is stored, is the registry's own, and comes from
\* the process's version, a later one or one that ran when it started, whatever
\* threads and processes prerender at once, fail or are stopped - provided no form
\* has the id under which the public form is deployed.
THEOREM LinksAreCurrent ==
    ASSUME PUBLIC_FORM_NAME \notin FormIds
    PROVE  PagesSpec => []LinkedPagesAreCurrent
<1>1. PagesInv => LinkedPagesAreCurrent
  <2> SUFFICES ASSUME PagesInv, NEW p \in Processes, process[p].urls,
                      NEW i \in DOMAIN Forms(process[p].version)
               PROVE  LET page == pages[<<Place(p), Forms(process[p].version)[i]>>]
                      IN  /\ page.by = "registry"
                          /\ \/ page.version >= process[p].version
                             \/ page.version \in process[p].elders
    BY DEF LinkedPagesAreCurrent
  <2>1. process[p] # Down
    BY DEF Down
  <2>2. i \in 1 .. Len(Forms(process[p].version))
    BY <2>1, RunsVersion, FormsType DEF PagesInv
  <2>3. Explained(process[p].version, process[p].elders,
                  pages[<<Place(p), Forms(process[p].version)[i]>>])
    BY <2>2 DEF PagesInv, LinksExplained, ExplainedUpTo
  <2> QED
    BY <2>3 DEF Explained
<1> HIDE DEF PagesInv, LinkedPagesAreCurrent, PagesSpec
<1> QED
  BY <1>1, PagesInvariant, PTL

----
\* The FastAPI app: it runs only with settings and a registry that were checked,
\* prerenders only at startup, and serves what it has published.
EagerInv ==
    /\ \A p \in Processes : process[p] # Down
         => /\ BuildsJobService(Settings[process[p].version])
            /\ CanPrerender(process[p].version)
    /\ \A p \in Processes, t \in Threads : thread[p][t].route # "/forms"
    /\ \A p \in Processes : process[p].serving => process[p].urls /\ process[p].index

LEMMA InitEagerInv == PagesInit => EagerInv
BY DEF PagesInit, EagerInv, Idle, Down

LEMMA NextEagerInv ==
    ASSUME Eager, PagesInv, EagerInv, [PagesNext]_pageVars
    PROVE  EagerInv'
<1>a. process \in [Processes -> [version : 0 .. Versions, elders : SUBSET (1 .. Versions),
                                serving : BOOLEAN, urls : BOOLEAN, index : BOOLEAN]]
  BY DEF PagesInv, PagesTypeOK
<1>b. thread \in [Processes -> [Threads -> [route : Routes \cup {"none"}, uploaded : Nat]]]
  BY DEF PagesInv, PagesTypeOK
<1>c. /\ \A p \in Processes : process[p] # Down
           => BuildsJobService(Settings[process[p].version]) /\ CanPrerender(process[p].version)
      /\ \A p \in Processes, t \in Threads : thread[p][t].route # "/forms"
      /\ \A p \in Processes : process[p].serving => process[p].urls /\ process[p].index
  BY DEF EagerInv
<1>1. UNCHANGED definitions
  BY DEF PagesNext, pageVars, Deploy, DeployPublicForm, StartServing, RenderIndex, Stop,
         StartPrerendering, Visit, Upload, UploadFails, Publish
<1>2. ASSUME NEW p \in Processes, process'[p] # Down
      PROVE  /\ BuildsJobService(Settings[process'[p].version])
             /\ CanPrerender(process[p].version)'
  <2>1. CASE GoesOn(p)
    BY <1>1, <1>c, <2>1 DEF GoesOn, CanPrerender
  <2>2. CASE Starts(p)
    <3>1. process[p] = Down /\ process'[p] # Down /\ process'[p].version = deployed
      BY <1>2, <2>2, StartingIsUp DEF Starts
    <3>2. BuildsJobService(Settings[deployed]) /\ CanPrerender(deployed)
      BY <2>2 DEF Starts, StartServing, StartPrerendering
    <3> QED
      BY <1>1, <3>1, <3>2 DEF CanPrerender
  <2> QED
    BY <1>2, <2>1, <2>2, ProcessStep
<1>3. ASSUME NEW q \in Processes, NEW u \in Threads, NEW route, Visit(q, u, route)
      PROVE  FALSE
  BY <1>c, <1>3 DEF Visit
<1>4. ASSUME NEW p \in Processes, NEW t \in Threads
      PROVE  thread'[p][t].route # "/forms"
  <2>1. Idle.route # "/forms" /\ thread[p][t].route # "/forms"
    BY <1>c DEF Idle
  <2>2. ASSUME NEW q \in Processes, NEW u \in Threads, StartPrerendering(q, u)
        PROVE  thread'[p][t].route # "/forms"
    BY <1>b, <2>1, <2>2 DEF StartPrerendering
  <2>3. ASSUME NEW q \in Processes, NEW u \in Threads, Upload(q, u)
        PROVE  thread'[p][t].route # "/forms"
    <3> DEFINE th == [thread[q][u] EXCEPT !.uploaded = @ + 1]
    <3>1. thread' = [thread EXCEPT ![q][u] = th]
      BY <2>3 DEF Upload
    <3>2. th.route # "/forms"
      <4>1. thread[q][u] \in [route : Routes \cup {"none"}, uploaded : Nat]
        BY <1>b
      <4> QED
        BY <1>c, <4>1
    <3> HIDE DEF th
    <3> QED
      BY <1>b, <2>1, <3>1, <3>2
  <2>4. ASSUME NEW q \in Processes, NEW u \in Threads, UploadFails(q, u) \/ Publish(q, u)
        PROVE  thread'[p][t].route # "/forms"
    <3>1. thread' = [thread EXCEPT ![q][u] = Idle]
      BY <2>4 DEF UploadFails, Publish
    <3> QED
      BY <1>b, <2>1, <3>1
  <2>5. ASSUME NEW q \in Processes, Stop(q) PROVE thread'[p][t].route # "/forms"
    BY <1>b, <2>1, <2>5 DEF Stop
  <2>6. ASSUME UNCHANGED thread PROVE thread'[p][t].route # "/forms"
    BY <2>1, <2>6
  <2> QED
    BY <1>3, <2>2, <2>3, <2>4, <2>5, <2>6
       DEF PagesNext, pageVars, Deploy, DeployPublicForm, StartServing, RenderIndex
<1>5. ASSUME NEW p \in Processes, process'[p].serving
      PROVE  process'[p].urls /\ process'[p].index
  <2> DEFINE Goal == process'[p].urls /\ process'[p].index
  <2>1. ASSUME process'[p] = process[p] PROVE Goal
    BY <1>5, <1>c, <2>1
  <2>2. ASSUME NEW q \in Processes, NEW u \in Threads, StartPrerendering(q, u) PROVE Goal
    BY <1>5, <1>a, <2>1, <2>2 DEF StartPrerendering, Starting
  <2>3. ASSUME NEW q \in Processes, RenderIndex(q) PROVE Goal
    BY <1>a, <2>1, <2>3 DEF RenderIndex
  <2>4. ASSUME NEW q \in Processes, NEW u \in Threads, UploadFails(q, u) PROVE Goal
    BY <1>5, <1>a, <2>1, <2>4 DEF UploadFails, Down
  <2>5. ASSUME NEW q \in Processes, NEW u \in Threads, Publish(q, u) PROVE Goal
    <3>1. thread[q][u].route # "/forms"
      BY <1>c
    <3> QED
      BY <1>a, <2>1, <2>5, <3>1 DEF Publish
  <2>6. ASSUME NEW q \in Processes, Stop(q) PROVE Goal
    BY <1>5, <1>a, <2>1, <2>6 DEF Stop, Down
  <2>7. ASSUME UNCHANGED process PROVE Goal
    BY <2>1, <2>7
  <2> HIDE DEF Goal
  <2>8. Goal
    BY <1>3, <2>2, <2>3, <2>4, <2>5, <2>6, <2>7
       DEF PagesNext, pageVars, Deploy, DeployPublicForm, StartServing, Upload
  <2> QED
    BY <2>8 DEF Goal
<1> QED
  BY <1>2, <1>4, <1>5 DEF EagerInv

LEMMA EagerInvariant == ASSUME Eager PROVE PagesSpec => [](PagesInv /\ EagerInv)
<1>1. PagesInit => PagesInv /\ EagerInv
  BY InitPagesInv, InitEagerInv
<1>2. PagesInv /\ EagerInv /\ [PagesNext]_pageVars => PagesInv' /\ EagerInv'
  BY NextPagesInv, NextEagerInv
<1> HIDE DEF PagesInv, EagerInv, PagesInit, PagesNext, pageVars
<1> QED
  BY <1>1, <1>2, PTL DEF PagesSpec

\* Ids without duplicates name one entry each.
LEMMA NoDuplicates ==
    ASSUME NEW n \in Nat, NEW ids, DOMAIN ids = 1 .. n, Duplicates(ids) = {},
           NEW i \in 1 .. n, NEW k \in 1 .. n, ids[i] = ids[k]
    PROVE  i = k
<1> DEFINE Same == {m \in 1 .. n : ids[m] = ids[i]}
<1>1. IsFiniteSet(Same) /\ Cardinality(Same) \in Nat
  <2>1. IsFiniteSet(1 .. n)
    BY FS_Interval
  <2>2. Same \in SUBSET (1 .. n)
    OBVIOUS
  <2> HIDE DEF Same
  <2> QED
    BY <2>1, <2>2, FS_Subset, FS_CardinalityType
<1>2. ~(Cardinality(Same) > 1)
  BY DEF Duplicates
<1>3. {i} \subseteq Same /\ Cardinality({i}) = 1
  BY FS_Singleton
<1>4. Cardinality({i}) = Cardinality(Same)
  <2> HIDE DEF Same
  <2>1. Cardinality({i}) <= Cardinality(Same)
    BY <1>1, <1>3, FS_Subset
  <2> QED
    BY <1>1, <1>2, <1>3, <2>1
<1>5. Same = {i}
  BY <1>1, <1>3, <1>4, FS_Subset
<1> QED
  BY <1>5

\* What load_forms accepts is well-formed, or iterates as an empty list does, and
\* its forms are the entries of the file in their order.
LEMMA AcceptedFiles ==
    ASSUME NEW file \in Files, load_forms(file).raised = "nothing"
    PROVE  /\ WellFormed(file) \/ PassesForEmpty(file)
           /\ load_forms(file).forms = EntryIds(file)
<1>1. /\ HasForms(file) /\ IsIterable(file)
      /\ \A i \in DOMAIN file.entries : Validates(file.entries[i])
      /\ Duplicates(EntryIds(file)) = {}
      /\ load_forms(file).forms = EntryIds(file)
  BY DEF load_forms, Raised, Loaded
<1>2. PICK n \in Nat : DOMAIN file.entries = 1 .. n /\ n = Len(file.entries)
  <2>1. file.entries \in Seq(FormEntries)
    BY DEF Files
  <2> QED
    BY <2>1
<1>3. CASE file.forms = "list"
  <2>1. \A i \in 1 .. n : EntryIds(file)[i] = file.entries[i].id
    BY <1>2 DEF EntryIds
  <2>2. DOMAIN EntryIds(file) = 1 .. n
    BY <1>2 DEF EntryIds
  <2>3. \A i, k \in 1 .. n : file.entries[i].id = file.entries[k].id => i = k
    BY <1>1, <2>1, <2>2, NoDuplicates
  <2> QED
    BY <1>1, <1>2, <1>3, <2>3 DEF WellFormed, HasForms
<1>4. CASE file.forms # "list"
  <2>1. \A i \in 1 .. n : file.entries[i] = NotAForm
    BY <1>2, <1>4 DEF Files
  <2>2. ~(1 \in 1 .. n)
    BY <1>1, <1>2, <2>1 DEF Validates, NotAForm
  <2>3. n = 0
    BY <2>2
  <2>4. file.entries = << >>
    <3>1. file.entries \in Seq(FormEntries)
      BY DEF Files
    <3> QED
      BY <1>2, <2>3, <3>1, EmptySeq
  <2> QED
    BY <1>1, <1>4, <2>4 DEF PassesForEmpty, HasForms, IsIterable
<1> QED
  BY <1>1, <1>3, <1>4

\* The FastAPI app serves only with a registry that is well-formed, or empty in a
\* way load_forms does not notice, and with settings its builders accept.
THEOREM AppFailsFast == ASSUME Eager PROVE PagesSpec => []FailsFast
<1>1. PagesInv /\ EagerInv => FailsFast
  <2> SUFFICES ASSUME PagesInv, EagerInv, NEW p \in Processes, process[p].serving,
                      NEW v, v = process[p].version
               PROVE  /\ WellFormed(definitions[v]) \/ PassesForEmpty(definitions[v])
                      /\ Settings[v].connection_string
                      /\ Settings[v].storage_mode # "unknown"
    BY DEF FailsFast
  <2>1. process[p] # Down
    BY DEF Down
  <2>2. BuildsJobService(Settings[v]) /\ CanPrerender(v)
    BY <2>1 DEF EagerInv
  <2>3. definitions[v] \in Files
    BY <2>1, RunsVersion, ReleasesType DEF PagesInv, PagesTypeOK
  <2> QED
    BY <2>2, <2>3, AcceptedFiles DEF BuildsJobService, CanPrerender
<1> HIDE DEF PagesInv, EagerInv, FailsFast, PagesSpec
<1> QED
  BY <1>1, EagerInvariant, PTL

\* Whoever the FastAPI app serves is served its index, and every entry of its
\* registry has a page in the store.
THEOREM AppServesPublished == ASSUME Eager PROVE PagesSpec => []ServesPublished
<1>1. PagesInv /\ EagerInv => ServesPublished
  <2> SUFFICES ASSUME PagesInv, EagerInv, NEW p \in Processes, process[p].serving,
                      NEW v, v = process[p].version
               PROVE  /\ process[p].urls /\ process[p].index
                      /\ \A i \in DOMAIN definitions[v].entries :
                            pages[<<Place(p), definitions[v].entries[i].id>>] # NoPage
    BY DEF ServesPublished
  <2>1. process[p] # Down
    BY DEF Down
  <2>2. process[p].urls /\ process[p].index /\ CanPrerender(v)
    BY <2>1 DEF EagerInv
  <2>3. definitions[v] \in Files
    BY <2>1, RunsVersion, ReleasesType DEF PagesInv, PagesTypeOK
  <2>4. Forms(v) = EntryIds(definitions[v])
    BY <2>2, <2>3, AcceptedFiles DEF CanPrerender, Forms
  <2>5. ASSUME NEW i \in DOMAIN definitions[v].entries
        PROVE  pages[<<Place(p), definitions[v].entries[i].id>>] # NoPage
    <3>1. DOMAIN Forms(v) = DOMAIN definitions[v].entries
      BY <2>4 DEF EntryIds
    <3>2. Forms(v)[i] = definitions[v].entries[i].id
      BY <2>4 DEF EntryIds
    <3>3. Forms(v) \in Seq(FormIds)
      BY <2>1, RunsVersion, FormsType DEF PagesInv
    <3>4. i \in 1 .. Len(Forms(v))
      BY <3>1, <3>3
    <3>5. Explained(v, process[p].elders, pages[<<Place(p), Forms(v)[i]>>])
      BY <2>2, <3>4 DEF PagesInv, LinksExplained, ExplainedUpTo
    <3> QED
      BY <3>2, <3>5 DEF Explained
  <2> QED
    BY <2>2, <2>5
<1> HIDE DEF PagesInv, EagerInv, ServesPublished, PagesSpec
<1> QED
  BY <1>1, EagerInvariant, PTL
====
