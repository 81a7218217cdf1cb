---- MODULE FormPages ----
(* The pages of the forms registry and the processes that publish and link   *)
(* them: the FastAPI app (api/app.py), which publishes before it serves, and *)
(* the function app (api/function_app.py), whose threads do so when they     *)
(* first need the pages' URLs.  Both write to the container that             *)
(* deploy_public_form writes to; a process whose storage mode is "local"     *)
(* writes to its host's own directory.                                       *)
EXTENDS FormRegistry

CONSTANTS Versions,     \* how many versions are released, one after the other
          Releases,     \* the registries these may have, [1 .. Versions -> files]
          Settings,     \* Settings[v]: the environment version v is deployed with
          Processes,    \* host processes (function app instances)
          Threads,      \* each process's request threads
          Eager,        \* is the app api/app.py rather than the function app?
          Container,    \* the public blob container
          PUBLIC_FORM_NAME,
          MaxOutages    \* how many uploads may fail

Names == FormIds \cup {PUBLIC_FORM_NAME}

AllSettings == [storage_mode : {"local", "azure", "unknown"}, connection_string : BOOLEAN]

ASSUME VersionsType == Versions \in Nat \ {0}
ASSUME ReleasesType == Releases \subseteq [1 .. Versions -> Files]
ASSUME SettingsType == Settings \in [1 .. Versions -> AllSettings]
ASSUME EagerType == Eager \in BOOLEAN
ASSUME ContainerIsNoProcess == Container \notin Processes
ASSUME MaxOutagesType == MaxOutages \in Nat

VARIABLES definitions,   \* definitions[v]: definitions.json of version v
          deployed,   \* the version new processes start with
          process,    \* process[p]: what process p runs and has cached
          thread,     \* thread[p][t]: the prerendering thread t of p is busy with
          pages,      \* pages[<<place, name>>]: the page stored under a name
          outages     \* uploads that may still fail

pageVars == <<definitions, deployed, process, thread, pages, outages>>

Routes == {"startup", "/", "/forms"}

Idle == [route |-> "none", uploaded |-> 0]

Down == [version |-> 0, elders |-> {}, serving |-> FALSE,
         urls |-> FALSE, index |-> FALSE]

NoPage == [by |-> "nobody", version |-> 0]

Places == {Container} \cup Processes

\* elders is a history variable: the versions that ran when the process started.
PagesTypeOK ==
    /\ definitions \in Releases
    /\ deployed \in 1 .. Versions
    /\ process \in [Processes -> [version : 0 .. Versions, elders : SUBSET (1 .. Versions),
                                  serving : BOOLEAN, urls : BOOLEAN, index : BOOLEAN]]
    /\ thread \in [Processes -> [Threads -> [route : Routes \cup {"none"}, uploaded : Nat]]]
    /\ pages \in [Places \X Names ->
                    [by : {"nobody", "registry", "public"}, version : 0 .. Versions]]
    /\ outages \in 0 .. MaxOutages

PagesInit ==
    /\ definitions \in Releases
    /\ deployed = 1
    /\ process = [p \in Processes |-> Down]
    /\ thread = [p \in Processes |-> [t \in Threads |-> Idle]]
    /\ pages = [x \in Places \X Names |-> NoPage]
    /\ outages = MaxOutages

----
\* composition.py and config.py: which settings the builders accept.
BuildsJobService(s) == s.storage_mode # "unknown" /\ s.connection_string

BuildsFormStore(s) == s.storage_mode = "azure" /\ s.connection_string

BuildsFormsStore(s) == \/ s.storage_mode = "local"
                       \/ s.storage_mode = "azure" /\ s.connection_string

Forms(v) == load_forms(definitions[v]).forms

\* Whether prerender_and_store gets as far as its first upload.
CanPrerender(v) == /\ load_forms(definitions[v]).raised = "nothing"
                   /\ BuildsFormsStore(Settings[v])

Place(p) ==
    IF Settings[process[p].version].storage_mode = "local" THEN p ELSE Container

Running == {p \in Processes : process[p] # Down}

Starting(serving) == [version |-> deployed,
                      elders |-> {process[q].version : q \in Running},
                      serving |-> serving, urls |-> FALSE, index |-> FALSE]

\* A new version is released; processes of the old one may go on for a while.
Deploy == /\ deployed < Versions
          /\ deployed' = deployed + 1
          /\ UNCHANGED <<definitions, process, thread, pages, outages>>

\* The function app serves at once; its singletons are all None.
StartServing(p) ==
    /\ ~Eager
    /\ process[p] = Down
    /\ process' = [process EXCEPT ![p] = Starting(TRUE)]
    /\ UNCHANGED <<definitions, deployed, thread, pages, outages>>

\* Faulty variant: the app serves while it prerenders.
StartServingEarly(p, t) ==
    /\ Eager
    /\ process[p] = Down
    /\ BuildsJobService(Settings[deployed]) /\ CanPrerender(deployed)
    /\ process' = [process EXCEPT ![p] = Starting(TRUE)]
    /\ thread' = [thread EXCEPT ![p][t] = [route |-> "startup", uploaded |-> 0]]
    /\ UNCHANGED <<definitions, deployed, pages, outages>>

\* create_app and its startup handler: whatever raises keeps the app down.
StartPrerendering(p, t) ==
    /\ Eager
    /\ process[p] = Down
    /\ BuildsJobService(Settings[deployed]) /\ CanPrerender(deployed)
    /\ process' = [process EXCEPT ![p] = Starting(FALSE)]
    /\ thread' = [thread EXCEPT ![p][t] = [route |-> "startup", uploaded |-> 0]]
    /\ UNCHANGED <<definitions, deployed, pages, outages>>

\* Faulty variant: the dictionary is cached before its pages are uploaded.
VisitCachingFirst(p, t, route) ==
    /\ process[p].serving /\ ~process[p].urls
    /\ thread[p][t] = Idle
    /\ CanPrerender(process[p].version)
    /\ thread' = [thread EXCEPT ![p][t] = [route |-> route, uploaded |-> 0]]
    /\ process' = [process EXCEPT ![p].urls = TRUE]
    /\ UNCHANGED <<definitions, deployed, pages, outages>>

\* GET / or GET /forms before _form_urls is set: _get_form_urls calls
\* prerender_and_store, in every thread that finds it so.
Visit(p, t, route) ==
    /\ process[p].serving /\ ~process[p].urls
    /\ thread[p][t] = Idle
    /\ CanPrerender(process[p].version)
    /\ thread' = [thread EXCEPT ![p][t] = [route |-> route, uploaded |-> 0]]
    /\ UNCHANGED <<definitions, deployed, process, pages, outages>>

\* GET / when only GET /forms was asked for so far.
RenderIndex(p) ==
    /\ process[p].serving /\ process[p].urls /\ ~process[p].index
    /\ process' = [process EXCEPT ![p].index = TRUE]
    /\ UNCHANGED <<definitions, deployed, thread, pages, outages>>

----
\* prerender_and_store: one upload_form_html per form, in registry order.
Remaining(p, t) ==
    IF thread[p][t] = Idle THEN 0
    ELSE Len(Forms(process[p].version)) - thread[p][t].uploaded

Upload(p, t) ==
    /\ Remaining(p, t) > 0
    /\ LET id == Forms(process[p].version)[thread[p][t].uploaded + 1]
       IN  pages' = [pages EXCEPT ![<<Place(p), id>>] =
                        [by |-> "registry", version |-> process[p].version]]
    /\ thread' = [thread EXCEPT ![p][t].uploaded = @ + 1]
    /\ UNCHANGED <<definitions, deployed, process, outages>>

\* Faulty variant: a failed upload is counted back.
UploadRolledBack(p, t) ==
    /\ Remaining(p, t) > 0
    /\ outages > 0
    /\ outages' = outages - 1
    /\ thread' = [thread EXCEPT ![p][t].uploaded = @ - 1]
    /\ UNCHANGED <<definitions, deployed, process, pages>>

\* The store is unreachable.  A request is answered 500 and nothing is cached;
\* an app that was starting does not start.
UploadFails(p, t) ==
    /\ Remaining(p, t) > 0
    /\ outages > 0
    /\ outages' = outages - 1
    /\ thread' = [thread EXCEPT ![p][t] = Idle]
    /\ process' = [process EXCEPT ![p] = IF thread[p][t].route = "startup" THEN Down ELSE @]
    /\ UNCHANGED <<definitions, deployed, pages>>

\* Faulty variant: nothing is assigned to the module's globals.
PublishUncached(p, t) ==
    /\ thread[p][t] # Idle /\ Remaining(p, t) = 0
    /\ thread' = [thread EXCEPT ![p][t] = Idle]
    /\ UNCHANGED <<definitions, deployed, process, pages, outages>>

\* The URLs are complete and are cached; for GET / and at startup so is the index.
Publish(p, t) ==
    /\ thread[p][t] # Idle /\ Remaining(p, t) = 0
    /\ thread' = [thread EXCEPT ![p][t] = Idle]
    /\ process' = [process EXCEPT ![p] =
                      [version |-> @.version, elders |-> @.elders,
                       serving |-> TRUE, urls |-> TRUE,
                       index |-> @.index \/ thread[p][t].route # "/forms"]]
    /\ UNCHANGED <<definitions, deployed, pages, outages>>

\* scripts/deploy_public_form.py, run by hand with some version's settings.
DeployPublicForm(v) ==
    /\ BuildsFormStore(Settings[v])
    /\ pages' = [pages EXCEPT ![<<Container, PUBLIC_FORM_NAME>>] =
                    [by |-> "public", version |-> v]]
    /\ UNCHANGED <<definitions, deployed, process, thread, outages>>

\* The host stops a process, with whatever its threads were doing.
Stop(p) ==
    /\ process[p] # Down
    /\ process' = [process EXCEPT ![p] = Down]
    /\ thread' = [thread EXCEPT ![p] = [t \in Threads |-> Idle]]
    /\ UNCHANGED <<definitions, deployed, pages, outages>>

Work(p, t) == Upload(p, t) \/ Publish(p, t)

PagesNext ==
    \/ Deploy
    \/ \E v \in 1 .. deployed : DeployPublicForm(v)
    \/ \E p \in Processes : StartServing(p) \/ RenderIndex(p) \/ Stop(p)
    \/ \E p \in Processes, t \in Threads :
        \/ StartPrerendering(p, t)
        \/ \E route \in {"/", "/forms"} : Visit(p, t, route)
        \/ Upload(p, t) \/ UploadFails(p, t) \/ Publish(p, t)

PagesSpec == PagesInit /\ [][PagesNext]_pageVars

\* Threads go on uploading, and people keep opening the landing page.
PagesFairness ==
    \A p \in Processes :
        /\ \A t \in Threads : WF_pageVars(Work(p, t))
        /\ WF_pageVars(RenderIndex(p) \/ \E t \in Threads : Visit(p, t, "/"))

FairPagesSpec == PagesSpec /\ PagesFairness

----
\* Whatever a process links to is there, is the registry's own page, and comes
\* from the process's version, a later one, or one that ran when the process
\* started: an outdated page is the work of a process a deployment left running.
LinkedPagesAreCurrent ==
    \A p \in Processes : process[p].urls =>
        \A i \in DOMAIN Forms(process[p].version) :
            LET page == pages[<<Place(p), Forms(process[p].version)[i]>>]
            IN  /\ page.by = "registry"
                /\ \/ page.version >= process[p].version
                   \/ page.version \in process[p].elders

\* README: "a malformed registry or unreachable store fails startup outright
\* rather than surfacing later" - what serves has a well-formed registry, or one
\* that is empty in a way load_forms does not tell from an empty list.
FailsFast ==
    \A p \in Processes : process[p].serving =>
        LET v == process[p].version
        IN  /\ WellFormed(definitions[v]) \/ PassesForEmpty(definitions[v])
            /\ Settings[v].connection_string
            /\ Settings[v].storage_mode # "unknown"

\* app.py: a failure must not "surface as a 500 on the first GET /" - whoever is
\* served is served the index, and the page of every entry of the registry.
ServesPublished ==
    \A p \in Processes : process[p].serving =>
        LET entries == definitions[process[p].version].entries
        IN  /\ process[p].urls /\ process[p].index
            /\ \A i \in DOMAIN entries : pages[<<Place(p), entries[i].id>>] # NoPage

\* A process with a well-formed registry shows its landing page in the end, although
\* uploads fail and half-finished prerenderings are thrown away.
LandingPageAppears ==
    \A p \in Processes :
        (/\ process[p].serving
         /\ WellFormed(definitions[process[p].version])
         /\ BuildsFormsStore(Settings[process[p].version]))
            ~> (process[p].index \/ process[p] = Down)
====
