# Partikkelspredning: a TLA+ model of its jobs and its pages

The repository is the submission side of a particle-dispersion service: users
submit simulation jobs over HTTP, compute servers poll for them and report back.
What is hard in it is not the code of any one function but what happens between
the calls those functions make: a job lives at the same time in a table row, in a
queue message and in the local variables of request handlers that run side by
side and may stop anywhere. The modules here model that state, TLC checks small
instances of it, and TLAPS proves the central properties for every instance.

Paths below are relative to the repository root; `.../` stands for
`src/partikkelspredning/`.

## The system

| Part | Source | State it keeps | Operations |
|---|---|---|---|
| Job state machine | `.../domain/jobs.py`, `.../domain/errors.py` | status, owner, result or error of one job | `transition_status`, `ensure_claimed_by` |
| Job repository | `.../ports/repository.py`, `.../adapters/azure/table_repository.py` | one table entity per job | `create`, `get`, `update` (unconditional replace) |
| Job queue | `.../ports/queue.py`, `.../adapters/azure/storage_queue.py` | messages, visibility timeouts, pop receipts | `enqueue`, `try_claim` (receive, delete) |
| Result store, notifier | `.../ports/result_store.py`, `.../ports/notifications.py` and their adapters | none (a URL; a log line) | `build_result_url`, `notify_job_completed`, `notify_job_failed` |
| Job service | `.../services/job_service.py` | none of its own; drives the four parts above | `submit_job`, `get_job`, `claim_job`, `complete_job`, `fail_job` |
| HTTP endpoints | `api/function_app.py`, `.../api/routes_jobs.py`, `.../api/schemas.py` | the function app's lazily built singletons | one handler per route; errors to status codes |
| Forms registry, pages | `.../services/form_registry.py`, `.../services/form_renderer.py`, `.../api/app.py`, `.../api/routes_index.py`, form store adapters | page files or blobs, cached URLs and index page per process | `load_forms`, `prerender_and_store`, `GET /`, `GET /forms` |
| Public form | `.../services/public_form_service.py`, `scripts/deploy_public_form.py` | one page in the same container | `deploy_public_form` |
| Form page | the script inside `.../services/form_renderer.py` | the form's fields, the request in flight | submit |
| Composition, configuration | `.../composition.py`, `.../config.py` | none | which adapters are built, which settings raise |
| Release pipeline | `.github/scripts`, `.github/workflows` | branches, main, tags, what production serves | gate, merge, verify, test, deploy, smoke test |

How they interact. A handler of the function app calls one method of the job
service, which calls the table, the queue and the notifier one after the other;
there is no transaction over them and no lock. Several handlers run at once (in
one process's thread pool and in several processes). Compute servers are not part
of the repository; the README describes them as polling `POST /jobs/claim` and
then calling `complete` or `fail` with the same `worker_id`.

What is hard, per part (the hazards in `PROJECT.json` name the lines):

* queue: a visibility timeout that ends while its receiver is alive, stale pop
  receipts, a send the SDK repeats, a message that expires, a receiver that stops;
* service: reads and updates of a row in separate calls, between which other
  handlers update the same row; a stop between two calls (row without message,
  claim taken but not recorded, outcome saved but not notified);
* endpoints: a service built lazily and unlocked by the first requests of a process,
  storage that fails while it is built, errors that one route translates and another
  does not, answers that arrive after the row has moved on;
* table: `None` and the empty string are stored as the same column value;
* pages: lazily filled caches raced by threads, uploads that fail half way, an old
  process overwriting a new one's pages during a rolling deployment;
* release: a gate whose verdict is older than the merge it allows, deployments that
  overtake each other, smoke tests that look at another deployment's app.

What makes them correct:

* queue: no message is handed out twice, none is lost while nothing fails;
* service: a claim never overwrites another one, only the claimant ends a job, a
  terminal status is final, the user hears of it once, and a fault loses at most
  the one job it hits;
* endpoints: an answer is never older than what was known when its request arrived, a
  refusal has changed nothing, every 500 has a fault behind it, no operation runs on a
  half-built service;
* pages: an index page links only to pages that were uploaded; a bad registry
  stops the app before it serves;
* release: main only rises in version, a tag deploys tested code of main in one piece,
  and a green run means that the app serves.

## Modules

| Module | Role |
|---|---|
| `PythonNone` | the constant for Python's `None` |
| `JobQueuePort` | abstract: what `ports/queue.py` promises |
| `StorageQueue` | the adapter and the Azure queue behind it |
| `SimulationJobs` | the job record, its transitions, the table entity and the conversions (no variables) |
| `JobService` | the service over queue and table, by many handlers; EXTENDS the two above |
| `JobLifecycle` | abstract: the life of a job as its users see it |
| `Endpoints` | the job routes of the function app: lazily built services, requests, answers; EXTENDS `JobService` |
| `JobForm` | a generated form page in a browser, submitting to the service; EXTENDS `JobService` |
| `ComputeWorkers` | the compute servers as clients of the endpoints; EXTENDS `JobService` |
| `FormRegistry` | `load_forms` and what a well-formed registry is (no variables) |
| `FormPages` | processes of several versions that publish and link the forms' pages; EXTENDS `FormRegistry` |
| `ReleasePipeline` | the version gate, main, tags, deployments and their smoke tests |
| `MCJobService`, `MCEndpoints`, `MCComputeWorkers`, `MCJobForm`, `MCFormPages`, `MCReleasePipeline` | budgets, releases, settings and symmetry for TLC |
| `StorageQueueProofs`, `JobServiceProofs`, `JobClaimProofs`, `EndpointsProofs`, `ComputeWorkersProofs`, `JobFormProofs`, `FormPagesProofs`, `ReleasePipelineProofs` | the theorems |

Definitions under a comment "Faulty variant" are not part of any specification: each
is a plausible mistake in the code, and putting it in the place of the definition it
resembles makes TLC find one of the properties violated (`PROJECT.json`, "mutants").

### StorageQueue

State: `sent` (ids passed to `enqueue`), `queued` (messages the service stores),
`hidden` (those with a running visibility timeout), `receipt` (whose pop receipt is
current), `taking` (what a handler has received and not yet deleted), `returned`
(how often `try_claim` returned a message's id) and `budget`, the faults that may
still happen. `try_claim` is two steps, `Receive` and `Delete`/`DeleteRejected`,
because `receive_messages` and `delete_message` are two requests. `Delete` needs the
current receipt, as the service does; a receipt becomes stale only when somebody
else receives the message, so a handler whose timeout has ended may still succeed.
The queue's order is left open (the service promises none).

Faults are counted so that an instance is finite and so that a property can say
what it costs to break something: `abort` (a handler stops), `overdue` (a timeout
ends although its receiver is alive), `resend` (the SDK repeats a stored send) and
`expire` (a message reaches its time to live).

### SimulationJobs

`ALLOWED_TRANSITIONS`, `CanTransition` and `EnsureClaimedBy` are the guards of
`domain/jobs.py`; `AsClaimed`, `AsCompleted` and `AsFailed` are `transition_status`
as its three callers use it. `JobToEntity` and `EntityToJob` are the table adapter's
conversions: `x or ""` and `x or None`, which make `None` and the empty string
(`Blank`) the same column value. Timestamps, parameters, metadata and the e-mail
address are left out: nothing reads them to decide anything.

### JobService

`table[j]` is job `j`'s entity, `notices[j]` the outcomes its user was told,
`call[h]` what handler `h` is doing: the step it has reached and its local variables.
Each call to the table, the queue or the notifier is one action:

| Method | Actions |
|---|---|
| `submit_job` | `SubmitCreate`, `SubmitEnqueue` |
| `claim_job` | `ClaimReceive`, `ClaimDelete` or `ClaimDeleteRejected`, `ClaimLoad` (`ClaimAccepted` or `ClaimRefused`), `ClaimRecord` |
| `complete_job`, `fail_job` | `CompleteLoad` or `FailLoad`, `ReportSave`, `ReportNotify` |
| any of them | `Abort`: the handler stops, or the call it is about to make raises |

A load and the pure computation after it are one action (no other handler can tell
them apart). A request that is refused before it changed anything is a stuttering
step; so is `get_job`, which `Endpoints` reads. Any worker may report on any job: the
guards that stop it are the code's own. `OverlappingReports = FALSE` restricts the
environment, not the code: a report that `ensure_claimed_by` and `transition_status` would
let through is not handled while another one on the same job is between its load and its
return. Both are by the owner, so this is a worker that does not repeat itself before it
has an answer; what others send meanwhile is refused as ever. An `Abort` that follows a
step stands for a call that took effect but whose answer was lost.

`JobLifecycle` is refined by `status` and `owner`, which are columns of the row, by
`notices`, and by `reporting`, the workers on whose behalf a `complete_job` or `fail_job`
has passed `ensure_claimed_by` and has not returned (`Reporters`). So the reporter is
visible in the lifecycle, and a report that anybody but the owner gets through is a step
that it does not have.

### Endpoints

`exchange[h]` is the request that thread `h` handles and its answer: how far it has got,
its route, the job it is about, what clients had been told of that job when it arrived,
how much of the service it has built, and the status code and body of its answer.
`cached[p]` says whether process `p` has set `_job_service`, `stores` which of the table,
the queue and the container exist, `outages` how many storage errors may still happen.
`shown`, `failures` and `exchange[h].touched` are history: the latest status clients were
shown, the answers of 500, and whether the request has changed any job or message.

| Code (`api/function_app.py`) | Actions |
|---|---|
| a trigger function begins, `_get_job_service` reads the global | `Arrive` |
| `build_job_service`: one adapter's constructor | `Construct`; the last one sets the global |
| `_parse_json_body` answers 400 or 422 | `RefuseBody` |
| `submit_job`, `claim_job`, `complete_job`/`fail_job` | `SubmitJob`, `ClaimJob` (204 without a message), `ReportJob`, then `Proceed` and `SubmitAnswer`, `ClaimAnswer` or `ReportAnswer`: `JobService`'s actions with the answer the last one leads to |
| `get_job` | `GetJob` (200 or 404) |
| the domain errors of a report | `RefuseReport` (404 or 409) |
| what no route translates | `Raise` (storage), `ClaimRaises` (a rejected receipt, a refused claim), `StopShort` (anything later): 500 |
| the client reads the answer | `Deliver` |
| the platform replaces an idle process | `Recycle` |

Two threads may both find `_job_service` unset and both build it; the adapters'
constructors tolerate what exists already, and a build that raises caches nothing. The
routes of `.../api/routes_jobs.py` do the same from the operation on; there FastAPI
answers 422 also to a body that is no JSON, and the service is built before the app
serves. A body speaks of a job by its status, its error message and its result URL
(`resolve_result_url`: the blob its reference names, or none). Any client may send any
request, so a report may name any worker; `OverlappingReports` is as in `JobService`. The
number of submissions that have arrived and not yet created their row is bounded by the
free job ids, since `uuid4` never runs out.

### ComputeWorkers

`worker[w]` is what the compute server with `worker_id` `w` does: it polls, waits for
the answer to a claim, runs a job, or waits for the answer to a report; `via` is the
handler whose answer it waits for. The endpoints are `JobService`'s handlers with an
answer at the end: `PostJob`, `PostClaim`, `PostReport` begin one, `HandlerWorks` is its
next call, and `Reply` hands over the status code of the last one (200; 500 for an
exception that no route translates, such as a rejected `delete_message` or a failing
notifier). `ReportRefused` is the 404 or 409 of the three domain errors. A claim that
is answered 204 changes nothing.

What a worker does with an answer is not in the repository; README.md describes
polling and reporting, and the model adds the usual client: a report answered 500, or
not at all, is sent again, one answered 404 or 409 is given up. Mishaps, counted like
faults, are a worker that restarts without its job (`crash`) and an answer that does
not arrive in time (`lost_claim`, `lost_report`) while the handler goes on. A worker
that retries then has two reports of one job under way, so `OverlappingReports` is TRUE.

### JobForm

One generated page in a user's browser. `parameters` is what it was generated from,
`entered` what its fields hold, `request[r]` the `r`-th request it has sent and how far
that has got, `status` what it shows, `told` the job ids it has ever shown. `Enter` is
the user; `SubmitInvalid` and `Submit` are the two ends of the submit listener;
`Refuse`, `Handle`, `HandlerEnds` and `HandlerBreaks` are the endpoint: `JobService`'s
`SubmitCreate`, `SubmitEnqueue` and `Abort` with the answer each leads to (422, 201,
500 without a JSON body); `ShowCreated`, `ShowRefused` and `ShowBroken` are the
callbacks, and `LoseConnection` is a `fetch` that fails while its handler goes on. The
listener does not disable the button, so `Submit` needs no earlier answer and answers
arrive in any order. Field values are `Blank`, numbers, other text or valid addresses;
`FirstNamed` and `LastNamed` are what `FormData.get` and `FormData.forEach` make of two
fields with one name. Claims and reports are left out here; they do not touch what a
submission reads.

### FormRegistry and FormPages

`FormRegistry` describes a registry file by what decides whether `load_forms` raises:
is it JSON, an object, what kind of value is under `forms`, and for each entry its id
and whether the rest of it validates. `load_forms` is the function; `WellFormed` is an
independent description of the files it should accept.

`FormPages` is the processes that publish those files' pages. `definitions[v]` is
version `v`'s file (any member of `Releases`), `deployed` the version new processes
start with, `process[p]` the version process `p` runs and which of its globals
(`_form_urls`, `_index_html`) are set, `thread[p][t]` how many pages the call of
`prerender_and_store` in thread `t` has uploaded, `pages[<<place, name>>]` what is
stored under a name in the container or in `p`'s own directory. `Eager` chooses between
`api/app.py`, which prerenders before it serves (`StartPrerendering`), and
`api/function_app.py`, which serves at once (`StartServing`) and prerenders in every
request that finds `_form_urls` unset (`Visit`). Each upload is an action; a failed one
ends the request (or the start-up) and caches nothing. `Deploy` and `Stop` are the
host's. `deploy_public_form` writes one more name to the container. `elders` is a
history variable: the versions that were running when a process started. Versions are
numbered in the order in which their deployments reach the host; which tags those are
is `ReleasePipeline`'s question.

### ReleasePipeline

`commits` are all commits that were ever pushed or merged: the version in
`pyproject.toml`, the versions `CHANGELOG.md` describes, and whether `pytest` passes.
`main` is the sequence of commits main pointed to, `reachable` what its history
contains, `branch[b]` a pull request's head, what it was branched from and whether its
check is green, `run[r]` how far a run of `deploy.yml` has got, `production` what the
Function App serves: which run put it there, the commit of `api/`, the commit of the
package pinned in `requirements.txt`, and whether functions and landing page are served.

| Code | Actions |
|---|---|
| a commit on a branch, rebased or not | `Push` |
| `workflow_pr_main.yml`, `version.sh`, `changelog.sh` on the merge of branch and main | `Gate` |
| the merge button | `Merge`: needs a green check and no conflict, runs no check again |
| `deploy.yml`: `verify`, `test` | `VerifyAndTest`; both steps of `verify` are skipped in a run by hand |
| `action_deploy.yml` | `Deploy`, `SmokeTestHealth`, `SmokeTestIndex` |
| anything that fails on the way | `Fail` |

Git and GitHub are external. Assumed of them: a pull request is merged only when its
check is green, main changes in no other way, merges are merge commits, and git refuses
to merge two changes of the version line or two additions at the top of the changelog.
Assumed of the people: a branch describes no version but its own in the changelog.
Versions are `X.Y.Z` with numeric parts, as the tag pattern asks. An upload replaces what
is served in one step.

## Runs

| Run | Instance | What it shows |
|---|---|---|
| `service_lifecycle` | 2 jobs, 2 handlers, 2 workers, 2 aborts, 2 early timeouts, 1 expiry, no overlapping reports | a job that is handed out has a row, one fault loses at most one job, every message is handed out in the end or expires, and `JobService` implements `JobLifecycle` |
| `endpoints` | 1 job, 2 threads in 2 processes, 2 workers, every fault once (a repeated send included), 1 storage error, no overlapping reports | answers are current, refusals change nothing, every 500 has a cause, operations run on complete services; although two messages may carry one id, each is handed out once, rows stay coherent and one fault loses at most one job; claims, owners and what replaces a row stay right unless both messages were handed out |
| `workers_own` | 2 jobs, 2 handlers, 2 workers, 1 abort, 1 early timeout, 1 repeated send, every mishap once | a worker owns the job it runs unless it was handed out twice, rows stay coherent under overlapping reports, refused retries are of saved reports, every loss has a cause |
| `workers_live` | 2 jobs, 2 handlers, 2 workers, 1 early timeout, 1 lost answer to a report | every submitted job ends and its user is told; the queue implements `JobQueuePort` |
| `pages_lazy` | function app, 2 processes with 2 threads, 2 versions that share one of 3 forms, 1 failed upload | links are to pages of the registry that the deployment explains |
| `pages_eager` | FastAPI app, 2 processes, 3 versions: a good one, any file of up to 3 entries, one without connection string; 2 failed uploads | what serves has a well-formed registry and is published |
| `pages_live` | function app, 1 process with 2 threads, 2 versions, local then Azure storage, 2 failed uploads | the landing page appears |
| `form_page` | 4 pages, 2 requests, 2 jobs, 2 handlers, 1 abort, 1 repeated send, 1 lost answer | what is sent is what was entered; jobs shown are enqueued; a job the user is not told of has a cause; the page does not stay blank |
| `release` | 2 branches, 2 runs, 3 versions that differ in different components, 6 commits and deployments with the first commit, 1 unsound commit | main only rises in version; a tag deploys one tested commit of main of that version; the deployment that came last is green only if the app serves |
| `doc_deleted_once_recorded` | 1 job, 2 handlers, no fault | violated: the message goes before the claim is recorded |
| `doc_terminal_is_final` | 1 job, 2 handlers, 1 worker, 1 lost answer | violated: a late report overwrites a terminal status |
| `doc_only_claimant_reports` | 1 job, 2 handlers, an empty `worker_id` | violated: everybody may report on the job |

Bounds. Jobs meet only in the handlers they share and in the counts of losses, so two
jobs are enough. Two handlers make every race between two requests on a job. Two early
timeouts (`service_lifecycle`) let a message be received three times, so that a stale
receipt is followed by a second stale one. A repeated send gives one job two messages,
so one is enough to have it claimed twice. One mishap of each kind is enough to put a
worker and its handler out of step; two would do the same to the second worker. In
`endpoints` two processes of one thread each race for the stores that both create, and
either may find its service cached, or have lost it (`Recycle`), while the other builds
one; a thread that finds the flag set by another thread of its process is, to the
stores, one whose own process was cached before. On the form page two requests are
enough for one answer to overtake another. Pages: two threads race for one process's
globals, two processes for the container; a form that both versions have, one that is
dropped and one that is added are the ways in which two registries differ; three entries
hold two equal ids that are not neighbours. Release: two branches make one gate's
verdict older than the other's merge, two runs make a deployment overtake another;
beside the first commit there is room for two pushes, a merge and two deployments, or
for two pushes, two merges and a deployment, in any order. Two bumps of different
components order three versions in every way `version.sh` tells apart. Symmetry is used
for jobs, handlers, processes, workers, threads, branches and runs, never in a run with
liveness. Deadlock is not checked: when all jobs have ended and the budgets are spent,
all pages are published, or the bounds of the pipeline are reached, the system rightly
stops.

Fairness. `service_lifecycle`, `workers_live`: a handler that has started takes its next
step (the host runs it), workers keep polling and report the job they run, the timeout
of a message nobody works on ends (the service's clock). `pages_live`: a thread that
prerenders goes on, and the landing page keeps being opened. `form_page`: the endpoint
serves a request that has arrived, and the browser runs the callback of an answer.
Nothing makes a user submit, a deployment or a fault happen.

The properties, by what breaks them:

* `HandedOutOnce`, `ImplementsPort`, `ClaimStillCurrent`, `OwnerIsStable`,
  `WritesAreAllowed` and `RunnersOwnTheirJob` need the receipt check of `delete_message`
  and an adapter that does not swallow its error. A send that the SDK repeats leaves two
  messages of one job, and once `try_claim` has returned both (`HandedOutTwice`) the job
  may be claimed twice, whatever the service does. So `ClaimStillCurrent`,
  `OnlyClaimantReports`, `OwnerIsStable`, `WritesAreAllowed`, `AnswersAreCurrent`,
  `RefusalMeansReported` and the owner in `RunnersOwnTheirJob` are promised to a job until
  that has happened to it - not only where no send is ever repeated.
* `WritesAreAllowed` is the transition table held against what is written: the check of
  `transition_status` is made on a copy, the replacement is unconditional, and yet what
  replaces a row is a transition of the row itself.
* `ClaimFindsJob` is the `pragma: no cover` comment of `claim_job`; it needs the
  order of `submit_job`'s two calls.
* `RowCoherent` says which columns are set in which status. It holds even when two
  reports or two claims race, because `update` replaces the whole row; it would not
  with `mode="merge"`.
* `OneFaultOneLoss` counts the jobs that are lost without a trace (queued but in
  nobody's hands, or ended but never notified) against the faults that happened;
  `EveryLossHasACause` adds the jobs whose worker has forgotten them, and the mishaps.
  Answers to reports are not among the causes: losing one loses nothing.
* `RefusalMeansReported` is what makes giving up after a 409 right; it needs the
  transition table and the owner check to refuse nothing else.
* `ImplementsLifecycle` is the conjunction of what users rely on: one claimant, one
  final outcome, in a report by that claimant, at most one notification, of that outcome.
  Without the owner check of `ensure_claimed_by` it fails at the first report of another
  worker. Its run has no overlapping reports; with them it fails too (finding 2).
* `AnswersAreCurrent` compares an answer with what any client had been told when the
  request arrived and with the row when it is read: a created job never becomes a 404, a
  status never goes back, and URL and message are those of the row. It needs the row to
  be written before the answer and the answer to be made of the handler's own copy of
  it; two overlapping reports would break it, as they break a terminal status (finding 2).
* `RefusalsChangeNothing` needs the checks of a report to come before its `update`, and
  a claim to answer 204 only when it received nothing.
* `FailuresHaveACause` counts answers of 500 against faults. It fails if a constructor
  does not tolerate a store that another thread has just created.
* `ServiceIsComplete` fails if `_job_service` is set before its adapters are built.
* `LinkedPagesAreCurrent` needs `_form_urls` to be assigned after the last upload. A
  page older than the process that links to it is possible (an old process uploads
  late) but only from a version in `elders`. It assumes that no form has the id
  `public-job-form` (`PUBLIC_FORM_NAME \notin FormIds` in the instance): the public
  form would take that form's page.
* `SentAsEntered` is about pages whose parameters have different names, none of them
  `user_email`. `load_forms` accepts other registries, whose pages drop or merge
  fields; the instance has both, and no property says what such a page should send.
* `UntoldJobsHaveACause` counts the jobs whose id the user never saw against stopped
  handlers and lost answers; it needs every answer to be shown, also an early
  request's late one. `ShownJobsAreEnqueued` needs 201 to come after `enqueue`.
* `FailsFast` and `ServesPublished` are what `api/app.py`'s start-up comment promises.
* `VersionsRise` holds although the gate is not run again when main moves: a green branch
  that main has overtaken conflicts with it, because both have added to the changelog.
  It needs `changelog.sh`, and every clause of the comparison in `version.sh`.
* `OnlyReleasedCode` needs both steps of `verify` and the pin of the package to the commit
  whose `api/` is uploaded. It is about tags: a run by hand deploys what it is told to.
* `GreenMeansServing` needs both smoke tests. It says nothing of an earlier run, which
  may have looked at a later one's app.

## What the code does differently from its documentation

1. *The message is deleted before the claim is recorded.* `storage_queue.py` (lines
   4-6) and README (101-104) say otherwise; `try_claim` deletes on line 46. A stop
   between that line and `job_service.py:88` strands the job as queued.
   `OneFaultOneLoss` shows that this needs a stop; early timeouts alone lose nothing.
2. *A terminal status is not final.* `domain/jobs.py` (8-11) says `transition_status`
   enforces it, but it looks at a copy, and `update_entity` has no etag condition. One
   worker that does not get the answer to its complete request in time and then
   reports a failure is enough; the user is told both outcomes.
3. *An empty `worker_id` makes a claimed job nobody's.* README (209-210) promises an
   ownership check; a claim with an empty `worker_id` is stored as the empty column
   and read back as `None`, on which `ensure_claimed_by` lets everybody pass. The
   in-memory fakes of the tests keep the job object and so never convert.

Smaller ones, seen while modelling and not run as violations:

* `form_registry.py` (5-8) and README (240-243) say that a malformed registry fails at
  start-up, and `form_renderer.py` (217) that `prerender_and_store` is called once. For
  the function app "startup" is the first request that needs the URLs (its comment,
  65-68, says so): it serves jobs and passes its health check with a malformed
  registry, and requests that arrive before the first prerendering has ended each
  prerender again. `FailsFast` and `ServesPublished` are therefore checked of the app
  in `api/app.py` only, `LinkedPagesAreCurrent` of the racing threads.
* `form_registry.py` (48) asks for a top-level `forms` list; `{"forms": {}}` and
  `{"forms": ""}` are loaded as empty registries (`PassesForEmpty`), and
  `{"forms": null}` raises `TypeError` instead of the documented `ValueError`.

## Proofs

All theorems hold for every set of jobs, handlers, workers, references and messages
and for every fault budget, unless a hypothesis says otherwise.

* `StorageQueueProofs`: `QueueTypeOK`; `QueueHandsOutOnce` from the invariant that an
  id not yet sent has no message and no return (`FreshIdsUnused`), without which a
  send could bring a handed-out message back; `QueueImplementsPort` under `LossFree`
  (no repeated send, no expiry), with the invariant that only first sends are stored.
* `JobServiceProofs`: `ServiceTypes`, with `CallShape` (what the locals hold at each
  step) as the strengthening; `ServiceUsesQueue`, by which every queue theorem holds
  inside the service; `ClaimAlwaysFindsJob` from "rows stay, and every message and
  every operation is about an existing row". `RowsAreCoherent`, under `NoEmptyStrings`
  (no worker sends an empty `worker_id`, reference or message: the columns could not
  tell it from `None`) and with repeated sends and racing reports allowed: the invariant
  adds to the rows the copies that handlers are about to write back, since a row is
  always one handler's copy and each transition keeps a copy coherent.
  `FaultsPayForLosses`, for finitely many jobs and with no other hypothesis: a step adds
  at most one job to the lost ones (`NothingElseLoses`, `StopLosesOne`, `ClockLosesOne`)
  and only a stop or an expiry, which spends a fault, adds any; `PaidFor` is the
  counting. The strengthening says that a claim's message carries the id it works on.
* `JobClaimProofs`: `ClaimsAreCurrent`, without hypotheses; `ClaimantsReport` and
  `OwnersAreStable`, under `WorkersHaveNames` (no empty `worker_id`; finding 3 is what
  happens without it). All three allow repeated sends. The invariant `ClaimInv` accounts
  for the messages of a job (`MessagesAccount`): each handler that holds the job, and the
  claim its row records, took a message of its own, so that a holder beside another
  holder, or beside a recorded claim, means that both messages are gone; a third holder
  is impossible. `SubmitsOnce` says that the submitting handler is alone and its job has
  no message yet. None of the three properties is inductive without it. `OwnerInv` adds
  that the row of a claimed job names a worker and that a handler writes back its own
  worker's name.
  `WritesStayAllowed`, under `ReportsDoNotOverlap` (finding 2 is what happens without
  it): `ReportInv` adds that a job has at most one reporter and that its row has not moved
  since it was read. `ServiceImplementsLifecycle` and `EndsAreFinal` (the statement of
  finding 2, where that cause of it is excluded) need `OneMessagePerJob` (no repeated
  send) too: `JobLifecycle` has one claimant and ends no job twice, and a job that is
  handed out twice may have two. `NextMapsToLifecycle` uses that hypothesis only to know
  that no job is handed out twice. The step that accepts a report maps to the lifecycle's
  by `ReporterOwns` (who passes `ensure_claimed_by` is named in the row, since the row of a
  claimed job names somebody), and the three lemmas on `Reporters` say what a handler's
  step does to who is reporting.
  `JobsSurviveStorage` says of the table's conversions that a job comes back as it was
  exactly if none of its texts is empty.
* `EndpointsProofs`: `EndpointsTypes`, `EndpointsUseService` (every theorem about the
  service holds in the function app; `EndpointsImplementLifecycle` spells one of them
  out), `ServicesAreComplete` and
  `RefusedRequestsChangeNothing`, for all processes, threads and budgets: the invariant
  ties a thread's phase to its operation of the service and to what it has built.
  `AnswersStayCurrent`, under `NoEmptyStrings` and `ReportsDoNotOverlap`: between what a
  client was told and the row a thread reads or writes next, statuses only move forward
  (`Leads` is transitive and every step of the row of a job that was not handed out twice
  follows it), and an answer shows the row it was made from for as long as the row keeps
  its status. `FailuresAreCaused`, for finitely many threads and jobs and with no other
  hypothesis: what the API still owes is counted with the failures it has had (`Debts`). A
  thread whose receipt is no longer current (`Overtaken`) is counted from the step of the
  clock that overtook it, before `delete_message` raises; a job whose send was repeated
  (`DoubledJobs`) from that send until no message of it is left and nobody holds one,
  which is so at the latest when `claim_job` refuses it (`RefusalSettles`). So no repeated
  send makes two requests fail.
* `ComputeWorkersProofs`: `WorkersTypes`; `WorkersUseService`, by which every theorem
  about the service holds with workers around it; `WorkersOwnTheirJobs` and
  `RefusedReportsAreSaved` under `WorkersHaveNames`, with repeated sends allowed. The
  invariant says that a waiting worker's handler works for that worker, that a handler it
  no longer waits for does nobody else's report, and that a job some worker runs is past
  its claim. `LossesHaveCauses`, for finitely many jobs under `WorkersHaveNames`, counts a
  job as doomed already when nobody who could have it reported waits for its claim any
  more (`Dropped`), so that a job is dropped by the mishap and not by the later end of the
  claim; a job that two workers claimed is dropped by the second of them to let go.
* `JobFormProofs`: `FormTypes`; `ShownJobsExist`, from the invariant that a request
  being handled has a handler that is about to enqueue its job, and that the job of an
  answered one has been sent; `PagesSendWhatIsEntered`, by what the listener does with
  a list of fields whose names differ; `UntoldJobsArePaidFor`, which counts the request
  that broke off before the page shows it.
* `FormPagesProofs`: `PagesTypes`; `LinksAreCurrent`, when no form has the public
  form's id; `AppFailsFast` and `AppServesPublished` of the eager app. A page is
  `Explained` to a process if that process may find it there. The invariant says that
  of two running processes one is newer or the other knew of it (`Cohorts`), that all
  pages a thread has counted as uploaded are explained, and so are all pages of a
  process whose URLs are set. An upload by anybody keeps a page explained to everybody,
  by `Cohorts`. `StartsAlone` is needed because a failing start-up takes the whole
  process down. For the eager app: it runs only on what was checked, its threads
  prerender only at startup, and it serves only with URLs and index set.
* `ReleasePipelineProofs`: `PipelineTypes`; `TagsDeployReleasedCode` and `GreenRunsServe`,
  from what each phase of a run has checked; `MergesBumpVersion`, for any branches and
  versions. Its invariant `VersionInv` says that the changelog of main's n-th commit
  describes the versions main has had so far and nothing else, that these rise, that a
  branch's base is a commit of main and its changelog the base's with at most its own
  version added, and that a green branch is above its base. So a green branch that does
  not conflict has main's tip as its base, and what the gate saw then is still true.

Only model-checked: liveness (`EveryMessageIsTaken`, `EveryJobEnds`, `LandingPageAppears`,
`EverySubmissionIsAnswered`), since TLAPS 1.4.5 does not do fairness. Every
invariant and every action property of a run is a theorem; what the theorems need beyond
the runs' own constants is named in their hypotheses above.

## Plan

1. *(done)* Queue, table and service; port and lifecycle refinements; their proofs.
2. *(done)* The endpoints' answers and the compute workers over `JobService`.
3. *(done)* `load_forms`, `prerender_and_store`, eager start-up against lazily cached
   singletons, two versions over one container, the public form in it.
4. *(done)* The form page's submit handler, several requests in flight, composed with
   `submit_job`.
5. *(done)* The endpoints from request to answer, with lazily built services.
6. *(done)* The release pipeline's version gate and deployments that overtake each other.
7. *(done)* Proofs of every safety property that a run checks, the counting ones
   (`OneFaultOneLoss`, `EveryLossHasACause`, `UntoldJobsHaveACause`,
   `FailuresHaveACause`) included.
8. *(done)* The same without the hypothesis that no send is repeated, wherever the
   property survives one.

Worth adding if the code changes that way: an etag on `update_entity` (then
`TerminalIsFinal` becomes a property to prove, and `ReportsDoNotOverlap` is not needed),
and a concurrency group in `deploy.yml` (then every green run means serving, not only the
last one).

## Not modelled

The staging deployment and the test run on every push: they change nothing that the rest
reads. The wording of pages, URLs, e-mails and log lines. What pydantic accepts in each
field (a body matches its model or it does not), and an empty `result_reference`, whose
effect on the blob client is the SDK's. Column limits of the table service. Version
strings that are not `X.Y.Z`. The tests and their fakes. Of the calls that the Azure SDK
repeats when an answer is lost, only `send_message` is modelled as such (`EnqueueResent`).
A repeated `create_entity` or `delete_message` that had taken effect raises, which is an
`Abort` after that step; a repeated receive leaves one more message hidden, which is an
`Abort` after `ClaimReceive`. A repeated `update_entity` is left out: it writes the same
row again, and could undo something only if another handler wrote the row in between, that
is, for a report sent before the claim was answered, for overlapping reports (finding 2)
or for a job that was handed out twice.
