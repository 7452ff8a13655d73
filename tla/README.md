# DocMind in TLA+

DocMind accepts documents, scans and stores them, extracts their text and has an LLM analyse it. The work
is spread over a FastAPI process, Celery workers and a FastStream consumer, which share PostgreSQL, MongoDB,
Redis, an S3 bucket, RabbitMQ and a temporary directory, and no transaction spans any two of these. This
directory models that cooperation, model-checks it with TLC and proves its safety properties with TLAPS.

Check one run with `tlc -config Pipeline.cfg MCDocumentPipeline`, one module of proofs with
`tlapm DocumentPipelineTypes.tla`; *Proofs* lists the eight of them. `PROJECT.json` lists the runs, the lines of the source each definition
models, one mutant for every property, the hazards and the findings.

## The system

| Component | State it keeps | Operations | Talks to |
|---|---|---|---|
| Upload service (`services/file_processor.py`) | none of its own; creates the `Document` row and the temp file | save and hash, choose a path, create the row, start the path, undo on errors | PostgreSQL, MongoDB, temp directory, Celery and event queues |
| Celery tasks (`worker/`) | `document_status`, `temp_filename`, `file_key`, the file, the object, the text | scan, upload, extract, retry, `on_failure` | all stores, clamd, each other through queues |
| Document service (`services/documents.py`) | same row and file | cancel, list, get, download link, check that it is ready | PostgreSQL, MongoDB, temp directory, S3 |
| Analysis service (`services/analysis.py`) | `DocumentAnalysis` records | create, get-or-create, retry, dispatch, mark failed, remove, list | MongoDB, RabbitMQ |
| Analysis consumer (`stream/`) | the same records; the retry count in the message | handle, reject to the retry queue, final failure | MongoDB, Redis, LLM |
| Prompts (`repositories/mongo_prompts.py`) | prompt versions, one active per type; a cached copy with a TTL | create, get active, seed | MongoDB, Redis |
| Sessions (`services/auth.py`, `services/users.py`, `core/`) | token blacklist, cached activity of users, the activity itself | login, request, refresh, logout, change the activity | PostgreSQL, Redis |
| Rate limiter (`core/rate_limiter.py`, `core/middlewares/rate_limit.py`) | a sorted set per method, path and client | stamp, check, reject | Redis |
| Clients: S3, antivirus, extractors, LLM | none | put/head/get, scan, extract, analyse | the outside |

What is hard here:

* every handler is a sequence of accesses to different stores, so requests and tasks interleave between any two of
  them, and checks are stale when acted upon (cancel against a task, retry against remove, reuse against its source);
* rows are written without versions: PostgreSQL at READ COMMITTED through an ORM that sends only the columns that
  differ from what the session loaded, MongoDB by saving a whole record found earlier;
* publications can fail, be ambiguous or be repeated, tasks are retried after any of their accesses, and processes die;
* errors are cleaned up by hand on every exit: the temp file, the status, the queued analysis;
* copies are cached in Redis by whoever read the original, at any later time, and every access to Redis may be skipped;
* the rate limiter reads the clock of its process first and runs its transaction later.

What makes each component correct: stored documents have their object and their own text; no file, status or analysis
is left for nobody; what is extracted, finished or removed stays so; nothing infected is stored; at most one retry of
an analysis; an answer put together from several stores is true; one prompt is active; a revoked token is refused as long as
it lives; caches follow what they copy, or converge to it; a limit is neither exceeded nor applied to those who kept it.

## Modules

**`DocumentPipeline`** models the upload, cancel and reading requests and the three tasks. Its state is the row (`status`,
`named` for `temp_filename`, `key`), the stores (`temp`, `object`, `text`), the analysis record of the upload's own
request as far as the dispatch concerns it (`analysis`, `requested`), the Celery queue as a bag, what every worker
executes (`run`), the two requests of each document (`up`, `cancel`) and what a reading request has read (`view`). One action is one access to something
other processes see; the program counters name the accesses in the order of the code. Conventions:

* `commit` and the `refresh` after it are one step, after which the run may still raise without having learnt that its
  update is there. Where the update leads on, the failure of the next access says the same (`AccessFails`); where it
  ends the document (failed, infected, extracted, or cancelled for a missing file), `Acknowledged` says so: the retry then finds
  an ended document and, in the scan and upload tasks, which stop only for a cancelled one, starts over. `SaveStatus`/`ClearName` take the instance the session still
  references: the scan, upload and API handlers drop it, so their updates re-read the row and always write (`NoInstance`);
  the extraction, the failure handler and the cancel keep theirs and skip columns that equal it (`Written`).
* `AccessFails` is any exception that Celery retries; `Raise` is the retry or `on_failure`; `RunLost` is a run that
  nobody repeats (the process dies, `task_time_limit`, the retry cannot be published). Messages are acknowledged before
  they run: the decorators pass `task_acks_late`, which is not the name of a task option (`acks_late` is).
* A write that was applied although its caller saw an error is the write followed by a failing next access.
* `on_failure` runs its handler in an event loop of its own. The row is written there: the workers' PostgreSQL engine has
  no pool (`NullPool`). The analysis is not: Beanie keeps the client that the task opened in its own loop, which is
  closed, and that client refuses another loop. `MarkAnalysisFailed` is therefore a step that changes nothing, without any fault.
* `abandoned` and `littered` are history variables for properties only: documents some step of which was lost for
  good, and files whose unlink failed.
* One temporary file and one object key belong to each upload (`uuid4` names), so both are named by the upload.

Its **readers** (`Readers`, none in the runs other than `PipelineReuse`, to which they would only add states) are `get_document_by_id`,
`ensure_ready_for_analysis` and `get_download_url`, each as its reads in their order, and an answer that is on its way until the user has it. A document
is followed when its row says extracted. Ownership (`get_document`) is one guard on data nobody changes and is left out.

**`AnalysisLifecycle`** models the analysis records and everybody who writes them: the extraction task's dispatch with its
Celery retries (`TaskRetries`) and what ends them without a record of it (`TaskGivesUp`: the document was cancelled before
the retry, or the retries are over and `on_failure` cannot write the analysis, see above), `POST analyses` and the analysis-only upload (`Create`), `POST retry`, `DELETE`, and the consumers. A record is
named by its request (unique index) and carries an `id`, because the consumer reads by id but updates by document and
request. `update_analysis_fields` is a find and a save of the whole record; a save of a removed record inserts it again
(Beanie's `save` is an upsert) unless a unique index refuses. The retry queue with its TTL is a message with a higher
`count`. Events the consumer rejects as invalid or corrupted are not modelled: every publisher names the record's own
document and request.

The two modules meet in `GetOrCreateAnalysis`, `MarkDispatchFailed` and the published event: `DocumentPipeline` keeps of the
record what its own properties need and has no consumer, `AnalysisLifecycle` starts where a dispatch does and assumes a stored text
(`RequestedHasText`, checked on the pipeline), which may be empty (`Blank`).

**`PromptVersions`** models `create_prompt`, `get_active_prompt` and the seed script for one prompt type. State: the collection by
version (a unique index), the cached version, and the call each caller executes. What `get_active_prompt` returns is either the stored
record or a copy rebuilt from the cache. The copy has no `_id`, so `save` inserts it and the unique index refuses.
`overlap` and `interrupted` are history variables for properties only.

**`Sessions`** models one user: `users.is_active`, its cached copy, the token pairs with the time they have left, the blacklist with the time its
entries have left, and what each request executes. Both tokens of a pair share their `jti` and birth. Requests with an access token
follow `get_current_user`, refreshes `verify_refresh_token`, logins `authenticate`; `Update` is `update_user_active_status` by an
administrator, whose session sends the column only when it differs from what it loaded. Time is in ticks; a token's verification and the
question for the blacklist fall into one tick. `Serve` includes the second read of the user in `verify_refresh_token`, whose answer decides nothing.

**`RateLimiter`** models the middleware and the limiter. `NormalizePath`, `Setting`, `Key` are the routing of the middleware, with a path as the
sequence of its segments. A request is stamped, checked (the transaction) and, if refused, answered, in three steps with
other requests and the clock in between. The routers take every spelling of an integer (`+1`, `1.0`, `1_0`), the middleware
knows digits only (`Ids`), so a request with another spelling has a counter of its own and the global limit. `Served` contains
such paths and requests are sent to them; the properties are about requests that name their document by digits (`Plain`).
For these `RoutesAgree` compares the routing with the routers (`Route`, `RouteSettings`) for every route
of the API; it has no states: TLC evaluates it for the paths of `MCRateLimiter`, and it is a theorem for all of them. Members of the sorted set
carry a random suffix, which is the request's own name here.

**Abstract specifications.** `DocumentLife` is what a user is promised of a document, `AnalysisResult` what is promised of an analysis. Neither
knows tasks, messages, files or saves. `DocumentPipelineLife` and `AnalysisLifecycleResult` give the refinement mappings (the five working statuses
are one phase; a record is named by request and id, so that an analysis created again is another one) and state the refinements
`KeepsPromise` and `AssignedOnce`, which TLC checks as properties. Two weaknesses of the code are in `DocumentLife`: a cancel can be overrun (`Unfinished`), and an end that was not acknowledged
is lost, so that the work starts over (`Reopen`).
`KeepsPromise` needs publications that are not ambiguous: with them a request answers failed although its message is processed, and the
document goes from failed to working. `AssignedOnce` needs one handler per message, see below.

**`MCDocumentPipeline`, `MCAnalysisLifecycle`, `MCPromptVersions`, `MCSessions`, `MCRateLimiter`** declare the model values and the symmetry of the runs.
**`DocumentPipelineTypes`, `DocumentPipelineData`, `DocumentPipelinePromise`** (each extends the one before it),
**`AnalysisLifecycleProofs`, `AnalysisLifecyclePromise`, `PromptVersionsProofs`, `SessionsProofs`, `RateLimiterProofs`** hold the
theorems; the two `Promise` modules have those about the refinements and about who is responsible for what.

Operators that follow a comment `Mutant:` are faulty variants of the definition after them; no specification uses them.
They are substituted one at a time to see that each property can fail.

## Runs

| Run | Instance | Checks |
|---|---|---|
| `Pipeline` | 1 document (clean, infected or unreadable), 2 workers, 2 retries, 4 faults, 2 cancels, no duplicates, fairness | types; no leaked file, stuck document, queued orphan or dangling name; an extraction is kept, and so is any other end that its task has learnt of; every document settles; without faults a readable upload is analysed; the refinement of `DocumentLife` |
| `PipelineDuplicates` | the same with ambiguous and repeated messages, mandatory antivirus, 1 retry, 2 faults, 1 cancel | stored documents have their object, infected content is never stored, extracted documents have a text, nothing is stuck |
| `PipelineReuse` | 2 documents with equal, different or blank contents, 1 worker, 1 reader, 1 fault, 1 cancel | objects and texts belong to the right file through both shortcuts; no analysis without text; no leaked file; no queued orphan of the requests that dispatch themselves; answers are true |
| `PipelineCancel` | 1 document, 1 cancel, no fault | **violated**: a cancelled document stays cancelled |
| `Analysis` | 2 requests (one of a blank text), 1 handler, 1 retry each, 4 faults, 2 removals, fairness | types; a finished analysis is final, a removed one stays removed, a retried one has failed; every analysis settles, unless its task gave its dispatch up; the refinement of `AnalysisResult` |
| `AnalysisRetries` | 3 requests, 1 handler, ambiguous publications, 2 faults, 1 removal | at most one retry of an analysis exists |
| `AnalysisRedelivered` | 1 request, 2 handlers, every publication fault and redelivery beside a running handler, 3 faults, 1 removal | nothing is stuck, unless its task gave its dispatch up; success is clean |
| `AnalysisRetryRace` | 2 requests, 1 fault, 1 removal | **violated**: a retry's parent exists |
| `Prompts` | 3 versions, 2 creators (or seed scripts), 1 consumer, 1 fault, fairness | types; creations that do not overlap leave one active prompt; an active prompt remains; a stale cached copy goes |
| `PromptsStale` | 2 versions, 1 creator, no fault | **violated**: while nobody creates, the cached prompt is active |
| `Sessions` | 2 token pairs, 2 concurrent requests, 2 changes of the activity, 1 fault, access token 1 tick, refresh token 2, fairness | types; a revoked pair is refused; the cached activity converges to the row's |
| `RateLimiter` | 3 requests of 2 clients to 3 targets of 2 routes (one document in two spellings), 7 half seconds, delays up to half a second, 1 fault | types; the limit in any window; no refusal without cause; Retry-After is honoured; every route's counter and limit, for documents named by digits |

*Why the bounds suffice.* Documents interact only through reuse, which reads one other document, so two of them show every
pair. A race needs two runs of one document, so two workers. One retry shows both the retry and its exhaustion, two a retry that
starts over and fails again; the code's three add repetitions of the same states. Four faults exhaust two retries and still
fail the handler behind them; up to two of them `NoQueuedOrphan` must hold for the task, beyond that it excuses it.
Three requests are the original and two competing retries.
Two creations, with a consumer in between, show every order of the accesses of `create_prompt`; a third version lets each find the
other's. Two requests of a session show every race on the cache, a third only repeats a write; two pairs show that one
logout does not touch the other. Limits of 1 and 2 are reached by three requests; 7 half seconds are more than two windows and
two ticks per second show the flooring. Deadlock is not checked: every behaviour ends when its requests
are done.

*Fairness.* Weak fairness of every request step, every run step and of taking a message: a handler that is not dead continues,
and a worker or consumer that is idle takes what is queued. Taking and running are separate conditions, nothing is
assumed of faults, of users or of which message is taken, and a delete may stop anywhere. Celery and FastStream poll
their queues as long as they live, which is all this says. `PromptVersions` and `Sessions` assume that calls run on and that Redis drops an
entry whose TTL is over (`Expire`), which it does by itself; nothing is assumed of the clock that ends tokens.

*Two strengths of delivery.* `ExtractedIsKept`, `EndedIsKept`, `KeepsPromise`, `NoLeakedTempFile` with retries, `FinishedIsFinal`, `RemovedStaysRemoved`, `RetriedHasFailed` and `AssignedOnce` need
messages that are handled once; the code's read-then-write updates do not protect them against a repeated message, which the
project's README concedes ("duplicate execution is not eliminated in every race"). They are checked where delivery is at
most once (pipeline) or never concurrent (analyses), and the theorems about them name it as a hypothesis, `DeliveredOnce`.
The other properties hold under every delivery fault.

## Findings

* **A cancel can be undone** (`PipelineCancel`). A task checks for cancellation in one transaction and writes its status in
  the next. A cancel in between is overwritten.
* **A retry can lose its parent** (`AnalysisRetryRace`). The removal looks for a retry and deletes later.
* **A deactivated prompt stays cached** (`PromptsStale`). `create_prompt` invalidates the cache and then reads the active prompt through it, which
  caches the prompt it deactivates next. Consumers use it until the TTL is over.

Also seen, and stated as exceptions of properties instead of findings: with a repeated message the extraction's branch for an earlier status,
which returns without removing the file, may be the last to look, and the temporary file stays (`NoLeakedTempFile` is violated by
`MCDocumentPipeline` with the antivirus enabled, `PublishFaults = {"twice"}`, 2 faults, 1 cancel and 1 retry); two creations of the same prompt version at once leave
no active prompt, two of different versions leave two; a creation beside a consumer that refills the cache fails with a duplicate key;
a task killed by its time limit is never repeated; when the refresh after the commit of `failed` or `infected` raises in the scan or
upload task, the retry writes a working status over it (`Reopened`, the exception of `EndedIsKept`); an extraction task
whose every dispatch fails leaves its analysis queued, since `on_failure` cannot write it, and so does a cancel between a failed dispatch and
its retry (`given_up`, the exception of `NoStuckAnalysis`; `NoQueuedOrphan` counts the faults); a request that spells its document's
number other than by digits is limited by a counter of its own and the global limit (`Plain`); a cancel
overlapping the analysis-only fallback leaves `temp_filename` naming a removed file (`Degraded`, the exception of `NoDanglingName`); an analysis removed and created again by the task's
second dispatch can be written by a late message of the first record and stay `analyzing`.

## Proofs

Every invariant and every action property of the passing runs is a theorem: TLC shows it on a small instance, TLAPS for
any number of documents, workers, requests, versions, tokens or clients, and for any bounds. Hardly any of them is
inductive as it stands. The table names the inductive invariant behind each theorem; the text says what it adds.

| Module | Inductive invariant | Proved from it |
|---|---|---|
| `DocumentPipelineTypes` | `Typed` | `TypeOK` |
| `DocumentPipelineData` | `DataInv` | `StoredHasObject`, `TextIsOwn`, `InfectedNeverStored`, `KeyIsStable`‡ |
| | `TextInv` | `ExtractedHasText`, `RequestedHasText`, `AnswersAreTrue` |
| `DocumentPipelinePromise` | `HolderInv`\* | `ExtractedIsKept`\*, `EndedIsKept`\*, `KeepsPromise`\* |
| | `CareInv` | `NoStuckDocument`, `NoQueuedOrphan`, `NoDanglingName` |
| | `HolderInv`\*, `CareInv`, `CleanedInv`\* | `NoLeakedTempFile`\* |
| `AnalysisLifecycleProofs` | `Typed` | `TypeOK` |
| | `RecordInv` | `OneRetryEach`, `SuccessIsClean` |
| | `TendedInv` | `NoStuckAnalysis` |
| `AnalysisLifecyclePromise` | `HolderInv`\* | `RetriedHasFailed`\*, `FinishedIsFinal`\*, `RemovedStaysRemoved`\*, `AssignedOnce`\* |
| `PromptVersionsProofs` | `TypeOK`, `ActiveInv` | `TypeOK`, `OneActiveAlone`, `ActiveRemains` |
| `SessionsProofs` | `Typed`, `RevokedInv`, `CacheInv` | `TypeOK`, `RevokedIsRefused`, `CacheFollowsRow`‡ |
| `RateLimiterProofs` | `Invs` | `TypeOK`, `WindowLimit`, `NoFalseRefusal`, `RetryAfterHonoured`; `RoutesAgree` has no states |

\* under `DeliveredOnce`, see *Hypotheses*; ‡ stated for the theorem only, in no run: `KeyIsStable` says nothing of one document, and
the races that `CacheFollowsRow` excuses are what `StatusPrevails` is checked for.

**Types.** A run reads the row of its document, so `Typed` of the pipeline adds that every run that is not idle has one; that of
the analyses adds that an id never exceeds the attempts to create its record; that of the sessions, that a call past the
verification of its token names a pair.

**Data of the pipeline.** The object a key names must be the user's content because the file the upload task read was, and an
infected content stays out because whoever is past the scan saw a clean one; so `DataInv` says what each queued message, each
run at each of its steps and each upload request implies: file, object and text of a document hold its own content or nothing
(of equal content, for a key taken from a duplicate), an upload message with a mandatory antivirus means a clean content, an
extraction means a key with its object. `RunEffect` and `RequestEffect` summarise what a step may do to the row, the stores and
the queue; the lemmas show that every action has such an effect and that every such effect keeps `DataInv`. `TextInv` says who stands between a
status and the text it promises: the request that still copies it, the run that has stored it, or nobody because it is there;
and that a reading request knows of a text or a key only what stays true, since neither is ever removed.

**Who is responsible in the pipeline.** With one holder, a document belongs to its request, to one message or to one run, and what
the holder knows of the status is current except that a cancel may have failed the document meanwhile, and that a retry may find it
ended by the attempt before, which did not learn so (`AgainPcs`). That is `HolderInv`, and
it is why a step of the pipeline is a step of `DocumentLife` or a stutter. The weaker `CareInv` needs no single holder: each duty towards a document
(to move its status on, to dispatch its analysis, to clear the name of its file) is with *some* request, message or run,
and passes to another, or is done, before its holder goes; a repeated message only adds a second one that cares. Therefore
nothing is left undone, under every delivery fault. The dispatch has an end that does nothing, since no failure handler can write
the analysis: every attempt that raises costs a fault, so a task with fewer faults than attempts never gets there
(`TriesInv`). Only the removal of the file needs one holder as well: the
extraction that finds an early status returns and leaves the file, and with one holder it never finds one (`NoEarlyLoad`).

**Analyses.** The collection is written by saves of whole records found earlier, so `RecordInv` speaks of these copies: a copy that
waits to be saved as a success has a result and no failure kind, the others cannot become one, and ids name records that were inserted.
`OneRetryEach` is inductive beside it, since every insert, and every save that turns out to insert, passes the unique indexes (`RowEffect`).
`TendedInv` follows an unfinished record to its request, its message or its handler, or a queued one to the task that gave its
dispatch up. `HolderInv` says, with one handler per
message, that whoever is about to save has a copy nobody has overtaken: finished records are then written by nobody, a removal
meets no copy that waits, and each step assigns its result once.

**Prompts.** `ActiveInv` has one part for each history the code may have had: while creations did not overlap, a creator has found
the only active prompt and deactivates it before it inserts (`Lone`); while no two had the same version, a creation past its check
inserts what nobody else does (`Distinct`), and once a prompt is stored either one is active or a creation is about to insert one (`Followed`).

**Sessions.** `RevokedInv` says that an entry of the blacklist has at least as much time left as the pair it names, and that a request
that was barred and passed nevertheless was blinded by Redis. `CacheInv` says what each update knows of the row between its
load, its commit and its publication, unless another one publishes meanwhile, and that a reader about to fill the cache has read the
present activity once nobody publishes.

**Rate limiter.** `Invs` says that a sorted set has members of its own counter only (`MembersInv`), and that a counted request is in it until it is
older than a window, because neither the expiry nor an overtaking check removes it earlier (`KeptInv`). A check that lets a request through
has therefore counted everybody let through in the window but for the delay (`WindowInv`), and one that refuses has counted
nobody who left it (`BlamedInv`).

**Hypotheses.** The named assumptions on the constants say that sets are what they are declared to be, that the `None` value is none of
their members, that bounds are natural numbers, that limits, windows and lives are positive and that the access token lives no longer than the refresh
token. `Requests` of the rate limiter is finite, since it is counted; nothing else needs to be. Beyond these:

* `DeliveredOnce` in the pipeline is `PublishFaults \subseteq {"error"}`: a publication happens or is refused, and is not repeated. In
  the analyses it is that and `Redelivers = FALSE`. Retries, lost runs, dead handlers, cancels and removals in any number are
  still there. The code needs it: on the instance of `PipelineDuplicates` TLC violates each of the four properties with `"ambiguous"`
  alone and with `"twice"` alone; on that of `AnalysisRedelivered`, with two requests and 2 faults, each of the four with
  `"ambiguous"` alone, and with `Redelivers` alone all but `RetriedHasFailed`, for which it may be more than is needed.
* `ServedAssumption` says which paths the API serves: those that its routers declare, with anything for an identifier, and trailing
  slashes. It is not assumed that the middleware agrees with the routers: `RoutingAgrees` proves that it does, by cases on the
  routes, for documents named by digits.

**Only model-checked.** The liveness properties `DocumentSettles`, `UploadIsAnalysed`, `AnalysisSettles`, `CacheConverges` and
`StatusPrevails`, since TLAPS supports neither `ENABLED` nor fairness; and the three violations, which are
behaviours to be found and not theorems. `NoStuckDocument` and `NoStuckAnalysis` are the safety part of the liveness properties
of the same components: whatever is unfinished has somebody who can still act on it.

## Not modelled

* Registration of users: one insert under unique indexes, which interacts with nothing; nobody deletes a user.
* Schemas, dependency wiring, configuration, logging, the request context and migrations: no behaviour of their own. Routes
  appear as the constants of `RateLimiter`, the seed script as `Seed`.
* The wire protocols of clamd, S3 and the LLM providers and the parsing of texts and answers: outcomes only (done, retryable, final).
* Lists and pagination, which read one page and change nothing, and signatures, password hashes, ownership and roles, which are
  compared with data that no request changes.
* The `ValueError` of an unknown MIME type and events that fail validation, which no publisher sends.
* That a write was applied although Redis reported an error, other than as the write followed by a fault at the next access.

## Plan

1. `RetriedHasFailed` with redelivered messages, or the behaviour that breaks it.
2. What of `KeepsPromise` and `FinishedIsFinal` survives a repeated message: the promise without the transitions a second holder can make,
   as an abstract specification of its own.
3. The composition of the two modules as a theorem: what `RequestedHasText` and the dispatch of the pipeline guarantee is what
   `AnalysisLifecycle` assumes of its `Create`.
