# A formal model of JS-Recon

TLA+ modules for JS-Recon: the pipeline that carries a run through its stages,
the stages themselves, the browser extension and the uploads it sends, and the
services around them. TLC checks them on small instances; TLAPS proves the
properties that matter most for every value of the constants. `PROJECT.json`
names, for every definition, the lines of the source it models.

Paths below are relative to `src/apps/platform/src/recon/` unless they begin
with `ext/`, which stands for `src/apps/capture/chrome-extension/`, or `web/`,
which stands for `src/apps/platform/web/src/`.

- [The system](#the-system)
- [The modules](#the-modules)
- [How the modules model the code](#how-the-modules-model-the-code)
- [The runs and their bounds](#the-runs-and-their-bounds)
- [Fairness](#fairness)
- [What is proved](#what-is-proved)
- [Where the code and its documents disagree](#where-the-code-and-its-documents-disagree)
- [Known behaviours](#known-behaviours)
- [Not modelled](#not-modelled)
- [What could come next](#what-could-come-next)

## The system

JS-Recon collects the JavaScript of a web application and analyses it. An
operator drives it through a web UI (a FastAPI process); worker processes do the
long work; Postgres holds every durable fact, Redis the queues and the live
events, an object store the blobs. A Chrome extension is a second way in: it
captures scripts while the operator browses and uploads them.

| Component | State | Operations | Interacts with |
|---|---|---|---|
| run lifecycle (`runs/state_machine.py`, `runs/service.py`) | the run row: state, pause and cancel flags, stage to resume from | create, transition, pause, cancel, resume | called by API, coordinator, worker; writes the event log in the same transaction |
| coordinator (`runs/coordinator.py`) | job rows | enqueue a stage, advance, finalize, resume, edit and re-run | commits a job row, then adds a message |
| broker (`queue/`) | a stream per queue with a consumer group, a ZSET of delayed messages, a dead-letter stream | add, read, acknowledge, reclaim, schedule, promote, trim | Redis; at-least-once delivery |
| worker (`worker/main.py`) | none beyond what it is doing | read flags, claim, enter stage, work, finish, advance, acknowledge; retry, dead-letter; reap | every other part |
| job lease (`progress/heartbeat.py`) | job state and lease | claim, beat, finish | conditional updates of one row |
| event log and SSE (`events/`, `api/runs_router.py`, `web/`) | `run_event` rows, a capped Redis stream per run, the page's state | record, publish, replay, tail, poll | written with each transition, read by browsers |
| capture ingest (`api/capture_router.py`, `runs/captured_versions.py`) | capture sessions, their accumulating run, assets | save files, start analysis, report progress | the extension; the coordinator |
| extension (`ext/`) | queue and flags in memory; outbox, dedup set, session id, token, settings in storage | capture, observe, upload, forget, flush, new session, login, logout, restart | capture ingest; the browser's worker lifecycle |
| fetch, politeness, egress (`fetch/`) | asset rows, blobs, a politeness key per host | fetch the assets of a run, their maps and chunks | the stage's worker, the target |
| discover, browser capture (`discover/`, `capture/`) | manifests, asset rows; a browser session | crawl, drive a browser | external programs |
| analyze, extract (`findings/`) | findings keyed by identity, occurrences, coverage, taught wrappers | extract, normalise, merge, re-extract, diff | blobs, the findings tables |
| correlate (`correlate/`) | hosts and body hints of endpoints | match observed requests | findings |
| source index (`probe/source_index.py`) | stored texts, a chain of slices guarded by a token in Redis | request, handle a slice | a queue of its own |
| reveal (`probe/reveal.py`) | the audit log | rebuild, compare, show a secret | blobs, occurrences |
| threat model (`threat_model/`, `llm/`) | one row per session, one per paid call | trigger, claim, call, store | an LLM service |
| login and its rate limit (`auth/`) | failure counters in Redis | gate, count, clear | the API |
| spec diff (`spec/`, `findings/base_url.py`) | the session's document, base-URL rules, a verdict per endpoint | attach, add and delete a rule, classify | blobs, findings; called when a run finishes |
| sessions, scope, purge (`sessions/`, `storage.py`) | sessions, authorizations, runs, blobs | create, seed, re-run, delete | object store, workers |

`PROJECT.json` lists all the components with what is and is not modelled.

### What is hard in it

- **At-least-once delivery meets exactly-once effects.** A message may be read,
  reclaimed and retried by several workers; a run must still be advanced once
  per job. Two conditional updates, the claim and the finish, carry that.
- **Leases instead of locks.** A lease that lapses under a live worker lets a
  second one in; both run the stage, over the same rows.
- **Two stores, no transaction across them.** A blob is stored, then its row is
  committed; a job row is committed, then its message is added; an event is
  committed, then published.
- **State read, then acted on.** Flags, taught wrappers, the accumulating run, the
  login gate, the threat model's row: each is read in one statement and used in a
  later one.
- **Callbacks between awaits.** The extension's worker interleaves captures,
  uploads, flushes and logins at every await, and the browser may end it there.
- **A queue that outlives its context.** The outbox holds files of past
  sessions and past logins and drains under whatever login is current.
- **Two passes that must agree.** The key an import is looked up by and the key an
  export is stored under; the text a secret was found in and the text a reveal
  rebuilds; the identity a base run was analysed under and that of today.

### What makes each part correct

- *pipeline*: a job is advanced past at most once; stages are entered in order,
  each after the ones before it are complete; nothing is acknowledged without a
  successor; every run settles; two workers never do the same job while beats
  are timely.
- *stages*: what a row says is stored is stored; a stage that is done left nothing
  without a verdict; a verdict, its findings and their coverage commit together;
  merged evidence is kept; the stages end.
- *extension*: what reached the outbox is delivered, refused or still there;
  nothing crosses a tenant switch; the outbox empties while a login is valid;
  what is marked as seen was queued, or its put failed; what was seen is taken up; the page's hook
  follows the settings.
- *capture ingest*: a run has its job exactly when it is sealed; what a reply
  called stored stays stored; the popup's progress settles.
- *events*: of what the stream still has, a page misses nothing before what it has
  received; and it comes to show the run's end.
- *services*: a run called indexed is; one paid call at a time; a username is
  guessed a bounded number of times; a match is never a guess.
- *sessions*: a run is sent, and its fetcher connects, only where its session was
  authorized, and keeps only what is of there; rows do not
  dangle; a deletion leaves nothing behind.
- *spec diff*: no call is a shadow of the document that has it; verdicts are those of
  the present document, rules and findings.
- *extraction*: a URL is one the program uses; the same code shows no difference;
  a reveal shows the secret that was found.

## The modules

| Module | Models | Checked by |
|---|---|---|
| `RunStates` | the stages, the run and job states, the table of legal edges (`domain.py`, `runs/state_machine.py`) | `MCRunPipeline` |
| `RunLifecycle` | the abstract specification: one run, its state, the stages it has completed | `MCRunPipeline`, by refinement |
| `RunPipeline` | run row, job rows, stream, ZSET, dead letters, workers, API processes | `MCRunPipeline` |
| `RunPipelineClaims` | what a comment says of the pipeline and the code does not do | `MCRunPipeline` |
| `RunAssets` | the `run_asset` table and the statements on it (`runs/assets.py`) | through the next two |
| `FetchStage` | the fetch stage: assets, retries, maps, chunks, politeness (`fetch/fetch.py`) | `MCFetchStage` |
| `AnalyzeStage` | the analyze stage and the re-extraction, statement by statement (`findings/analyze.py`, `store.py`, `coverage.py`, `wrapper_service.py`, `reextract.py`) | `MCAnalyzeStage` |
| `CaptureUploader` | the extension's uploader, session changes and logins, and the answer of save-files (`ext/modules/batch-uploader.js`) | `MCCaptureUploader` |
| `CaptureIngest` | the workspace side of the uploads (`api/capture_router.py`, `runs/captured_versions.py`) | `MCCaptureIngest` |
| `SourceIndex` | the chain of index slices (`probe/source_index.py`) | `MCServices` |
| `ThreatModel` | the generation of a threat model and its paid call (`threat_model/`, `llm/calls.py`) | `MCServices` |
| `RunEvents` | event log, stream, connection and page (`events/`, `api/runs_router.py`, `web/`) | `MCServices` |
| `LoginLimit` | the throttle of failed logins (`auth/`, `api/auth_router.py`) | `MCServices` |
| `BrowserCapture` | the driver of a headless browser (`capture/driver.py`, `cdp.py`, `interaction.py`) | `MCFindings` |
| `DiscoverStage` | the discover and capture stages (`discover/`, `capture/stage.py`) | `MCFindings` |
| `Correlate` | the correlate stage (`correlate/`) | `MCFindings` |
| `ChunkEnum` | the chunks a webpack bundle's code names (`findings/chunkenum.py`) | `MCFindings` |
| `SessionRuns` | sessions, scope, the ways to start a run, egress, the purge (`sessions/`, `fetch/egress.py`, `storage.py`) | `MCRecords` |
| `FindingIdentity` | what makes two sightings one finding, and the diff of two runs (`findings/normalize.py`, `store.py`, `queries.py`) | `MCRecords` |
| `CrossModule` | the value of a URL across constants, modules and builds (`findings/_base_env.py`, `_modulegraph.py`, `analyze.py`) | `MCRecords` |
| `RouteHarvest` | the second pass of an extract, over builders away from sinks (`findings/extract.py`) | `MCRecords` |
| `SecretReveal` | finding a secret without storing it, and showing it later (`findings/analyze.py`, `probe/reveal.py`) | `MCRecords` |
| `PageCapture` | the queue of files of the extension and its processors (`ext/background.js`) | `MCRecords` |
| `PageObservations` | observed requests, their bodies, the page hook's registration (`ext/background.js`) | `MCRecords` |
| `SpecDiff` | the document of a session, the base-URL rules and the verdicts on its endpoints (`spec/`, `findings/base_url.py`) | `MCFindings` |
| `Services` | the composition of `LoginLimit`, `SourceIndex`, `ThreatModel` and `RunEvents` | `MCServices` |
| `Findings` | the composition of `SpecDiff`, `BrowserCapture`, `DiscoverStage`, `Correlate` and `ChunkEnum` | `MCFindings` |
| `Records` | the composition of `SessionRuns`, `FindingIdentity`, `CrossModule`, `RouteHarvest`, `SecretReveal`, `PageCapture` and `PageObservations` | `MCRecords` |

`RunPipelineProofs`, `FetchStageProofs`, `AnalyzeStageProofs`,
`CaptureUploaderProofs`, `CaptureIngestProofs`, `ServicesProofs`,
`FindingsProofs` and `RecordsProofs` hold the theorems.

How they meet: `RunPipeline` treats a stage as a step that succeeds, raises or
notices a flag. `FetchStage`, `AnalyzeStage`, `DiscoverStage` and `Correlate` are
what happens inside that step, and each takes from the pipeline what the pipeline
allows: a second execution of the same job when a lease lapses, a death anywhere,
a redelivery, a pause at a checkpoint. `CaptureUploader` sees the workspace as one
answer, `SaveFiles`; `CaptureIngest` is what is behind that answer.
`PageCapture` is what comes before the uploader's outbox. `CrossModule` is what
`AnalyzeStage` takes for a constant, the findings in an asset; `ChunkEnum` is what
`FetchStage` takes for one, the chunks an asset's code names.

## How the modules model the code

### RunPipeline and RunLifecycle

An action is what a process does in one transaction or in one Redis command, so
processes interleave, and die, wherever they can in the code. A worker's program
counter names the next step:

    Deliver | Reclaim -> ReadFlags -> Claim -> EnterStage -> Checkpoint -> MidWork
    WorkDone  -> Finish -> CreateNext -> Publish -> AckDone
                        -> Finalize -> AckDone
    WorkFails -> FailJob -> Reschedule -> AckDone
                         -> DeadLetter -> DeadJob -> FailRun -> AckDone

A flag seen in `ReadFlags`, `Checkpoint` or `MidWork` leads to `StopRun`, a claim
or a finish that is refused to `AckDone`. `ReapJob`, `ReapFlags` and `ReapSettle`
are the reaper's three transactions. `ApiCreate` and `ApiPublish` are the two
halves of `enqueue_stage`, for the first stage and for a resume.
`RequestPause`, `RequestCancel` and `Resume` are the operator's. `LeaseLapses`,
`WorkerCrash` and `ApiCrash` are the environment's.

`_apply_transition` reads the row, checks the edge and updates under the state it
read. Here the whole is one step, which may be refused when the row is not in the
state the worker saw (`Refused`): `seen` keeps what the worker read. Time is
abstracted: a lease is a flag that may lapse, a delayed message may become due at
any moment, an unacknowledged message may be reclaimed by a peer.
`jobs[j].parent` is history: the job whose finish created this one. `past` counts
what the environment has done.

`RunLifecycle` knows nothing of queues: a run changes state along the table,
enters a stage only when every earlier stage is completed, and is finalized only
when all are. `RunPipeline` implements it with `state <- run.state` and
`completed` the stages of succeeded jobs (`ImplementsLifecycle`).

### The stages

`FetchStage`: a worker's execution (`ex`) walks a snapshot of the rows without
bytes, as `_fetch_assets` does. Each attempt waits for the host's politeness key
(`slot`, a key with an expiry that whoever asks first takes), asks the target,
stores the bytes, then the map, then commits the row; afterwards it enumerates the
chunks the code names and fetches them breadth first under the budget of assets.
Looking at the control flags, dying and being joined by a second execution are
steps anywhere they can happen. Bytes are urls in `blobs`.

`AnalyzeStage`: an asset is one transaction of several statements at READ
COMMITTED: a statement reads what is committed, waits for a row another
transaction changed, and of two that wait for each other one is aborted. The
second writers are a joined execution and the API's re-extraction after a wrapper
is taught. The findings of an asset's code, with and without the wrapper, are
constants. `past` records what a property has to except: two executions at once,
two transactions at once.

`DiscoverStage` keeps the order look, crawl or browse, store, commit, signal of
`discover_run` and `capture_run` for a run of each kind. `BrowserCapture` is the
single thread of the driver against an external browser that carries out each
session's orders in turn and whose news arrives in order per sender. `Correlate`
matches whole sets of endpoints against whole sets of requests: paths are
sequences of segments, one of which may be a parameter, and the choice of a
winner is the code's, compared in `NeverGuesses` with the rule it states.

### The extension

The service worker runs one callback at a time, so an action goes from one await
to the next. In `CaptureUploader`, `queue`, `flight`, `timer`, `paused`, `epoch`
and `flush` are BatchUploader's fields; `flight` is a spliced batch with what has
become of it; `timer` tells a running timer from the handle of one that has fired,
which the code does not reset. `enq` holds the captures inside `processFile` that
wait for the outbox put or the dedup put. `op` is the session change or login
under way. `store`, `dedup`, `saved`, `alarm` survive `Teardown`; everything else
is read back, or not, by `Wake`, which is `initialize`. IndexedDB runs
transactions on a store in the order they were asked for: a put is a step of its
own; a delete or a clear waits for earlier puts (`Putting`, `BeforeTheClear`), and
a put asked for after a clear waits for it. A put or a delete that fails is swallowed,
as in the code (`PutOutcome`, `DeleteOutcome`). `kept`, `cleared`, `rejected`, `late`
and `stranded` are history: `stranded` holds what is in the outbox and not in this
worker, because it could not read or not delete it; `late` tells a pause that answers
an earlier login. The workspace is `SaveFiles`: an upload without a valid token
is refused; a stored batch goes to the tenant of its token and to the session of
its first file; an upload may be stored and its answer lost, which is the timeout.

In `PageCapture` each run of `processQueue` is a process of its own, because the
code lets them overlap: a timer fires while another run is at an await. Its three
writes, to the outbox, to the dedup set and of a hash to be forgotten, may fail, which
their handlers swallow (`Spoil`); `held` has the files whose put failed, and `torn`
those of them that a teardown took. `turn` is
the change to another session, `flush`, `rotate`, `adopt` in `capture-session.js`.
In `PageObservations` each `syncResponseBodyHook` is one: the chain of promises it
waits in, the read of what is registered, and the write.

### The services

`CaptureIngest` follows one request statement by statement: tenant, session, open
run, objects, rows, reply; and the seal and the message of `analyze_start`. A
request whose reply is an error, or whose process dies, is sent again. The loop
that decides which of an upload's files become versions is stated by its result
(`Admit`): the files that are fresh, each admitted while the versions it sees and the
fresh files of its url ahead of it are fewer than the cap.
`SourceIndex` has the token in Redis (`key`), the month-long and the hour-long
marker, the messages of the chain and each worker's progress through `handle`.
`ThreatModel` has the request's read and write of the row without a lock, the
task's claim, the assembled context, the link of the paid call and the storing of
its result. The write flushes only what differs from what was read (`Read`,
`ResetRow`), so a call linked in between stays; `kept` is the history of that.
`RunEvents` has the committed log; the stream it is copied to, whose entries keep their
number while `held` says which are still there, as adding one trims old ones and a
restart of Redis loses new ones; a connection that replays and then tails; and the page
with its last id, its count of failures, its checks of the status, any of which may
fail, and its late snapshots. `gap`, `forgot`, `blind` and `gaveUp` are history. `LoginLimit` has the read of the gate
before the check of the password and the count after it. `SessionRuns` takes a
host for the sequence of its labels and keeps requests, workers and the deletion
as processes over sessions, rows and objects; `declared` is history, what the
authorization of a session named. A worker on a target either fetches it, hop by hop
through the egress guard (`Hop`), or launches a crawler or a browser at it (`Launch`),
which then connects by itself wherever a page takes it (`Surf`), and whose findings are
judged one by one: by name and address for the crawler's, which are fetched next
(`ListAssets`), by name alone for the scripts a browser ran (`Capture`).

### Extraction

These modules are algorithms over small inputs, and a behaviour is one input taken
through the passes. `FindingIdentity` takes a program, a rebuild that renames what
minifiers rename, and two versions of the rules. `CrossModule` takes the assets of
a run, each a unit of bindings, object literals, exports, assignments and calls in the
order of the walk, through the pre-pass and the loop of the analyze stage and through a
re-extract, with passes that cannot read an asset. The properties of an object literal
are constants by their dotted names (`ObjectConsts`). `RouteHarvest` takes a tree of nested spans and
walks it with the two numbers the code keeps; `HarvestIsOutermost` compares that
with the definition. `ChunkEnum` takes a bundle as the nodes that matter, in the
order of the walk, and folds the function that builds a chunk's URL for each id the
bundle names, or arm by arm; which of the URLs are taken before there are too many is
left open. `NeverInvented` compares each URL with what the bundle itself would build
for that id, on bundles as webpack writes them: an alias has one builder and one public
path, a builder has one arm for an id and nothing after its return. `SecretReveal` scans
texts that differ from the stored bytes (decoded, recovered, beautified), gives the
n-th sighting of a secret the place of its n-th copy and none where it has no copy, and
rebuilds the texts for the reveal.

### SpecDiff

`SpecDiff` has the row of the session's document, its base-URL rules, the occurrences
of its endpoints and the verdicts stored for them. A task is an attach, a change of a
rule or the classification at a run's end, and each is followed statement by
statement: the document it read, the endpoints it selected, the verdicts it holds
until it commits. Beside them a run adds endpoints, finishes, fails, or has a wrapper
taught afterwards. A path is a sequence of segments, each a literal, a parameter, a
substitution or a mixture, and `Classify` is the decision order of
`classify_operation` over them. An endpoint carries the path it really calls (`real`),
which the code does not know; the assumption about it is that a path found in the
code spells the real one or the end of it.

## The runs and their bounds

| Run | Instance | Shows |
|---|---|---|
| `safety` | 2 workers, 1 API process, 2 stages, any two of a pause, a failure, a crash anywhere and a lapse | `AdvancesOnce`, `ExclusiveClaim`, `NeverStranded`, `ImplementsLifecycle` |
| `settles` | a failure and a crash at a covered point, fair | `RunSettles` |
| `stuck_queued` | one crash between claim and entry | the violation of `DeadWorkersRunSettles` |
| `uploads` | 1 script, 2 sessions, 2 tenants, 2 logins, any one of a teardown, a failing request, put or delete, a refusal and an expiry, or a teardown with an expiry or a failed read of the outbox, fair | `NothingLost`, `SentToOwnTenant`, `Drains` |
| `wrong_session` | nothing goes wrong at all | the violation of `FilesKeepTheirSession` |
| `fetch` | 2 workers, 2 assets, a map, chunks that name chunks; a lapse, or a crash and a pause | `BytesBehindRows`, `DoneMeansSettled`, `FetchEnds` |
| `analyze` | 2 workers and the API, 2 assets that share a finding, any two mishaps but a lesson with a lapse | `AnalyzedMeansFound`, `EvidenceKept`, `LessonReachesAll`, `AnalyzeEnds` |
| `capture` | 2 uploads of three and five captures, 2 requests to analyze, one mishap | `JobIffSealed`, `AckedKept`, `PopupSettles` |
| `services` | 2 indexers and an opener over 2 bundles; 2 generations; one page over three states of a run, a stream of two entries; 2 logins together; fair | `DoneIsComplete`, `EventuallyIndexed`, `OneGeneration`, `GenerationEnds`, `Gapless`, `PageSettles`, `GuessesBounded` |
| `findings_judged` | 2 classifications at a time and 3 in all, one run, 2 of 3 rules at a time, 3 documents of which one is refused, one lost transaction, 5 endpoints; a page and a worker target; 2 discoverers for each kind of run; every 2 endpoints against every 2 requests; the listed bundles | `NoFalseShadow`, `VerdictsCurrent`, `NoScriptMissed`, `DiscoveredMeansSeeded`, `NeverGuesses`, `NeverInvented` |
| `records` | one request, one worker and a deletion, with one crash or failed call; every path of up to three segments; 3 scripts, 2 processors and a failing write; 2 requests and 2 hook syncs; the listed crawls, trees and texts | `NoDangling`, `PurgeComplete`, `OnlyDeclared`, `SameCodeNoDiff`, `SeenIsKept`, `HookFollowsScope`, `UrlsAreTheirs`, `HarvestIsOutermost`, `FoundIsRevealed` |
| `unresolved_shadow` | one document, one rule, nothing goes wrong | the violation of `UnresolvedIsNoShadow` |

Three runs, `services`, `findings_judged` and `records`, check several modules that
share no state. `Services`, `Findings` and `Records` compose them: `part` names the
module a behaviour is of, that module's actions move its own variables and leave
the others as they began. A state is then a state of one module, so the cost is the
sum of the instances and not their product, and a property of one module is what it
would be alone. The theorems say so: each is stated of the module's own specification
and of every behaviour of the composition (`AnySpec`). `MCServices`, `MCFindings` and
`MCRecords` only give the constants their values.

The bounds, and why they are enough:

- *Two of each actor.* Workers, uploads, requests, processors, generations:
  every property relates one process to one that comes late, or beside it. The
  proofs hold for any number.
- *Accidents by kind.* Each module counts what its environment may still do
  (`Envelope`, `Budget`, `Trouble`, `Failures`, `Hitches`, `Upsets`, `Accidents`,
  `Bounds`, `Deaths`, `MaxFaults`, `MaxUpsets`), and a run starts from each listed combination.
  Two at a time reach what the comments of the code worry about: a crash while
  retrying, a lapse while pausing, an evicted key during a deletion.
- `Envelope` in `uploads`: any one accident, and a teardown with what the next start
  may meet, a token that has expired or an outbox that cannot be read. Those are the
  pairs in which a worker starts without what a start gives it; all pairs are more
  states than a run can afford.
- `Hitches` in `services`: a pause; a lost message with a broken connection or a failed
  request; a broken connection with a restart of Redis; or three broken connections,
  which are the third failure in a row. `Cap` two of the three to five entries of a run: the stream is
  trimmed while a page is away.
- `Spoils` one: one of the swallowed writes of a capture fails, and a teardown may
  follow.
- `StageOrder` the first and the last stage: a first stage is entered from
  queued and has a successor, a last one is finalized; those between behave as
  both.
- `MaxJobs`, `MaxEntries`: two stages need two jobs and two entries. The third
  lets a resume create a job, or a retry, a duplicate or a resume publish; five
  entries in `settles` let every retry of the instance be published. Where the
  bound is reached the publisher waits, which can hide a behaviour in `safety` but
  not invent one. `MaxAttempts` two: one retry and one dead letter.
- `CrashAt`: the points a process may die at; `AnyPoint` in `safety`. For
  liveness `CoveredPoint` takes out the points between two commits nothing
  reconciles; they are under "Known behaviours".
- `BatchSize` two (five in the code): a batch may be full, partial, and hold files
  of two sessions. `MaxLogins` two: a login again, and one of another tenant.
- `MaxAssets` three of four urls, so the budget of chunks is reached;
  `RetryAttempts` one.
- `MaxVersions` one against three captures of one url: the cap on versions is
  passed in every order.
- `MaxAttempts` two with two callers and `MaxOfAll` three: both limits are reached,
  by requests in flight together.
- `MaxFiles`, `MaxBytes`, `InlineCap`, `BodyTotalCap`, `ObservationCap`,
  `MaxScripts`, `MaxNodes`, `MaxWritten`, `MaxUrls`, `MaxUrlLen`, `MaxFold`, `MaxArms`,
  `MaxTemplate`, `MaxBody`: each small enough that something goes over
  it.
- `MaxSpan` and the list of spans: a builder longer than the longest allowed one,
  spans that nest, touch at their beginning and stand apart; every way up to four
  of them nest.
- The endpoints of the spec diff in `findings_judged`: one without its base, with it, with a variable for
  it, one whose segments repeat and one of another protocol; the documents have the
  base in a server's variable or in the path, and one has the bare tail for another
  method. Rules are a prefix that helps, one that misleads and a selection. Three
  tasks are the least in which one is alone after two that overlapped.
- Symmetry: workers, scripts, tenants, processors and tasks are interchangeable; runs
  with liveness properties use no symmetry. In `uploads` the first tenant to sign in is
  called `tA` (a constraint, `FirstIsA`): the behaviours it leaves out are those where
  the two tenants' names are swapped. No action, fairness condition or property of
  `CaptureUploader` tells the names apart, and signing in is never fair, so the
  constraint cuts off no step that a behaviour owes.

Deadlock is not checked: a run that has settled, a stage that is done, or an
extension nobody uses any more, rightly stops.

Some properties name what they except, because the code is not built to
prevent it: `AnalyzedMeansFound` counts coverage once only while executions do not
overlap; `EvidenceKept` needs the transactions to come one after another;
`OneGeneration` holds unless a row is reset under a generation at work, and what it
says of a waiting row's call unless a trigger reset it over a call linked since its
read; `Gapless` names the entries that were trimmed or went with a restart of Redis
before a connection read them, and excepts a page one of whose connections found
nothing to replay; `PageSettles` a watch that ended on a failed status request or the
third failure in a row; `Drains` what a worker could not read back or delete, and a
pause by a late answer to an earlier login; `SeenIsKept` a content whose put in the
outbox failed before a teardown; `OnlyDeclared` is about the fetcher's connections, and
of the crawler and the browser about where they are sent and what is kept of them;
`PopupSettles` unless a process died between the seal and the message;
`NoScriptMissed` unless a context ended before it was known; `NoFalseShadow` unless a
rule gave the call a base it does not have; `VerdictsCurrent` unless classifications
overlapped, one failed, or a run ended without one; `UrlsAreTheirs`, of what is
invented, is about names of the unit itself, except a property of an object that is
assigned; `NeverInvented` is of bundles as webpack writes them. What happens in those cases is under "Known
behaviours".

## Fairness

*Pipeline.* Workers poll for ever and a stage ends, so `Serve` and `Proceed` are
weakly fair for each worker (`serve_forever` loops and restarts after errors); an
API process that has begun to enqueue carries on; a lease that nobody renews
lapses, which is the clock. Nobody has to pause, cancel or resume, nothing has to
fail, and no crash is forced.

*Fetch and analyze.* A worker starts what the pipeline gives it and a paused run is
resumed. An execution of the fetch stage is strongly fair: it polls for the
politeness key, which expires, and so it gets the key if it is free again and
again. A write of the analyze stage is strongly fair because a statement that
waits for a row lock is queued by the database and is granted the lock when it is
released; the rest of an execution is weakly fair.

*Capture ingest.* Requests are served and sent again by the extension, and the
run's job is worked on.

*Services.* Slices are handled and openers go on; the chain's key and the hour of
a retry expire. Tasks of a generation run, a request that finds the row stale is
made again, and time passes. Of a run's events: the run advances and is resumed,
a connection replays, tails and keeps alive, and the page connects, reads and
polls. No event has to be published.

*Extension.* Timers, alarms and promise callbacks run; an upload is answered, if
only by its 30 s timeout; a browser that is used wakes the worker. Nobody has to
sign in and nothing has to be captured, so `Drains` assumes that from some moment
on the current login is valid. It need not be reached while the uploads are paused by a
late answer to an earlier login, which only a new login, a tenant switch or a restart
ends, and none of these has to come; nor of entries the worker could not read back or
not delete, which the next worker reads and no fairness brings.

`Services` takes each module's fairness for the behaviours of that module.

## What is proved

For every value of the constants, from the named assumptions: `StageOrderAssumption`
(a sequence of distinct stages, none of them a terminal or held state) and
`BoundsAssumption` (the bounds are numbers) for the pipeline, `FetchAssumption` for
the fetch stage, `AnalyzeAssumption` for the analyze stage (each asset's findings
are findings, the input of a run without rows is never one the analysis chokes on,
and the request is no worker), `UploaderAssumption` for the uploader (the bounds are
positive, and no tenant is called what stands for having none), `CaptureAssumption`
(no content is called what marks the first row of a url), `ServicesAssumption` (each
module's bounds are numbers; a bundle is listed once; a finite set of callers for the
login limit), `SpecDiffConstants` (what is taken of the endpoints, and that only
endpoints are recorded) with `FindingsAssumption` (bounds and lengths are numbers, a
script's document has a number; there is a bundle, and a parse gives lists of nodes,
arms and statements), and `RecordsAssumption` (bounds are numbers, a batch may hold a
file, there is a first session; an asset without a map has no originals; a call site is
one place of the program, with one URL; the nodes of a unit are finitely many, and of
two of them one is in the other or they are apart, which is what a syntax tree is).

| Theorem | States | Along |
|---|---|---|
| `RunPipelineProofs!TypeCorrect` | `Spec => []TypeOK` | `IInv` |
| `RunPipelineProofs!AdvancesAtMostOnce` | `Spec => []AdvancesOnce` | `IInv` |
| `RunPipelineProofs!SettledForGood` | `Spec => SettledJobsStay` | `IInv` |
| `RunPipelineProofs!ClaimIsExclusive` | `Spec => []ExclusiveClaim` | `IInv`, `ClaimInv` |
| `RunPipelineProofs!PipelineImplementsLifecycle` | `Spec => ImplementsLifecycle` | `IInv`, `OInv` |
| `RunPipelineProofs!NeverLeftStranded` | `Spec => []NeverStranded` | `IInv`, `ClaimInv`, `OInv`, `EntryInv`, `FreshInv`, `CarryInv` |
| `FetchStageProofs!RowsNeverAhead` | `Spec => []BytesBehindRows` | `FInv` |
| `FetchStageProofs!DoneIsComplete` | `Spec => []DoneMeansSettled` | `FInv` |
| `AnalyzeStageProofs!AnalyzedIsFound` | `Spec => []AnalyzedMeansFound` | `StageInv`: `NoneSkipped`, `AnalyzedOK`, `CountedOnce`, `RowsFirst` |
| `AnalyzeStageProofs!EvidenceIsKept` | `Spec => []EvidenceKept` | `StageInv`: `EvidenceInv` |
| `AnalyzeStageProofs!LessonReaches` | `Spec => []LessonReachesAll` | `StageInv`: `FetchInv`, `LessonInv` |
| `CaptureUploaderProofs!UploaderTypes` | `Spec => []TypeOK` | `TInv` |
| `CaptureUploaderProofs!OutboxKeeps` | `Spec => []NothingLost` | `TInv`, `LossInv`, `OwnerInv` |
| `CaptureUploaderProofs!TenantsApart` | `Spec => []SentToOwnTenant` | `TInv`, `LossInv`, `OwnerInv` |
| `CaptureIngestProofs!OneJobPerSeal` | `Spec => []JobIffSealed` | `JInv` |
| `CaptureIngestProofs!StoredIsKept` | `Spec => []AckedKept` | `JInv`, `KInv` |
| `ServicesProofs!GuessesStayBounded` | `[]GuessesBounded` | `LimitInv` |
| `ServicesProofs!OneGenerationAtWork` | `[]OneGeneration` | `ThreatsInv` |
| `ServicesProofs!MarkedDoneIsComplete` | `[]DoneIsComplete` | `IndexInv` |
| `ServicesProofs!NoEntryIsMissed` | `[]Gapless` | `EventsInv` |
| `FindingsProofs!NoShadowIsFalse` | `[]NoFalseShadow` | `SInv` |
| `FindingsProofs!VerdictsAreCurrent` | `[]VerdictsCurrent` | `SInv`, `VInv` |
| `FindingsProofs!EveryScriptIsCaught` | `[]NoScriptMissed` | `BrowserInv` |
| `FindingsProofs!ADoneStageIsSeeded` | `[]DiscoveredMeansSeeded` | `DiscoverInv` |
| `FindingsProofs!AmbiguityIsLeftAlone` | `[]NeverGuesses` | `MatcherInv` |
| `FindingsProofs!NoUrlIsInvented` | `[]NeverInvented` | `ChunkInv` |
| `RecordsProofs!ScopeIsHeld` | `[]OnlyDeclared` | `TInv`, `DInv` |
| `RecordsProofs!RowsHaveTheirBytes` | `[]NoDangling` | `TInv`, `BInv` |
| `RecordsProofs!PurgeLeavesNothing` | `[]PurgeComplete` | `TInv`, `BInv`, `CInv` |
| `RecordsProofs!WhatIsSeenIsQueued` | `[]SeenIsKept` | `PageInv` |
| `RecordsProofs!HookIsInScope` | `[]HookFollowsScope` | `HookInv` |
| `RecordsProofs!RevealShowsTheFound` | `[]FoundIsRevealed` | `RevealInv` |
| `RecordsProofs!HarvestIsTheOutermost` | `[]HarvestIsOutermost` | `WalkInv` |
| `RecordsProofs!SameCodeShowsNoDiff` | `[]SameCodeNoDiff` | `IdentityInv` |

The theorems of the last three modules are each of the module's specification and of
the composition's.

Why the inductive invariants are what they are:

- **Advancing once.** `AdvancesOnce` says that no two jobs have the same parent, and
  a step that creates a child must know that there is none yet. What guarantees it
  is a token. Finishing a job is a conditional update that one worker wins, and
  from then on that worker, alone, stands between the finish and the creation of
  the child. `WalkInv` says so: a worker about to create the next job works for a
  job that has succeeded, is not the last of the walk and has no child; no two
  workers are about to create a child of the same job; a job with a child has
  succeeded. A crash destroys the token, and the job stays childless. Only
  `Finish`, which issues it, and `CreateNext`, which spends it, need a proof of
  their own; one lemma (`SteadyKeepsWalk`) deals with every other action.
- **The exclusive claim.** While no lease has lapsed in live hands, a job that is
  worked on is running on a good lease (`ClaimInv`): it cannot be claimed, and only
  its holder settles it.
- **The refinement.** A job, the stage to resume from and a stage about to be
  enqueued each come after stages that are all complete (`OrderInv`); completed
  stages stay complete because a job that has succeeded stays so. A worker at
  `finalize` has finished a job of the last stage, and a worker or reaper that stops
  the run asks only for a pause, a cancel or a failure (`StopInv`). Then each step
  is one of `RunLifecycle`'s or leaves its two variables alone.
- **Never stranded.** `NeverStranded` asks for anything at all that is still under way,
  and is not inductive: a message may be in the queue only to be acknowledged and
  dropped. `CarryInv` says what really carries an active run on: an API process
  about to enqueue; a job that is running, or one to be claimed that has a message
  nobody is about to acknowledge (`Messaged`); or a worker that is about to create the
  next job or to end the run, and has read the run as it is (`Settles`). A job counts
  only if its end is not lost on the run (`Fit`): there is a next stage, or the run
  is at the job's own, or those at work on the job have yet to enter its stage, which
  moves the run or is refused. This is where a pause and a resume come in: they move
  the run under a worker of an older job, whose last words are then refused. Two more
  facts are needed. The message a worker acknowledges is that of the job it has
  settled (`EntryInv`); and a run that is still queued has only its first job, whose
  worker cannot be refused (`FreshInv`), because from `queued` no worker could end it.
- **The fetch stage.** `StoredFirst` carries the order of the commits: what an
  execution is about to name is stored. `NoneSkipped` says that what is not settled
  is still ahead of every execution, in its snapshot or in its hands, and this is
  what makes "done" true whichever execution says it, because rows are only settled
  and never unsettled. A run of one file has no rows (`Single`); it is a case of its
  own.
- **The analyze stage.** What has no verdict is ahead of every execution (`NoneSkipped`),
  and a transaction holds what is stored and what is not of exactly the asset it has in
  hand (`ExecOK`), so the commit that writes the verdict has stored all of the asset's
  findings. Without an overlap one execution works through assets none of which has
  been counted (`CountedOnce`). A row is inserted before an occurrence of its finding in
  the transaction that stores both, and rows do not go (`RowsFirst`). For the evidence,
  a lone transaction starts from what is stored and only adds to it, from the read of a
  row to the write that merges it (`EvidenceInv`); with two open at once this fails, as
  the second may overwrite what it has not read. For a lesson, an asset has what the
  wrapper reveals, or the request has it ahead, or the asset has no verdict and every
  running execution of the stage knows the wrapper (`LessonInv`). When the request lists
  what is fetched, what it leaves out is not fetched yet, and then no execution of the
  stage has begun (`FetchInv`), so every one to come loads the wrapper first.
- **The uploader.** What is taken out of the outbox has been answered or dropped. A
  batch that is about to be forgotten was stored or refused, unless it left before the
  last clear; then all of its files were dropped by that clear, whatever has become of
  the upload since (`LossInv`, by the epoch the batch carries). A clear deletes what
  was in the store when it was asked for, and what arrives later waits for it
  (`op.wipe`). For the tenants, `OwnerInv` says whose a file is: a batch leaves under
  the token of the tenant all of its files belong to, or it is one of an earlier
  session, none of whose files are at hand any more. This is why a late answer of the
  old login does no harm to the new one: the code puts a failed batch back only if its
  epoch is still the current one, and sessions end at a switch, so that a file of the
  old tenant and a file of the new one are never the same. A delete that fails leaves the
  outbox as it is, so it can only keep more.
- **What a reply called stored.** A run that is gone stays gone, because ids are not
  reused: so a sweep after a deletion meets no row, and an upload that comes late to a
  deleted run adds none (`PurgeOK`, `RowsOK`). An upload has its objects before its
  rows, its rows before its reply, and what it has in hand in between is of its own run
  and its own files (`UploadOK`). A file it is about to call stored is a row it sees,
  one it has inserted or one it is about to (`AdmitHolds`); if another upload commits
  that key first, the row holds the same bytes, because the key of a version is its
  bytes (`KeyHolds`). Every step only adds rows and objects of runs that are there or
  takes a run with all of its rows (`Grows`), so one lemma carries over what the other
  requests have in hand.
- **The seal.** Ids are never reused, so a run found by its id is the run that was
  meant (`RunsWellFormed`); without this the seal could clear the marker of one run
  and give another its job.
- **Sessions.** A scope is written once and never widened, so what was in scope when a
  worker judged it stays in it: a connection, the target of a crawler or a browser, and
  each host of which something is kept (`DInv`). Who is about to point a row at an object has stored
  it, and a sweep works only on runs whose rows are gone (`BInv`). Bytes belong to a
  run that is there, being swept or excused, and whoever may still store bytes
  stores for such a run (`CInv`): the deletion excuses exactly those.
- **Shadows.** What is classified spells the real path or the end of it
  (`ClassifiedSpells`: a base is only prepended, a variable only dropped), and such a
  path finds its document at the exact match or at the shared tail, both of which come
  before a shadow (`SpelledIsNoShadow`). A verdict names the document it is of, so it
  stays true whatever overlaps; `SInv` says it of verdicts stored and of verdicts held.
- **Current verdicts.** A task that is alone has the others at rest, because every task
  that begins disturbs them; and outside a run what it has read is what there is
  (`AloneInv`), because only a run's stages and a late wrapper add findings, and the
  end of a run and the wrapper disturb every task. So the commit of a task that was
  alone makes the verdicts current. They are current already while only an attachment
  is at work (`CurrentInv`): its rollback leaves what there was.
- **The login limit.** What was tried is counted, about to be counted, or was lost
  to a failing call (`Accounted`); and the tries still to come count against the
  bound from the moment they pass the gate (`WithinBound`).

- **One generation.** Nothing forbids two generations at work but what a claim sees, so
  the invariant is about the row: unless it was reset under a generation at work, only
  the last to claim it works, the link of a paid call is its own, and a row that may be
  claimed has nobody at work and no call (`LastAtWork`). The row's call is as said only
  while no trigger has flushed a row over a call linked after its read (`kept`); that one
  call is made at a time, and what a finished row shows, holds all the same, because the
  generation that claims the row links its own call over the one that stayed. `overrun` has to be said of any
  generation at work when the row is reset, not only of one past its paid call: with the
  weaker history the invariant is not inductive, and the property is false.
- **The index.** What a slice has done is stored, whatever else is lost: the invariant
  says of each program counter which bundles have their text and their list (`SlicesOK`),
  so a slice that marks the run has seen them all stored. A deletion makes it vacuous
  and does not come back.
- **Events.** Unless a connection found nothing to replay, what is on its wire is all
  that follows the page's last id up to the cursor, but for the gap (`Followed`): what is
  published is after the cursor, the least on the wire arrives first, and what is lost
  with a connection is asked for again from the last id. An entry that is no longer in
  the stream has as many newer ones as the cap, or is no newer than the last restart
  (`StreamOK`), and so is whatever a connection skips.
- **The browser.** A target is watched before its own queue lets it go: the order to
  release comes after the order to enable, in each session's orders (`OrdersOK`). A
  script's source is asked of a document that is there, or the script is excused
  (`NewsOK`). So a script that has run is parsed news under way, pending, captured or
  excused, in every state (`ScriptsKept`), and at the end of the driver nothing is under
  way.
- **Discover.** Rows are only added, so the manifest last recorded stays seeded
  (`LastOK`); what an execution has in hand is seeded from the commit of its rows on
  (`FinderOK`), and it is the rows that are committed first.
- **The matcher.** In a first execution what is resolved is a function of what was read,
  and neither changes until it has written (`FirstExecution`).
- **The page's queue.** A run about to mark a content as seen has handed it to the outbox
  or, if the put failed, to the worker's memory, under the session it was stamped with,
  and what was handed on is in `sent`, `held` or `torn` ever after (`Handed`); one about to leave saw an empty queue, and a file
  that arrives after that starts a timer (`NothingForgotten`).
- **The hook.** The chain of promises lets one sync at a time read and write (`HookInv`):
  what it read is what is registered, and while anything of the settings is not in the
  browser either it waits to be stored, or a sync waits, or the one at work wants it.
- **The reveal.** A sighting names the place of the text that was scanned, and the place
  found again is the least that has the same fingerprint in the same coordinates
  (`Traced`); a lost object means a fault has been spent. A sighting without a place is
  of an encoded secret that its text has no copy of (`FirstIsPlaced`, `NoPlaceNoCopy`):
  what is in the text as it is reported has a least copy, which is the first sighting's.
  A scan stores every sighting of its text (`WholeScan`), so a finding without any place
  was encoded in all of them. Originals of an inline map are
  refused by name.
- **The harvest.** Recorded spans are merged in the order of their beginnings (`Extend`),
  and what comes out is in order, apart, and around every one of them, and no merged span
  begins or ends but where a recorded one does. The walk passes nodes in order of
  beginning: no merged span behind the pointer reaches a node to come, and the end it
  keeps is the greatest of the builders passed (`WalkInv`). So its two numbers decide
  "inside a recorded sink" (`ClaimedIsInside`) and "inside a builder" (`OpenIsOutermost`),
  as spans nest or are apart.
- **The chunks.** What is still to be looked at is one of the bundle's own URLs too
  (`ChunkInv`), so it is enough to show what the two folds give. A template is all its
  function returns, and an id that a map does not give is skipped (`TemplateBuilds`); an
  arm that names an id is the one that id takes, because no other names it and nothing
  before it returns (`ArmIsTaken`, `ArmsBuild`). Without "nothing after its return" an
  arm that is never reached would be enumerated.
- **The identity of findings.** A row that names a call site has been written with all
  the rows of that site, and rows are only added (`IdentityInv`), so a run that has
  every site has exactly their keys. What differs between builds is the names in
  substitutions: one that is a whole segment after a literal is a parameter by position,
  whatever its name (`NamesAreNoIdentity`). A v2 key kept the substitution, and templating
  it now gives what templating the URL gives (`RewrittenPath`); it had no rows by
  position, which the diff carries, and one for the query key made up at run time, which
  nothing rewrites (`RewrittenKeys`).

Recursive functions over data (`MergeSpans`, the texts flattened for a reveal) are
treated by least counterexample: of the least prefix that lacks a fact, the one before
has it (`LeastPrefix`). Sorting is shown to exist by the rank of each element
(`PlacesAreTaken`).

Only model-checked: liveness (`RunSettles`, `Drains`, `FetchEnds`, `AnalyzeEnds`,
`PopupSettles`, `EventuallyIndexed`, `GenerationEnds`, `PageSettles`), which the prover
cannot treat; and one invariant, `UrlsAreTheirs`. What it says is computed by folds over
the bindings of a unit and by a fixpoint over its constants, and compared with a second
fixpoint: a proof is an induction over each of them. For every value of the constants it
would also need to say of a build what TLC's crawls have by construction, that no two of
its chunks give one export of a module id two values.

## Where the code and its documents disagree

Three runs end in a violation on purpose. Each checks what a comment says;
`PROJECT.json` quotes it under "findings".

- `stuck_queued`: a worker that dies between the claim and the entry of the first
  stage leaves a queued run, which the reaper is not allowed to fail
  (`worker/main.py:330` promises to settle it).
- `wrong_session`: a batch may hold files of two sessions, and the workspace stores
  all of them in the session of the first (`ext/background.js:1387` says unsent
  files keep their own).
- `unresolved_shadow`: a rule that selects a call whose base is a variable puts its
  base before the variable, which then counts as a path parameter, and the call
  becomes a shadow of the document that has it (`spec/classify.py:12` says a path with
  an unresolved base cannot).

## Known behaviours

What the code does, by the models' account of it, that a reader of its comments
might not expect. Some are what a property excepts; the others no property
contradicts.

*Pipeline*

- A pause and a resume alone can fail a run: the job claimed before the pause stays
  running with a lease; once it lapses, the reaper takes it for the work of a dead
  worker and fails the resumed run (`worker/main.py:352`).
- A run paused while its first message is queued, then resumed, has two jobs of the
  first stage and walks its stages twice; the gates are per job
  (`runs/coordinator.py:397`).
- A cancel between a worker's read of the flags and its pause leaves the run paused
  with the cancel outstanding (`worker/main.py:146`).
- Five windows between two commits are reconciled by nothing: a job row and its
  message (`runs/coordinator.py:97`, which says so), a finished job and the next
  (`worker/main.py:193`), a ZSET member and its stream entry (`queue/streams.py:119`),
  a dead job and its run (`worker/main.py:337`), a claim and the stage's entry. A
  reaper whose transition is refused leaves an active run without a message
  (`worker/main.py:366`).
- With nothing pending a stream is trimmed to its last thousand entries, read or not
  (`queue/streams.py:195`).

*Events and threat model*

- A connection replays what is left in the stream and says nothing of what is not: a
  page misses, for good, what was trimmed while it was away or went with a restart of
  Redis (`api/runs_router.py:318` says so).
- A watch ends, on whatever state is shown, when the status request after a clean close
  fails (`web/features/progress/runData.tsx:287`), and on the third failure in a row:
  what `web/api/sseClient.ts:10` calls polling is one last refresh, whose failure leaves
  the page where it was.
- A trigger that resets a failed row writes only the columns that differ from what it
  read. If it read no call, and another request's generation linked one and failed in
  between, the waiting row keeps that call (`threat_model/service.py:360`, which says
  the UI must not show the previous run's numbers).
- A page that connects before the first event tails from `$`; an event published
  between the empty replay and the tail is missed (`events/stream.py:5`,
  `api/runs_router.py:332`). `Gapless` excepts it; `PageSettles` does not.
- A late refresh of the page overwrites newer findings with those it asked for
  earlier (`web/features/progress/runData.tsx`).
- A threat model that is reset after five minutes while its generation is at work
  may be paid for twice (`threat_model/service.py:406`), and a failure to store
  results leaves the row running until then, against the module's line 8.

*Fetch, discover, capture*

- A pause while chunks are enumerated ends the enumeration for good: the asset is
  settled before (`fetch/fetch.py:774`).
- A browser that dies between two news items ends a capture with what was parsed
  (`capture/driver.py:478`); one that dies during an evaluation or a send raises.
- A death between the manifest and the fingerprint signal loses the signal; a second
  capture after a lapsed lease adds rows and a second `discover.assets` event.

*Analyze and extraction*

- Two transactions that merge into one finding from the same read keep the evidence
  of the later one only (`findings/store.py:224`); `EvidenceKept` excepts it.
- An outage that is not the store client's error becomes a verdict of its asset and
  not a retry (`findings/analyze.py:376`).
- Versions of an asset that arrive after its run was sealed are in the next run.
- A URL can be invented: where a property of an object literal is assigned, also through
  another name of the object, and its first value is folded
  (`findings/_base_env.py:202` says it is not tracked); where a local name shadows an
  import (`findings/_base_env.py:374`), where an exported `let` is reassigned, and where two
  builds share a recovered path (`findings/_modulegraph.py:10`).
- A re-extract reports an import it could resolve before as unresolved when its
  pre-pass lost the asset (`findings/reextract.py`).
- A chunk's URL can be invented where a bundle is not as webpack writes it
  (`findings/chunkenum.py`): the first literal public path is taken though a later
  assignment replaces it (`338`), the first builder that folds though a later one
  replaces it, a second arm for an id already tested, and an id an object of the same
  short name is asked for (`298`).
- A builder longer than 8192 bytes claims nothing, so its pieces are harvested.
- `wrapper` is the one attribute of `_merge_attributes` that depends on the order of
  the sightings. Against a base of the older identity, a diff shows path parameters
  and query keys of templates as gone; a rebuild that renames a substitution inside a
  value makes a new finding (`findings/normalize.py`).
- A secret whose first sighting is an original of an inline map is refused as
  "integrity" though another sighting would show it (`probe/reveal.py:164`); any
  error of the store reads as a lost source.

*Correlate and source index*

- A redelivery of correlate is not "a free no-op" (`correlate/stage.py:13`): endpoints
  that have been given a host leave the match, and a request that was ambiguous
  between one of them and another now goes to the other; `NeverGuesses` is of one
  execution. A death between its commit and the analysis of bodies loses their
  hints. Two methods of one URL share what is resolved for it.
- `handle` may raise: the last write of the status is outside its `try`.

*Spec diff*

- Classifications that overlap leave the verdicts of the one that commits last, which
  may be of the document or the rules before (`spec/service.py:114`); a rule whose
  classification fails stays without one (`spec/base_url_service.py:82`). A run that
  fails, is cancelled, or whose worker dies after the transition
  (`runs/coordinator.py:366`), and a wrapper taught after the run's end, leave their
  endpoints without verdicts until the next classification.

*Sessions*

- A deletion races whoever is still storing for its runs: their bytes are left, as
  are those of a run made between the collection and the commit
  (`sessions/service.py:310`); `PurgeComplete` excepts both.
- An edited re-run is not told at once that its target is out of its scope; the
  worker refuses it. The crawler and the browser resolve names and follow what a page
  loads by themselves: only their target is judged before they start
  (`discover/crawl.py:9`, `capture/stage.py:11`, which accept it), so a run may connect
  to hosts outside its scope and to private addresses. A re-run read between an upload's row and its input takes the
  base URL for a target to crawl. What the extension calls its display scope is what
  `POST /runs` checks, once it has seeded an empty one.

*Extension*

- After a failed read of the outbox the alarm stays armed, but its handler only sends
  what is in memory (`ext/background.js:311`): nothing reads the outbox again before the
  next start of the worker, and delivering one new file clears the alarm that may bring
  that about (`ext/modules/batch-uploader.js:146`, `250`). An entry whose delete failed
  stays until then too, and is sent again. A late 401 pauses the uploads under a valid
  login (`219`).
- A put in the outbox that fails is swallowed (`ext/modules/batch-uploader.js:71`), and
  the content is marked as seen all the same (`ext/background.js:642`): a teardown then
  loses it for good, which is what the comment at `ext/background.js:631` means to
  prevent.
- A capture that waits through the flush of a session change is stamped with the new
  session (`ext/modules/capture-session.js:62`); the body of a response that began in
  the old session lands in the new one; a delete of an old hash can be overtaken by a
  put that is under way (`ext/background.js:588`).
- A worker that ends after a dedup put and before its imports are queued never
  follows them. A restarted one may skip what its dedup store has seen and this
  session has not captured. The observations one restart can lose are not bounded by
  one eager save.

## Not modelled

*In the pipeline:* the choice of queue by a stage's input, trimming, the length of the
backoff, the worker's heartbeat file.

*In the stages:* the crawler and the browser (external); what a fingerprint says; the
length of waits; the patterns by which calls, secrets and technologies are
recognised, and parsing, which is tree-sitter's; the shapes of correlated bodies.

*In the extension:* a clear of the outbox that fails; a settings write
that fails during a login; a token that the local clock misjudges; a 403 under a
valid token; counters, notifications, history, the engagement binding and the capture
filters; more than one flush or one popup request at a time.

*In the services:* tokens and their signature, row-level security (every actor of a
module but the uploader's is of one tenant), the catalog and settings of language
models, confirmations of a bulk deletion.

*In the spec diff:* the parsing and validation of a document beyond which guards it
passes, the matched operation, the counts of a summary and their event.

*Not at all:* engagements;
reads that change nothing, such as the findings, sources and search queries; host and
technology tables, which classify one input at a time; migrations, packaging and test
targets; the views of the web application beyond the page that follows a run. Each is
rows without a protocol, a function with no order in it, or an external program, and
a unit test reaches what can go wrong in them. `PROJECT.json` gives the reason for
each component.

## What could come next

- `EventuallyIndexed`'s safety half (one message owns the chain) and `UrlsAreTheirs` as
  theorems.
- A module of the broker with its order of ids, trimming and backoff, as the reason
  for what `RunPipeline` assumes of delivery.
- The composition of `PageCapture` with `CaptureUploader`, and of `CaptureUploader`
  with `CaptureIngest` in place of `SaveFiles`.
