# Audio Cue Locator: verification project

Audio Cue Locator is a local service that finds where short audio *Cues* occur
in a *Target* recording. A client uploads the media as *Assets*, creates an
*Analysis* that references them, and polls until the Analysis is terminal. The
service is one Python process: FastAPI request threads, a pool of executor
threads and a periodic maintenance thread share a SQLite table, a directory of
files and a few locks. A web page polls the Analysis, shows its Result and plays
excerpts. This project models the parts of the code in which threads, crashes
and restarts, or the callbacks of the page, meet, and the search that an
Analysis runs; the modules are translated from the source under `src/`, and
every definition is mapped to its lines in `PROJECT.json`.

## 1. The system

| Component | Source (`src/src/audio_cue_locator/`) | State | Operations |
|---|---|---|---|
| Analysis lifecycle | `core/analysis_lifecycle.py` | none | closed states, transition table |
| Analysis repository | `infrastructure/analysis_repository/sqlite_repository.py` | table `analyses` and its child tables; one connection per thread | `create`, `get`, `transition`, `list_by_state`, `add_owned_asset` |
| Asset storage | `infrastructure/asset_storage/local_filesystem_storage.py` | a directory, one file per Asset | `ingest`, `read`, `delete`, `list_entries` |
| Retention policy | `infrastructure/asset_storage/retention_policy.py` | none of its own | `cleanup_expired_assets`, `cleanup_orphaned_assets` |
| Maintenance coordinator and worker | `interfaces/rest_api/app.py` | a lock, reservation counts, a thread and a stop event | `reserve`, `maintenance_snapshot`, `_run_one_cycle` |
| Create use case | `application/create_analysis.py` | none | reserve, read, validate, persist, submit |
| Executor | `infrastructure/execution/local_analysis_executor.py` | FIFO queue and threads of a `ThreadPoolExecutor`, Results in memory | `submit`, `_claim_and_run` |
| Startup recovery | `infrastructure/execution/restart_recovery.py` | none | fail every RUNNING row |
| Query use case | `application/query_analysis.py` | none | status, Result, auditions |
| Composition root | `interfaces/rest_api/app.py` | the process | recovery, start-up cleanup, serve, stop |
| Upload routes and ingestion | `interfaces/rest_api/asset_routes.py`, `application/asset_ingestion.py` | bytes received so far | declared length, bounded stream, form, format sniffing, ingest |
| Analysis routes, schemas, errors | `interfaces/rest_api/analysis_routes.py`, `schemas.py`, `errors.py` | none | validate a request, turn exceptions into statuses |
| Matching | `infrastructure/acoustic_matching/`, `application/multi_cue_orchestration.py` | locals of one call | slice the source, correlate, select occurrences, one outcome per Cue |
| Media processing | `infrastructure/media_processing/` | none | FFmpeg child process |
| Web UI polling | `src/webui/src/hooks/useAnalysisPolling.ts` | hook state; a closure per run of the effect: cancelled flag, timer, interval, failures | poll, back off, give up, clean up |
| Web UI Result card | `src/webui/src/pages/ResultPage.tsx` | Result state, collapsed Cues; playback version, target, controller, element, URL | fetch the Result; start, stop and dispose an audition |
| Web UI submission | `src/webui/src/pages/NewAnalysisPage.tsx` | form state | upload, create |

### How the parts interact

- A create request enters `with coordinator.reserve(ids)`, reads each Asset,
  inserts a QUEUED row and leaves the block; afterwards, outside any
  transaction, it calls `executor.submit`.
- A pool thread claims a row by the transition QUEUED -> RUNNING, matches, puts
  the Result in an in-memory store and writes the terminal state.
- The maintenance thread holds the coordinator's lock for a whole cycle: it
  snapshots the reserved ids, then runs both cleanup passes. A pass reads the
  table with **four separate SELECTs** (`_all_records`, one per state), selects
  candidates and, before each deletion, reads the table again.
- Only the table and the files survive the process. Start-up fails every
  RUNNING row, runs both cleanup passes without a snapshot, and then serves.
- A create request checks the search window of each Cue in seconds
  (`create_analysis.py`); the executor slices by it in samples
  (`multi_cue_orchestration.py`). The two never call each other.
- Every thread that touches the table opens a connection of its own; a call is
  BEGIN IMMEDIATE, SELECT, validation, UPDATE, COMMIT on it, over the locks of
  one SQLite file.
- The upload handlers are coroutines of one event loop and yield only while they
  wait for the body; the maintenance thread lists the directory meanwhile. The
  ASGI lifespan starts and stops that thread.
- An audition reads the Assets of a finished Analysis once more, without a
  reservation, and computes the length of a Cue by code of its own.
- The page polls the status. When it becomes SUCCEEDED, an effect requests the
  Result; its buttons request audio. All answers come through promises that
  the page may have lost interest in.

### What is hard here

Everything below is a row of `hazards` in `PROJECT.json`, at its line.

- The scan of the table is not atomic: rows move while it runs. Whether it can
  miss a row, and delete its Asset, depends on the order in which Python
  iterates over the enumeration of states.
- Between its reads and its INSERT a request has Assets that no row
  references, while a cleanup pass deletes unreferenced Assets.
- Two windows, two clocks (`effective_now` and the clock of the writer), both
  with inclusive bounds.
- A row is durable and its carrier (queue entry, worker, Result) is not: every
  crash, exception or stop between two steps separates them.
- The same Analysis can be submitted twice.
- A lock held for a whole cycle, needed on both ends of each request.
- A write transaction whose BEGIN and COMMIT are outside the `try`; locks that
  time out.
- A file exists before its bytes do, and its metadata is checked afterwards; an
  identifier may collide; a listed file may be gone when it is looked at.
- A stop event and a thread that outlive one lifespan of the application.
- A request that can fail at each of its reads, decodings and writes; two
  computations of the length of a Cue, and limits of creation and of audition
  that nothing relates.
- A greedy selection with a half-open overlap test, a threshold and a cap; a
  window rounded to samples, a half to the even one.
- Answers that arrive for an earlier Analysis, an earlier run of an effect or an
  earlier click; a failing element that reports twice.

### What makes each component correct

- *Retention*: never delete what a live or recent Analysis, a request in
  progress or a fresh upload needs; delete the rest in the end.
- *Coordinator*: the counts are exactly the open reservations; nobody waits for
  the lock for ever.
- *Executor*: one run per Analysis; every Analysis it carries becomes terminal;
  the Result is readable before the state says so; a graceful stop loses
  nothing.
- *Recovery*: after start-up no row is RUNNING without a worker, and nothing
  else was touched.
- *Repository*: rows move only along the transition table; what callers were
  told is what the table holds, whatever the threads interleave.
- *Storage and uploads*: an identifier handed out names a whole file of its own;
  a failed upload leaves nothing; bodies are bounded.
- *Lifespan*: one maintenance thread while the application serves, none
  afterwards; a stop ends.
- *Requests*: a rejection has a cause and no effect; what is submitted is what
  the record says; an accepted Cue can be played.
- *Matching*: an accepted window never fails the run; every Cue gets an outcome;
  occurrences are disjoint, in their window, and the best ones.
- *Polling*: what is shown is real and of the Analysis asked for; one next step
  as long as there is no verdict; it ends.
- *Playback*: one audition at a time, stopped by the button shown; nothing left
  behind; a late answer changes nothing.

## 2. The modules

| Module | What it is |
|---|---|
| `LifecycleRules` | states, terminal states, transition table, declaration order of `AnalysisLifecycleState` |
| `AnalysisLifecycle` | abstract specification: what the repository promises of a row |
| `AssetStore` | abstract specification: what a client may expect of an Asset it uploaded |
| `AssetRetention` | storage, retention policy, coordinator, maintenance thread, create requests, crash and start-up |
| `AnalysisExecution` | create, queue, workers, Result store, crash, recovery, graceful stop |
| `SqliteConnections` | a connection per thread, the calls of the port statement by statement, the file locks |
| `AssetName` | `sanitize_asset_name` |
| `AssetUpload` | upload handlers, `ingest`, `list_entries` and the orphan pass over the directory |
| `ServiceLifespan` | the process, the lifespan and the maintenance thread |
| `AssetService` | composes `AssetUpload` and `ServiceLifespan`, with crashes |
| `MediaCanonicalization` | from stored bytes to the length of a canonical array, and the audition's own reading |
| `AnalysisRequests` | POST /analyses and the audition endpoints, against deletions and the executor |
| `SourceWindow` | the search window, at creation and at execution |
| `CueMatching` | the loop over the Cues of an Analysis, with both matchers and the greedy selection |
| `AnalysisPolling` | the polling hook and the Result request of the page |
| `AuditionPlayback` | the playback owner of the Result card |
| `MCAssetRetention`, `MCAnalysisExecution`, `MCSqliteConnections`, `MCAssetService`, `MCAnalysisRequests`, `MCCueMatching`, `MCAnalysisPolling`, `MCAuditionPlayback` | model values, windows and symmetry for TLC |
| `AssetRetention_proofs`, `AnalysisExecution_proofs`, `SqliteConnections_proofs`, `AssetService_proofs`, `AnalysisRequests_proofs`, `CueMatching_proofs`, `AnalysisPolling_proofs`, `AuditionPlayback_proofs` | theorems |

`AssetRetention`, `AnalysisExecution` and `SqliteConnections` implement
`AnalysisLifecycle` (`ImplementsLifecycle`, with `INSTANCE AnalysisLifecycle`),
which is proved for all three. TLC checks it too for the executor, whose rows
move under a claim, and for the connections, whose transactions are what the
other two take for one atomic step.

`AssetRetention` and `AssetService` implement `AssetStore` (`ImplementsStore`,
checked and proved for both): an Asset is unknown, then promised, then
unprotected, then perhaps deleted, and never comes back. The two look at the
store from two sides. To `AssetRetention` an upload is one step, and a deletion
is what is left after a table was read query by query; to `AssetService` an
upload is many steps of a handler over a directory that is being listed, and
there is no table. Whatever one module leaves out, the other has, and both keep
the one promise.

A definition whose comment starts with *Mutant of* belongs to no specification:
it is a plausible defect of the definition that follows, listed under `mutants`
with the property that detects it.

### AssetRetention

One step is one critical section of the coordinator's lock, one SELECT, one
committed row, one read or deletion of a file.

| State | Code |
|---|---|
| `records` | rows of `analyses`: state, Asset ids, timestamp of that state |
| `present`, `storedAt`, `issued` | files, their `st_mtime`, ids ever allocated |
| `reservations` | `_reservation_counts`; 0 stands for a missing key |
| `reqPc`, `wanted`, `unread` | where each request is in its `with` block, and what it has still to read |
| `step`, `pass`, `now`, `protected` | the maintenance thread, `effective_now`, the snapshot |
| `query`, `seen` | the `_all_records` call in progress: next SELECT, `records_by_id` |
| `candidates`, `target` | the `for` loop over candidates; the target is being rechecked |
| `phase` | down, recovering, start-up cleanup, serving |

`BeginCycle`, `ScanQuery`/`ScanConflict` (four times), `SelectExpired`, then for
each candidate `Choose`, four queries and `Settle`; `OwnedPassDone`; the same
with `SelectOrphans`; `OrphanPassDone`. `CycleRaises` is any exception in
between, which `_run_one_cycle` swallows and start-up does not.

Abstractions, and why they are sound for the properties:

- The transitions of the executor appear as `Transition`, any valid transition
  at any time: `AnalysisExecution` allows fewer.
- A repository operation is atomic, which is what `SqliteConnections` shows of
  its transactions.
- The code takes the timestamp of a transition just before `BEGIN IMMEDIATE`,
  the model at the commit. A write that waits for the lock (at most the busy
  timeout, five seconds) dates from before its commit; the retention window is
  seven days.
- Candidates are sorted by identifiers, which are random, so `Choose` takes any.
  A request reads each of its Assets once, in any order.
- A request can be rejected at any point of its reads (missing or unusable
  Asset, invalid window, failing INSERT): what it had read does not matter.
- Reports, diagnostics and log events are left out. If emitting the storage
  usage raises, that is `CycleRaises`.
- `add_owned_asset` has no caller in the program, so no row gains an Asset here;
  `SqliteConnections` checks it as the operation of the port it is.

### SqliteConnections

| State | Code |
|---|---|
| `schema` | no table, a table without `owned_asset_ids_json`, the current one |
| `rows` | the committed columns `state`, the `*_at` timestamps that are set, the error, `owned_asset_ids_json` |
| `reserved`, `waiting`, `shared` | SQLite's RESERVED, PENDING and SHARED locks (rollback journal, the mode the adapter leaves the file in) |
| `pc`, `call`, `found` | where a thread is in its call, its arguments, the row its SELECT returned |
| `phase` | `create_app` is running, or serving |

A thread opens its connection on its first call (`Open`, `InspectColumns`,
`AddColumn`) and loses it when it ends. A call is `Begin`, `Select`, `Write`,
`Commit`, or `Rollback` when the row is not one it admits; a lock that is held
for longer than `busy_timeout` makes `BeginRaises`, `ReadRaises` and
`CommitRaises`. The last leaves the transaction open, as the code does. The table changes
only at `Commit`, which is how the journal makes it appear to every other
connection. `granted` and `linked` are history variables: what callers were told.

### AssetName, AssetUpload, ServiceLifespan and AssetService

| State | Code |
|---|---|
| `upload`, `kind`, `total` | where each handler is, its route, the bytes `_bounded_stream` has counted |
| `label`, `attempts`, `place` | locals of `ingest`: sanitized name, identifiers tried, the file created |
| `file` | absent, partial or whole, under each identifier |
| `aged`, `horizon` | files whose grace window is over, now and at `effective_now` of the pass |
| `listing`, `children`, `probed`, `entries` | `list_entries`: names still to come, the child `is_file()` was true for, what it has collected; then the candidates of the pass |
| `app` | down, cleaning at start-up, built, serving, leaving the lifespan |
| `stopEvent`, `runner`, `thread` | `_stop_event`, `_thread`, what each maintenance thread does |

From `use_case.ingest` on a handler does not yield, so `LoopIsFree` keeps the
other handlers out while the maintenance thread goes on. A name is a sequence
over four kinds of characters: those that are kept, those that are kept inside and
stripped at the ends, those that are replaced, and the separators of paths. Whether an Asset is in use is the subject of
`AssetRetention`: here every file is an orphan once its grace window is over.
`excused` records the files that a crash in the middle of a write or a failing
unlink left; no guard reads it.

### MediaCanonicalization and AnalysisRequests

A stored file is a record of what decides its fate: its container, whether the
header parses, rate and frames of the header, the frames that are there, whether
the data ends inside a sample, the bytes of the whole file (`size`, in which a
stereo file differs from a mono one of the same frames), what FFprobe and FFmpeg
make of it. An array is its length. `Canonicalize` is what creation does with a file,
`AuditionLength` what an audition does with the same file.

| State | Code |
|---|---|
| `content`, `stored` | the bytes of every Asset; those not deleted yet |
| `request`, `at`, `source`, `arrays`, `references` | payload and locals of `CreateAnalysisUseCase.create` |
| `reserved` | the Assets of the reservation |
| `record`, `submitted` | the row, and the arrays the executor was handed |
| `hits`, `retained` | cues the Result has an occurrence of; whether the retention window runs |
| `audition`, `heard`, `answer` | the audition in progress, how the last one ended, how the create request ended |

`Execute` and `Delete` stand for the executor and the cleanup cycle: they may do
whatever `AnalysisExecution` and `AssetRetention` leave open (`Delete` spares
what is reserved and what a retained record refers to, which are theorems there).

The limits of a Cue and those of an audition are constants that nothing relates,
as in the code: a deployment may set how long a Cue lasts, an audition takes 600 s
and 64 MiB. Nor does creation know the role a file was uploaded in, so a request
may name as its Cue a WAV that was uploaded as source media, larger than any
answer. Such a Cue is matched, and its audition answered 413 (`IsTooLarge`),
which docs/supported-media-and-limits.md:176-182 describes.

### AnalysisExecution

| State | Code |
|---|---|
| `state`, `reference` | columns `state` and `result_reference` |
| `results` | `InMemoryResultReferenceStore` |
| `pending` | between the INSERT and `submit` of a create request |
| `queue` | the pool's work queue |
| `pc`, `job` | each pool thread's place in `_claim_and_run` and its Analysis |
| `interrupted` | the RUNNING rows `run_startup_recovery` has still to resolve |
| `phase` | down, recovering, serving, draining |

`Claim` or `ClaimRejected`; `MatchingReturns`, `SaveResult`, `PersistSucceeded`,
or `MatchingRaises`, `PersistFailed`. `WorkerRaises` is an exception outside the
handler around the matching: the Future keeps it and nobody reads it. `Resubmit`
is any further call of the public `submit`. `Stop` and `Exit` are the graceful
end: uvicorn finishes its requests, and the interpreter joins the pool threads,
which empty the queue first. `runs`, `outlived` and `dropped` are history
variables: no guard reads them.

### SourceWindow and CueMatching

A time is a number of quarters of a sample period, the coarsest grid on which
rounding to a sample has all its cases (less than a half, a half to the even
sample, more). `CreationAccepts` is the check of `create_analysis.py`,
`WindowRaises` and `SliceRaises` the errors of the run, `SourceSlice` what it
searches. In floating point both sides compute the same expressions, so what the
grid leaves out cannot tell them apart.

`CueMatching` runs the loop of `run_multi_cue_analysis`: `Slice`, then
`RejectInput`, `MatcherFails`, `MatchSingle` or `MatchMulti`; the latter goes on
with `Consider`, one turn of the greedy scan, by `Suppress` or `Select`;
`Project` stores the outcome on the timeline of the source. The state is the
locals: `slice`, `scores`, `pending` (candidates the scan has not come to),
`selected`, `outcomes`. The scores are **any** vector over a set of integers,
since the correlation is not modelled and only comparisons of scores follow; it
may also raise. Audio is its length: checks of its sample values
(`_validate_shared_source`, non-finite samples) are left out, as the decoder
produces canonical audio.

### AnalysisPolling

| State | Code |
|---|---|
| `id`, `shown`, `error`, `lost`, `polling` | argument and results of `useAnalysisPolling` |
| `run`, `interval`, `failures`, `delay` | number and closure of the live run of the effect |
| `timers`, `polls` | armed timers and status requests, each with the run it belongs to |
| `result`, `fetches` | `resultState` of `ResultPage`, its requests with their `cancelled` flag |
| `status` | the server's Analyses |

`RunEffect` is the cleanup of one run and the body of the next. A request is
answered (`AnswerPoll`) at one time and delivered (`DeliverPoll`) at another, so
that an answer may be old. `NewAnalysisPage` sets the id once; the hook accepts
any sequence of ids, and is modelled for any. `streak` is a history variable.

### AuditionPlayback

`version`, `target`, `error`, `controller`, `audio` and `url` are the refs and
states of the card; `calls` is where each call of `startPlayback` is suspended;
`aborted`, `urls`, `sounding` and `handled` are the browser's. A call, its
controller, URL and element are named by the version it began with. `Halt`,
`Play`, `Expand`, `Collapse` and `Cleanup` are the user and React; `Fetch...` and
`Start...` are the continuations after the two awaits, and `On...` the handlers
of the element. `PausedOutside` is the browser pausing an element (a media key),
which no handler is told of; the promise of `play()` is then rejected if it was
pending. As HTML specifies, a promise that is fulfilled is fulfilled in the task
that fires `playing`. A render and the passive effects React runs after it are one
step: no click or event is placed between them.

## 3. The runs

All runs of the server check for deadlock; those of the page do not, since a
page without a click and with its requests answered really stops. Bounds are in
the cfg files; each run takes at most about three minutes with two workers.

| Run | Instance | Distinct states | Question |
|---|---|---|---|
| `retention` | 2 Analyses, 1 Asset, 2 requests, windows 2 and 1, clock to 3, 1 crash | 2.3 M | Can any interleaving of a cycle with requests, transitions and a restart delete what is needed, or too early, or leave what it should delete? Are the counts exact under overlapping requests? Does it keep the promise of the store? |
| `retention_liveness` | 1 of each, 1 exception, 1 crash | 49 k | Is garbage reclaimed, and the lock released? |
| `execution` | 2 Analyses, 2 workers, 1 resubmission each, 1 exception, 2 crashes | 30 k | One run each under an exclusive claim, no lost Analysis, readable Results, lifecycle; does every Analysis a process carries end, and a graceful stop? |
| `execution_stranded` | 2 Analyses, 1 worker, 1 crash | finding | Is an Analysis ever left QUEUED for good? |
| `execution_lost_write` | 1 exception, no crash | finding | Is an Analysis ever left RUNNING for good? |
| `connections` | 3 threads, 1 Analysis, 1 derived Asset, any schema at start, 1 crash | 227 k | Is the table what callers were told, readable and along the lifecycle? Is nothing linked after the end, and the upgrade alone? |
| `connections_commit` | 2 threads | finding | Does every call end its transaction? |
| `service` | 2 uploads, 2 identifiers, 2 lifespans, 41 names, 2 faults, 1 crash | 544 k | Is an answered Asset whole and its own? Does a failure leave a file, or one that outlasts the next pass? Does a body exceed its limit? One maintenance thread, leftovers reclaimed, a stop that ends, the promise of the store? |
| `requests` | 2 Assets over 39 combinations of contents, requests of up to 3 cues, 5 kinds of cue | 768 k | Has every rejection a cause and no effect? Is what is submitted what is recorded? Can an accepted Cue be played, unless it is too large for an audition? |
| `matching` | sources of 0 to 2 samples with 2 Cues and every window on the quarter grid; sources of 6 and 7 samples with a Cue of 1 to 3; 3 scores, cap 2 | 0.66 M | Is what the greedy scan selects the one set that is disjoint, above the threshold, within the cap and the best at every place, and of one verdict with the single matcher? Does an accepted window ever raise? Are occurrences inside it? Does every Cue get an outcome? |
| `polling` | 2 Analyses, 2 runs of the effect | 97 k | Can late answers show, stop or double the polling? Does it end, and a loading Result arrive? |
| `playback` | 2 Cues with 2 buttons each, 4 versions | 0.2 M | Can any order of clicks, answers and events leak, double or relabel an audition, or leave a button without one? Does a loading button get on? |

Why these bounds are enough to meet the interesting cases. A wrong deletion
needs one Asset, a cycle, and two rows (an owner and one more that shares the
Asset, or is missed) or one row and one request. Two Analyses reach every
pattern of ownership of an Asset. The clock reaches every window plus at least
one further tick; nothing in the code depends on how much
later it is. Two requests overlap in every order in which they can enter and
leave. Two workers and one resubmission make the duplicate claim; two Analyses
submitted twice make a queue behind a busy pool. Two crashes interrupt the
recovery from the first one. Three threads are a writer that holds the lock, one
that waits for it and a reader that delays the commit; one row is enough, as
calls on different rows only share the locks. Two uploads with two identifiers
collide; two faults are a failing write whose unlink fails too; two lifespans
meet a stop event that was set before. Chunks of one or two units reach a limit
of two exactly, or exceed it; names of up to three characters, two of which are
kept, end in a separator only after the cut. The contents are whole, empty, cut
short, too long for an Analysis, too long for an audition only, exactly as long
and as large as an audition may be, in stereo and so too large, broken in each way
the decoder distinguishes, at a rate that rounds up, down and to zero, and a request may repeat an id, name a Cue by the
source's Asset or exceed the count. Seven samples hold three disjoint windows of
two, so the cap of two cuts off a third, and the three scores are one below, one
at and one above the threshold. Windows are enumerated over a whole source, both
ends included. Two runs of the effect are an abandoned one and a live one, for
the same or another Analysis; the five failures in a row all happen.
Four versions are two auditions, each with its disposal, or four that supersede
each other. Where section 4 proves a property, the size of the instance does not
matter in the end.

Symmetry is used in one safety run only (`retention`): identifiers are
interchangeable and never compared by order.

### Fairness

- `AssetRetention`: weak fairness of the maintenance thread, of start-up and of
  restart (an operator starts the service again). `BeginCycle` is weakly fair
  because the worker's loop ends only with the process. `Release` is *strongly*
  fair: the lock is free again and again, for a whole maintenance interval
  (hours) between two cycles, and a thread blocked on it is then served; a
  cycle that takes the lock back sooner is not what `_run` does. Clients, the
  clock and the executor are under no obligation.
- `AnalysisExecution`: weak fairness of `Submit` (a request that is running
  finishes), of each worker (which also says that matching terminates: FFmpeg
  has a timeout, correlation is a bounded computation), of recovery, start-up
  and exit. Crashes, exceptions, requests and the decision to stop are not fair.

- `CueMatching`: weak fairness of `Next`, a sequential program that runs.
- `AnalysisPolling`: the server finishes Analyses, requests of live runs settle
  (in one of the three ways the client knows) and timers fire. That the server
  finishes is what `CarriedAnalysesTerminate` shows and what the findings below
  limit: of an Analysis they leave open the page polls on, at its longest
  interval.
- `AssetService`: code that is running goes on, the maintenance interval and the
  grace window elapse, and a process that is down is started, one that is idle
  entered or ended (an operator does both). No client has to send anything and
  no server to leave its lifespan.
- `AuditionPlayback`: requests for audio and the promise of `play()` settle.
  Nothing else is assumed, neither of the user nor of the element's events.

### Findings

All are disagreements between a sentence of the repository and the code.

1. `execution_stranded`. `create_analysis.py:70-71` says that no Analysis is
   ever left permanently QUEUED. A crash between the INSERT (`:885`) and
   `submit` (`:904`), or while the job waits in the pool's queue, leaves it
   QUEUED: recovery lists RUNNING rows only and nothing submits the row again.
   (The restart policy document names this as accepted; the sentence does not.)
2. `execution_lost_write`. `docs/local-analysis-executor.md:11` says that the
   executor persists exactly one of SUCCEEDED and FAILED. An exception in
   `result_store.save` or in either terminal `transition` is outside any handler
   and leaves the row RUNNING until the process is restarted.
3. `connections_commit`. `docs/analysis-repository-sqlite-schema.md:185-186`
   describes every write as "commit-or-rollback". COMMIT is outside the `try`
   (`sqlite_repository.py:411`, `:483`, `:553`): when a reader outstays the busy
   timeout it raises, nothing rolls back, and the call ends with its transaction
   open. The thread's next BEGIN raises, and the other threads are locked out,
   until the thread ends. (The table stays right: `RowsAreGrantedAndReadable`
   holds all the same.)

Three more were met while modelling and have no run of their own. The interval
of the page grows after every poll (`useAnalysisPolling.ts:140`), where the
comment (`:24-25`) says after each poll that returns the same status. A WAV whose
data ends inside a sample makes `np.frombuffer` raise a bare ValueError, which
becomes status 500, where `docs/rest-api-v1-contract.md:521` has 415 for
malformed media (the properties of `requests` name this exception). An empty
Cue is accepted, and its audition answers 500.

## 4. The proofs

Checked by TLAPS for every value of the constants, under the assumptions named
in the modules: the set of requests is finite (it is counted) and so is that of
Asset identifiers (128 bits), the windows and bounds are natural numbers with
`0 < GraceWindow <= RetentionWindow` (24 hours and 7 days in the code), limits,
chunks and numbers of attempts of an upload and the length of a name are
positive, the set of workers is finite and not empty, the idle marker is
not an Analysis and the absent Cue not a Cue, scores and the threshold are
integers, and lengths and caps are natural numbers. `AnalysisRequests` takes
its limits to be natural numbers (`LimitAssumption`) in no order, and assumes two
facts: the longest clip an audition may last, rendered as one channel of 16-bit
samples, fits an answer (`RenderAssumption`: both limits are fixed in
query_analysis.py:153-160, 600 s at 48 kHz are 57.6 MB, of 64 MiB), and a WAV
yields no more frames than its header announces (`HeaderAssumption`, what
`readframes(getnframes())` does). TLC evaluates all of them on the instances of section 3.

### AssetRetention

| Theorem | States |
|---|---|
| `TypeCorrect` | `TypeOK` |
| `ReservationsAreExact` | counts equal open reservations |
| `InUseIsKept` | nothing in use is deleted: what a request has read, what an open Analysis refers to, what two Analyses own |
| `WindowsAreKept` | retention and grace window hold |
| `CleanupDeletesExactly` | a pass deletes all that it may, and only that |
| `CyclesEnd` | a cycle takes at most `12 * Cardinality(Assets) + 12` steps, whatever comes in between |
| `RefinesLifecycle` | implements `AnalysisLifecycle` |
| `RefinesStore` | implements `AssetStore` |

The parts of `InUseIsKept`, `WindowsAreKept` and `CleanupDeletesExactly` are
theorems of their own (`ReadsAreStable`, `LiveAssetsAreKept`,
`SharedAssetsAreKept`; `RetentionIsHonoured`, `GraceIsHonoured`;
`RecheckConfirms`, `NothingIsMissed`).

None of the deletion properties is inductive: they depend on what a thread in
the middle of a scan has seen. The invariant is built in layers, each on the
ones before.

1. `RequestInv`: counts are exact, requests exist only in a serving process.
2. `SnapshotInv`: during a cycle, what a request has reserved is in the
   snapshot, since `Reserve` needs the lock the cycle holds.
3. `TimeInv`: an Asset of a row was stored before the row's state began.
4. `ScanInv`: the heart. `Rank` numbers the states in the order of the four
   queries. A row not yet seen has a rank the scan has still to reach, or was
   inserted during the cycle and has protected Assets only. Every transition
   raises the rank (`RankOfState`), so a row may be returned twice but is never
   missed. With another order of the enumeration this fails (mutant
   `TerminalFirst`).
5. `PursuitInv`: a candidate stays unprotected and unreferenced (but for its
   expired owner) until it is settled.
6. `KeptInv`: the five properties; the step that deletes is `DeletionIsSafe`.

`GraceWindow <= RetentionWindow` is what carries `FreshUploadsAreKept` through
the pass over expired Analyses, which looks at no file's age.

The converse, that a pass misses nothing, needs two more layers. `SeenInv`: a row
that is not any more what the scan saw has moved since the pass began, so it is
not old enough for this pass either way (this is where the windows are positive). `ThoroughInv`: once the candidates are
selected, everything that is garbage (`IsGarbage`, about the table and not about
what was seen) and not reserved is a candidate or the target of the deletion in
progress. A row inserted meanwhile refers to reserved Assets only, and a file
stored meanwhile is not old enough.

`CyclesEnd` counts the steps a cycle may still take (`StepsLeft`). The number of
candidates enters the bound, so that `ShortInv` has to say that a pass has one
candidate per Asset at most: an Asset with two owners is no candidate.

### AnalysisExecution

| Theorem | States |
|---|---|
| `TypeCorrect` | `TypeOK` |
| `OneRun` | no Analysis runs twice: one owner whose row is RUNNING, and matching at most once |
| `ResultsAreReadable` | SUCCEEDED in this process means readable |
| `NothingIsForgotten` | every open Analysis has a carrier or was dropped by a crash or exception |
| `StopDrains` | a process that was told to stop takes nothing on, gets nearer to its end with each step, and exits with nothing open that it carried |
| `StrandedForGood` | an Analysis without a carrier keeps its state until it is submitted again or a start-up resolves it |
| `RefinesLifecycle` | implements `AnalysisLifecycle` |

`ClaimInv` joins the exclusive claim with three facts it needs: no worker has a
job and nothing is queued unless the process serves or drains (`PoolInv`, so
recovery fails no row a worker owns), a row that was never claimed was never
run (`RunsInv`), and a Result precedes its state (`ResultInv`).
`NothingIsForgotten` adds `LeftoverInv`: while the process is down every QUEUED
row is one that was dropped, because a graceful stop empties the queue, and
recovery has listed exactly the RUNNING rows.

`StrandedForGood` is the other side of findings 1 and 2 of section 3. TLC shows
one behaviour in which an Analysis is dropped; the theorem says that none of
these ever recovers by itself, for any number of workers and restarts.

### SqliteConnections

| Theorem | States |
|---|---|
| `TypeCorrect` | `TypeOK`, and `LockInv` |
| `TableIsFaithful` | the table is what callers were told, and readable |
| `OwnershipComesFirst` | nothing is linked once the retention clock runs |
| `RefinesLifecycle` | implements `AnalysisLifecycle` |
| `UpgradeIsAlone` | no column is added twice |

The table changes at `Commit` only, and what is written was computed from a row
read some steps before. `LockInv` says why that is right: a thread between its
SELECT and its COMMIT holds the lock, so the row it found is still the row of the
table, and the call is one that row admits. With it a commit is one abstract
transition (`WhatCommitChanges`), however the statements interleave and whichever
of them raise. `UpgradeIsAlone` rests on start-up: `create_app` opens
its connection before any other thread exists (`SchemaInv`).

### AssetService

| Theorem | States |
|---|---|
| `TypeCorrect` | `TypeOK` |
| `BodiesStayBounded` | the parser gets no more than the limit |
| `AnsweredAreWhole` | an answered Asset is whole, and its own, in its grace window |
| `SanitizedIsStable` | sanitizing a sanitized name changes nothing |
| `LeftoversDoNotLast` | a file without a handler or an answer has a cause, and a pass leaves none that is old |
| `RefinesStore` | implements `AssetStore` |
| `OneThread` | one maintenance thread, none outside a lifespan |
| `ServedIsMaintained` | a server that serves has a maintenance thread, in a second lifespan too |
| `StopWindsDown` | once the stop event is set no cycle begins and no thread starts |

`UploadInv` adds that a file in the making has one maker (`OwnPlaces`, from the
exclusive creation of the file), and that the pass deletes only files that were
over age when they were listed (`ListInv`); an answered file is then whole, or
was deleted in time (`WholeInv`).

`ingest` sanitizes the name, and the metadata it builds afterwards, when the file
exists, rejects a name that sanitizing would change. A file could be left behind
there without a failure of anything, and is not because of `SanitizedIsStable`:
the cut to the maximal length comes after the separators were stripped, and is
followed by another `rstrip`. Its lemmas describe a stripped sequence by its first
and last solid character. With it `LabelInv` says that a label is stable, and
`CauseInv` that a file without a handler was excused: a crash, or an unlink that
failed. `PassInv` follows the pass through the directory: a file that was old
when the pass began is still to be listed, or collected, or gone
(`NothingOldIsLeft`), although children vanish meanwhile and handlers write. An
error on one child does not end the listing, which the proof needs.

`FileInv` of the refinement says that an identifier that was answered stays that
of its handler, so that a file once deleted is not created again under a name
the client holds.

`RunnerInv` says that a thread that is alive is the one the next stop joins.
`StopInv` adds that the event is clear while a server serves; a thread that a
stop event of an earlier lifespan could end would contradict it.

### AnalysisRequests

| Theorem | States |
|---|---|
| `TypeCorrect` | `TypeOK` |
| `RejectionsAreClean` | a rejection has a cause and no effect |
| `HandedOverAsRecorded` | the executor gets what the record says |
| `AcceptedCuesPlay` | an accepted Cue can be played, unless it is too large for an audition |

`RequestInv` follows a request through its reads: which arrays it has and from
which Assets they were decoded (`ReadInv`), that what it has read stays reserved
and then referred to (`KeepInv`), what of it is in the record (`RecordInv`) and
how it may have ended (`AnswerInv`). For a repeated id `ReadInv` speaks of the
last Cue only, as the dictionary holds that one's array; the record's validation
is what excludes it. `PlayInv` relates an audition to that. Creation
rounds a length to the canonical rate, and the audition rounds the header's
length by code of its own; that a Cue is played for as long as it was matched,
and that no rounding takes one beyond a duration its header respects, is
`PlayedAsLongAsMatched`, from three lemmas about the rounded quotient
(`QuotientIsNear`, `QuotientIsMonotone`, `QuotientStaysBelow`). It is used twice:
with the limit the Cue was accepted under and with that of the audition, of
which either may be the larger. An occurrence is refused for its duration before
it is rendered and never for its bytes, by `RenderAssumption`.

### CueMatching

| Theorem | States |
|---|---|
| `TypeCorrect` | `TypeOK` |
| `SelectionIsDetermined` | the occurrences are the one best selection |
| `MatchersAgree` | one verdict of both matchers |
| `CreationCoversExecution` | an accepted window never raises |
| `WithinTheWindow` | occurrences lie in the window and in the source |
| `ReturnIsComplete` | a call that returns has an outcome for every Cue |
| `ScanHasNext` | the scan has a first candidate as long as it has candidates |
| `CallsAdvance` | every step concludes a Cue, goes on in the loop body or drops a candidate |

Two lemmas about rounding (`RoundIsNear`, `RoundStaysInside`) carry
`AcceptedWindowSlices`, from which the last two theorems follow. The invariant
of the scan says that what is pending is worse than what is taken, that what is
taken is disjoint, and that what was dropped overlaps a better lag that is taken
or came after the cap; being finite, a set of accepted lags has a first element
in the order of the scan, so that the scan ends with the best lag taken.
`NoOverlap` and `BestFirst` follow, which say what the selection is;
`SelectionIsDetermined` says that nothing else is: of two sets with these
properties consider the first lag in which they differ. Everything before it is
in both, so what keeps it out of the one keeps it out of the other. (The first
lag exists because every lag has a number in the order of the scan, and sets of
natural numbers have a least element.) The outcome of a Cue is thus a function of
its scores, and no order of evaluation can change it.

### AnalysisPolling

| Theorem | States |
|---|---|
| `TypeCorrect` | `TypeOK` |
| `OneAnalysisOnThePage` | status, Result and requests are those of one Analysis |
| `OneStepUntilOneVerdict` | one next step until there is one verdict |

`NextStepInv` says that a timer is of the live run, that there is at most one
timer or live request, and that there is one exactly while the hook polls; an
answer of an abandoned run finds a request that is not live. `RequestInv` bounds
how new an answer can be by the server's status, which only advances, and
`FetchInv` ties the one live Result request to the Analysis shown.

### AuditionPlayback

| Theorem | States |
|---|---|
| `TypeCorrect` | `TypeOK` |
| `OneAtATime` | one element sounds, the active one, whose button is on the page |
| `ResourcesFollow` | target and resources come and go together, exclude an error, and leave no URL, handler or request behind |
| `LateAnswers` | a superseded call is inert |
| `LoadingHasACall` | a loading button has a call that is out and will be listened to |
| `LoadingGetsOn` | when that call resumes it starts the element or ends the loading |

The invariant `IInv` says that what the owner holds is of the current version
(`HeldIsCurrent`), that the browser has exactly that (`BrowserIsHeld`), and that
a call with the current version is the one whose controller or element is held
(`CallsAreHeld`). `DisposeStep` proves it once for every handler that disposes.
For the last two, `LoadInv` adds that an element whose button is loading has its
call at the second await: a call never returns and leaves the button as it was.

### Only model-checked

Liveness: the prover handles neither ENABLED nor fairness. Every safety and every
action property that a run checks is a theorem. Of some liveness properties the
safety half is proved: that what is waited for gets nearer with every step of
the one that does it, and that nobody else can undo this. What remains for TLC is
that these steps are taken, which is what the fairness of section 3 says.

| Liveness property | Safety half that is proved |
|---|---|
| `GarbageIsReclaimed` | `CleanupDeletesExactly`: a pass that ends leaves no garbage |
| `RequestsGetPastTheLock` | `CyclesEnd`: the lock is held for a bounded number of steps |
| `LeftoversAreReclaimed` | `LeftoversDoNotLast` and `ServedIsMaintained` |
| `ShutdownEnds` | `StopWindsDown` |
| `EveryCueGetsAnOutcome` | `ReturnIsComplete`, `ScanHasNext` and `CallsAdvance` |
| `CarriedAnalysesTerminate` | `NothingIsForgotten`: what is open is carried or was dropped |
| `StopCompletes` | `StopDrains`: nothing is taken on, and every step empties the queue or a worker |
| `PollingEnds` | `OneStepUntilOneVerdict`: as long as the page polls there is one next step |
| `ResultArrives` | `OneAnalysisOnThePage`: a Result that loads has one request that is out |
| `LoadingEnds` | `LoadingHasACall` and `LoadingGetsOn` |

`StrandedAnalysesStay`, `StopOnlyDrains`, `CyclesAreShort`, `ReturnsAreComplete`,
`ScanGoesOn`, `CallAdvances`, `ServingIsMaintained`, `StopOnlyWindsDown`,
`LoadingIsAwaited` and `LoadingLeadsOn` are stated for their theorems; no cfg lists
them.

## 5. Not modelled

- Correlation, the samples of an array, resampling and FFmpeg: floating-point
  signal processing and a child process. Lengths, limits and failures are modelled.
- The byte patterns of the format sniffers: an upload has one of three signatures.
- Response bodies and log events: no state.
- Result contracts: immutable values.
- Rendering of the page, and the form until it is submitted.
- Benchmarks, container and CI files: development tooling.

## 6. Plan

The core came first: the two modules on which data and progress depend
(`AssetRetention`, `AnalysisExecution`), with their abstract specification; then
matching and the page; then the layers below and around the core
(`SqliteConnections`, `AssetService`, `AnalysisRequests`), with their proofs. What
is left:

1. A module that composes `AnalysisExecution` with `AssetRetention`, so that the
   transitions the cleanup meets are those of the executor.
2. The submission of the form: uploads, creation, and what a failure between
   them leaves.
3. The rest of the safety halves: that the streak of failures and the status of
   the server only advance towards the verdict that ends the polling, and that a
   carried Analysis gets nearer to its end with each step of its carrier.
4. The sniffers of `asset_ingestion.py`: which prefix decides, and what a
   truncated or nested container is taken for.
