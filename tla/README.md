# tap-salesforce in TLA+

A verification development kept beside `tap-salesforce`, a Singer tap that
extracts Salesforce objects over three APIs and writes SCHEMA, RECORD, STATE and
ACTIVATE_VERSION messages to its standard output. It asks one main question: *can a
change made in Salesforce be lost*, whatever the order of threads, batches, failures and
restarts. Others follow from it: does a full table arrive whole and lose what was
deleted, does a catalog let every row be read, do threads that share a client keep its
quotas, and does a long, unattended run keep its credentials and come to an end.

Source paths below are relative to `src/tap_salesforce/`.

## 1. Inventory

| Component | State it keeps | Operations | Modelled in |
|---|---|---|---|
| Entry point (`__init__.py`, `__main__.py`) | the client, the state dict | `main_impl`: log in, discover or sync, cancel the timer | `StreamSync` (sync), `LoginTimer` (`finally`), `Orchestrator` (exit) |
| Sync orchestration (`sync_orchestrator.py`) | state dict, event loop, thread pool | `sync`, `_sync_catalog_entry`, `_resume_bulk_job`, `_sync_fresh`, `build_state` | `Orchestrator` (all streams); `StreamSync`, `BulkSync`, `FullTableSync` (one stream) |
| Stream sync (`sync.py`) | the stream's bookmarks, version, `start_time` | `sync_stream`, `_sync_records`, `resume_syncing_bulk_query`, `get_stream_version` | `StreamSync`, `BulkSync`, `FullTableSync` |
| Salesforce client (`salesforce/__init__.py`) | `pk_chunking`, `jobs_completed`, request counters | `query`, `get_start_date`, `_build_query_string`, `_get_selected_properties` | `TapState`, `SalesforceOrg`, `Catalog` |
| REST (`salesforce/rest.py`) | window, retries | `query`, `_query_recur`, `_sync_records` | `RestSync` |
| Bulk (`salesforce/bulk.py`) | JobID, BatchIDs in the state | `query`, `_bulk_query`, PK chunking, polling, `get_batch_results`, `job_exists`, the quota check | `BulkSync`, `FullTableSync`, `Orchestrator` |
| Bulk 2.0 (`salesforce/bulk2.py`) | job id, locator | `query`, `_create_job`, `_wait_for_job`, `_get_next_batch` | `Bulk2Sync` |
| HTTP client (`salesforce/client.py`) | session, request counter, quota | `make_request` with backoff, `check_rest_quota_usage` | `Orchestrator` |
| Discovery (`discovery.py`) | objects described so far, settings, tags | `do_discover`, replication key, catalog entries | `Catalog` |
| Field selection | none | the query's fields against the schema's (`pop_deselected_schema`) | `Catalog` |
| Field schemas (`salesforce/schema.py`) | none | `field_to_property_schema` | `Catalog` (what it does to the metadata) |
| Logins (`salesforce/credentials.py`) | access token, `login_timer` | `login` of three OAuth classes | `LoginTimer` |
| Refresh-token cache (`salesforce/token_cache.py`) | keychain entry, cache file | `load_refresh_token`, `store_refresh_token` | `TokenCache` |
| Browser login (`salesforce/browser_auth.py`) | callback server, its result | `acquire_token`, `_run_browser_flow` | `TokenCache` (`acquire_token`), `BrowserLogin` |
| `config.py`, `exceptions.py` | none | defaults, classes | not modelled |

### How the parts interact

`main_impl` logs in (which starts the timer thread), reads the state file and
runs `SyncOrchestrator.sync`: one coroutine per stream of the catalog. A coroutine
writes SCHEMA and STATE on the event loop's thread and hands the stream's records to
a worker thread of the pool. All workers share *one* `Salesforce` object
(so one `pk_chunking` flag and one set of counters) and *one* state dict, and
`singer.write_state` of any worker serialises that whole dict: a stream's entry
can be written to STATE at any moment, not only where its own code calls
`write_state`. The timer's thread replaces the access token and itself while the workers
run. The rest is outside the process: Salesforce, whose records change during a query
and whose jobs outlive the tap; a target, which takes the messages in order; the keychain
and cache file, which other processes of the same user read and write; the
browser, which opens connections as it pleases.

### What is hard here, and the properties that answer it

- *Bookmarks against commits and order.* A key becomes the bookmark as soon as
  its record is written. That is sound only if no older change is still to come:
  from an unordered result, a later window, a batch that ran earlier, or a save
  that had not committed. `DeliversAtLeastOnce`, `EveryChangeDelivered`,
  `NoGapBetweenRuns`.
- *Failures in the middle.* Timeouts, failed streams, crashes; a stream whose
  siblings failed runs on after the event loop is closed. The same properties, `RunEnds`.
- *Jobs that outlive the process.* A batch may be checked off too early, a job may
  expire, a torn STATE may name it without batches. `RemovedBatchesDelivered`,
  `StoredJobIsDropped`, `DeliveredUnlessJobLost`.
- *Versions.* A run of a FULL_TABLE stream generates its version up to three times, an
  aborted or resumed one leaves rows of its own; ACTIVATE_VERSION must drop what is
  deleted and nothing else. `OnlyPurgedRowsDropped`, `CompletedRunIsExact`,
  `TargetBecomesTheTable`.
- *Counters without a lock.* Quotas rest on counts that several threads increment, on
  checks made before or after the act, and on a header that may not say what is used.
  `QuotaOverrunIsBounded`, `BulkOverrunIsBounded`, `CountersNeverOvercount`.
- *Two functions, one decision.* The query and the SCHEMA choose their fields
  separately, with another default each. `QueryFitsSchema`, `KeysAreQueried`,
  `UnsupportedNeverQueried`; `CatalogIsComplete` for discovery in batches.
- *A timer that replaces itself.* It must neither stop during the job nor go on
  after it. `RefreshKeepsGoing`, `TokenStaysFresh`, `ProcessExits`.
- *A rotated secret in a store that nobody locks.* `CachedTokenIsAccepted`,
  `CacheRecovers`.
- *A callback racing a deadline.* `OutcomeIsExplained`, `NoAnswerAfterTheResult`,
  `LoginEnds`.

`PROJECT.json` lists the hazards one by one, each with its line.

## 2. Modules

    AtLeastOnce            what an incremental extraction promises      (abstract)
    SalesforceOrg          the org: records, their keys, late commits   (external)
      TapState             the STATE entry of a stream; build_state, get_start_date
        StreamSync         a stream of a run, up to the query's rows; Promise
          RestSync         + rest.py
            RestSyncProofs - MCRestSync
          BulkSync         + bulk.py and resumed jobs
            BulkSyncProofs - BulkPromiseProofs
            MCBulkSync
          Bulk2Sync        + bulk2.py
            Bulk2SyncProofs - MCBulk2Sync
    FullTableSync          a stream without a replication key
      FullTableProofs, MCFullTableSync
    Orchestrator           all streams of a run, the pool and the shared client
      OrchestratorProofs, MCOrchestrator
    Catalog                discovery, field selection, the fields of a query
      CatalogProofs, MCCatalog
    LoginTimer             credentials.py against main_impl
    TokenCache             token_cache.py and acquire_token
    BrowserLogin           _run_browser_flow and its callback server
      LoginProofs          of these three

The stream modules are composed with the environment `SalesforceOrg`; `Orchestrator`
composes streams with the pool and the client and abstracts what one stream
does to requests and jobs, while the stream modules abstract the other streams to
what they can do to one (write a STATE, fail, set `pk_chunking`). `TokenCache`
takes a browser login as one step, `BrowserLogin` opens that step. The three login
modules have disjoint names (`TimerSpec`, `CacheSpec`, `BrowserSpec` and so on), so that
`LoginProofs` can extend them all.

**AtLeastOnce.** The abstract specification: `changes` of each record, the `copy` the
destination shows, the `cursor` of the next run. Deliveries only move a record
forward, rows are dropped only while the cursor still lies before them, and no
cursor passes a change the destination lacks. `StreamSync` maps the org, the target and
the last STATE to it (`Promise == INSTANCE AtLeastOnce WITH ...`), and
`DeliversAtLeastOnce` says that a stream implements it.

**SalesforceOrg** (external). `stamp[r]` is the replication key of the committed
version of record `r`, `pending[r]` that of a save in flight. A save takes its
key when it begins and becomes visible when it commits, at most `CommitDelay`
later: this is why the tap has a `lookback_window`. `Snapshot(from, upto)` is
what a query over a window of keys returns at the moment it runs.

**TapState.** One stream's entry of the state (`bookmark`, `version`, `JobID`,
`BatchIDs`, `JobHighestBookmarkSeen`), `BuildState` (what of a state file is carried
over) and `GetStartDate` (bookmark less lookback, or the configured start date).

**StreamSync.** The process (`down`, `up`, or `draining` after a stream failed
and the loop closed), the stream's place in the code `pc`, the entry in memory
(`mem`), the last STATE written (`persisted`) and the destination (`target`, where
RECORD upserts and ACTIVATE_VERSION drops rows of other versions). `EmitRecord` and
`WriteBookmark` are two steps, because another thread's STATE or a crash can fall
between them; STATE after a record is a nondeterministic choice, because
`counter.value` is reset by the metrics thread of the counter and is a multiple of
the threshold at records one cannot predict.

**RestSync.** `_query_recur` unrolled: a window `[from, upto)`, the instant `syncStart` it
was opened at, the retries left. `HalveWindow` is QUERY_TIMEOUT at any page,
`NextWindow` the query from the end of a halved window, `GiveUp` the two errors. A
query is read as one snapshot: Salesforce's cursor pages over the result of the
first request.

**BulkSync.** A single ordered batch; when it times out, a PK chunked job whose
batches run one by one on the server at *different* times (`RunBatch`), no longer apart
than `MaxJobSpan`. `SaveJobID` and `SaveBatchIDs` are the two writes of
`bulk.py:117-118`. With the flag set the bookmark waits in `JobHighestBookmarkSeen`
(`WriteHighest`) and is written when all batches are read (`WriteFinalBookmark`). A
run that finds a JobID resumes: `ResumeJob` to `FinishResume`.

**Bulk2Sync.** Create, poll, read the pages in any order of their keys. A job's
failure is a failure of the stream.

**FullTableSync.** `org[r]` counts the saves of a record, or is `Gone`; a row of the
target has that number and the version it was written under. `early` is the version of
`_sync_catalog_entry`, `version` that of `_sync_records` or of a resumed query; a
new version is one no row carries, or, within one millisecond, the one just taken. The
catalog says FULL_TABLE or says nothing (as `--discover` writes it), which `build_state`
tells apart. A plain query reads the table at once; a PK chunked job reads each
batch when the server runs it, can be resumed by a later run and can expire.

**Orchestrator.** `at[s]` is the place of stream `s`: new, queued, on a thread of the
pool, or ended. An answer has a `Sforce-Limit-Info` that shows the usage (`within` the
limit or `past` it), one that does not match (`other`: counted, never checked,
`client.py:95`), or none (neither counted nor checked, `client.py:85`). Both counters are
incremented in two steps, `LoadCount` and `StoreCount`, `LoadJobs` and `StoreJobs`, since
no lock keeps the threads from interleaving there; the check reads the count again.
`LoseAnswer` is a request that backoff repeats, counted by Salesforce or not. `RunJob` is
the job of one batch, `RunChunkedJob` the second job of any number of batches that follows
a QUERY_TIMEOUT. `GatherRaises` closes the loop at the first failure while queued work
stays queued; `Exit` waits for the pool, as the interpreter does. `unseen`, `unread` and
`late` are not in the code: they say what the checks cannot know.

**Catalog.** `DescribeBatch` is one composite request, of any batch of the objects
left; `Inclusion` and `FieldMetadata` are what `field_to_property_schema` and
`_check_field_support` leave in the metadata, in the order they write it.
`EditCatalog` is the user; `SyncStream` chooses the fields of the query
(`ShouldSyncField`) and of the SCHEMA (`IsPropertySelected`).

**LoginTimer.** `main` is the main thread, `login` the login in progress, `timer` the
`threading.Timer` that `self.login_timer` refers to. Each Timer, once it runs, is the
only thread in `login`, so one variable holds them all. `LoadTimer` and
`CancelTimer` are the load of the attribute and the call of `cancel()`; `held`
is FALSE when `login` replaced the timer between them. Time is discrete: a timer
fires when it is due, an exchange takes up to `LoginTime`.

**TokenCache.** Any number of processes run `acquire_token`: load, exchange
(the answer may rotate the token, which revokes the one used), browser flow
on rejection, store. Whether the keyring package is installed is chosen at the start.
A write of the file is two steps, the truncation and the content.

**BrowserLogin.** The main thread polls `server.oauth_result` until there is one or the
deadline passes, and then calls `shutdown()`; the server's thread handles one
connection at a time and sees the shutdown only between two. Connections are the
callback of this login (`code`, `error`), of an earlier one (`stale`), any other request
(`page`) or one on which nothing is sent (`idle`).

## 3. Runs

| Run | Properties | Bounds |
|---|---|---|
| `rest_sync` | `TypeOK` `DeliversAtLeastOnce` `EveryChangeDelivered` `RunEnds` | 2 records, instants 0..2, commits up to 1 late, lookback 1, other streams, 2 faults, windows down to 1 tick, 2 retries |
| `bulk_safety` | `TypeOK` `RemovedBatchesDelivered` `DeliversAtLeastOnce` | 2 records in 2 batches, instants 0..2, span 1, lookback 1, other streams, 1 job, 1 fault |
| `bulk_recovery` | `DeliveredUnlessJobLost` `StoredJobIsDropped` | 2 records in 2 batches, instants 0..1, jobs expire, other streams, 1 job, 1 fault |
| `bulk2_sync` | `TypeOK` `NoGapBetweenRuns` `RunEnds` | 2 records, instants 0..3, commits up to 1 late, lookback 1, other streams, 1 fault |
| `full_table` | `TypeOK` `CompletedRunIsExact` `OnlyPurgedRowsDropped` `TargetBecomesTheTable` | 2 records in 2 batches, 5 versions, 2 edits of a record, 1 fault |
| `orchestrator` | `TypeOK` `QuotaOverrunIsBounded` `BulkOverrunIsBounded` `CountersNeverOvercount` `RunEnds` | 4 streams, 3 selected, 2 workers, 2 tries, limits of 1 request, 0 jobs and batches, PK chunked jobs of up to 2 batches, 1 foreign request |
| `catalog` | `TypeOK` `CatalogIsComplete` `KeysAreQueried` `UnsupportedNeverQueried` `QueryFitsSchema` | 7 objects, batches of 2, every type class of a field, 3 combinations of replication keys |
| `login_refresh` | `TimerTypeOK` `RefreshKeepsGoing` `TokenStaysFresh` `ProcessExits` | period 3, exchange 2, job 12 ticks, 2 failures in a row |
| `token_cache` | `CacheTypeOK` `CachedTokenIsAccepted` `CacheRecovers` | 2 processes, 5 tokens, 4 kinds of fault, each once |
| `browser_login` | `BrowserTypeOK` `OutcomeIsExplained` `NoAnswerAfterTheResult` `LoginEnds` | 4 connections |

The bounds are small because each property, where a plausible mistake breaks it, is
broken by two records, two threads, or two processes in an order of few steps:
`PROJECT.json` has for each property of each run such a mistake, under which the run
does find a violation. Every safety property is also proved for all values of the
constants (section 4).

What they show:

- `rest_sync`: REST implements `AtLeastOnce`, delivers everything and always ends. Two
  records and three instants are the least with which an order of rows, a halved
  window and a late commit can disagree; the second fault lets a window time out again
  after it was halved.
- `bulk_safety`: BULK loses nothing *provided the lookback covers the span of a
  job's batches*. With other streams the flag `pk_chunking` changes at any moment,
  and STATE can be written between any two steps. Expiring jobs are kept out:
  `bulk_lost_job` shows that they do lose changes.
- `bulk_recovery`: after a failure or crash in the middle of a job, a resumed job ends;
  even a torn STATE (a JobID without batches), which makes each resume fail, is
  resolved when the job expires; and unless a job with unread batches was deleted,
  every change arrives.
- `bulk2_sync`: an unordered result is harmless as long as the run does not fail.
- `full_table`: rows of aborted runs and of resumed jobs never survive a completed run,
  and only deleted rows are dropped. The exception is a catalog that does not say
  FULL_TABLE, where every run empties the table first (`sync_orchestrator.py:126`):
  `TargetBecomesTheTable` asks of it only that the table is complete again and again.
  Five versions are one for each row, two for the run, and a new one.
- `orchestrator`: of the requests whose answer shows the usage, each selected stream makes
  one past the limit of the org at most; only streams that held a thread when the Bulk
  limit was passed start a job after; lost increments make the tap ask for more, never for
  less than it may; and the process ends, although a failure closes the loop over streams
  that are queued. What the code does *not* bound: requests whose answer does not show the
  usage (a test asserts that nothing happens then); the batches of a PK chunked job; and
  the requests past `quota_percent_per_run`, whose count a late store can set back.
  Two workers and three selected streams leave one queued when another fails; the
  deselected one returns at once. The BULK limits are 0 because one job is then past
  them, and with a limit of 1 request the second answer of any stream is.
- `catalog`: neither the order of batches nor the user's choice, nor another default
  in the run that syncs, lets a query miss a key, ask for what the API refuses, or
  return a field the SCHEMA does not have.
- `login_refresh`: the timer neither starves nor outlives the job *when the
  interpreter refuses new threads at shutdown*. The job spans several periods and the
  failures several timers.
- `token_cache`: two processes that use up each other's token end with an accepted
  one. Four tokens can be referred to at once (two caches, two processes), so five are
  enough for a new one; tokens that no one refers to are reused.
- `browser_login`: a stray request never passes for the callback, a callback whose page
  was shown is never dropped for the deadline. Four connections are a callback
  preceded and followed by another, and one that blocks the server.

**Deadlock** is checked where the system runs for ever (the tap is started again and
again, processes log in again and again) and in `LoginTimer`, where a process that has
exited only stutters (`Ended`); none is found. `orchestrator`,
`catalog` and `browser_login` model one run, which ends; there liveness says that it
does (`RunEnds`, `LoginEnds`).

**Fairness.** The worker and the coroutine run on (the operating system
schedules threads), committed saves become visible, time passes, batches and
jobs run on the server, Salesforce deletes old jobs (it does after seven days), and the
operator's scheduler starts the tap again after each run: weak fairness of these. No
fault, timeout or new save is ever required, and the faults of a behaviour are
finitely many; a job that expires under the run that reads it is such a fault in
`FullTableSync`. In `Orchestrator` every thread runs. In `TokenCache` each process logs
in again and again and the user completes the browser's login. In `BrowserLogin`
nobody has to log in, but the clock reaches the deadline and a browser closes
an idle connection some day. `RunEnds` of BULK2 leaves out jobs that an administrator
aborts: `_wait_for_job` knows only `JobComplete` and `Failed`, and polls an aborted job
for ever.

### Runs that must find a violation

| Run | What a text of the repository says | What the run shows |
|---|---|---|
| `bulk_lost_job` | "resetting bookmark and removing JobID from state" (`sync.py:56`) | the bookmark moves forward to the highest one seen, with batches unread |
| `login_exit` | "Don't run indefinitely when using OAuth ..." (`CHANGELOG.md:169`) | `cancel()` during a login does nothing, and the login arms another timer |

Other behaviours are visible in the models and have no run of their own. A resumed
job compares keys with the start of the *resuming* run, so without a sufficient
lookback a late batch lifts the bookmark above changes an earlier batch could not see.
BULK2 rows are unordered: a STATE in the middle of a result followed by a crash skips the
rest, which is why `NoGapBetweenRuns` ends at the first failure. A refresh
token stored in the file is hidden by an older one in the keychain once the keychain
can be read again; the next login replaces it. A PK chunked job read to its end stays in
the STATE, so the next run only "resumes" it and reads nothing new; the two
writes of `bulk.py:117-118` can be torn by another thread's STATE; a resume that
never saw a bookmark replaces the stored one by null (the next run then starts at the
start date); the shared flag makes a stream without a job keep its bookmark in
`JobHighestBookmarkSeen`. Of the BULK ones none skips a change, as `bulk_safety`
shows; they cost time, or a failing run.

## 4. Proofs

Theorems hold for every value of the constants that meets the named assumptions of
the modules: naturals where the code has counts and durations (`OrgAssumption`,
`SyncAssumption`, `RestAssumption`, `OrchestratorAssumption`, `TimerAssumption`,
`BrowserAssumption`), a batch for each record (`BulkAssumption`,
`FullTableAssumption`), and a null that is no value (`StateAssumption`,
`CacheAssumption`, `CatalogAssumption`, `EntryAssumption`). Each module with variables
has a theorem that says its type invariant holds (`TypeCorrect`, `TimerTypeCorrect`,
`CacheTypeCorrect`, `BrowserTypeCorrect`); with the eight proof modules every
safety property of section 3 is a theorem.

**RestSyncProofs.** `ImplementsAtLeastOnce` (`Spec => DeliversAtLeastOnce`) and
`NothingSkipped` (`Spec => []NoGap`) under `LookbackAssumption`:
`Lookback >= CommitDelay`, the condition an operator must meet. `NoGap` is not
inductive: it says nothing of the bookmark in memory, which becomes STATE at any
moment, nor of rows that are still to be read. The inductive invariant `IInv`
(theorem `Inductive`) adds `Covers(mem)` and follows every *outstanding* change, one
the target does not show, through the query:

- while a window is about to be opened (`Ahead`), the change is at or after the
  window's start, or `Late`: not earlier than `startTime - CommitDelay`, so that the
  bookmarks of this run, never above `startTime`, cannot pass it by more than the
  lookback;
- while its rows are being read (`InHand`), the change is among the rows not yet
  written, or after the window's end, or late.

`InWindow` says that rows come in the order of their keys, so a bookmark is never above a
row still in hand; `InTime` bounds bookmarks and pending saves by the clock;
`InVersion` ties the version in the state to that of the rows in the target, so
that ACTIVATE_VERSION wipes rows only when there is no bookmark to lose them behind.
The proof takes the actions one by one, and for each the parts it can disturb. The
refinement maps each step to one of the promise's (`PromiseDeliver`,
`PromiseEmpty`, `PromiseChange`, a checkpoint) or to a stutter.

**Bulk2SyncProofs.** `NoGapWithoutFailure` (`NoGapBetweenRuns`), under the same
`LookbackAssumption`. Here no order helps: in the middle of a result `Covers(mem)` is
false. The invariant `Traced` therefore follows the outstanding changes from the query
to the end of the result, and only at the end, when nothing is left in hand, is what
is still outstanding late, so that the bookmark, whichever row it came from, covers it.
`Control` says that without a failure no other way out of a run is taken.

**BulkSyncProofs.** `CheckedOffIsDelivered` (`RemovedBatchesDelivered`), whatever crashes,
expires or is torn. The invariant says it of the entry in memory as well
(`CheckedOff`), follows the batch being read (`InBatch`: each row is in hand or
shown), and needs that a job is only stored when all of its batches have run
(`StoredJobHasRun`) and that a record is in one batch, once (`JobRows`).

**BulkPromiseProofs.** BULK implements `AtLeastOnce` as well: `DeliversUnlessJobLost`
(`Spec /\ []~JobLost => DeliversAtLeastOnce`), `NothingSkipped` (the same for `NoGap`),
and, as `JobsStay` says that a job Salesforce does not delete is not lost,
`ImplementsAtLeastOnce` (`Spec => DeliversAtLeastOnce` if `~JobsExpire`). All but `JobsStay`
have the hypothesis `Lookback >= MaxJobSpan + CommitDelay`, the condition an operator
must meet; `bulk_safety` runs on an instance of it, and `bulk_lost_job` shows why
the other one is there. A PK chunked job is harder than a window: its batches run at
different times and its rows come unordered, its bookmark is taken with the clock of
whichever run reads it, and it outlives the run that made it. `PInv` (theorem
`PromiseInvariant`) adds to the invariant of BulkSyncProofs

- `Traced`: while the job may still be read, an outstanding change is among the rows of
  its batch, or that batch has not run and will find it, or it is `JobLate`, not
  earlier than `job.began - CommitDelay`;
- `Listed`, of both entries: it is in a batch the entry lists, or `JobLate`. So when no
  batch is left, nothing older than the job is outstanding;
- `Marks`: an entry with a job has no bookmark later than `LastKey`, the end of the
  job's span. This is where the lookback is used: `LastKey - Lookback` is not later
  than any `JobLate` change;
- `InHand` and `RowsInHand`: the rows not yet written, those of a single batch in order
  (`PlainRead`), those of a job's batch in none;
- `JobSpan`: no row of a job is older than the target's, so a resumed job never moves
  a record back;
- `InVersion`, `InTime`, as for REST; `InJob` and `Chunked`, what the place in the code
  says of the stored job and of the highest key seen.

`MemStep`, `PersistedStep`, `TargetStep`, `JobStep` and `OrgSteps` say once which steps
write which variable; the lemma of each part takes only those.

**FullTableProofs.** `RunIsExact` (`CompletedRunIsExact`) and
`ActivationDropsOnlyPurged` (`OnlyPurgedRowsDropped`). `Versions` says that a version is
new when it is taken and marks nothing but rows of the run; `Read` that a record the
query returned is written or `Due`, so that at `final` the rows of the version are the
result; `Job` that a record a batch did not find is absent from the target or gone
from the org, although the batches ran at different times; `NoVersion` that a FULL_TABLE
catalog leaves no version in the state, so the early activation is never taken.

**OrchestratorProofs.** `QuotaHolds` (`QuotaOverrunIsBounded`), `BulkQuotaHolds`
(`BulkOverrunIsBounded`), `CountsAreHonest` (`CountersNeverOvercount`), for any number of
streams and threads and jobs of any size. The invariant counts streams. One that saw the
limit passed (`Past`) leaves by its check, so there are as many such answers as streams
at most. A request between its answer and its store (`InCount`) is missing from the
counter, and from every value of it that another thread has loaded and will store; a job
is counted when its stream returns (`Done`). The streams that may start a job although
the Bulk limit is passed (`late`, and `Ready`: asked before it was) all held a thread
when it was passed, and none joins them (lemmas `BulkUsed` and `BulkKept`). The lemma
`Moving` says how a stream that changes place changes each of these cardinalities.

**CatalogProofs.** `CompleteCatalog` (`CatalogIsComplete`), `QueriedFieldsInSchema`
(`QueryFitsSchema`), `KeysQueried` (`KeysAreQueried`) and `UnsupportedNotQueried`
(`UnsupportedNeverQueried`), for any org, tags, fields and batch size. The invariant says
which objects have an entry in the middle of a discovery (`Listed`), that the tags known
are those of the objects described (`Known`, with the lemma `TagsFound` about
`AntiFunction`), and that an entry keeps the inclusions discovery gave it, whatever the
user selects (`Entries`). That an available field is never deselected by default is what
makes the two choices of fields agree. `KeysQueried` and `UnsupportedNotQueried` need
`KeyAssumption`: Salesforce's ids and system dates are of a type both APIs return, and
an Id is no formula.

**LoginProofs.** Of `BrowserLogin`: `LoginEndsAsTold` (`OutcomeIsExplained`) and
`NobodyIsToldLate` (`NoAnswerAfterTheResult`) for any number of connections: the result is
the callback answered last (`Answered`), and is read only when the server has stopped
(`Stopped`). Of `LoginTimer`: `RefreshNeverStops` (`RefreshKeepsGoing`) and
`TokenAgeIsBounded` (`TokenStaysFresh`), for every period, exchange time and number of
failures. The invariant adds that only the main thread's cancel ends a timer, and
`AgeBound`, the age by the step of the refresh: while a timer waits, age plus the ticks
left; while an exchange runs, age less the ticks it took. Of `TokenCache`:
`CacheStaysFresh` (`CachedTokenIsAccepted`) for any number of processes. The strengthening
says that a token on its way to the cache is accepted and nobody else holds it, and that
the file is written only where there is no keychain.

Only model-checked: liveness (`EveryChangeDelivered`, `RunEnds`, `DeliveredUnlessJobLost`,
`StoredJobIsDropped`, `TargetBecomesTheTable`, `ProcessExits`, `CacheRecovers`,
`LoginEnds`), which is out of reach of the prover.

## 5. Abstractions

- Instants are integers; a record's fields, its name and the SOQL text are left
  out; a row is a record and its key. Records of incremental streams do not disappear.
- One stream is modelled in full. The others act on it through what they share;
  what many streams do to the pool and the client is in `Orchestrator`.
- Keys and the tap's clock come from one clock: the skew between Salesforce's and the
  tap's is part of what the lookback has to cover.
- The state file of a run is the last STATE of the run before it, as Singer runners do.
- In `Orchestrator` a BULK stream makes one request that is counted or checked: the
  answers of the Bulk API carry no usage header. The usage in an answer is kept as the
  comparison the check will make; the limits are numbers of requests and batches, not
  percentages.
- In `Catalog` a field has a type class (known or not, compound, JSON, binary), not a
  type; the JSON schema it is given is left out, and so are nested properties.
- Counters are bounded by `MaxClock`, `MaxFaults`, `MaxJobs`, `MaxEdits`, `MaxFailures`,
  `MaxForeign`, `MaxChunks`, `MaxConnections` and `JobTime`; `age` stops counting one above the
  bound it is compared with.

## 6. Plan

Done, in order: `SalesforceOrg`, `TapState`, `StreamSync`; `RestSync` and its
proofs; `BulkSync`; `Bulk2Sync`; `LoginTimer` and `TokenCache` with theirs;
`AtLeastOnce` with the refinements of REST and BULK; `FullTableSync`, `Orchestrator`,
`Catalog`, `BrowserLogin`; the proofs of all of these, the refinement of BULK and
`Catalog` last.

Left, the most valuable first:

1. The safety facts under the liveness properties as theorems: that a step of a run
   lowers a measure (windows, retries, batches left), so that only fairness is taken
   from TLC.
2. The login timer composed with a query that is longer than a session (the headers
   of a REST window are taken once, `rest.py:25`).
3. User filters of the query; nested properties and `remove_blank_rows`.

Not modelled: the table of JSON types, configuration defaults, the parsing of
credentials and the exception classes change no state and are covered by unit tests;
an aborted BULK2 job (polled for ever), and a PK chunked job whose first batch is seen
before Salesforce has split it, depend on what Salesforce does and not on this code.
