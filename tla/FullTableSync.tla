---------------------------- MODULE FullTableSync ---------------------------
(***************************************************************************)
(* One stream without a replication key, whose table is read whole in each *)
(* run and whose deleted rows go away by versions: rows are written under  *)
(* a new version, and ACTIVATE_VERSION makes the target drop the rows of   *)
(* every other one.  sync_orchestrator.py, sync.py and the Bulk query of   *)
(* salesforce/bulk.py, over any number of runs.                            *)
(*                                                                         *)
(* A catalog says "replication-method" = FULL_TABLE for the stream, or, as *)
(* --discover writes it, does not say.                                     *)
(***************************************************************************)
EXTENDS Integers, FiniteSets

CONSTANTS
  Record,       \* the records of the object
  Batch,        \* the batches Salesforce chunks a job into
  BatchOf,      \* BatchOf[r]: the batch whose primary keys include r's
  Version,      \* stream versions (milliseconds): only equality counts
  None,         \* an absent or null value
  MaxEdits,     \* bound: saves of a record
  MaxFaults     \* bound: failures and crashes in a behaviour

\* The stream's entry of a state.  It holds the id of the last job or none.
Entry == [version : Version \cup {None}, job : BOOLEAN,
          batches : (SUBSET Batch) \cup {None}]

ASSUME FullTableAssumption ==
  /\ BatchOf \in [Record -> Batch]
  /\ Version \subseteq Nat \ {0}
  /\ None \notin Version /\ None \notin Batch /\ None # "FULL_TABLE"
  /\ None \notin Entry
  /\ \A b \in SUBSET Batch : None # b
  /\ MaxEdits \in Nat \ {0} /\ MaxFaults \in Nat

VARIABLES
  org,          \* org[r]: saves of r so far, or Gone
  target,       \* target[r]: the row of r in the destination
  method,       \* the stream's replication-method in the catalog
  mem,          \* the stream's entry of the state dict, None when there is none
  persisted,    \* the stream's entry of the last STATE message
  process,      \* "down", "up", or "draining": loop closed, workers still run
  pc,           \* where the stream is in the code
  early,        \* stream_version of _sync_catalog_entry
  version,      \* stream_version of _sync_records or of the resumed query
  result,       \* what the query of this run returned for each record
  todo,         \* records whose row is still to be written
  job,          \* the PK chunked job created last
  batch,        \* its batch being read, or None
  resuming,     \* TRUE in resume_syncing_bulk_query
  faults        \* failures and crashes so far

cloud == <<org, job>>
entries == <<mem, persisted>>
run == <<method, process, early, resuming>>
query == <<version, result, todo, batch>>
vars == <<cloud, entries, run, query, target, pc, faults>>

Gone == -1          \* deleted for good: queryAll returns what is in the bin
NoRow == [d |-> 0, v |-> 0]
NoResult == [r \in Record |-> 0]
NewEntry == [version |-> None, job |-> FALSE, batches |-> None]

NoJob == [ran |-> {}, rows |-> NoResult, alive |-> FALSE]

Init ==
  /\ org \in [Record -> {0, 1}]
  /\ target = [r \in Record |-> NoRow]
  /\ method \in {"FULL_TABLE", None}
  /\ mem = None /\ persisted = None
  /\ process = "down" /\ pc = "idle"
  /\ early = 0 /\ version = 0
  /\ result = NoResult /\ todo = {}
  /\ job = NoJob /\ batch = None /\ resuming = FALSE
  /\ faults = 0

-----------------------------------------------------------------------------
(* The org and the jobs it runs. *)

\* A row as a query returns it: 0 for a record that is not there.
Row(r) == IF org[r] > 0 THEN org[r] ELSE 0

Save(r) == org[r] \in 0 .. MaxEdits - 1 /\ org' = [org EXCEPT ![r] = @ + 1]
Purge(r) == org[r] > 0 /\ org' = [org EXCEPT ![r] = Gone]

OrgChanges ==
  /\ \E r \in Record : Save(r) \/ Purge(r)
  /\ UNCHANGED <<entries, run, query, job, faults, target, pc>>

RunBatch ==
  /\ job.alive
  /\ \E b \in Batch \ job.ran :
       job' = [job EXCEPT
         !.ran = @ \cup {b},
         !.rows = [r \in Record |-> IF BatchOf[r] = b THEN Row(r) ELSE @[r]]]
  /\ UNCHANGED <<entries, run, query, org, faults, target, pc>>

\* Salesforce deletes a job days after its last batch; a run that still waits
\* for it or reads it then is a fault.
ExpireJob ==
  /\ job.alive
  /\ job.ran = Batch
  /\ job' = NoJob
  /\ IF pc \in {"poll", "saveJob", "saveBatches", "batches", "rows"}
       THEN faults < MaxFaults /\ faults' = faults + 1
       ELSE UNCHANGED faults
  /\ UNCHANGED <<entries, run, query, org, target, pc>>

-----------------------------------------------------------------------------
(* The coroutine: main_impl, sync and _sync_catalog_entry. *)

\* An entry is carried over with its job; a null version makes one, too.
BuildState(raw) ==
  LET old == IF raw = None THEN NewEntry ELSE raw IN
  IF old.job THEN [old EXCEPT !.version = None]
  ELSE IF method = "FULL_TABLE" /\ old.version = None THEN NewEntry
  ELSE None

StartRun ==
  /\ process = "down"
  /\ process' = "up"
  /\ pc' = "ready"
  /\ mem' = BuildState(persisted)
  /\ UNCHANGED <<cloud, query, method, faults, target, persisted, early, resuming>>

\* Some version no row carries: int(time.time() * 1000) is always a new one.
NewVersion(v) ==
  LET InUse(w) == w \in {early, version} \/ \E r \in Record : target[r].v = w IN
  v \in Version /\ ~InUse(v) /\ \A w \in Version : w < v => InUse(w)

\* Without a replication key, get_stream_version never reads the state's.
SyncCatalogEntry ==
  /\ pc = "ready"
  /\ NewVersion(early')
  /\ persisted' = mem
  /\ pc' = IF mem = None THEN "activate" ELSE IF mem.job THEN "resume" ELSE "queued"
  /\ UNCHANGED <<cloud, query, method, faults, target, mem, process, resuming>>

\* The target drops every row of another version.
Keep(v) == [r \in Record |-> IF target[r].v = v THEN target[r] ELSE NoRow]

\* bookmark_is_empty: there is no entry for the stream in the state.
ActivateEarly ==
  /\ pc = "activate"
  /\ target' = Keep(early)
  /\ pc' = "version"
  /\ UNCHANGED <<cloud, entries, run, query, faults>>

WriteVersion ==
  /\ pc = "version"
  /\ mem' = [NewEntry EXCEPT !.version = early]
  /\ pc' = "queued"
  /\ UNCHANGED <<cloud, run, query, faults, target, persisted>>

-----------------------------------------------------------------------------
(* The worker thread: sync_stream, _sync_records and Bulk.query. *)

\* Mutant of BeginSyncRecords: the version is read from the state.
BeginWithStoredVersion ==
  /\ pc = "queued"
  /\ version' = mem.version
  /\ pc' = "query"
  /\ UNCHANGED <<cloud, entries, run, faults, target, result, todo, batch>>

\* Generated again: a new version, or the same one in the same millisecond.
BeginSyncRecords ==
  /\ pc = "queued"
  /\ NewVersion(version') \/ version' = early
  /\ pc' = "query"
  /\ UNCHANGED <<cloud, entries, run, faults, target, result, todo, batch>>

\* The whole table in one result: REST, BULK2, or the single batch of a job.
PlainQuery ==
  /\ pc = "query"
  /\ result' = [r \in Record |-> Row(r)]
  /\ todo' = {r \in Record : result'[r] > 0}
  /\ pc' = "rows"
  /\ UNCHANGED <<cloud, entries, run, faults, target, version, batch>>

\* The single batch timed out: a PK chunked job is created.
FallBackToPkChunking ==
  /\ pc = "query"
  /\ job' = [NoJob EXCEPT !.alive = TRUE]
  /\ pc' = "poll"
  /\ UNCHANGED <<entries, run, query, org, faults, target>>

\* No batch is queued or in progress any more.
PkJobCompletes ==
  /\ pc = "poll"
  /\ job.alive /\ job.ran = Batch
  /\ result' = job.rows
  /\ pc' = "saveJob"
  /\ UNCHANGED <<cloud, entries, run, faults, target, version, todo, batch>>

SaveJobID ==
  /\ pc = "saveJob"
  /\ mem' = [mem EXCEPT !.job = TRUE]
  /\ pc' = "saveBatches"
  /\ UNCHANGED <<cloud, run, query, faults, target, persisted>>

SaveBatchIDs ==
  /\ pc = "saveBatches"
  /\ mem' = [mem EXCEPT !.batches = Batch]
  /\ pc' = "batches"
  /\ UNCHANGED <<cloud, run, query, faults, target, persisted>>

\* get_batch_results, of a fresh or of a resumed job.
OpenBatch ==
  /\ pc = "batches"
  /\ job.alive
  /\ batch' \in mem.batches
  /\ todo' = {r \in Record : BatchOf[r] = batch' /\ job.rows[r] > 0}
  /\ result' = IF resuming THEN job.rows ELSE result
  /\ pc' = "rows"
  /\ UNCHANGED <<cloud, entries, run, faults, target, version>>

\* The RECORD message of one row.
EmitRow(r) ==
  /\ pc = "rows"
  /\ r \in todo
  /\ target' = [target EXCEPT ![r] = [d |-> result[r], v |-> version]]
  /\ todo' = todo \ {r}
  /\ UNCHANGED <<cloud, entries, run, faults, pc, version, result, batch>>

\* The batch is taken off the state, and the STATE is written.
FinishBatch ==
  /\ pc = "rows"
  /\ batch # None
  /\ todo = {}
  /\ mem' = [mem EXCEPT !.batches = @ \ {batch}]
  /\ persisted' = mem'
  /\ batch' = None
  /\ pc' = "batches"
  /\ UNCHANGED <<cloud, run, faults, target, version, result, todo>>

\* The query is exhausted: the single result is, or no batch of the job is left.
QueryExhausted ==
  /\ ~resuming
  /\ \/ pc = "rows" /\ batch = None /\ todo = {}
     \/ pc = "batches" /\ mem.batches = {}
  /\ pc' = "final"
  /\ UNCHANGED <<cloud, entries, run, query, faults, target>>

\* Mutant of ActivateVersion: the coroutine's message instead of _sync_records'.
ActivateEarlyVersion ==
  /\ pc = "final"
  /\ target' = Keep(early)
  /\ pc' = "reset"
  /\ UNCHANGED <<cloud, entries, run, query, faults>>

ActivateVersion ==
  /\ pc = "final"
  /\ target' = Keep(version)
  /\ pc' = "reset"
  /\ UNCHANGED <<cloud, entries, run, query, faults>>

\* Mutant of ResetVersion: the version stays in the state, as for other streams.
KeepVersion ==
  /\ pc = "reset"
  /\ mem' = [mem EXCEPT !.version = version]
  /\ pc' = "synced"
  /\ UNCHANGED <<cloud, run, query, faults, target, persisted>>

ResetVersion ==
  /\ pc = "reset"
  /\ mem' = [mem EXCEPT !.version = None]
  /\ pc' = "synced"
  /\ UNCHANGED <<cloud, run, query, faults, target, persisted>>

FinishStream ==
  /\ pc = "synced"
  /\ persisted' = mem
  /\ pc' = "returned"
  /\ UNCHANGED <<cloud, run, query, faults, target, mem>>

-----------------------------------------------------------------------------
(* A resumed job: resume_syncing_bulk_query and _resume_bulk_job. *)

\* The rows left are written under a version of their own, never activated.
ResumeJob ==
  /\ pc = "resume"
  /\ mem.batches # None
  /\ NewVersion(version') \/ version' = early
  /\ resuming' = TRUE
  /\ pc' = IF job.alive THEN "batches" ELSE "resumed"
  /\ UNCHANGED <<cloud, entries, method, faults, target, process, early, result, todo, batch>>

\* The last of its batches is read.
EndResume ==
  /\ pc = "batches"
  /\ resuming
  /\ mem.batches = {}
  /\ pc' = "resumed"
  /\ UNCHANGED <<cloud, entries, run, query, faults, target>>

\* Mutant of DropJob: the JobID stays in the state.
KeepJob ==
  /\ pc = "resumed"
  /\ process = "up"
  /\ pc' = "drop"
  /\ UNCHANGED <<cloud, entries, run, query, faults, target>>

DropJob ==
  /\ pc = "resumed"
  /\ process = "up"
  /\ mem' = [mem EXCEPT !.job = FALSE]
  /\ pc' = "drop"
  /\ UNCHANGED <<cloud, run, query, faults, target, persisted>>

FinishResume ==
  /\ pc = "drop"
  /\ mem' = [mem EXCEPT !.batches = None]
  /\ persisted' = mem'
  /\ pc' = "returned"
  /\ UNCHANGED <<cloud, run, query, faults, target>>

-----------------------------------------------------------------------------
(* The end of the process, the other streams and failures. *)

\* The places at which a worker thread runs this stream's work.
WorkerPC == {"query", "poll", "saveJob", "saveBatches", "batches", "rows",
             "final", "reset", "synced", "resume"}
PC == WorkerPC \cup {"idle", "ready", "activate", "version", "queued", "returned",
                     "resumed", "drop", "failed"}

Stop ==
  /\ process' = "down" /\ pc' = "idle"
  /\ mem' = None
  /\ early' = 0 /\ version' = 0
  /\ result' = NoResult /\ todo' = {}
  /\ batch' = None /\ resuming' = FALSE
  /\ UNCHANGED <<cloud, method, target>>

FinishSync == process = "up" /\ pc = "returned" /\ persisted' = mem /\ Stop /\ UNCHANGED faults

\* gather raised: no final STATE.
ExitAfterFailure ==
  /\ process = "draining"
  /\ pc \in {"failed", "returned", "resumed"}
  /\ Stop
  /\ UNCHANGED <<faults, persisted>>

\* An exception in the worker closes the event loop.
Fail ==
  /\ pc' = "failed"
  /\ process' = "draining"
  /\ todo' = {} /\ batch' = None
  /\ UNCHANGED <<cloud, entries, method, target, early, resuming, version, result>>

StreamFails == faults < MaxFaults /\ pc \in WorkerPC /\ Fail /\ faults' = faults + 1

\* The job was deleted meanwhile, or is stored without its batches (TypeError).
JobUnusable ==
  /\ \/ pc \in {"poll", "batches"} /\ ~job.alive /\ (pc = "batches" => mem.batches # {})
     \/ pc = "resume" /\ mem.batches = None /\ job.alive
  /\ Fail
  /\ UNCHANGED faults

\* A job stored without its batches, and deleted since: nothing is read of it.
JobForgotten ==
  /\ pc = "resume" /\ mem.batches = None /\ ~job.alive
  /\ pc' = "resumed"
  /\ UNCHANGED <<cloud, entries, run, query, faults, target>>

\* Another stream fails; this one's work was submitted before and runs on.
OtherStreamFails ==
  /\ faults < MaxFaults
  /\ process = "up"
  /\ pc \in WorkerPC \cup {"queued", "returned", "resumed"}
  /\ process' = "draining"
  /\ faults' = faults + 1
  /\ UNCHANGED <<cloud, entries, query, method, target, pc, early, resuming>>

\* The STATE another stream's thread writes carries this stream's entry.
OtherWritesState ==
  /\ process # "down"
  /\ persisted' = mem
  /\ UNCHANGED <<cloud, run, query, faults, target, mem, pc>>

Crash ==
  /\ faults < MaxFaults
  /\ process # "down"
  /\ faults' = faults + 1
  /\ Stop
  /\ UNCHANGED persisted

-----------------------------------------------------------------------------
Coroutine == StartRun \/ SyncCatalogEntry \/ ActivateEarly \/ WriteVersion
             \/ DropJob \/ FinishResume \/ FinishSync \/ ExitAfterFailure
Worker == \/ BeginSyncRecords \/ PlainQuery \/ PkJobCompletes \/ SaveJobID
          \/ SaveBatchIDs \/ OpenBatch \/ FinishBatch \/ QueryExhausted
          \/ ActivateVersion \/ ResetVersion \/ FinishStream
          \/ ResumeJob \/ JobForgotten \/ EndResume \/ JobUnusable
          \/ \E r \in Record : EmitRow(r)
Disturbance == StreamFails \/ OtherStreamFails \/ OtherWritesState \/ Crash

Next == Coroutine \/ Worker \/ FallBackToPkChunking \/ RunBatch \/ ExpireJob
        \/ OrgChanges \/ Disturbance

Spec == Init /\ [][Next]_vars

\* Threads run, batches run, jobs are deleted some day, and the tap is started
\* again and again; no failure, crash, timeout or change is required.
Fairness == WF_vars(Coroutine \/ Worker) /\ WF_vars(RunBatch) /\ WF_vars(ExpireJob)

FairSpec == Spec /\ Fairness

-----------------------------------------------------------------------------
(* Every variable has its type. *)
TypeOK ==
  /\ org \in [Record -> Int]
  /\ target \in [Record -> [d : Int, v : Version \cup {0}]]
  /\ method \in {"FULL_TABLE", None}
  /\ mem \in Entry \cup {None} /\ persisted \in Entry \cup {None}
  /\ process \in {"down", "up", "draining"} /\ pc \in PC
  /\ early \in Version \cup {0} /\ version \in Version \cup {0}
  /\ result \in [Record -> Int]
  /\ todo \subseteq Record
  /\ job \in [ran : SUBSET Batch, rows : [Record -> Int], alive : BOOLEAN]
  /\ batch \in Batch \cup {None}
  /\ resuming \in BOOLEAN
  /\ faults \in 0 .. MaxFaults

(* A step of the tap removes a record from the target only when the org has   *)
(* it no more.  The exception is the catalog that does not say FULL_TABLE:    *)
(* there every run starts by emptying the table (sync_orchestrator.py:126).   *)
OnlyPurgedRowsDropped ==
  [][\A r \in Record : target[r].d > 0 /\ target'[r].d = 0 =>
       org[r] = Gone \/ (method = None /\ pc = "activate")]_vars

(* A run that read the table leaves in the target what its query returned,    *)
(* row by row: nothing of earlier versions, of aborted runs or resumed jobs.  *)
CompletedRunIsExact ==
  pc \in {"reset", "synced"} => \A r \in Record : target[r].d = result[r]

Exact == \A r \in Record : target[r].d = Row(r)

(* Once records stop changing the target becomes the table, deletions         *)
(* included, whatever failed or was resumed before, and stays so with a       *)
(* catalog that says FULL_TABLE.                                              *)
TargetBecomesTheTable == []<>Exact /\ (method = "FULL_TABLE" => <>[]Exact)
=============================================================================
