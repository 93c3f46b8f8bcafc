----------------------------- MODULE StreamSync -----------------------------
(***************************************************************************)
(* One incremental stream of a run of the tap: the coroutine               *)
(* _sync_catalog_entry and the worker thread that executes sync_stream,    *)
(* from the start of the process to its exit, over any number of runs.     *)
(* The messages the tap writes are consumed in order by an external        *)
(* target: RECORD upserts, ACTIVATE_VERSION removes the rows of other      *)
(* versions, and the last STATE is what the next run is started with.      *)
(*                                                                         *)
(* What sf.query yields is left to the modules that extend this one        *)
(* (RestSync, BulkSync, Bulk2Sync): they fill todo while pc is "query" and *)
(* move pc to "synced" when the query is exhausted.                        *)
(***************************************************************************)
EXTENDS TapState

CONSTANTS
  OtherStreams,   \* TRUE when the catalog has other streams, synced concurrently
  MaxFaults       \* bound: failures and crashes in a behaviour

ASSUME SyncAssumption ==
  /\ OtherStreams \in BOOLEAN
  /\ MaxFaults \in Nat

VARIABLES
  mem,          \* the stream's entry of the state dict shared by all threads
  persisted,    \* the stream's entry of the last STATE message
  target,       \* target[r]: the row of r in the destination
  process,      \* "down", "up", or "draining": loop closed, workers still run
  pc,           \* where the stream is in the code
  startTime,    \* start_time of _sync_records, time_extracted of its records
  version,      \* stream_version
  todo,         \* rows of the current query result not yet written
  cur,          \* replication key of the record written last
  lastVersion,  \* the newest stream version ever generated
  faults        \* failures and crashes so far

tapVars == <<mem, persisted, target, process, pc, startTime, version, todo,
             cur, lastVersion, faults>>
syncVars == <<orgVars, tapVars>>

NoRow == [s |-> -1, v |-> 0]
NoKey == -1

\* The places at which a worker thread runs this stream's work.
WorkerPC == {"query", "window", "rows", "mark", "synced", "exists", "poll",
             "saveJob", "saveBatches", "batches", "final"}
PC == WorkerPC \cup
      {"idle", "ready", "resume", "activate", "version", "queued", "resumed",
       "drop", "returned", "failed"}

SyncInit ==
  /\ OrgInit
  /\ mem = EmptyState
  /\ persisted = EmptyState
  /\ target = [r \in Record |-> NoRow]
  /\ process = "down"
  /\ pc = "idle"
  /\ startTime = 0
  /\ version = 0
  /\ todo = {}
  /\ cur = NoKey
  /\ lastVersion = 0
  /\ faults = 0

-----------------------------------------------------------------------------
(* The coroutine: main_impl, sync and _sync_catalog_entry. *)

\* main_impl: the state file of the run is the last STATE of the runs before.
StartRun ==
  /\ process = "down"
  /\ process' = "up"
  /\ pc' = "ready"
  /\ mem' = BuildState(persisted)
  /\ UNCHANGED <<persisted, target, startTime, version, todo, cur, lastVersion,
                 faults>>

\* get_stream_version: a new version unless the state holds one.
StreamVersion(state) ==
  IF state.version = None THEN lastVersion + 1 ELSE state.version

\* Mutant of SyncCatalogEntry: no new version for a state without one.
SyncWithoutVersion ==
  /\ pc = "ready"
  /\ version' = mem.version
  /\ persisted' = mem
  /\ pc' = IF mem.jobID # None THEN "resume" ELSE "activate"
  /\ UNCHANGED <<mem, target, process, startTime, todo, cur, lastVersion, faults>>

\* A STATE is written before the choice between a resumed and a fresh sync.
SyncCatalogEntry ==
  /\ pc = "ready"
  /\ version' = StreamVersion(mem)
  /\ lastVersion' = IF version' > lastVersion THEN version' ELSE lastVersion
  /\ persisted' = mem
  /\ pc' = IF mem.jobID # None THEN "resume" ELSE "activate"
  /\ UNCHANGED <<mem, target, process, startTime, todo, cur, faults>>

\* The target drops every row that carries another version.
ActivateVersion ==
  /\ pc = "activate"
  /\ target' = [r \in Record |-> IF target[r].v = version THEN target[r] ELSE NoRow]
  /\ pc' = "version"
  /\ UNCHANGED <<mem, persisted, process, startTime, version, todo, cur,
                 lastVersion, faults>>

WriteVersion ==
  /\ pc = "version"
  /\ mem' = [mem EXCEPT !.version = version]
  /\ pc' = "queued"
  /\ UNCHANGED <<persisted, target, process, startTime, version, todo, cur,
                 lastVersion, faults>>

-----------------------------------------------------------------------------
(* The worker thread: sync_stream and _sync_records. *)

\* A worker is free: start_time is taken before the query is run.
BeginSyncRecords ==
  /\ pc = "queued"
  /\ startTime' = clock
  /\ pc' = "query"
  /\ UNCHANGED <<mem, persisted, target, process, version, todo, cur,
                 lastVersion, faults>>

\* The RECORD message of a row, written before its key reaches the state.
EmitRecord(row) ==
  /\ pc = "rows"
  /\ row \in todo
  /\ target' = [target EXCEPT ![row.r] = [s |-> row.s, v |-> version]]
  /\ todo' = todo \ {row}
  /\ cur' = row.s
  /\ pc' = "mark"
  /\ UNCHANGED <<mem, persisted, process, startTime, version, lastVersion, faults>>

\* Mutant of IsNext: the query has no ORDER BY.
InAnyOrder(row) == row \in todo

\* ORDER BY <replication key> ASC.
IsNext(row) == \A other \in todo : row.s <= other.s

\* A key later than start_time never becomes a bookmark.
MayBookmark == cur <= startTime

\* STATE goes out when counter.value, which the metrics thread of singer's
\* counter resets, is a multiple of the threshold: at any record.
MaybeWriteState == persisted' = persisted \/ persisted' = mem'

\* The bookmark of a query that is not PK chunked.
WriteBookmark ==
  /\ pc = "mark"
  /\ IF MayBookmark
       THEN mem' = [mem EXCEPT !.bookmark = cur] /\ MaybeWriteState
       ELSE UNCHANGED <<mem, persisted>>
  /\ cur' = NoKey
  /\ pc' = "rows"
  /\ UNCHANGED <<target, process, startTime, version, todo, lastVersion, faults>>

\* sync_stream writes the STATE; the coroutine has nothing left but a log line.
FinishStream ==
  /\ pc = "synced"
  /\ persisted' = mem
  /\ pc' = "returned"
  /\ UNCHANGED <<mem, target, process, startTime, version, todo, cur,
                 lastVersion, faults>>

-----------------------------------------------------------------------------
(* The end of the process, the other streams and failures. *)

\* The variables of the process are gone; what it wrote is not.
Stop ==
  /\ process' = "down"
  /\ pc' = "idle"
  /\ mem' = EmptyState
  /\ startTime' = 0
  /\ version' = 0
  /\ todo' = {}
  /\ cur' = NoKey
  /\ UNCHANGED <<target, lastVersion>>

\* Every stream is done: sync writes the final STATE.
FinishSync ==
  /\ process = "up"
  /\ pc = "returned"
  /\ persisted' = mem
  /\ Stop
  /\ UNCHANGED faults

\* gather raised: no final STATE, and the process ends once its workers have.
ExitAfterFailure ==
  /\ process = "draining"
  /\ pc \in {"failed", "returned", "resumed"}
  /\ Stop
  /\ UNCHANGED <<persisted, faults>>

\* An exception in the worker ends the stream and closes the event loop.
Fail ==
  /\ pc' = "failed"
  /\ process' = "draining"
  /\ todo' = {}
  /\ cur' = NoKey
  /\ UNCHANGED <<mem, persisted, target, startTime, version, lastVersion>>

StreamFails ==
  /\ faults < MaxFaults
  /\ pc \in WorkerPC
  /\ faults' = faults + 1
  /\ Fail

\* Another stream fails; this one's work was submitted before and runs on.
OtherStreamFails ==
  /\ OtherStreams
  /\ faults < MaxFaults
  /\ process = "up"
  /\ pc \notin {"ready", "activate", "version", "drop"}
  /\ process' = "draining"
  /\ faults' = faults + 1
  /\ UNCHANGED <<mem, persisted, target, pc, startTime, version, todo, cur,
                 lastVersion>>

\* The STATE another stream's thread writes carries this stream's entry.
OtherWritesState ==
  /\ OtherStreams
  /\ process # "down"
  /\ persisted' = mem
  /\ UNCHANGED <<mem, target, process, pc, startTime, version, todo, cur,
                 lastVersion, faults>>

Crash ==
  /\ faults < MaxFaults
  /\ process # "down"
  /\ faults' = faults + 1
  /\ Stop
  /\ UNCHANGED persisted

-----------------------------------------------------------------------------
Coroutine == StartRun \/ SyncCatalogEntry \/ ActivateVersion \/ WriteVersion
             \/ FinishSync \/ ExitAfterFailure
Worker == BeginSyncRecords \/ FinishStream
Disturbance == StreamFails \/ OtherStreamFails \/ OtherWritesState \/ Crash

StreamNext ==
  \/ (Coroutine \/ Worker \/ Disturbance) /\ UNCHANGED orgVars
  \/ OrgNext /\ UNCHANGED tapVars

\* The steps the runtime and the operator's schedule keep taking.
StreamProgress == (Coroutine \/ Worker) /\ UNCHANGED orgVars
OrgProgress == (Tick \/ \E r \in Record : CommitSave(r)) /\ UNCHANGED tapVars

-----------------------------------------------------------------------------
Key == Instant \cup {Earliest, None}

\* Entries of the state, for the jobs and batches a module has.
StateEntry(JobIDs, BatchLists) ==
  [bookmark : Key, version : Nat \cup {None},
   jobID : JobIDs, batchIDs : BatchLists, highest : Key]

SyncTypeOK ==
  /\ OrgTypeOK
  /\ target \in [Record -> [s : Instant \cup {-1}, v : Nat]]
  /\ process \in {"down", "up", "draining"}
  /\ pc \in PC
  /\ startTime \in Instant
  /\ version \in Nat
  /\ todo \subseteq Row
  /\ cur \in Instant \cup {NoKey}
  /\ lastVersion \in Nat
  /\ faults \in 0 .. MaxFaults

\* The changes of the org the target does not show: committed or still pending.
Outstanding ==
  {c \in Row : \/ c.s = stamp[c.r] /\ target[c.r].s # c.s
               \/ c.s = pending[c.r]}

\* State entry e lets the next run find every change still outstanding.
Covers(e) == \A c \in Outstanding : c.s >= StartDate => c.s >= GetStartDate(e)

(* No change is ever skipped: whatever the last STATE says, a run started    *)
(* from it queries at or before every change the target does not have, those *)
(* of saves not yet visible included.                                        *)
NoGap == Covers(persisted)

\* The promise of an extraction, in terms of the org, the target and the STATE.
Promise == INSTANCE AtLeastOnce WITH
  changes <- [r \in Record |-> {stamp[r], pending[r]} \ {NoSave}],
  copy <- [r \in Record |-> target[r].s],
  cursor <- GetStartDate(persisted)

(* The stream is extracted at least once and in order: the target never goes *)
(* back to an older version of a record, even when a job of an earlier run   *)
(* is resumed or a window read twice, rows are only dropped while the STATE  *)
(* still lies before them, and no STATE passes a change.                     *)
DeliversAtLeastOnce == Promise!Spec

Delivered == \A c \in Outstanding : c.s < StartDate

(* Once changes stop, every one of them reaches the target, whatever         *)
(* failures, timeouts and crashes came before.                               *)
EveryChangeDelivered == <>[]Delivered

(* A run ends: windows get shorter or retries fewer, jobs complete, batches  *)
(* are read once, and a failed run's workers finish what they have.          *)
RunEnds == process # "down" ~> process = "down"
=============================================================================
