------------------------------ MODULE BulkSync ------------------------------
(***************************************************************************)
(* A stream synced with the Bulk API: salesforce/bulk.py, and the resumed  *)
(* job of sync.py and sync_orchestrator.py.  A query is one batch of a     *)
(* job; when that batch times out the query is run again as a PK chunked   *)
(* job of several batches, whose ids are kept in the STATE so that a later *)
(* run can fetch the batches this one did not.                             *)
(*                                                                         *)
(* The job lives on the server (external): its batches run at different    *)
(* times, it outlives the process, and Salesforce deletes it after a while.*)
(***************************************************************************)
EXTENDS StreamSync

CONSTANTS
  Batch,        \* the batches Salesforce chunks a job into
  BatchOf,      \* BatchOf[r]: the batch whose primary keys include r's
  MaxJobSpan,   \* longest time from the first to the last batch of a job
  MaxJobs,      \* bound: PK chunked jobs in a behaviour
  JobsExpire    \* TRUE when Salesforce may delete a job

ASSUME BulkAssumption ==
  /\ BatchOf \in [Record -> Batch]
  /\ None \notin Batch /\ \A b \in SUBSET Batch : None # b
  /\ MaxJobSpan \in Nat
  /\ MaxJobs \in Nat
  /\ JobsExpire \in BOOLEAN

VARIABLES
  job,         \* the PK chunked job created last
  pkChunking,  \* sf.pk_chunking: one flag for all streams of the process
  chunked,     \* chunked_bookmark, current_bookmark of a resumed job
  resuming,    \* TRUE in resume_syncing_bulk_query
  batch        \* the batch of a PK chunked job being read, or None

clientVars == <<pkChunking, chunked, resuming, batch>>
bulkVars == <<job, clientVars>>
vars == <<syncVars, bulkVars>>

\* id 0: no job yet.  rows[b] is what batch b matched when it ran.
NoJob == [id |-> 0, from |-> 0, began |-> 0, ran |-> {},
          rows |-> [b \in Batch |-> {}], alive |-> FALSE]

BulkInit ==
  /\ SyncInit
  /\ job = NoJob
  /\ pkChunking = FALSE
  /\ chunked = 0
  /\ resuming = FALSE
  /\ batch = None

JobAlive(id) == job.alive /\ job.id = id
JobComplete == job.ran = Batch

-----------------------------------------------------------------------------
(* The server. *)

RunBatch(b) ==
  /\ job.alive
  /\ b \notin job.ran
  /\ job' = [job EXCEPT
               !.ran = @ \cup {b},
               !.rows[b] = {row \in Snapshot(job.from, NoEnd) : BatchOf[row.r] = b}]
  /\ UNCHANGED <<tapVars, orgVars, clientVars>>

ExpireJob ==
  /\ JobsExpire
  /\ job.alive
  /\ JobComplete
  /\ job' = [job EXCEPT !.alive = FALSE, !.rows = NoJob.rows]
  /\ UNCHANGED <<tapVars, orgVars, clientVars>>

\* A job is not spread over more than MaxJobSpan.
BatchesKeepUp ==
  clock' # clock /\ job.alive /\ ~JobComplete => clock - job.began < MaxJobSpan

-----------------------------------------------------------------------------
(* A fresh sync: Bulk.query and _sync_records. *)

\* The single batch completed: its rows are ordered by the replication key.
PlainBatchCompletes ==
  /\ pc = "query"
  /\ chunked' = GetStartDate(mem)
  /\ todo' = Snapshot(GetStartDate(mem), NoEnd)
  /\ pc' = "rows"
  /\ UNCHANGED <<mem, persisted, target, process, startTime, version, cur,
                 lastVersion, faults, job, pkChunking, resuming, batch>>

\* The single batch failed with QUERY_TIMEOUT: a PK chunked job is created.
FallBackToPkChunking ==
  /\ pc = "query"
  /\ job.id < MaxJobs
  /\ chunked' = GetStartDate(mem)
  /\ job' = [NoJob EXCEPT !.id = job.id + 1, !.from = GetStartDate(mem),
                          !.began = clock, !.alive = TRUE]
  /\ pc' = "poll"
  /\ UNCHANGED <<mem, persisted, target, process, startTime, version, todo, cur,
                 lastVersion, faults, pkChunking, resuming, batch>>

\* No batch is queued or in progress any more.
PkJobCompletes ==
  /\ pc = "poll"
  /\ JobComplete
  /\ pkChunking' = TRUE
  /\ pc' = "saveJob"
  /\ UNCHANGED <<mem, persisted, target, process, startTime, version, todo, cur,
                 lastVersion, faults, job, chunked, resuming, batch>>

SaveJobID ==
  /\ pc = "saveJob"
  /\ mem' = [mem EXCEPT !.jobID = job.id]
  /\ pc' = "saveBatches"
  /\ UNCHANGED <<persisted, target, process, startTime, version, todo, cur,
                 lastVersion, faults, bulkVars>>

SaveBatchIDs ==
  /\ pc = "saveBatches"
  /\ mem' = [mem EXCEPT !.batchIDs = Batch]
  /\ pc' = "batches"
  /\ UNCHANGED <<persisted, target, process, startTime, version, todo, cur,
                 lastVersion, faults, bulkVars>>

\* Mutant of OpenBatch: the batch is taken off the state when it is opened.
OpenBatchAndTakeItOff ==
  /\ pc = "batches"
  /\ JobAlive(mem.jobID)
  /\ \E b \in mem.batchIDs :
       batch' = b /\ todo' = job.rows[b] /\ mem' = [mem EXCEPT !.batchIDs = @ \ {b}]
  /\ pc' = "rows"
  /\ UNCHANGED <<persisted, target, process, startTime, version, cur,
                 lastVersion, faults, job, pkChunking, chunked, resuming>>

\* get_batch_results, of a fresh or of a resumed job.
OpenBatch ==
  /\ pc = "batches"
  /\ JobAlive(mem.jobID)
  /\ \E b \in mem.batchIDs : batch' = b /\ todo' = job.rows[b]
  /\ pc' = "rows"
  /\ UNCHANGED <<mem, persisted, target, process, startTime, version, cur,
                 lastVersion, faults, job, pkChunking, chunked, resuming>>

\* The request for a batch of a job deleted meanwhile is an error.
BatchGone ==
  /\ pc = "batches"
  /\ mem.batchIDs # {}
  /\ ~JobAlive(mem.jobID)
  /\ Fail
  /\ UNCHANGED <<faults, bulkVars>>

\* Only the single batch is ordered: PK chunking takes no ORDER BY.
EmitBulkRecord ==
  /\ \E row \in todo : (batch = None => IsNext(row)) /\ EmitRecord(row)
  /\ UNCHANGED bulkVars

\* Mutant of WritePlainBookmark: a PK chunked job moves the bookmark, too.
BookmarkUnordered == ~resuming /\ WriteBookmark /\ UNCHANGED bulkVars

WritePlainBookmark == ~resuming /\ ~pkChunking /\ WriteBookmark /\ UNCHANGED bulkVars

\* The highest key not after start_time, and above what was seen before.
Highest == IF MayBookmark /\ cur > chunked THEN cur ELSE chunked

\* The branch taken while sf.pk_chunking is set: the bookmark waits.
WriteHighest ==
  /\ pc = "mark"
  /\ pkChunking \/ resuming
  /\ chunked' = Highest
  /\ IF chunked' # chunked /\ ~resuming
       THEN mem' = [mem EXCEPT !.highest = chunked'] /\ MaybeWriteState
       ELSE UNCHANGED <<mem, persisted>>
  /\ cur' = NoKey
  /\ pc' = "rows"
  /\ UNCHANGED <<target, process, startTime, version, todo, lastVersion, faults,
                 job, pkChunking, resuming, batch>>

\* Mutant of FinishBatch: the batch is taken off with rows still to be written.
FinishBatchEarly ==
  /\ pc = "rows"
  /\ batch # None
  /\ mem' = [mem EXCEPT !.batchIDs = @ \ {batch},
                        !.highest = IF resuming THEN chunked ELSE @]
  /\ persisted' = mem'
  /\ todo' = {}
  /\ batch' = None
  /\ pc' = "batches"
  /\ UNCHANGED <<target, process, startTime, version, cur, lastVersion,
                 faults, job, pkChunking, chunked, resuming>>

\* The batch is taken off the state, and the STATE is written.
FinishBatch ==
  /\ pc = "rows"
  /\ todo = {}
  /\ batch # None
  /\ mem' = [mem EXCEPT !.batchIDs = @ \ {batch},
                        !.highest = IF resuming THEN chunked ELSE @]
  /\ persisted' = mem'
  /\ batch' = None
  /\ pc' = "batches"
  /\ UNCHANGED <<target, process, startTime, version, todo, cur, lastVersion,
                 faults, job, pkChunking, chunked, resuming>>

\* The query is exhausted: the single batch is, or no batch of the job is left.
FinishQuery ==
  /\ ~resuming
  /\ \/ pc = "rows" /\ todo = {} /\ batch = None
     \/ pc = "batches" /\ mem.batchIDs = {}
  /\ pc' = "final"
  /\ UNCHANGED <<mem, persisted, target, process, startTime, version, todo, cur,
                 lastVersion, faults, bulkVars>>

WriteFinalBookmark ==
  /\ pc = "final"
  /\ mem' = IF pkChunking THEN [mem EXCEPT !.bookmark = chunked] ELSE mem
  /\ pc' = "synced"
  /\ UNCHANGED <<persisted, target, process, startTime, version, todo, cur,
                 lastVersion, faults, bulkVars>>

-----------------------------------------------------------------------------
(* A resumed job: resume_syncing_bulk_query and _resume_bulk_job. *)

\* Mutant of ResumeJob: no default for a job whose highest bookmark is not set.
ResumeWithoutStart ==
  /\ pc = "resume"
  /\ chunked' = mem.highest
  /\ startTime' = clock
  /\ resuming' = TRUE
  /\ pc' = "exists"
  /\ UNCHANGED <<mem, persisted, target, process, version, todo, cur,
                 lastVersion, faults, job, pkChunking, batch>>

ResumeJob ==
  /\ pc = "resume"
  /\ chunked' = IF mem.highest # None THEN mem.highest ELSE GetStartDate(mem)
  /\ startTime' = clock
  /\ resuming' = TRUE
  /\ pc' = "exists"
  /\ UNCHANGED <<mem, persisted, target, process, version, todo, cur,
                 lastVersion, faults, job, pkChunking, batch>>

JobFound ==
  /\ pc = "exists"
  /\ JobAlive(mem.jobID)
  /\ mem.batchIDs # None
  /\ pc' = "batches"
  /\ UNCHANGED <<mem, persisted, target, process, startTime, version, todo, cur,
                 lastVersion, faults, bulkVars>>

\* A JobID without BatchIDs: batch_ids[:] is a TypeError.
BatchIDsMissing ==
  /\ pc = "exists"
  /\ JobAlive(mem.jobID)
  /\ mem.batchIDs = None
  /\ Fail
  /\ UNCHANGED <<faults, bulkVars>>

\* Mutant of EndResume: the resumed query returns with batches left to read.
EndResumeEarly ==
  /\ \/ pc = "exists" /\ ~JobAlive(mem.jobID)
     \/ pc = "batches" /\ resuming
  /\ pc' = "resumed"
  /\ UNCHANGED <<mem, persisted, target, process, startTime, version, todo, cur,
                 lastVersion, faults, bulkVars>>

\* resume_syncing_bulk_query returns: the job is gone, or every batch is read.
EndResume ==
  /\ \/ pc = "exists" /\ ~JobAlive(mem.jobID)
     \/ pc = "batches" /\ resuming /\ mem.batchIDs = {}
  /\ pc' = "resumed"
  /\ UNCHANGED <<mem, persisted, target, process, startTime, version, todo, cur,
                 lastVersion, faults, bulkVars>>

\* Mutant of DropJob: the JobID stays in the state.
KeepJob ==
  /\ pc = "resumed"
  /\ process = "up"
  /\ pc' = "drop"
  /\ UNCHANGED <<mem, persisted, target, process, startTime, version, todo, cur,
                 lastVersion, faults, bulkVars>>

DropJob ==
  /\ pc = "resumed"
  /\ process = "up"
  /\ mem' = [mem EXCEPT !.jobID = None]
  /\ pc' = "drop"
  /\ UNCHANGED <<persisted, target, process, startTime, version, todo, cur,
                 lastVersion, faults, bulkVars>>

\* The highest bookmark seen becomes the bookmark, and the STATE is written.
FinishResume ==
  /\ pc = "drop"
  /\ mem' = [mem EXCEPT !.batchIDs = None, !.highest = None, !.bookmark = mem.highest]
  /\ persisted' = mem'
  /\ pc' = "returned"
  /\ UNCHANGED <<target, process, startTime, version, todo, cur, lastVersion,
                 faults, bulkVars>>

-----------------------------------------------------------------------------
\* Another stream of the process falls back to PK chunking: the flag is shared.
OtherFallsBack ==
  /\ OtherStreams
  /\ process # "down"
  /\ ~pkChunking
  /\ pkChunking' = TRUE
  /\ UNCHANGED <<tapVars, job, chunked, resuming, batch>>

\* The variables of the process die with it.
ClientVarsNext ==
  IF process' = "down"
    THEN pkChunking' = FALSE /\ chunked' = 0 /\ resuming' = FALSE /\ batch' = None
    ELSE UNCHANGED clientVars

Reading ==
  \/ PlainBatchCompletes \/ PkJobCompletes \/ SaveJobID \/ SaveBatchIDs
  \/ OpenBatch \/ BatchGone \/ EmitBulkRecord \/ WritePlainBookmark
  \/ WriteHighest \/ FinishBatch \/ FinishQuery \/ WriteFinalBookmark

Resuming ==
  ResumeJob \/ JobFound \/ BatchIDsMissing \/ EndResume \/ DropJob \/ FinishResume

BulkNext ==
  \/ StreamNext /\ BatchesKeepUp /\ ClientVarsNext /\ UNCHANGED job
  \/ (Reading \/ Resuming \/ FallBackToPkChunking \/ OtherFallsBack) /\ UNCHANGED orgVars
  \/ ExpireJob \/ \E b \in Batch : RunBatch(b)

Spec == BulkInit /\ [][BulkNext]_vars

\* The threads run, batches run, jobs that may be deleted are, and the tap is
\* started again and again; no failure, timeout or crash is required.
Fairness ==
  /\ WF_vars(StreamProgress /\ ClientVarsNext /\ UNCHANGED job)
  /\ WF_vars((Reading \/ Resuming) /\ UNCHANGED orgVars)
  /\ WF_vars(OrgProgress /\ BatchesKeepUp /\ UNCHANGED bulkVars)
  /\ WF_vars(\E b \in Batch : RunBatch(b))
  /\ WF_vars(ExpireJob)

FairSpec == Spec /\ Fairness

-----------------------------------------------------------------------------
(* Every variable has its type. *)
TypeOK ==
  /\ SyncTypeOK
  /\ job \in [id : 0 .. MaxJobs, from : Instant \cup {Earliest}, began : Instant,
              ran : SUBSET Batch, rows : [Batch -> SUBSET Row], alive : BOOLEAN]
  /\ mem \in StateEntry({None, job.id}, (SUBSET Batch) \cup {None})
  /\ persisted \in StateEntry({None, job.id}, (SUBSET Batch) \cup {None})
  /\ pkChunking \in BOOLEAN /\ resuming \in BOOLEAN
  /\ chunked \in Instant \cup {Earliest}
  /\ batch \in Batch \cup {None}

(* The STATE never checks off a batch the target has not got whole: every     *)
(* row of a batch that is no longer listed has been written.                  *)
RemovedBatchesDelivered ==
  JobAlive(persisted.jobID) /\ persisted.batchIDs # None =>
    \A b \in Batch \ persisted.batchIDs :
      \A row \in job.rows[b] : target[row.r].s >= row.s

\* A resume finds its job deleted with batches still unread.
JobLost == pc = "exists" /\ ~JobAlive(mem.jobID) /\ mem.batchIDs \notin {None, {}}

(* Once changes stop, every one of them reaches the target, whatever failed,  *)
(* was torn or died in the middle of a job, unless Salesforce deleted a job   *)
(* before its last batch was read.                                            *)
DeliveredUnlessJobLost == []~JobLost => <>[]Delivered

(* A job in the STATE does not stay there: it is resumed to its end, or it    *)
(* expires and is dropped.                                                    *)
StoredJobIsDropped == persisted.jobID # None ~> persisted.jobID = None

-----------------------------------------------------------------------------
(* What a log line says of the program and the code does not do: the property *)
(* of a run that must find it violated.                                       *)

(* sync.py:56, "Found stored Job ID that no longer exists, resetting          *)
(* bookmark": a resume that leaves batches unread does not move the bookmark  *)
(* forward.                                                                   *)
LostJobResetsBookmark ==
  [][pc = "drop" /\ pc' = "returned" /\ mem.batchIDs \notin {None, {}}
       => mem'.bookmark \in {None, mem.bookmark}]_vars
=============================================================================
