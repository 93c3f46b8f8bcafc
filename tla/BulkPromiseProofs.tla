-------------------------- MODULE BulkPromiseProofs --------------------------
(***************************************************************************)
(* BulkSync implements AtLeastOnce, for any records, batches, bounds and   *)
(* settings, when the lookback covers the longest job and the longest      *)
(* commit and no job is deleted before its last batch was read.            *)
(***************************************************************************)
EXTENDS BulkSyncProofs

\* No bookmark that comes from a job is later than this.
LastKey == job.began + MaxJobSpan

\* The job may still be read: it is stored, or about to be.
InUse == pc \in {"poll", "saveJob"} \/ ~NoJobStored

\* Changes too recent for this run's bookmarks, or the job's, to pass them.
Late(c) == c.s < StartDate \/ c.s >= startTime - CommitDelay
JobLate(c) == c.s < StartDate \/ c.s >= job.began - CommitDelay

-----------------------------------------------------------------------------
(* The inductive invariant, in named parts. *)

\* Nothing carries a date later than the clock, and a save is not pending for
\* longer than CommitDelay.
EntryInTime(e) ==
  /\ e.bookmark # None => e.bookmark <= clock
  /\ e.highest # None => e.highest <= clock
OrgInTime ==
  \A r \in Record :
    /\ stamp[r] <= clock
    /\ target[r].s <= stamp[r]
    /\ pending[r] # NoSave =>
         /\ stamp[r] < pending[r]
         /\ pending[r] <= clock
         /\ clock - pending[r] <= CommitDelay
InTime ==
  /\ StartDate <= clock /\ startTime <= clock /\ chunked <= clock /\ cur <= clock
  /\ job.began <= clock
  /\ EntryInTime(mem) /\ EntryInTime(persisted)
  /\ OrgInTime

\* The rows of the target, the state and the run agree on the version.
RowsCarry(v) == \A r \in Record : target[r] # NoRow => target[r].v = v
Versioned(e) ==
  /\ e.bookmark # None \/ e.jobID # None => e.version # None
  /\ e.version # None => RowsCarry(e.version)
InVersion ==
  /\ Versioned(mem) /\ Versioned(persisted)
  /\ pc = "ready" => persisted.version = mem.version
  /\ pc \notin {"idle", "ready"} =>
       mem.version \in {None, version} /\ persisted.version \in {None, version}
  /\ pc \notin {"idle", "ready", "activate"} => RowsCarry(version)
  /\ pc \notin {"idle", "ready", "activate", "version"} => mem.version = version

\* What the place in the code says of the stored job and of the unordered mode.
InJob ==
  /\ pc \in {"resume", "exists", "saveBatches", "batches", "resumed"} => mem.jobID # None
  /\ pc \in {"rows", "mark"} /\ batch # None => mem.jobID # None
  /\ pc = "final" /\ mem.jobID # None => mem.batchIDs = {}
  /\ pc \in {"poll", "saveJob"} /\ mem.bookmark # None => mem.bookmark <= LastKey
  /\ pc \in {"ready", "activate", "version", "queued", "query", "poll", "saveJob"}
       /\ mem.jobID = None => mem.highest = None
  /\ pc \in {"saveJob", "saveBatches", "exists", "batches"}
       \/ (pc \in {"rows", "mark"} /\ batch # None) => pkChunking \/ resuming

\* An entry with a job has no bookmark later than the job.
Marks(e) ==
  e.jobID # None =>
    /\ e.bookmark # None => e.bookmark <= LastKey
    /\ e.highest # None => e.highest <= LastKey
    /\ e.batchIDs = None => e.highest = None

\* A job runs within its span, and its rows are not older than the target's.
JobSpan ==
  /\ job.alive /\ ~JobComplete => clock <= LastKey
  /\ ~job.alive => \A b \in Batch : job.rows[b] = {}
  /\ \A b \in Batch : \A row \in job.rows[b] : row.s <= LastKey /\ row.s <= stamp[row.r]
  /\ InUse => StartDate <= job.began
  /\ InUse => \A b \in Batch : \A row \in job.rows[b] : target[row.r].s <= row.s

\* What is outstanding is in its batch, will be found by it, or is late.
Found(c) ==
  IF BatchOf[c.r] \in job.ran THEN c \in job.rows[BatchOf[c.r]] ELSE c.s >= job.from
Traced == job.alive /\ InUse => \A c \in Outstanding : JobLate(c) \/ Found(c)

\* What is outstanding is in a batch the entry lists, or is late.
Listed(e) ==
  e.jobID # None /\ e.batchIDs # None =>
    \A c \in Outstanding : JobLate(c) \/ BatchOf[c.r] \in e.batchIDs

\* The rows in hand: one for each record, none older than the target's.
RowsInHand ==
  /\ pc \notin {"rows", "mark"} => todo = {}
  /\ \A row \in todo :
       /\ row.s <= stamp[row.r] /\ target[row.r].s <= row.s
       /\ \A other \in todo : other.r = row.r => other = row
       /\ batch # None => row.s <= LastKey /\ BatchOf[row.r] = batch
  /\ pc = "mark" => cur \in Instant /\ (batch # None => cur <= LastKey)
  /\ pc = "mark" /\ batch = None => \A row \in todo : cur <= row.s

\* The single batch of a fresh sync is read, or has been.
PlainRead == (pc \in {"rows", "mark"} /\ batch = None) \/ (pc = "final" /\ mem.jobID = None)

\* What is outstanding is in hand, in another batch, or late.
InHand ==
  /\ PlainRead => \A c \in Outstanding : c \in todo \/ Late(c)
  /\ pc \in {"rows", "mark"} /\ batch # None =>
       \A c \in Outstanding : BatchOf[c.r] = batch => c \in todo \/ JobLate(c)
  /\ pc \in {"resumed", "drop"} => mem.highest = None \/
       (mem.highest <= LastKey /\ \A c \in Outstanding : JobLate(c))

\* The highest key seen is not later than what it is made of.
Chunked ==
  /\ pc = "query" => StartDate <= startTime /\ (mem.bookmark # None => mem.bookmark <= startTime)
  /\ PlainRead => chunked <= startTime
  /\ pc \in {"poll", "saveJob", "saveBatches", "exists", "batches"} => chunked <= LastKey
  /\ pc \in {"rows", "mark"} /\ batch # None => chunked <= LastKey
  /\ pc = "final" /\ mem.jobID # None => chunked <= LastKey

PInv ==
  /\ IInv /\ InTime /\ InVersion /\ InJob /\ Marks(mem) /\ Marks(persisted) /\ JobSpan
  /\ Traced /\ Listed(mem) /\ Listed(persisted) /\ RowsInHand /\ InHand /\ Chunked
  /\ Covers(mem) /\ Covers(persisted)
-----------------------------------------------------------------------------
(* What a step writes of each part of the state. *)

Fields(e, bookmark, vers, jobID, batchIDs, highest) ==
  /\ e.bookmark = bookmark /\ e.version = vers /\ e.jobID = jobID
  /\ e.batchIDs = batchIDs /\ e.highest = highest

\* Writing fields of an entry leaves the others.
LEMMA FieldWrites ==
  ASSUME NEW i, NEW e \in Entry(i), NEW k, NEW v, NEW j, NEW B, NEW h
  PROVE  /\ Fields([e EXCEPT !.version = v], e.bookmark, v, e.jobID, e.batchIDs, e.highest)
         /\ Fields([e EXCEPT !.jobID = j], e.bookmark, e.version, j, e.batchIDs, e.highest)
         /\ Fields([e EXCEPT !.batchIDs = B], e.bookmark, e.version, e.jobID, B, e.highest)
         /\ Fields([e EXCEPT !.bookmark = k], k, e.version, e.jobID, e.batchIDs, e.highest)
         /\ Fields([e EXCEPT !.highest = h], e.bookmark, e.version, e.jobID, e.batchIDs, h)
         /\ Fields([e EXCEPT !.batchIDs = B, !.highest = h],
                   e.bookmark, e.version, e.jobID, B, h)
         /\ Fields([e EXCEPT !.batchIDs = B, !.highest = h, !.bookmark = k],
                   k, e.version, e.jobID, B, h)
BY DEF Entry, StateEntry, Fields

\* The entry in memory after each action that writes it.
LEMMA MemWrites ==
  ASSUME TypeOK
  PROVE  /\ StartRun =>
              Fields(mem', persisted.bookmark, persisted.version, persisted.jobID,
                     IF persisted.jobID = None THEN None ELSE persisted.batchIDs,
                     IF persisted.jobID = None THEN None ELSE persisted.highest)
         /\ Stop => Fields(mem', None, None, None, None, None)
         /\ WriteVersion =>
              Fields(mem', mem.bookmark, version, mem.jobID, mem.batchIDs, mem.highest)
         /\ SaveJobID =>
              Fields(mem', mem.bookmark, mem.version, job.id, mem.batchIDs, mem.highest)
         /\ SaveBatchIDs =>
              Fields(mem', mem.bookmark, mem.version, mem.jobID, Batch, mem.highest)
         /\ WritePlainBookmark =>
              Fields(mem', IF MayBookmark THEN cur ELSE mem.bookmark, mem.version,
                     mem.jobID, mem.batchIDs, mem.highest)
         /\ WriteHighest =>
              Fields(mem', mem.bookmark, mem.version, mem.jobID, mem.batchIDs,
                     IF chunked' # chunked /\ ~resuming THEN chunked' ELSE mem.highest)
         /\ FinishBatch =>
              Fields(mem', mem.bookmark, mem.version, mem.jobID, mem.batchIDs \ {batch},
                     IF resuming THEN chunked ELSE mem.highest)
         /\ WriteFinalBookmark =>
              Fields(mem', IF pkChunking THEN chunked ELSE mem.bookmark, mem.version,
                     mem.jobID, mem.batchIDs, mem.highest)
         /\ DropJob =>
              Fields(mem', mem.bookmark, mem.version, None, mem.batchIDs, mem.highest)
         /\ FinishResume =>
              Fields(mem', mem.highest, mem.version, mem.jobID, None, None)
<1>1. mem \in Entry(job.id) /\ persisted \in Entry(job.id)
  BY DEF TypeOK, Entry
<1>2. Fields(mem, mem.bookmark, mem.version, mem.jobID, mem.batchIDs, mem.highest)
  BY DEF Fields
<1>3. StartRun =>
        Fields(mem', persisted.bookmark, persisted.version, persisted.jobID,
               IF persisted.jobID = None THEN None ELSE persisted.batchIDs,
               IF persisted.jobID = None THEN None ELSE persisted.highest)
  BY <1>1 DEF StartRun, BuildState, Fields, Entry, StateEntry
<1>4. Stop => Fields(mem', None, None, None, None, None)
  BY DEF Stop, EmptyState, Fields
<1>5. WriteVersion =>
        Fields(mem', mem.bookmark, version, mem.jobID, mem.batchIDs, mem.highest)
  BY <1>1, FieldWrites DEF WriteVersion
<1>6. /\ SaveJobID =>
           Fields(mem', mem.bookmark, mem.version, job.id, mem.batchIDs, mem.highest)
      /\ SaveBatchIDs =>
           Fields(mem', mem.bookmark, mem.version, mem.jobID, Batch, mem.highest)
      /\ DropJob =>
           Fields(mem', mem.bookmark, mem.version, None, mem.batchIDs, mem.highest)
  BY <1>1, FieldWrites DEF SaveJobID, SaveBatchIDs, DropJob
<1>7. WritePlainBookmark =>
        Fields(mem', IF MayBookmark THEN cur ELSE mem.bookmark, mem.version,
               mem.jobID, mem.batchIDs, mem.highest)
  <2>1. CASE MayBookmark
    BY <1>1, <2>1, FieldWrites DEF WritePlainBookmark, WriteBookmark
  <2>2. CASE ~MayBookmark
    BY <1>2, <2>2 DEF WritePlainBookmark, WriteBookmark
  <2> QED
    BY <2>1, <2>2
<1>8. WriteHighest =>
        Fields(mem', mem.bookmark, mem.version, mem.jobID, mem.batchIDs,
               IF chunked' # chunked /\ ~resuming THEN chunked' ELSE mem.highest)
  <2>1. CASE chunked' # chunked /\ ~resuming
    <3>1. WriteHighest => mem' = [mem EXCEPT !.highest = chunked']
      BY <2>1 DEF WriteHighest
    <3> QED
      BY <1>1, <2>1, <3>1, FieldWrites
  <2>2. CASE ~(chunked' # chunked /\ ~resuming)
    <3>1. WriteHighest => mem' = mem
      BY <2>2 DEF WriteHighest
    <3> QED
      BY <1>2, <2>2, <3>1
  <2> QED
    BY <2>1, <2>2
<1>9. FinishBatch =>
        Fields(mem', mem.bookmark, mem.version, mem.jobID, mem.batchIDs \ {batch},
               IF resuming THEN chunked ELSE mem.highest)
  BY <1>1 DEF FinishBatch, Fields, Entry, StateEntry
<1>10. WriteFinalBookmark =>
         Fields(mem', IF pkChunking THEN chunked ELSE mem.bookmark, mem.version,
                mem.jobID, mem.batchIDs, mem.highest)
  BY <1>1, <1>2, FieldWrites DEF WriteFinalBookmark
<1>11. FinishResume => Fields(mem', mem.highest, mem.version, mem.jobID, None, None)
  BY <1>1 DEF FinishResume, Fields, Entry, StateEntry
<1> QED
  BY <1>3, <1>4, <1>5, <1>6, <1>7, <1>8, <1>9, <1>10, <1>11

\* The steps of the stream at which the process ends.
StopStep == Stop /\ StreamStep

\* The steps that write the entry in memory.
LEMMA MemStep ==
  ASSUME [BulkNext]_vars
  PROVE  \/ mem' = mem
         \/ (StartRun \/ WriteVersion) /\ StreamStep
         \/ StopStep
         \/ (SaveJobID \/ SaveBatchIDs \/ WritePlainBookmark \/ WriteHighest \/
             FinishBatch \/ WriteFinalBookmark \/ DropJob \/ FinishResume) /\ UNCHANGED orgVars
<1> USE DEF StopStep, tapVars
<1>1. CASE BulkNext
  BY <1>1, NextSteps
     DEF SyncCatalogEntry, ActivateVersion, BeginSyncRecords, FinishStream, FinishSync,
         ExitAfterFailure, StreamFails, OtherStreamFails, OtherWritesState, Crash, Fail,
         PlainBatchCompletes, FallBackToPkChunking, PkJobCompletes, OpenBatch, BatchGone,
         EmitBulkRecord, EmitRecord, FinishQuery, ResumeJob, JobFound, BatchIDsMissing,
         EndResume, OtherFallsBack, ExpireJob, RunBatch
<1>2. CASE UNCHANGED vars
  BY <1>2 DEF vars, syncVars
<1> QED
  BY <1>1, <1>2

\* The last STATE holds what was in memory, before or after the step.
LEMMA PersistedStep ==
  ASSUME [BulkNext]_vars
  PROVE  persisted' = persisted \/ persisted' = mem \/ persisted' = mem'
<1> USE DEF tapVars, MaybeWriteState
<1>1. CASE BulkNext
  BY <1>1, NextSteps
     DEF StartRun, SyncCatalogEntry, ActivateVersion, WriteVersion, BeginSyncRecords,
         FinishStream, FinishSync, ExitAfterFailure, StreamFails, OtherStreamFails,
         OtherWritesState, Crash, Fail, PlainBatchCompletes, FallBackToPkChunking,
         PkJobCompletes, SaveJobID, SaveBatchIDs, OpenBatch, BatchGone, EmitBulkRecord,
         EmitRecord, WritePlainBookmark, WriteBookmark, WriteHighest, FinishBatch, FinishQuery,
         WriteFinalBookmark, ResumeJob, JobFound, BatchIDsMissing, EndResume, DropJob,
         FinishResume, OtherFallsBack, ExpireJob, RunBatch
<1>2. CASE UNCHANGED vars
  BY <1>2 DEF vars, syncVars
<1> QED
  BY <1>1, <1>2

\* The steps that write the job.
LEMMA JobStep ==
  ASSUME [BulkNext]_vars
  PROVE  \/ job' = job
         \/ FallBackToPkChunking /\ UNCHANGED orgVars
         \/ ExpireJob
         \/ \E b \in Batch : RunBatch(b)
<1> USE DEF StreamStep, bulkVars
<1>1. CASE BulkNext
  BY <1>1, NextSteps
     DEF PlainBatchCompletes, PkJobCompletes, SaveJobID, SaveBatchIDs, OpenBatch, BatchGone,
         EmitBulkRecord, WritePlainBookmark, WriteHighest, FinishBatch, FinishQuery,
         WriteFinalBookmark, ResumeJob, JobFound, BatchIDsMissing, EndResume, DropJob,
         FinishResume, OtherFallsBack
<1>2. CASE UNCHANGED vars
  BY <1>2 DEF vars
<1> QED
  BY <1>1, <1>2

\* The steps that write rows of the target.
LEMMA TargetStep ==
  ASSUME [BulkNext]_vars
  PROVE  \/ target' = target
         \/ ActivateVersion /\ StreamStep
         \/ EmitBulkRecord /\ UNCHANGED orgVars
<1> USE DEF tapVars
<1>1. CASE BulkNext
  BY <1>1, NextSteps
     DEF StartRun, SyncCatalogEntry, WriteVersion, BeginSyncRecords,
         FinishStream, FinishSync, ExitAfterFailure, StreamFails, OtherStreamFails,
         OtherWritesState, Crash, Fail, Stop, PlainBatchCompletes, FallBackToPkChunking,
         PkJobCompletes, SaveJobID, SaveBatchIDs, OpenBatch, BatchGone,
         WritePlainBookmark, WriteBookmark, WriteHighest, FinishBatch, FinishQuery,
         WriteFinalBookmark, ResumeJob, JobFound, BatchIDsMissing, EndResume, DropJob,
         FinishResume, OtherFallsBack, ExpireJob, RunBatch
<1>2. CASE UNCHANGED vars
  BY <1>2 DEF vars, syncVars
<1> QED
  BY <1>1, <1>2

\* The org's own steps, and what they leave alone.
LEMMA OrgSteps ==
  ASSUME [BulkNext]_vars
  PROVE  \/ UNCHANGED orgVars
         \/ OrgNext /\ UNCHANGED <<tapVars, job>> /\ ClientVarsNext /\ BatchesKeepUp
<1>1. CASE StreamNext /\ BatchesKeepUp /\ ClientVarsNext /\ UNCHANGED job
  BY <1>1 DEF StreamNext
<1>2. (ExpireJob \/ \E b \in Batch : RunBatch(b)) => UNCHANGED orgVars
  BY DEF ExpireJob, RunBatch
<1>3. UNCHANGED vars => UNCHANGED orgVars
  BY DEF vars, syncVars
<1> QED
  BY <1>1, <1>2, <1>3 DEF BulkNext

\* The steps that set the times of the run.
LEMMA TimesStep ==
  ASSUME [BulkNext]_vars
  PROVE  /\ startTime' = startTime \/ startTime' = 0 \/ startTime' = clock
         /\ \/ chunked' = chunked \/ chunked' = 0
            \/ chunked' = GetStartDate(mem)
            \/ ResumeJob /\ UNCHANGED orgVars
            \/ WriteHighest /\ UNCHANGED orgVars
         /\ cur' = cur \/ cur' = NoKey \/ (EmitBulkRecord /\ UNCHANGED orgVars)
<1> USE DEF StreamStep, ClientVarsNext, bulkVars, clientVars, tapVars
<1>1. CASE (StartRun \/ SyncCatalogEntry \/ ActivateVersion \/ WriteVersion \/
            BeginSyncRecords \/ FinishStream) /\ StreamStep
  BY <1>1 DEF StartRun, SyncCatalogEntry, ActivateVersion, WriteVersion, BeginSyncRecords,
              FinishStream
<1>2. CASE (FinishSync \/ ExitAfterFailure \/ StreamFails \/ OtherStreamFails \/
            OtherWritesState \/ Crash) /\ StreamStep
  BY <1>2 DEF FinishSync, ExitAfterFailure, StreamFails, OtherStreamFails,
              OtherWritesState, Crash, Stop, Fail
<1>3. CASE (PlainBatchCompletes \/ FallBackToPkChunking \/ PkJobCompletes \/
            SaveJobID \/ SaveBatchIDs \/ OpenBatch) /\ UNCHANGED orgVars
  BY <1>3 DEF PlainBatchCompletes, FallBackToPkChunking, PkJobCompletes, SaveJobID,
              SaveBatchIDs, OpenBatch
<1>4. CASE (BatchGone \/ EmitBulkRecord \/ WritePlainBookmark \/ WriteHighest \/
            FinishBatch \/ FinishQuery) /\ UNCHANGED orgVars
  BY <1>4 DEF BatchGone, Fail, EmitBulkRecord, EmitRecord, WritePlainBookmark, WriteBookmark,
              WriteHighest, FinishBatch, FinishQuery
<1>5. CASE (WriteFinalBookmark \/ ResumeJob \/ JobFound \/ BatchIDsMissing \/ EndResume \/
            DropJob \/ FinishResume \/ OtherFallsBack) /\ UNCHANGED orgVars
  BY <1>5 DEF WriteFinalBookmark, ResumeJob, JobFound, BatchIDsMissing, Fail, EndResume,
              DropJob, FinishResume, OtherFallsBack
<1>6. CASE OrgNext /\ UNCHANGED <<tapVars, job>> /\ ClientVarsNext
  <2>1. UNCHANGED <<startTime, cur>> /\ (chunked' = 0 \/ chunked' = chunked)
    BY ONLY <1>6 DEF ClientVarsNext, clientVars, tapVars
  <2> QED
    BY <2>1
<1>7. CASE ExpireJob \/ \E b \in Batch : RunBatch(b)
  BY <1>7 DEF ExpireJob, RunBatch
<1>8. CASE UNCHANGED vars
  BY <1>8 DEF vars, syncVars
<1> QED
  BY <1>1, <1>2, <1>3, <1>4, <1>5, <1>6, <1>7, <1>8, NextSteps

\* A job stays dated as it was created.
LEMMA DatesKept ==
  ASSUME TypeOK, [BulkNext]_vars
  PROVE  \/ job'.began = job.began /\ job'.from = job.from /\ job'.id = job.id
         \/ FallBackToPkChunking /\ UNCHANGED orgVars
BY JobStep DEF TypeOK, ExpireJob, RunBatch

\* The org does not move while a job is created.
LEMMA FallBackStep ==
  ASSUME TypeOK, [BulkNext]_vars, FallBackToPkChunking
  PROVE  UNCHANGED orgVars
<1>1. job'.id = job.id + 1 /\ job.id \in Int
  BY DEF FallBackToPkChunking, NoJob, TypeOK
<1>2. job'.id # job.id
  BY <1>1
<1> QED
  BY <1>2, DatesKept

\* The values that are times are integers.
LEMMA Times ==
  ASSUME TypeOK
  PROVE  /\ clock \in Int /\ 0 <= clock /\ startTime \in Int /\ chunked \in Int /\ cur \in Int
         /\ job.began \in Int /\ job.from \in Int /\ LastKey \in Int /\ job.began <= LastKey
         /\ StartDate \in Int /\ Lookback \in Int /\ CommitDelay \in Int /\ MaxJobSpan \in Int
         /\ 0 <= Lookback /\ 0 <= CommitDelay /\ 0 <= MaxJobSpan /\ 0 <= StartDate
         /\ \A e \in {mem, persisted} :
              /\ e.bookmark # None => e.bookmark \in Int
              /\ e.highest # None => e.highest \in Int
         /\ \A c \in Row : c.r \in Record /\ c.s \in Int /\ 0 <= c.s
         /\ \A r \in Record : stamp[r] \in Int /\ pending[r] \in Int /\ target[r].s \in Int
<1>1. /\ clock \in Int /\ 0 <= clock /\ startTime \in Int /\ chunked \in Int /\ cur \in Int
      /\ job.began \in Int /\ job.from \in Int
  BY DEF TypeOK, SyncTypeOK, OrgTypeOK, Instant, Earliest, NoKey
<1>2. LastKey \in Int /\ job.began <= LastKey
  BY <1>1, BulkAssumption DEF LastKey
<1>3. \A e \in {mem, persisted} :
        /\ e.bookmark # None => e.bookmark \in Int
        /\ e.highest # None => e.highest \in Int
  BY DEF TypeOK, StateEntry, Key, Instant, Earliest
<1>4. /\ \A c \in Row : c.r \in Record /\ c.s \in Int /\ 0 <= c.s
      /\ \A r \in Record : stamp[r] \in Int /\ pending[r] \in Int /\ target[r].s \in Int
  BY DEF TypeOK, SyncTypeOK, OrgTypeOK, Row, Instant, NoSave
<1> QED
  BY <1>1, <1>2, <1>3, <1>4, OrgAssumption, StateAssumption, BulkAssumption

\* An entry's start date is not later than its bookmark, or is the StartDate.
LEMMA StartDateBound ==
  ASSUME NEW i, NEW e \in Entry(i)
  PROVE  /\ e.bookmark = None => GetStartDate(e) = StartDate
         /\ e.bookmark # None => GetStartDate(e) <= e.bookmark
         /\ \A s \in Nat : e.bookmark # None /\ s >= e.bookmark - Lookback => s >= GetStartDate(e)
BY OrgAssumption, StateAssumption
   DEF Entry, StateEntry, Key, Instant, Earliest, GetStartDate

-----------------------------------------------------------------------------
(* Nothing carries a date later than the clock. *)

\* No step dates a save or a row of the target after the clock.
LEMMA OrgInTimeStep ==
  ASSUME TypeOK, InTime, RowsInHand, [BulkNext]_vars
  PROVE  OrgInTime' /\ clock <= clock'
<1> USE Times, OrgAssumption DEF InTime, OrgInTime, orgVars, tapVars, NoSave
<1>1. CASE OrgNext /\ UNCHANGED <<tapVars, job>>
  <2>1. ASSUME NEW r \in Record, BeginSave(r) PROVE OrgInTime' /\ clock <= clock'
    BY <1>1, <2>1 DEF BeginSave, TypeOK, SyncTypeOK, OrgTypeOK
  <2>2. ASSUME NEW r \in Record, CommitSave(r) PROVE OrgInTime' /\ clock <= clock'
    BY <1>1, <2>2 DEF CommitSave, TypeOK, SyncTypeOK, OrgTypeOK
  <2>3. CASE Tick
    BY <1>1, <2>3 DEF Tick
  <2> QED
    BY <1>1, <2>1, <2>2, <2>3 DEF OrgNext
<1>2. CASE ActivateVersion /\ StreamStep
  <2>1. \A r \in Record : target'[r].s \in {target[r].s, -1}
    BY <1>2 DEF ActivateVersion, NoRow
  <2>2. stamp \in [Record -> Instant]
    BY DEF TypeOK, SyncTypeOK, OrgTypeOK
  <2> QED
    BY <1>2, <2>1, <2>2 DEF StreamStep, Instant
<1>3. CASE EmitBulkRecord /\ UNCHANGED orgVars
  <2>1. PICK row \in todo : EmitRecord(row)
    BY <1>3 DEF EmitBulkRecord, EmitRecord
  <2>2. row \in Row /\ row.s <= stamp[row.r]
    BY DEF RowsInHand, TypeOK, SyncTypeOK
  <2>3. \A r \in Record : target'[r].s = IF r = row.r THEN row.s ELSE target[r].s
    BY <2>1, <2>2 DEF EmitRecord, TypeOK, SyncTypeOK
  <2> QED
    BY <1>3, <2>2, <2>3
<1>4. CASE UNCHANGED orgVars /\ target' = target
  BY <1>4
<1> QED
  BY <1>1, <1>2, <1>3, <1>4, OrgSteps, TargetStep DEF StreamStep

\* No step dates a bookmark after the clock.
LEMMA EntriesInTimeStep ==
  ASSUME TypeOK, InTime, RowsInHand, [BulkNext]_vars
  PROVE  EntryInTime(mem)' /\ EntryInTime(persisted)'
<1> USE Times
<1>1. clock <= clock' /\ clock' \in Int
  BY OrgInTimeStep, OrgStep DEF OrgTypeOK, Instant
<1> DEFINE Ok(e) == /\ e.bookmark # None => e.bookmark <= clock'
                    /\ e.highest # None => e.highest <= clock'
<1>2. Ok(mem) /\ Ok(persisted)
  BY <1>1 DEF InTime, EntryInTime
<1>3. Ok(mem')
  <2>1. CASE StartRun \/ Stop
    BY <1>2, <2>1, MemWrites DEF Fields
  <2>2. CASE WriteVersion \/ SaveJobID \/ SaveBatchIDs \/ DropJob \/ FinishResume
    BY <1>2, <2>2, MemWrites DEF Fields
  <2>3. CASE WritePlainBookmark
    BY <1>1, <1>2, <2>3, MemWrites DEF Fields, InTime
  <2>4. CASE WriteHighest
    <3>1. chunked' \in {chunked, cur}
      BY <2>4 DEF WriteHighest, Highest
    <3> QED
      BY <1>1, <1>2, <2>4, <3>1, MemWrites DEF Fields, InTime
  <2>5. CASE FinishBatch \/ WriteFinalBookmark
    BY <1>1, <1>2, <2>5, MemWrites DEF Fields, InTime
  <2> QED
    BY <1>2, <2>1, <2>2, <2>3, <2>4, <2>5, MemStep DEF StopStep
<1>4. Ok(persisted')
  BY <1>2, <1>3, PersistedStep
<1> QED
  BY <1>3, <1>4 DEF EntryInTime

\* No step dates anything after the clock.
LEMMA InTimeStep ==
  ASSUME TypeOK, InTime, RowsInHand, [BulkNext]_vars
  PROVE  InTime'
<1> USE Times
<1>1. clock <= clock' /\ clock' \in Int /\ OrgInTime'
  BY OrgInTimeStep, OrgStep DEF OrgTypeOK, Instant
<1>2. EntryInTime(mem)' /\ EntryInTime(persisted)'
  BY EntriesInTimeStep
<1>3. GetStartDate(mem) \in Int /\ GetStartDate(mem) <= clock
  <2>1. mem \in Entry(job.id)
    BY DEF TypeOK, Entry
  <2>2. GetStartDate(mem) \in Int
    BY <2>1, StartDateType DEF Instant, Earliest
  <2>3. CASE mem.bookmark = None
    BY <2>1, <2>3, StartDateBound DEF InTime
  <2>4. CASE mem.bookmark # None
    <3>1. GetStartDate(mem) <= mem.bookmark /\ mem.bookmark \in Int /\ mem.bookmark <= clock
      BY <2>1, <2>4, StartDateBound DEF InTime, EntryInTime
    <3> QED
      BY ONLY <2>2, <3>1, Times, TypeOK
  <2> QED
    BY <2>2, <2>3, <2>4
<1>4. startTime' <= clock'
  BY <1>1, TimesStep DEF InTime
<1>5. cur' <= clock'
  <2>1. CASE EmitBulkRecord
    <3>1. PICK row \in todo : EmitRecord(row)
      BY <2>1 DEF EmitBulkRecord, EmitRecord
    <3>2. row \in Row /\ row.s <= stamp[row.r] /\ cur' = row.s
      BY <3>1 DEF EmitRecord, RowsInHand, TypeOK, SyncTypeOK
    <3> QED
      BY <1>1, <3>2 DEF InTime, OrgInTime
  <2> QED
    BY <1>1, <2>1, TimesStep DEF InTime, NoKey
<1>6. chunked' <= clock'
  <2>1. CASE WriteHighest
    <3>1. chunked' \in {chunked, cur}
      BY <2>1 DEF WriteHighest, Highest
    <3> QED
      BY <1>1, <3>1 DEF InTime
  <2>2. CASE ResumeJob
    <3>1. (chunked' = mem.highest /\ mem.highest # None) \/ chunked' = GetStartDate(mem)
      BY <2>2 DEF ResumeJob
    <3> QED
      BY <1>1, <1>3, <3>1 DEF InTime, EntryInTime
  <2> QED
    BY <1>1, <1>3, <2>1, <2>2, TimesStep DEF InTime
<1>7. job'.began <= clock'
  <2>1. CASE FallBackToPkChunking
    <3>1. job'.began = clock
      BY <2>1 DEF FallBackToPkChunking, NoJob
    <3> QED
      BY <1>1, <3>1
  <2> QED
    BY <1>1, <2>1, DatesKept DEF InTime
<1>8. StartDate <= clock'
  BY <1>1 DEF InTime
<1> QED
  BY <1>1, <1>2, <1>4, <1>5, <1>6, <1>7, <1>8 DEF InTime

-----------------------------------------------------------------------------
(* The rows of the target, the state and the run agree on the version. *)

Early == {"idle", "ready", "activate", "version"}

\* Only the first steps of a run, and its end, concern the version.
LEMMA VersionStep ==
  ASSUME TypeOK, [BulkNext]_vars
  PROVE  \/ (StartRun \/ SyncCatalogEntry \/ ActivateVersion \/ WriteVersion) /\ StreamStep
         \/ StopStep
         \/ /\ version' = version
            /\ mem'.version = mem.version
            /\ pc' = pc \/ {pc, pc'} \cap Early = {}
<1>1. CASE (StartRun \/ SyncCatalogEntry \/ ActivateVersion \/ WriteVersion) /\ StreamStep
  BY <1>1
<1>2. CASE (BeginSyncRecords \/ FinishStream \/ StreamFails \/ OtherStreamFails \/
            OtherWritesState) /\ StreamStep
  BY <1>2 DEF BeginSyncRecords, FinishStream, StreamFails, OtherStreamFails, OtherWritesState,
              Fail, Early, WorkerPC
<1>3. CASE (FinishSync \/ ExitAfterFailure \/ Crash) /\ StreamStep
  BY <1>3 DEF FinishSync, ExitAfterFailure, Crash, StopStep
<1>4. CASE (PlainBatchCompletes \/ FallBackToPkChunking \/ PkJobCompletes \/ OpenBatch \/
            BatchGone \/ EmitBulkRecord \/ FinishQuery) /\ UNCHANGED orgVars
  BY <1>4 DEF PlainBatchCompletes, FallBackToPkChunking, PkJobCompletes, OpenBatch, BatchGone,
              Fail, EmitBulkRecord, EmitRecord, FinishQuery, Early
<1>5. CASE (SaveJobID \/ SaveBatchIDs \/ WritePlainBookmark \/ WriteHighest \/ FinishBatch \/
            WriteFinalBookmark \/ DropJob \/ FinishResume) /\ UNCHANGED orgVars
  <2>1. mem'.version = mem.version
    BY <1>5, MemWrites DEF Fields
  <2>2. version' = version /\ {pc, pc'} \cap Early = {}
    BY <1>5 DEF SaveJobID, SaveBatchIDs, WritePlainBookmark, WriteBookmark, WriteHighest,
                FinishBatch, WriteFinalBookmark, DropJob, FinishResume, Early
  <2> QED
    BY <2>1, <2>2
<1>6. CASE (ResumeJob \/ JobFound \/ BatchIDsMissing \/ EndResume \/
            OtherFallsBack) /\ UNCHANGED orgVars
  BY <1>6 DEF ResumeJob, JobFound, BatchIDsMissing, Fail, EndResume, OtherFallsBack, Early, tapVars
<1>7. CASE OrgNext /\ UNCHANGED <<tapVars, job>> /\ ClientVarsNext
  BY <1>7 DEF tapVars
<1>8. CASE ExpireJob \/ \E b \in Batch : RunBatch(b)
  BY <1>8 DEF ExpireJob, RunBatch, tapVars
<1>9. CASE UNCHANGED vars
  BY <1>9 DEF vars, syncVars, tapVars
<1> QED
  BY <1>1, <1>2, <1>3, <1>4, <1>5, <1>6, <1>7, <1>8, <1>9, NextSteps

\* A step that drops rows, or writes one of the run's version, leaves the version.
LEMMA RowsCarryStep ==
  ASSUME TypeOK, InVersion, [BulkNext]_vars, NEW v,
         RowsCarry(v), v = version \/ pc \notin {"rows"}
  PROVE  \A r \in Record : target'[r] # NoRow => target'[r].v = v
<1>1. CASE ActivateVersion
  BY <1>1 DEF ActivateVersion, RowsCarry
<1>2. CASE EmitBulkRecord
  BY <1>2 DEF EmitBulkRecord, EmitRecord, RowsCarry, TypeOK, SyncTypeOK
<1> QED
  BY <1>1, <1>2, TargetStep DEF RowsCarry

\* An entry stays in agreement with the rows of the target.
LEMMA VersionedStep ==
  ASSUME TypeOK, InVersion, [BulkNext]_vars
  PROVE  Versioned(mem)' /\ Versioned(persisted)'
<1> DEFINE Ok(e) ==
      /\ e.bookmark # None \/ e.jobID # None => e.version # None
      /\ e.version # None => \A r \in Record : target'[r] # NoRow => target'[r].v = e.version
<1>1. Ok(mem) /\ Ok(persisted)
  <2>1. \A e \in {mem, persisted} : pc = "rows" => e.version \in {None, version}
    BY DEF InVersion
  <2>2. \A e \in {mem, persisted} : e.version # None =>
          \A r \in Record : target'[r] # NoRow => target'[r].v = e.version
    BY <2>1, RowsCarryStep DEF InVersion, Versioned
  <2> QED
    BY <2>2 DEF InVersion, Versioned
<1>2. version \in Nat /\ version # None
  BY Constants DEF TypeOK, SyncTypeOK
<1>3. Ok(mem')
  <2>1. CASE StartRun \/ Stop
    BY <1>1, <2>1, MemWrites DEF Fields
  <2>2. CASE WriteVersion
    <3>1. pc = "version" /\ target' = target
      BY <2>2 DEF WriteVersion
    <3> QED
      BY <1>1, <1>2, <2>2, <3>1, MemWrites DEF Fields, InVersion, RowsCarry
  <2>3. CASE SaveJobID \/ SaveBatchIDs \/ WritePlainBookmark \/ WriteHighest \/ FinishBatch \/
             WriteFinalBookmark \/ DropJob \/ FinishResume
    <3>1. pc \notin {"idle", "ready", "activate", "version"}
      BY <2>3 DEF SaveJobID, SaveBatchIDs, WritePlainBookmark, WriteBookmark, WriteHighest,
                  FinishBatch, WriteFinalBookmark, DropJob, FinishResume
    <3>2. mem'.version = mem.version /\ mem.version # None
      BY <1>2, <2>3, <3>1, MemWrites DEF Fields, InVersion
    <3> QED
      BY <1>1, <3>2
  <2> QED
    BY <1>1, <2>1, <2>2, <2>3, MemStep DEF StopStep
<1>4. Ok(persisted')
  BY <1>1, <1>3, PersistedStep
<1> QED
  BY <1>3, <1>4 DEF Versioned, RowsCarry

\* No step parts the version of the state from that of the target's rows.
LEMMA InVersionStep ==
  ASSUME TypeOK, Control, InVersion, [BulkNext]_vars
  PROVE  InVersion'
<1>1. Versioned(mem)' /\ Versioned(persisted)'
  BY VersionedStep
<1>2. \A v : RowsCarry(v) /\ pc # "rows" => RowsCarry(v)'
  BY RowsCarryStep DEF RowsCarry
<1>3. CASE StartRun /\ StreamStep
  BY <1>1, <1>3, MemWrites DEF Fields, StartRun, InVersion
<1>4. CASE SyncCatalogEntry /\ StreamStep
  <2>1. pc = "ready" /\ mem' = mem /\ persisted' = mem /\ pc' \in {"activate", "resume"}
        /\ (pc' = "resume" => mem.jobID # None)
    BY <1>4 DEF SyncCatalogEntry
  <2>2. mem.version # None => version' = mem.version
    BY <1>4 DEF SyncCatalogEntry, StreamVersion
  <2>3. pc' = "resume" => mem.version # None /\ RowsCarry(mem.version)
    BY <2>1 DEF InVersion, Versioned
  <2> QED
    BY <1>1, <1>2, <2>1, <2>2, <2>3 DEF InVersion
<1>5. CASE ActivateVersion /\ StreamStep
  <2>1. RowsCarry(version)'
    BY <1>5 DEF ActivateVersion, RowsCarry
  <2> QED
    BY <1>1, <1>5, <2>1 DEF ActivateVersion, InVersion
<1>6. CASE WriteVersion /\ StreamStep
  <2>1. UNCHANGED <<version, target, persisted>> /\ pc = "version" /\ pc' = "queued"
        /\ mem'.version = version
    BY <1>6, MemWrites DEF WriteVersion, Fields
  <2> QED
    BY <1>1, <1>2, <2>1 DEF InVersion, RowsCarry
<1>7. CASE StopStep
  BY <1>1, <1>7 DEF StopStep, Stop, InVersion
<1>8. CASE /\ version' = version /\ mem'.version = mem.version
           /\ pc' = pc \/ {pc, pc'} \cap Early = {}
  <2>1. persisted'.version \in {persisted.version, mem.version}
    BY <1>8, PersistedStep
  <2>2. CASE pc' = pc
    <3>1. pc = "ready" => persisted'.version = mem.version
      BY <2>1 DEF InVersion
    <3>2. pc \notin {"idle", "ready", "activate"} => RowsCarry(version)'
      <4>1. pc \notin {"idle", "ready", "activate"} =>
              \A r \in Record : target'[r] # NoRow => target'[r].v = version
        BY RowsCarryStep DEF InVersion
      <4> QED
        BY <1>8, <4>1 DEF RowsCarry
    <3> QED
      BY <1>1, <1>8, <2>1, <2>2, <3>1, <3>2 DEF InVersion
  <2>3. CASE {pc, pc'} \cap Early = {}
    <3>1. pc \notin Early /\ pc' \notin Early
      BY <2>3
    <3>2. RowsCarry(version)'
      <4>1. \A r \in Record : target'[r] # NoRow => target'[r].v = version
        BY <3>1, RowsCarryStep DEF InVersion, Early
      <4> QED
        BY <1>8, <4>1 DEF RowsCarry
    <3> QED
      BY <1>1, <1>8, <2>1, <3>1, <3>2 DEF InVersion, Early
  <2> QED
    BY <1>8, <2>2, <2>3
<1> QED
  BY <1>3, <1>4, <1>5, <1>6, <1>7, <1>8, VersionStep

-----------------------------------------------------------------------------
(* The stored job, its bookmarks and its dates. *)

\* Every place in the code keeps what it says of the stored job.
LEMMA InJobStep ==
  ASSUME TypeOK, Control, InTime, InJob, [BulkNext]_vars
  PROVE  InJob'
<1>1. job'.began = job.began => LastKey' = LastKey
  BY DEF LastKey
<1>2. pc \in {"poll", "saveJob"} => pc # "query"
  OBVIOUS
<1> USE DEF InJob, StreamStep, orgVars, tapVars, clientVars, bulkVars
<1>3. CASE StartRun /\ StreamStep
  BY <1>3, MemWrites DEF Fields, StartRun
<1>4. CASE (SyncCatalogEntry \/ ActivateVersion \/ BeginSyncRecords) /\ StreamStep
  <2>1. mem' = mem /\ \/ pc = "ready" /\ mem.jobID = None /\ pc' = "activate"
                      \/ pc = "ready" /\ mem.jobID # None /\ pc' = "resume"
                      \/ pc = "activate" /\ pc' = "version"
                      \/ pc = "queued" /\ pc' = "query"
    BY <1>4 DEF SyncCatalogEntry, ActivateVersion, BeginSyncRecords
  <2> QED
    BY <2>1
<1>5. CASE WriteVersion /\ StreamStep
  <2>1. pc = "version" /\ pc' = "queued" /\ mem'.jobID = mem.jobID /\ mem'.highest = mem.highest
    BY <1>5, MemWrites DEF Fields, WriteVersion
  <2> QED
    BY <2>1
<1>6. CASE pc' \in {"returned", "idle", "failed", "synced", "drop"}
  BY <1>6
<1>7. CASE (OtherStreamFails \/ OtherWritesState) /\ StreamStep
  <2>1. UNCHANGED <<mem, pc, batch, pkChunking, resuming, job>>
    BY <1>7 DEF OtherStreamFails, OtherWritesState, ClientVarsNext
  <2> QED
    BY <1>1, <2>1
<1>8. CASE PlainBatchCompletes /\ UNCHANGED orgVars
  BY <1>8 DEF PlainBatchCompletes, Control
<1>9. CASE FallBackToPkChunking /\ UNCHANGED orgVars
  <2>1. pc = "query" /\ pc' = "poll" /\ mem' = mem /\ job'.began = clock
    BY <1>9 DEF FallBackToPkChunking, NoJob
  <2>2. LastKey' = clock + MaxJobSpan
    BY <2>1 DEF LastKey
  <2>3. mem.bookmark # None => mem.bookmark <= LastKey'
    BY <2>2, Times DEF InTime, EntryInTime
  <2> QED
    BY <2>1, <2>3
<1>10. CASE PkJobCompletes /\ UNCHANGED orgVars
  BY <1>1, <1>10 DEF PkJobCompletes
<1>11. CASE (SaveJobID \/ SaveBatchIDs) /\ UNCHANGED orgVars
  <2>1. job.id # None
    BY Constants DEF TypeOK
  <2>2. /\ \/ pc = "saveJob" /\ pc' = "saveBatches"
           \/ pc = "saveBatches" /\ pc' = "batches"
        /\ UNCHANGED <<pkChunking, resuming>>
    BY <1>11 DEF SaveJobID, SaveBatchIDs
  <2>3. mem'.jobID # None
    BY <1>11, <2>1, MemWrites DEF Fields, SaveJobID, SaveBatchIDs
  <2> QED
    BY <2>2, <2>3
<1>12. CASE OpenBatch /\ UNCHANGED orgVars
  BY <1>12 DEF OpenBatch
<1>13. CASE EmitBulkRecord /\ UNCHANGED orgVars
  BY <1>13 DEF EmitBulkRecord, EmitRecord
<1>14. CASE (WritePlainBookmark \/ WriteHighest) /\ UNCHANGED orgVars
  <2>1. pc = "mark" /\ pc' = "rows" /\ UNCHANGED <<batch, pkChunking, resuming>>
    BY <1>14 DEF WritePlainBookmark, WriteBookmark, WriteHighest
  <2>2. mem'.jobID = mem.jobID
    BY <1>14, MemWrites DEF Fields
  <2> QED
    BY <2>1, <2>2
<1>15. CASE FinishBatch /\ UNCHANGED orgVars
  <2>1. pc = "rows" /\ batch # None /\ pc' = "batches" /\ UNCHANGED <<pkChunking, resuming>>
    BY <1>15 DEF FinishBatch
  <2>2. mem'.jobID = mem.jobID
    BY <1>15, MemWrites DEF Fields
  <2> QED
    BY <2>1, <2>2
<1>16. CASE FinishQuery /\ UNCHANGED orgVars
  BY <1>16 DEF FinishQuery, Control, NoJobStored
<1>17. CASE (ResumeJob \/ JobFound \/ EndResume) /\ UNCHANGED orgVars
  BY <1>17 DEF ResumeJob, JobFound, EndResume
<1>18. CASE OtherFallsBack /\ UNCHANGED orgVars
  BY <1>1, <1>18 DEF OtherFallsBack
<1>19. CASE OrgNext /\ UNCHANGED <<tapVars, job>> /\ ClientVarsNext
  <2>1. UNCHANGED <<pc, mem, process, job>>
    BY <1>19
  <2>2. process = "down" \/ UNCHANGED <<batch, pkChunking, resuming>>
    BY <1>19, <2>1 DEF ClientVarsNext
  <2> QED
    BY <1>1, <1>6, <2>1, <2>2 DEF Control
<1>20. CASE ExpireJob \/ \E b \in Batch : RunBatch(b)
  <2>1. job'.began = job.began /\ UNCHANGED <<tapVars, clientVars>>
    BY <1>20 DEF ExpireJob, RunBatch, TypeOK
  <2> QED
    BY <1>1, <2>1
<1>21. CASE UNCHANGED vars
  BY <1>1, <1>21 DEF vars, syncVars
<1> HIDE DEF InJob
<1> QED
  BY <1>3, <1>4, <1>5, <1>6, <1>7, <1>8, <1>9, <1>10, <1>11, <1>12, <1>13, <1>14, <1>15, <1>16,
     <1>17, <1>18, <1>19, <1>20, <1>21, NextSteps
     DEF FinishStream, FinishSync, ExitAfterFailure, Crash, Stop, StreamFails, Fail, BatchGone,
         BatchIDsMissing, WriteFinalBookmark, DropJob, FinishResume

\* No step gives an entry with a job a bookmark later than the job.
LEMMA MarksStep ==
  ASSUME TypeOK, Control, InJob, RowsInHand, Chunked, Marks(mem), Marks(persisted),
         [BulkNext]_vars
  PROVE  Marks(mem)' /\ Marks(persisted)'
<1>1. CASE FallBackToPkChunking
  <2>1. mem'.jobID = None /\ persisted'.jobID = None
    BY <1>1 DEF FallBackToPkChunking, Control, NoJobStored
  <2> QED
    BY <2>1 DEF Marks
<1>2. CASE ~FallBackToPkChunking
  <2>1. LastKey' = LastKey
    BY <1>2, DatesKept DEF LastKey
  <2> DEFINE Ok(e) ==
        e.jobID # None =>
          /\ e.bookmark # None => e.bookmark <= LastKey
          /\ e.highest # None => e.highest <= LastKey
          /\ e.batchIDs = None => e.highest = None
  <2>2. Ok(mem) /\ Ok(persisted)
    BY DEF Marks
  <2>3. Ok(mem')
    <3>1. CASE StartRun \/ Stop \/ WriteVersion \/ DropJob
      BY <2>2, <3>1, MemWrites DEF Fields
    <3>2. CASE SaveJobID
      <4>1. /\ pc = "saveJob" /\ mem.jobID = None
            /\ mem'.bookmark = mem.bookmark /\ mem'.highest = mem.highest
        BY <3>2, MemWrites DEF Fields, SaveJobID, Control, NoJobStored
      <4> QED
        BY <4>1 DEF InJob
    <3>3. CASE SaveBatchIDs
      <4>1. Batch # None
        BY Constants
      <4> QED
        BY <2>2, <3>3, <4>1, MemWrites DEF Fields
    <3>4. CASE WritePlainBookmark
      <4>1. mem.jobID # None => cur <= LastKey
        BY <3>4 DEF WritePlainBookmark, WriteBookmark, Control, NoJobStored, RowsInHand
      <4> QED
        BY <2>2, <3>4, <4>1, MemWrites DEF Fields
    <3>5. CASE WriteHighest
      <4>1. pc = "mark" /\ chunked' \in {chunked, cur}
        BY <3>5 DEF WriteHighest, Highest
      <4>2. mem.jobID # None => batch # None
        BY <4>1 DEF Control, NoJobStored
      <4>3. mem.jobID # None => chunked' <= LastKey /\ mem.batchIDs # None
        BY <4>1, <4>2, Constants DEF RowsInHand, Chunked, Control
      <4> QED
        BY <2>2, <3>5, <4>3, MemWrites DEF Fields
    <3>6. CASE FinishBatch
      <4>1. pc = "rows" /\ batch # None
        BY <3>6 DEF FinishBatch
      <4>2. mem.batchIDs \ {batch} # None /\ chunked <= LastKey
        BY <4>1, Constants DEF Control, Chunked
      <4> QED
        BY <2>2, <3>6, <4>2, MemWrites DEF Fields
    <3>7. CASE WriteFinalBookmark
      <4>1. mem.jobID # None => chunked <= LastKey
        BY <3>7 DEF WriteFinalBookmark, Chunked
      <4> QED
        BY <2>2, <3>7, <4>1, MemWrites DEF Fields
    <3>8. CASE FinishResume
      BY <2>2, <3>8, MemWrites DEF Fields
    <3> HIDE DEF Ok
    <3> QED
      BY <2>2, <3>1, <3>2, <3>3, <3>4, <3>5, <3>6, <3>7, <3>8, MemStep DEF StopStep
  <2>4. Ok(persisted')
    <3> HIDE DEF Ok
    <3> QED
      BY <2>2, <2>3, PersistedStep
  <2> QED
    BY <2>1, <2>3, <2>4 DEF Marks
<1> QED
  BY <1>1, <1>2

\* Only a fall-back brings a job into use.
LEMMA InUseStep ==
  ASSUME TypeOK, [BulkNext]_vars, InUse'
  PROVE  InUse \/ FallBackToPkChunking
<1> SUFFICES ASSUME NoJobStored, ~FallBackToPkChunking, pc \notin {"poll", "saveJob"}
             PROVE  FALSE
  BY DEF InUse
<1>1. mem'.jobID = None
  BY MemStep, MemWrites DEF Fields, StopStep, NoJobStored, SaveJobID
<1>2. persisted'.jobID = None
  BY <1>1, PersistedStep DEF NoJobStored
<1>3. pc' \in {"poll", "saveJob"}
  BY <1>1, <1>2 DEF InUse, NoJobStored
<1>4. pc' # pc
  BY <1>3
<1> USE DEF syncVars, tapVars
<1>5. CASE (FinishSync \/ ExitAfterFailure \/ StreamFails \/ OtherStreamFails \/
            OtherWritesState \/ Crash \/ StartRun \/ SyncCatalogEntry \/ ActivateVersion \/
            WriteVersion \/ BeginSyncRecords \/ FinishStream) /\ StreamStep
  BY <1>3, <1>4, <1>5
     DEF FinishSync, ExitAfterFailure, StreamFails, OtherStreamFails, OtherWritesState, Crash,
         Stop, Fail, StartRun, SyncCatalogEntry, ActivateVersion, WriteVersion,
         BeginSyncRecords, FinishStream
<1>6. CASE (PlainBatchCompletes \/ PkJobCompletes \/ SaveJobID \/ SaveBatchIDs \/ OpenBatch \/
            BatchGone \/ EmitBulkRecord \/ WritePlainBookmark \/ WriteHighest \/
            FinishBatch \/ FinishQuery) /\ UNCHANGED orgVars
  BY <1>3, <1>6
     DEF PlainBatchCompletes, PkJobCompletes, SaveJobID, SaveBatchIDs, OpenBatch, BatchGone, Fail,
         EmitBulkRecord, EmitRecord, WritePlainBookmark, WriteBookmark, WriteHighest, FinishBatch,
         FinishQuery
<1>7. CASE (WriteFinalBookmark \/ ResumeJob \/ JobFound \/ BatchIDsMissing \/ EndResume \/
            DropJob \/ FinishResume \/ OtherFallsBack) /\ UNCHANGED orgVars
  BY <1>3, <1>4, <1>7
     DEF WriteFinalBookmark, ResumeJob, JobFound, BatchIDsMissing, Fail, EndResume, DropJob,
         FinishResume, OtherFallsBack
<1>8. CASE OrgNext /\ UNCHANGED <<tapVars, job>> /\ ClientVarsNext
  BY <1>4, <1>8
<1>9. CASE ExpireJob \/ \E b \in Batch : RunBatch(b)
  BY <1>4, <1>9 DEF ExpireJob, RunBatch
<1>10. CASE UNCHANGED vars
  BY <1>4, <1>10 DEF vars
<1> QED
  BY <1>5, <1>6, <1>7, <1>8, <1>9, <1>10, NextSteps

\* A job still running keeps within its span.
LEMMA SpanStep ==
  ASSUME TypeOK, JobSpan, [BulkNext]_vars
  PROVE  job'.alive /\ ~JobComplete' => clock' <= LastKey'
<1> USE Times
<1>1. CASE FallBackToPkChunking /\ UNCHANGED orgVars
  <2>1. job'.began = clock /\ clock' = clock
    BY <1>1 DEF FallBackToPkChunking, NoJob, orgVars
  <2> QED
    BY <2>1 DEF LastKey
<1>2. CASE ExpireJob
  BY <1>2 DEF ExpireJob, TypeOK
<1>3. ASSUME NEW b \in Batch, RunBatch(b)
      PROVE  job'.alive /\ ~JobComplete' => clock' <= LastKey'
  <2>1. job.alive /\ ~JobComplete /\ clock' = clock /\ job'.began = job.began
    BY <1>3 DEF RunBatch, JobComplete, orgVars, TypeOK
  <2> QED
    BY <2>1 DEF JobSpan, LastKey
<1>4. CASE job' = job
  <2>1. CASE clock' = clock
    BY <1>4, <2>1 DEF JobSpan, LastKey, JobComplete
  <2>2. CASE OrgNext /\ BatchesKeepUp /\ clock' # clock
    <3>1. clock' = clock + 1
      BY <2>2 DEF OrgNext, BeginSave, CommitSave, Tick
    <3>2. job.alive /\ ~JobComplete => clock - job.began < MaxJobSpan
      BY <2>2 DEF BatchesKeepUp
    <3>3. job.alive /\ ~JobComplete => clock' <= LastKey
      BY <3>1, <3>2 DEF LastKey
    <3> QED
      BY <1>4, <3>3 DEF LastKey, JobComplete
  <2> QED
    BY <2>1, <2>2, OrgSteps DEF orgVars
<1> QED
  BY <1>1, <1>2, <1>3, <1>4, JobStep

\* Where the rows of the job come from.
LEMMA RowsStep ==
  ASSUME TypeOK, [BulkNext]_vars, NEW b \in Batch, NEW row \in job'.rows[b]
  PROVE  \/ row \in job.rows[b]
         \/ RunBatch(b) /\ row \in Snapshot(job.from, NoEnd) /\ BatchOf[row.r] = b
<1>1. CASE FallBackToPkChunking
  BY <1>1 DEF FallBackToPkChunking, NoJob
<1>2. CASE ExpireJob
  BY <1>2 DEF ExpireJob, NoJob, TypeOK
<1>3. ASSUME NEW d \in Batch, RunBatch(d)
      PROVE  \/ row \in job.rows[b]
             \/ RunBatch(b) /\ row \in Snapshot(job.from, NoEnd) /\ BatchOf[row.r] = b
  <2> DEFINE rows == {q \in Snapshot(job.from, NoEnd) : BatchOf[q.r] = d}
  <2>1. job' = [job EXCEPT !.ran = @ \cup {d}, !.rows[d] = rows]
    BY <1>3 DEF RunBatch
  <2> HIDE DEF rows
  <2>2. \A c \in Batch : job'.rows[c] = IF c = d THEN rows ELSE job.rows[c]
    BY <2>1 DEF TypeOK
  <2> QED
    BY <1>3, <2>2 DEF rows
<1> QED
  BY <1>1, <1>2, <1>3, JobStep

\* The stamp of a record never goes back.
LEMMA StampGrows ==
  ASSUME TypeOK, InTime, [BulkNext]_vars
  PROVE  \A r \in Record : stamp[r] <= stamp'[r] /\ stamp'[r] \in Int
<1> USE Times DEF TypeOK, SyncTypeOK, OrgTypeOK, orgVars
<1>1. CASE UNCHANGED orgVars
  BY <1>1
<1>2. ASSUME NEW r \in Record, CommitSave(r) PROVE \A q \in Record : stamp[q] <= stamp'[q] /\ stamp'[q] \in Int
  BY <1>2 DEF CommitSave, InTime, OrgInTime
<1>3. ASSUME NEW r \in Record, BeginSave(r) PROVE stamp' = stamp
  BY <1>3 DEF BeginSave
<1>4. Tick => stamp' = stamp
  BY DEF Tick
<1> QED
  BY <1>1, <1>2, <1>3, <1>4, OrgSteps DEF OrgNext

\* A job's rows stay within its span, and are never older than the target's.
LEMMA JobSpanStep ==
  ASSUME IInv, InTime, JobSpan, RowsInHand, [BulkNext]_vars
  PROVE  JobSpan'
<1> USE Times DEF IInv
<1>1. job'.alive /\ ~JobComplete' => clock' <= LastKey'
  BY SpanStep
<1>2. ~job'.alive => \A b \in Batch : job'.rows[b] = {}
  <2>1. CASE FallBackToPkChunking
    BY <2>1 DEF FallBackToPkChunking, NoJob
  <2>2. CASE ExpireJob
    BY <2>2 DEF ExpireJob, NoJob, TypeOK
  <2>3. ASSUME NEW b \in Batch, RunBatch(b) PROVE job'.alive
    BY <2>3 DEF RunBatch, TypeOK
  <2> QED
    BY <2>1, <2>2, <2>3, JobStep DEF JobSpan
<1>3. ASSUME NEW b \in Batch, NEW row \in job'.rows[b]
      PROVE  row \in Row /\ row.s <= LastKey' /\ row.s <= stamp'[row.r]
  <2>1. CASE row \in job.rows[b]
    <3>1. row \in Row /\ row.s <= LastKey /\ row.s <= stamp[row.r]
      BY <2>1 DEF JobSpan, TypeOK
    <3>2. ~FallBackToPkChunking
      BY DEF FallBackToPkChunking, NoJob
    <3>3. LastKey' = LastKey
      BY <3>2, DatesKept DEF LastKey
    <3> QED
      BY <3>1, <3>3, StampGrows
  <2>2. CASE RunBatch(b) /\ row \in Snapshot(job.from, NoEnd)
    <3>1. row \in Row /\ row.s = stamp[row.r] /\ stamp[row.r] <= clock
      BY <2>2 DEF Snapshot, InTime, OrgInTime, Row
    <3>2. job.alive /\ ~JobComplete /\ job'.began = job.began /\ stamp' = stamp
      BY <2>2 DEF RunBatch, JobComplete, TypeOK, orgVars
    <3> QED
      BY <3>1, <3>2 DEF JobSpan, LastKey
  <2> QED
    BY <2>1, <2>2, RowsStep
<1>4. InUse' => StartDate <= job'.began
  <2>1. CASE FallBackToPkChunking
    BY <2>1 DEF FallBackToPkChunking, NoJob, InTime
  <2> QED
    BY <2>1, DatesKept, InUseStep DEF JobSpan
<1>5. ASSUME InUse', NEW b \in Batch, NEW row \in job'.rows[b]
      PROVE  target'[row.r].s <= row.s
  <2>1. InUse /\ ~FallBackToPkChunking
    BY <1>5, InUseStep DEF FallBackToPkChunking, NoJob
  <2>2. row \in Row /\ target[row.r].s <= row.s
    <3>1. CASE row \in job.rows[b]
      BY <2>1, <3>1 DEF JobSpan, TypeOK
    <3>2. CASE row \in Snapshot(job.from, NoEnd)
      BY <3>2 DEF Snapshot, InTime, OrgInTime, Row
    <3> QED
      BY <3>1, <3>2, RowsStep
  <2>3. CASE target' = target
    BY <2>2, <2>3
  <2>4. CASE ActivateVersion
    <3>1. target'[row.r].s \in {target[row.r].s, -1}
      BY <2>2, <2>4 DEF ActivateVersion, NoRow
    <3> QED
      BY <2>2, <3>1
  <2>5. CASE EmitBulkRecord
    <3>1. PICK new \in todo : EmitRecord(new)
      BY <2>5 DEF EmitBulkRecord, EmitRecord
    <3>2. new \in Row /\ pc = "rows" /\ job' = job
      BY <2>5, <3>1 DEF EmitBulkRecord, EmitRecord, TypeOK, SyncTypeOK, bulkVars
    <3>3. target'[row.r].s = IF row.r = new.r THEN new.s ELSE target[row.r].s
      BY <2>2, <3>1, <3>2 DEF EmitRecord, TypeOK, SyncTypeOK
    <3>4. batch # None
      BY <2>1, <3>2 DEF InUse, Control
    <3>5. CASE row.r = new.r
      <4>1. row \in job.rows[b] /\ BatchOf[row.r] = b
        BY <3>2, <1>5 DEF JobRows
      <4>2. job.alive
        BY <4>1 DEF JobSpan
      <4>3. batch \in Batch /\ new \in job.rows[batch] /\ BatchOf[new.r] = batch
        BY <3>1, <3>2, <3>4, <4>2 DEF InBatch, JobRows, TypeOK
      <4>4. new = row
        BY <3>5, <4>1, <4>3 DEF JobRows
      <4> QED
        BY <2>2, <3>3, <4>4
    <3>6. CASE row.r # new.r
      BY <2>2, <3>3, <3>6
    <3> QED
      BY <3>5, <3>6
  <2> QED
    BY <2>3, <2>4, <2>5, TargetStep
<1> QED
  BY <1>1, <1>2, <1>3, <1>4, <1>5 DEF JobSpan

-----------------------------------------------------------------------------
(* What a step may add to the outstanding changes: a save begun now, or,     *)
(* when a new version is activated, the rows the target drops.               *)

\* Rows that stay at the target leave no change outstanding that was not before.
LEMMA OutstandingShrinks ==
  ASSUME UNCHANGED <<stamp, pending>>,
         \A r \in Record : target[r].s = stamp[r] => target'[r].s = stamp[r]
  PROVE  Outstanding' \subseteq Outstanding
BY DEF Outstanding, Row

\* Emitting a row leaves nothing new outstanding, and what is still outstanding
\* and was in hand stays in hand.
LEMMA EmittedRow ==
  ASSUME TypeOK, InTime, RowsInHand, EmitBulkRecord, UNCHANGED orgVars
  PROVE  /\ Outstanding' \subseteq Outstanding
         /\ \A c \in Outstanding' : c \in todo => c \in todo'
<1> USE Times DEF TypeOK, SyncTypeOK, OrgTypeOK
<1>1. PICK row \in todo : EmitRecord(row)
  BY DEF EmitBulkRecord
<1>2. /\ row \in Row /\ row.r \in Record /\ row.s \in Int
      /\ row.s <= stamp[row.r] /\ target[row.r].s <= row.s
      /\ row = [r |-> row.r, s |-> row.s]
  BY <1>1 DEF RowsInHand, Row
<1>3. target' = [target EXCEPT ![row.r] = [s |-> row.s, v |-> version]]
  BY <1>1 DEF EmitRecord
<1>4. todo' = todo \ {row} /\ stamp' = stamp /\ pending' = pending
  BY <1>1 DEF EmitRecord, orgVars
<1>5. \A r \in Record : target[r].s = stamp[r] => target'[r].s = stamp[r]
  <2>1. \A r \in Record : target'[r].s = IF r = row.r THEN row.s ELSE target[r].s
    BY <1>3
  <2> QED
    BY <1>2, <2>1
<1>6. Outstanding' \subseteq Outstanding
  BY <1>4, <1>5, OutstandingShrinks
<1>7. ASSUME NEW c \in Outstanding', c = row PROVE FALSE
  <2>1. target'[row.r].s = row.s
    BY <1>2, <1>3
  <2>2. row.s = pending[row.r]
    BY <1>4, <1>7, <2>1 DEF Outstanding
  <2> QED
    BY <1>2, <2>2, OrgAssumption DEF InTime, OrgInTime, NoSave, Row
<1> QED
  BY <1>4, <1>6, <1>7

\* What a step may leave outstanding: what was, or a save that begins now.
LEMMA OutstandingStep ==
  ASSUME TypeOK, InTime, RowsInHand, [BulkNext]_vars, pc # "activate" \/ RowsCarry(version)
  PROVE  \A c \in Outstanding' : c \in Outstanding \/ c.s = clock
<1> USE DEF TypeOK, SyncTypeOK, OrgTypeOK
<1>1. CASE UNCHANGED tapVars /\ \E r \in Record : BeginSave(r)
  BY <1>1 DEF BeginSave, tapVars, Outstanding, Row
<1>2. CASE UNCHANGED tapVars /\ \E r \in Record : CommitSave(r)
  <2>1. PICK r \in Record : CommitSave(r)
    BY <1>2
  <2>2. /\ pending' = [pending EXCEPT ![r] = NoSave] /\ target' = target
        /\ stamp' = [stamp EXCEPT ![r] = pending[r]]
    BY <1>2, <2>1 DEF CommitSave, tapVars
  <2>3. ASSUME NEW c \in Outstanding' PROVE c \in Outstanding
    <3>1. c \in Row /\ c.r \in Record /\ c.s \in Instant
      BY DEF Outstanding, Row
    <3>2. CASE c.r = r
      BY <2>2, <3>1, <3>2, OrgAssumption DEF Outstanding, NoSave, Instant
    <3>3. CASE c.r # r
      BY <2>2, <3>1, <3>3 DEF Outstanding
    <3> QED
      BY <3>2, <3>3
  <2> QED
    BY <2>3
<1>3. CASE ActivateVersion /\ UNCHANGED orgVars
  <2>1. \A r \in Record : target'[r].s = target[r].s
    BY <1>3 DEF ActivateVersion, RowsCarry
  <2> QED
    BY <1>3, <2>1, OutstandingShrinks DEF orgVars
<1>4. CASE EmitBulkRecord /\ UNCHANGED orgVars
  BY <1>4, EmittedRow
<1>5. CASE UNCHANGED <<stamp, pending, target>>
  BY <1>5, OutstandingShrinks
<1> QED
  BY <1>1, <1>2, <1>3, <1>4, <1>5, OrgSteps, TargetStep
     DEF OrgNext, Tick, orgVars, tapVars, StreamStep

\* Away from the activation of a version, what a step adds is too recent for the
\* run and for the job.
LEMMA NewIsLate ==
  ASSUME TypeOK, InTime, RowsInHand, [BulkNext]_vars, pc # "activate", NEW c \in Outstanding'
  PROVE  c \in Outstanding \/ (Late(c) /\ JobLate(c))
<1>1. c \in Row
  BY DEF Outstanding
<1>2. c \in Outstanding \/ c.s = clock
  BY OutstandingStep
<1> QED
  BY <1>1, <1>2, Times DEF InTime, Late, JobLate

\* So is a save that is still pending.
LEMMA PendingIsLate ==
  ASSUME TypeOK, InTime, NEW c \in Outstanding, c.s = pending[c.r]
  PROVE  /\ c.s >= clock - CommitDelay
         /\ Late(c) /\ JobLate(c)
<1>1. c \in Row
  BY DEF Outstanding
<1>2. pending[c.r] # NoSave
  BY <1>1, Times DEF NoSave
<1>3. c.s >= clock - CommitDelay
  BY <1>1, <1>2, Times DEF InTime, OrgInTime
<1> QED
  BY <1>1, <1>3, Times DEF InTime, Late, JobLate

-----------------------------------------------------------------------------
(* Every outstanding change is in its batch, or the batch is still listed. *)

\* A change the job was asked for is in the rows of its batch once that has run.
LEMMA TracedStep ==
  ASSUME IInv, InTime, Traced, RowsInHand, Covers(mem), [BulkNext]_vars
  PROVE  Traced'
<1> SUFFICES ASSUME job'.alive, InUse', NEW c \in Outstanding'
             PROVE  JobLate(c)' \/ Found(c)'
  BY DEF Traced
<1> USE Times DEF IInv
<1>1. c \in Row
  BY DEF Outstanding
<1>2. CASE FallBackToPkChunking /\ UNCHANGED orgVars
  <2>1. c \in Outstanding /\ pc = "query"
    BY <1>2 DEF FallBackToPkChunking, orgVars, Outstanding
  <2>2. job'.ran = {} /\ job'.from = GetStartDate(mem)
    BY <1>2 DEF FallBackToPkChunking, NoJob
  <2> QED
    BY <1>1, <2>1, <2>2 DEF Covers, JobLate, Found
<1>3. CASE ~FallBackToPkChunking
  <2>1. InUse /\ job'.began = job.began /\ job'.from = job.from
    BY <1>3, DatesKept, InUseStep
  <2>2. pc # "activate"
    BY <2>1 DEF InUse, Control
  <2>3. JobLate(c) => JobLate(c)'
    BY <2>1 DEF JobLate
  <2>4. c \in Outstanding \/ JobLate(c)'
    BY <2>2, <2>3, NewIsLate
  <2>5. CASE job' = job
    BY <2>1, <2>3, <2>4, <2>5 DEF Traced, Found
  <2>6. CASE ExpireJob
    BY <2>6 DEF ExpireJob, TypeOK
  <2>7. ASSUME NEW b \in Batch, RunBatch(b) PROVE JobLate(c)' \/ Found(c)'
    <3> DEFINE rows == {row \in Snapshot(job.from, NoEnd) : BatchOf[row.r] = b}
    <3>1. job' = [job EXCEPT !.ran = @ \cup {b}, !.rows[b] = rows]
          /\ job.alive /\ b \notin job.ran
      BY <2>7 DEF RunBatch
    <3> HIDE DEF rows
    <3>2. \A d \in Batch : job'.rows[d] = IF d = b THEN rows ELSE job.rows[d]
      BY <3>1 DEF TypeOK
    <3>3. job'.ran = job.ran \cup {b}
      BY <3>1 DEF TypeOK
    <3>4. BatchOf[c.r] \in Batch
      BY <1>1, Constants
    <3> SUFFICES ASSUME c \in Outstanding, ~JobLate(c)
                 PROVE  Found(c)'
      BY <2>3, <2>4
    <3>5. Found(c)
      BY <2>1, <3>1 DEF Traced
    <3>6. CASE BatchOf[c.r] # b
      BY <2>1, <3>2, <3>3, <3>4, <3>5, <3>6 DEF Found
    <3>7. CASE BatchOf[c.r] = b
      <4>1. c.s >= job.from
        BY <3>1, <3>5, <3>7 DEF Found
      <4>2. c.s = stamp[c.r]
        BY PendingIsLate DEF Outstanding
      <4>3. c.s < NoEnd
        BY <1>1, OrgAssumption DEF Row, Instant, NoEnd
      <4>4. c \in rows
        BY <1>1, <3>7, <4>1, <4>2, <4>3 DEF rows, Snapshot
      <4> QED
        BY <3>2, <3>3, <3>4, <3>7, <4>4 DEF Found
    <3> QED
      BY <3>6, <3>7
  <2> QED
    BY <1>3, <2>5, <2>6, <2>7, JobStep
<1> QED
  BY <1>2, <1>3, FallBackStep

\* An entry lists the batch of every change the job has still to deliver.
LEMMA ListedStep ==
  ASSUME IInv, InTime, Listed(mem), Listed(persisted), RowsInHand, InHand, [BulkNext]_vars
  PROVE  Listed(mem)' /\ Listed(persisted)'
<1> USE DEF IInv
<1>1. CASE FallBackToPkChunking \/ (ActivateVersion /\ pc = "activate")
  <2>1. mem'.jobID = None /\ persisted'.jobID = None
    BY <1>1 DEF FallBackToPkChunking, ActivateVersion, Control, NoJobStored
  <2> QED
    BY <2>1 DEF Listed
<1>2. CASE ~FallBackToPkChunking /\ pc # "activate"
  <2>1. \A c : JobLate(c)' <=> JobLate(c)
    BY <1>2, DatesKept DEF JobLate
  <2>2. \A c \in Outstanding' : c.r \in Record /\ (c \in Outstanding \/ JobLate(c))
    BY <1>2, NewIsLate DEF Outstanding, Row
  <2> DEFINE Ok(e) ==
        e.jobID # None /\ e.batchIDs # None =>
          \A c \in Outstanding' : JobLate(c) \/ BatchOf[c.r] \in e.batchIDs
  <2>3. Ok(mem) /\ Ok(persisted)
    BY <2>2 DEF Listed
  <2>4. Ok(mem')
    <3>1. CASE StartRun \/ Stop \/ WriteVersion \/ WritePlainBookmark \/ WriteHighest \/
               WriteFinalBookmark \/ DropJob \/ FinishResume
      BY <2>3, <3>1, MemWrites DEF Fields
    <3>2. CASE SaveJobID
      <4>1. mem.batchIDs = None
        BY <3>2 DEF SaveJobID, Control
      <4> QED
        BY <3>2, <4>1, MemWrites DEF Fields
    <3>3. CASE SaveBatchIDs
      BY <2>2, <3>3, MemWrites, Constants DEF Fields
    <3>4. CASE FinishBatch /\ UNCHANGED orgVars
      <4>1. pc = "rows" /\ batch # None /\ todo = {} /\ target' = target
        BY <3>4 DEF FinishBatch
      <4>2. \A c \in Outstanding : BatchOf[c.r] = batch => JobLate(c)
        BY <4>1 DEF InHand
      <4>3. mem'.jobID = mem.jobID /\ mem'.batchIDs = mem.batchIDs \ {batch} /\ mem.batchIDs # None
        BY <3>4, <4>1, MemWrites, Constants DEF Fields, Control
      <4> QED
        BY <2>2, <2>3, <4>2, <4>3
    <3> HIDE DEF Ok
    <3> QED
      BY <2>3, <3>1, <3>2, <3>3, <3>4, MemStep DEF StopStep
  <2>5. Ok(persisted')
    <3> HIDE DEF Ok
    <3> QED
      BY <2>3, <2>4, PersistedStep
  <2> QED
    BY <2>1, <2>4, <2>5 DEF Listed
<1>3. CASE pc = "activate" /\ ~ActivateVersion
  <2>1. mem' = mem \/ Stop
    BY <1>3, MemStep
       DEF StopStep, StartRun, WriteVersion, SaveJobID, SaveBatchIDs, WritePlainBookmark,
           WriteBookmark, WriteHighest, FinishBatch, WriteFinalBookmark, DropJob,
           FinishResume, Control
  <2>2. mem'.jobID = None /\ mem.jobID = None /\ persisted.jobID = None
    BY <1>3, <2>1, MemWrites DEF Fields, Control, NoJobStored
  <2>3. persisted'.jobID = None
    BY <2>2, PersistedStep
  <2> QED
    BY <2>2, <2>3 DEF Listed
<1> QED
  BY <1>1, <1>2, <1>3

-----------------------------------------------------------------------------
(* The rows in hand. *)

\* The steps that keep the rows in hand, or have none.
LEMMA TodoStep ==
  ASSUME TypeOK, Control, RowsInHand, [BulkNext]_vars
  PROVE  \/ todo' = {} /\ pc' # "mark"
         \/ (PlainBatchCompletes \/ OpenBatch \/ EmitBulkRecord) /\ UNCHANGED orgVars
         \/ (WritePlainBookmark \/ WriteHighest) /\ UNCHANGED <<orgVars, todo, batch, job, target>>
         \/ pc \in {"rows", "mark"} /\ UNCHANGED <<pc, todo, cur, batch, mem>>
<1> USE DEF StreamStep, tapVars, clientVars, bulkVars
<1>1. CASE (StartRun \/ SyncCatalogEntry \/ ActivateVersion \/ WriteVersion \/
            BeginSyncRecords \/ FinishStream) /\ StreamStep
  BY <1>1 DEF StartRun, SyncCatalogEntry, ActivateVersion, WriteVersion, BeginSyncRecords,
              FinishStream, RowsInHand, Control
<1>2. CASE (FinishSync \/ ExitAfterFailure \/ StreamFails \/ Crash) /\ StreamStep
  BY <1>2 DEF FinishSync, ExitAfterFailure, StreamFails, Crash, Stop, Fail
<1>3. CASE (OtherStreamFails \/ OtherWritesState) /\ StreamStep
  BY <1>3 DEF OtherStreamFails, OtherWritesState, ClientVarsNext, RowsInHand
<1>4. CASE (FallBackToPkChunking \/ PkJobCompletes \/ SaveJobID \/ SaveBatchIDs \/ BatchGone \/
            FinishBatch \/ FinishQuery) /\ UNCHANGED orgVars
  BY <1>4 DEF FallBackToPkChunking, PkJobCompletes, SaveJobID, SaveBatchIDs, BatchGone, Fail,
              FinishBatch, FinishQuery, RowsInHand
<1>5. CASE (WriteFinalBookmark \/ ResumeJob \/ JobFound \/ BatchIDsMissing \/ EndResume \/
            DropJob \/ FinishResume) /\ UNCHANGED orgVars
  BY <1>5 DEF WriteFinalBookmark, ResumeJob, JobFound, BatchIDsMissing, Fail, EndResume,
              DropJob, FinishResume, RowsInHand
<1>6. CASE (WritePlainBookmark \/ WriteHighest) /\ UNCHANGED orgVars
  BY <1>6 DEF WritePlainBookmark, WriteBookmark, WriteHighest
<1>7. CASE OtherFallsBack /\ UNCHANGED orgVars
  BY <1>7 DEF OtherFallsBack, RowsInHand
<1>8. CASE OrgNext /\ UNCHANGED <<tapVars, job>> /\ ClientVarsNext
  <2>1. UNCHANGED <<pc, todo, cur, process, mem>>
    BY <1>8
  <2>2. process # "down" => batch' = batch
    BY <1>8, <2>1 DEF ClientVarsNext
  <2> QED
    BY <2>1, <2>2 DEF Control, RowsInHand
<1>9. CASE ExpireJob \/ \E b \in Batch : RunBatch(b)
  BY <1>9 DEF ExpireJob, RunBatch, RowsInHand
<1>10. CASE UNCHANGED vars
  BY <1>10 DEF vars, syncVars, RowsInHand
<1> QED
  BY <1>1, <1>2, <1>3, <1>4, <1>5, <1>6, <1>7, <1>8, <1>9, <1>10, NextSteps

\* The rows of the single batch.
LEMMA PlainRows ==
  ASSUME TypeOK, Control, InTime, PlainBatchCompletes, UNCHANGED orgVars
  PROVE  RowsInHand'
<1>1. /\ todo' = Snapshot(GetStartDate(mem), NoEnd)
      /\ target' = target /\ stamp' = stamp /\ pc' = "rows" /\ batch' = None
  BY DEF PlainBatchCompletes, orgVars, Control
<1>2. \A row \in todo' :
        /\ row.s <= stamp[row.r] /\ target[row.r].s <= row.s
        /\ \A other \in todo' : other.r = row.r => other = row
  BY <1>1, Times DEF Snapshot, Row, InTime, OrgInTime
<1> QED
  BY <1>1, <1>2 DEF RowsInHand

\* The rows of a batch.
LEMMA BatchRows ==
  ASSUME IInv, InJob, JobSpan, OpenBatch, UNCHANGED orgVars
  PROVE  RowsInHand'
<1>1. /\ todo' = job.rows[batch'] /\ batch' \in Batch /\ pc = "batches" /\ pc' = "rows"
      /\ UNCHANGED <<target, stamp, job>>
  BY DEF IInv, Control, OpenBatch, orgVars
<1>2. InUse
  BY <1>1 DEF InUse, InJob, NoJobStored
<1>3. \A row \in job.rows[batch'] :
        /\ row.s <= stamp[row.r] /\ target[row.r].s <= row.s /\ row.s <= LastKey
        /\ BatchOf[row.r] = batch'
        /\ \A other \in job.rows[batch'] : other.r = row.r => other = row
  BY <1>1, <1>2 DEF JobSpan, JobRows, IInv
<1> QED
  BY <1>1, <1>3 DEF RowsInHand, LastKey

\* Writing a row leaves the others as they were.
LEMMA RestOfRows ==
  ASSUME TypeOK, RowsInHand, EmitBulkRecord, UNCHANGED orgVars
  PROVE  RowsInHand'
<1> USE Times
<1>1. PICK row \in todo : (batch = None => IsNext(row)) /\ EmitRecord(row)
  BY DEF EmitBulkRecord
<1>2. /\ row \in Row /\ todo \subseteq Row /\ UNCHANGED <<stamp, batch, job>>
      /\ todo' = todo \ {row} /\ pc' = "mark" /\ cur' = row.s /\ row.s \in Instant
  BY <1>1 DEF EmitBulkRecord, EmitRecord, TypeOK, SyncTypeOK, orgVars, bulkVars, clientVars, Row
<1>3. \A r \in Record : target'[r].s = IF r = row.r THEN row.s ELSE target[r].s
  BY <1>1, <1>2 DEF EmitRecord, TypeOK, SyncTypeOK
<1>4. LastKey' = LastKey
  BY <1>2 DEF LastKey
<1>5. ASSUME NEW other \in todo'
      PROVE  /\ other.s <= stamp[other.r] /\ target'[other.r].s <= other.s
             /\ \A third \in todo' : third.r = other.r => third = other
             /\ batch # None => other.s <= LastKey /\ BatchOf[other.r] = batch
             /\ batch = None => row.s <= other.s
  <2>1. other \in todo /\ other # row /\ other \in Row
    BY <1>2
  <2>2. other.r # row.r
    BY <1>1, <2>1 DEF RowsInHand
  <2>3. target'[other.r].s = target[other.r].s
    BY <1>3, <2>1, <2>2
  <2>4. batch = None => row.s <= other.s
    BY <1>1, <2>1 DEF IsNext
  <2> QED
    BY <1>2, <2>1, <2>3, <2>4 DEF RowsInHand
<1>6. batch # None => row.s <= LastKey
  BY <1>1 DEF RowsInHand
<1> QED
  BY <1>2, <1>4, <1>5, <1>6 DEF RowsInHand

\* Every step keeps the rows in hand, one for each record.
LEMMA RowsInHandStep ==
  ASSUME IInv, InTime, InJob, JobSpan, RowsInHand, [BulkNext]_vars
  PROVE  RowsInHand'
<1> USE Times DEF IInv
<1>1. CASE todo' = {} /\ pc' # "mark"
  BY <1>1 DEF RowsInHand
<1>2. CASE (WritePlainBookmark \/ WriteHighest) /\ UNCHANGED <<orgVars, todo, batch, job, target>>
  <2>1. pc = "mark" /\ pc' = "rows"
    BY <1>2 DEF WritePlainBookmark, WriteBookmark, WriteHighest
  <2> QED
    BY <1>2, <2>1 DEF RowsInHand, LastKey, orgVars
<1>3. CASE pc \in {"rows", "mark"} /\ UNCHANGED <<pc, todo, cur, batch, mem>>
  <2>1. LastKey' = LastKey
    BY <1>3, DatesKept DEF LastKey, FallBackToPkChunking
  <2>2. target' = target
    BY <1>3, TargetStep DEF ActivateVersion, EmitBulkRecord, EmitRecord
  <2>3. \A row \in todo : row.s <= stamp'[row.r]
    BY StampGrows DEF RowsInHand, TypeOK, SyncTypeOK
  <2> QED
    BY <1>3, <2>1, <2>2, <2>3 DEF RowsInHand
<1> QED
  BY <1>1, <1>2, <1>3, TodoStep, PlainRows, BatchRows, RestOfRows

-----------------------------------------------------------------------------
(* What is outstanding is in hand, in another batch, or late. *)

BatchRead == pc \in {"rows", "mark"} /\ batch # None
Resumed == pc \in {"resumed", "drop"}

\* How a step comes to a read, or goes on with it.
Reads ==
  /\ PlainRead' =>
       \/ PlainBatchCompletes /\ UNCHANGED orgVars
       \/ /\ PlainRead /\ UNCHANGED startTime
          /\ (EmitBulkRecord /\ UNCHANGED orgVars) \/ todo' = todo
          /\ chunked' = chunked \/ WriteHighest
  /\ BatchRead' =>
       \/ OpenBatch /\ UNCHANGED orgVars
       \/ /\ BatchRead /\ UNCHANGED batch
          /\ (EmitBulkRecord /\ UNCHANGED orgVars) \/ todo' = todo
          /\ chunked' = chunked \/ WriteHighest
  /\ Resumed' =>
       \/ EndResume /\ UNCHANGED orgVars
       \/ Resumed /\ mem'.highest = mem.highest

LEMMA ReadStep ==
  ASSUME TypeOK, Control, InJob, [BulkNext]_vars
  PROVE  Reads
<1> USE DEF PlainRead, BatchRead, Resumed
<1>1. CASE pc' \notin {"rows", "mark", "final", "resumed", "drop"}
  BY <1>1 DEF Reads
<1>2. CASE UNCHANGED <<pc, todo, startTime, mem>> /\ (process' = "down" \/ UNCHANGED <<batch, chunked>>)
           /\ (process' = "down" => pc = "idle")
  <2>1. CASE UNCHANGED <<batch, chunked>>
    BY <1>2, <2>1 DEF Reads
  <2>2. CASE pc = "idle"
    BY <1>1, <1>2, <2>2
  <2> QED
    BY <1>2, <2>1, <2>2
<1>3. CASE (OtherStreamFails \/ OtherWritesState) /\ StreamStep
  <2>1. process' # "down" /\ UNCHANGED <<pc, todo, startTime, mem>>
    BY <1>3 DEF OtherStreamFails, OtherWritesState
  <2>2. UNCHANGED <<batch, chunked>>
    BY <1>3, <2>1 DEF StreamStep, ClientVarsNext, clientVars
  <2> QED
    BY <1>2, <2>1, <2>2
<1>4. CASE PlainBatchCompletes /\ UNCHANGED orgVars
  BY <1>4 DEF PlainBatchCompletes, Control, Reads
<1>5. CASE OpenBatch /\ UNCHANGED orgVars
  <2>1. batch' \in Batch /\ pc' = "rows"
    BY <1>5 DEF OpenBatch, Control
  <2>2. batch' # None
    BY <2>1, Constants
  <2> QED
    BY <1>5, <2>1, <2>2 DEF Reads
<1>6. CASE EmitBulkRecord /\ UNCHANGED orgVars
  BY <1>6 DEF EmitBulkRecord, EmitRecord, bulkVars, clientVars, Reads
<1>7. CASE (WritePlainBookmark \/ WriteHighest) /\ UNCHANGED orgVars
  <2>1. pc = "mark" /\ pc' = "rows" /\ UNCHANGED <<batch, startTime, todo>>
    BY <1>7 DEF WritePlainBookmark, WriteBookmark, WriteHighest, bulkVars, clientVars
  <2>2. chunked' = chunked \/ WriteHighest
    BY <1>7 DEF WritePlainBookmark, bulkVars, clientVars
  <2> QED
    BY <2>1, <2>2 DEF Reads
<1>8. CASE FinishQuery /\ UNCHANGED orgVars
  <2>1. /\ (pc = "rows" /\ batch = None) \/ pc = "batches"
        /\ pc' = "final" /\ UNCHANGED <<mem, startTime, todo, chunked>>
    BY <1>8 DEF FinishQuery, bulkVars, clientVars
  <2> QED
    BY <2>1 DEF InJob, Reads
<1>9. CASE (EndResume \/ DropJob) /\ UNCHANGED orgVars
  <2>1. CASE EndResume
    BY <1>9, <2>1 DEF EndResume, Reads
  <2>2. CASE DropJob
    <3>1. mem'.highest = mem.highest
      BY <2>2, MemWrites DEF Fields
    <3> QED
      BY <2>2, <3>1 DEF DropJob, Reads
  <2> QED
    BY <1>9, <2>1, <2>2
<1>10. CASE OtherFallsBack /\ UNCHANGED orgVars
  BY <1>2, <1>10 DEF OtherFallsBack, tapVars
<1>11. CASE OrgNext /\ UNCHANGED <<tapVars, job>> /\ ClientVarsNext
  <2>1. UNCHANGED <<pc, todo, startTime, mem, process>>
    BY <1>11 DEF tapVars
  <2>2. process' = "down" \/ UNCHANGED <<batch, chunked>>
    BY <1>11 DEF ClientVarsNext, clientVars
  <2> QED
    BY <1>2, <2>1, <2>2 DEF Control
<1>12. CASE ExpireJob \/ \E b \in Batch : RunBatch(b)
  <2>1. UNCHANGED <<pc, todo, startTime, mem, batch, chunked>>
    BY <1>12 DEF ExpireJob, RunBatch, tapVars, clientVars
  <2> QED
    BY <2>1 DEF Reads
<1>13. CASE UNCHANGED vars
  <2>1. UNCHANGED <<pc, todo, startTime, mem, batch, chunked>>
    BY <1>13 DEF vars, syncVars, tapVars, bulkVars, clientVars
  <2> QED
    BY <2>1 DEF Reads
<1> QED
  BY <1>1, <1>3, <1>4, <1>5, <1>6, <1>7, <1>8, <1>9, <1>10, <1>11, <1>12, <1>13, NextSteps
     DEF StartRun, SyncCatalogEntry, ActivateVersion, WriteVersion, BeginSyncRecords,
         FinishStream, FinishSync, ExitAfterFailure, Crash, Stop, StreamFails, Fail,
         FallBackToPkChunking, PkJobCompletes, SaveJobID, SaveBatchIDs, BatchGone, FinishBatch,
         WriteFinalBookmark, ResumeJob, JobFound, BatchIDsMissing, FinishResume

\* What is outstanding when the single batch completes is in it, or late.
LEMMA PlainRowsInHand ==
  ASSUME TypeOK, InTime, Covers(mem), PlainBatchCompletes, UNCHANGED orgVars,
         NEW c \in Outstanding
  PROVE  c \in todo' \/ Late(c)
<1>1. c \in Row /\ todo' = Snapshot(GetStartDate(mem), NoEnd)
  BY DEF Outstanding, PlainBatchCompletes
<1>2. CASE c.s = pending[c.r]
  BY <1>2, PendingIsLate
<1>3. CASE c.s = stamp[c.r] /\ c.s >= StartDate
  <2>1. c.s >= GetStartDate(mem)
    BY <1>3 DEF Covers
  <2>2. c.s < NoEnd
    BY <1>1, OrgAssumption DEF Row, Instant, NoEnd
  <2> QED
    BY <1>1, <1>3, <2>1, <2>2 DEF Snapshot
<1> QED
  BY <1>1, <1>2, <1>3, Times DEF Outstanding, Late

\* What is outstanding in a batch when it is opened is in it, or late for the job.
LEMMA BatchRowsInHand ==
  ASSUME IInv, InJob, Traced, OpenBatch, NEW c \in Outstanding, BatchOf[c.r] = batch'
  PROVE  c \in todo' \/ JobLate(c)
<1>1. todo' = job.rows[batch'] /\ batch' \in Batch /\ pc = "batches" /\ job.alive
  BY DEF OpenBatch, IInv, Control, JobAlive
<1>2. mem.jobID # None
  BY <1>1 DEF InJob
<1>3. InUse /\ job.ran = Batch
  BY <1>1, <1>2 DEF InUse, NoJobStored, IInv, StoredJobHasRun, JobComplete
<1> QED
  BY <1>1, <1>3 DEF Traced, Found

\* A resume that returns has left nothing behind its highest bookmark, unless the
\* job was lost.
LEMMA ResumedInHand ==
  ASSUME TypeOK, InJob, Marks(mem), Listed(mem), ~JobLost, EndResume
  PROVE  mem.highest = None \/ (mem.highest <= LastKey /\ \A c \in Outstanding : JobLate(c))
<1>1. mem.jobID # None /\ mem.batchIDs \in {None, {}}
  BY DEF EndResume, JobLost, InJob
<1>2. CASE mem.batchIDs = None
  BY <1>1, <1>2 DEF Marks
<1>3. CASE mem.batchIDs = {} /\ mem.batchIDs # None
  BY <1>1, <1>3 DEF Marks, Listed
<1> QED
  BY <1>1, <1>2, <1>3

\* A step leaves what is outstanding in hand, in another batch, or late.
LEMMA InHandStep ==
  ASSUME IInv, InTime, InJob, Marks(mem), Listed(mem), Traced, RowsInHand, InHand, Covers(mem),
         ~JobLost, [BulkNext]_vars
  PROVE  InHand'
<1> USE Times DEF IInv
<1>1. Reads
  BY ReadStep
<1>2. pc # "activate" => \A c \in Outstanding' : c \in Outstanding \/ (Late(c) /\ JobLate(c))
  BY NewIsLate
<1>3. ~FallBackToPkChunking => \A c : JobLate(c)' <=> JobLate(c)
  BY DatesKept DEF JobLate
<1>4. ASSUME PlainRead', NEW c \in Outstanding' PROVE c \in todo' \/ Late(c)'
  <2>1. CASE PlainBatchCompletes /\ UNCHANGED orgVars
    <3>1. c \in Outstanding /\ startTime' = startTime
      BY <2>1 DEF PlainBatchCompletes, orgVars, Outstanding
    <3> QED
      BY <2>1, <3>1, PlainRowsInHand DEF Late
  <2>2. CASE /\ PlainRead /\ UNCHANGED startTime
             /\ (EmitBulkRecord /\ UNCHANGED orgVars) \/ todo' = todo
    <3>1. c \in Outstanding \/ Late(c)
      BY <1>2, <2>2 DEF PlainRead
    <3>2. c \in todo => c \in todo'
      BY <2>2, EmittedRow
    <3> QED
      BY <2>2, <3>1, <3>2 DEF InHand, Late
  <2> QED
    BY <1>1, <1>4, <2>1, <2>2 DEF Reads
<1>5. ASSUME BatchRead', NEW c \in Outstanding', BatchOf[c.r] = batch'
      PROVE  c \in todo' \/ JobLate(c)'
  <2>1. CASE OpenBatch /\ UNCHANGED orgVars
    <3>1. c \in Outstanding /\ job' = job
      BY <2>1 DEF OpenBatch, orgVars, Outstanding
    <3> QED
      BY <1>5, <2>1, <3>1, BatchRowsInHand DEF JobLate
  <2>2. CASE /\ BatchRead /\ UNCHANGED batch
             /\ (EmitBulkRecord /\ UNCHANGED orgVars) \/ todo' = todo
    <3>1. pc \in {"rows", "mark"} /\ batch # None /\ ~FallBackToPkChunking
      BY <2>2 DEF BatchRead, FallBackToPkChunking
    <3>2. c \in Outstanding \/ JobLate(c)
      BY <1>2, <3>1
    <3>3. c \in todo => c \in todo'
      BY <2>2, EmittedRow
    <3> QED
      BY <1>3, <1>5, <2>2, <3>1, <3>2, <3>3 DEF InHand
  <2> QED
    BY <1>1, <1>5, <2>1, <2>2 DEF Reads
<1>6. ASSUME Resumed', mem'.highest # None
      PROVE  mem'.highest <= LastKey' /\ \A c \in Outstanding' : JobLate(c)'
  <2>1. CASE EndResume /\ UNCHANGED orgVars
    <3>1. Outstanding' = Outstanding /\ job' = job /\ mem' = mem
      BY <2>1 DEF EndResume, orgVars, Outstanding, bulkVars
    <3> QED
      BY <1>6, <2>1, <3>1, ResumedInHand DEF JobLate, LastKey
  <2>2. CASE Resumed /\ mem'.highest = mem.highest
    <3>1. pc \in {"resumed", "drop"} /\ ~FallBackToPkChunking /\ mem.highest # None
      BY <1>6, <2>2 DEF Resumed, FallBackToPkChunking
    <3>2. mem.highest <= LastKey /\ \A c \in Outstanding : JobLate(c)
      BY <3>1 DEF InHand
    <3>3. LastKey' = LastKey
      BY <3>1, DatesKept DEF LastKey
    <3> QED
      BY <1>2, <1>3, <2>2, <3>1, <3>2, <3>3
  <2> QED
    BY <1>1, <1>6, <2>1, <2>2 DEF Reads
<1> QED
  BY <1>4, <1>5, <1>6 DEF InHand, BatchRead, Resumed

-----------------------------------------------------------------------------
(* The highest key seen. *)

JobPlaces == {"poll", "saveJob", "saveBatches", "exists", "batches"}

\* How a step comes to a query, to a job and to the end of a query.
Places ==
  /\ pc' = "query" => BeginSyncRecords \/ (pc = "query" /\ UNCHANGED <<mem, startTime>>)
  /\ pc' \in JobPlaces =>
       FallBackToPkChunking \/ ResumeJob \/
       ((pc \in JobPlaces \/ BatchRead) /\ chunked' = chunked)
  /\ pc' = "final" /\ mem'.jobID # None =>
       (pc = "batches" \/ (pc = "final" /\ mem.jobID # None)) /\ chunked' = chunked

LEMMA PlacesStep ==
  ASSUME TypeOK, Control, [BulkNext]_vars
  PROVE  Places
<1> USE DEF BatchRead, JobPlaces
<1>1. CASE pc' \notin JobPlaces \cup {"query", "final"}
  BY <1>1 DEF Places
<1>2. CASE UNCHANGED <<pc, startTime, mem>> /\ (pc = "idle" \/ UNCHANGED chunked)
  BY <1>2 DEF Places
<1>3. CASE (OtherStreamFails \/ OtherWritesState) /\ StreamStep
  <2>1. process' # "down" /\ UNCHANGED <<pc, startTime, mem>>
    BY <1>3 DEF OtherStreamFails, OtherWritesState
  <2>2. UNCHANGED chunked
    BY <1>3, <2>1 DEF StreamStep, ClientVarsNext, clientVars
  <2> QED
    BY <1>2, <2>1, <2>2
<1>4. CASE BeginSyncRecords
  BY <1>4 DEF BeginSyncRecords, Places
<1>5. CASE FallBackToPkChunking \/ ResumeJob
  BY <1>5 DEF FallBackToPkChunking, ResumeJob, Places
<1>6. CASE PkJobCompletes \/ SaveJobID \/ SaveBatchIDs \/ JobFound
  <2>1. pc \in JobPlaces /\ pc' \in JobPlaces /\ chunked' = chunked
    BY <1>6 DEF PkJobCompletes, SaveJobID, SaveBatchIDs, JobFound, bulkVars, clientVars
  <2> QED
    BY <2>1 DEF Places
<1>7. CASE FinishBatch
  <2>1. pc = "rows" /\ batch # None /\ pc' = "batches" /\ chunked' = chunked
    BY <1>7 DEF FinishBatch
  <2> QED
    BY <2>1 DEF Places
<1>8. CASE FinishQuery
  <2>1. /\ (pc = "rows" /\ batch = None) \/ pc = "batches"
        /\ pc' = "final" /\ mem' = mem /\ chunked' = chunked
    BY <1>8 DEF FinishQuery, bulkVars, clientVars
  <2> QED
    BY <2>1 DEF Control, NoJobStored, Places
<1>9. CASE OtherFallsBack
  BY <1>2, <1>9 DEF OtherFallsBack, tapVars
<1>10. CASE OrgNext /\ UNCHANGED <<tapVars, job>> /\ ClientVarsNext
  <2>1. UNCHANGED <<pc, startTime, mem, process>>
    BY <1>10 DEF tapVars
  <2>2. process' = "down" \/ UNCHANGED chunked
    BY <1>10 DEF ClientVarsNext, clientVars
  <2> QED
    BY <1>2, <2>1, <2>2 DEF Control
<1>11. CASE ExpireJob \/ \E b \in Batch : RunBatch(b)
  <2>1. UNCHANGED <<pc, startTime, mem, chunked>>
    BY <1>11 DEF ExpireJob, RunBatch, tapVars, clientVars
  <2> QED
    BY <1>2, <2>1
<1>12. CASE UNCHANGED vars
  <2>1. UNCHANGED <<pc, startTime, mem, chunked>>
    BY <1>12 DEF vars, syncVars, tapVars, bulkVars, clientVars
  <2> QED
    BY <1>2, <2>1
<1> QED
  BY <1>1, <1>3, <1>4, <1>5, <1>6, <1>7, <1>8, <1>9, <1>10, <1>11, <1>12, NextSteps
     DEF StartRun, SyncCatalogEntry, ActivateVersion, WriteVersion,
         FinishStream, FinishSync, ExitAfterFailure, Crash, Stop, StreamFails, Fail,
         PlainBatchCompletes, OpenBatch, EmitBulkRecord, EmitRecord, WritePlainBookmark,
         WriteBookmark, WriteHighest, BatchGone, EndResume, DropJob,
         WriteFinalBookmark, BatchIDsMissing, FinishResume

\* The highest key seen is never later than the run, or the job, allows.
LEMMA ChunkedStep ==
  ASSUME IInv, InTime, InJob, Marks(mem), JobSpan, RowsInHand, Chunked, [BulkNext]_vars
  PROVE  Chunked'
<1> USE Times DEF IInv
<1>1. Reads /\ Places
  BY ReadStep, PlacesStep
<1>2. GetStartDate(mem) \in Int
  <2>1. mem \in Entry(job.id)
    BY DEF TypeOK, Entry
  <2> QED
    BY <2>1, StartDateType DEF Instant, Earliest
<1>3. ASSUME NEW t \in Int, StartDate <= t, mem.bookmark # None => mem.bookmark <= t
      PROVE  GetStartDate(mem) <= t
  <2>1. /\ mem.bookmark = None => GetStartDate(mem) = StartDate
        /\ mem.bookmark # None => GetStartDate(mem) <= mem.bookmark
    BY StartDateBound DEF TypeOK, Entry
  <2> QED
    BY <1>2, <1>3, <2>1
<1>4. ~FallBackToPkChunking => LastKey' = LastKey
  BY DatesKept DEF LastKey
<1>5. pc' = "query" => StartDate <= startTime' /\ (mem'.bookmark # None => mem'.bookmark <= startTime')
  <2>1. CASE BeginSyncRecords
    BY <2>1 DEF BeginSyncRecords, InTime, EntryInTime
  <2> QED
    BY <1>1, <2>1 DEF Places, Chunked
<1>6. PlainRead' => chunked' <= startTime'
  <2>1. CASE PlainBatchCompletes
    <3>1. pc = "query" /\ chunked' = GetStartDate(mem) /\ startTime' = startTime
      BY <2>1 DEF PlainBatchCompletes
    <3> QED
      BY <1>3, <3>1 DEF Chunked
  <2>2. CASE PlainRead /\ UNCHANGED startTime /\ chunked' = chunked
    BY <2>2 DEF Chunked
  <2>3. CASE PlainRead /\ UNCHANGED startTime /\ WriteHighest
    <3>1. chunked' = chunked \/ (chunked' = cur /\ cur <= startTime)
      BY <2>3 DEF WriteHighest, Highest, MayBookmark
    <3> QED
      BY <2>3, <3>1 DEF Chunked
  <2> QED
    BY <1>1, <2>1, <2>2, <2>3 DEF Reads
<1>7. pc' \in JobPlaces => chunked' <= LastKey'
  <2>1. CASE FallBackToPkChunking
    <3>1. chunked' = GetStartDate(mem) /\ job'.began = clock
      BY <2>1 DEF FallBackToPkChunking, NoJob
    <3>2. chunked' <= clock
      BY <1>3, <3>1 DEF InTime, EntryInTime
    <3> QED
      BY <1>2, <3>1, <3>2 DEF LastKey
  <2>2. CASE ResumeJob
    <3>1. mem.jobID # None /\ ~FallBackToPkChunking
      BY <2>2 DEF ResumeJob, FallBackToPkChunking, InJob
    <3>2. InUse
      BY <3>1 DEF InUse, NoJobStored
    <3>3. StartDate <= LastKey
      BY <3>2 DEF JobSpan
    <3>4. GetStartDate(mem) <= LastKey
      BY <1>3, <3>1, <3>3 DEF Marks
    <3>5. (chunked' = mem.highest /\ mem.highest # None) \/ chunked' = GetStartDate(mem)
      BY <2>2 DEF ResumeJob
    <3> QED
      BY <1>4, <3>1, <3>4, <3>5 DEF Marks
  <2>3. CASE ~FallBackToPkChunking /\ (pc \in JobPlaces \/ BatchRead) /\ chunked' = chunked
    BY <1>4, <2>3 DEF Chunked, JobPlaces, BatchRead
  <2> QED
    BY <1>1, <2>1, <2>2, <2>3 DEF Places
<1>8. BatchRead' => chunked' <= LastKey'
  <2>1. CASE OpenBatch
    <3>1. pc = "batches" /\ chunked' = chunked /\ job' = job
      BY <2>1 DEF OpenBatch
    <3> QED
      BY <3>1 DEF Chunked, LastKey
  <2>2. CASE BatchRead /\ chunked' = chunked
    BY <1>4, <2>2 DEF Chunked, BatchRead, FallBackToPkChunking
  <2>3. CASE BatchRead /\ WriteHighest
    <3>1. pc = "mark" /\ batch # None /\ chunked' \in {chunked, cur} /\ job' = job
      BY <2>3 DEF WriteHighest, Highest, BatchRead
    <3> QED
      BY <3>1 DEF Chunked, RowsInHand, LastKey
  <2> QED
    BY <1>1, <2>1, <2>2, <2>3 DEF Reads
<1>9. pc' = "final" /\ mem'.jobID # None => chunked' <= LastKey'
  <2>1. pc' = "final" => ~FallBackToPkChunking
    BY DEF FallBackToPkChunking
  <2> QED
    BY <1>1, <1>4, <2>1 DEF Places, Chunked
<1> QED
  BY <1>5, <1>6, <1>7, <1>8, <1>9 DEF Chunked, JobPlaces, BatchRead

-----------------------------------------------------------------------------
(* The next entries of the state cover what is outstanding. *)

\* An entry that covered the outstanding changes covers those of the next state.
LEMMA CoversKept ==
  ASSUME TypeOK, InTime, RowsInHand, [BulkNext]_vars, NEW i, NEW e \in Entry(i),
         e.bookmark # None => e.bookmark <= clock,
         e.bookmark # None => pc # "activate" \/ RowsCarry(version),
         \A c \in Outstanding : c.s >= StartDate => c.s >= GetStartDate(e)
  PROVE  \A c \in Outstanding' : c.s >= StartDate => c.s >= GetStartDate(e)
<1> SUFFICES ASSUME NEW c \in Outstanding', c.s >= StartDate
             PROVE  c.s >= GetStartDate(e)
  OBVIOUS
<1>0. c \in Row /\ c.s \in Nat
  BY DEF Outstanding, Row, Instant
<1>1. CASE e.bookmark = None
  BY <1>1 DEF GetStartDate
<1>2. CASE e.bookmark # None
  <2>1. c \in Outstanding \/ c.s = clock
    BY <1>2, OutstandingStep
  <2>2. CASE c.s = clock
    <3>1. e.bookmark \in Int
      BY <1>2 DEF Entry, StateEntry, Key, Instant, Earliest
    <3>2. c.s >= e.bookmark - Lookback
      BY <1>2, <2>2, <3>1, Times
    <3> QED
      BY <1>0, <1>2, <3>2, StartDateBound
  <2> QED
    BY <2>1, <2>2
<1> QED
  BY <1>1, <1>2

\* Where the next bookmark of the state comes from.
LEMMA BookmarkStep ==
  ASSUME TypeOK, [BulkNext]_vars
  PROVE  \/ mem'.bookmark \in {None, mem.bookmark, persisted.bookmark}
         \/ WritePlainBookmark /\ MayBookmark /\ UNCHANGED orgVars /\ mem'.bookmark = cur
         \/ WriteFinalBookmark /\ UNCHANGED orgVars /\ mem'.bookmark = chunked
         \/ FinishResume /\ UNCHANGED orgVars /\ mem'.bookmark = mem.highest
<1>1. CASE StartRun \/ Stop \/ WriteVersion \/ SaveJobID \/ SaveBatchIDs \/ WriteHighest \/
           FinishBatch \/ DropJob
  BY <1>1, MemWrites DEF Fields
<1>2. CASE WritePlainBookmark /\ UNCHANGED orgVars
  BY <1>2, MemWrites DEF Fields
<1>3. CASE (WriteFinalBookmark \/ FinishResume) /\ UNCHANGED orgVars
  BY <1>3, MemWrites DEF Fields
<1> QED
  BY <1>1, <1>2, <1>3, MemStep DEF StopStep

\* No key becomes the bookmark before nothing outstanding is behind it, lookback
\* included.
LEMMA BookmarkCovers ==
  ASSUME PInv, Lookback >= MaxJobSpan + CommitDelay, UNCHANGED orgVars,
         NEW k, k # None, NEW c \in Outstanding, c.s >= StartDate,
         \/ WritePlainBookmark /\ MayBookmark /\ k = cur
         \/ WriteFinalBookmark /\ k = chunked
         \/ FinishResume /\ k = mem.highest
  PROVE  c.s >= k - Lookback
<1> USE Times DEF PInv, IInv
<1>1. c \in Row /\ c.s \in Int
  BY DEF Outstanding
<1>2. ASSUME k \in Int, k <= LastKey, JobLate(c) PROVE c.s >= k - Lookback
  <2>1. c.s >= job.began - CommitDelay
    BY <1>1, <1>2 DEF JobLate
  <2> QED
    BY <1>1, <1>2, <2>1 DEF LastKey
<1>3. ASSUME k \in Int, k <= startTime, Late(c) PROVE c.s >= k - Lookback
  <2>1. c.s >= startTime - CommitDelay
    BY <1>1, <1>3 DEF Late
  <2> QED
    BY <1>1, <1>3, <2>1
<1>4. CASE WritePlainBookmark /\ MayBookmark /\ k = cur
  <2>1. pc = "mark" /\ batch = None /\ cur <= startTime
    BY <1>4 DEF WritePlainBookmark, WriteBookmark, MayBookmark, InJob
  <2>2. c \in todo \/ Late(c)
    BY <2>1 DEF InHand, PlainRead
  <2>3. c \in todo => cur <= c.s
    BY <2>1 DEF RowsInHand
  <2> QED
    BY <1>1, <1>3, <1>4, <2>1, <2>2, <2>3
<1>5. CASE WriteFinalBookmark /\ k = chunked
  <2>1. pc = "final" /\ todo = {}
    BY <1>5 DEF WriteFinalBookmark, RowsInHand
  <2>2. CASE mem.jobID = None
    <3>1. Late(c) /\ chunked <= startTime
      BY <2>1, <2>2 DEF InHand, PlainRead, Chunked
    <3> QED
      BY <1>3, <1>5, <3>1
  <2>3. CASE mem.jobID # None
    <3>1. mem.batchIDs = {} /\ mem.batchIDs # None
      BY <2>1, <2>3, Constants DEF InJob
    <3>2. JobLate(c) /\ chunked <= LastKey
      BY <2>1, <2>3, <3>1 DEF Listed, Chunked
    <3> QED
      BY <1>2, <1>5, <3>2
  <2> QED
    BY <2>2, <2>3
<1>6. CASE FinishResume /\ k = mem.highest
  <2>1. pc = "drop" /\ mem.highest # None
    BY <1>6 DEF FinishResume
  <2>2. mem.highest <= LastKey /\ JobLate(c)
    BY <2>1 DEF InHand
  <2> QED
    BY <1>2, <1>6, <2>1, <2>2
<1> QED
  BY <1>4, <1>5, <1>6

\* Every step keeps the state and the last STATE covering the outstanding changes.
LEMMA CoversStep ==
  ASSUME PInv, TypeOK', Lookback >= MaxJobSpan + CommitDelay, [BulkNext]_vars
  PROVE  Covers(mem)' /\ Covers(persisted)'
<1> DEFINE Ok(e) == \A c \in Outstanding' : c.s >= StartDate => c.s >= GetStartDate(e)
<1>1. TypeOK /\ InTime /\ InVersion /\ RowsInHand /\ Covers(mem) /\ Covers(persisted)
  BY DEF PInv, IInv
<1>2. mem \in Entry(job.id) /\ persisted \in Entry(job.id) /\ mem' \in Entry(job.id')
  BY <1>1 DEF TypeOK, Entry
<1>3. ASSUME NEW e, NEW f, e.bookmark = f.bookmark, Ok(e) PROVE Ok(f)
  BY <1>3 DEF GetStartDate
<1>4. Ok(mem)
  <2>1. mem.bookmark # None => pc # "activate" \/ RowsCarry(version)
    BY <1>1 DEF InVersion, Versioned
  <2> QED
    BY <1>1, <1>2, <2>1, CoversKept DEF InTime, EntryInTime, Covers
<1>5. Ok(persisted)
  <2>1. persisted.bookmark # None => pc # "activate" \/ RowsCarry(version)
    BY <1>1 DEF InVersion, Versioned
  <2> QED
    BY <1>1, <1>2, <2>1, CoversKept DEF InTime, EntryInTime, Covers
<1>6. ASSUME NEW e, e.bookmark = None PROVE Ok(e)
  BY <1>6 DEF GetStartDate
<1>7. Ok(mem')
  <2>1. CASE /\ UNCHANGED orgVars /\ mem'.bookmark # None
             /\ \/ WritePlainBookmark /\ MayBookmark /\ mem'.bookmark = cur
                \/ WriteFinalBookmark /\ mem'.bookmark = chunked
                \/ FinishResume /\ mem'.bookmark = mem.highest
    <3>1. Outstanding' = Outstanding
      BY <2>1 DEF WritePlainBookmark, WriteBookmark, WriteFinalBookmark, FinishResume,
                  orgVars, Outstanding
    <3>2. ASSUME NEW c \in Outstanding, c.s >= StartDate PROVE c.s >= GetStartDate(mem')
      <4>1. c.s \in Nat
        BY DEF Outstanding, Row, Instant
      <4>2. c.s >= mem'.bookmark - Lookback
        BY <2>1, <3>2, BookmarkCovers
      <4> QED
        BY <1>2, <2>1, <4>1, <4>2, StartDateBound
    <3> QED
      BY <3>1, <3>2
  <2> HIDE DEF Ok
  <2> QED
    BY <1>1, <1>3, <1>4, <1>5, <1>6, <2>1, BookmarkStep
<1>8. Ok(persisted')
  <2> HIDE DEF Ok
  <2> QED
    BY <1>4, <1>5, <1>7, PersistedStep
<1> QED
  BY <1>7, <1>8 DEF Covers, GetStartDate

-----------------------------------------------------------------------------
(* The invariant. *)

\* It holds at the start.
LEMMA PromiseInvInit == IInv /\ BulkInit => PInv
<1> SUFFICES ASSUME IInv, BulkInit PROVE PInv
  OBVIOUS
<1>1. /\ mem = EmptyState /\ persisted = EmptyState /\ pc = "idle" /\ todo = {} /\ batch = None
      /\ clock = StartDate /\ startTime = 0 /\ chunked = 0 /\ cur = NoKey
      /\ job = NoJob /\ target = [r \in Record |-> NoRow]
      /\ stamp \in [Record -> 0 .. StartDate] /\ pending = [r \in Record |-> NoSave]
  BY DEF BulkInit, SyncInit, OrgInit
<1>2. Fields(EmptyState, None, None, None, None, None)
  BY DEF EmptyState, Fields
<1>3. /\ job.began = 0 /\ job.alive = FALSE
      /\ \A b \in Batch : job.rows[b] = {}
  BY <1>1 DEF NoJob
<1>4. InTime
  <2>1. ASSUME NEW r \in Record
        PROVE  stamp[r] <= clock /\ target[r].s <= stamp[r] /\ pending[r] = NoSave
    <3>1. stamp[r] \in 0 .. StartDate /\ target[r].s = -1 /\ pending[r] = NoSave
      BY <1>1 DEF NoRow, BulkInit, SyncInit, OrgInit
    <3> QED
      BY <1>1, <3>1, OrgAssumption
  <2>2. OrgInTime
    BY <2>1 DEF OrgInTime
  <2> QED
    BY <1>1, <1>2, <1>3, <2>2, OrgAssumption DEF InTime, EntryInTime, Fields, NoKey
<1>5. InVersion /\ InJob
  BY <1>1, <1>2 DEF InVersion, Versioned, Fields, InJob
<1>6. Marks(mem) /\ Marks(persisted) /\ Listed(mem) /\ Listed(persisted)
  BY <1>1, <1>2 DEF Marks, Listed, Fields
<1>7. JobSpan /\ Traced
  <2>1. ~InUse
    BY <1>1, <1>2 DEF InUse, NoJobStored, Fields
  <2> QED
    BY <1>3, <2>1 DEF JobSpan, Traced
<1>8. RowsInHand /\ InHand /\ Chunked
  BY <1>1 DEF RowsInHand, InHand, PlainRead, Chunked
<1>9. Covers(mem) /\ Covers(persisted)
  BY <1>1, <1>2 DEF Covers, GetStartDate, Fields
<1> QED
  BY <1>4, <1>5, <1>6, <1>7, <1>8, <1>9 DEF PInv

\* Every step keeps it, if the lookback covers the job and the job is not lost.
LEMMA PromiseInvStep ==
  ASSUME PInv, IInv', Lookback >= MaxJobSpan + CommitDelay, ~JobLost, [BulkNext]_vars
  PROVE  PInv'
<1>1. /\ IInv /\ TypeOK /\ Control /\ InTime /\ InVersion /\ InJob /\ Marks(mem) /\ Marks(persisted)
      /\ JobSpan /\ Traced /\ Listed(mem) /\ Listed(persisted) /\ RowsInHand /\ InHand
      /\ Chunked /\ Covers(mem) /\ Covers(persisted)
  BY DEF PInv, IInv
<1>2. InTime' /\ InVersion' /\ InJob'
  BY <1>1, InTimeStep, InVersionStep, InJobStep
<1>3. Marks(mem)' /\ Marks(persisted)' /\ JobSpan'
  BY <1>1, MarksStep, JobSpanStep
<1>4. Traced' /\ Listed(mem)' /\ Listed(persisted)'
  BY <1>1, TracedStep, ListedStep
<1>5. RowsInHand' /\ InHand' /\ Chunked'
  BY <1>1, RowsInHandStep, InHandStep, ChunkedStep
<1>6. Covers(mem)' /\ Covers(persisted)'
  BY CoversStep DEF IInv
<1> QED
  BY <1>2, <1>3, <1>4, <1>5, <1>6 DEF PInv

\* The invariant holds as long as no job is lost.
THEOREM PromiseInvariant ==
  ASSUME Lookback >= MaxJobSpan + CommitDelay
  PROVE  Spec /\ []~JobLost => []PInv
<1>1. IInv /\ BulkInit => PInv
  BY PromiseInvInit
<1>2. PInv /\ IInv' /\ ~JobLost /\ [BulkNext]_vars => PInv'
  BY PromiseInvStep
<1> QED
  BY <1>1, <1>2, Inductive, PTL DEF Spec

(* With the Bulk API no change is ever skipped, PK chunked and resumed jobs   *)
(* included, if the lookback covers the longest job and the longest commit    *)
(* and Salesforce deletes no job before its last batch was read.              *)
THEOREM NothingSkipped ==
  ASSUME Lookback >= MaxJobSpan + CommitDelay
  PROVE  Spec /\ []~JobLost => []NoGap
<1>1. PInv => NoGap
  BY DEF PInv, NoGap
<1> QED
  BY <1>1, PromiseInvariant, PTL

-----------------------------------------------------------------------------
(* A job Salesforce does not delete is not lost. *)

Stays ==
  /\ InUse => job.alive
  /\ pc \in {"resume", "exists"} => mem.jobID # None

\* A stored job is alive, as long as none expires.
LEMMA StaysStep ==
  ASSUME ~JobsExpire, IInv, Stays, [BulkNext]_vars
  PROVE  Stays'
<1> USE DEF IInv
<1>1. InUse' => job'.alive
  <2>1. CASE FallBackToPkChunking
    BY <2>1 DEF FallBackToPkChunking, NoJob
  <2>2. CASE \E b \in Batch : RunBatch(b)
    BY <2>2 DEF RunBatch, TypeOK
  <2> QED
    BY <2>1, <2>2, JobStep, InUseStep DEF Stays, ExpireJob
<1>2. ASSUME pc' \in {"resume", "exists"} PROVE mem'.jobID # None
  <2>1. mem' = mem
    <3>1. StartRun \/ WriteVersion \/ Stop \/ SaveJobID \/ SaveBatchIDs \/ FinishBatch \/
          WriteFinalBookmark \/ DropJob \/ FinishResume => pc' \notin {"resume", "exists"}
      BY DEF StartRun, WriteVersion, Stop, SaveJobID, SaveBatchIDs, FinishBatch,
             WriteFinalBookmark, DropJob, FinishResume
    <3>2. WritePlainBookmark \/ WriteHighest => pc' \notin {"resume", "exists"}
      BY DEF WritePlainBookmark, WriteBookmark, WriteHighest
    <3> QED
      BY <1>2, <3>1, <3>2, MemStep DEF StopStep
  <2>2. CASE pc = "ready"
    <3>1. pc' # pc
      BY <1>2, <2>2
    <3>2. SyncCatalogEntry
      BY <1>2, <2>2, <3>1, NextSteps
         DEF StartRun, ActivateVersion, WriteVersion, BeginSyncRecords, FinishStream, FinishSync,
             ExitAfterFailure, StreamFails, OtherStreamFails, OtherWritesState, Crash, Stop,
             Fail, PlainBatchCompletes, FallBackToPkChunking, PkJobCompletes, SaveJobID,
             SaveBatchIDs, OpenBatch, BatchGone, EmitBulkRecord, EmitRecord, WritePlainBookmark,
             WriteBookmark, WriteHighest, FinishBatch, FinishQuery, WriteFinalBookmark,
             ResumeJob, JobFound, BatchIDsMissing, EndResume, DropJob, FinishResume,
             OtherFallsBack, ExpireJob, RunBatch, vars, syncVars, tapVars
    <3> QED
      BY <1>2, <2>1, <3>2 DEF SyncCatalogEntry
  <2>3. CASE pc # "ready"
    <3>1. pc \in {"resume", "exists"}
      BY <1>2, <2>3, NextSteps
         DEF StartRun, SyncCatalogEntry, ActivateVersion, WriteVersion, BeginSyncRecords,
             FinishStream, FinishSync, ExitAfterFailure, StreamFails, OtherStreamFails,
             OtherWritesState, Crash, Stop, Fail, PlainBatchCompletes, FallBackToPkChunking,
             PkJobCompletes, SaveJobID, SaveBatchIDs, OpenBatch, BatchGone, EmitBulkRecord,
             EmitRecord, WritePlainBookmark, WriteBookmark, WriteHighest, FinishBatch,
             FinishQuery, WriteFinalBookmark, ResumeJob, JobFound, BatchIDsMissing, EndResume,
             DropJob, FinishResume, OtherFallsBack, ExpireJob, RunBatch, vars, syncVars, tapVars
    <3> QED
      BY <2>1, <3>1 DEF Stays
  <2> QED
    BY <2>2, <2>3
<1> QED
  BY <1>1, <1>2 DEF Stays

(* A resumed job is found, unless Salesforce deletes jobs.                    *)
THEOREM JobsStay ==
  ASSUME ~JobsExpire
  PROVE  Spec => []~JobLost
<1>1. BulkInit => Stays
  BY EmptyStateType DEF BulkInit, SyncInit, Stays, InUse, NoJobStored
<1>2. IInv /\ Stays /\ [BulkNext]_vars => Stays'
  BY StaysStep
<1>3. IInv /\ Stays => ~JobLost
  <2> SUFFICES ASSUME IInv, Stays, pc = "exists" PROVE JobAlive(mem.jobID)
    BY DEF JobLost
  <2>1. mem.jobID = job.id
    BY DEF Stays, IInv, TypeOK, StateEntry
  <2> QED
    BY <2>1 DEF Stays, InUse, NoJobStored, JobAlive
<1> QED
  BY <1>1, <1>2, <1>3, Inductive, PTL DEF Spec

-----------------------------------------------------------------------------
(* BulkSync implements AtLeastOnce. *)

\* The initial states are initial states of the abstract specification.
LEMMA PromiseInit == BulkInit => Promise!Init
<1> SUFFICES ASSUME BulkInit PROVE Promise!Init
  OBVIOUS
<1>1. target = [r \in Record |-> NoRow] /\ persisted = EmptyState
  BY DEF BulkInit, SyncInit
<1>2. [r \in Record |-> target[r].s] = [r \in Record |-> -1]
  BY <1>1 DEF NoRow
<1>3. GetStartDate(persisted) = StartDate
  BY <1>1 DEF EmptyState, GetStartDate
<1> QED
  BY <1>2, <1>3 DEF Promise!Init, Promise!Absent

\* The STATE is behind every change the target does not show.
LEMMA PromiseAhead == PInv => Promise!Ahead(GetStartDate(persisted))
<1> SUFFICES ASSUME PInv, NEW r \in Record,
                    NEW c \in {stamp[r], pending[r]} \ {NoSave},
                    c >= StartDate, c > target[r].s
             PROVE  c >= GetStartDate(persisted)
  BY DEF Promise!Ahead
<1>1. stamp[r] \in Instant /\ pending[r] \in Instant \cup {NoSave} /\ target[r].s \in Int
  BY DEF PInv, IInv, TypeOK, SyncTypeOK, OrgTypeOK, Instant
<1>2. [r |-> r, s |-> c] \in Outstanding
  BY <1>1, OrgAssumption DEF Outstanding, Row, Instant
<1> QED
  BY <1>2 DEF PInv, Covers

\* What a row delivers lies between what the target shows and what there is.
LEMMA PromiseDeliver ==
  ASSUME PInv, EmitBulkRecord, UNCHANGED orgVars
  PROVE  \E r \in Record : Promise!Deliver(r)
<1> USE DEF PInv, IInv, TypeOK, SyncTypeOK, OrgTypeOK
<1>1. PICK row \in todo : EmitRecord(row)
  BY DEF EmitBulkRecord
<1>2. row \in Row /\ row.r \in Record /\ row.s \in Int
  BY OrgAssumption DEF Row, Instant
<1>3. target[row.r].s <= row.s /\ row.s <= stamp[row.r]
  BY DEF RowsInHand
<1>4. target' = [target EXCEPT ![row.r] = [s |-> row.s, v |-> version]]
      /\ UNCHANGED <<persisted, stamp, pending>>
  BY <1>1 DEF EmitRecord, orgVars
<1>5. stamp[row.r] \in {stamp[row.r], pending[row.r]} \ {NoSave}
  BY <1>2, OrgAssumption DEF NoSave, Instant
<1> DEFINE copy == [r \in Record |-> target[r].s]
<1>6. copy' = [copy EXCEPT ![row.r] = row.s]
  BY <1>2, <1>4
<1>7. copy[row.r] <= copy'[row.r] /\ copy'[row.r] <= stamp[row.r]
  BY <1>2, <1>3, <1>6
<1>8. copy' = [copy EXCEPT ![row.r] = copy'[row.r]]
  BY <1>2, <1>6
<1>9. Promise!Deliver(row.r)
  BY <1>2, <1>4, <1>5, <1>7, <1>8 DEF Promise!Deliver
<1> QED
  BY <1>2, <1>9

\* ACTIVATE_VERSION drops whole rows.
LEMMA PromiseEmpty ==
  ASSUME PInv, ActivateVersion, UNCHANGED orgVars,
         Promise!Ahead(GetStartDate(persisted))'
  PROVE  Promise!Empty
BY DEF ActivateVersion, orgVars, Promise!Empty, Promise!Absent, NoRow, PInv, IInv,
       TypeOK, SyncTypeOK

\* The org's saves are at or after the STATE's start date.
LEMMA PromiseChange ==
  ASSUME PInv, NEW r \in Record, BeginSave(r) \/ CommitSave(r), UNCHANGED tapVars
  PROVE  Promise!Change
<1> USE DEF PInv, IInv
<1>1. UNCHANGED <<target, persisted>>
  BY DEF tapVars
<1>2. ASSUME NEW q \in Record,
             NEW c \in ({stamp[q], pending[q]} \ {NoSave})',
             c \notin {stamp[q], pending[q]} \ {NoSave}, c >= StartDate
      PROVE  c >= GetStartDate(persisted)
  <2>1. c = clock /\ clock \in Nat /\ StartDate \in Nat
    BY <1>2, OrgAssumption DEF BeginSave, CommitSave, TypeOK, SyncTypeOK, OrgTypeOK, Instant
  <2>2. persisted \in Entry(job.id)
    BY DEF TypeOK, Entry
  <2>3. persisted.bookmark # None => clock >= persisted.bookmark - Lookback
    BY <2>1, <2>2, OrgAssumption, StateAssumption
       DEF InTime, EntryInTime, Entry, StateEntry, Key, Earliest, Instant
  <2> QED
    BY <1>2, <2>1, <2>2, <2>3, StartDateBound
<1> QED
  BY <1>1, <1>2 DEF Promise!Change

\* Every step is a step of the abstract specification, or leaves it alone.
LEMMA PromiseStep ==
  ASSUME PInv, [BulkNext]_vars, Promise!Ahead(GetStartDate(persisted))'
  PROVE  [Promise!Next]_(Promise!vars)
<1>1. CASE EmitBulkRecord /\ UNCHANGED orgVars
  BY <1>1, PromiseDeliver DEF Promise!Next
<1>2. CASE ActivateVersion /\ UNCHANGED orgVars
  BY <1>2, PromiseEmpty DEF Promise!Next
<1>3. CASE \E r \in Record : (BeginSave(r) \/ CommitSave(r)) /\ UNCHANGED tapVars
  BY <1>3, PromiseChange DEF Promise!Next
<1>4. CASE UNCHANGED <<stamp, pending, target>>
  <2>1. Promise!Ahead(GetStartDate(persisted'))
    BY <1>4 DEF Promise!Ahead
  <2> QED
    BY <1>4, <2>1 DEF Promise!Next, Promise!Checkpoint
<1>5. CASE OrgNext /\ UNCHANGED <<tapVars, job>>
  BY <1>3, <1>4, <1>5 DEF OrgNext, Tick, tapVars
<1>6. CASE UNCHANGED orgVars
  <2>1. \/ target' = target
        \/ ActivateVersion /\ StreamStep
        \/ EmitBulkRecord /\ UNCHANGED orgVars
    BY TargetStep
  <2> QED
    BY <1>1, <1>2, <1>4, <1>6, <2>1 DEF orgVars
<1> QED
  BY <1>5, <1>6, OrgSteps

(* A Bulk extraction is an implementation of AtLeastOnce for as long as no    *)
(* job is lost: nothing is skipped, no record goes back to an older version,  *)
(* rows are dropped only when they will be read again.                        *)
THEOREM DeliversUnlessJobLost ==
  ASSUME Lookback >= MaxJobSpan + CommitDelay
  PROVE  Spec /\ []~JobLost => DeliversAtLeastOnce
<1>1. BulkInit => Promise!Init
  BY PromiseInit
<1>2. PInv /\ PInv' /\ [BulkNext]_vars => [Promise!Next]_(Promise!vars)
  <2>1. PInv' => Promise!Ahead(GetStartDate(persisted))'
    BY PromiseAhead, PTL
  <2> QED
    BY <2>1, PromiseStep
<1> QED
  BY <1>1, <1>2, PromiseInvariant, PTL DEF Spec, DeliversAtLeastOnce, Promise!Spec

(* And without any such condition if Salesforce keeps its jobs.               *)
THEOREM ImplementsAtLeastOnce ==
  ASSUME ~JobsExpire, Lookback >= MaxJobSpan + CommitDelay
  PROVE  Spec => DeliversAtLeastOnce
BY JobsStay, DeliversUnlessJobLost, PTL
=============================================================================
