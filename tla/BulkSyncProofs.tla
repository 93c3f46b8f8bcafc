--------------------------- MODULE BulkSyncProofs ---------------------------
(***************************************************************************)
(* The safety of BulkSync for any records, batches, bounds and settings:   *)
(* the types, and that a batch is checked off in a STATE only when the     *)
(* target has all of its rows.                                             *)
(***************************************************************************)
EXTENDS BulkSync, TLAPS

\* No job is stored, in memory or in the last STATE.
NoJobStored == mem.jobID = None /\ persisted.jobID = None

-----------------------------------------------------------------------------
(* The inductive invariant. *)

\* What the place in the code says of the job and of the state entry.
Control ==
  /\ (process = "down") <=> (pc = "idle")
  /\ pc \notin {"rows", "mark", "failed"} => batch = None
  /\ resuming => pc \in {"exists", "batches", "rows", "mark", "resumed", "drop",
                         "returned", "failed"}
  /\ pc \in {"activate", "version", "queued", "query", "poll", "saveJob"} =>
       NoJobStored /\ mem.batchIDs = None
  /\ pc \in {"rows", "mark"} /\ batch = None => NoJobStored
  /\ pc = "ready" => mem.jobID = persisted.jobID
  /\ pc = "ready" /\ mem.jobID = None => mem.batchIDs = None
  /\ pc = "saveBatches" => mem.batchIDs = None
  /\ pc \in {"batches", "rows", "mark"} /\ (pc = "batches" \/ batch # None) =>
       mem.batchIDs \in SUBSET Batch

\* A job is stored only when all of its batches have run.
StoredJobHasRun ==
  mem.jobID # None \/ persisted.jobID # None \/ pc = "saveJob" => JobComplete

\* A record is in one batch of a job, and once.
JobRows ==
  \A b \in Batch : \A row \in job.rows[b] :
    BatchOf[row.r] = b /\ \A other \in job.rows[b] : other.r = row.r => other = row

Shown(row) == target[row.r].s >= row.s

\* Entry e of the state lists every batch the target has not got whole.
CheckedOff(e) ==
  JobAlive(e.jobID) /\ e.batchIDs # None =>
    \A b \in Batch \ e.batchIDs : \A row \in job.rows[b] : Shown(row)

\* The rows of the batch being read are written, or still to be.
InBatch ==
  pc \in {"rows", "mark"} /\ batch # None /\ job.alive =>
    /\ JobComplete
    /\ todo \subseteq job.rows[batch]
    /\ \A row \in job.rows[batch] : row \in todo \/ Shown(row)

IInv == TypeOK /\ Control /\ StoredJobHasRun /\ JobRows
        /\ CheckedOff(mem) /\ CheckedOff(persisted) /\ InBatch

-----------------------------------------------------------------------------
(* Facts about the operators. *)

\* A stream's step, with what a step of the process leaves of the client.
StreamStep == ClientVarsNext /\ UNCHANGED <<orgVars, job>>

\* The entries of the state there are while job i is the last.
Entry(i) == StateEntry({None, i}, (SUBSET Batch) \cup {None})

\* The steps of the specification, one action each.
LEMMA NextSteps ==
  ASSUME BulkNext
  PROVE  \/ (StartRun \/ SyncCatalogEntry \/ ActivateVersion \/ WriteVersion \/
              BeginSyncRecords \/ FinishStream) /\ StreamStep
         \/ (FinishSync \/ ExitAfterFailure \/ StreamFails \/ OtherStreamFails \/
              OtherWritesState \/ Crash) /\ StreamStep
         \/ (PlainBatchCompletes \/ FallBackToPkChunking \/ PkJobCompletes \/
              SaveJobID \/ SaveBatchIDs \/ OpenBatch) /\ UNCHANGED orgVars
         \/ (BatchGone \/ EmitBulkRecord \/ WritePlainBookmark \/ WriteHighest \/
              FinishBatch \/ FinishQuery) /\ UNCHANGED orgVars
         \/ (WriteFinalBookmark \/ ResumeJob \/ JobFound \/ BatchIDsMissing \/
              EndResume \/ DropJob \/ FinishResume \/
              OtherFallsBack) /\ UNCHANGED orgVars
         \/ OrgNext /\ UNCHANGED <<tapVars, job>> /\ ClientVarsNext
         \/ ExpireJob \/ \E b \in Batch : RunBatch(b)
<1>1. CASE (Coroutine \/ Worker \/ Disturbance) /\ StreamStep
  BY <1>1 DEF Coroutine, Worker, Disturbance
<1>2. CASE (Reading \/ Resuming \/ FallBackToPkChunking \/ OtherFallsBack) /\ UNCHANGED orgVars
  BY <1>2 DEF Reading, Resuming
<1>3. CASE OrgNext /\ UNCHANGED tapVars /\ ClientVarsNext /\ UNCHANGED job
  BY <1>3
<1>4. CASE ExpireJob \/ \E b \in Batch : RunBatch(b)
  BY <1>4
<1> QED
  BY <1>1, <1>2, <1>3, <1>4 DEF BulkNext, StreamNext, StreamStep

LEMMA Constants ==
  /\ None \notin Int /\ 0 \in Instant /\ MaxFaults \in Nat /\ MaxJobs \in Nat
  /\ BatchOf \in [Record -> Batch]
  /\ None \notin Batch /\ \A b \in SUBSET Batch : None # b
BY OrgAssumption, StateAssumption, SyncAssumption, BulkAssumption DEF Instant

LEMMA StartDateType ==
  ASSUME NEW i, NEW e \in Entry(i)
  PROVE  GetStartDate(e) \in Instant \cup {Earliest}
BY OrgAssumption, StateAssumption
   DEF Entry, StateEntry, Key, GetStartDate, Instant, Earliest

LEMMA EmptyStateType ==
  \A i : EmptyState \in Entry(i) /\ EmptyState.jobID = None
BY DEF EmptyState, Entry, StateEntry, Key

\* build_state drops the batches of an entry without a job.
LEMMA BuildStateFacts ==
  ASSUME NEW i, NEW e \in Entry(i)
  PROVE  /\ BuildState(e) \in Entry(i)
         /\ BuildState(e).jobID = e.jobID
         /\ e.jobID = None => BuildState(e).batchIDs = None
         /\ e.jobID # None => BuildState(e).batchIDs = e.batchIDs
BY DEF Entry, StateEntry, BuildState, Key

\* The writes of an entry: one or more of its fields.
LEMMA EntryWrites ==
  ASSUME NEW i, NEW e \in Entry(i), NEW k \in Key, NEW h \in Key, NEW v \in Nat \cup {None},
         NEW j \in {None, i}, NEW B \in (SUBSET Batch) \cup {None}
  PROVE  /\ [e EXCEPT !.version = v] \in Entry(i)
         /\ [e EXCEPT !.bookmark = k] \in Entry(i)
         /\ [e EXCEPT !.highest = h] \in Entry(i)
         /\ [e EXCEPT !.jobID = j] \in Entry(i)
         /\ [e EXCEPT !.batchIDs = B] \in Entry(i)
         /\ [e EXCEPT !.batchIDs = B, !.highest = h] \in Entry(i)
         /\ [e EXCEPT !.batchIDs = B, !.highest = h, !.bookmark = k] \in Entry(i)
BY DEF Entry, StateEntry

\* What a write leaves of the fields that name a job.
LEMMA WritesKeepJob ==
  ASSUME NEW i, NEW e \in Entry(i), NEW k, NEW h, NEW v, NEW j, NEW B
  PROVE  /\ [e EXCEPT !.version = v].jobID = e.jobID /\ [e EXCEPT !.version = v].batchIDs = e.batchIDs
         /\ [e EXCEPT !.bookmark = k].jobID = e.jobID /\ [e EXCEPT !.bookmark = k].batchIDs = e.batchIDs
         /\ [e EXCEPT !.highest = h].jobID = e.jobID /\ [e EXCEPT !.highest = h].batchIDs = e.batchIDs
         /\ [e EXCEPT !.jobID = j].jobID = j /\ [e EXCEPT !.jobID = j].batchIDs = e.batchIDs
         /\ [e EXCEPT !.batchIDs = B].jobID = e.jobID /\ [e EXCEPT !.batchIDs = B].batchIDs = B
         /\ [e EXCEPT !.batchIDs = B, !.highest = h].jobID = e.jobID
         /\ [e EXCEPT !.batchIDs = B, !.highest = h].batchIDs = B
         /\ [e EXCEPT !.batchIDs = B, !.highest = h, !.bookmark = k].jobID = e.jobID
         /\ [e EXCEPT !.batchIDs = B, !.highest = h, !.bookmark = k].batchIDs = B
BY DEF Entry, StateEntry

\* The org changes by its own steps only.
LEMMA OrgStep == TypeOK /\ [BulkNext]_vars => OrgTypeOK'
<1> SUFFICES ASSUME OrgTypeOK, [BulkNext]_vars PROVE OrgTypeOK'
  BY DEF TypeOK, SyncTypeOK
<1>1. CASE OrgNext
  <2>1. ASSUME NEW r \in Record, BeginSave(r) PROVE OrgTypeOK'
    BY <2>1 DEF BeginSave, OrgTypeOK
  <2>2. ASSUME NEW r \in Record, CommitSave(r) PROVE OrgTypeOK'
    BY <2>2 DEF CommitSave, OrgTypeOK
  <2>3. CASE Tick
    BY <2>3, OrgAssumption DEF Tick, OrgTypeOK, Instant
  <2> QED
    BY <1>1, <2>1, <2>2, <2>3 DEF OrgNext
<1>2. CASE UNCHANGED orgVars
  BY <1>2 DEF OrgTypeOK, orgVars
<1>3. (\E b \in Batch : RunBatch(b)) => UNCHANGED orgVars
  BY DEF RunBatch, orgVars
<1>4. ExpireJob \/ UNCHANGED vars => UNCHANGED orgVars
  BY DEF ExpireJob, vars, syncVars, orgVars
<1> QED
  BY <1>1, <1>2, <1>3, <1>4, NextSteps DEF StreamStep, orgVars

\* Every variable keeps its type.
LEMMA TypeStep ==
  TypeOK /\ Control /\ [BulkNext]_vars => TypeOK'
<1> SUFFICES ASSUME TypeOK, Control, [BulkNext]_vars PROVE TypeOK'
  OBVIOUS
<1>0. OrgTypeOK' /\ clock \in Instant /\ 0 \in Instant
  BY OrgStep, Constants DEF TypeOK, SyncTypeOK, OrgTypeOK
<1> USE <1>0 DEF TypeOK, SyncTypeOK, PC, WorkerPC, Entry, syncVars, orgVars, tapVars, clientVars, bulkVars
<1>1. CASE OrgNext /\ UNCHANGED <<tapVars, job>> /\ ClientVarsNext
  BY <1>1, EmptyStateType, Constants DEF OrgNext, ClientVarsNext
<1>2. CASE StartRun /\ StreamStep
  BY <1>2, BuildStateFacts DEF StartRun, StreamStep, ClientVarsNext
<1>3. CASE SyncCatalogEntry /\ StreamStep
  <2>1. version' \in Nat /\ lastVersion' \in Nat
    BY <1>3 DEF SyncCatalogEntry, StreamVersion, StateEntry
  <2> QED
    BY <1>3, <2>1 DEF SyncCatalogEntry, StreamStep, ClientVarsNext
<1>4. CASE ActivateVersion /\ StreamStep
  <2>1. target' \in [Record -> [s : Instant \cup {-1}, v : Nat]]
    BY <1>4 DEF ActivateVersion, NoRow
  <2> QED
    BY <1>4, <2>1 DEF ActivateVersion, StreamStep, ClientVarsNext
<1>5. CASE WriteVersion /\ StreamStep
  <2>1. [mem EXCEPT !.version = version] \in Entry(job.id)
    BY EntryWrites, Constants DEF Key
  <2> QED
    BY <1>5, <2>1 DEF WriteVersion, StreamStep, ClientVarsNext
<1>6. CASE BeginSyncRecords /\ StreamStep
  BY <1>6 DEF BeginSyncRecords, StreamStep, ClientVarsNext
<1>7. CASE FinishStream /\ StreamStep
  BY <1>7 DEF FinishStream, StreamStep, ClientVarsNext
<1>8. CASE FinishSync /\ StreamStep
  <2> QED
    BY <1>8, EmptyStateType, Constants DEF FinishSync, Stop, StreamStep, ClientVarsNext, NoKey
<1>9. CASE ExitAfterFailure /\ StreamStep
  <2> QED
    BY <1>9, EmptyStateType, Constants DEF ExitAfterFailure, Stop, StreamStep, ClientVarsNext, NoKey
<1>10. CASE StreamFails /\ StreamStep
  BY <1>10, Constants DEF StreamFails, Fail, StreamStep, ClientVarsNext, NoKey
<1>11. CASE OtherStreamFails /\ StreamStep
  BY <1>11, Constants DEF OtherStreamFails, StreamStep, ClientVarsNext
<1>12. CASE OtherWritesState /\ StreamStep
  BY <1>12 DEF OtherWritesState, StreamStep, ClientVarsNext
<1>13. CASE Crash /\ StreamStep
  <2>1. faults' \in 0 .. MaxFaults
    BY <1>13, Constants DEF Crash
  <2> QED
    BY <1>13, <2>1, EmptyStateType, Constants DEF Crash, Stop, StreamStep, ClientVarsNext, NoKey
<1>14. CASE PlainBatchCompletes /\ UNCHANGED orgVars
  BY <1>14, StartDateType DEF PlainBatchCompletes, Snapshot
<1>15. CASE FallBackToPkChunking /\ UNCHANGED orgVars
  <2>1. job' \in [id : 0 .. MaxJobs, from : Instant \cup {Earliest}, began : Instant,
                 ran : SUBSET Batch, rows : [Batch -> SUBSET Row], alive : BOOLEAN]
    <3>1. GetStartDate(mem) \in Instant \cup {Earliest}
      BY StartDateType
    <3>2. job.id < MaxJobs /\ job.id \in 0 .. MaxJobs
      BY <1>15 DEF FallBackToPkChunking
    <3>3. job.id + 1 \in 0 .. MaxJobs
      BY ONLY <3>2, Constants
    <3> QED
      BY <1>15, <3>1, <3>3 DEF FallBackToPkChunking, NoJob
  <2>2. mem \in Entry(job'.id) /\ persisted \in Entry(job'.id)
    BY <1>15 DEF FallBackToPkChunking, Control, NoJobStored, StateEntry
  <2> QED
    BY <1>15, <2>1, <2>2, StartDateType DEF FallBackToPkChunking
<1>16. CASE PkJobCompletes /\ UNCHANGED orgVars
  BY <1>16 DEF PkJobCompletes
<1>17. CASE SaveJobID /\ UNCHANGED orgVars
  <2>1. [mem EXCEPT !.jobID = job.id] \in Entry(job.id)
    BY DEF StateEntry
  <2> QED
    BY <1>17, <2>1 DEF SaveJobID
<1>18. CASE SaveBatchIDs /\ UNCHANGED orgVars
  <2>1. [mem EXCEPT !.batchIDs = Batch] \in Entry(job.id)
    BY <1>18, EntryWrites, Constants DEF SaveBatchIDs, Key, Control
  <2> QED
    BY <1>18, <2>1 DEF SaveBatchIDs, MaybeWriteState
<1>19. CASE OpenBatch /\ UNCHANGED orgVars
  BY <1>19 DEF OpenBatch, Control
<1>20. CASE BatchGone /\ UNCHANGED orgVars
  BY <1>20 DEF BatchGone, Fail
<1>21. CASE EmitBulkRecord /\ UNCHANGED orgVars
  <2>1. PICK row \in todo : EmitRecord(row)
    BY <1>21 DEF EmitBulkRecord, EmitRecord
  <2>2. row.r \in Record /\ row.s \in Instant
    BY <2>1 DEF Row
  <2>3. [s |-> row.s, v |-> version] \in [s : Instant \cup {-1}, v : Nat]
    BY <2>2
  <2>4. target' \in [Record -> [s : Instant \cup {-1}, v : Nat]]
    BY <2>1, <2>2, <2>3 DEF EmitRecord
  <2>5. UNCHANGED bulkVars
    BY <1>21 DEF EmitBulkRecord
  <2> QED
    BY <2>1, <2>2, <2>4, <2>5 DEF EmitRecord
<1>22. CASE WritePlainBookmark /\ UNCHANGED orgVars
  <2>1. [mem EXCEPT !.bookmark = cur] \in Entry(job.id)
    BY <1>22, EntryWrites, Constants DEF Key, NoKey, Earliest
  <2> QED
    BY <1>22, <2>1 DEF WritePlainBookmark, WriteBookmark, MaybeWriteState, NoKey
<1>23. CASE WriteHighest /\ UNCHANGED orgVars
  <2>1. chunked' \in Instant \cup {Earliest}
    BY <1>23 DEF WriteHighest, Highest, NoKey, Earliest
  <2>2. [mem EXCEPT !.highest = chunked'] \in Entry(job.id)
    BY <2>1, EntryWrites, Constants DEF Key
  <2> QED
    BY <1>23, <2>1, <2>2 DEF WriteHighest, MaybeWriteState, NoKey
<1>24. CASE FinishBatch /\ UNCHANGED orgVars
  <2>1. mem.batchIDs \ {batch} \in SUBSET Batch /\ mem.highest \in Key /\ chunked \in Key
    BY <1>24 DEF FinishBatch, Control, StateEntry, Key
  <2>2. [mem EXCEPT !.batchIDs = mem.batchIDs \ {batch},
                    !.highest = IF resuming THEN chunked ELSE mem.highest] \in Entry(job.id)
    BY <2>1, EntryWrites, Constants
  <2>3. mem' \in Entry(job.id)
    BY <1>24, <2>2 DEF FinishBatch
  <2> QED
    BY <1>24, <2>3 DEF FinishBatch
<1>25. CASE FinishQuery /\ UNCHANGED orgVars
  BY <1>25 DEF FinishQuery
<1>26. CASE WriteFinalBookmark /\ UNCHANGED orgVars
  <2>1. [mem EXCEPT !.bookmark = chunked] \in Entry(job.id)
    BY EntryWrites, Constants DEF Key
  <2> QED
    BY <1>26, <2>1 DEF WriteFinalBookmark
<1>27. CASE ResumeJob /\ UNCHANGED orgVars
  <2>1. mem.highest \in Key /\ GetStartDate(mem) \in Instant \cup {Earliest}
    BY StartDateType DEF StateEntry
  <2> QED
    BY <1>27, <2>1 DEF ResumeJob, Key
<1>28. CASE JobFound /\ UNCHANGED orgVars
  BY <1>28 DEF JobFound
<1>29. CASE BatchIDsMissing /\ UNCHANGED orgVars
  BY <1>29 DEF BatchIDsMissing, Fail
<1>30. CASE EndResume /\ UNCHANGED orgVars
  BY <1>30 DEF EndResume
<1>31. CASE DropJob /\ UNCHANGED orgVars
  <2>1. [mem EXCEPT !.jobID = None] \in Entry(job.id)
    BY DEF StateEntry
  <2> QED
    BY <1>31, <2>1 DEF DropJob
<1>32. CASE FinishResume /\ UNCHANGED orgVars
  <2>1. mem.highest \in Key /\ None \in Key
    BY DEF StateEntry, Key
  <2>2. [mem EXCEPT !.batchIDs = None, !.highest = None, !.bookmark = mem.highest] \in Entry(job.id)
    BY <2>1, EntryWrites, Constants
  <2> QED
    BY <1>32, <2>2 DEF FinishResume
<1>33. CASE OtherFallsBack /\ UNCHANGED orgVars
  BY <1>33 DEF OtherFallsBack
<1>34. CASE ExpireJob
  <2>1. job' \in [id : 0 .. MaxJobs, from : Instant \cup {Earliest}, began : Instant,
                 ran : SUBSET Batch, rows : [Batch -> SUBSET Row], alive : BOOLEAN]
        /\ job'.id = job.id
    BY <1>34 DEF ExpireJob, NoJob
  <2> QED
    BY <1>34, <2>1 DEF ExpireJob
<1>35. ASSUME NEW b \in Batch, RunBatch(b) PROVE TypeOK'
  <2> DEFINE rows == {row \in Snapshot(job.from, NoEnd) : BatchOf[row.r] = b}
  <2>1. rows \in SUBSET Row
    BY DEF Snapshot
  <2>2. job' = [job EXCEPT !.ran = @ \cup {b}, !.rows[b] = rows]
    BY <1>35 DEF RunBatch
  <2> HIDE DEF rows
  <2>3. job' \in [id : 0 .. MaxJobs, from : Instant \cup {Earliest}, began : Instant,
                 ran : SUBSET Batch, rows : [Batch -> SUBSET Row], alive : BOOLEAN]
        /\ job'.id = job.id
    BY <2>1, <2>2
  <2>4. UNCHANGED <<tapVars, orgVars, clientVars>>
    BY <1>35 DEF RunBatch
  <2> QED
    BY <2>3, <2>4
<1>36. CASE UNCHANGED vars
  BY <1>36 DEF vars
<1> QED
  BY <1>1, <1>2, <1>3, <1>4, <1>5, <1>6, <1>7, <1>8, <1>9, <1>10, <1>11, <1>12, <1>13,
     <1>14, <1>15, <1>16, <1>17, <1>18, <1>19, <1>20, <1>21, <1>22, <1>23, <1>24, <1>25,
     <1>26, <1>27, <1>28, <1>29, <1>30, <1>31, <1>32, <1>33, <1>34, <1>35, <1>36,
     NextSteps

\* What the place in the code says of the job and of the state entry.
LEMMA ControlStep ==
  TypeOK /\ Control /\ [BulkNext]_vars => Control'
<1> SUFFICES ASSUME TypeOK, Control, [BulkNext]_vars PROVE Control'
  OBVIOUS
<1> USE DEF Control, NoJobStored, syncVars, orgVars, tapVars, clientVars, bulkVars
<1>1. CASE OrgNext /\ UNCHANGED <<tapVars, job>> /\ ClientVarsNext
  BY <1>1 DEF OrgNext, ClientVarsNext
<1>2. CASE StartRun /\ StreamStep
  BY <1>2, BuildStateFacts DEF StartRun, StreamStep, ClientVarsNext, TypeOK, Entry
<1>3. CASE SyncCatalogEntry /\ StreamStep
  BY <1>3 DEF SyncCatalogEntry, StreamStep, ClientVarsNext
<1>4. CASE ActivateVersion /\ StreamStep
  BY <1>4 DEF ActivateVersion, StreamStep, ClientVarsNext
<1>5. CASE WriteVersion /\ StreamStep
  <2>1. mem'.jobID = mem.jobID /\ mem'.batchIDs = mem.batchIDs
    BY <1>5, WritesKeepJob DEF WriteVersion, TypeOK, Entry
  <2> QED
    BY <1>5, <2>1 DEF WriteVersion, StreamStep, ClientVarsNext
<1>6. CASE (BeginSyncRecords \/ FinishStream) /\ StreamStep
  BY <1>6 DEF BeginSyncRecords, FinishStream, StreamStep, ClientVarsNext
<1>7. CASE (FinishSync \/ ExitAfterFailure \/ Crash) /\ StreamStep
  BY <1>7 DEF FinishSync, ExitAfterFailure, Crash, Stop, StreamStep, ClientVarsNext
<1>8. CASE (StreamFails \/ OtherStreamFails \/ OtherWritesState) /\ StreamStep
  BY <1>8 DEF StreamFails, OtherStreamFails, OtherWritesState, Fail, StreamStep,
     ClientVarsNext
<1>9. CASE (PlainBatchCompletes \/ FallBackToPkChunking \/
            PkJobCompletes) /\ UNCHANGED orgVars
  BY <1>9 DEF PlainBatchCompletes, FallBackToPkChunking, PkJobCompletes
<1>10. CASE SaveJobID /\ UNCHANGED orgVars
  <2>1. mem'.batchIDs = mem.batchIDs
    BY <1>10, WritesKeepJob DEF SaveJobID, TypeOK, Entry
  <2> QED
    BY <1>10, <2>1 DEF SaveJobID
<1>11. CASE SaveBatchIDs /\ UNCHANGED orgVars
  <2>1. mem'.batchIDs = Batch
    BY <1>11, WritesKeepJob DEF SaveBatchIDs, TypeOK, Entry
  <2> QED
    BY <1>11, <2>1 DEF SaveBatchIDs
<1>12. CASE OpenBatch /\ UNCHANGED orgVars
  BY <1>12, Constants DEF OpenBatch, TypeOK
<1>13. CASE (BatchGone \/ BatchIDsMissing) /\ UNCHANGED orgVars
  BY <1>13 DEF BatchGone, BatchIDsMissing, Fail
<1>14. CASE EmitBulkRecord /\ UNCHANGED orgVars
  BY <1>14 DEF EmitBulkRecord, EmitRecord
<1>15. CASE WritePlainBookmark /\ UNCHANGED orgVars
  <2>1. /\ [mem EXCEPT !.bookmark = cur].jobID = mem.jobID
        /\ [mem EXCEPT !.bookmark = cur].batchIDs = mem.batchIDs
    BY DEF TypeOK, StateEntry
  <2> QED
    BY <1>15, <2>1 DEF WritePlainBookmark, WriteBookmark, MaybeWriteState
<1>16. CASE WriteHighest /\ UNCHANGED orgVars
  <2>1. /\ [mem EXCEPT !.highest = chunked'].jobID = mem.jobID
        /\ [mem EXCEPT !.highest = chunked'].batchIDs = mem.batchIDs
    BY DEF TypeOK, StateEntry
  <2> QED
    BY <1>16, <2>1 DEF WriteHighest, MaybeWriteState
<1>17. CASE FinishBatch /\ UNCHANGED orgVars
  <2>1. mem'.batchIDs = mem.batchIDs \ {batch}
    BY <1>17, WritesKeepJob DEF FinishBatch, TypeOK, StateEntry
  <2> QED
    BY <1>17, <2>1 DEF FinishBatch
<1>18. CASE (FinishQuery \/ WriteFinalBookmark) /\ UNCHANGED orgVars
  BY <1>18 DEF FinishQuery, WriteFinalBookmark
<1>19. CASE (ResumeJob \/ EndResume \/ OtherFallsBack) /\ UNCHANGED orgVars
  BY <1>19 DEF ResumeJob, EndResume, OtherFallsBack
<1>20. CASE JobFound /\ UNCHANGED orgVars
  BY <1>20 DEF JobFound, TypeOK, StateEntry
<1>21. CASE (DropJob \/ FinishResume) /\ UNCHANGED orgVars
  BY <1>21 DEF DropJob, FinishResume
<1>22. CASE ExpireJob
  BY <1>22 DEF ExpireJob
<1>23. ASSUME NEW b \in Batch, RunBatch(b) PROVE Control'
  BY <1>23 DEF RunBatch
<1>24. CASE UNCHANGED vars
  BY <1>24 DEF vars
<1> QED
  BY <1>1, <1>2, <1>3, <1>4, <1>5, <1>6, <1>7, <1>8, <1>9, <1>10, <1>11, <1>12, <1>13,
     <1>14, <1>15, <1>16, <1>17, <1>18, <1>19, <1>20, <1>21, <1>22, <1>23, <1>24,
     NextSteps

\* A job is stored only when all of its batches have run.
LEMMA HasRunStep ==
  TypeOK /\ Control /\ StoredJobHasRun /\ [BulkNext]_vars => StoredJobHasRun'
<1> SUFFICES ASSUME TypeOK, Control, StoredJobHasRun, [BulkNext]_vars PROVE StoredJobHasRun'
  OBVIOUS
<1> USE DEF StoredJobHasRun, NoJobStored, JobComplete, syncVars, orgVars, tapVars, clientVars, bulkVars
<1>1. CASE OrgNext /\ UNCHANGED <<tapVars, job>> /\ ClientVarsNext
  BY <1>1 DEF OrgNext, ClientVarsNext
<1>2. CASE StartRun /\ StreamStep
  BY <1>2, BuildStateFacts DEF StartRun, StreamStep, ClientVarsNext, TypeOK, Entry
<1>3. CASE (SyncCatalogEntry \/ ActivateVersion \/ BeginSyncRecords \/
            FinishStream) /\ StreamStep
  BY <1>3 DEF SyncCatalogEntry, ActivateVersion, BeginSyncRecords, FinishStream,
     StreamStep, ClientVarsNext
<1>4. CASE WriteVersion /\ StreamStep
  <2>1. mem'.jobID = mem.jobID
    BY <1>4, WritesKeepJob DEF WriteVersion, TypeOK, Entry
  <2> QED
    BY <1>4, <2>1 DEF WriteVersion, StreamStep
<1>5. CASE (FinishSync \/ ExitAfterFailure \/ Crash) /\ StreamStep
  BY <1>5, EmptyStateType DEF FinishSync, ExitAfterFailure, Crash, Stop, StreamStep,
     ClientVarsNext
<1>6. CASE (StreamFails \/ OtherStreamFails \/ OtherWritesState) /\ StreamStep
  BY <1>6 DEF StreamFails, OtherStreamFails, OtherWritesState, Fail, StreamStep,
     ClientVarsNext
<1>7. CASE (PlainBatchCompletes \/ PkJobCompletes) /\ UNCHANGED orgVars
  BY <1>7 DEF PlainBatchCompletes, PkJobCompletes
<1>8. CASE FallBackToPkChunking /\ UNCHANGED orgVars
  BY <1>8 DEF FallBackToPkChunking, Control
<1>9. CASE SaveJobID /\ UNCHANGED orgVars
  BY <1>9 DEF SaveJobID
<1>10. CASE SaveBatchIDs /\ UNCHANGED orgVars
  <2>1. mem'.jobID = mem.jobID
    BY <1>10, WritesKeepJob DEF SaveBatchIDs, TypeOK, Entry
  <2> QED
    BY <1>10, <2>1 DEF SaveBatchIDs
<1>11. CASE (OpenBatch \/ FinishQuery \/ JobFound) /\ UNCHANGED orgVars
  BY <1>11 DEF OpenBatch, FinishQuery, JobFound
<1>12. CASE (BatchGone \/ EmitBulkRecord \/ BatchIDsMissing) /\ UNCHANGED orgVars
  BY <1>12 DEF BatchGone, EmitBulkRecord, BatchIDsMissing, Fail, EmitRecord
<1>13. CASE WritePlainBookmark /\ UNCHANGED orgVars
  <2>1. [mem EXCEPT !.bookmark = cur].jobID = mem.jobID
    BY DEF TypeOK, StateEntry
  <2> QED
    BY <1>13, <2>1 DEF WritePlainBookmark, WriteBookmark, MaybeWriteState
<1>14. CASE WriteHighest /\ UNCHANGED orgVars
  <2>1. [mem EXCEPT !.highest = chunked'].jobID = mem.jobID
    BY DEF TypeOK, StateEntry
  <2> QED
    BY <1>14, <2>1 DEF WriteHighest, MaybeWriteState
<1>15. CASE FinishBatch /\ UNCHANGED orgVars
  <2>1. mem'.jobID = mem.jobID
    BY <1>15 DEF FinishBatch, TypeOK, StateEntry
  <2> QED
    BY <1>15, <2>1 DEF FinishBatch
<1>16. CASE WriteFinalBookmark /\ UNCHANGED orgVars
  <2>1. mem'.jobID = mem.jobID
    BY <1>16 DEF WriteFinalBookmark, TypeOK, StateEntry
  <2> QED
    BY <1>16, <2>1 DEF WriteFinalBookmark
<1>17. CASE (ResumeJob \/ EndResume \/ OtherFallsBack) /\ UNCHANGED orgVars
  BY <1>17 DEF ResumeJob, EndResume, OtherFallsBack
<1>18. CASE DropJob /\ UNCHANGED orgVars
  <2>1. mem'.jobID = None
    BY <1>18 DEF DropJob, TypeOK, StateEntry
  <2> QED
    BY <1>18, <2>1 DEF DropJob
<1>19. CASE FinishResume /\ UNCHANGED orgVars
  <2>1. mem'.jobID = mem.jobID
    BY <1>19 DEF FinishResume, TypeOK, StateEntry
  <2> QED
    BY <1>19, <2>1 DEF FinishResume
<1>20. CASE ExpireJob
  BY <1>20 DEF ExpireJob, TypeOK
<1>21. ASSUME NEW b \in Batch, RunBatch(b) PROVE StoredJobHasRun'
  <2>1. job.ran # Batch /\ UNCHANGED <<tapVars, orgVars, clientVars>>
    BY <1>21 DEF RunBatch
  <2> QED
    BY <2>1
<1>22. CASE UNCHANGED vars
  BY <1>22 DEF vars
<1> QED
  BY <1>1, <1>2, <1>3, <1>4, <1>5, <1>6, <1>7, <1>8, <1>9, <1>10, <1>11, <1>12, <1>13,
     <1>14, <1>15, <1>16, <1>17, <1>18, <1>19, <1>20, <1>21, <1>22, NextSteps

\* A record is in one batch of a job, and once.
LEMMA JobRowsStep ==
  TypeOK /\ JobRows /\ [BulkNext]_vars => JobRows'
<1> SUFFICES ASSUME TypeOK, JobRows, [BulkNext]_vars PROVE JobRows'
  OBVIOUS
<1> USE DEF JobRows, syncVars, orgVars, tapVars, clientVars, bulkVars
<1>1. CASE OrgNext /\ UNCHANGED <<tapVars, job>> /\ ClientVarsNext
  BY <1>1
<1>2. CASE (StartRun \/ SyncCatalogEntry \/ ActivateVersion \/ WriteVersion \/
            BeginSyncRecords \/ FinishStream \/ FinishSync \/ ExitAfterFailure \/
            StreamFails \/ OtherStreamFails \/ OtherWritesState \/ Crash) /\ StreamStep
  BY <1>2 DEF StreamStep
<1>3. CASE (PlainBatchCompletes \/ PkJobCompletes \/ SaveJobID \/ SaveBatchIDs \/
            OpenBatch \/ BatchGone \/ EmitBulkRecord \/ WritePlainBookmark \/
            WriteHighest \/ FinishBatch \/ FinishQuery \/ WriteFinalBookmark \/
            ResumeJob \/ JobFound \/ BatchIDsMissing \/ EndResume \/ DropJob \/
            FinishResume \/ OtherFallsBack) /\ UNCHANGED orgVars
  BY <1>3 DEF PlainBatchCompletes, PkJobCompletes, SaveJobID, SaveBatchIDs, OpenBatch,
     BatchGone, EmitBulkRecord, WritePlainBookmark, WriteHighest, FinishBatch,
     FinishQuery, WriteFinalBookmark, ResumeJob, JobFound, BatchIDsMissing, EndResume,
     DropJob, FinishResume, OtherFallsBack, Fail, EmitRecord, WriteBookmark,
     MaybeWriteState
<1>4. CASE FallBackToPkChunking /\ UNCHANGED orgVars
  <2>1. \A b \in Batch : job'.rows[b] = {}
    BY <1>4 DEF FallBackToPkChunking, NoJob
  <2> QED
    BY <2>1
<1>5. CASE ExpireJob
  <2>1. \A b \in Batch : job'.rows[b] = {}
    BY <1>5 DEF ExpireJob, NoJob, TypeOK
  <2> QED
    BY <2>1
<1>6. ASSUME NEW b \in Batch, RunBatch(b) PROVE JobRows'
  <2> DEFINE rows == {row \in Snapshot(job.from, NoEnd) : BatchOf[row.r] = b}
  <2>1. \A row \in rows : /\ BatchOf[row.r] = b
                         /\ \A other \in rows : other.r = row.r => other = row
    BY DEF Snapshot, Row
  <2>2. job' = [job EXCEPT !.ran = @ \cup {b}, !.rows[b] = rows]
    BY <1>6 DEF RunBatch
  <2> HIDE DEF rows
  <2>3. \A c \in Batch : job'.rows[c] = IF c = b THEN rows ELSE job.rows[c]
    BY <2>2 DEF TypeOK
  <2> QED
    BY <2>1, <2>3
<1>7. CASE UNCHANGED vars
  BY <1>7 DEF vars
<1> QED
  BY <1>1, <1>2, <1>3, <1>4, <1>5, <1>6, <1>7, NextSteps

\* No job is alive under the id None.
LEMMA NoneIsNotAlive ==
  /\ TypeOK => ~JobAlive(None)
  /\ TypeOK' => ~JobAlive(None)'
<1>1. \A i \in 0 .. MaxJobs : i # None
  BY Constants
<1> QED
  BY <1>1 DEF TypeOK, JobAlive

\* A write of the entry that leaves its job, or has none, checks nothing off.
LEMMA NothingCheckedOff ==
  ASSUME TypeOK, TypeOK', CheckedOff(mem), CheckedOff(persisted), UNCHANGED <<target, job>>,
         mem'.jobID = None \/ (mem'.jobID = mem.jobID /\ mem'.batchIDs \in {mem.batchIDs, None}),
         persisted' = mem' \/ persisted' = mem \/ persisted' = persisted
  PROVE  CheckedOff(mem)' /\ CheckedOff(persisted)'
<1>1. CheckedOff(mem)'
  BY NoneIsNotAlive DEF CheckedOff, Shown, JobAlive
<1>2. CASE persisted' = mem'
  BY <1>1, <1>2 DEF CheckedOff, Shown, JobAlive
<1>3. CASE persisted' = mem
  BY <1>1, <1>3 DEF CheckedOff, Shown, JobAlive
<1>4. CASE persisted' = persisted
  BY <1>1, <1>4 DEF CheckedOff, Shown, JobAlive
<1> QED
  BY <1>1, <1>2, <1>3, <1>4

\* No step checks off a batch the target has not got whole.
LEMMA CheckedOffStep ==
  TypeOK /\ TypeOK' /\ Control /\ StoredJobHasRun /\ JobRows
  /\ InBatch /\ CheckedOff(mem) /\ CheckedOff(persisted) /\ [BulkNext]_vars
  => CheckedOff(mem)' /\ CheckedOff(persisted)'
<1> SUFFICES ASSUME TypeOK, TypeOK', Control, StoredJobHasRun, JobRows, InBatch,
                    CheckedOff(mem), CheckedOff(persisted), [BulkNext]_vars
             PROVE  CheckedOff(mem)' /\ CheckedOff(persisted)'
  OBVIOUS
<1> USE DEF syncVars, orgVars, tapVars, clientVars, bulkVars
<1>1. CASE OrgNext /\ UNCHANGED <<tapVars, job>> /\ ClientVarsNext
  BY <1>1, NothingCheckedOff
<1>2. CASE StartRun /\ StreamStep
  <2>1. /\ mem'.jobID = persisted.jobID /\ persisted' = persisted
        /\ mem'.jobID # None => mem'.batchIDs = persisted.batchIDs
    BY <1>2, BuildStateFacts DEF StartRun, TypeOK, Entry
  <2>2. UNCHANGED <<target, job>>
    BY <1>2 DEF StartRun, StreamStep
  <2> QED
    BY <2>1, <2>2, NoneIsNotAlive DEF CheckedOff, Shown, JobAlive
<1>3. CASE (SyncCatalogEntry \/ BeginSyncRecords \/ FinishStream \/
            OtherWritesState) /\ StreamStep
  <2>1. UNCHANGED <<target, job, mem>> /\ (persisted' = mem \/ persisted' = persisted)
    BY <1>3 DEF SyncCatalogEntry, BeginSyncRecords, FinishStream, OtherWritesState, StreamStep
  <2> QED
    BY <2>1, NothingCheckedOff
<1>4. CASE ActivateVersion /\ StreamStep
  <2>1. mem'.jobID = None /\ persisted'.jobID = None
    BY <1>4 DEF ActivateVersion, Control, NoJobStored
  <2> QED
    BY <2>1, NoneIsNotAlive DEF CheckedOff, JobAlive
<1>5. CASE WriteVersion /\ StreamStep
  <2>1. mem'.jobID = mem.jobID /\ mem'.batchIDs = mem.batchIDs
    BY <1>5 DEF WriteVersion, StreamStep, TypeOK, StateEntry
  <2> QED
    BY <1>5, <2>1, NothingCheckedOff DEF WriteVersion, StreamStep
<1>6. CASE (FinishSync \/ ExitAfterFailure \/ Crash) /\ StreamStep
  <2>1. mem'.jobID = None
    BY <1>6, EmptyStateType DEF FinishSync, ExitAfterFailure, Crash, Stop
  <2>2. persisted' = mem \/ persisted' = persisted
    BY <1>6 DEF FinishSync, ExitAfterFailure, Crash
  <2>3. UNCHANGED <<target, job>>
    BY <1>6 DEF FinishSync, ExitAfterFailure, Crash, Stop, StreamStep
  <2> QED
    BY <2>1, <2>2, <2>3, NothingCheckedOff
<1>7. CASE (StreamFails \/ OtherStreamFails) /\ StreamStep
  <2>1. UNCHANGED <<target, job, mem, persisted>>
    BY <1>7 DEF StreamFails, OtherStreamFails, Fail, StreamStep
  <2> QED
    BY <2>1, NothingCheckedOff
<1>8. CASE (PlainBatchCompletes \/ PkJobCompletes \/ OpenBatch \/ BatchGone \/
            FinishQuery \/ ResumeJob \/ JobFound \/ BatchIDsMissing \/ EndResume \/
            OtherFallsBack) /\ UNCHANGED orgVars
  <2>1. UNCHANGED <<target, job, mem, persisted>>
    BY <1>8 DEF PlainBatchCompletes, PkJobCompletes, OpenBatch, BatchGone, FinishQuery, ResumeJob,
             JobFound, BatchIDsMissing, EndResume, OtherFallsBack, Fail
  <2> QED
    BY <2>1, NothingCheckedOff
<1>9. CASE FallBackToPkChunking /\ UNCHANGED orgVars
  <2>1. mem'.jobID = None /\ persisted'.jobID = None
    BY <1>9 DEF FallBackToPkChunking, Control, NoJobStored
  <2> QED
    BY <2>1, NoneIsNotAlive DEF CheckedOff, JobAlive
<1>10. CASE SaveJobID /\ UNCHANGED orgVars
  <2>1. mem.batchIDs = None
    BY <1>10 DEF SaveJobID, Control
  <2>2. mem'.batchIDs = None
    BY <1>10, <2>1 DEF SaveJobID, TypeOK, StateEntry
  <2>3. UNCHANGED <<target, job, persisted>>
    BY <1>10 DEF SaveJobID
  <2> QED
    BY <2>2, <2>3 DEF CheckedOff, Shown, JobAlive
<1>11. CASE SaveBatchIDs /\ UNCHANGED orgVars
  <2>1. mem'.batchIDs = Batch
    BY <1>11 DEF SaveBatchIDs, TypeOK, StateEntry
  <2>2. UNCHANGED <<target, job, persisted>>
    BY <1>11 DEF SaveBatchIDs
  <2> QED
    BY <2>1, <2>2 DEF CheckedOff, Shown, JobAlive
<1>12. CASE EmitBulkRecord /\ UNCHANGED orgVars
  <2>1. PICK row \in todo : EmitRecord(row)
    BY <1>12 DEF EmitBulkRecord, EmitRecord
  <2>2. UNCHANGED <<job, mem, persisted, batch>> /\ pc = "rows" /\ row \in Row
    BY <1>12, <2>1 DEF EmitBulkRecord, EmitRecord, TypeOK, SyncTypeOK
  <2>3. \A other \in Row : target'[other.r].s = IF other.r = row.r THEN row.s ELSE target[other.r].s
    BY <2>1, <2>2 DEF EmitRecord, TypeOK, SyncTypeOK, Row
  <2>4. CASE batch = None \/ ~job.alive
    BY <2>2, <2>4, NoneIsNotAlive DEF CheckedOff, JobAlive, Control, NoJobStored
  <2>5. CASE batch # None /\ job.alive
    <3>1. batch \in Batch /\ row \in job.rows[batch]
      BY <2>1, <2>2, <2>5 DEF InBatch, TypeOK
    <3>2. ASSUME NEW b \in Batch, NEW other \in job.rows[b], Shown(other) PROVE Shown(other)'
      <4>1. other \in Row
        BY DEF TypeOK
      <4>2. CASE other.r = row.r
        <5>1. other = row
          BY <3>1, <4>2 DEF JobRows
        <5>2. row.s \in Instant
          BY <2>2 DEF Row
        <5>3. target'[other.r].s = other.s /\ other.s \in Int
          BY <2>3, <4>1, <5>1, <5>2 DEF Instant
        <5> QED
          BY <5>3 DEF Shown
      <4>3. CASE other.r # row.r
        BY <2>3, <3>2, <4>1, <4>3 DEF Shown
      <4> QED
        BY <4>2, <4>3
    <3> QED
      BY <2>2, <3>2 DEF CheckedOff, JobAlive
  <2> QED
    BY <2>4, <2>5
<1>13. CASE WritePlainBookmark /\ UNCHANGED orgVars
  <2>1. mem'.jobID = mem.jobID /\ mem'.batchIDs = mem.batchIDs
    BY <1>13 DEF WritePlainBookmark, WriteBookmark, TypeOK, StateEntry
  <2> QED
    BY <1>13, <2>1, NothingCheckedOff DEF WritePlainBookmark, WriteBookmark, MaybeWriteState
<1>14. CASE WriteHighest /\ UNCHANGED orgVars
  <2>1. mem'.jobID = mem.jobID /\ mem'.batchIDs = mem.batchIDs
    <3>1. /\ [mem EXCEPT !.highest = chunked'].jobID = mem.jobID
          /\ [mem EXCEPT !.highest = chunked'].batchIDs = mem.batchIDs
      BY DEF TypeOK, StateEntry
    <3> QED
      BY <1>14, <3>1 DEF WriteHighest
  <2> QED
    BY <1>14, <2>1, NothingCheckedOff DEF WriteHighest, MaybeWriteState
<1>15. CASE FinishBatch /\ UNCHANGED orgVars
  <2>1. /\ mem'.jobID = mem.jobID /\ mem'.batchIDs = mem.batchIDs \ {batch}
        /\ persisted' = mem' /\ todo = {} /\ pc = "rows" /\ batch # None
        /\ UNCHANGED <<target, job>>
    BY <1>15 DEF FinishBatch, TypeOK, StateEntry
  <2>2. mem.batchIDs # None
    BY <2>1, Constants DEF Control
  <2>3. job.alive => \A row \in job.rows[batch] : Shown(row)
    BY <2>1 DEF InBatch
  <2>4. CheckedOff(mem)'
    BY <2>1, <2>2, <2>3 DEF CheckedOff, Shown, JobAlive
  <2> QED
    BY <2>1, <2>4 DEF CheckedOff, Shown, JobAlive
<1>16. CASE WriteFinalBookmark /\ UNCHANGED orgVars
  <2>1. mem'.jobID = mem.jobID /\ mem'.batchIDs = mem.batchIDs
    BY <1>16 DEF WriteFinalBookmark, TypeOK, StateEntry
  <2> QED
    BY <1>16, <2>1, NothingCheckedOff DEF WriteFinalBookmark
<1>17. CASE DropJob /\ UNCHANGED orgVars
  <2>1. mem'.jobID = None
    BY <1>17 DEF DropJob, TypeOK, StateEntry
  <2> QED
    BY <1>17, <2>1, NothingCheckedOff DEF DropJob
<1>18. CASE FinishResume /\ UNCHANGED orgVars
  <2>1. mem'.jobID = mem.jobID /\ mem'.batchIDs = None
    BY <1>18 DEF FinishResume, TypeOK, StateEntry
  <2> QED
    BY <1>18, <2>1, NothingCheckedOff DEF FinishResume
<1>19. CASE ExpireJob
  <2>1. job'.alive = FALSE
    BY <1>19 DEF ExpireJob, TypeOK
  <2> QED
    BY <2>1 DEF CheckedOff, JobAlive
<1>20. ASSUME NEW b \in Batch, RunBatch(b) PROVE CheckedOff(mem)' /\ CheckedOff(persisted)'
  <2>1. job.ran # Batch /\ UNCHANGED tapVars
    BY <1>20 DEF RunBatch
  <2>2. mem'.jobID = None /\ persisted'.jobID = None
    BY <2>1 DEF StoredJobHasRun, JobComplete
  <2> QED
    BY <2>2, NoneIsNotAlive DEF CheckedOff, JobAlive
<1>21. CASE UNCHANGED vars
  BY <1>21 DEF vars, CheckedOff, Shown, JobAlive
<1> QED
  BY <1>1, <1>2, <1>3, <1>4, <1>5, <1>6, <1>7, <1>8, <1>9, <1>10, <1>11, <1>12, <1>13,
     <1>14, <1>15, <1>16, <1>17, <1>18, <1>19, <1>20, <1>21, NextSteps

\* The rows of the batch being read are written, or still to be.
LEMMA InBatchStep ==
  TypeOK /\ Control /\ StoredJobHasRun /\ JobRows /\ InBatch /\ [BulkNext]_vars => InBatch'
<1> SUFFICES ASSUME TypeOK, Control, StoredJobHasRun, JobRows, InBatch, [BulkNext]_vars
             PROVE  InBatch'
  OBVIOUS
<1> USE DEF InBatch, Shown, JobComplete, syncVars, orgVars, tapVars, clientVars, bulkVars
<1>1. CASE OrgNext /\ UNCHANGED <<tapVars, job>> /\ ClientVarsNext
  BY <1>1 DEF OrgNext, ClientVarsNext, Control
<1>2. CASE (StartRun \/ SyncCatalogEntry \/ ActivateVersion \/ WriteVersion \/
            BeginSyncRecords \/ FinishStream \/ FinishSync \/ ExitAfterFailure \/
            StreamFails \/ Crash) /\ StreamStep
  <2>1. pc' \notin {"rows", "mark"}
    BY <1>2 DEF StartRun, SyncCatalogEntry, ActivateVersion, WriteVersion, BeginSyncRecords,
             FinishStream, FinishSync, ExitAfterFailure, StreamFails, Crash, Stop, Fail
  <2> QED
    BY <2>1
<1>3. CASE (OtherStreamFails \/ OtherWritesState) /\ StreamStep
  <2>1. process' # "down" /\ UNCHANGED <<pc, todo, target, job>>
    BY <1>3 DEF OtherStreamFails, OtherWritesState, StreamStep
  <2>2. UNCHANGED batch
    BY <1>3, <2>1 DEF StreamStep, ClientVarsNext
  <2> QED
    BY <2>1, <2>2
<1>4. CASE (PlainBatchCompletes \/ FallBackToPkChunking \/ PkJobCompletes \/
            SaveJobID \/ SaveBatchIDs \/ BatchGone \/ FinishBatch \/ FinishQuery \/
            WriteFinalBookmark \/ ResumeJob \/ JobFound \/ BatchIDsMissing \/
            EndResume \/ DropJob \/ FinishResume) /\ UNCHANGED orgVars
  <2>1. pc' \notin {"rows", "mark"} \/ batch' = None
    BY <1>4 DEF PlainBatchCompletes, FallBackToPkChunking, PkJobCompletes, SaveJobID, SaveBatchIDs,
             BatchGone, FinishBatch, FinishQuery, WriteFinalBookmark, ResumeJob, JobFound,
             BatchIDsMissing, EndResume, DropJob, FinishResume, Fail, Control
  <2> QED
    BY <2>1
<1>5. CASE OpenBatch /\ UNCHANGED orgVars
  <2>1. batch' \in Batch /\ todo' = job.rows[batch'] /\ UNCHANGED <<job, target>>
    BY <1>5 DEF OpenBatch, Control
  <2>2. mem.jobID # None
    BY <1>5, NoneIsNotAlive DEF OpenBatch
  <2> QED
    BY <2>1, <2>2 DEF StoredJobHasRun
<1>6. CASE EmitBulkRecord /\ UNCHANGED orgVars
  <2>1. PICK row \in todo : EmitRecord(row)
    BY <1>6 DEF EmitBulkRecord, EmitRecord
  <2>2. UNCHANGED <<job, batch>> /\ pc = "rows" /\ row \in Row /\ todo' = todo \ {row}
    BY <1>6, <2>1 DEF EmitBulkRecord, EmitRecord, TypeOK, SyncTypeOK
  <2> SUFFICES ASSUME batch # None, job.alive PROVE InBatch'
    BY <2>2
  <2>3. \A other \in Row : target'[other.r].s = IF other.r = row.r THEN row.s ELSE target[other.r].s
    BY <2>1, <2>2 DEF EmitRecord, TypeOK, SyncTypeOK, Row
  <2>4. batch \in Batch /\ row \in job.rows[batch] /\ row.s \in Int /\ job.rows[batch] \subseteq Row
    BY <2>1, <2>2 DEF TypeOK, Row, Instant
  <2>5. \A other \in job.rows[batch] : other.r = row.r => other = row
    BY <2>4 DEF JobRows
  <2> QED
    BY <2>2, <2>3, <2>4, <2>5
<1>7. CASE (WritePlainBookmark \/ WriteHighest) /\ UNCHANGED orgVars
  BY <1>7 DEF WritePlainBookmark, WriteHighest, WriteBookmark, MaybeWriteState
<1>8. CASE OtherFallsBack /\ UNCHANGED orgVars
  BY <1>8 DEF OtherFallsBack
<1>9. CASE ExpireJob
  <2>1. job'.alive = FALSE
    BY <1>9 DEF ExpireJob, TypeOK
  <2> QED
    BY <2>1
<1>10. ASSUME NEW b \in Batch, RunBatch(b) PROVE InBatch'
  <2>1. job.ran # Batch /\ UNCHANGED <<pc, batch>> /\ job.alive
    BY <1>10 DEF RunBatch
  <2> QED
    BY <2>1
<1>11. CASE UNCHANGED vars
  BY <1>11 DEF vars
<1> QED
  BY <1>1, <1>2, <1>3, <1>4, <1>5, <1>6, <1>7, <1>8, <1>9, <1>10, <1>11, NextSteps

-----------------------------------------------------------------------------
(* The theorems. *)

\* The invariant: it holds at the start and every step keeps it.
THEOREM Inductive == Spec => []IInv
<1>1. BulkInit => IInv
  <2> SUFFICES ASSUME BulkInit PROVE IInv
    OBVIOUS
  <2> USE DEF BulkInit, SyncInit
  <2>1. TypeOK
    <3>1. job \in [id : 0 .. MaxJobs, from : Instant \cup {Earliest}, began : Instant,
                  ran : SUBSET Batch, rows : [Batch -> SUBSET Row], alive : BOOLEAN]
      BY Constants DEF NoJob
    <3>2. OrgTypeOK
      BY OrgAssumption DEF OrgInit, OrgTypeOK, Instant, NoSave
    <3>3. mem \in Entry(job.id) /\ persisted \in Entry(job.id)
      BY EmptyStateType
    <3>4. target \in [Record -> [s : Instant \cup {-1}, v : Nat]]
      BY DEF NoRow
    <3>5. faults \in 0 .. MaxFaults
      BY Constants
    <3> QED
      BY <3>1, <3>2, <3>3, <3>4, <3>5, Constants
         DEF TypeOK, SyncTypeOK, PC, WorkerPC, Entry, NoKey
  <2>2. Control /\ StoredJobHasRun
    BY EmptyStateType DEF Control, StoredJobHasRun
  <2>3. JobRows /\ InBatch
    BY DEF JobRows, NoJob, InBatch
  <2>4. CheckedOff(mem) /\ CheckedOff(persisted)
    BY <2>1, EmptyStateType, NoneIsNotAlive DEF CheckedOff
  <2> QED
    BY <2>1, <2>2, <2>3, <2>4 DEF IInv
<1>2. IInv /\ [BulkNext]_vars => IInv'
  <2> SUFFICES ASSUME IInv, [BulkNext]_vars PROVE IInv'
    OBVIOUS
  <2>1. TypeOK'
    BY TypeStep DEF IInv
  <2>2. Control' /\ StoredJobHasRun' /\ JobRows' /\ InBatch'
    BY ControlStep, HasRunStep, JobRowsStep, InBatchStep DEF IInv
  <2>3. CheckedOff(mem)' /\ CheckedOff(persisted)'
    BY <2>1, CheckedOffStep DEF IInv
  <2> QED
    BY <2>1, <2>2, <2>3 DEF IInv
<1> QED
  BY <1>1, <1>2, PTL DEF Spec

\* Every variable of a Bulk sync has its type, for any records, batches and bounds.
THEOREM TypeCorrect == Spec => []TypeOK
BY Inductive, PTL DEF IInv

\* The STATE never checks off a batch the target has not got whole, whatever fails,
\* crashes, expires or is torn, and however often the job is resumed.
THEOREM CheckedOffIsDelivered == Spec => []RemovedBatchesDelivered
<1>1. IInv => RemovedBatchesDelivered
  BY DEF IInv, CheckedOff, Shown, RemovedBatchesDelivered
<1> QED
  BY <1>1, Inductive, PTL
=============================================================================
