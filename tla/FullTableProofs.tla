--------------------------- MODULE FullTableProofs ---------------------------
(***************************************************************************)
(* The safety of FullTableSync for any records, batches, versions and      *)
(* numbers of edits and faults: ACTIVATE_VERSION drops only rows that are  *)
(* gone from the org, and leaves in the target what the run has read.      *)
(***************************************************************************)
EXTENDS FullTableSync, TLAPS

\* r was not in the org when it was read.
Missing(r) == target[r].d = 0 \/ org[r] = Gone

\* The row of r is still to be written in this run.
Due(r) ==
  \/ pc = "rows" /\ r \in todo
  \/ (pc = "batches" \/ (pc = "rows" /\ batch # None)) /\ BatchOf[r] \in mem.batches \ {batch}

-----------------------------------------------------------------------------
(* The inductive invariant. *)

\* What the place in the code says of the variables of the run.
Control ==
  /\ (pc = "idle") <=> (process = "down")
  /\ (pc # "rows") => (batch = None)
  /\ (pc \notin {"batches", "rows", "resumed", "drop", "returned", "failed"}) => ~resuming
  /\ (pc \notin {"idle", "ready", "activate", "version"}) => (mem \in Entry)
  /\ (pc \notin {"idle", "ready"}) => (early \in Version)
  /\ (pc \in {"query", "poll", "saveJob", "saveBatches", "batches", "rows", "final"}) =>
       (version \in Version)
  /\ (pc = "batches" \/ batch # None) => (mem.batches \in SUBSET Batch)

\* With FULL_TABLE in the catalog no version stays in the state, so there is
\* always an entry, and nothing is activated before it is read.
NoVersion ==
  method = "FULL_TABLE" =>
    /\ (persisted # None) => (persisted.version = None)
    /\ (pc # "idle") => (mem # None /\ mem.version = None)
    /\ pc \notin {"activate", "version"}

\* A row is never there before its record.
Rows ==
  \A r \in Record :
    /\ org[r] \in Nat \cup {Gone}
    /\ target[r].d \in Nat /\ (target[r].d > 0 => org[r] # 0)
    /\ result[r] \in Nat /\ (result[r] > 0 => org[r] # 0)
    /\ job.rows[r] \in Nat /\ (job.rows[r] > 0 => org[r] # 0)
    /\ (pc = "rows" /\ r \in todo) => (result[r] > 0)

\* A version is new when it is taken, and marks nothing but rows of this run.
Versions ==
  \A r \in Record :
    /\ (pc \in {"activate", "version", "queued"}) => (target[r].v # early)
    /\ (pc \in {"query", "poll", "saveJob", "saveBatches"}) => (target[r].v # version)
    /\ (pc \in {"rows", "batches", "final"} /\ ~resuming /\ target[r].v = version) =>
         (result[r] > 0 /\ target[r].d = result[r])

\* The job of a fresh run, while its batches run and when they are read.
Job ==
  /\ pc = "poll" =>
       \A r \in Record : (BatchOf[r] \in job.ran /\ job.rows[r] = 0) => Missing(r)
  /\ (~resuming /\ job.alive /\ (pc \in {"saveJob", "saveBatches", "batches"} \/ batch # None)) =>
       (job.ran = Batch /\ job.rows = result)

\* What a fresh run has read: each row is written or due, or its record missing.
Read ==
  ~resuming =>
    \A r \in Record :
      /\ (pc \in {"saveJob", "saveBatches", "batches", "rows", "final"} /\ result[r] = 0) =>
           Missing(r)
      /\ (pc \in {"batches", "rows", "final"} /\ result[r] > 0) =>
           (Due(r) \/ target[r] = [d |-> result[r], v |-> version])

IInv == TypeOK /\ Control /\ NoVersion /\ Rows /\ Versions /\ Job /\ Read
        /\ CompletedRunIsExact

-----------------------------------------------------------------------------
(* Facts about the operators. *)

LEMMA NoneIsNoValue ==
  /\ None \notin Version /\ None \notin Batch /\ None # "FULL_TABLE" /\ None \notin Entry
  /\ 0 \notin Version
  /\ \A b \in SUBSET Batch : None # b
BY FullTableAssumption

LEMMA NewVersionIsNew ==
  \A v : NewVersion(v) => v \in Version /\ \A r \in Record : target[r].v # v
BY DEF NewVersion

LEMMA EntryEdits ==
  /\ NewEntry \in Entry /\ NewEntry.version = None /\ ~NewEntry.job
  /\ \A e \in Entry :
       /\ \A b \in BOOLEAN : [e EXCEPT !.job = b] \in Entry
                             /\ [e EXCEPT !.job = b].version = e.version
       /\ \A v \in Version \cup {None} : [e EXCEPT !.version = v] \in Entry
                                         /\ [e EXCEPT !.version = v].version = v
       /\ \A B \in (SUBSET Batch) \cup {None} : [e EXCEPT !.batches = B] \in Entry
            /\ [e EXCEPT !.batches = B].version = e.version
            /\ [e EXCEPT !.batches = B].batches = B
<1>1. NewEntry \in Entry /\ NewEntry.version = None /\ ~NewEntry.job
  BY DEF Entry, NewEntry
<1>2. ASSUME NEW e \in Entry, NEW b \in BOOLEAN
      PROVE  [e EXCEPT !.job = b] \in Entry /\ [e EXCEPT !.job = b].version = e.version
  BY DEF Entry
<1>3. ASSUME NEW e \in Entry, NEW v \in Version \cup {None}
      PROVE  [e EXCEPT !.version = v] \in Entry /\ [e EXCEPT !.version = v].version = v
  BY DEF Entry
<1>4. ASSUME NEW e \in Entry, NEW B \in (SUBSET Batch) \cup {None}
      PROVE  /\ [e EXCEPT !.batches = B] \in Entry
             /\ [e EXCEPT !.batches = B].version = e.version
             /\ [e EXCEPT !.batches = B].batches = B
  BY DEF Entry
<1> QED
  BY <1>1, <1>2, <1>3, <1>4

\* What is carried over from a state file has no version unless it has no job.
LEMMA BuildStateFacts ==
  ASSUME NEW raw \in Entry \cup {None}
  PROVE  /\ BuildState(raw) \in Entry \cup {None}
         /\ BuildState(raw) # None => BuildState(raw).version = None
         /\ method = "FULL_TABLE" /\ (raw # None => raw.version = None) => BuildState(raw) # None
<1> DEFINE old == IF raw = None THEN NewEntry ELSE raw
<1>1. old \in Entry
  BY EntryEdits
<1>2. [old EXCEPT !.version = None] \in Entry /\ [old EXCEPT !.version = None].version = None
  BY <1>1, EntryEdits
<1>3. BuildState(raw) \in {[old EXCEPT !.version = None], NewEntry, None}
  BY DEF BuildState
<1>4. (method = "FULL_TABLE" /\ (raw # None => raw.version = None)) => BuildState(raw) # None
  <2> SUFFICES ASSUME method = "FULL_TABLE", raw # None => raw.version = None
               PROVE  BuildState(raw) # None
    OBVIOUS
  <2>1. old.version = None
    BY EntryEdits
  <2>2. BuildState(raw) \in {[old EXCEPT !.version = None], NewEntry}
    BY <2>1 DEF BuildState
  <2> QED
    BY <2>2, <1>2, EntryEdits, NoneIsNoValue
<1> QED
  BY <1>2, <1>3, <1>4, EntryEdits, NoneIsNoValue

-----------------------------------------------------------------------------
(* Type correctness. *)

LEMMA NoResultTyped ==
  /\ NoResult \in [Record -> Int]
  /\ [NoJob EXCEPT !.alive = TRUE] \in [ran : SUBSET Batch, rows : [Record -> Int], alive : BOOLEAN]
<1>1. NoResult \in [Record -> Int]
  BY DEF NoResult
<1> QED
  BY <1>1 DEF NoJob

LEMMA RunBatchRows ==
  ASSUME TypeOK, NEW b \in Batch,
         job' = [job EXCEPT
           !.ran = @ \cup {b},
           !.rows = [r \in Record |-> IF BatchOf[r] = b THEN Row(r) ELSE @[r]]]
  PROVE  /\ job' \in [ran : SUBSET Batch, rows : [Record -> Int], alive : BOOLEAN]
         /\ job'.ran = job.ran \cup {b} /\ job'.alive = job.alive
         /\ \A r \in Record : job'.rows[r] = IF BatchOf[r] = b THEN Row(r) ELSE job.rows[r]
<1> DEFINE rows == [r \in Record |-> IF BatchOf[r] = b THEN Row(r) ELSE job.rows[r]]
<1>1. rows \in [Record -> Int]
  BY DEF TypeOK, Row
<1>2. job' = [job EXCEPT !.ran = @ \cup {b}, !.rows = rows]
  OBVIOUS
<1> HIDE DEF rows
<1>3. /\ job' \in [ran : SUBSET Batch, rows : [Record -> Int], alive : BOOLEAN]
      /\ job'.ran = job.ran \cup {b} /\ job'.alive = job.alive /\ job'.rows = rows
  <2> DEFINE set == job.ran \cup {b}
  <2>1. set \in SUBSET Batch /\ job' = [job EXCEPT !.ran = set, !.rows = rows]
    BY <1>2 DEF TypeOK
  <2> HIDE DEF set
  <2>2. /\ job' \in [ran : SUBSET Batch, rows : [Record -> Int], alive : BOOLEAN]
        /\ job'.ran = set /\ job'.alive = job.alive /\ job'.rows = rows
    BY <1>1, <2>1 DEF TypeOK
  <2> QED
    BY <2>2 DEF set
<1> QED
  BY <1>3 DEF rows

LEMMA KeepTyped ==
  ASSUME TypeOK, NEW v
  PROVE  Keep(v) \in [Record -> [d : Int, v : Version \cup {0}]]
<1> NoRow \in [d : Int, v : Version \cup {0}]
  BY DEF NoRow
<1> QED
  BY DEF TypeOK, Keep

LEMMA TypeStep == TypeOK /\ Control /\ [Next]_vars => TypeOK'
<1> SUFFICES ASSUME TypeOK, Control, [Next]_vars PROVE TypeOK'
  OBVIOUS
<1> USE DEF TypeOK, PC, WorkerPC, cloud, entries, run, query
<1>1. CASE OrgChanges
  BY <1>1 DEF OrgChanges, Save, Purge, Gone
<1>2. CASE RunBatch
  <2>1. PICK b \in Batch : job' = [job EXCEPT
          !.ran = @ \cup {b},
          !.rows = [r \in Record |-> IF BatchOf[r] = b THEN Row(r) ELSE @[r]]]
    BY <1>2 DEF RunBatch
  <2>2. job' \in [ran : SUBSET Batch, rows : [Record -> Int], alive : BOOLEAN]
    BY <2>1, RunBatchRows
  <2>3. UNCHANGED <<entries, run, query, org, faults, target, pc>>
    BY <1>2 DEF RunBatch
  <2> QED
    BY <2>2, <2>3
<1>3. CASE ExpireJob
  BY <1>3, FullTableAssumption DEF ExpireJob, NoJob, NoResult
<1>4. CASE StartRun
  BY <1>4, BuildStateFacts DEF StartRun
<1>5. CASE SyncCatalogEntry
  BY <1>5, NewVersionIsNew DEF SyncCatalogEntry
<1>6. CASE ActivateEarly
  BY <1>6, KeepTyped DEF ActivateEarly
<1>7. CASE WriteVersion
  BY <1>7, EntryEdits DEF WriteVersion, Control
<1>8. CASE BeginSyncRecords
  BY <1>8, NewVersionIsNew DEF BeginSyncRecords
<1>9. CASE PlainQuery
  BY <1>9 DEF PlainQuery, Row
<1>10. CASE FallBackToPkChunking
  BY <1>10, NoResultTyped DEF FallBackToPkChunking
<1>11. CASE PkJobCompletes
  BY <1>11 DEF PkJobCompletes
<1>12. CASE SaveJobID
  BY <1>12, EntryEdits DEF SaveJobID, Control
<1>13. CASE SaveBatchIDs
  BY <1>13, EntryEdits DEF SaveBatchIDs, Control
<1>14. CASE OpenBatch
  BY <1>14 DEF OpenBatch, Control
<1>15. ASSUME NEW r \in Record, EmitRow(r) PROVE TypeOK'
  BY <1>15 DEF EmitRow
<1>16. CASE FinishBatch
  BY <1>16, EntryEdits DEF FinishBatch, Control
<1>17. CASE QueryExhausted
  BY <1>17 DEF QueryExhausted
<1>18. CASE ActivateVersion
  BY <1>18, KeepTyped DEF ActivateVersion
<1>19. CASE ResetVersion
  BY <1>19, EntryEdits DEF ResetVersion, Control
<1>20. CASE FinishStream
  BY <1>20 DEF FinishStream
<1>21. CASE ResumeJob
  BY <1>21, NewVersionIsNew DEF ResumeJob
<1>22. CASE EndResume
  BY <1>22 DEF EndResume
<1>23. CASE DropJob
  BY <1>23, EntryEdits DEF DropJob, Control
<1>24. CASE FinishResume
  BY <1>24, EntryEdits DEF FinishResume, Control
<1>25. CASE FinishSync
  BY <1>25, NoResultTyped DEF FinishSync, Stop
<1>26. CASE ExitAfterFailure
  BY <1>26, NoResultTyped DEF ExitAfterFailure, Stop
<1>27. CASE StreamFails
  BY <1>27, FullTableAssumption DEF StreamFails, Fail
<1>28. CASE JobUnusable
  BY <1>28 DEF JobUnusable, Fail
<1>29. CASE JobForgotten
  BY <1>29 DEF JobForgotten
<1>30. CASE OtherStreamFails
  BY <1>30, FullTableAssumption DEF OtherStreamFails
<1>31. CASE OtherWritesState
  BY <1>31 DEF OtherWritesState
<1>32. CASE Crash
  <2>1. faults' \in 0 .. MaxFaults
    BY <1>32, FullTableAssumption DEF Crash
  <2> QED
    BY <1>32, <2>1, NoResultTyped DEF Crash, Stop
<1>33. CASE UNCHANGED vars
  BY <1>33 DEF vars
<1> QED
  BY <1>1, <1>2, <1>3, <1>4, <1>5, <1>6, <1>7, <1>8, <1>9, <1>10, <1>11, <1>12, <1>13, <1>14, <1>15, <1>16, <1>17, <1>18, <1>19, <1>20, <1>21, <1>22, <1>23, <1>24, <1>25, <1>26, <1>27, <1>28, <1>29, <1>30, <1>31, <1>32, <1>33
     DEF Next, Coroutine, Worker, Disturbance

-----------------------------------------------------------------------------
(* Each part of the invariant is preserved. *)

\* The control invariant.
LEMMA ControlStep ==
  TypeOK /\ Control /\ [Next]_vars => Control'
<1> SUFFICES ASSUME TypeOK, Control, [Next]_vars PROVE Control'
  OBVIOUS
<1> USE DEF Control, TypeOK, cloud, entries, run, query
<1>1. CASE OrgChanges \/ ExpireJob
  BY <1>1 DEF OrgChanges, ExpireJob
<1>2. CASE RunBatch
  BY <1>2 DEF RunBatch
<1>3. CASE StartRun
  BY <1>3 DEF StartRun
<1>4. CASE SyncCatalogEntry
  BY <1>4, NewVersionIsNew DEF SyncCatalogEntry
<1>5. CASE ActivateEarly
  BY <1>5 DEF ActivateEarly
<1>6. CASE WriteVersion
  BY <1>6, EntryEdits DEF WriteVersion
<1>7. CASE BeginSyncRecords
  BY <1>7, NewVersionIsNew DEF BeginSyncRecords
<1>8. CASE PlainQuery \/ FallBackToPkChunking \/ PkJobCompletes
  BY <1>8 DEF PlainQuery, FallBackToPkChunking, PkJobCompletes
<1>9. CASE SaveJobID
  BY <1>9, EntryEdits DEF SaveJobID
<1>10. CASE SaveBatchIDs
  <2>1. mem \in Entry /\ Batch \in (SUBSET Batch) \cup {None}
    BY <1>10 DEF SaveBatchIDs
  <2>2. [mem EXCEPT !.batches = Batch] \in Entry
        /\ [mem EXCEPT !.batches = Batch].batches = Batch
    BY ONLY <2>1, EntryEdits
  <2>3. mem' \in Entry /\ mem'.batches \in SUBSET Batch
    BY <1>10, <2>2 DEF SaveBatchIDs
  <2> QED
    BY <1>10, <2>3 DEF SaveBatchIDs
<1>11. CASE OpenBatch
  BY <1>11 DEF OpenBatch
<1>12. ASSUME NEW r \in Record, EmitRow(r) PROVE Control'
  BY <1>12 DEF EmitRow
<1>13. CASE FinishBatch
  <2>1. mem.batches \ {batch} \in SUBSET Batch
    BY <1>13 DEF FinishBatch
  <2>2. [mem EXCEPT !.batches = @ \ {batch}] \in Entry
        /\ [mem EXCEPT !.batches = @ \ {batch}].batches = mem.batches \ {batch}
    BY <1>13, <2>1 DEF FinishBatch, Entry
  <2>3. mem' \in Entry /\ mem'.batches \in SUBSET Batch
    BY <1>13, <2>1, <2>2 DEF FinishBatch
  <2> QED
    BY <1>13, <2>3 DEF FinishBatch
<1>14. CASE QueryExhausted \/ ActivateVersion \/ FinishStream
  BY <1>14 DEF QueryExhausted, ActivateVersion, FinishStream
<1>15. CASE ResetVersion
  BY <1>15, EntryEdits DEF ResetVersion
<1>16. CASE ResumeJob
  BY <1>16, NewVersionIsNew, NoneIsNoValue DEF ResumeJob, Entry
<1>17. CASE EndResume \/ JobForgotten \/ OtherWritesState
  BY <1>17 DEF EndResume, JobForgotten, OtherWritesState
<1>18. CASE DropJob
  BY <1>18, EntryEdits DEF DropJob
<1>19. CASE FinishResume
  BY <1>19, EntryEdits DEF FinishResume
<1>20. CASE FinishSync \/ ExitAfterFailure \/ Crash
  BY <1>20 DEF FinishSync, ExitAfterFailure, Crash, Stop
<1>21. CASE StreamFails
  BY <1>21 DEF StreamFails, Fail, WorkerPC
<1>22. CASE JobUnusable
  BY <1>22 DEF JobUnusable, Fail
<1>23. CASE OtherStreamFails
  BY <1>23 DEF OtherStreamFails, WorkerPC
<1>24. CASE UNCHANGED vars
  BY <1>24 DEF vars
<1> QED
  BY <1>1, <1>2, <1>3, <1>4, <1>5, <1>6, <1>7, <1>8, <1>9, <1>10, <1>11, <1>12, <1>13,
      <1>14, <1>15, <1>16, <1>17, <1>18, <1>19, <1>20, <1>21, <1>22, <1>23, <1>24
     DEF Next, Coroutine, Worker, Disturbance

\* No version stays in the state of a FULL_TABLE catalog.
LEMMA NoVersionStep ==
  TypeOK /\ Control /\ NoVersion /\ [Next]_vars => NoVersion'
<1> SUFFICES ASSUME TypeOK, Control, NoVersion, [Next]_vars PROVE NoVersion'
  OBVIOUS
<1> USE DEF NoVersion, cloud, entries, run, query
<1>1. CASE OrgChanges \/ RunBatch
  BY <1>1 DEF OrgChanges, RunBatch
<1>2. CASE ExpireJob \/ FallBackToPkChunking
  BY <1>2 DEF ExpireJob, FallBackToPkChunking
<1>3. CASE StartRun
  <2>1. mem' = BuildState(persisted) /\ persisted \in Entry \cup {None}
    BY <1>3 DEF StartRun, TypeOK
  <2> QED
    BY <1>3, <2>1, BuildStateFacts DEF StartRun
<1>4. CASE SyncCatalogEntry
  BY <1>4 DEF SyncCatalogEntry
<1>5. CASE ActivateEarly \/ WriteVersion
  BY <1>5 DEF ActivateEarly, WriteVersion
<1>6. CASE BeginSyncRecords \/ PlainQuery \/ PkJobCompletes
  BY <1>6 DEF BeginSyncRecords, PlainQuery, PkJobCompletes
<1>7. CASE SaveJobID
  <2>1. [mem EXCEPT !.job = TRUE] \in Entry
        /\ [mem EXCEPT !.job = TRUE].version = mem.version
    BY <1>7 DEF SaveJobID, Entry, Control
  <2> QED
    BY <1>7, <2>1, NoneIsNoValue DEF SaveJobID
<1>8. CASE SaveBatchIDs
  <2>1. [mem EXCEPT !.batches = Batch] \in Entry
        /\ [mem EXCEPT !.batches = Batch].version = mem.version
    BY <1>8 DEF SaveBatchIDs, Entry, Control
  <2> QED
    BY <1>8, <2>1, NoneIsNoValue DEF SaveBatchIDs
<1>9. CASE OpenBatch \/ QueryExhausted \/ ActivateVersion
  BY <1>9 DEF OpenBatch, QueryExhausted, ActivateVersion
<1>10. ASSUME NEW r \in Record, EmitRow(r) PROVE NoVersion'
  BY <1>10 DEF EmitRow
<1>11. CASE FinishBatch
  <2>1. [mem EXCEPT !.batches = @ \ {batch}] \in Entry
        /\ [mem EXCEPT !.batches = @ \ {batch}].version = mem.version
    BY <1>11 DEF FinishBatch, Entry, Control
  <2> QED
    BY <1>11, <2>1, NoneIsNoValue DEF FinishBatch
<1>12. CASE ResetVersion
  <2>1. [mem EXCEPT !.version = None] \in Entry /\ [mem EXCEPT !.version = None].version = None
    BY <1>12 DEF ResetVersion, Entry, Control
  <2> QED
    BY <1>12, <2>1, NoneIsNoValue DEF ResetVersion
<1>13. CASE FinishStream \/ ResumeJob \/ EndResume \/ JobForgotten
  BY <1>13 DEF FinishStream, ResumeJob, EndResume, JobForgotten
<1>14. CASE DropJob
  <2>1. [mem EXCEPT !.job = FALSE] \in Entry
        /\ [mem EXCEPT !.job = FALSE].version = mem.version
    BY <1>14 DEF DropJob, Entry, Control
  <2> QED
    BY <1>14, <2>1, NoneIsNoValue DEF DropJob
<1>15. CASE FinishResume
  <2>1. [mem EXCEPT !.batches = None] \in Entry
        /\ [mem EXCEPT !.batches = None].version = mem.version
    BY <1>15 DEF FinishResume, Entry, Control
  <2> QED
    BY <1>15, <2>1, NoneIsNoValue DEF FinishResume
<1>16. CASE FinishSync
  BY <1>16 DEF FinishSync, Stop
<1>17. CASE ExitAfterFailure
  BY <1>17 DEF ExitAfterFailure, Stop
<1>18. CASE StreamFails
  BY <1>18 DEF StreamFails, Fail, WorkerPC
<1>19. CASE JobUnusable
  BY <1>19 DEF JobUnusable, Fail
<1>20. CASE OtherStreamFails
  BY <1>20 DEF OtherStreamFails, WorkerPC
<1>21. CASE OtherWritesState
  BY <1>21 DEF OtherWritesState, Control
<1>22. CASE Crash
  BY <1>22 DEF Crash, Stop
<1>23. CASE UNCHANGED vars
  BY <1>23 DEF vars
<1> QED
  BY <1>1, <1>2, <1>3, <1>4, <1>5, <1>6, <1>7, <1>8, <1>9, <1>10, <1>11, <1>12, <1>13,
      <1>14, <1>15, <1>16, <1>17, <1>18, <1>19, <1>20, <1>21, <1>22, <1>23
     DEF Next, Coroutine, Worker, Disturbance

\* A row is never read, or written, before its record is there.
LEMMA RowsStep ==
  TypeOK /\ Control /\ Rows /\ Job /\ [Next]_vars => Rows'
<1> SUFFICES ASSUME TypeOK, Control, Rows, Job, [Next]_vars PROVE Rows'
  OBVIOUS
<1> USE DEF Rows, TypeOK, cloud, entries, run, query
<1>1. CASE OrgChanges
  <2>1. \A r \in Record : org'[r] \in Nat \cup {Gone} /\ (org[r] # 0 => org'[r] # 0)
    BY <1>1 DEF OrgChanges, Save, Purge, Gone
  <2> QED
    BY <1>1, <2>1 DEF OrgChanges
<1>2. CASE RunBatch
  <2>1. PICK b \in Batch : job' = [job EXCEPT
          !.ran = @ \cup {b},
          !.rows = [r \in Record |-> IF BatchOf[r] = b THEN Row(r) ELSE @[r]]]
    BY <1>2 DEF RunBatch
  <2>2. \A r \in Record : job'.rows[r] = IF BatchOf[r] = b THEN Row(r) ELSE job.rows[r]
    BY <2>1, RunBatchRows
  <2>3. \A r \in Record : job'.rows[r] \in Nat /\ (job'.rows[r] > 0 => org[r] # 0)
    BY <2>2 DEF Row, Gone
  <2>4. UNCHANGED <<entries, run, query, org, faults, target, pc>>
    BY <1>2 DEF RunBatch
  <2> QED
    BY <2>3, <2>4
<1>3. CASE ExpireJob
  BY <1>3 DEF ExpireJob, NoJob, NoResult
<1>4. CASE StartRun \/ SyncCatalogEntry
  BY <1>4 DEF StartRun, SyncCatalogEntry
<1>5. CASE ActivateEarly
  BY <1>5 DEF ActivateEarly, Keep, NoRow
<1>6. CASE WriteVersion \/ BeginSyncRecords
  BY <1>6 DEF WriteVersion, BeginSyncRecords
<1>7. CASE PlainQuery
  BY <1>7 DEF PlainQuery, Row, Gone
<1>8. CASE FallBackToPkChunking
  BY <1>8 DEF FallBackToPkChunking, NoJob, NoResult
<1>9. CASE PkJobCompletes
  BY <1>9 DEF PkJobCompletes
<1>10. CASE SaveJobID \/ SaveBatchIDs \/ FinishBatch
  BY <1>10 DEF SaveJobID, SaveBatchIDs, FinishBatch
<1>11. CASE OpenBatch
  BY <1>11 DEF OpenBatch, Job
<1>12. ASSUME NEW r \in Record, EmitRow(r) PROVE Rows'
  <2>1. \A q \in Record : target'[q].d = IF q = r THEN result[r] ELSE target[q].d
    BY <1>12 DEF EmitRow
  <2> QED
    BY <1>12, <2>1 DEF EmitRow
<1>13. CASE QueryExhausted \/ ResetVersion \/ FinishStream
  BY <1>13 DEF QueryExhausted, ResetVersion, FinishStream
<1>14. CASE ActivateVersion
  BY <1>14 DEF ActivateVersion, Keep, NoRow
<1>15. CASE ResumeJob \/ EndResume \/ JobForgotten \/ OtherWritesState
  BY <1>15 DEF ResumeJob, EndResume, JobForgotten, OtherWritesState
<1>16. CASE DropJob \/ FinishResume \/ OtherStreamFails
  BY <1>16 DEF DropJob, FinishResume, OtherStreamFails, WorkerPC
<1>17. CASE FinishSync \/ ExitAfterFailure \/ Crash
  BY <1>17 DEF FinishSync, ExitAfterFailure, Crash, Stop, NoResult
<1>18. CASE StreamFails \/ JobUnusable
  BY <1>18 DEF StreamFails, JobUnusable, Fail, WorkerPC
<1>19. CASE UNCHANGED vars
  BY <1>19 DEF vars
<1> QED
  BY <1>1, <1>2, <1>3, <1>4, <1>5, <1>6, <1>7, <1>8, <1>9, <1>10, <1>11, <1>12, <1>13,
      <1>14, <1>15, <1>16, <1>17, <1>18, <1>19
     DEF Next, Coroutine, Worker, Disturbance

\* The version of a run marks the rows this run has written.
LEMMA VersionsStep ==
  TypeOK /\ Control /\ Rows /\ Versions /\ [Next]_vars => Versions'
<1> SUFFICES ASSUME TypeOK, Control, Rows, Versions, [Next]_vars PROVE Versions'
  OBVIOUS
<1> USE DEF Versions, TypeOK, cloud, entries, run, query
<1>1. CASE OrgChanges
  BY <1>1 DEF OrgChanges
<1>2. CASE RunBatch \/ ExpireJob \/ FallBackToPkChunking
  BY <1>2 DEF RunBatch, ExpireJob, FallBackToPkChunking
<1>3. CASE StartRun \/ WriteVersion
  BY <1>3 DEF StartRun, WriteVersion
<1>4. CASE SyncCatalogEntry
  BY <1>4, NewVersionIsNew DEF SyncCatalogEntry
<1>5. CASE ActivateEarly
  BY <1>5, NoneIsNoValue DEF ActivateEarly, Keep, NoRow, Control
<1>6. CASE BeginSyncRecords
  BY <1>6, NewVersionIsNew DEF BeginSyncRecords
<1>7. CASE PlainQuery \/ PkJobCompletes
  BY <1>7 DEF PlainQuery, PkJobCompletes
<1>8. CASE SaveJobID \/ SaveBatchIDs \/ FinishBatch
  BY <1>8 DEF SaveJobID, SaveBatchIDs, FinishBatch
<1>9. CASE OpenBatch
  BY <1>9 DEF OpenBatch, Control
<1>10. ASSUME NEW r \in Record, EmitRow(r) PROVE Versions'
  <2>1. result[r] > 0 /\ result' = result /\ version' = version /\ pc' = pc
    BY <1>10 DEF EmitRow, Rows
  <2>2. \A q \in Record : target'[q] = IF q = r THEN [d |-> result[r], v |-> version] ELSE target[q]
    BY <1>10 DEF EmitRow
  <2>3. resuming' = resuming
    BY <1>10 DEF EmitRow
  <2> QED
    BY <2>1, <2>2, <2>3, <1>10 DEF EmitRow
<1>11. CASE QueryExhausted \/ ActivateVersion \/ ResetVersion \/ FinishStream
  BY <1>11 DEF QueryExhausted, ActivateVersion, ResetVersion, FinishStream
<1>12. CASE ResumeJob \/ EndResume \/ JobForgotten \/ OtherWritesState
  BY <1>12 DEF ResumeJob, EndResume, JobForgotten, OtherWritesState
<1>13. CASE DropJob \/ FinishResume \/ OtherStreamFails
  BY <1>13 DEF DropJob, FinishResume, OtherStreamFails, WorkerPC
<1>14. CASE FinishSync \/ ExitAfterFailure \/ Crash
  BY <1>14 DEF FinishSync, ExitAfterFailure, Crash, Stop
<1>15. CASE StreamFails \/ JobUnusable
  BY <1>15 DEF StreamFails, JobUnusable, Fail, WorkerPC
<1>16. CASE UNCHANGED vars
  BY <1>16 DEF vars
<1> QED
  BY <1>1, <1>2, <1>3, <1>4, <1>5, <1>6, <1>7, <1>8, <1>9, <1>10, <1>11, <1>12, <1>13,
      <1>14, <1>15, <1>16
     DEF Next, Coroutine, Worker, Disturbance

\* What the job of a fresh run has read, or will have.
LEMMA JobStep ==
  TypeOK /\ Control /\ Rows /\ Job /\ [Next]_vars => Job'
<1> SUFFICES ASSUME TypeOK, Control, Rows, Job, [Next]_vars PROVE Job'
  OBVIOUS
<1> USE DEF Job, Missing, TypeOK, cloud, entries, run, query
<1>1. CASE OrgChanges
  <2>1. \A r \in Record : org[r] = Gone => org'[r] = Gone
    BY <1>1 DEF OrgChanges, Save, Purge, Gone
  <2> QED
    BY <1>1, <2>1 DEF OrgChanges
<1>2. CASE RunBatch
  <2>1. PICK b \in Batch \ job.ran : job' = [job EXCEPT
          !.ran = @ \cup {b},
          !.rows = [r \in Record |-> IF BatchOf[r] = b THEN Row(r) ELSE @[r]]]
    BY <1>2 DEF RunBatch
  <2>2. /\ job'.ran = job.ran \cup {b} /\ job'.alive = job.alive
        /\ \A r \in Record : job'.rows[r] = IF BatchOf[r] = b THEN Row(r) ELSE job.rows[r]
    BY <2>1, RunBatchRows
  <2>3. UNCHANGED <<entries, run, query, org, faults, target, pc>>
    BY <1>2 DEF RunBatch
  <2>4. \A r \in Record : Row(r) = 0 => target[r].d = 0 \/ org[r] = Gone
    BY DEF Rows, Row, Gone
  <2>5. \A r \in Record : BatchOf[r] \in job'.ran /\ job'.rows[r] = 0 /\ pc = "poll" =>
           target[r].d = 0 \/ org[r] = Gone
    BY <2>2, <2>4
  <2>6. job.ran # Batch
    BY <2>1
  <2> QED
    BY <2>2, <2>3, <2>5, <2>6
<1>3. CASE ExpireJob
  BY <1>3 DEF ExpireJob, NoJob
<1>4. CASE StartRun \/ SyncCatalogEntry \/ ActivateEarly \/ WriteVersion
  BY <1>4 DEF StartRun, SyncCatalogEntry, ActivateEarly, WriteVersion
<1>5. CASE BeginSyncRecords \/ PlainQuery
  BY <1>5 DEF BeginSyncRecords, PlainQuery, Control
<1>6. CASE FallBackToPkChunking
  BY <1>6 DEF FallBackToPkChunking, NoJob, Control
<1>7. CASE PkJobCompletes
  BY <1>7 DEF PkJobCompletes
<1>8. CASE SaveJobID \/ SaveBatchIDs \/ FinishBatch
  BY <1>8 DEF SaveJobID, SaveBatchIDs, FinishBatch
<1>9. CASE OpenBatch \/ (\E r \in Record : EmitRow(r))
  BY <1>9 DEF OpenBatch, EmitRow
<1>10. CASE QueryExhausted \/ ActivateVersion \/ ResetVersion \/ FinishStream
  BY <1>10 DEF QueryExhausted, ActivateVersion, ResetVersion, FinishStream
<1>11. CASE ResumeJob
  BY <1>11 DEF ResumeJob
<1>12. CASE EndResume \/ JobForgotten \/ OtherWritesState
  BY <1>12 DEF EndResume, JobForgotten, OtherWritesState
<1>13. CASE DropJob \/ FinishResume \/ OtherStreamFails
  BY <1>13 DEF DropJob, FinishResume, OtherStreamFails, WorkerPC
<1>14. CASE FinishSync \/ ExitAfterFailure \/ Crash
  BY <1>14 DEF FinishSync, ExitAfterFailure, Crash, Stop
<1>15. CASE StreamFails \/ JobUnusable
  BY <1>15 DEF StreamFails, JobUnusable, Fail, WorkerPC
<1>16. CASE UNCHANGED vars
  BY <1>16 DEF vars
<1> QED
  BY <1>1, <1>2, <1>3, <1>4, <1>5, <1>6, <1>7, <1>8, <1>9, <1>10, <1>11, <1>12, <1>13,
      <1>14, <1>15, <1>16
     DEF Next, Coroutine, Worker, Disturbance

\* What a fresh run has read is written, or due.
LEMMA ReadStep ==
  TypeOK /\ Control /\ Rows /\ Versions /\ Job /\ Read /\ [Next]_vars => Read'
<1> SUFFICES ASSUME TypeOK, Control, Rows, Versions, Job, Read, [Next]_vars PROVE Read'
  OBVIOUS
<1> USE DEF Read, Missing, Due, TypeOK, cloud, entries, run, query
<1>1. CASE OrgChanges
  <2>1. \A r \in Record : org[r] = Gone => org'[r] = Gone
    BY <1>1 DEF OrgChanges, Save, Purge, Gone
  <2> QED
    BY <1>1, <2>1 DEF OrgChanges
<1>2. CASE RunBatch \/ ExpireJob
  BY <1>2 DEF RunBatch, ExpireJob
<1>3. CASE StartRun \/ SyncCatalogEntry \/ ActivateEarly \/ WriteVersion
  BY <1>3 DEF StartRun, SyncCatalogEntry, ActivateEarly, WriteVersion
<1>4. CASE BeginSyncRecords \/ FallBackToPkChunking \/ SaveJobID
  BY <1>4 DEF BeginSyncRecords, FallBackToPkChunking, SaveJobID
<1>5. CASE PlainQuery
  BY <1>5 DEF PlainQuery, Row, Rows, Gone, Control
<1>6. CASE PkJobCompletes
  BY <1>6, FullTableAssumption DEF PkJobCompletes, Job
<1>7. CASE SaveBatchIDs
  <2>1. \A r \in Record : BatchOf[r] \in Batch \ {None}
    BY FullTableAssumption
  <2>2. mem'.batches = Batch /\ batch' = None
    BY <1>7 DEF SaveBatchIDs, Control, Entry
  <2> QED
    BY <1>7, <2>1, <2>2 DEF SaveBatchIDs
<1>8. CASE OpenBatch
  <2>1. resuming \/ job.rows = result
    BY <1>8 DEF OpenBatch, Job
  <2>2. /\ pc = "batches" /\ pc' = "rows" /\ batch = None /\ batch' \in mem.batches
        /\ UNCHANGED <<org, mem, target, version, resuming>>
    BY <1>8 DEF OpenBatch, Control
  <2>3. batch' # None
    BY <2>2, NoneIsNoValue DEF Control
  <2>4. ASSUME NEW r \in Record, ~resuming
        PROVE  /\ result' = result
               /\ (result[r] > 0 /\ BatchOf[r] = batch') => r \in todo'
    BY <1>8, <2>1, <2>4 DEF OpenBatch
  <2> QED
    BY <2>2, <2>3, <2>4
<1>9. ASSUME NEW r \in Record, EmitRow(r) PROVE Read'
  <2>1. result[r] > 0
    BY <1>9 DEF EmitRow, Rows
  <2>2. \A q \in Record : target'[q] = IF q = r THEN [d |-> result[r], v |-> version] ELSE target[q]
    BY <1>9 DEF EmitRow
  <2>3. pc = "rows" /\ todo' = todo \ {r}
        /\ UNCHANGED <<cloud, entries, run, faults, pc, version, result, batch>>
    BY <1>9 DEF EmitRow
  <2> QED
    BY <2>1, <2>2, <2>3
<1>10. CASE FinishBatch
  <2>1. mem'.batches = mem.batches \ {batch} /\ batch' = None
    BY <1>10 DEF FinishBatch, Control, Entry
  <2>2. \A r \in Record : BatchOf[r] # None
    BY FullTableAssumption
  <2> QED
    BY <1>10, <2>1, <2>2 DEF FinishBatch
<1>11. CASE QueryExhausted
  BY <1>11 DEF QueryExhausted, Control
<1>12. CASE ActivateVersion \/ ResetVersion \/ FinishStream
  BY <1>12 DEF ActivateVersion, ResetVersion, FinishStream
<1>13. CASE ResumeJob \/ EndResume \/ JobForgotten \/ OtherWritesState
  BY <1>13 DEF ResumeJob, EndResume, JobForgotten, OtherWritesState
<1>14. CASE DropJob \/ FinishResume \/ OtherStreamFails
  BY <1>14 DEF DropJob, FinishResume, OtherStreamFails, WorkerPC
<1>15. CASE FinishSync \/ ExitAfterFailure \/ Crash
  BY <1>15 DEF FinishSync, ExitAfterFailure, Crash, Stop
<1>16. CASE StreamFails \/ JobUnusable
  BY <1>16 DEF StreamFails, JobUnusable, Fail, WorkerPC
<1>17. CASE UNCHANGED vars
  BY <1>17 DEF vars
<1> QED
  BY <1>1, <1>2, <1>3, <1>4, <1>5, <1>6, <1>7, <1>8, <1>9, <1>10, <1>11, <1>12, <1>13,
      <1>14, <1>15, <1>16, <1>17
     DEF Next, Coroutine, Worker, Disturbance

\* After ACTIVATE_VERSION the target holds what the run has read.
LEMMA ExactStep ==
  TypeOK /\ Control /\ Rows /\ Versions /\ Read /\ CompletedRunIsExact /\ [Next]_vars => CompletedRunIsExact'
<1> SUFFICES ASSUME TypeOK, Control, Rows, Versions, Read, CompletedRunIsExact, [Next]_vars PROVE CompletedRunIsExact'
  OBVIOUS
<1> USE DEF CompletedRunIsExact, TypeOK, cloud, entries, run, query
<1>1. CASE OrgChanges \/ RunBatch \/ ExpireJob
  BY <1>1 DEF OrgChanges, RunBatch, ExpireJob
<1>2. CASE StartRun \/ SyncCatalogEntry \/ ActivateEarly \/ WriteVersion
  BY <1>2 DEF StartRun, SyncCatalogEntry, ActivateEarly, WriteVersion
<1>3. CASE BeginSyncRecords \/ PlainQuery \/ FallBackToPkChunking \/ PkJobCompletes
  BY <1>3 DEF BeginSyncRecords, PlainQuery, FallBackToPkChunking, PkJobCompletes
<1>4. CASE SaveJobID \/ SaveBatchIDs \/ FinishBatch
  BY <1>4 DEF SaveJobID, SaveBatchIDs, FinishBatch
<1>5. CASE OpenBatch \/ (\E r \in Record : EmitRow(r))
  BY <1>5 DEF OpenBatch, EmitRow
<1>6. CASE QueryExhausted \/ ResetVersion \/ FinishStream
  BY <1>6 DEF QueryExhausted, ResetVersion, FinishStream
<1>7. CASE ActivateVersion
  <2>1. pc = "final" /\ ~resuming /\ version \in Version
    BY <1>7 DEF ActivateVersion, Control
  <2>2. \A r \in Record : target'[r] = IF target[r].v = version THEN target[r] ELSE NoRow
    BY <1>7 DEF ActivateVersion, Keep
  <2>3. ASSUME NEW r \in Record PROVE target'[r].d = result[r]
    <3>1. CASE target[r].v = version
      BY <2>1, <2>2, <3>1 DEF Versions
    <3>2. CASE target[r].v # version
      <4>1. result[r] = 0
        BY <2>1, <3>2 DEF Read, Due, Rows, Control
      <4> QED
        BY <2>2, <3>2, <4>1 DEF NoRow
    <3> QED
      BY <3>1, <3>2
  <2> QED
    BY <1>7, <2>3 DEF ActivateVersion
<1>8. CASE ResumeJob \/ EndResume \/ JobForgotten \/ OtherWritesState
  BY <1>8 DEF ResumeJob, EndResume, JobForgotten, OtherWritesState
<1>9. CASE DropJob \/ FinishResume \/ OtherStreamFails
  BY <1>9 DEF DropJob, FinishResume, OtherStreamFails, WorkerPC
<1>10. CASE FinishSync \/ ExitAfterFailure \/ Crash
  BY <1>10 DEF FinishSync, ExitAfterFailure, Crash, Stop
<1>11. CASE StreamFails \/ JobUnusable
  BY <1>11 DEF StreamFails, JobUnusable, Fail, WorkerPC
<1>12. CASE UNCHANGED vars
  BY <1>12 DEF vars
<1> QED
  BY <1>1, <1>2, <1>3, <1>4, <1>5, <1>6, <1>7, <1>8, <1>9, <1>10, <1>11, <1>12
     DEF Next, Coroutine, Worker, Disturbance

-----------------------------------------------------------------------------
(* The theorems. *)

\* The invariant: it holds at the start and every step keeps it.
THEOREM Inductive == Spec => []IInv
<1>1. Init => IInv
  <2> SUFFICES ASSUME Init PROVE IInv
    OBVIOUS
  <2> USE DEF Init
  <2>1. TypeOK
    <3>1. job \in [ran : SUBSET Batch, rows : [Record -> Int], alive : BOOLEAN]
      BY NoResultTyped DEF NoJob
    <3>2. target \in [Record -> [d : Int, v : Version \cup {0}]]
      BY DEF NoRow
    <3>3. faults \in 0 .. MaxFaults /\ org \in [Record -> Int]
      BY FullTableAssumption
    <3> QED
      BY <3>1, <3>2, <3>3, NoResultTyped DEF TypeOK, PC
  <2>2. Control /\ NoVersion
    BY DEF Control, NoVersion
  <2>3. Rows
    BY DEF Rows, NoRow, NoJob, NoResult
  <2>4. Versions /\ Job /\ Read /\ CompletedRunIsExact
    BY DEF Versions, Job, Read, CompletedRunIsExact
  <2> QED
    BY <2>1, <2>2, <2>3, <2>4 DEF IInv
<1>2. IInv /\ [Next]_vars => IInv'
  BY TypeStep, ControlStep, NoVersionStep, RowsStep, VersionsStep, JobStep, ReadStep, ExactStep
     DEF IInv
<1> QED
  BY <1>1, <1>2, PTL DEF Spec

\* Every variable of a FULL_TABLE sync has its type, for any records, batches,
\* versions and bounds.
THEOREM TypeCorrect == Spec => []TypeOK
BY Inductive, PTL DEF IInv

\* A run that has activated its version leaves in the target exactly what its
\* query read: no row of an earlier version, an aborted run or a resumed job.
THEOREM RunIsExact == Spec => []CompletedRunIsExact
BY Inductive, PTL DEF IInv

\* ACTIVATE_VERSION drops a row only when its record is gone from the org, but
\* for the catalog without FULL_TABLE, whose runs empty the table when they start.
THEOREM ActivationDropsOnlyPurged == Spec => OnlyPurgedRowsDropped
<1> DEFINE Step == \A r \in Record : target[r].d > 0 /\ target'[r].d = 0 =>
                     org[r] = Gone \/ (method = None /\ pc = "activate")
<1>1. IInv /\ [Next]_vars => [Step]_vars
  <2> SUFFICES ASSUME IInv, NEW r \in Record, Next, target[r].d > 0, target'[r].d = 0
               PROVE  org[r] = Gone \/ (method = None /\ pc = "activate")
    OBVIOUS
  <2> USE DEF IInv
  <2>1. CASE ActivateEarly
    BY <2>1 DEF ActivateEarly, NoVersion, TypeOK
  <2>2. CASE ActivateVersion
    <3>1. pc = "final" /\ ~resuming /\ batch = None /\ target[r].v # version
      BY <2>2 DEF ActivateVersion, Keep, Control
    <3>2. result[r] = 0
      <4>1. result[r] \in Nat
        BY DEF Rows
      <4>2. result[r] > 0 => target[r].v = version
        <5>1. pc = "final" /\ ~resuming
          BY <3>1
        <5>2. Read
          OBVIOUS
        <5>3. result[r] > 0 => target[r] = [d |-> result[r], v |-> version]
          BY ONLY <5>1, <5>2, r \in Record DEF Read, Due
        <5> QED
          BY <5>3
      <4> QED
        BY <3>1, <4>1, <4>2
    <3>3. Missing(r)
      BY <3>1, <3>2 DEF Read
    <3> QED
      BY <3>3 DEF Missing
  <2>3. ASSUME NEW q \in Record, EmitRow(q) PROVE FALSE
    <3>1. result[q] > 0
      BY <2>3 DEF EmitRow, Rows
    <3>2. target'[r].d \in {target[r].d, result[q]}
      BY <2>3 DEF EmitRow, TypeOK
    <3> QED
      BY <3>1, <3>2
  <2>4. CASE UNCHANGED target
    BY <2>4
  <2> QED
    BY <2>1, <2>2, <2>3, <2>4
       DEF Next, Coroutine, Worker, Disturbance, cloud, entries, run, query, OrgChanges,
           RunBatch, ExpireJob, StartRun, SyncCatalogEntry, WriteVersion, BeginSyncRecords,
           PlainQuery, FallBackToPkChunking, PkJobCompletes, SaveJobID, SaveBatchIDs,
           OpenBatch, FinishBatch, QueryExhausted, ResetVersion, FinishStream, ResumeJob,
           EndResume, DropJob, FinishResume, FinishSync, ExitAfterFailure, StreamFails,
           JobUnusable, JobForgotten, OtherStreamFails, OtherWritesState, Crash, Stop, Fail
<1> QED
  BY <1>1, Inductive, PTL DEF Spec, OnlyPurgedRowsDropped
=============================================================================
