-------------------------- MODULE Bulk2SyncProofs --------------------------
(***************************************************************************)
(* What holds of Bulk2Sync for any records, any bounds and any lookback of *)
(* at least CommitDelay: the types, and that runs which end without a      *)
(* failure leave no gap, in whatever order the job returns its rows.       *)
(***************************************************************************)
EXTENDS Bulk2Sync, TLAPS

\* The setting the code leaves to the operator: lookback_window is at least as
\* long as a save takes to become visible.
ASSUME LookbackAssumption == Lookback >= CommitDelay

Entry == StateEntry({None}, {None})

-----------------------------------------------------------------------------
(* The inductive invariant, in named parts. *)

\* Where the process and its thread are, and what only a failure can leave.
Control ==
  /\ process = "down" <=> pc = "idle"
  /\ process = "draining" \/ jobState = "Failed" => faults > 0
  /\ pc = "poll" => jobState # "None"
  /\ pc \in {"rows", "mark"} => jobState = "JobComplete"
  /\ pc \notin {"rows", "mark"} => todo = {}
  /\ pc = "mark" => cur \in Instant

\* Nothing is dated later than the clock, and nothing this run can bookmark
\* later than its start.
InTime ==
  /\ startTime <= clock
  /\ mem.bookmark # None => mem.bookmark <= clock
  /\ persisted.bookmark # None => persisted.bookmark <= clock
  /\ pc \in {"query", "poll", "rows", "mark", "synced", "returned"} =>
       (mem.bookmark # None => mem.bookmark <= startTime)
  /\ \A r \in Record :
       /\ stamp[r] <= clock
       /\ target[r].s <= stamp[r]
       /\ pending[r] # NoSave =>
            /\ stamp[r] < pending[r]
            /\ pending[r] <= clock
            /\ clock - pending[r] <= CommitDelay

\* A result has one row for a record, not older than the target's.
Result ==
  /\ todo \subseteq result
  /\ \A row \in result :
       /\ target[row.r].s <= row.s
       /\ row.s <= stamp[row.r]
       /\ \A other \in result : row.r = other.r => row = other

\* A state entry e agrees with the version of the rows in the target.
RowsCarry(v) == \A r \in Record : target[r] # NoRow => target[r].v = v
Versioned(e) ==
  /\ e.bookmark # None => e.version # None
  /\ e.version # None => RowsCarry(e.version)

\* The run's version is the one the state has or will have.
InVersion ==
  /\ Versioned(mem) /\ Versioned(persisted)
  /\ pc = "ready" => persisted.version = mem.version
  /\ pc \notin {"idle", "ready"} =>
       mem.version \in {None, version} /\ persisted.version \in {None, version}
  /\ pc \notin {"idle", "ready", "activate"} => RowsCarry(version)
  /\ pc \notin {"idle", "ready", "activate", "version"} => mem.version = version

\* Changes too recent for this run's bookmarks to pass them.
Late(c) == c.s >= startTime - CommitDelay

\* A change the target lacks is out of scope, in the set S of rows, or late.
InHand(c, S) == c.s < StartDate \/ c \in S \/ Late(c)

\* ..., or will be found by the job.
Ahead(c) == c.s < StartDate \/ c.s >= jobFrom \/ Late(c)

\* Where the outstanding changes are as long as nothing has failed.
Traced ==
  /\ process = "down" => Covers(persisted)
  /\ pc \in {"ready", "activate", "version", "queued", "query"} => Covers(mem)
  /\ pc = "poll" /\ jobState = "InProgress" => \A c \in Outstanding : Ahead(c)
  /\ pc = "poll" /\ jobState = "JobComplete" =>
       \A c \in Outstanding : InHand(c, result)
  /\ pc \in {"rows", "mark", "synced", "returned"} =>
       \A c \in Outstanding : InHand(c, todo)

IInv ==
  /\ TypeOK
  /\ Control
  /\ InTime
  /\ Result
  /\ InVersion
  /\ faults = 0 => Traced


-----------------------------------------------------------------------------
(* Facts about the operators. *)

\* get_start_date returns an instant, or the configured start date.
LEMMA StartDateType ==
  ASSUME NEW e \in Entry
  PROVE  GetStartDate(e) \in Instant \cup {Earliest}
BY OrgAssumption, StateAssumption
   DEF Entry, StateEntry, Key, GetStartDate, Instant, Earliest

\* The start date is at most a lookback before the bookmark, or below all keys.
LEMMA StartDateBound ==
  ASSUME NEW e \in Entry, NEW k \in Instant,
         e.bookmark # None => k >= e.bookmark - Lookback
  PROVE  k >= StartDate => k >= GetStartDate(e)
BY OrgAssumption, StateAssumption
   DEF Entry, StateEntry, Key, GetStartDate, Instant, Earliest

\* build_state keeps the bookmark and the version of a BULK2 stream's entry.
LEMMA BuildStateType ==
  ASSUME NEW e \in Entry
  PROVE  /\ BuildState(e) \in Entry
         /\ BuildState(e).bookmark = e.bookmark
         /\ BuildState(e).version = e.version
BY DEF Entry, StateEntry, BuildState, Key

\* A state without an entry has neither a bookmark nor a version.
LEMMA EmptyStateType ==
  /\ EmptyState \in Entry
  /\ EmptyState.bookmark = None
  /\ EmptyState.version = None
BY DEF EmptyState, Entry, StateEntry, Key

\* A job returns rows: a record with the key of one of its saves.
LEMMA SnapshotRows ==
  ASSUME NEW a, NEW b
  PROVE  Snapshot(a, b) \subseteq Row
BY DEF Snapshot

\* What WriteBookmark does to the state and the last STATE.
LEMMA Bookmarked ==
  ASSUME TypeOK, WriteBookmark
  PROVE  /\ mem'.version = mem.version
         /\ mem'.bookmark = mem.bookmark \/ (cur <= startTime /\ mem'.bookmark = cur)
         /\ persisted' = persisted \/ persisted' = mem'
<1>1. CASE MayBookmark
  BY <1>1 DEF WriteBookmark, MaybeWriteState, MayBookmark, TypeOK, StateEntry
<1>2. CASE ~MayBookmark
  BY <1>2 DEF WriteBookmark
<1>3. QED
  BY <1>1, <1>2


-----------------------------------------------------------------------------
(* Type correctness, one step per action. *)

\* Every step keeps every variable in its type.
LEMMA TypeStep ==
  ASSUME TypeOK, [Bulk2Next]_vars
  PROVE  TypeOK'
<1> USE OrgAssumption, StateAssumption, SyncAssumption DEF TypeOK,
    SyncTypeOK, OrgTypeOK, Entry, orgVars, tapVars, jobVars, JobVarsNext,
    Instant, NoSave, NoKey, PC, WorkerPC, Earliest, JobStates
<1>1. CASE StreamNext /\ JobVarsNext
  <2>1. CASE StartRun /\ UNCHANGED orgVars
    BY <1>1, <2>1, BuildStateType DEF StartRun
  <2>2. CASE SyncCatalogEntry /\ UNCHANGED orgVars
    BY <1>1, <2>2 DEF SyncCatalogEntry, StreamVersion, StateEntry
  <2>3. CASE ActivateVersion /\ UNCHANGED orgVars
    BY <1>1, <2>3 DEF ActivateVersion, NoRow
  <2>4. CASE WriteVersion /\ UNCHANGED orgVars
    BY <1>1, <2>4 DEF WriteVersion, StateEntry, Key
  <2>5. CASE FinishSync /\ UNCHANGED orgVars
    BY <1>1, <2>5, EmptyStateType DEF FinishSync, Stop
  <2>6. CASE ExitAfterFailure /\ UNCHANGED orgVars
    BY <1>1, <2>6, EmptyStateType DEF ExitAfterFailure, Stop
  <2>7. CASE BeginSyncRecords /\ UNCHANGED orgVars
    BY <1>1, <2>7 DEF BeginSyncRecords
  <2>8. CASE FinishStream /\ UNCHANGED orgVars
    BY <1>1, <2>8 DEF FinishStream
  <2>9. CASE StreamFails /\ UNCHANGED orgVars
    BY <1>1, <2>9 DEF StreamFails, Fail
  <2>10. CASE OtherStreamFails /\ UNCHANGED orgVars
    BY <1>1, <2>10 DEF OtherStreamFails
  <2>11. CASE OtherWritesState /\ UNCHANGED orgVars
    BY <1>1, <2>11 DEF OtherWritesState
  <2>12. CASE Crash /\ UNCHANGED orgVars
    BY <1>1, <2>12, EmptyStateType DEF Crash, Stop
  <2>13. CASE UNCHANGED tapVars /\ \E r \in Record : BeginSave(r)
    BY <1>1, <2>13 DEF BeginSave
  <2>14. CASE UNCHANGED tapVars /\ \E r \in Record : CommitSave(r)
    BY <1>1, <2>14 DEF CommitSave
  <2>15. CASE UNCHANGED tapVars /\ Tick
    BY <1>1, <2>15 DEF Tick
  <2>16. QED
    BY <1>1, <2>1, <2>2, <2>3, <2>4, <2>5, <2>6, <2>7, <2>8, <2>9, <2>10,
       <2>11, <2>12, <2>13, <2>14, <2>15 DEF StreamNext, Coroutine, Worker,
       Disturbance, OrgNext
<1>2. CASE Reading /\ UNCHANGED orgVars
  <2>1. CASE CreateJob
    BY <1>2, <2>1, StartDateType DEF CreateJob
  <2>2. CASE JobFinished
    BY <1>2, <2>2 DEF JobFinished
  <2>3. CASE JobFailed
    BY <1>2, <2>3 DEF JobFailed, Fail
  <2>4. CASE EmitNextRecord
    BY <1>2, <2>4 DEF EmitNextRecord, EmitRecord, Row
  <2>5. CASE QueryExhausted
    BY <1>2, <2>5 DEF QueryExhausted
  <2>6. CASE WriteBookmark /\ UNCHANGED jobVars
    BY <1>2, <2>6 DEF WriteBookmark, MaybeWriteState, StateEntry, Key
  <2>7. QED
    BY <1>2, <2>1, <2>2, <2>3, <2>4, <2>5, <2>6 DEF Reading
<1>3. CASE RunJob
  BY <1>3, SnapshotRows DEF RunJob
<1>4. CASE SpoilJob
  BY <1>4 DEF SpoilJob
<1>5. CASE UNCHANGED vars
  BY <1>5 DEF vars, syncVars
<1>6. QED
  BY <1>1, <1>2, <1>3, <1>4, <1>5 DEF Bulk2Next

\* The initial values have their types.
LEMMA TypeInit == Bulk2Init => TypeOK
BY OrgAssumption, SyncAssumption, EmptyStateType
   DEF Bulk2Init, SyncInit, OrgInit, TypeOK, SyncTypeOK, OrgTypeOK, Instant,
       Entry, NoSave, NoRow, NoKey, PC, WorkerPC, Earliest, JobStates

(* Every variable keeps its type, for any records, bounds and settings.      *)
THEOREM TypeCorrect == Spec => []TypeOK
<1>1. Bulk2Init => TypeOK
  BY TypeInit
<1>2. TypeOK /\ [Bulk2Next]_vars => TypeOK'
  BY TypeStep
<1>3. QED
  BY <1>1, <1>2, PTL DEF Spec


-----------------------------------------------------------------------------
(* The parts of the invariant, one lemma each. *)

\* Only a failure leaves a process draining, or a job failed.
LEMMA ControlStep ==
  ASSUME IInv, [Bulk2Next]_vars
  PROVE  Control'
<1> USE SyncAssumption DEF IInv, Control, Result, SyncTypeOK, TypeOK,
    orgVars, tapVars, jobVars, JobVarsNext, PC, WorkerPC, JobStates
<1>1. CASE StreamNext /\ JobVarsNext
  <2>1. CASE StartRun /\ UNCHANGED orgVars
    BY <1>1, <2>1 DEF StartRun
  <2>2. CASE SyncCatalogEntry /\ UNCHANGED orgVars
    BY <1>1, <2>2 DEF SyncCatalogEntry, StateEntry
  <2>3. CASE ActivateVersion /\ UNCHANGED orgVars
    BY <1>1, <2>3 DEF ActivateVersion
  <2>4. CASE WriteVersion /\ UNCHANGED orgVars
    BY <1>1, <2>4 DEF WriteVersion
  <2>5. CASE FinishSync /\ UNCHANGED orgVars
    BY <1>1, <2>5, EmptyStateType DEF FinishSync, Stop
  <2>6. CASE ExitAfterFailure /\ UNCHANGED orgVars
    BY <1>1, <2>6, EmptyStateType DEF ExitAfterFailure, Stop
  <2>7. CASE BeginSyncRecords /\ UNCHANGED orgVars
    BY <1>1, <2>7 DEF BeginSyncRecords
  <2>8. CASE FinishStream /\ UNCHANGED orgVars
    BY <1>1, <2>8 DEF FinishStream
  <2>9. CASE StreamFails /\ UNCHANGED orgVars
    BY <1>1, <2>9 DEF StreamFails, Fail
  <2>10. CASE OtherStreamFails /\ UNCHANGED orgVars
    BY <1>1, <2>10 DEF OtherStreamFails
  <2>11. CASE OtherWritesState /\ UNCHANGED orgVars
    BY <1>1, <2>11 DEF OtherWritesState
  <2>12. CASE Crash /\ UNCHANGED orgVars
    BY <1>1, <2>12, EmptyStateType DEF Crash, Stop
  <2>13. CASE UNCHANGED tapVars /\ \E r \in Record : BeginSave(r)
    BY <1>1, <2>13 DEF BeginSave
  <2>14. CASE UNCHANGED tapVars /\ \E r \in Record : CommitSave(r)
    BY <1>1, <2>14 DEF CommitSave
  <2>15. CASE UNCHANGED tapVars /\ Tick
    BY <1>1, <2>15 DEF Tick
  <2>16. QED
    BY <1>1, <2>1, <2>2, <2>3, <2>4, <2>5, <2>6, <2>7, <2>8, <2>9, <2>10,
       <2>11, <2>12, <2>13, <2>14, <2>15 DEF StreamNext, Coroutine, Worker,
       Disturbance, OrgNext
<1>2. CASE Reading /\ UNCHANGED orgVars
  <2>1. CASE CreateJob
    BY <1>2, <2>1 DEF CreateJob
  <2>2. CASE JobFinished
    BY <1>2, <2>2 DEF JobFinished
  <2>3. CASE JobFailed
    BY <1>2, <2>3 DEF JobFailed, Fail
  <2>4. CASE EmitNextRecord
    BY <1>2, <2>4 DEF EmitNextRecord, EmitRecord, Row
  <2>5. CASE QueryExhausted
    BY <1>2, <2>5 DEF QueryExhausted
  <2>6. CASE WriteBookmark /\ UNCHANGED jobVars
    BY <1>2, <2>6 DEF WriteBookmark
  <2>7. QED
    BY <1>2, <2>1, <2>2, <2>3, <2>4, <2>5, <2>6 DEF Reading
<1>3. CASE RunJob
  BY <1>3 DEF RunJob
<1>4. CASE SpoilJob
  BY <1>4 DEF SpoilJob
<1>5. CASE UNCHANGED vars
  BY <1>5 DEF vars, syncVars
<1>6. QED
  BY <1>1, <1>2, <1>3, <1>4, <1>5 DEF Bulk2Next

\* No step dates a bookmark, a row or a start time too late.
LEMMA InTimeStep ==
  ASSUME IInv, [Bulk2Next]_vars
  PROVE  InTime'
<1> USE OrgAssumption, StateAssumption, LookbackAssumption DEF IInv, InTime,
    TypeOK, SyncTypeOK, OrgTypeOK, Entry, orgVars, tapVars, jobVars,
    JobVarsNext, StateEntry, Key, Instant, NoSave, Earliest
<1>1. CASE StreamNext /\ JobVarsNext
  <2>1. CASE StartRun /\ UNCHANGED orgVars
    BY <1>1, <2>1, BuildStateType DEF StartRun
  <2>2. CASE SyncCatalogEntry /\ UNCHANGED orgVars
    BY <1>1, <2>2 DEF SyncCatalogEntry
  <2>3. CASE ActivateVersion /\ UNCHANGED orgVars
    BY <1>1, <2>3 DEF ActivateVersion, NoRow
  <2>4. CASE WriteVersion /\ UNCHANGED orgVars
    BY <1>1, <2>4 DEF WriteVersion
  <2>5. CASE FinishSync /\ UNCHANGED orgVars
    BY <1>1, <2>5, EmptyStateType DEF FinishSync, Stop
  <2>6. CASE ExitAfterFailure /\ UNCHANGED orgVars
    BY <1>1, <2>6, EmptyStateType DEF ExitAfterFailure, Stop
  <2>7. CASE BeginSyncRecords /\ UNCHANGED orgVars
    BY <1>1, <2>7 DEF BeginSyncRecords
  <2>8. CASE FinishStream /\ UNCHANGED orgVars
    BY <1>1, <2>8 DEF FinishStream
  <2>9. CASE StreamFails /\ UNCHANGED orgVars
    BY <1>1, <2>9 DEF StreamFails, Fail
  <2>10. CASE OtherStreamFails /\ UNCHANGED orgVars
    BY <1>1, <2>10 DEF OtherStreamFails
  <2>11. CASE OtherWritesState /\ UNCHANGED orgVars
    BY <1>1, <2>11 DEF OtherWritesState
  <2>12. CASE Crash /\ UNCHANGED orgVars
    BY <1>1, <2>12, EmptyStateType DEF Crash, Stop
  <2>13. CASE UNCHANGED tapVars /\ \E r \in Record : BeginSave(r)
    BY <1>1, <2>13 DEF BeginSave
  <2>14. CASE UNCHANGED tapVars /\ \E r \in Record : CommitSave(r)
    BY <1>1, <2>14 DEF CommitSave
  <2>15. CASE UNCHANGED tapVars /\ Tick
    BY <1>1, <2>15 DEF Tick
  <2>16. QED
    BY <1>1, <2>1, <2>2, <2>3, <2>4, <2>5, <2>6, <2>7, <2>8, <2>9, <2>10,
       <2>11, <2>12, <2>13, <2>14, <2>15 DEF StreamNext, Coroutine, Worker,
       Disturbance, OrgNext
<1>2. CASE Reading /\ UNCHANGED orgVars
  <2>1. CASE CreateJob
    BY <1>2, <2>1 DEF CreateJob
  <2>2. CASE JobFinished
    BY <1>2, <2>2 DEF JobFinished
  <2>3. CASE JobFailed
    BY <1>2, <2>3 DEF JobFailed, Fail
  <2>4. CASE EmitNextRecord
    BY <1>2, <2>4 DEF EmitNextRecord, EmitRecord, Result, Row
  <2>5. CASE QueryExhausted
    BY <1>2, <2>5 DEF QueryExhausted
  <2>6. CASE WriteBookmark /\ UNCHANGED jobVars
    <3>1. UNCHANGED <<clock, stamp, pending, target, startTime>> /\ pc = "mark"
      BY <1>2, <2>6 DEF WriteBookmark
    <3>2. \/ mem'.bookmark = mem.bookmark
          \/ mem'.bookmark <= clock /\ mem'.bookmark <= startTime
      BY <2>6, Bookmarked
    <3>3. persisted'.bookmark \in {persisted.bookmark, mem'.bookmark}
      BY <2>6, Bookmarked
    <3>4. QED
      BY <3>1, <3>2, <3>3
  <2>7. QED
    BY <1>2, <2>1, <2>2, <2>3, <2>4, <2>5, <2>6 DEF Reading
<1>3. CASE RunJob
  BY <1>3 DEF RunJob
<1>4. CASE SpoilJob
  BY <1>4 DEF SpoilJob
<1>5. CASE UNCHANGED vars
  BY <1>5 DEF vars, syncVars
<1>6. QED
  BY <1>1, <1>2, <1>3, <1>4, <1>5 DEF Bulk2Next

\* A result stays one row for a record, none older than the target's, when rows
\* are dropped, saves commit, or the result itself is dropped.
LEMMA ResultKept ==
  ASSUME IInv, TypeOK', todo' \subseteq result', result' \subseteq result,
         \A r \in Record : stamp[r] <= stamp'[r] /\ target'[r].s <= target[r].s
  PROVE  Result'
<1> SUFFICES ASSUME NEW row \in result'
             PROVE  target'[row.r].s <= row.s /\ row.s <= stamp'[row.r]
  BY DEF IInv, Result
<1>1. row \in result /\ row.r \in Record /\ row.s \in Int
  BY OrgAssumption DEF IInv, TypeOK, Row, Instant
<1>2. target[row.r].s <= row.s /\ row.s <= stamp[row.r]
  BY <1>1 DEF IInv, Result
<1>3. stamp[row.r] <= stamp'[row.r] /\ target'[row.r].s <= target[row.r].s
  BY <1>1
<1>4. /\ stamp[row.r] \in Int /\ stamp'[row.r] \in Int
      /\ target[row.r].s \in Int /\ target'[row.r].s \in Int
  BY <1>1, OrgAssumption DEF IInv, TypeOK, SyncTypeOK, OrgTypeOK, Instant
<1>5. QED
  BY ONLY <1>1, <1>2, <1>3, <1>4

\* Rows read are written once each, over rows that are not newer.
LEMMA ResultStep ==
  ASSUME IInv, [Bulk2Next]_vars, TypeOK'
  PROVE  Result'
<1> USE DEF IInv, TypeOK, SyncTypeOK, OrgTypeOK
<1> DEFINE Settled == \A r \in Record :
                        stamp[r] <= stamp'[r] /\ target'[r].s <= target[r].s
<1>1. UNCHANGED <<stamp, target>> => Settled
  BY OrgAssumption DEF Instant
<1>2. CASE RunJob
  <2>1. /\ result' = Snapshot(jobFrom, NoEnd) /\ todo' = {}
        /\ UNCHANGED <<stamp, target>>
    BY <1>2 DEF RunJob, tapVars, orgVars, Control
  <2>2. ASSUME NEW row \in result', NEW other \in result', row.r = other.r
        PROVE  row = other
    BY <2>1, <2>2 DEF Snapshot, Row
  <2>3. ASSUME NEW row \in result'
        PROVE  target[row.r].s <= row.s /\ row.s <= stamp[row.r]
    BY <2>1, OrgAssumption DEF Snapshot, Row, InTime, Instant
  <2>4. QED
    BY <2>1, <2>2, <2>3 DEF Result
<1>3. CASE EmitNextRecord /\ UNCHANGED orgVars
  <2>1. PICK row \in todo : EmitRecord(row)
    BY <1>3 DEF EmitNextRecord
  <2>2. /\ target' = [target EXCEPT ![row.r] = [s |-> row.s, v |-> version]]
        /\ todo' = todo \ {row} /\ result' = result /\ stamp' = stamp
    BY <1>3, <2>1 DEF EmitRecord, EmitNextRecord, jobVars, orgVars
  <2>3. row \in result /\ row.r \in Record /\ row.s \in Int
    BY <2>1, OrgAssumption DEF Result, Row, Instant
  <2>4. ASSUME NEW other \in result
        PROVE  target'[other.r].s <= other.s
    <3>1. CASE other.r = row.r
      BY <2>2, <2>3, <3>1 DEF Result
    <3>2. CASE other.r # row.r
      BY <2>2, <2>3, <3>2 DEF Result, Row
    <3>3. QED
      BY <3>1, <3>2
  <2>5. QED
    BY <2>2, <2>4 DEF Result
<1>4. CASE StreamNext /\ JobVarsNext
  <2>1. result' \subseteq result /\ todo' \subseteq result'
    <3>1. todo' = todo \/ todo' = {}
      BY <1>4
         DEF StreamNext, Coroutine, Worker, Disturbance, StartRun,
             SyncCatalogEntry, ActivateVersion, WriteVersion, FinishSync,
             ExitAfterFailure, BeginSyncRecords, FinishStream, StreamFails,
             OtherStreamFails, OtherWritesState, Crash, Stop, Fail, tapVars
    <3>2. process' = "down" => todo' = {}
      BY <1>4
         DEF StreamNext, Coroutine, Worker, Disturbance, StartRun,
             SyncCatalogEntry, ActivateVersion, WriteVersion, FinishSync,
             ExitAfterFailure, BeginSyncRecords, FinishStream, StreamFails,
             OtherStreamFails, OtherWritesState, Crash, Stop, Fail, tapVars,
             Control
    <3>3. QED
      BY <1>4, <3>1, <3>2 DEF JobVarsNext, jobVars, Result
  <2>2. Settled
    <3>1. CASE UNCHANGED tapVars /\ OrgNext
      BY <3>1, OrgAssumption
         DEF OrgNext, BeginSave, CommitSave, Tick, tapVars, Instant, InTime, NoSave
    <3>2. CASE ActivateVersion /\ UNCHANGED orgVars
      BY <3>2, OrgAssumption DEF ActivateVersion, orgVars, NoRow, Instant
    <3>3. QED
      BY <1>1, <1>4, <3>1, <3>2
         DEF StreamNext, Coroutine, Worker, Disturbance, StartRun,
             SyncCatalogEntry, WriteVersion, FinishSync, ExitAfterFailure,
             BeginSyncRecords, FinishStream, StreamFails, OtherStreamFails,
             OtherWritesState, Crash, Stop, Fail, orgVars
  <2>3. QED
    BY <2>1, <2>2, ResultKept
<1>5. CASE CreateJob /\ UNCHANGED orgVars
  BY <1>5 DEF CreateJob, Control, Result
<1>6. CASE /\ result' = result /\ UNCHANGED <<stamp, target>>
           /\ todo' = todo \/ todo' = {} \/ todo' = result
  BY <1>1, <1>6, ResultKept DEF Result
<1>7. QED
  BY <1>2, <1>3, <1>4, <1>5, <1>6
     DEF Bulk2Next, Reading, JobFinished, JobFailed, QueryExhausted, WriteBookmark,
         Fail, SpoilJob, vars, syncVars, tapVars, orgVars, jobVars


\* No step parts the version of the state from that of the target's rows.
LEMMA InVersionStep ==
  ASSUME IInv, [Bulk2Next]_vars
  PROVE  InVersion'
<1> USE OrgAssumption, StateAssumption DEF IInv, InVersion, Versioned,
    RowsCarry, TypeOK, SyncTypeOK, Entry, orgVars, tapVars, jobVars,
    JobVarsNext, StateEntry, Key
<1>1. CASE StreamNext /\ JobVarsNext
  <2>1. CASE StartRun /\ UNCHANGED orgVars
    BY <1>1, <2>1, BuildStateType DEF StartRun
  <2>2. CASE SyncCatalogEntry /\ UNCHANGED orgVars
    BY <1>1, <2>2 DEF SyncCatalogEntry, StreamVersion
  <2>3. CASE ActivateVersion /\ UNCHANGED orgVars
    BY <1>1, <2>3 DEF ActivateVersion
  <2>4. CASE WriteVersion /\ UNCHANGED orgVars
    BY <1>1, <2>4 DEF WriteVersion
  <2>5. CASE FinishSync /\ UNCHANGED orgVars
    BY <1>1, <2>5, EmptyStateType DEF FinishSync, Stop
  <2>6. CASE ExitAfterFailure /\ UNCHANGED orgVars
    BY <1>1, <2>6, EmptyStateType DEF ExitAfterFailure, Stop
  <2>7. CASE BeginSyncRecords /\ UNCHANGED orgVars
    BY <1>1, <2>7 DEF BeginSyncRecords
  <2>8. CASE FinishStream /\ UNCHANGED orgVars
    BY <1>1, <2>8 DEF FinishStream
  <2>9. CASE StreamFails /\ UNCHANGED orgVars
    BY <1>1, <2>9 DEF StreamFails, Fail, WorkerPC
  <2>10. CASE OtherStreamFails /\ UNCHANGED orgVars
    BY <1>1, <2>10 DEF OtherStreamFails
  <2>11. CASE OtherWritesState /\ UNCHANGED orgVars
    BY <1>1, <2>11 DEF OtherWritesState
  <2>12. CASE Crash /\ UNCHANGED orgVars
    BY <1>1, <2>12, EmptyStateType DEF Crash, Stop
  <2>13. CASE UNCHANGED tapVars /\ \E r \in Record : BeginSave(r)
    BY <1>1, <2>13 DEF BeginSave
  <2>14. CASE UNCHANGED tapVars /\ \E r \in Record : CommitSave(r)
    BY <1>1, <2>14 DEF CommitSave
  <2>15. CASE UNCHANGED tapVars /\ Tick
    BY <1>1, <2>15 DEF Tick
  <2>16. QED
    BY <1>1, <2>1, <2>2, <2>3, <2>4, <2>5, <2>6, <2>7, <2>8, <2>9, <2>10,
       <2>11, <2>12, <2>13, <2>14, <2>15 DEF StreamNext, Coroutine, Worker,
       Disturbance, OrgNext
<1>2. CASE Reading /\ UNCHANGED orgVars
  <2>1. CASE CreateJob
    BY <1>2, <2>1 DEF CreateJob
  <2>2. CASE JobFinished
    BY <1>2, <2>2 DEF JobFinished
  <2>3. CASE JobFailed
    BY <1>2, <2>3 DEF JobFailed, Fail
  <2>4. CASE EmitNextRecord
    BY <1>2, <2>4 DEF EmitNextRecord, EmitRecord
  <2>5. CASE QueryExhausted
    BY <1>2, <2>5 DEF QueryExhausted
  <2>6. CASE WriteBookmark /\ UNCHANGED jobVars
    <3>1. UNCHANGED <<target, version>> /\ pc = "mark" /\ pc' = "rows"
      BY <1>2, <2>6 DEF WriteBookmark
    <3>2. mem'.version = mem.version /\ mem.version = version /\ version # None
      BY <2>6, <3>1, Bookmarked
    <3>3. persisted' = persisted \/ persisted' = mem'
      BY <2>6, Bookmarked
    <3>4. QED
      BY <3>1, <3>2, <3>3
  <2>7. QED
    BY <1>2, <2>1, <2>2, <2>3, <2>4, <2>5, <2>6 DEF Reading
<1>3. CASE RunJob
  BY <1>3 DEF RunJob
<1>4. CASE SpoilJob
  BY <1>4 DEF SpoilJob
<1>5. CASE UNCHANGED vars
  BY <1>5 DEF vars, syncVars
<1>6. QED
  BY <1>1, <1>2, <1>3, <1>4, <1>5 DEF Bulk2Next

-----------------------------------------------------------------------------
(* What a step may add to the outstanding changes: a save begun now, or,     *)
(* when a new version is activated, the rows the target drops.               *)

\* Rows that stay at the target leave no change outstanding that was not before.
LEMMA OutstandingShrinks ==
  ASSUME UNCHANGED <<stamp, pending>>,
         \A r \in Record : target[r].s = stamp[r] => target'[r].s = stamp[r]
  PROVE  Outstanding' \subseteq Outstanding
BY DEF Outstanding, Row

\* Emitting a row leaves nothing new outstanding, and what is still outstanding
\* and was in hand stays in hand.
LEMMA EmittedRow ==
  ASSUME IInv, EmitNextRecord, UNCHANGED orgVars
  PROVE  /\ Outstanding' \subseteq Outstanding
         /\ \A c \in Outstanding' : c \in todo => c \in todo'
<1> USE DEF IInv, TypeOK, SyncTypeOK, OrgTypeOK
<1>1. PICK row \in todo : EmitRecord(row)
  BY DEF EmitNextRecord
<1>2. /\ row \in Row /\ row.r \in Record /\ row.s \in Int
      /\ row.s <= stamp[row.r] /\ target[row.r].s <= row.s
      /\ stamp[row.r] \in Int /\ target[row.r].s \in Int
  BY <1>1, OrgAssumption DEF Result, Row, Instant
<1>3. target' = [target EXCEPT ![row.r] = [s |-> row.s, v |-> version]]
  BY <1>1 DEF EmitRecord
<1>4. todo' = todo \ {row} /\ stamp' = stamp /\ pending' = pending
  BY <1>1 DEF EmitRecord, orgVars
<1>5. ASSUME NEW r \in Record, target[r].s = stamp[r]
      PROVE  target'[r].s = stamp[r]
  <2>1. CASE r = row.r
    <3>1. target'[r].s = row.s
      BY <1>3, <2>1
    <3>2. row.s = stamp[r]
      BY ONLY <1>2, <1>5, <2>1
    <3>3. QED
      BY <3>1, <3>2
  <2>2. CASE r # row.r
    BY <1>3, <1>5, <2>2
  <2>3. QED
    BY <2>1, <2>2
<1>6. Outstanding' \subseteq Outstanding
  BY <1>4, <1>5, OutstandingShrinks
<1>7. ASSUME NEW c \in Outstanding', c = row PROVE FALSE
  <2>1. target'[row.r].s = row.s
    BY <1>2, <1>3
  <2>2. row.s = pending[row.r]
    BY <1>4, <1>7, <2>1 DEF Outstanding
  <2>3. QED
    BY <1>2, <2>2, OrgAssumption DEF InTime, NoSave, Instant, Row
<1>8. QED
  BY <1>4, <1>6, <1>7

\* What a step may leave outstanding: what was, or a save that begins now.
LEMMA OutstandingStep ==
  ASSUME IInv, [Bulk2Next]_vars, pc # "activate" \/ RowsCarry(version)
  PROVE  \A c \in Outstanding' : c \in Outstanding \/ c.s = clock
<1> USE DEF IInv, TypeOK, SyncTypeOK, OrgTypeOK
<1>1. CASE UNCHANGED tapVars /\ \E r \in Record : BeginSave(r)
  BY <1>1 DEF BeginSave, tapVars, Outstanding, Row
<1>2. CASE UNCHANGED tapVars /\ \E r \in Record : CommitSave(r)
  <2>1. PICK r \in Record : CommitSave(r)
    BY <1>2
  <2>2. /\ pending' = [pending EXCEPT ![r] = NoSave] /\ target' = target
        /\ stamp' = [stamp EXCEPT ![r] = pending[r]]
    BY <1>2, <2>1 DEF CommitSave, tapVars
  <2>3. ASSUME NEW c \in Outstanding' PROVE c \in Outstanding
    <3>1. c \in Row /\ c.r \in Record /\ c.s \in Instant
      BY DEF Outstanding, Row
    <3>2. CASE c.r = r
      BY <2>2, <3>1, <3>2, OrgAssumption DEF Outstanding, NoSave, Instant
    <3>3. CASE c.r # r
      BY <2>2, <3>1, <3>3 DEF Outstanding
    <3>4. QED
      BY <3>2, <3>3
  <2>4. QED
    BY <2>3
<1>3. CASE ActivateVersion /\ UNCHANGED orgVars
  <2>1. \A r \in Record : target'[r].s = target[r].s
    BY <1>3 DEF ActivateVersion, RowsCarry
  <2>2. QED
    BY <1>3, <2>1, OutstandingShrinks DEF orgVars
<1>4. CASE EmitNextRecord /\ UNCHANGED orgVars
  BY <1>4, EmittedRow
<1>5. CASE UNCHANGED <<stamp, pending, target>>
  BY <1>5, OutstandingShrinks
<1>6. QED
  BY <1>1, <1>2, <1>3, <1>4, <1>5
     DEF Bulk2Next, StreamNext, Coroutine, Worker, Disturbance, OrgNext, Reading,
         StartRun, SyncCatalogEntry, WriteVersion, FinishSync, ExitAfterFailure,
         BeginSyncRecords, FinishStream, StreamFails, OtherStreamFails,
         OtherWritesState, Crash, Stop, Fail, Tick, CreateJob, JobFinished,
         JobFailed, QueryExhausted, WriteBookmark, RunJob, SpoilJob,
         vars, syncVars, orgVars, tapVars

\* An entry that covered the outstanding changes covers those of the next state.
LEMMA CoversKept ==
  ASSUME IInv, [Bulk2Next]_vars, NEW e \in Entry,
         e.bookmark # None => e.bookmark <= clock,
         e.bookmark # None => pc # "activate" \/ RowsCarry(version),
         Covers(e)
  PROVE  \A c \in Outstanding' : c.s >= StartDate => c.s >= GetStartDate(e)
<1> SUFFICES ASSUME NEW c \in Outstanding', c.s >= StartDate
             PROVE  c.s >= GetStartDate(e)
  OBVIOUS
<1>1. CASE e.bookmark = None
  BY <1>1 DEF GetStartDate
<1>2. CASE e.bookmark # None
  <2>1. c \in Outstanding \/ c.s = clock
    BY <1>2, OutstandingStep
  <2>2. CASE c.s = clock
    <3>1. clock \in Instant /\ e.bookmark \in Int
      BY <1>2, OrgAssumption
         DEF IInv, TypeOK, SyncTypeOK, OrgTypeOK, Entry, StateEntry, Key, Instant,
             Earliest
    <3>2. clock >= e.bookmark - Lookback
      BY <1>2, <3>1, OrgAssumption, StateAssumption DEF Instant
    <3>3. QED
      BY <2>2, <3>1, <3>2, StartDateBound
  <2>3. QED
    BY <2>1, <2>2 DEF Covers
<1>3. QED
  BY <1>1, <1>2

\* A save begun now is late: it is no older than the run.
LEMMA NowIsLate ==
  ASSUME IInv, NEW c, c.s = clock
  PROVE  Late(c)
BY OrgAssumption DEF IInv, InTime, TypeOK, SyncTypeOK, OrgTypeOK, Late, Instant

\* A save not yet visible is late: it began at most CommitDelay ago.
LEMMA PendingIsLate ==
  ASSUME IInv, NEW c \in Outstanding, c.s = pending[c.r]
  PROVE  Late(c)
BY OrgAssumption
   DEF IInv, InTime, TypeOK, SyncTypeOK, OrgTypeOK, Late, Instant, NoSave,
       Outstanding, Row

\* While a thread reads, whatever is newly outstanding is late.
LEMMA NewIsLate ==
  ASSUME IInv, [Bulk2Next]_vars, pc # "activate", startTime' = startTime,
         NEW c \in Outstanding'
  PROVE  c \in Outstanding \/ Late(c)'
BY OutstandingStep, NowIsLate DEF Late

-----------------------------------------------------------------------------
(* As long as nothing fails, what is outstanding can still be found. *)

\* A run that ended, and one that has not asked for its job, covers it all.
LEMMA CoversStep ==
  ASSUME IInv, faults = 0, Traced, [Bulk2Next]_vars, faults' = 0, TypeOK'
  PROVE  /\ process' = "down" => Covers(persisted)'
         /\ pc' \in {"ready", "activate", "version", "queued", "query"} =>
              Covers(mem)'
<1> USE DEF IInv
<1> DEFINE Ok(e) == \A c \in Outstanding' : c.s >= StartDate => c.s >= GetStartDate(e)
<1>1. mem \in Entry /\ persisted \in Entry /\ mem' \in Entry /\ persisted' \in Entry
  BY DEF TypeOK, Entry
<1>2. ASSUME NEW e, NEW f, e.bookmark = f.bookmark, Ok(e) PROVE Ok(f)
  BY <1>2 DEF GetStartDate
<1>3. Covers(mem) => Ok(mem)
  <2>1. mem.bookmark # None => pc # "activate" \/ RowsCarry(version)
    BY DEF InVersion, Versioned
  <2>2. QED
    BY <1>1, <2>1, CoversKept DEF InTime
<1>4. Covers(persisted) => Ok(persisted)
  <2>1. persisted.bookmark # None => pc # "activate" \/ RowsCarry(version)
    BY DEF InVersion, Versioned
  <2>2. QED
    BY <1>1, <2>1, CoversKept DEF InTime
<1>5. CASE StartRun
  <2>1. process = "down" /\ mem' = BuildState(persisted) /\ process' = "up"
    BY <1>5 DEF StartRun
  <2>2. Ok(persisted)
    BY <1>4, <2>1 DEF Traced
  <2>3. Ok(mem')
    BY <1>1, <1>2, <2>1, <2>2, BuildStateType
  <2>4. QED
    BY <2>1, <2>3 DEF Covers, GetStartDate
<1>6. CASE FinishSync /\ UNCHANGED orgVars
  <2>1. /\ pc = "returned" /\ persisted' = mem /\ pc' = "idle" /\ todo = {}
        /\ UNCHANGED <<stamp, pending, target>>
    BY <1>6 DEF FinishSync, Stop, orgVars, Control
  <2>2. Outstanding' = Outstanding
    BY <2>1 DEF Outstanding
  <2>3. ASSUME NEW c \in Outstanding, c.s >= StartDate
        PROVE  c.s >= GetStartDate(mem)
    <3>1. Late(c) /\ c.s \in Instant
      BY <2>1, <2>3, OrgAssumption
         DEF Traced, InHand, Outstanding, Row, Instant
    <3>2. mem.bookmark # None => mem.bookmark <= startTime
      BY <2>1 DEF InTime
    <3>3. mem.bookmark # None => mem.bookmark \in Int
      BY <1>1, OrgAssumption DEF Entry, StateEntry, Key, Instant, Earliest
    <3>4. startTime \in Int
      BY DEF TypeOK, SyncTypeOK, Instant
    <3>5. mem.bookmark # None => c.s >= mem.bookmark - Lookback
      BY <3>1, <3>2, <3>3, <3>4, OrgAssumption, StateAssumption,
         LookbackAssumption DEF Late, Instant
    <3>6. QED
      BY <1>1, <2>3, <3>1, <3>5, StartDateBound
  <2>4. QED
    BY <2>1, <2>2, <2>3 DEF Covers, GetStartDate
<1>7. CASE /\ process' = "down" => process = "down" /\ persisted' = persisted
           /\ pc' \in {"ready", "activate", "version", "queued", "query"} =>
                /\ pc \in {"ready", "activate", "version", "queued", "query"}
                /\ mem'.bookmark = mem.bookmark
  <2>1. process' = "down" => Ok(persisted')
    BY <1>4, <1>7 DEF Traced
  <2>2. pc' \in {"ready", "activate", "version", "queued", "query"} => Ok(mem')
    BY <1>2, <1>3, <1>7 DEF Traced
  <2>3. QED
    BY <2>1, <2>2 DEF Covers, GetStartDate
<1>8. QED
  <2>1. faults = 0 /\ faults' = 0 /\ faults + 1 # 0 /\ process # "draining"
    BY DEF Control
  <2>2. ASSUME WriteVersion PROVE mem'.bookmark = mem.bookmark
    BY <1>1, <2>2 DEF WriteVersion, Entry, StateEntry
  <2>3. CASE (Coroutine \/ Worker \/ Disturbance) /\ UNCHANGED orgVars
    BY <1>5, <1>6, <1>7, <2>1, <2>2, <2>3
       DEF Coroutine, Worker, Disturbance, SyncCatalogEntry, ActivateVersion,
           WriteVersion, ExitAfterFailure, BeginSyncRecords, FinishStream,
           StreamFails, Fail, OtherStreamFails, OtherWritesState, Crash, Stop,
           Control
  <2>4. CASE Reading
    BY <1>7, <2>1, <2>4
       DEF Reading, CreateJob, JobFinished, JobFailed, Fail, EmitNextRecord,
           EmitRecord, QueryExhausted, WriteBookmark, Control
  <2>5. CASE UNCHANGED tapVars \/ SpoilJob
    BY <1>7, <2>1, <2>5 DEF tapVars, SpoilJob
  <2>6. QED
    BY <2>3, <2>4, <2>5
       DEF Bulk2Next, StreamNext, RunJob, vars, syncVars

\* What is outstanding while the job has not run will be found by it, or is late.
LEMMA AheadStep ==
  ASSUME IInv, faults = 0, Traced, [Bulk2Next]_vars, faults' = 0,
         pc' = "poll", jobState' = "InProgress"
  PROVE  \A c \in Outstanding' : Ahead(c)'
<1> USE DEF IInv
<1>1. CASE CreateJob /\ UNCHANGED orgVars
  <2>1. Outstanding' = Outstanding
    BY <1>1 DEF CreateJob, orgVars, Outstanding
  <2>2. QED
    BY <1>1, <2>1, OrgAssumption
       DEF CreateJob, Traced, Covers, Ahead, Outstanding, Row, Instant
<1>2. CASE pc = "poll" /\ jobState = "InProgress" /\ UNCHANGED <<startTime, jobFrom>>
  <2>1. ASSUME NEW c \in Outstanding' PROVE c \in Outstanding \/ Late(c)'
    BY <1>2, NewIsLate
  <2>2. QED
    BY <1>2, <2>1 DEF Traced, Ahead, Late
<1>3. QED
  BY <1>1, <1>2
     DEF Bulk2Next, StreamNext, JobVarsNext, Coroutine, Worker, Disturbance,
         OrgNext, Reading, StartRun, SyncCatalogEntry, ActivateVersion,
         WriteVersion, FinishSync, ExitAfterFailure, BeginSyncRecords,
         FinishStream, StreamFails, OtherStreamFails, OtherWritesState, Crash,
         Stop, Fail, JobFinished, JobFailed, EmitNextRecord, EmitRecord,
         QueryExhausted, WriteBookmark, RunJob, SpoilJob, vars, syncVars, tapVars,
         jobVars, Control

\* What is outstanding when the job has run is in its result, or late.
LEMMA FoundStep ==
  ASSUME IInv, faults = 0, Traced, [Bulk2Next]_vars, faults' = 0,
         pc' = "poll", jobState' = "JobComplete"
  PROVE  \A c \in Outstanding' : InHand(c, result)'
<1> USE DEF IInv
<1>1. CASE RunJob
  <2>1. /\ Outstanding' = Outstanding /\ startTime' = startTime
        /\ result' = Snapshot(jobFrom, NoEnd)
        /\ pc = "poll" /\ jobState = "InProgress"
    BY <1>1 DEF RunJob, tapVars, orgVars, Outstanding
  <2>2. ASSUME NEW c \in Outstanding PROVE InHand(c, result)'
    <3>1. c \in Row /\ c.s \in Instant /\ c.s < NoEnd
      BY OrgAssumption DEF Outstanding, Row, Instant, NoEnd
    <3>2. CASE c.s = pending[c.r]
      BY <2>1, <3>2, PendingIsLate DEF InHand, Late
    <3>3. CASE c.s = stamp[c.r]
      <4>1. Ahead(c)
        BY <2>1 DEF Traced
      <4>2. c.s >= jobFrom => c \in Snapshot(jobFrom, NoEnd)
        BY <3>1, <3>3, OrgAssumption
           DEF Snapshot, TypeOK, Instant, Earliest
      <4>3. QED
        BY <2>1, <4>1, <4>2 DEF Ahead, InHand, Late
    <3>4. QED
      BY <3>2, <3>3 DEF Outstanding
  <2>3. QED
    BY <2>1, <2>2
<1>2. CASE pc = "poll" /\ jobState = "JobComplete" /\ UNCHANGED <<startTime, result>>
  <2>1. ASSUME NEW c \in Outstanding' PROVE c \in Outstanding \/ Late(c)'
    BY <1>2, NewIsLate
  <2>2. QED
    BY <1>2, <2>1 DEF Traced, InHand, Late
<1>3. QED
  BY <1>1, <1>2
     DEF Bulk2Next, StreamNext, JobVarsNext, Coroutine, Worker, Disturbance,
         OrgNext, Reading, StartRun, SyncCatalogEntry, ActivateVersion,
         WriteVersion, FinishSync, ExitAfterFailure, BeginSyncRecords,
         FinishStream, StreamFails, OtherStreamFails, OtherWritesState, Crash,
         Stop, Fail, CreateJob, JobFinished, JobFailed, EmitNextRecord,
         EmitRecord, QueryExhausted, WriteBookmark, SpoilJob, vars, syncVars,
         tapVars, jobVars, Control

\* What is outstanding while the result is read is still to be written, or late.
LEMMA InHandStep ==
  ASSUME IInv, faults = 0, Traced, [Bulk2Next]_vars, faults' = 0,
         pc' \in {"rows", "mark", "synced", "returned"}
  PROVE  \A c \in Outstanding' : InHand(c, todo)'
<1> USE DEF IInv
<1>1. CASE JobFinished /\ UNCHANGED orgVars
  <2>1. Outstanding' = Outstanding
    BY <1>1 DEF JobFinished, orgVars, Outstanding
  <2>2. QED
    BY <1>1, <2>1 DEF JobFinished, Traced, InHand, Late
<1>2. CASE EmitNextRecord /\ UNCHANGED orgVars
  <2>1. pc = "rows" /\ UNCHANGED startTime
    BY <1>2 DEF EmitNextRecord, EmitRecord
  <2>2. QED
    BY <1>2, <2>1, EmittedRow DEF Traced, InHand, Late
<1>3. CASE /\ pc \in {"rows", "mark", "synced", "returned"}
           /\ UNCHANGED <<startTime, todo>>
  <2>1. ASSUME NEW c \in Outstanding' PROVE c \in Outstanding \/ Late(c)'
    BY <1>3, NewIsLate
  <2>2. QED
    BY <1>3, <2>1 DEF Traced, InHand, Late
<1>4. QED
  BY <1>1, <1>2, <1>3
     DEF Bulk2Next, StreamNext, JobVarsNext, Coroutine, Worker, Disturbance,
         OrgNext, Reading, StartRun, SyncCatalogEntry, ActivateVersion,
         WriteVersion, FinishSync, ExitAfterFailure, BeginSyncRecords,
         FinishStream, StreamFails, OtherStreamFails, OtherWritesState, Crash,
         Stop, Fail, CreateJob, JobFailed, QueryExhausted, WriteBookmark, RunJob,
         SpoilJob, vars, syncVars, tapVars, jobVars, Control

\* Failures are counted, never uncounted.
LEMMA FaultsGrow ==
  ASSUME TypeOK, [Bulk2Next]_vars
  PROVE  faults' = 0 => faults = 0
<1>1. CASE (Coroutine \/ Worker \/ Disturbance) /\ UNCHANGED orgVars
  BY <1>1
     DEF Coroutine, Worker, Disturbance, StartRun, SyncCatalogEntry,
         ActivateVersion, WriteVersion, FinishSync, ExitAfterFailure,
         BeginSyncRecords, FinishStream, StreamFails, OtherStreamFails,
         OtherWritesState, Crash, TypeOK, SyncTypeOK
<1>2. CASE Reading
  BY <1>2
     DEF Reading, CreateJob, JobFinished, JobFailed, EmitNextRecord, EmitRecord,
         QueryExhausted, WriteBookmark
<1>3. CASE UNCHANGED tapVars \/ SpoilJob
  BY <1>3 DEF tapVars, SpoilJob, TypeOK, SyncTypeOK
<1>4. QED
  BY <1>1, <1>2, <1>3 DEF Bulk2Next, StreamNext, RunJob, vars, syncVars

-----------------------------------------------------------------------------
(* The theorems. *)

\* The initial states satisfy the inductive invariant.
LEMMA InductiveInit == Bulk2Init => IInv
<1> SUFFICES ASSUME Bulk2Init PROVE IInv
  OBVIOUS
<1>1. TypeOK
  BY TypeInit
<1>2. Control /\ InTime /\ Result /\ InVersion
  BY OrgAssumption, EmptyStateType
     DEF Bulk2Init, SyncInit, OrgInit, Control, InTime, Result, InVersion,
         Versioned, RowsCarry, NoRow, NoSave
<1>3. Traced
  BY EmptyStateType DEF Bulk2Init, SyncInit, Traced, Covers, GetStartDate
<1>4. QED
  BY <1>1, <1>2, <1>3 DEF IInv

(* The inductive invariant: as long as nothing failed, each outstanding      *)
(* change is ahead of the job, in its result, or too recent to be passed.    *)
THEOREM Inductive == Spec => []IInv
<1>1. Bulk2Init => IInv
  BY InductiveInit
<1>2. IInv /\ [Bulk2Next]_vars => IInv'
  <2> SUFFICES ASSUME IInv, [Bulk2Next]_vars PROVE IInv'
    OBVIOUS
  <2>1. TypeOK'
    BY TypeStep DEF IInv
  <2>2. Control' /\ InTime' /\ Result' /\ InVersion'
    BY <2>1, ControlStep, InTimeStep, ResultStep, InVersionStep
  <2>3. faults' = 0 => faults = 0 /\ Traced
    BY FaultsGrow DEF IInv
  <2>4. faults' = 0 => Traced'
    BY <2>1, <2>3, CoversStep, AheadStep, FoundStep, InHandStep DEF Traced
  <2>5. QED
    BY <2>1, <2>2, <2>4 DEF IInv
<1>3. QED
  BY <1>1, <1>2, PTL DEF Spec

(* Until the first failure, the STATE of a BULK2 run that has ended lets the  *)
(* next run find every change the target lacks, although the last bookmark is *)
(* the key of whichever row the job returned last.                            *)
THEOREM NoGapWithoutFailure == Spec => []NoGapBetweenRuns
<1>1. IInv => NoGapBetweenRuns
  BY DEF IInv, Traced, NoGapBetweenRuns, NoGap
<1>2. QED
  BY <1>1, Inductive, PTL

=============================================================================
