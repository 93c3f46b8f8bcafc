--------------------------- MODULE RestSyncProofs ---------------------------
(***************************************************************************)
(* What holds of RestSync for any records, any bounds and any lookback of  *)
(* at least CommitDelay: the types, and that no change is ever skipped.    *)
(***************************************************************************)
EXTENDS RestSync, TLAPS

\* The setting the code leaves to the operator: lookback_window is at least as
\* long as a save takes to become visible.
ASSUME LookbackAssumption == Lookback >= CommitDelay

-----------------------------------------------------------------------------
(* Facts about the operators. *)

\* get_start_date returns an instant, or the configured start date.
LEMMA StartDateType ==
  ASSUME NEW e \in StateEntry({None}, {None})
  PROVE  GetStartDate(e) \in Instant \cup {Earliest}
BY OrgAssumption, StateAssumption
   DEF StateEntry, Key, GetStartDate, Instant, Earliest

\* The start date is at most a lookback before the bookmark, or below all keys.
LEMMA StartDateBound ==
  ASSUME NEW e \in StateEntry({None}, {None}), NEW k \in Instant,
         e.bookmark # None => k >= e.bookmark - Lookback
  PROVE  k >= StartDate => k >= GetStartDate(e)
BY OrgAssumption, StateAssumption
   DEF StateEntry, Key, GetStartDate, Instant, Earliest

\* build_state keeps the bookmark and the version of a REST stream's entry.
LEMMA BuildStateType ==
  ASSUME NEW e \in StateEntry({None}, {None})
  PROVE  /\ BuildState(e) \in StateEntry({None}, {None})
         /\ BuildState(e).bookmark = e.bookmark
         /\ BuildState(e).version = e.version
BY DEF StateEntry, BuildState, Key

\* A state without an entry has neither a bookmark nor a version.
LEMMA EmptyStateType ==
  /\ EmptyState \in StateEntry({None}, {None})
  /\ EmptyState.bookmark = None
  /\ EmptyState.version = None
BY DEF EmptyState, StateEntry, Key

\* Halving a window of at least two days leaves a later start and an earlier end.
LEMMA HalfLemma ==
  ASSUME NEW a \in Int, NEW b \in Int, NEW d \in Nat \ {0}, (b - a) \div 2 >= d
  PROVE  /\ (b - a) \div 2 \in Nat
         /\ a < b - (b - a) \div 2
         /\ b - (b - a) \div 2 < b
OBVIOUS

\* What a query returns are rows: a record with the key of one of its saves.
LEMMA SnapshotRows ==
  ASSUME NEW a, NEW b
  PROVE  Snapshot(a, b) \subseteq Row
BY DEF Snapshot

-----------------------------------------------------------------------------
(* The inductive invariant, in named parts. *)

\* Nothing carries a date later than the clock, and a save is not pending for
\* longer than CommitDelay.
InTime ==
  /\ startTime <= clock /\ syncStart <= clock
  /\ mem.bookmark # None => mem.bookmark <= clock
  /\ persisted.bookmark # None => persisted.bookmark <= clock
  /\ \A r \in Record :
       /\ stamp[r] <= clock
       /\ target[r].s <= stamp[r]
       /\ pending[r] # NoSave =>
            /\ stamp[r] < pending[r]
            /\ pending[r] <= clock
            /\ clock - pending[r] <= CommitDelay

\* A state entry e agrees with the version of the rows in the target.
RowsCarry(v) == \A r \in Record : target[r] # NoRow => target[r].v = v
Versioned(e) ==
  /\ e.bookmark # None => e.version # None
  /\ e.version # None => RowsCarry(e.version)

\* The run's version is the one the state has or will have.
InVersion ==
  /\ Versioned(mem) /\ Versioned(persisted)
  /\ pc = "ready" => persisted.version = mem.version
  /\ pc \notin {"idle", "ready"} =>
       mem.version \in {None, version} /\ persisted.version \in {None, version}
  /\ pc \notin {"idle", "ready", "activate"} => RowsCarry(version)
  /\ pc \notin {"idle", "ready", "activate", "version"} => mem.version = version

\* Changes too recent for this run's bookmarks to pass them.
Late(c) == c.s >= startTime - CommitDelay

\* What is outstanding is still to be read, or late.
Ahead(c) == c.s < StartDate \/ c.s >= from \/ Late(c)
InHand(c) == c.s < StartDate \/ c \in todo \/ c.s >= upto \/ Late(c)

\* The window being read, its rows, and the row whose bookmark is due.
InWindow ==
  /\ pc \in {"window", "rows", "mark"} => from <= upto
  /\ process = "down" => pc = "idle"
  /\ pc \notin {"rows", "mark"} => todo = {}
  /\ \A row \in todo :
       /\ from <= row.s /\ row.s < upto
       /\ row.s <= stamp[row.r] /\ target[row.r].s <= row.s
       /\ \A other \in todo : other.r = row.r => other = row
  /\ pc = "mark" =>
       /\ cur \in Instant
       /\ cur < upto
       /\ \A row \in todo : cur <= row.s

IInv ==
  /\ TypeOK
  /\ InTime
  /\ InVersion
  /\ InWindow
  /\ Covers(mem)
  /\ Covers(persisted)
  /\ pc = "window" => \A c \in Outstanding : Ahead(c)
  /\ pc \in {"rows", "mark"} => \A c \in Outstanding : InHand(c)

-----------------------------------------------------------------------------
(* Type correctness, one step per action. *)

\* The initial values have their types.
LEMMA TypeInit == RestInit => TypeOK
BY OrgAssumption, RestAssumption, SyncAssumption, EmptyStateType
   DEF RestInit, SyncInit, OrgInit, TypeOK, SyncTypeOK, OrgTypeOK, Instant,
       NoSave, NoRow, NoKey, NoEnd, PC, WorkerPC, Earliest

\* Every variable of the stream after Stop.
LEMMA TypeStop ==
  ASSUME TypeOK, Stop, UNCHANGED <<orgVars, windowVars>>,
         persisted' \in {persisted, mem}, faults' \in 0 .. MaxFaults
  PROVE  TypeOK'
BY OrgAssumption, EmptyStateType
   DEF Stop, TypeOK, SyncTypeOK, OrgTypeOK, orgVars, windowVars, Instant, NoKey,
       NoEnd, PC, WorkerPC, StateEntry, Key

\* Every variable of the stream after Fail.
LEMMA TypeFail ==
  ASSUME TypeOK, Fail, UNCHANGED <<orgVars, windowVars>>,
         faults' \in 0 .. MaxFaults
  PROVE  TypeOK'
BY DEF Fail, TypeOK, SyncTypeOK, OrgTypeOK, orgVars, windowVars, Instant, NoKey,
       NoEnd, PC, WorkerPC, StateEntry, Key

\* Every step keeps every variable in its type.
LEMMA TypeStep == TypeOK /\ [RestNext]_vars => TypeOK'
<1> SUFFICES ASSUME TypeOK, [RestNext]_vars PROVE TypeOK'
  OBVIOUS
<1> USE OrgAssumption, StateAssumption, SyncAssumption, RestAssumption
    DEF TypeOK, SyncTypeOK, OrgTypeOK, orgVars, tapVars, windowVars, Instant,
        NoSave, NoKey, NoEnd, PC, WorkerPC, Earliest
<1>1. CASE StreamNext /\ UNCHANGED windowVars
  <2>1. CASE StartRun /\ UNCHANGED orgVars
    BY <1>1, <2>1, BuildStateType DEF StartRun
  <2>2. CASE SyncCatalogEntry /\ UNCHANGED orgVars
    BY <1>1, <2>2 DEF SyncCatalogEntry, StreamVersion, StateEntry
  <2>3. CASE ActivateVersion /\ UNCHANGED orgVars
    BY <1>1, <2>3 DEF ActivateVersion, NoRow
  <2>4. CASE WriteVersion /\ UNCHANGED orgVars
    BY <1>1, <2>4 DEF WriteVersion, StateEntry, Key
  <2>5. CASE FinishSync /\ UNCHANGED orgVars
    BY <1>1, <2>5, TypeStop DEF FinishSync
  <2>6. CASE ExitAfterFailure /\ UNCHANGED orgVars
    BY <1>1, <2>6, TypeStop DEF ExitAfterFailure
  <2>7. CASE BeginSyncRecords /\ UNCHANGED orgVars
    BY <1>1, <2>7 DEF BeginSyncRecords
  <2>8. CASE FinishStream /\ UNCHANGED orgVars
    BY <1>1, <2>8 DEF FinishStream
  <2>9. CASE StreamFails /\ UNCHANGED orgVars
    BY <1>1, <2>9, TypeFail DEF StreamFails
  <2>10. CASE OtherStreamFails /\ UNCHANGED orgVars
    BY <1>1, <2>10 DEF OtherStreamFails
  <2>11. CASE OtherWritesState /\ UNCHANGED orgVars
    BY <1>1, <2>11 DEF OtherWritesState
  <2>12. CASE Crash /\ UNCHANGED orgVars
    BY <1>1, <2>12, TypeStop DEF Crash
  <2>13. CASE UNCHANGED tapVars /\ \E r \in Record : BeginSave(r)
    BY <1>1, <2>13 DEF BeginSave
  <2>14. CASE UNCHANGED tapVars /\ \E r \in Record : CommitSave(r)
    BY <1>1, <2>14 DEF CommitSave
  <2>15. CASE UNCHANGED tapVars /\ Tick
    BY <1>1, <2>15 DEF Tick
  <2>16. QED
    BY <1>1, <2>1, <2>2, <2>3, <2>4, <2>5, <2>6, <2>7, <2>8, <2>9, <2>10, <2>11, <2>12, <2>13, <2>14, <2>15
       DEF StreamNext, Coroutine, Worker, Disturbance, OrgNext
<1>2. CASE (Reading \/ HalveWindow \/ GiveUp) /\ UNCHANGED orgVars
  <2>1. CASE RestQuery
    <3>1. GetStartDate(mem) \in Instant \cup {Earliest}
      BY StartDateType
    <3>2. NoEnd \in 0 .. NoEnd
      BY OrgAssumption DEF NoEnd
    <3>3. QED
      BY <1>2, <2>1, <3>1, <3>2 DEF RestQuery
  <2>2. CASE OpenWindow
    BY <1>2, <2>2, SnapshotRows DEF OpenWindow
  <2>3. CASE EmitNextRecord
    BY <1>2, <2>3 DEF EmitNextRecord, EmitRecord, Row
  <2>4. CASE NextWindow
    BY <1>2, <2>4 DEF NextWindow, EndDate
  <2>5. CASE QueryExhausted
    BY <1>2, <2>5 DEF QueryExhausted
  <2>6. CASE WriteBookmark /\ UNCHANGED windowVars
    BY <1>2, <2>6 DEF WriteBookmark, MaybeWriteState, StateEntry, Key
  <2>7. CASE HalveWindow
    BY <1>2, <2>7, HalfLemma DEF HalveWindow, HalfRange, EndDate
  <2>8. CASE GiveUp
    BY <1>2, <2>8, TypeFail DEF GiveUp
  <2>9. QED
    BY <1>2, <2>1, <2>2, <2>3, <2>4, <2>5, <2>6, <2>7, <2>8 DEF Reading
<1>3. CASE UNCHANGED vars
  BY <1>3 DEF vars, syncVars
<1>4. QED
  BY <1>1, <1>2, <1>3 DEF RestNext

(* Every variable keeps its type, for any records, bounds and settings.      *)
THEOREM TypeCorrect == Spec => []TypeOK
<1>1. RestInit => TypeOK
  BY TypeInit
<1>2. TypeOK /\ [RestNext]_vars => TypeOK'
  BY TypeStep
<1>3. QED
  BY <1>1, <1>2, PTL DEF Spec

-----------------------------------------------------------------------------
(* What WriteBookmark does to the state and the last STATE. *)
LEMMA Bookmarked ==
  ASSUME TypeOK, WriteBookmark
  PROVE  /\ mem'.version = mem.version
         /\ mem'.bookmark = mem.bookmark \/ (cur <= startTime /\ mem'.bookmark = cur)
         /\ mem'.bookmark # mem.bookmark => mem'.bookmark = cur /\ cur <= startTime
         /\ persisted' = persisted \/ persisted' = mem'
<1>1. CASE MayBookmark
  BY <1>1 DEF WriteBookmark, MaybeWriteState, MayBookmark, TypeOK, StateEntry
<1>2. CASE ~MayBookmark
  BY <1>2 DEF WriteBookmark
<1>3. QED
  BY <1>1, <1>2

-----------------------------------------------------------------------------
(* Nothing carries a date later than the clock. *)

\* No step dates a bookmark, a row or a start time after the clock.
LEMMA InTimeStep ==
  ASSUME IInv, [RestNext]_vars
  PROVE  InTime'
<1> USE OrgAssumption, StateAssumption, LookbackAssumption
    DEF IInv, InTime, TypeOK, SyncTypeOK, OrgTypeOK, StateEntry, Key, orgVars,
        tapVars, windowVars, Instant, NoSave, Earliest
<1>1. CASE StreamNext /\ UNCHANGED windowVars
  <2>1. CASE StartRun /\ UNCHANGED orgVars
    BY <1>1, <2>1, BuildStateType DEF StartRun
  <2>2. CASE SyncCatalogEntry /\ UNCHANGED orgVars
    BY <1>1, <2>2 DEF SyncCatalogEntry
  <2>3. CASE ActivateVersion /\ UNCHANGED orgVars
    BY <1>1, <2>3 DEF ActivateVersion, NoRow
  <2>4. CASE WriteVersion /\ UNCHANGED orgVars
    BY <1>1, <2>4 DEF WriteVersion
  <2>5. CASE FinishSync /\ UNCHANGED orgVars
    BY <1>1, <2>5, EmptyStateType DEF FinishSync, Stop
  <2>6. CASE ExitAfterFailure /\ UNCHANGED orgVars
    BY <1>1, <2>6, EmptyStateType DEF ExitAfterFailure, Stop
  <2>7. CASE BeginSyncRecords /\ UNCHANGED orgVars
    BY <1>1, <2>7 DEF BeginSyncRecords
  <2>8. CASE FinishStream /\ UNCHANGED orgVars
    BY <1>1, <2>8 DEF FinishStream
  <2>9. CASE StreamFails /\ UNCHANGED orgVars
    BY <1>1, <2>9 DEF StreamFails, Fail
  <2>10. CASE OtherStreamFails /\ UNCHANGED orgVars
    BY <1>1, <2>10 DEF OtherStreamFails
  <2>11. CASE OtherWritesState /\ UNCHANGED orgVars
    BY <1>1, <2>11 DEF OtherWritesState
  <2>12. CASE Crash /\ UNCHANGED orgVars
    BY <1>1, <2>12, EmptyStateType DEF Crash, Stop
  <2>13. CASE UNCHANGED tapVars /\ \E r \in Record : BeginSave(r)
    BY <1>1, <2>13 DEF BeginSave
  <2>14. CASE UNCHANGED tapVars /\ \E r \in Record : CommitSave(r)
    BY <1>1, <2>14 DEF CommitSave
  <2>15. CASE UNCHANGED tapVars /\ Tick
    BY <1>1, <2>15 DEF Tick
  <2>16. QED
    BY <1>1, <2>1, <2>2, <2>3, <2>4, <2>5, <2>6, <2>7, <2>8, <2>9, <2>10,
       <2>11, <2>12, <2>13, <2>14, <2>15
    DEF StreamNext, Coroutine, Worker, Disturbance, OrgNext
<1>2. CASE (Reading \/ HalveWindow \/ GiveUp) /\ UNCHANGED orgVars
  <2>1. CASE RestQuery
    BY <1>2, <2>1 DEF RestQuery
  <2>2. CASE OpenWindow
    BY <1>2, <2>2 DEF OpenWindow
  <2>3. CASE EmitNextRecord
    BY <1>2, <2>3 DEF EmitNextRecord, EmitRecord, InWindow, Row
  <2>4. CASE NextWindow
    BY <1>2, <2>4 DEF NextWindow
  <2>5. CASE QueryExhausted
    BY <1>2, <2>5 DEF QueryExhausted
  <2>6. CASE WriteBookmark /\ UNCHANGED windowVars
    <3>1. UNCHANGED <<clock, stamp, pending, target, startTime, syncStart>>
      BY <1>2, <2>6 DEF WriteBookmark
    <3>2. mem'.bookmark = mem.bookmark \/ mem'.bookmark <= clock
      BY <2>6, Bookmarked
    <3>3. persisted'.bookmark \in {persisted.bookmark, mem'.bookmark}
      BY <2>6, Bookmarked
    <3>4. QED
      BY <3>1, <3>2, <3>3
  <2>7. CASE HalveWindow
    BY <1>2, <2>7 DEF HalveWindow
  <2>8. CASE GiveUp
    BY <1>2, <2>8 DEF GiveUp, Fail
  <2>9. QED
    BY <1>2, <2>1, <2>2, <2>3, <2>4, <2>5, <2>6, <2>7, <2>8
    DEF Reading
<1>3. CASE UNCHANGED vars
  BY <1>3 DEF vars, syncVars
<1>4. QED
  BY <1>1, <1>2, <1>3 DEF RestNext

-----------------------------------------------------------------------------
(* The rows of the target, the state and the run agree on the version. *)

\* No step parts the version of the state from that of the target's rows.
LEMMA InVersionStep ==
  ASSUME IInv, [RestNext]_vars
  PROVE  InVersion'
<1> USE OrgAssumption, StateAssumption
    DEF IInv, InVersion, Versioned, RowsCarry, TypeOK, SyncTypeOK, StateEntry,
        Key, orgVars, tapVars, windowVars
<1>1. CASE StreamNext /\ UNCHANGED windowVars
  <2>1. CASE StartRun /\ UNCHANGED orgVars
    BY <1>1, <2>1, BuildStateType DEF StartRun
  <2>2. CASE SyncCatalogEntry /\ UNCHANGED orgVars
    BY <1>1, <2>2 DEF SyncCatalogEntry, StreamVersion
  <2>3. CASE ActivateVersion /\ UNCHANGED orgVars
    BY <1>1, <2>3 DEF ActivateVersion
  <2>4. CASE WriteVersion /\ UNCHANGED orgVars
    BY <1>1, <2>4 DEF WriteVersion
  <2>5. CASE FinishSync /\ UNCHANGED orgVars
    BY <1>1, <2>5, EmptyStateType DEF FinishSync, Stop
  <2>6. CASE ExitAfterFailure /\ UNCHANGED orgVars
    BY <1>1, <2>6, EmptyStateType DEF ExitAfterFailure, Stop
  <2>7. CASE BeginSyncRecords /\ UNCHANGED orgVars
    BY <1>1, <2>7 DEF BeginSyncRecords
  <2>8. CASE FinishStream /\ UNCHANGED orgVars
    BY <1>1, <2>8 DEF FinishStream
  <2>9. CASE StreamFails /\ UNCHANGED orgVars
    BY <1>1, <2>9 DEF StreamFails, Fail, WorkerPC
  <2>10. CASE OtherStreamFails /\ UNCHANGED orgVars
    BY <1>1, <2>10 DEF OtherStreamFails
  <2>11. CASE OtherWritesState /\ UNCHANGED orgVars
    BY <1>1, <2>11 DEF OtherWritesState
  <2>12. CASE Crash /\ UNCHANGED orgVars
    BY <1>1, <2>12, EmptyStateType DEF Crash, Stop
  <2>13. CASE UNCHANGED tapVars /\ \E r \in Record : BeginSave(r)
    BY <1>1, <2>13 DEF BeginSave
  <2>14. CASE UNCHANGED tapVars /\ \E r \in Record : CommitSave(r)
    BY <1>1, <2>14 DEF CommitSave
  <2>15. CASE UNCHANGED tapVars /\ Tick
    BY <1>1, <2>15 DEF Tick
  <2>16. QED
    BY <1>1, <2>1, <2>2, <2>3, <2>4, <2>5, <2>6, <2>7, <2>8, <2>9, <2>10,
       <2>11, <2>12, <2>13, <2>14, <2>15
    DEF StreamNext, Coroutine, Worker, Disturbance, OrgNext
<1>2. CASE (Reading \/ HalveWindow \/ GiveUp) /\ UNCHANGED orgVars
  <2>1. CASE RestQuery
    BY <1>2, <2>1 DEF RestQuery
  <2>2. CASE OpenWindow
    BY <1>2, <2>2 DEF OpenWindow
  <2>3. CASE EmitNextRecord
    BY <1>2, <2>3 DEF EmitNextRecord, EmitRecord
  <2>4. CASE NextWindow
    BY <1>2, <2>4 DEF NextWindow
  <2>5. CASE QueryExhausted
    BY <1>2, <2>5 DEF QueryExhausted
  <2>6. CASE WriteBookmark /\ UNCHANGED windowVars
    <3>1. UNCHANGED <<target, version>> /\ pc = "mark" /\ pc' = "rows"
      BY <1>2, <2>6 DEF WriteBookmark
    <3>2. mem'.version = mem.version /\ mem.version = version /\ version # None
      BY <2>6, <3>1, Bookmarked
    <3>3. persisted' = persisted \/ persisted' = mem'
      BY <2>6, Bookmarked
    <3>4. QED
      BY <3>1, <3>2, <3>3
  <2>7. CASE HalveWindow
    BY <1>2, <2>7 DEF HalveWindow
  <2>8. CASE GiveUp
    BY <1>2, <2>8 DEF GiveUp, Fail
  <2>9. QED
    BY <1>2, <2>1, <2>2, <2>3, <2>4, <2>5, <2>6, <2>7, <2>8
    DEF Reading
<1>3. CASE UNCHANGED vars
  BY <1>3 DEF vars, syncVars
<1>4. QED
  BY <1>1, <1>2, <1>3 DEF RestNext


-----------------------------------------------------------------------------
(* The rows in hand lie in the window and are not older than the target's. *)

\* Every step keeps the rows in hand within the window, one for each record.
LEMMA InWindowStep ==
  ASSUME IInv, [RestNext]_vars
  PROVE  InWindow'
<1> USE OrgAssumption
    DEF IInv, InWindow, InTime, TypeOK, SyncTypeOK, OrgTypeOK, orgVars, tapVars,
        windowVars, Instant, NoSave, NoEnd, Earliest
<1>1. CASE StreamNext /\ UNCHANGED windowVars
  <2>1. CASE StartRun /\ UNCHANGED orgVars
    BY <1>1, <2>1 DEF StartRun
  <2>2. CASE SyncCatalogEntry /\ UNCHANGED orgVars
    BY <1>1, <2>2 DEF SyncCatalogEntry
  <2>3. CASE ActivateVersion /\ UNCHANGED orgVars
    BY <1>1, <2>3 DEF ActivateVersion, NoRow
  <2>4. CASE WriteVersion /\ UNCHANGED orgVars
    BY <1>1, <2>4 DEF WriteVersion
  <2>5. CASE FinishSync /\ UNCHANGED orgVars
    BY <1>1, <2>5 DEF FinishSync, Stop
  <2>6. CASE ExitAfterFailure /\ UNCHANGED orgVars
    BY <1>1, <2>6 DEF ExitAfterFailure, Stop
  <2>7. CASE BeginSyncRecords /\ UNCHANGED orgVars
    BY <1>1, <2>7 DEF BeginSyncRecords
  <2>8. CASE FinishStream /\ UNCHANGED orgVars
    BY <1>1, <2>8 DEF FinishStream
  <2>9. CASE StreamFails /\ UNCHANGED orgVars
    BY <1>1, <2>9 DEF StreamFails, Fail
  <2>10. CASE OtherStreamFails /\ UNCHANGED orgVars
    BY <1>1, <2>10 DEF OtherStreamFails
  <2>11. CASE OtherWritesState /\ UNCHANGED orgVars
    BY <1>1, <2>11 DEF OtherWritesState
  <2>12. CASE Crash /\ UNCHANGED orgVars
    BY <1>1, <2>12 DEF Crash, Stop
  <2>13. CASE UNCHANGED tapVars /\ \E r \in Record : BeginSave(r)
    BY <1>1, <2>13 DEF BeginSave
  <2>14. CASE UNCHANGED tapVars /\ \E r \in Record : CommitSave(r)
    <3>1. \A r \in Record : stamp[r] <= stamp'[r]
      BY <1>1, <2>14 DEF CommitSave
    <3>2. \A row \in todo : row.s <= stamp'[row.r]
      BY <3>1, <1>1, <2>14 DEF CommitSave, Row
    <3>3. QED
      BY <3>2, <1>1, <2>14 DEF CommitSave
  <2>15. CASE UNCHANGED tapVars /\ Tick
    BY <1>1, <2>15 DEF Tick
  <2>16. QED
    BY <1>1, <2>1, <2>2, <2>3, <2>4, <2>5, <2>6, <2>7, <2>8, <2>9, <2>10,
       <2>11, <2>12, <2>13, <2>14, <2>15
    DEF StreamNext, Coroutine, Worker, Disturbance, OrgNext
<1>2. CASE (Reading \/ HalveWindow \/ GiveUp) /\ UNCHANGED orgVars
  <2>1. CASE RestQuery
    <3>1. from' = GetStartDate(mem) /\ GetStartDate(mem) \in Instant \cup {Earliest}
      BY <2>1, StartDateType DEF RestQuery
    <3>2. from' <= upto'
      BY <3>1, <2>1 DEF RestQuery
    <3>3. todo = {} /\ todo' = {} /\ pc' = "window" /\ process' = process /\ process # "down"
      BY <2>1 DEF RestQuery
    <3>4. QED
      BY <3>2, <3>3
  <2>2. CASE OpenWindow
    BY <1>2, <2>2 DEF OpenWindow, Snapshot, Row
  <2>3. CASE EmitNextRecord
    BY <1>2, <2>3 DEF EmitNextRecord, EmitRecord, IsNext, Row
  <2>4. CASE NextWindow
    BY <1>2, <2>4 DEF NextWindow, EndDate
  <2>5. CASE QueryExhausted
    BY <1>2, <2>5 DEF QueryExhausted
  <2>6. CASE WriteBookmark /\ UNCHANGED windowVars
    BY <1>2, <2>6 DEF WriteBookmark, MaybeWriteState
  <2>7. CASE HalveWindow
    BY <1>2, <2>7, HalfLemma, RestAssumption DEF HalveWindow, EndDate, HalfRange
  <2>8. CASE GiveUp
    BY <1>2, <2>8 DEF GiveUp, Fail
  <2>9. QED
    BY <1>2, <2>1, <2>2, <2>3, <2>4, <2>5, <2>6, <2>7, <2>8
    DEF Reading
<1>3. CASE UNCHANGED vars
  BY <1>3 DEF vars, syncVars
<1>4. QED
  BY <1>1, <1>2, <1>3 DEF RestNext

-----------------------------------------------------------------------------
(* What a step may add to the outstanding changes: a save begun now, or,     *)
(* when a new version is activated, the rows the target drops.               *)

\* Rows that stay at the target leave no change outstanding that was not before.
LEMMA OutstandingShrinks ==
  ASSUME UNCHANGED <<stamp, pending>>,
         \A r \in Record : target[r].s = stamp[r] => target'[r].s = stamp[r]
  PROVE  Outstanding' \subseteq Outstanding
BY DEF Outstanding, Row

\* Emitting a row leaves nothing new outstanding, and what is still outstanding
\* and was in hand stays in hand.
LEMMA EmittedRow ==
  ASSUME IInv, EmitNextRecord, UNCHANGED orgVars
  PROVE  /\ Outstanding' \subseteq Outstanding
         /\ \A c \in Outstanding' : c \in todo => c \in todo'
<1> USE DEF IInv, TypeOK, SyncTypeOK, OrgTypeOK
<1>1. PICK row \in todo : EmitRecord(row)
  BY DEF EmitNextRecord
<1>2. /\ row \in Row /\ row.r \in Record /\ row.s \in Int
      /\ row.s <= stamp[row.r] /\ target[row.r].s <= row.s
      /\ row = [r |-> row.r, s |-> row.s]
  BY <1>1 DEF InWindow, Row, Instant
<1>3. target' = [target EXCEPT ![row.r] = [s |-> row.s, v |-> version]]
  BY <1>1 DEF EmitRecord
<1>4. todo' = todo \ {row} /\ stamp' = stamp /\ pending' = pending
  BY <1>1 DEF EmitRecord, orgVars
<1>5. \A r \in Record : target[r].s = stamp[r] => target'[r].s = stamp[r]
  BY <1>2, <1>3 DEF Instant
<1>6. Outstanding' \subseteq Outstanding
  BY <1>4, <1>5, OutstandingShrinks
<1>7. ASSUME NEW c \in Outstanding', c = row PROVE FALSE
  <2>1. target'[row.r].s = row.s
    BY <1>2, <1>3
  <2>2. row.s = pending[row.r]
    BY <1>4, <1>7, <2>1 DEF Outstanding
  <2>3. QED
    BY <1>2, <2>2, OrgAssumption DEF InTime, NoSave, Instant, Row
<1>8. QED
  BY <1>4, <1>6, <1>7

\* What a step may leave outstanding: what was, or a save that begins now.
LEMMA OutstandingStep ==
  ASSUME IInv, [RestNext]_vars, pc # "activate" \/ RowsCarry(version)
  PROVE  \A c \in Outstanding' : c \in Outstanding \/ c.s = clock
<1> USE DEF IInv, TypeOK, SyncTypeOK, OrgTypeOK
<1>1. CASE UNCHANGED tapVars /\ \E r \in Record : BeginSave(r)
  BY <1>1 DEF BeginSave, tapVars, Outstanding, Row
<1>2. CASE UNCHANGED tapVars /\ \E r \in Record : CommitSave(r)
  <2>1. PICK r \in Record : CommitSave(r)
    BY <1>2
  <2>2. /\ pending' = [pending EXCEPT ![r] = NoSave] /\ target' = target
        /\ stamp' = [stamp EXCEPT ![r] = pending[r]]
    BY <1>2, <2>1 DEF CommitSave, tapVars
  <2>3. ASSUME NEW c \in Outstanding' PROVE c \in Outstanding
    <3>1. c \in Row /\ c.r \in Record /\ c.s \in Instant
      BY DEF Outstanding, Row
    <3>2. CASE c.r = r
      BY <2>2, <3>1, <3>2, OrgAssumption DEF Outstanding, NoSave, Instant
    <3>3. CASE c.r # r
      BY <2>2, <3>1, <3>3 DEF Outstanding
    <3>4. QED
      BY <3>2, <3>3
  <2>4. QED
    BY <2>3
<1>3. CASE ActivateVersion /\ UNCHANGED orgVars
  <2>1. \A r \in Record : target'[r].s = target[r].s
    BY <1>3 DEF ActivateVersion, RowsCarry
  <2>2. QED
    BY <1>3, <2>1, OutstandingShrinks DEF orgVars
<1>4. CASE EmitNextRecord /\ UNCHANGED orgVars
  BY <1>4, EmittedRow
<1>5. CASE UNCHANGED <<stamp, pending, target>>
  BY <1>5, OutstandingShrinks
<1>6. QED
  BY <1>1, <1>2, <1>3, <1>4, <1>5
     DEF RestNext, StreamNext, Coroutine, Worker, Disturbance, OrgNext, Reading,
         StartRun, SyncCatalogEntry, WriteVersion, FinishSync, ExitAfterFailure,
         BeginSyncRecords, FinishStream, StreamFails, OtherStreamFails,
         OtherWritesState, Crash, Stop, Fail, Tick, RestQuery, OpenWindow,
         NextWindow, QueryExhausted, WriteBookmark, HalveWindow, GiveUp,
         vars, syncVars, orgVars, tapVars

-----------------------------------------------------------------------------
(* The next entries of the state cover what is outstanding. *)

\* An entry that covered the outstanding changes covers those of the next state.
LEMMA CoversKept ==
  ASSUME IInv, [RestNext]_vars, NEW e \in StateEntry({None}, {None}),
         e.bookmark # None => e.bookmark <= clock,
         e.bookmark # None => pc # "activate" \/ RowsCarry(version),
         \A c \in Outstanding : c.s >= StartDate => c.s >= GetStartDate(e)
  PROVE  \A c \in Outstanding' : c.s >= StartDate => c.s >= GetStartDate(e)
<1> SUFFICES ASSUME NEW c \in Outstanding', c.s >= StartDate
             PROVE  c.s >= GetStartDate(e)
  OBVIOUS
<1>1. CASE e.bookmark = None
  BY <1>1 DEF GetStartDate
<1>2. CASE e.bookmark # None
  <2>1. c \in Outstanding \/ c.s = clock
    BY <1>2, OutstandingStep
  <2>2. CASE c.s = clock
    <3>1. clock \in Instant /\ e.bookmark \in Int
      BY <1>2, OrgAssumption
         DEF IInv, TypeOK, SyncTypeOK, OrgTypeOK, StateEntry, Key, Instant, Earliest
    <3>2. clock >= e.bookmark - Lookback
      BY <1>2, <3>1, OrgAssumption, StateAssumption DEF Instant
    <3>3. QED
      BY <2>2, <3>1, <3>2, StartDateBound
  <2>3. QED
    BY <2>1, <2>2
<1>3. QED
  BY <1>1, <1>2

\* A row's key becomes the bookmark only when nothing outstanding is behind it.
LEMMA BookmarkCovers ==
  ASSUME IInv, WriteBookmark, MayBookmark, UNCHANGED orgVars,
         NEW e \in StateEntry({None}, {None}), e.bookmark = cur
  PROVE  \A c \in Outstanding' : c.s >= StartDate => c.s >= GetStartDate(e)
<1> USE DEF IInv, TypeOK, SyncTypeOK, OrgTypeOK
<1>1. Outstanding' = Outstanding
  BY DEF WriteBookmark, orgVars, Outstanding
<1>2. SUFFICES ASSUME NEW c \in Outstanding, c.s >= StartDate
               PROVE  c.s >= GetStartDate(e)
  BY <1>1
<1>3. /\ cur \in Instant /\ cur < upto /\ cur <= startTime
      /\ \A row \in todo : cur <= row.s
      /\ InHand(c) /\ c.s \in Instant /\ startTime \in Instant /\ upto \in Int
  BY OrgAssumption
     DEF WriteBookmark, InWindow, MayBookmark, Outstanding, Row, Instant, NoEnd
<1>4. c.s >= cur - Lookback
  BY <1>2, <1>3, OrgAssumption, StateAssumption, LookbackAssumption
     DEF InHand, Late, Instant
<1>5. QED
  BY <1>2, <1>3, <1>4, StartDateBound

\* Where the next bookmark of the state and of the last STATE come from.
LEMMA EntryStep ==
  ASSUME IInv, [RestNext]_vars
  PROVE  /\ \/ mem'.bookmark = mem.bookmark \/ mem'.bookmark = None
            \/ mem'.bookmark = persisted.bookmark
            \/ WriteBookmark /\ MayBookmark /\ UNCHANGED orgVars /\ mem'.bookmark = cur
         /\ \/ persisted'.bookmark = persisted.bookmark
            \/ persisted'.bookmark = mem.bookmark
            \/ persisted'.bookmark = mem'.bookmark
<1> USE DEF IInv, TypeOK, tapVars
<1>1. CASE StreamNext /\ UNCHANGED windowVars
  <2>1. CASE StartRun /\ UNCHANGED orgVars
    BY <1>1, <2>1, BuildStateType DEF StartRun
  <2>2. CASE SyncCatalogEntry /\ UNCHANGED orgVars
    BY <1>1, <2>2 DEF SyncCatalogEntry
  <2>3. CASE ActivateVersion /\ UNCHANGED orgVars
    BY <1>1, <2>3 DEF ActivateVersion
  <2>4. CASE WriteVersion /\ UNCHANGED orgVars
    BY <1>1, <2>4 DEF WriteVersion, StateEntry
  <2>5. CASE FinishSync /\ UNCHANGED orgVars
    BY <1>1, <2>5, EmptyStateType DEF FinishSync, Stop
  <2>6. CASE ExitAfterFailure /\ UNCHANGED orgVars
    BY <1>1, <2>6, EmptyStateType DEF ExitAfterFailure, Stop
  <2>7. CASE BeginSyncRecords /\ UNCHANGED orgVars
    BY <1>1, <2>7 DEF BeginSyncRecords
  <2>8. CASE FinishStream /\ UNCHANGED orgVars
    BY <1>1, <2>8 DEF FinishStream
  <2>9. CASE StreamFails /\ UNCHANGED orgVars
    BY <1>1, <2>9 DEF StreamFails, Fail
  <2>10. CASE OtherStreamFails /\ UNCHANGED orgVars
    BY <1>1, <2>10 DEF OtherStreamFails
  <2>11. CASE OtherWritesState /\ UNCHANGED orgVars
    BY <1>1, <2>11 DEF OtherWritesState
  <2>12. CASE Crash /\ UNCHANGED orgVars
    BY <1>1, <2>12, EmptyStateType DEF Crash, Stop
  <2>13. CASE UNCHANGED tapVars /\ \E r \in Record : BeginSave(r)
    BY <1>1, <2>13 DEF BeginSave
  <2>14. CASE UNCHANGED tapVars /\ \E r \in Record : CommitSave(r)
    BY <1>1, <2>14 DEF CommitSave
  <2>15. CASE UNCHANGED tapVars /\ Tick
    BY <1>1, <2>15 DEF Tick
  <2>16. QED
    BY <1>1, <2>1, <2>2, <2>3, <2>4, <2>5, <2>6, <2>7, <2>8, <2>9, <2>10,
       <2>11, <2>12, <2>13, <2>14, <2>15
    DEF StreamNext, Coroutine, Worker, Disturbance, OrgNext
<1>2. CASE (Reading \/ HalveWindow \/ GiveUp) /\ UNCHANGED orgVars
  <2>1. CASE RestQuery
    BY <1>2, <2>1 DEF RestQuery
  <2>2. CASE OpenWindow
    BY <1>2, <2>2 DEF OpenWindow
  <2>3. CASE EmitNextRecord
    BY <1>2, <2>3 DEF EmitNextRecord, EmitRecord
  <2>4. CASE NextWindow
    BY <1>2, <2>4 DEF NextWindow
  <2>5. CASE QueryExhausted
    BY <1>2, <2>5 DEF QueryExhausted
  <2>6. CASE WriteBookmark /\ UNCHANGED windowVars
    <3>1. mem'.bookmark # mem.bookmark => mem'.bookmark = cur /\ MayBookmark
      BY <2>6, Bookmarked DEF MayBookmark
    <3>2. persisted'.bookmark \in {persisted.bookmark, mem'.bookmark}
      BY <2>6, Bookmarked
    <3>3. QED
      BY <1>2, <2>6, <3>1, <3>2
  <2>7. CASE HalveWindow
    BY <1>2, <2>7 DEF HalveWindow
  <2>8. CASE GiveUp
    BY <1>2, <2>8 DEF GiveUp, Fail
  <2>9. QED
    BY <1>2, <2>1, <2>2, <2>3, <2>4, <2>5, <2>6, <2>7, <2>8
    DEF Reading
<1>3. CASE UNCHANGED vars
  BY <1>3 DEF vars, syncVars
<1>4. QED
  BY <1>1, <1>2, <1>3 DEF RestNext

\* Every step keeps the state and the last STATE covering the outstanding changes.
LEMMA CoversStep ==
  ASSUME IInv, [RestNext]_vars, TypeOK'
  PROVE  Covers(mem)' /\ Covers(persisted)'
<1> DEFINE Ok(e) == \A c \in Outstanding' : c.s >= StartDate => c.s >= GetStartDate(e)
<1>1. /\ mem \in StateEntry({None}, {None}) /\ persisted \in StateEntry({None}, {None})
      /\ mem' \in StateEntry({None}, {None}) /\ persisted' \in StateEntry({None}, {None})
  BY DEF IInv, TypeOK
<1>2. ASSUME NEW e, NEW f, e.bookmark = f.bookmark, Ok(e) PROVE Ok(f)
  BY <1>2 DEF GetStartDate
<1>3. Ok(mem)
  <2>1. mem.bookmark # None => pc # "activate" \/ RowsCarry(version)
    BY DEF IInv, InVersion, Versioned
  <2>2. QED
    BY <1>1, <2>1, CoversKept DEF IInv, InTime, Covers
<1>4. Ok(persisted)
  <2>1. persisted.bookmark # None => pc # "activate" \/ RowsCarry(version)
    BY DEF IInv, InVersion, Versioned
  <2>2. QED
    BY <1>1, <2>1, CoversKept DEF IInv, InTime, Covers
<1>5. ASSUME NEW e, e.bookmark = None PROVE Ok(e)
  BY <1>5 DEF GetStartDate
<1>6. Ok(mem')
  <2>1. CASE WriteBookmark /\ MayBookmark /\ UNCHANGED orgVars /\ mem'.bookmark = cur
    BY <1>1, <2>1, BookmarkCovers
  <2>2. QED
    BY <1>2, <1>3, <1>4, <1>5, <2>1, EntryStep
<1>7. Ok(persisted')
  BY <1>2, <1>3, <1>4, <1>6, EntryStep
<1>8. QED
  BY <1>6, <1>7 DEF Covers, GetStartDate

-----------------------------------------------------------------------------
(* What is outstanding is ahead of the query, in hand, or late. *)

\* A save begun now is late: it is no older than the run.
LEMMA NowIsLate ==
  ASSUME IInv, NEW c, c.s = clock
  PROVE  Late(c)
BY OrgAssumption DEF IInv, InTime, TypeOK, SyncTypeOK, OrgTypeOK, Late, Instant

\* A step leaves every outstanding change ahead of the query, or late.
LEMMA AheadStep ==
  ASSUME IInv, [RestNext]_vars, pc' = "window"
  PROVE  \A c \in Outstanding' : Ahead(c)'
<1> USE DEF IInv
<1>1. CASE RestQuery /\ UNCHANGED orgVars
  <2>1. Outstanding' = Outstanding
    BY <1>1 DEF RestQuery, orgVars, Outstanding
  <2>2. QED
    BY <1>1, <2>1, OrgAssumption
       DEF RestQuery, Covers, Ahead, Outstanding, Row, Instant
<1>2. CASE NextWindow /\ UNCHANGED orgVars
  <2>1. Outstanding' = Outstanding
    BY <1>2 DEF NextWindow, orgVars, Outstanding
  <2>2. from' = upto /\ startTime' = startTime /\ todo = {} /\ pc = "rows"
    BY <1>2 DEF NextWindow, EndDate, TypeOK, Instant
  <2>3. QED
    BY <2>1, <2>2 DEF InHand, Ahead, Late
<1>3. CASE HalveWindow /\ UNCHANGED orgVars
  <2>1. Outstanding' = Outstanding
    BY <1>3 DEF HalveWindow, orgVars, Outstanding
  <2>2. from' = from /\ startTime' = startTime /\ pc = "rows" /\ from <= upto
    BY <1>3 DEF HalveWindow, InWindow
  <2>3. from \in Int /\ upto \in Int
    BY OrgAssumption DEF TypeOK, Instant, Earliest, NoEnd
  <2>4. ASSUME NEW c \in Outstanding PROVE Ahead(c)'
    <3>1. InHand(c) /\ c.s \in Int
      BY <2>2, OrgAssumption DEF Outstanding, Row, Instant
    <3>2. QED
      BY <2>2, <2>3, <3>1 DEF InHand, Ahead, Late, InWindow
  <2>5. QED
    BY <2>1, <2>4
<1>4. CASE pc = "window" /\ UNCHANGED <<from, startTime>>
  <2>1. ASSUME NEW c \in Outstanding' PROVE c \in Outstanding \/ Late(c)
    BY <1>4, OutstandingStep, NowIsLate
  <2>2. QED
    BY <1>4, <2>1 DEF Ahead, Late
<1>5. QED
  BY <1>1, <1>2, <1>3, <1>4
     DEF RestNext, StreamNext, Coroutine, Worker, Disturbance, OrgNext, Reading,
         StartRun, SyncCatalogEntry, ActivateVersion, WriteVersion, FinishSync,
         ExitAfterFailure, BeginSyncRecords, FinishStream, StreamFails,
         OtherStreamFails, OtherWritesState, Crash, Stop, Fail, OpenWindow,
         EmitNextRecord, EmitRecord, QueryExhausted, WriteBookmark, GiveUp,
         vars, syncVars, tapVars, windowVars

\* What is outstanding when a window is opened is matched by its query, beyond
\* its end, or not visible yet.
LEMMA OpenedWindow ==
  ASSUME IInv, OpenWindow, UNCHANGED orgVars, NEW c \in Outstanding
  PROVE  InHand(c)'
<1> USE DEF IInv, TypeOK, SyncTypeOK, OrgTypeOK
<1>1. /\ todo' = Snapshot(from, upto) /\ startTime' = startTime /\ upto' = upto
      /\ pc = "window"
  BY DEF OpenWindow
<1>2. c \in Row /\ c.r \in Record /\ c.s \in Int /\ c.s \in Instant
  BY OrgAssumption DEF Outstanding, Row, Instant
<1>3. CASE c.s = pending[c.r]
  BY <1>1, <1>2, <1>3, OrgAssumption DEF InTime, NoSave, Instant, InHand, Late
<1>4. CASE c.s = stamp[c.r]
  <2>1. Ahead(c)
    BY <1>1
  <2>2. c.s >= from /\ ~(c.s >= upto) => c \in Snapshot(from, upto)
    BY <1>2, <1>4, OrgAssumption DEF Snapshot, Instant, Earliest, NoEnd
  <2>3. QED
    BY <1>1, <2>1, <2>2 DEF Ahead, InHand, Late
<1>5. QED
  BY <1>3, <1>4 DEF Outstanding

\* A step leaves every outstanding change in hand, beyond the window, or late.
LEMMA InHandStep ==
  ASSUME IInv, [RestNext]_vars, pc' \in {"rows", "mark"}
  PROVE  \A c \in Outstanding' : InHand(c)'
<1> USE DEF IInv
<1>1. CASE OpenWindow /\ UNCHANGED orgVars
  <2>1. Outstanding' = Outstanding
    BY <1>1 DEF OpenWindow, orgVars, Outstanding
  <2>2. QED
    BY <1>1, <2>1, OpenedWindow
<1>2. CASE EmitNextRecord /\ UNCHANGED orgVars
  <2>1. pc = "rows" /\ UNCHANGED <<upto, startTime>>
    BY <1>2 DEF EmitNextRecord, EmitRecord, windowVars
  <2>2. QED
    BY <1>2, <2>1, EmittedRow DEF InHand, Late
<1>3. CASE pc \in {"rows", "mark"} /\ UNCHANGED <<todo, upto, startTime>>
  <2>1. ASSUME NEW c \in Outstanding' PROVE c \in Outstanding \/ Late(c)
    BY <1>3, OutstandingStep, NowIsLate
  <2>2. QED
    BY <1>3, <2>1 DEF InHand, Late
<1>4. QED
  BY <1>1, <1>2, <1>3
     DEF RestNext, StreamNext, Coroutine, Worker, Disturbance, OrgNext, Reading,
         StartRun, SyncCatalogEntry, ActivateVersion, WriteVersion, FinishSync,
         ExitAfterFailure, BeginSyncRecords, FinishStream, StreamFails,
         OtherStreamFails, OtherWritesState, Crash, Stop, Fail, RestQuery,
         NextWindow, QueryExhausted, WriteBookmark, HalveWindow, GiveUp,
         vars, syncVars, tapVars, windowVars

-----------------------------------------------------------------------------
(* The theorems. *)

\* The initial states satisfy the inductive invariant.
LEMMA InductiveInit == RestInit => IInv
<1> SUFFICES ASSUME RestInit PROVE IInv
  OBVIOUS
<1>1. TypeOK
  BY TypeInit
<1>2. InTime /\ InVersion /\ InWindow
  BY OrgAssumption, EmptyStateType
     DEF RestInit, SyncInit, OrgInit, InTime, InVersion, Versioned, RowsCarry,
         InWindow, NoRow, NoSave, NoEnd
<1>3. Covers(mem) /\ Covers(persisted)
  BY EmptyStateType DEF RestInit, SyncInit, Covers, GetStartDate
<1>4. QED
  BY <1>1, <1>2, <1>3 DEF IInv, RestInit, SyncInit

\* Every step keeps the inductive invariant.
LEMMA InductiveStep == IInv /\ [RestNext]_vars => IInv'
<1> SUFFICES ASSUME IInv, [RestNext]_vars PROVE IInv'
  OBVIOUS
<1>1. TypeOK'
  BY TypeStep DEF IInv
<1>2. QED
  BY <1>1, InTimeStep, InVersionStep, InWindowStep, CoversStep, AheadStep,
     InHandStep DEF IInv

(* The inductive invariant of a run of the tap: what is outstanding is ahead *)
(* of the query, among the rows in hand, or too recent to be passed.         *)
THEOREM Inductive == Spec => []IInv
<1>1. RestInit => IInv
  BY InductiveInit
<1>2. IInv /\ [RestNext]_vars => IInv'
  BY InductiveStep
<1>3. QED
  BY <1>1, <1>2, PTL DEF Spec

-----------------------------------------------------------------------------
(* RestSync implements AtLeastOnce. *)

\* The initial states are initial states of the abstract specification.
LEMMA PromiseInit == RestInit => Promise!Init
BY EmptyStateType
   DEF RestInit, SyncInit, Promise!Init, Promise!Absent, NoRow, GetStartDate

\* The STATE is behind every change the target does not show.
LEMMA PromiseAhead == IInv => Promise!Ahead(GetStartDate(persisted))
<1> SUFFICES ASSUME IInv, NEW r \in Record,
                    NEW c \in {stamp[r], pending[r]} \ {NoSave},
                    c >= StartDate, c > target[r].s
             PROVE  c >= GetStartDate(persisted)
  BY DEF Promise!Ahead
<1>1. c \in Instant
  BY DEF IInv, TypeOK, SyncTypeOK, OrgTypeOK
<1>2. [r |-> r, s |-> c] \in Outstanding
  BY <1>1, OrgAssumption
     DEF Outstanding, Row, Instant, IInv, TypeOK, SyncTypeOK, OrgTypeOK
<1>3. QED
  BY <1>2 DEF IInv, Covers

\* What a row delivers lies between what the target shows and what there is.
LEMMA PromiseDeliver ==
  ASSUME IInv, EmitNextRecord, UNCHANGED orgVars
  PROVE  \E r \in Record : Promise!Deliver(r)
<1> USE DEF IInv, TypeOK, SyncTypeOK, OrgTypeOK
<1>1. PICK row \in todo : EmitRecord(row)
  BY DEF EmitNextRecord
<1>2. row \in Row /\ row.r \in Record /\ row.s \in Int
  BY OrgAssumption DEF Row, Instant
<1>3. target[row.r].s <= row.s /\ row.s <= stamp[row.r]
  BY DEF InWindow
<1>4. target' = [target EXCEPT ![row.r] = [s |-> row.s, v |-> version]]
      /\ UNCHANGED <<persisted, stamp, pending>>
  BY <1>1 DEF EmitRecord, orgVars
<1>5. stamp[row.r] \in {stamp[row.r], pending[row.r]} \ {NoSave}
  BY <1>2, OrgAssumption DEF NoSave, Instant
<1> DEFINE copy == [r \in Record |-> target[r].s]
<1>6. copy' = [copy EXCEPT ![row.r] = row.s]
  BY <1>2, <1>4
<1>7. copy[row.r] <= copy'[row.r] /\ copy'[row.r] <= stamp[row.r]
  BY <1>2, <1>3, <1>6
<1>8. copy' = [copy EXCEPT ![row.r] = copy'[row.r]]
  BY <1>2, <1>6
<1>9. Promise!Deliver(row.r)
  BY <1>2, <1>4, <1>5, <1>7, <1>8 DEF Promise!Deliver
<1>10. QED
  BY <1>2, <1>9

\* ACTIVATE_VERSION drops whole rows.
LEMMA PromiseEmpty ==
  ASSUME IInv, ActivateVersion, UNCHANGED orgVars,
         Promise!Ahead(GetStartDate(persisted))'
  PROVE  Promise!Empty
BY DEF ActivateVersion, orgVars, Promise!Empty, Promise!Absent, NoRow, IInv,
       TypeOK, SyncTypeOK

\* The org's saves are at or after the STATE's start date.
LEMMA PromiseChange ==
  ASSUME IInv, NEW r \in Record, BeginSave(r) \/ CommitSave(r),
         UNCHANGED tapVars
  PROVE  Promise!Change
<1> USE DEF IInv, TypeOK, SyncTypeOK, OrgTypeOK
<1>1. UNCHANGED <<target, persisted>>
  BY DEF tapVars
<1>2. ASSUME NEW q \in Record,
             NEW c \in ({stamp[q], pending[q]} \ {NoSave})',
             c \notin {stamp[q], pending[q]} \ {NoSave}, c >= StartDate
      PROVE  c >= GetStartDate(persisted)
  <2>1. c = clock
    BY <1>2 DEF BeginSave, CommitSave
  <2>2. persisted.bookmark # None => clock >= persisted.bookmark - Lookback
    BY OrgAssumption, StateAssumption
       DEF InTime, StateEntry, Key, Earliest, Instant
  <2>3. QED
    BY <1>2, <2>1, <2>2, StartDateBound
<1>3. QED
  BY <1>1, <1>2 DEF Promise!Change

\* Every step is a step of the abstract specification, or leaves it alone.
LEMMA PromiseStep ==
  ASSUME IInv, [RestNext]_vars, Promise!Ahead(GetStartDate(persisted))'
  PROVE  [Promise!Next]_(Promise!vars)
<1>1. CASE EmitNextRecord /\ UNCHANGED orgVars
  BY <1>1, PromiseDeliver DEF Promise!Next
<1>2. CASE ActivateVersion /\ UNCHANGED orgVars
  BY <1>2, PromiseEmpty DEF Promise!Next
<1>3. CASE \E r \in Record : (BeginSave(r) \/ CommitSave(r)) /\ UNCHANGED tapVars
  BY <1>3, PromiseChange DEF Promise!Next
<1>4. CASE UNCHANGED <<stamp, pending, target>>
  <2>1. Promise!Ahead(GetStartDate(persisted'))
    BY <1>4 DEF Promise!Ahead
  <2>2. QED
    BY <1>4, <2>1 DEF Promise!Next, Promise!Checkpoint
<1>5. QED
  BY <1>1, <1>2, <1>3, <1>4
     DEF RestNext, StreamNext, Coroutine, Worker, Disturbance, OrgNext, Reading,
         StartRun, SyncCatalogEntry, WriteVersion, FinishSync, Tick,
         ExitAfterFailure, BeginSyncRecords, FinishStream, StreamFails,
         OtherStreamFails, OtherWritesState, Crash, Stop, Fail, RestQuery,
         OpenWindow, NextWindow, QueryExhausted, WriteBookmark, HalveWindow,
         GiveUp, vars, syncVars, tapVars, orgVars, windowVars

(* A REST extraction is an implementation of AtLeastOnce: nothing is skipped, *)
(* no record goes back to an older version, rows are dropped only when they   *)
(* will be read again.                                                        *)
THEOREM ImplementsAtLeastOnce == Spec => DeliversAtLeastOnce
<1>1. RestInit => Promise!Init
  BY PromiseInit
<1>2. IInv /\ IInv' /\ [RestNext]_vars => [Promise!Next]_(Promise!vars)
  <2>1. IInv' => Promise!Ahead(GetStartDate(persisted))'
    BY PromiseAhead, PTL
  <2>2. QED
    BY <2>1, PromiseStep
<1>3. QED
  BY <1>1, <1>2, Inductive, PTL DEF Spec, DeliversAtLeastOnce, Promise!Spec

(* With the REST API no change is ever skipped: whatever was interrupted,    *)
(* timed out or written in between, the last STATE starts a run at or before *)
(* every change the target does not have.                                    *)
THEOREM NothingSkipped == Spec => []NoGap
<1>1. IInv => NoGap
  BY DEF IInv, NoGap
<1>2. QED
  BY <1>1, Inductive, PTL
=============================================================================
