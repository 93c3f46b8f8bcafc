------------------------------ MODULE Bulk2Sync ------------------------------
(***************************************************************************)
(* A stream synced with the Bulk 2.0 API: salesforce/bulk2.py.  A query    *)
(* job runs on the server while the tap polls its state, and the result is *)
(* paged through with a locator.  The query has no ORDER BY, so rows come  *)
(* in any order of the replication key.                                    *)
(***************************************************************************)
EXTENDS StreamSync

VARIABLES
  jobState,   \* state of the query job the tap waits for (external)
  jobFrom,    \* start_date in the job's query
  result      \* rows the job has found, once it is complete

jobVars == <<jobState, jobFrom, result>>
vars == <<syncVars, jobVars>>

JobStates == {"None", "InProgress", "JobComplete", "Failed"}

Bulk2Init ==
  /\ SyncInit
  /\ jobState = "None"
  /\ jobFrom = 0
  /\ result = {}

-----------------------------------------------------------------------------
(* The server. *)

RunJob ==
  /\ jobState = "InProgress"
  /\ jobState' = "JobComplete"
  /\ result' = Snapshot(jobFrom, NoEnd)
  /\ UNCHANGED <<tapVars, orgVars, jobFrom>>

\* A job the server cannot complete.  One that an administrator aborts is left
\* out: the tap polls it for ever, and no run would end.
SpoilJob ==
  /\ jobState = "InProgress"
  /\ faults < MaxFaults
  /\ faults' = faults + 1
  /\ jobState' = "Failed"
  /\ UNCHANGED <<mem, persisted, target, process, pc, startTime, version, todo,
                 cur, lastVersion, orgVars, jobFrom, result>>

-----------------------------------------------------------------------------
(* Bulk2.query. *)

CreateJob ==
  /\ pc = "query"
  /\ jobState' = "InProgress"
  /\ jobFrom' = GetStartDate(mem)
  /\ result' = {}
  /\ pc' = "poll"
  /\ UNCHANGED <<mem, persisted, target, process, startTime, version, todo, cur,
                 lastVersion, faults>>

\* Mutant of JobFinished: only the first page of the result is read.
FirstPageOnly ==
  /\ pc = "poll"
  /\ jobState = "JobComplete"
  /\ todo' \in SUBSET result
  /\ pc' = "rows"
  /\ UNCHANGED <<mem, persisted, target, process, startTime, version, cur,
                 lastVersion, faults, jobVars>>

\* _wait_for_job ends on these two states and polls on in every other.
JobFinished ==
  /\ pc = "poll"
  /\ jobState = "JobComplete"
  /\ todo' = result
  /\ pc' = "rows"
  /\ UNCHANGED <<mem, persisted, target, process, startTime, version, cur,
                 lastVersion, faults, jobVars>>

JobFailed ==
  /\ pc = "poll"
  /\ jobState = "Failed"
  /\ Fail
  /\ UNCHANGED <<faults, jobVars>>

\* Records in the order of the result pages: any order of their keys.
EmitNextRecord == (\E row \in todo : EmitRecord(row)) /\ UNCHANGED jobVars

\* Mutant of QueryExhausted: after the last page the first one is asked for.
FirstPageAgain ==
  /\ pc = "rows"
  /\ todo = {}
  /\ pc' = "poll"
  /\ UNCHANGED <<mem, persisted, target, process, startTime, version, todo, cur,
                 lastVersion, faults, jobVars>>

QueryExhausted ==
  /\ pc = "rows"
  /\ todo = {}
  /\ pc' = "synced"
  /\ UNCHANGED <<mem, persisted, target, process, startTime, version, todo, cur,
                 lastVersion, faults, jobVars>>

\* A process that ends leaves its job behind: no later run refers to it.
JobVarsNext ==
  IF process' = "down"
    THEN jobState' = "None" /\ jobFrom' = 0 /\ result' = {}
    ELSE UNCHANGED jobVars

Reading ==
  \/ CreateJob \/ JobFinished \/ JobFailed \/ EmitNextRecord \/ QueryExhausted
  \/ WriteBookmark /\ UNCHANGED jobVars

Bulk2Next ==
  \/ StreamNext /\ JobVarsNext
  \/ Reading /\ UNCHANGED orgVars
  \/ RunJob
  \/ SpoilJob

Spec == Bulk2Init /\ [][Bulk2Next]_vars

\* The threads run, the server runs the job, time passes and the tap is
\* started again and again.
Fairness ==
  /\ WF_vars(StreamProgress /\ JobVarsNext)
  /\ WF_vars(Reading /\ UNCHANGED orgVars)
  /\ WF_vars(OrgProgress /\ JobVarsNext)
  /\ WF_vars(RunJob)

FairSpec == Spec /\ Fairness

-----------------------------------------------------------------------------
(* Every variable has its type. *)
TypeOK ==
  /\ SyncTypeOK
  /\ mem \in StateEntry({None}, {None})
  /\ persisted \in StateEntry({None}, {None})
  /\ jobState \in JobStates
  /\ jobFrom \in Instant \cup {Earliest}
  /\ result \subseteq Row

(* Between runs that end without a failure no change is skipped, although     *)
(* the bookmark is only the key of the row that happened to come last: until  *)
(* the first failure the STATE of a run that has ended covers every change    *)
(* (bulk2.py builds a query without ORDER BY, sync.py takes each key as the   *)
(* bookmark).                                                                 *)
NoGapBetweenRuns == process = "down" /\ faults = 0 => NoGap
=============================================================================
