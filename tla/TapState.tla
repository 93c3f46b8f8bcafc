------------------------------ MODULE TapState ------------------------------
(***************************************************************************)
(* The entry of one incremental stream in the Singer STATE, and the        *)
(* functions of the tap that read it.  A missing key and a null value are  *)
(* the same to singer.get_bookmark and both are None here.                 *)
(***************************************************************************)
EXTENDS SalesforceOrg

CONSTANTS
  None,       \* an absent or null value
  Lookback    \* the lookback_window setting

ASSUME StateAssumption ==
  /\ None \notin Int
  /\ Lookback \in Nat

\* No bookmarks at all: the state of the first run.
EmptyState ==
  [bookmark |-> None,   \* state["bookmarks"][id][replication_key]
   version  |-> None,   \* ..."version"
   jobID    |-> None,   \* ..."JobID"
   batchIDs |-> None,   \* ..."BatchIDs"
   highest  |-> None]   \* ..."JobHighestBookmarkSeen"

\* A Bulk job's bookmarks are carried over only together with its JobID.
BuildState(raw) ==
  [raw EXCEPT !.batchIDs = IF raw.jobID = None THEN None ELSE @,
              !.highest  = IF raw.jobID = None THEN None ELSE @]

\* Dates before the first instant select the same rows: one of them is enough.
Earliest == -1

\* The lookback applies to a bookmark, never to the configured start date.
GetStartDate(state) ==
  IF state.bookmark = None THEN StartDate
  ELSE IF state.bookmark - Lookback < 0 THEN Earliest
  ELSE state.bookmark - Lookback
=============================================================================
