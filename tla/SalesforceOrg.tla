--------------------------- MODULE SalesforceOrg ---------------------------
(***************************************************************************)
(* The Salesforce org as the tap sees it: one sObject whose records carry  *)
(* a replication key (SystemModstamp) set by the server's clock when a     *)
(* save begins and visible to queries only once the save commits.  The     *)
(* module is external to the repository: it is what the queries built in   *)
(* salesforce/__init__.py are run against.                                 *)
(***************************************************************************)
EXTENDS Integers

CONSTANTS
  Record,       \* the records of the sObject
  StartDate,    \* the tap's configured start_date; the clock starts there
  CommitDelay,  \* longest time from the stamp of a save to its commit
  MaxClock      \* bound: the clock stops there

ASSUME OrgAssumption ==
  /\ StartDate \in Nat
  /\ CommitDelay \in Nat
  /\ MaxClock \in Nat
  /\ StartDate <= MaxClock

VARIABLES
  clock,    \* the server's clock
  stamp,    \* stamp[r]: replication key of the committed version of r
  pending   \* pending[r]: replication key of a save of r not yet committed

orgVars == <<clock, stamp, pending>>

NoSave == -1
Instant == 0 .. MaxClock

\* The upper bound of a query that has none: above every replication key.
NoEnd == MaxClock + 1

OrgTypeOK ==
  /\ clock \in Instant
  /\ stamp \in [Record -> Instant]
  /\ pending \in [Record -> Instant \cup {NoSave}]

\* Records older than the start date exist and are out of the tap's scope.
OrgInit ==
  /\ clock = StartDate
  /\ stamp \in [Record -> 0 .. StartDate]
  /\ pending = [r \in Record |-> NoSave]

-----------------------------------------------------------------------------
\* A save takes its stamp now; a record changes at most once per instant.
BeginSave(r) ==
  /\ pending[r] = NoSave
  /\ stamp[r] < clock
  /\ pending' = [pending EXCEPT ![r] = clock]
  /\ UNCHANGED <<clock, stamp>>

CommitSave(r) ==
  /\ pending[r] # NoSave
  /\ stamp' = [stamp EXCEPT ![r] = pending[r]]
  /\ pending' = [pending EXCEPT ![r] = NoSave]
  /\ UNCHANGED clock

Tick ==
  /\ clock < MaxClock
  /\ \A r \in Record : pending[r] # NoSave => clock - pending[r] < CommitDelay
  /\ clock' = clock + 1
  /\ UNCHANGED <<stamp, pending>>

OrgNext ==
  \/ \E r \in Record : BeginSave(r) \/ CommitSave(r)
  \/ Tick

-----------------------------------------------------------------------------
Row == [r : Record, s : Instant]

\* What a query with key >= from AND key < upto returns when it is run now.
Snapshot(from, upto) ==
  {row \in Row : row.s = stamp[row.r] /\ from <= row.s /\ row.s < upto}
=============================================================================
