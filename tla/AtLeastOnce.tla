----------------------------- MODULE AtLeastOnce -----------------------------
(***************************************************************************)
(* What an incremental extraction promises, with nothing of how it works:  *)
(* the destination shows of each record a version that only moves forward, *)
(* unless it is emptied, and the cursor from which the next run will query *)
(* never passes a change the destination does not show.                    *)
(*                                                                         *)
(* The detailed specifications implement it through the mapping Promise of *)
(* StreamSync.                                                             *)
(***************************************************************************)
EXTENDS Integers

CONSTANTS
  Record,     \* the records of the source
  StartDate   \* changes before it are out of scope

VARIABLES
  changes,    \* changes[r]: keys of the committed and pending versions of r
  copy,       \* copy[r]: key of the version the destination shows
  cursor      \* the next run queries from here

vars == <<changes, copy, cursor>>

Absent == -1

\* Every change in scope that the destination does not show is at or after k.
Ahead(k) ==
  \A r \in Record : \A c \in changes[r] : c >= StartDate /\ c > copy[r] => c >= k

Init ==
  /\ copy = [r \in Record |-> Absent]
  /\ cursor = StartDate

\* Records change; a version may supersede others.
Change ==
  /\ \A r \in Record : \A c \in changes'[r] \ changes[r] :
       c >= StartDate => c >= cursor
  /\ UNCHANGED <<copy, cursor>>

\* The destination gets a version of r, neither older than the one it shows
\* nor newer than all there is.
Deliver(r) ==
  /\ copy[r] <= copy'[r]
  /\ \E c \in changes[r] : copy'[r] <= c
  /\ copy' = [copy EXCEPT ![r] = copy'[r]]
  /\ UNCHANGED <<changes, cursor>>

\* Rows are dropped while the cursor lies before all they showed.
Empty ==
  /\ \A r \in Record : copy'[r] \in {copy[r], Absent}
  /\ Ahead(cursor)'
  /\ UNCHANGED <<changes, cursor>>

\* The cursor moves, forward or back.
Checkpoint ==
  /\ Ahead(cursor')
  /\ UNCHANGED <<changes, copy>>

Next == Change \/ Empty \/ Checkpoint \/ \E r \in Record : Deliver(r)

Spec == Init /\ [][Next]_vars
=============================================================================
