---------------------------- MODULE MCBulk2Sync ----------------------------
(* Bulk2Sync for TLC, with the assumption its theorems are proved under. *)
EXTENDS Bulk2SyncProofs
=============================================================================
