----------------------------- MODULE MCRestSync -----------------------------
(* RestSync for the rest_sync run, with the assumption on the lookback that *)
(* its proofs use, so that TLC evaluates it.                                *)
EXTENDS RestSyncProofs
=============================================================================
