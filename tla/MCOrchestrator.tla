--------------------------- MODULE MCOrchestrator ---------------------------
(* Orchestrator on a catalog of four streams, the second not selected. *)
EXTENDS Orchestrator

RequestsOf == [s \in Stream |-> IF s = 1 THEN 2 ELSE 1]
=============================================================================
