-------------------------- MODULE MCFullTableSync --------------------------
(* FullTableSync with one record in each batch. *)
EXTENDS FullTableSync

OneEach == [r \in Record |-> r]
=============================================================================
