----------------------------- MODULE MCBulkSync -----------------------------
(* BulkSync on two records, for the bulk_* runs. *)
EXTENDS BulkSync, TLC

\* One record in each batch: batches are named by their record.
OneEach == [r \in Record |-> r]

\* Both records in the same batch.
AllInOne == [r \in Record |-> CHOOSE b \in Batch : TRUE]

RecordSymmetry == Permutations(Record)
=============================================================================
