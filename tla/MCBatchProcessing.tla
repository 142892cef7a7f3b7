------------------------- MODULE MCBatchProcessing -------------------------
(* Instances of BatchProcessing for TLC: the uses the callers make of it. *)
EXTENDS BatchProcessing
=============================================================================
