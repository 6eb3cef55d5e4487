--------------------------- MODULE MCSequenceStore ---------------------------
(* A sequence under contention, for TLC. *)
EXTENDS SequenceStore
=============================================================================
