--------------------------- MODULE MCSchemaFence ---------------------------
(* The cutover for TLC: the instances and writes are model values of the cfg. *)
EXTENDS SchemaFence
=============================================================================
