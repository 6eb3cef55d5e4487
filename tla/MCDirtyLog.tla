----------------------------- MODULE MCDirtyLog -----------------------------
(***************************************************************************)
(* Instances of DirtyLog for TLC: the record ids are interchangeable.      *)
(***************************************************************************)
EXTENDS DirtyLog, TLC

MCSymmetry == Permutations(Ids)
=============================================================================
