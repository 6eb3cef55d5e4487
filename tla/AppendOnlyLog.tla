---------------------------- MODULE AppendOnlyLog ----------------------------
(***************************************************************************)
(* What a ledger promises its readers: one log, that grows at its end by   *)
(* one entry at a time and never changes otherwise.                        *)
(***************************************************************************)
EXTENDS Sequences

CONSTANT Entries
VARIABLE log

Init == log = <<>>
Next == \E e \in Entries : log' = Append(log, e)
Spec == Init /\ [][Next]_log
=============================================================================
