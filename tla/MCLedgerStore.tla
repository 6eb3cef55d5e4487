---------------------------- MODULE MCLedgerStore ----------------------------
(* Two instances of a vault's ledger, for TLC. *)
EXTENDS LedgerStore, TLC

\* Stores are alike, and so are the appends that no purge is about.
Alike == Permutations(Stores) \cup Permutations(Calls \ Forgotten)
=============================================================================
