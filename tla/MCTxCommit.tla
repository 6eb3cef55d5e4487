----------------------------- MODULE MCTxCommit -----------------------------
(* Small batches for TLC: r1 and r2 with and without a version, and one record *)
(* twice.                                                                      *)
EXTENDS TxCommit
CONSTANTS r1, r2

On(r, checked) == [rec |-> r, checked |-> checked]
MCOpLists == {<<On(r1, TRUE), On(r2, TRUE)>>, <<On(r2, FALSE), On(r1, TRUE)>>,
              <<On(r1, TRUE), On(r1, TRUE)>>}
=============================================================================
