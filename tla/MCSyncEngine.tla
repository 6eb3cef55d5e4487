---------------------------- MODULE MCSyncEngine ----------------------------
EXTENDS SyncEngine, TLC
Symmetry == Permutations(Devices) \cup Permutations(Bodies)
=============================================================================
