---------------------------- MODULE MCOfflineTask ----------------------------
EXTENDS OfflineTask, TLC
Symmetry == Permutations(Callers) \cup Permutations(Instances)
=============================================================================
