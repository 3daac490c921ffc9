----------------------------- MODULE MCJobClaim -----------------------------
EXTENDS JobClaim, TLC

Symmetry == Permutations(Sessions) \cup Permutations(Reconcilers)

=============================================================================
