----------------------------- MODULE MC_Storage -----------------------------
EXTENDS Storage, TLC

\* Nothing distinguishes two threads of one user.
Symmetry == Permutations(Sessions)
=============================================================================
