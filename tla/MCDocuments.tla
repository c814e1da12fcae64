---------------------------- MODULE MCDocuments -----------------------------
EXTENDS Documents, TLC

Symmetry == Permutations(Files) \cup Permutations(Contents) \cup Permutations(Rows)
                \cup Permutations(Uploads) \cup Permutations(Purges)
=============================================================================
