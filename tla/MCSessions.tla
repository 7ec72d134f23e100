----------------------------- MODULE MCSessions -----------------------------
EXTENDS SessionHandlers, TLC

Symmetry == Permutations(Admins) \cup Permutations(Sessions)
              \cup Permutations(Files) \cup Permutations(Labels) \cup Permutations(Texts)
=============================================================================
