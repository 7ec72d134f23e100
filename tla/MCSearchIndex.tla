---------------------------- MODULE MCSearchIndex ----------------------------
(* Instances of SearchIndex for TLC. *)
EXTENDS SearchIndex, TLC

\* Documents and build threads are interchangeable.
Symmetry == Permutations(Docs) \cup Permutations(Builders)
=============================================================================
