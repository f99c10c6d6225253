--------------------------- MODULE MC_ShortMemory ---------------------------
(* Instances of ShortMemory for TLC.                                       *)
EXTENDS ShortMemory, TLC

\* Consumer tasks are interchangeable.
Symmetry == Permutations(Workers)

=============================================================================
