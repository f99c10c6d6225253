------------------------- MODULE MC_LongTermExtract -------------------------
(* Instances of LongTermExtract for TLC.                                   *)
EXTENDS LongTermExtract, TLC

\* Consumer tasks are interchangeable.
Symmetry == Permutations(Workers)

=============================================================================
