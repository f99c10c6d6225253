------------------------- MODULE MC_UserInstruction --------------------------
(* Instances of UserInstruction for TLC.                                   *)
EXTENDS UserInstruction, TLC

\* Clients are interchangeable.
Symmetry == Permutations(Clients)

=============================================================================
