---------------------------- MODULE MC_MQService ----------------------------
(* Instances of MQService for TLC.                                         *)
EXTENDS MQService, TLC

\* Consumer tasks are interchangeable, and so are published tasks.
Symmetry == Permutations(Tasks) \union Permutations(Msgs)

=============================================================================
