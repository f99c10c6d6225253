--------------------------- MODULE MC_Orchestrator --------------------------
(* Instances of Orchestrator for TLC.                                      *)
EXTENDS Orchestrator

=============================================================================
