------------------------------ MODULE MC_RagTask ------------------------------
(* Instances of RagTask for TLC.                                            *)
EXTENDS RagTask, TLC

CONSTANTS r, f    \* the repository task, the file list task

\* The repository has two chunks of code or none; the list has one or is empty.
MCBodies ==
    r :> {[wanting |-> FALSE, chunks |-> 2], [wanting |-> FALSE, chunks |-> 0]}
    @@ f :> {[wanting |-> FALSE, chunks |-> 1], [wanting |-> TRUE, chunks |-> 0]}

=============================================================================
