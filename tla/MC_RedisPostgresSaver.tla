----------------------- MODULE MC_RedisPostgresSaver ------------------------
(* Instances of RedisPostgresSaver for TLC.                                *)
EXTENDS RedisPostgresSaver, TLC

\* Requests, and consumer tasks, are interchangeable.
Symmetry == Permutations(Requests) \union Permutations(Workers)

=============================================================================
