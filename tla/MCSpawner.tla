----------------------------- MODULE MCSpawner -----------------------------
(* Instances of Spawner for TLC.                                           *)
EXTENDS Spawner, TLC

CONSTANTS r1, r2

\* One repo with room for one runner, one with room for two.
Caps == [r \in Repos |-> IF r = r1 THEN 1 ELSE 2]

\* Callers and container ids are interchangeable (safety runs only).
Symmetry == Permutations(Callers) \cup Permutations(Containers)
=============================================================================
