----------------------------- MODULE MCCleanup -----------------------------
(* Instances of Cleanup for TLC.                                           *)
EXTENDS Cleanup, TLC

CONSTANTS r1, r2, n1, n2, n3, w1

\* All containers belong to the first repo.
Together == [n \in Runners |-> r1]

\* One container of each repo, and one whose repo is no longer configured.
Apart == (n1 :> r1) @@ (n2 :> r2) @@ (n3 :> None)

RunsOfR1 == [w \in Runs |-> r1]

\* Passes are interchangeable, and so are runners of one repo (safety runs only).
Symmetry == Permutations(Ticks) \cup Permutations(Runners)
=============================================================================
