---------------------------- MODULE MCReconciler ----------------------------
(* Instances of Reconciler for TLC.                                        *)
EXTENDS Reconciler

CONSTANTS j1, j2, j3, w1, w2

\* A run of one matching job and one that may run elsewhere, and a run of one.
MixedRuns == [j \in Jobs |-> IF j = j2 THEN w2 ELSE w1]

\* A runner of other origin has all labels, or those of one job only.
ServesAll == [n \in Static |-> Matching]
ServesOne == [n \in Static |-> {j1}]
=============================================================================
