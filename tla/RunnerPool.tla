----------------------------- MODULE RunnerPool -----------------------------
(***************************************************************************)
(* What the spawner promises of the containers it brings up: per repo a    *)
(* pool of runners that never holds more than the repo's cap, filled one   *)
(* runner at a time, each container id used once.                          *)
(***************************************************************************)
EXTENDS Integers, FiniteSets

CONSTANTS Repos, Containers, MaxConcurrency

VARIABLES
  live,    \* the runners in the pool of each repo
  spent    \* container ids used so far

Init ==
  /\ live = [r \in Repos |-> {}]
  /\ spent = {}

Admit(r, c) ==
  /\ c \notin spent
  /\ Cardinality(live[r]) < MaxConcurrency[r]
  /\ live' = [live EXCEPT ![r] = @ \cup {c}]
  /\ spent' = spent \cup {c}

\* Runners leave the pool: they exit, are removed, or are abandoned to the
\* daemon by a docker run that was killed (all of them at once on a restart).
Retire(gone) ==
  /\ live' = [r \in Repos |-> live[r] \ gone]
  /\ UNCHANGED spent

Next ==
  \/ \E r \in Repos, c \in Containers : Admit(r, c)
  \/ \E gone \in SUBSET Containers : Retire(gone)

Spec == Init /\ [][Next]_<<live, spent>>
=============================================================================
