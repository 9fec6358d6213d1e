--------------------------- MODULE CleanupProofs ----------------------------
(***************************************************************************)
(* Proofs about Cleanup, for any number of overlapping passes, repos,      *)
(* runners and workflow runs.                                              *)
(***************************************************************************)
EXTENDS Cleanup, FiniteSetTheorems, TLAPS

-----------------------------------------------------------------------------
(* The invariants.                                                         *)

\* Registrations and jobs: GitHub keeps no job for a runner it does not know,
\* a job whose runner died is lost, and a container that outgrew the grace was
\* registered before, or died.
RunnerInv ==
  \A n \in Runners :
    /\ n \in dereg => reg[n] = "removed"
    /\ reg[n] = "removed" => work[n] = None
    /\ Dead(n) /\ work[n] # None => work[n] \in lost
    /\ n \in old /\ reg[n] = "new" => Dead(n)

IInv == TypeOK /\ DeletesCountedOnce /\ RunnerInv

\* If no live runner is shown offline: ghosts are dead and stay so, and the runs
\* that are to be cancelled have lost a job.
GhostInv ==
  /\ \A n \in Runners : reg[n] = "offline" => Dead(n)
  /\ \A g \in Ticks \X Repos : /\ \A n \in ghosts[g] : Dead(n)
                               /\ stuckRuns[g] \subseteq lost

\* A runner that will never have a job again.
OutOfWork(n) == Dead(n) \/ reg[n] = "removed"

\* If containers start at once and the lists are complete: what docker inspect
\* showed as not running is dead, and a container that a pass takes for
\* unregistered is out of work, or had still to register when the pass listed
\* its repo; what it is about to remove is over the grace besides.
ReapInv ==
  /\ \A n \in Runners : cstate[n] # "created"
  /\ \A t \in Ticks :
       /\ tpc[t] # "reap" => listed[t] = {}
       /\ \A n \in corpses[t] : Dead(n)
       /\ \A n \in locals[t] : Unregistered(t, n) => n \in early[t] \/ OutOfWork(n)
       /\ \A n \in Runners : victim[t] = n => (n \in early[t] /\ n \in old) \/ OutOfWork(n)

-----------------------------------------------------------------------------
(* Type correctness.                                                       *)

USE DEF external, repoPass, reapPass, Remove

\* A page of GitHub's list shows registered runners of the repo.
LEMMA PageIsRegistered ==
  ASSUME NEW r, NEW page \in Pages(r)
  PROVE  page \subseteq Registered(r) /\ page \subseteq Runners
BY DEF Pages, Registered

\* The steps of the goroutine of a repo.
LEMMA TypeRepoPass ==
  ASSUME TypeOK, DeletesCountedOnce, RunnerInv, NEW g \in Ticks \X Repos, RepoPass(g)
  PROVE  TypeOK' /\ DeletesCountedOnce'
<1> USE DEF TypeOK, DeletesCountedOnce, Goto
<1>1. CASE ListGhosts(g)
  <2>1. PICK page \in Pages(g[2]) :
          LET found == {n \in page : reg[n] # "online"} IN
          /\ ghosts' = [ghosts EXCEPT ![g] = found]
          /\ gpc' = [gpc EXCEPT ![g] = IF found = {} THEN "clean" ELSE "runs"]
    BY <1>1 DEF ListGhosts
  <2>2. ghosts' \in [Ticks \X Repos -> SUBSET Runners]
    BY <2>1, PageIsRegistered
  <2>3. gpc' \in [Ticks \X Repos -> {"list", "runs", "clean"}]
    BY <2>1
  <2>4. QED  BY <1>1, <2>2, <2>3 DEF ListGhosts
<1>2. CASE ListGhostsFailed(g) \/ ListRuns(g) \/ ListRunsFailed(g)
  <2>1. gpc' \in [Ticks \X Repos -> {"list", "runs", "clean"}]
    <3>1. gpc' = [gpc EXCEPT ![g] = "clean"]
      BY <1>2 DEF ListGhostsFailed, ListRuns, ListRunsFailed
    <3>2. QED  BY <3>1
  <2>2. askJobs' \in [Ticks \X Repos -> SUBSET Runs]
    BY <1>2 DEF ListGhostsFailed, ListRuns, ListRunsFailed
  <2>3. QED  BY <1>2, <2>1, <2>2 DEF ListGhostsFailed, ListRuns, ListRunsFailed
<1>3. ASSUME NEW w \in Runs, ListJobs(g, w) \/ ListJobsFailed(g, w)
      PROVE  TypeOK' /\ DeletesCountedOnce'
  <2>1. askJobs' \in [Ticks \X Repos -> SUBSET Runs]
    <3>1. askJobs' = [askJobs EXCEPT ![g] = @ \ {w}]
      BY <1>3 DEF ListJobs, ListJobsFailed
    <3>2. askJobs[g] \ {w} \subseteq Runs
      OBVIOUS
    <3>3. QED  BY <3>1, <3>2
  <2>2. stuckRuns' \in [Ticks \X Repos -> SUBSET Runs]
    <3>1. stuckRuns' = [stuckRuns EXCEPT ![g] = @ \cup {w}] \/ stuckRuns' = stuckRuns
      BY <1>3 DEF ListJobs, ListJobsFailed
    <3>2. stuckRuns[g] \cup {w} \subseteq Runs
      OBVIOUS
    <3>3. QED  BY <3>1, <3>2
  <2>3. QED  BY <1>3, <2>1, <2>2 DEF ListJobs, ListJobsFailed
<1>4. ASSUME NEW w \in Runs, ForceCancel(g, w) \/ ForceCancelFailed(g, w)
      PROVE  TypeOK' /\ DeletesCountedOnce'
  <2>1. stuckRuns' \in [Ticks \X Repos -> SUBSET Runs]
    <3>1. stuckRuns' = [stuckRuns EXCEPT ![g] = @ \ {w}]
      BY <1>4 DEF ForceCancel, ForceCancelFailed
    <3>2. stuckRuns[g] \ {w} \subseteq Runs
      OBVIOUS
    <3>3. QED  BY <3>1, <3>2
  <2>2. cancelled' \subseteq Runs
    BY <1>4 DEF ForceCancel, ForceCancelFailed
  <2>3. QED  BY <1>4, <2>1, <2>2 DEF ForceCancel, ForceCancelFailed
<1>5. ASSUME NEW n \in Runners, DeleteRunner(g, n) \/ DeleteRunnerUnheard(g, n)
      PROVE  TypeOK' /\ DeletesCountedOnce'
  <2>1. n \notin dereg /\ dereg' = dereg \cup {n} /\ dereg' \subseteq Runners
    BY <1>5 DEF DeleteRunner, DeleteRunnerUnheard, RunnerInv
  <2>2. IsFiniteSet(dereg) /\ Cardinality(dereg) \in Nat
    BY FS_Subset, FS_CardinalityType, CleanupAssumption
  <2>3. Cardinality(dereg') = Cardinality(dereg) + 1 /\ Cardinality(dereg') <= Cardinality(Runners)
    BY <2>1, <2>2, FS_AddElement, FS_Subset, CleanupAssumption
  <2>4. Cardinality(Runners) \in Nat /\ total \in Nat /\ total <= Cardinality(dereg)
    BY FS_CardinalityType, CleanupAssumption
  <2>5. total' \in 0..Cardinality(Runners) /\ total' <= Cardinality(dereg')
    BY <1>5, <2>2, <2>3, <2>4 DEF DeleteRunner, DeleteRunnerUnheard
  <2>6. reg' \in [Runners -> {"new", "offline", "online", "removed"}]
    <3>1. reg' = [reg EXCEPT ![n] = "removed"]
      BY <1>5 DEF DeleteRunner, DeleteRunnerUnheard
    <3>2. QED  BY <3>1
  <2>7. ghosts' \in [Ticks \X Repos -> SUBSET Runners]
    <3>1. ghosts' = [ghosts EXCEPT ![g] = @ \ {n}]
      BY <1>5 DEF DeleteRunner, DeleteRunnerUnheard
    <3>2. ghosts[g] \ {n} \subseteq Runners
      OBVIOUS
    <3>3. QED  BY <3>1, <3>2
  <2>8. QED  BY <1>5, <2>1, <2>5, <2>6, <2>7 DEF DeleteRunner, DeleteRunnerUnheard
<1>6. ASSUME NEW n \in Runners, DeleteRunnerFailed(g, n) PROVE TypeOK' /\ DeletesCountedOnce'
  BY <1>6 DEF DeleteRunnerFailed
<1>7. QED  BY <1>1, <1>2, <1>3, <1>4, <1>5, <1>6 DEF RepoPass

\* The steps of the reaping phase.
LEMMA TypeReapPass ==
  ASSUME TypeOK, NEW t \in Ticks, ReapPass(t)
  PROVE  TypeOK'
<1> USE DEF TypeOK
<1>1. CASE Ps(t) \/ PsFailed(t)
  <2>1. tpc' \in [Ticks -> {"idle", "repos", "inspect", "reap"}]
    BY <1>1 DEF Ps, PsFailed
  <2>2. locals' \in [Ticks -> SUBSET Runners]
    BY <1>1 DEF Ps, PsFailed
  <2>3. QED  BY <1>1, <2>1, <2>2 DEF Ps, PsFailed
<1>2. CASE Inspect(t) \/ InspectFailed(t)
  <2>1. tpc' \in [Ticks -> {"idle", "repos", "inspect", "reap"}]
    <3>1. tpc' = [tpc EXCEPT ![t] = "reap"]
      BY <1>2 DEF Inspect, InspectFailed
    <3>2. QED  BY <3>1
  <2>2. corpses' \in [Ticks -> SUBSET Runners]
    <3>1. CASE Inspect(t)
      <4>1. {n \in locals[t] : cstate[n] # "running"} \subseteq Runners
        OBVIOUS
      <4>2. QED  BY <3>1, <4>1 DEF Inspect
    <3>2. CASE InspectFailed(t)
      BY <3>2 DEF InspectFailed
    <3>3. QED  BY <1>2, <3>1, <3>2
  <2>3. askNames' \in [Ticks -> SUBSET Repos]
    <3>1. askNames' = [askNames EXCEPT ![t] = Repos]
      BY <1>2 DEF Inspect, InspectFailed
    <3>2. QED  BY <3>1
  <2>4. QED  BY <1>2, <2>1, <2>2, <2>3 DEF Inspect, InspectFailed
<1>3. ASSUME NEW r \in Repos, ListNames(t, r) PROVE TypeOK'
  BY <1>3, PageIsRegistered DEF ListNames
<1>4. ASSUME NEW r \in Repos, ListNamesFailed(t, r) PROVE TypeOK'
  BY <1>4 DEF ListNamesFailed
<1>5. ASSUME NEW n \in Runners, RmCorpse(t, n) PROVE TypeOK'
  BY <1>5 DEF RmCorpse
<1>6. ASSUME NEW n \in Runners, Spare(t, n) \/ CheckAge(t, n) PROVE TypeOK'
  <2>1. CASE Spare(t, n)
    BY <2>1 DEF Spare
  <2>2. CASE CheckAge(t, n)
    BY <2>2 DEF CheckAge
  <2>3. QED  BY <1>6, <2>1, <2>2
<1>7. CASE RmOrphan(t)
  BY <1>7 DEF RmOrphan
<1>8. CASE RmOrphanFailed(t) \/ EndTick(t)
  <2>1. CASE RmOrphanFailed(t)
    BY <2>1 DEF RmOrphanFailed
  <2>2. CASE EndTick(t)
    BY <2>2 DEF EndTick
  <2>3. QED  BY <1>8, <2>1, <2>2
<1>9. QED  BY <1>1, <1>2, <1>3, <1>4, <1>5, <1>6, <1>7, <1>8 DEF ReapPass

\* The steps of containers, runners and GitHub.
LEMMA TypeWorld ==
  ASSUME TypeOK, NEW n \in Runners, World(n)
  PROVE  TypeOK'
<1> USE DEF TypeOK, World
<1>1. CASE Create(n) \/ Start(n) \/ AutoRemove(n)
  BY <1>1 DEF Create, Start, AutoRemove
<1>2. CASE Register(n) \/ Connect(n) \/ Disconnect(n) \/ Unregister(n) \/ GoOffline(n)
  <2>1. reg' \in [Runners -> {"new", "offline", "online", "removed"}]
    <3>1. \/ reg' = [reg EXCEPT ![n] = "offline"] \/ reg' = [reg EXCEPT ![n] = "online"]
          \/ reg' = [reg EXCEPT ![n] = "removed"]
      BY <1>2 DEF Register, Connect, Disconnect, Unregister, GoOffline
    <3>2. QED  BY <3>1
  <2>2. UNCHANGED <<cstate, old, work, lost, cancelled, total, dereg, repoPass, tpc, reapPass>>
    BY <1>2 DEF Register, Connect, Disconnect, Unregister, GoOffline
  <2>3. QED  BY <2>1, <2>2
<1>3. CASE (\E w \in Runs : TakeJob(n, w)) \/ Finish(n) \/ HeartbeatTimeout(n)
  <2>1. ASSUME NEW w \in Runs, TakeJob(n, w) PROVE TypeOK'
    BY <2>1 DEF TakeJob
  <2>2. CASE Finish(n)
    BY <2>2 DEF Finish
  <2>3. CASE HeartbeatTimeout(n)
    BY <2>3 DEF HeartbeatTimeout
  <2>4. QED  BY <1>3, <2>1, <2>2, <2>3
<1>4. CASE Exit(n)
  BY <1>4 DEF Exit
<1>5. CASE Age(n)
  BY <1>5 DEF Age
<1>6. QED  BY <1>1, <1>2, <1>3, <1>4, <1>5

-----------------------------------------------------------------------------
(* Runners, their registrations and their jobs.                            *)

\* The steps of the cleanup that change a container or a registration.
Removal(n) ==
  \/ \E t \in Ticks : RmCorpse(t, n) \/ (victim[t] = n /\ RmOrphan(t))
  \/ \E g \in Ticks \X Repos : DeleteRunner(g, n) \/ DeleteRunnerUnheard(g, n)

\* All others leave the outside world and the record of deletions as they are.
LEMMA StepShape ==
  ASSUME TypeOK, [Next]_vars
  PROVE  \/ UNCHANGED <<external, dereg>>
         \/ \E n \in Runners : Removal(n) \/ World(n)
<1>1. ASSUME NEW t \in Ticks, ReapPass(t)
      PROVE  UNCHANGED <<external, dereg>> \/ \E n \in Runners : Removal(n)
  <2>1. CASE RmOrphan(t)
    BY <2>1 DEF RmOrphan, Removal, TypeOK
  <2>2. CASE \E n \in Runners : RmCorpse(t, n)
    BY <2>2 DEF Removal
  <2>3. CASE Ps(t) \/ PsFailed(t) \/ Inspect(t) \/ InspectFailed(t) \/ EndTick(t) \/ RmOrphanFailed(t)
    BY <2>3 DEF Ps, PsFailed, Inspect, InspectFailed, EndTick, RmOrphanFailed
  <2>4. CASE \E r \in Repos : ListNames(t, r) \/ ListNamesFailed(t, r)
    BY <2>4 DEF ListNames, ListNamesFailed
  <2>5. CASE \E n \in Runners : Spare(t, n) \/ CheckAge(t, n)
    BY <2>5 DEF Spare, CheckAge
  <2>6. QED  BY <1>1, <2>1, <2>2, <2>3, <2>4, <2>5 DEF ReapPass
<1>2. ASSUME NEW g \in Ticks \X Repos, RepoPass(g)
      PROVE  UNCHANGED <<external, dereg>> \/ \E n \in Runners : Removal(n)
  <2>1. CASE \E n \in Runners : DeleteRunner(g, n) \/ DeleteRunnerUnheard(g, n)
    BY <2>1 DEF Removal
  <2>2. CASE ListGhosts(g) \/ ListGhostsFailed(g) \/ ListRuns(g) \/ ListRunsFailed(g)
    BY <2>2 DEF ListGhosts, ListGhostsFailed, ListRuns, ListRunsFailed
  <2>3. CASE \E w \in Runs : \/ ListJobs(g, w) \/ ListJobsFailed(g, w)
                             \/ ForceCancel(g, w) \/ ForceCancelFailed(g, w)
    BY <2>3 DEF ListJobs, ListJobsFailed, ForceCancel, ForceCancelFailed
  <2>4. CASE \E n \in Runners : DeleteRunnerFailed(g, n)
    BY <2>4 DEF DeleteRunnerFailed
  <2>5. QED  BY <1>2, <2>1, <2>2, <2>3, <2>4 DEF RepoPass
<1>3. ASSUME NEW t \in Ticks, StartTick(t) PROVE UNCHANGED <<external, dereg>>
  BY <1>3 DEF StartTick
<1>4. QED  BY <1>1, <1>2, <1>3 DEF Next, vars

\* What a removal does to its runner: it kills the container, and a job with
\* it, or deletes the registration of a runner that has no job.
LEMMA RemovalShape ==
  ASSUME TypeOK, NEW n \in Runners, Removal(n)
  PROVE  \/ /\ cstate' = [cstate EXCEPT ![n] = "gone"]
            /\ lost' = IF work[n] = None THEN lost ELSE lost \cup {work[n]}
            /\ old' = old \ {n} /\ UNCHANGED <<reg, work, dereg>>
         \/ /\ reg[n] # "removed" /\ work[n] = None
            /\ reg' = [reg EXCEPT ![n] = "removed"]
            /\ dereg' = dereg \cup {n}
            /\ UNCHANGED <<cstate, old, work, lost>>
BY DEF Removal, RmCorpse, RmOrphan, DeleteRunner, DeleteRunnerUnheard, TypeOK

\* The facts about runners hold whatever the cleanup and the world do.
LEMMA RunnerStep ==
  ASSUME TypeOK, RunnerInv, [Next]_vars
  PROVE  RunnerInv'
<1> USE DEF TypeOK, RunnerInv, Dead
<1>1. CASE UNCHANGED <<external, dereg>>
  BY <1>1
<1>2. ASSUME NEW n \in Runners, Removal(n) PROVE RunnerInv'
  <2> HIDE DEF TypeOK
  <2>1. /\ DOMAIN cstate = Runners /\ DOMAIN reg = Runners
        /\ work \in [Runners -> Runs \cup {None}] /\ lost \subseteq Runs
    BY DEF TypeOK
  <2>2. \/ /\ cstate' = [cstate EXCEPT ![n] = "gone"]
           /\ lost' = IF work[n] = None THEN lost ELSE lost \cup {work[n]}
           /\ old' = old \ {n} /\ UNCHANGED <<reg, work, dereg>>
        \/ /\ reg[n] # "removed" /\ work[n] = None
           /\ reg' = [reg EXCEPT ![n] = "removed"]
           /\ dereg' = dereg \cup {n}
           /\ UNCHANGED <<cstate, old, work, lost>>
    BY <1>2, RemovalShape
  <2>3. QED  BY <2>1, <2>2
<1>3. ASSUME NEW n \in Runners, World(n) PROVE RunnerInv'
  <2> USE <1>3 DEF World
  <2>1. CASE Create(n) \/ Start(n) \/ AutoRemove(n)
    BY <2>1 DEF Create, Start, AutoRemove
  <2>2. CASE Register(n) \/ Connect(n) \/ Disconnect(n) \/ GoOffline(n)
    BY <2>2 DEF Register, Connect, Disconnect, GoOffline
  <2>3. CASE Unregister(n)
    BY <2>3 DEF Unregister
  <2>4. ASSUME NEW w \in Runs, TakeJob(n, w) PROVE RunnerInv'
    BY <2>4 DEF TakeJob
  <2>5. CASE Finish(n) \/ HeartbeatTimeout(n)
    <3>1. CASE Finish(n)
      BY <3>1 DEF Finish
    <3>2. CASE HeartbeatTimeout(n)
      BY <3>2 DEF HeartbeatTimeout
    <3>3. QED  BY <2>5, <3>1, <3>2
  <2>6. CASE Exit(n)
    BY <2>6 DEF Exit
  <2>7. CASE Age(n)
    BY <2>7 DEF Age, Exists
  <2>8. QED  BY <2>1, <2>2, <2>3, <2>4, <2>5, <2>6, <2>7
<1>4. QED  BY <1>1, <1>2, <1>3, StepShape

\* Nothing comes back: neither the dead, nor a registration, a lost job or youth.
LEMMA NothingReturns ==
  ASSUME TypeOK, RunnerInv, [Next]_vars
  PROVE  /\ lost \subseteq lost'
         /\ \A n \in Runners : /\ n \in old => n \in old' \/ Dead(n)'
                               /\ Dead(n) => Dead(n)'
                               /\ reg[n] = "removed" => reg'[n] = "removed"
<1> USE DEF TypeOK, Dead
<1>1. CASE UNCHANGED <<external, dereg>>
  BY <1>1
<1>2. CASE \E n \in Runners : Removal(n)
  BY <1>2, RemovalShape
<1>3. CASE \E n \in Runners : World(n)
  BY <1>3 DEF World, Create, Start, Register, Connect, Disconnect, Unregister, TakeJob, Finish,
              Exit, AutoRemove, GoOffline, HeartbeatTimeout, Age
<1>4. QED  BY <1>1, <1>2, <1>3, StepShape

-----------------------------------------------------------------------------
(* The first theorems.                                                     *)

\* The invariant holds before the first pass, ...
LEMMA IInvInit == Init => IInv
<1> SUFFICES ASSUME Init PROVE IInv
  OBVIOUS
<1>1. 0 \in 0..Cardinality(Runners) /\ Cardinality({}) = 0
  BY FS_CardinalityType, FS_EmptySet, CleanupAssumption
<1>2. /\ cstate \in [Runners -> {"none", "created", "running", "exited", "gone"}]
      /\ reg \in [Runners -> {"new", "offline", "online", "removed"}]
      /\ work \in [Runners -> Runs \cup {None}]
  BY DEF Init
<1>3. /\ gpc \in [Ticks \X Repos -> {"list", "runs", "clean"}]
      /\ ghosts \in [Ticks \X Repos -> SUBSET Runners]
      /\ askJobs \in [Ticks \X Repos -> SUBSET Runs]
      /\ stuckRuns \in [Ticks \X Repos -> SUBSET Runs]
  BY DEF Init
<1>4. /\ tpc \in [Ticks -> {"idle", "repos", "inspect", "reap"}]
      /\ locals \in [Ticks -> SUBSET Runners] /\ corpses \in [Ticks -> SUBSET Runners]
      /\ askNames \in [Ticks -> SUBSET Repos] /\ listed \in [Ticks -> SUBSET Repos]
      /\ names \in [Ticks -> SUBSET Runners] /\ early \in [Ticks -> SUBSET Runners]
      /\ victim \in [Ticks -> Runners \cup {None}]
  BY DEF Init
<1>5. TypeOK /\ DeletesCountedOnce
  BY <1>1, <1>2, <1>3, <1>4 DEF Init, TypeOK, DeletesCountedOnce
<1>6. RunnerInv
  BY DEF Init, RunnerInv, Dead
<1>7. QED  BY <1>5, <1>6 DEF IInv

\* ... and every step of a pass and of the world keeps it.
LEMMA IInvStep == IInv /\ [Next]_vars => IInv'
<1> SUFFICES ASSUME IInv, [Next]_vars PROVE IInv'
  OBVIOUS
<1> USE DEF IInv
<1>1. RunnerInv'
  BY RunnerStep
<1>2. ASSUME UNCHANGED <<total, dereg>> PROVE DeletesCountedOnce'
  BY <1>2 DEF DeletesCountedOnce
<1>3. ASSUME NEW t \in Ticks, StartTick(t) PROVE TypeOK' /\ DeletesCountedOnce'
  BY <1>2, <1>3 DEF StartTick, TypeOK
<1>4. ASSUME NEW t \in Ticks, ReapPass(t) PROVE TypeOK' /\ DeletesCountedOnce'
  <2>1. UNCHANGED <<total, dereg>>
    BY <1>4 DEF ReapPass, Ps, PsFailed, Inspect, InspectFailed, ListNames, ListNamesFailed,
                RmCorpse, Spare, CheckAge, RmOrphan, RmOrphanFailed, EndTick
  <2>2. QED  BY <1>2, <1>4, <2>1, TypeReapPass
<1>5. ASSUME NEW n \in Runners, World(n) PROVE TypeOK' /\ DeletesCountedOnce'
  BY <1>2, <1>5, TypeWorld DEF World
<1>6. CASE UNCHANGED vars
  <2>1. TypeOK'
    BY <1>6 DEF vars, TypeOK
  <2>2. UNCHANGED <<total, dereg>>
    BY <1>6 DEF vars
  <2>3. QED  BY <1>1, <1>2, <2>1, <2>2
<1>7. QED  BY <1>1, <1>3, <1>4, <1>5, <1>6, TypeRepoPass DEF Next

\* ... and so it always holds.
LEMMA Invariance == Spec => []IInv
BY IInvInit, IInvStep, PTL DEF Spec

\* Every variable keeps its type, and no more runners are counted as deleted
\* than there are.
THEOREM TypeCorrect == Spec => []TypeOK
<1>1. IInv => TypeOK
  BY DEF IInv
<1>2. QED  BY <1>1, Invariance, PTL

\* Overlapping passes find the same ghosts, and each may have the answer that
\* it deleted one: no registration is counted twice (cleanup.go's deleteRunner
\* and totalGhostsDeleted), since GitHub takes a deletion once.
THEOREM DeletesAreCountedOnce == Spec => []DeletesCountedOnce
<1>1. IInv => DeletesCountedOnce
  BY DEF IInv
<1>2. QED  BY <1>1, Invariance, PTL

-----------------------------------------------------------------------------
(* Ghosts.                                                                 *)

\* A goroutine of a repo learns of ghosts from the list, and of the runs they
\* hold from the jobs; all else only forgets.
LEMMA GhostShape ==
  ASSUME TypeOK, [Next]_vars, NEW g \in Ticks \X Repos
  PROVE  /\ ListGhosts(g) \/ ghosts'[g] \subseteq ghosts[g]
         /\ \/ \E w \in Runs : ListJobs(g, w)
            \/ stuckRuns'[g] \subseteq stuckRuns[g]
<1> USE DEF TypeOK
<1>1. CASE UNCHANGED <<ghosts, stuckRuns>>
  BY <1>1
<1>2. ASSUME NEW h \in Ticks \X Repos, RepoPass(h)
      PROVE  /\ ListGhosts(g) \/ ghosts'[g] \subseteq ghosts[g]
             /\ \/ \E w \in Runs : ListJobs(g, w)
                \/ stuckRuns'[g] \subseteq stuckRuns[g]
  <2>1. CASE ListGhosts(h)
    <3>1. UNCHANGED stuckRuns /\ (h # g => ghosts'[g] = ghosts[g])
      BY <2>1 DEF ListGhosts
    <3>2. QED  BY <2>1, <3>1
  <2>2. CASE ListGhostsFailed(h) \/ ListRuns(h) \/ ListRunsFailed(h)
    BY <1>1, <2>2 DEF ListGhostsFailed, ListRuns, ListRunsFailed
  <2>3. ASSUME NEW w \in Runs, ListJobs(h, w)
        PROVE  /\ ghosts' = ghosts
               /\ h = g \/ stuckRuns'[g] = stuckRuns[g]
    BY <2>3 DEF ListJobs
  <2>4. ASSUME NEW w \in Runs, ListJobsFailed(h, w) PROVE UNCHANGED <<ghosts, stuckRuns>>
    BY <2>4 DEF ListJobsFailed
  <2>5. ASSUME NEW w \in Runs, ForceCancel(h, w) \/ ForceCancelFailed(h, w)
        PROVE  UNCHANGED ghosts /\ stuckRuns'[g] \subseteq stuckRuns[g]
    BY <2>5 DEF ForceCancel, ForceCancelFailed
  <2>6. ASSUME NEW n \in Runners,
               DeleteRunner(h, n) \/ DeleteRunnerUnheard(h, n) \/ DeleteRunnerFailed(h, n)
        PROVE  ghosts'[g] \subseteq ghosts[g] /\ UNCHANGED stuckRuns
    <3>1. ghosts' = [ghosts EXCEPT ![h] = @ \ {n}] /\ stuckRuns' = stuckRuns
      BY <2>6 DEF DeleteRunner, DeleteRunnerUnheard, DeleteRunnerFailed
    <3>2. QED  BY <3>1
  <2>7. QED  BY <1>1, <1>2, <2>1, <2>2, <2>3, <2>4, <2>5, <2>6 DEF RepoPass
<1>3. ASSUME NEW t \in Ticks, ReapPass(t) PROVE UNCHANGED <<ghosts, stuckRuns>>
  BY <1>3 DEF ReapPass, Ps, PsFailed, Inspect, InspectFailed, ListNames, ListNamesFailed,
              RmCorpse, Spare, CheckAge, RmOrphan, RmOrphanFailed, EndTick
<1>4. ASSUME NEW t \in Ticks, StartTick(t) PROVE UNCHANGED <<ghosts, stuckRuns>>
  BY <1>4 DEF StartTick
<1>5. ASSUME NEW n \in Runners, World(n) PROVE UNCHANGED <<ghosts, stuckRuns>>
  BY <1>5 DEF World
<1>6. QED  BY <1>1, <1>2, <1>3, <1>4, <1>5 DEF Next, vars

\* The step of GhostInv.
LEMMA GhostStep ==
  ASSUME OfflineLive = {}, TypeOK, RunnerInv, GhostInv, [Next]_vars
  PROVE  GhostInv'
<1> USE DEF GhostInv, TypeOK
<1>1. ASSUME NEW n \in Runners, reg'[n] = "offline" PROVE Dead(n)'
  <2>1. reg[n] = "offline" \/ Dead(n)
    <3>1. CASE UNCHANGED <<external, dereg>>
      BY <1>1, <3>1
    <3>2. CASE \E m \in Runners : Removal(m)
      BY <1>1, <3>2, RemovalShape
    <3>3. CASE \E m \in Runners : World(m)
      BY <1>1, <3>3 DEF World, Create, Start, Register, Connect, Disconnect, Unregister, TakeJob,
                        Finish, Exit, AutoRemove, GoOffline, HeartbeatTimeout, Age
    <3>4. QED  BY <3>1, <3>2, <3>3, StepShape
  <2>2. QED  BY <2>1, NothingReturns
<1>2. ASSUME NEW g \in Ticks \X Repos, NEW n \in ghosts'[g] PROVE Dead(n)'
  <2>1. CASE ListGhosts(g)
    <3>1. PICK page \in Pages(g[2]) : ghosts' = [ghosts EXCEPT ![g] = {m \in page : reg[m] # "online"}]
      BY <2>1 DEF ListGhosts
    <3>2. n \in page /\ reg[n] # "online"
      BY <1>2, <3>1
    <3>3. n \in Runners /\ reg[n] = "offline"
      BY <3>2, PageIsRegistered DEF Registered
    <3>4. QED  BY <3>3, NothingReturns
  <2>2. CASE ghosts'[g] \subseteq ghosts[g]
    BY <1>2, <2>2, NothingReturns
  <2>3. QED  BY <2>1, <2>2, GhostShape
<1>3. ASSUME NEW g \in Ticks \X Repos PROVE stuckRuns'[g] \subseteq lost'
  <2>1. ASSUME NEW w \in Runs, ListJobs(g, w) PROVE stuckRuns'[g] \subseteq lost'
    <3>1. stuckRuns'[g] \subseteq stuckRuns[g] \cup {v \in {w} : \E n \in ghosts[g] : work[n] = v}
      BY <2>1 DEF ListJobs
    <3>2. (\E n \in ghosts[g] : work[n] = w) => w \in lost
      BY CleanupAssumption DEF RunnerInv
    <3>3. QED  BY <3>1, <3>2, NothingReturns
  <2>2. QED  BY <2>1, GhostShape, NothingReturns
<1>4. QED  BY <1>1, <1>2, <1>3

\* If GitHub shows no live runner as offline, then however old the lists of
\* overlapping passes are, the cleanup force-cancels only runs that lost a job
\* to the death of its runner, and deletes only registrations of dead
\* containers (cleanupRepo; cleanup.go:1-3).
THEOREM OnlyGhosts ==
  ASSUME OfflineLive = {}
  PROVE  Spec => GhostsAreDead
<1>1. Init => GhostInv
  BY DEF Init, GhostInv
<1>2. IInv /\ GhostInv /\ [Next]_vars => GhostInv'
  BY GhostStep DEF IInv
<1>3. IInv /\ GhostInv /\ [Next]_vars =>
        /\ cancelled' \ cancelled \subseteq lost
        /\ \A n \in dereg' \ dereg : Dead(n)
  <2> SUFFICES ASSUME IInv, GhostInv, [Next]_vars
               PROVE  /\ cancelled' \ cancelled \subseteq lost
                      /\ \A n \in dereg' \ dereg : Dead(n)
    OBVIOUS
  <2> USE DEF IInv, GhostInv
  <2>1. ASSUME UNCHANGED <<cancelled, dereg>>
        PROVE  /\ cancelled' \ cancelled \subseteq lost
               /\ \A n \in dereg' \ dereg : Dead(n)
    BY <2>1
  <2>2. ASSUME NEW g \in Ticks \X Repos, RepoPass(g)
        PROVE  /\ cancelled' \ cancelled \subseteq lost
               /\ \A n \in dereg' \ dereg : Dead(n)
    <3>1. CASE \E w \in Runs : ForceCancel(g, w)
      BY <3>1 DEF ForceCancel
    <3>2. CASE \E n \in Runners : DeleteRunner(g, n) \/ DeleteRunnerUnheard(g, n)
      BY <3>2 DEF DeleteRunner, DeleteRunnerUnheard, Deleting
    <3>3. CASE \/ ListGhosts(g) \/ ListGhostsFailed(g) \/ ListRuns(g) \/ ListRunsFailed(g)
               \/ \E w \in Runs : ListJobs(g, w) \/ ListJobsFailed(g, w) \/ ForceCancelFailed(g, w)
               \/ \E n \in Runners : DeleteRunnerFailed(g, n)
      BY <2>1, <3>3 DEF ListGhosts, ListGhostsFailed, ListRuns, ListRunsFailed, ListJobs,
                        ListJobsFailed, ForceCancelFailed, DeleteRunnerFailed
    <3>4. QED  BY <2>2, <3>1, <3>2, <3>3 DEF RepoPass
  <2>3. ASSUME NEW t \in Ticks, ReapPass(t) PROVE UNCHANGED <<cancelled, dereg>>
    BY <2>3 DEF ReapPass, Ps, PsFailed, Inspect, InspectFailed, ListNames, ListNamesFailed,
                RmCorpse, Spare, CheckAge, RmOrphan, RmOrphanFailed, EndTick
  <2>4. CASE UNCHANGED vars \/ (\E t \in Ticks : StartTick(t)) \/ (\E n \in Runners : World(n))
    BY <2>1, <2>4 DEF vars, StartTick, World
  <2>5. QED  BY <2>1, <2>2, <2>3, <2>4 DEF Next
<1>4. QED  BY <1>1, <1>2, <1>3, Invariance, PTL DEF Spec, GhostsAreDead

-----------------------------------------------------------------------------
(* Containers at work.                                                     *)

\* Every runner list fits on one page.
OnePage == \A r \in Repos : Cardinality(Registered(r)) <= PageSize

\* No container is ever seen before its start.
LEMMA NeverCreated ==
  ASSUME SlowStart = {}, TypeOK, [Next]_vars, \A n \in Runners : cstate[n] # "created"
  PROVE  \A n \in Runners : cstate'[n] # "created"
<1> USE DEF TypeOK
<1>1. CASE UNCHANGED <<external, dereg>>
  BY <1>1
<1>2. CASE \E n \in Runners : Removal(n)
  BY <1>2, RemovalShape
<1>3. CASE \E n \in Runners : World(n)
  BY <1>3 DEF World, Create, Start, Register, Connect, Disconnect, Unregister, TakeJob, Finish,
              Exit, AutoRemove, GoOffline, HeartbeatTimeout, Age
<1>4. QED  BY <1>1, <1>2, <1>3, StepShape

\* What each step of a pass does to its own notes.
LEMMA ReapShape ==
  ASSUME TypeOK, [Next]_vars, NEW t \in Ticks
  PROVE  \/ /\ tpc[t] = "reap" => tpc'[t] = "reap"
            /\ tpc'[t] = "reap" => tpc[t] = "reap"
            /\ corpses'[t] \subseteq corpses[t] /\ locals'[t] \subseteq locals[t]
            /\ listed'[t] = listed[t] /\ names'[t] = names[t]
            /\ \A n \in early[t] : n \in locals'[t] \/ victim'[t] = n => n \in early'[t]
            /\ victim'[t] \in {victim[t], None}
         \/ Ps(t) \/ Inspect(t) \/ InspectFailed(t) \/ EndTick(t)
         \/ (\E r \in Repos : ListNames(t, r))
         \/ \E n \in Runners : CheckAge(t, n)
<1> DEFINE Keeps == /\ tpc[t] = "reap" => tpc'[t] = "reap"
                    /\ tpc'[t] = "reap" => tpc[t] = "reap"
                    /\ corpses'[t] \subseteq corpses[t] /\ locals'[t] \subseteq locals[t]
                    /\ listed'[t] = listed[t] /\ names'[t] = names[t]
                    /\ \A n \in early[t] : n \in locals'[t] \/ victim'[t] = n => n \in early'[t]
                    /\ victim'[t] \in {victim[t], None}
<1> USE DEF TypeOK
<1>1. ASSUME NEW s \in Ticks, ReapPass(s), s # t PROVE Keeps
  <2>1. CASE Ps(s) \/ PsFailed(s) \/ Inspect(s) \/ InspectFailed(s)
    BY <1>1, <2>1 DEF Ps, PsFailed, Inspect, InspectFailed
  <2>2. CASE \E r \in Repos : ListNames(s, r) \/ ListNamesFailed(s, r)
    BY <1>1, <2>2 DEF ListNames, ListNamesFailed
  <2>3. CASE \E n \in Runners : RmCorpse(s, n) \/ Spare(s, n) \/ CheckAge(s, n)
    BY <1>1, <2>3 DEF RmCorpse, Spare, CheckAge
  <2>4. CASE RmOrphan(s) \/ RmOrphanFailed(s) \/ EndTick(s)
    BY <1>1, <2>4 DEF RmOrphan, RmOrphanFailed, EndTick
  <2>5. QED  BY <1>1, <2>1, <2>2, <2>3, <2>4 DEF ReapPass
<1>2. CASE PsFailed(t) \/ RmOrphan(t) \/ RmOrphanFailed(t)
  <2>1. CASE PsFailed(t)
    BY <2>1 DEF PsFailed, ReposDone
  <2>2. CASE RmOrphan(t) \/ RmOrphanFailed(t)
    <3>1. /\ victim'[t] = None /\ early'[t] = early[t] \cap locals[t]
          /\ UNCHANGED <<tpc, corpses, locals, listed, names>>
      BY <2>2 DEF RmOrphan, RmOrphanFailed
    <3>2. QED  BY <3>1, CleanupAssumption
  <2>3. QED  BY <1>2, <2>1, <2>2
<1>3. ASSUME NEW m \in Runners, RmCorpse(t, m) \/ Spare(t, m) PROVE Keeps
  <2>1. /\ locals'[t] = locals[t] \ {m} /\ corpses'[t] = corpses[t] \ {m}
        /\ early'[t] = early[t] \ {m}
        /\ UNCHANGED <<tpc, listed, names, victim>>
    BY <1>3 DEF RmCorpse, Spare
  <2>2. victim[t] = None
    BY <1>3 DEF RmCorpse, Spare, Reaping
  <2>3. QED  BY <2>1, <2>2, CleanupAssumption
<1>4. CASE \E r \in Repos : ListNamesFailed(t, r)
  BY <1>4 DEF ListNamesFailed
<1>5. CASE \E g \in Ticks \X Repos : RepoPass(g)
  BY <1>5 DEF RepoPass, ListGhosts, ListGhostsFailed, ListRuns, ListRunsFailed, ListJobs,
              ListJobsFailed, ForceCancel, ForceCancelFailed, DeleteRunner, DeleteRunnerUnheard,
              DeleteRunnerFailed
<1>6. ASSUME NEW s \in Ticks, StartTick(s) PROVE Keeps
  BY <1>6 DEF StartTick
<1>7. CASE UNCHANGED vars \/ \E n \in Runners : World(n)
  BY <1>7 DEF vars, World
<1>8. QED  BY <1>1, <1>2, <1>3, <1>4, <1>5, <1>6, <1>7 DEF Next, ReapPass

\* The step of ReapInv.
LEMMA ReapStep ==
  ASSUME SlowStart = {}, OnePage, TypeOK, RunnerInv, ReapInv, [Next]_vars
  PROVE  ReapInv'
<1> USE DEF TypeOK
<1>1. \A n \in Runners : cstate'[n] # "created"
  BY NeverCreated DEF ReapInv
<1>2. \A n \in Runners : OutOfWork(n) => OutOfWork(n)'
  BY NothingReturns DEF OutOfWork
<1>3. ASSUME NEW t \in Ticks
      PROVE  /\ tpc'[t] # "reap" => listed'[t] = {}
             /\ \A n \in corpses'[t] : Dead(n)'
             /\ \A n \in locals'[t] : Unregistered(t, n)' => n \in early'[t] \/ OutOfWork(n)'
             /\ \A n \in Runners : victim'[t] = n => (n \in early'[t] /\ n \in old') \/ OutOfWork(n)'
  <2> DEFINE Notes ==
        /\ tpc'[t] # "reap" => listed'[t] = {}
        /\ \A n \in corpses'[t] : Dead(n)'
        /\ \A n \in locals'[t] : Unregistered(t, n)' => n \in early'[t] \/ OutOfWork(n)'
        /\ \A n \in Runners : victim'[t] = n => (n \in early'[t] /\ n \in old') \/ OutOfWork(n)'
  <2>1. /\ tpc[t] # "reap" => listed[t] = {}
        /\ \A n \in corpses[t] : n \in Runners /\ Dead(n)
        /\ \A n \in locals[t] : Unregistered(t, n) => n \in early[t] \/ OutOfWork(n)
        /\ \A n \in Runners : victim[t] = n => (n \in early[t] /\ n \in old) \/ OutOfWork(n)
    BY DEF ReapInv
  <2>2. \A n \in corpses[t] : Dead(n)'
    BY <2>1, NothingReturns
  <2>3. \A n \in Runners : victim[t] = n => (n \in early[t] /\ n \in old') \/ OutOfWork(n)'
    BY <1>2, <2>1, NothingReturns DEF OutOfWork
  <2>4. \A n \in locals[t] : Unregistered(t, n) => n \in early[t] \/ OutOfWork(n)'
    <3>1. locals[t] \subseteq Runners
      OBVIOUS
    <3>2. QED  BY <1>2, <2>1, <3>1
  <2>5. ASSUME /\ tpc[t] = "reap" => tpc'[t] = "reap"
               /\ tpc'[t] = "reap" => tpc[t] = "reap"
               /\ corpses'[t] \subseteq corpses[t] /\ locals'[t] \subseteq locals[t]
               /\ listed'[t] = listed[t] /\ names'[t] = names[t]
               /\ \A n \in early[t] : n \in locals'[t] \/ victim'[t] = n => n \in early'[t]
               /\ victim'[t] \in {victim[t], None}
        PROVE  Notes
    <3>1. \A n : Unregistered(t, n)' <=> Unregistered(t, n)
      BY <2>5 DEF Unregistered
    <3>2. \A n \in Runners : victim'[t] = n => victim[t] = n
      BY <2>5, CleanupAssumption
    <3>3. QED  BY <2>1, <2>2, <2>3, <2>4, <2>5, <3>1, <3>2
  <2>6. CASE Ps(t)
    <3>1. /\ listed'[t] = {} /\ corpses'[t] = corpses[t]
          /\ victim'[t] = victim[t] /\ early'[t] = early[t]
      BY <2>1, <2>6 DEF Ps, ReposDone
    <3>2. QED  BY <2>2, <2>3, <3>1 DEF Unregistered
  <2>7. CASE Inspect(t) \/ InspectFailed(t)
    <3>1. /\ listed'[t] = {} /\ victim'[t] = victim[t] /\ early'[t] = early[t]
          /\ UNCHANGED cstate
      BY <2>1, <2>7 DEF Inspect, InspectFailed
    <3>2. tpc'[t] = "reap"
      BY <2>7 DEF Inspect, InspectFailed
    <3>3. corpses'[t] \subseteq {n \in Runners : Dead(n)}
      BY <2>1, <2>7 DEF Inspect, InspectFailed, ReapInv, Exists, Dead
    <3>4. QED  BY <2>3, <3>1, <3>2, <3>3, NothingReturns DEF Unregistered
  <2>8. CASE EndTick(t)
    <3>1. listed'[t] = {} /\ corpses'[t] = corpses[t] /\ victim'[t] = None
      BY <2>8 DEF EndTick
    <3>2. QED  BY <2>2, <3>1, CleanupAssumption DEF Unregistered
  <2>9. ASSUME NEW r \in Repos, ListNames(t, r) PROVE Notes
    <3>1. PICK page \in Pages(r) : names' = [names EXCEPT ![t] = @ \cup page]
      BY <2>9 DEF ListNames
    <3>2. page = Registered(r)
      BY <3>1 DEF OnePage, Pages
    <3>3. /\ tpc'[t] = "reap" /\ corpses' = corpses /\ locals' = locals /\ victim' = victim
          /\ listed'[t] = listed[t] \cup {r}
          /\ names'[t] = names[t] \cup page
      BY <2>9, <3>1 DEF ListNames
    <3>4. early'[t] = early[t] \cup {n \in locals[t] : RepoOf[n] = r /\ reg[n] = "new"}
      BY <2>9 DEF ListNames
    <3>5. ASSUME NEW n \in locals[t], Unregistered(t, n)' PROVE n \in early'[t] \/ OutOfWork(n)'
      <4>1. CASE Unregistered(t, n)
        BY <2>4, <3>4, <4>1
      <4>2. CASE ~Unregistered(t, n)
        <5>1. n \in Runners /\ RepoOf[n] = r /\ n \notin Registered(r)
          BY <3>2, <3>3, <3>5, <4>2 DEF Unregistered
        <5>2. reg[n] \in {"new", "removed"}
          BY <5>1 DEF Registered
        <5>3. n \in early'[t] \/ OutOfWork(n)
          BY <3>4, <5>1, <5>2 DEF OutOfWork
        <5>4. QED  BY <1>2, <5>1, <5>3
      <4>3. QED  BY <4>1, <4>2
    <3>6. QED  BY <2>2, <2>3, <3>3, <3>4, <3>5
  <2>10. ASSUME NEW m \in Runners, CheckAge(t, m) PROVE Notes
    <3>1. /\ tpc'[t] = "reap" /\ corpses' = corpses /\ locals'[t] \subseteq locals[t]
          /\ listed' = listed /\ names' = names /\ early' = early /\ victim'[t] = m
      BY <2>10 DEF CheckAge, Reaping
    <3>2. (m \in early[t] /\ m \in old) \/ OutOfWork(m)
      BY <2>1, <2>10 DEF CheckAge, Reaping
    <3>3. \A n : Unregistered(t, n)' <=> Unregistered(t, n)
      BY <3>1 DEF Unregistered
    <3>4. (m \in early'[t] /\ m \in old') \/ OutOfWork(m)'
      BY <1>2, <3>1, <3>2, NothingReturns DEF OutOfWork
    <3>5. QED  BY <2>2, <2>4, <3>1, <3>3, <3>4
  <2>11. QED  BY <2>5, <2>6, <2>7, <2>8, <2>9, <2>10, ReapShape
<1>4. QED  BY <1>1, <1>3 DEF ReapInv

\* If containers run as soon as they are seen and the runners of a repo fit on a
\* page, then however long the passes last and however many overlap, a container
\* whose runner is at work is removed only by a pass that listed its repo before
\* it had registered and looked at its age after the grace: one that was known
\* to GitHub at the listing is safe (reapLocalGhosts, cleanup.go:371-441).
THEOREM WorkIsSafe ==
  ASSUME SlowStart = {}
  PROVE  Spec /\ []OnePage => SettledWorkSurvives
<1>1. Init => ReapInv
  BY CleanupAssumption DEF Init, ReapInv, Unregistered
<1>2. IInv /\ ReapInv /\ OnePage /\ [Next]_vars => ReapInv'
  BY ReapStep DEF IInv
<1>3. IInv /\ ReapInv /\ [Next]_vars =>
        \A n \in Runners : WorkRemoved(n) =>
          \E t \in Ticks : /\ victim[t] = n /\ victim'[t] = None
                           /\ n \in early[t] /\ n \in old
  <2> SUFFICES ASSUME IInv, ReapInv, [Next]_vars, NEW n \in Runners, WorkRemoved(n)
               PROVE  \E t \in Ticks : /\ victim[t] = n /\ victim'[t] = None
                                       /\ n \in early[t] /\ n \in old
    OBVIOUS
  <2> USE DEF IInv, TypeOK
  <2>0. cstate[n] = "running" /\ cstate'[n] = "gone" /\ work[n] # None
    BY DEF WorkRemoved
  <2>1. PICK m \in Runners : Removal(m) \/ World(m)
    BY <2>0, StepShape
  <2>2. CASE World(m)
    BY <2>0, <2>2 DEF World, Create, Start, Register, Connect, Disconnect, Unregister, TakeJob,
                      Finish, Exit, AutoRemove, GoOffline, HeartbeatTimeout, Age
  <2>3. CASE Removal(m)
    <3>1. m = n
      BY <2>0, <2>3, RemovalShape
    <3>2. ~ \E t \in Ticks : RmCorpse(t, n)
      BY <2>0 DEF RmCorpse, ReapInv, Dead
    <3>3. ~ \E g \in Ticks \X Repos : DeleteRunner(g, n) \/ DeleteRunnerUnheard(g, n)
      BY <2>0 DEF DeleteRunner, DeleteRunnerUnheard
    <3>4. PICK t \in Ticks : victim[t] = n /\ RmOrphan(t)
      BY <2>3, <3>1, <3>2, <3>3 DEF Removal
    <3>5. victim'[t] = None
      BY <3>4 DEF RmOrphan
    <3>6. ~OutOfWork(n)
      BY <2>0 DEF OutOfWork, Dead, RunnerInv
    <3>7. QED  BY <3>4, <3>5, <3>6 DEF ReapInv
  <2>4. QED  BY <2>1, <2>2, <2>3
<1>4. QED  BY <1>1, <1>2, <1>3, Invariance, PTL DEF Spec, SettledWorkSurvives
=============================================================================
