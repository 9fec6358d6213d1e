------------------------------ MODULE Cleanup ------------------------------
(***************************************************************************)
(* internal/cleanup: passes of the ghost-runner cleanup against the moving *)
(* state of GitHub and Docker.  A pass ("tick") runs in the periodic loop  *)
(* and, at the same time, behind POST /api/cleanup.  Its first phase has a *)
(* goroutine per repo, which cancels the workflow runs of ghost runners    *)
(* and deletes their registrations; its second phase removes containers    *)
(* that are dead, or that run but have no registration.                    *)
(*                                                                         *)
(* Every GitHub request and docker command is a step of its own and may    *)
(* fail; a cancelled context is a pass all of whose remaining calls fail.  *)
(* A runner and its container have the same name and are one identifier.   *)
(* The registration handshake is short compared with localGrace.           *)
(***************************************************************************)
EXTENDS Integers, FiniteSets

CONSTANTS
  Ticks,        \* passes that may overlap
  Repos,        \* config.Repos
  Runners,      \* names of auto-* runners, each used once (bound)
  RepoOf,       \* the repo label of each container, None if no longer configured
  Runs,         \* workflow runs
  RunRepo,      \* the repo of each workflow run
  None,
  PageSize,     \* per_page of the runner list; only the first page is read
  Listable,     \* repos whose runner list GitHub gives us
  OfflineLive,  \* runners GitHub may show as offline although they are alive
  SlowStart,    \* runners whose container stays "created" for a while
  MaxRunners    \* bound on the containers that are ever created

ASSUME CleanupAssumption ==
  /\ IsFiniteSet(Runners)
  /\ RepoOf \in [Runners -> Repos \cup {None}]
  /\ RunRepo \in [Runs -> Repos]
  /\ None \notin Repos \cup Runners \cup Runs
  /\ PageSize \in Nat \ {0}
  /\ Listable \subseteq Repos
  /\ OfflineLive \cup SlowStart \subseteq Runners
  /\ MaxRunners \in Nat

VARIABLES
  cstate,    \* the daemon's state of each container
  old,       \* containers that are older than localGrace
  reg,       \* the registration of each runner at GitHub
  work,      \* the workflow run a runner has a job of
  lost,      \* workflow runs that lost a job to the death of its runner (history)
  cancelled, \* workflow runs the cleanup has force-cancelled
  total,     \* Cleaner.totalGhostsDeleted
  dereg,     \* runners whose registration the cleanup has deleted (history)
  gpc,       \* where the goroutine of each pass and repo is
  ghosts,    \* its ghost runners still to be handled
  askJobs,   \* its in_progress runs whose jobs are still to be listed
  stuckRuns, \* its workflow runs still to be cancelled
  tpc,       \* where each pass is
  locals,    \* its containers still to be looked at
  corpses,   \* those of them that docker inspect showed as not running
  askNames,  \* the repos whose runner names are still to be listed
  listed,    \* the repos whose runner names it has
  names,     \* the registered names it knows
  early,     \* those of locals and victim that had still to register at the listing (history)
  victim     \* the running container it is about to remove

external == <<cstate, old, reg, work, lost>>
repoPass == <<gpc, ghosts, askJobs, stuckRuns>>
reapPass == <<locals, corpses, askNames, listed, names, early, victim>>
vars     == <<external, cancelled, total, dereg, repoPass, tpc, reapPass>>

TypeOK ==
  /\ cstate \in [Runners -> {"none", "created", "running", "exited", "gone"}]
  /\ old \subseteq Runners
  /\ reg \in [Runners -> {"new", "offline", "online", "removed"}]
  /\ work \in [Runners -> Runs \cup {None}]
  /\ lost \subseteq Runs
  /\ cancelled \subseteq Runs
  /\ total \in 0..Cardinality(Runners)
  /\ dereg \subseteq Runners
  /\ gpc \in [Ticks \X Repos -> {"list", "runs", "clean"}]
  /\ ghosts \in [Ticks \X Repos -> SUBSET Runners]
  /\ askJobs \in [Ticks \X Repos -> SUBSET Runs]
  /\ stuckRuns \in [Ticks \X Repos -> SUBSET Runs]
  /\ tpc \in [Ticks -> {"idle", "repos", "inspect", "reap"}]
  /\ locals \in [Ticks -> SUBSET Runners]
  /\ corpses \in [Ticks -> SUBSET Runners]
  /\ askNames \in [Ticks -> SUBSET Repos]
  /\ listed \in [Ticks -> SUBSET Repos]
  /\ names \in [Ticks -> SUBSET Runners]
  /\ early \in [Ticks -> SUBSET Runners]
  /\ victim \in [Ticks -> Runners \cup {None}]

Init ==
  /\ cstate = [n \in Runners |-> "none"]
  /\ old = {}
  /\ reg = [n \in Runners |-> "new"]
  /\ work = [n \in Runners |-> None]
  /\ lost = {} /\ cancelled = {} /\ total = 0 /\ dereg = {}
  /\ gpc = [g \in Ticks \X Repos |-> "clean"]
  /\ ghosts = [g \in Ticks \X Repos |-> {}]
  /\ askJobs = [g \in Ticks \X Repos |-> {}]
  /\ stuckRuns = [g \in Ticks \X Repos |-> {}]
  /\ tpc = [t \in Ticks |-> "idle"]
  /\ locals = [t \in Ticks |-> {}]
  /\ corpses = [t \in Ticks |-> {}]
  /\ askNames = [t \in Ticks |-> {}]
  /\ listed = [t \in Ticks |-> {}]
  /\ names = [t \in Ticks |-> {}]
  /\ early = [t \in Ticks |-> {}]
  /\ victim = [t \in Ticks |-> None]

Registered(r) == {n \in Runners : RepoOf[n] = r /\ reg[n] \in {"offline", "online"}}
Exists(n)     == cstate[n] \in {"created", "running", "exited"}
Dead(n)       == cstate[n] \in {"exited", "gone"}

\* A container is removed, and its age with it.
Remove(n) ==
  /\ cstate' = [cstate EXCEPT ![n] = "gone"]
  /\ old' = old \ {n}

\* The first page of GitHub's runner list, in an order we do not know.
Pages(r) == IF Cardinality(Registered(r)) <= PageSize
              THEN {Registered(r)}
              ELSE {page \in SUBSET Registered(r) : Cardinality(page) = PageSize}

-----------------------------------------------------------------------------
(* A pass starts: one goroutine per repo.                                  *)

StartTick(t) ==
  /\ tpc[t] = "idle"
  /\ tpc' = [tpc EXCEPT ![t] = "repos"]
  /\ gpc' = [g \in DOMAIN gpc |-> IF g[1] = t THEN "list" ELSE gpc[g]]
  /\ UNCHANGED <<external, cancelled, total, dereg, ghosts, askJobs, stuckRuns, reapPass>>

-----------------------------------------------------------------------------
(* cleanupRepo, in the goroutine g = <<pass, repo>>.                       *)

Goto(g, label) == gpc' = [gpc EXCEPT ![g] = label]

\* The goroutine has returned: no ghost is left to be handled.
Finished(g) == gpc[g] = "clean" /\ ghosts[g] = {}

\* (mutant) The status of the runner is not looked at.
ListGhostsOnlineToo(g) ==
  /\ gpc[g] = "list"
  /\ g[2] \in Listable
  /\ \E page \in Pages(g[2]) :
       /\ ghosts' = [ghosts EXCEPT ![g] = page]
       /\ Goto(g, IF page = {} THEN "clean" ELSE "runs")
  /\ UNCHANGED <<external, cancelled, total, dereg, askJobs, stuckRuns, tpc, reapPass>>

\* listGhostRunners: a registered runner that is not online is a ghost.
ListGhosts(g) ==
  /\ gpc[g] = "list"
  /\ g[2] \in Listable
  /\ \E page \in Pages(g[2]) :
       LET found == {n \in page : reg[n] # "online"} IN
       /\ ghosts' = [ghosts EXCEPT ![g] = found]
       /\ Goto(g, IF found = {} THEN "clean" ELSE "runs")
  /\ UNCHANGED <<external, cancelled, total, dereg, askJobs, stuckRuns, tpc, reapPass>>

ListGhostsFailed(g) ==
  /\ gpc[g] = "list"
  /\ Goto(g, "clean")
  /\ UNCHANGED <<external, cancelled, total, dereg, ghosts, askJobs, stuckRuns, tpc, reapPass>>

\* runIDsForGhosts, first request: the in_progress runs.
ListRuns(g) ==
  /\ gpc[g] = "runs"
  /\ askJobs' = [askJobs EXCEPT ![g] =
                   {w \in Runs : RunRepo[w] = g[2] /\ \E n \in Runners : work[n] = w}]
  /\ Goto(g, "clean")
  /\ UNCHANGED <<external, cancelled, total, dereg, ghosts, stuckRuns, tpc, reapPass>>

\* (mutant) The error is returned, and the ghosts are not deleted.
ListRunsFailedReturns(g) ==
  /\ gpc[g] = "runs"
  /\ Goto(g, "clean")
  /\ ghosts' = [ghosts EXCEPT ![g] = {}]
  /\ UNCHANGED <<external, cancelled, total, dereg, askJobs, stuckRuns, tpc, reapPass>>

\* It fails: nothing is cancelled, the ghosts are deleted all the same.
ListRunsFailed(g) ==
  /\ gpc[g] = "runs"
  /\ Goto(g, "clean")
  /\ UNCHANGED <<external, cancelled, total, dereg, ghosts, askJobs, stuckRuns, tpc, reapPass>>

\* One request per run: does a ghost have a job of it in progress?
ListJobs(g, w) ==
  /\ gpc[g] = "clean" /\ w \in askJobs[g]
  /\ askJobs' = [askJobs EXCEPT ![g] = @ \ {w}]
  /\ stuckRuns' = IF \E n \in ghosts[g] : work[n] = w
                    THEN [stuckRuns EXCEPT ![g] = @ \cup {w}]
                    ELSE stuckRuns
  /\ UNCHANGED <<external, cancelled, total, dereg, gpc, ghosts, tpc, reapPass>>

ListJobsFailed(g, w) ==
  /\ gpc[g] = "clean" /\ w \in askJobs[g]
  /\ askJobs' = [askJobs EXCEPT ![g] = @ \ {w}]
  /\ UNCHANGED <<external, cancelled, total, dereg, gpc, ghosts, stuckRuns, tpc, reapPass>>

\* forceCancelRun: GitHub cancels a run that is still in progress.
ForceCancel(g, w) ==
  /\ gpc[g] = "clean" /\ askJobs[g] = {} /\ w \in stuckRuns[g]
  /\ stuckRuns' = [stuckRuns EXCEPT ![g] = @ \ {w}]
  /\ cancelled' = IF \E n \in Runners : work[n] = w THEN cancelled \cup {w} ELSE cancelled
  /\ UNCHANGED <<external, total, dereg, gpc, ghosts, askJobs, tpc, reapPass>>

ForceCancelFailed(g, w) ==
  /\ gpc[g] = "clean" /\ askJobs[g] = {} /\ w \in stuckRuns[g]
  /\ stuckRuns' = [stuckRuns EXCEPT ![g] = @ \ {w}]
  /\ UNCHANGED <<external, cancelled, total, dereg, gpc, ghosts, askJobs, tpc, reapPass>>

Deleting(g, n) == gpc[g] = "clean" /\ askJobs[g] = {} /\ stuckRuns[g] = {} /\ n \in ghosts[g]

\* deleteRunner: 204, unless the runner has a job (422) or is gone (404).
DeleteRunner(g, n) ==
  /\ Deleting(g, n)
  /\ reg[n] \in {"offline", "online"} /\ work[n] = None
  /\ reg' = [reg EXCEPT ![n] = "removed"]
  /\ dereg' = dereg \cup {n}
  /\ total' = total + 1
  /\ ghosts' = [ghosts EXCEPT ![g] = @ \ {n}]
  /\ UNCHANGED <<cstate, old, work, lost, cancelled, gpc, askJobs, stuckRuns, tpc, reapPass>>

\* The answer is lost after GitHub has deleted the runner.
DeleteRunnerUnheard(g, n) ==
  /\ Deleting(g, n)
  /\ reg[n] \in {"offline", "online"} /\ work[n] = None
  /\ reg' = [reg EXCEPT ![n] = "removed"]
  /\ dereg' = dereg \cup {n}
  /\ ghosts' = [ghosts EXCEPT ![g] = @ \ {n}]
  /\ UNCHANGED <<cstate, old, work, lost, cancelled, total, gpc, askJobs, stuckRuns, tpc, reapPass>>

\* (mutant) Any answer counts as a deletion.
DeleteRunnerFailedCounted(g, n) ==
  /\ Deleting(g, n)
  /\ total' = total + 1
  /\ ghosts' = [ghosts EXCEPT ![g] = @ \ {n}]
  /\ UNCHANGED <<external, cancelled, dereg, gpc, askJobs, stuckRuns, tpc, reapPass>>

\* 422, 404, an error: stillStuck.
DeleteRunnerFailed(g, n) ==
  /\ Deleting(g, n)
  /\ ghosts' = [ghosts EXCEPT ![g] = @ \ {n}]
  /\ UNCHANGED <<external, cancelled, total, dereg, gpc, askJobs, stuckRuns, tpc, reapPass>>

RepoPass(g) ==
  \/ ListGhosts(g) \/ ListGhostsFailed(g) \/ ListRuns(g) \/ ListRunsFailed(g)
  \/ \E w \in Runs : \/ ListJobs(g, w) \/ ListJobsFailed(g, w)
                     \/ ForceCancel(g, w) \/ ForceCancelFailed(g, w)
  \/ \E n \in Runners : DeleteRunner(g, n) \/ DeleteRunnerUnheard(g, n) \/ DeleteRunnerFailed(g, n)

-----------------------------------------------------------------------------
(* reapLocalGhosts, after the goroutines of the pass t.                    *)

\* wg.Wait() of tickWithSummary has returned.
ReposDone(t) == tpc[t] = "repos" /\ \A r \in Repos : Finished(<<t, r>>)

\* listManagedContainers, docker ps -a.
Ps(t) ==
  /\ ReposDone(t)
  /\ LET found == {n \in Runners : Exists(n)} IN
       /\ locals' = [locals EXCEPT ![t] = found]
       /\ tpc' = [tpc EXCEPT ![t] = IF found = {} THEN "idle" ELSE "inspect"]
  /\ UNCHANGED <<external, cancelled, total, dereg, repoPass, corpses, askNames, listed,
                 names, early, victim>>

PsFailed(t) ==
  /\ ReposDone(t)
  /\ tpc' = [tpc EXCEPT ![t] = "idle"]
  /\ UNCHANGED <<external, cancelled, total, dereg, repoPass, reapPass>>

\* docker inspect of the listed containers: the non-running ones are corpses.
Inspect(t) ==
  /\ tpc[t] = "inspect"
  /\ \A n \in locals[t] : Exists(n)
  /\ corpses' = [corpses EXCEPT ![t] = {n \in locals[t] : cstate[n] # "running"}]
  /\ askNames' = [askNames EXCEPT ![t] = Repos]
  /\ tpc' = [tpc EXCEPT ![t] = "reap"]
  /\ UNCHANGED <<external, cancelled, total, dereg, repoPass, locals, listed, names,
                 early, victim>>

\* It fails as a whole: no state is known, and no container counts as a corpse.
InspectFailed(t) ==
  /\ tpc[t] = "inspect"
  /\ askNames' = [askNames EXCEPT ![t] = Repos]
  /\ tpc' = [tpc EXCEPT ![t] = "reap"]
  /\ UNCHANGED <<external, cancelled, total, dereg, repoPass, locals, corpses, listed,
                 names, early, victim>>

\* listAllRunnerNames, one repo after the other.
ListNames(t, r) ==
  /\ tpc[t] = "reap" /\ r \in askNames[t]
  /\ r \in Listable
  /\ \E page \in Pages(r) : names' = [names EXCEPT ![t] = @ \cup page]
  /\ early' = [early EXCEPT ![t] = @ \cup {n \in locals[t] : RepoOf[n] = r /\ reg[n] = "new"}]
  /\ listed' = [listed EXCEPT ![t] = @ \cup {r}]
  /\ askNames' = [askNames EXCEPT ![t] = @ \ {r}]
  /\ UNCHANGED <<external, cancelled, total, dereg, repoPass, tpc, locals, corpses, victim>>

\* (mutant) The request fails: the pass is given up.
ListNamesFailedReturns(t, r) ==
  /\ tpc[t] = "reap" /\ r \in askNames[t]
  /\ tpc' = [tpc EXCEPT ![t] = "idle"]
  /\ askNames' = [askNames EXCEPT ![t] = {}]
  /\ listed' = [listed EXCEPT ![t] = {}]
  /\ names' = [names EXCEPT ![t] = {}]
  /\ early' = [early EXCEPT ![t] = {}]
  /\ UNCHANGED <<external, cancelled, total, dereg, repoPass, locals, corpses, victim>>

\* The request fails: the repo is left out of the snapshot.
ListNamesFailed(t, r) ==
  /\ tpc[t] = "reap" /\ r \in askNames[t]
  /\ askNames' = [askNames EXCEPT ![t] = @ \ {r}]
  /\ UNCHANGED <<external, cancelled, total, dereg, repoPass, tpc, locals, corpses, listed,
                 names, early, victim>>

\* (mutant) A repo that was not listed counts as one without runners.
UnregisteredOrUnknown(t, n) == n \notin names[t]

Unregistered(t, n) == RepoOf[n] \in listed[t] /\ n \notin names[t]

Reaping(t, n) == tpc[t] = "reap" /\ askNames[t] = {} /\ victim[t] = None /\ n \in locals[t]

\* (mutant) Below the check of the repo's list: unlisted repos keep their corpses.
RmCorpseListed(t, n) ==
  /\ Reaping(t, n)
  /\ n \in corpses[t] /\ RepoOf[n] \in listed[t]
  /\ Remove(n)
  /\ lost' = IF work[n] = None THEN lost ELSE lost \cup {work[n]}
  /\ locals' = [locals EXCEPT ![t] = @ \ {n}]
  /\ corpses' = [corpses EXCEPT ![t] = @ \ {n}]
  /\ early' = [early EXCEPT ![t] = @ \ {n}]
  /\ UNCHANGED <<reg, work, cancelled, total, dereg, repoPass, tpc, askNames, listed,
                 names, victim>>

\* The corpse path: docker rm -f, no questions asked.
RmCorpse(t, n) ==
  /\ Reaping(t, n)
  /\ n \in corpses[t]
  /\ Remove(n)
  /\ lost' = IF work[n] = None THEN lost ELSE lost \cup {work[n]}
  /\ locals' = [locals EXCEPT ![t] = @ \ {n}]
  /\ corpses' = [corpses EXCEPT ![t] = @ \ {n}]
  /\ early' = [early EXCEPT ![t] = @ \ {n}]
  /\ UNCHANGED <<reg, work, cancelled, total, dereg, repoPass, tpc, askNames, listed,
                 names, victim>>

\* A registered container, or one we cannot reason about, is left alone; so
\* is one whose age is unknown or below the grace, or whose removal fails.
Spare(t, n) ==
  /\ Reaping(t, n)
  /\ locals' = [locals EXCEPT ![t] = @ \ {n}]
  /\ corpses' = [corpses EXCEPT ![t] = @ \ {n}]
  /\ early' = [early EXCEPT ![t] = @ \ {n}]
  /\ UNCHANGED <<external, cancelled, total, dereg, repoPass, tpc, askNames, listed,
                 names, victim>>

\* The running path: no registration in the snapshot, and old enough by now.
CheckAge(t, n) ==
  /\ Reaping(t, n)
  /\ n \notin corpses[t]
  /\ Unregistered(t, n)
  /\ Exists(n) /\ n \in old
  /\ victim' = [victim EXCEPT ![t] = n]
  /\ locals' = [locals EXCEPT ![t] = @ \ {n}]
  /\ UNCHANGED <<external, cancelled, total, dereg, repoPass, tpc, corpses, askNames,
                 listed, names, early>>

RmOrphan(t) ==
  /\ victim[t] # None
  /\ Remove(victim[t])
  /\ lost' = IF work[victim[t]] = None THEN lost ELSE lost \cup {work[victim[t]]}
  /\ victim' = [victim EXCEPT ![t] = None]
  /\ early' = [early EXCEPT ![t] = @ \cap locals[t]]
  /\ UNCHANGED <<reg, work, cancelled, total, dereg, repoPass, tpc, locals, corpses,
                 askNames, listed, names>>

RmOrphanFailed(t) ==
  /\ victim[t] # None
  /\ victim' = [victim EXCEPT ![t] = None]
  /\ early' = [early EXCEPT ![t] = @ \cap locals[t]]
  /\ UNCHANGED <<external, cancelled, total, dereg, repoPass, tpc, locals, corpses,
                 askNames, listed, names>>

EndTick(t) ==
  /\ tpc[t] = "reap" /\ askNames[t] = {} /\ victim[t] = None /\ locals[t] = {}
  /\ tpc' = [tpc EXCEPT ![t] = "idle"]
  /\ listed' = [listed EXCEPT ![t] = {}]
  /\ names' = [names EXCEPT ![t] = {}]
  /\ UNCHANGED <<external, cancelled, total, dereg, repoPass, locals, corpses, askNames, early,
                 victim>>

ReapPass(t) ==
  \/ Ps(t) \/ PsFailed(t) \/ Inspect(t) \/ InspectFailed(t)
  \/ \E r \in Repos : ListNames(t, r) \/ ListNamesFailed(t, r)
  \/ \E n \in Runners : RmCorpse(t, n) \/ Spare(t, n) \/ CheckAge(t, n)
  \/ RmOrphan(t) \/ RmOrphanFailed(t) \/ EndTick(t)

-----------------------------------------------------------------------------
(* Containers, runners and GitHub.                                         *)

Create(n) ==
  /\ cstate[n] = "none" /\ Cardinality({m \in Runners : cstate[m] # "none"}) < MaxRunners
  /\ cstate' = [cstate EXCEPT ![n] = IF n \in SlowStart THEN "created" ELSE "running"]
  /\ UNCHANGED <<old, reg, work, lost>>

Start(n) ==
  /\ cstate[n] = "created"
  /\ cstate' = [cstate EXCEPT ![n] = "running"]
  /\ UNCHANGED <<old, reg, work, lost>>

\* The handshake: the runner registers, and is shown online once it listens.
Register(n) ==
  /\ cstate[n] = "running" /\ reg[n] = "new"
  /\ reg' = [reg EXCEPT ![n] = IF n \in OfflineLive THEN "offline" ELSE "online"]
  /\ UNCHANGED <<cstate, old, work, lost>>

Connect(n) ==
  /\ cstate[n] = "running" /\ reg[n] = "offline"
  /\ reg' = [reg EXCEPT ![n] = "online"]
  /\ UNCHANGED <<cstate, old, work, lost>>

Disconnect(n) ==
  /\ cstate[n] = "running" /\ reg[n] = "online" /\ n \in OfflineLive
  /\ reg' = [reg EXCEPT ![n] = "offline"]
  /\ UNCHANGED <<cstate, old, work, lost>>

\* The runner fails to register, or loses its registration while idle.
Unregister(n) ==
  /\ cstate[n] = "running" /\ work[n] = None /\ reg[n] # "removed"
  /\ reg' = [reg EXCEPT ![n] = "removed"]
  /\ UNCHANGED <<cstate, old, work, lost>>

TakeJob(n, w) ==
  /\ cstate[n] = "running" /\ reg[n] = "online" /\ work[n] = None
  /\ RunRepo[w] = RepoOf[n]
  /\ work' = [work EXCEPT ![n] = w]
  /\ UNCHANGED <<cstate, old, reg, lost>>

\* An ephemeral runner has one job and then removes its registration.
Finish(n) ==
  /\ cstate[n] = "running" /\ work[n] # None
  /\ work' = [work EXCEPT ![n] = None]
  /\ reg' = [reg EXCEPT ![n] = "removed"]
  /\ UNCHANGED <<cstate, old, lost>>

\* The container stops: the runner is done, was stopped, or was killed at work.
Exit(n) ==
  /\ cstate[n] = "running"
  /\ cstate' = [cstate EXCEPT ![n] = "exited"]
  /\ lost' = IF work[n] = None THEN lost ELSE lost \cup {work[n]}
  /\ UNCHANGED <<old, reg, work>>

\* --rm removes it, unless it hangs.
AutoRemove(n) ==
  /\ cstate[n] = "exited"
  /\ Remove(n)
  /\ UNCHANGED <<reg, work, lost>>

\* GitHub notices that a runner is dead, and later gives up its job.
GoOffline(n) ==
  /\ Dead(n) /\ reg[n] = "online"
  /\ reg' = [reg EXCEPT ![n] = "offline"]
  /\ UNCHANGED <<cstate, old, work, lost>>

HeartbeatTimeout(n) ==
  /\ Dead(n) /\ reg[n] = "offline" /\ work[n] # None
  /\ work' = [work EXCEPT ![n] = None]
  /\ UNCHANGED <<cstate, old, reg, lost>>

\* A container passes localGrace, at any time after its handshake: the grace is
\* there to outlast that (cleanup.go:358-360).
Age(n) ==
  /\ Exists(n) /\ n \notin old
  /\ reg[n] = "new" => Dead(n)
  /\ old' = old \cup {n}
  /\ UNCHANGED <<cstate, reg, work, lost>>

World(n) ==
  /\ \/ Create(n) \/ Start(n) \/ Register(n) \/ Connect(n) \/ Disconnect(n) \/ Unregister(n)
     \/ \E w \in Runs : TakeJob(n, w)
     \/ Finish(n) \/ Exit(n) \/ AutoRemove(n) \/ GoOffline(n) \/ HeartbeatTimeout(n) \/ Age(n)
  /\ UNCHANGED <<cancelled, total, dereg, repoPass, tpc, reapPass>>

-----------------------------------------------------------------------------
Next ==
  \/ \E t \in Ticks : StartTick(t) \/ ReapPass(t)
  \/ \E g \in Ticks \X Repos : RepoPass(g)
  \/ \E n \in Runners : World(n)

Spec == Init /\ [][Next]_vars

\* The periodic loop ticks for ever and its calls have deadlines; a kind of
\* call that may succeed does so now and then; GitHub's timeouts expire.  (Each
\* removal and deletion succeeds once per runner, so it is enough that one of
\* those that are tried again and again succeeds.)
Fairness ==
  /\ \A t \in Ticks :
       /\ WF_vars(StartTick(t) \/ ReapPass(t))
       /\ SF_vars(Ps(t)) /\ SF_vars(Inspect(t))
       /\ \A r \in Listable : SF_vars(ListNames(t, r))
       /\ SF_vars(\E n \in Runners : RmCorpse(t, n))
       /\ SF_vars(\E n \in Runners : CheckAge(t, n))
       /\ SF_vars(RmOrphan(t))
  /\ \A g \in Ticks \X Repos : WF_vars(RepoPass(g))
  /\ \A g \in Ticks \X Listable :
       /\ SF_vars(ListGhosts(g))
       /\ SF_vars(\E n \in Runners : DeleteRunner(g, n))
  /\ WF_vars(\E n \in Runners : (GoOffline(n) \/ HeartbeatTimeout(n)) /\ World(n))

FairSpec == Spec /\ Fairness

-----------------------------------------------------------------------------
(* Safety.                                                                 *)

\* What the package is for (cleanup.go:1-3): ghosts are runners whose
\* containers are dead.  However old the lists it works from, the cleanup
\* force-cancels only runs that have lost a job to the death of its runner,
\* and deletes only registrations of dead containers.
GhostsAreDead ==
  [][/\ cancelled' \ cancelled \subseteq lost
     /\ \A n \in dereg' \ dereg : Dead(n)]_vars

\* The cleanup removes the container of runner n, which has a job.
WorkRemoved(n) == cstate[n] = "running" /\ cstate'[n] = "gone" /\ work[n] # None

\* What reapLocalGhosts trusts in: "if a name is missing, GitHub does not know
\* about the container, so nothing will ever dispatch work to it"
\* (cleanup.go:371-373).  No pass removes a container whose runner is at work.
WorkSurvives == [][\A n \in Runners : ~WorkRemoved(n)]_vars

\* What holds of it, however long the passes last and however old the names and
\* states they go by: a container at work is never removed as a corpse, and as
\* an unregistered one only by a pass that listed its repo during its handshake
\* and came to it after its grace.  Once registered at the listing, it is safe.
SettledWorkSurvives ==
  [][\A n \in Runners : WorkRemoved(n) =>
       \E t \in Ticks : /\ victim[t] = n /\ victim'[t] = None
                        /\ n \in early[t] /\ n \in old]_vars

\* Overlapping passes find the same ghosts, but each deletion is counted once.
DeletesCountedOnce == total <= Cardinality(dereg)

-----------------------------------------------------------------------------
(* Liveness.                                                               *)

\* A container that exited and that --rm does not remove is removed, whatever
\* its repo, even if that repo's runners cannot be listed.
CorpsesReaped == \A n \in Runners : cstate[n] = "exited" ~> cstate[n] = "gone"

\* The registration of a dead runner is deleted in the end, however often the
\* deletion was refused while GitHub took it for busy, and although the
\* listing of another repo always fails.
GhostsDrain ==
  \A n \in Runners : RepoOf[n] \in Listable =>
    (Dead(n) /\ reg[n] \in {"offline", "online"} ~> reg[n] = "removed")

\* A container that outlived its registration does not hold a place under its
\* repo's cap for ever.
OrphansReaped ==
  \A n \in Runners : RepoOf[n] \in Listable =>
    (cstate[n] = "running" /\ n \in old /\ reg[n] = "removed" ~> cstate[n] # "running")
=============================================================================
