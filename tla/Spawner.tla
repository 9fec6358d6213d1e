------------------------------ MODULE Spawner ------------------------------
(***************************************************************************)
(* internal/spawner: Spawner.Spawn and what it shares with the rest of the *)
(* process: the pause flag, the per-repo mutexes, the lifetime counters,   *)
(* the env-files on disk and the managed containers of the Docker daemon.  *)
(*                                                                         *)
(* A caller is a goroutine that calls Spawn: the smee reader through       *)
(* webhook.Dispatch, a reconcile goroutine of a tick, a manual reconcile.  *)
(* Every blocking point of Spawn (the mutex, the GitHub request, docker    *)
(* ps, docker inspect, the env-file, docker run) is a step of its own.     *)
(*                                                                         *)
(* The answer of GitHub to the idle check is a free choice here.  Docker   *)
(* is modelled by what the commands of src/ ask of it: docker run creates  *)
(* a container and then starts it, and when the docker client is killed    *)
(* by its 30 s deadline in between, the daemon may still finish the start. *)
(***************************************************************************)
EXTENDS Integers, FiniteSets

CONSTANTS
  Callers,          \* goroutines that call Spawn
  Repos,            \* the names of config.Repos
  MaxConcurrency,   \* the cap of each repo
  Containers,       \* container ids; an id is used once (bound)
  DryRunFlags,      \* the values the -dry-run flag is started with
  Responsive,       \* repos whose calls to docker and GitHub return (fairness)
  None,             \* a model value: no caller, no repo, no container
  MaxCalls,         \* bound on Spawn calls per process lifetime
  MaxRestarts       \* bound on restarts of the autoscaler process

ASSUME SpawnerAssumption ==
  /\ IsFiniteSet(Callers) /\ IsFiniteSet(Containers)
  /\ MaxConcurrency \in [Repos -> Nat \ {0}]
  /\ DryRunFlags \subseteq BOOLEAN
  /\ Responsive \subseteq Repos
  /\ None \notin Callers \cup Repos \cup Containers
  /\ MaxCalls \in Nat
  /\ MaxRestarts \in Nat

VARIABLES
  dryRun,      \* Spawner.dryRun
  paused,      \* Spawner.paused
  mu,          \* Spawner.repoMu: the caller that holds the mutex of a repo
  stats,       \* Spawner.total*: one lifetime counter per outcome of Spawn
  pc,          \* where each caller is in Spawn
  arg,         \* the repo each caller spawns for
  ids,         \* what docker ps listed for the caller
  cont,        \* the container the caller's docker run is bringing up
  done,        \* callers whose context is cancelled or expired
  cstate,      \* the daemon's .State.Status of each container
  crepo,       \* the gha-autoscaler-repo label of each container
  cutOff,      \* containers whose docker run was killed before their start
  envFiles,    \* PAT env-files on disk
  calls,       \* Spawn calls since the process started (history)
  pausedRuns,  \* docker runs per caller since the last pause (history)
  restarts     \* process lifetimes so far (history)

local  == <<pc, arg, ids, cont>>
docker == <<cstate, crepo, cutOff>>
vars   == <<dryRun, paused, mu, stats, local, done, docker, envFiles, calls, pausedRuns, restarts>>

Outcomes == {"spawned", "capHit", "errors", "idleSkip", "paused"}
Locked   == {"idleCheck", "ps", "inspect", "envFile", "run", "start", "started"}
PCs      == {"idle", "lock"} \cup Locked
EnvFile  == [caller : Callers, repo : Repos, boot : Nat]

Types ==
  /\ dryRun \in BOOLEAN
  /\ paused \in BOOLEAN
  /\ mu \in [Repos -> Callers \cup {None}]
  /\ stats \in [Outcomes -> Nat]
  /\ pc \in [Callers -> PCs]
  /\ arg \in [Callers -> Repos \cup {None}]
  /\ ids \in [Callers -> SUBSET Containers]
  /\ cont \in [Callers -> Containers \cup {None}]
  /\ done \subseteq Callers
  /\ cstate \in [Containers -> {"none", "created", "running", "exited", "gone"}]
  /\ crepo \in [Containers -> Repos \cup {None}]
  /\ cutOff \subseteq Containers
  /\ envFiles \subseteq EnvFile
  /\ calls \in Nat
  /\ pausedRuns \in [Callers -> Nat]
  /\ restarts \in Nat

\* The mutex of a repo is held exactly by the one caller that is in Spawn's
\* critical section for it.
Holders == \A p \in Callers, r \in Repos : mu[r] = p <=> pc[p] \in Locked /\ arg[p] = r

\* The types of the variables, the state of the mutexes included: no return path
\* of Spawn leaves one locked, and none is open while its holder is at work.
TypeOK == Types /\ Holders

\* A process that has just started finds no managed container.
Init ==
  /\ dryRun \in DryRunFlags
  /\ paused = FALSE
  /\ mu = [r \in Repos |-> None]
  /\ stats = [o \in Outcomes |-> 0]
  /\ pc = [p \in Callers |-> "idle"]
  /\ arg = [p \in Callers |-> None]
  /\ ids = [p \in Callers |-> {}]
  /\ cont = [p \in Callers |-> None]
  /\ done = {}
  /\ cstate = [c \in Containers |-> "none"]
  /\ crepo = [c \in Containers |-> None]
  /\ cutOff = {}
  /\ envFiles = {}
  /\ calls = 0
  /\ pausedRuns = [p \in Callers |-> 0]
  /\ restarts = 0

\* (mutant) The repo label is left out of the docker ps filter.
ListedAnyRepo(r) == {c \in Containers : cstate[c] \in {"created", "running", "exited"}}

Listed(r)  == {c \in Containers : crepo[c] = r /\ cstate[c] \in {"created", "running", "exited"}}
Running(r) == {c \in Containers : crepo[c] = r /\ cstate[c] = "running"}

-----------------------------------------------------------------------------
(* The steps of Spawn.                                                     *)

Count(outcome) == stats' = [stats EXCEPT ![outcome] = @ + 1]

Goto(p, label) == pc' = [pc EXCEPT ![p] = label]

\* (mutant) The deferred cleanup() is missing.
ReturnKeepingEnvFile(p, outcome) ==
  /\ Count(outcome)
  /\ mu' = [mu EXCEPT ![arg[p]] = None]
  /\ Goto(p, "idle")
  /\ arg' = [arg EXCEPT ![p] = None]
  /\ ids' = [ids EXCEPT ![p] = {}]
  /\ cont' = [cont EXCEPT ![p] = None]
  /\ UNCHANGED <<dryRun, paused, done, envFiles, calls, pausedRuns, restarts>>

\* Leaving the critical section: the outcome is counted, then the deferred
\* cleanup() removes the env-file and the deferred mu.Unlock() runs.
Return(p, outcome) ==
  /\ Count(outcome)
  /\ envFiles' = {f \in envFiles : f.caller # p \/ f.boot # restarts}
  /\ mu' = [mu EXCEPT ![arg[p]] = None]
  /\ Goto(p, "idle")
  /\ arg' = [arg EXCEPT ![p] = None]
  /\ ids' = [ids EXCEPT ![p] = {}]
  /\ cont' = [cont EXCEPT ![p] = None]
  /\ UNCHANGED <<dryRun, paused, done, calls, pausedRuns, restarts>>

\* Spawn is called while paused: ErrPaused, without touching the mutex.
BeginPaused(p) ==
  /\ pc[p] = "idle" /\ calls < MaxCalls
  /\ paused
  /\ Count("paused")
  /\ calls' = calls + 1
  /\ UNCHANGED <<dryRun, paused, mu, local, done, docker, envFiles, pausedRuns, restarts>>

\* (mutant) The pause flag is not looked at.
BeginIgnoringPause(p, r) ==
  /\ pc[p] = "idle" /\ calls < MaxCalls
  /\ Goto(p, "lock")
  /\ arg' = [arg EXCEPT ![p] = r]
  /\ calls' = calls + 1
  /\ UNCHANGED <<dryRun, paused, mu, stats, ids, cont, done, docker, envFiles, pausedRuns,
                 restarts>>

BeginAdmitted(p, r) ==
  /\ pc[p] = "idle" /\ calls < MaxCalls
  /\ ~paused
  /\ Goto(p, "lock")
  /\ arg' = [arg EXCEPT ![p] = r]
  /\ calls' = calls + 1
  /\ UNCHANGED <<dryRun, paused, mu, stats, ids, cont, done, docker, envFiles, pausedRuns,
                 restarts>>

\* (mutant) repoLock returns a new mutex for each call.
LockPrivate(p) ==
  /\ pc[p] = "lock"
  /\ mu' = [mu EXCEPT ![arg[p]] = p]
  /\ Goto(p, "idleCheck")
  /\ UNCHANGED <<dryRun, paused, stats, arg, ids, cont, done, docker, envFiles, calls,
                 pausedRuns, restarts>>

Lock(p) ==
  /\ pc[p] = "lock"
  /\ mu[arg[p]] = None
  /\ mu' = [mu EXCEPT ![arg[p]] = p]
  /\ Goto(p, "idleCheck")
  /\ UNCHANGED <<dryRun, paused, stats, arg, ids, cont, done, docker, envFiles, calls,
                 pausedRuns, restarts>>

\* (mutant) totalIdleSkip is not counted.
IdleSkipUncounted(p) ==
  /\ pc[p] = "idleCheck"
  /\ p \notin done
  /\ mu' = [mu EXCEPT ![arg[p]] = None]
  /\ Goto(p, "idle")
  /\ arg' = [arg EXCEPT ![p] = None]
  /\ UNCHANGED <<dryRun, paused, stats, ids, cont, done, docker, envFiles, calls, pausedRuns,
                 restarts>>

\* hasIdleMatchingRunner answers true: nothing to do.
IdleSkip(p) ==
  /\ pc[p] = "idleCheck"
  /\ p \notin done
  /\ Return(p, "idleSkip")
  /\ UNCHANGED docker

\* It answers false, or fails and Spawn goes on anyway.
NoIdle(p) ==
  /\ pc[p] = "idleCheck"
  /\ Goto(p, "ps")
  /\ UNCHANGED <<dryRun, paused, mu, stats, arg, ids, cont, done, docker, envFiles, calls,
                 pausedRuns, restarts>>

\* countRunning, first command: docker ps -a with both label filters.
Ps(p) ==
  /\ pc[p] = "ps"
  /\ p \notin done
  /\ ids' = [ids EXCEPT ![p] = Listed(arg[p])]
  /\ Goto(p, "inspect")
  /\ UNCHANGED <<dryRun, paused, mu, stats, arg, cont, done, docker, envFiles, calls,
                 pausedRuns, restarts>>

\* countRunning, second command: docker inspect of the listed ids.  It is not
\* run for an empty list, and fails as a whole when one id has been removed.
Inspectable(p) == ids[p] = {} \/ (p \notin done /\ \A c \in ids[p] : cstate[c] # "gone")

CountRunning(p) == Cardinality({c \in ids[p] : cstate[c] = "running"})

\* (mutant) The error path of countRunning does not unlock the mutex.
CountFailedLocked(p) ==
  /\ pc[p] = "ps" \/ (pc[p] = "inspect" /\ ids[p] # {})
  /\ Count("errors")
  /\ Goto(p, "idle")
  /\ arg' = [arg EXCEPT ![p] = None]
  /\ ids' = [ids EXCEPT ![p] = {}]
  /\ UNCHANGED <<dryRun, paused, mu, cont, done, docker, envFiles, calls, pausedRuns, restarts>>

CountFailed(p) ==
  /\ pc[p] = "ps" \/ (pc[p] = "inspect" /\ ids[p] # {})
  /\ Return(p, "errors")
  /\ UNCHANGED docker

CapHit(p) ==
  /\ pc[p] = "inspect" /\ Inspectable(p)
  /\ CountRunning(p) >= MaxConcurrency[arg[p]]
  /\ Return(p, "capHit")
  /\ UNCHANGED docker

DrySpawn(p) ==
  /\ pc[p] = "inspect" /\ Inspectable(p)
  /\ CountRunning(p) < MaxConcurrency[arg[p]]
  /\ dryRun
  /\ Return(p, "spawned")
  /\ UNCHANGED docker

\* (mutant) Off by one in the comparison with the cap.
BelowCapOffByOne(p) ==
  /\ pc[p] = "inspect" /\ Inspectable(p)
  /\ CountRunning(p) <= MaxConcurrency[arg[p]]
  /\ ~dryRun
  /\ Goto(p, "envFile")
  /\ UNCHANGED <<dryRun, paused, mu, stats, arg, ids, cont, done, docker, envFiles, calls,
                 pausedRuns, restarts>>

BelowCap(p) ==
  /\ pc[p] = "inspect" /\ Inspectable(p)
  /\ CountRunning(p) < MaxConcurrency[arg[p]]
  /\ ~dryRun
  /\ Goto(p, "envFile")
  /\ UNCHANGED <<dryRun, paused, mu, stats, arg, ids, cont, done, docker, envFiles, calls,
                 pausedRuns, restarts>>

\* writePATEnvFile: every failing path removes the file it created.
WriteEnvFile(p) ==
  /\ pc[p] = "envFile"
  /\ envFiles' = envFiles \cup {[caller |-> p, repo |-> arg[p], boot |-> restarts]}
  /\ Goto(p, "run")
  /\ UNCHANGED <<dryRun, paused, mu, stats, arg, ids, cont, done, docker, calls, pausedRuns,
                 restarts>>

EnvFileFailed(p) ==
  /\ pc[p] = "envFile"
  /\ Return(p, "errors")
  /\ UNCHANGED docker

\* docker run -d: the client has the daemon create a container with the
\* managed and the repo label, ...
RunCreate(p, c) ==
  /\ pc[p] = "run"
  /\ p \notin done
  /\ cstate[c] = "none"
  /\ cstate' = [cstate EXCEPT ![c] = "created"]
  /\ crepo' = [crepo EXCEPT ![c] = arg[p]]
  /\ cont' = [cont EXCEPT ![p] = c]
  /\ pausedRuns' = IF paused THEN [pausedRuns EXCEPT ![p] = @ + 1] ELSE pausedRuns
  /\ Goto(p, "start")
  /\ UNCHANGED <<dryRun, paused, mu, stats, arg, ids, done, cutOff, envFiles, calls, restarts>>

\* ... then start it, ...
RunStart(p) ==
  /\ pc[p] = "start"
  /\ cstate[cont[p]] = "created"
  /\ cstate' = [cstate EXCEPT ![cont[p]] = "running"]
  /\ Goto(p, "started")
  /\ UNCHANGED <<dryRun, paused, mu, stats, arg, ids, cont, done, crepo, cutOff, envFiles, calls,
                 pausedRuns, restarts>>

\* ... and prints its id.
RunOK(p) ==
  /\ pc[p] = "started"
  /\ Return(p, "spawned")
  /\ UNCHANGED docker

\* docker run fails in the daemon: no image, no memory, the container was
\* removed before its start.  --rm removes a container that cannot start.
RunError(p) ==
  /\ pc[p] \in {"run", "start"}
  /\ cstate' = IF pc[p] = "start" THEN [cstate EXCEPT ![cont[p]] = "gone"] ELSE cstate
  /\ Return(p, "errors")
  /\ UNCHANGED <<crepo, cutOff>>

\* The deadline of dockerRunTO passes or the context is cancelled: the docker
\* client is killed.  A container it had created is left to the daemon.
RunKilled(p) ==
  /\ pc[p] \in {"run", "start", "started"}
  /\ cutOff' = IF pc[p] = "start" THEN cutOff \cup {cont[p]} ELSE cutOff
  /\ Return(p, "errors")
  /\ UNCHANGED <<cstate, crepo>>

-----------------------------------------------------------------------------
(* The rest of the process and its surroundings.                           *)

\* SIGTERM cancels the root context; a manual reconcile has 5 minutes.
ContextDone(p) ==
  /\ p \notin done
  /\ done' = done \cup {p}
  /\ UNCHANGED <<dryRun, paused, mu, stats, local, docker, envFiles, calls, pausedRuns, restarts>>

\* POST /api/pause
Pause ==
  /\ ~paused
  /\ paused' = TRUE
  /\ pausedRuns' = [p \in Callers |-> 0]
  /\ UNCHANGED <<dryRun, mu, stats, local, done, docker, envFiles, calls, restarts>>

\* POST /api/resume
Resume ==
  /\ paused
  /\ paused' = FALSE
  /\ UNCHANGED <<dryRun, mu, stats, local, done, docker, envFiles, calls, pausedRuns, restarts>>

\* The process ends (deploy, crash) and is started again: its memory is lost,
\* its docker clients are killed, containers and env-files stay.
Restart ==
  /\ restarts < MaxRestarts
  /\ restarts' = restarts + 1
  /\ paused' = FALSE
  /\ mu' = [r \in Repos |-> None]
  /\ stats' = [o \in Outcomes |-> 0]
  /\ pc' = [p \in Callers |-> "idle"]
  /\ arg' = [p \in Callers |-> None]
  /\ ids' = [p \in Callers |-> {}]
  /\ cont' = [p \in Callers |-> None]
  /\ done' = {}
  /\ calls' = 0
  /\ pausedRuns' = [p \in Callers |-> 0]
  /\ cutOff' = cutOff \cup {cont[p] : p \in {q \in Callers : pc[q] = "start"}}
  /\ UNCHANGED <<dryRun, cstate, crepo, envFiles>>

\* The daemon had received the start request of a killed client.
LateStart(c) ==
  /\ c \in cutOff
  /\ cstate[c] = "created"
  /\ cstate' = [cstate EXCEPT ![c] = "running"]
  /\ UNCHANGED <<dryRun, paused, mu, stats, local, done, crepo, cutOff, envFiles, calls,
                 pausedRuns, restarts>>

\* The runner exits, is stopped by the portal or is killed, and --rm hangs.
ContainerExit(c) ==
  /\ cstate[c] = "running"
  /\ cstate' = [cstate EXCEPT ![c] = "exited"]
  /\ UNCHANGED <<dryRun, paused, mu, stats, local, done, crepo, cutOff, envFiles, calls,
                 pausedRuns, restarts>>

\* --rm or the docker rm -f of the cleanup loop removes the container.
ContainerRemove(c) ==
  /\ cstate[c] \in {"created", "running", "exited"}
  /\ cstate' = [cstate EXCEPT ![c] = "gone"]
  /\ UNCHANGED <<dryRun, paused, mu, stats, local, done, crepo, cutOff, envFiles, calls,
                 pausedRuns, restarts>>

-----------------------------------------------------------------------------
\* What a caller does once it holds the mutex.
Critical(p) ==
  \/ IdleSkip(p) \/ NoIdle(p)
  \/ Ps(p) \/ CountFailed(p) \/ CapHit(p) \/ DrySpawn(p) \/ BelowCap(p)
  \/ WriteEnvFile(p) \/ EnvFileFailed(p)
  \/ \E c \in Containers : RunCreate(p, c)
  \/ RunStart(p) \/ RunOK(p) \/ RunError(p) \/ RunKilled(p)

Environment ==
  \/ \E p \in Callers : ContextDone(p)
  \/ Pause \/ Resume \/ Restart
  \/ \E c \in Containers : LateStart(c) \/ ContainerExit(c) \/ ContainerRemove(c)

Next ==
  \/ \E p \in Callers, r \in Repos : BeginAdmitted(p, r)
  \/ \E p \in Callers : BeginPaused(p) \/ Lock(p) \/ Critical(p)
  \/ Environment

Spec == Init /\ [][Next]_vars

\* Every command and request of Spawn has a deadline, so a caller in the
\* critical section of a responsive repo moves on; sync.Mutex hands a waiter
\* the lock in the end (starvation mode).
Fairness ==
  \A p \in Callers, r \in Responsive :
    /\ SF_vars(Lock(p) /\ arg[p] = r)
    /\ WF_vars(Critical(p) /\ arg[p] = r)

FairSpec == Spec /\ Fairness

-----------------------------------------------------------------------------
(* Safety.                                                                 *)

\* The reason for the per-repo mutex (spawner.go:13-15): however the calls of
\* the webhook handler and the reconciler interleave, and across restarts, the
\* containers of a repo that run because a docker run was seen through never
\* exceed its cap.  Starts the daemon makes after the client was killed are
\* not included: see CapRespected.
CapHeld == \A r \in Repos : Cardinality(Running(r) \ cutOff) <= MaxConcurrency[r]

\* The claim without that exception: Spawn's comment (spawner.go:137-138) says
\* a burst of webhook events cannot exceed the cap.
CapRespected == \A r \in Repos : Cardinality(Running(r)) <= MaxConcurrency[r]

\* Each return path of Spawn adds one to exactly one lifetime counter, so the
\* counters and the calls still in flight add up to the calls made.
OutcomesAddUp ==
  calls = stats["spawned"] + stats["capHit"] + stats["errors"] + stats["idleSkip"]
          + stats["paused"] + Cardinality({p \in Callers : pc[p] # "idle"})

\* Bursts in one repo never exhaust the capacity of another (docs/ARCH.md:12):
\* a call is told that the cap is reached only when its own repo has that many
\* containers running at that moment, however old its docker ps answer is.
CapHitJustified ==
  [][stats'["capHit"] > stats["capHit"] =>
       \E r \in Repos : /\ mu[r] # None /\ mu'[r] = None
                        /\ Cardinality(Running(r)) >= MaxConcurrency[r]]_vars

\* Pausing does not stop the calls already past the check of the flag, but it
\* stops everything else: after a pause each goroutine starts at most one more
\* container, although the reconciler calls Spawn in a loop.
PauseBites == \A p \in Callers : pausedRuns[p] <= 1

\* The copies of the PAT on disk: in one process lifetime at most one per
\* repo, also when the process is killed between writing and unlinking it, and
\* the current process only has those of the docker runs in progress.
EnvFilesScoped ==
  /\ \A f, g \in envFiles : f.repo = g.repo /\ f.boot = g.boot => f = g
  /\ \A f \in envFiles : f.boot = restarts =>
       arg[f.caller] = f.repo /\ pc[f.caller] \in {"run", "start", "started"}

-----------------------------------------------------------------------------
(* Refinement: the spawner as a pool of runners of limited size.           *)

OnTime(r) == {c \in Containers : /\ crepo[c] = r
                                 /\ cstate[c] \in {"created", "running"}
                                 /\ c \notin cutOff}

Pool == INSTANCE RunnerPool WITH
          live  <- [r \in Repos |-> OnTime(r)],
          spent <- {c \in Containers : cstate[c] # "none"}

\* Every step of the spawner, the daemon and the process is a step of the
\* pool, which admits a container only below the cap of its repo.
ImplementsPool == Pool!Spec

-----------------------------------------------------------------------------
(* Liveness.                                                               *)

\* Repos are isolated from each other: a call for a responsive repo returns
\* even if the docker commands of other repos hang for ever with their
\* mutexes held; and no return path leaves a mutex locked.
CallsReturn == \A p \in Callers, r \in Responsive : arg[p] = r ~> arg[p] # r
=============================================================================
