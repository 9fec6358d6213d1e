--------------------------- MODULE SpawnerProofs ---------------------------
(* Theorems about Spawner, for every number of callers, repos and          *)
(* containers and every cap.                                               *)
EXTENDS Spawner, FiniteSetTheorems, TLAPS

-----------------------------------------------------------------------------
(* The inductive invariant.                                                *)

\* Past its first step a call knows its repo, and it holds the mutex of that repo,
\* and no other, exactly in the critical section.
LockInv ==
  \A p \in Callers :
    /\ pc[p] # "idle" => arg[p] \in Repos
    /\ pc[p] \in Locked => mu[arg[p]] = p
    /\ \A r \in Repos : mu[r] = p => pc[p] \in Locked /\ arg[p] = r

\* The container of a docker run in progress carries the label of the repo
\* the call is for, has not been given up and is no other call's.
ContInv ==
  \A p \in Callers : pc[p] \in {"start", "started"} =>
    /\ cont[p] \in Containers
    /\ crepo[cont[p]] = arg[p]
    /\ cstate[cont[p]] # "none"
    /\ pc[p] = "start" => cont[p] \notin cutOff
    /\ \A q \in Callers : pc[q] \in {"start", "started"} /\ cont[q] = cont[p] => q = p

\* A container waiting for its start has a docker run that is waiting for it,
\* unless that docker run was killed; only containers that exist were cut off.
CreatedInv ==
  \A c \in Containers :
    /\ cstate[c] = "created" /\ c \notin cutOff =>
         \E p \in Callers : pc[p] = "start" /\ cont[p] = c
    /\ cstate[c] = "none" => c \notin cutOff

\* The docker ps answer a call holds is old, but nothing started on time since
\* is missing from it.
SnapshotInv ==
  \A p \in Callers : pc[p] = "inspect" =>
    \A c \in Containers :
      cstate[c] = "running" /\ crepo[c] = arg[p] /\ c \notin cutOff => c \in ids[p]

\* The pool of a repo respects the cap, and has room for one more while a call
\* is between the cap check and docker run.
PoolInv ==
  /\ \A r \in Repos : Cardinality(OnTime(r)) <= MaxConcurrency[r]
  /\ \A p \in Callers : pc[p] \in {"envFile", "run"} =>
       Cardinality(OnTime(arg[p])) < MaxConcurrency[arg[p]]

IInv == Types /\ LockInv /\ ContInv /\ CreatedInv /\ SnapshotInv /\ PoolInv

-----------------------------------------------------------------------------
(* Type correctness.                                                       *)

\* Leaving the critical section (the deferred Unlock and cleanup of Spawn)
\* keeps the types of what it writes.
LEMMA ReturnType ==
  ASSUME Types, NEW p \in Callers, NEW o \in Outcomes, Return(p, o)
  PROVE  /\ stats' \in [Outcomes -> Nat]
         /\ mu' \in [Repos -> Callers \cup {None}]
         /\ pc' \in [Callers -> PCs]
         /\ arg' \in [Callers -> Repos \cup {None}]
         /\ ids' \in [Callers -> SUBSET Containers]
         /\ cont' \in [Callers -> Containers \cup {None}]
         /\ envFiles' \subseteq EnvFile
         /\ UNCHANGED <<dryRun, paused, done, calls, pausedRuns, restarts>>
<1>1. stats' \in [Outcomes -> Nat]
  BY DEF Types, Return, Count
<1>2. /\ mu' \in [Repos -> Callers \cup {None}]
      /\ pc' \in [Callers -> PCs]
  BY DEF Types, Return, Goto, PCs
<1>3. /\ arg' \in [Callers -> Repos \cup {None}]
      /\ ids' \in [Callers -> SUBSET Containers]
      /\ cont' \in [Callers -> Containers \cup {None}]
  BY DEF Types, Return
<1>4. envFiles' \subseteq EnvFile
  BY DEF Types, Return
<1>5. QED  BY <1>1, <1>2, <1>3, <1>4 DEF Return

\* The steps that begin a call, and those of the surroundings.
LEMMA TypeOutside ==
  ASSUME Types, ContInv, Environment \/ (\E p \in Callers : \/ BeginPaused(p) \/ Lock(p)
                                                     \/ \E r \in Repos : BeginAdmitted(p, r))
  PROVE  Types'
<1>1. ASSUME NEW p \in Callers, BeginPaused(p) PROVE Types'
  BY <1>1 DEF Types, BeginPaused, Count, local, docker, Outcomes
<1>2. ASSUME NEW p \in Callers, Lock(p) PROVE Types'
  BY <1>2 DEF Types, Lock, Goto, docker, PCs, Locked
<1>3. ASSUME NEW p \in Callers, NEW r \in Repos, BeginAdmitted(p, r) PROVE Types'
  BY <1>3 DEF Types, BeginAdmitted, Goto, docker, PCs
<1>4. ASSUME NEW p \in Callers, ContextDone(p) PROVE Types'
  BY <1>4 DEF Types, ContextDone, local, docker
<1>5. CASE Pause
  BY <1>5 DEF Types, Pause, local, docker
<1>6. CASE Resume
  BY <1>6 DEF Types, Resume, local, docker
<1>7. CASE Restart
  <2>1. cutOff' \subseteq Containers
    BY <1>7 DEF Types, Restart, ContInv
  <2>2. /\ mu' \in [Repos -> Callers \cup {None}]
        /\ stats' \in [Outcomes -> Nat]
        /\ pc' \in [Callers -> PCs]
        /\ arg' \in [Callers -> Repos \cup {None}]
    BY <1>7 DEF Restart, PCs
  <2>3. /\ ids' \in [Callers -> SUBSET Containers]
        /\ cont' \in [Callers -> Containers \cup {None}]
        /\ pausedRuns' \in [Callers -> Nat]
    BY <1>7 DEF Restart
  <2>4. calls' \in Nat /\ restarts' \in Nat
    BY <1>7 DEF Types, Restart
  <2>5. /\ paused' \in BOOLEAN /\ done' \subseteq Callers
        /\ UNCHANGED <<dryRun, cstate, crepo, envFiles>>
    BY <1>7, Zenon DEF Restart
  <2>6. QED  BY <2>1, <2>2, <2>3, <2>4, <2>5 DEF Types
<1>8. ASSUME NEW c \in Containers, LateStart(c) \/ ContainerExit(c) \/ ContainerRemove(c)
      PROVE  Types'
  BY <1>8 DEF Types, LateStart, ContainerExit, ContainerRemove, local
<1>9. QED  BY <1>1, <1>2, <1>3, <1>4, <1>5, <1>6, <1>7, <1>8 DEF Environment

\* So does each step of Spawn under the mutex.
LEMMA TypeCritical ==
  ASSUME Types, LockInv, ContInv, NEW p \in Callers, Critical(p)
  PROVE  Types'
<1>1. ASSUME NEW o \in Outcomes, Return(p, o), UNCHANGED docker
      PROVE  Types'
  BY <1>1, ReturnType DEF Types, docker
<1>2. CASE NoIdle(p) \/ BelowCap(p)
  BY <1>2 DEF Types, NoIdle, BelowCap, Goto, docker, PCs, Locked
<1>3. CASE Ps(p)
  BY <1>3 DEF Types, Ps, Listed, Goto, docker, PCs, Locked
<1>4. CASE WriteEnvFile(p)
  <2>1. arg[p] \in Repos
    BY <1>4 DEF LockInv, WriteEnvFile
  <2>2. envFiles' \subseteq EnvFile
    BY <1>4, <2>1 DEF Types, WriteEnvFile, EnvFile
  <2>3. QED  BY <1>4, <2>2 DEF Types, WriteEnvFile, Goto, docker, PCs, Locked
<1>5. ASSUME NEW c \in Containers, RunCreate(p, c) PROVE Types'
  BY <1>5 DEF Types, RunCreate, Goto, PCs, Locked
<1>6. CASE RunStart(p)
  BY <1>6 DEF Types, RunStart, Goto, PCs, Locked
<1>7. CASE RunError(p)
  <2>1. "errors" \in Outcomes  BY DEF Outcomes
  <2>2. QED  BY <1>7, <2>1, ReturnType DEF Types, RunError
<1>8. CASE RunKilled(p)
  <2>1. "errors" \in Outcomes  BY DEF Outcomes
  <2>2. cutOff' \subseteq Containers
    BY <1>8 DEF Types, RunKilled, ContInv
  <2>3. QED  BY <1>8, <2>1, <2>2, ReturnType DEF Types, RunKilled
<1>9. QED
  BY <1>1, <1>2, <1>3, <1>4, <1>5, <1>6, <1>7, <1>8
  DEF Critical, IdleSkip, CountFailed, CapHit, DrySpawn, EnvFileFailed, RunOK, Outcomes

-----------------------------------------------------------------------------
(* The mutexes.                                                            *)

\* In the critical section a caller either returns, or keeps its mutex and
\* moves to another point of the section.
LEMMA CriticalShape ==
  ASSUME NEW p \in Callers, Critical(p)
  PROVE  /\ pc[p] \in Locked
         /\ \/ \E o \in Outcomes : Return(p, o)
            \/ UNCHANGED <<mu, arg>> /\ \E l \in Locked : Goto(p, l)
<1>1. CASE NoIdle(p) \/ Ps(p) \/ BelowCap(p)
  BY <1>1 DEF NoIdle, Ps, BelowCap, Locked
<1>2. CASE WriteEnvFile(p) \/ RunStart(p) \/ \E c \in Containers : RunCreate(p, c)
  BY <1>2 DEF WriteEnvFile, RunStart, RunCreate, Locked
<1>3. CASE IdleSkip(p) \/ CountFailed(p) \/ CapHit(p) \/ DrySpawn(p)
  BY <1>3 DEF IdleSkip, CountFailed, CapHit, DrySpawn, Locked, Outcomes
<1>4. CASE EnvFileFailed(p) \/ RunOK(p) \/ RunError(p) \/ RunKilled(p)
  BY <1>4 DEF EnvFileFailed, RunOK, RunError, RunKilled, Locked, Outcomes
<1>5. QED  BY <1>1, <1>2, <1>3, <1>4 DEF Critical

\* Mutual exclusion in the critical section of Spawn: the holder of a repo's
\* mutex and the callers past mu.Lock() keep agreeing with each other.
LEMMA LockStep ==
  ASSUME Types, LockInv, [Next]_vars
  PROVE  LockInv'
<1> USE DEF Types, LockInv
<1>1. CASE UNCHANGED <<pc, arg, mu>>
  BY <1>1
<1>2. ASSUME NEW p \in Callers, NEW r \in Repos, BeginAdmitted(p, r) PROVE LockInv'
  BY <1>2 DEF BeginAdmitted, Goto, Locked
<1>3. ASSUME NEW p \in Callers, Lock(p) PROVE LockInv'
  <2>1. \A q \in Callers : q # p /\ pc[q] \in Locked => arg[q] # arg[p]
    BY <1>3, SpawnerAssumption DEF Lock
  <2>2. arg[p] \in Repos /\ pc[p] \notin Locked /\ \A r \in Repos : mu[r] # p
    BY <1>3 DEF Lock, Locked
  <2>3. /\ pc' = [pc EXCEPT ![p] = "idleCheck"] /\ arg' = arg
        /\ mu' = [mu EXCEPT ![arg[p]] = p] /\ mu[arg[p]] = None
    BY <1>3 DEF Lock, Goto
  <2>4. QED  BY <2>1, <2>2, <2>3 DEF Locked
<1>4. ASSUME NEW p \in Callers, Critical(p) PROVE LockInv'
  <2>1. \A q \in Callers : q # p /\ pc[q] \in Locked => arg[q] # arg[p]
    BY <1>4, CriticalShape
  <2>2. ASSUME NEW o \in Outcomes, Return(p, o) PROVE LockInv'
    <3>1. /\ mu' = [mu EXCEPT ![arg[p]] = None] /\ pc' = [pc EXCEPT ![p] = "idle"]
          /\ arg' = [arg EXCEPT ![p] = None]
      BY <2>2 DEF Return, Goto
    <3>2. \A r \in Repos : r # arg[p] => mu[r] # p
      OBVIOUS
    <3>3. QED  BY <2>1, <3>1, <3>2, SpawnerAssumption DEF Locked
  <2>3. ASSUME UNCHANGED <<mu, arg>>, NEW l \in Locked, Goto(p, l) PROVE LockInv'
    <3>1. pc[p] \in Locked
      BY <1>4, CriticalShape
    <3>2. QED  BY <2>3, <3>1 DEF Goto, Locked
  <2>4. QED  BY <1>4, <2>2, <2>3, CriticalShape
<1>5. CASE Restart
  BY <1>5, SpawnerAssumption DEF Restart, Locked
<1>6. QED
  BY <1>1, <1>2, <1>3, <1>4, <1>5
  DEF Next, Environment, BeginPaused, ContextDone, Pause, Resume, LateStart,
      ContainerExit, ContainerRemove, local, vars

-----------------------------------------------------------------------------
(* The docker runs in progress and the containers they bring up.           *)

\* A step outside the life of containers: no container changes, no docker run
\* is begun or left while its container waits for the start.
Aside ==
  /\ UNCHANGED docker
  /\ \A q \in Callers :
       /\ pc'[q] \in {"start", "started"} =>
            pc'[q] = pc[q] /\ cont'[q] = cont[q] /\ arg'[q] = arg[q]
       /\ pc[q] = "start" => pc'[q] = "start" /\ cont'[q] = cont[q]

\* The steps that are not aside.
DockerRunStep(p) ==
  (\E c \in Containers : RunCreate(p, c)) \/ RunStart(p) \/ RunError(p) \/ RunKilled(p)

DaemonStep(c) == LateStart(c) \/ ContainerExit(c) \/ ContainerRemove(c)

\* What can change a container, or the container a caller is bringing up: a
\* docker run, the daemon, a return of the caller or a restart.
LEMMA StepShape ==
  ASSUME Types, [Next]_vars
  PROVE  \/ Aside
         \/ Restart
         \/ \E p \in Callers : DockerRunStep(p)
         \/ \E c \in Containers : DaemonStep(c)
<1> USE DEF Types, Aside
<1>1. CASE UNCHANGED <<local, docker>>
  BY <1>1 DEF local
<1>2. ASSUME NEW p \in Callers, NEW r \in Repos, BeginAdmitted(p, r) PROVE Aside
  BY <1>2 DEF BeginAdmitted, Goto
<1>3. ASSUME NEW p \in Callers, Lock(p) PROVE Aside
  BY <1>3 DEF Lock, Goto
<1>4. ASSUME NEW p \in Callers, NEW o \in Outcomes, Return(p, o), UNCHANGED docker, pc[p] # "start"
      PROVE  Aside
  BY <1>4 DEF Return, Goto
<1>5. ASSUME NEW p \in Callers, NoIdle(p) \/ Ps(p) \/ BelowCap(p) \/ WriteEnvFile(p) PROVE Aside
  BY <1>5 DEF NoIdle, Ps, BelowCap, WriteEnvFile, Goto
<1>6. ASSUME NEW p \in Callers,
             \/ IdleSkip(p) \/ CountFailed(p) \/ CapHit(p)
             \/ DrySpawn(p) \/ EnvFileFailed(p) \/ RunOK(p)
      PROVE  Aside
  BY <1>4, <1>6 DEF IdleSkip, CountFailed, CapHit, DrySpawn, EnvFileFailed, RunOK, Outcomes
<1>7. CASE \E p \in Callers : BeginPaused(p) \/ ContextDone(p)
  BY <1>1, <1>7 DEF BeginPaused, ContextDone
<1>8. CASE Pause \/ Resume
  BY <1>1, <1>8 DEF Pause, Resume
<1>9. QED
  BY <1>1, <1>2, <1>3, <1>5, <1>6, <1>7, <1>8
  DEF Next, Environment, Critical, DockerRunStep, DaemonStep, vars

\* A caller has a container exactly while its docker run is bringing one up,
\* and no two callers have the same: docker run creates a new one.
LEMMA ContStep ==
  ASSUME Types, ContInv, CreatedInv, [Next]_vars
  PROVE  ContInv'
<1> USE DEF Types, ContInv
<1>1. CASE Aside
  BY <1>1 DEF Aside, docker
<1>2. CASE Restart
  BY <1>2 DEF Restart
<1>3. ASSUME NEW p \in Callers, NEW c \in Containers, RunCreate(p, c) PROVE ContInv'
  <2>1. c \notin cutOff
    BY <1>3 DEF RunCreate, CreatedInv
  <2>2. \A q \in Callers : pc[q] \in {"start", "started"} => cont[q] # c
    BY <1>3 DEF RunCreate
  <2>3. QED  BY <1>3, <2>1, <2>2 DEF RunCreate, Goto
<1>4. ASSUME NEW p \in Callers, RunStart(p) PROVE ContInv'
  BY <1>4 DEF RunStart, Goto
<1>5. ASSUME NEW p \in Callers, RunError(p) PROVE ContInv'
  BY <1>5 DEF RunError, Return, Goto
<1>6. ASSUME NEW p \in Callers, RunKilled(p) PROVE ContInv'
  BY <1>6 DEF RunKilled, Return, Goto
<1>7. ASSUME NEW c \in Containers, DaemonStep(c) PROVE ContInv'
  BY <1>7 DEF DaemonStep, LateStart, ContainerExit, ContainerRemove, local
<1>8. QED  BY <1>1, <1>2, <1>3, <1>4, <1>5, <1>6, <1>7, StepShape DEF DockerRunStep

\* A container that waits for its start belongs to the docker run of a caller,
\* or that docker run was killed.
LEMMA CreatedStep ==
  ASSUME Types, ContInv, CreatedInv, [Next]_vars
  PROVE  CreatedInv'
<1> USE DEF Types, CreatedInv
<1>1. CASE Aside
  BY <1>1 DEF Aside, docker
<1>2. CASE Restart
  BY <1>2 DEF Restart, ContInv
<1>3. ASSUME NEW p \in Callers, NEW c \in Containers, RunCreate(p, c) PROVE CreatedInv'
  BY <1>3 DEF RunCreate, Goto
<1>4. ASSUME NEW p \in Callers, RunStart(p) PROVE CreatedInv'
  BY <1>4 DEF RunStart, Goto, ContInv
<1>5. ASSUME NEW p \in Callers, RunError(p) PROVE CreatedInv'
  BY <1>5 DEF RunError, Return, Goto, ContInv
<1>6. ASSUME NEW p \in Callers, RunKilled(p) PROVE CreatedInv'
  BY <1>6 DEF RunKilled, Return, Goto, ContInv
<1>7. ASSUME NEW c \in Containers, DaemonStep(c) PROVE CreatedInv'
  BY <1>7 DEF DaemonStep, LateStart, ContainerExit, ContainerRemove, local
<1>8. QED  BY <1>1, <1>2, <1>3, <1>4, <1>5, <1>6, <1>7, StepShape DEF DockerRunStep

-----------------------------------------------------------------------------
(* The docker ps answers.                                                  *)

\* A caller that is at docker inspect was there before with the same answer,
\* or has just had the answer of docker ps.
LEMMA InspectShape ==
  ASSUME Types, [Next]_vars, NEW q \in Callers, pc'[q] = "inspect"
  PROVE  \/ pc[q] = "inspect" /\ ids'[q] = ids[q] /\ arg'[q] = arg[q]
         \/ Ps(q)
<1> USE DEF Types
<1>1. CASE UNCHANGED local
  BY <1>1 DEF local
<1>2. ASSUME NEW p \in Callers,
             (\E r \in Repos : BeginAdmitted(p, r)) \/ Lock(p) \/ NoIdle(p)
             \/ BelowCap(p) \/ WriteEnvFile(p) \/ (\E c \in Containers : RunCreate(p, c)) \/ RunStart(p)
      PROVE  pc[q] = "inspect" /\ ids'[q] = ids[q] /\ arg'[q] = arg[q]
  BY <1>2 DEF BeginAdmitted, Lock, NoIdle, BelowCap, WriteEnvFile, RunCreate, RunStart, Goto
<1>3. ASSUME NEW p \in Callers, NEW o \in Outcomes, Return(p, o)
      PROVE  pc[q] = "inspect" /\ ids'[q] = ids[q] /\ arg'[q] = arg[q]
  BY <1>3 DEF Return, Goto
<1>4. ASSUME NEW p \in Callers, Ps(p)
      PROVE  Ps(q) \/ (pc[q] = "inspect" /\ ids'[q] = ids[q] /\ arg'[q] = arg[q])
  BY <1>4 DEF Ps, Goto
<1>5. ASSUME NEW p \in Callers,
             \/ IdleSkip(p) \/ CountFailed(p) \/ CapHit(p) \/ DrySpawn(p)
             \/ EnvFileFailed(p) \/ RunOK(p) \/ RunError(p) \/ RunKilled(p)
      PROVE  \E o \in Outcomes : Return(p, o)
  BY <1>5 DEF IdleSkip, CountFailed, CapHit, DrySpawn, EnvFileFailed, RunOK, RunError, RunKilled, Outcomes
<1>6. CASE Restart
  BY <1>6 DEF Restart
<1>7. CASE Pause \/ Resume \/ \E p \in Callers : BeginPaused(p) \/ ContextDone(p)
  BY <1>1, <1>7 DEF Pause, Resume, BeginPaused, ContextDone
<1>8. CASE \E c \in Containers : LateStart(c) \/ ContainerExit(c) \/ ContainerRemove(c)
  BY <1>1, <1>8 DEF LateStart, ContainerExit, ContainerRemove
<1>9. QED
  BY <1>1, <1>2, <1>3, <1>4, <1>5, <1>6, <1>7, <1>8 DEF Next, Critical, Environment, vars

\* A container that runs, not by a late start, ran before or is the one whose
\* docker run has just started it.
LEMMA RunningShape ==
  ASSUME Types, CreatedInv, [Next]_vars,
         NEW c \in Containers, cstate'[c] = "running", c \notin cutOff'
  PROVE  /\ crepo'[c] = crepo[c]
         /\ \/ cstate[c] = "running" /\ c \notin cutOff
            \/ \E p \in Callers : RunStart(p) /\ cont[p] = c
<1> USE DEF Types
<1>1. CASE Aside
  BY <1>1 DEF Aside, docker
<1>2. CASE Restart
  BY <1>2 DEF Restart
<1>3. CASE \E p \in Callers : DockerRunStep(p)
  BY <1>3 DEF DockerRunStep, RunCreate, RunStart, RunError, RunKilled
<1>4. CASE \E d \in Containers : DaemonStep(d)
  BY <1>4 DEF DaemonStep, LateStart, ContainerExit, ContainerRemove
<1>5. QED  BY <1>1, <1>2, <1>3, <1>4, StepShape

\* The answer of docker ps that a caller still holds misses no container of its
\* repo that may count against the cap: only the caller itself could add one.
LEMMA SnapshotStep ==
  ASSUME Types, LockInv, ContInv, CreatedInv, SnapshotInv, [Next]_vars
  PROVE  SnapshotInv'
<1> SUFFICES ASSUME NEW q \in Callers, pc'[q] = "inspect",
                    NEW c \in Containers,
                    cstate'[c] = "running", crepo'[c] = arg'[q], c \notin cutOff'
             PROVE  c \in ids'[q]
  BY DEF SnapshotInv
<1>1. CASE Ps(q)
  BY <1>1 DEF Ps, Listed, docker, Types
<1>2. CASE pc[q] = "inspect" /\ ids'[q] = ids[q] /\ arg'[q] = arg[q]
  <2>1. ASSUME NEW p \in Callers, RunStart(p), cont[p] = c  PROVE FALSE
    <3>1. p # q /\ arg[p] = arg[q]
      BY <1>2, <2>1, RunningShape DEF RunStart, ContInv
    <3>2. QED  BY <1>2, <2>1, <3>1 DEF LockInv, RunStart, Locked
  <2>2. cstate[c] = "running" /\ c \notin cutOff /\ crepo[c] = arg[q]
    BY <1>2, <2>1, RunningShape
  <2>3. QED  BY <1>2, <2>2 DEF SnapshotInv
<1>3. QED  BY <1>1, <1>2, InspectShape

-----------------------------------------------------------------------------
(* The pool.                                                               *)

\* The pool of a repo is a finite set, so its size is a number.
LEMMA OnTimeFinite ==
  ASSUME NEW r
  PROVE  IsFiniteSet(OnTime(r)) /\ Cardinality(OnTime(r)) \in Nat
BY FS_Subset, FS_CardinalityType, SpawnerAssumption DEF OnTime

\* Only docker run adds a container to a pool, ...
LEMMA OnTimeShrinks ==
  ASSUME Types, ContInv, CreatedInv, [Next]_vars,
         ~ \E p \in Callers, c \in Containers : RunCreate(p, c)
  PROVE  /\ \A r : OnTime(r)' \subseteq OnTime(r)
         /\ \A c \in Containers : cstate'[c] = "none" <=> cstate[c] = "none"
<1> USE DEF Types, OnTime
<1>1. CASE Aside
  BY <1>1 DEF Aside, docker
<1>2. CASE Restart
  BY <1>2 DEF Restart
<1>3. ASSUME NEW p \in Callers, RunStart(p)
      PROVE  /\ \A r : OnTime(r)' \subseteq OnTime(r)
             /\ \A c \in Containers : cstate'[c] = "none" <=> cstate[c] = "none"
  BY <1>3 DEF RunStart
<1>4. ASSUME NEW p \in Callers, RunError(p) \/ RunKilled(p)
      PROVE  /\ \A r : OnTime(r)' \subseteq OnTime(r)
             /\ \A c \in Containers : cstate'[c] = "none" <=> cstate[c] = "none"
  BY <1>4 DEF RunError, RunKilled, ContInv
<1>5. ASSUME NEW d \in Containers, DaemonStep(d)
      PROVE  /\ \A r : OnTime(r)' \subseteq OnTime(r)
             /\ \A c \in Containers : cstate'[c] = "none" <=> cstate[c] = "none"
  BY <1>5 DEF DaemonStep, LateStart, ContainerExit, ContainerRemove
<1>6. QED  BY <1>1, <1>2, <1>3, <1>4, <1>5, StepShape DEF DockerRunStep

\* ... and it adds one new container to the pool of one repo.
LEMMA OnTimeGrows ==
  ASSUME Types, LockInv, CreatedInv, NEW p \in Callers, NEW c \in Containers, RunCreate(p, c)
  PROVE  /\ arg[p] \in Repos
         /\ OnTime(arg[p])' = OnTime(arg[p]) \cup {c}
         /\ \A r : r # arg[p] => OnTime(r)' = OnTime(r)
         /\ c \notin OnTime(arg[p])
<1>1. arg[p] \in Repos
  BY DEF RunCreate, LockInv
<1>2. c \notin cutOff /\ cstate[c] = "none" /\ UNCHANGED <<cutOff, arg>>
  BY DEF RunCreate, CreatedInv
<1>3. /\ cstate'[c] = "created" /\ crepo'[c] = arg[p]
      /\ \A d \in Containers : d # c => cstate'[d] = cstate[d] /\ crepo'[d] = crepo[d]
  BY DEF RunCreate, Types
<1>4. OnTime(arg[p])' = OnTime(arg[p]) \cup {c}
  <2>1. \A d \in Containers : d \in OnTime(arg[p])' <=> d \in OnTime(arg[p]) \cup {c}
    BY <1>2, <1>3 DEF OnTime
  <2>2. OnTime(arg[p])' \subseteq Containers /\ OnTime(arg[p]) \subseteq Containers
    BY DEF OnTime
  <2>3. QED  BY <2>1, <2>2
<1>5. \A r : r # arg[p] => OnTime(r)' = OnTime(r)
  BY <1>2, <1>3 DEF OnTime
<1>6. QED  BY <1>1, <1>2, <1>4, <1>5 DEF OnTime

\* The cap check: when it lets a call through, the pool has room.  A container
\* waiting for its start would belong to the call itself, which has no docker
\* run; so the pool is among the containers that inspect reports as running.
LEMMA CapCheck ==
  ASSUME Types, LockInv, ContInv, CreatedInv, SnapshotInv, NEW p \in Callers, BelowCap(p)
  PROVE  Cardinality(OnTime(arg[p])) < MaxConcurrency[arg[p]]
<1>1. arg[p] \in Repos /\ pc[p] = "inspect" /\ mu[arg[p]] = p
  BY DEF BelowCap, LockInv, Locked
<1>2. ASSUME NEW c \in OnTime(arg[p]), cstate[c] = "created"  PROVE FALSE
  <2>1. PICK q \in Callers : pc[q] = "start" /\ cont[q] = c
    BY <1>2 DEF OnTime, CreatedInv
  <2>2. arg[q] = arg[p]
    BY <1>2, <2>1 DEF OnTime, ContInv
  <2>3. QED  BY <1>1, <2>1, <2>2 DEF LockInv, Locked
<1> DEFINE R == {c \in ids[p] : cstate[c] = "running"}
<1>3. OnTime(arg[p]) \subseteq R
  BY <1>1, <1>2 DEF OnTime, SnapshotInv
<1>4. R \subseteq Containers /\ IsFiniteSet(R) /\ Cardinality(R) \in Nat
  BY FS_Subset, FS_CardinalityType, SpawnerAssumption DEF Types
<1>5. Cardinality(OnTime(arg[p])) <= Cardinality(R)
  BY <1>3, <1>4, FS_Subset
<1>6. Cardinality(R) < MaxConcurrency[arg[p]]
  BY DEF BelowCap, CountRunning
<1>7. MaxConcurrency[arg[p]] \in Nat
  BY <1>1, SpawnerAssumption
<1> HIDE DEF R
<1>8. QED  BY <1>4, <1>5, <1>6, <1>7, OnTimeFinite

\* A caller between the cap check and docker run was there before, or has just
\* been let through.
LEMMA EnvFileShape ==
  ASSUME Types, [Next]_vars, NEW q \in Callers, pc'[q] \in {"envFile", "run"}
  PROVE  \/ pc[q] \in {"envFile", "run"} /\ arg'[q] = arg[q]
         \/ BelowCap(q) /\ arg'[q] = arg[q]
<1> USE DEF Types
<1>1. CASE UNCHANGED local
  BY <1>1 DEF local
<1>2. ASSUME NEW p \in Callers,
             (\E r \in Repos : BeginAdmitted(p, r)) \/ Lock(p) \/ NoIdle(p) \/ Ps(p)
             \/ WriteEnvFile(p) \/ (\E c \in Containers : RunCreate(p, c)) \/ RunStart(p)
      PROVE  pc[q] \in {"envFile", "run"} /\ arg'[q] = arg[q]
  BY <1>2 DEF BeginAdmitted, Lock, NoIdle, Ps, WriteEnvFile, RunCreate, RunStart, Goto
<1>3. ASSUME NEW p \in Callers, NEW o \in Outcomes, Return(p, o)
      PROVE  pc[q] \in {"envFile", "run"} /\ arg'[q] = arg[q]
  BY <1>3 DEF Return, Goto
<1>4. ASSUME NEW p \in Callers, BelowCap(p)
      PROVE  (pc[q] \in {"envFile", "run"} \/ BelowCap(q)) /\ arg'[q] = arg[q]
  BY <1>4 DEF BelowCap, Goto
<1>5. ASSUME NEW p \in Callers,
             \/ IdleSkip(p) \/ CountFailed(p) \/ CapHit(p) \/ DrySpawn(p)
             \/ EnvFileFailed(p) \/ RunOK(p) \/ RunError(p) \/ RunKilled(p)
      PROVE  \E o \in Outcomes : Return(p, o)
  BY <1>5 DEF IdleSkip, CountFailed, CapHit, DrySpawn, EnvFileFailed, RunOK, RunError, RunKilled, Outcomes
<1>6. CASE Restart
  BY <1>6 DEF Restart
<1>7. CASE Pause \/ Resume \/ \E p \in Callers : BeginPaused(p) \/ ContextDone(p)
  BY <1>1, <1>7 DEF Pause, Resume, BeginPaused, ContextDone
<1>8. CASE \E c \in Containers : LateStart(c) \/ ContainerExit(c) \/ ContainerRemove(c)
  BY <1>1, <1>8 DEF LateStart, ContainerExit, ContainerRemove
<1>9. QED
  BY <1>1, <1>2, <1>3, <1>4, <1>5, <1>6, <1>7, <1>8 DEF Next, Critical, Environment, vars

\* The pool of a repo stays within its cap, with room for the container of the
\* call that Spawn's comparison with MaxConcurrency has let through.
LEMMA PoolStep ==
  ASSUME Types, LockInv, ContInv, CreatedInv, SnapshotInv, PoolInv, [Next]_vars
  PROVE  PoolInv'
<1>1. CASE ~ \E p \in Callers, c \in Containers : RunCreate(p, c)
  <2>1. \A r : Cardinality(OnTime(r)') <= Cardinality(OnTime(r))
    BY <1>1, OnTimeShrinks, OnTimeFinite, FS_Subset
  <2>2. \A r : Cardinality(OnTime(r)) \in Nat /\ Cardinality(OnTime(r)') \in Nat
    BY <1>1, OnTimeShrinks, OnTimeFinite, FS_Subset, FS_CardinalityType
  <2>3. \A r \in Repos : MaxConcurrency[r] \in Nat
    BY SpawnerAssumption
  <2>4. \A r \in Repos : Cardinality(OnTime(r)') <= MaxConcurrency[r]
    BY <2>1, <2>2, <2>3 DEF PoolInv
  <2>5. ASSUME NEW q \in Callers, pc'[q] \in {"envFile", "run"}, NEW r, r = arg'[q]
        PROVE  Cardinality(OnTime(r)') < MaxConcurrency[r]
    <3>1. arg[q] = r /\ r \in Repos
      BY <2>5, EnvFileShape DEF BelowCap, LockInv
    <3>2. Cardinality(OnTime(r)) < MaxConcurrency[r]
      BY <2>5, <3>1, EnvFileShape, CapCheck DEF PoolInv
    <3>3. QED  BY <2>1, <2>2, <2>3, <3>1, <3>2
  <2>6. \A q \in Callers : pc'[q] \in {"envFile", "run"} =>
           Cardinality(OnTime(arg[q])') < MaxConcurrency[arg'[q]]
    BY <2>5 DEF OnTime
  <2>7. QED  BY <2>4, <2>6 DEF PoolInv
<1>2. ASSUME NEW p \in Callers, NEW c \in Containers, RunCreate(p, c)
      PROVE  PoolInv'
  <2>1. /\ arg' = arg /\ pc[p] = "run" /\ arg[p] \in Repos
        /\ \A q \in Callers : q # p => pc'[q] = pc[q]
        /\ pc'[p] = "start"
    BY <1>2, OnTimeGrows DEF RunCreate, Goto, Types
  <2>2. Cardinality(OnTime(arg[p])) < MaxConcurrency[arg[p]]
    BY <2>1 DEF PoolInv
  <2>3. Cardinality(OnTime(arg[p])') <= MaxConcurrency[arg[p]]
    <3>1. Cardinality(OnTime(arg[p]) \cup {c}) = Cardinality(OnTime(arg[p])) + 1
      BY <1>2, OnTimeGrows, OnTimeFinite, FS_AddElement
    <3>2. MaxConcurrency[arg[p]] \in Nat
      BY <2>1, SpawnerAssumption
    <3>3. OnTime(arg[p])' = OnTime(arg[p]) \cup {c}
      BY <1>2, OnTimeGrows
    <3>4. QED  BY <2>2, <3>1, <3>2, <3>3, OnTimeFinite
  <2>4. \A r \in Repos : Cardinality(OnTime(r)') <= MaxConcurrency[r]
    <3>1. TAKE r \in Repos
    <3>2. CASE r = arg[p]
      BY <2>1, <2>3, <3>2
    <3>3. CASE r # arg[p]
      BY <1>2, <3>3, OnTimeGrows DEF PoolInv
    <3>4. QED  BY <3>2, <3>3
  <2>5. ASSUME NEW q \in Callers, pc'[q] \in {"envFile", "run"}, NEW r, r = arg'[q]
        PROVE  Cardinality(OnTime(r)') < MaxConcurrency[r]
    <3>1. q # p /\ pc[q] \in {"envFile", "run"} /\ arg[q] = r
      BY <2>1, <2>5
    <3>2. r # arg[p]
      BY <2>1, <3>1 DEF LockInv, Locked
    <3>3. OnTime(r)' = OnTime(r)
      BY <1>2, <3>2, OnTimeGrows
    <3>4. QED  BY <3>1, <3>3 DEF PoolInv
  <2>6. \A q \in Callers : pc'[q] \in {"envFile", "run"} =>
           Cardinality(OnTime(arg[q])') < MaxConcurrency[arg'[q]]
    BY <2>5 DEF OnTime
  <2>7. QED  BY <2>4, <2>6 DEF PoolInv
<1>3. QED  BY <1>1, <1>2

-----------------------------------------------------------------------------
(* The theorems.                                                           *)

\* The inductive invariant holds of a process that has just started, ...
LEMMA IInvInit == Init => IInv
<1> SUFFICES ASSUME Init PROVE IInv
  OBVIOUS
<1>1. Types
  <2>1. mu \in [Repos -> Callers \cup {None}] /\ stats \in [Outcomes -> Nat]
    BY DEF Init
  <2>2. pc \in [Callers -> PCs] /\ arg \in [Callers -> Repos \cup {None}]
    BY DEF Init, PCs
  <2>3. ids \in [Callers -> SUBSET Containers] /\ cont \in [Callers -> Containers \cup {None}]
    BY DEF Init
  <2>4. /\ cstate \in [Containers -> {"none", "created", "running", "exited", "gone"}]
        /\ crepo \in [Containers -> Repos \cup {None}]
        /\ pausedRuns \in [Callers -> Nat]
    BY DEF Init
  <2>5. calls \in Nat /\ restarts \in Nat
    BY DEF Init
  <2>6. dryRun \in BOOLEAN /\ paused \in BOOLEAN /\ done \subseteq Callers /\ cutOff \subseteq Containers
        /\ envFiles \subseteq EnvFile
    <3>1. DryRunFlags \subseteq BOOLEAN  BY SpawnerAssumption
    <3>2. QED  BY <3>1, Zenon DEF Init
  <2>7. QED  BY <2>1, <2>2, <2>3, <2>4, <2>5, <2>6 DEF Types
<1>2. LockInv /\ ContInv
  BY SpawnerAssumption DEF Init, LockInv, ContInv, Locked
<1>3. CreatedInv /\ SnapshotInv
  BY DEF Init, CreatedInv, SnapshotInv
<1>4. PoolInv
  <2>1. \A r : OnTime(r) = {}
    BY DEF Init, OnTime
  <2>2. \A p \in Callers : pc[p] = "idle"
    BY DEF Init
  <2>3. \A r \in Repos : MaxConcurrency[r] \in Nat
    BY SpawnerAssumption
  <2>4. QED  BY <2>1, <2>2, <2>3, FS_EmptySet DEF PoolInv
<1>5. QED  BY <1>1, <1>2, <1>3, <1>4 DEF IInv

\* ... each step of Spawn, of the daemon and of an operator preserves it, ...
LEMMA IInvStep == IInv /\ [Next]_vars => IInv'
<1> SUFFICES ASSUME IInv, [Next]_vars PROVE IInv'
  OBVIOUS
<1> USE DEF IInv
<1>1. Types'
  <2>1. CASE UNCHANGED vars
    BY <2>1 DEF Types, vars, local, docker
  <2>2. CASE Next
    BY <2>2, TypeOutside, TypeCritical DEF Next
  <2>3. QED  BY <2>1, <2>2
<1>2. LockInv'      BY LockStep
<1>3. ContInv'      BY ContStep
<1>4. CreatedInv'   BY CreatedStep
<1>5. SnapshotInv'  BY SnapshotStep
<1>6. PoolInv'      BY PoolStep
<1>7. QED  BY <1>1, <1>2, <1>3, <1>4, <1>5, <1>6

\* ... and so it always holds.
LEMMA Invariance == Spec => []IInv
BY IInvInit, IInvStep, PTL DEF Spec

\* Every variable of the spawner keeps its type, and a repo's mutex is held exactly
\* by the one call in its critical section.  It is not inductive: a restart or a
\* killed docker run gives up the container of a caller, so the caller must have
\* one (ContInv).
THEOREM TypeCorrect == Spec => []TypeOK
<1>1. IInv => TypeOK
  BY DEF IInv, Types, LockInv, TypeOK, Holders
<1>2. QED  BY <1>1, Invariance, PTL

\* The per-repo mutex makes the check of the cap and the docker run one step:
\* for any number of goroutines, repos and containers, and any caps, the
\* containers started by a docker run that was seen through stay within it.
THEOREM CapIsHeld == Spec => []CapHeld
<1>1. IInv => CapHeld
  <2> SUFFICES ASSUME IInv, NEW r \in Repos
               PROVE  Cardinality(Running(r) \ cutOff) <= MaxConcurrency[r]
    BY DEF CapHeld
  <2>1. Running(r) \ cutOff \subseteq OnTime(r)
    BY DEF Running, OnTime
  <2>2. /\ Cardinality(Running(r) \ cutOff) \in Nat
        /\ Cardinality(Running(r) \ cutOff) <= Cardinality(OnTime(r))
    BY <2>1, OnTimeFinite, FS_Subset, FS_CardinalityType
  <2>3. Cardinality(OnTime(r)) <= MaxConcurrency[r] /\ MaxConcurrency[r] \in Nat
    BY SpawnerAssumption DEF IInv, PoolInv
  <2>4. QED  BY <2>2, <2>3, OnTimeFinite
<1>2. QED  BY <1>1, Invariance, PTL

\* The spawner, the daemon and the process together implement the pool: a
\* container enters the pool of its repo only below the cap, as a new one.
THEOREM Refinement == Spec => ImplementsPool
<1> DEFINE live  == [r \in Repos |-> OnTime(r)]
           spent == {c \in Containers : cstate[c] # "none"}
<1>1. Init => Pool!Init
  <2> SUFFICES ASSUME Init PROVE Pool!Init
    OBVIOUS
  <2>1. \A r : OnTime(r) = {}
    BY DEF Init, OnTime
  <2>2. {c \in Containers : cstate[c] # "none"} = {}
    BY DEF Init
  <2>3. QED  BY <2>1, <2>2 DEF Pool!Init
<1>2. IInv /\ [Next]_vars => [Pool!Next]_<<live, spent>>
  <2> SUFFICES ASSUME IInv, [Next]_vars PROVE Pool!Next
    OBVIOUS
  <2> USE DEF IInv
  <2>1. CASE ~ \E p \in Callers, c \in Containers : RunCreate(p, c)
    <3> DEFINE gone == {c \in Containers : \E r \in Repos : c \in OnTime(r) /\ c \notin OnTime(r)'}
    <3>1. ASSUME NEW r \in Repos  PROVE OnTime(r)' = OnTime(r) \ gone
      <4>1. OnTime(r)' \subseteq OnTime(r)
        BY <2>1, OnTimeShrinks
      <4>2. \A c \in OnTime(r) : c \in gone <=> c \notin OnTime(r)'
        BY DEF OnTime
      <4>3. QED  BY <4>1, <4>2
    <3>2. spent' = spent
      BY <2>1, OnTimeShrinks
    <3>3. live' = [r \in Repos |-> live[r] \ gone]
      BY <3>1
    <3>4. gone \in SUBSET Containers
      OBVIOUS
    <3> HIDE DEF gone
    <3>5. Pool!Retire(gone)
      BY <3>2, <3>3 DEF Pool!Retire
    <3>6. QED  BY <3>4, <3>5 DEF Pool!Next
  <2>2. ASSUME NEW p \in Callers, NEW c \in Containers, RunCreate(p, c)
        PROVE  Pool!Next
    <3>1. PICK s \in Repos : s = arg[p]
      BY <2>2, OnTimeGrows
    <3>2. OnTime(s)' = OnTime(s) \cup {c}
      <4>1. OnTime(arg[p])' = OnTime(s)'
        BY <2>2, <3>1 DEF RunCreate, OnTime
      <4>2. QED  BY <2>2, <3>1, <4>1, OnTimeGrows
    <3>3. \A r : r # s => OnTime(r)' = OnTime(r)
      BY <2>2, <3>1, OnTimeGrows
    <3>4. c \notin spent /\ spent' = spent \cup {c}
      BY <2>2 DEF RunCreate, Types
    <3>5. Cardinality(live[s]) < MaxConcurrency[s]
      BY <2>2, <3>1 DEF RunCreate, PoolInv
    <3>6. live' = [live EXCEPT ![s] = @ \cup {c}]
      BY <3>2, <3>3
    <3>7. Pool!Cardinality(live[s]) = Cardinality(live[s])
      BY DEF Pool!Cardinality, Cardinality
    <3>8. Pool!Admit(s, c)
      BY <3>4, <3>5, <3>6, <3>7 DEF Pool!Admit
    <3>9. QED  BY <3>8 DEF Pool!Next
  <2>3. QED  BY <2>1, <2>2
<1>3. QED  BY <1>1, <1>2, Invariance, PTL DEF Spec, ImplementsPool, Pool!Spec
=============================================================================
