------------------------ MODULE SpawnerRecordsProofs ------------------------
(***************************************************************************)
(* Proofs about what calls of Spawn leave behind: the lifetime counters,   *)
(* the docker runs after a pause, the copies of the PAT on disk, and the   *)
(* answer "cap reached", for any callers, repos, containers and caps.      *)
(***************************************************************************)
EXTENDS SpawnerProofs

\* A caller moves on in Spawn without leaving it.
Advance(p) ==
  \/ Lock(p) \/ NoIdle(p) \/ Ps(p) \/ BelowCap(p) \/ WriteEnvFile(p) \/ RunStart(p)
  \/ \E c \in Containers : RunCreate(p, c)

\* A step that is no caller's: the daemon, a context, the end of a pause.
Elsewhere ==
  /\ UNCHANGED <<mu, stats, local, envFiles, calls, pausedRuns, restarts>>
  /\ paused' => paused

\* The steps of the system as the records see them.
LEMMA CallShape ==
  ASSUME [Next]_vars
  PROVE  \/ Elsewhere \/ Pause \/ Restart
         \/ \E p \in Callers : \/ BeginPaused(p) \/ Advance(p)
                               \/ \E r \in Repos : BeginAdmitted(p, r)
                               \/ \E o \in Outcomes : pc[p] \in Locked /\ Return(p, o)
<1>1. CASE UNCHANGED vars
  BY <1>1 DEF vars, Elsewhere, local
<1>2. ASSUME NEW p \in Callers, Critical(p)
      PROVE  Advance(p) \/ \E o \in Outcomes : pc[p] \in Locked /\ Return(p, o)
  <2>1. pc[p] \in Locked
    BY <1>2, CriticalShape
  <2>2. CASE IdleSkip(p) \/ CountFailed(p) \/ CapHit(p) \/ DrySpawn(p)
    BY <2>1, <2>2 DEF IdleSkip, CountFailed, CapHit, DrySpawn, Outcomes
  <2>3. CASE EnvFileFailed(p) \/ RunOK(p) \/ RunError(p) \/ RunKilled(p)
    BY <2>1, <2>3 DEF EnvFileFailed, RunOK, RunError, RunKilled, Outcomes
  <2>4. QED  BY <1>2, <2>2, <2>3 DEF Critical, Advance
<1>3. ASSUME NEW p \in Callers, ContextDone(p) PROVE Elsewhere
  BY <1>3 DEF ContextDone, Elsewhere, local
<1>4. CASE Resume
  BY <1>4 DEF Resume, Elsewhere, local
<1>5. ASSUME NEW c \in Containers, LateStart(c) \/ ContainerExit(c) \/ ContainerRemove(c)
      PROVE  Elsewhere
  BY <1>5 DEF LateStart, ContainerExit, ContainerRemove, Elsewhere, local
<1>6. QED  BY <1>1, <1>2, <1>3, <1>4, <1>5 DEF Next, Environment, Advance

-----------------------------------------------------------------------------
(* The lifetime counters.                                                  *)

Busy == {p \in Callers : pc[p] # "idle"}

\* The calls in flight are finitely many.
LEMMA BusyFinite == IsFiniteSet(Busy) /\ Cardinality(Busy) \in Nat
BY FS_Subset, FS_CardinalityType, SpawnerAssumption DEF Busy

\* Each call that begins is in flight or counted, and each that ends is counted
\* once: the step of OutcomesAddUp.
LEMMA OutcomesStep ==
  ASSUME Types, OutcomesAddUp, [Next]_vars
  PROVE  OutcomesAddUp'
<1> USE BusyFinite DEF Outcomes
<1>1. /\ calls = stats["spawned"] + stats["capHit"] + stats["errors"] + stats["idleSkip"]
                 + stats["paused"] + Cardinality(Busy)
      /\ stats \in [Outcomes -> Nat] /\ calls \in Nat /\ pc \in [Callers -> PCs]
  BY DEF OutcomesAddUp, Busy, Types
<1> DEFINE AddsUp == calls = stats["spawned"] + stats["capHit"] + stats["errors"]
                           + stats["idleSkip"] + stats["paused"] + Cardinality(Busy)
<1> SUFFICES AddsUp'
  BY DEF OutcomesAddUp, Busy
<1>2. ASSUME UNCHANGED <<stats, calls>>, \A q \in Callers : pc'[q] = "idle" <=> pc[q] = "idle"
      PROVE  AddsUp'
  <2>1. Busy' = Busy
    BY <1>2 DEF Busy
  <2>2. QED  BY <1>1, <1>2, <2>1
<1>3. CASE Elsewhere \/ Pause
  BY <1>2, <1>3 DEF Elsewhere, Pause, local
<1>4. CASE Restart
  <2>1. Busy' = {}
    BY <1>4 DEF Restart, Busy
  <2>2. calls' = 0 /\ \A o \in Outcomes : stats'[o] = 0
    BY <1>4 DEF Restart
  <2>3. QED  BY <2>1, <2>2, FS_EmptySet
<1>5. ASSUME NEW p \in Callers, BeginPaused(p)
      PROVE  AddsUp'
  <2>1. Busy' = Busy
    BY <1>5 DEF BeginPaused, Busy, local
  <2>2. calls' = calls + 1 /\ stats' = [stats EXCEPT !["paused"] = @ + 1]
    BY <1>5 DEF BeginPaused, Count
  <2>3. QED  BY <1>1, <2>1, <2>2
<1>6. ASSUME NEW p \in Callers, NEW r \in Repos, BeginAdmitted(p, r)
      PROVE  AddsUp'
  <2>1. Busy' = Busy \cup {p} /\ p \notin Busy
    BY <1>1, <1>6 DEF BeginAdmitted, Goto, Busy
  <2>2. Cardinality(Busy') = Cardinality(Busy) + 1
    BY <2>1, FS_AddElement
  <2>3. QED  BY <1>1, <1>6, <2>2 DEF BeginAdmitted
<1>7. ASSUME NEW p \in Callers, Advance(p)
      PROVE  AddsUp'
  <2>1. UNCHANGED <<stats, calls>>
    BY <1>7 DEF Advance, Lock, NoIdle, Ps, BelowCap, WriteEnvFile, RunStart, RunCreate
  <2>2. pc[p] # "idle" /\ \E l \in PCs : l # "idle" /\ Goto(p, l)
    BY <1>7 DEF Advance, Lock, NoIdle, Ps, BelowCap, WriteEnvFile, RunStart, RunCreate, PCs, Locked
  <2>3. \A q \in Callers : pc'[q] = "idle" <=> pc[q] = "idle"
    BY <1>1, <2>2 DEF Goto
  <2>4. QED  BY <1>2, <2>1, <2>3
<1>8. ASSUME NEW p \in Callers, NEW o \in Outcomes, pc[p] \in Locked, Return(p, o)
      PROVE  AddsUp'
  <2>1. Busy' = Busy \ {p} /\ p \in Busy
    BY <1>1, <1>8 DEF Return, Goto, Busy, Locked
  <2>2. Cardinality(Busy') = Cardinality(Busy) - 1
    BY <2>1, FS_RemoveElement
  <2>3. calls' = calls /\ stats' = [stats EXCEPT ![o] = @ + 1]
    BY <1>8 DEF Return, Count
  <2>4. QED  BY <1>1, <2>2, <2>3
<1>9. QED  BY <1>3, <1>4, <1>5, <1>6, <1>7, <1>8, CallShape

\* However calls overlap, fail, are refused by a pause or are cut off by a
\* restart, the lifetime counters of spawner.go:87-92 and the calls in flight
\* account for every call of Spawn, once.
THEOREM OutcomesCounted == Spec => []OutcomesAddUp
<1>1. Init => OutcomesAddUp
  <2> SUFFICES ASSUME Init PROVE OutcomesAddUp
    OBVIOUS
  <2>1. {p \in Callers : pc[p] # "idle"} = {}
    BY DEF Init
  <2>2. calls = 0 /\ \A o \in Outcomes : stats[o] = 0
    BY DEF Init
  <2>3. QED  BY <2>1, <2>2, FS_EmptySet DEF OutcomesAddUp, Outcomes
<1>2. TypeOK => Types
  BY DEF TypeOK
<1>3. QED  BY <1>1, <1>2, OutcomesStep, TypeCorrect, PTL DEF Spec

-----------------------------------------------------------------------------
(* Pausing.                                                                *)

\* During a pause a call that has yet to come to its docker run has made none.
PauseInv ==
  \A p \in Callers :
    /\ pausedRuns[p] <= 1
    /\ paused /\ pc[p] \notin {"idle", "start", "started"} => pausedRuns[p] = 0

\* No call comes past the flag during a pause, and each has one docker run.
LEMMA PauseStep ==
  ASSUME Types, PauseInv, [Next]_vars
  PROVE  PauseInv'
<1> USE DEF Types, PauseInv
<1>1. CASE Elsewhere
  BY <1>1 DEF Elsewhere, local
<1>2. CASE Pause \/ Restart
  BY <1>2 DEF Pause, Restart
<1>3. ASSUME NEW p \in Callers, BeginPaused(p) PROVE PauseInv'
  BY <1>3 DEF BeginPaused, local
<1>4. ASSUME NEW p \in Callers, NEW r \in Repos, BeginAdmitted(p, r) PROVE PauseInv'
  BY <1>4 DEF BeginAdmitted
<1>5. ASSUME NEW p \in Callers, NEW o \in Outcomes, Return(p, o) PROVE PauseInv'
  BY <1>5 DEF Return, Goto
<1>6. ASSUME NEW p \in Callers, NEW c \in Containers, RunCreate(p, c) PROVE PauseInv'
  <2>1. /\ pc[p] = "run" /\ UNCHANGED paused
        /\ pc' = [pc EXCEPT ![p] = "start"]
        /\ pausedRuns' = IF paused THEN [pausedRuns EXCEPT ![p] = @ + 1] ELSE pausedRuns
    BY <1>6 DEF RunCreate, Goto
  <2>2. CASE paused
    BY <2>1, <2>2
  <2>3. CASE ~paused
    BY <2>1, <2>3
  <2>4. QED  BY <2>2, <2>3
<1>7. ASSUME NEW p \in Callers, Lock(p) \/ NoIdle(p) \/ Ps(p) \/ BelowCap(p) \/ WriteEnvFile(p)
      PROVE  PauseInv'
  BY <1>7 DEF Lock, NoIdle, Ps, BelowCap, WriteEnvFile, Goto
<1>8. ASSUME NEW p \in Callers, RunStart(p) PROVE PauseInv'
  BY <1>8 DEF RunStart, Goto
<1>9. QED  BY <1>1, <1>2, <1>3, <1>4, <1>5, <1>6, <1>7, <1>8, CallShape DEF Advance

\* After a pause each goroutine starts at most one more container, though the
\* reconciler calls Spawn in a loop (the check of the flag, spawner.go:140-143).
THEOREM PauseHolds == Spec => []PauseBites
<1>1. Init => PauseInv
  BY DEF Init, PauseInv
<1>2. PauseInv => PauseBites
  BY DEF PauseInv, PauseBites
<1>3. TypeOK => Types
  BY DEF TypeOK
<1>4. QED  BY <1>1, <1>2, <1>3, PauseStep, TypeCorrect, PTL DEF Spec

-----------------------------------------------------------------------------
(* The env-files.                                                          *)

\* No file is from a process still to come.
EnvInv == EnvFilesScoped /\ \A f \in envFiles : f.boot <= restarts

\* The mutex of a repo has one holder, which unlinks its file before the unlock;
\* what a killed process leaves behind carries its own boot.
LEMMA EnvStep ==
  ASSUME Types, LockInv, EnvInv, [Next]_vars
  PROVE  EnvInv'
<1> USE DEF EnvInv, EnvFilesScoped
<1>1. \A f \in envFiles : f.caller \in Callers /\ f.boot \in Nat
  BY DEF Types, EnvFile
<1>2. ASSUME UNCHANGED <<envFiles, restarts>>,
             \A q \in Callers : pc[q] \in {"run", "start", "started"} =>
                pc'[q] \in {"run", "start", "started"} /\ arg'[q] = arg[q]
      PROVE  EnvInv'
  BY <1>1, <1>2
<1>3. CASE Elsewhere \/ Pause
  BY <1>2, <1>3 DEF Elsewhere, Pause, local
<1>4. CASE Restart
  BY <1>1, <1>4 DEF Restart, Types
<1>5. ASSUME NEW p \in Callers, BeginPaused(p) PROVE EnvInv'
  BY <1>2, <1>5 DEF BeginPaused, local
<1>6. ASSUME NEW p \in Callers, NEW r \in Repos, BeginAdmitted(p, r) PROVE EnvInv'
  BY <1>2, <1>6 DEF BeginAdmitted, Goto, Types
<1>7. ASSUME NEW p \in Callers, NEW o \in Outcomes, Return(p, o) PROVE EnvInv'
  BY <1>1, <1>7 DEF Return, Goto, Types
<1>8. ASSUME NEW p \in Callers, WriteEnvFile(p) PROVE EnvInv'
  <2> DEFINE new == [caller |-> p, repo |-> arg[p], boot |-> restarts]
  <2>1. /\ pc[p] = "envFile" /\ UNCHANGED <<arg, restarts>>
        /\ envFiles' = envFiles \cup {new}
        /\ pc' = [pc EXCEPT ![p] = "run"]
    BY <1>8 DEF WriteEnvFile, Goto
  <2>2. ASSUME NEW f \in envFiles, f.repo = arg[p], f.boot = restarts PROVE FALSE
    BY <1>1, <2>1, <2>2 DEF LockInv, Locked
  <2>3. new.caller = p /\ new.repo = arg[p] /\ new.boot = restarts
    OBVIOUS
  <2> HIDE DEF new
  <2>4. \A f, g \in envFiles' : f.repo = g.repo /\ f.boot = g.boot => f = g
    BY <2>1, <2>2, <2>3
  <2>5. ASSUME NEW f \in envFiles', f.boot = restarts'
        PROVE  arg'[f.caller] = f.repo /\ pc'[f.caller] \in {"run", "start", "started"}
    BY <1>1, <2>1, <2>3, <2>5 DEF Types
  <2>6. \A f \in envFiles' : f.boot <= restarts'
    BY <2>1, <2>3 DEF Types
  <2>7. QED  BY <2>4, <2>5, <2>6
<1>9. ASSUME NEW p \in Callers, Lock(p) \/ NoIdle(p) \/ Ps(p) \/ BelowCap(p) PROVE EnvInv'
  BY <1>2, <1>9 DEF Lock, NoIdle, Ps, BelowCap, Goto, Types
<1>10. ASSUME NEW p \in Callers, RunStart(p) \/ \E c \in Containers : RunCreate(p, c) PROVE EnvInv'
  BY <1>2, <1>10 DEF RunStart, RunCreate, Goto, Types
<1>11. QED  BY <1>3, <1>4, <1>5, <1>6, <1>7, <1>8, <1>9, <1>10, CallShape DEF Advance

\* A process has at most one copy of the PAT on disk per repo, and only while
\* that repo's docker run is in progress, whenever processes before it were
\* killed (writePATEnvFile and its cleanup, spawner.go:409-434).
THEOREM EnvFilesAreScoped == Spec => []EnvFilesScoped
<1>1. Init => EnvInv
  BY DEF Init, EnvInv, EnvFilesScoped
<1>2. IInv /\ EnvInv /\ [Next]_vars => EnvInv'
  BY EnvStep DEF IInv
<1>3. EnvInv => EnvFilesScoped
  BY DEF EnvInv
<1>4. QED  BY <1>1, <1>2, <1>3, Invariance, PTL DEF Spec

-----------------------------------------------------------------------------
(* "Cap reached".                                                          *)

\* The docker ps answer a caller holds names containers of its repo only.
IdsInv ==
  \A p \in Callers : pc[p] = "inspect" =>
    \A c \in ids[p] : c \in Containers /\ crepo[c] = arg[p] /\ cstate[c] # "none"

\* Labels are set when a container is created, and never after.
LEMMA LabelsStay ==
  ASSUME Types, ContInv, [Next]_vars, NEW c \in Containers, cstate[c] # "none"
  PROVE  crepo'[c] = crepo[c] /\ cstate'[c] # "none"
<1> USE DEF Types
<1>1. CASE Aside
  BY <1>1 DEF Aside, docker
<1>2. CASE Restart
  BY <1>2 DEF Restart
<1>3. CASE \E p \in Callers : DockerRunStep(p)
  BY <1>3 DEF DockerRunStep, RunCreate, RunStart, RunError, RunKilled
<1>4. CASE \E d \in Containers : DaemonStep(d)
  BY <1>4 DEF DaemonStep, LateStart, ContainerExit, ContainerRemove
<1>5. QED  BY <1>1, <1>2, <1>3, <1>4, StepShape

\* The step of IdsInv: the answer is new, or is still the one of the caller.
LEMMA IdsStep ==
  ASSUME Types, ContInv, IdsInv, [Next]_vars
  PROVE  IdsInv'
<1> SUFFICES ASSUME NEW q \in Callers, pc'[q] = "inspect", NEW c \in ids'[q]
             PROVE  c \in Containers /\ crepo'[c] = arg'[q] /\ cstate'[c] # "none"
  BY DEF IdsInv
<1>1. CASE Ps(q)
  BY <1>1 DEF Ps, Listed, docker, Types
<1>2. CASE pc[q] = "inspect" /\ ids'[q] = ids[q] /\ arg'[q] = arg[q]
  BY <1>2, LabelsStay DEF IdsInv
<1>3. QED  BY <1>1, <1>2, InspectShape

\* Only CapHit counts a reached cap.
LEMMA CapHitShape ==
  ASSUME Types, [Next]_vars, stats'["capHit"] > stats["capHit"]
  PROVE  \E p \in Callers : CapHit(p)
<1> USE DEF Types, Outcomes
<1>1. stats["capHit"] \in Nat
  OBVIOUS
<1>2. ASSUME NEW p \in Callers, NEW o \in Outcomes, o # "capHit", Count(o) PROVE FALSE
  BY <1>1, <1>2 DEF Count
<1>3. ASSUME UNCHANGED stats PROVE FALSE
  BY <1>1, <1>3
<1>4. CASE Elsewhere \/ Pause
  BY <1>3, <1>4 DEF Elsewhere, Pause
<1>5. ~Restart
  BY <1>1 DEF Restart
<1>6. ASSUME NEW p \in Callers, Advance(p) PROVE FALSE
  BY <1>3, <1>6 DEF Advance, Lock, NoIdle, Ps, BelowCap, WriteEnvFile, RunStart, RunCreate
<1>7. ASSUME NEW p \in Callers, (\E r \in Repos : BeginAdmitted(p, r)) PROVE FALSE
  BY <1>3, <1>7 DEF BeginAdmitted
<1>8. ASSUME NEW p \in Callers, BeginPaused(p) PROVE FALSE
  BY <1>2, <1>8 DEF BeginPaused
<1>9. ASSUME NEW p \in Callers, Critical(p) PROVE CapHit(p)
  <2>1. CASE IdleSkip(p) \/ CountFailed(p) \/ DrySpawn(p)
    BY <1>2, <2>1 DEF IdleSkip, CountFailed, DrySpawn, Return
  <2>2. CASE EnvFileFailed(p) \/ RunOK(p) \/ RunError(p) \/ RunKilled(p)
    BY <1>2, <2>2 DEF EnvFileFailed, RunOK, RunError, RunKilled, Return
  <2>3. QED  BY <1>6, <1>9, <2>1, <2>2 DEF Critical, Advance
<1>10. CASE Environment
  <2>1. UNCHANGED stats
    BY <1>5, <1>10 DEF Environment, ContextDone, Pause, Resume, LateStart, ContainerExit,
                       ContainerRemove
  <2>2. QED  BY <1>3, <2>1
<1>11. QED  BY <1>3, <1>6, <1>7, <1>8, <1>9, <1>10 DEF Next, vars, Advance

\* A call is told that the cap is reached only while its own repo has that many
\* containers running: what docker inspect counts are containers of the repo,
\* and their states are new although the list is old (spawner.go:232-260).
THEOREM CapHitIsJustified == Spec => CapHitJustified
<1> DEFINE Step == stats'["capHit"] > stats["capHit"] =>
                     \E r \in Repos : /\ mu[r] # None /\ mu'[r] = None
                                      /\ Cardinality(Running(r)) >= MaxConcurrency[r]
<1>1. Init => IdsInv
  BY DEF Init, IdsInv
<1>2. IInv /\ IdsInv /\ [Next]_vars => IdsInv'
  BY IdsStep DEF IInv
<1>3. IInv /\ IdsInv /\ [Next]_vars => Step
  <2> SUFFICES ASSUME IInv, IdsInv, [Next]_vars, stats'["capHit"] > stats["capHit"]
               PROVE  \E r \in Repos : /\ mu[r] # None /\ mu'[r] = None
                                       /\ Cardinality(Running(r)) >= MaxConcurrency[r]
    OBVIOUS
  <2>1. PICK p \in Callers : CapHit(p)
    BY CapHitShape DEF IInv
  <2>2. arg[p] \in Repos /\ mu[arg[p]] = p /\ pc[p] = "inspect" /\ p # None
    BY <2>1, SpawnerAssumption DEF CapHit, IInv, LockInv, Locked
  <2>3. mu'[arg[p]] = None
    BY <2>1, <2>2 DEF CapHit, Return, IInv, Types
  <2> DEFINE seen == {c \in ids[p] : cstate[c] = "running"}
  <2>4. seen \subseteq Running(arg[p])
    BY <2>2 DEF IdsInv, Running
  <2>5. IsFiniteSet(Running(arg[p])) /\ Cardinality(Running(arg[p])) \in Nat
    BY FS_Subset, FS_CardinalityType, SpawnerAssumption DEF Running
  <2>6. Cardinality(seen) \in Nat /\ Cardinality(seen) <= Cardinality(Running(arg[p]))
    BY <2>4, <2>5, FS_Subset, FS_CardinalityType
  <2>7. Cardinality(seen) >= MaxConcurrency[arg[p]] /\ MaxConcurrency[arg[p]] \in Nat
    BY <2>1, <2>2, SpawnerAssumption DEF CapHit, CountRunning
  <2> HIDE DEF seen
  <2>8. Cardinality(Running(arg[p])) >= MaxConcurrency[arg[p]]
    BY <2>5, <2>6, <2>7
  <2>9. QED  BY <2>2, <2>3, <2>8
<1>4. QED  BY <1>1, <1>2, <1>3, Invariance, PTL DEF Spec, CapHitJustified
=============================================================================
