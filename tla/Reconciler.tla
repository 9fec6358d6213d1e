----------------------------- MODULE Reconciler -----------------------------
(***************************************************************************)
(* internal/reconciler and the webhook path, for one repo: how the queued  *)
(* jobs of GitHub come by their runners.  Events announce queued jobs, and *)
(* may be lost, late or repeated; reconcile passes look for queued jobs,   *)
(* in requests during which the queue moves on; both call Spawner.Spawn.   *)
(*                                                                         *)
(* Spawn appears here with the idle check and the rest of it as two steps  *)
(* under the mutex of the repo: module Spawner has the details, and shows  *)
(* that a docker run that is seen through stays within the cap.            *)
(*                                                                         *)
(* Runners of other origin ("static pool") may be registered with one of   *)
(* our labels; each can take some of the matching jobs.  Jobs that do not  *)
(* match our labels run elsewhere.                                         *)
(***************************************************************************)
EXTENDS Integers, FiniteSets

CONSTANTS
  Jobs,          \* workflow jobs of the repo, each queued once
  Runs,          \* its workflow runs
  RunOf,         \* the run of each job
  Matching,      \* the jobs with one of our match_labels
  Static,        \* other runners with one of our match_labels
  Serves,        \* the matching jobs each of them has all labels for
  MaxConcurrency,
  Passes,        \* reconcile goroutines for this repo: periodic and manual
  Reader,        \* the goroutine that reads smee events and dispatches them (Smee)
  None,
  MaxFaults      \* bound on failed calls, dying runners and faults

ASSUME ReconcilerAssumption ==
  /\ IsFiniteSet(Jobs)
  /\ RunOf \in [Jobs -> Runs]
  /\ Matching \subseteq Jobs
  /\ Serves \in [Static -> SUBSET Matching]
  /\ MaxConcurrency \in Nat \ {0}
  /\ Reader \notin Passes
  /\ None \notin Passes \cup {Reader}
  /\ MaxFaults \in Nat

VARIABLES
  job,       \* the status of each job
  pool,      \* how many of our containers are in each state
  static,    \* the state of each runner of other origin
  mu,        \* the goroutine that holds the mutex of the repo
  pc,        \* where each goroutine is
  avail,     \* capacity each pass has found
  todo,      \* entries of the two lists a pass has still to look into
  toSpawn,   \* matching jobs a pass has counted, then runners it is still to spawn
  waiting,   \* jobs queued since before the requests of the pass, which it
             \* has had no error for (history)
  faults     \* failures so far (history)

runners == <<pool, static>>
counted == <<avail, todo, toSpawn, waiting>>
vars    == <<job, runners, mu, pc, counted, faults>>

Callers == Passes \cup {Reader}

TypeOK ==
  /\ job \in [Jobs -> {"none", "queued", "running", "done"}]
  /\ pool \in [{"booting", "idle", "busy"} -> 0..MaxConcurrency]
  /\ static \in [Static -> {"idle", "busy", "gone"}]
  /\ mu \in Callers \cup {None}
  /\ pc \in [Callers -> {"idle", "queued", "in_progress", "jobs", "lock", "check", "run"}]
  /\ avail \in [Passes -> 0..MaxConcurrency]
  /\ todo \in [Passes -> SUBSET (Runs \X {"queued", "in_progress"})]
  /\ toSpawn \in [Passes -> 0..MaxConcurrency]
  /\ waiting \in [Passes -> SUBSET Matching]
  /\ faults \in Nat

Init ==
  /\ job = [j \in Jobs |-> "none"]
  /\ pool = [s \in {"booting", "idle", "busy"} |-> 0]
  /\ static = [n \in Static |-> "idle"]
  /\ mu = None
  /\ pc = [p \in Callers |-> "idle"]
  /\ avail = [g \in Passes |-> 0]
  /\ todo = [g \in Passes |-> {}]
  /\ toSpawn = [g \in Passes |-> 0]
  /\ waiting = [g \in Passes |-> {}]
  /\ faults = 0

\* Something fails.
Fault == faults < MaxFaults /\ faults' = faults + 1

AtMost(m, n) == IF m <= n THEN m ELSE n

Goto(p, label) == pc' = [pc EXCEPT ![p] = label]

Queued(w) == {j \in Matching : RunOf[j] = w /\ job[j] = "queued"}

\* A run is in progress from the start of its first job to the end of its last.
Status(w) ==
  LET jobs == {j \in Jobs : RunOf[j] = w} IN
  CASE \A j \in jobs : job[j] \in {"none", "queued"} ->
         IF \E j \in jobs : job[j] = "queued" THEN "queued" ELSE "none"
    [] \A j \in jobs : job[j] = "done" -> "completed"
    [] OTHER -> "in_progress"

Live == pool["booting"] + pool["idle"] + pool["busy"]

-----------------------------------------------------------------------------
(* reconcileRepo, in the goroutine g.                                      *)

\* CountRunning, and what is left of the cap.
CountCapacity(g, running) ==
  /\ pc[g] = "idle"
  /\ running < MaxConcurrency
  /\ avail' = [avail EXCEPT ![g] = MaxConcurrency - running]
  /\ Goto(g, "queued")
  /\ UNCHANGED <<job, runners, mu, todo, toSpawn, waiting>>

StartPass(g) == CountCapacity(g, Live) /\ UNCHANGED faults

\* No capacity is left: the pass is over.
NoCapacity(g) ==
  /\ pc[g] = "idle"
  /\ Live >= MaxConcurrency
  /\ UNCHANGED vars

\* (mutant) An error of docker is answered with -1.
StartPassMinusOne(g) == CountCapacity(g, -1) /\ Fault

\* CountRunning takes an error of docker for "none is running".
StartPassBlind(g) == CountCapacity(g, 0) /\ Fault

\* (mutant) The two lists are asked for in the other order.
FirstInProgress == <<"in_progress", "queued">>

\* The lists of listQueuedRunIDs, in the order it asks for them.
Lists == <<"queued", "in_progress">>

Listing(status) == {<<w, status>> : w \in {v \in Runs : Status(v) = status}}

ListFirst(g) ==
  /\ pc[g] = "queued"
  /\ todo' = [todo EXCEPT ![g] = Listing(Lists[1])]
  /\ waiting' = [waiting EXCEPT ![g] = {j \in Matching : job[j] = "queued"}]
  /\ Goto(g, "in_progress")
  /\ UNCHANGED <<job, runners, mu, avail, toSpawn, faults>>

\* The pass has counted n matching jobs and has the runs rest left: it stops
\* when n reaches the capacity, or nothing is left, and then spawns n runners.
\* It could not count the jobs missed.
Counted(g, n, rest, missed) ==
  LET over == rest = {} \/ n = avail[g] IN
  /\ toSpawn' = [toSpawn EXCEPT ![g] = n]
  /\ todo' = [todo EXCEPT ![g] = IF over THEN {} ELSE rest]
  /\ avail' = [avail EXCEPT ![g] = IF over THEN 0 ELSE @]
  /\ waiting' = [waiting EXCEPT ![g] = IF over THEN {} ELSE @ \ missed]
  /\ Goto(g, CASE ~over -> "jobs"
               [] over /\ n = 0 -> "idle"
               [] over /\ n # 0 -> "lock")

\* (mutant) Only runs that are queued as a whole are looked into.
ListSecondIgnored(g) ==
  /\ pc[g] = "in_progress"
  /\ Counted(g, 0, todo[g], {})
  /\ UNCHANGED <<job, runners, mu, faults>>

ListSecond(g) ==
  /\ pc[g] = "in_progress"
  /\ Counted(g, 0, todo[g] \cup Listing(Lists[2]), {})
  /\ UNCHANGED <<job, runners, mu, faults>>

\* An error of either request ends the pass.
ListFailed(g) ==
  /\ pc[g] \in {"queued", "in_progress"}
  /\ Fault
  /\ Counted(g, 0, {}, {})
  /\ UNCHANGED <<job, runners, mu>>

\* The pass looks into the runs of the first list, then into those of the second.
InTurn(g, e) ==
  /\ pc[g] = "jobs" /\ e \in todo[g]
  /\ e[2] = Lists[1] \/ \A f \in todo[g] : f[2] = Lists[2]

\* listRunJobs of one run, and the matching queued jobs among them.
ListJobs(g, e) ==
  /\ InTurn(g, e)
  /\ Counted(g, AtMost(toSpawn[g] + Cardinality(Queued(e[1])), avail[g]), todo[g] \ {e}, {})
  /\ UNCHANGED <<job, runners, mu, faults>>

\* An error leaves out the run.
ListJobsFailed(g, e) ==
  /\ InTurn(g, e)
  /\ Fault
  /\ Counted(g, toSpawn[g], todo[g] \ {e}, {j \in Jobs : RunOf[j] = e[1]})
  /\ UNCHANGED <<job, runners, mu>>

-----------------------------------------------------------------------------
(* webhook.Dispatch, in the reader's goroutine: one event at a time.  The   *)
(* event of a queued job is lost if it is never dispatched.                *)

Dispatch(j) ==
  /\ pc[Reader] = "idle"
  /\ j \in Matching /\ job[j] # "none"
  /\ Goto(Reader, "lock")
  /\ UNCHANGED <<job, runners, mu, counted, faults>>

-----------------------------------------------------------------------------
(* Spawner.Spawn, called by the reader or in the spawn loop of a pass.     *)

\* Spawn returns; a pass has so many iterations left.
Return(p, left) ==
  /\ mu' = None
  /\ toSpawn' = IF p = Reader THEN toSpawn ELSE [toSpawn EXCEPT ![p] = left]
  /\ Goto(p, IF p = Reader \/ left = 0 THEN "idle" ELSE "lock")

\* (mutant) The loop counts what it has spawned, and only that.
ReturnOKUncounted(p) == Return(p, toSpawn[p])

ReturnOK(p) == Return(p, toSpawn[p] - 1)

\* An error ends the pass.
ReturnError(p) == Return(p, 0)

Lock(p) ==
  /\ pc[p] = "lock"
  /\ mu = None
  /\ mu' = p
  /\ Goto(p, "check")
  /\ UNCHANGED <<job, runners, counted, faults>>

\* Any idle runner with one of the match labels will do.
IdleRunner == pool["idle"] > 0 \/ \E n \in Static : static[n] = "idle"

IdleSkip(p) ==
  /\ pc[p] = "check" /\ IdleRunner
  /\ ReturnOK(p)
  /\ UNCHANGED <<job, runners, avail, todo, waiting, faults>>

NoIdle(p) ==
  /\ pc[p] = "check" /\ ~IdleRunner
  /\ Goto(p, "run")
  /\ UNCHANGED <<job, runners, mu, counted, faults>>

\* The request fails: Spawn goes on all the same.
IdleUnknown(p) ==
  /\ pc[p] = "check"
  /\ Fault
  /\ Goto(p, "run")
  /\ UNCHANGED <<job, runners, mu, counted>>

RunOK(p) ==
  /\ pc[p] = "run" /\ Live < MaxConcurrency
  /\ pool' = [pool EXCEPT !["booting"] = @ + 1]
  /\ ReturnOK(p)
  /\ UNCHANGED <<job, static, avail, todo, waiting, faults>>

CapHit(p) ==
  /\ pc[p] = "run" /\ Live >= MaxConcurrency
  /\ ReturnError(p)
  /\ UNCHANGED <<job, runners, avail, todo, waiting, faults>>

\* An error of docker.
RunFailed(p) ==
  /\ pc[p] = "run"
  /\ Fault
  /\ ReturnError(p)
  /\ UNCHANGED <<job, runners, avail, todo, waiting>>

SpawnStep(p) ==
  \/ IdleSkip(p) \/ NoIdle(p) \/ IdleUnknown(p)
  \/ RunOK(p) \/ CapHit(p) \/ RunFailed(p)

PassStep(g) ==
  \/ ListFirst(g) \/ ListSecond(g) \/ ListFailed(g)
  \/ \E e \in todo[g] : ListJobs(g, e) \/ ListJobsFailed(g, e)

\* The process ends and is started again.
Restart ==
  /\ Fault
  /\ mu' = None
  /\ pc' = [p \in Callers |-> "idle"]
  /\ avail' = [g \in Passes |-> 0]
  /\ todo' = [g \in Passes |-> {}]
  /\ toSpawn' = [g \in Passes |-> 0]
  /\ waiting' = [g \in Passes |-> {}]
  /\ UNCHANGED <<job, runners>>

-----------------------------------------------------------------------------
(* GitHub and the runners.                                                 *)

Enqueue(j) ==
  /\ job[j] = "none"
  /\ job' = [job EXCEPT ![j] = "queued"]
  /\ UNCHANGED <<runners, mu, pc, counted, faults>>

\* A job leaves the queue.
Unqueue(j, status) ==
  /\ job[j] = "queued"
  /\ job' = [job EXCEPT ![j] = status]
  /\ waiting' = [g \in Passes |-> waiting[g] \ {j}]
  /\ UNCHANGED <<mu, pc, avail, todo, toSpawn, faults>>

Cancel(j) == Unqueue(j, "done") /\ UNCHANGED runners

StartElsewhere(j) ==
  /\ j \notin Matching
  /\ Unqueue(j, "running") /\ UNCHANGED runners

\* Our runners are taken to have every label a matching job asks for, although
\* a job matches by any one label: the configuration has to see to that.
Assign(j) ==
  /\ j \in Matching /\ pool["idle"] > 0
  /\ Unqueue(j, "running")
  /\ pool' = [pool EXCEPT !["idle"] = @ - 1, !["busy"] = @ + 1]
  /\ UNCHANGED static

AssignStatic(j, n) ==
  /\ j \in Serves[n] /\ static[n] = "idle"
  /\ Unqueue(j, "running")
  /\ static' = [static EXCEPT ![n] = "busy"]
  /\ UNCHANGED pool

\* A job ends.
End(j) ==
  /\ job[j] = "running"
  /\ job' = [job EXCEPT ![j] = "done"]
  /\ UNCHANGED <<mu, pc, counted, faults>>

EndElsewhere(j) == j \notin Matching /\ End(j) /\ UNCHANGED runners

\* An ephemeral runner ends with its job, a static one is idle again.  Which
\* of the busy runners had the job does not matter.
Finish(j) ==
  /\ j \in Matching /\ pool["busy"] > 0
  /\ End(j)
  /\ pool' = [pool EXCEPT !["busy"] = @ - 1]
  /\ UNCHANGED static

FinishStatic(j, n) ==
  /\ j \in Matching /\ static[n] = "busy"
  /\ End(j)
  /\ static' = [static EXCEPT ![n] = "idle"]
  /\ UNCHANGED pool

Boot ==
  /\ pool["booting"] > 0
  /\ pool' = [pool EXCEPT !["booting"] = @ - 1, !["idle"] = @ + 1]
  /\ UNCHANGED <<job, static, mu, pc, counted, faults>>

\* A container that has no job fails, or is stopped by an operator.
Exit(state) ==
  /\ pool[state] > 0
  /\ Fault
  /\ pool' = [pool EXCEPT ![state] = @ - 1]
  /\ UNCHANGED <<job, static, mu, pc, counted>>

\* Its operator takes away a static runner.
Retire(n) ==
  /\ static[n] = "idle"
  /\ Fault
  /\ static' = [static EXCEPT ![n] = "gone"]
  /\ UNCHANGED <<job, pool, mu, pc, counted>>

-----------------------------------------------------------------------------
Work ==
  \E j \in Jobs : \/ Assign(j) \/ Finish(j)
                  \/ \E n \in Static : AssignStatic(j, n) \/ FinishStatic(j, n)

Next ==
  \/ \E g \in Passes : NoCapacity(g) \/ StartPass(g) \/ StartPassBlind(g) \/ PassStep(g)
  \/ \E p \in Callers : Lock(p) \/ SpawnStep(p)
  \/ \E j \in Jobs : \/ Dispatch(j) \/ Enqueue(j) \/ Cancel(j)
                     \/ StartElsewhere(j) \/ EndElsewhere(j)
  \/ Boot \/ Work \/ Exit("booting") \/ Exit("idle") \/ \E n \in Static : Retire(n)
  \/ Restart

Spec == Init /\ [][Next]_vars

\* The loop ticks for ever and all calls have deadlines; the mutex is handed to
\* its waiters; runners boot, get queued jobs and finish them.  Failures stop
\* after MaxFaults.  Nothing is assumed of the events.
Fairness ==
  /\ \A g \in Passes : WF_vars(StartPass(g)) /\ WF_vars(PassStep(g))
  /\ \A p \in Callers : SF_vars(Lock(p)) /\ WF_vars(SpawnStep(p))
  /\ WF_vars(Boot) /\ WF_vars(Work)

FairSpec == Spec /\ Fairness

-----------------------------------------------------------------------------
(* Safety.                                                                 *)

\* No straggler is overlooked (reconciler.go:192-201): a pass spawns a runner
\* for every matching job that was in the queue when it began to ask and still
\* is, as far as the capacity goes, although runs change their status between
\* the requests; only the jobs of runs it had an error for are left out.
NoneOverlooked ==
  [][\A g \in Passes :
       /\ ListSecond(g) \/ \E e \in todo[g] : ListJobs(g, e)
       /\ pc'[g] # "jobs"
       => toSpawn'[g] >= AtMost(Cardinality(waiting[g]), avail[g])]_vars

-----------------------------------------------------------------------------
(* Liveness.                                                               *)

\* The orphan-job gap is closed (reconciler.go:1-9): a queued matching job
\* leaves the queue in the end, though all events may be lost, passes fail, the
\* process faults, and runners die or are taken by other jobs.
JobsServed == \A j \in Matching : job[j] = "queued" ~> job[j] # "queued"

\* A pass ends, whatever its calls of Spawn return: the next tick waits for it.
PassesEnd == \A g \in Passes : pc[g] # "idle" ~> pc[g] = "idle"
=============================================================================
