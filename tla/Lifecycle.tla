----------------------------- MODULE Lifecycle ------------------------------
(***************************************************************************)
(* cmd/autoscaler: main, from loading the configuration to its exit, with  *)
(* the goroutines it starts (the two loops and the HTTP server), those of  *)
(* their ticks, and the ones the portal starts.                            *)
(*                                                                         *)
(* A task <<kind, repo>> is what can be at work for a repo: the dispatch   *)
(* of an event (reader), a goroutine of a tick of one of the loops, or one *)
(* of a manual reconcile.  Of Spawn it has what a shutdown meets: the wait *)
(* for the mutex, which no context ends, the checks, and docker run.       *)
(***************************************************************************)
EXTENDS Config

CONSTANTS
  Files, Env,   \* configuration files and the environment: see Config
  Repos,        \* the names of config.Repos
  Requests,     \* requests to the portal that are handled at once (bound)
  Free          \* no task

Loops   == {"reconcile", "cleanup"}
Callers == {"reader", "reconcile", "manual"}
Tasks   == (Loops \cup Callers) \X Repos

ASSUME LifecycleAssumption == Free \notin Tasks

VARIABLES
  main,       \* where main is, or how the process ended
  cancelled,  \* SIGTERM has cancelled the root context
  loop,       \* where the goroutine of each loop is
  work,       \* what each task does
  mu,         \* Spawner.repoMu: the task that holds the mutex of a repo
  http,       \* where runHTTPServer is
  requests    \* the requests being handled

tasks == <<work, mu>>
web   == <<http, requests>>
vars  == <<main, cancelled, loop, tasks, web>>

Locked  == {"check", "docker"}
Running == main \in {"smee", "drain"}

\* A mutex is held exactly by the one task that is in Spawn's critical section.
TypeOK ==
  /\ main \in {"load", "smee", "drain", "badConfig", "drained", "timedOut"}
  /\ cancelled \in BOOLEAN
  /\ loop \in [Loops -> {"off", "start", "tick", "wait", "done"}]
  /\ work \in [Tasks -> {"none", "run", "lock"} \cup Locked]
  /\ mu \in [Repos -> Tasks \cup {Free}]
  /\ \A t \in Tasks : work[t] \in Locked <=> mu[t[2]] = t
  /\ http \in {"off", "binding", "serving", "shutdown", "closed", "timedOut", "failed"}
  /\ requests \subseteq Requests

Init ==
  /\ main = "load"
  /\ cancelled = FALSE
  /\ loop = [l \in Loops |-> "off"]
  /\ work = [t \in Tasks |-> "none"]
  /\ mu = [r \in Repos |-> Free]
  /\ http = "off" /\ requests = {}

-----------------------------------------------------------------------------
(* main.                                                                   *)

LoadFails ==
  /\ main = "load"
  /\ \E f \in Files : Invalid(WithEnv(f, Env))
  /\ main' = "badConfig"
  /\ UNCHANGED <<cancelled, loop, tasks, web>>

\* A loop whose interval is 0 is not started.
Start ==
  /\ main = "load"
  /\ \E f \in Files : ~Invalid(WithEnv(f, Env))
  /\ main' = "smee"
  /\ \E on \in SUBSET Loops : loop' = [l \in Loops |-> IF l \in on THEN "start" ELSE "done"]
  /\ http' = "binding"
  /\ UNCHANGED <<cancelled, tasks, requests>>

Sigterm ==
  /\ Running /\ ~cancelled
  /\ cancelled' = TRUE
  /\ UNCHANGED <<main, loop, tasks, web>>

\* client.Run is called by main itself: it returns once the reader is back
\* from Dispatch, and only then does the drain begin.
SmeeReturns ==
  /\ main = "smee" /\ cancelled
  /\ \A r \in Repos : work[<<"reader", r>>] = "none"
  /\ main' = "drain"
  /\ UNCHANGED <<cancelled, loop, tasks, web>>

\* wg.Wait() in time, ...
Drained ==
  /\ main = "drain"
  /\ \A l \in Loops : loop[l] = "done"
  /\ http \in {"closed", "timedOut", "failed"}
  /\ main' = "drained"
  /\ UNCHANGED <<cancelled, loop, tasks, web>>

\* ... or the shutdown timeout, with a warning; "shutdown complete" is logged then too.
DrainTimesOut ==
  /\ main = "drain"
  /\ main' = "timedOut"
  /\ UNCHANGED <<cancelled, loop, tasks, web>>

-----------------------------------------------------------------------------
(* Reconciler.Run and Cleaner.Run.                                         *)

\* The first tick comes at once, and after a cancel the select may still take
\* the ticker.
Tick(l) ==
  /\ Running /\ loop[l] \in {"start", "wait"}
  /\ loop' = [loop EXCEPT ![l] = "tick"]
  /\ work' = [t \in Tasks |-> IF t[1] = l THEN "run" ELSE work[t]]
  /\ UNCHANGED <<main, cancelled, mu, web>>

\* (mutant) A tick does not wait for its goroutines once it is cancelled.
TickLeftBehind(l) ==
  /\ Running /\ loop[l] = "tick"
  /\ cancelled \/ \A r \in Repos : work[<<l, r>>] = "none"
  /\ loop' = [loop EXCEPT ![l] = "wait"]
  /\ UNCHANGED <<main, cancelled, tasks, web>>

TickEnds(l) ==
  /\ Running /\ loop[l] = "tick"
  /\ \A r \in Repos : work[<<l, r>>] = "none"
  /\ loop' = [loop EXCEPT ![l] = "wait"]
  /\ UNCHANGED <<main, cancelled, tasks, web>>

LoopStops(l) ==
  /\ Running /\ loop[l] = "wait" /\ cancelled
  /\ loop' = [loop EXCEPT ![l] = "done"]
  /\ UNCHANGED <<main, cancelled, tasks, web>>

-----------------------------------------------------------------------------
(* The tasks.                                                              *)

\* The root context is that of every task but a manual reconcile's.
Cancelled(t) == cancelled /\ t[1] # "manual"

Goto(t, where) == work' = [work EXCEPT ![t] = where]

\* An event that Dispatch takes.
Receive(r) ==
  /\ main = "smee"
  /\ \A s \in Repos : work[<<"reader", s>>] = "none"
  /\ Goto(<<"reader", r>>, "lock")
  /\ UNCHANGED <<main, cancelled, loop, mu, web>>

CallSpawn(t) ==
  /\ Running /\ work[t] = "run" /\ t[1] \in Callers
  /\ Goto(t, "lock")
  /\ UNCHANGED <<main, cancelled, loop, mu, web>>

EndTask(t) ==
  /\ Running /\ work[t] = "run"
  /\ Goto(t, "none")
  /\ UNCHANGED <<main, cancelled, loop, mu, web>>

\* (mutant) repoLock returns a new mutex for each call.
LockPrivate(t) ==
  /\ Running /\ work[t] = "lock"
  /\ mu' = [mu EXCEPT ![t[2]] = t]
  /\ Goto(t, "check")
  /\ UNCHANGED <<main, cancelled, loop, web>>

Lock(t) ==
  /\ Running /\ work[t] = "lock"
  /\ mu[t[2]] = Free
  /\ mu' = [mu EXCEPT ![t[2]] = t]
  /\ Goto(t, "check")
  /\ UNCHANGED <<main, cancelled, loop, web>>

\* The idle check and countRunning.  The latter fails with the context.
CheckPassed(t) ==
  /\ Running /\ work[t] = "check" /\ ~Cancelled(t)
  /\ Goto(t, "docker")
  /\ UNCHANGED <<main, cancelled, loop, mu, web>>

\* Spawn returns nil: an idle-skip, or a docker run, which a cancel may come
\* too late to stop.  A reconcile goes on in its loop.
SpawnOK(t) ==
  /\ Running
  /\ work[t] = "docker" \/ (work[t] = "check" /\ ~Cancelled(t))
  /\ mu' = [mu EXCEPT ![t[2]] = Free]
  /\ Goto(t, IF t[1] = "reader" THEN "none" ELSE "run")
  /\ UNCHANGED <<main, cancelled, loop, web>>

\* (mutant) The error paths of Spawn do not unlock the mutex.
SpawnFailsLocked(t) ==
  /\ Running /\ work[t] \in Locked
  /\ Goto(t, "none")
  /\ UNCHANGED <<main, cancelled, loop, mu, web>>

\* Spawn returns an error: a reconcile gives up, the reader logs it.
SpawnFails(t) ==
  /\ Running /\ work[t] \in Locked
  /\ mu' = [mu EXCEPT ![t[2]] = Free]
  /\ Goto(t, "none")
  /\ UNCHANGED <<main, cancelled, loop, web>>

-----------------------------------------------------------------------------
(* runHTTPServer and the portal.                                           *)

Listens ==
  /\ Running /\ http = "binding"
  /\ http' = "serving"
  /\ UNCHANGED <<main, cancelled, loop, tasks, requests>>

\* The address is taken: the goroutine ends, the process goes on without.
ListenFails ==
  /\ Running /\ http = "binding"
  /\ http' = "failed"
  /\ UNCHANGED <<main, cancelled, loop, tasks, requests>>

Arrive(q) ==
  /\ Running /\ http = "serving"
  /\ q \notin requests
  /\ requests' = requests \cup {q}
  /\ UNCHANGED <<main, cancelled, loop, tasks, http>>

\* Any handler returns: each has a deadline.
Reply(q) ==
  /\ Running /\ q \in requests
  /\ requests' = requests \ {q}
  /\ UNCHANGED <<main, cancelled, loop, tasks, http>>

\* POST /api/reconcile replies at once.  The goroutine it starts, for one
\* repo or all of them, has a context of its own and is in no WaitGroup.
Reconcile(q) ==
  /\ Running /\ q \in requests
  /\ \A r \in Repos : work[<<"manual", r>>] = "none"
  /\ \E rs \in {{r} : r \in Repos} \cup {Repos} :
       work' = [t \in Tasks |-> IF t[1] = "manual" /\ t[2] \in rs THEN "run" ELSE work[t]]
  /\ requests' = requests \ {q}
  /\ UNCHANGED <<main, cancelled, loop, mu, http>>

\* srv.Shutdown: no more requests.
Shutdown ==
  /\ Running /\ http \in {"binding", "serving"} /\ cancelled
  /\ http' = "shutdown"
  /\ UNCHANGED <<main, cancelled, loop, tasks, requests>>

ShutdownReturns ==
  /\ Running /\ http = "shutdown"
  /\ http' = "timedOut" \/ (requests = {} /\ http' = "closed")
  /\ UNCHANGED <<main, cancelled, loop, tasks, requests>>

-----------------------------------------------------------------------------
Web ==
  \/ Listens \/ ListenFails \/ Shutdown \/ ShutdownReturns
  \/ \E q \in Requests : Arrive(q) \/ Reply(q) \/ Reconcile(q)

Next ==
  \/ LoadFails \/ Start \/ Sigterm \/ SmeeReturns \/ Drained \/ DrainTimesOut
  \/ \E l \in Loops : Tick(l) \/ TickEnds(l) \/ LoopStops(l)
  \/ \E r \in Repos : Receive(r)
  \/ \E t \in Tasks : CallSpawn(t) \/ EndTask(t) \/ Lock(t) \/ CheckPassed(t) \/ SpawnOK(t)
                      \/ SpawnFails(t)
  \/ Web

Spec == Init /\ [][Next]_vars

\* Tickers tick, a select that is offered a cancel for ever takes it, the
\* stream of a cancelled request ends, sync.Mutex hands a waiter the lock in
\* the end, and every command and request has a deadline.  A reconcile calls
\* Spawn a bounded number of times, so its loop ends.
Fairness ==
  /\ WF_vars(LoadFails \/ Start) /\ SF_vars(SmeeReturns) /\ WF_vars(Drained \/ DrainTimesOut)
  /\ \A l \in Loops : WF_vars(Tick(l) \/ TickEnds(l)) /\ SF_vars(LoopStops(l))
  /\ \A r \in Repos :
       /\ WF_vars(\E t \in Tasks : t[2] = r /\ SpawnFails(t))
       /\ \A kind \in Loops \cup {"manual"} : SF_vars(EndTask(<<kind, r>>))
       /\ \A kind \in Callers : SF_vars(Lock(<<kind, r>>))

FairSpec == Spec /\ Fairness

-----------------------------------------------------------------------------
\* A drain that ends by itself (not by its timeout) is complete: no goroutine of a tick, no
\* dispatch and, unless the server gave up on them, no request of the portal
\* is cut off (main's WaitGroup, the wg.Wait of each tick, and the reader's
\* place in main itself; main.go:112-124).
DrainedMeansQuiet ==
  main = "drained" =>
    /\ \A t \in Tasks : t[1] # "manual" => work[t] = "none"
    /\ http = "closed" => requests = {}

\* The same of every goroutine, as the comment of main.go (lines 9-10) says.
AllAwaited == main = "drained" => \A t \in Tasks : work[t] = "none"

\* Whatever fails, and however events, ticks and manual reconciles queue for
\* the mutex of a repo, each of them gets through while the process runs: no
\* error path keeps the mutex (spawner.go:145-147), so no tick, and with it no
\* loop, gets stuck in its wg.Wait (reconciler.go:93).
TasksEnd ==
  \A t \in Callers \X Repos : work[t] # "none" ~> work[t] = "none" \/ ~Running

\* After SIGTERM the process ends, although the reader may be waiting for a
\* mutex that a manual reconcile holds, and no timeout covers that wait
\* (main.go:112, spawner.go:146).
ShutsDown == cancelled ~> main \in {"drained", "timedOut"}
=============================================================================
