# The autoscaler in TLA+

The autoscaler starts ephemeral GitHub Actions runners as Docker containers when
workflow jobs are queued, and cleans up after those that die. This directory
holds its TLA+ models, the configurations TLC checks them with, and proofs for
TLAPS. `PROJECT.json` says for every definition which lines of the code it
stands for.

## The system

| component | state | operations | talks to |
|---|---|---|---|
| spawner (`internal/spawner`) | pause flag, a mutex per repo, six lifetime counters, PAT env-files on disk; the containers themselves are kept by Docker | `Spawn`, `CountRunning`, `Stats`, `SetPaused` | GitHub (idle check), docker (`ps`, `inspect`, `run`) |
| cleanup (`internal/cleanup`) | lifetime counters, the last summary | the periodic loop `Run`, `Tick` on demand | GitHub (runners, runs, jobs, force-cancel, delete), docker (`ps`, `inspect`, `rm -f`) |
| reconciler (`internal/reconciler`) | none of its own | the periodic loop `Run`, `TriggerOnce` on demand | GitHub (runs, jobs), `Spawn` |
| smee client (`internal/smee`) | back-off | `Run`: connect, read events, dispatch, reconnect | smee.io, the webhook handler |
| webhook handler (`internal/webhook`) | none | `Dispatch`: verify, filter, find the repo | `Spawn` |
| portal (`internal/portal`) | none | pause, resume, stop, reconcile, cleanup, status | all of the above |
| process (`cmd/autoscaler`) | root context, WaitGroup | start, SIGTERM, bounded shutdown | all of the above |
| configuration (`internal/config`) | the repos, their caps and labels; read once | `Load`, `Validate` | |

The components run as goroutines of one process. The smee reader, one reconcile
goroutine per repo and tick, and the goroutines of manual reconciles all call
`Spawner.Spawn`; the only state they share is the spawner's, and the containers.
The cleanup never takes the spawner's mutex: the two meet only in the state of
Docker and GitHub. Nothing is persisted. What survives a restart is the labels
of the containers, and whatever a killed process left on disk.

What is hard here:

- the cap: "count, compare, run" of several goroutines, with slow commands in
  between, against containers that stop and vanish meanwhile;
- every command and request has a deadline, and a command that is killed has not
  necessarily done nothing;
- the cleanup works from lists that are minutes old when it uses them, and what
  it does cannot be undone: it removes containers, registrations and runs;
- passes of the cleanup overlap, and each of their calls may fail alone;
- crashes and restarts between any two of those steps.

Correct means: per repo at most the cap is running and the repos do not disturb
each other (spawner); only dead runners are cleaned up, and they all are, in the
end (cleanup); every queued job gets a runner in the end, whatever event was
lost (reconciler with spawner and webhook); each event makes the call it asks for
and the reader reconnects for ever, without hammering the server (smee); a
shutdown ends, and cuts nothing off when it says so (life cycle).

## Modules

| module | stands for |
|---|---|
| `RunnerPool` | abstract: per repo a pool of runners never larger than the cap, each id used once |
| `Spawner` | `Spawn` step by step, pause, restart, and the docker daemon under it |
| `SpawnerProofs` | the inductive invariant of `Spawner`, its cap and its refinement |
| `SpawnerRecordsProofs` | the counters, the pause, the PAT files and "cap reached" (extends `SpawnerProofs`) |
| `Cleanup` | cleanup passes against the moving state of Docker and GitHub |
| `CleanupProofs` | the invariants of `Cleanup` and four theorems |
| `Reconciler` | from queued jobs to runners: events, reconcile passes, and GitHub's queue |
| `ReconcilerProofs` | the inductive invariant of `Reconciler` and two theorems |
| `Config` | `Load`, `Validate` and `RepoByName` as operators |
| `Webhook` | the filters of `Dispatch` as an operator (extends `Config`) |
| `EventFeed` | abstract: events handled in order, whole, at most once, until a connection breaks |
| `Smee` | `Client.Run`, its back-off, and the stream parser, up to the call of `Spawn` (extends `Webhook`) |
| `SmeeProofs` | the invariants of the back-off and of the stream, and three theorems |
| `Lifecycle` | `main` from start to exit, its loops, the HTTP server and the portal's goroutines (extends `Config`) |
| `LifecycleProofs` | the inductive invariant of `Lifecycle` and two theorems |
| `MC...` | the instances for TLC |

The modules meet in `Spawn`. `Spawner` has it in full and its callers as a set;
`Reconciler` and `Lifecycle` have the callers in full and of `Spawn` the steps
that matter to them, under the same mutex; `Smee` ends at its call. What
`Reconciler` assumes of the events (any may be lost, late or repeated) is weaker
than what `Smee` is shown to deliver.

### Spawner

A *caller* is a goroutine in `Spawn`. `pc` is where it is blocked: at the mutex
(`lock`), the GitHub request (`idleCheck`), `docker ps` (`ps`), `docker inspect`
(`inspect`), the env-file, `docker run` (`run`: the client is to create the
container; `start`: it is to start it; `started`: it is to print the id). What
happens between two blocking points happens in one action.

| code | actions |
|---|---|
| pause check, `mu.Lock` | `BeginPaused`, `BeginAdmitted`, `Lock` |
| `hasIdleMatchingRunner` | `IdleSkip`, `NoIdle` (also for an error: the code spawns anyway) |
| `countRunning` | `Ps`, then `CapHit`, `DrySpawn` or `BelowCap` with the answer of `docker inspect`; `CountFailed` |
| `writePATEnvFile` | `WriteEnvFile`, `EnvFileFailed` |
| `docker run` | `RunCreate`, `RunStart`, `RunOK`, `RunError`, `RunKilled` |
| the deferred `cleanup()` and `mu.Unlock()` | `Return`, part of each returning action |
| portal, `main` | `Pause`, `Resume`, `ContextDone`, `Restart` |
| docker, runner, cleanup | `LateStart`, `ContainerExit`, `ContainerRemove` |

`ids` is the answer of `docker ps` the caller still holds; `docker inspect` looks
at those containers later and fails as a whole when one is gone. `done` holds the
callers whose context has been cancelled: their GitHub requests and docker
commands fail, except that the count of an empty list needs no second command.
`cutOff` holds the containers whose docker client was killed between create and
start. They are outside the promise of the pool, and `LateStart` lets the daemon
start them all the same.

A *restart* loses the process's memory and keeps containers and env-files.
`calls`, `pausedRuns` and `restarts` are history variables: `calls` counts the
calls of one process lifetime, `pausedRuns` the docker runs since a pause.

Left out: names and labels of runners, the choice of the tag, error texts, log
lines, and whether the runner in the container registers (GitHub's answer to the
idle check is free).

### Cleanup

A *tick* is one pass of `tickWithSummary`, by the periodic loop or by the
portal; several may be under way. `gpc` is where its goroutine for each repo is
(`list` ghosts; list `runs`; `clean`: jobs, force-cancel, delete, in this order),
`tpc` where the pass itself is (in its `repos`, until their goroutines have
returned and `docker ps` has answered; `inspect`; `reap`: runner names, then the
containers). Each call is an action, and so is its failure; what the pass has
learnt and has still to do is in `ghosts`, `askJobs`, `stuckRuns`, `locals`,
`corpses`, `askNames`, `listed` and `names`. `early` is a history variable: the
containers still to be looked at that had to register yet when the pass listed
their repo. A cancelled
context is a pass whose remaining calls all fail.

`World(n)` is everything outside: a container is created, starts, its runner
registers, connects, takes a job, finishes and deregisters, the container exits
and `--rm` removes it or hangs; it may also die at work, after which GitHub shows
the runner as offline and later gives up the job. A runner and its container
have one name (`RUNNER_NAME` is the container's name), so they are one
identifier.

What GitHub and Docker may do is set by constants, so that a property can say
what it depends on:

| constant | meaning | in the passing safety run |
|---|---|---|
| `OfflineLive` | runners GitHub may show as offline while alive | none |
| `SlowStart` | runners whose container is `created` for a while before it starts | none |
| `PageSize` | runners on the one page that is read (100 in the code) | all that exist |
| `Listable` | repos whose runner list can be had | all |

`Age` is time: a container passes `localGrace`. It does so after its registration
handshake, which is the code's own assumption (cleanup.go:358-360), and no pass
holds it up: a docker command may take 60 s, a pass has as many as there are
containers, and nothing bounds their sum. What the cleanup keeps of its promise
under these conditions is `SettledWorkSurvives`; `WorkSurvives`, the promise
itself, is finding 3.

Left out: the counters `totalRunsCancelled` and `totalLocalGhostsReaped` and
`lastSummary`, which are only shown; runners not named `auto-*`, which the code
skips; the order in which a goroutine goes through its ghosts, runs and
containers (any order is allowed; the code takes that of the list).

### Reconciler

One repo. A job is queued once; while it exists its event may be dispatched at
any time and any number of times (smee and GitHub promise neither less nor
more), or never. A *pass* `g` is `reconcileRepo` in its goroutine, `Reader` is
the goroutine that reads smee events and calls `Dispatch`. `pc` is the request a
goroutine is about to make (the list of `queued` runs, that of `in_progress`
runs, the `jobs` of one run) or where it is in `Spawn` (`lock`, `check`, `run`).
GitHub, the runners and the other goroutines move between any two requests.

| code | actions |
|---|---|
| `CountRunning`, the capacity | `StartPass`, `NoCapacity`; `StartPassBlind` (docker fails, the answer is 0) |
| `listQueuedRunIDs` | `ListFirst`, `ListSecond`, `ListFailed` |
| `countQueuedMatchingJobs` | `ListJobs`, `ListJobsFailed`; `Counted` ends the walk at the capacity |
| the spawn loop | `ReturnOK` (next iteration), `ReturnError` (the pass is over) |
| `Dispatch` of an event that matches | `Dispatch` |
| `Spawn` | `Lock`, `IdleSkip`, `NoIdle`, `IdleUnknown`, `RunOK`, `CapHit`, `RunFailed` |

`Spawn` is coarser here than in `Spawner`: the idle check is one step and the
rest, from the count to the answer of `docker run`, another. In exchange the
runners are there, so the idle check sees the truth, or fails. Our runners are
alike, so `pool` only counts them by state. They are taken to have every label a
matching job asks for (`Assign`): the code matches a job by any one label
(handler.go:99, reconciler.go:178) and nothing ties `runner_labels` to the
labels of the jobs, so this is a condition on the configuration. Without it no
runner the autoscaler starts could take such a job. `static` are the runners of other
origin the architecture speaks of; `Serves` says which matching jobs each of them
can take. A run has two entries in `todo` when it changed its status between the
two lists, as in the code, and its jobs are then counted twice. `waiting` is a
history variable for `NoneOverlooked`.

Every failure (a failed request, a failed docker command, a runner that dies
before its job, a static runner that is taken away, a restart) takes one of
`MaxFaults`; the events and the cancelling of jobs are not bounded.

Left out: `totalReconcile`, which is only shown; more than one page of runs or
jobs; the pause (a paused spawner serves nobody, on purpose); labels, except
for what `Matching` and `Serves` say.

### Config, Webhook and Smee

`Config` and `Webhook` keep no state: they say which entry of which configuration
a message leads to. Labels are compared through the constant `Lower`.

`phase` is where `Run` is: about to `dial`, dialing, reading, in `Dispatch`,
sleeping, or stopped. `wire` holds the lines the client has not read, `event` and
`data` are `parseStream`'s, `call` is the argument of the `Spawn` in progress.

| code | actions |
|---|---|
| `Run`, `connect` | `Dial`, `Connected`, `ConnectReturns`, `Wake`, `Stop` |
| `parseStream` | `ReadLine`: `ReadEvent`, `ReadData`, `ReadOther`, `Flush` |
| `handleMessage`, `Dispatch` | `Asked`, part of `Flush`; `DispatchReturns` |
| smee.io, time, SIGTERM | `Send`, `Tick`, `Cancel` |

Data is a sequence of fragments, one per `data:` line, and `Content` says which
sequences are the JSON of which message; half a message is none. The server
sends frames, and each frame says in `asks`, written down by hand in `MCSmee`,
which call it should lead to; `due` lists those of the unread frames.
`SmeeAssumption` requires of `asks` that it is what `Asks` says: a reading of the
frame as a whole (its last event name, its data lines in order, without leading
empty ones) that owes nothing to the parser, which goes line by line. The
refinement maps `due` and `call` to the variables of `EventFeed`. `recent` is a
history variable, the ages of the attempts of the last `MaxBackoff` seconds.

`ConnectReturns` stands for every way a connection can fail or end, a line of
more than 8 MB included. What a broken connection had not delivered is lost, as
is what is sent while there is none. After a cancel, what was received may still
be read.

### Lifecycle

A *task* is the dispatch of an event, a goroutine of a tick, or one of a manual
reconcile, for one repo. `run` is its work outside `Spawn`, `lock` the wait for
the mutex (which no context ends), `check` the idle check and the count, `docker`
the `docker run`. `Cancelled(t)` is the context of the task: SIGTERM reaches all
but those of manual reconciles.

| code | actions |
|---|---|
| `main` | `LoadFails`, `Start`, `Sigterm`, `SmeeReturns`, `Drained`, `DrainTimesOut` |
| `Reconciler.Run`, `Cleaner.Run` | `Tick`, `TickEnds`, `LoopStops` |
| `runHTTPServer` | `Listens`, `ListenFails`, `Shutdown`, `ShutdownReturns` |
| portal | `Arrive`, `Reply`, `Reconcile` |
| the tasks | `Receive`, `CallSpawn`, `Lock`, `CheckPassed`, `SpawnOK`, `SpawnFails`, `EndTask` |

`main` ends as `drained` or as `timedOut`. Only the first is meant where a
property speaks of a complete shutdown: `main` logs "shutdown complete"
(main.go:130) after the warning of the timeout too.

A loop with interval 0 is `done` from the start; manual reconciles work all the
same. `client.Run` is called by `main` itself, so the drain and its timeout only
begin when the reader is back from `Dispatch`. `Run` only ever returns because of
the cancel (`Smee`), so the exit with status 1 after the drain cannot happen and
is left out. So are: the second signal (it is swallowed), keep-alive
connections, what a request does (but for a reconcile), and the reaping phase of
a cleanup tick, which is part of the tasks of the cleanup loop here.

## Runs

| run | checks | shows |
|---|---|---|
| `spawner_safety` | `TypeOK`, `CapHeld`, `OutcomesAddUp`, `PauseBites`, `EnvFilesScoped`, `ImplementsPool` | the cap under interleaved calls and a crash; each outcome counted once; a pause lets each goroutine finish at most one docker run; PAT files on disk are one per repo and process lifetime at most; the spawner implements `RunnerPool` |
| `spawner_repos` | `CapHitJustified`, `CallsReturn` | a repo that hangs for ever disturbs no other, and "cap reached" is true when it is said |
| `spawner_late_start` | `CapRespected` is violated | finding 1 |
| `cleanup_safety` | `TypeOK`, `DeletesCountedOnce`, `GhostsAreDead`, `SettledWorkSurvives` | under the assumptions of the table above two overlapping passes cancel and deregister only what is dead, and remove a container at work only if its repo was listed during its handshake and its turn came after its grace |
| `cleanup_drain` | `CorpsesReaped`, `GhostsDrain`, `OrphansReaped` | what is dead goes away, though calls fail and one repo cannot be listed; dead containers also if their repo is that one or no longer configured |
| `reconciler` | `TypeOK`, `NoneOverlooked`, `JobsServed`, `PassesEnd` | a pass that got all its answers spawns for every job that waited all the while, as far as its capacity goes, though runs go from one list to the other meanwhile; a matching job leaves the queue in the end, though all events are lost or repeated, calls fail, the process restarts and its runner dies or is taken; every pass ends |
| `reconciler_shadow` | `JobsServed` is violated | finding 4 |
| `cleanup_live_ghost` | `GhostsAreDead` is violated | finding 2 |
| `cleanup_slow_start` | `WorkSurvives` is violated | finding 3 |
| `smee` | `TypeOK`, `NoHammering`, `ImplementsFeed`, `Recovers`, `Stops` | the attempts are bounded in every window of time; each frame that is read makes its call and no other, in order, wherever lines and connections break; the client is connected again and again; it stops when told, from anywhere |
| `lifecycle` | `TypeOK`, `DrainedMeansQuiet`, `TasksEnd`, `ShutsDown` | a complete shutdown cuts off no tick, no dispatch and no request; each call of `Spawn` gets through; SIGTERM ends the process |
| `lifecycle_awaited` | `AllAwaited` is violated | finding 5 |

Findings:

1. *The cap can be exceeded.* `docker run` is killed by its 30 s deadline after
   the daemon created the container. `Spawn` returns an error and unlocks; the
   next call does not count a container in state `created`; then the daemon
   starts it. The comment of `Spawn` says a burst cannot exceed the cap.
2. *A live runner can lose its registration*: Phase 1 takes every `auto-*` runner
   that is not online for dead. Needs a runner that is offline while alive.
3. *A working container can be removed*, in two ways. The corpse path acts on a
   state looked up before the GitHub requests of the pass, without the grace that
   protects young containers: needs a container that was `created` when it was
   inspected, and is what the run finds. And the names of a repo are listed once,
   while the age of a container is looked up at its turn: a container listed
   during its handshake that then registers, takes a job and passes its grace is
   removed with the job, although cleanup.go:371-373 says that nothing will ever
   dispatch work to a container whose name is missing. Needs a pass that lasts
   from before the end of the handshake to after the end of the grace; it is what
   TLC finds in the same run with `SlowStart = {}` (`ListNames`, then `Register`,
   `TakeJob` and `Age` of the container, then `CheckAge` and `RmOrphan`). The
   container is then in `early`, which is what `SettledWorkSurvives` excepts.
4. *A job may wait for ever behind a runner that cannot take it.* The idle check
   is satisfied by one common label, and GitHub asks a runner for all labels of
   the job. An idle static runner that has `self-hosted, gpu` and a queued job
   that wants `gpu, cuda-12` suffice: each `Spawn` is an idle-skip. Needs no
   failure. The reconciler's comment promises its runners "subject to per-repo
   cap and the spawner's idle-skip" (reconciler.go:8-9); it does not say that
   the skip may last for ever.
5. *A manual reconcile is not awaited.* Its goroutine has its own context and is
   in no WaitGroup; the process ends while it is at work, for instance in its
   `docker run`. What that leaves behind is in `Spawner`: a container cut off
   before its start (finding 1), and a PAT file (`EnvFilesScoped`).

Three further observations no run is spent on. A pause does not survive a restart
(`Restart` in `Spawner`). A surplus runner, started for a job that was then
cancelled, or twice for one job while the first runner boots, idles until its
next job: no code ends it, though `docs/ARCH.md:11` promises runners only while
there is work. `Dispatch`'s comment (`handler.go:50`) leaves the retry of an error
to its caller, which logs it: the event is gone, and the reconciler makes up for
it (`JobsServed`).

### Bounds

Two callers suffice for a race on the mutex; with three calls per lifetime one
of them comes back after the other's return. A cap of two and three containers
let the cap be reached, refused and exceeded, and one id is left for a start
after an exit. One restart, with calls before and after it. Container ids
are used once, so their number also bounds the docker runs of a behaviour.
`MaxCalls` and `MaxRestarts` are guards of the actions that count.

In the cleanup two passes and two runners are enough for one runner to be in the
hands of both passes while another joins or leaves the lists. The liveness run
has one pass at a time and two repos, of which one can never be listed, and three
names: one of each repo and one of a repo that is no longer configured. `MaxRunners`
lets one of them exist in a behaviour; what happens to a container does not depend
on others except through inspect failing as a whole, and failures are part of
that run anyway.

In the reconciler two matching jobs and a cap of two let a pass count less than,
as much as and more than its capacity. They are in different runs, one of which a
third job, run elsewhere, moves from queued to in_progress. One failure of any
kind, at any time; a static runner that competes for the jobs, comes back and may
be taken away. The repo has one pass at a time, as the periodic loop does; a
manual pass beside it only adds calls of `Spawn`, like those of the reader.

In `Smee` a maximum delay of 8 seconds (30 in the code) lets the delay double
three times and reach its limit; the connection lasts longer or shorter than
that. Two unread frames let one arrive while the other is half read or being
dispatched. The eight kinds of frames are: a comment, a named event with a good
payload, a one-line and a two-line message for two repos, one whose first
fragment is missing, and messages with the wrong labels, signature and action.
`MaxUnread` is a guard of `Send`.

`Lifecycle` has one repo in the fair run, where all tasks meet at one mutex, and
two in the other, so that a manual reconcile may be for one of them or for both.
One manual reconcile is under way at a time, and one request.

The safety runs of spawner and cleanup use symmetry over callers, containers,
passes and runners, which
no definition tells apart; the liveness runs use none.

### Fairness

`Spawner`: a caller in the critical section moves on (weak fairness of
`Critical`), for the repos in `Responsive` only: each of its commands and
requests has a deadline in the code, 5, 10 and 30 s. Which way it moves is open.
`Lock` has strong fairness, because `sync.Mutex` hands the lock to a waiter after
1 ms of waiting at the latest (starvation mode). Nothing is assumed of callers of
other repos, operators, or the daemon.

`Cleanup`: the loop ticks for ever and a pass moves on (weak fairness, the calls
have deadlines). A kind of call that is tried again and again and can succeed
does succeed in the end (strong fairness of `docker ps`, `inspect`, `rm`, of the
listing of listable repos, of the deletion of ghosts): without that nothing
could be cleaned up. Of the failures nothing is assumed. GitHub shows a dead
runner as offline and gives up its job in the end (weak fairness).

`Reconciler`: the loop ticks for ever, a pass moves on and a call of `Spawn`
returns (weak fairness, the calls have deadlines); `Lock` as in `Spawner`. Runners
boot, GitHub gives queued jobs to idle runners, and jobs end (weak fairness).
Failures are finitely many, so a call that is tried for ever succeeds. Nothing is
assumed of the events and the reader's choice among them. A runner of other
origin need not be taken away, nor used.

`Smee`: time passes, `Run` and the reader go on, and `Spawn` returns (weak
fairness). A cancel ends the attempt or the stream of the request (`Aborted`,
weak fairness: the request carries the context). The server takes a connection if
it is tried again and again (strong fairness of `Connected`); a server that
accepts and never answers is excluded by that, since the code has no timeout for
it (`client.go:85`).

`Lifecycle`: the tickers tick, ticks end when their tasks have (weak fairness),
and a `select` that is offered the cancel again and again takes it in the end
(strong fairness of `LoopStops`: Go chooses at random among what is ready). What
holds a mutex returns, because its commands and requests have deadlines (weak
fairness of `SpawnFails`: the outcome that is always possible); a waiter gets it
as in `Spawner`. A spawn loop has at most cap many rounds (strong fairness of
`EndTask`), and the lines still buffered after a cancel are finitely many (strong
fairness of `SmeeReturns`).

## Proofs

`SpawnerProofs` proves, for any finite sets of callers and containers, any repos
and any positive caps:

- `TypeCorrect`: `Spec => []TypeOK`, the mutexes of the repos included
- `CapIsHeld`: `Spec => []CapHeld`
- `Refinement`: `Spec => ImplementsPool`

The cap is not inductive: whether `docker run` may go ahead depends on a count
taken from an old list. The inductive invariant is `IInv`:

- `LockInv`: the mutex of a repo is held exactly by the caller in its critical
  section, so there is at most one (`Holders`, a part of `TypeOK`);
- `ContInv`: a caller has a container exactly between create and return, of its
  own repo, and no two callers have the same;
- `CreatedInv`: a container waiting for its start has a docker run waiting for
  it, unless that was killed;
- `SnapshotInv`: the `docker ps` answer a caller holds at `inspect` may contain
  too much, but no container that runs by then and was not cut off is missing;
- `PoolInv`: the pool of a repo (created or running, not cut off) is within the
  cap, and below it while a caller is between the check and `docker run`.

With `LockInv` nobody else starts a container of the repo between the count and
the start, so `SnapshotInv` makes the count an upper bound (lemma `CapCheck`),
`PoolInv` carries it over the env-file to `RunCreate`, and the rest only shrinks
the pool (`OnTimeShrinks`). The refinement follows: `RunCreate` is `Admit`,
every other step `Retire` or a stutter.

The assumption is `SpawnerAssumption`: finite sets, positive caps (`Validate`
replaces others by 4), a `None` that is nothing else. The bounds on calls and
restarts are any natural numbers.

`LifecycleProofs` proves, for any repos, requests, configurations and environment:

- `TypeCorrect`: `Spec => []TypeOK`, the mutexes of the repos included
- `DrainIsQuiet`: `Spec => []DrainedMeansQuiet`

`main` does not look at the tasks when the drain ends, but at the loops and the
server, so the second is not inductive. `WorkInv` says how tasks depend on them:
a loop has tasks during a tick only (`TickEnds` waits for them, and the tick is
what keeps `LoopStops` away), the reader has none from the drain on (nothing but
`Receive` gives it one, and `main` itself was that reader), and a closed server
has no request. The assumption is `LifecycleAssumption`: `Free` is no task.

`SpawnerRecordsProofs` proves, under the same assumption:

- `OutcomesCounted`: `Spec => []OutcomesAddUp`
- `PauseHolds`: `Spec => []PauseBites`. During a pause a call that has still to
  come to its docker run has made none (`PauseInv`): no call comes past the flag,
  and those that were past it have one docker run each.
- `EnvFilesAreScoped`: `Spec => []EnvFilesScoped`. Besides the property itself
  this needs that no file is from a process still to come (`EnvInv`), and
  `LockInv`: the holder of the mutex unlinks its file before the unlock.
- `CapHitIsJustified`: `Spec => CapHitJustified`. A `docker ps` answer names
  containers of the caller's repo only (`IdsInv`), since labels never change;
  so what `docker inspect` counts among them is running, and of that repo.

`CleanupProofs` proves, for any finite set of runners and any repos, workflow
runs and overlapping passes:

- `TypeCorrect`: `Spec => []TypeOK`
- `DeletesAreCountedOnce`: `Spec => []DeletesCountedOnce`
- `OnlyGhosts`: `ASSUME OfflineLive = {} PROVE Spec => GhostsAreDead`
- `WorkIsSafe`: `ASSUME SlowStart = {} PROVE Spec /\ []OnePage =>
  SettledWorkSurvives`

`RunnerInv` ties registration, job and container of a runner together and holds
without assumptions. The last two theorems are those of the table of constants:
finding 2 and the first way of finding 3 are what happens without `OfflineLive = {}` and
`SlowStart = {}`. `GhostInv` says that what a pass has noted as ghosts or as runs
to cancel stays dead and lost, however old the note. `ReapInv` says that what
was not running at the inspection is dead, and that a container a pass takes for
unregistered has no job and will get none, or had still to register at the
listing; one that it is about to remove is over the grace besides. Nothing is
assumed of the length of a pass. `OnePage`, every runner
list fits on the one page that is read, is a condition on behaviours, because how
many runners are registered is not a constant.

`ReconcilerProofs` proves, for any finite set of jobs, any runs, passes, runners of other origin,
cap and number of faults:

- `TypeCorrect`: `Spec => []TypeOK`
- `NoStragglerOverlooked`: `Spec => NoneOverlooked`

`PassInv(g)` is about the notes of a pass. Between its two requests the run of a
waiting job is on the first list or has started (so it will be on the second:
`StatusOfRun`); during the walk the waiting jobs whose runs are not left in
`todo` are at most as many as were counted, and fewer than the capacity. When
the walk ends with an empty `todo`, all are counted. TLC checked this invariant
on an instance with two passes before it was proved.

`SmeeProofs` proves, for any configuration, any frames that end with their only
empty line, any `MaxBackoff` and `MaxUnread`:

- `TypeCorrect`: `Spec => []TypeOK`
- `ServerIsSpared`: `Spec => []NoHammering`
- `Refinement`: `Spec => ImplementsFeed`

For the second, `ClockInv` says of the recent attempts that the k-th one before
the newest is at least as much older as k doubled delays take, and that the delay
to come is that of such a streak, or the limit. The reset to one second
(`ReturnKeeps`) is harmless because a connection that lasted `MaxBackoff` seconds
has outlived all recent attempts but its own.

For the refinement, `StreamInv` says that the unread lines are those of a
sequence of frames, of which the first may have been read in part, that `due` is
what these ask for, and that `event` and `data` are what the lines read of the
first one leave behind (`Parsed`, the reading of `Asks` cut off after k lines).
`ParsedStep` is the parser's step, `OneLineLess`, `OneFrameLess` and
`OneFrameMore` what reading and sending do to the frames, and `ParsedAsks` says
that a frame read to its end asks for its `asks`.

What these proofs need of numbers (the recursive `Delays` is a function and
grows, a set of ages splits at its limit) is proved from the least element of a
set of naturals, `WFMin` of the library.

Only model-checked: the liveness properties (`CallsReturn`, `CorpsesReaped`,
`GhostsDrain`, `OrphansReaped`, `JobsServed`, `PassesEnd`, `Recovers`, `Stops`,
`TasksEnd`, `ShutsDown`), which under fairness are out of the prover's reach.
Every invariant, action property and refinement of the passing runs has its
theorem.

## Not modelled

The portal's status pages and its authentication, the HMAC, logging, the web page
and the deployment files are left out: they are I/O, cryptography or formatting,
and keep no state. `LastSummary` with overlapping cleanup passes is only shown.
Of the configuration the reading of the file is left out, and the fields nothing
modelled depends on.

## Plan

1. The models, their runs, and the theorems above: done.
2. Left: the safety parts of what the liveness runs rest on, as theorems of their
   own (in `Spawner` and `Reconciler` a mutex that is held has a holder that can
   move; in `Lifecycle` a loop that is done stays done), and the cap of
   `Reconciler`'s coarser `Spawn` (`Live <= MaxConcurrency`, now a part of its
   invariant) related to that of `Spawner`.
