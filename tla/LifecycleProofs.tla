-------------------------- MODULE LifecycleProofs ---------------------------
(***************************************************************************)
(* Proofs about Lifecycle: the types, with the mutexes, and what a         *)
(* complete shutdown leaves behind, for any set of repos and requests.     *)
(***************************************************************************)
EXTENDS Lifecycle, TLAPS

\* Work is where the loops and main say: a loop has tasks during a tick only,
\* the reader none once main drains, and a closed server no requests.
WorkInv ==
  /\ main = "load" => \A l \in Loops : loop[l] # "tick"
  /\ \A l \in Loops, r \in Repos : loop[l] # "tick" => work[<<l, r>>] = "none"
  /\ \A r \in Repos : work[<<"reader", r>>] # "run"
  /\ main \in {"drain", "drained"} => \A r \in Repos : work[<<"reader", r>>] = "none"
  /\ main = "drained" => \A l \in Loops : loop[l] = "done"
  /\ http = "closed" => requests = {}

IInv == TypeOK /\ WorkInv

USE DEF Locked, Running

\* A task of a repo is in Tasks, and is told from others by kind and repo.
LEMMA TaskKinds ==
  /\ \A t \in Tasks : t = <<t[1], t[2]>> /\ t[1] \in Loops \cup Callers /\ t[2] \in Repos
  /\ \A k \in Loops \cup Callers, r \in Repos : <<k, r>> \in Tasks
BY DEF Tasks

\* What begins is idle: no task, no mutex held, no request.
LEMMA InitIInv == Init => IInv
<1> SUFFICES ASSUME Init PROVE IInv
  OBVIOUS
<1>1. TypeOK
  BY LifecycleAssumption, TaskKinds DEF Init, TypeOK
<1>2. WorkInv
  BY TaskKinds DEF Init, WorkInv, Callers
<1> QED
  BY <1>1, <1>2 DEF IInv

\* A task that moves on, without a tick or an event, keeps to its place.
LEMMA TaskMoves ==
  ASSUME IInv, NEW t \in Tasks, NEW x,
         work[t] # "none", t[1] = "reader" => x # "run",
         work' = [work EXCEPT ![t] = x], UNCHANGED <<main, loop, web>>, Running
  PROVE  WorkInv'
<1>1. /\ work \in [Tasks -> {"none", "run", "lock", "check", "docker"}]
      /\ WorkInv
  BY DEF IInv, TypeOK
<1>2. ASSUME NEW l \in Loops, NEW r \in Repos, loop'[l] # "tick" PROVE work'[<<l, r>>] = "none"
  BY <1>1, <1>2, TaskKinds DEF WorkInv
<1>3. ASSUME NEW r \in Repos PROVE work'[<<"reader", r>>] # "run"
  <2>1. <<"reader", r>> \in Tasks
    BY TaskKinds DEF Callers
  <2> QED
    BY <1>1, <2>1 DEF WorkInv
<1>4. ASSUME main' = "drain", NEW r \in Repos PROVE work'[<<"reader", r>>] = "none"
  <2>1. <<"reader", r>> \in Tasks
    BY TaskKinds DEF Callers
  <2> QED
    BY <1>1, <1>4, <2>1 DEF WorkInv
<1> QED
  BY <1>1, <1>2, <1>3, <1>4 DEF WorkInv, web

\* Types and mutexes after a step that only moves a task that has no mutex to
\* another place without.
LEMMA TaskTypes ==
  ASSUME TypeOK, NEW t \in Tasks, NEW x \in {"none", "run", "lock"},
         work[t] \notin Locked,
         work' = [work EXCEPT ![t] = x], UNCHANGED <<main, cancelled, loop, mu, http>>,
         requests' \subseteq Requests
  PROVE  TypeOK'
BY DEF TypeOK

\* The same for a task that has just left the critical section of its repo.
LEMMA UnlockTypes ==
  ASSUME TypeOK, NEW t \in Tasks, NEW x \in {"none", "run"},
         work[t] \in Locked,
         work' = [work EXCEPT ![t] = x], mu' = [mu EXCEPT ![t[2]] = Free],
         UNCHANGED <<main, cancelled, loop, web>>
  PROVE  TypeOK'
<1>1. t[2] \in Repos /\ mu[t[2]] = t
  BY TaskKinds DEF TypeOK
<1>2. ASSUME NEW u \in Tasks PROVE work'[u] \in Locked <=> mu'[u[2]] = u
  <2>1. CASE u = t
    BY <1>1, <2>1, LifecycleAssumption DEF TypeOK
  <2>2. CASE u # t /\ u[2] = t[2]
    BY <1>1, <2>2, LifecycleAssumption DEF TypeOK
  <2>3. CASE u # t /\ u[2] # t[2]
    BY <1>1, <2>3, TaskKinds DEF TypeOK
  <2> QED
    BY <2>1, <2>2, <2>3
<1> QED
  BY <1>1, <1>2 DEF TypeOK, web

\* Steps that touch no task keep the mutexes as they are.
LEMMA MutexSame ==
  ASSUME TypeOK, UNCHANGED tasks
  PROVE  \A t \in Tasks : work'[t] \in Locked <=> mu'[t[2]] = t
BY DEF TypeOK, tasks

\* Every step keeps the invariant: one case per action.
LEMMA NextIInv == IInv /\ [Next]_vars => IInv'
<1> SUFFICES ASSUME IInv, [Next]_vars PROVE IInv'
  OBVIOUS
<1> USE DEF IInv
<1>1. CASE LoadFails
  BY <1>1, MutexSame DEF LoadFails, TypeOK, WorkInv, tasks, web
<1>2. CASE Start
  <2>1. loop' \in [Loops -> {"off", "start", "tick", "wait", "done"}]
    BY <1>2 DEF Start
  <2>2. TypeOK'
    BY <1>2, <2>1, MutexSame DEF Start, TypeOK, tasks
  <2>3. \A l \in Loops, r \in Repos : work'[<<l, r>>] = "none"
    <3>1. \A l \in Loops : loop[l] # "tick"
      BY <1>2 DEF Start, WorkInv
    <3> QED
      BY <1>2, <3>1 DEF Start, WorkInv, tasks
  <2> QED
    BY <1>2, <2>2, <2>3 DEF Start, WorkInv, tasks
<1>3. CASE Sigterm
  BY <1>3, MutexSame DEF Sigterm, TypeOK, WorkInv, tasks, web
<1>4. CASE SmeeReturns
  BY <1>4, MutexSame DEF SmeeReturns, TypeOK, WorkInv, tasks, web
<1>5. CASE Drained
  BY <1>5, MutexSame DEF Drained, TypeOK, WorkInv, tasks, web
<1>6. CASE DrainTimesOut
  BY <1>6, MutexSame DEF DrainTimesOut, TypeOK, WorkInv, tasks, web
<1>7. ASSUME NEW l \in Loops, Tick(l) PROVE IInv'
  <2>1. /\ work' = [t \in Tasks |-> IF t[1] = l THEN "run" ELSE work[t]]
        /\ loop' = [loop EXCEPT ![l] = "tick"]
        /\ loop[l] # "tick" /\ l # "reader"
        /\ UNCHANGED <<main, cancelled, mu, web>>
        /\ main \in {"smee", "drain"}
    BY <1>7 DEF Tick, Loops
  <2>2. ASSUME NEW t \in Tasks PROVE work'[t] \in Locked <=> mu'[t[2]] = t
    <3>1. t[1] = l => work[t] = "none"
      BY <2>1, TaskKinds DEF WorkInv
    <3> QED
      BY <2>1, <3>1 DEF TypeOK
  <2>3. TypeOK'
    BY <2>1, <2>2 DEF TypeOK, web
  <2>4. ASSUME NEW k \in Loops, NEW r \in Repos, loop'[k] # "tick" PROVE work'[<<k, r>>] = "none"
    <3>1. k # l /\ loop[k] # "tick"
      BY <2>1, <2>4 DEF TypeOK
    <3> QED
      BY <2>1, <3>1, TaskKinds DEF WorkInv
  <2>5. ASSUME NEW r \in Repos PROVE work'[<<"reader", r>>] = work[<<"reader", r>>]
    BY <2>1, TaskKinds DEF Callers
  <2> QED
    BY <2>1, <2>3, <2>4, <2>5 DEF WorkInv, web
<1>8. ASSUME NEW l \in Loops, TickEnds(l) PROVE IInv'
  <2>1. TypeOK'
    BY <1>8, MutexSame DEF TickEnds, TypeOK, tasks, web
  <2>2. ASSUME NEW k \in Loops, NEW r \in Repos, loop'[k] # "tick" PROVE work'[<<k, r>>] = "none"
    BY <1>8, <2>2 DEF TickEnds, WorkInv, TypeOK, tasks
  <2> QED
    BY <1>8, <2>1, <2>2 DEF TickEnds, WorkInv, tasks, web
<1>9. ASSUME NEW l \in Loops, LoopStops(l) PROVE IInv'
  <2>1. TypeOK'
    BY <1>9, MutexSame DEF LoopStops, TypeOK, tasks, web
  <2>2. ASSUME NEW k \in Loops, NEW r \in Repos, loop'[k] # "tick" PROVE work'[<<k, r>>] = "none"
    BY <1>9, <2>2 DEF LoopStops, WorkInv, TypeOK, tasks
  <2> QED
    BY <1>9, <2>1, <2>2 DEF LoopStops, WorkInv, tasks, web
<1>10. ASSUME NEW r \in Repos, Receive(r) PROVE IInv'
  <2> DEFINE t == <<"reader", r>>
  <2>1. t \in Tasks /\ work[t] = "none" /\ "reader" \notin Loops
    BY <1>10, TaskKinds DEF Receive, Callers, Loops
  <2>2. TypeOK'
    BY <1>10, <2>1, TaskTypes DEF Receive, Goto, web, TypeOK
  <2>3. ASSUME NEW k \in Loops, NEW s \in Repos PROVE work'[<<k, s>>] = work[<<k, s>>]
    BY <1>10, <2>1, TaskKinds DEF Receive, Goto, TypeOK
  <2>4. ASSUME NEW s \in Repos PROVE work'[<<"reader", s>>] # "run"
    <3>1. <<"reader", s>> \in Tasks
      BY TaskKinds DEF Callers
    <3> QED
      BY <1>10, <2>1, <3>1 DEF Receive, Goto, TypeOK, WorkInv
  <2> QED
    BY <1>10, <2>2, <2>3, <2>4 DEF Receive, WorkInv, web
<1>11. ASSUME NEW t \in Tasks, CallSpawn(t) PROVE IInv'
  <2>1. TypeOK'
    BY <1>11, TaskTypes DEF CallSpawn, Goto, web, TypeOK
  <2> QED
    BY <1>11, <2>1, TaskMoves DEF CallSpawn, Goto
<1>12. ASSUME NEW t \in Tasks, EndTask(t) PROVE IInv'
  <2>1. TypeOK'
    BY <1>12, TaskTypes DEF EndTask, Goto, web, TypeOK
  <2> QED
    BY <1>12, <2>1, TaskMoves DEF EndTask, Goto
<1>13. ASSUME NEW t \in Tasks, Lock(t) PROVE IInv'
  <2>1. /\ work[t] = "lock" /\ mu[t[2]] = Free /\ t[2] \in Repos
        /\ work' = [work EXCEPT ![t] = "check"] /\ mu' = [mu EXCEPT ![t[2]] = t]
        /\ UNCHANGED <<main, cancelled, loop, web>>
    BY <1>13, TaskKinds DEF Lock, Goto
  <2>2. ASSUME NEW u \in Tasks PROVE work'[u] \in Locked <=> mu'[u[2]] = u
    <3>1. CASE u = t
      BY <2>1, <3>1 DEF TypeOK
    <3>2. CASE u # t /\ u[2] = t[2]
      BY <2>1, <3>2, LifecycleAssumption DEF TypeOK
    <3>3. CASE u # t /\ u[2] # t[2]
      BY <2>1, <3>3, TaskKinds DEF TypeOK
    <3> QED
      BY <3>1, <3>2, <3>3
  <2>3. TypeOK'
    BY <2>1, <2>2 DEF TypeOK, web
  <2> QED
    BY <1>13, <2>3, TaskMoves DEF Lock, Goto
<1>14. ASSUME NEW t \in Tasks, CheckPassed(t) PROVE IInv'
  <2>1. TypeOK'
    BY <1>14 DEF CheckPassed, Goto, TypeOK, web
  <2> QED
    BY <1>14, <2>1, TaskMoves DEF CheckPassed, Goto
<1>15. ASSUME NEW t \in Tasks, SpawnOK(t) PROVE IInv'
  <2> DEFINE x == IF t[1] = "reader" THEN "none" ELSE "run"
  <2>1. /\ work[t] \in Locked /\ x \in {"none", "run"}
        /\ work' = [work EXCEPT ![t] = x] /\ mu' = [mu EXCEPT ![t[2]] = Free]
        /\ UNCHANGED <<main, cancelled, loop, web>> /\ Running
    BY <1>15 DEF SpawnOK, Goto
  <2>2. TypeOK'
    <3> HIDE DEF x
    <3> QED
      BY <2>1, UnlockTypes
  <2>3. WorkInv'
    <3>1. work[t] # "none" /\ (t[1] = "reader" => x # "run")
      BY <2>1
    <3> HIDE DEF x
    <3> QED
      BY <2>1, <3>1, TaskMoves
  <2> QED
    BY <2>2, <2>3
<1>16. ASSUME NEW t \in Tasks, SpawnFails(t) PROVE IInv'
  <2>1. TypeOK'
    BY <1>16, UnlockTypes DEF SpawnFails, Goto
  <2> QED
    BY <1>16, <2>1, TaskMoves DEF SpawnFails, Goto
<1>17. CASE Listens \/ ListenFails \/ Shutdown \/ ShutdownReturns
  BY <1>17, MutexSame DEF Listens, ListenFails, Shutdown, ShutdownReturns, TypeOK, WorkInv, tasks
<1>18. ASSUME NEW q \in Requests, Arrive(q) \/ Reply(q) PROVE IInv'
  BY <1>18, MutexSame DEF Arrive, Reply, TypeOK, WorkInv, tasks
<1>19. ASSUME NEW q \in Requests, Reconcile(q) PROVE IInv'
  <2>1. PICK rs \in {{r} : r \in Repos} \cup {Repos} :
          work' = [t \in Tasks |-> IF t[1] = "manual" /\ t[2] \in rs THEN "run" ELSE work[t]]
    BY <1>19 DEF Reconcile
  <2>2. ASSUME NEW t \in Tasks PROVE work'[t] \in Locked <=> mu'[t[2]] = t
    <3>1. t[1] = "manual" => work[t] = "none"
      BY <1>19, TaskKinds DEF Reconcile
    <3> QED
      BY <1>19, <2>1, <3>1 DEF Reconcile, TypeOK
  <2>3. TypeOK'
    BY <1>19, <2>1, <2>2 DEF Reconcile, TypeOK
  <2>4. ASSUME NEW t \in Tasks, t[1] # "manual" PROVE work'[t] = work[t]
    BY <2>1, <2>4
  <2>5. ASSUME NEW k \in Loops \cup {"reader"}, NEW r \in Repos
        PROVE  work'[<<k, r>>] = work[<<k, r>>]
    BY <2>4, TaskKinds DEF Loops, Callers
  <2> QED
    BY <1>19, <2>3, <2>5 DEF Reconcile, WorkInv
<1>20. CASE UNCHANGED vars
  BY <1>20, MutexSame DEF vars, TypeOK, WorkInv, tasks, web
<1> QED
  BY <1>1, <1>2, <1>3, <1>4, <1>5, <1>6, <1>7, <1>8, <1>9, <1>10, <1>11, <1>12, <1>13, <1>14,
     <1>15, <1>16, <1>17, <1>18, <1>19, <1>20 DEF Next, Web

\* Every variable keeps its type, and a mutex is held exactly by the one task
\* in the critical section of Spawn (spawner.go:145-147): TypeOK.
THEOREM TypeCorrect == Spec => []TypeOK
<1>1. IInv => TypeOK
  BY DEF IInv
<1> QED
  BY <1>1, InitIInv, NextIInv, PTL DEF Spec

\* A drain that ends before its timeout cuts off no tick, no dispatch and no
\* request of a server that was shut down in time (main.go:112-124).
THEOREM DrainIsQuiet == Spec => []DrainedMeansQuiet
<1>1. IInv => DrainedMeansQuiet
  <2> SUFFICES ASSUME IInv, main = "drained"
               PROVE  /\ \A t \in Tasks : t[1] # "manual" => work[t] = "none"
                      /\ http = "closed" => requests = {}
    BY DEF DrainedMeansQuiet
  <2>1. ASSUME NEW t \in Tasks, t[1] # "manual" PROVE work[t] = "none"
    <3>1. t = <<t[1], t[2]>> /\ t[2] \in Repos /\ t[1] \in Loops \cup {"reader"}
      BY <2>1, TaskKinds DEF Loops, Callers
    <3>2. CASE t[1] \in Loops
      BY <3>1, <3>2 DEF IInv, WorkInv
    <3>3. CASE t[1] = "reader"
      BY <3>1, <3>3 DEF IInv, WorkInv
    <3> QED
      BY <3>1, <3>2, <3>3
  <2> QED
    BY <2>1 DEF IInv, WorkInv
<1> QED
  BY <1>1, InitIInv, NextIInv, PTL DEF Spec
=============================================================================
