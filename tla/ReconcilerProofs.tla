-------------------------- MODULE ReconcilerProofs --------------------------
(***************************************************************************)
(* Proofs about Reconciler, for any jobs, runs, runners of other origin and *)
(* overlapping passes, and for any cap.                                     *)
(***************************************************************************)
EXTENDS Reconciler, FiniteSetTheorems, TLAPS

-----------------------------------------------------------------------------
(* The invariant.                                                          *)

\* A job of the run w has left the queue for a runner, or has been cancelled.
Started(w) == \E i \in Jobs : RunOf[i] = w /\ job[i] \in {"running", "done"}

\* The waiting jobs of the pass g that it has no run left to find them in.
Accounted(g) == {j \in waiting[g] : \A e \in todo[g] : e[1] # RunOf[j]}

\* The notes of the pass g.  Between its two lists, the run of a waiting job is
\* on the first one or has started, so that it will be on the second.  While g
\* looks into the runs it has counted less than the capacity, and has counted
\* every waiting job of the runs it has looked into.
PassInv(g) ==
  /\ \A j \in waiting[g] : job[j] = "queued"
  /\ pc[g] \in {"queued", "in_progress", "jobs"} => avail[g] > 0
  /\ pc[g] = "in_progress" =>
       \A j \in waiting[g] : <<RunOf[j], "queued">> \in todo[g] \/ Started(RunOf[j])
  /\ pc[g] = "jobs" => /\ toSpawn[g] < avail[g]
                       /\ Cardinality(Accounted(g)) <= toSpawn[g]
  /\ pc[g] \in {"lock", "check", "run"} => toSpawn[g] > 0

IInv ==
  /\ TypeOK
  /\ Live <= MaxConcurrency
  /\ \A g \in Passes : PassInv(g)

-----------------------------------------------------------------------------
(* Jobs, runs and lists.                                                   *)

USE DEF runners, counted

\* A run that has a queued job is queued until one of its jobs starts, and then
\* in progress.
LEMMA StatusOfRun ==
  ASSUME TypeOK, NEW j \in Jobs, job[j] = "queued"
  PROVE  Status(RunOf[j]) = IF Started(RunOf[j]) THEN "in_progress" ELSE "queued"
<1> DEFINE jobs == {i \in Jobs : RunOf[i] = RunOf[j]}
<1>1. j \in jobs /\ \A i \in jobs : i \in Jobs /\ job[i] \in {"none", "queued", "running", "done"}
  BY DEF TypeOK
<1>2. Started(RunOf[j]) <=> ~ \A i \in jobs : job[i] \in {"none", "queued"}
  BY <1>1 DEF Started
<1>3. ~ \A i \in jobs : job[i] = "done"
  BY <1>1
<1>4. \E i \in jobs : job[i] = "queued"
  BY <1>1
<1>5. QED  BY <1>2, <1>3, <1>4 DEF Status

\* The lists of a pass have entries for runs.
LEMMA ListingType ==
  /\ Lists[1] = "queued" /\ Lists[2] = "in_progress"
  /\ Listing("queued") \subseteq Runs \X {"queued", "in_progress"}
  /\ Listing("in_progress") \subseteq Runs \X {"queued", "in_progress"}
BY DEF Lists, Listing

\* Sets of jobs are finite.
LEMMA FiniteJobs ==
  ASSUME NEW S, S \subseteq Jobs, NEW T, T \subseteq S
  PROVE  /\ IsFiniteSet(S) /\ Cardinality(S) \in Nat
         /\ IsFiniteSet(T) /\ Cardinality(T) \in Nat
         /\ Cardinality(T) <= Cardinality(S)
BY FS_Subset, FS_CardinalityType, ReconcilerAssumption

\* A pass that does not step itself: jobs may leave the queue, and are then no
\* longer waited for; a run that has started stays so.
LEMMA Undisturbed ==
  ASSUME TypeOK, NEW g \in Passes, PassInv(g),
         pc'[g] = pc[g], avail'[g] = avail[g], todo'[g] = todo[g], toSpawn'[g] = toSpawn[g],
         waiting'[g] \subseteq waiting[g],
         \A j \in waiting'[g] : job'[j] = "queued",
         \A i \in Jobs : job[i] \in {"running", "done"} => job'[i] \in {"running", "done"}
  PROVE  PassInv(g)'
<1>1. \A w : Started(w) => Started(w)'
  BY DEF Started
<1>2. Accounted(g)' \subseteq Accounted(g)
  BY DEF Accounted
<1>3. waiting[g] \subseteq Jobs /\ Accounted(g) \subseteq Jobs
  BY ReconcilerAssumption DEF Accounted, TypeOK
<1>4. Cardinality(Accounted(g)') <= Cardinality(Accounted(g))
      /\ Cardinality(Accounted(g)) \in Nat /\ Cardinality(Accounted(g)') \in Nat
  BY <1>2, <1>3, FiniteJobs
<1>5. toSpawn[g] \in Nat
  BY DEF TypeOK
<1>6. Cardinality(Accounted(g)) <= toSpawn[g] => Cardinality(Accounted(g)') <= toSpawn[g]
  BY <1>4, <1>5
<1>7. QED  BY <1>1, <1>6 DEF PassInv

-----------------------------------------------------------------------------
(* Passes.                                                                 *)

\* What Counted leaves behind.
LEMMA CountedType ==
  ASSUME TypeOK, NEW g \in Passes, avail[g] > 0,
         NEW n \in 0..avail[g], NEW rest \in SUBSET (Runs \X {"queued", "in_progress"}),
         NEW missed, Counted(g, n, rest, missed), UNCHANGED <<job, runners, mu>>, faults' \in Nat
  PROVE  /\ TypeOK'
         /\ toSpawn'[g] = n
         /\ rest = {} \/ n = avail[g] =>
              /\ pc'[g] \in {"idle", "lock"} /\ (pc'[g] = "lock" => n # 0)
              /\ waiting'[g] = {}
         /\ ~ (rest = {} \/ n = avail[g]) =>
              /\ pc'[g] = "jobs" /\ avail'[g] = avail[g] /\ todo'[g] = rest
              /\ waiting'[g] = waiting[g] \ missed
         /\ \A h \in Passes \ {g} : /\ pc'[h] = pc[h] /\ avail'[h] = avail[h]
                                    /\ todo'[h] = todo[h] /\ toSpawn'[h] = toSpawn[h]
                                    /\ waiting'[h] = waiting[h]
<1> USE ReconcilerAssumption DEF TypeOK
<1> DEFINE over == rest = {} \/ n = avail[g]
<1>1. toSpawn' = [toSpawn EXCEPT ![g] = n]
  BY DEF Counted
<1>2. todo' = [todo EXCEPT ![g] = IF over THEN {} ELSE rest]
  BY DEF Counted
<1>3. avail' = [avail EXCEPT ![g] = IF over THEN 0 ELSE avail[g]]
  BY DEF Counted
<1>4. waiting' = [waiting EXCEPT ![g] = IF over THEN {} ELSE waiting[g] \ missed]
  BY DEF Counted
<1>5. g \in Callers
  BY DEF Callers
<1>6. \E label \in {"idle", "jobs", "lock"} :
        /\ pc' = [pc EXCEPT ![g] = label]
        /\ label = "jobs" <=> ~over
        /\ label = "lock" => n # 0
  BY DEF Counted, Goto
<1>7. n \in 0..MaxConcurrency /\ 0 \in 0..MaxConcurrency
  OBVIOUS
<1>8. toSpawn' \in [Passes -> 0..MaxConcurrency] /\ avail' \in [Passes -> 0..MaxConcurrency]
  BY <1>1, <1>3, <1>7
<1>9. todo' \in [Passes -> SUBSET (Runs \X {"queued", "in_progress"})]
  BY <1>2
<1>10. waiting' \in [Passes -> SUBSET Matching]
  BY <1>4
<1>11. pc' \in [Callers -> {"idle", "queued", "in_progress", "jobs", "lock", "check", "run"}]
  BY <1>5, <1>6
<1>12. TypeOK'
  BY <1>8, <1>9, <1>10, <1>11
<1>13. \A h \in Passes : h \in Callers
  BY DEF Callers
<1>14. QED  BY <1>1, <1>2, <1>3, <1>4, <1>5, <1>6, <1>12, <1>13

\* A step that only touches the notes of the pass g.
LEMMA OthersUndisturbed ==
  ASSUME IInv, NEW g \in Passes, job' = job,
         \A h \in Passes \ {g} : /\ pc'[h] = pc[h] /\ avail'[h] = avail[h]
                                 /\ todo'[h] = todo[h] /\ toSpawn'[h] = toSpawn[h]
                                 /\ waiting'[h] = waiting[h]
  PROVE  \A h \in Passes \ {g} : PassInv(h)'
<1> TAKE h \in Passes \ {g}
<1>1. PassInv(h)
  BY DEF IInv
<1>2. \A j \in waiting'[h] : job'[j] = "queued"
  BY <1>1 DEF PassInv
<1>3. QED  BY <1>1, <1>2, Undisturbed DEF IInv

\* The second list, added to the first one, has the runs of all waiting jobs.
LEMMA SecondListComplete ==
  ASSUME TypeOK, NEW g \in Passes, PassInv(g), pc[g] = "in_progress", NEW j \in waiting[g]
  PROVE  \E e \in todo[g] \cup Listing(Lists[2]) : e[1] = RunOf[j]
<1>1. j \in Jobs /\ job[j] = "queued" /\ RunOf[j] \in Runs
  BY ReconcilerAssumption DEF TypeOK, PassInv
<1>2. CASE <<RunOf[j], "queued">> \in todo[g]
  BY <1>2
<1>3. CASE Started(RunOf[j])
  <2>1. Status(RunOf[j]) = "in_progress"
    BY <1>1, <1>3, StatusOfRun
  <2>2. <<RunOf[j], "in_progress">> \in Listing(Lists[2])
    BY <1>1, <2>1, ListingType DEF Listing
  <2>3. QED  BY <2>2
<1>4. QED  BY <1>2, <1>3 DEF PassInv

\* Looking into one more run accounts for the matching jobs queued in it.
LEMMA OneRunMore ==
  ASSUME TypeOK, NEW g \in Passes, PassInv(g), pc[g] = "jobs", NEW e \in todo[g]
  PROVE  LET left == {j \in waiting[g] : \A f \in todo[g] \ {e} : f[1] # RunOf[j]}
             found == Cardinality(Queued(e[1])) IN
         /\ found \in Nat /\ Cardinality(left) \in Nat
         /\ Cardinality(left) <= toSpawn[g] + found
<1> DEFINE left == {j \in waiting[g] : \A f \in todo[g] \ {e} : f[1] # RunOf[j]}
           both == Accounted(g) \cup Queued(e[1])
<1>1. waiting[g] \subseteq Matching /\ Matching \subseteq Jobs /\ \A j \in waiting[g] : job[j] = "queued"
  BY ReconcilerAssumption DEF TypeOK, PassInv
<1>2. left \subseteq both
  BY <1>1 DEF Accounted, Queued
<1>3. Accounted(g) \subseteq Jobs /\ Queued(e[1]) \subseteq Jobs /\ both \subseteq Jobs
  BY <1>1 DEF Accounted, Queued
<1>4. /\ IsFiniteSet(Accounted(g)) /\ Cardinality(Accounted(g)) \in Nat
      /\ IsFiniteSet(Queued(e[1])) /\ Cardinality(Queued(e[1])) \in Nat
      /\ Cardinality(left) \in Nat /\ Cardinality(left) <= Cardinality(both)
      /\ Cardinality(both) \in Nat
  BY <1>2, <1>3, FiniteJobs
<1>5. /\ Cardinality(both) = Cardinality(Accounted(g)) + Cardinality(Queued(e[1]))
                               - Cardinality(Accounted(g) \cap Queued(e[1]))
      /\ Cardinality(Accounted(g) \cap Queued(e[1])) \in Nat
  BY <1>3, <1>4, FS_Union, FiniteJobs
<1>6. Cardinality(Accounted(g)) <= toSpawn[g] /\ toSpawn[g] \in Nat
  BY DEF PassInv, TypeOK
<1>7. QED  BY <1>4, <1>5, <1>6

\* A pass begins, with what CountRunning left of the cap.
LEMMA StartStep ==
  ASSUME IInv, NEW g \in Passes, StartPass(g) \/ StartPassBlind(g)
  PROVE  IInv'
<1> USE ReconcilerAssumption
<1>1. Live \in Nat
  BY DEF IInv, TypeOK, Live
<1>2. PICK running \in Nat : CountCapacity(g, running) /\ faults' \in Nat
  BY <1>1 DEF StartPass, StartPassBlind, Fault, IInv, TypeOK
<1>3. /\ avail' = [avail EXCEPT ![g] = MaxConcurrency - running]
      /\ pc' = [pc EXCEPT ![g] = "queued"] /\ g \in Callers
      /\ UNCHANGED <<job, runners, mu, todo, toSpawn, waiting>>
      /\ running < MaxConcurrency
  BY <1>2 DEF CountCapacity, Goto, Callers
<1>4. MaxConcurrency - running \in 1..MaxConcurrency
  BY <1>2, <1>3
<1>5. TypeOK'
  BY <1>2, <1>3, <1>4 DEF IInv, TypeOK
<1>6. PassInv(g)'
  BY <1>3, <1>4 DEF IInv, TypeOK, PassInv
<1>7. \A h \in Passes \ {g} : PassInv(h)'
  BY <1>3, OthersUndisturbed DEF IInv, TypeOK, Callers
<1>8. QED  BY <1>3, <1>5, <1>6, <1>7 DEF IInv, Live

\* The requests of a pass.
LEMMA PassStepKeeps ==
  ASSUME IInv, NEW g \in Passes, PassStep(g)
  PROVE  IInv'
<1> USE ReconcilerAssumption
<1>1. /\ TypeOK /\ PassInv(g) /\ Live <= MaxConcurrency
      /\ avail[g] \in Nat /\ toSpawn[g] \in Nat /\ faults \in Nat
      /\ todo[g] \in SUBSET (Runs \X {"queued", "in_progress"})
      /\ waiting[g] \subseteq Matching
  BY DEF IInv, TypeOK
<1>2. pc[g] \in {"queued", "in_progress", "jobs"} => avail[g] > 0
  BY <1>1 DEF PassInv
<1>3. ASSUME NEW n \in 0..avail[g], NEW rest \in SUBSET (Runs \X {"queued", "in_progress"}),
             NEW missed, Counted(g, n, rest, missed), avail[g] > 0,
             UNCHANGED <<job, runners, mu>>, faults' \in Nat,
             ~ (rest = {} \/ n = avail[g]) =>
               Cardinality({j \in waiting[g] \ missed : \A e \in rest : e[1] # RunOf[j]}) <= n
      PROVE  IInv'
  <2>1. /\ TypeOK'
        /\ toSpawn'[g] = n
        /\ rest = {} \/ n = avail[g] =>
             /\ pc'[g] \in {"idle", "lock"} /\ (pc'[g] = "lock" => n # 0)
             /\ waiting'[g] = {}
        /\ ~ (rest = {} \/ n = avail[g]) =>
             /\ pc'[g] = "jobs" /\ avail'[g] = avail[g] /\ todo'[g] = rest
             /\ waiting'[g] = waiting[g] \ missed
        /\ \A h \in Passes \ {g} : /\ pc'[h] = pc[h] /\ avail'[h] = avail[h]
                                   /\ todo'[h] = todo[h] /\ toSpawn'[h] = toSpawn[h]
                                   /\ waiting'[h] = waiting[h]
    BY <1>1, <1>3, CountedType
  <2>2. CASE rest = {} \/ n = avail[g]
    <3>1. PassInv(g)'
      BY <2>1, <2>2 DEF PassInv
    <3>2. QED  BY <1>1, <1>3, <2>1, <3>1, OthersUndisturbed DEF IInv, Live
  <2>3. CASE ~ (rest = {} \/ n = avail[g])
    <3>1. Accounted(g)' = {j \in waiting[g] \ missed : \A e \in rest : e[1] # RunOf[j]}
      BY <2>1, <2>3 DEF Accounted
    <3>2. n < avail[g]
      BY <1>1, <2>3
    <3>3. \A j \in waiting'[g] : job'[j] = "queued"
      BY <1>1, <1>3, <2>1, <2>3 DEF PassInv
    <3>4. PassInv(g)'
      BY <1>3, <2>1, <2>3, <3>1, <3>2, <3>3 DEF PassInv
    <3>5. QED  BY <1>1, <1>3, <2>1, <3>4, OthersUndisturbed DEF IInv, Live
  <2>4. QED  BY <2>2, <2>3
<1>4. CASE ListFirst(g)
  <2>1. /\ todo' = [todo EXCEPT ![g] = Listing("queued")]
        /\ waiting' = [waiting EXCEPT ![g] = {j \in Matching : job[j] = "queued"}]
        /\ pc' = [pc EXCEPT ![g] = "in_progress"] /\ g \in Callers /\ pc[g] = "queued"
        /\ UNCHANGED <<job, runners, mu, avail, toSpawn, faults>>
    BY <1>4, ListingType DEF ListFirst, Goto, Callers
  <2>2. TypeOK'
    BY <1>1, <2>1, ListingType DEF TypeOK
  <2>3. ASSUME NEW j \in waiting'[g]
        PROVE  job[j] = "queued" /\ (<<RunOf[j], "queued">> \in todo'[g] \/ Started(RunOf[j])')
    <3>1. j \in Jobs /\ job[j] = "queued" /\ RunOf[j] \in Runs
      BY <1>1, <2>1, <2>3 DEF TypeOK
    <3>2. CASE Started(RunOf[j])
      BY <2>1, <3>1, <3>2 DEF Started
    <3>3. CASE ~Started(RunOf[j])
      <4>1. Status(RunOf[j]) = "queued"
        BY <1>1, <3>1, <3>3, StatusOfRun
      <4>2. QED  BY <1>1, <2>1, <3>1, <4>1 DEF Listing, TypeOK
    <3>4. QED  BY <3>1, <3>2, <3>3
  <2>4. PassInv(g)'
    BY <1>1, <1>2, <2>1, <2>3 DEF TypeOK, PassInv
  <2>5. \A h \in Passes \ {g} : PassInv(h)'
    BY <1>1, <2>1, OthersUndisturbed DEF TypeOK, Callers
  <2>6. QED  BY <1>1, <2>1, <2>2, <2>4, <2>5 DEF IInv, Live
<1>5. CASE ListSecond(g)
  <2> DEFINE rest == todo[g] \cup Listing(Lists[2])
  <2>1. /\ Counted(g, 0, rest, {}) /\ pc[g] = "in_progress"
        /\ UNCHANGED <<job, runners, mu, faults>>
    BY <1>5 DEF ListSecond
  <2>2. rest \in SUBSET (Runs \X {"queued", "in_progress"})
    BY <1>1, ListingType
  <2>3. {j \in waiting[g] \ {} : \A e \in rest : e[1] # RunOf[j]} = {}
    BY <1>1, <2>1, SecondListComplete
  <2>4. Cardinality({}) <= 0
    BY FS_EmptySet
  <2>5. QED  BY <1>1, <1>2, <1>3, <2>1, <2>2, <2>3, <2>4
<1>6. CASE ListFailed(g)
  <2>1. /\ Counted(g, 0, {}, {}) /\ avail[g] > 0
        /\ UNCHANGED <<job, runners, mu>> /\ faults' \in Nat
    BY <1>1, <1>2, <1>6 DEF ListFailed, Fault
  <2>2. 0 \in 0..avail[g] /\ {} \in SUBSET (Runs \X {"queued", "in_progress"})
    BY <1>1
  <2>3. QED  BY <1>3, <2>1, <2>2
<1>7. ASSUME NEW e \in todo[g], ListJobs(g, e) PROVE IInv'
  <2> DEFINE n == AtMost(toSpawn[g] + Cardinality(Queued(e[1])), avail[g])
             left == {j \in waiting[g] : \A f \in todo[g] \ {e} : f[1] # RunOf[j]}
  <2>1. /\ Counted(g, n, todo[g] \ {e}, {}) /\ pc[g] = "jobs"
        /\ UNCHANGED <<job, runners, mu, faults>>
    BY <1>7 DEF ListJobs, InTurn
  <2>2. /\ Cardinality(Queued(e[1])) \in Nat /\ Cardinality(left) \in Nat
        /\ Cardinality(left) <= toSpawn[g] + Cardinality(Queued(e[1]))
    BY <1>1, <2>1, OneRunMore
  <2>3. n \in 0..avail[g] /\ (n # avail[g] => Cardinality(left) <= n)
    BY <1>1, <2>2 DEF AtMost
  <2>4. {j \in waiting[g] \ {} : \A f \in todo[g] \ {e} : f[1] # RunOf[j]} = left
    OBVIOUS
  <2> HIDE DEF n, left
  <2>5. QED  BY <1>1, <1>2, <1>3, <2>1, <2>3, <2>4
<1>8. ASSUME NEW e \in todo[g], ListJobsFailed(g, e) PROVE IInv'
  <2> DEFINE missed == {j \in Jobs : RunOf[j] = e[1]}
             left == {j \in waiting[g] \ missed : \A f \in todo[g] \ {e} : f[1] # RunOf[j]}
  <2>1. /\ Counted(g, toSpawn[g], todo[g] \ {e}, missed) /\ pc[g] = "jobs"
        /\ UNCHANGED <<job, runners, mu>> /\ faults' \in Nat
    BY <1>1, <1>8 DEF ListJobsFailed, InTurn, Fault
  <2>2. left \subseteq Accounted(g) /\ Accounted(g) \subseteq Jobs
    BY <1>1 DEF Accounted
  <2>3. Cardinality(left) <= toSpawn[g] /\ toSpawn[g] \in 0..avail[g]
    BY <1>1, <2>1, <2>2, FiniteJobs DEF PassInv
  <2> HIDE DEF missed
  <2>4. QED  BY <1>1, <1>2, <1>3, <2>1, <2>3
<1>9. QED  BY <1>4, <1>5, <1>6, <1>7, <1>8 DEF PassStep

-----------------------------------------------------------------------------
(* Spawn.                                                                  *)

\* Spawn returns to the spawn loop of a pass, or to the reader: the loop counts
\* down from what the pass has counted, and never below zero.
LEMMA ReturnKeeps ==
  ASSUME IInv, NEW p \in Callers, pc[p] \in {"check", "run"},
         NEW left, left \in {toSpawn[p] - 1, 0}, Return(p, left),
         UNCHANGED <<job, avail, todo, waiting>>
  PROVE  /\ mu' \in Callers \cup {None}
         /\ pc' \in [Callers -> {"idle", "queued", "in_progress", "jobs", "lock", "check", "run"}]
         /\ toSpawn' \in [Passes -> 0..MaxConcurrency]
         /\ \A g \in Passes : PassInv(g)'
<1> USE ReconcilerAssumption
<1>1. mu' = None /\ TypeOK
  BY DEF Return, IInv
<1>2. PICK label \in {"idle", "lock"} :
        /\ pc' = [pc EXCEPT ![p] = label]
        /\ label = "lock" => p # Reader /\ left # 0
  BY DEF Return, Goto
<1>3. pc' \in [Callers -> {"idle", "queued", "in_progress", "jobs", "lock", "check", "run"}]
  BY <1>1, <1>2 DEF TypeOK
<1>4. CASE p = Reader
  <2>1. toSpawn' = toSpawn /\ \A g \in Passes : g \in Callers /\ pc'[g] = pc[g]
    BY <1>1, <1>2, <1>4 DEF Return, TypeOK, Callers
  <2>2. ASSUME NEW g \in Passes PROVE PassInv(g)'
    <3>1. PassInv(g) /\ \A j \in waiting'[g] : job'[j] = "queued"
      BY DEF IInv, PassInv
    <3>2. QED  BY <1>1, <2>1, <3>1, Undisturbed
  <2>3. QED  BY <1>1, <1>3, <2>1, <2>2 DEF TypeOK
<1>5. CASE p \in Passes
  <2>1. PassInv(p) /\ toSpawn[p] \in 0..MaxConcurrency
    BY <1>1, <1>5 DEF IInv, TypeOK
  <2>2. toSpawn[p] > 0
    BY <2>1 DEF PassInv
  <2>3. left \in 0..MaxConcurrency
    BY <2>1, <2>2
  <2>4. toSpawn' = [toSpawn EXCEPT ![p] = left]
    BY <1>5 DEF Return
  <2>5. toSpawn' \in [Passes -> 0..MaxConcurrency]
    BY <1>1, <2>3, <2>4 DEF TypeOK
  <2>6. PassInv(p)'
    <3>1. pc'[p] = label /\ toSpawn'[p] = left
      BY <1>1, <1>2, <1>5, <2>4 DEF TypeOK
    <3>2. \A j \in waiting'[p] : job'[j] = "queued"
      BY <2>1 DEF PassInv
    <3>3. label = "lock" => left > 0
      BY <1>2, <2>3
    <3>4. QED  BY <1>2, <3>1, <3>2, <3>3 DEF PassInv
  <2>7. \A h \in Passes \ {p} : pc'[h] = pc[h] /\ toSpawn'[h] = toSpawn[h]
    BY <1>1, <1>2, <2>4 DEF TypeOK, Callers
  <2>8. \A h \in Passes \ {p} : PassInv(h)'
    BY <1>5, <2>7, OthersUndisturbed
  <2>9. QED  BY <1>1, <1>3, <2>5, <2>6, <2>8
<1>6. QED  BY <1>4, <1>5 DEF Callers

\* A caller goes on inside Spawn: a pass still has a runner to spawn.
LEMMA GoesOn ==
  ASSUME IInv, NEW p \in Callers, pc[p] \in {"lock", "check"},
         NEW label \in {"check", "run"}, Goto(p, label),
         UNCHANGED <<job, runners, counted>>, mu' \in Callers \cup {None}, faults' \in Nat
  PROVE  IInv'
<1> USE ReconcilerAssumption
<1>1. pc' = [pc EXCEPT ![p] = label] /\ TypeOK
  BY DEF Goto, IInv
<1>2. TypeOK'
  BY <1>1 DEF TypeOK
<1>3. ASSUME NEW g \in Passes PROVE PassInv(g)'
  <2>1. PassInv(g) /\ g \in Callers /\ \A j \in waiting'[g] : job'[j] = "queued"
    BY DEF IInv, PassInv, Callers
  <2>2. CASE g = p
    <3>1. pc'[g] \in {"check", "run"} /\ toSpawn'[g] > 0
      BY <1>1, <2>1, <2>2 DEF PassInv, TypeOK
    <3>2. QED  BY <2>1, <3>1 DEF PassInv
  <2>3. CASE g # p
    <3>1. pc'[g] = pc[g]
      BY <1>1, <2>1, <2>3 DEF TypeOK
    <3>2. QED  BY <1>1, <2>1, <3>1, Undisturbed
  <2>4. QED  BY <2>2, <2>3
<1>4. QED  BY <1>2, <1>3 DEF IInv, Live

\* The steps of Spawn.
LEMMA SpawnKeeps ==
  ASSUME IInv, NEW p \in Callers, Lock(p) \/ SpawnStep(p)
  PROVE  IInv'
<1> USE ReconcilerAssumption
<1>1. TypeOK /\ Live <= MaxConcurrency /\ faults \in Nat
  BY DEF IInv, TypeOK
<1>2. CASE Lock(p)
  BY <1>1, <1>2, GoesOn DEF Lock
<1>3. CASE NoIdle(p) \/ IdleUnknown(p)
  <2>1. /\ pc[p] = "check" /\ Goto(p, "run") /\ UNCHANGED <<job, runners, mu, counted>>
        /\ faults' \in Nat /\ mu' \in Callers \cup {None}
    BY <1>1, <1>3 DEF NoIdle, IdleUnknown, Fault, TypeOK
  <2>2. QED  BY <2>1, GoesOn
<1>4. CASE IdleSkip(p) \/ CapHit(p) \/ RunFailed(p)
  <2>1. /\ pc[p] \in {"check", "run"}
        /\ Return(p, toSpawn[p] - 1) \/ Return(p, 0)
        /\ UNCHANGED <<job, runners, avail, todo, waiting>> /\ faults' \in Nat
    BY <1>1, <1>4 DEF IdleSkip, CapHit, RunFailed, ReturnOK, ReturnError, Fault
  <2>2. /\ mu' \in Callers \cup {None}
        /\ pc' \in [Callers -> {"idle", "queued", "in_progress", "jobs", "lock", "check", "run"}]
        /\ toSpawn' \in [Passes -> 0..MaxConcurrency]
        /\ \A g \in Passes : PassInv(g)'
    BY <2>1, ReturnKeeps
  <2>3. TypeOK' /\ Live' <= MaxConcurrency
    BY <1>1, <2>1, <2>2 DEF TypeOK, Live
  <2>4. QED  BY <2>2, <2>3 DEF IInv
<1>5. CASE RunOK(p)
  <2>1. /\ pc[p] \in {"check", "run"}
        /\ Return(p, toSpawn[p] - 1)
        /\ UNCHANGED <<job, static, avail, todo, waiting, faults>>
        /\ pool' = [pool EXCEPT !["booting"] = @ + 1] /\ Live < MaxConcurrency
    BY <1>5 DEF RunOK, ReturnOK
  <2>2. /\ mu' \in Callers \cup {None}
        /\ pc' \in [Callers -> {"idle", "queued", "in_progress", "jobs", "lock", "check", "run"}]
        /\ toSpawn' \in [Passes -> 0..MaxConcurrency]
        /\ \A g \in Passes : PassInv(g)'
    BY <2>1, ReturnKeeps
  <2>3. pool' \in [{"booting", "idle", "busy"} -> 0..MaxConcurrency] /\ Live' <= MaxConcurrency
    BY <1>1, <2>1 DEF TypeOK, Live
  <2>4. TypeOK'
    BY <1>1, <2>1, <2>2, <2>3 DEF TypeOK
  <2>5. QED  BY <2>2, <2>3, <2>4 DEF IInv
<1>6. QED  BY <1>2, <1>3, <1>4, <1>5 DEF SpawnStep

-----------------------------------------------------------------------------
(* GitHub, the runners and the events.                                     *)

\* The steps of others leave the passes where they are; the reader waits for the
\* mutex, jobs enter and leave the queue, runners come and go.
LEMMA OthersKeep ==
  ASSUME IInv, TypeOK', Live' <= MaxConcurrency,
         UNCHANGED <<avail, todo, toSpawn>>, \A g \in Passes : pc'[g] = pc[g],
         \/ UNCHANGED <<job, waiting>>
         \/ \E j \in Jobs : Enqueue(j)
         \/ \E j \in Jobs, s \in {"running", "done"} : Unqueue(j, s)
         \/ \E j \in Jobs : End(j)
  PROVE  IInv'
<1>1. TypeOK
  BY DEF IInv
<1>2. ASSUME NEW g \in Passes PROVE PassInv(g)'
  <2>1. PassInv(g) /\ \A j \in waiting[g] : j \in Jobs /\ job[j] = "queued"
    BY <1>1, ReconcilerAssumption DEF IInv, PassInv, TypeOK
  <2>2. /\ waiting'[g] \subseteq waiting[g]
        /\ \A j \in waiting'[g] : job'[j] = "queued"
        /\ \A i \in Jobs : job[i] \in {"running", "done"} => job'[i] \in {"running", "done"}
    <3>1. CASE UNCHANGED <<job, waiting>>
      BY <2>1, <3>1
    <3> DEFINE Kept == /\ waiting'[g] \subseteq waiting[g]
                       /\ \A j \in waiting'[g] : job'[j] = "queued"
                       /\ \A i \in Jobs : job[i] \in {"running", "done"} => job'[i] \in {"running", "done"}
    <3>2. ASSUME NEW j \in Jobs, Enqueue(j) PROVE Kept
      BY <1>1, <2>1, <3>2 DEF Enqueue, TypeOK
    <3>3. ASSUME NEW j \in Jobs, NEW s \in {"running", "done"}, Unqueue(j, s) PROVE Kept
      BY <1>1, <2>1, <3>3 DEF Unqueue, TypeOK
    <3>4. ASSUME NEW j \in Jobs, End(j) PROVE Kept
      BY <1>1, <2>1, <3>4 DEF End, TypeOK
    <3>5. QED  BY <3>1, <3>2, <3>3, <3>4
  <2>3. QED  BY <1>1, <2>1, <2>2, Undisturbed
<1>3. QED  BY <1>2 DEF IInv

\* A job that is enqueued, started, cancelled or ended keeps the types.
LEMMA JobTypes ==
  ASSUME TypeOK, NEW j \in Jobs,
         Enqueue(j) \/ (\E s \in {"running", "done"} : Unqueue(j, s)) \/ End(j)
  PROVE  /\ UNCHANGED <<mu, pc, avail, todo, toSpawn, faults>>
         /\ job' \in [Jobs -> {"none", "queued", "running", "done"}]
         /\ waiting' \in [Passes -> SUBSET Matching]
<1> USE DEF TypeOK
<1>1. CASE Enqueue(j)
  BY <1>1 DEF Enqueue
<1>2. CASE \E s \in {"running", "done"} : Unqueue(j, s)
  BY <1>2 DEF Unqueue
<1>3. CASE End(j)
  BY <1>3 DEF End
<1>4. QED  BY <1>1, <1>2, <1>3

\* The steps of GitHub and of the runners.
LEMMA WorldKeeps ==
  ASSUME IInv,
         \/ \E j \in Jobs : Enqueue(j) \/ Cancel(j) \/ StartElsewhere(j) \/ EndElsewhere(j)
         \/ Boot \/ Work \/ Exit("booting") \/ Exit("idle") \/ \E n \in Static : Retire(n)
  PROVE  IInv'
<1> USE ReconcilerAssumption
<1>1. TypeOK /\ Live <= MaxConcurrency
  BY DEF IInv
<1>2. ASSUME NEW j \in Jobs,
             Enqueue(j) \/ (\E s \in {"running", "done"} : Unqueue(j, s)) \/ End(j),
             pool' \in [{"booting", "idle", "busy"} -> 0..MaxConcurrency],
             static' \in [Static -> {"idle", "busy", "gone"}],
             Live' <= MaxConcurrency
      PROVE  IInv'
  <2>1. /\ UNCHANGED <<mu, pc, avail, todo, toSpawn, faults>>
        /\ job' \in [Jobs -> {"none", "queued", "running", "done"}]
        /\ waiting' \in [Passes -> SUBSET Matching]
    BY <1>1, <1>2, JobTypes
  <2>2. TypeOK'
    BY <1>1, <1>2, <2>1 DEF TypeOK
  <2>3. QED  BY <1>2, <2>1, <2>2, OthersKeep
<1>3. ASSUME NEW j \in Jobs, UNCHANGED runners,
             Enqueue(j) \/ (\E s \in {"running", "done"} : Unqueue(j, s)) \/ End(j)
      PROVE  IInv'
  BY <1>1, <1>2, <1>3 DEF TypeOK, Live
<1>4. CASE \E j \in Jobs : Enqueue(j) \/ Cancel(j) \/ StartElsewhere(j) \/ EndElsewhere(j)
  BY <1>3, <1>4 DEF Enqueue, Cancel, StartElsewhere, EndElsewhere
<1>5. ASSUME NEW j \in Jobs, Assign(j) \/ Finish(j) PROVE IInv'
  <2>1. /\ UNCHANGED static /\ (Unqueue(j, "running") \/ End(j))
        /\ \/ pool["idle"] > 0 /\ pool' = [pool EXCEPT !["idle"] = @ - 1, !["busy"] = @ + 1]
           \/ pool["busy"] > 0 /\ pool' = [pool EXCEPT !["busy"] = @ - 1]
    BY <1>5 DEF Assign, Finish
  <2>2. pool' \in [{"booting", "idle", "busy"} -> 0..MaxConcurrency] /\ Live' <= MaxConcurrency
    BY <1>1, <2>1 DEF TypeOK, Live
  <2>3. static' \in [Static -> {"idle", "busy", "gone"}]
    BY <1>1, <2>1 DEF TypeOK
  <2>4. QED  BY <1>2, <2>1, <2>2, <2>3
<1>6. ASSUME NEW j \in Jobs, NEW n \in Static, AssignStatic(j, n) \/ FinishStatic(j, n) PROVE IInv'
  <2>1. /\ UNCHANGED pool /\ (Unqueue(j, "running") \/ End(j))
        /\ \E s \in {"idle", "busy"} : static' = [static EXCEPT ![n] = s]
    BY <1>6 DEF AssignStatic, FinishStatic
  <2>2. pool' \in [{"booting", "idle", "busy"} -> 0..MaxConcurrency] /\ Live' <= MaxConcurrency
    BY <1>1, <2>1 DEF TypeOK, Live
  <2>3. static' \in [Static -> {"idle", "busy", "gone"}]
    BY <1>1, <2>1 DEF TypeOK
  <2>4. QED  BY <1>2, <2>1, <2>2, <2>3
<1>7. ASSUME UNCHANGED <<job, mu, pc, counted>>, faults' \in Nat,
             pool' \in [{"booting", "idle", "busy"} -> 0..MaxConcurrency],
             static' \in [Static -> {"idle", "busy", "gone"}],
             Live' <= MaxConcurrency
      PROVE  IInv'
  BY <1>1, <1>7, OthersKeep DEF TypeOK
<1>8. CASE Boot \/ Exit("booting") \/ Exit("idle")
  <2>1. /\ UNCHANGED <<job, static, mu, pc, counted>> /\ faults' \in Nat
        /\ \/ pool["booting"] > 0 /\ pool' = [pool EXCEPT !["booting"] = @ - 1, !["idle"] = @ + 1]
           \/ pool["booting"] > 0 /\ pool' = [pool EXCEPT !["booting"] = @ - 1]
           \/ pool["idle"] > 0 /\ pool' = [pool EXCEPT !["idle"] = @ - 1]
    BY <1>1, <1>8 DEF Boot, Exit, Fault, TypeOK
  <2>2. pool' \in [{"booting", "idle", "busy"} -> 0..MaxConcurrency] /\ Live' <= MaxConcurrency
    BY <1>1, <2>1 DEF TypeOK, Live
  <2>3. static' \in [Static -> {"idle", "busy", "gone"}]
    BY <1>1, <2>1 DEF TypeOK
  <2>4. QED  BY <1>7, <2>1, <2>2, <2>3
<1>9. ASSUME NEW n \in Static, Retire(n) PROVE IInv'
  <2>1. /\ UNCHANGED <<job, pool, mu, pc, counted>> /\ faults' \in Nat
        /\ static' = [static EXCEPT ![n] = "gone"]
    BY <1>1, <1>9 DEF Retire, Fault, TypeOK
  <2>2. QED  BY <1>1, <1>7, <2>1 DEF TypeOK, Live
<1>10. QED  BY <1>4, <1>5, <1>6, <1>8, <1>9 DEF Work

-----------------------------------------------------------------------------
(* The theorems.                                                           *)

\* The invariant holds at the start ...
LEMMA IInvInit == Init => IInv
<1> SUFFICES ASSUME Init PROVE IInv
  OBVIOUS
<1>1. TypeOK
  BY ReconcilerAssumption DEF Init, TypeOK
<1>2. Live <= MaxConcurrency
  BY ReconcilerAssumption DEF Init, Live
<1>3. \A g \in Passes : PassInv(g)
  BY DEF Init, PassInv, Callers
<1>4. QED  BY <1>1, <1>2, <1>3 DEF IInv

\* ... and every step keeps it ...
LEMMA IInvStep == IInv /\ [Next]_vars => IInv'
<1> SUFFICES ASSUME IInv, [Next]_vars PROVE IInv'
  OBVIOUS
<1>1. TypeOK /\ Live <= MaxConcurrency
  BY DEF IInv
<1>2. CASE UNCHANGED vars
  <2>1. UNCHANGED <<job, pool, static, mu, pc, avail, todo, toSpawn, waiting, faults>>
    BY <1>2 DEF vars
  <2>2. TypeOK' /\ Live' <= MaxConcurrency
    BY <1>1, <2>1 DEF TypeOK, Live
  <2>3. QED  BY <2>1, <2>2, OthersKeep
<1>3. ASSUME NEW g \in Passes, NoCapacity(g) PROVE IInv'
  BY <1>2, <1>3 DEF NoCapacity
<1>4. ASSUME NEW j \in Jobs, Dispatch(j) PROVE IInv'
  <2>1. pc' = [pc EXCEPT ![Reader] = "lock"] /\ UNCHANGED <<job, runners, mu, counted, faults>>
    BY <1>4 DEF Dispatch, Goto
  <2>2. TypeOK' /\ Live' <= MaxConcurrency
    BY <1>1, <2>1 DEF TypeOK, Live
  <2>3. \A g \in Passes : pc'[g] = pc[g]
    BY <1>1, <2>1, ReconcilerAssumption DEF TypeOK, Callers
  <2>4. QED  BY <2>1, <2>2, <2>3, OthersKeep
<1>5. CASE Restart
  <2>1. TypeOK' /\ Live' <= MaxConcurrency
    BY <1>1, <1>5, ReconcilerAssumption DEF Restart, Fault, TypeOK, Live
  <2>2. \A g \in Passes : PassInv(g)'
    BY <1>5 DEF Restart, PassInv, Callers
  <2>3. QED  BY <2>1, <2>2 DEF IInv
<1>6. QED
  BY <1>2, <1>3, <1>4, <1>5, StartStep, PassStepKeeps, SpawnKeeps, WorldKeeps DEF Next

\* ... and so it always holds.
LEMMA Invariance == Spec => []IInv
BY IInvInit, IInvStep, PTL DEF Spec

\* Every variable keeps its type: no pass asks for more runners than the cap of
\* the repo allows, nor counts down below zero, whatever the order in which the
\* passes, the reader and the world step, and with any number of faults.
THEOREM TypeCorrect == Spec => []TypeOK
<1>1. IInv => TypeOK
  BY DEF IInv
<1>2. QED  BY <1>1, Invariance, PTL

\* No straggler is overlooked, for any number of jobs, runs and passes: the first
\* list holds the runs that have not started, the second one those that have,
\* and a run that starts between the two requests is on both
\* (listQueuedRunIDs, countQueuedForRepo; reconciler.go:192-201).
THEOREM NoStragglerOverlooked == Spec => NoneOverlooked
<1> DEFINE Enough(g) ==
             /\ ListSecond(g) \/ \E e \in todo[g] : ListJobs(g, e)
             /\ pc'[g] # "jobs"
             => toSpawn'[g] >= AtMost(Cardinality(waiting[g]), avail[g])
<1>1. ASSUME IInv, NEW g \in Passes PROVE Enough(g)
  <2>1. /\ TypeOK /\ PassInv(g) /\ avail[g] \in Nat /\ toSpawn[g] \in Nat
        /\ todo[g] \in SUBSET (Runs \X {"queued", "in_progress"})
    BY <1>1 DEF IInv, TypeOK
  <2>2. waiting[g] \subseteq Jobs /\ Cardinality(waiting[g]) \in Nat
    BY <2>1, ReconcilerAssumption, FiniteJobs DEF TypeOK
  <2>3. ASSUME ListSecond(g), pc'[g] # "jobs"
        PROVE  toSpawn'[g] >= AtMost(Cardinality(waiting[g]), avail[g])
    <3> DEFINE rest == todo[g] \cup Listing(Lists[2])
    <3>1. Counted(g, 0, rest, {}) /\ pc[g] = "in_progress"
      BY <2>3 DEF ListSecond
    <3>2. avail[g] > 0
      BY <2>1, <3>1 DEF PassInv
    <3>3. toSpawn'[g] = 0 /\ (rest = {} \/ 0 = avail[g])
      BY <2>1, <2>3, <3>1 DEF Counted, Goto, TypeOK, Callers
    <3>4. waiting[g] = {}
      BY <2>1, <3>1, <3>2, <3>3, SecondListComplete
    <3>5. Cardinality(waiting[g]) = 0
      BY <3>4, FS_EmptySet
    <3>6. QED  BY <2>1, <3>3, <3>5 DEF AtMost
  <2>4. ASSUME NEW e \in todo[g], ListJobs(g, e), pc'[g] # "jobs"
        PROVE  toSpawn'[g] >= AtMost(Cardinality(waiting[g]), avail[g])
    <3> DEFINE n == AtMost(toSpawn[g] + Cardinality(Queued(e[1])), avail[g])
               left == {j \in waiting[g] : \A f \in todo[g] \ {e} : f[1] # RunOf[j]}
    <3>1. Counted(g, n, todo[g] \ {e}, {}) /\ pc[g] = "jobs"
      BY <2>4 DEF ListJobs, InTurn
    <3>2. toSpawn'[g] = n /\ (todo[g] \ {e} = {} \/ n = avail[g])
      <4> HIDE DEF n
      <4>1. QED  BY <2>1, <2>4, <3>1 DEF Counted, Goto, TypeOK, Callers
    <3>3. /\ Cardinality(Queued(e[1])) \in Nat /\ Cardinality(left) \in Nat
          /\ Cardinality(left) <= toSpawn[g] + Cardinality(Queued(e[1]))
      BY <2>1, <3>1, OneRunMore
    <3>4. todo[g] \ {e} = {} => left = waiting[g]
      OBVIOUS
    <3> HIDE DEF left
    <3>5. QED  BY <2>1, <2>2, <3>2, <3>3, <3>4 DEF AtMost
  <2>5. QED  BY <2>3, <2>4
<1>2. IInv => \A g \in Passes : Enough(g)
  BY <1>1
<1>3. QED  BY <1>2, Invariance, PTL DEF NoneOverlooked
=============================================================================
