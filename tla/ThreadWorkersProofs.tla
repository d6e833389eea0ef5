------------------------- MODULE ThreadWorkersProofs -------------------------
(***************************************************************************)
(* Proofs about ThreadWorkers, for every number of workers and user        *)
(* threads and for every dependency graph.                                 *)
(***************************************************************************)
EXTENDS ThreadWorkers, FiniteSetTheorems, TLAPS

USE DEF startVars, MayTake, WorkIsOver, Joinable

-----------------------------------------------------------------------------
(***************************************************************************)
(* The inductive invariant.                                                *)
(***************************************************************************)

\* Before start() there is no work; after it there is a graph and a worker.
Begun ==
  /\ hasStarted_ => graph \in Graphs /\ nWorkers_ >= 1
  /\ ~hasStarted_ =>
       /\ graph = NoGraph /\ nWorkers_ = 0
       /\ nItemsStarted_ = 0 /\ nItemsFinished_ = 0
       /\ started = {} /\ finished = {} /\ outcome = "none"
       /\ \A u \in Users : at[u] = "idle"

\* Exactly the first nWorkers_ threads exist, and a thread has a task exactly
\* while it runs the functor.
ThreadsKnown ==
  \A w \in Threads :
    /\ pc[w] = "none" <=> w > nWorkers_
    /\ task[w] = NoTask <=> pc[w] # "run"

\* A thread that waits has seen the end of every worker it has passed.
JoinProgress ==
  \A u \in Users : at[u] # "idle" =>
    \A i \in Threads : i <= nWorkers_ /\ i < next[u] => pc[i] = "end"

ControlInv == TypeOK /\ Begun /\ ThreadsKnown /\ JoinProgress

\* The started tasks that have not finished are those the workers run, and no
\* two workers run the same one.
TasksHeld ==
  /\ \A w \in Threads : pc[w] = "run" => task[w] \in started \ finished
  /\ \A w, x \in Threads :
       pc[w] = "run" /\ pc[x] = "run" /\ task[w] = task[x] => w = x
  /\ \A t \in started \ finished : \E w \in Threads : pc[w] = "run" /\ task[w] = t
  /\ finished \subseteq started

\* The outstanding edges are those to unfinished tasks.
EdgesLeft ==
  \A v, d \in Tasks : dependencies_[<<v, d>>] =
    IF d \in finished THEN 0 ELSE graph.edges[<<v, d>>]

\* The vertices without outstanding edges are those queued or started.
ReadyTaken ==
  \A v \in Tasks :
    (started \cup {t \in Tasks : workQueue_[t] > 0}) \subseteq graph.vertices /\
    (v \in graph.vertices =>
       (NoOutEdges(v, dependencies_) <=> v \in started \/ workQueue_[v] > 0))

GraphInv == TasksHeld /\ EdgesLeft /\ ReadyTaken

Running == {w \in Threads : pc[w] = "run"}

CountInv ==
  /\ nWorkersRunning_ = Cardinality(Running)
  /\ nItemsStarted_ = Cardinality(started)
  /\ nItemsFinished_ = Cardinality(finished)

\* A worker has ended: the work is over.
EndInv ==
  (\E w \in Threads : pc[w] = "end") => started = finished /\ QueueIsEmpty

IndInv ==
  /\ ControlInv
  /\ hasStarted_ => GraphInv
  /\ QueuedOnceAndReady
  /\ CountInv
  /\ EndInv
  /\ SleepersNotNeeded

-----------------------------------------------------------------------------
(***************************************************************************)
(* Sets of tasks and threads.                                              *)
(***************************************************************************)

\* Sets of tasks and of threads are finite.
LEMMA FiniteSets ==
  /\ Cardinality(Tasks) \in Nat
  /\ \A S \in SUBSET Tasks : IsFiniteSet(S) /\ Cardinality(S) \in Nat
  /\ \A S \in SUBSET Threads : IsFiniteSet(S) /\ Cardinality(S) \in Nat
<1>1. Cardinality(Tasks) \in Nat
  BY GraphsAssumption, FS_CardinalityType
<1>2. IsFiniteSet(Threads)
  BY <1>1, FS_Interval DEF Threads
<1>3. QED
  BY <1>1, <1>2, GraphsAssumption, FS_Subset, FS_CardinalityType

\* Adding one element to a finite set, and comparing finite sets.
LEMMA AddOne ==
  ASSUME NEW S, IsFiniteSet(S), NEW x, x \notin S
  PROVE  /\ IsFiniteSet(S \cup {x})
         /\ Cardinality(S) \in Nat
         /\ Cardinality(S \cup {x}) = Cardinality(S) + 1
BY FS_AddElement, FS_CardinalityType

\* Removing a member lowers the cardinality by one.
LEMMA RemoveOne ==
  ASSUME NEW S, IsFiniteSet(S), NEW x \in S
  PROVE  /\ Cardinality(S \ {x}) = Cardinality(S) - 1
         /\ Cardinality(S) \in Nat
         /\ Cardinality(S \ {x}) \in Nat
BY FS_RemoveElement, FS_CardinalityType

\* The cardinality of a subset, and when it is that of the whole set.
LEMMA Monotone ==
  ASSUME NEW S, NEW T, IsFiniteSet(T), S \subseteq T
  PROVE  /\ IsFiniteSet(S)
         /\ Cardinality(S) \in Nat /\ Cardinality(T) \in Nat
         /\ Cardinality(S) <= Cardinality(T)
         /\ Cardinality(S) = Cardinality(T) <=> S = T
BY FS_Subset, FS_CardinalityType

\* start() creates at least one thread, and no more than there are names for.
LEMMA NWorkersBounds ==
  ASSUME NEW n \in Requests, NEW g \in Graphs
  PROVE  NWorkers(n, g) \in 1..(Cardinality(Tasks) + 1)
<1>1. g.vertices \subseteq Tasks
  BY GraphsAssumption
<1>2. /\ Cardinality(g.vertices) \in Nat /\ Cardinality(Tasks) \in Nat
      /\ Cardinality(g.vertices) <= Cardinality(Tasks)
  BY <1>1, Monotone, GraphsAssumption
<1>3. QED
  BY <1>2, RequestsAssumption DEF NWorkers, MaxOf, MinOf

-----------------------------------------------------------------------------
(***************************************************************************)
(* Control: one lemma per action.                                          *)
(***************************************************************************)

\* The names of threads are numbers.
LEMMA ThreadNumbers ==
  /\ \A w \in Threads : w \in Nat /\ w >= 1
  /\ TypeOK => nWorkers_ \in Nat /\ Created \subseteq Threads
BY FiniteSets DEF Threads, TypeOK, Created

\* A worker that waits, ends, or wakes up by itself keeps ControlInv.
LEMMA ControlWorker ==
  ASSUME ControlInv, NEW w \in Threads,
         WorkerWaits(w) \/ WorkerReturns(w) \/ SpuriousWakeup(w)
  PROVE  ControlInv'
<1> USE ThreadNumbers DEF ControlInv, WorkerWaits, WorkerReturns, SpuriousWakeup,
       workVars, userVars, countVars
<1>1. TypeOK'
  <2>1. /\ pc' \in [Threads -> {"none", "look", "wait", "run", "end"}]
        /\ nWorkersFinished_' \in Nat
    BY DEF TypeOK
  <2>2. QED
    BY <2>1 DEF TypeOK, Threads
<1>2. Begun'
  BY DEF Begun
<1>3. ThreadsKnown'
  BY DEF ThreadsKnown, TypeOK
<1>4. JoinProgress'
  BY DEF JoinProgress, TypeOK
<1>5. QED
  BY <1>1, <1>2, <1>3, <1>4

\* A worker that takes a task keeps ControlInv.
LEMMA ControlWorkerTakes ==
  ASSUME ControlInv, NEW w \in Threads, NEW t \in Tasks, WorkerTakes(w, t)
  PROVE  ControlInv'
<1> USE ThreadNumbers DEF ControlInv, WorkerTakes, userVars
<1>1. TypeOK'
  BY DEF TypeOK, Threads
<1>2. Begun'
  BY DEF Begun, ThreadsKnown, TypeOK
<1>3. ThreadsKnown'
  BY GraphsAssumption DEF ThreadsKnown, TypeOK
<1>4. JoinProgress'
  BY DEF JoinProgress, TypeOK
<1>5. QED
  BY <1>1, <1>2, <1>3, <1>4

\* The running worker's task is a task, and a running worker was counted.
LEMMA ControlWorkerFinishes ==
  ASSUME ControlInv, NEW w \in Threads, WorkerFinishes(w), nWorkersRunning_ > 0
  PROVE  ControlInv'
<1> USE ThreadNumbers DEF ControlInv, WorkerFinishes, userVars
<1>1. task[w] \in Tasks /\ hasStarted_ /\ w <= nWorkers_
  BY GraphsAssumption DEF TypeOK, ThreadsKnown, Begun
<1>2. TypeOK'
  <2>1. dependencies_' \in [Tasks \X Tasks -> Nat] /\ workQueue_' \in [Tasks -> Nat]
    BY DEF TypeOK, InEdgesCleared, Pushed
  <2>2. nItemsFinished_' \in Nat /\ nWorkersRunning_' \in Nat
    BY DEF TypeOK
  <2>3. QED
    BY <1>1, <2>1, <2>2 DEF TypeOK, Threads
<1>3. Begun'
  BY <1>1 DEF Begun
<1>4. ThreadsKnown'
  BY <1>1 DEF ThreadsKnown, TypeOK, Sleeping
<1>5. JoinProgress'
  BY <1>1 DEF JoinProgress, TypeOK, Sleeping
<1>6. QED
  BY <1>2, <1>3, <1>4, <1>5

\* start() keeps ControlInv.
LEMMA ControlStart ==
  ASSUME ControlInv, NEW u \in Users, NEW g \in Graphs, NEW n \in Requests,
         Start(u, g, n)
  PROVE  ControlInv'
<1> USE ThreadNumbers DEF ControlInv, Start, Called, MayCall
<1>1. NWorkers(n, g) \in 1..(Cardinality(Tasks) + 1)
  BY NWorkersBounds
<1>2. TypeOK'
  <2>1. g.edges \in [Tasks \X Tasks -> Nat]
    BY GraphsAssumption
  <2>2. pc' \in [Threads -> {"none", "look", "wait", "run", "end"}]
    OBVIOUS
  <2>3. calls' \in [Users -> Nat] /\ ended' \in [Users -> BOOLEAN]
    BY DEF TypeOK
  <2>4. nWorkers_' \in 0..(Cardinality(Tasks) + 1)
    BY <1>1, FiniteSets
  <2>5. workQueue_' \in [Tasks -> Nat]
    OBVIOUS
  <2>6. QED
    BY <2>1, <2>2, <2>3, <2>4, <2>5 DEF TypeOK, Threads
<1>3. Begun'
  BY <1>1, FiniteSets DEF Begun
<1>4. ThreadsKnown'
  BY <1>1, FiniteSets DEF ThreadsKnown, TypeOK, Begun
<1>5. JoinProgress'
  BY DEF JoinProgress, Begun
<1>6. QED
  BY <1>2, <1>3, <1>4, <1>5

\* A call that starts no work keeps ControlInv.
LEMMA ControlCalls ==
  ASSUME ControlInv, NEW u \in Users,
         StartThrows(u) \/ WaitNothing(u) \/ Wait(u) \/ TryWaitFor(u)
  PROVE  ControlInv'
<1> USE ThreadNumbers DEF ControlInv, StartThrows, WaitNothing, Wait, TryWaitFor,
       Called, MayCall, workVars, countVars
<1>1. TypeOK'
  <2>1. calls' \in [Users -> Nat]
    <3>1. calls' = [calls EXCEPT ![u] = @ + 1]
      OBVIOUS
    <3>2. QED
      BY <3>1 DEF TypeOK
  <2>2. ended' \in [Users -> BOOLEAN]
    <3>1. ended' = [ended EXCEPT ![u] = \A w \in Created : pc[w] = "end"]
      OBVIOUS
    <3>2. QED
      BY <3>1 DEF TypeOK
  <2>3. next' \in [Users -> Nat \ {0}]
    BY DEF TypeOK
  <2>4. hasWaited_' \in BOOLEAN
    BY Zenon DEF TypeOK
  <2>5. at' \in [Users -> {"idle", "join", "tryJoin"}]
    BY DEF TypeOK
  <2>6. QED
    BY <2>1, <2>2, <2>3, <2>4, <2>5 DEF TypeOK, Threads
<1>2. Begun'
  BY DEF Begun, TypeOK
<1>3. ThreadsKnown'
  BY DEF ThreadsKnown
<1>4. JoinProgress'
  BY DEF JoinProgress, TypeOK
<1>5. QED
  BY <1>1, <1>2, <1>3, <1>4

\* The joins of wait() and tryWaitFor(), and their ends, keep ControlInv.
LEMMA ControlReturns ==
  ASSUME ControlInv, NEW u \in Users,
         Join(u) \/ TryJoinFails(u) \/ WaitEnds(u)
  PROVE  ControlInv'
<1> USE ThreadNumbers DEF ControlInv, Join, TryJoinFails, WaitEnds,
       Returned, workVars, countVars
<1>1. TypeOK'
  <2>1. next' \in [Users -> Nat \ {0}] /\ outcome' \in {"none", "done", "cycle"}
    BY DEF TypeOK
  <2>6. hasWaited_' \in BOOLEAN
    BY Zenon DEF TypeOK
  <2>2. at' \in [Users -> {"idle", "join", "tryJoin"}]
    BY DEF TypeOK
  <2>3. joined' \subseteq Threads
    <3>1. next[u] \in Nat \ {0} /\ joined \subseteq Threads
      BY DEF TypeOK
    <3>2. CASE next[u] <= nWorkers_
      <4>1. next[u] \in Threads
        BY <3>1, <3>2, FiniteSets DEF TypeOK, Threads
      <4>2. QED
        BY <3>1, <4>1
    <3>3. CASE ~(next[u] <= nWorkers_)
      BY <3>1, <3>3
    <3>4. QED
      BY <3>2, <3>3
  <2>4. dependencies_' \in [Tasks \X Tasks -> Nat]
    BY DEF TypeOK
  <2>5. QED
    BY <2>1, <2>2, <2>3, <2>4, <2>6 DEF TypeOK, Threads
<1>2. Begun'
  BY DEF Begun, TypeOK
<1>3. ThreadsKnown'
  BY DEF ThreadsKnown
<1>4. JoinProgress'
  <2>1. CASE Join(u)
    <3>1. \A x \in Users : x # u => next'[x] = next[x] /\ at'[x] = at[x]
      BY <2>1 DEF TypeOK
    <3>2. next'[u] = next[u] + 1 /\ at[u] # "idle" /\ pc[next[u]] = "end"
      BY <2>1 DEF TypeOK
    <3>3. pc' = pc /\ nWorkers_' = nWorkers_ /\ next[u] \in Nat
      BY <2>1 DEF TypeOK
    <3>4. QED
      BY <3>1, <3>2, <3>3 DEF JoinProgress
  <2>2. CASE TryJoinFails(u) \/ WaitEnds(u)
    <3>1. /\ next' = next /\ pc' = pc /\ nWorkers_' = nWorkers_
          /\ \A x \in Users : at'[x] # "idle" => at[x] # "idle"
      BY <2>2 DEF TypeOK
    <3>2. QED
      BY <3>1 DEF JoinProgress
  <2>3. QED
    BY <2>1, <2>2
<1>5. QED
  BY <1>1, <1>2, <1>3, <1>4

-----------------------------------------------------------------------------
(***************************************************************************)
(* The graph: one lemma per action that changes it.                        *)
(***************************************************************************)

\* What clearInEdges leaves.
LEMMA ClearedEdges ==
  ASSUME NEW t \in Tasks, NEW v \in Tasks, NEW d \in Tasks
  PROVE  InEdgesCleared(t)[<<v, d>>] = IF d = t THEN 0 ELSE dependencies_[<<v, d>>]
BY DEF InEdgesCleared

\* Nothing about the graph depends on who sleeps, and on the user threads.
LEMMA GraphFrame ==
  ASSUME ControlInv, GraphInv, QueuedOnceAndReady,
         UNCHANGED <<graph, dependencies_, workQueue_, task, started, finished>>,
         \A w \in Threads : pc'[w] = "run" <=> pc[w] = "run"
  PROVE  GraphInv' /\ QueuedOnceAndReady'
<1>1. TasksHeld'
  BY DEF GraphInv, TasksHeld
<1>2. EdgesLeft'
  BY DEF GraphInv, EdgesLeft
<1>3. ReadyTaken'
  BY DEF GraphInv, ReadyTaken, NoOutEdges
<1>4. QueuedOnceAndReady'
  BY DEF QueuedOnceAndReady, NoOutEdges
<1>5. QED
  BY <1>1, <1>2, <1>3, <1>4 DEF GraphInv

\* start() queues exactly the vertices without dependencies.
LEMMA GraphStart ==
  ASSUME ControlInv, NEW u \in Users, NEW g \in Graphs, NEW n \in Requests,
         Start(u, g, n)
  PROVE  GraphInv' /\ QueuedOnceAndReady'
<1> USE DEF Start, ControlInv
<1>1. /\ g.edges \in [Tasks \X Tasks -> Nat] /\ g.vertices \subseteq Tasks
      /\ started' = {} /\ finished' = {}
  BY GraphsAssumption DEF Begun
<1>2. TasksHeld'
  BY <1>1 DEF TasksHeld
<1>3. EdgesLeft'
  BY <1>1 DEF EdgesLeft
<1>4. ReadyTaken'
  BY <1>1 DEF ReadyTaken, Roots, NoOutEdges
<1>5. QueuedOnceAndReady'
  BY <1>1 DEF QueuedOnceAndReady, Roots, NoOutEdges
<1>6. QED
  BY <1>2, <1>3, <1>4, <1>5 DEF GraphInv

\* A task that is taken leaves the queue and stays in the graph.
LEMMA GraphTakes ==
  ASSUME ControlInv, GraphInv, QueuedOnceAndReady,
         NEW w \in Threads, NEW t \in Tasks, WorkerTakes(w, t)
  PROVE  GraphInv' /\ QueuedOnceAndReady'
<1> USE DEF WorkerTakes, ControlInv, GraphInv, TypeOK
<1>1. /\ workQueue_[t] = 1 /\ t \notin started /\ NoOutEdges(t, dependencies_)
      /\ workQueue_'[t] = 0
      /\ \A v \in Tasks : v # t => workQueue_'[v] = workQueue_[v]
  BY DEF QueuedOnceAndReady
<1>2. TasksHeld'
  BY <1>1 DEF TasksHeld
<1>3. EdgesLeft'
  BY DEF EdgesLeft
<1>4. ReadyTaken'
  BY <1>1 DEF ReadyTaken, NoOutEdges
<1>5. QueuedOnceAndReady'
  BY <1>1 DEF QueuedOnceAndReady, NoOutEdges
<1>6. QED
  BY <1>2, <1>3, <1>4, <1>5

\* A finished task leaves the graph, and only tasks that became ready are queued.
LEMMA GraphFinishes ==
  ASSUME ControlInv, GraphInv, QueuedOnceAndReady, hasStarted_,
         NEW w \in Threads, WorkerFinishes(w)
  PROVE  /\ GraphInv' /\ QueuedOnceAndReady'
         /\ \A v \in NewWork(task[w]) : workQueue_[v] = 0
<1> DEFINE t == task[w]
<1> USE DEF WorkerFinishes, ControlInv
<1>1. t \in Tasks /\ t \in started \ finished /\ graph \in Graphs
  BY GraphsAssumption DEF TypeOK, ThreadsKnown, Begun, GraphInv, TasksHeld
<1>2. \A v, d \in Tasks :
        dependencies_'[<<v, d>>] = IF d = t THEN 0 ELSE dependencies_[<<v, d>>]
  BY <1>1, ClearedEdges
<1>3. \A v \in Tasks : v \in NewWork(t) <=>
        dependencies_[<<v, t>>] > 0 /\ NoOutEdges(v, dependencies_')
  BY <1>1 DEF NewWork
<1>4. \A v \in NewWork(t) : v \notin started /\ workQueue_[v] = 0 /\ v \in graph.vertices
  <2> SUFFICES ASSUME NEW v \in NewWork(t)
               PROVE  v \notin started /\ workQueue_[v] = 0 /\ v \in graph.vertices
    OBVIOUS
  <2>1. v \in Tasks /\ dependencies_[<<v, t>>] > 0
    BY DEF NewWork
  <2>2. ~NoOutEdges(v, dependencies_)
    BY <1>1, <2>1 DEF NoOutEdges
  <2>3. v \in graph.vertices
    <3>1. graph.edges[<<v, t>>] > 0
      BY <1>1, <2>1 DEF GraphInv, EdgesLeft
    <3>2. <<v, t>> \in Tasks \X Tasks
      BY <1>1, <2>1
    <3>3. <<v, t>> \in graph.vertices \X graph.vertices
      BY <1>1, <3>1, <3>2, GraphsAssumption
    <3>4. QED
      BY <3>3
  <2>4. v \notin started /\ ~(workQueue_[v] > 0)
    BY <2>1, <2>2, <2>3 DEF GraphInv, ReadyTaken
  <2>5. QED
    BY <2>1, <2>3, <2>4 DEF TypeOK
<1>5. \A v \in Tasks : workQueue_'[v] =
        workQueue_[v] + IF v \in NewWork(t) THEN 1 ELSE 0
  BY DEF Pushed
<1>6. TasksHeld'
  <2>1. /\ \A x \in Threads : pc'[x] = "run" <=> pc[x] = "run" /\ x # w
        /\ \A x \in Threads : x # w => task'[x] = task[x]
    BY DEF TypeOK, Sleeping
  <2>2. QED
    BY <1>1, <2>1 DEF GraphInv, TasksHeld
<1>7. EdgesLeft'
  <2> SUFFICES ASSUME NEW v \in Tasks, NEW d \in Tasks
               PROVE  dependencies_'[<<v, d>>] =
                        IF d \in finished' THEN 0 ELSE graph'.edges[<<v, d>>]
    BY DEF EdgesLeft
  <2>1. dependencies_[<<v, d>>] = IF d \in finished THEN 0 ELSE graph.edges[<<v, d>>]
    BY DEF GraphInv, EdgesLeft
  <2>2. dependencies_'[<<v, d>>] = IF d = t THEN 0 ELSE dependencies_[<<v, d>>]
    BY <1>2
  <2>3. finished' = finished \cup {t} /\ graph' = graph
    OBVIOUS
  <2>4. QED
    BY <2>1, <2>2, <2>3
<1>8. ReadyTaken'
  <2>1. ASSUME NEW v \in Tasks, v \in graph.vertices
        PROVE  NoOutEdges(v, dependencies_') <=> v \in started \/ workQueue_'[v] > 0
    <3>1. CASE NoOutEdges(v, dependencies_)
      BY <1>2, <1>5, <2>1, <3>1 DEF NoOutEdges, GraphInv, ReadyTaken, TypeOK
    <3>2. CASE ~NoOutEdges(v, dependencies_)
      <4>1. v \notin started /\ workQueue_[v] = 0
        BY <2>1, <3>2 DEF GraphInv, ReadyTaken, TypeOK
      <4>2. NoOutEdges(v, dependencies_') => dependencies_[<<v, t>>] > 0
        BY <1>1, <1>2, <3>2 DEF NoOutEdges, TypeOK
      <4>3. QED
        BY <1>3, <1>5, <2>1, <4>1, <4>2
    <3>3. QED
      BY <3>1, <3>2
  <2>2. \A v \in Tasks : workQueue_'[v] > 0 => v \in graph.vertices
    BY <1>4, <1>5 DEF GraphInv, ReadyTaken, TypeOK
  <2>3. QED
    BY <2>1, <2>2 DEF GraphInv, ReadyTaken
<1>9. QueuedOnceAndReady'
  <2> SUFFICES ASSUME NEW v \in Tasks, workQueue_'[v] > 0
               PROVE  workQueue_'[v] = 1 /\ v \notin started /\ NoOutEdges(v, dependencies_')
    BY DEF QueuedOnceAndReady
  <2>1. CASE v \in NewWork(t)
    <3>1. v \notin started /\ workQueue_[v] = 0
      BY <1>4, <2>1
    <3>2. workQueue_'[v] = 1
      BY <1>5, <2>1, <3>1
    <3>3. QED
      BY <1>3, <2>1, <3>1, <3>2
  <2>2. CASE v \notin NewWork(t)
    <3>1. workQueue_'[v] = workQueue_[v]
      BY <1>5, <2>2 DEF TypeOK
    <3>2. NoOutEdges(v, dependencies_) /\ workQueue_[v] = 1 /\ v \notin started
      BY <3>1 DEF QueuedOnceAndReady
    <3>3. NoOutEdges(v, dependencies_')
      BY <1>1, <1>2, <3>2 DEF NoOutEdges
    <3>4. QED
      BY <3>1, <3>2, <3>3
  <2>3. QED
    BY <2>1, <2>2
<1>10. QED
  BY <1>4, <1>6, <1>7, <1>8, <1>9 DEF GraphInv

-----------------------------------------------------------------------------
(***************************************************************************)
(* Counters, ends of threads, and sleepers.                                *)
(***************************************************************************)

\* The counters of the code compare as the sets they count.
LEMMA CountersCompare ==
  ASSUME TypeOK, CountInv, finished \subseteq started
  PROVE  /\ nItemsFinished_ <= nItemsStarted_
         /\ nItemsFinished_ = nItemsStarted_ <=> finished = started
<1>1. IsFiniteSet(started)
  BY FiniteSets DEF TypeOK
<1>2. QED
  BY <1>1, Monotone DEF CountInv

\* The counters agree with the threads if neither changes.
LEMMA CountFrame ==
  ASSUME CountInv, UNCHANGED <<countVars, started, finished>>,
         \A w \in Threads : pc'[w] = "run" <=> pc[w] = "run"
  PROVE  CountInv'
<1>1. Running' = Running
  BY DEF Running
<1>2. QED
  BY <1>1 DEF CountInv, countVars

\* Taking a task counts one more running worker.
LEMMA CountTakes ==
  ASSUME ControlInv, GraphInv, QueuedOnceAndReady, CountInv,
         NEW w \in Threads, NEW t \in Tasks, WorkerTakes(w, t)
  PROVE  CountInv'
<1>1. t \notin started /\ w \notin Running
  BY DEF QueuedOnceAndReady, WorkerTakes, Running
<1>2. IsFiniteSet(started) /\ IsFiniteSet(Running)
  BY FiniteSets DEF ControlInv, TypeOK, Running
<1>3. Running' = Running \cup {w}
  BY DEF WorkerTakes, ControlInv, TypeOK, Running
<1>4. Cardinality(Running') = Cardinality(Running) + 1
  BY <1>1, <1>2, <1>3, AddOne
<1>5. Cardinality(started \cup {t}) = Cardinality(started) + 1
  BY <1>1, <1>2, AddOne
<1>6. QED
  BY <1>4, <1>5 DEF CountInv, WorkerTakes

\* Finishing a task counts one running worker less, and there was one.
LEMMA CountFinishes ==
  ASSUME ControlInv, GraphInv, CountInv, NEW w \in Threads, WorkerFinishes(w)
  PROVE  CountInv' /\ nWorkersRunning_ > 0
<1>1. task[w] \notin finished /\ w \in Running
  BY DEF GraphInv, TasksHeld, WorkerFinishes, Running
<1>2. IsFiniteSet(finished) /\ IsFiniteSet(Running)
  BY FiniteSets DEF ControlInv, TypeOK, Running
<1>3. Running' = Running \ {w}
  BY DEF WorkerFinishes, ControlInv, TypeOK, Running, Sleeping
<1>4. /\ Cardinality(Running') = Cardinality(Running) - 1
      /\ Cardinality(Running') \in Nat /\ Cardinality(Running) \in Nat
  BY <1>1, <1>2, <1>3, RemoveOne
<1>5. Cardinality(finished \cup {task[w]}) = Cardinality(finished) + 1
  BY <1>1, <1>2, AddOne
<1>6. QED
  BY <1>4, <1>5 DEF CountInv, WorkerFinishes

\* When a worker ends, the work is over, and nothing can restart it.
LEMMA EndWorker ==
  ASSUME IndInv, hasStarted_, NEW w \in Threads,
         Worker(w) \/ SpuriousWakeup(w)
  PROVE  EndInv'
<1> USE DEF IndInv, ControlInv
<1>1. finished \subseteq started
  BY DEF GraphInv, TasksHeld
<1>2. CASE WorkerWaits(w) \/ SpuriousWakeup(w)
  BY <1>2 DEF WorkerWaits, SpuriousWakeup, EndInv, TypeOK, QueueIsEmpty, workVars
<1>3. CASE WorkerReturns(w)
  <2>1. started = finished
    BY <1>1, <1>3, CountersCompare DEF WorkerReturns
  <2>2. QED
    BY <1>3, <2>1 DEF WorkerReturns, EndInv, QueueIsEmpty, workVars
<1>4. ASSUME NEW t \in Tasks, WorkerTakes(w, t)
      PROVE  EndInv'
  <2>1. ~QueueIsEmpty
    BY <1>4 DEF WorkerTakes, QueueIsEmpty, TypeOK
  <2>2. \A x \in Threads : pc'[x] # "end"
    BY <1>4, <2>1 DEF EndInv, WorkerTakes, TypeOK
  <2>3. QED
    BY <2>2 DEF EndInv
<1>5. CASE WorkerFinishes(w)
  <2>1. started # finished
    BY <1>5 DEF WorkerFinishes, GraphInv, TasksHeld
  <2>2. \A x \in Threads : pc'[x] # "end"
    BY <1>5, <2>1 DEF EndInv, WorkerFinishes, TypeOK
  <2>3. QED
    BY <2>2 DEF EndInv
<1>6. QED
  BY <1>2, <1>3, <1>4, <1>5 DEF Worker

\* The tasks on the stack.
Queued == {t \in Tasks : workQueue_[t] > 0}

\* Sets of sleepers and lookers are finite; so are those of queued tasks.
LEMMA SleepSets ==
  ASSUME TypeOK
  PROVE  /\ Sleeping \subseteq Threads /\ Looking \subseteq Threads
         /\ IsFiniteSet(Looking) /\ Cardinality(Looking) \in Nat
         /\ IsFiniteSet(Queued) /\ Cardinality(Queued) \in Nat
<1>1. Created \subseteq Threads
  BY ThreadNumbers
<1>2. Sleeping \subseteq Threads /\ Looking \subseteq Threads /\ Queued \subseteq Tasks
  BY <1>1 DEF Sleeping, Looking, Queued
<1>3. QED
  BY <1>2, FiniteSets

\* The work queue is empty if no task is queued.
LEMMA EmptyQueue ==
  ASSUME TypeOK
  PROVE  QueueIsEmpty <=> Queued = {}
BY DEF QueueIsEmpty, Queued, TypeOK

\* A worker that goes to sleep, ends, or wakes up by itself.
LEMMA SleepWorker ==
  ASSUME IndInv, hasStarted_, NEW w \in Threads,
         WorkerWaits(w) \/ WorkerReturns(w) \/ SpuriousWakeup(w)
  PROVE  SleepersNotNeeded'
<1> USE DEF IndInv, ControlInv
<1>1. Queued' = Queued /\ (QueueIsEmpty' <=> QueueIsEmpty)
  BY DEF Queued, QueueIsEmpty, WorkerWaits, WorkerReturns, SpuriousWakeup, workVars
<1>2. IsFiniteSet(Looking') /\ Cardinality(Looking') \in Nat
  <2>1. Looking' \subseteq Threads
    BY ThreadNumbers DEF Looking, Created, WorkerWaits, WorkerReturns, SpuriousWakeup
  <2>2. QED
    BY <2>1, FiniteSets
<1>3. CASE WorkerWaits(w)
  <2>1. Queued = {} /\ Cardinality(Queued) = 0
    BY <1>3, EmptyQueue, FS_EmptySet DEF WorkerWaits
  <2>3. QED
    BY <1>1, <1>3, <1>2, <2>1 DEF SleepersNotNeeded, Queued, WorkerWaits,
         workVars, countVars
<1>4. CASE WorkerReturns(w)
  <2>1. Queued = {} /\ Cardinality(Queued) = 0
    BY <1>4, EmptyQueue, FS_EmptySet DEF WorkerReturns
  <2>3. Sleeping' = Sleeping
    BY <1>4 DEF WorkerReturns, Sleeping, Created, TypeOK
  <2>4. QED
    BY <1>1, <1>4, <1>2, <2>1, <2>3 DEF SleepersNotNeeded, Queued, WorkerReturns,
         workVars, countVars
<1>5. CASE SpuriousWakeup(w)
  <2>1. /\ Looking \subseteq Looking' /\ Sleeping' \subseteq Sleeping
    BY <1>5, ThreadNumbers DEF SpuriousWakeup, Looking, Sleeping, Created, TypeOK
  <2>3. /\ Cardinality(Looking) <= Cardinality(Looking')
        /\ Cardinality(Looking) \in Nat /\ Cardinality(Looking') \in Nat
    BY <1>2, <2>1, Monotone
  <2>4. Cardinality(Queued) \in Nat
    BY SleepSets
  <2>5. QED
    BY <1>1, <1>5, <2>1, <2>3, <2>4 DEF SleepersNotNeeded, Queued, SpuriousWakeup,
         workVars, countVars
<1>6. QED
  BY <1>3, <1>4, <1>5

\* A worker takes one task, and is one looker less.
LEMMA SleepTakes ==
  ASSUME IndInv, hasStarted_, NEW w \in Threads, NEW t \in Tasks, WorkerTakes(w, t)
  PROVE  SleepersNotNeeded'
<1> USE DEF IndInv, ControlInv
<1>1. Queued' = Queued \ {t} /\ t \in Queued
  BY DEF Queued, WorkerTakes, QueuedOnceAndReady, TypeOK
<1>2. Looking' = Looking \ {w} /\ w \in Looking /\ Sleeping' = Sleeping
  BY ThreadNumbers DEF Looking, Sleeping, Created, WorkerTakes, ThreadsKnown, TypeOK
<1>3. IsFiniteSet(Looking) /\ IsFiniteSet(Queued)
  BY SleepSets
<1>4. /\ Cardinality(Queued') = Cardinality(Queued) - 1
      /\ Cardinality(Queued) \in Nat
  BY <1>1, <1>3, RemoveOne
<1>5. /\ Cardinality(Looking') = Cardinality(Looking) - 1
      /\ Cardinality(Looking) \in Nat
  BY <1>2, <1>3, RemoveOne
<1>6. nItemsFinished_' < nItemsStarted_'
  <2>1. nItemsFinished_ <= nItemsStarted_
    BY CountersCompare DEF GraphInv, TasksHeld
  <2>2. QED
    BY <2>1 DEF WorkerTakes, TypeOK
<1>7. QED
  BY <1>2, <1>4, <1>5, <1>6 DEF SleepersNotNeeded, Queued

\* A worker that finishes a task becomes a looker, and the four rules wake as
\* many others as there are tasks it cannot take itself.
LEMMA SleepFinishes ==
  ASSUME IndInv, hasStarted_, NEW w \in Threads, WorkerFinishes(w)
  PROVE  SleepersNotNeeded'
<1> USE DEF IndInv, ControlInv
<1> DEFINE New == NewWork(task[w])
           n == Cardinality(New)
<1>1. PICK S \in SUBSET Sleeping :
        /\ Woken(n, S)
        /\ pc' = [x \in Threads |-> IF x = w \/ x \in S THEN "look" ELSE pc[x]]
  BY DEF WorkerFinishes
<1>2. /\ \A v \in New : workQueue_[v] = 0
      /\ New \subseteq Tasks
  BY GraphFinishes DEF NewWork
<1>3. Queued' = Queued \cup New /\ Queued \cap New = {}
  BY <1>2 DEF Queued, WorkerFinishes, Pushed, TypeOK
<1>4. /\ IsFiniteSet(New) /\ n \in Nat /\ IsFiniteSet(Queued)
      /\ Cardinality(Queued) \in Nat
  BY <1>2, FiniteSets, SleepSets
<1>5. /\ Looking' = Looking \cup {w} \cup S /\ w \notin Looking
      /\ Sleeping' = Sleeping \ S /\ w \notin Sleeping /\ Looking \cap S = {}
  <2>1. pc[w] = "run" /\ w \in Created /\ Created' = Created /\ Created \subseteq Threads
    BY ThreadNumbers DEF WorkerFinishes, ThreadsKnown, TypeOK, Created
  <2>2. w \notin Looking /\ w \notin Sleeping /\ Looking \cap S = {}
    BY <2>1 DEF Looking, Sleeping
  <2>3. Looking' = Looking \cup {w} \cup S
    BY <1>1, <2>1 DEF Looking, Sleeping
  <2>4. Sleeping' = Sleeping \ S
    BY <1>1, <2>1 DEF Sleeping
  <2>5. QED
    BY <2>2, <2>3, <2>4
<1>6. IsFiniteSet(Looking) /\ Cardinality(Looking) \in Nat
  BY SleepSets
<1>7. Cardinality(Queued') = Cardinality(Queued) + n
  <2>1. /\ Cardinality(Queued \cup New) =
             Cardinality(Queued) + Cardinality(New) - Cardinality(Queued \cap New)
    BY <1>4, FS_Union
  <2>2. Cardinality(Queued \cap New) = 0
    BY <1>3, FS_EmptySet
  <2>3. QED
    BY <1>3, <1>4, <2>1, <2>2
<1>8. Queued' # {} => ~QueueIsEmpty'
  BY DEF Queued, QueueIsEmpty
<1>9. n > 0 => Queued' # {}
  <2>1. n > 0 => New # {}
    BY FS_EmptySet
  <2>2. QED
    BY <1>3, <2>1
<1>10. /\ IsFiniteSet(Looking \cup {w})
       /\ Cardinality(Looking \cup {w}) = Cardinality(Looking) + 1
  BY <1>5, <1>6, AddOne
<1>11. CASE n = 0
  <2>1. New = {}
    BY <1>4, <1>11, FS_EmptySet
  <2>2. CASE QueueIsEmpty
    BY <1>1, <1>5, <1>11, <2>2 DEF Woken, SleepersNotNeeded
  <2>3. CASE ~QueueIsEmpty
    <3>1. S = {} /\ Queued # {}
      BY <1>1, <1>11, <2>3, EmptyQueue DEF Woken
    <3>2. Looking' = Looking \cup {w} /\ Sleeping' = Sleeping
      BY <1>5, <3>1
    <3>3. QED
      BY <1>3, <1>4, <1>6, <1>7, <1>8, <1>10, <1>11, <2>1, <3>1, <3>2
         DEF SleepersNotNeeded, Queued
  <2>4. QED
    BY <2>2, <2>3
<1>12. CASE n = 1
  <2>1. S = {}
    BY <1>1, <1>12 DEF Woken
  <2>2. Looking' = Looking \cup {w} /\ Sleeping' = Sleeping
    BY <1>5, <2>1
  <2>3. QED
    BY <1>4, <1>6, <1>7, <1>8, <1>9, <1>10, <1>12, <2>2 DEF SleepersNotNeeded, Queued
<1>13. CASE n = 2 /\ Sleeping # {}
  <2>1. PICK x \in Sleeping : S = {x}
    BY <1>1, <1>13 DEF Woken
  <2>2. x \notin Looking \cup {w}
    BY <1>5, <2>1
  <2>3. Cardinality(Looking') = Cardinality(Looking) + 2
    <3>1. Looking' = (Looking \cup {w}) \cup {x}
      BY <1>5, <2>1
    <3>2. Cardinality((Looking \cup {w}) \cup {x}) = Cardinality(Looking \cup {w}) + 1
      BY <1>10, <2>2, AddOne
    <3>3. QED
      BY <1>6, <1>10, <3>1, <3>2
  <2>4. QED
    BY <1>4, <1>6, <1>7, <1>8, <1>9, <1>13, <2>3 DEF SleepersNotNeeded, Queued
<1>14. CASE n > 2 \/ (n = 2 /\ Sleeping = {})
  <2>1. Sleeping' = {}
    BY <1>1, <1>4, <1>5, <1>14 DEF Woken
  <2>2. QED
    BY <2>1 DEF SleepersNotNeeded
<1>15. QED
  BY <1>4, <1>11, <1>12, <1>13, <1>14

\* Steps of user threads after start() leave the work alone: clear() at the end
\* of wait() removes no edge that is still there.
LEMMA UserFrame ==
  ASSUME IndInv, NEW u \in Users,
         \/ StartThrows(u) \/ WaitNothing(u) \/ Wait(u) \/ TryWaitFor(u)
         \/ TryJoinFails(u) \/ UserReturns(u)
  PROVE  UNCHANGED <<graph, hasStarted_, nWorkers_, pc, workVars>>
<1>1. CASE WaitEnds(u)
  <2>1. dependencies_' = dependencies_
    <3>1. CASE ContainsCycle
      BY <1>1, <3>1 DEF WaitEnds
    <3>2. CASE ~ContainsCycle
      <4>1. /\ \A e \in Tasks \X Tasks : dependencies_[e] = 0
            /\ dependencies_' = [e \in Tasks \X Tasks |-> 0]
            /\ dependencies_ \in [Tasks \X Tasks -> Nat]
        BY <1>1, <3>2 DEF WaitEnds, ContainsCycle, NEdgesIsZero, IndInv, ControlInv, TypeOK
      <4>2. QED
        BY <4>1
    <3>3. QED
      BY <3>1, <3>2
  <2>2. QED
    BY <1>1, <2>1 DEF WaitEnds, workVars
<1>2. QED
  BY <1>1 DEF StartThrows, WaitNothing, Wait, TryWaitFor, TryJoinFails,
       UserReturns, Join

\* Nothing in the invariant but the control of users depends on user steps.
LEMMA WorkFrame ==
  ASSUME IndInv, UNCHANGED <<graph, hasStarted_, nWorkers_, pc, workVars>>
  PROVE  /\ hasStarted_' => GraphInv'
         /\ QueuedOnceAndReady' /\ CountInv' /\ EndInv' /\ SleepersNotNeeded'
<1> USE DEF IndInv, workVars, countVars
<1>1. hasStarted_' => GraphInv'
  BY GraphFrame
<1>2. QueuedOnceAndReady'
  BY DEF QueuedOnceAndReady, NoOutEdges
<1>3. CountInv'
  BY CountFrame
<1>4. EndInv' /\ SleepersNotNeeded'
  BY DEF EndInv, SleepersNotNeeded, QueueIsEmpty, Sleeping, Looking, Created
<1>5. QED
  BY <1>1, <1>2, <1>3, <1>4

\* start() begins with every worker looking for the roots of the graph.
LEMMA WorkStart ==
  ASSUME IndInv, NEW u \in Users, NEW g \in Graphs, NEW n \in Requests,
         Start(u, g, n)
  PROVE  IndInv'
<1> USE DEF IndInv
<1>1. ControlInv'
  BY ControlStart
<1>2. GraphInv' /\ QueuedOnceAndReady'
  BY GraphStart
<1>3. CountInv'
  <2>1. Running' = {} /\ Running = {}
    BY ThreadNumbers DEF Start, Running, ControlInv, Begun, ThreadsKnown
  <2>2. QED
    BY <2>1, FS_EmptySet DEF Start, CountInv, ControlInv, Begun
<1>4. EndInv' /\ SleepersNotNeeded'
  <2>1. \A w \in Threads : pc'[w] \in {"look", "none"}
    BY DEF Start
  <2>2. Created' \subseteq Threads
    BY <1>1, FiniteSets DEF ControlInv, TypeOK, Created, Threads
  <2>3. QED
    BY <2>1, <2>2 DEF EndInv, SleepersNotNeeded, Sleeping
<1>5. QED
  BY <1>1, <1>2, <1>3, <1>4

\* One step of a worker.
LEMMA WorkWorker ==
  ASSUME IndInv, NEW w \in Threads, Worker(w) \/ SpuriousWakeup(w)
  PROVE  IndInv'
<1>1. hasStarted_ /\ hasStarted_' = hasStarted_
  <2>1. hasStarted_' = hasStarted_ /\ pc[w] # "none"
    BY DEF Worker, SpuriousWakeup, WorkerWaits, WorkerReturns, WorkerTakes, WorkerFinishes
  <2>2. QED
    BY <2>1, ThreadNumbers DEF IndInv, ControlInv, Begun, ThreadsKnown
<1>2. EndInv'
  BY <1>1, EndWorker
<1>3. CASE WorkerWaits(w) \/ WorkerReturns(w) \/ SpuriousWakeup(w)
  <2>1. ControlInv'
    BY <1>3, ControlWorker DEF IndInv
  <2>2. /\ UNCHANGED <<graph, dependencies_, workQueue_, task, started, finished, countVars>>
        /\ \A x \in Threads : pc'[x] = "run" <=> pc[x] = "run"
    BY <1>3 DEF WorkerWaits, WorkerReturns, SpuriousWakeup, workVars, countVars,
         IndInv, ControlInv, TypeOK
  <2>3. GraphInv' /\ QueuedOnceAndReady'
    BY <1>1, <2>2, GraphFrame DEF IndInv
  <2>4. CountInv'
    BY <2>2, CountFrame DEF IndInv
  <2>5. QED
    BY <1>1, <1>2, <1>3, <2>1, <2>3, <2>4, SleepWorker DEF IndInv
<1>4. ASSUME NEW t \in Tasks, WorkerTakes(w, t)
      PROVE  IndInv'
  BY <1>1, <1>2, <1>4, ControlWorkerTakes, GraphTakes, CountTakes, SleepTakes DEF IndInv
<1>5. CASE WorkerFinishes(w)
  <2>1. CountInv' /\ nWorkersRunning_ > 0
    BY <1>1, <1>5, CountFinishes DEF IndInv
  <2>2. ControlInv'
    BY <1>5, <2>1, ControlWorkerFinishes DEF IndInv
  <2>3. QED
    BY <1>1, <1>2, <1>5, <2>1, <2>2, GraphFinishes, SleepFinishes DEF IndInv
<1>6. QED
  BY <1>3, <1>4, <1>5 DEF Worker

\* The inductive invariant holds in every reachable state.
THEOREM IndInvHolds == Spec => []IndInv
<1>1. Init => IndInv
  <2> SUFFICES ASSUME Init PROVE IndInv
    OBVIOUS
  <2> USE ThreadNumbers DEF Init
  <2>1. ControlInv
    <3>1. TypeOK
      <4>1. nWorkers_ \in 0..(Cardinality(Tasks) + 1)
        BY FiniteSets
      <4>2. /\ dependencies_ \in [Tasks \X Tasks -> Nat]
            /\ workQueue_ \in [Tasks -> Nat]
        OBVIOUS
      <4>3. /\ pc \in [Threads -> {"none", "look", "wait", "run", "end"}]
            /\ task \in [Threads -> Tasks \cup {NoTask}]
            /\ at \in [Users -> {"idle", "join", "tryJoin"}]
            /\ next \in [Users -> Nat \ {0}] /\ calls \in [Users -> Nat]
        OBVIOUS
      <4>4. hasStarted_ \in BOOLEAN /\ hasWaited_ \in BOOLEAN /\ ended \in [Users -> BOOLEAN]
        OBVIOUS
      <4>5. QED
        BY <4>1, <4>2, <4>3, <4>4 DEF TypeOK
    <3>2. Begun /\ ThreadsKnown /\ JoinProgress
      BY DEF Begun, ThreadsKnown, JoinProgress
    <3>3. QED
      BY <3>1, <3>2 DEF ControlInv
  <2>2. QueuedOnceAndReady /\ EndInv /\ SleepersNotNeeded
    BY DEF QueuedOnceAndReady, EndInv, SleepersNotNeeded, Sleeping, Created
  <2>3. CountInv
    <3>1. Running = {}
      BY DEF Running
    <3>2. QED
      BY <3>1, FS_EmptySet DEF CountInv
  <2>4. QED
    BY <2>1, <2>2, <2>3 DEF IndInv
<1>2. ASSUME IndInv, [Next]_vars
      PROVE  IndInv'
  <2>1. ASSUME NEW w \in Threads, Worker(w) \/ SpuriousWakeup(w)
        PROVE  IndInv'
    BY <1>2, <2>1, WorkWorker
  <2>2. ASSUME NEW u \in Users, User(u)
        PROVE  IndInv'
    <3>1. CASE \E g \in Graphs, n \in Requests : Start(u, g, n)
      BY <1>2, <3>1, WorkStart
    <3>2. CASE \/ StartThrows(u) \/ WaitNothing(u) \/ Wait(u) \/ TryWaitFor(u)
               \/ TryJoinFails(u) \/ UserReturns(u)
      <4>1. ControlInv'
        BY <1>2, <3>2, ControlCalls, ControlReturns DEF IndInv, UserReturns
      <4>2. UNCHANGED <<graph, hasStarted_, nWorkers_, pc, workVars>>
        BY <1>2, <3>2, UserFrame
      <4>3. QED
        BY <1>2, <4>1, <4>2, WorkFrame DEF IndInv
    <3>3. QED
      BY <2>2, <3>1, <3>2 DEF User
  <2>3. CASE UNCHANGED vars
    <3>1. ControlInv'
      BY <1>2, <2>3 DEF IndInv, ControlInv, TypeOK, Begun, ThreadsKnown, JoinProgress,
           vars, workVars, userVars, countVars
    <3>2. QED
      BY <1>2, <2>3, <3>1, WorkFrame DEF IndInv, vars
  <2>4. QED
    BY <1>2, <2>1, <2>2, <2>3 DEF Next
<1>3. QED
  BY <1>1, <1>2, PTL DEF Spec

\* Type correctness of ThreadWorkers.
THEOREM TypeCorrect == Spec => []TypeOK
<1>1. IndInv => TypeOK
  BY DEF IndInv, ControlInv
<1>2. QED
  BY <1>1, IndInvHolds, PTL

\* The assertion before a task is popped never fails, and no task is queued
\* twice, for every graph with parallel edges, self edges and cycles.
THEOREM QueueCorrect == Spec => []QueuedOnceAndReady
<1>1. IndInv => QueuedOnceAndReady
  BY DEF IndInv
<1>2. QED
  BY <1>1, IndInvHolds, PTL

\* The notification rules never leave a queued task to sleeping workers, for
\* every number of workers.
THEOREM NotificationsSuffice == Spec => []SleepersNotNeeded
<1>1. IndInv => SleepersNotNeeded
  BY DEF IndInv
<1>2. QED
  BY <1>1, IndInvHolds, PTL

-----------------------------------------------------------------------------
(***************************************************************************)
(* What was done when a worker has ended.                                  *)
(***************************************************************************)

\* A vertex has no outstanding edge if and only if its dependencies finished.
LEMMA ReadyMeaning ==
  ASSUME IndInv, hasStarted_, NEW v \in graph.vertices
  PROVE  v \in Tasks /\ (NoOutEdges(v, dependencies_) <=> DependenciesOf(v) \subseteq finished)
<1> USE DEF IndInv, ControlInv
<1>1. graph \in Graphs /\ graph.vertices \subseteq Tasks /\ v \in Tasks
  BY GraphsAssumption DEF Begun
<1>2. \A d \in Tasks : graph.edges[<<v, d>>] \in Nat
  BY <1>1, GraphsAssumption
<1>3. \A d \in Tasks : graph.edges[<<v, d>>] > 0 => d \in graph.vertices
  <2> SUFFICES ASSUME NEW d \in Tasks, graph.edges[<<v, d>>] > 0
               PROVE  d \in graph.vertices
    OBVIOUS
  <2>1. <<v, d>> \in Tasks \X Tasks
    BY <1>1
  <2>2. <<v, d>> \in graph.vertices \X graph.vertices
    BY <1>1, <2>1, GraphsAssumption
  <2>3. QED
    BY <2>2
<1>4. \A d \in Tasks : dependencies_[<<v, d>>] =
        IF d \in finished THEN 0 ELSE graph.edges[<<v, d>>]
  BY <1>1 DEF GraphInv, EdgesLeft
<1>5. QED
  BY <1>1, <1>2, <1>3, <1>4 DEF NoOutEdges, DependenciesOf

\* Only tasks whose dependencies have finished were started.
LEMMA FinishedInClosed ==
  ASSUME IndInv, hasStarted_, started = finished, QueueIsEmpty
  PROVE  Closed(finished) /\ finished \subseteq graph.vertices
<1>1. \A v \in graph.vertices : NoOutEdges(v, dependencies_) <=> v \in finished
  BY ReadyMeaning DEF IndInv, GraphInv, ReadyTaken, QueueIsEmpty, ControlInv, TypeOK
<1>2. finished \subseteq graph.vertices
  BY DEF IndInv, GraphInv, ReadyTaken, ControlInv, TypeOK
<1>3. QED
  BY <1>1, <1>2, ReadyMeaning DEF Closed

\* Only tasks that can be done are started.
StartedDoable ==
  hasStarted_ =>
    \A S \in SUBSET graph.vertices : Closed(S) => started \subseteq S

\* Everything started is in every closed set of tasks.
LEMMA StartedDoableHolds == Spec => []StartedDoable
<1>1. Init => StartedDoable
  BY DEF Init, StartedDoable
<1>2. ASSUME IndInv, StartedDoable, [Next]_vars
      PROVE  StartedDoable'
  <2>1. CASE UNCHANGED <<graph, hasStarted_, started>>
    BY <1>2, <2>1 DEF StartedDoable, Closed, DependenciesOf
  <2>2. ASSUME NEW w \in Threads, NEW t \in Tasks, WorkerTakes(w, t)
        PROVE  StartedDoable'
    <3>1. CASE hasStarted_
      <4>1. NoOutEdges(t, dependencies_) /\ t \in graph.vertices
        BY <1>2, <2>2, <3>1 DEF IndInv, QueuedOnceAndReady, GraphInv, ReadyTaken, WorkerTakes
      <4>2. DependenciesOf(t) \subseteq started
        BY <1>2, <3>1, <4>1, ReadyMeaning DEF IndInv, GraphInv, TasksHeld
      <4>3. ASSUME NEW S \in SUBSET graph.vertices, Closed(S)
            PROVE  started \cup {t} \subseteq S
        <5>1. started \subseteq S
          BY <1>2, <3>1, <4>3 DEF StartedDoable
        <5>2. t \in S
          BY <4>1, <4>2, <4>3, <5>1 DEF Closed
        <5>3. QED
          BY <5>1, <5>2
      <4>4. graph' = graph /\ started' = started \cup {t}
        BY <2>2 DEF WorkerTakes
      <4>5. QED
        BY <4>3, <4>4 DEF StartedDoable, Closed, DependenciesOf
    <3>2. CASE ~hasStarted_
      BY <2>2, <3>2 DEF StartedDoable, WorkerTakes
    <3>3. QED
      BY <3>1, <3>2
  <2>3. ASSUME NEW u \in Users, NEW g \in Graphs, NEW n \in Requests, Start(u, g, n)
        PROVE  StartedDoable'
    BY <1>2, <2>3 DEF Start, StartedDoable, IndInv, ControlInv, Begun
  <2>4. ASSUME NEW u \in Users, User(u)
        PROVE  StartedDoable'
    <3>1. CASE \E g \in Graphs, n \in Requests : Start(u, g, n)
      BY <2>3, <3>1
    <3>2. CASE \/ StartThrows(u) \/ WaitNothing(u) \/ Wait(u) \/ TryWaitFor(u)
               \/ TryJoinFails(u) \/ UserReturns(u)
      BY <1>2, <2>1, <3>2, UserFrame DEF workVars
    <3>3. QED
      BY <2>4, <3>1, <3>2 DEF User
  <2>5. ASSUME NEW w \in Threads, Worker(w) \/ SpuriousWakeup(w)
        PROVE  StartedDoable'
    BY <2>1, <2>2, <2>5 DEF Worker, SpuriousWakeup, WorkerWaits, WorkerReturns,
         WorkerFinishes, workVars
  <2>6. CASE UNCHANGED vars
    BY <2>1, <2>6 DEF vars, workVars
  <2>7. QED
    BY <1>2, <2>4, <2>5, <2>6 DEF Next
<1>3. QED
  BY <1>1, <1>2, IndInvHolds, PTL DEF Spec

\* When a worker thread has ended, exactly the tasks that do not depend on a
\* cycle were done, for every graph.
THEOREM EndCorrect == Spec => []EndsOnlyWhenDone
<1>1. IndInv /\ StartedDoable => EndsOnlyWhenDone
  <2> SUFFICES ASSUME IndInv, StartedDoable, \E w \in Created : pc[w] = "end"
               PROVE  finished = Doable
    BY DEF EndsOnlyWhenDone
  <2>1. hasStarted_ /\ started = finished /\ QueueIsEmpty
    BY ThreadNumbers DEF IndInv, ControlInv, Begun, EndInv, Created
  <2>2. Closed(finished) /\ finished \subseteq graph.vertices
    BY <2>1, FinishedInClosed
  <2>3. finished \subseteq Doable
    BY <2>1, <2>2 DEF StartedDoable, Doable
  <2>4. Doable \subseteq finished
    BY <2>2 DEF Doable
  <2>5. QED
    BY <2>3, <2>4
<1>2. QED
  BY <1>1, IndInvHolds, StartedDoableHolds, PTL

-----------------------------------------------------------------------------
(***************************************************************************)
(* The abstract specification.                                             *)
(***************************************************************************)

\* A step that leaves the abstract variables alone.
LEMMA StutterStep ==
  ASSUME UNCHANGED <<graph, started, finished, outcome>>
  PROVE  [Order!Next]_(Order!tvars)
BY DEF Order!tvars

\* Taking a task is Begin, and its dependencies have finished.
LEMMA BeginStep ==
  ASSUME IndInv, hasStarted_, NEW w \in Threads, NEW t \in Tasks, WorkerTakes(w, t)
  PROVE  Order!Next
<1>1. /\ NoOutEdges(t, dependencies_) /\ t \in graph.vertices /\ t \notin started
  BY DEF IndInv, QueuedOnceAndReady, GraphInv, ReadyTaken, WorkerTakes
<1>2. Order!DependenciesOf(t) \subseteq finished
  BY <1>1, ReadyMeaning DEF Order!DependenciesOf, DependenciesOf
<1>3. graph # NoGraph
  BY GraphsAssumption DEF IndInv, ControlInv, Begun
<1>4. Order!Begin(t)
  BY <1>1, <1>2, <1>3 DEF Order!Begin, WorkerTakes, userVars
<1>5. QED
  BY <1>1, <1>3, <1>4 DEF Order!Next

\* Finishing a task is End.
LEMMA EndStep ==
  ASSUME IndInv, hasStarted_, NEW w \in Threads, WorkerFinishes(w)
  PROVE  Order!Next
<1>1. task[w] \in started \ finished /\ task[w] \in graph.vertices
  BY DEF IndInv, GraphInv, TasksHeld, ReadyTaken, ControlInv, TypeOK, WorkerFinishes
<1>2. graph # NoGraph
  BY GraphsAssumption DEF IndInv, ControlInv, Begun
<1>3. Order!End(task[w])
  BY <1>1 DEF Order!End, WorkerFinishes, userVars
<1>4. QED
  BY <1>1, <1>2, <1>3 DEF Order!Next

\* The first wait that comes back reports the outcome: an edge is left exactly
\* if a task was not done.
LEMMA ReportStep ==
  ASSUME IndInv, NEW u \in Users, WaitEnds(u)
  PROVE  [Order!Next]_(Order!tvars)
<1> USE DEF IndInv, ControlInv
<1>1. hasStarted_ /\ graph \in Graphs /\ nWorkers_ >= 1
  BY DEF Begun, WaitEnds
<1>2. pc[1] = "end" /\ 1 \in Threads
  <2>1. 1 \in Threads
    BY FiniteSets DEF Threads
  <2>2. QED
    BY <1>1, <2>1, ThreadNumbers DEF WaitEnds, JoinProgress, TypeOK
<1>3. started = finished /\ QueueIsEmpty
  BY <1>2 DEF EndInv
<1>4. Closed(finished) /\ finished \subseteq graph.vertices
  BY <1>1, <1>3, FinishedInClosed
<1>5. \A v \in graph.vertices : Order!DependenciesOf(v) \subseteq finished => v \in finished
  BY <1>4 DEF Closed, DependenciesOf, Order!DependenciesOf
<1>6. ~ContainsCycle <=> finished = graph.vertices
  <2>1. ASSUME ~ContainsCycle PROVE finished = graph.vertices
    <3>1. \A v, d \in Tasks : dependencies_[<<v, d>>] = 0
      BY <2>1 DEF ContainsCycle, NEdgesIsZero
    <3>2. ASSUME NEW v \in graph.vertices PROVE v \in finished
      <4>1. v \in Tasks /\ NoOutEdges(v, dependencies_)
        BY <1>1, <3>1, ReadyMeaning DEF NoOutEdges
      <4>2. QED
        BY <1>1, <1>4, <4>1, ReadyMeaning DEF Closed
    <3>3. QED
      BY <1>4, <3>2
  <2>2. ASSUME finished = graph.vertices PROVE ~ContainsCycle
    <3> SUFFICES ASSUME NEW e \in Tasks \X Tasks PROVE dependencies_[e] = 0
      BY DEF ContainsCycle, NEdgesIsZero
    <3>1. PICK v \in Tasks, d \in Tasks : e = <<v, d>>
      OBVIOUS
    <3>2. CASE graph.edges[e] > 0
      <4>1. e \in graph.vertices \X graph.vertices
        BY <1>1, <3>2, GraphsAssumption
      <4>2. d \in finished
        BY <2>2, <3>1, <4>1
      <4>3. QED
        BY <1>1, <3>1, <4>2 DEF GraphInv, EdgesLeft
    <3>3. CASE ~(graph.edges[e] > 0)
      <4>1. graph.edges[e] \in Nat
        BY <1>1, GraphsAssumption
      <4>2. QED
        BY <1>1, <3>1, <3>3, <4>1 DEF GraphInv, EdgesLeft
    <3>4. QED
      BY <3>2, <3>3
  <2>3. QED
    BY <2>1, <2>2
<1>7. graph # NoGraph
  BY <1>1, GraphsAssumption
<1>8. CASE outcome = "none"
  <2>1. outcome' = IF finished = graph.vertices THEN "done" ELSE "cycle"
    BY <1>6, <1>8 DEF WaitEnds
  <2>2. Order!Report
    BY <1>3, <1>5, <1>7, <1>8, <2>1 DEF Order!Report, WaitEnds
  <2>3. QED
    BY <2>2 DEF Order!Next
<1>9. CASE outcome # "none"
  BY <1>9, StutterStep DEF WaitEnds
<1>10. QED
  BY <1>8, <1>9

\* The scheduler implements TaskOrder: every task once, after its dependencies,
\* and a cycle is reported exactly if a task could not be done.
THEOREM Refinement == Spec => ImplementsTaskOrder
<1>1. Init => Order!Init
  BY DEF Init, Order!Init
<1>2. ASSUME IndInv, [Next]_vars
      PROVE  [Order!Next]_(Order!tvars)
  <2>1. ASSUME NEW w \in Threads, Worker(w) \/ SpuriousWakeup(w)
        PROVE  [Order!Next]_(Order!tvars)
    <3>1. hasStarted_
      <4>1. pc[w] # "none"
        BY <2>1 DEF Worker, SpuriousWakeup, WorkerWaits, WorkerReturns, WorkerTakes,
             WorkerFinishes
      <4>2. QED
        BY <1>2, <4>1, ThreadNumbers DEF IndInv, ControlInv, Begun, ThreadsKnown
    <3>2. CASE WorkerWaits(w) \/ WorkerReturns(w) \/ SpuriousWakeup(w)
      BY <3>2, StutterStep DEF WorkerWaits, WorkerReturns, SpuriousWakeup, workVars, userVars
    <3>3. QED
      BY <1>2, <2>1, <3>1, <3>2, BeginStep, EndStep DEF Worker
  <2>2. ASSUME NEW u \in Users, User(u)
        PROVE  [Order!Next]_(Order!tvars)
    <3>1. ASSUME NEW g \in Graphs, NEW n \in Requests, Start(u, g, n)
          PROVE  [Order!Next]_(Order!tvars)
      <4>1. Order!Submit(g)
        BY <1>2, <3>1 DEF Order!Submit, Start, IndInv, ControlInv, Begun
      <4>2. QED
        BY <4>1 DEF Order!Next
    <3>2. CASE WaitEnds(u)
      BY <1>2, <3>2, ReportStep
    <3>3. CASE \/ StartThrows(u) \/ WaitNothing(u) \/ Wait(u) \/ TryWaitFor(u)
               \/ TryJoinFails(u) \/ Join(u)
      BY <3>3, StutterStep DEF StartThrows, WaitNothing, Wait, TryWaitFor,
           TryJoinFails, Join, workVars
    <3>4. QED
      BY <2>2, <3>1, <3>2, <3>3 DEF User, UserReturns
  <2>3. CASE UNCHANGED vars
    BY <2>3, StutterStep DEF vars, workVars, userVars
  <2>4. QED
    BY <1>2, <2>1, <2>2, <2>3 DEF Next
<1>3. QED
  BY <1>1, <1>2, IndInvHolds, PTL DEF Spec, ImplementsTaskOrder, Order!Spec
=============================================================================
