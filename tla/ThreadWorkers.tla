---------------------------- MODULE ThreadWorkers ----------------------------
(***************************************************************************)
(* Sawyer::ThreadWorkers: worker threads that process the vertices of a    *)
(* dependency graph.  An edge from a to b means that a waits for b; the    *)
(* graph may have parallel edges, self edges and cycles.  One action is    *)
(* one section under mutex_; the functor runs between two of them.         *)
(***************************************************************************)
EXTENDS Integers, FiniteSets

CONSTANTS
  Tasks,     \* vertex ids
  Graphs,    \* the dependency graphs that are submitted
  NoGraph,   \* no graph was submitted yet
  NoTask,    \* a worker thread that has no task
  Requests,  \* the values of the argument nWorkers of start
  Hardware,  \* boost::thread::hardware_concurrency()
  Users,     \* threads that call the public operations
  MaxCalls   \* bound: the number of calls of each user thread

ASSUME GraphsAssumption ==
  /\ IsFiniteSet(Tasks) /\ NoTask \notin Tasks
  /\ Graphs \subseteq
       [vertices : SUBSET Tasks, edges : [Tasks \X Tasks -> Nat]]
  /\ \A g \in Graphs : \A e \in Tasks \X Tasks :
       g.edges[e] > 0 => e \in g.vertices \X g.vertices
  /\ NoGraph \notin Graphs

ASSUME RequestsAssumption ==
  /\ Requests \subseteq Nat /\ Hardware \in Nat \ {0}
  /\ MaxCalls \in [Users -> Nat]

VARIABLES
  graph,              \* the argument of start
  dependencies_,      \* outstanding edges, with their multiplicity
  hasStarted_, hasWaited_,
  workQueue_,         \* how often each task is on the stack
  nWorkers_,
  nItemsStarted_, nItemsFinished_, nWorkersRunning_, nWorkersFinished_,
  runningTasks_,
  pc,                 \* where each worker thread is
  task,               \* workItemId of each worker thread
  joined,             \* worker threads that were joined
  at,                 \* where each user thread is
  next,               \* i, the worker the user thread joins next
  calls,              \* calls each user thread has made
  outcome,            \* history: how the first wait came back
  started, finished,  \* history: tasks whose functor was called, has returned
  ended               \* history: no worker was left when the call began

startVars == <<graph, hasStarted_, nWorkers_>>
countVars == <<nItemsStarted_, nItemsFinished_, nWorkersRunning_, runningTasks_>>
workVars  == <<dependencies_, workQueue_, countVars, task, started, finished>>
userVars  == <<joined, at, next, calls, outcome, ended>>

vars == <<startVars, hasWaited_, nWorkersFinished_, pc, workVars, userVars>>

\* Worker threads are numbered from 1; there is at most one per vertex.
Threads == 1..(Cardinality(Tasks) + 1)
Created == 1..nWorkers_

\* The threads blocked on the condition variable workInserted_, and those
\* that are about to look for work.
Sleeping == {w \in Created : pc[w] = "wait"}
Looking  == {w \in Created : pc[w] = "look"}

Init ==
  /\ graph = NoGraph
  /\ dependencies_ = [e \in Tasks \X Tasks |-> 0]
  /\ hasStarted_ = FALSE /\ hasWaited_ = FALSE
  /\ workQueue_ = [t \in Tasks |-> 0]
  /\ nWorkers_ = 0
  /\ nItemsStarted_ = 0 /\ nItemsFinished_ = 0
  /\ nWorkersRunning_ = 0 /\ nWorkersFinished_ = 0
  /\ runningTasks_ = {}
  /\ pc = [w \in Threads |-> "none"]
  /\ task = [w \in Threads |-> NoTask]
  /\ joined = {}
  /\ at = [u \in Users |-> "idle"] /\ next = [u \in Users |-> 1]
  /\ calls = [u \in Users |-> 0]
  /\ outcome = "none" /\ started = {} /\ finished = {}
  /\ ended = [u \in Users |-> FALSE]

-----------------------------------------------------------------------------
(***************************************************************************)
(* The graph and the queue.                                                *)
(***************************************************************************)
NoOutEdges(v, edges) == \A d \in Tasks : edges[<<v, d>>] = 0
NEdgesIsZero == \A e \in Tasks \X Tasks : dependencies_[e] = 0
QueueIsEmpty == \A t \in Tasks : workQueue_[t] = 0

\* fillWorkQueueNS: the vertices without out edges.
Roots(g) == {v \in g.vertices : NoOutEdges(v, g.edges)}

-----------------------------------------------------------------------------
(***************************************************************************)
(* The worker threads.                                                     *)
(***************************************************************************)

\* while (nItemsFinished_ < nItemsStarted_ && workQueue_.isEmpty()) wait
WorkerWaits(w) ==
  /\ pc[w] = "look"
  /\ nItemsFinished_ < nItemsStarted_ /\ QueueIsEmpty
  /\ pc' = [pc EXCEPT ![w] = "wait"]
  /\ UNCHANGED <<startVars, hasWaited_, nWorkersFinished_, workVars, userVars>>

\* Mutant: a worker leaves as soon as the queue is empty.
WorkIsOver_QueueOnly == QueueIsEmpty

\* Mutant: the work is thought to be over when every vertex was done.
WorkIsOver_AllTasks ==
  nItemsFinished_ = Cardinality(graph.vertices) /\ QueueIsEmpty

WorkIsOver == nItemsFinished_ = nItemsStarted_ /\ QueueIsEmpty

\* All work is done: the thread ends.
WorkerReturns(w) ==
  /\ pc[w] = "look"
  /\ WorkIsOver
  /\ nWorkersFinished_' = nWorkersFinished_ + 1
  /\ pc' = [pc EXCEPT ![w] = "end"]
  /\ UNCHANGED <<startVars, hasWaited_, workVars, userVars>>

MayTake(t) == workQueue_[t] > 0

\* workQueue_.pop() and the bookkeeping before the functor is called.
WorkerTakes(w, t) ==
  /\ pc[w] = "look" /\ MayTake(t)
  /\ workQueue_' = [workQueue_ EXCEPT ![t] = @ - 1]
  /\ nItemsStarted_' = nItemsStarted_ + 1
  /\ nWorkersRunning_' = nWorkersRunning_ + 1
  /\ runningTasks_' = runningTasks_ \cup {t}
  /\ task' = [task EXCEPT ![w] = t]
  /\ started' = started \cup {t}
  /\ pc' = [pc EXCEPT ![w] = "run"]
  /\ UNCHANGED <<startVars, dependencies_, hasWaited_, nItemsFinished_,
                 nWorkersFinished_, finished, userVars>>

\* dependencies_.clearInEdges(t)
InEdgesCleared(t) ==
  [e \in Tasks \X Tasks |-> IF e[2] = t THEN 0 ELSE dependencies_[e]]

\* The sources of the in edges, each once, that have no other dependency left.
NewWork(t) ==
  {v \in Tasks : /\ dependencies_[<<v, t>>] > 0
                 /\ NoOutEdges(v, InEdgesCleared(t))}

\* Mutant: the candidates are not made unique, so that parallel edges push a
\* vertex more than once.
Pushed_PerEdge(t) ==
  [v \in Tasks |-> workQueue_[v] +
     IF v \in NewWork(t) THEN dependencies_[<<v, t>>] ELSE 0]

Pushed(t) ==
  [v \in Tasks |-> workQueue_[v] + IF v \in NewWork(t) THEN 1 ELSE 0]

\* Mutant: two new tasks wake nobody either.
Woken_NotOne(n, S) ==
  IF n = 0 THEN S = IF QueueIsEmpty THEN Sleeping ELSE {}
  ELSE IF n < 3 THEN S = {}
  ELSE S = Sleeping

\* Whom the finished task's worker wakes, having pushed n new tasks.
Woken(n, S) ==
  IF n = 0 THEN S = IF QueueIsEmpty THEN Sleeping ELSE {}
  ELSE IF n = 1 THEN S = {}
  ELSE IF n = 2 THEN IF Sleeping = {} THEN S = {} ELSE \E x \in Sleeping : S = {x}
  ELSE S = Sleeping

\* The functor has returned.
WorkerFinishes(w) ==
  /\ pc[w] = "run"
  /\ nItemsFinished_' = nItemsFinished_ + 1
  /\ nWorkersRunning_' = nWorkersRunning_ - 1
  /\ runningTasks_' = runningTasks_ \ {task[w]}
  /\ dependencies_' = InEdgesCleared(task[w])
  /\ workQueue_' = Pushed(task[w])
  /\ \E S \in SUBSET Sleeping :
       /\ Woken(Cardinality(NewWork(task[w])), S)
       /\ pc' = [x \in Threads |-> IF x = w \/ x \in S THEN "look" ELSE pc[x]]
  /\ finished' = finished \cup {task[w]}
  /\ task' = [task EXCEPT ![w] = NoTask]
  /\ UNCHANGED <<startVars, hasWaited_, nItemsStarted_, nWorkersFinished_,
                 started, userVars>>

\* boost::condition_variable::wait may return without a notification.
SpuriousWakeup(w) ==
  /\ pc[w] = "wait"
  /\ pc' = [pc EXCEPT ![w] = "look"]
  /\ UNCHANGED <<startVars, hasWaited_, nWorkersFinished_, workVars, userVars>>

-----------------------------------------------------------------------------
(***************************************************************************)
(* The public operations.                                                  *)
(***************************************************************************)
Returned(u) == at' = [at EXCEPT ![u] = "idle"]

MayCall(u) == at[u] = "idle" /\ calls[u] < MaxCalls[u]

Called(u) ==
  /\ calls' = [calls EXCEPT ![u] = @ + 1]
  /\ ended' = [ended EXCEPT ![u] = \A w \in Created : pc[w] = "end"]

MaxOf(a, b) == IF a >= b THEN a ELSE b
MinOf(a, b) == IF a <= b THEN a ELSE b

\* At least one thread, but not more than vertices.
NWorkers(n, g) ==
  MaxOf(1, MinOf(IF n = 0 THEN Hardware ELSE n, Cardinality(g.vertices)))

Start(u, g, n) ==
  /\ MayCall(u) /\ ~hasStarted_
  /\ hasStarted_' = TRUE
  /\ graph' = g
  /\ dependencies_' = g.edges
  /\ nWorkers_' = NWorkers(n, g)
  /\ nItemsStarted_' = 0 /\ nWorkersFinished_' = 0 /\ runningTasks_' = {}
  /\ workQueue_' = [t \in Tasks |-> IF t \in Roots(g) THEN 1 ELSE 0]
  /\ pc' = [w \in Threads |-> IF w <= NWorkers(n, g) THEN "look" ELSE "none"]
  /\ Called(u)
  /\ UNCHANGED <<hasWaited_, nItemsFinished_, nWorkersRunning_, task, started,
                 finished, joined, at, next, outcome>>

\* "work can start only once per object" is thrown.
StartThrows(u) ==
  /\ MayCall(u) /\ hasStarted_
  /\ Called(u)
  /\ UNCHANGED <<startVars, hasWaited_, nWorkersFinished_, pc, workVars, joined,
                 at, next, outcome>>

\* wait() and tryWaitFor() with nothing to wait for.
WaitNothing(u) ==
  /\ MayCall(u) /\ (~hasStarted_ \/ hasWaited_)
  /\ Called(u)
  /\ UNCHANGED <<startVars, hasWaited_, nWorkersFinished_, pc, workVars, joined,
                 at, next, outcome>>

\* wait() claims the join before it unlocks.
Wait(u) ==
  /\ MayCall(u) /\ hasStarted_ /\ ~hasWaited_
  /\ \A v \in Users : at[v] # "tryJoin"
  /\ hasWaited_' = TRUE
  /\ at' = [at EXCEPT ![u] = "join"]
  /\ next' = [next EXCEPT ![u] = 1]
  /\ Called(u)
  /\ UNCHANGED <<startVars, nWorkersFinished_, pc, workVars, joined, outcome>>

\* tryWaitFor() does not, and sets hasWaited_ only at its end.  Two threads do
\* not join the same boost::thread at the same time.
TryWaitFor(u) ==
  /\ MayCall(u) /\ hasStarted_ /\ ~hasWaited_
  /\ \A v \in Users : at[v] # "tryJoin"
  /\ at' = [at EXCEPT ![u] = "tryJoin"]
  /\ next' = [next EXCEPT ![u] = 1]
  /\ Called(u)
  /\ UNCHANGED <<startVars, hasWaited_, nWorkersFinished_, pc, workVars, joined,
                 outcome>>

\* Mutant: join() does not return for a thread that was joined before.
Joinable_Once(u) == next[u] \notin joined

\* join() returns at once for a thread that was joined before; try_join_until()
\* returns false for it.
Joinable(u) == at[u] = "tryJoin" => next[u] \notin joined

\* workers_[i].join(), or try_join_until() of a thread that ends in time.
Join(u) ==
  /\ at[u] # "idle" /\ next[u] <= nWorkers_
  /\ Joinable(u) /\ pc[next[u]] = "end"
  /\ joined' = joined \cup {next[u]}
  /\ next' = [next EXCEPT ![u] = @ + 1]
  /\ UNCHANGED <<startVars, hasWaited_, nWorkersFinished_, pc, workVars, at,
                 calls, outcome, ended>>

\* try_join_until() returns false when the time is over, and at once for a
\* thread that was joined before.
TryJoinFails(u) ==
  /\ at[u] = "tryJoin" /\ next[u] <= nWorkers_
  /\ ~Joinable(u) \/ pc[next[u]] # "end"
  /\ Returned(u)
  /\ UNCHANGED <<startVars, hasWaited_, nWorkersFinished_, pc, workVars, joined,
                 next, calls, outcome, ended>>

\* Mutant: cycles are looked for in the submitted graph among self edges only.
ContainsCycle_SelfEdges == \E t \in Tasks : dependencies_[<<t, t>>] > 0

\* dependencies_.nEdges() != 0
ContainsCycle == ~NEdgesIsZero

\* The locked section at the end of wait() and of tryWaitFor().
WaitEnds(u) ==
  /\ at[u] # "idle" /\ next[u] > nWorkers_
  /\ hasWaited_' = TRUE
  /\ dependencies_' = IF ContainsCycle THEN dependencies_
                      ELSE [e \in Tasks \X Tasks |-> 0]
  /\ outcome' = IF outcome # "none" THEN outcome
                ELSE IF ContainsCycle THEN "cycle" ELSE "done"
  /\ Returned(u)
  /\ UNCHANGED <<startVars, nWorkersFinished_, pc, workQueue_, countVars, task,
                 started, finished, joined, next, calls, ended>>

\* isFinished()
IsFinished == ~hasStarted_ \/ nWorkersFinished_ = nWorkers_

-----------------------------------------------------------------------------
Worker(w) ==
  \/ WorkerWaits(w) \/ WorkerReturns(w) \/ WorkerFinishes(w)
  \/ \E t \in Tasks : WorkerTakes(w, t)

UserReturns(u) == Join(u) \/ WaitEnds(u)

User(u) ==
  \/ \E g \in Graphs, n \in Requests : Start(u, g, n)
  \/ StartThrows(u) \/ WaitNothing(u) \/ Wait(u) \/ TryWaitFor(u)
  \/ TryJoinFails(u) \/ UserReturns(u)

Next ==
  \/ \E w \in Threads : Worker(w) \/ SpuriousWakeup(w)
  \/ \E u \in Users : User(u)

Spec == Init /\ [][Next]_vars

\* A thread that is not blocked runs, and the functor returns.
Fairness ==
  /\ \A w \in Threads : WF_vars(Worker(w))
  /\ \A u \in Users : WF_vars(UserReturns(u))

FairSpec == Spec /\ Fairness

-----------------------------------------------------------------------------
(***************************************************************************)
(* Properties.                                                             *)
(***************************************************************************)
\* Types of the members, of the threads and of the histories; the counters,
\* which are unsigned, never drop below 0.
TypeOK ==
  /\ graph \in Graphs \cup {NoGraph}
  /\ dependencies_ \in [Tasks \X Tasks -> Nat]
  /\ hasStarted_ \in BOOLEAN /\ hasWaited_ \in BOOLEAN
  /\ workQueue_ \in [Tasks -> Nat]
  /\ nWorkers_ \in 0..(Cardinality(Tasks) + 1)
  /\ nItemsStarted_ \in Nat /\ nItemsFinished_ \in Nat
  /\ nWorkersRunning_ \in Nat /\ nWorkersFinished_ \in Nat
  /\ runningTasks_ \subseteq Tasks
  /\ pc \in [Threads -> {"none", "look", "wait", "run", "end"}]
  /\ task \in [Threads -> Tasks \cup {NoTask}]
  /\ joined \subseteq Threads
  /\ at \in [Users -> {"idle", "join", "tryJoin"}]
  /\ next \in [Users -> Nat \ {0}]
  /\ calls \in [Users -> Nat]
  /\ outcome \in {"none", "done", "cycle"}
  /\ started \subseteq Tasks /\ finished \subseteq Tasks
  /\ ended \in [Users -> BOOLEAN]

\* What each task waits for in the submitted graph.
DependenciesOf(v) == {d \in graph.vertices : graph.edges[<<v, d>>] > 0}

\* A set of tasks that holds every task whose dependencies it holds.  The
\* tasks that can be done at all are in every such set.
Closed(S) == \A v \in graph.vertices : DependenciesOf(v) \subseteq S => v \in S
Doable == {v \in graph.vertices : \A S \in SUBSET graph.vertices : Closed(S) => v \in S}

\* The assertion nOutEdges() == 0 when a task is popped holds, and no task is
\* on the stack twice or once more after it was started, although parallel
\* edges name it several times as a candidate.
QueuedOnceAndReady ==
  \A t \in Tasks : workQueue_[t] > 0 =>
    workQueue_[t] = 1 /\ t \notin started /\ NoOutEdges(t, dependencies_)

\* The notification rules wake enough workers: while a worker sleeps on
\* workInserted_, every task on the stack has a worker that is about to look
\* for it, and nobody sleeps when the work is over.
SleepersNotNeeded ==
  Sleeping # {} =>
    /\ Cardinality({t \in Tasks : workQueue_[t] > 0}) <= Cardinality(Looking)
    /\ nItemsFinished_ < nItemsStarted_ \/ ~QueueIsEmpty

\* A worker thread ends, and isFinished() becomes true, only when every task
\* that does not depend on a cycle has been done, and only these.
EndsOnlyWhenDone ==
  (\E w \in Created : pc[w] = "end") => finished = Doable

\* Seen without threads, tasks run once, after their dependencies, and wait()
\* or tryWaitFor() reports a cycle exactly when some task could not be done.
Order == INSTANCE TaskOrder
ImplementsTaskOrder == Order!Spec

\* Once started, all worker threads end: no lost notification leaves a worker
\* asleep for ever, whatever the graph is.
WorkCompletes == hasStarted_ ~> IsFinished

\* wait() comes back.
WaitReturns == \A u \in Users : at[u] = "join" ~> at[u] = "idle"

\* tryWaitFor: "Returns true if no work has been started, or all work has
\* completed within the time period": it does not return false if all worker
\* threads had ended when it was called.
TryWaitTruthful ==
  [][\A u \in Users : TryJoinFails(u) => ~ended[u]]_vars
=============================================================================
