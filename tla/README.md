# Verification of the core of ROSE / loomX

This directory holds TLA+ models of parts of this repository, TLC instances
that model-check them, and TLAPS proofs about them.  `PROJECT.json` maps every
definition to the source lines it models.

Run `tlc -workers 2 -config <cfg> <module>` for a run and
`tlapm <module>.tla` for the proofs, which are in `EngineProofs`,
`EngineStepProofs`, `PathNodeProofs`, `ThreadWorkersProofs`,
`InterproceduralProofs`, `LoopDependenceProofs` and `DriverProofs`, with
`Induction` for what they share.

## 1. Inventory

The repository is a ROSE compiler tree with the tool loomX in `tools/loomX`.
Most of it translates or prints programs sequentially.  The parts that keep
state which several actors change, or whose verdict decides whether a
transformation is sound, are these.

| Component | State | Operations | Hard behaviour | What makes it correct |
|---|---|---|---|---|
| ModelChecker `Engine` | two path queues, worker counters, `stopping_`, statistics, worker threads | `insertStartingPoint`, `insertWork`, `startWorkers`, `run`, `step`, `stop`, `reset`, `takeNextInteresting` | worker and user threads, two condition variables, notifications without the mutex, joins under the mutex | no path lost or worked on twice, workers quit only when nobody can create work, every blocked caller comes back, assertions hold |
| ModelChecker `PathQueue` | a heap of paths, its own mutex | `insert`, `takeNext`, `reset`, `prioritizer` | filled without the engine's mutex | each path at most once |
| ModelChecker `PathNode`, `Path` | incoming/outgoing state, tags, assertions per node | `execute`, `borrowOutgoingState`, `releaseOutgoingState` | nodes are shared by paths and threads; a state is lent and given back | a lent state is given back before anybody else needs it |
| ModelChecker predicates, prioritizers | limits, counters | `test`, `operator()` | called concurrently | answers are the user's policy |
| ModelChecker `WorkerStatus`, `Periodic` | status table, timestamps | `setState`, `updateFile` | called under the engine's mutex | I/O only |
| `Sawyer::ThreadWorkers` | dependency graph, work queue, counters, threads | `start`, `wait`, `tryWaitFor`, `run` | workers take vertices as their dependencies finish; notify rules depend on how many became ready; cycles | dependency order, each vertex once, termination, cycles reported |
| loomX `InterproceduralAnalysis` | side-effect summary per function, call graph | summarise, propagate, `isSafeForParallelLoop` | recursion, unresolved calls, order of the worklist | a loop is called safe only if no reachable function has a conflicting effect |
| loomX driver and profitability model | the accepted loops with their targets, the set of GPU loops, two counters | filter, choose a target, promote, batch, suppress, generate | later passes revise the verdicts of earlier ones; counts that must agree | an unsafe loop gets no directive, no kernel is inside a kernel, the report is right |
| loomX `LoopDependenceAnalysis` | none (one call per loop) | `analyze` | affine forms, divisibility, nests, references that are never compared | a loop that passes has no two conflicting iterations |
| loomX transformations, other loop analyses, generators | none | functions of the AST | pattern matching on syntax | conservative answers |
| Sage III, frontends, unparser, midend, other binary analysis | the AST, symbol tables | compiler passes | size, not concurrency | not modelled |

How they interact.  A program that uses the model checker owns an `Engine`,
inserts starting points and calls it from its own threads (*user threads*).
`startWorkers` creates *managed workers*.  A worker takes a `Path` from
`frontier_`, executes its last `PathNode` with the user's `SemanticCallbacks`,
puts the path on `interesting_` if a predicate says so, and inserts the paths
that extend it by one execution unit.  User threads do the same one path at a
time with `step()`, or until no work remains with `run()`, and consume results
with `takeNextInteresting()`.  `newWork_` and `newInteresting_` are the
condition variables, `mutex_` protects everything but the two queues, which
have mutexes of their own.  loomX is a pipeline over one AST: analyses produce
facts about loops and functions, the driver filters, the generators print.

## 2. Plan

Done:

1. `Engine`, `Exploration`, their runs and proofs.
2. `PathNode`: threads that execute shared nodes of a path and lend their
   states, composed with `Exploration`, the order in which the engine hands out
   paths.
3. `ThreadWorkers` and its abstract specification `TaskOrder`, for an arbitrary
   dependency graph, with the notification rules, several waiters, `tryWaitFor`
   and cycles.
4. loomX `InterproceduralAnalysis`.
5. loomX `Driver`: the filters, mode overrides, passes and counters of
   `main.cpp`, with the passes of `GpuProfitability.cpp`.
6. loomX `LoopDependence`: the subscript test against a definition by
   enumeration of iterations.

Left, in this order:

1. Exceptions of user callbacks in `Engine` and `PathNode` (the scope exits
   finish the path, and its work is lost).
2. `LoopFusion`: when two loops may be fused, against the order of their
   accesses.
3. The limits of `WorkPredicate` (steps and time per path).
4. The kernel generator's fallbacks.

Every invariant and every action property that a run checks has a proof; what
is left to TLC is listed with each component in section 5.

Runs stay small (two workers, two user threads, forests of two to four paths,
graphs of three or four vertices, three or four loops): the interesting orders need two
threads that race and one that observes, and the interesting revisions of a
verdict a producer, a consumer and something in between.

## 3. Modules

| Module | Role |
|---|---|
| `Engine` | the model of `Engine.C` and of `PathQueue.C` as it uses it; properties |
| `Exploration` | what the engine promises about the forest of paths, without threads |
| `PathNode` | the model of `PathNode.C`, of `Path.C` as far as states go, and of the part of `Engine::doOneStep` that uses them; the order of paths is an instance of `Exploration` |
| `MCPathNode` | a tree of paths for TLC |
| `PathNodeProofs` | inductive invariant, assertions, states |
| `ThreadWorkers` | the model of `Sawyer/ThreadWorkers.h` |
| `TaskOrder` | what the scheduler promises, without threads |
| `MCThreadWorkers` | dependency graphs for TLC |
| `ThreadWorkersProofs` | inductive invariant, notifications, refinement |
| `Driver` | the model of the loop of `main.cpp` over the loops of the project, with the passes and decisions of `GpuProfitability.cpp` |
| `MCDriver` | nests, kinds of loops and command lines for TLC |
| `DriverProofs` | inductive invariant, what holds of a loop with a directive, phase coupling, counts, groups of helper loops |
| `LoopDependence` | the model of `LoopDependenceAnalysis.cpp` |
| `MCLoopDependence` | subscripts and loop bodies for TLC |
| `LoopDependenceProofs` | what the recursive functions compute, loops declared safe, loops rejected |
| `MCEngine` | forests and programs (which calls a user thread makes) for TLC |
| `EngineProofs` | inductive invariant, type correctness, counters |
| `EngineStepProofs` | conservation of work, fanout, action properties, refinement |
| `InterproceduralAnalysis` | the model of `tools/loomX/src/InterproceduralAnalysis.cpp` |
| `MCInterprocedural` | the projects that TLC analyses |
| `InterproceduralProofs` | types, order of declarations, propagation, verdicts, cycles, estimates |
| `Induction` | induction and recursion over numbers and ranks, sums over finite sets |

In every module an operator with a name `Op_Xxx` is a wrong variant of the
operator `Op` after it: a plausible slip, which one of the properties detects.

### Engine: state

The members of `Engine` keep their names.  `frontier_` and `interesting_` are
sets of paths: the heap order is the user's prioritizer, so `takeNext` returns
any member.  `newWork_` and `newInteresting_` are the sets of blocked threads.
`mutex_` names a thread only where one locked section takes more than one
action.  `fanout_` is the table summed over its levels.  `pc`, `state`, `cur`,
`todo`, `resume` are the locals and the program counters of the threads;
`inserted` is a history variable: the paths put on the frontier since the last
`reset`.

### Engine: actions

| Code | Actions |
|---|---|
| `worker` | `WorkerReady`, `TakeNextWorkItem`, `TakeNextWorkItemWait`, `DoOneStep`, `Relax`, `FinishPath`, `Quit` |
| `step` | `StepStart`, `TakeNextWorkItemNow`, `DoOneStep`, `FinishPath`, `StepFinish` |
| `doOneStep`: `execute`, `insertInteresting`, `extend`, `insertWork`, `updateFanout` | `Execute`, `InsertInteresting`, `NotifyInteresting`, `InsertWork`, `NotifyWork`, `UpdateFanout` |
| `run` | `Call`, `RunTest`, `RunCapacity`, `RunWait` |
| `stop` | `Stop`, `StopTest`, `StopJoin` |
| `reset`, `insertStartingPoint`, `startWorkers` | one action each |
| `insertWork` called by the user | `UserInsertWork`, `NotifyWork` |
| `takeNextInteresting` | `Call`, `TakeNextInteresting`, `TakeNextInterestingWait` |
| condition variables | `NotifyOne`, `SpuriousWakeup` |

One action is one section of code under `mutex_`, one access to a queue, or
one notification outside the mutex.  Two locked sections are split although
the mutex is held throughout: `takeNextWorkItem` and `takeNextInteresting`
look at a queue, and then decide to wait; another thread may insert into the
queue *and notify* between the two, because neither needs `mutex_`.  `stop()`
holds `mutex_` while it joins, so no thread can enter or leave the engine
during `StopJoin`.

`worker` leaves the state WORKING (`Relax`) before the scope exit runs
`finishPath`, `step` after it; the model keeps both orders.

### Engine: abstractions

* A path is a member of `Paths`; `Children` is what `nextUnits` can produce.
  A child may be pruned by the frontier predicate, and a path may fail or be
  skipped: then it has no children.
* Every execution unit has one step (true of instruction, external function
  and failure units; a basic block unit has one per instruction).  So the two
  columns of `fanout_` summed over the levels are two numbers.
* `nStepsExplored_`, `nExpressionsTrimmed_`, timers, `workerStatus_` and
  messages are left out; no decision of the engine depends on them.
* Exceptions thrown by the user's callbacks are not modelled.
* `reset()` "is not thread safe": it is called only when every user thread is
  outside the engine.  It joins the workers first, hence the guard `Quiescent`.
  The destructor, which only joins, is not modelled.
* "No starting point should be inserted more than once": the model's program
  respects that, and inserts it again only after a reset.

### InterproceduralAnalysis: state and actions

One behaviour is one call of `analyzeProject` on one member of `Projects`, and
the verdicts are operators on the state it leaves.  The phases follow each
other as in the code:

| Code | Actions |
|---|---|
| phase 1: `analyzeFunction` for each declaration | `AnalyzeFunction` |
| phase 2: `buildCallGraphEdges` | `BuildCallGraphEdges` |
| phase 2: `findRecursiveCycles`, `dfsSCC` | `VisitRoot`, `VisitCallee`, `Leave`; `frames` holds the recursive activations |
| phase 3: marks and worklist of `propagateSideEffects` | `StartPropagation`, `PropagateSideEffects` |
| phase 3: fixed point of the work estimates | `StartEstimates`, `Estimate`, `EndPass` |
| `isSafeForParallelLoop`, `pointerWritesAreLoopDisjoint`, `isFunctionSafe` | operators of the same names |

The flags `inRecursiveCycle` and `hasTransitiveSideEffects` of the summaries
are the sets `recursive` and `transitive`; the other members of a summary are
the record in `summaries_`.  Sets and maps are visited in the order of the
names, as `std::set` and `std::map` do.  A function has one summary per
unqualified name, as in the code.

Abstractions:

* The AST of a body is reduced to what the queries of phase 1 can find in it:
  the names it calls, whether it makes a call that is not resolved, what kinds
  of long-lived variables it assigns, its writes through pointer parameters
  (parameter, index parameter, constant offset), and its work.  What the
  analysis drops (offsets, unresolved calls, stores to static variables and to
  array elements) is in the body and not in the summary, so that the sentences
  of the comments can be stated.
* An argument at a call site is the loop variable or it is not (`args`).
* `estimatedFlops` and `estimatedMemOps` are computed by the same loop; the
  model has the first.
* `isLeaf`, the read and written parameters and the printed summaries are left
  out: no verdict uses them.

### PathNode: state and actions

A path is named by its last node and a state by the node whose execution made
it, so `incomingState_[n] = m` says that `n` starts from what `m` left, and two
nodes that share one state object can be seen.  Each thread has
a chain of activations of `execute` (`frames`), the outermost for the node of
its path and each further one for the parent, and holds the locks of all of
them.  A worker claims a path that the abstract engine offers (`Exploration`),
executes it, borrows its state for `nextUnits`, restores it, inserts the
children, which share the state, releases it and completes the path.  Consumers
lock the node of an interesting path and copy its outgoing state at any time,
as a user does with a path from `takeNextInteresting`.

One action is one section under the lock of a node.  The lock of the parent is
taken while the node's own is held, and the parent's state is copied in a
section after its execution.

Abstractions: whether a node fails, is skipped or rejected is a choice; tags,
evidence, assertions, hashes and the steps within a unit are left out; so are
exceptions thrown by the semantics.  `TreeAssumption` says that one starting
point is not the beginning of another.

### ThreadWorkers: state and actions

The members keep their names.  `workQueue_` counts how often a task is on the
stack, so that a task pushed twice shows; which one is popped is a choice.
`dependencies_` keeps the number of parallel edges.  One action is one section
under `mutex_`; the functor runs between `WorkerTakes` and `WorkerFinishes`.
The destructor is `wait`, `run` is `start` followed by `wait`.

`tryWaitFor` joins the workers one after the other and may time out at each.
`outcome`, `started`, `finished` and `ended` are history variables.  The model
assumes that two user threads do not join the same `boost::thread` at the same
time, which boost leaves undefined.  Exceptions of the functor are left out.

### LoopDependence: state and actions

One behaviour is one call of `analyze` on one member of `Loops`: collect the
references, apply the guard for nests, compare the pairs one by one until one
conflicts.  A subscript is an expression tree (a record); `ExtractAffineSubscript`
and `gcd` are recursive functions.  `Height` says that the trees are finite: the
sub-expressions of an expression have a smaller one.  The reference definition `Conflict`
does not use them: it evaluates the subscripts for all values of the loop
variable in `Iterations` and of the other variables in `Values` and looks for
two iterations that touch the same element, one of them with a write.

Casts, a null loop, messages and 64-bit overflow are left out.

### Driver: state and actions

A loop is its position in `collector.loops` (outer loops first).  What the
analyses say of a loop is chosen when it is examined (`Facts`): the reasons to
skip it, its form, its trip count, the comparison of the floating-point
estimates with their thresholds, its reductions, whether all of its array
references stand on the left of an assignment, and the arrays it reads and
writes.  The last two are independent of each other: `A[i] += 1` and
`A[idx[i]] = 0` pass for initialization loops (`GpuProfitability.cpp:773-817`)
and read arrays, and a target without a named base is not in the set of writes.
The arrays of an inner loop are among those of the loops around it.

| Code | Actions |
|---|---|
| `main.cpp`, one turn of the loop over `collector.loops` | `SkipLoop`, `RejectLoop`, `KeepInitLoop`, `ReportLoop`, `AcceptLoop` |
| `phaseCoupleInitLoops`, `horizontalSubBatch`, `pipelinePhaseCouple` | one action each |
| suppression of helper loops in `main.cpp` | `SuppressHelpers` |
| code generation for one accepted loop | `LeaveInitLoop`, `GenerateKernel`, `GeneratePragmas` |

Abstractions: the second rule of `decideTarget` for the GPU follows from the
first and is not written again; a pipeline is a contiguous run of loops, so the
`used` flags of `pipelinePhaseCouple` never matter; groups and stages matter
only as marks that exempt a loop from suppression, so of a batch and a pipeline
the leader is kept, and not the ends and stage numbers; whether a loop can be made a
kernel or its storage can be mapped is a choice when the directive is
generated.

## 4. Runs

### Engine

Passing:

| Run | Instance | Shows |
|---|---|---|
| `rounds` | 2 workers, a user that inserts, starts, stops and resets (5 calls), a user that inserts work, steps, runs, stops and consumes (2 calls), a path with two children | `WorkConserved`, `NoSharedWork`, `CountersMatch`, `ResetAssertions`, `FanoutAccounts`, `QuitOnlyWhenDone`, `ChangeStateAssertions`, `StopQuiesces`, `ImplementsExploration` |
| `consumer` | 2 workers, a feeder (3 calls) and a consumer or helper (1 call), 2 paths, fair | `WorkersFinish`, `PendingWorkIsTaken`, `ResultsReturn`, `StopReturns` |

All of them include spurious wakeups.  The bounds are on the number of calls
(`MaxCalls`), threads and paths; nothing else is capped.  Two workers are
enough for a worker that waits while the other one works or quits, two users
for stop against stop, run against stop, and consumer against producer; a path
with two children is enough for work that appears late and for two threads that
work on siblings.  `QuitOnlyWhenDone` allows starting points on the frontier
of a worker that leaves: `insertWork` takes the lock of the queue only
(`Engine.C:402-416`), so a user thread can insert one between the worker's look
at the frontier and its end.  (`insertWork` with a path that the frontier
predicate rejects changes nothing and is not a step of the model.)

Violation:

| Run | Sentence | What happens |
|---|---|---|
| `run_hangs` | `run`: "Blocks until all work is completed." | the test and the wait are in different locked sections; the last notification falls between them and `run()` sleeps for ever |

Divergences from `Engine.h` that are plain from the code and have no run of
their own:

* `takeNextInteresting` "blocks until something is placed on the queue or until
  all work has completed" (`Engine.h:393-394`), but returns null while another
  thread is in `run()` between two steps, with paths pending.
* `stop()` waits for `workCapacity_` to be 0 (`Engine.C:264`), which a thread
  in `run()` keeps raising through `step()`, although `stopping_` keeps it from
  working.  `StopReturns` is checked without such a thread.
* A second `startWorkers` counts threads that have exited and were not joined,
  and starts none (`Engine.h:232-234`: "usually called once per round of work").
* `reset()` leaves `nFanoutRoots_` and `nExpressionsTrimmed_` ("Counters,
  queues, etc. are cleared.").
* A second thread in `run()` blocks without any managed worker, because
  `workCapacity_` counts the first one's `step()` ("if there are no managed
  workers then the calling thread will participate in the work even if other
  user threads are also working").
* A path returned by `takeNextInteresting` is not put into `inProgress`
  (`Engine.h:397`).

### PathNode

| Run | Instance | Shows |
|---|---|---|
| `shared` | 6 nodes, two starting points with a common beginning, 2 workers, 1 consumer, fair | `BorrowedAlone`, `StateAssertions`, `ExecutedOnce`, `FailureExplained`, `StatesReleased`, `AllExplored` |

The tree has a common prefix that neither starting point has executed, so both
workers and the consumer meet in the chain of parents.

Divergences without a run: `copyOutgoingState` returns null after a release and
during a borrow, not only if execution failed (`PathNode.h:187-188`); a node
whose state was released can be executed again (`PathNode.h:160-161`); skipped
and rejected nodes keep their incoming state; and a state that was borrowed and
restored may be shared with a copy, against "The state is owned by only this
node" (`PathNode.h:192`).

### ThreadWorkers

| Run | Instance | Shows |
|---|---|---|
| `graphs` | every graph of three tasks in which only the first may depend on itself, no task, parallel edges, fans of two and three, a diamond; up to four worker threads, 2 users that start, wait and poll (2 and 1 calls), fair | `QueuedOnceAndReady`, `SleepersNotNeeded`, `EndsOnlyWhenDone`, `ImplementsTaskOrder`, `WorkCompletes`, `WaitReturns` |
| `try_wait` (violation) | two independent tasks, 3 calls | "Returns true if no work has been started, or all work has completed within the time period": a call that timed out has joined some workers, and every later call fails on them |

The fans reach each of the rules by which a worker that has made none, one,
two or more tasks ready notifies the others.  `Requests` includes 0 (as many
workers as the hardware has).

Divergence without a run: a second `wait()` returns at once while the work is
still running, because the first has set `hasWaited_`.

### LoopDependence

| Run | Instance | Shows |
|---|---|---|
| `exact` | all bodies of up to two references with 18 forms of subscripts, two dimensions included, some of three; with and without a nested loop; iterations -6..6 | `TypeOK`, `SafeIfAnchored`, `RejectedIfConflict` |
| `missed` (violation) | the same loops | "If so, the loop is marked as having a loop-carried dependence": a write is never compared with itself, equal subscripts without the loop variable are taken for the same iteration, and the other indices of a nest count as 0 |

Thirteen iterations are enough for every conflict that two of these subscripts
can have (coefficients up to 3, constants up to 3).  `SafeIfAnchored` says
where the analysis can be trusted: each write has a dimension that moves with
the loop and depends on nothing else.

### Driver

| Run | Instance | Shows |
|---|---|---|
| `directives` | three or four loops in four arrangements, fourteen kinds of loops, nine command lines, the thresholds of the code | `DirectivesSafe`, `NoNestedKernels`, `HostBetweenHeldBack`, `HelpersGrouped`, `CountsAgree` |
| `stale_host` (violation) | an `init_array` loop and two loops of `main`, three kinds of loops, the default command line | "verify that no loop in program order between a candidate and its consuming GPU loop still runs on the CPU while touching the same arrays": a loop that was skipped or rejected is not among the loops that phase coupling scans, and touches the arrays of a promoted loop on the host before the kernel |

Two accepted loops between a candidate and its consumer, hence four loops, are
needed for a candidate that is passed over because it is a candidate itself and
then held back by the loop after it.  That is the other way in which the
sentence fails: phase coupling assumes that every candidate is promoted
(`GpuProfitability.cpp:600`), and one need not be.  `HostBetweenHeldBack` says
exactly what the scan does establish, for the accepted loops:
whatever is left on the host in between is such a candidate.

`HelpersGrouped` is about the exemption from suppression (`main.cpp:1108`), the
only place where the marks of `horizontalSubBatch` and `pipelinePhaseCouple` are
read: a small helper loop stays on the GPU only beside another GPU loop of its
own batch or pipeline.  It does not say that the two share a launch.

Divergences from comments of the driver, without a run of their own:

* "fuse consecutive small GPU loops sharing arrays into a single kernel launch"
  (`GpuProfitability.h:37-38`) and "mark them for single target-data region
  wrapping" (`GpuProfitability.h:41-42`): no generator reads the marks, and each
  loop gets a launch of its own; a loop of the group whose storage cannot be
  mapped gets no directive at all (`OpenMPCodeGen.cpp:64-74`);
* a host loop that a batch has passed over may touch arrays of loops that join
  the batch later, because it is compared with the arrays at that time only;
* a loop that is not canonical can be promoted ("Non-canonical loops cannot be
  safely parallelized.", `GpuProfitability.cpp:623`), and so can two nested
  loops of `init_array`; `NoNestedKernels` and `FormRespected` except promoted
  loops;
* `--cpu-only` emits GPU directives for compute loops of `init_array`, and
  `--cpu-forced` leaves a loop of fewer than 1000 iterations on the GPU if the
  cost model sent it there;
* "Every loop that reached this point has already passed the safety checks
  (dependence, divergence, call safety)" (`main.cpp:976-977`): divergence and
  canonical form are tested in `decideTarget` only, which two modes override;
* "Skip loops nested inside already-parallelized loops" (`main.cpp:888`) sees
  GPU loops only: a GPU loop inside a threaded one gets its directive;
* suppressed helper loops and loops that cannot be mapped are counted as
  parallelized; `helperNoOffload` (`main.cpp:884`) is not used.

### InterproceduralAnalysis

Passing:

| Run | Instance | Shows |
|---|---|---|
| `calls` | every call graph of four functions (the last without a self call); three functions, each declared only or with any callees, with or without output; up to three declarations of two user and two library names in any order, with bodies of every kind | `CyclesFound`, `EstimatesSettle`, `FirstDefinitionDecides`, `SideEffectsReachCallers` (the marks are exactly those by reachability), `SafeHasNoKnownEffects`, `VerdictsAgree` |

Four functions are enough for two components with an edge between them, a
cross edge to a completed component, and a path of length three above a cycle;
three declarations for a prototype before and after a definition, and for two
definitions.  Nothing else is bounded: the analysis runs to its end, and the
number of passes is checked against the number of functions, not capped.

Violation:

| Run | Sentence | What happens |
|---|---|---|
| `side_effect_free` | "guaranteed to be side-effect free" | an accepted call reaches an external or unresolved function, a static local, an element of a global array, or a pointer write of a callee's callee |

`side_effect_free` fails in several ways, and TLC shows one of them.  Each
conjunct of `SafeIsSideEffectFree` is refuted on its own: a caller of an
external function is safe because the external function has no effect to
propagate, although a direct call of it is rejected; an unresolved call leaves
no trace in the summary of its caller, although a direct one is rejected; an
indexed pointer write is left to the call site, where only the patterns of the
function called there are looked at; and only plain variables of global scope
count as global.  Without a run of its own: "the writes are per-iteration
disjoint" (`InterproceduralAnalysis.h:45-48`), although `p[i]` and `p[i + 1]`
have the same pattern.

### Fairness

`Fairness` of `Engine` is strong fairness of each thread's own steps.  A thread that is not
blocked is scheduled, and a thread that wants the mutex gets it if it is free
again and again (weak fairness would allow the mutex to starve a thread
whenever spurious wakeups keep others going).  No call is forced to happen and
no spurious wakeup is: a property never relies on luck.

`ThreadWorkers` has weak fairness of each worker thread (the functor
terminates) and of each user thread that is inside a call.  `PathNode` has
strong fairness of each worker's steps, because it competes for the locks of
nodes, and weak fairness of claiming a path and of a consumer's return.

Runs with `CHECK_DEADLOCK FALSE` are of systems that stop: the graph is worked
off, all paths are explored, the loop is analysed, the loops have their
directives.

## 5. Proofs

### Induction

Several properties speak about what a recursive function computes or about a
sum, for any number of functions, loops or sub-expressions.  The library's
induction theorems have an operator as a parameter, which the provers cannot
instantiate.  `WFMin` has none: a nonempty subset of a well-founded set has a
minimal member.  From it `Induction` derives induction over the naturals, over
an interval and over a rank (`NumberInduction`, `IntervalInduction`,
`RankedInduction`) with a *set* for the predicate, so that a proof cites them
with a set comprehension.  `IntervalRecursion` and `RankedRecursion` show that
a recursion to smaller arguments has a solution, which TLA+ does not grant of a
function defined by recursion: it is a `CHOOSE`, and satisfies its equation only
if some function does.  `SumType`, `SameSum` and `SumUnrolled` do the same for
`MapThenSumSet`.

### Engine

Assumptions: `ThreadsAssumption` (finitely many threads, workers and users
disjoint), `ForestAssumption` (finitely many paths, no path with two parents,
a starting point is no child) and `BoundsAssumption` (types).  Nothing bounds
the number of threads, paths or calls.

`EngineProofs` proves that `IndInv` is inductive.

* `ControlInv`: `TypeOK`, `CountersMatch`, and what makes them inductive: the
  `WorkerState` of a thread follows from where it is (`LabelStates`), a thread
  holds a path exactly between `takeNext` and `finishPath` (`PathHeld`),
  sections that keep the mutex hold it, and `stop()` joins only at capacity 0
  (`MutexHeld`), `stopping_` is up only during `stop()` (`StopFlag`), and
  threads that are not in `workers_` do not run (`WorkersKnown`).  The counters
  change by one while the number of threads in a state changes by one; without
  `LabelStates` nothing ties the two together.
* `ForestInv`: a path on the frontier or in a thread's hands was inserted,
  nobody shares one (`NoSharedWork`), the children still to be inserted are new
  (`TodoFresh`), and children appear only after their parent was executed
  (`ParentsFirst`).  They are needed for `WorkConserved`: a child inserted
  twice, or a path taken twice, would break the equation.

`LookedEmpty` (for `QuitCorrect`): if a worker that found the frontier empty and
still holds `mutex_` sees `nWorking_` at 0, only starting points are on the
frontier.  A thread that extends a path counts as working, and cannot stop
counting while the mutex is held.

There is one lemma per action.  TLC checked `IndInv` on the instance of
`rounds` before it was proved.

`FanoutInv` accounts for the two columns of the fanout table while threads are
between `execute` and `updateFanout`: the first one lacks one path for each such
thread, the second one the starting points and the children that these threads
have inserted so far.

| Theorem | Statement |
|---|---|
| `TypeCorrect`, `CountersCorrect`, `InProgressCorrect`, `ResetCorrect` | `Spec => []P` for `TypeOK`, `CountersMatch`, `InProgressListed`, `ResetAssertions` |
| `WorkConservedHolds`, `NoSharedWorkHolds` | `Spec => []P` |
| `FanoutCorrect` | `Spec => []FanoutAccounts` |
| `QuitCorrect` | a worker leaves on its own only when no thread has or will have children to insert, and the frontier holds at most starting points inserted after its look |
| `StopCorrect` | `stop()` returns from an empty engine |
| `ChangeStateCorrect` | no assertion of `changeStateNS` fails |
| `Refinement` | `Spec => Forest!Spec`: `Claim`, `InsertWork`, `FinishPath`, `InsertStartingPoint`/`UserInsertWork`, `Reset` are the abstract `Claim`, `Discover`, `Complete`, `Submit`, `Clear`; all other steps stutter |

Only model-checked: the liveness properties (fairness is out of the prover's
reach) and the violations.

### InterproceduralAnalysis

Assumptions: `NamesAssumption` (finitely many names, the two library lists
disjoint) and `ProjectsAssumption` (types).  Projects and call graphs are
arbitrary.

* `TypeCorrect` needs `NodesKnown`: the functions on `stack` and in `frames`
  have summaries, hence so have those marked recursive.
* `FirstDefinitionCorrect` rests on `DeclInv`: the summaries stand for the
  declarations seen so far, and one with a definition stems from a declaration
  that has one; that is why a later definition cannot replace the first.
* `SideEffectsCorrect` rests on `EffectInv`.  While the worklist is worked off,
  a marked function has a reason (`Bad`), and the callers of a marked or
  recursive function are marked once it has left the worklist.  When the
  worklist is empty, the functions that are neither marked nor recursive call
  only each other, so they are closed under reachability and none has a reason.
* `SafeCorrect` and `VerdictsCorrect` follow: an unmarked function reaches
  nothing unsafe, and one with a global write is marked, which is why
  `isFunctionSafe` need not test `hasGlobalWrites`.

* `CyclesCorrect` (`Spec => []CyclesFound`) rests on `CycleInv`.  A function is
  complete once it has left the stack.  The stack falls into segments, one for
  each activation of `dfsSCC`: its function and those after it up to the next
  activation's.  The functions of a segment reach one another; the low link of
  an activation is a lower bound for the calls from its segment back into the
  stack, and the index of a function that it reaches; and what a complete
  function calls is complete.  So when an activation ends with its low link at
  its own index, nothing from there on calls anything before it: the functions
  popped are exactly those that reach one another, and they are on a cycle if
  there are two of them or the only one calls itself.
* `EstimatesCorrect` (`Spec => []EstimatesSettle`) rests on `EstimateInv`.  The
  functions that are not recursive form a graph without cycles, which is where
  `CyclesCorrect` is needed.  At any time a set of them is settled: their
  estimates are the final ones, and so are those of all they count.  A pass that
  changes an estimate settles at least one more, namely a function not settled
  whose callees all are.  So there are at most as many such passes as functions,
  and one that changes nothing.

The proofs about side effects hold for any set of functions marked recursive,
so they do not rest on `dfsSCC`.  Only model-checked: the violation.

### PathNode

Assumptions: `TreeAssumption` (types, `nextUnits` leads from a node to its
children, no starting point begins another) and `ThreadsAssumption` (workers
and consumers are different threads).  The number of nodes, workers and
consumers is arbitrary.

`IndInv` is the conjunction of `TypeOK` and

* `PathInv`: pending, active and explored paths are disjoint, and every busy
  worker has an active path of its own;
* `FrameInv`: the activations of `execute` lead from the end of a path towards
  its beginning and, but for the first, avoid the nodes at which paths end;
* `LockInv`: a node whose execution is going on is locked by its thread and has
  no state yet;
* `NodeInv`: what a node can have been through, in particular that an executed
  node in the beginning of a path keeps its state or has failed;
* `IncomingInv`: an incoming state comes from the parent, after its worker has
  stopped changing it;
* `OwnerInv`: what the worker on a path knows about the node at its end.

The assertions speak about the node at the end of a worker's path only.  They
hold because the recursion into parents never meets such a node of another
worker: the parent of a path's end is explored and has given its state away, or
it is a beginning that nobody borrows from.  `FrameInv` and `IncomingInv` carry
that.

| Theorem | Statement |
|---|---|
| `IndInvHolds`, `TypeCorrect` | the invariant and the types |
| `AssertionsHold` | the assertions about lent states never fail |
| `ExecutionOnce`, `FailuresExplained` | a node is executed once, and fails for want of a state only after its parent |
| `BorrowingExclusive`, `ExploredReleased` | no sharing of a lent state; no state is left behind |

Only model-checked: `AllExplored`.

### ThreadWorkers

Assumptions: `GraphsAssumption` (finite set of tasks, edges between vertices of
the graph) and `RequestsAssumption`.  Graphs, threads and calls are arbitrary.

`IndInv` is the conjunction of

* `ControlInv`: types, which threads exist, and that a thread that waits has
  seen the end of every worker it has passed;
* `GraphInv`: the tasks started and not finished are those in the hands of the
  workers, the edges left are those to unfinished tasks, and the tasks without
  edges left are exactly those queued or started;
* `CountInv`: the counters are the cardinalities of these sets;
* `EndInv`: once a worker has ended, nothing is queued or running;
* `QueuedOnceAndReady`, and `SleepersNotNeeded`: while a worker sleeps, at least
  as many others are about to look for work as there are tasks queued, and the
  work is not over.  It is inductive because a worker that makes tasks ready
  wakes one sleeper for each but the one it takes itself, or all of them.

| Theorem | Statement |
|---|---|
| `IndInvHolds`, `TypeCorrect` | the invariant and the types |
| `QueueCorrect` | a task is queued at most once, and only when it is ready |
| `NotificationsSuffice` | `SleepersNotNeeded`: the notification rules suffice |
| `EndCorrect` | workers end only when nothing can be started any more |
| `Refinement` | `Spec => ` the specification of `TaskOrder`: once, in order, cycles reported exactly |

Only model-checked: `WorkCompletes`, `WaitReturns`, and the violation.

### Driver

Assumption: `InputAssumption` (types of shapes, facts and options, outer loops
first).  The number of loops, the nests, the facts and the thresholds are
arbitrary.

`IndInv` is `TypeOK`, `EntriesOK` (an accepted loop was let through by the
filters and lies in no selected loop, and its GPU target comes from the cost
model or from phase coupling), `EntriesDistinct`, `DirectivesKnown` (a directive
stems from an accepted loop that was not sequential) and `HistoryOK` (nothing is
promoted or generated before its phase).

| Theorem | Statement |
|---|---|
| `TypeCorrect`, `DirectivesSafeHolds`, `NoNestedKernelsHolds`, `HostBetweenHeldBackHolds`, `CountsAgreeHolds`, `HelpersGroupedHolds` | `Spec => []P` |
| `FormRespectedHolds` | outside the two modes that bypass the cost model, a loop with a directive is canonical, and a GPU loop uniform, unless it was promoted |

`CountInv` (for `CountsAgreeHolds`) says, phase by phase, where each loop has
been counted: examined loops are skipped or accepted, and an entry that code
generation has passed is parallelized or an `init_array` loop left alone.
`HostBetweenHeldBackHolds` needs no more than `IndInv`: only one step can falsify
it (`CouplingStep`).  A candidate that stays on the host while another loop is
promoted was not promoted itself, so its scan up to its first consumer met a
loop that is neither on the GPU nor a candidate, and that loop stays on the host
too.  `GroupInv` (for `HelpersGroupedHolds`) says that an entry with a leader has
a partner on the GPU with the same leader, and that after the suppression a
small helper loop on the GPU has a leader.  It rests on what the recursive scans
of `horizontalSubBatch` and `pipelinePhaseCouple` find, by induction over the
positions: a batch has a first and a last loop, both on the GPU and different
(`BatchesWhole`), and loops that are joined have the same head (`HeadsJoin`).
Only model-checked: the violation.

### LoopDependence

Assumptions: `LoopsAssumption` (the index variables are different, types of
loops), `ExpressionsAssumption` (expressions are well formed and finite) and
`RangesAssumption` (values are integers).  Expressions, loops, dimensions and
the number of references are arbitrary.

* `GcdUnfolds`, `ExtractUnfolds`, `MentionedUnfolds`, `ValueUnfolds` and
  `SelectedUnfolds`: the recursive functions satisfy their equations.
* `AffineValue`: a subscript that is affine and mentions the loop variable only
  has the value *coefficient \* i + constant* in iteration *i*, by induction
  over its height.  `Product` is where it could fail: it accepts a factor of
  the loop variable alone.
* `GcdDivides` and `GcdCombines` (by induction over the second argument): `gcd`
  divides its arguments and is a combination of them.  So `GcdTestComplete`:
  two subscripts that meet pass the test; and `GcdTestSound`: two different
  subscripts that pass it meet in two different iterations.
* `CollectedFacts`: every reference of the body is collected once, so two of
  them are at two places and are compared in one order or the other.
* `ComparedInv`, the inductive invariant: `TypeOK`, the references are those of
  the body, no pair before the next one depends, and at the end the result is a
  dependence exactly if some write is repeated by a nested loop or some pair
  depends (`Independent`).  TLC checked it on the instance of `exact`.

| Theorem | Statement |
|---|---|
| `TypeCorrect` | `Spec => []TypeOK` |
| `SafeCorrect` | `Spec => []SafeIfAnchored` |
| `RejectedCorrect` | `Spec => []RejectedIfConflict` if `Iterations` is `Int` and `Values` is not empty |

The hypothesis of `RejectedCorrect` is not an assumption of the module: the
analysis does not look at loop bounds, and within a small window two colliding
iterations may be missing.  For the window of `exact`, TLC checks the property.
Only model-checked: the violation.

The type invariants of the modules with proofs (but for `LoopDependence`, whose
run checks it), `InProgressListed` and `FormRespected` are invariants that the
proofs establish for all instances; no run repeats them.

## 6. Not modelled

`PROJECT.json` lists every part with its status and the reason.  Nearly all of
the 1.6 million lines of the repository are ROSE itself: the generated classes
of the AST, frontends for a dozen languages, unparsers, sequential compiler
passes, third-party code.  They keep no protocol or concurrent state that a
model checker would reach, and a model of them would be a transliteration of
tree walks.  So the share of the repository that the models cover stays small,
although they cover most of the control of the parts named above.

In those parts the following is left out: instruction semantics and SMT
solving, printing and debugging aids; in loomX fusion, inlining and
devirtualization, canonical form, reduction and divergence analyses (facts that
`Driver` takes as inputs), the floating-point estimates of the cost model, the
text of directives and kernels, and the post-processing of output files.
