------------------------------- MODULE Engine -------------------------------
(***************************************************************************)
(* The work distribution of Rose::BinaryAnalysis::ModelChecker::Engine.    *)
(*                                                                         *)
(* Managed worker threads (Engine::worker) and user threads (callers of    *)
(* run, step, stop, reset, takeNextInteresting, ...) share two queues of   *)
(* paths, a set of counters, one mutex and two condition variables.  One   *)
(* action is one section of code that runs with mutex_ held, or one access *)
(* to a PathQueue, which has a mutex of its own, or one notification sent  *)
(* without the mutex.  A path is a member of Paths; the paths that         *)
(* semantics_->nextUnits makes of p are Children[p].  The user supplied    *)
(* prioritizers and predicates are nondeterministic choices.               *)
(***************************************************************************)
EXTENDS Integers, FiniteSets

CONSTANTS
  Workers,    \* threads that startWorkers can create
  Users,      \* threads of the program that uses the engine
  Paths,      \* the paths of the execution forest
  Roots,      \* the starting points
  Children,   \* Children[p]: the paths that extend p by one execution unit
  Hardware,   \* hardware_concurrency(), or 4 when that is unknown (0)
  Calls,      \* Calls[u]: the API calls that user thread u may make
  MaxCalls,   \* bound: MaxCalls[u] is how many calls user thread u makes
  Spurious,   \* whether a condition variable may wake without a notify
  NoPath,     \* the null Path::Ptr
  NoThread    \* mutex_ is free

Threads == Workers \cup Users

CallNames == {"insertStartingPoint", "insertWork", "startWorkers",
              "startWorkers0", "run", "step", "stop", "reset",
              "takeNextInteresting"}

ASSUME ThreadsAssumption ==
  /\ IsFiniteSet(Workers) /\ IsFiniteSet(Users)
  /\ Workers \cap Users = {}
  /\ NoThread \notin Threads

(***************************************************************************)
(* The paths form a forest: no path has two parents and a starting point   *)
(* has none (Path::instance makes a new object for every child).           *)
(***************************************************************************)
ASSUME ForestAssumption ==
  /\ IsFiniteSet(Paths)
  /\ NoPath \notin Paths
  /\ Roots \subseteq Paths
  /\ Children \in [Paths -> SUBSET Paths]
  /\ \A p \in Paths : Children[p] \cap Roots = {}
  /\ \A p, q \in Paths : p # q => Children[p] \cap Children[q] = {}

ASSUME BoundsAssumption ==
  /\ Hardware \in Nat \ {0}
  /\ MaxCalls \in [Users -> Nat]
  /\ Spurious \in BOOLEAN
  /\ Calls \in [Users -> SUBSET CallNames]

VARIABLES
  frontier_,        \* paths with work remaining
  interesting_,     \* results not yet taken
  inProgress_,      \* path recorded for each thread, or NoPath
  workers_,         \* managed threads not yet joined
  workCapacity_,    \* managed workers plus stepping user threads
  nWorking_,        \* threads that hold a path
  stopping_,        \* stop() has asked the workers to quit
  nPathsExplored_,  \* paths executed
  fanout_,          \* sums over all levels: nodes seen, children seen
  nFanoutRoots_,    \* root nodes seen by updateFanout
  mutex_,           \* holder between two actions of one locked section
  newWork_,         \* threads blocked on this condition variable
  newInteresting_,  \* threads blocked on this condition variable
  pc,               \* where each thread is
  state,            \* the WorkerState local of worker() and step()
  cur,              \* the path a thread works on
  todo,             \* children that extend() has still to insert
  resume,           \* where a user thread goes when step() returns
  calls,            \* API calls made so far by each user thread
  inserted          \* history: paths put on the frontier since a reset

queueVars   == <<frontier_, interesting_, inserted>>
counterVars == <<workCapacity_, nWorking_, state>>
statVars    == <<nPathsExplored_, fanout_, nFanoutRoots_>>
cvVars      == <<newWork_, newInteresting_>>
stopVars    == <<workers_, stopping_, mutex_>>
localVars   == <<cur, todo, inProgress_>>
callVars    == <<resume, calls>>

vars == <<queueVars, counterVars, statVars, cvVars, stopVars, localVars,
          callVars, pc>>

WorkerState == {"STARTING", "WAITING", "WORKING", "FINISHED"}

StepLabels   == {"execute", "mark", "notifyMark", "extend", "notifyWork",
                 "finishPath"}
WorkerLabels == StepLabels \cup {"off", "born", "take", "takeEmpty", "relax",
                                 "quit", "exited"}
UserLabels   == StepLabels \cup {"idle", "run", "runCapacity", "runWait",
                                 "step", "takeNow", "finish", "stopTest",
                                 "join", "takeResult", "resultEmpty"}

Init ==
  /\ frontier_ = {} /\ interesting_ = {} /\ inserted = {}
  /\ inProgress_ = [t \in Threads |-> NoPath]
  /\ workers_ = {} /\ stopping_ = FALSE /\ mutex_ = NoThread
  /\ workCapacity_ = 0 /\ nWorking_ = 0
  /\ nPathsExplored_ = 0 /\ nFanoutRoots_ = 0
  /\ fanout_ = [nodes |-> 0, children |-> 0]
  /\ newWork_ = {} /\ newInteresting_ = {}
  /\ pc = [t \in Threads |-> IF t \in Workers THEN "off" ELSE "idle"]
  /\ state = [t \in Threads |-> "FINISHED"]
  /\ cur = [t \in Threads |-> NoPath]
  /\ todo = [t \in Threads |-> {}]
  /\ resume = [u \in Users |-> "idle"]
  /\ calls = [u \in Users |-> 0]

-----------------------------------------------------------------------------
(***************************************************************************)
(* Threads, the mutex and the condition variables.                         *)
(***************************************************************************)

\* Thread t has reached label l and is not blocked on a condition variable.
At(t, l) == pc[t] = l /\ t \notin newWork_ \cup newInteresting_

\* Thread t enters, at label l, a section that mutex_ protects.
LockAt(t, l) == At(t, l) /\ mutex_ = NoThread

Goto(t, l) == pc' = [pc EXCEPT ![t] = l]

\* notify_one: some waiting thread is released, if there is one.
NotifyOne(cv) == IF cv = {} THEN {cv} ELSE {cv \ {t} : t \in cv}

-----------------------------------------------------------------------------
(***************************************************************************)
(* Worker states.                                                          *)
(***************************************************************************)

\* Mutant: WORKING to FINISHED, which only step() does, forgets nWorking_.
ChangeStateNS_FinishForgetsWork(t, next) ==
  /\ state' = [state EXCEPT ![t] = next]
  /\ workCapacity_' = workCapacity_ + (IF next = "STARTING" THEN 1 ELSE 0)
                                    - (IF next = "FINISHED" THEN 1 ELSE 0)
  /\ nWorking_' =
       nWorking_ + (IF next = "WORKING" THEN 1 ELSE 0)
         - (IF next = "WAITING" /\ state[t] = "WORKING" THEN 1 ELSE 0)

\* changeStateNS: the counters follow the thread's state.  A thread that has
\* not started, or is not inside step(), has no state: it counts as FINISHED.
ChangeStateNS(t, next) ==
  /\ state' = [state EXCEPT ![t] = next]
  /\ workCapacity_' = workCapacity_ + (IF next = "STARTING" THEN 1 ELSE 0)
                                    - (IF next = "FINISHED" THEN 1 ELSE 0)
  /\ nWorking_' = nWorking_ + (IF next = "WORKING" THEN 1 ELSE 0)
                            - (IF state[t] = "WORKING" THEN 1 ELSE 0)

\* Mutant: leaving the engine does not wake the threads that wait for work.
FinishWorkingNS_NoWorkNotice(t) ==
  /\ ChangeStateNS(t, "FINISHED")
  /\ newInteresting_' = {}
  /\ UNCHANGED newWork_

\* Mutant: leaving the engine does not wake the threads that wait for results.
FinishWorkingNS_NoResultNotice(t) ==
  /\ ChangeStateNS(t, "FINISHED")
  /\ newWork_' = {}
  /\ UNCHANGED newInteresting_

\* finishWorkingNS: leaving the engine wakes everybody.
FinishWorkingNS(t) ==
  /\ ChangeStateNS(t, "FINISHED")
  /\ newWork_' = {}
  /\ newInteresting_' = {}

-----------------------------------------------------------------------------
(***************************************************************************)
(* One step of work: takeNextWorkItem, doOneStep, finishPath.              *)
(***************************************************************************)

\* Mutant: takeNext looks at the best path without removing it.
Claim_Peeks(t) ==
  \E p \in frontier_ :
    /\ ChangeStateNS(t, "WORKING")
    /\ inProgress_' = [inProgress_ EXCEPT ![t] = p]
    /\ cur' = [cur EXCEPT ![t] = p]
    /\ Goto(t, "execute")
    /\ UNCHANGED <<frontier_, interesting_, inserted, todo>>

\* The thread becomes the worker of a path of the frontier.  The prioritizer
\* is the user's, so the path is any of them.
Claim(t) ==
  \E p \in frontier_ :
    /\ frontier_' = frontier_ \ {p}
    /\ ChangeStateNS(t, "WORKING")
    /\ inProgress_' = [inProgress_ EXCEPT ![t] = p]
    /\ cur' = [cur EXCEPT ![t] = p]
    /\ Goto(t, "execute")
    /\ UNCHANGED <<interesting_, inserted, todo>>

WorkerReady(w) ==
  /\ LockAt(w, "born")
  /\ ChangeStateNS(w, "WAITING")
  /\ Goto(w, "take")
  /\ UNCHANGED <<queueVars, statVars, cvVars, stopVars, localVars, callVars>>

\* takeNextWorkItem as far as frontier_.takeNext().
TakeNextWorkItem(w) ==
  /\ LockAt(w, "take")
  /\ UNCHANGED <<statVars, cvVars, callVars, workers_, stopping_>>
  /\ \/ /\ stopping_
        /\ Goto(w, "quit")
        /\ UNCHANGED <<queueVars, counterVars, localVars, mutex_>>
     \/ /\ ~stopping_
        /\ Claim(w)
        /\ UNCHANGED mutex_
     \/ /\ ~stopping_
        /\ frontier_ = {}
        /\ mutex_' = w
        /\ Goto(w, "takeEmpty")
        /\ UNCHANGED <<queueVars, counterVars, localVars>>

\* Mutant: an empty frontier is taken for the end of all work.
TakeNextWorkItemWait_IgnoresOthers(w) ==
  /\ At(w, "takeEmpty")
  /\ mutex_' = NoThread
  /\ Goto(w, "quit")
  /\ UNCHANGED <<queueVars, counterVars, statVars, cvVars, workers_,
                 stopping_, localVars, callVars>>

\* takeNextWorkItem, still locked, after it found the frontier empty.  Other
\* threads insert and notify without mutex_, so they can do so in between.
TakeNextWorkItemWait(w) ==
  /\ At(w, "takeEmpty")
  /\ mutex_' = NoThread
  /\ \/ /\ nWorking_ = 0
        /\ Goto(w, "quit")
        /\ UNCHANGED newWork_
     \/ /\ nWorking_ > 0
        /\ newWork_' = newWork_ \cup {w}
        /\ Goto(w, "take")
  /\ UNCHANGED <<queueVars, counterVars, statVars, newInteresting_, workers_,
                 stopping_, localVars, callVars>>

\* execute: the counters, then the node itself, which may be skipped or fail.
Execute(t) ==
  /\ LockAt(t, "execute")
  /\ nPathsExplored_' = nPathsExplored_ + 1
  /\ \E next \in {{}, Children[cur[t]]} : todo' = [todo EXCEPT ![t] = next]
  /\ Goto(t, "mark")
  /\ UNCHANGED <<queueVars, counterVars, cvVars, stopVars, callVars, cur,
                 inProgress_, fanout_, nFanoutRoots_>>

\* insertInteresting as far as interesting_.insert; the predicate decides.
InsertInteresting(t) ==
  /\ At(t, "mark")
  /\ \/ /\ interesting_' = interesting_ \cup {cur[t]}
        /\ Goto(t, "notifyMark")
     \/ /\ Goto(t, "extend")
        /\ UNCHANGED interesting_
  /\ UNCHANGED <<frontier_, inserted, counterVars, statVars, cvVars, stopVars,
                 localVars, callVars>>

NotifyInteresting(t) ==
  /\ At(t, "notifyMark")
  /\ newInteresting_' \in NotifyOne(newInteresting_)
  /\ Goto(t, "extend")
  /\ UNCHANGED <<queueVars, counterVars, statVars, newWork_, stopVars,
                 localVars, callVars>>

\* extend, one iteration: insertWork as far as frontier_.insert.
InsertWork(t) ==
  /\ At(t, "extend")
  /\ \E c \in todo[t] :
       /\ todo' = [todo EXCEPT ![t] = @ \ {c}]
       /\ \/ /\ frontier_' = frontier_ \cup {c}
             /\ inserted' = inserted \cup {c}
             /\ Goto(t, "notifyWork")
          \/ UNCHANGED <<frontier_, inserted, pc>>
  /\ UNCHANGED <<interesting_, counterVars, statVars, cvVars, stopVars, cur,
                 inProgress_, callVars>>

\* insertWork's notification: back to extend, or to the user who called it.
NotifyWork(t) ==
  /\ At(t, "notifyWork")
  /\ newWork_' \in NotifyOne(newWork_)
  /\ Goto(t, IF cur[t] = NoPath THEN "idle" ELSE "extend")
  /\ UNCHANGED <<queueVars, counterVars, statVars, newInteresting_, stopVars,
                 localVars, callVars>>

\* Mutant: a path that was not extended is not counted.
UpdateFanout_SkipsLeaves(t) ==
  /\ LockAt(t, "extend")
  /\ todo[t] = {}
  /\ LET n == Cardinality(Children[cur[t]] \cap inserted)
     IN fanout_' = [nodes |-> fanout_.nodes + (IF n = 0 THEN 0 ELSE 1),
                    children |-> fanout_.children + n]
  /\ nFanoutRoots_' = nFanoutRoots_ + (IF cur[t] \in Roots THEN 1 ELSE 0)
  /\ Goto(t, IF t \in Workers THEN "relax" ELSE "finishPath")
  /\ UNCHANGED <<queueVars, counterVars, nPathsExplored_, cvVars, stopVars,
                 localVars, callVars>>

\* The end of extend: updateFanout.  Only t inserts children of cur[t].
UpdateFanout(t) ==
  /\ LockAt(t, "extend")
  /\ todo[t] = {}
  /\ fanout_' = [nodes |-> fanout_.nodes + 1,
                 children |-> fanout_.children
                                + Cardinality(Children[cur[t]] \cap inserted)]
  /\ nFanoutRoots_' = nFanoutRoots_ + (IF cur[t] \in Roots THEN 1 ELSE 0)
  /\ Goto(t, IF t \in Workers THEN "relax" ELSE "finishPath")
  /\ UNCHANGED <<queueVars, counterVars, nPathsExplored_, cvVars, stopVars,
                 localVars, callVars>>

\* worker(), after doOneStep: WORKING to WAITING, without a notification.
Relax(w) ==
  /\ LockAt(w, "relax")
  /\ ChangeStateNS(w, "WAITING")
  /\ Goto(w, "finishPath")
  /\ UNCHANGED <<queueVars, statVars, cvVars, stopVars, localVars, callVars>>

\* finishPath(), a scope exit of both callers: the path is no longer in progress.
FinishPath(t) ==
  /\ LockAt(t, "finishPath")
  /\ inProgress_' = [inProgress_ EXCEPT ![t] = NoPath]
  /\ cur' = [cur EXCEPT ![t] = NoPath]
  /\ Goto(t, IF t \in Workers THEN "take" ELSE "finish")
  /\ UNCHANGED <<queueVars, counterVars, statVars, cvVars, stopVars, todo,
                 callVars>>

\* The scope exit of worker().
Quit(w) ==
  /\ LockAt(w, "quit")
  /\ FinishWorkingNS(w)
  /\ Goto(w, "exited")
  /\ UNCHANGED <<queueVars, statVars, stopVars, localVars, callVars>>

-----------------------------------------------------------------------------
(***************************************************************************)
(* The calls of a user thread.                                             *)
(***************************************************************************)

\* User thread u makes an API call; the program decides which.
Begin(u, call) ==
  /\ pc[u] = "idle"
  /\ call \in Calls[u]
  /\ calls[u] < MaxCalls[u]
  /\ calls' = [calls EXCEPT ![u] = @ + 1]

\* insertStartingPoint.  "no starting point should be inserted more than once"
InsertStartingPoint(u) ==
  /\ Begin(u, "insertStartingPoint")
  /\ mutex_ = NoThread
  /\ \E r \in Roots \ inserted :
       \/ /\ frontier_' = frontier_ \cup {r}
          /\ inserted' = inserted \cup {r}
          /\ newWork_' = {}
       \/ UNCHANGED <<frontier_, inserted, newWork_>>
  /\ UNCHANGED <<interesting_, counterVars, statVars, newInteresting_,
                 stopVars, localVars, resume, pc>>

\* insertWork called by the user's own code: no mutex, and notify_one.
UserInsertWork(u) ==
  /\ Begin(u, "insertWork")
  /\ \E r \in Roots \ inserted :
       /\ frontier_' = frontier_ \cup {r}
       /\ inserted' = inserted \cup {r}
  /\ Goto(u, "notifyWork")
  /\ UNCHANGED <<interesting_, counterVars, statVars, cvVars, stopVars,
                 localVars, resume>>

\* Mutant: the new threads are left to count themselves.
Spawn_NotCounted(new) ==
  /\ workers_' = workers_ \cup new
  /\ state' = [t \in Threads |-> IF t \in new THEN "STARTING" ELSE state[t]]
  /\ pc' = [t \in Threads |-> IF t \in new THEN "born" ELSE pc[t]]
  /\ UNCHANGED <<nWorking_, workCapacity_>>

\* The loop of startWorkers that creates the threads in new.
Spawn(new) ==
  /\ workers_' = workers_ \cup new
  /\ workCapacity_' = workCapacity_ + Cardinality(new)
  /\ state' = [t \in Threads |-> IF t \in new THEN "STARTING" ELSE state[t]]
  /\ pc' = [t \in Threads |-> IF t \in new THEN "born" ELSE pc[t]]
  /\ UNCHANGED nWorking_

\* How many workers startWorkers(0) creates: the rest of the hardware.
HardwareRest == IF Hardware > Cardinality(workers_)
                THEN Hardware - Cardinality(workers_) ELSE 0

StartWorkers(u) ==
  /\ \E new \in SUBSET (Workers \ workers_) :
       /\ \/ Begin(u, "startWorkers") /\ new # {}
          \/ Begin(u, "startWorkers0") /\ Cardinality(new) = HardwareRest
       /\ mutex_ = NoThread
       /\ Spawn(new)
  /\ UNCHANGED <<queueVars, statVars, cvVars, mutex_, stopping_, localVars,
                 resume>>

\* run(), step(), takeNextInteresting(): the first thing they do is to lock.
Call(u) ==
  /\ \/ Begin(u, "run") /\ Goto(u, "run")
     \/ Begin(u, "step") /\ Goto(u, "step")
     \/ Begin(u, "takeNextInteresting") /\ Goto(u, "takeResult")
  /\ resume' = [resume EXCEPT ![u] = "idle"]
  /\ UNCHANGED <<queueVars, counterVars, statVars, cvVars, stopVars,
                 localVars>>

\* run(): the loop condition, workRemains().
RunTest(u) ==
  /\ LockAt(u, "run")
  /\ Goto(u, IF frontier_ # {} \/ nWorking_ > 0 THEN "runCapacity" ELSE "idle")
  /\ UNCHANGED <<queueVars, counterVars, statVars, cvVars, stopVars,
                 localVars, callVars>>

\* run(): 0 == workCapacity(), after the lock was released and taken again.
RunCapacity(u) ==
  /\ LockAt(u, "runCapacity")
  /\ IF workCapacity_ = 0
     THEN /\ Goto(u, "step")
          /\ resume' = [resume EXCEPT ![u] = "run"]
     ELSE /\ Goto(u, "runWait")
          /\ UNCHANGED resume
  /\ UNCHANGED <<queueVars, counterVars, statVars, cvVars, stopVars,
                 localVars, calls>>

\* run(): newWork_.wait, which tests nothing again before it blocks.
RunWait(u) ==
  /\ LockAt(u, "runWait")
  /\ newWork_' = newWork_ \cup {u}
  /\ Goto(u, "run")
  /\ UNCHANGED <<queueVars, counterVars, statVars, newInteresting_, stopVars,
                 localVars, callVars>>

StepStart(u) ==
  /\ LockAt(u, "step")
  /\ ChangeStateNS(u, "STARTING")
  /\ Goto(u, "takeNow")
  /\ UNCHANGED <<queueVars, statVars, cvVars, stopVars, localVars, callVars>>

TakeNextWorkItemNow(u) ==
  /\ LockAt(u, "takeNow")
  /\ UNCHANGED <<statVars, cvVars, stopVars, callVars>>
  /\ \/ /\ ~stopping_
        /\ Claim(u)
     \/ /\ stopping_ \/ frontier_ = {}
        /\ Goto(u, "finish")
        /\ UNCHANGED <<queueVars, counterVars, localVars>>

\* The scope exit of step().
StepFinish(u) ==
  /\ LockAt(u, "finish")
  /\ FinishWorkingNS(u)
  /\ Goto(u, resume[u])
  /\ UNCHANGED <<queueVars, statVars, stopVars, localVars, callVars>>

Stop(u) ==
  /\ Begin(u, "stop")
  /\ mutex_ = NoThread
  /\ mutex_' = u
  /\ stopping_' = TRUE
  /\ newWork_' = {}
  /\ Goto(u, "stopTest")
  /\ UNCHANGED <<queueVars, counterVars, statVars, newInteresting_, workers_,
                 localVars, resume>>

\* Mutant: stop() gives the mutex back before it joins the workers.
StopTest_UnlocksToJoin(u) ==
  /\ At(u, "stopTest")
  /\ mutex_ \in {NoThread, u}
  /\ mutex_' = NoThread
  /\ IF workCapacity_ > 0
     THEN /\ newWork_' = newWork_ \cup {u}
          /\ UNCHANGED pc
     ELSE /\ Goto(u, "join")
          /\ UNCHANGED newWork_
  /\ UNCHANGED <<queueVars, counterVars, statVars, newInteresting_, workers_,
                 stopping_, localVars, callVars>>

\* stop(): while (workCapacity_ > 0) newWork_.wait(lock)
StopTest(u) ==
  /\ At(u, "stopTest")
  /\ mutex_ \in {NoThread, u}
  /\ IF workCapacity_ > 0
     THEN /\ newWork_' = newWork_ \cup {u}
          /\ mutex_' = NoThread
          /\ UNCHANGED pc
     ELSE /\ mutex_' = u
          /\ Goto(u, "join")
          /\ UNCHANGED newWork_
  /\ UNCHANGED <<queueVars, counterVars, statVars, newInteresting_, workers_,
                 stopping_, localVars, callVars>>

\* Mutant: stop() leaves its request behind.
StopJoin_StaysStopped(u) ==
  /\ At(u, "join")
  /\ \A w \in workers_ : pc[w] = "exited"
  /\ workers_' = {}
  /\ inProgress_' = [t \in Threads |-> NoPath]
  /\ mutex_' = NoThread
  /\ Goto(u, "idle")
  /\ UNCHANGED <<queueVars, counterVars, statVars, cvVars, cur, todo,
                 stopping_, callVars>>

\* Mutant: stop() also empties the frontier.
StopJoin_DropsWork(u) ==
  /\ At(u, "join")
  /\ \A w \in workers_ : pc[w] = "exited"
  /\ frontier_' = {}
  /\ workers_' = {}
  /\ inProgress_' = [t \in Threads |-> NoPath]
  /\ stopping_' = FALSE
  /\ mutex_' = NoThread
  /\ Goto(u, "idle")
  /\ UNCHANGED <<interesting_, inserted, counterVars, statVars, cvVars, cur,
                 todo, callVars>>

\* stop(): the joins, with mutex_ held, and the end of the function.
StopJoin(u) ==
  /\ At(u, "join")
  /\ \A w \in workers_ : pc[w] = "exited"
  /\ workers_' = {}
  /\ inProgress_' = [t \in Threads |-> NoPath]
  /\ stopping_' = FALSE
  /\ mutex_' = NoThread
  /\ Goto(u, "idle")
  /\ UNCHANGED <<queueVars, counterVars, statVars, cvVars, cur, todo, callVars>>

\* Every user thread is outside the engine and every worker thread has ended:
\* when reset(), which is not thread safe, has joined the workers.
Quiescent == /\ \A u \in Users : pc[u] = "idle"
             /\ \A w \in workers_ : pc[w] = "exited"

\* reset() leaves nFanoutRoots_ alone.
Reset(u) ==
  /\ Begin(u, "reset")
  /\ Quiescent
  /\ workers_' = {}
  /\ nPathsExplored_' = 0
  /\ fanout_' = [nodes |-> 0, children |-> 0]
  /\ frontier_' = {}
  /\ interesting_' = {}
  /\ inserted' = {}
  /\ inProgress_' = [t \in Threads |-> NoPath]
  /\ UNCHANGED <<counterVars, nFanoutRoots_, cvVars, mutex_, stopping_, cur,
                 todo, resume, pc>>

\* takeNextInteresting as far as interesting_.takeNext().
TakeNextInteresting(u) ==
  /\ LockAt(u, "takeResult")
  /\ \/ /\ \E p \in interesting_ : interesting_' = interesting_ \ {p}
        /\ Goto(u, "idle")
        /\ UNCHANGED mutex_
     \/ /\ interesting_ = {}
        /\ mutex_' = u
        /\ Goto(u, "resultEmpty")
        /\ UNCHANGED interesting_
  /\ UNCHANGED <<frontier_, inserted, counterVars, statVars, cvVars, workers_,
                 stopping_, localVars, callVars>>

\* takeNextInteresting, still locked, after it found the queue empty.
TakeNextInterestingWait(u) ==
  /\ At(u, "resultEmpty")
  /\ mutex_' = NoThread
  /\ \/ /\ workCapacity_ = 0
        /\ Goto(u, "idle")
        /\ UNCHANGED newInteresting_
     \/ /\ workCapacity_ > 0
        /\ newInteresting_' = newInteresting_ \cup {u}
        /\ Goto(u, "takeResult")
  /\ UNCHANGED <<queueVars, counterVars, statVars, newWork_, workers_,
                 stopping_, localVars, callVars>>

-----------------------------------------------------------------------------
\* A condition variable may release a waiting thread for no reason.
SpuriousWakeup(t) ==
  /\ Spurious
  /\ t \in newWork_ \cup newInteresting_
  /\ newWork_' = newWork_ \ {t}
  /\ newInteresting_' = newInteresting_ \ {t}
  /\ UNCHANGED <<queueVars, counterVars, statVars, stopVars, localVars,
                 callVars, pc>>

\* What a thread does once it is inside the engine.
DoOneStep(t) ==
  \/ Execute(t) \/ InsertInteresting(t) \/ NotifyInteresting(t)
  \/ InsertWork(t) \/ NotifyWork(t) \/ UpdateFanout(t) \/ FinishPath(t)

WorkerStep(w) ==
  \/ WorkerReady(w) \/ TakeNextWorkItem(w) \/ TakeNextWorkItemWait(w)
  \/ DoOneStep(w) \/ Relax(w) \/ Quit(w)

UserStep(u) ==
  \/ RunTest(u) \/ RunCapacity(u) \/ RunWait(u)
  \/ StepStart(u) \/ TakeNextWorkItemNow(u) \/ DoOneStep(u) \/ StepFinish(u)
  \/ StopTest(u) \/ StopJoin(u)
  \/ TakeNextInteresting(u) \/ TakeNextInterestingWait(u)

UserCall(u) ==
  \/ InsertStartingPoint(u) \/ UserInsertWork(u) \/ StartWorkers(u) \/ Call(u)
  \/ Stop(u) \/ Reset(u)

\* Nobody is inside the engine: the program may leave it like this for ever.
AtRest ==
  /\ Quiescent
  /\ UNCHANGED vars

Next ==
  \/ \E w \in Workers : WorkerStep(w)
  \/ \E u \in Users : UserStep(u) \/ UserCall(u)
  \/ \E t \in Threads : SpuriousWakeup(t)
  \/ AtRest

\* The operating system runs every thread that is not blocked, and a thread
\* that wants mutex_ gets it when it is free often enough (spurious wakeups
\* take and release it for ever).  Nothing forces the program to call the
\* engine, and nothing forces a spurious wakeup.
Fairness ==
  /\ \A w \in Workers : SF_vars(WorkerStep(w))
  /\ \A u \in Users : SF_vars(UserStep(u))

Spec == Init /\ [][Next]_vars
FairSpec == Spec /\ Fairness

-----------------------------------------------------------------------------
(***************************************************************************)
(* Properties.                                                             *)
(***************************************************************************)

\* The sets every variable of the engine and every thread local ranges over.
TypeOK ==
  /\ frontier_ \subseteq Paths /\ interesting_ \subseteq Paths
  /\ inserted \subseteq Paths
  /\ inProgress_ \in [Threads -> Paths \cup {NoPath}]
  /\ workers_ \subseteq Workers
  /\ workCapacity_ \in Nat /\ nWorking_ \in Nat
  /\ stopping_ \in BOOLEAN
  /\ nPathsExplored_ \in Nat /\ nFanoutRoots_ \in Nat
  /\ fanout_ \in [nodes : Nat, children : Nat]
  /\ mutex_ \in Threads \cup {NoThread}
  /\ newWork_ \subseteq Threads /\ newInteresting_ \subseteq Users
  /\ pc \in [Threads -> WorkerLabels \cup UserLabels]
  /\ \A w \in Workers : pc[w] \in WorkerLabels
  /\ \A u \in Users : pc[u] \in UserLabels
  /\ state \in [Threads -> WorkerState]
  /\ cur \in [Threads -> Paths \cup {NoPath}]
  /\ todo \in [Threads -> SUBSET Paths]
  /\ resume \in [Users -> {"idle", "run"}]
  /\ calls \in [Users -> Nat]

Working == {t \in Threads : state[t] = "WORKING"}
Active  == {t \in Threads : state[t] # "FINISHED"}

\* The counters that every decision to wait, to quit or to return is based on
\* (takeNextWorkItem, takeNextInteresting, run, stop, workRemains) are the
\* numbers of threads that really hold a path and are really in the engine.
CountersMatch ==
  /\ nWorking_ = Cardinality(Working)
  /\ workCapacity_ = Cardinality(Active)

\* Every path put on the frontier is still there, or was taken and not yet
\* executed, or was executed, exactly once: takeNext and insertWork running
\* without mutex_ neither lose a path nor hand it out twice.
WorkConserved ==
  nPathsExplored_ + Cardinality(frontier_)
    + Cardinality({t \in Threads : pc[t] = "execute"}) = Cardinality(inserted)

\* Two threads never work on the same path, and a path that is being worked
\* on is not waiting on the frontier (PathQueue::insert asserts this).
NoSharedWork ==
  /\ \A t \in Threads : cur[t] \notin frontier_
  /\ \A t1, t2 \in Threads : t1 # t2 /\ cur[t1] = cur[t2] => cur[t1] = NoPath

\* inProgress() lists the path of every thread that counts as working, and
\* only paths of threads that are still in the engine, although a worker
\* leaves WORKING before finishPath erases its entry and stop() clears all.
InProgressListed ==
  \A t \in Threads :
    /\ state[t] = "WORKING" => inProgress_[t] = cur[t]
    /\ inProgress_[t] # NoPath => state[t] \in {"WORKING", "WAITING"}

\* What reset() asserts after it has joined the workers: nobody counts as
\* working, and no stop() has left its request behind.
ResetAssertions ==
  Quiescent => /\ workCapacity_ = 0 /\ nWorking_ = 0 /\ ~stopping_
               /\ \A t \in Threads : inProgress_[t] = NoPath

\* The fanout statistics that estimatedForestSize divides: once nobody works,
\* the nodes seen are the paths explored, and the paths inserted are the
\* starting points plus the children seen.
FanoutAccounts ==
  Working = {} =>
    /\ fanout_.nodes = nPathsExplored_
    /\ fanout_.children + Cardinality(inserted \cap Roots) = Cardinality(inserted)

\* The assertions of changeStateNS hold at every change of a worker state,
\* and the transitions that it declares unreachable are never requested.
ChangeStateAssertions ==
  [][\A t \in Threads :
       state'[t] # state[t] =>
         LET old == state[t]
             new == state'[t]
         IN /\ old = "FINISHED" => new = "STARTING"
            /\ old # "FINISHED" => new # "STARTING" /\ workCapacity_ > 0
            /\ old = "WORKING" => nWorking_ > 0
            /\ new = "WORKING" => nWorking_ < workCapacity_]_vars

\* A worker that is not told to stop leaves only when no thread is between
\* taking a path and having extended it, so that nobody inside the engine can
\* create work any more.  The frontier, which was empty when it looked, holds
\* at most starting points that user threads have inserted since: insertWork
\* does not take mutex_.
QuitOnlyWhenDone ==
  [][\A w \in Workers :
       pc[w] = "takeEmpty" /\ pc'[w] = "quit" =>
         /\ frontier_ \subseteq Roots
         /\ \A t \in Threads : todo[t] = {} /\ pc[t] # "execute"]_vars

\* When stop() returns, no thread is in the engine and no thread holds a path
\* (step() callers included), and every managed thread has ended.
StopQuiesces ==
  [][\A u \in Users :
       pc[u] = "join" /\ pc'[u] = "idle" =>
         /\ \A t \in Threads : state[t] = "FINISHED" /\ cur[t] = NoPath
         /\ \A w \in Workers : pc[w] \in {"off", "exited"}]_vars

\* The abstract exploration: a path is active while a thread works on it.
Busy == {cur[t] : t \in Threads} \ {NoPath}
Explored == inserted \ (frontier_ \cup Busy)
Forest == INSTANCE Exploration
            WITH pending <- frontier_, active <- Busy, explored <- Explored

\* The engine implements the abstract exploration: with any number of workers
\* and user threads, stops and resets, no path is lost, discovered again or
\* worked on twice, and children are inserted only while the parent is held.
ImplementsExploration == Forest!Spec

-----------------------------------------------------------------------------
\* A managed worker ends, once there is no work, whoever did the last of it:
\* "When there is no work left to be done, all worker threads exit."
WorkersFinish == \A w \in Workers : pc[w] = "born" ~> pc[w] = "exited"

\* Work that is waiting while a worker is still looking for work is taken,
\* also when insertWork's notification came too early or went elsewhere,
\* unless somebody calls stop().
PendingWorkIsTaken ==
  \A p \in Paths :
    (p \in frontier_ /\ \E w \in Workers : pc[w] \in {"born", "take"})
      ~> (p \notin frontier_ \/ stopping_)

\* A consumer blocked in takeNextInteresting comes back, with a result or
\* with null, although insertInteresting notifies without holding mutex_.
ResultsReturn ==
  \A u \in Users : pc[u] \in {"takeResult", "resultEmpty"} ~> pc[u] = "idle"

\* stop() returns: "Blocks until the current work in progress finishes, joins
\* the worker threads, and then returns."
StopReturns == \A u \in Users : pc[u] \in {"stopTest", "join"} ~> pc[u] = "idle"

\* run() returns, and not before all work is done: "Blocks until all work is
\* completed."
RunReturns ==
  \A u \in Users : pc[u] = "run" ~> pc[u] = "idle" /\ frontier_ = {}
=============================================================================
