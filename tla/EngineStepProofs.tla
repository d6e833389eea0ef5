-------------------------- MODULE EngineStepProofs --------------------------
(***************************************************************************)
(* Proofs about the steps of Engine: what a step may never do, and that    *)
(* every step is a step of Exploration or leaves the forest alone.  They   *)
(* rest on the inductive invariant of EngineProofs.                        *)
(***************************************************************************)
EXTENDS EngineProofs

\* Every path that was put on the frontier is waiting, taken or executed, and
\* is counted once, however the workers interleave.
THEOREM WorkConservedHolds == Spec => []WorkConserved
BY IndInvHolds, PTL DEF IndInv

\* No path is worked on by two threads, or waits while it is worked on.
THEOREM NoSharedWorkHolds == Spec => []NoSharedWork
BY IndInvHolds, PTL DEF IndInv, ForestInv

-----------------------------------------------------------------------------
(***************************************************************************)
(* Who moves a thread, and who changes its state.                          *)
(***************************************************************************)

\* A thread is moved by its own steps only, except that startWorkers starts
\* worker threads.  state, the thread's WorkerState, changes the same way.
LEMMA OwnStep ==
  ASSUME ControlInv, [Next]_vars, NEW t \in Threads,
         pc'[t] # pc[t] \/ state'[t] # state[t]
  PROVE  \/ t \in Workers /\ WorkerStep(t)
         \/ t \in Users /\ (UserStep(t) \/ UserCall(t))
         \/ /\ state[t] = "FINISHED" /\ state'[t] = "STARTING"
            /\ pc'[t] = "born"
<1> USE DEF Threads, ControlInv, TypeOK
<1>1. ASSUME NEW s \in Threads, DoOneStep(s) PROVE s = t
  BY <1>1 DEF DoOneStep, Execute, InsertInteresting, NotifyInteresting,
       InsertWork, NotifyWork, UpdateFanout, FinishPath, Goto, counterVars
<1>2. ASSUME NEW w \in Workers, WorkerStep(w) PROVE w = t
  <2>1. CASE WorkerReady(w) \/ Relax(w) \/ Quit(w)
    BY <2>1 DEF WorkerReady, Relax, Quit, FinishWorkingNS, ChangeStateNS, Goto
  <2>2. CASE TakeNextWorkItem(w) \/ TakeNextWorkItemWait(w)
    BY <2>2 DEF TakeNextWorkItem, TakeNextWorkItemWait, Claim, ChangeStateNS,
         Goto, counterVars
  <2>3. QED
    BY <1>1, <1>2, <2>1, <2>2 DEF WorkerStep
<1>3. ASSUME NEW u \in Users, UserStep(u) PROVE u = t
  <2>1. CASE StepStart(u) \/ TakeNextWorkItemNow(u) \/ StepFinish(u)
    BY <2>1 DEF StepStart, TakeNextWorkItemNow, StepFinish, FinishWorkingNS,
         Claim, ChangeStateNS, Goto, counterVars
  <2>2. CASE RunTest(u) \/ RunCapacity(u) \/ RunWait(u)
    BY <2>2 DEF RunTest, RunCapacity, RunWait, Goto, counterVars
  <2>3. CASE StopTest(u) \/ StopJoin(u)
    BY <2>3 DEF StopTest, StopJoin, Goto, counterVars
  <2>4. CASE TakeNextInteresting(u) \/ TakeNextInterestingWait(u)
    BY <2>4 DEF TakeNextInteresting, TakeNextInterestingWait, Goto, counterVars
  <2>5. QED
    BY <1>1, <1>3, <2>1, <2>2, <2>3, <2>4 DEF UserStep
<1>4. ASSUME NEW u \in Users, UserCall(u), ~StartWorkers(u) PROVE u = t
  BY <1>4 DEF UserCall, InsertStartingPoint, UserInsertWork, Call, Stop, Reset,
       Goto, counterVars
<1>5. ASSUME NEW u \in Users, StartWorkers(u)
      PROVE  /\ state[t] = "FINISHED" /\ state'[t] = "STARTING"
             /\ pc'[t] = "born"
  <2>1. PICK new \in SUBSET (Workers \ workers_) : Spawn(new)
    BY <1>5 DEF StartWorkers
  <2>2. t \in new
    BY <2>1 DEF Spawn
  <2>3. state[t] = "FINISHED"
    BY <2>2 DEF WorkersKnown, LabelStates, OutsideLabels
  <2>4. QED
    BY <2>1, <2>2, <2>3 DEF Spawn
<1>6. ~UNCHANGED vars /\ \A s \in Threads : ~SpuriousWakeup(s)
  BY DEF vars, counterVars, SpuriousWakeup
<1>7. QED
  BY <1>2, <1>3, <1>4, <1>5, <1>6 DEF Next, AtRest

-----------------------------------------------------------------------------
(***************************************************************************)
(* What a step may never do.                                               *)
(***************************************************************************)

\* While a worker that found the frontier empty still holds mutex_, and nobody
\* works, only user threads put anything there.
LookedEmpty ==
  \A w \in Workers :
    pc[w] = "takeEmpty" /\ nWorking_ = 0 => frontier_ \subseteq Roots

\* Nobody else begins or ends work while a worker holds mutex_, and a thread
\* that extends a path counts as working all the time.
LEMMA LookedEmptyHolds == Spec => []LookedEmpty
<1>1. Init => LookedEmpty
  BY DEF Init, LookedEmpty
<1>2. ASSUME IndInv, LookedEmpty, [Next]_vars PROVE LookedEmpty'
  <2> SUFFICES ASSUME NEW w \in Workers, pc'[w] = "takeEmpty", nWorking_' = 0
               PROVE  frontier_' \subseteq Roots
    BY DEF LookedEmpty
  <2> USE <1>2 DEF IndInv, ControlInv, Threads
  <2>1. CASE pc[w] # "takeEmpty"
    <3>1. WorkerStep(w)
      BY <2>1, OwnStep, ThreadsAssumption
    <3>2. TakeNextWorkItem(w)
      BY <2>1, <3>1 DEF WorkerStep, WorkerReady, TakeNextWorkItemWait, DoOneStep,
           Execute, InsertInteresting, NotifyInteresting, InsertWork, NotifyWork,
           UpdateFanout, Relax, FinishPath, Quit, LockAt, At, Goto, TypeOK
    <3> QED BY <2>1, <3>2 DEF TakeNextWorkItem, Claim, Goto, queueVars, TypeOK
  <2>2. CASE pc[w] = "takeEmpty"
    <3>1. mutex_ = w /\ w # NoThread
      BY <2>2, ThreadsAssumption DEF MutexHeld
    <3>2. nWorking_ = 0 => frontier_ \subseteq Roots
      BY <2>2 DEF LookedEmpty
    <3>3. ASSUME NEW t \in Threads, DoOneStep(t) PROVE frontier_' \subseteq Roots
      <4>1. CASE InsertWork(t)
        <5>1. state[t] = "WORKING" /\ nWorking_' = nWorking_
          BY <4>1 DEF InsertWork, At, LabelStates, HoldLabels, counterVars
        <5> QED BY <5>1, NobodyWorking
      <4>2. CASE Execute(t) \/ FinishPath(t)
        BY <3>1, <3>2, <4>2 DEF Execute, FinishPath, LockAt, queueVars,
             counterVars
      <4>3. CASE \/ InsertInteresting(t) \/ NotifyInteresting(t)
                 \/ NotifyWork(t) \/ UpdateFanout(t)
        BY <3>2, <4>3 DEF InsertInteresting, NotifyInteresting, NotifyWork,
             UpdateFanout, queueVars, counterVars
      <4> QED BY <3>3, <4>1, <4>2, <4>3 DEF DoOneStep
    <3>4. ASSUME NEW v \in Workers, WorkerStep(v) PROVE frontier_' \subseteq Roots
      <4>1. CASE TakeNextWorkItemWait(v)
        BY <3>2, <4>1 DEF TakeNextWorkItemWait, queueVars, counterVars
      <4> QED BY <3>1, <3>3, <3>4, <4>1 DEF WorkerStep, WorkerReady,
                TakeNextWorkItem, Relax, Quit, LockAt
    <3>5. ASSUME NEW u \in Users, UserStep(u) PROVE frontier_' \subseteq Roots
      <4>1. CASE TakeNextInterestingWait(u) \/ StopTest(u) \/ StopJoin(u)
        BY <3>2, <4>1 DEF TakeNextInterestingWait, StopTest, StopJoin, queueVars,
             counterVars
      <4> QED BY <3>1, <3>3, <3>5, <4>1 DEF UserStep, RunTest, RunCapacity,
                RunWait, StepStart, TakeNextWorkItemNow, StepFinish,
                TakeNextInteresting, LockAt
    <3>6. ASSUME NEW u \in Users, UserCall(u) PROVE frontier_' \subseteq Roots
      <4>1. CASE UserInsertWork(u) \/ InsertStartingPoint(u)
        BY <3>2, <4>1 DEF UserInsertWork, InsertStartingPoint, counterVars
      <4>2. CASE Call(u) \/ Stop(u) \/ Reset(u) \/ StartWorkers(u)
        BY <3>1, <3>2, <4>2 DEF Call, Stop, Reset, StartWorkers, queueVars,
             counterVars
      <4> QED BY <3>6, <4>1, <4>2 DEF UserCall
    <3>7. CASE (\E t \in Threads : SpuriousWakeup(t)) \/ AtRest \/ UNCHANGED vars
      BY <3>2, <3>7 DEF SpuriousWakeup, AtRest, vars, queueVars, counterVars
    <3> QED BY <3>4, <3>5, <3>6, <3>7 DEF Next
  <2> QED BY <2>1, <2>2
<1>3. IndInv /\ LookedEmpty /\ [Next]_vars => LookedEmpty'
  BY <1>2
<1> QED BY <1>1, <1>3, IndInvHolds, PTL DEF Spec

\* A worker that leaves of its own accord leaves nobody behind who could still
\* create work, and no work but starting points that arrived after its look:
\* takeNextWorkItem decides this from its look at the frontier and nWorking_.
THEOREM QuitCorrect == Spec => QuitOnlyWhenDone
<1>1. ASSUME IndInv, LookedEmpty, [Next]_vars, NEW w \in Workers,
             pc[w] = "takeEmpty", pc'[w] = "quit"
      PROVE  /\ frontier_ \subseteq Roots
             /\ \A t \in Threads : todo[t] = {} /\ pc[t] # "execute"
  <2> USE <1>1 DEF IndInv, ControlInv
  <2>1. WorkerStep(w)
    BY OwnStep, ThreadsAssumption DEF Threads
  <2>2. TakeNextWorkItemWait(w)
    BY <2>1 DEF WorkerStep, WorkerReady, TakeNextWorkItem, DoOneStep, Execute,
         InsertInteresting, NotifyInteresting, InsertWork, NotifyWork,
         UpdateFanout, Relax, FinishPath, Quit, LockAt, At
  <2>3. nWorking_ = 0
    BY <2>2 DEF TakeNextWorkItemWait, Goto, Threads, TypeOK
  <2>4. \A t \in Threads : state[t] # "WORKING"
    BY <2>3, NobodyWorking
  <2>5. QED
    BY <2>3, <2>4 DEF LookedEmpty, ForestInv, TodoFresh, LabelStates, HoldLabels
<1>2. IndInv /\ LookedEmpty /\ [Next]_vars =>
        [\A w \in Workers :
           pc[w] = "takeEmpty" /\ pc'[w] = "quit" =>
             /\ frontier_ \subseteq Roots
             /\ \A t \in Threads : todo[t] = {} /\ pc[t] # "execute"]_vars
  BY <1>1
<1>3. QED
  BY <1>2, IndInvHolds, LookedEmptyHolds, PTL DEF Spec, QuitOnlyWhenDone

\* When stop() comes back from its joins the engine is empty.
THEOREM StopCorrect == Spec => StopQuiesces
<1>1. ASSUME ControlInv, [Next]_vars, NEW u \in Users,
             pc[u] = "join", pc'[u] = "idle"
      PROVE  /\ \A t \in Threads : state[t] = "FINISHED" /\ cur[t] = NoPath
             /\ \A w \in Workers : pc[w] \in {"off", "exited"}
  <2> USE <1>1 DEF ControlInv
  <2>1. \A t \in Threads : state[t] = "FINISHED"
    BY NobodyActive DEF MutexHeld
  <2>2. \A t \in Threads : pc[t] \in OutsideLabels \cup {"notifyWork"}
    BY <2>1 DEF LabelStates, TypeOK, OutsideLabels, HoldLabels, WorkerLabels,
         UserLabels, StepLabels
  <2>3. \A t \in Threads : cur[t] = NoPath
    BY <2>1, <2>2 DEF LabelStates, PathHeld, OutsideLabels, HoldLabels
  <2>4. \A w \in Workers : pc[w] \in {"off", "exited"}
    BY <2>2, <2>3 DEF PathHeld, OutsideLabels, TypeOK, WorkerLabels,
         StepLabels, Threads
  <2>5. QED
    BY <2>1, <2>3, <2>4
<1>2. ControlInv /\ [Next]_vars =>
        [\A u \in Users :
           pc[u] = "join" /\ pc'[u] = "idle" =>
             /\ \A t \in Threads : state[t] = "FINISHED" /\ cur[t] = NoPath
             /\ \A w \in Workers : pc[w] \in {"off", "exited"}]_vars
  BY <1>1
<1>3. QED
  BY <1>2, ControlHolds, PTL DEF Spec, StopQuiesces

\* Some thread that is not working is in the engine: nWorking_ is smaller
\* than workCapacity_, which changeStateNS asserts when work starts.
LEMMA RoomToWork ==
  ASSUME ControlInv, NEW t \in Threads, state[t] \in {"STARTING", "WAITING"}
  PROVE  nWorking_ < workCapacity_ /\ workCapacity_ > 0
<1> USE DEF ControlInv, CountersMatch
<1>1. IsFiniteSet(Active) /\ IsFiniteSet(Working)
      /\ Cardinality(Active) \in Nat /\ Cardinality(Working) \in Nat
  BY ThreadSets DEF Active, Working
<1>2. Working \subseteq Active \ {t} /\ t \in Active
  BY DEF Active, Working
<1>3. Cardinality(Active \ {t}) = Cardinality(Active) - 1
      /\ IsFiniteSet(Active \ {t})
  BY <1>1, <1>2, FS_RemoveElement
<1>4. Cardinality(Working) <= Cardinality(Active \ {t})
  BY <1>2, <1>3, FS_Subset
<1>5. QED
  BY <1>1, <1>3, <1>4

\* A thread at work is counted in both counters.
LEMMA WorkIsCounted ==
  ASSUME ControlInv, NEW t \in Threads, state[t] = "WORKING"
  PROVE  nWorking_ > 0 /\ workCapacity_ > 0
<1> USE DEF ControlInv, CountersMatch
<1>1. IsFiniteSet(Active) /\ IsFiniteSet(Working)
      /\ Cardinality(Active) \in Nat /\ Cardinality(Working) \in Nat
  BY ThreadSets DEF Active, Working
<1>2. t \in Active /\ t \in Working
  BY DEF Active, Working
<1>3. Cardinality(Active) # 0 /\ Cardinality(Working) # 0
  BY <1>1, <1>2, FS_EmptySet
<1>4. QED
  BY <1>1, <1>3

\* No assertion of changeStateNS can fail, and no transition that it declares
\* unreachable is ever requested.
THEOREM ChangeStateCorrect == Spec => ChangeStateAssertions
<1> DEFINE Legal(t) ==
      /\ state[t] = "FINISHED" => state'[t] = "STARTING"
      /\ state[t] # "FINISHED" => state'[t] # "STARTING" /\ workCapacity_ > 0
      /\ state[t] = "WORKING" => nWorking_ > 0
      /\ state'[t] = "WORKING" => nWorking_ < workCapacity_
<1>1. ASSUME ControlInv, [Next]_vars, NEW t \in Threads, state'[t] # state[t]
      PROVE  Legal(t)
  <2> USE <1>1 DEF ControlInv
  <2>1. CASE state[t] = "FINISHED" /\ state'[t] = "STARTING"
    BY <2>1
  <2>2. ASSUME DoOneStep(t) PROVE FALSE
    BY <2>2 DEF DoOneStep, Execute, InsertInteresting, NotifyInteresting,
         InsertWork, NotifyWork, UpdateFanout, FinishPath, counterVars
  <2>3. CASE t \in Workers /\ WorkerStep(t)
    <3>1. \/ state[t] = "STARTING" /\ state'[t] = "WAITING"
          \/ state[t] = "WAITING" /\ state'[t] \in {"WORKING", "FINISHED"}
          \/ state[t] = "WORKING" /\ state'[t] = "WAITING"
      BY <2>2, <2>3 DEF WorkerStep, WorkerReady, TakeNextWorkItem,
           TakeNextWorkItemWait, Relax, Quit, FinishWorkingNS, Claim,
           ChangeStateNS, LockAt, At, LabelStates, HoldLabels, TypeOK,
           counterVars
    <3>2. QED
      BY <3>1, RoomToWork, WorkIsCounted
  <2>4. CASE t \in Users /\ (UserStep(t) \/ UserCall(t))
    <3>1. CASE UserCall(t)
      BY <2>1, <3>1, OwnStep DEF UserCall, InsertStartingPoint, UserInsertWork,
           StartWorkers, Call, Stop, Reset, Spawn, counterVars, WorkersKnown,
           LabelStates, OutsideLabels, TypeOK, Threads
    <3>2. CASE UserStep(t)
      <4>1. \/ state[t] = "FINISHED" /\ state'[t] = "STARTING"
            \/ state[t] = "STARTING" /\ state'[t] \in {"WORKING", "FINISHED"}
            \/ state[t] = "WORKING" /\ state'[t] = "FINISHED"
        BY <2>2, <3>2 DEF UserStep, RunTest, RunCapacity, RunWait, StepStart,
             TakeNextWorkItemNow, StepFinish, StopTest, StopJoin,
             TakeNextInteresting, TakeNextInterestingWait, FinishWorkingNS,
             Claim, ChangeStateNS, LockAt, At, LabelStates, OutsideLabels,
             TypeOK, counterVars
      <4>2. QED
        BY <4>1, RoomToWork, WorkIsCounted
    <3>3. QED
      BY <2>4, <3>1, <3>2
  <2>5. QED
    BY <2>1, <2>3, <2>4, OwnStep
<1>2. ControlInv /\ [Next]_vars =>
        [\A t \in Threads :
           state'[t] # state[t] =>
             LET old == state[t]
                 new == state'[t]
             IN /\ old = "FINISHED" => new = "STARTING"
                /\ old # "FINISHED" => new # "STARTING" /\ workCapacity_ > 0
                /\ old = "WORKING" => nWorking_ > 0
                /\ new = "WORKING" => nWorking_ < workCapacity_]_vars
  BY <1>1
<1>3. QED
  BY <1>2, ControlHolds, PTL DEF Spec, ChangeStateAssertions

-----------------------------------------------------------------------------
(***************************************************************************)
(* The fanout statistics.  Between execute and updateFanout a thread is    *)
(* extending its path: the path is in nPathsExplored_ but not yet in       *)
(* fanout_, and so are the children it has inserted so far.                *)
(***************************************************************************)

Extends(t) ==
  /\ pc[t] \in {"mark", "notifyMark", "extend", "notifyWork"}
  /\ cur[t] # NoPath

Extending == {t \in Threads : Extends(t)}

Uncounted == {c \in inserted : \E t \in Extending : c \in Children[cur[t]]}

FanoutNodes == fanout_.nodes + Cardinality(Extending) = nPathsExplored_

FanoutChildren ==
  fanout_.children + Cardinality(Uncounted) + Cardinality(inserted \cap Roots)
    = Cardinality(inserted)

FanoutInv == FanoutNodes /\ FanoutChildren

\* The sets that the statistics count are finite.
LEMMA FanoutSets ==
  ASSUME TypeOK
  PROVE  /\ IsFiniteSet(Extending) /\ Cardinality(Extending) \in Nat
         /\ IsFiniteSet(Uncounted) /\ Cardinality(Uncounted) \in Nat
         /\ IsFiniteSet(inserted) /\ Cardinality(inserted) \in Nat
         /\ Cardinality(inserted \cap Roots) \in Nat
         /\ IsFiniteSet(inserted \cap Roots)
         /\ fanout_.nodes \in Nat /\ fanout_.children \in Nat
         /\ nPathsExplored_ \in Nat
<1>1. Extending \subseteq Threads /\ Uncounted \subseteq Paths
      /\ inserted \subseteq Paths /\ inserted \cap Roots \subseteq Paths
  BY DEF TypeOK, Extending, Uncounted
<1>2. QED
  BY <1>1, ThreadSets, PathSets DEF TypeOK

\* A step that starts and ends no extension and inserts nothing keeps the
\* statistics, whatever paths other threads take or let go.
LEMMA FanoutFrame ==
  ASSUME FanoutInv, UNCHANGED <<inserted, fanout_, nPathsExplored_>>,
         \A t \in Threads : Extends(t)' <=> Extends(t),
         \A t \in Threads : Extends(t) => cur'[t] = cur[t]
  PROVE  FanoutInv'
<1>1. Extending' = Extending
  BY DEF Extending
<1>2. Uncounted' = Uncounted
  BY <1>1 DEF Uncounted, Extending
<1>3. QED
  BY <1>1, <1>2 DEF FanoutInv, FanoutNodes, FanoutChildren

\* execute counts a path that has no children on the frontier yet.
LEMMA FanoutExecute ==
  ASSUME IndInv, FanoutInv, NEW t \in Threads, Execute(t)
  PROVE  FanoutInv'
<1> USE ForestAssumption DEF IndInv, ControlInv, TypeOK
<1>1. /\ pc[t] = "execute" /\ pc' = [pc EXCEPT ![t] = "mark"]
      /\ nPathsExplored_' = nPathsExplored_ + 1
      /\ UNCHANGED <<inserted, cur, fanout_>>
  BY DEF Execute, LockAt, At, Goto, queueVars
<1>2. cur[t] \in Paths /\ Children[cur[t]] \cap inserted = {}
  BY <1>1 DEF PathHeld, HoldLabels, ForestInv, ParentsFirst
<1>3. Extending' = Extending \cup {t} /\ t \notin Extending
  BY <1>1, <1>2 DEF Extending, Extends
<1>4. Uncounted' = Uncounted
  BY <1>1, <1>2, <1>3 DEF Uncounted
<1>5. Cardinality(Extending') = Cardinality(Extending) + 1
  BY <1>3, FanoutSets, FS_AddElement
<1>6. FanoutNodes'
  BY <1>1, <1>5, FanoutSets DEF FanoutInv, FanoutNodes
<1>7. FanoutChildren'
  BY <1>1, <1>4 DEF FanoutInv, FanoutChildren
<1>8. QED
  BY <1>6, <1>7 DEF FanoutInv

\* extend() inserts a child of the path it holds, which is no starting point;
\* updateFanout has not counted it yet.
LEMMA FanoutInsertWork ==
  ASSUME IndInv, FanoutInv, NEW t \in Threads, InsertWork(t)
  PROVE  FanoutInv'
<1> USE ForestAssumption DEF IndInv, ControlInv, TypeOK
<1>1. PICK c \in todo[t] :
        \/ /\ inserted' = inserted \cup {c}
           /\ pc' = [pc EXCEPT ![t] = "notifyWork"]
        \/ UNCHANGED <<inserted, pc>>
  BY DEF InsertWork, Goto
<1>2. /\ pc[t] = "extend" /\ UNCHANGED <<cur, fanout_, nPathsExplored_>>
      /\ cur[t] \in Paths /\ cur[t] # NoPath
      /\ c \in Children[cur[t]] /\ c \notin inserted /\ c \notin Roots
  BY DEF InsertWork, At, statVars, ForestInv, TodoFresh
<1>3. CASE UNCHANGED <<inserted, pc>>
  BY <1>2, <1>3, FanoutFrame DEF Extends
<1>4. CASE inserted' = inserted \cup {c} /\ pc' = [pc EXCEPT ![t] = "notifyWork"]
  <2>1. Extending' = Extending /\ t \in Extending
    BY <1>2, <1>4 DEF Extending, Extends
  <2>2. Uncounted' = Uncounted \cup {c} /\ c \notin Uncounted
    BY <1>2, <1>4, <2>1 DEF Uncounted
  <2>3. Cardinality(inserted' \cap Roots) = Cardinality(inserted \cap Roots)
    <3>1. inserted' \cap Roots = inserted \cap Roots
      BY <1>2, <1>4
    <3>2. QED
      BY <3>1
  <2>4. Cardinality(Uncounted') = Cardinality(Uncounted) + 1
        /\ Cardinality(inserted') = Cardinality(inserted) + 1
    BY <1>2, <1>4, <2>2, FanoutSets, FS_AddElement
  <2>5. FanoutChildren'
    BY <1>2, <2>3, <2>4, FanoutSets DEF FanoutInv, FanoutChildren
  <2>6. FanoutNodes'
    BY <1>2, <2>1 DEF FanoutInv, FanoutNodes
  <2>7. QED
    BY <2>5, <2>6 DEF FanoutInv
<1>5. QED
  BY <1>1, <1>3, <1>4

\* A user inserts a starting point, which is nobody's child.
LEMMA FanoutInsertRoot ==
  ASSUME IndInv, FanoutInv, NEW u \in Users, NEW r \in Roots \ inserted,
         inserted' = inserted \cup {r},
         UNCHANGED <<cur, fanout_, nPathsExplored_>>,
         pc[u] = "idle", UNCHANGED pc \/ pc' = [pc EXCEPT ![u] = "notifyWork"]
  PROVE  FanoutInv'
<1> USE ForestAssumption DEF IndInv, ControlInv, TypeOK
<1>1. cur[u] = NoPath
  BY DEF PathHeld, HoldLabels, Threads
<1>2. Extending' = Extending
  BY <1>1 DEF Extending, Extends, Threads
<1>3. Uncounted' = Uncounted
  <2>1. \A t \in Extending : r \notin Children[cur[t]]
    BY DEF Extending, Extends
  <2>2. QED
    BY <1>2, <2>1 DEF Uncounted
<1>4. inserted' \cap Roots = (inserted \cap Roots) \cup {r}
  OBVIOUS
<1>5. Cardinality(inserted' \cap Roots) = Cardinality(inserted \cap Roots) + 1
      /\ Cardinality(inserted') = Cardinality(inserted) + 1
  BY <1>4, FanoutSets, FS_AddElement
<1>6. FanoutChildren'
  BY <1>3, <1>5, FanoutSets DEF FanoutInv, FanoutChildren
<1>7. QED
  BY <1>2, <1>6 DEF FanoutInv, FanoutNodes

\* updateFanout counts the path it ends with and exactly the children that
\* this thread inserted: no other thread extends the same path, and no other
\* path has the same children.
LEMMA FanoutUpdate ==
  ASSUME IndInv, FanoutInv, NEW t \in Threads, UpdateFanout(t)
  PROVE  FanoutInv'
<1> USE ForestAssumption DEF IndInv, ControlInv, TypeOK
<1> DEFINE C == Children[cur[t]] \cap inserted
<1>1. /\ pc[t] = "extend"
      /\ pc' = [pc EXCEPT ![t] = IF t \in Workers THEN "relax" ELSE "finishPath"]
      /\ fanout_'.nodes = fanout_.nodes + 1
      /\ fanout_'.children = fanout_.children + Cardinality(C)
      /\ UNCHANGED <<inserted, cur, nPathsExplored_>>
  BY DEF UpdateFanout, LockAt, At, Goto, queueVars, localVars
<1>2. cur[t] \in Paths /\ cur[t] # NoPath
  BY <1>1 DEF PathHeld, HoldLabels
<1>3. Extending' = Extending \ {t} /\ t \in Extending
  BY <1>1, <1>2 DEF Extending, Extends
<1>4. \A s \in Extending \ {t} : cur[s] \in Paths /\ cur[s] # cur[t]
  BY <1>2 DEF Extending, Extends, ForestInv, NoSharedWork
<1>5. Uncounted' = Uncounted \ C /\ C \subseteq Uncounted
  BY <1>1, <1>2, <1>3, <1>4 DEF Uncounted
<1> HIDE DEF C
<1>6. Cardinality(Uncounted') = Cardinality(Uncounted) - Cardinality(C)
      /\ Cardinality(C) \in Nat
  <2>1. IsFiniteSet(C) /\ Uncounted \cap C = C
    BY <1>5, FanoutSets, FS_Subset
  <2>2. QED
    BY <1>5, <2>1, FanoutSets, FS_Difference, FS_CardinalityType
<1>7. Cardinality(Extending') = Cardinality(Extending) - 1
  BY <1>3, FanoutSets, FS_RemoveElement
<1>8. FanoutNodes'
  BY <1>1, <1>7, FanoutSets DEF FanoutInv, FanoutNodes
<1>9. FanoutChildren'
  BY <1>1, <1>6, FanoutSets DEF FanoutInv, FanoutChildren
<1>10. QED
  BY <1>8, <1>9 DEF FanoutInv

\* reset() clears the statistics, and nobody extends a path.
LEMMA FanoutReset ==
  ASSUME IndInv, NEW u \in Users, Reset(u)
  PROVE  FanoutInv'
<1> USE DEF IndInv, ControlInv, TypeOK
<1>1. \A t \in Threads : pc[t] \in {"idle", "off", "exited"}
  BY DEF Reset, Quiescent, WorkersKnown, Threads
<1>2. inserted' = {} /\ nPathsExplored_' = 0 /\ UNCHANGED <<cur, pc>>
      /\ fanout_'.nodes = 0 /\ fanout_'.children = 0
  BY DEF Reset
<1>3. Extending' = {} /\ Uncounted' = {} /\ inserted' \cap Roots = {}
  BY <1>1, <1>2 DEF Extending, Extends, Uncounted
<1>4. QED
  BY <1>2, <1>3, FS_EmptySet DEF FanoutInv, FanoutNodes, FanoutChildren

\* The statistics of updateFanout account for every path that was explored
\* and every path that was inserted, up to what is being extended.
THEOREM FanoutInvHolds == Spec => []FanoutInv
<1>1. ASSUME Init PROVE FanoutInv
  <2>1. Extending = {} /\ Uncounted = {} /\ inserted = {}
        /\ inserted \cap Roots = {}
    BY <1>1 DEF Init, Extending, Extends, Uncounted
  <2>2. QED
    BY <1>1, <2>1, FS_EmptySet DEF Init, FanoutInv, FanoutNodes, FanoutChildren
<1>2. ASSUME IndInv, FanoutInv, [Next]_vars PROVE FanoutInv'
  <2> USE <1>2
  <2>1. ASSUME NEW t \in Threads, DoOneStep(t) PROVE FanoutInv'
    <3> USE DEF At, LockAt, Goto, queueVars, statVars, localVars, Extends,
                IndInv, ControlInv, TypeOK
    <3>1. CASE InsertInteresting(t) \/ NotifyInteresting(t)
      BY <3>1, FanoutFrame DEF InsertInteresting, NotifyInteresting
    <3>2. CASE NotifyWork(t)
      BY <3>2, FanoutFrame DEF NotifyWork
    <3>3. CASE FinishPath(t)
      BY <3>3, FanoutFrame DEF FinishPath
    <3>4. QED
      BY <2>1, <3>1, <3>2, <3>3, FanoutExecute, FanoutInsertWork, FanoutUpdate
         DEF DoOneStep
  <2>2. ASSUME NEW w \in Workers, WorkerStep(w) PROVE FanoutInv'
    <3> USE DEF Threads, At, LockAt, Goto, queueVars, statVars, localVars,
                Extends, IndInv, ControlInv, TypeOK
    <3>1. CASE WorkerReady(w) \/ Relax(w) \/ Quit(w)
      BY <3>1, FanoutFrame DEF WorkerReady, Relax, Quit
    <3>2. CASE TakeNextWorkItemWait(w)
      BY <3>2, FanoutFrame DEF TakeNextWorkItemWait
    <3>3. CASE TakeNextWorkItem(w)
      BY <3>3, FanoutFrame DEF TakeNextWorkItem, Claim
    <3>4. QED
      BY <2>1, <2>2, <3>1, <3>2, <3>3 DEF WorkerStep
  <2>3. ASSUME NEW u \in Users, UserStep(u) PROVE FanoutInv'
    <3> USE DEF Threads, At, LockAt, Goto, queueVars, statVars, localVars,
                Extends, IndInv, ControlInv, TypeOK
    <3>1. CASE RunTest(u) \/ RunCapacity(u) \/ RunWait(u)
      BY <3>1, FanoutFrame DEF RunTest, RunCapacity, RunWait
    <3>2. CASE StepStart(u) \/ StepFinish(u)
      BY <3>2, FanoutFrame DEF StepStart, StepFinish
    <3>3. CASE TakeNextWorkItemNow(u)
      BY <3>3, FanoutFrame DEF TakeNextWorkItemNow, Claim
    <3>4. CASE StopTest(u) \/ StopJoin(u)
      BY <3>4, FanoutFrame DEF StopTest, StopJoin
    <3>5. CASE TakeNextInteresting(u) \/ TakeNextInterestingWait(u)
      BY <3>5, FanoutFrame DEF TakeNextInteresting, TakeNextInterestingWait
    <3>6. QED
      BY <2>1, <2>3, <3>1, <3>2, <3>3, <3>4, <3>5 DEF UserStep
  <2>4. ASSUME NEW u \in Users, UserCall(u) PROVE FanoutInv'
    <3> USE DEF Threads, Begin, Goto, queueVars, statVars, localVars, IndInv,
                ControlInv, TypeOK
    <3>1. CASE InsertStartingPoint(u)
      <4>1. CASE UNCHANGED inserted
        BY <3>1, <4>1, FanoutFrame DEF InsertStartingPoint, Extends
      <4>2. CASE ~UNCHANGED inserted
        BY <3>1, <4>2, FanoutInsertRoot DEF InsertStartingPoint
      <4>3. QED
        BY <4>1, <4>2
    <3>2. CASE UserInsertWork(u)
      BY <3>2, FanoutInsertRoot DEF UserInsertWork
    <3>3. CASE StartWorkers(u)
      <4>1. \A t \in Threads :
              \/ pc'[t] = pc[t]
              \/ t \in Workers \ workers_ /\ pc'[t] = "born"
        BY <3>3 DEF StartWorkers, Spawn
      <4>2. \A t \in Threads : t \in Workers \ workers_ =>
              pc[t] \in {"off", "exited"}
        BY DEF WorkersKnown
      <4>3. UNCHANGED <<inserted, cur, fanout_, nPathsExplored_>>
        BY <3>3 DEF StartWorkers
      <4>4. QED
        BY <4>1, <4>2, <4>3, FanoutFrame DEF Extends
    <3>4. CASE Call(u) \/ Stop(u)
      BY <3>4, FanoutFrame DEF Call, Stop, Extends
    <3>5. QED
      BY <2>4, <3>1, <3>2, <3>3, <3>4, FanoutReset DEF UserCall
  <2>5. CASE (\E t \in Threads : SpuriousWakeup(t)) \/ UNCHANGED vars
    BY <2>5, FanoutFrame DEF SpuriousWakeup, vars, queueVars, statVars,
         localVars, Extends
  <2>6. QED
    BY <2>2, <2>3, <2>4, <2>5 DEF Next, AtRest
<1>3. QED
  BY <1>1, <1>2, IndInvHolds, PTL DEF Spec

\* Whenever nobody works, the nodes that updateFanout has seen are the paths
\* explored, and starting points and children seen are the paths inserted.
THEOREM FanoutCorrect == Spec => []FanoutAccounts
<1>1. ASSUME IndInv, FanoutInv, Working = {} PROVE FanoutAccounts
  <2> USE <1>1 DEF IndInv, ControlInv, TypeOK
  <2>1. \A t \in Threads : ~Extends(t)
    BY DEF Working, LabelStates, HoldLabels, Extends
  <2>2. Extending = {} /\ Uncounted = {}
    BY <2>1 DEF Extending, Uncounted
  <2>3. Cardinality(Extending) = 0 /\ Cardinality(Uncounted) = 0
    BY <2>2, FS_EmptySet
  <2>4. QED
    BY <2>3, FanoutSets DEF FanoutInv, FanoutNodes, FanoutChildren,
         FanoutAccounts
<1>2. IndInv /\ FanoutInv => FanoutAccounts
  BY <1>1 DEF FanoutAccounts
<1>3. QED
  BY <1>2, IndInvHolds, FanoutInvHolds, PTL

-----------------------------------------------------------------------------
(***************************************************************************)
(* The engine implements Exploration.                                      *)
(***************************************************************************)

\* The abstract paths are exactly the ones that were put on the frontier.
LEMMA KnownInserted ==
  ASSUME ForestInv
  PROVE  Forest!Known = inserted /\ Busy \subseteq inserted
BY DEF ForestInv, Forest!Known, Busy, Explored

\* A step that moves no path does not show in the abstract exploration.
LEMMA StutterStep ==
  ASSUME UNCHANGED <<frontier_, inserted, cur>>
  PROVE  UNCHANGED Forest!evars
BY DEF Forest!evars, Busy, Explored

\* Taking a path from the frontier is the abstract Claim.
LEMMA ClaimStep ==
  ASSUME IndInv, NEW t \in Threads, Claim(t), cur[t] = NoPath
  PROVE  Forest!Next
<1> USE ForestAssumption DEF IndInv, ControlInv, TypeOK
<1>1. PICK p \in frontier_ :
        /\ frontier_' = frontier_ \ {p}
        /\ cur' = [cur EXCEPT ![t] = p]
        /\ UNCHANGED inserted
  BY DEF Claim
<1>2. p \in Paths /\ p # NoPath
  OBVIOUS
<1>3. Busy' = Busy \cup {p}
  BY <1>1, <1>2 DEF Busy
<1>4. Explored' = Explored
  BY <1>1, <1>3 DEF Explored
<1>5. Forest!Claim(p)
  BY <1>1, <1>3, <1>4 DEF Forest!Claim
<1>6. QED
  BY <1>2, <1>5 DEF Forest!Next

\* Putting a starting point on the frontier is the abstract Submit.
LEMMA SubmitStep ==
  ASSUME IndInv, NEW r \in Roots \ inserted,
         frontier_' = frontier_ \cup {r}, inserted' = inserted \cup {r},
         UNCHANGED cur
  PROVE  Forest!Next
<1> USE ForestAssumption DEF IndInv, ForestInv
<1>1. Forest!Known = inserted /\ Busy \subseteq inserted
  BY KnownInserted
<1>2. Busy' = Busy
  BY DEF Busy
<1>3. Explored' = Explored
  BY <1>1, <1>2 DEF Explored
<1>4. Forest!Submit(r)
  BY <1>1, <1>2, <1>3 DEF Forest!Submit
<1>5. QED
  BY <1>4 DEF Forest!Next

\* extend() puts a child of the held path on the frontier: the abstract
\* Discover; or it drops the child, which does not show.
LEMMA DiscoverStep ==
  ASSUME IndInv, NEW t \in Threads, InsertWork(t)
  PROVE  [Forest!Next]_(Forest!evars)
<1> USE ForestAssumption DEF IndInv, ControlInv, TypeOK, ForestInv
<1>1. PICK c \in todo[t] :
        \/ /\ frontier_' = frontier_ \cup {c}
           /\ inserted' = inserted \cup {c}
        \/ UNCHANGED <<frontier_, inserted>>
  BY DEF InsertWork
<1>2. UNCHANGED cur
  BY DEF InsertWork
<1>3. CASE UNCHANGED <<frontier_, inserted>>
  BY <1>2, <1>3, StutterStep
<1>4. CASE frontier_' = frontier_ \cup {c} /\ inserted' = inserted \cup {c}
  <2>1. /\ cur[t] \in Paths /\ c \in Paths
        /\ cur[t] \in Busy
        /\ c \in Children[cur[t]] \ inserted
    BY DEF TodoFresh, Busy
  <2>2. Forest!Known = inserted /\ Busy \subseteq inserted
    BY KnownInserted
  <2>3. Busy' = Busy
    BY <1>2 DEF Busy
  <2>4. Explored' = Explored
    BY <1>4, <2>1, <2>2, <2>3 DEF Explored
  <2>5. Forest!Discover(cur[t], c)
    BY <1>4, <2>1, <2>2, <2>3, <2>4 DEF Forest!Discover
  <2>6. QED
    BY <2>1, <2>5 DEF Forest!Next
<1>5. QED
  BY <1>1, <1>3, <1>4

\* finishPath is the abstract Complete: no other thread has the path.
LEMMA CompleteStep ==
  ASSUME IndInv, NEW t \in Threads, FinishPath(t)
  PROVE  Forest!Next
<1> USE DEF IndInv, ControlInv, TypeOK, ForestInv
<1>1. /\ cur' = [cur EXCEPT ![t] = NoPath]
      /\ UNCHANGED <<frontier_, inserted>>
  BY DEF FinishPath, queueVars
<1>2. cur[t] # NoPath /\ cur[t] \in Paths
  BY DEF FinishPath, LockAt, At, PathHeld
<1>3. cur[t] \in Busy /\ cur[t] \in inserted \ frontier_
  BY <1>2 DEF Busy, NoSharedWork
<1>4. Busy' = Busy \ {cur[t]}
  BY <1>1, <1>2 DEF Busy, NoSharedWork
<1>5. Explored' = Explored \cup {cur[t]}
  BY <1>1, <1>3, <1>4 DEF Explored
<1>6. Forest!Complete(cur[t])
  BY <1>1, <1>3, <1>4, <1>5 DEF Forest!Complete
<1>7. QED
  BY <1>2, <1>6 DEF Forest!Next

\* reset() is the abstract Clear: nobody holds a path.
LEMMA ClearStep ==
  ASSUME IndInv, NEW u \in Users, Reset(u)
  PROVE  Forest!Next
<1> USE DEF IndInv, ControlInv, TypeOK
<1>1. \A t \in Threads : pc[t] \in {"idle", "off", "exited"}
  BY DEF Reset, Quiescent, WorkersKnown, Threads
<1>2. \A t \in Threads : cur[t] = NoPath
  BY <1>1 DEF PathHeld, HoldLabels
<1>3. frontier_' = {} /\ inserted' = {} /\ UNCHANGED cur
  BY DEF Reset
<1>4. Busy = {} /\ Busy' = {} /\ Explored' = {}
  BY <1>2, <1>3 DEF Busy, Explored
<1>5. QED
  BY <1>3, <1>4 DEF Forest!Next, Forest!Clear

\* Every behaviour of the engine is one of the abstract exploration: workers,
\* user threads, stops and resets never lose a path, discover one again, or
\* insert children of a path that nobody holds.
THEOREM Refinement == Spec => ImplementsExploration
<1>1. Init => Forest!Init
  BY DEF Init, Forest!Init, Busy, Explored
<1>2. ASSUME IndInv, [Next]_vars
      PROVE  [Forest!Next]_(Forest!evars)
  <2> USE <1>2 DEF queueVars, localVars, vars
  <2>1. ASSUME NEW t \in Threads, DoOneStep(t)
        PROVE  [Forest!Next]_(Forest!evars)
    BY <2>1, StutterStep, DiscoverStep, CompleteStep DEF DoOneStep, Execute,
         InsertInteresting, NotifyInteresting, NotifyWork, UpdateFanout
  <2>2. ASSUME NEW w \in Workers, WorkerStep(w)
        PROVE  [Forest!Next]_(Forest!evars)
    <3>1. CASE Claim(w) /\ pc[w] = "take"
      BY <3>1, ClaimStep DEF Threads, IndInv, ControlInv, PathHeld, HoldLabels
    <3>2. CASE ~(Claim(w) /\ pc[w] = "take")
      BY <2>1, <2>2, <3>2, StutterStep DEF Threads, WorkerStep, WorkerReady,
           TakeNextWorkItem, TakeNextWorkItemWait, Relax, Quit, LockAt, At
    <3>3. QED
      BY <3>1, <3>2
  <2>3. ASSUME NEW u \in Users, UserStep(u)
        PROVE  [Forest!Next]_(Forest!evars)
    <3>1. CASE Claim(u) /\ pc[u] = "takeNow"
      BY <3>1, ClaimStep DEF Threads, IndInv, ControlInv, PathHeld, HoldLabels
    <3>2. CASE ~(Claim(u) /\ pc[u] = "takeNow")
      BY <2>1, <2>3, <3>2, StutterStep DEF Threads, UserStep, RunTest,
           RunCapacity, RunWait, StepStart, TakeNextWorkItemNow, StepFinish,
           StopTest, StopJoin, TakeNextInteresting, TakeNextInterestingWait,
           LockAt, At
    <3>3. QED
      BY <3>1, <3>2
  <2>4. ASSUME NEW u \in Users, UserCall(u)
        PROVE  [Forest!Next]_(Forest!evars)
    <3>1. CASE InsertStartingPoint(u) \/ UserInsertWork(u)
      BY <3>1, StutterStep, SubmitStep DEF InsertStartingPoint, UserInsertWork
    <3>2. CASE StartWorkers(u) \/ Call(u) \/ Stop(u)
      BY <3>2, StutterStep DEF StartWorkers, Call, Stop
    <3>3. QED
      BY <2>4, <3>1, <3>2, ClearStep DEF UserCall
  <2>5. CASE (\E t \in Threads : SpuriousWakeup(t)) \/ UNCHANGED vars
    BY <2>5, StutterStep DEF SpuriousWakeup
  <2>6. QED
    BY <2>2, <2>3, <2>4, <2>5 DEF Next, AtRest
<1>3. QED
  BY <1>1, <1>2, IndInvHolds, PTL DEF Spec, ImplementsExploration, Forest!Spec
=============================================================================
