---------------------------- MODULE EngineProofs ----------------------------
(***************************************************************************)
(* Proofs about Engine, for every set of workers, user threads and calls   *)
(* and for every forest of paths.                                          *)
(***************************************************************************)
EXTENDS Engine, FiniteSetTheorems, TLAPS

-----------------------------------------------------------------------------
(***************************************************************************)
(* The inductive invariant.                                                *)
(***************************************************************************)

\* Labels of threads that have no WorkerState: outside worker() and step().
OutsideLabels == {"off", "exited", "idle", "run", "runCapacity", "runWait",
                  "step", "stopTest", "join", "takeResult", "resultEmpty"}

\* Labels of a thread that holds a path it counts as working on.
HoldLabels == {"execute", "mark", "notifyMark", "extend", "relax"}

\* The WorkerState local of a thread follows from where the thread is.
LabelStates ==
  \A t \in Threads :
    /\ pc[t] \in OutsideLabels => state[t] = "FINISHED"
    /\ pc[t] \in {"born", "takeNow"} => state[t] = "STARTING"
    /\ pc[t] \in {"take", "takeEmpty", "quit"} => state[t] = "WAITING"
    /\ pc[t] \in HoldLabels => state[t] = "WORKING"
    /\ pc[t] = "notifyWork" =>
         state[t] = IF cur[t] = NoPath THEN "FINISHED" ELSE "WORKING"
    /\ pc[t] = "finishPath" =>
         state[t] = IF t \in Workers THEN "WAITING" ELSE "WORKING"
    /\ pc[t] = "finish" => state[t] \in {"STARTING", "WORKING"}

\* A thread has a path exactly between takeNext and finishPath, and
\* inProgress_ records it.
PathHeld ==
  \A t \in Threads :
    /\ pc[t] \in HoldLabels \cup {"finishPath"} => cur[t] # NoPath
    /\ pc[t] \notin HoldLabels \cup {"finishPath", "notifyWork"} =>
         cur[t] = NoPath
    /\ t \in Workers /\ pc[t] = "notifyWork" => cur[t] # NoPath
    /\ inProgress_[t] = cur[t]

\* Which sections keep mutex_ from one action to the next, and what they know.
MutexHeld ==
  /\ \A t \in Threads :
       pc[t] \in {"takeEmpty", "resultEmpty", "join"} => mutex_ = t
  /\ \A u \in Users : pc[u] = "join" => workCapacity_ = 0

\* The request to stop is up only while stop() is running.
StopFlag == stopping_ => \E u \in Users : pc[u] \in {"stopTest", "join"}

\* A worker thread that was not started, or was joined, is not running.
WorkersKnown ==
  \A w \in Workers : w \notin workers_ => pc[w] \in {"off", "exited"}

ControlInv ==
  /\ TypeOK
  /\ CountersMatch
  /\ LabelStates
  /\ PathHeld
  /\ MutexHeld
  /\ StopFlag
  /\ WorkersKnown

\* Children that extend() has still to insert are new, and are children of
\* the thread's own path.
TodoFresh ==
  \A t \in Threads :
    /\ todo[t] # {} => /\ cur[t] # NoPath
                       /\ pc[t] \in {"mark", "notifyMark", "extend", "notifyWork"}
                       /\ todo[t] \subseteq Children[cur[t]]
    /\ todo[t] \cap inserted = {}

\* No child is inserted before its parent was executed.
ParentsFirst ==
  \A p \in Paths :
    Children[p] \cap inserted # {} =>
      /\ p \in inserted \ frontier_
      /\ \A t \in Threads : cur[t] = p => pc[t] # "execute"

ForestInv ==
  /\ frontier_ \subseteq inserted
  /\ \A t \in Threads : cur[t] # NoPath => cur[t] \in inserted
  /\ NoSharedWork
  /\ TodoFresh
  /\ ParentsFirst

IndInv == ControlInv /\ ForestInv /\ WorkConserved

-----------------------------------------------------------------------------
(***************************************************************************)
(* Counting threads.                                                       *)
(***************************************************************************)

\* A set of threads is finite, and its cardinality is a natural number.
LEMMA ThreadSets ==
  ASSUME NEW S, S \subseteq Threads
  PROVE  IsFiniteSet(S) /\ Cardinality(S) \in Nat
<1>1. IsFiniteSet(Threads)
  BY ThreadsAssumption, FS_Union DEF Threads
<1>2. IsFiniteSet(S)
  BY <1>1, FS_Subset
<1>3. QED
  BY <1>2, FS_CardinalityType

\* changeStateNS keeps nWorking_ and workCapacity_ equal to the numbers of
\* threads they stand for, on the transitions that the code makes.
LEMMA ChangeStateCounts ==
  ASSUME TypeOK, CountersMatch,
         NEW t \in Threads, NEW next \in WorkerState,
         ChangeStateNS(t, next),
         next = "STARTING" <=> state[t] = "FINISHED",
         next = "WORKING" => state[t] # "WORKING"
  PROVE  /\ CountersMatch'
         /\ workCapacity_' \in Nat /\ nWorking_' \in Nat
         /\ state' \in [Threads -> WorkerState]
<1>1. state' \in [Threads -> WorkerState] /\ state' = [state EXCEPT ![t] = next]
  BY DEF ChangeStateNS, TypeOK
<1>2. /\ IsFiniteSet(Working) /\ Cardinality(Working) \in Nat
      /\ IsFiniteSet(Active) /\ Cardinality(Active) \in Nat
  BY ThreadSets DEF Working, Active
<1>3. /\ nWorking_' = Cardinality(Working')
      /\ nWorking_' \in Nat
  <2>1. CASE next = "WORKING"
    <3>1. Working' = Working \cup {t} /\ t \notin Working
      BY <1>1, <2>1 DEF Working, TypeOK
    <3>2. nWorking_' = nWorking_ + 1
      BY <1>2, <2>1 DEF ChangeStateNS, CountersMatch
    <3>3. Cardinality(Working \cup {t}) = Cardinality(Working) + 1
      BY <1>2, <3>1, FS_AddElement
    <3>4. QED
      BY <1>2, <3>1, <3>2, <3>3 DEF CountersMatch
  <2>2. CASE next # "WORKING" /\ state[t] = "WORKING"
    <3>1. Working' = Working \ {t} /\ t \in Working
      BY <1>1, <2>2 DEF Working, TypeOK
    <3>2. nWorking_' = nWorking_ - 1
      BY <1>2, <2>2 DEF ChangeStateNS, CountersMatch
    <3>3. Cardinality(Working \ {t}) = Cardinality(Working) - 1
      BY <1>2, <3>1, FS_RemoveElement
    <3>4. Cardinality(Working \ {t}) \in Nat
      BY ThreadSets DEF Working
    <3>5. QED
      BY <1>2, <3>1, <3>2, <3>3, <3>4 DEF CountersMatch
  <2>3. CASE next # "WORKING" /\ state[t] # "WORKING"
    <3>1. Working' = Working
      BY <1>1, <2>3 DEF Working, TypeOK
    <3>2. nWorking_' = nWorking_
      BY <1>2, <2>3 DEF ChangeStateNS, CountersMatch
    <3>3. QED
      BY <1>2, <3>1, <3>2 DEF CountersMatch
  <2>4. QED
    BY <2>1, <2>2, <2>3
<1>4. /\ workCapacity_' = Cardinality(Active')
      /\ workCapacity_' \in Nat
  <2>1. CASE next = "STARTING"
    <3>1. Active' = Active \cup {t} /\ t \notin Active
      BY <1>1, <2>1 DEF Active, TypeOK
    <3>2. workCapacity_' = workCapacity_ + 1
      BY <1>2, <2>1 DEF ChangeStateNS, CountersMatch
    <3>3. Cardinality(Active \cup {t}) = Cardinality(Active) + 1
      BY <1>2, <3>1, FS_AddElement
    <3>4. QED
      BY <1>2, <3>1, <3>2, <3>3 DEF CountersMatch
  <2>2. CASE next = "FINISHED"
    <3>1. Active' = Active \ {t} /\ t \in Active
      BY <1>1, <2>2 DEF Active, TypeOK
    <3>2. workCapacity_' = workCapacity_ - 1
      BY <1>2, <2>2 DEF ChangeStateNS, CountersMatch
    <3>3. Cardinality(Active \ {t}) = Cardinality(Active) - 1
      BY <1>2, <3>1, FS_RemoveElement
    <3>4. Cardinality(Active \ {t}) \in Nat
      BY ThreadSets DEF Active
    <3>5. QED
      BY <1>2, <3>1, <3>2, <3>3, <3>4 DEF CountersMatch
  <2>3. CASE next # "STARTING" /\ next # "FINISHED"
    <3>1. Active' = Active
      BY <1>1, <2>3 DEF Active, TypeOK
    <3>2. workCapacity_' = workCapacity_
      BY <1>2, <2>3 DEF ChangeStateNS, CountersMatch
    <3>3. QED
      BY <1>2, <3>1, <3>2 DEF CountersMatch
  <2>4. QED
    BY <2>1, <2>2, <2>3
<1>5. QED
  BY <1>1, <1>3, <1>4 DEF CountersMatch

\* A capacity of zero means that no thread is inside worker() or step().
LEMMA NobodyActive ==
  ASSUME CountersMatch, workCapacity_ = 0
  PROVE  \A t \in Threads : state[t] = "FINISHED"
<1>1. IsFiniteSet(Active)
  BY ThreadSets DEF Active
<1>2. Active = {}
  BY <1>1, FS_EmptySet DEF CountersMatch
<1>3. QED
  BY <1>2 DEF Active

\* No thread working means that none holds a path it could extend.
LEMMA NobodyWorking ==
  ASSUME CountersMatch, nWorking_ = 0
  PROVE  \A t \in Threads : state[t] # "WORKING"
<1>1. IsFiniteSet(Working)
  BY ThreadSets DEF Working
<1>2. Working = {}
  BY <1>1, FS_EmptySet DEF CountersMatch
<1>3. QED
  BY <1>2 DEF Working

-----------------------------------------------------------------------------
(***************************************************************************)
(* Every action preserves ControlInv.                                      *)
(***************************************************************************)

\* ControlInv is preserved by the locked rest of takeNextWorkItem.
LEMMA ControlTakeNextWorkItemWait ==
  ASSUME ControlInv, NEW w \in Workers, TakeNextWorkItemWait(w)
  PROVE  ControlInv'
<1> USE ThreadsAssumption, ForestAssumption DEF ControlInv, Threads, TakeNextWorkItemWait,
      LockAt, At, Goto
<1>1. CountersMatch' /\ workCapacity_' \in Nat /\ nWorking_' \in Nat
      /\ state' \in [Threads -> WorkerState]
  BY DEF TypeOK, CountersMatch, Working, Active, counterVars
<1>2. TypeOK'
  BY <1>1 DEF TypeOK, WorkerLabels, UserLabels, StepLabels, counterVars, queueVars, statVars,
       cvVars, stopVars, localVars, callVars
<1>3. LabelStates' /\ PathHeld'
  BY DEF TypeOK, LabelStates, PathHeld, OutsideLabels, HoldLabels, counterVars,
       localVars
<1>4. MutexHeld' /\ StopFlag' /\ WorkersKnown'
  BY DEF TypeOK, MutexHeld, StopFlag, WorkersKnown, counterVars, stopVars
<1>5. QED
  BY <1>1, <1>2, <1>3, <1>4

\* ControlInv is preserved by execute.
LEMMA ControlExecute ==
  ASSUME ControlInv, NEW t \in Threads, Execute(t)
  PROVE  ControlInv'
<1> USE ThreadsAssumption, ForestAssumption DEF ControlInv, Threads, Execute,
      LockAt, At, Goto
<1>1. CountersMatch' /\ workCapacity_' \in Nat /\ nWorking_' \in Nat
      /\ state' \in [Threads -> WorkerState]
  BY DEF TypeOK, CountersMatch, Working, Active, counterVars
<1>2. TypeOK'
  BY <1>1 DEF TypeOK, PathHeld, HoldLabels, WorkerLabels, UserLabels, StepLabels, counterVars, queueVars, statVars,
       cvVars, stopVars, localVars, callVars
<1>3. LabelStates' /\ PathHeld'
  BY DEF TypeOK, LabelStates, PathHeld, OutsideLabels, HoldLabels, counterVars,
       localVars
<1>4. MutexHeld' /\ StopFlag' /\ WorkersKnown'
  BY DEF TypeOK, MutexHeld, StopFlag, WorkersKnown, counterVars, stopVars
<1>5. QED
  BY <1>1, <1>2, <1>3, <1>4

\* ControlInv is preserved by insertInteresting.
LEMMA ControlInsertInteresting ==
  ASSUME ControlInv, NEW t \in Threads, InsertInteresting(t)
  PROVE  ControlInv'
<1> USE ThreadsAssumption, ForestAssumption DEF ControlInv, Threads, InsertInteresting,
      LockAt, At, Goto
<1>1. CountersMatch' /\ workCapacity_' \in Nat /\ nWorking_' \in Nat
      /\ state' \in [Threads -> WorkerState]
  BY DEF TypeOK, CountersMatch, Working, Active, counterVars
<1>2. TypeOK'
  BY <1>1 DEF TypeOK, PathHeld, HoldLabels, WorkerLabels, UserLabels, StepLabels, counterVars, queueVars, statVars,
       cvVars, stopVars, localVars, callVars
<1>3. LabelStates' /\ PathHeld'
  BY DEF TypeOK, LabelStates, PathHeld, OutsideLabels, HoldLabels, counterVars,
       localVars
<1>4. MutexHeld' /\ StopFlag' /\ WorkersKnown'
  BY DEF TypeOK, MutexHeld, StopFlag, WorkersKnown, counterVars, stopVars
<1>5. QED
  BY <1>1, <1>2, <1>3, <1>4

\* ControlInv is preserved by insertInteresting's notification.
LEMMA ControlNotifyInteresting ==
  ASSUME ControlInv, NEW t \in Threads, NotifyInteresting(t)
  PROVE  ControlInv'
<1> USE ThreadsAssumption, ForestAssumption DEF ControlInv, Threads, NotifyInteresting, NotifyOne,
      LockAt, At, Goto
<1>1. CountersMatch' /\ workCapacity_' \in Nat /\ nWorking_' \in Nat
      /\ state' \in [Threads -> WorkerState]
  BY DEF TypeOK, CountersMatch, Working, Active, counterVars
<1>2. TypeOK'
  BY <1>1 DEF TypeOK, WorkerLabels, UserLabels, StepLabels, counterVars, queueVars, statVars,
       cvVars, stopVars, localVars, callVars
<1>3. LabelStates' /\ PathHeld'
  BY DEF TypeOK, LabelStates, PathHeld, OutsideLabels, HoldLabels, counterVars,
       localVars
<1>4. MutexHeld' /\ StopFlag' /\ WorkersKnown'
  BY DEF TypeOK, MutexHeld, StopFlag, WorkersKnown, counterVars, stopVars
<1>5. QED
  BY <1>1, <1>2, <1>3, <1>4

\* ControlInv is preserved by insertWork in extend.
LEMMA ControlInsertWork ==
  ASSUME ControlInv, NEW t \in Threads, InsertWork(t)
  PROVE  ControlInv'
<1> USE ThreadsAssumption, ForestAssumption DEF ControlInv, Threads, InsertWork,
      LockAt, At, Goto
<1>1. CountersMatch' /\ workCapacity_' \in Nat /\ nWorking_' \in Nat
      /\ state' \in [Threads -> WorkerState]
  BY DEF TypeOK, CountersMatch, Working, Active, counterVars
<1>2. TypeOK'
  BY <1>1 DEF TypeOK, WorkerLabels, UserLabels, StepLabels, counterVars, queueVars, statVars,
       cvVars, stopVars, localVars, callVars
<1>3. LabelStates' /\ PathHeld'
  BY DEF TypeOK, LabelStates, PathHeld, OutsideLabels, HoldLabels, counterVars,
       localVars
<1>4. MutexHeld' /\ StopFlag' /\ WorkersKnown'
  BY DEF TypeOK, MutexHeld, StopFlag, WorkersKnown, counterVars, stopVars
<1>5. QED
  BY <1>1, <1>2, <1>3, <1>4

\* ControlInv is preserved by insertWork's notification.
LEMMA ControlNotifyWork ==
  ASSUME ControlInv, NEW t \in Threads, NotifyWork(t)
  PROVE  ControlInv'
<1> USE ThreadsAssumption, ForestAssumption DEF ControlInv, Threads, NotifyWork, NotifyOne,
      LockAt, At, Goto
<1>1. CountersMatch' /\ workCapacity_' \in Nat /\ nWorking_' \in Nat
      /\ state' \in [Threads -> WorkerState]
  BY DEF TypeOK, CountersMatch, Working, Active, counterVars
<1>2. TypeOK'
  BY <1>1 DEF TypeOK, PathHeld, WorkerLabels, UserLabels, StepLabels, counterVars, queueVars, statVars,
       cvVars, stopVars, localVars, callVars
<1>3. LabelStates' /\ PathHeld'
  BY DEF TypeOK, LabelStates, PathHeld, OutsideLabels, HoldLabels, counterVars,
       localVars
<1>4. MutexHeld' /\ StopFlag' /\ WorkersKnown'
  BY DEF TypeOK, MutexHeld, StopFlag, WorkersKnown, counterVars, stopVars
<1>5. QED
  BY <1>1, <1>2, <1>3, <1>4

\* ControlInv is preserved by updateFanout.
LEMMA ControlUpdateFanout ==
  ASSUME ControlInv, NEW t \in Threads, UpdateFanout(t)
  PROVE  ControlInv'
<1> USE ThreadsAssumption, ForestAssumption DEF ControlInv, Threads, UpdateFanout,
      LockAt, At, Goto
<1>1. CountersMatch' /\ workCapacity_' \in Nat /\ nWorking_' \in Nat
      /\ state' \in [Threads -> WorkerState]
  BY DEF TypeOK, CountersMatch, Working, Active, counterVars
<1>2. TypeOK'
  <2>1. IsFiniteSet(Children[cur[t]] \cap inserted)
    BY FS_Subset DEF TypeOK
  <2>2. Cardinality(Children[cur[t]] \cap inserted) \in Nat
    BY <2>1, FS_CardinalityType
  <2>3. QED
    BY <1>1, <2>2 DEF TypeOK, WorkerLabels, UserLabels, StepLabels, counterVars, queueVars, statVars,
       cvVars, stopVars, localVars, callVars
<1>3. LabelStates' /\ PathHeld'
  BY DEF TypeOK, LabelStates, PathHeld, OutsideLabels, HoldLabels, counterVars,
       localVars
<1>4. MutexHeld' /\ StopFlag' /\ WorkersKnown'
  BY DEF TypeOK, MutexHeld, StopFlag, WorkersKnown, counterVars, stopVars
<1>5. QED
  BY <1>1, <1>2, <1>3, <1>4

\* ControlInv is preserved by finishPath.
LEMMA ControlFinishPath ==
  ASSUME ControlInv, NEW t \in Threads, FinishPath(t)
  PROVE  ControlInv'
<1> USE ThreadsAssumption, ForestAssumption DEF ControlInv, Threads, FinishPath,
      LockAt, At, Goto
<1>1. CountersMatch' /\ workCapacity_' \in Nat /\ nWorking_' \in Nat
      /\ state' \in [Threads -> WorkerState]
  BY DEF TypeOK, CountersMatch, Working, Active, counterVars
<1>2. TypeOK'
  BY <1>1 DEF TypeOK, WorkerLabels, UserLabels, StepLabels, counterVars, queueVars, statVars,
       cvVars, stopVars, localVars, callVars
<1>3. LabelStates' /\ PathHeld'
  BY DEF TypeOK, LabelStates, PathHeld, OutsideLabels, HoldLabels, counterVars,
       localVars
<1>4. MutexHeld' /\ StopFlag' /\ WorkersKnown'
  BY DEF TypeOK, MutexHeld, StopFlag, WorkersKnown, counterVars, stopVars
<1>5. QED
  BY <1>1, <1>2, <1>3, <1>4

\* ControlInv is preserved by insertStartingPoint.
LEMMA ControlInsertStartingPoint ==
  ASSUME ControlInv, NEW u \in Users, InsertStartingPoint(u)
  PROVE  ControlInv'
<1> USE ThreadsAssumption, ForestAssumption DEF ControlInv, Threads, InsertStartingPoint, Begin,
      LockAt, At, Goto
<1>1. CountersMatch' /\ workCapacity_' \in Nat /\ nWorking_' \in Nat
      /\ state' \in [Threads -> WorkerState]
  BY DEF TypeOK, CountersMatch, Working, Active, counterVars
<1>2. TypeOK'
  BY <1>1 DEF TypeOK, WorkerLabels, UserLabels, StepLabels, counterVars, queueVars, statVars,
       cvVars, stopVars, localVars, callVars
<1>3. LabelStates' /\ PathHeld'
  BY DEF TypeOK, LabelStates, PathHeld, OutsideLabels, HoldLabels, counterVars,
       localVars
<1>4. MutexHeld' /\ StopFlag' /\ WorkersKnown'
  BY DEF TypeOK, MutexHeld, StopFlag, WorkersKnown, counterVars, stopVars
<1>5. QED
  BY <1>1, <1>2, <1>3, <1>4

\* ControlInv is preserved by insertWork called by a user.
LEMMA ControlUserInsertWork ==
  ASSUME ControlInv, NEW u \in Users, UserInsertWork(u)
  PROVE  ControlInv'
<1> USE ThreadsAssumption, ForestAssumption DEF ControlInv, Threads, UserInsertWork, Begin,
      LockAt, At, Goto
<1>1. CountersMatch' /\ workCapacity_' \in Nat /\ nWorking_' \in Nat
      /\ state' \in [Threads -> WorkerState]
  BY DEF TypeOK, CountersMatch, Working, Active, counterVars
<1>2. TypeOK'
  BY <1>1 DEF TypeOK, WorkerLabels, UserLabels, StepLabels, counterVars, queueVars, statVars,
       cvVars, stopVars, localVars, callVars
<1>3. LabelStates' /\ PathHeld'
  BY DEF TypeOK, LabelStates, PathHeld, OutsideLabels, HoldLabels, counterVars,
       localVars
<1>4. MutexHeld' /\ StopFlag' /\ WorkersKnown'
  BY DEF TypeOK, MutexHeld, StopFlag, WorkersKnown, counterVars, stopVars
<1>5. QED
  BY <1>1, <1>2, <1>3, <1>4

\* ControlInv is preserved by entering run, step or takeNextInteresting.
LEMMA ControlCall ==
  ASSUME ControlInv, NEW u \in Users, Call(u)
  PROVE  ControlInv'
<1> USE ThreadsAssumption, ForestAssumption DEF ControlInv, Threads, Call, Begin,
      LockAt, At, Goto
<1>1. CountersMatch' /\ workCapacity_' \in Nat /\ nWorking_' \in Nat
      /\ state' \in [Threads -> WorkerState]
  BY DEF TypeOK, CountersMatch, Working, Active, counterVars
<1>2. TypeOK'
  BY <1>1 DEF TypeOK, WorkerLabels, UserLabels, StepLabels, counterVars, queueVars, statVars,
       cvVars, stopVars, localVars, callVars
<1>3. LabelStates' /\ PathHeld'
  BY DEF TypeOK, LabelStates, PathHeld, OutsideLabels, HoldLabels, counterVars,
       localVars
<1>4. MutexHeld' /\ StopFlag' /\ WorkersKnown'
  BY DEF TypeOK, MutexHeld, StopFlag, WorkersKnown, counterVars, stopVars
<1>5. QED
  BY <1>1, <1>2, <1>3, <1>4

\* ControlInv is preserved by run()'s loop condition.
LEMMA ControlRunTest ==
  ASSUME ControlInv, NEW u \in Users, RunTest(u)
  PROVE  ControlInv'
<1> USE ThreadsAssumption, ForestAssumption DEF ControlInv, Threads, RunTest,
      LockAt, At, Goto
<1>1. CountersMatch' /\ workCapacity_' \in Nat /\ nWorking_' \in Nat
      /\ state' \in [Threads -> WorkerState]
  BY DEF TypeOK, CountersMatch, Working, Active, counterVars
<1>2. TypeOK'
  BY <1>1 DEF TypeOK, WorkerLabels, UserLabels, StepLabels, counterVars, queueVars, statVars,
       cvVars, stopVars, localVars, callVars
<1>3. LabelStates' /\ PathHeld'
  BY DEF TypeOK, LabelStates, PathHeld, OutsideLabels, HoldLabels, counterVars,
       localVars
<1>4. MutexHeld' /\ StopFlag' /\ WorkersKnown'
  BY DEF TypeOK, MutexHeld, StopFlag, WorkersKnown, counterVars, stopVars
<1>5. QED
  BY <1>1, <1>2, <1>3, <1>4

\* ControlInv is preserved by run()'s capacity test.
LEMMA ControlRunCapacity ==
  ASSUME ControlInv, NEW u \in Users, RunCapacity(u)
  PROVE  ControlInv'
<1> USE ThreadsAssumption, ForestAssumption DEF ControlInv, Threads, RunCapacity,
      LockAt, At, Goto
<1>1. CountersMatch' /\ workCapacity_' \in Nat /\ nWorking_' \in Nat
      /\ state' \in [Threads -> WorkerState]
  BY DEF TypeOK, CountersMatch, Working, Active, counterVars
<1>2. TypeOK'
  BY <1>1 DEF TypeOK, WorkerLabels, UserLabels, StepLabels, counterVars, queueVars, statVars,
       cvVars, stopVars, localVars, callVars
<1>3. LabelStates' /\ PathHeld'
  BY DEF TypeOK, LabelStates, PathHeld, OutsideLabels, HoldLabels, counterVars,
       localVars
<1>4. MutexHeld' /\ StopFlag' /\ WorkersKnown'
  BY DEF TypeOK, MutexHeld, StopFlag, WorkersKnown, counterVars, stopVars
<1>5. QED
  BY <1>1, <1>2, <1>3, <1>4

\* ControlInv is preserved by run()'s wait.
LEMMA ControlRunWait ==
  ASSUME ControlInv, NEW u \in Users, RunWait(u)
  PROVE  ControlInv'
<1> USE ThreadsAssumption, ForestAssumption DEF ControlInv, Threads, RunWait,
      LockAt, At, Goto
<1>1. CountersMatch' /\ workCapacity_' \in Nat /\ nWorking_' \in Nat
      /\ state' \in [Threads -> WorkerState]
  BY DEF TypeOK, CountersMatch, Working, Active, counterVars
<1>2. TypeOK'
  BY <1>1 DEF TypeOK, WorkerLabels, UserLabels, StepLabels, counterVars, queueVars, statVars,
       cvVars, stopVars, localVars, callVars
<1>3. LabelStates' /\ PathHeld'
  BY DEF TypeOK, LabelStates, PathHeld, OutsideLabels, HoldLabels, counterVars,
       localVars
<1>4. MutexHeld' /\ StopFlag' /\ WorkersKnown'
  BY DEF TypeOK, MutexHeld, StopFlag, WorkersKnown, counterVars, stopVars
<1>5. QED
  BY <1>1, <1>2, <1>3, <1>4

\* ControlInv is preserved by the start of stop().
LEMMA ControlStop ==
  ASSUME ControlInv, NEW u \in Users, Stop(u)
  PROVE  ControlInv'
<1> USE ThreadsAssumption, ForestAssumption DEF ControlInv, Threads, Stop, Begin,
      LockAt, At, Goto
<1>1. CountersMatch' /\ workCapacity_' \in Nat /\ nWorking_' \in Nat
      /\ state' \in [Threads -> WorkerState]
  BY DEF TypeOK, CountersMatch, Working, Active, counterVars
<1>2. TypeOK'
  BY <1>1 DEF TypeOK, WorkerLabels, UserLabels, StepLabels, counterVars, queueVars, statVars,
       cvVars, stopVars, localVars, callVars
<1>3. LabelStates' /\ PathHeld'
  BY DEF TypeOK, LabelStates, PathHeld, OutsideLabels, HoldLabels, counterVars,
       localVars
<1>4. MutexHeld' /\ StopFlag' /\ WorkersKnown'
  BY DEF TypeOK, MutexHeld, StopFlag, WorkersKnown, counterVars, stopVars
<1>5. QED
  BY <1>1, <1>2, <1>3, <1>4

\* ControlInv is preserved by stop()'s waiting loop.
LEMMA ControlStopTest ==
  ASSUME ControlInv, NEW u \in Users, StopTest(u)
  PROVE  ControlInv'
<1> USE ThreadsAssumption, ForestAssumption DEF ControlInv, Threads, StopTest,
      LockAt, At, Goto
<1>1. CountersMatch' /\ workCapacity_' \in Nat /\ nWorking_' \in Nat
      /\ state' \in [Threads -> WorkerState]
  BY DEF TypeOK, CountersMatch, Working, Active, counterVars
<1>2. TypeOK'
  BY <1>1 DEF TypeOK, WorkerLabels, UserLabels, StepLabels, counterVars, queueVars, statVars,
       cvVars, stopVars, localVars, callVars
<1>3. LabelStates' /\ PathHeld'
  BY DEF TypeOK, LabelStates, PathHeld, OutsideLabels, HoldLabels, counterVars,
       localVars
<1>4. MutexHeld' /\ StopFlag' /\ WorkersKnown'
  BY DEF TypeOK, MutexHeld, StopFlag, WorkersKnown, counterVars, stopVars
<1>5. QED
  BY <1>1, <1>2, <1>3, <1>4

\* ControlInv is preserved by stop()'s joins and its end.
LEMMA ControlStopJoin ==
  ASSUME ControlInv, NEW u \in Users, StopJoin(u)
  PROVE  ControlInv'
<1> USE ThreadsAssumption, ForestAssumption DEF ControlInv, Threads, StopJoin,
      LockAt, At, Goto
<1>1. CountersMatch' /\ workCapacity_' \in Nat /\ nWorking_' \in Nat
      /\ state' \in [Threads -> WorkerState]
  BY DEF TypeOK, CountersMatch, Working, Active, counterVars
<1>2. TypeOK'
  BY <1>1 DEF TypeOK, WorkerLabels, UserLabels, StepLabels, counterVars, queueVars, statVars,
       cvVars, stopVars, localVars, callVars
<1>3. LabelStates' /\ PathHeld'
  <2>1. \A t \in Threads : state[t] = "FINISHED"
    BY NobodyActive DEF MutexHeld
  <2>2. \A t \in Threads : cur[t] = NoPath
    BY <2>1 DEF TypeOK, LabelStates, PathHeld, OutsideLabels, HoldLabels
  <2>3. QED
    BY <2>2 DEF TypeOK, LabelStates, PathHeld, OutsideLabels, HoldLabels,
         counterVars
<1>4. MutexHeld' /\ StopFlag' /\ WorkersKnown'
  BY DEF TypeOK, MutexHeld, StopFlag, WorkersKnown, counterVars, stopVars
<1>5. QED
  BY <1>1, <1>2, <1>3, <1>4

\* ControlInv is preserved by reset().
LEMMA ControlReset ==
  ASSUME ControlInv, NEW u \in Users, Reset(u)
  PROVE  ControlInv'
<1> USE ThreadsAssumption, ForestAssumption DEF ControlInv, Threads, Reset, Begin, Quiescent,
      LockAt, At, Goto
<1>1. CountersMatch' /\ workCapacity_' \in Nat /\ nWorking_' \in Nat
      /\ state' \in [Threads -> WorkerState]
  BY DEF TypeOK, CountersMatch, Working, Active, counterVars
<1>2. TypeOK'
  BY <1>1 DEF TypeOK, WorkerLabels, UserLabels, StepLabels, counterVars, queueVars, statVars,
       cvVars, stopVars, localVars, callVars
<1>3. LabelStates' /\ PathHeld'
  <2>1. \A t \in Threads : pc[t] \in {"idle", "off", "exited"}
    BY DEF WorkersKnown
  <2>2. \A t \in Threads : cur[t] = NoPath
    BY <2>1 DEF PathHeld, HoldLabels
  <2>3. QED
    BY <2>2 DEF TypeOK, LabelStates, PathHeld, OutsideLabels, HoldLabels,
         counterVars
<1>4. MutexHeld' /\ StopFlag' /\ WorkersKnown'
  BY DEF TypeOK, MutexHeld, StopFlag, WorkersKnown, counterVars, stopVars
<1>5. QED
  BY <1>1, <1>2, <1>3, <1>4

\* ControlInv is preserved by takeNextInteresting.
LEMMA ControlTakeNextInteresting ==
  ASSUME ControlInv, NEW u \in Users, TakeNextInteresting(u)
  PROVE  ControlInv'
<1> USE ThreadsAssumption, ForestAssumption DEF ControlInv, Threads, TakeNextInteresting,
      LockAt, At, Goto
<1>1. CountersMatch' /\ workCapacity_' \in Nat /\ nWorking_' \in Nat
      /\ state' \in [Threads -> WorkerState]
  BY DEF TypeOK, CountersMatch, Working, Active, counterVars
<1>2. TypeOK'
  BY <1>1 DEF TypeOK, WorkerLabels, UserLabels, StepLabels, counterVars, queueVars, statVars,
       cvVars, stopVars, localVars, callVars
<1>3. LabelStates' /\ PathHeld'
  BY DEF TypeOK, LabelStates, PathHeld, OutsideLabels, HoldLabels, counterVars,
       localVars
<1>4. MutexHeld' /\ StopFlag' /\ WorkersKnown'
  BY DEF TypeOK, MutexHeld, StopFlag, WorkersKnown, counterVars, stopVars
<1>5. QED
  BY <1>1, <1>2, <1>3, <1>4

\* ControlInv is preserved by the locked rest of takeNextInteresting.
LEMMA ControlTakeNextInterestingWait ==
  ASSUME ControlInv, NEW u \in Users, TakeNextInterestingWait(u)
  PROVE  ControlInv'
<1> USE ThreadsAssumption, ForestAssumption DEF ControlInv, Threads, TakeNextInterestingWait,
      LockAt, At, Goto
<1>1. CountersMatch' /\ workCapacity_' \in Nat /\ nWorking_' \in Nat
      /\ state' \in [Threads -> WorkerState]
  BY DEF TypeOK, CountersMatch, Working, Active, counterVars
<1>2. TypeOK'
  BY <1>1 DEF TypeOK, WorkerLabels, UserLabels, StepLabels, counterVars, queueVars, statVars,
       cvVars, stopVars, localVars, callVars
<1>3. LabelStates' /\ PathHeld'
  BY DEF TypeOK, LabelStates, PathHeld, OutsideLabels, HoldLabels, counterVars,
       localVars
<1>4. MutexHeld' /\ StopFlag' /\ WorkersKnown'
  BY DEF TypeOK, MutexHeld, StopFlag, WorkersKnown, counterVars, stopVars
<1>5. QED
  BY <1>1, <1>2, <1>3, <1>4

\* ControlInv is preserved by a spurious wakeup.
LEMMA ControlSpuriousWakeup ==
  ASSUME ControlInv, NEW t \in Threads, SpuriousWakeup(t)
  PROVE  ControlInv'
<1> USE ThreadsAssumption, ForestAssumption DEF ControlInv, Threads, SpuriousWakeup,
      LockAt, At, Goto
<1>1. CountersMatch' /\ workCapacity_' \in Nat /\ nWorking_' \in Nat
      /\ state' \in [Threads -> WorkerState]
  BY DEF TypeOK, CountersMatch, Working, Active, counterVars
<1>2. TypeOK'
  BY <1>1 DEF TypeOK, WorkerLabels, UserLabels, StepLabels, counterVars, queueVars, statVars,
       cvVars, stopVars, localVars, callVars
<1>3. LabelStates' /\ PathHeld'
  BY DEF TypeOK, LabelStates, PathHeld, OutsideLabels, HoldLabels, counterVars,
       localVars
<1>4. MutexHeld' /\ StopFlag' /\ WorkersKnown'
  BY DEF TypeOK, MutexHeld, StopFlag, WorkersKnown, counterVars, stopVars
<1>5. QED
  BY <1>1, <1>2, <1>3, <1>4

\* ControlInv is preserved by worker() going from STARTING to WAITING.
LEMMA ControlWorkerReady ==
  ASSUME ControlInv, NEW w \in Workers, WorkerReady(w)
  PROVE  ControlInv'
<1> USE ThreadsAssumption DEF ControlInv, Threads, WorkerReady, LockAt, At, Goto
<1>1. w \in Threads /\ state[w] = "STARTING"
  BY DEF LabelStates, OutsideLabels, HoldLabels
<1>2. /\ CountersMatch' /\ workCapacity_' \in Nat /\ nWorking_' \in Nat
      /\ state' \in [Threads -> WorkerState]
  <2>1. "WAITING" \in WorkerState /\ ChangeStateNS(w, "WAITING")
    BY DEF WorkerState
  <2>2. QED
    BY <1>1, <2>1, ChangeStateCounts
<1>3. TypeOK'
  BY <1>2 DEF TypeOK, WorkerLabels, UserLabels, StepLabels, queueVars, statVars,
       cvVars, stopVars, localVars, callVars
<1>4. LabelStates' /\ PathHeld'
  BY <1>1 DEF TypeOK, ChangeStateNS, LabelStates, PathHeld, OutsideLabels,
       HoldLabels, localVars
<1>5. MutexHeld' /\ StopFlag' /\ WorkersKnown'
  BY <1>1 DEF TypeOK, MutexHeld, StopFlag, WorkersKnown, stopVars
<1>6. QED
  BY <1>2, <1>3, <1>4, <1>5

\* ControlInv is preserved by worker() going from WORKING to WAITING.
LEMMA ControlRelax ==
  ASSUME ControlInv, NEW w \in Workers, Relax(w)
  PROVE  ControlInv'
<1> USE ThreadsAssumption DEF ControlInv, Threads, Relax, LockAt, At, Goto
<1>1. w \in Threads /\ state[w] = "WORKING"
  BY DEF LabelStates, OutsideLabels, HoldLabels
<1>2. /\ CountersMatch' /\ workCapacity_' \in Nat /\ nWorking_' \in Nat
      /\ state' \in [Threads -> WorkerState]
  <2>1. "WAITING" \in WorkerState /\ ChangeStateNS(w, "WAITING")
    BY DEF WorkerState
  <2>2. QED
    BY <1>1, <2>1, ChangeStateCounts
<1>3. TypeOK'
  BY <1>2 DEF TypeOK, WorkerLabels, UserLabels, StepLabels, queueVars, statVars,
       cvVars, stopVars, localVars, callVars
<1>4. LabelStates' /\ PathHeld'
  BY <1>1 DEF TypeOK, ChangeStateNS, LabelStates, PathHeld, OutsideLabels,
       HoldLabels, localVars
<1>5. MutexHeld' /\ StopFlag' /\ WorkersKnown'
  BY <1>1 DEF TypeOK, MutexHeld, StopFlag, WorkersKnown, stopVars
<1>6. QED
  BY <1>2, <1>3, <1>4, <1>5

\* ControlInv is preserved by the scope exit of worker().
LEMMA ControlQuit ==
  ASSUME ControlInv, NEW w \in Workers, Quit(w)
  PROVE  ControlInv'
<1> USE ThreadsAssumption DEF ControlInv, Threads, Quit, FinishWorkingNS, LockAt, At, Goto
<1>1. w \in Threads /\ state[w] = "WAITING"
  BY DEF LabelStates, OutsideLabels, HoldLabels
<1>2. /\ CountersMatch' /\ workCapacity_' \in Nat /\ nWorking_' \in Nat
      /\ state' \in [Threads -> WorkerState]
  <2>1. "FINISHED" \in WorkerState /\ ChangeStateNS(w, "FINISHED")
    BY DEF WorkerState
  <2>2. QED
    BY <1>1, <2>1, ChangeStateCounts
<1>3. TypeOK'
  BY <1>2 DEF TypeOK, WorkerLabels, UserLabels, StepLabels, queueVars, statVars,
       cvVars, stopVars, localVars, callVars
<1>4. LabelStates' /\ PathHeld'
  BY <1>1 DEF TypeOK, ChangeStateNS, LabelStates, PathHeld, OutsideLabels,
       HoldLabels, localVars
<1>5. MutexHeld' /\ StopFlag' /\ WorkersKnown'
  BY <1>1 DEF TypeOK, MutexHeld, StopFlag, WorkersKnown, stopVars
<1>6. QED
  BY <1>2, <1>3, <1>4, <1>5

\* ControlInv is preserved by the entry of step().
LEMMA ControlStepStart ==
  ASSUME ControlInv, NEW u \in Users, StepStart(u)
  PROVE  ControlInv'
<1> USE ThreadsAssumption DEF ControlInv, Threads, StepStart, LockAt, At, Goto
<1>1. u \in Threads /\ state[u] = "FINISHED"
  BY DEF LabelStates, OutsideLabels, HoldLabels
<1>2. /\ CountersMatch' /\ workCapacity_' \in Nat /\ nWorking_' \in Nat
      /\ state' \in [Threads -> WorkerState]
  <2>1. "STARTING" \in WorkerState /\ ChangeStateNS(u, "STARTING")
    BY DEF WorkerState
  <2>2. QED
    BY <1>1, <2>1, ChangeStateCounts
<1>3. TypeOK'
  BY <1>2 DEF TypeOK, WorkerLabels, UserLabels, StepLabels, queueVars, statVars,
       cvVars, stopVars, localVars, callVars
<1>4. LabelStates' /\ PathHeld'
  BY <1>1 DEF TypeOK, ChangeStateNS, LabelStates, PathHeld, OutsideLabels,
       HoldLabels, localVars
<1>5. MutexHeld' /\ StopFlag' /\ WorkersKnown'
  BY <1>1 DEF TypeOK, MutexHeld, StopFlag, WorkersKnown, stopVars
<1>6. QED
  BY <1>2, <1>3, <1>4, <1>5

\* ControlInv is preserved by the scope exit of step().
LEMMA ControlStepFinish ==
  ASSUME ControlInv, NEW u \in Users, StepFinish(u)
  PROVE  ControlInv'
<1> USE ThreadsAssumption DEF ControlInv, Threads, StepFinish, FinishWorkingNS, LockAt, At, Goto
<1>1. u \in Threads /\ state[u] \in {"STARTING", "WORKING"}
  BY DEF LabelStates, OutsideLabels, HoldLabels
<1>2. /\ CountersMatch' /\ workCapacity_' \in Nat /\ nWorking_' \in Nat
      /\ state' \in [Threads -> WorkerState]
  <2>1. "FINISHED" \in WorkerState /\ ChangeStateNS(u, "FINISHED")
    BY DEF WorkerState
  <2>2. QED
    BY <1>1, <2>1, ChangeStateCounts
<1>3. TypeOK'
  BY <1>2 DEF TypeOK, WorkerLabels, UserLabels, StepLabels, queueVars, statVars,
       cvVars, stopVars, localVars, callVars
<1>4. LabelStates' /\ PathHeld'
  BY <1>1 DEF TypeOK, ChangeStateNS, LabelStates, PathHeld, OutsideLabels,
       HoldLabels, localVars
<1>5. MutexHeld' /\ StopFlag' /\ WorkersKnown'
  BY <1>1 DEF TypeOK, MutexHeld, StopFlag, WorkersKnown, stopVars
<1>6. QED
  BY <1>2, <1>3, <1>4, <1>5

\* takeNextWorkItem and takeNextWorkItemNow give a path to a thread.
LEMMA ControlClaim ==
  ASSUME ControlInv, NEW t \in Threads, Claim(t),
         pc[t] \in {"take", "takeNow"}, mutex_ = NoThread,
         UNCHANGED <<statVars, cvVars, stopVars, callVars>>
  PROVE  ControlInv'
<1> USE ThreadsAssumption, ForestAssumption DEF ControlInv, Threads
<1>1. state[t] \in {"STARTING", "WAITING"}
  BY DEF LabelStates
<1>2. PICK p \in frontier_ :
        /\ frontier_' = frontier_ \ {p}
        /\ ChangeStateNS(t, "WORKING")
        /\ inProgress_' = [inProgress_ EXCEPT ![t] = p]
        /\ cur' = [cur EXCEPT ![t] = p]
        /\ Goto(t, "execute")
        /\ UNCHANGED <<interesting_, inserted, todo>>
  BY DEF Claim
<1>3. /\ CountersMatch' /\ workCapacity_' \in Nat /\ nWorking_' \in Nat
      /\ state' \in [Threads -> WorkerState]
  <2>1. "WORKING" \in WorkerState
    BY DEF WorkerState
  <2>2. QED
    BY <1>1, <1>2, <2>1, ChangeStateCounts
<1>4. TypeOK'
  BY <1>2, <1>3 DEF TypeOK, Goto, WorkerLabels, UserLabels, StepLabels,
       statVars, cvVars, stopVars, callVars
<1>5. LabelStates' /\ PathHeld'
  BY <1>1, <1>2 DEF TypeOK, Goto, ChangeStateNS, LabelStates, PathHeld,
       OutsideLabels, HoldLabels
<1>6. MutexHeld' /\ StopFlag' /\ WorkersKnown'
  BY <1>2 DEF TypeOK, Goto, MutexHeld, StopFlag, WorkersKnown, stopVars
<1>7. QED
  BY <1>3, <1>4, <1>5, <1>6

\* ControlInv is preserved by takeNextWorkItem.
LEMMA ControlTakeNextWorkItem ==
  ASSUME ControlInv, NEW w \in Workers, TakeNextWorkItem(w)
  PROVE  ControlInv'
<1> USE ThreadsAssumption DEF Threads, LockAt, At, Goto
<1>1. CASE ~stopping_ /\ Claim(w) /\ UNCHANGED mutex_
  BY <1>1, ControlClaim DEF TakeNextWorkItem, stopVars
<1>2. ASSUME pc' = [pc EXCEPT ![w] = "quit"] \/ pc' = [pc EXCEPT ![w] = "takeEmpty"],
             \/ UNCHANGED mutex_ /\ pc' = [pc EXCEPT ![w] = "quit"]
             \/ mutex_' = w,
             UNCHANGED <<queueVars, counterVars, localVars>>
      PROVE  ControlInv'
  <2> USE DEF ControlInv, TakeNextWorkItem
  <2>1. CountersMatch'
    BY <1>2 DEF CountersMatch, Working, Active, counterVars
  <2>2. TypeOK'
    BY <1>2 DEF TypeOK, WorkerLabels, UserLabels, StepLabels, queueVars,
         counterVars, statVars, cvVars, callVars, localVars
  <2>3. LabelStates' /\ PathHeld'
    BY <1>2 DEF TypeOK, LabelStates, PathHeld, OutsideLabels, HoldLabels,
         counterVars, localVars
  <2>4. MutexHeld' /\ StopFlag' /\ WorkersKnown'
    BY <1>2 DEF TypeOK, MutexHeld, StopFlag, WorkersKnown, counterVars
  <2>5. QED
    BY <2>1, <2>2, <2>3, <2>4
<1>3. QED
  BY <1>1, <1>2 DEF TakeNextWorkItem

\* ControlInv is preserved by takeNextWorkItemNow.
LEMMA ControlTakeNextWorkItemNow ==
  ASSUME ControlInv, NEW u \in Users, TakeNextWorkItemNow(u)
  PROVE  ControlInv'
<1> USE ThreadsAssumption DEF Threads, LockAt, At, Goto
<1>1. CASE ~stopping_ /\ Claim(u)
  BY <1>1, ControlClaim DEF TakeNextWorkItemNow
<1>2. CASE /\ stopping_ \/ frontier_ = {}
           /\ pc' = [pc EXCEPT ![u] = "finish"]
           /\ UNCHANGED <<queueVars, counterVars, localVars>>
  <2> USE DEF ControlInv, TakeNextWorkItemNow
  <2>1. CountersMatch'
    BY <1>2 DEF CountersMatch, Working, Active, counterVars
  <2>2. TypeOK'
    BY <1>2 DEF TypeOK, WorkerLabels, UserLabels, StepLabels, queueVars,
         counterVars, statVars, cvVars, stopVars, callVars, localVars
  <2>3. LabelStates' /\ PathHeld'
    BY <1>2 DEF TypeOK, LabelStates, PathHeld, OutsideLabels, HoldLabels,
         counterVars, localVars
  <2>4. MutexHeld' /\ StopFlag' /\ WorkersKnown'
    BY <1>2 DEF TypeOK, MutexHeld, StopFlag, WorkersKnown, counterVars, stopVars
  <2>5. QED
    BY <2>1, <2>2, <2>3, <2>4
<1>3. QED
  BY <1>1, <1>2 DEF TakeNextWorkItemNow

\* ControlInv is preserved by startWorkers.
LEMMA ControlStartWorkers ==
  ASSUME ControlInv, NEW u \in Users, StartWorkers(u)
  PROVE  ControlInv'
<1> USE ThreadsAssumption DEF ControlInv, Threads
<1>1. PICK new \in SUBSET (Workers \ workers_) :
        mutex_ = NoThread /\ Spawn(new) /\ calls[u] < MaxCalls[u]
        /\ calls' = [calls EXCEPT ![u] = @ + 1]
  BY DEF StartWorkers, Begin
<1>2. \A t \in new : pc[t] \in {"off", "exited"} /\ state[t] = "FINISHED"
  BY DEF WorkersKnown, LabelStates, OutsideLabels
<1>3. state' \in [Threads -> WorkerState]
  BY <1>1 DEF Spawn, TypeOK, WorkerState
<1>4. CountersMatch' /\ workCapacity_' \in Nat /\ nWorking_' \in Nat
  <2>1. IsFiniteSet(new) /\ IsFiniteSet(Active) /\ new \cap Active = {}
    BY <1>2, ThreadSets DEF Active
  <2>2. Working' = Working
    BY <1>1, <1>2 DEF Working, Spawn
  <2>3. Active' = Active \cup new
    BY <1>1 DEF Active, Spawn
  <2>4. Cardinality(Active \cup new) =
          Cardinality(Active) + Cardinality(new) - Cardinality(Active \cap new)
    BY <2>1, FS_Union
  <2>5. Cardinality(Active \cap new) = 0
    BY <2>1, FS_EmptySet
  <2>6. Cardinality(new) \in Nat /\ Cardinality(Active) \in Nat
    BY <2>1, FS_CardinalityType
  <2>7. QED
    BY <1>1, <2>2, <2>3, <2>4, <2>5, <2>6 DEF CountersMatch, Spawn, TypeOK
<1>5. TypeOK'
  BY <1>1, <1>3, <1>4 DEF StartWorkers, Spawn, TypeOK, WorkerLabels, UserLabels,
       StepLabels, queueVars, statVars, cvVars, localVars
<1>6. LabelStates' /\ PathHeld'
  BY <1>1, <1>2 DEF StartWorkers, Spawn, TypeOK, LabelStates, PathHeld,
       OutsideLabels, HoldLabels, localVars
<1>7. MutexHeld' /\ StopFlag' /\ WorkersKnown'
  BY <1>1, <1>2 DEF StartWorkers, Spawn, TypeOK, MutexHeld, StopFlag,
       WorkersKnown
<1>8. QED
  BY <1>4, <1>5, <1>6, <1>7


-----------------------------------------------------------------------------
(***************************************************************************)
(* ControlInv holds in every state, and what follows from it.              *)
(***************************************************************************)

\* The control invariant is inductive: it holds at the start and every step
\* of every thread, every call and every spurious wakeup preserves it.
THEOREM ControlHolds == Spec => []ControlInv
<1>1. Init => ControlInv
  <2> SUFFICES ASSUME Init PROVE ControlInv
    OBVIOUS
  <2>1. Working = {} /\ Active = {}
    BY DEF Init, Working, Active
  <2>2. CountersMatch
    BY <2>1, FS_EmptySet DEF Init, CountersMatch
  <2>3. TypeOK
    BY ThreadsAssumption DEF Init, TypeOK, Threads, WorkerState, WorkerLabels,
         UserLabels
  <2>4. LabelStates /\ PathHeld
    BY DEF Init, Threads, LabelStates, PathHeld, OutsideLabels, HoldLabels
  <2>5. MutexHeld /\ StopFlag /\ WorkersKnown
    BY ThreadsAssumption DEF Init, Threads, MutexHeld, StopFlag, WorkersKnown
  <2>6. QED
    BY <2>2, <2>3, <2>4, <2>5 DEF ControlInv
<1>2. ControlInv /\ [Next]_vars => ControlInv'
  <2> SUFFICES ASSUME ControlInv, [Next]_vars PROVE ControlInv'
    OBVIOUS
  <2>1. ASSUME NEW t \in Threads, DoOneStep(t) PROVE ControlInv'
    BY <2>1, ControlExecute, ControlInsertInteresting,
       ControlNotifyInteresting, ControlInsertWork, ControlNotifyWork,
       ControlUpdateFanout, ControlFinishPath DEF DoOneStep
  <2>2. ASSUME NEW w \in Workers, WorkerStep(w) PROVE ControlInv'
    BY <2>1, <2>2, ControlWorkerReady, ControlTakeNextWorkItem,
       ControlTakeNextWorkItemWait, ControlRelax, ControlQuit
       DEF WorkerStep, Threads
  <2>3. ASSUME NEW u \in Users, UserStep(u) PROVE ControlInv'
    BY <2>1, <2>3, ControlRunTest, ControlRunCapacity, ControlRunWait,
       ControlStepStart, ControlTakeNextWorkItemNow, ControlStepFinish,
       ControlStopTest, ControlStopJoin, ControlTakeNextInteresting,
       ControlTakeNextInterestingWait DEF UserStep, Threads
  <2>4. ASSUME NEW u \in Users, UserCall(u) PROVE ControlInv'
    BY <2>4, ControlInsertStartingPoint, ControlUserInsertWork,
       ControlStartWorkers, ControlCall, ControlStop, ControlReset
       DEF UserCall
  <2>5. CASE UNCHANGED vars
    BY <2>5 DEF vars, queueVars, counterVars, statVars, cvVars, stopVars,
         localVars, callVars, ControlInv, TypeOK, CountersMatch, Working,
         Active, LabelStates, PathHeld, MutexHeld, StopFlag, WorkersKnown
  <2>6. QED
    BY <2>2, <2>3, <2>4, <2>5, ControlSpuriousWakeup DEF Next, AtRest
<1>3. QED
  BY <1>1, <1>2, PTL DEF Spec

\* Type correctness: in particular the unsigned counters workCapacity_ and
\* nWorking_, which changeStateNS decrements, never go below zero.
THEOREM TypeCorrect == Spec => []TypeOK
BY ControlHolds, PTL DEF ControlInv

\* nWorking_ and workCapacity_ always are the numbers of threads they name.
THEOREM CountersCorrect == Spec => []CountersMatch
BY ControlHolds, PTL DEF ControlInv

\* inProgress() lists exactly the paths of the threads that hold one.
THEOREM InProgressCorrect == Spec => []InProgressListed
<1>1. ControlInv => InProgressListed
  BY DEF ControlInv, TypeOK, LabelStates, PathHeld, InProgressListed,
       OutsideLabels, HoldLabels, WorkerLabels, UserLabels, StepLabels
<1>2. QED
  BY <1>1, ControlHolds, PTL

\* The assertions of reset() hold whenever it may be called.
THEOREM ResetCorrect == Spec => []ResetAssertions
<1>1. ASSUME ControlInv, Quiescent
      PROVE  /\ workCapacity_ = 0 /\ nWorking_ = 0 /\ ~stopping_
             /\ \A t \in Threads : inProgress_[t] = NoPath
  <2> USE <1>1 DEF ControlInv
  <2>1. \A t \in Threads : pc[t] \in {"idle", "off", "exited"}
    BY DEF Quiescent, WorkersKnown, Threads
  <2>2. \A t \in Threads : state[t] = "FINISHED" /\ inProgress_[t] = NoPath
    BY <2>1 DEF LabelStates, PathHeld, OutsideLabels, HoldLabels
  <2>3. Working = {} /\ Active = {}
    BY <2>2 DEF Working, Active
  <2>4. workCapacity_ = 0 /\ nWorking_ = 0
    BY <2>3, FS_EmptySet DEF CountersMatch
  <2>5. ~stopping_
    BY <2>1 DEF StopFlag, Threads
  <2>6. QED
    BY <2>2, <2>4, <2>5
<1>2. ControlInv => ResetAssertions
  BY <1>1 DEF ResetAssertions
<1>3. QED
  BY <1>2, ControlHolds, PTL


-----------------------------------------------------------------------------
(***************************************************************************)
(* The forest: every path is inserted once and executed once.              *)
(***************************************************************************)

Executing == {t \in Threads : pc[t] = "execute"}

\* Sets of paths are finite.
LEMMA PathSets ==
  ASSUME NEW S, S \subseteq Paths
  PROVE  IsFiniteSet(S) /\ Cardinality(S) \in Nat
<1>1. IsFiniteSet(S)
  BY ForestAssumption, FS_Subset
<1>2. QED
  BY <1>1, FS_CardinalityType

\* A step that moves no path keeps the forest invariant and the count of
\* executed paths, whatever it does to the counters and the waiting threads.
LEMMA ForestFrame ==
  ASSUME ForestInv, WorkConserved,
         UNCHANGED <<frontier_, inserted, cur, todo, nPathsExplored_>>,
         \A t \in Threads : pc'[t] = "execute" <=> pc[t] = "execute",
         \A t \in Threads : todo[t] # {} =>
           pc'[t] \in {"mark", "notifyMark", "extend", "notifyWork"}
  PROVE  ForestInv' /\ WorkConserved'
<1>1. ForestInv'
  BY DEF ForestInv, NoSharedWork, TodoFresh, ParentsFirst
<1>2. Executing' = Executing
  BY DEF Executing
<1>3. WorkConserved'
  BY <1>2 DEF WorkConserved, Executing
<1>4. QED
  BY <1>1, <1>3

\* Taking a path from the frontier keeps it accounted for: it is now the
\* path of one thread, about to be executed, and has no children yet.
LEMMA ForestClaim ==
  ASSUME ControlInv, ForestInv, WorkConserved,
         NEW t \in Threads, Claim(t), pc[t] \in {"take", "takeNow"},
         UNCHANGED nPathsExplored_
  PROVE  ForestInv' /\ WorkConserved'
<1> USE ForestAssumption DEF ControlInv, ForestInv
<1>1. PICK p \in frontier_ :
        /\ frontier_' = frontier_ \ {p}
        /\ cur' = [cur EXCEPT ![t] = p]
        /\ pc' = [pc EXCEPT ![t] = "execute"]
        /\ UNCHANGED <<inserted, todo>>
  BY DEF Claim, Goto
<1>2. p \in Paths /\ p # NoPath /\ cur[t] = NoPath /\ todo[t] = {}
  BY DEF TypeOK, PathHeld, HoldLabels, TodoFresh
<1>3. NoSharedWork'
  BY <1>1, <1>2 DEF NoSharedWork, TypeOK
<1>4. TodoFresh'
  BY <1>1, <1>2 DEF TodoFresh, TypeOK
<1>5. ParentsFirst'
  BY <1>1, <1>2 DEF ParentsFirst, TypeOK
<1>6. WorkConserved'
  <2>1. Executing' = Executing \cup {t} /\ t \notin Executing
    BY <1>1 DEF Executing, TypeOK
  <2>2. IsFiniteSet(Executing) /\ Cardinality(Executing) \in Nat
    BY ThreadSets DEF Executing
  <2>3. Cardinality(Executing') = Cardinality(Executing) + 1
    BY <2>1, <2>2, FS_AddElement
  <2>4. IsFiniteSet(frontier_) /\ Cardinality(frontier_) \in Nat
    BY PathSets DEF TypeOK
  <2>5. Cardinality(frontier_ \ {p}) = Cardinality(frontier_) - 1
    BY <2>4, FS_RemoveElement
  <2>6. QED
    BY <1>1, <2>2, <2>3, <2>4, <2>5 DEF WorkConserved, Executing, TypeOK
<1>7. QED
  BY <1>1, <1>2, <1>3, <1>4, <1>5, <1>6 DEF TypeOK

\* Executing a path moves it from the paths taken to the paths counted, and
\* plans only children that nobody has inserted.
LEMMA ForestExecute ==
  ASSUME ControlInv, ForestInv, WorkConserved, NEW t \in Threads, Execute(t)
  PROVE  ForestInv' /\ WorkConserved'
<1> USE ForestAssumption DEF ControlInv, ForestInv
<1>1. /\ pc[t] = "execute" /\ pc' = [pc EXCEPT ![t] = "mark"]
      /\ nPathsExplored_' = nPathsExplored_ + 1
      /\ UNCHANGED <<frontier_, inserted, cur>>
  BY DEF Execute, LockAt, At, Goto, queueVars
<1>2. PICK next \in {{}, Children[cur[t]]} : todo' = [todo EXCEPT ![t] = next]
  BY DEF Execute
<1>3. cur[t] \in Paths /\ Children[cur[t]] \cap inserted = {}
  BY <1>1 DEF TypeOK, PathHeld, HoldLabels, ParentsFirst
<1>4. NoSharedWork' /\ ParentsFirst'
  BY <1>1 DEF NoSharedWork, ParentsFirst, TypeOK
<1>5. TodoFresh'
  BY <1>1, <1>2, <1>3 DEF TodoFresh, TypeOK
<1>6. WorkConserved'
  <2>1. Executing' = Executing \ {t} /\ t \in Executing
    BY <1>1 DEF Executing, TypeOK
  <2>2. IsFiniteSet(Executing) /\ Cardinality(Executing) \in Nat
    BY ThreadSets DEF Executing
  <2>3. Cardinality(Executing') = Cardinality(Executing) - 1
    BY <2>1, <2>2, FS_RemoveElement
  <2>4. Cardinality(frontier_) \in Nat
    BY PathSets DEF TypeOK
  <2>5. QED
    BY <1>1, <2>2, <2>3, <2>4 DEF WorkConserved, Executing, TypeOK
<1>7. QED
  BY <1>1, <1>4, <1>5, <1>6

\* Putting a new path on the frontier: nothing that was accounted for is
\* disturbed, because the path is new and no thread plans to insert it.
LEMMA ForestInsert ==
  ASSUME ControlInv, ForestInv, WorkConserved,
         NEW c \in Paths \ inserted,
         frontier_' = frontier_ \cup {c}, inserted' = inserted \cup {c},
         UNCHANGED <<cur, nPathsExplored_>>,
         \A t \in Threads : pc'[t] = "execute" <=> pc[t] = "execute",
         TodoFresh',
         \A p \in Paths : c \in Children[p] =>
           /\ p \in inserted \ frontier_
           /\ \A t \in Threads : cur[t] = p => pc[t] # "execute"
  PROVE  ForestInv' /\ WorkConserved'
<1> USE ForestAssumption DEF ControlInv, ForestInv
<1>1. NoSharedWork'
  BY DEF NoSharedWork, TypeOK
<1>2. ParentsFirst'
  BY DEF ParentsFirst, TypeOK
<1>3. WorkConserved'
  <2>1. Executing' = Executing
    BY DEF Executing
  <2>2. Cardinality(Executing) \in Nat
    BY ThreadSets DEF Executing
  <2>3. IsFiniteSet(frontier_) /\ Cardinality(frontier_) \in Nat
    BY PathSets DEF TypeOK
  <2>4. IsFiniteSet(inserted) /\ Cardinality(inserted) \in Nat
    BY PathSets DEF TypeOK
  <2>5. Cardinality(frontier_ \cup {c}) = Cardinality(frontier_) + 1
    BY <2>3, FS_AddElement
  <2>6. Cardinality(inserted \cup {c}) = Cardinality(inserted) + 1
    BY <2>4, FS_AddElement
  <2>7. /\ nPathsExplored_ \in Nat
        /\ nPathsExplored_ + Cardinality(frontier_) + Cardinality(Executing)
             = Cardinality(inserted)
    BY DEF WorkConserved, Executing, TypeOK
  <2>8. nPathsExplored_' + Cardinality(frontier_') + Cardinality(Executing')
          = Cardinality(inserted')
    BY <2>1, <2>2, <2>3, <2>4, <2>5, <2>6, <2>7
  <2>9. QED
    BY <2>8 DEF WorkConserved, Executing
<1>4. QED
  BY <1>1, <1>2, <1>3

\* extend() inserts a child of the path that the thread holds.
LEMMA ForestInsertWork ==
  ASSUME ControlInv, ForestInv, WorkConserved, NEW t \in Threads, InsertWork(t)
  PROVE  ForestInv' /\ WorkConserved'
<1> USE ForestAssumption DEF ControlInv, ForestInv
<1>1. PICK c \in todo[t] :
        /\ todo' = [todo EXCEPT ![t] = @ \ {c}]
        /\ \/ /\ frontier_' = frontier_ \cup {c}
              /\ inserted' = inserted \cup {c}
              /\ pc' = [pc EXCEPT ![t] = "notifyWork"]
           \/ UNCHANGED <<frontier_, inserted, pc>>
  BY DEF InsertWork, Goto
<1>2. /\ pc[t] = "extend" /\ UNCHANGED <<cur, nPathsExplored_>>
      /\ cur[t] \in Paths /\ c \in Children[cur[t]] /\ c \in Paths \ inserted
  BY <1>1 DEF InsertWork, At, statVars, TypeOK, TodoFresh
<1>3. CASE UNCHANGED <<frontier_, inserted, pc>>
  <2>1. TodoFresh'
    BY <1>1, <1>2, <1>3 DEF TodoFresh, TypeOK
  <2>2. NoSharedWork' /\ ParentsFirst'
    BY <1>2, <1>3 DEF NoSharedWork, ParentsFirst
  <2>3. Executing' = Executing
    BY <1>3 DEF Executing
  <2>4. WorkConserved'
    BY <1>2, <1>3, <2>3 DEF WorkConserved, Executing
  <2>5. QED
    BY <1>2, <1>3, <2>1, <2>2, <2>4
<1>4. CASE /\ frontier_' = frontier_ \cup {c}
           /\ inserted' = inserted \cup {c}
           /\ pc' = [pc EXCEPT ![t] = "notifyWork"]
  <2>1. \A s \in Threads : s # t => c \notin todo[s]
    BY <1>2 DEF TodoFresh, NoSharedWork, TypeOK
  <2>2. TodoFresh'
    BY <1>1, <1>2, <1>4, <2>1 DEF TodoFresh, TypeOK
  <2>3. \A p \in Paths : c \in Children[p] => p = cur[t]
    BY <1>2
  <2>4. \A s \in Threads : cur[s] = cur[t] => s = t
    BY <1>2 DEF NoSharedWork
  <2>5. cur[t] \in inserted \ frontier_
    BY <1>2 DEF NoSharedWork
  <2>6. \A s \in Threads : pc'[s] = "execute" <=> pc[s] = "execute"
    BY <1>2, <1>4 DEF TypeOK
  <2>7. \A p \in Paths : c \in Children[p] =>
           /\ p \in inserted \ frontier_
           /\ \A s \in Threads : cur[s] = p => pc[s] # "execute"
    BY <1>2, <2>3, <2>4, <2>5
  <2>8. QED
    BY <1>2, <1>4, <2>2, <2>6, <2>7, ForestInsert
<1>5. QED
  BY <1>1, <1>3, <1>4

\* A user inserts a starting point, which is nobody's child.
LEMMA ForestInsertRoot ==
  ASSUME ControlInv, ForestInv, WorkConserved, NEW u \in Users,
         NEW r \in Roots \ inserted,
         frontier_' = frontier_ \cup {r}, inserted' = inserted \cup {r},
         UNCHANGED <<cur, todo, nPathsExplored_>>,
         pc[u] = "idle", UNCHANGED pc \/ pc' = [pc EXCEPT ![u] = "notifyWork"]
  PROVE  ForestInv' /\ WorkConserved'
<1> USE ForestAssumption DEF ControlInv, ForestInv, Threads
<1>1. r \in Paths \ inserted /\ \A p \in Paths : r \notin Children[p]
  OBVIOUS
<1>2. TodoFresh'
  BY <1>1 DEF TodoFresh, TypeOK
<1>3. \A s \in Threads : pc'[s] = "execute" <=> pc[s] = "execute"
  BY DEF TypeOK
<1>4. QED
  BY <1>1, <1>2, <1>3, ForestInsert

\* finishPath lets go of a path that has nothing left to insert.
LEMMA ForestFinishPath ==
  ASSUME ControlInv, ForestInv, WorkConserved, NEW t \in Threads, FinishPath(t)
  PROVE  ForestInv' /\ WorkConserved'
<1> USE ForestAssumption DEF ControlInv, ForestInv
<1>1. /\ pc[t] = "finishPath" /\ cur' = [cur EXCEPT ![t] = NoPath]
      /\ pc' = [pc EXCEPT ![t] = IF t \in Workers THEN "take" ELSE "finish"]
      /\ UNCHANGED <<frontier_, inserted, todo, nPathsExplored_>>
  BY DEF FinishPath, LockAt, At, Goto, queueVars, statVars
<1>2. todo[t] = {}
  BY <1>1 DEF TodoFresh
<1>3. NoSharedWork' /\ ParentsFirst'
  BY <1>1 DEF NoSharedWork, ParentsFirst, TypeOK
<1>4. TodoFresh'
  BY <1>1, <1>2 DEF TodoFresh, TypeOK
<1>5. Executing' = Executing
  BY <1>1 DEF Executing, TypeOK
<1>6. WorkConserved'
  BY <1>1, <1>5 DEF WorkConserved, Executing
<1>7. QED
  BY <1>1, <1>3, <1>4, <1>6 DEF TypeOK

\* reset() forgets every path, and no thread holds one.
LEMMA ForestReset ==
  ASSUME ControlInv, ForestInv, WorkConserved, NEW u \in Users, Reset(u)
  PROVE  ForestInv' /\ WorkConserved'
<1> USE ForestAssumption DEF ControlInv, ForestInv
<1>1. \A t \in Threads : pc[t] \in {"idle", "off", "exited"}
  BY DEF Reset, Quiescent, WorkersKnown, Threads
<1>2. \A t \in Threads : cur[t] = NoPath /\ todo[t] = {}
  BY <1>1 DEF PathHeld, HoldLabels, TodoFresh
<1>3. frontier_' = {} /\ inserted' = {} /\ nPathsExplored_' = 0
      /\ UNCHANGED <<cur, todo, pc>>
  BY DEF Reset
<1>4. NoSharedWork' /\ ParentsFirst' /\ TodoFresh'
  BY <1>2, <1>3 DEF NoSharedWork, ParentsFirst, TodoFresh
<1>5. Executing' = {}
  BY <1>1, <1>3 DEF Executing
<1>6. WorkConserved'
  BY <1>3, <1>5, FS_EmptySet DEF WorkConserved, Executing
<1>7. QED
  BY <1>2, <1>3, <1>4, <1>6


\* The inductive invariant holds in every state: threads, counters and the
\* mutex as in ControlInv, and every path of the forest accounted for once.
THEOREM IndInvHolds == Spec => []IndInv
<1>1. Init => ForestInv /\ WorkConserved
  <2> SUFFICES ASSUME Init PROVE ForestInv /\ WorkConserved
    OBVIOUS
  <2>1. ForestInv
    BY DEF Init, ForestInv, NoSharedWork, TodoFresh, ParentsFirst
  <2>2. {t \in Threads : pc[t] = "execute"} = {}
    BY DEF Init
  <2>3. QED
    BY <2>1, <2>2, FS_EmptySet DEF Init, WorkConserved
<1>2. ASSUME ControlInv, ControlInv', ForestInv, WorkConserved, [Next]_vars
      PROVE  ForestInv' /\ WorkConserved'
  <2> USE <1>2
  <2>1. ASSUME NEW t \in Threads, DoOneStep(t)
        PROVE  ForestInv' /\ WorkConserved'
    <3>1. CASE InsertInteresting(t) \/ NotifyInteresting(t)
      BY <3>1, ForestFrame DEF InsertInteresting, NotifyInteresting, At, Goto,
           queueVars, statVars, localVars, ControlInv, TypeOK, ForestInv, TodoFresh
    <3>2. CASE NotifyWork(t)
      BY <3>2, ForestFrame DEF NotifyWork, At, Goto, queueVars, statVars,
           localVars, ControlInv, TypeOK, ForestInv, TodoFresh
    <3>3. CASE UpdateFanout(t)
      BY <3>3, ForestFrame DEF UpdateFanout, LockAt, At, Goto, queueVars,
           localVars, ControlInv, TypeOK, ForestInv, TodoFresh
    <3>4. QED
      BY <2>1, <3>1, <3>2, <3>3, ForestExecute, ForestInsertWork,
         ForestFinishPath DEF DoOneStep
  <2>2. ASSUME NEW w \in Workers, WorkerStep(w)
        PROVE  ForestInv' /\ WorkConserved'
    <3> USE DEF Threads, At, LockAt, Goto, queueVars, statVars, localVars
    <3>1. CASE WorkerReady(w) \/ Relax(w)
      BY <3>1, ForestFrame DEF WorkerReady, Relax, ControlInv, TypeOK,
           ForestInv, TodoFresh
    <3>2. CASE Quit(w) \/ TakeNextWorkItemWait(w)
      BY <3>2, ForestFrame DEF Quit, TakeNextWorkItemWait, ControlInv, TypeOK,
           ForestInv, TodoFresh
    <3>3. CASE TakeNextWorkItem(w)
      <4>1. CASE Claim(w)
        BY <3>3, <4>1, ForestClaim DEF TakeNextWorkItem
      <4>2. CASE ~Claim(w)
        BY <3>3, <4>2, ForestFrame DEF TakeNextWorkItem, ControlInv, TypeOK,
             ForestInv, TodoFresh
      <4>3. QED
        BY <3>3, <4>1, <4>2 DEF TakeNextWorkItem
    <3>4. QED
      BY <2>1, <2>2, <3>1, <3>2, <3>3 DEF WorkerStep
  <2>3. ASSUME NEW u \in Users, UserStep(u)
        PROVE  ForestInv' /\ WorkConserved'
    <3> USE DEF Threads, At, LockAt, Goto, queueVars, statVars, localVars
    <3>1. CASE RunTest(u) \/ RunCapacity(u) \/ RunWait(u)
      BY <3>1, ForestFrame DEF RunTest, RunCapacity, RunWait, ControlInv,
           TypeOK, ForestInv, TodoFresh
    <3>2. CASE StepStart(u)
      BY <3>2, ForestFrame DEF StepStart, ControlInv, TypeOK, ForestInv,
           TodoFresh
    <3>3. CASE StepFinish(u)
      BY <3>3, ForestFrame DEF StepFinish, ControlInv, TypeOK, ForestInv,
           TodoFresh
    <3>4. CASE StopTest(u) \/ StopJoin(u)
      BY <3>4, ForestFrame DEF StopTest, StopJoin, ControlInv, TypeOK,
           ForestInv, TodoFresh
    <3>5. CASE TakeNextInteresting(u) \/ TakeNextInterestingWait(u)
      BY <3>5, ForestFrame DEF TakeNextInteresting, TakeNextInterestingWait,
           ControlInv, TypeOK, ForestInv, TodoFresh
    <3>6. CASE TakeNextWorkItemNow(u)
      <4>1. CASE Claim(u)
        BY <3>6, <4>1, ForestClaim DEF TakeNextWorkItemNow
      <4>2. CASE ~Claim(u)
        BY <3>6, <4>2, ForestFrame DEF TakeNextWorkItemNow, ControlInv, TypeOK,
             ForestInv, TodoFresh
      <4>3. QED
        BY <3>6, <4>1, <4>2 DEF TakeNextWorkItemNow
    <3>7. QED
      BY <2>1, <2>3, <3>1, <3>2, <3>3, <3>4, <3>5, <3>6 DEF UserStep
  <2>4. ASSUME NEW u \in Users, UserCall(u)
        PROVE  ForestInv' /\ WorkConserved'
    <3> USE DEF Threads, Begin, Goto, queueVars, statVars, localVars
    <3>1. CASE InsertStartingPoint(u)
      <4>1. CASE UNCHANGED <<frontier_, inserted>>
        BY <3>1, <4>1, ForestFrame DEF InsertStartingPoint, ForestInv, TodoFresh
      <4>2. CASE ~UNCHANGED <<frontier_, inserted>>
        BY <3>1, <4>2, ForestInsertRoot DEF InsertStartingPoint
      <4>3. QED
        BY <4>1, <4>2
    <3>2. CASE UserInsertWork(u)
      BY <3>2, ForestInsertRoot DEF UserInsertWork
    <3>3. CASE StartWorkers(u)
      <4>1. \A t \in Threads :
              \/ pc'[t] = pc[t]
              \/ t \in Workers \ workers_ /\ pc'[t] = "born"
        BY <3>3 DEF StartWorkers, Spawn
      <4>2. \A t \in Threads : t \in Workers \ workers_ =>
              pc[t] \in {"off", "exited"} /\ todo[t] = {}
        BY DEF ControlInv, WorkersKnown, ForestInv, TodoFresh
      <4>3. UNCHANGED <<frontier_, inserted, cur, todo, nPathsExplored_>>
        BY <3>3 DEF StartWorkers
      <4>4. QED
        BY <4>1, <4>2, <4>3, ForestFrame DEF ForestInv, TodoFresh
    <3>4. CASE Call(u) \/ Stop(u)
      BY <3>4, ForestFrame DEF Call, Stop, ControlInv, TypeOK, ForestInv,
           TodoFresh
    <3>5. QED
      BY <2>4, <3>1, <3>2, <3>3, <3>4, ForestReset DEF UserCall
  <2>5. CASE (\E t \in Threads : SpuriousWakeup(t)) \/ UNCHANGED vars
    BY <2>5, ForestFrame DEF SpuriousWakeup, vars, queueVars, statVars,
         localVars, ForestInv, TodoFresh
  <2>6. QED
    BY <2>2, <2>3, <2>4, <2>5 DEF Next, AtRest
<1>3. QED
  BY <1>1, <1>2, ControlHolds, PTL DEF Spec, IndInv

=============================================================================
