--------------------------- MODULE PathNodeProofs ---------------------------
(***************************************************************************)
(* Proofs about PathNode: who may change a node is decided by the node's   *)
(* lock for the common beginnings of paths, and by the engine's hand-out   *)
(* of paths for the nodes at which paths end.                              *)
(***************************************************************************)
EXTENDS PathNode, SequenceTheorems, TLAPS

Executing == {"execute", "copyParent", "run"}

\* Nothing has happened to the node, or its execution is over.
Fresh(n) == outgoingState_[n] = NoNode /\ ~executionFailed_[n] /\ executions[n] = 0
Done(n) == outgoingState_[n] # NoNode \/ executionFailed_[n]

\* The k-th activation of execute has the lock of its node.
Locked(w, k) ==
  /\ k \in 1..Len(frames[w])
  /\ k < Len(frames[w]) \/ pc[w] \in {"copyParent", "run"}

\* A path is in one place, and in the hands of one worker.
PathInv ==
  /\ pending \subseteq Ends /\ active \subseteq Ends /\ explored \subseteq Ends
  /\ pending \cap active = {} /\ pending \cap explored = {} /\ active \cap explored = {}
  /\ \A w \in Workers : pc[w] # "clone"
  /\ \A w \in Workers : pc[w] = "idle" => path[w] = NoNode
  /\ \A w \in Workers : pc[w] # "idle" => path[w] \in active
  /\ \A v, w \in Workers : v # w /\ path[v] # NoNode => path[v] # path[w]
  /\ \A t \in Consumers : pc[t] \in {"idle", "clone"}

\* Activations lead from the end of a path towards its beginning, and leave the
\* nodes at which paths end alone.
FrameInv ==
  \A w \in Workers :
    /\ pc[w] \in Executing => Len(frames[w]) > 0
    /\ pc[w] \notin Executing => Len(frames[w]) = 0
    /\ Len(frames[w]) > 0 => frames[w][1] = path[w]
    /\ \A k \in 2..Len(frames[w]) :
         frames[w][k] \notin Ends /\ frames[w][k] = Parent[frames[w][k - 1]]
    /\ pc[w] = "copyParent" =>
         /\ Parent[Top(w)] \in Nodes \ Ends
         /\ Done(Parent[Top(w)])

\* A node whose execution is going on is locked.
LockInv ==
  /\ \A w \in Workers : \A k \in 1..Len(frames[w]) :
       Locked(w, k) => mutex_[frames[w][k]] = w /\ Fresh(frames[w][k])
  /\ \A w \in Workers : \A j, k \in 1..Len(frames[w]) :
       Locked(w, j) /\ Locked(w, k) /\ j # k => frames[w][j] # frames[w][k]
  /\ \A t \in Consumers : pc[t] = "clone" => path[t] \in Nodes /\ mutex_[path[t]] = t

NodeInv ==
  \A n \in Nodes :
    /\ outgoingState_[n] \in {NoNode, n}
    /\ executions[n] \in {0, 1}
    /\ executionFailed_[n] => outgoingState_[n] = NoNode
    /\ n \notin Ends /\ executions[n] = 1 => Done(n)
    /\ n \in Ends /\ n \notin active \cup explored => Fresh(n)
    /\ n \in explored => outgoingState_[n] = NoNode
    /\ cause[n] = "noState" => Parent[n] \in Nodes /\ executionFailed_[Parent[n]]

\* The worker on path p has given the state at its end to new paths.
HandedOn(p) ==
  p \in explored \/ \E w \in Workers : path[w] = p /\ pc[w] \in {"children", "finishPath"}

IncomingInv ==
  \A n \in Nodes :
    /\ incomingState_[n] # NoNode =>
         /\ executions[n] = 0
         /\ incomingState_[n] \in Nodes
         /\ n \in NextUnits[incomingState_[n]]
         /\ HandedOn(incomingState_[n])
    /\ n \in pending \ Starts => incomingState_[n] # NoNode

\* What the worker on a path knows about the node at its end.
OwnerInv ==
  \A w \in Workers :
    /\ pc[w] \in Executing \cup {"skip"} =>
         Fresh(path[w]) /\ (path[w] \in Starts \/ incomingState_[path[w]] # NoNode)
    /\ pc[w] \in {"insertInteresting", "extend"} => Done(path[w])
    /\ pc[w] = "borrow" => outgoingState_[path[w]] # NoNode
    /\ pc[w] = "nextUnits" => /\ outgoingState_[path[w]] = NoNode
                              /\ ~executionFailed_[path[w]] /\ borrowed[w] = path[w]
    /\ pc[w] = "children" => outgoingState_[path[w]] = path[w] /\ borrowed[w] = path[w]
    /\ pc[w] = "finishPath" => outgoingState_[path[w]] = NoNode

IndInv ==
  TypeOK /\ PathInv /\ FrameInv /\ LockInv /\ NodeInv /\ IncomingInv /\ OwnerInv

-----------------------------------------------------------------------------
USE TreeAssumption, ThreadsAssumption DEF Threads

\* What popping the stack of activations leaves.
LEMMA Popped ==
  ASSUME NEW s \in Seq(Nodes), Len(s) > 0
  PROVE  /\ SubSeq(s, 1, Len(s) - 1) \in Seq(Nodes)
         /\ Len(SubSeq(s, 1, Len(s) - 1)) = Len(s) - 1
         /\ \A k \in 1..(Len(s) - 1) : SubSeq(s, 1, Len(s) - 1)[k] = s[k]
<1>1. Len(s) \in Nat /\ \A k \in 1..(Len(s) - 1) : s[k] \in Nodes
  OBVIOUS
<1> DEFINE m == Len(s) - 1
<1>2. m \in Int /\ \A k \in 1..m : s[k] \in Nodes
  BY <1>1
<1>3. /\ SubSeq(s, 1, m) \in Seq(Nodes)
      /\ Len(SubSeq(s, 1, m)) = IF 1 <= m THEN m - 1 + 1 ELSE 0
      /\ \A k \in 1..(m - 1 + 1) : SubSeq(s, 1, m)[k] = s[1 + k - 1]
  <2> HIDE DEF m
  <2> QED BY <1>2, SubSeqProperties
<1> DEFINE p == SubSeq(s, 1, m)
<1>4. p \in Seq(Nodes) /\ Len(p) = m /\ \A k \in 1..m : p[k] = s[k]
  <2>1. m \in Nat
    BY <1>1
  <2> HIDE DEF m, p
  <2>2. p \in Seq(Nodes) /\ Len(p) = (IF 1 <= m THEN m - 1 + 1 ELSE 0)
        /\ \A k \in 1..(m - 1 + 1) : p[k] = s[1 + k - 1]
    BY <1>3 DEF p
  <2> QED
    BY <2>1, <2>2
<1> QED
  BY <1>4

\* What pushing an activation adds.
LEMMA Pushed ==
  ASSUME NEW s \in Seq(Nodes), NEW n \in Nodes
  PROVE  /\ Append(s, n) \in Seq(Nodes)
         /\ Len(Append(s, n)) = Len(s) + 1
         /\ \A k \in 1..Len(s) : Append(s, n)[k] = s[k]
         /\ Append(s, n)[Len(s) + 1] = n
  OBVIOUS

\* The node of the innermost activation is a node.
LEMMA TopIsNode ==
  ASSUME TypeOK, NEW t \in Threads, Len(frames[t]) > 0
  PROVE  /\ Len(frames[t]) \in Nat
         /\ Top(t) \in Nodes
         /\ Top(t) = frames[t][Len(frames[t])]
  BY DEF TypeOK, Top

\* The initial state satisfies the invariant.
LEMMA InitInv == Init => IndInv
<1> SUFFICES ASSUME Init PROVE IndInv
  OBVIOUS
<1> USE DEF Init, Forest!Init
<1>1. TypeOK
  BY DEF TypeOK, States
<1>2. PathInv
  BY DEF PathInv
<1>3. FrameInv
  BY DEF FrameInv, Executing
<1>4. LockInv
  BY DEF LockInv, Locked
<1>5. NodeInv
  BY DEF NodeInv, Fresh, Done
<1>6. IncomingInv
  BY DEF IncomingInv
<1>7. OwnerInv
  BY DEF OwnerInv, Executing
<1> QED
  BY <1>1, <1>2, <1>3, <1>4, <1>5, <1>6, <1>7 DEF IndInv

\* A new starting point.
LEMMA InsertStartingPointInv ==
  ASSUME IndInv, NEW n \in Nodes, InsertStartingPoint(n)
  PROVE  IndInv'
<1> USE DEF InsertStartingPoint, Forest!Submit, Forest!Known, nodeVars, extendVars, IndInv
<1>1. TypeOK'
  BY DEF TypeOK, States
<1>2. PathInv'
  BY DEF PathInv, Ends
<1>3. FrameInv'
  BY DEF FrameInv, Top, Done
<1>4. LockInv'
  BY DEF LockInv, Locked, Fresh
<1>5. NodeInv'
  BY DEF NodeInv, Fresh, Done
<1>6. IncomingInv'
  BY DEF IncomingInv, HandedOn
<1>7. OwnerInv'
  BY DEF OwnerInv, Fresh, Done
<1> QED
  BY <1>1, <1>2, <1>3, <1>4, <1>5, <1>6, <1>7

\* A worker takes a path that it will skip.
LEMMA ClaimSkipInv ==
  ASSUME IndInv, NEW w \in Workers, NEW n \in Nodes, pc[w] = "idle", Forest!Claim(n),
         path' = [path EXCEPT ![w] = n],
         UNCHANGED <<interesting, nodeVars, mutex_, extendVars>>,
         Goto(w, "skip"), UNCHANGED frames
  PROVE  IndInv'
<1> USE DEF Forest!Claim, forestVars, nodeVars, extendVars, Goto, Locks, IndInv
<1>1. TypeOK'
  BY DEF TypeOK, States, PathInv, OwnerInv, Ends
<1>2. PathInv'
  BY DEF PathInv, Ends, TypeOK
<1>3. FrameInv'
  BY DEF FrameInv, Executing, Top, Done, TypeOK, PathInv
<1>4. LockInv'
  BY DEF LockInv, Locked, Fresh, TypeOK, FrameInv, Executing, PathInv
<1>5. NodeInv'
  BY DEF NodeInv, Fresh, Done, TypeOK, PathInv, OwnerInv, Executing
<1>6. IncomingInv'
  BY DEF IncomingInv, HandedOn, TypeOK, PathInv, OwnerInv, NodeInv, Fresh
<1>7. OwnerInv'
  BY DEF OwnerInv, Fresh, Done, Executing, TypeOK, PathInv, NodeInv, IncomingInv
<1> QED
  BY <1>1, <1>2, <1>3, <1>4, <1>5, <1>6, <1>7

\* A worker takes a path and starts to execute its end.
LEMMA ClaimExecuteInv ==
  ASSUME IndInv, NEW w \in Workers, NEW n \in Nodes, pc[w] = "idle", Forest!Claim(n),
         path' = [path EXCEPT ![w] = n],
         UNCHANGED <<interesting, nodeVars, mutex_, extendVars>>,
         Goto(w, "execute"), frames' = [frames EXCEPT ![w] = <<n>>]
  PROVE  IndInv'
<1> USE DEF Forest!Claim, forestVars, nodeVars, extendVars, Goto, Locks, IndInv
<1>1. TypeOK'
  BY DEF TypeOK, States, PathInv, OwnerInv, Ends
<1>2. PathInv'
  BY DEF PathInv, Ends, TypeOK
<1>3. FrameInv'
  BY DEF FrameInv, Executing, Top, Done, TypeOK, PathInv
<1>4. LockInv'
  BY DEF LockInv, Locked, Fresh, TypeOK, FrameInv, Executing, PathInv
<1>5. NodeInv'
  BY DEF NodeInv, Fresh, Done, TypeOK, PathInv, OwnerInv, Executing
<1>6. IncomingInv'
  BY DEF IncomingInv, HandedOn, TypeOK, PathInv, OwnerInv, NodeInv, Fresh
<1>7. OwnerInv'
  BY DEF OwnerInv, Fresh, Done, Executing, TypeOK, PathInv, NodeInv, IncomingInv
<1> QED
  BY <1>1, <1>2, <1>3, <1>4, <1>5, <1>6, <1>7

\* The end of a path is marked as failed instead of being executed.
LEMMA DoNotExecuteInv ==
  ASSUME IndInv, NEW w \in Workers, DoNotExecute(w)
  PROVE  IndInv'
<1> USE DEF DoNotExecute, forestVars, nodeVars, extendVars, Goto, Locks, IndInv
<1>1. TypeOK'
  BY DEF TypeOK, States, PathInv, OwnerInv, Ends
<1>2. PathInv'
  BY DEF PathInv, Ends, TypeOK
<1>3. FrameInv'
  BY DEF FrameInv, Executing, Top, Done, TypeOK, PathInv
<1>4. LockInv'
  BY DEF LockInv, Locked, Fresh, TypeOK, FrameInv, Executing, PathInv
<1>5. NodeInv'
  BY DEF NodeInv, Fresh, Done, TypeOK, PathInv, OwnerInv, Executing
<1>6. IncomingInv'
  BY DEF IncomingInv, HandedOn, TypeOK, PathInv, OwnerInv, NodeInv, Fresh
<1>7. OwnerInv'
  BY DEF OwnerInv, Fresh, Done, Executing, TypeOK, PathInv, NodeInv, IncomingInv
<1> QED
  BY <1>1, <1>2, <1>3, <1>4, <1>5, <1>6, <1>7

\* The path is put on the queue of interesting paths, or not.
LEMMA InsertInterestingInv ==
  ASSUME IndInv, NEW w \in Workers, InsertInteresting(w)
  PROVE  IndInv'
<1> USE DEF InsertInteresting, forestVars, nodeVars, extendVars, Goto, Locks, IndInv
<1>1. TypeOK'
  BY DEF TypeOK, States, PathInv, OwnerInv, Ends
<1>2. PathInv'
  BY DEF PathInv, Ends, TypeOK
<1>3. FrameInv'
  BY DEF FrameInv, Executing, Top, Done, TypeOK, PathInv
<1>4. LockInv'
  BY DEF LockInv, Locked, Fresh, TypeOK, FrameInv, Executing, PathInv
<1>5. NodeInv'
  BY DEF NodeInv, Fresh, Done, TypeOK, PathInv, OwnerInv, Executing
<1>6. IncomingInv'
  BY DEF IncomingInv, HandedOn, TypeOK, PathInv, OwnerInv, NodeInv, Fresh
<1>7. OwnerInv'
  BY DEF OwnerInv, Fresh, Done, Executing, TypeOK, PathInv, NodeInv, IncomingInv
<1> QED
  BY <1>1, <1>2, <1>3, <1>4, <1>5, <1>6, <1>7

\* The worker tests whether the execution failed.
LEMMA ExtendInv ==
  ASSUME IndInv, NEW w \in Workers, Extend(w)
  PROVE  IndInv'
<1> USE DEF Extend, MayExtend, forestVars, nodeVars, extendVars, Goto, Locks, IndInv
<1>1. TypeOK'
  BY DEF TypeOK, States, PathInv, OwnerInv, Ends
<1>2. PathInv'
  BY DEF PathInv, Ends, TypeOK
<1>3. FrameInv'
  BY DEF FrameInv, Executing, Top, Done, TypeOK, PathInv
<1>4. LockInv'
  BY DEF LockInv, Locked, Fresh, TypeOK, FrameInv, Executing, PathInv
<1>5. NodeInv'
  BY DEF NodeInv, Fresh, Done, TypeOK, PathInv, OwnerInv, Executing
<1>6. IncomingInv'
  BY DEF IncomingInv, HandedOn, TypeOK, PathInv, OwnerInv, NodeInv, Fresh
<1>7. OwnerInv'
  BY DEF OwnerInv, Fresh, Done, Executing, TypeOK, PathInv, NodeInv, IncomingInv
<1> QED
  BY <1>1, <1>2, <1>3, <1>4, <1>5, <1>6, <1>7

\* The node lends its state.
LEMMA BorrowInv ==
  ASSUME IndInv, NEW w \in Workers, BorrowOutgoingState(w)
  PROVE  IndInv'
<1> USE DEF BorrowOutgoingState, LentBy, forestVars, nodeVars, extendVars, Goto, Locks, IndInv
<1>1. TypeOK'
  BY DEF TypeOK, States, PathInv, OwnerInv, Ends
<1>2. PathInv'
  BY DEF PathInv, Ends, TypeOK
<1>3. FrameInv'
  BY DEF FrameInv, Executing, Top, Done, TypeOK, PathInv
<1>4. LockInv'
  BY DEF LockInv, Locked, Fresh, TypeOK, FrameInv, Executing, PathInv
<1>5. NodeInv'
  BY DEF NodeInv, Fresh, Done, TypeOK, PathInv, OwnerInv, Executing
<1>6. IncomingInv'
  BY DEF IncomingInv, HandedOn, TypeOK, PathInv, OwnerInv, NodeInv, Fresh
<1>7. OwnerInv'
  BY DEF OwnerInv, Fresh, Done, Executing, TypeOK, PathInv, NodeInv, IncomingInv
<1> QED
  BY <1>1, <1>2, <1>3, <1>4, <1>5, <1>6, <1>7

\* The node gets its state back.
LEMMA RestoreInv ==
  ASSUME IndInv, NEW w \in Workers, RestoreOutgoingState(w)
  PROVE  IndInv'
<1> USE DEF RestoreOutgoingState, forestVars, nodeVars, extendVars, Goto, Locks, IndInv
<1>1. TypeOK'
  BY DEF TypeOK, States, PathInv, OwnerInv, Ends
<1>2. PathInv'
  BY DEF PathInv, Ends, TypeOK
<1>3. FrameInv'
  BY DEF FrameInv, Executing, Top, Done, TypeOK, PathInv
<1>4. LockInv'
  BY DEF LockInv, Locked, Fresh, TypeOK, FrameInv, Executing, PathInv
<1>5. NodeInv'
  BY DEF NodeInv, Fresh, Done, TypeOK, PathInv, OwnerInv, Executing
<1>6. IncomingInv'
  BY DEF IncomingInv, HandedOn, TypeOK, PathInv, OwnerInv, NodeInv, Fresh
<1>7. OwnerInv'
  BY DEF OwnerInv, Fresh, Done, Executing, TypeOK, PathInv, NodeInv, IncomingInv
<1> QED
  BY <1>1, <1>2, <1>3, <1>4, <1>5, <1>6, <1>7

\* A new path gets the state, or is refused.
LEMMA InsertChildInv ==
  ASSUME IndInv, NEW w \in Workers, NEW c \in Nodes, InsertChild(w, c)
  PROVE  IndInv'
<1> USE DEF InsertChild, Forest!Discover, Forest!Known, forestVars, nodeVars, extendVars, Goto, Locks, IndInv
<1>1. TypeOK'
  <2>1. incomingState_' \in [Nodes -> States]
    <3>1. incomingState_ \in [Nodes -> States] /\ borrowed[w] \in States
      BY DEF TypeOK
    <3> QED
      BY <3>1
  <2>3. pending' \subseteq Nodes
    BY DEF TypeOK
  <2>2. todo' \in [Threads -> SUBSET Nodes] /\ active' = active /\ explored' = explored
    BY DEF TypeOK
  <2> QED
    BY <2>1, <2>2, <2>3 DEF TypeOK
<1>2. PathInv'
  BY DEF PathInv, Ends, TypeOK
<1>3. FrameInv'
  BY DEF FrameInv, Executing, Top, Done, TypeOK, PathInv
<1>4. LockInv'
  BY DEF LockInv, Locked, Fresh, TypeOK, FrameInv, Executing, PathInv
<1>5. NodeInv'
  BY DEF NodeInv, Fresh, Done, TypeOK, PathInv, OwnerInv, Executing
<1>6. IncomingInv'
  <2>1. path[w] \in Nodes /\ borrowed[w] = path[w] /\ HandedOn(path[w])' /\ pc' = pc /\ path' = path /\ explored' = explored
    BY DEF OwnerInv, PathInv, Ends, HandedOn
  <2>2. CASE incomingState_' = incomingState_ /\ pending' = pending
    BY <2>1, <2>2 DEF IncomingInv, HandedOn
  <2>3. CASE incomingState_' = [incomingState_ EXCEPT ![c] = borrowed[w]] /\ pending' = pending \cup {c} /\ c \in NextUnits[path[w]] \ Forest!Known
    <3>1. c \in Ends /\ c \notin active \cup explored
      BY <2>1, <2>3 DEF Ends
    <3>2. executions[c] = 0
      BY <3>1 DEF NodeInv, Fresh
    <3> QED
      BY <2>1, <2>3, <3>2 DEF IncomingInv, HandedOn, TypeOK
  <2> QED
    BY <2>2, <2>3
<1>7. OwnerInv'
  BY DEF OwnerInv, Fresh, Done, Executing, TypeOK, PathInv, NodeInv, IncomingInv
<1> QED
  BY <1>1, <1>2, <1>3, <1>4, <1>5, <1>6, <1>7

\* The node gives up its state.
LEMMA ReleaseInv ==
  ASSUME IndInv, NEW w \in Workers, ReleaseOutgoingState(w)
  PROVE  IndInv'
<1> USE DEF ReleaseOutgoingState, Releases, forestVars, nodeVars, extendVars, Goto, Locks, IndInv
<1>1. TypeOK'
  BY DEF TypeOK, States, PathInv, OwnerInv, Ends
<1>2. PathInv'
  BY DEF PathInv, Ends, TypeOK
<1>3. FrameInv'
  BY DEF FrameInv, Executing, Top, Done, TypeOK, PathInv
<1>4. LockInv'
  BY DEF LockInv, Locked, Fresh, TypeOK, FrameInv, Executing, PathInv
<1>5. NodeInv'
  BY DEF NodeInv, Fresh, Done, TypeOK, PathInv, OwnerInv, Executing
<1>6. IncomingInv'
  BY DEF IncomingInv, HandedOn, TypeOK, PathInv, OwnerInv, NodeInv, Fresh
<1>7. OwnerInv'
  BY DEF OwnerInv, Fresh, Done, Executing, TypeOK, PathInv, NodeInv, IncomingInv
<1> QED
  BY <1>1, <1>2, <1>3, <1>4, <1>5, <1>6, <1>7

\* The worker lets go of the path.
LEMMA FinishPathInv ==
  ASSUME IndInv, NEW w \in Workers, FinishPath(w)
  PROVE  IndInv'
<1> USE DEF FinishPath, Forest!Complete, forestVars, nodeVars, extendVars, Goto, Locks, IndInv
<1>1. TypeOK'
  BY DEF TypeOK, States, PathInv, OwnerInv, Ends
<1>2. PathInv'
  BY DEF PathInv, Ends, TypeOK
<1>3. FrameInv'
  BY DEF FrameInv, Executing, Top, Done, TypeOK, PathInv
<1>4. LockInv'
  BY DEF LockInv, Locked, Fresh, TypeOK, FrameInv, Executing, PathInv
<1>5. NodeInv'
  BY DEF NodeInv, Fresh, Done, TypeOK, PathInv, OwnerInv, Executing
<1>6. IncomingInv'
  BY DEF IncomingInv, HandedOn, TypeOK, PathInv, OwnerInv, NodeInv, Fresh
<1>7. OwnerInv'
  BY DEF OwnerInv, Fresh, Done, Executing, TypeOK, PathInv, NodeInv, IncomingInv
<1> QED
  BY <1>1, <1>2, <1>3, <1>4, <1>5, <1>6, <1>7

\* A consumer locks a node to copy its state.
LEMMA ConsumerCopiesInv ==
  ASSUME IndInv, NEW t \in Consumers, NEW n \in Nodes, ConsumerCopies(t, n)
  PROVE  IndInv'
<1> USE DEF ConsumerCopies, forestVars, nodeVars, extendVars, Goto, Locks, IndInv
<1>1. TypeOK'
  BY DEF TypeOK, States, PathInv, OwnerInv, Ends
<1>2. PathInv'
  BY DEF PathInv, Ends, TypeOK
<1>3. FrameInv'
  BY DEF FrameInv, Executing, Top, Done, TypeOK, PathInv
<1>4. LockInv'
  BY DEF LockInv, Locked, Fresh, TypeOK, FrameInv, Executing, PathInv
<1>5. NodeInv'
  BY DEF NodeInv, Fresh, Done, TypeOK, PathInv, OwnerInv, Executing
<1>6. IncomingInv'
  BY DEF IncomingInv, HandedOn, TypeOK, PathInv, OwnerInv, NodeInv, Fresh
<1>7. OwnerInv'
  BY DEF OwnerInv, Fresh, Done, Executing, TypeOK, PathInv, NodeInv, IncomingInv
<1> QED
  BY <1>1, <1>2, <1>3, <1>4, <1>5, <1>6, <1>7

\* The consumer unlocks the node.
LEMMA ConsumerReturnsInv ==
  ASSUME IndInv, NEW t \in Consumers, ConsumerReturns(t)
  PROVE  IndInv'
<1> USE DEF ConsumerReturns, forestVars, nodeVars, extendVars, Goto, Locks, IndInv
<1>1. TypeOK'
  BY DEF TypeOK, States, PathInv, OwnerInv, Ends
<1>2. PathInv'
  BY DEF PathInv, Ends, TypeOK
<1>3. FrameInv'
  BY DEF FrameInv, Executing, Top, Done, TypeOK, PathInv
<1>4. LockInv'
  BY DEF LockInv, Locked, Fresh, TypeOK, FrameInv, Executing, PathInv
<1>5. NodeInv'
  BY DEF NodeInv, Fresh, Done, TypeOK, PathInv, OwnerInv, Executing
<1>6. IncomingInv'
  BY DEF IncomingInv, HandedOn, TypeOK, PathInv, OwnerInv, NodeInv, Fresh
<1>7. OwnerInv'
  BY DEF OwnerInv, Fresh, Done, Executing, TypeOK, PathInv, NodeInv, IncomingInv
<1> QED
  BY <1>1, <1>2, <1>3, <1>4, <1>5, <1>6, <1>7

-----------------------------------------------------------------------------
(***************************************************************************)
(* Activations of execute.                                                 *)
(***************************************************************************)

\* The node of the innermost activation: the end of the worker's path, or a
\* node before it that nobody's path ends at.
LEMMA TopFacts ==
  ASSUME IndInv, NEW w \in Workers, pc[w] \in Executing
  PROVE  /\ Len(frames[w]) \in Nat /\ Len(frames[w]) > 0
         /\ Top(w) \in Nodes
         /\ Top(w) = frames[w][Len(frames[w])]
         /\ path[w] \in Ends /\ path[w] \in active
         /\ Top(w) \notin Ends \/ Top(w) = path[w]
         /\ Len(frames[w]) = 1 => Top(w) = path[w]
         /\ Len(frames[w]) > 1 => /\ Top(w) \notin Ends
                                  /\ Top(w) = Parent[frames[w][Len(frames[w]) - 1]]
<1>1. Len(frames[w]) > 0 /\ path[w] \in active /\ path[w] \in Ends
  BY DEF IndInv, FrameInv, PathInv, Executing
<1>2. Len(frames[w]) \in Nat /\ Top(w) \in Nodes /\ Top(w) = frames[w][Len(frames[w])]
  BY <1>1, TopIsNode DEF IndInv
<1>3. Len(frames[w]) = 1 => Top(w) = path[w]
  BY <1>1, <1>2 DEF IndInv, FrameInv
<1>4. ASSUME Len(frames[w]) > 1
      PROVE  Top(w) \notin Ends /\ Top(w) = Parent[frames[w][Len(frames[w]) - 1]]
  <2>1. Len(frames[w]) \in 2..Len(frames[w])
    BY <1>2, <1>4
  <2> QED
    BY <1>2, <2>1 DEF IndInv, FrameInv
<1>5. Len(frames[w]) = 1 \/ Len(frames[w]) > 1
  <2>1. \A l \in Nat : l > 0 => l = 1 \/ l > 1
    OBVIOUS
  <2> QED
    BY <1>1, <1>2, <2>1, Zenon
<1> QED
  BY <1>1, <1>2, <1>3, <1>4, <1>5

\* The stacks after a return.
LEMMA ReturnFacts ==
  ASSUME IndInv, NEW w \in Workers, pc[w] \in Executing, Returns(w)
  PROVE  /\ frames' \in [Threads -> Seq(Nodes)]
         /\ Len(frames'[w]) = Len(frames[w]) - 1
         /\ \A k \in 1..(Len(frames[w]) - 1) : frames'[w][k] = frames[w][k]
         /\ \A v \in Threads : v # w => frames'[v] = frames[v] /\ pc'[v] = pc[v]
         /\ Len(frames[w]) > 1 => pc'[w] = "copyParent"
         /\ Len(frames[w]) = 1 => pc'[w] = "insertInteresting"
<1>1. frames \in [Threads -> Seq(Nodes)] /\ pc = [t \in Threads |-> pc[t]]
  BY DEF IndInv, TypeOK
<1>2. frames[w] \in Seq(Nodes) /\ Len(frames[w]) > 0
  BY <1>1, TopFacts
<1> DEFINE s == SubSeq(frames[w], 1, Len(frames[w]) - 1)
<1>3. /\ s \in Seq(Nodes) /\ Len(s) = Len(frames[w]) - 1
      /\ \A k \in 1..(Len(frames[w]) - 1) : s[k] = frames[w][k]
  BY <1>2, Popped
<1>4. frames' = [frames EXCEPT ![w] = s]
  BY DEF Returns
<1>5. pc' = [pc EXCEPT ![w] = IF Len(frames[w]) > 1 THEN "copyParent" ELSE "insertInteresting"]
  BY DEF Returns, Goto
<1> HIDE DEF s
<1> QED
  BY <1>1, <1>2, <1>3, <1>4, <1>5

\* A return keeps what ties the threads to the nodes, when the execution of the
\* innermost node n is over and no other node has changed.
LEMMA ReturnInv ==
  ASSUME IndInv, NEW w \in Workers, pc[w] \in Executing, Returns(w),
         NEW n, n = Top(w),
         UNCHANGED <<forestVars, path, borrowed>>,
         \A m \in Nodes : m # n => /\ outgoingState_'[m] = outgoingState_[m]
                                   /\ executionFailed_'[m] = executionFailed_[m]
                                   /\ executions'[m] = executions[m]
                                   /\ incomingState_'[m] = incomingState_[m]
                                   /\ mutex_'[m] = mutex_[m],
         mutex_[n] \in {NoNode, w},
         pc[w] = "execute" => mutex_[n] = NoNode,
         outgoingState_'[n] # NoNode \/ executionFailed_'[n]
  PROVE  /\ PathInv' /\ FrameInv' /\ LockInv' /\ OwnerInv'
         /\ \A p : HandedOn(p) => HandedOn(p)'
<1>a. /\ n \in Nodes /\ n = frames[w][Len(frames[w])]
      /\ Len(frames[w]) \in Nat /\ Len(frames[w]) > 0
      /\ path[w] \in Ends /\ path[w] \in active
      /\ Len(frames[w]) = 1 => n = path[w]
      /\ Len(frames[w]) > 1 => n \notin Ends /\ n = Parent[frames[w][Len(frames[w]) - 1]]
  BY TopFacts
<1>b. /\ Len(frames'[w]) = Len(frames[w]) - 1
      /\ \A k \in 1..(Len(frames[w]) - 1) : frames'[w][k] = frames[w][k]
      /\ \A v \in Threads : v # w => frames'[v] = frames[v] /\ pc'[v] = pc[v]
      /\ Len(frames[w]) > 1 => pc'[w] = "copyParent"
      /\ Len(frames[w]) = 1 => pc'[w] = "insertInteresting"
  BY ReturnFacts
<1>1. Len(frames[w]) = 1 \/ Len(frames[w]) > 1
  <2>1. \A l \in Nat : l > 0 => l = 1 \/ l > 1
    OBVIOUS
  <2> QED
    BY <1>a, <2>1, Zenon
<1> USE <1>a, <1>b
<1>2. PathInv'
  <2>1. pc'[w] \notin {"idle", "clone"} /\ pc[w] # "idle"
    BY <1>1 DEF Executing
  <2>2. UNCHANGED <<pending, active, explored, path>>
    BY DEF forestVars
  <2> QED
    BY <2>1, <2>2 DEF IndInv, PathInv
<1>3. \A v \in Workers : v # w /\ pc[v] # "idle" => path[v] # n
  <2>1. \A v \in Workers : pc[v] # "idle" => path[v] \in Ends /\ path[v] # NoNode
    BY DEF IndInv, PathInv, TypeOK
  <2>2. \A v \in Workers : v # w /\ path[v] # NoNode => path[v] # path[w]
    BY DEF IndInv, PathInv
  <2> QED
    BY <1>1, <2>1, <2>2
<1>4. Len(frames[w]) > 1 => path[w] # n
  OBVIOUS
<1>5. OwnerInv'
  <2> SUFFICES ASSUME NEW v \in Workers PROVE OwnerInv!(v)'
    BY DEF OwnerInv
  <2>1. CASE v # w
    <3>1. pc[v] # "idle" => path[v] \in Nodes /\ path[v] # n
      BY <1>3, <2>1 DEF IndInv, PathInv, TypeOK
    <3> QED
      BY <2>1, <3>1 DEF IndInv, OwnerInv, Fresh, Done, Executing
  <2>2. CASE v = w /\ Len(frames[w]) > 1
    <3>1. path[w] \in Nodes
      BY DEF IndInv, TypeOK
    <3> QED
      BY <1>4, <2>2, <3>1 DEF IndInv, OwnerInv, Fresh, Executing
  <2>3. CASE v = w /\ Len(frames[w]) = 1
    BY <2>3 DEF OwnerInv, Done, Executing
  <2>4. v # w \/ (v = w /\ Len(frames[w]) > 1) \/ (v = w /\ Len(frames[w]) = 1)
    BY <1>1
  <2> QED
    BY <2>1, <2>2, <2>3, <2>4, Zenon
<1>6. \A v \in Workers : \A k \in 1..Len(frames[v]) :
        Locked(v, k) /\ (v # w \/ k < Len(frames[w])) => frames[v][k] # n
  <2> SUFFICES ASSUME NEW v \in Workers, NEW k \in 1..Len(frames[v]), Locked(v, k),
                      v # w \/ k < Len(frames[w])
               PROVE  frames[v][k] # n
    OBVIOUS
  <2>1. mutex_[frames[v][k]] = v /\ v # NoNode
    BY DEF IndInv, LockInv
  <2>2. CASE v # w
    BY <2>1, <2>2
  <2>3. CASE v = w /\ pc[w] = "execute"
    BY <2>1, <2>3
  <2>4. CASE v = w /\ pc[w] # "execute"
    <3>1. Len(frames[w]) \in 1..Len(frames[w]) /\ Locked(w, Len(frames[w]))
      BY <2>4 DEF Locked, Executing
    <3> QED
      BY <2>4, <3>1 DEF IndInv, LockInv
  <2> QED
    BY <2>2, <2>3, <2>4
<1>7. \A v \in Workers : \A k \in 1..Len(frames'[v]) :
        Locked(v, k)' => /\ k \in 1..Len(frames[v]) /\ Locked(v, k)
                         /\ v # w \/ k < Len(frames[w])
                         /\ frames'[v][k] = frames[v][k]
  BY DEF Locked
<1>8. \A v \in Workers : \A k \in 1..Len(frames[v]) : frames[v][k] \in Nodes
  BY DEF IndInv, TypeOK
<1>9. LockInv'
  <2>1. \A v \in Workers : \A k \in 1..Len(frames'[v]) :
          Locked(v, k)' => mutex_'[frames'[v][k]] = v /\ Fresh(frames[v][k])'
    <3> SUFFICES ASSUME NEW v \in Workers, NEW k \in 1..Len(frames'[v]), Locked(v, k)'
                 PROVE  mutex_'[frames'[v][k]] = v /\ Fresh(frames[v][k])'
      OBVIOUS
    <3>1. /\ k \in 1..Len(frames[v]) /\ Locked(v, k) /\ frames'[v][k] = frames[v][k]
          /\ frames[v][k] # n /\ frames[v][k] \in Nodes
      BY <1>6, <1>7, <1>8
    <3>2. mutex_[frames[v][k]] = v /\ Fresh(frames[v][k])
      BY <3>1 DEF IndInv, LockInv
    <3> QED
      BY <3>1, <3>2 DEF Fresh
  <2>2. \A v \in Workers : \A j, k \in 1..Len(frames'[v]) :
          Locked(v, j)' /\ Locked(v, k)' /\ j # k => frames'[v][j] # frames'[v][k]
    BY <1>7 DEF IndInv, LockInv
  <2>3. \A t \in Consumers : pc'[t] = "clone" => path'[t] \in Nodes /\ mutex_'[path'[t]] = t
    <3>1. \A t \in Consumers : pc[t] = "clone" => path[t] \in Nodes /\ mutex_[path[t]] = t
      BY DEF IndInv, LockInv
    <3>2. \A t \in Consumers : t # w /\ t # NoNode /\ pc'[t] = pc[t]
      OBVIOUS
    <3> QED
      BY <3>1, <3>2
  <2> QED
    BY <2>1, <2>2, <2>3, Zenon DEF LockInv
<1>10. FrameInv'
  <2> SUFFICES ASSUME NEW v \in Workers PROVE FrameInv!(v)'
    BY DEF FrameInv
  <2>1. CASE v # w
    <3>1. frames'[v] = frames[v] /\ pc'[v] = pc[v] /\ path'[v] = path[v]
      BY <2>1
    <3>2. pc[v] = "copyParent" => /\ Parent[Top(v)] \in Nodes \ Ends
                                  /\ Done(Parent[Top(v)])
      BY DEF IndInv, FrameInv
    <3>3. Top(v)' = Top(v)
      BY <3>1 DEF Top
    <3>4. pc[v] = "copyParent" => Done(Parent[Top(v)])'
      BY <3>2, <3>3 DEF Done
    <3> QED
      BY <3>1, <3>2, <3>3, <3>4 DEF IndInv, FrameInv
  <2>2. CASE v = w /\ Len(frames[w]) > 1
    <3>1. Top(w)' = frames[w][Len(frames[w]) - 1]
      BY <2>2 DEF Top
    <3>2. Parent[Top(w)'] = n /\ n \notin Ends
      BY <2>2, <3>1
    <3>3. Done(n)'
      BY DEF Done
    <3>4. pc'[w] = "copyParent" /\ Len(frames'[w]) > 0 /\ path'[w] = path[w]
      BY <2>2
    <3>5. frames'[w][1] = path[w]
      BY <2>2 DEF IndInv, FrameInv
    <3>6. \A k \in 2..Len(frames'[w]) :
            frames'[w][k] \notin Ends /\ frames'[w][k] = Parent[frames'[w][k - 1]]
      <4> SUFFICES ASSUME NEW k \in 2..Len(frames'[w])
                   PROVE  frames'[w][k] \notin Ends /\ frames'[w][k] = Parent[frames'[w][k - 1]]
        OBVIOUS
      <4>1. /\ k \in 2..Len(frames[w])
            /\ frames'[w][k] = frames[w][k] /\ frames'[w][k - 1] = frames[w][k - 1]
        OBVIOUS
      <4> QED
        BY <4>1 DEF IndInv, FrameInv
    <3> QED
      BY <2>2, <3>2, <3>3, <3>4, <3>5, <3>6 DEF Executing
  <2>3. CASE v = w /\ Len(frames[w]) = 1
    BY <2>3 DEF Executing
  <2>4. v # w \/ (v = w /\ Len(frames[w]) > 1) \/ (v = w /\ Len(frames[w]) = 1)
    BY <1>1
  <2> QED
    BY <2>1, <2>2, <2>3, <2>4, Zenon
<1>11. ASSUME NEW p, HandedOn(p) PROVE HandedOn(p)'
  <2>1. CASE p \in explored
    BY <2>1 DEF HandedOn, forestVars
  <2>2. CASE \E v \in Workers : path[v] = p /\ pc[v] \in {"children", "finishPath"}
    <3>1. PICK v \in Workers : path[v] = p /\ pc[v] \in {"children", "finishPath"}
      BY <2>2
    <3>2. v # w
      BY <3>1 DEF Executing
    <3> QED
      BY <3>1, <3>2 DEF HandedOn
  <2> QED
    BY <1>11, <2>1, <2>2 DEF HandedOn
<1> QED
  BY <1>2, <1>5, <1>9, <1>10, <1>11

\* The node has been executed already.
LEMMA ExecuteNothingInv ==
  ASSUME IndInv, NEW w \in Workers, ExecuteNothing(w)
  PROVE  IndInv'
<1> DEFINE n == Top(w)
<1>1. pc[w] \in Executing /\ Returns(w) /\ mutex_[n] = NoNode /\ Done(n)
  BY DEF ExecuteNothing, Executing, Locks, AlreadyExecuted, Done
<1>2. UNCHANGED <<forestVars, interesting, nodeVars, mutex_, path, extendVars>>
  BY DEF ExecuteNothing
<1>3. /\ PathInv' /\ FrameInv' /\ LockInv' /\ OwnerInv'
      /\ \A p : HandedOn(p) => HandedOn(p)'
  <2> HIDE DEF n
  <2> QED BY <1>1, <1>2, ReturnInv DEF n, nodeVars, extendVars, Done
<1>4. TypeOK'
  BY <1>1, <1>2, ReturnFacts
     DEF IndInv, TypeOK, forestVars, nodeVars, extendVars, ExecuteNothing, Returns, Goto
<1>5. NodeInv'
  BY <1>2 DEF IndInv, NodeInv, Fresh, Done, forestVars, nodeVars
<1>6. IncomingInv'
  BY <1>2, <1>3 DEF IndInv, IncomingInv, forestVars, nodeVars
<1> QED
  BY <1>3, <1>4, <1>5, <1>6 DEF IndInv

\* The node is rejected because of its instructions.
LEMMA ExecuteUnknownInv ==
  ASSUME IndInv, NEW w \in Workers, ExecuteUnknown(w)
  PROVE  IndInv'
<1> DEFINE n == Top(w)
<1>1. pc[w] \in Executing /\ Returns(w) /\ mutex_[n] = NoNode /\ ~Done(n)
  BY DEF ExecuteUnknown, Executing, Locks, AlreadyExecuted, Done
<1>2. /\ executionFailed_' = [executionFailed_ EXCEPT ![n] = TRUE]
      /\ cause' = [cause EXCEPT ![n] = "own"]
      /\ UNCHANGED <<forestVars, interesting, incomingState_, outgoingState_, executions,
                     mutex_, path, extendVars>>
  BY DEF ExecuteUnknown
<1>t. n \in Nodes /\ executionFailed_ \in [Nodes -> BOOLEAN]
  BY <1>1, TopFacts DEF IndInv, TypeOK
<1>3. /\ PathInv' /\ FrameInv' /\ LockInv' /\ OwnerInv'
      /\ \A p : HandedOn(p) => HandedOn(p)'
  <2>1. executionFailed_'[n] /\ \A m \in Nodes : m # n => executionFailed_'[m] = executionFailed_[m]
    BY <1>2, <1>t
  <2>2. \A m \in Nodes : m # n => /\ outgoingState_'[m] = outgoingState_[m]
                                   /\ executionFailed_'[m] = executionFailed_[m]
                                   /\ executions'[m] = executions[m]
                                   /\ incomingState_'[m] = incomingState_[m]
                                   /\ mutex_'[m] = mutex_[m]
    BY <1>2, <2>1
  <2>3. /\ UNCHANGED <<forestVars, path, borrowed>>
        /\ mutex_[n] \in {NoNode, w} /\ (pc[w] = "execute" => mutex_[n] = NoNode)
        /\ outgoingState_'[n] # NoNode \/ executionFailed_'[n]
    BY <1>1, <1>2, <2>1 DEF extendVars
  <2> HIDE DEF n
  <2> QED BY <1>1, <2>2, <2>3, ReturnInv DEF n
<1>4. TypeOK'
  BY <1>1, <1>2, <1>t, ReturnFacts
     DEF IndInv, TypeOK, forestVars, extendVars, Returns, Goto
<1>5. NodeInv'
  <2>1. n \notin Ends \/ n \in active
    BY <1>1, TopFacts
  <2> HIDE DEF n
  <2> QED
    BY <1>1, <1>2, <1>t, <2>1 DEF IndInv, TypeOK, PathInv, NodeInv, Fresh, Done, forestVars
<1>6. IncomingInv'
  BY <1>2, <1>3 DEF IndInv, IncomingInv, forestVars
<1> QED
  BY <1>3, <1>4, <1>5, <1>6 DEF IndInv

\* The execution of a locked node ends, in a state or in failure.
LEMMA FinishInv ==
  ASSUME IndInv, NEW w \in Workers, pc[w] \in {"copyParent", "run"},
         NEW state \in {NoNode, Top(w)}, NEW why \in {"none", "own", "noState"},
         Finish(w, state, why),
         state # NoNode => why # "noState",
         why = "noState" => Parent[Top(w)] \in Nodes /\ executionFailed_[Parent[Top(w)]],
         executions' = executions
           \/ executions' = [executions EXCEPT ![Top(w)] = @ + 1]
  PROVE  IndInv'
<1> DEFINE n == Top(w)
<1>1. pc[w] \in Executing /\ Returns(w) /\ pc[w] # "execute"
  BY DEF Executing, Finish
<1>2. /\ outgoingState_' = [outgoingState_ EXCEPT ![n] = state]
      /\ executionFailed_' = [executionFailed_ EXCEPT ![n] = (state = NoNode)]
      /\ incomingState_' = [incomingState_ EXCEPT ![n] = NoNode]
      /\ cause' = [cause EXCEPT ![n] = why]
      /\ mutex_' = [mutex_ EXCEPT ![n] = NoNode]
      /\ UNCHANGED <<forestVars, interesting, path, extendVars>>
  BY DEF Finish
<1>3. n \in Nodes /\ (n \notin Ends \/ n = path[w]) /\ path[w] \in active
  BY <1>1, TopFacts
<1>4. mutex_[n] = w /\ Fresh(n)
  <2>1. Len(frames[w]) \in 1..Len(frames[w]) /\ Locked(w, Len(frames[w]))
    BY <1>1, TopFacts DEF Locked
  <2> QED
    BY <1>1, <2>1, TopFacts DEF IndInv, LockInv
<1>5. /\ executions' \in [Nodes -> Nat] /\ executions'[n] \in {0, 1}
      /\ \A m \in Nodes : m # n => executions'[m] = executions[m]
  <2>1. executions \in [Nodes -> Nat] /\ executions[n] = 0
    BY <1>4 DEF IndInv, TypeOK, Fresh
  <2>2. CASE executions' = executions
    BY <2>1, <2>2
  <2>3. CASE executions' = [executions EXCEPT ![n] = @ + 1]
    <3> HIDE DEF n
    <3> QED
      BY <1>3, <2>1, <2>3
  <2> QED
    BY <2>2, <2>3
<1>6. /\ outgoingState_'[n] = state /\ executionFailed_'[n] = (state = NoNode)
      /\ incomingState_'[n] = NoNode /\ cause'[n] = why /\ mutex_'[n] = NoNode
      /\ \A m \in Nodes : m # n => /\ outgoingState_'[m] = outgoingState_[m]
                                   /\ executionFailed_'[m] = executionFailed_[m]
                                   /\ incomingState_'[m] = incomingState_[m]
                                   /\ cause'[m] = cause[m]
                                   /\ mutex_'[m] = mutex_[m]
  BY <1>2, <1>3 DEF IndInv, TypeOK
<1>7. /\ PathInv' /\ FrameInv' /\ LockInv' /\ OwnerInv'
      /\ \A p : HandedOn(p) => HandedOn(p)'
  <2>2. \A m \in Nodes : m # n => /\ outgoingState_'[m] = outgoingState_[m]
                                   /\ executionFailed_'[m] = executionFailed_[m]
                                   /\ executions'[m] = executions[m]
                                   /\ incomingState_'[m] = incomingState_[m]
                                   /\ mutex_'[m] = mutex_[m]
    BY <1>5, <1>6
  <2>3. /\ UNCHANGED <<forestVars, path, borrowed>>
        /\ mutex_[n] \in {NoNode, w} /\ (pc[w] = "execute" => mutex_[n] = NoNode)
        /\ outgoingState_'[n] # NoNode \/ executionFailed_'[n]
    BY <1>1, <1>2, <1>4, <1>6 DEF extendVars
  <2> HIDE DEF n
  <2> QED BY <1>1, <2>2, <2>3, ReturnInv DEF n
<1>8. TypeOK'
  <2>1. /\ outgoingState_' \in [Nodes -> States] /\ incomingState_' \in [Nodes -> States]
        /\ executionFailed_' \in [Nodes -> BOOLEAN]
        /\ cause' \in [Nodes -> {"none", "own", "noState"}]
        /\ mutex_' \in [Nodes -> Threads \cup {NoNode}]
    BY <1>2, <1>3 DEF IndInv, TypeOK, States
  <2> QED
    BY <1>1, <1>2, <1>5, <2>1, ReturnFacts
       DEF IndInv, TypeOK, forestVars, extendVars, Returns, Goto
<1>9. NodeInv'
  <2> SUFFICES ASSUME NEW m \in Nodes PROVE NodeInv!(m)'
    BY DEF NodeInv
  <2>1. CASE m = n
    <3>1. n \notin explored /\ UNCHANGED <<active, explored>>
      BY <1>2, <1>3 DEF IndInv, PathInv, forestVars
    <3>2. n \in Ends => n \in active
      BY <1>3
    <3>3. why = "noState" => Parent[n] # n \/ executionFailed_'[n]
      BY <1>6
    <3>4. why = "noState" => Parent[n] \in Nodes /\ executionFailed_'[Parent[n]]
      BY <1>6, <3>3
    <3> QED
      BY <1>3, <1>5, <1>6, <2>1, <3>1, <3>2, <3>4 DEF Done
  <2>2. CASE m # n
    <3>1. NodeInv!(m)
      BY DEF IndInv, NodeInv
    <3>2. cause[m] = "noState" => Parent[m] # n
      BY <1>4, <3>1 DEF Fresh
    <3>3. UNCHANGED <<active, explored>>
      BY <1>2 DEF forestVars
    <3> QED
      BY <1>5, <1>6, <2>2, <3>1, <3>2, <3>3 DEF Done, Fresh
  <2> QED
    BY <2>1, <2>2
<1>10. IncomingInv'
  <2>1. n \notin pending /\ UNCHANGED pending
    BY <1>2, <1>3 DEF IndInv, PathInv, forestVars
  <2> QED
    BY <1>3, <1>5, <1>6, <1>7, <2>1 DEF IndInv, IncomingInv
<1> QED
  BY <1>7, <1>8, <1>9, <1>10 DEF IndInv

\* The parent's state is copied, or missing.
LEMMA CopyParentInv ==
  ASSUME IndInv, NEW w \in Workers, CopyParent(w)
  PROVE  IndInv'
<1>1. pc[w] = "copyParent" /\ Parent[Top(w)] \in Nodes /\ Done(Parent[Top(w)])
  BY DEF CopyParent, IndInv, FrameInv
<1>2. CASE /\ Goto(w, "run")
           /\ UNCHANGED <<forestVars, interesting, nodeVars, mutex_, path, frames, extendVars>>
  <2>1. /\ pc' = [pc EXCEPT ![w] = "run"]
        /\ UNCHANGED <<pending, active, explored, interesting, incomingState_, outgoingState_,
                       executionFailed_, executions, cause, mutex_, path, frames, borrowed, todo>>
    BY <1>2 DEF Goto, forestVars, nodeVars, extendVars
  <2>2. TypeOK'
    BY <2>1 DEF IndInv, TypeOK
  <2>3. PathInv'
    BY <1>1, <2>1 DEF IndInv, TypeOK, PathInv
  <2>4. FrameInv'
    BY <1>1, <2>1 DEF IndInv, TypeOK, FrameInv, Executing, Top, Done
  <2>5. LockInv'
    BY <1>1, <2>1 DEF IndInv, TypeOK, LockInv, Locked, Fresh
  <2>6. NodeInv' /\ IncomingInv'
    BY <1>1, <2>1 DEF IndInv, TypeOK, NodeInv, Fresh, Done, IncomingInv, HandedOn
  <2>7. OwnerInv'
    BY <1>1, <2>1 DEF IndInv, TypeOK, OwnerInv, Executing, Fresh, Done
  <2> QED
    BY <2>2, <2>3, <2>4, <2>5, <2>6, <2>7 DEF IndInv
<1>3. CASE /\ outgoingState_[Parent[Top(w)]] = NoNode
           /\ Finish(w, NoNode, "noState")
           /\ UNCHANGED executions
  BY <1>1, <1>3, FinishInv DEF Done
<1> QED
  BY <1>2, <1>3 DEF CopyParent

\* The node is executed.
LEMMA RunInv ==
  ASSUME IndInv, NEW w \in Workers, Run(w)
  PROVE  IndInv'
<1>1. /\ pc[w] = "run"
      /\ executions' = [executions EXCEPT ![Top(w)] = @ + 1]
      /\ Finish(w, Top(w), "none") \/ Finish(w, NoNode, "own")
  BY DEF Run
<1>2. Top(w) # NoNode
  BY <1>1, TopFacts DEF Executing
<1>3. CASE Finish(w, Top(w), "none")
  BY <1>1, <1>3, FinishInv
<1>4. CASE Finish(w, NoNode, "own")
  BY <1>1, <1>4, FinishInv
<1> QED
  BY <1>1, <1>3, <1>4

\* The node is locked, and its parent executed first if its state is needed.
LEMMA ExecuteStartInv ==
  ASSUME IndInv, NEW w \in Workers, ExecuteStart(w)
  PROVE  IndInv'
<1> DEFINE n == Top(w)
<1>1. /\ pc[w] = "execute" /\ pc[w] \in Executing
      /\ mutex_[n] = NoNode /\ ~Done(n)
      /\ mutex_' = [mutex_ EXCEPT ![n] = w]
      /\ UNCHANGED <<forestVars, interesting, nodeVars, path, extendVars>>
  BY DEF ExecuteStart, Locks, AlreadyExecuted, Done, Executing
<1>2. UNCHANGED <<pending, active, explored, interesting, incomingState_, outgoingState_,
                  executionFailed_, executions, cause, path, borrowed, todo>>
  BY <1>1 DEF forestVars, nodeVars, extendVars
<1>3. /\ n \in Nodes /\ n = frames[w][Len(frames[w])]
      /\ Len(frames[w]) \in Nat /\ Len(frames[w]) > 0
      /\ n \notin Ends \/ n = path[w]
  BY <1>1, TopFacts
<1>4. Fresh(n)
  <2>1. CASE n = path[w]
    BY <1>1, <2>1 DEF IndInv, OwnerInv
  <2>2. CASE n \notin Ends
    BY <1>1, <1>3, <2>2 DEF IndInv, NodeInv, Fresh, Done
  <2> QED
    BY <1>3, <2>1, <2>2
<1>5. NodeInv'
  BY <1>2 DEF IndInv, NodeInv, Fresh, Done
<1>6. /\ mutex_' \in [Nodes -> Threads \cup {NoNode}] /\ mutex_'[n] = w
      /\ \A m \in Nodes : m # n => mutex_'[m] = mutex_[m]
  BY <1>1, <1>3 DEF IndInv, TypeOK
\* The locks of the other activations are other locks.
<1>7. \A v \in Workers : \A k \in 1..Len(frames[v]) :
        Locked(v, k) => /\ mutex_[frames[v][k]] = v /\ Fresh(frames[v][k])
                        /\ frames[v][k] # n /\ frames[v][k] \in Nodes
  BY <1>1 DEF IndInv, LockInv, TypeOK
<1>8. \A t \in Consumers : pc[t] = "clone" =>
        path[t] \in Nodes /\ mutex_[path[t]] = t /\ path[t] # n
  BY <1>1 DEF IndInv, LockInv
<1>9. CASE NeedsParent(n) /\ frames' = [frames EXCEPT ![w] = Append(@, Parent[n])] /\ pc' = pc
  <2>1. Parent[n] \in Nodes /\ Parent[n] \notin Ends
    <3>1. Parent[n] \in Nodes /\ incomingState_[n] = NoNode
      BY <1>3, <1>9 DEF NeedsParent
    <3>2. n \in Ends => n \in Starts
      BY <1>1, <1>3, <3>1 DEF IndInv, OwnerInv
    <3>3. \A m \in Nodes : n \in NextUnits[m] => n \in Ends /\ n \notin Starts
      BY <1>3 DEF Ends
    <3> QED
      BY <1>3, <3>1, <3>2, <3>3
  <2>2. frames \in [Threads -> Seq(Nodes)] /\ frames[w] \in Seq(Nodes)
    BY DEF IndInv, TypeOK
  <2>3. /\ frames' \in [Threads -> Seq(Nodes)]
        /\ Len(frames'[w]) = Len(frames[w]) + 1
        /\ \A k \in 1..Len(frames[w]) : frames'[w][k] = frames[w][k]
        /\ frames'[w][Len(frames[w]) + 1] = Parent[n]
        /\ \A v \in Threads : v # w => frames'[v] = frames[v]
    <3> DEFINE s == Append(frames[w], Parent[n])
    <3>1. /\ s \in Seq(Nodes) /\ Len(s) = Len(frames[w]) + 1
          /\ \A k \in 1..Len(frames[w]) : s[k] = frames[w][k]
          /\ s[Len(frames[w]) + 1] = Parent[n]
      BY <2>1, <2>2, Pushed
    <3> HIDE DEF s
    <3>2. frames' = [frames EXCEPT ![w] = s]
      BY <1>9 DEF s
    <3> QED
      BY <2>2, <3>1, <3>2
  <2>4. TypeOK'
    BY <1>2, <1>6, <1>9, <2>3 DEF IndInv, TypeOK
  <2>5. PathInv' /\ IncomingInv' /\ OwnerInv'
    BY <1>2, <1>9 DEF IndInv, PathInv, IncomingInv, HandedOn, OwnerInv, Fresh, Done
  <2>6. FrameInv'
    <3> SUFFICES ASSUME NEW v \in Workers PROVE FrameInv!(v)'
      BY DEF FrameInv
    <3>1. CASE v # w
      BY <1>2, <1>9, <2>3, <3>1 DEF IndInv, FrameInv, Top, Done
    <3>2. CASE v = w
      <4>1. pc'[w] = "execute" /\ Len(frames'[w]) > 0 /\ path'[w] = path[w]
        BY <1>1, <1>2, <1>3, <1>9, <2>3
      <4>2. frames'[w][1] = path[w]
        BY <1>3, <2>3 DEF IndInv, FrameInv
      <4>3. \A k \in 2..Len(frames'[w]) :
              frames'[w][k] \notin Ends /\ frames'[w][k] = Parent[frames'[w][k - 1]]
        <5> SUFFICES ASSUME NEW k \in 2..Len(frames'[w])
                     PROVE  frames'[w][k] \notin Ends /\ frames'[w][k] = Parent[frames'[w][k - 1]]
          OBVIOUS
        <5>1. CASE k = Len(frames[w]) + 1
          <6>1. k - 1 = Len(frames[w]) /\ frames'[w][k - 1] = n
            BY <1>3, <2>3, <5>1
          <6> QED
            BY <2>1, <2>3, <5>1, <6>1
        <5>2. CASE k # Len(frames[w]) + 1
          <6>1. /\ k \in 2..Len(frames[w])
                /\ frames'[w][k] = frames[w][k] /\ frames'[w][k - 1] = frames[w][k - 1]
            BY <1>3, <2>3, <5>2
          <6> QED
            BY <6>1 DEF IndInv, FrameInv
        <5> QED
          BY <5>1, <5>2
      <4> QED
        BY <3>2, <4>1, <4>2, <4>3 DEF Executing
    <3> QED
      BY <3>1, <3>2
  <2>7. \A v \in Workers : \A k \in 1..Len(frames'[v]) : Locked(v, k)' =>
          \/ /\ k \in 1..Len(frames[v]) /\ Locked(v, k) /\ frames'[v][k] = frames[v][k]
             /\ v = w => k # Len(frames[w])
          \/ v = w /\ k = Len(frames[w]) /\ frames'[v][k] = n
    BY <1>1, <1>3, <1>9, <2>3 DEF Locked
  <2>8. LockInv'
    <3>1. \A v \in Workers : \A k \in 1..Len(frames'[v]) :
            Locked(v, k)' => mutex_'[frames'[v][k]] = v /\ Fresh(frames[v][k])'
      BY <1>2, <1>4, <1>6, <1>7, <2>7 DEF Fresh
    <3>2. \A v \in Workers : \A j, k \in 1..Len(frames'[v]) :
            Locked(v, j)' /\ Locked(v, k)' /\ j # k => frames'[v][j] # frames'[v][k]
      <4> SUFFICES ASSUME NEW v \in Workers, NEW j \in 1..Len(frames'[v]),
                          NEW k \in 1..Len(frames'[v]),
                          Locked(v, j)', Locked(v, k)', j # k
                   PROVE  frames'[v][j] # frames'[v][k]
        OBVIOUS
      <4> QED
        BY <1>7, <2>7 DEF IndInv, LockInv
    <3>3. \A t \in Consumers : pc'[t] = "clone" => path'[t] \in Nodes /\ mutex_'[path'[t]] = t
      BY <1>2, <1>6, <1>8, <1>9
    <3> QED
      BY <3>1, <3>2, <3>3, Zenon DEF LockInv
  <2> QED
    BY <1>5, <2>4, <2>5, <2>6, <2>8 DEF IndInv
<1>10. CASE Goto(w, "run") /\ frames' = frames
  <2>1. pc' = [pc EXCEPT ![w] = "run"]
    BY <1>10 DEF Goto
  <2>2. TypeOK'
    BY <1>2, <1>6, <1>10, <2>1 DEF IndInv, TypeOK
  <2>3. PathInv'
    BY <1>1, <1>2, <2>1 DEF IndInv, TypeOK, PathInv
  <2>4. FrameInv'
    BY <1>1, <1>2, <1>10, <2>1 DEF IndInv, TypeOK, FrameInv, Executing, Top, Done
  <2>5. IncomingInv'
    BY <1>1, <1>2, <2>1 DEF IndInv, TypeOK, IncomingInv, HandedOn
  <2>6. OwnerInv'
    BY <1>1, <1>2, <2>1 DEF IndInv, TypeOK, OwnerInv, Executing, Fresh, Done
  <2>7. \A v \in Workers : \A k \in 1..Len(frames[v]) : Locked(v, k)' =>
          \/ Locked(v, k)
          \/ v = w /\ k = Len(frames[w]) /\ frames[v][k] = n
    BY <1>1, <1>3, <1>10, <2>1 DEF Locked, IndInv, TypeOK
  <2>8. LockInv'
    <3>1. \A v \in Workers : \A k \in 1..Len(frames'[v]) :
            Locked(v, k)' => mutex_'[frames'[v][k]] = v /\ Fresh(frames[v][k])'
      BY <1>2, <1>4, <1>6, <1>7, <1>10, <2>7 DEF Fresh
    <3>2. \A v \in Workers : \A j, k \in 1..Len(frames'[v]) :
            Locked(v, j)' /\ Locked(v, k)' /\ j # k => frames'[v][j] # frames'[v][k]
      BY <1>7, <1>10, <2>7 DEF IndInv, LockInv
    <3>3. \A t \in Consumers : pc'[t] = "clone" => path'[t] \in Nodes /\ mutex_'[path'[t]] = t
      <4>1. \A t \in Consumers : t # w /\ pc'[t] = pc[t]
        BY <2>1 DEF IndInv, TypeOK
      <4> QED
        BY <1>2, <1>6, <1>8, <4>1
    <3> QED
      BY <3>1, <3>2, <3>3, Zenon DEF LockInv
  <2> QED
    BY <1>5, <2>2, <2>3, <2>4, <2>5, <2>6, <2>8 DEF IndInv
<1> QED
  BY <1>9, <1>10 DEF ExecuteStart

\* A step that changes nothing.
LEMMA StutterInv == ASSUME IndInv, UNCHANGED vars PROVE IndInv'
<1> USE DEF vars, forestVars, nodeVars, extendVars, IndInv
<1>1. TypeOK'
  BY DEF TypeOK
<1>2. PathInv'
  BY DEF PathInv
<1>3. FrameInv'
  BY DEF FrameInv, Top, Done
<1>4. LockInv'
  BY DEF LockInv, Locked, Fresh
<1>5. NodeInv'
  BY DEF NodeInv, Fresh, Done
<1>6. IncomingInv'
  BY DEF IncomingInv, HandedOn
<1>7. OwnerInv'
  BY DEF OwnerInv, Fresh, Done
<1> QED
  BY <1>1, <1>2, <1>3, <1>4, <1>5, <1>6, <1>7

\* A worker takes a path.
LEMMA ClaimInv ==
  ASSUME IndInv, NEW w \in Workers, NEW n \in Nodes, Claim(w, n)
  PROVE  IndInv'
<1>1. CASE Goto(w, "skip") /\ UNCHANGED frames
  BY <1>1, ClaimSkipInv DEF Claim
<1>2. CASE Goto(w, "execute") /\ frames' = [frames EXCEPT ![w] = <<n>>]
  BY <1>2, ClaimExecuteInv DEF Claim
<1> QED
  BY <1>1, <1>2 DEF Claim

\* Every step of a worker on its path keeps the invariant.
LEMMA WorkerStepInv ==
  ASSUME IndInv, NEW w \in Workers, WorkerStep(w)
  PROVE  IndInv'
<1>1. CASE Execute(w)
  BY <1>1, ExecuteNothingInv, ExecuteUnknownInv, ExecuteStartInv, CopyParentInv, RunInv
     DEF Execute
<1>2. CASE DoNotExecute(w)
  BY <1>2, DoNotExecuteInv
<1>3. CASE InsertInteresting(w)
  BY <1>3, InsertInterestingInv
<1>4. CASE Extend(w)
  BY <1>4, ExtendInv
<1>5. CASE BorrowOutgoingState(w)
  BY <1>5, BorrowInv
<1>6. CASE RestoreOutgoingState(w)
  BY <1>6, RestoreInv
<1>7. CASE \E c \in Nodes : InsertChild(w, c)
  BY <1>7, InsertChildInv
<1>8. CASE ReleaseOutgoingState(w)
  BY <1>8, ReleaseInv
<1>9. CASE FinishPath(w)
  BY <1>9, FinishPathInv
<1> QED
  BY <1>1, <1>2, <1>3, <1>4, <1>5, <1>6, <1>7, <1>8, <1>9 DEF WorkerStep

\* Every step keeps the invariant.
LEMMA NextInv == ASSUME IndInv, [Next]_vars PROVE IndInv'
<1>1. CASE \E n \in Nodes : InsertStartingPoint(n)
  BY <1>1, InsertStartingPointInv
<1>2. CASE \E w \in Workers : WorkerStep(w) \/ \E n \in Nodes : Claim(w, n)
  BY <1>2, WorkerStepInv, ClaimInv
<1>3. CASE \E t \in Consumers :
             ConsumerReturns(t) \/ \E n \in Nodes : ConsumerCopies(t, n)
  BY <1>3, ConsumerReturnsInv, ConsumerCopiesInv
<1>4. CASE UNCHANGED vars
  BY <1>4, StutterInv
<1> QED
  BY <1>1, <1>2, <1>3, <1>4 DEF Next

\* The inductive invariant holds in every reachable state, for every tree of
\* nodes and any number of workers and consumers.
THEOREM IndInvHolds == Spec => []IndInv
<1>1. Init => IndInv
  BY InitInv
<1>2. IndInv /\ [Next]_vars => IndInv'
  BY NextInv
<1> QED
  BY <1>1, <1>2, PTL DEF Spec

-----------------------------------------------------------------------------
\* The variables keep their types.
THEOREM TypeCorrect == Spec => []TypeOK
<1>1. IndInv => TypeOK
  BY DEF IndInv
<1> QED
  BY <1>1, IndInvHolds, PTL

\* The assertions of borrowOutgoingState, restoreOutgoingState and
\* releaseOutgoingState never fail.
THEOREM AssertionsHold == Spec => []StateAssertions
<1>1. IndInv => StateAssertions
  <2> SUFFICES ASSUME IndInv, NEW w \in Workers
               PROVE  /\ pc[w] = "borrow" => outgoingState_[path[w]] # NoNode
                      /\ pc[w] = "nextUnits" => outgoingState_[path[w]] = NoNode
                      /\ pc[w] = "children" => outgoingState_[path[w]] # NoNode
    BY DEF StateAssertions
  <2>1. pc[w] = "children" => path[w] \in Nodes
    BY DEF IndInv, PathInv, TypeOK
  <2> QED
    BY <2>1 DEF IndInv, OwnerInv
<1> QED
  BY <1>1, IndInvHolds, PTL

\* No node is executed twice, whichever threads need its state.
THEOREM ExecutionOnce == Spec => []ExecutedOnce
<1>1. IndInv => ExecutedOnce
  BY DEF IndInv, NodeInv, ExecutedOnce
<1> QED
  BY <1>1, IndInvHolds, PTL

\* A node fails for want of a state only if its parent failed.
THEOREM FailuresExplained == Spec => []FailureExplained
<1>1. IndInv => FailureExplained
  BY DEF IndInv, NodeInv, FailureExplained
<1> QED
  BY <1>1, IndInvHolds, PTL

\* While nextUnits works on a state that a worker has borrowed, no node refers
\* to that state: a node's outgoing state is the one its own execution made,
\* and it is given to children only after nextUnits has returned.
THEOREM BorrowingExclusive == Spec => []BorrowedAlone
<1>1. IndInv => BorrowedAlone
  <2> SUFFICES ASSUME IndInv, NEW w \in Workers, pc[w] = "nextUnits", NEW n \in Nodes
               PROVE  borrowed[w] # incomingState_[n] /\ borrowed[w] # outgoingState_[n]
    BY DEF BorrowedAlone
  <2>1. /\ path[w] \in Nodes /\ path[w] \in active /\ path[w] # NoNode
        /\ borrowed[w] = path[w] /\ outgoingState_[path[w]] = NoNode
    BY DEF IndInv, PathInv, TypeOK, OwnerInv
  <2>2. borrowed[w] # outgoingState_[n]
    BY <2>1 DEF IndInv, NodeInv
  <2>3. ~HandedOn(path[w])
    BY <2>1 DEF IndInv, PathInv, HandedOn
  <2>4. borrowed[w] # incomingState_[n]
    BY <2>1, <2>3 DEF IndInv, IncomingInv
  <2> QED
    BY <2>2, <2>4
<1> QED
  BY <1>1, IndInvHolds, PTL

\* A path that was explored holds no outgoing state, and an incoming one only
\* if it was never executed.
THEOREM ExploredReleased == Spec => []StatesReleased
<1>1. IndInv => StatesReleased
  BY DEF IndInv, NodeInv, IncomingInv, TypeOK, StatesReleased
<1> QED
  BY <1>1, IndInvHolds, PTL
=============================================================================
