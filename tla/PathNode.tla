------------------------------- MODULE PathNode -------------------------------
(***************************************************************************)
(* The nodes of the model checker's execution tree, and the threads that   *)
(* execute them, extend paths by one node, and look at results.  A path is *)
(* named by its last node.  Which thread gets which path is decided by     *)
(* Exploration, the abstract engine: a worker here claims, discovers and   *)
(* completes paths with its actions.                                       *)
(*                                                                         *)
(* A semantic state is named by the node whose execution made it; states   *)
(* are shared by pointer between a node and the children it gave it to.    *)
(***************************************************************************)
EXTENDS Integers, Sequences, FiniteSets

CONSTANTS
  Nodes,      \* path nodes
  NoNode,     \* no node, and no state
  Parent,     \* the parent_ of each node, or NoNode
  Starts,     \* last nodes of the paths inserted by the user
  NextUnits,  \* the nodes that nextUnits leads to from each node
  Unknown,    \* nodes with unknown instructions, which settings reject
  Workers,    \* threads that run doOneStep
  Consumers   \* threads that take interesting paths and copy their states

Threads == Workers \cup Consumers

\* The nodes at which paths end that the engine works on.
Ends == Starts \cup UNION {NextUnits[n] : n \in Nodes}

\* The other nodes are the beginnings of the paths that the user inserts.  No
\* such beginning is a path that the engine works on: two starting points may
\* have a common beginning, but neither is the beginning of the other.
ASSUME TreeAssumption ==
  /\ NoNode \notin Nodes
  /\ Parent \in [Nodes -> Nodes \cup {NoNode}]
  /\ Starts \subseteq Nodes /\ Unknown \subseteq Nodes
  /\ NextUnits \in [Nodes -> SUBSET Nodes]
  /\ \A n, c \in Nodes : c \in NextUnits[n] => Parent[c] = n /\ c \notin Starts
  /\ \A n, c \in Nodes : Parent[c] = n /\ n \in Ends => c \in NextUnits[n]

ASSUME ThreadsAssumption ==
  Workers \cap Consumers = {} /\ NoNode \notin Threads

VARIABLES
  pending, active, explored,       \* the paths, as in Exploration
  interesting,                     \* paths that consumers may have
  incomingState_, outgoingState_,  \* a state or NoNode
  executionFailed_,
  mutex_,                          \* the thread that holds the node's lock
  pc, path,                        \* where each thread is, and with which path
  frames,                          \* its activations of execute: the nodes
  borrowed,                        \* the state it has borrowed
  todo,                            \* next units it has still to insert
  executions,                      \* history: how often each node was executed
  cause                            \* history: why the execution failed

forestVars == <<pending, active, explored>>
nodeVars   == <<incomingState_, outgoingState_, executionFailed_, executions, cause>>
extendVars == <<borrowed, todo>>

vars == <<forestVars, interesting, nodeVars, mutex_, pc, path, frames, extendVars>>

Forest == INSTANCE Exploration WITH Paths <- Nodes, Roots <- Starts, Children <- NextUnits

Init ==
  /\ Forest!Init
  /\ interesting = {}
  /\ incomingState_ = [n \in Nodes |-> NoNode]
  /\ outgoingState_ = [n \in Nodes |-> NoNode]
  /\ executionFailed_ = [n \in Nodes |-> FALSE]
  /\ mutex_ = [n \in Nodes |-> NoNode]
  /\ pc = [t \in Threads |-> "idle"]
  /\ path = [t \in Threads |-> NoNode]
  /\ frames = [t \in Threads |-> << >>]
  /\ borrowed = [t \in Threads |-> NoNode]
  /\ todo = [t \in Threads |-> {}]
  /\ executions = [n \in Nodes |-> 0]
  /\ cause = [n \in Nodes |-> "none"]

\* A locked section of node n that one thread runs without another lock.
Locks(n) == mutex_[n] = NoNode
Goto(t, l) == pc' = [pc EXCEPT ![t] = l]

-----------------------------------------------------------------------------
(***************************************************************************)
(* PathNode::execute.  A thread keeps the lock of a node while it executes *)
(* the parent, so it may hold the locks of a chain of nodes.               *)
(***************************************************************************)
Top(t) == frames[t][Len(frames[t])]

\* The innermost activation returns, to its caller's copyOutgoingState if the
\* caller is another activation.
Returns(t) ==
  /\ frames' = [frames EXCEPT ![t] = SubSeq(@, 1, Len(@) - 1)]
  /\ Goto(t, IF Len(frames[t]) > 1 THEN "copyParent" ELSE "insertInteresting")

\* Mutant: only a failed execution counts as one.
AlreadyExecuted_IfFailed(n) == executionFailed_[n]

AlreadyExecuted(n) == outgoingState_[n] # NoNode \/ executionFailed_[n]

ExecuteNothing(t) ==
  /\ pc[t] = "execute" /\ Locks(Top(t))
  /\ AlreadyExecuted(Top(t))
  /\ Returns(t)
  /\ UNCHANGED <<forestVars, interesting, nodeVars, mutex_, path, extendVars>>

ExecuteUnknown(t) ==
  /\ pc[t] = "execute" /\ Locks(Top(t))
  /\ ~AlreadyExecuted(Top(t)) /\ Top(t) \in Unknown
  /\ executionFailed_' = [executionFailed_ EXCEPT ![Top(t)] = TRUE]
  /\ cause' = [cause EXCEPT ![Top(t)] = "own"]
  /\ Returns(t)
  /\ UNCHANGED <<forestVars, interesting, incomingState_, outgoingState_, executions,
                 mutex_, path, extendVars>>

NeedsParent(n) == incomingState_[n] = NoNode /\ Parent[n] # NoNode

\* The node's own incoming state, or the initial one, is copied; or the parent
\* is executed first.
ExecuteStart(t) ==
  /\ pc[t] = "execute" /\ Locks(Top(t))
  /\ ~AlreadyExecuted(Top(t)) /\ Top(t) \notin Unknown
  /\ mutex_' = [mutex_ EXCEPT ![Top(t)] = t]
  /\ \/ /\ NeedsParent(Top(t))
        /\ frames' = [frames EXCEPT ![t] = Append(@, Parent[Top(t)])]
        /\ UNCHANGED pc
     \/ /\ ~NeedsParent(Top(t))
        /\ Goto(t, "run")
        /\ UNCHANGED frames
  /\ UNCHANGED <<forestVars, interesting, nodeVars, path, extendVars>>

\* The execution is over: the outcome is stored and the lock given back.
Finish(t, state, why) ==
  LET n == Top(t)
  IN /\ outgoingState_' = [outgoingState_ EXCEPT ![n] = state]
     /\ executionFailed_' = [executionFailed_ EXCEPT ![n] = (state = NoNode)]
     /\ incomingState_' = [incomingState_ EXCEPT ![n] = NoNode]
     /\ cause' = [cause EXCEPT ![n] = why]
     /\ mutex_' = [mutex_ EXCEPT ![n] = NoNode]
     /\ Returns(t)
     /\ UNCHANGED <<forestVars, interesting, path, extendVars>>

\* parent_->copyOutgoingState() is a locked section of its own after the one
\* of parent_->execute().  Without a state nothing is executed.
CopyParent(t) ==
  /\ pc[t] = "copyParent" /\ Locks(Parent[Top(t)])
  /\ \/ /\ outgoingState_[Parent[Top(t)]] # NoNode
        /\ Goto(t, "run")
        /\ UNCHANGED <<forestVars, interesting, nodeVars, mutex_, path, frames,
                       extendVars>>
     \/ /\ outgoingState_[Parent[Top(t)]] = NoNode
        /\ Finish(t, NoNode, "noState")
        /\ UNCHANGED executions

\* preExecute, the execution unit, and postExecute; any of them may fail.
Run(t) ==
  /\ pc[t] = "run"
  /\ executions' = [executions EXCEPT ![Top(t)] = @ + 1]
  /\ Finish(t, Top(t), "none") \/ Finish(t, NoNode, "own")

-----------------------------------------------------------------------------
(***************************************************************************)
(* The worker's side: Engine::execute and Engine::extend.                  *)
(***************************************************************************)
InsertStartingPoint(n) ==
  /\ Forest!Submit(n)
  /\ UNCHANGED <<interesting, nodeVars, mutex_, pc, path, frames, extendVars>>

Claim(w, n) ==
  /\ pc[w] = "idle"
  /\ Forest!Claim(n)
  /\ path' = [path EXCEPT ![w] = n]
  /\ \/ Goto(w, "skip") /\ UNCHANGED frames
     \/ Goto(w, "execute") /\ frames' = [frames EXCEPT ![w] = <<n>>]
  /\ UNCHANGED <<interesting, nodeVars, mutex_, extendVars>>

\* PathNode::doNotExecute
DoNotExecute(w) ==
  /\ pc[w] = "skip" /\ Locks(path[w])
  /\ outgoingState_' = [outgoingState_ EXCEPT ![path[w]] = NoNode]
  /\ executionFailed_' = [executionFailed_ EXCEPT ![path[w]] = TRUE]
  /\ cause' = [cause EXCEPT ![path[w]] = "own"]
  /\ Goto(w, "insertInteresting")
  /\ UNCHANGED <<forestVars, interesting, incomingState_, executions, mutex_, path,
                 frames, extendVars>>

\* From now on a consumer may have the path while it is extended.
InsertInteresting(w) ==
  /\ pc[w] = "insertInteresting"
  /\ interesting' \in {interesting, interesting \cup {path[w]}}
  /\ Goto(w, "extend")
  /\ UNCHANGED <<forestVars, nodeVars, mutex_, path, frames, extendVars>>

\* Mutant: a path is extended whether its execution failed or not.
MayExtend_Always(n) == TRUE

\* path->executionFailed()
MayExtend(n) == ~executionFailed_[n]

Extend(w) ==
  /\ pc[w] = "extend" /\ Locks(path[w])
  /\ Goto(w, IF MayExtend(path[w]) THEN "borrow" ELSE "finishPath")
  /\ UNCHANGED <<forestVars, interesting, nodeVars, mutex_, path, frames, extendVars>>

\* Mutant: the node keeps the pointer to the state it lends.
LentBy_Shared(n) == outgoingState_[n]

\* What a node keeps of the state it lends.
LentBy(n) == NoNode

BorrowOutgoingState(w) ==
  /\ pc[w] = "borrow" /\ Locks(path[w])
  /\ outgoingState_[path[w]] # NoNode
  /\ borrowed' = [borrowed EXCEPT ![w] = outgoingState_[path[w]]]
  /\ outgoingState_' = [outgoingState_ EXCEPT ![path[w]] = LentBy(path[w])]
  /\ Goto(w, "nextUnits")
  /\ UNCHANGED <<forestVars, interesting, incomingState_, executionFailed_, executions,
                 cause, mutex_, path, frames, todo>>

\* nextUnits has run on the borrowed state, which the scope exit gives back.
RestoreOutgoingState(w) ==
  /\ pc[w] = "nextUnits" /\ Locks(path[w])
  /\ outgoingState_[path[w]] = NoNode
  /\ outgoingState_' = [outgoingState_ EXCEPT ![path[w]] = borrowed[w]]
  /\ todo' = [todo EXCEPT ![w] = NextUnits[path[w]]]
  /\ Goto(w, "children")
  /\ UNCHANGED <<forestVars, interesting, incomingState_, executionFailed_, executions,
                 cause, mutex_, path, frames, borrowed>>

\* The new path gets a pointer to the parent's state; insertWork may refuse it.
InsertChild(w, c) ==
  /\ pc[w] = "children" /\ c \in todo[w]
  /\ \/ /\ Forest!Discover(path[w], c)
        /\ incomingState_' = [incomingState_ EXCEPT ![c] = borrowed[w]]
     \/ UNCHANGED <<forestVars, incomingState_>>
  /\ todo' = [todo EXCEPT ![w] = @ \ {c}]
  /\ UNCHANGED <<interesting, outgoingState_, executionFailed_, executions, cause,
                 mutex_, pc, path, frames, borrowed>>

\* Mutants: a path without extensions keeps its state; a path releases the
\* state of the node before its last one as well.
Releases_IfExtended(n) == IF NextUnits[n] = {} THEN {} ELSE {n}
Releases_WithParent(n) == {n, Parent[n]}

\* The nodes that lose their state when a path that ends at n was extended.
Releases(n) == {n}

ReleaseOutgoingState(w) ==
  /\ pc[w] = "children" /\ todo[w] = {} /\ Locks(path[w])
  /\ outgoingState_[path[w]] # NoNode
  /\ outgoingState_' = [n \in Nodes |-> IF n \in Releases(path[w]) THEN NoNode
                                       ELSE outgoingState_[n]]
  /\ borrowed' = [borrowed EXCEPT ![w] = NoNode]
  /\ Goto(w, "finishPath")
  /\ UNCHANGED <<forestVars, interesting, incomingState_, executionFailed_, executions,
                 cause, mutex_, path, frames, todo>>

FinishPath(w) ==
  /\ pc[w] = "finishPath"
  /\ Forest!Complete(path[w])
  /\ path' = [path EXCEPT ![w] = NoNode]
  /\ Goto(w, "idle")
  /\ UNCHANGED <<interesting, nodeVars, mutex_, frames, extendVars>>

-----------------------------------------------------------------------------
(***************************************************************************)
(* The consumer's side: the thread safe members of an interesting path.    *)
(***************************************************************************)

\* copyOutgoingState() locks the node and clones its state.
ConsumerCopies(t, n) ==
  /\ pc[t] = "idle"
  /\ n \in interesting /\ Locks(n)
  /\ mutex_' = [mutex_ EXCEPT ![n] = t]
  /\ path' = [path EXCEPT ![t] = n]
  /\ Goto(t, "clone")
  /\ UNCHANGED <<forestVars, interesting, nodeVars, frames, extendVars>>

\* Mutant: the consumer waits for a state while it holds the lock.
ConsumerReturns_WaitsForState(t) ==
  /\ pc[t] = "clone" /\ outgoingState_[path[t]] # NoNode
  /\ mutex_' = [mutex_ EXCEPT ![path[t]] = NoNode]
  /\ path' = [path EXCEPT ![t] = NoNode]
  /\ Goto(t, "idle")
  /\ UNCHANGED <<forestVars, interesting, nodeVars, frames, extendVars>>

ConsumerReturns(t) ==
  /\ pc[t] = "clone"
  /\ mutex_' = [mutex_ EXCEPT ![path[t]] = NoNode]
  /\ path' = [path EXCEPT ![t] = NoNode]
  /\ Goto(t, "idle")
  /\ UNCHANGED <<forestVars, interesting, nodeVars, frames, extendVars>>

-----------------------------------------------------------------------------
Execute(t) ==
  ExecuteNothing(t) \/ ExecuteUnknown(t) \/ ExecuteStart(t) \/ CopyParent(t) \/ Run(t)

WorkerStep(w) ==
  \/ Execute(w) \/ DoNotExecute(w) \/ InsertInteresting(w) \/ Extend(w)
  \/ BorrowOutgoingState(w) \/ RestoreOutgoingState(w)
  \/ \E c \in Nodes : InsertChild(w, c)
  \/ ReleaseOutgoingState(w) \/ FinishPath(w)

Next ==
  \/ \E n \in Nodes : InsertStartingPoint(n)
  \/ \E w \in Workers : WorkerStep(w) \/ \E n \in Nodes : Claim(w, n)
  \/ \E t \in Consumers :
       ConsumerReturns(t) \/ \E n \in Nodes : ConsumerCopies(t, n)

Spec == Init /\ [][Next]_vars

\* Threads are scheduled and get a lock that is free again and again; a worker
\* that is idle takes work.
Fairness ==
  /\ \A w \in Workers : SF_vars(WorkerStep(w)) /\ WF_vars(\E n \in Nodes : Claim(w, n))
  /\ \A t \in Consumers : WF_vars(ConsumerReturns(t))

FairSpec == Spec /\ Fairness

-----------------------------------------------------------------------------
(***************************************************************************)
(* Properties.                                                             *)
(***************************************************************************)
States == Nodes \cup {NoNode}

\* Types of the nodes, of the paths and of what each thread holds.
TypeOK ==
  /\ pending \subseteq Nodes /\ active \subseteq Nodes /\ explored \subseteq Nodes
  /\ interesting \subseteq Nodes
  /\ incomingState_ \in [Nodes -> States] /\ outgoingState_ \in [Nodes -> States]
  /\ executionFailed_ \in [Nodes -> BOOLEAN]
  /\ mutex_ \in [Nodes -> Threads \cup {NoNode}]
  /\ pc \in [Threads -> {"idle", "skip", "execute", "copyParent", "run",
                         "insertInteresting", "extend", "borrow", "nextUnits",
                         "children", "finishPath", "clone"}]
  /\ path \in [Threads -> States]
  /\ frames \in [Threads -> Seq(Nodes)]
  /\ borrowed \in [Threads -> States] /\ todo \in [Threads -> SUBSET Nodes]
  /\ executions \in [Nodes -> Nat]
  /\ cause \in [Nodes -> {"none", "own", "noState"}]

\* The assertions of borrowOutgoingState, restoreOutgoingState and
\* releaseOutgoingState hold whenever a worker gets there: nobody gives a node
\* a state while it is borrowed, or takes it away before it is released.
StateAssertions ==
  \A w \in Workers :
    /\ pc[w] = "borrow" => outgoingState_[path[w]] # NoNode
    /\ pc[w] = "nextUnits" => outgoingState_[path[w]] = NoNode
    /\ pc[w] = "children" => outgoingState_[path[w]] # NoNode

\* PathNode::execute: "Only nodes that have not been previously executed are
\* executed."  So tags are recorded once, whichever threads need the node.
ExecutedOnce == \A n \in Nodes : executions[n] <= 1

\* Execution fails for want of the parent's state only if the parent failed:
\* "null if parent execution failed".  Between the parent's execution and the
\* copy of its state nobody takes the state away.
FailureExplained ==
  \A n \in Nodes : cause[n] = "noState" => executionFailed_[Parent[n]]

\* "The model checker logic should prevent two threads from ever accessing a
\* node's state concurrently": while nextUnits works on a borrowed state, no
\* node refers to it, so a consumer that copies a state copies another one.
BorrowedAlone ==
  \A w \in Workers : pc[w] = "nextUnits" =>
    \A n \in Nodes : borrowed[w] \notin {incomingState_[n], outgoingState_[n]}

\* States do not pile up: a path that was explored holds no outgoing state, and
\* an incoming one only if it was not executed but skipped or rejected.
StatesReleased ==
  \A n \in explored :
    /\ outgoingState_[n] = NoNode
    /\ incomingState_[n] = NoNode \/ executions[n] = 0

\* Every path inserted is explored: threads that hold the locks of a chain of
\* nodes do not block each other for ever.
AllExplored == \A n \in Nodes : n \in pending ~> n \in explored
=============================================================================
