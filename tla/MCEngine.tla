------------------------------ MODULE MCEngine ------------------------------
(***************************************************************************)
(* Instances of Engine for TLC: small forests and small programs.          *)
(***************************************************************************)
EXTENDS Engine, TLC

\* 1 has the children 2 and 3.
Fork == [p \in Paths |-> IF p = 1 THEN {2, 3} ELSE {}]
RootsOfFork == {1}

\* 1 has the child 2, and 3, if there is one, has none.
Chain == [p \in Paths |-> IF p = 1 THEN {2} ELSE {}]
RootsOfChain == {1, 3} \cap Paths

\* Every user thread makes the same calls.
Program(c) == [u \in Users |-> c]

\* u1 runs rounds with managed workers, u2 feeds, helps, stops and consumes.
RoundsCalls == [u \in Users |->
  IF u = "u1" THEN {"insertStartingPoint", "startWorkers", "stop", "reset"}
              ELSE CallNames \ {"insertStartingPoint", "startWorkers",
                                "startWorkers0", "reset"}]

\* u1 feeds and stops the engine, u2 takes a result or helps.
ConsumerCalls == [u \in Users |->
  IF u = "u1" THEN {"insertStartingPoint", "startWorkers0", "stop"}
              ELSE {"takeNextInteresting", "step"}]

\* run() while a managed worker does the work.
RunCalls == Program({"insertStartingPoint", "startWorkers0", "run"})

\* Bounds on the number of calls.
Three == [u \in Users |-> 3]
FiveAndTwo == [u \in Users |-> IF u = "u1" THEN 5 ELSE 2]
ThreeAndOne == [u \in Users |-> IF u = "u1" THEN 3 ELSE 1]

WorkerSymmetry == Permutations(Workers)
=============================================================================
