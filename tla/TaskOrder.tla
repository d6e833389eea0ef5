------------------------------ MODULE TaskOrder ------------------------------
(***************************************************************************)
(* What the scheduler of a dependency graph promises, with no threads,     *)
(* queues, counters or condition variables: every task is started at most  *)
(* once and only after everything it depends on has finished, and the      *)
(* outcome is reported when nothing can be started any more.  The outcome  *)
(* is "cycle" exactly if some task could never be started.                 *)
(***************************************************************************)
EXTENDS Integers

CONSTANTS Graphs, NoGraph

VARIABLES graph, started, finished, outcome

tvars == <<graph, started, finished, outcome>>

\* The tasks that v waits for: edges lead from a task to its dependencies.
DependenciesOf(v) == {d \in graph.vertices : graph.edges[<<v, d>>] > 0}

Init == graph = NoGraph /\ started = {} /\ finished = {} /\ outcome = "none"

Submit(g) ==
  /\ graph = NoGraph
  /\ graph' = g
  /\ UNCHANGED <<started, finished, outcome>>

Begin(v) ==
  /\ graph # NoGraph /\ v \in graph.vertices \ started
  /\ DependenciesOf(v) \subseteq finished
  /\ started' = started \cup {v}
  /\ UNCHANGED <<graph, finished, outcome>>

End(v) ==
  /\ v \in started \ finished
  /\ finished' = finished \cup {v}
  /\ UNCHANGED <<graph, started, outcome>>

Report ==
  /\ graph # NoGraph /\ outcome = "none"
  /\ finished = started
  /\ \A v \in graph.vertices : DependenciesOf(v) \subseteq finished => v \in finished
  /\ outcome' = IF finished = graph.vertices THEN "done" ELSE "cycle"
  /\ UNCHANGED <<graph, started, finished>>

Next ==
  \/ \E g \in Graphs : Submit(g)
  \/ /\ graph # NoGraph
     /\ \E v \in graph.vertices : Begin(v) \/ End(v)
  \/ Report

Spec == Init /\ [][Next]_tvars
=============================================================================
