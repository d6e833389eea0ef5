--------------------------- MODULE MCThreadWorkers ---------------------------
(***************************************************************************)
(* Dependency graphs of ThreadWorkers for TLC.                             *)
(***************************************************************************)
EXTENDS ThreadWorkers

\* The graph with the given vertices; E gives the number of edges.
Graph(V, E(_, _)) ==
  [vertices |-> V,
   edges |-> [e \in Tasks \X Tasks |->
                IF e \in V \X V THEN E(e[1], e[2]) ELSE 0]]

SimpleGraph(V, R) == LET E(a, b) == IF <<a, b>> \in R THEN 1 ELSE 0
                     IN Graph(V, E)

\* Every graph of three tasks in which only the first may have a self edge.
Pairs == {<<1, 1>>, <<1, 2>>, <<1, 3>>, <<2, 1>>, <<2, 3>>, <<3, 1>>, <<3, 2>>}
ThreeTasks == {SimpleGraph({1, 2, 3}, R) : R \in SUBSET Pairs}

\* No task at all, parallel edges, one task that makes two or three others
\* ready at the same time, and one with two dependencies.
Parallel == LET E(a, b) == IF b < a THEN 2 ELSE 0 IN Graph({1, 2, 3}, E)
Fan(n) == SimpleGraph(1..(n + 1), {<<v, 1>> : v \in 2..(n + 1)})
Diamond == SimpleGraph(1..4, {<<2, 1>>, <<3, 1>>, <<4, 2>>, <<4, 3>>})

SomeGraphs ==
  ThreeTasks \cup {SimpleGraph({}, {}), Parallel, Fan(2), Fan(3), Diamond}

\* A graph of two independent tasks.
TwoTasks == {SimpleGraph({1, 2}, {})}

Three == [u \in Users |-> 3]
TwoAndOne == [u \in Users |-> IF u = "u1" THEN 2 ELSE 1]
=============================================================================
