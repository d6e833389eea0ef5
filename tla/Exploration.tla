----------------------------- MODULE Exploration -----------------------------
(***************************************************************************)
(* What the model checker engine promises about the execution forest, with *)
(* no threads, counters, locks or condition variables: a path is submitted *)
(* or discovered once, is then claimed by one worker, and is completed     *)
(* once; the children of a path are discovered while it is being explored. *)
(***************************************************************************)
EXTENDS FiniteSets

CONSTANTS Paths, Roots, Children

VARIABLES pending, active, explored

evars == <<pending, active, explored>>

Known == pending \cup active \cup explored

Init == pending = {} /\ active = {} /\ explored = {}

Submit(p) ==
  /\ p \in Roots \ Known
  /\ pending' = pending \cup {p}
  /\ UNCHANGED <<active, explored>>

Claim(p) ==
  /\ p \in pending
  /\ pending' = pending \ {p}
  /\ active' = active \cup {p}
  /\ UNCHANGED explored

Discover(p, c) ==
  /\ p \in active
  /\ c \in Children[p] \ Known
  /\ pending' = pending \cup {c}
  /\ UNCHANGED <<active, explored>>

Complete(p) ==
  /\ p \in active
  /\ active' = active \ {p}
  /\ explored' = explored \cup {p}
  /\ UNCHANGED pending

\* Starting over is possible only when nobody is exploring.
Clear ==
  /\ active = {}
  /\ pending' = {} /\ active' = {} /\ explored' = {}

Next ==
  \/ \E p \in Paths : Submit(p) \/ Claim(p) \/ Complete(p)
  \/ \E p, c \in Paths : Discover(p, c)
  \/ Clear

Spec == Init /\ [][Next]_evars
=============================================================================
