----------------------------- MODULE MCPathNode -----------------------------
(***************************************************************************)
(* A tree of nodes for TLC.  The user inserts two paths that end at 3 and  *)
(* 4; the nodes 1 and 2 before them are no paths of their own and are      *)
(* executed when 3 or 4 needs them.  3 leads to 5 and 6.                   *)
(***************************************************************************)
EXTENDS PathNode

Tree == [n \in Nodes |-> IF n = 2 THEN 1 ELSE
                         IF n \in {3, 4} THEN 2 ELSE
                         IF n \in {5, 6} THEN 3 ELSE NoNode]
TreeUnits == [n \in Nodes |-> IF n = 3 THEN {5, 6} ELSE {}]
=============================================================================
