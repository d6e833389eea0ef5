-------------------------- MODULE MCInterprocedural --------------------------
(***************************************************************************)
(* Projects for TLC.  Names 1 to 3 and 6 are the user's, 4 is an impure and *)
(* 5 a pure library function.                                              *)
(***************************************************************************)
EXTENDS InterproceduralAnalysis

Body(calls, indirect, stores, writes) ==
  [calls |-> calls, indirect |-> indirect, stores |-> stores,
   writes |-> writes, work |-> 1]

\* Writes through parameter 0: p[i], p[i + 1], and *p.
AtIndex     == [pointer |-> 0, index |-> 1, offset |-> 0]
AtNextIndex == [pointer |-> 0, index |-> 1, offset |-> 1]
AtUnknown   == [pointer |-> 0, index |-> NoIndex, offset |-> 0]

\* Every way to call the user's functions, with and without output.
GraphBodies == {Body(c, FALSE, {}, {}) : c \in SUBSET {1, 2, 3}}
                 \cup {Body(c \cup {4}, FALSE, {}, {}) : c \in SUBSET {1, 2, 3}}

\* One declaration of each name, in the order of the names.
GraphProjects ==
  {<<[name |-> 1, body |-> b1], [name |-> 2, body |-> b2],
     [name |-> 3, body |-> b3]>> :
       b1, b2, b3 \in GraphBodies \cup {NoBody}}

\* Every call graph of four functions of which the last does not call itself;
\* GraphProjects has all the ones of three functions.
User == <<1, 2, 3, 6>>
CycleBodies == {Body(c, FALSE, {}, {}) : c \in SUBSET {1, 2, 3, 6}}
CycleProjects ==
  {[i \in 1..4 |-> [name |-> User[i], body |-> b[i]]] :
     b \in {f \in [1..4 -> CycleBodies] : 6 \notin f[4].calls}}

\* Up to three declarations of two names, in any order.
OrderBodies == {Body({}, FALSE, {}, {}), Body({1, 2}, FALSE, {}, {}),
                Body({2}, FALSE, {"global"}, {}), Body({1}, FALSE, {}, {AtUnknown}),
                Body({4, 5}, FALSE, {}, {AtIndex})}
OrderProjects ==
  UNION {[1..n -> [name : {1, 2, 4, 5}, body : OrderBodies \cup {NoBody}]] :
           n \in 1..3}

CallBodies == CycleBodies \cup GraphBodies \cup OrderBodies
CallProjects == CycleProjects \cup GraphProjects \cup OrderProjects

\* Bodies with the effects that the comments speak about.
ClaimBodies ==
  {Body(c, i, s, w) : c \in SUBSET {1, 2}, i \in BOOLEAN,
                      s \in {{}, {"global"}, {"static"}, {"element"}},
                      w \in {{}, {AtIndex}, {AtIndex, AtNextIndex}}}
ClaimProjects ==
  {<<[name |-> 1, body |-> b1], [name |-> 2, body |-> b2]>> :
     b1 \in ClaimBodies, b2 \in ClaimBodies \cup {NoBody}}
=============================================================================
