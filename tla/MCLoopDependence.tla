-------------------------- MODULE MCLoopDependence --------------------------
(***************************************************************************)
(* Loops over i for TLC, in a loop over k; j is the index of a nested loop *)
(* or unknown.                                                             *)
(***************************************************************************)
EXTENDS LoopDependence

Var(v) == [op |-> "var", name |-> v]
Const(n) == [op |-> "int", value |-> n]
Minus(e) == [op |-> "minus", operand |-> e]
Op(o, a, b) == [op |-> o, lhs |-> a, rhs |-> b]

I == Var("i")
J == Var("j")
K == Var("k")

\* Subscripts that are affine in i.
Scaled == {Op("multiply", Const(2), I), Op("multiply", I, Const(3))}
Affine1 == {I, Const(0), Const(2), Op("add", I, Const(1)), Op("subtract", Const(3), I), Minus(I)}
             \cup Scaled \cup {Op("add", s, Const(1)) : s \in Scaled}

\* Other subscripts, which the analysis gives up or treats as constants.
Other == {J, K, Op("add", I, J), Op("subtract", I, K), Op("multiply", I, I),
          Op("multiply", Const(2), Op("add", I, Const(1))), Op("divide", I, Const(2)),
          Op("multiply", K, I)}

AllExpressions ==
  Affine1 \cup Other \cup {Const(n) : n \in 0..3} \cup {Op("add", I, Const(1))}

HeightOf[e \in AllExpressions] ==
  CASE e.op \in {"var", "int"} -> 0
    [] e.op = "minus" -> 1 + HeightOf[e.operand]
    [] OTHER -> 1 + HeightOf[e.lhs] + HeightOf[e.rhs]

Ref(b, w, s) == [base |-> b, private |-> FALSE, isWrite |-> w, subscripts |-> s]

Lines == {Ref("A", w, <<s>>) : w \in BOOLEAN, s \in Affine1 \cup Other}
Planes == {Ref("A", w, <<s, t>>) : w \in BOOLEAN, s, t \in {I, J, Op("add", I, Const(1)), Const(0)}}
Strange == {[base |-> NoBase, private |-> FALSE, isWrite |-> TRUE, subscripts |-> <<I>>],
            [base |-> "B", private |-> TRUE, isWrite |-> TRUE, subscripts |-> <<J>>],
            Ref("B", FALSE, <<Op("add", I, Const(1))>>)}
Few == {Ref("A", w, <<s>>) : w \in BOOLEAN,
                             s \in {I, Op("add", I, Const(1)), Op("multiply", Const(2), I), J}}
Some == Lines \cup Planes \cup Strange

Bodies == {<< >>} \cup {<<r>> : r \in Some} \cup {<<r, s>> : r, s \in Some}
            \cup {<<r, s, t>> : r, s, t \in Few}

Window == -6..6

SmallLoops == {[nested |-> n, body |-> b] : n \in {{}, {"j"}}, b \in Bodies}
=============================================================================
