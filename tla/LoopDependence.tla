--------------------------- MODULE LoopDependence ---------------------------
(***************************************************************************)
(* LoopDependenceAnalysis of loomX: may the iterations of a for loop run   *)
(* in parallel, as far as arrays are concerned?  One behaviour is one call *)
(* of analyze for a loop of the set Loops.                                 *)
(*                                                                         *)
(* An expression is a record with the field op: a variable (name), an      *)
(* integer (value), a negation (operand), or a binary operation (lhs and   *)
(* rhs); "divide" stands for the operations that the analysis does not     *)
(* know.  Casts, which it skips, are left out.                             *)
(***************************************************************************)
EXTENDS Integers, Sequences, FiniteSets

CONSTANTS
  LoopVar,      \* index variable of the loop
  Enclosing,    \* index variables of the loops around it
  OtherVars,    \* further variables: unknown, or indices of nested loops
  Expressions,  \* subscripts with all their sub-expressions
  Height,       \* the height of each of them in the AST
  Loops,        \* [nested : SUBSET OtherVars, body : Seq(references)]
  NoBase,       \* base of a reference that is not rooted in a variable
  Iterations,   \* values of LoopVar, for the reference definition
  Values        \* values of the other variables, for the reference definition

Variables == {LoopVar} \cup Enclosing \cup OtherVars

\* A reference to an array, declared in the loop body if it is private.
References ==
  [base : {"A", "B", NoBase}, private : BOOLEAN, isWrite : BOOLEAN,
   subscripts : Seq(Expressions)]

ASSUME LoopsAssumption ==
  /\ LoopVar \notin Enclosing \cup OtherVars
  /\ Enclosing \cap OtherVars = {}
  /\ \A l \in Loops : l.nested \subseteq OtherVars /\ l.body \in Seq(References)

Operations == {"add", "subtract", "multiply", "divide"}

\* The sub-expressions of an expression are below it in the AST.
ASSUME ExpressionsAssumption ==
  /\ Height \in [Expressions -> Nat]
  /\ \A e \in Expressions :
       \/ e.op = "var" /\ e.name \in Variables
       \/ e.op = "int" /\ e.value \in Int
       \/ /\ e.op = "minus"
          /\ e.operand \in Expressions /\ Height[e.operand] < Height[e]
       \/ /\ e.op \in Operations
          /\ e.lhs \in Expressions /\ Height[e.lhs] < Height[e]
          /\ e.rhs \in Expressions /\ Height[e.rhs] < Height[e]

ASSUME RangesAssumption == Iterations \subseteq Int /\ Values \subseteq Int

VARIABLES
  loop,       \* the loop that is analysed
  refs,       \* its references, in the order of collectArrayReferences
  pair,       \* the two references to compare next
  phase,
  dependent   \* hasLoopCarriedDependence of the result

vars == <<loop, refs, pair, phase, dependent>>

Init ==
  /\ loop \in Loops
  /\ refs = << >>
  /\ pair = <<1, 2>>
  /\ phase = "collect"
  /\ dependent = FALSE

-----------------------------------------------------------------------------
(***************************************************************************)
(* Subscripts.                                                             *)
(***************************************************************************)
knownLoopVars == {LoopVar} \cup Enclosing \cup loop.nested

Linear(c, k) == [isAffine |-> TRUE, coefficient |-> c, constant |-> k]
NotAffine == [isAffine |-> FALSE, coefficient |-> 0, constant |-> 0]

\* Mutant: the offset of the factor is forgotten.
Product_NoOffset(a, b) ==
  IF a.coefficient = 0 THEN Linear(a.constant * b.coefficient, 0) ELSE
  IF b.coefficient = 0 THEN Linear(b.constant * a.coefficient, 0) ELSE NotAffine

\* A product of constants, or of a constant and the loop variable alone.
Product(a, b) ==
  LET isIndex(x) == x.coefficient = 1 /\ x.constant = 0
  IN IF a.coefficient = 0 /\ b.coefficient = 0 THEN Linear(0, a.constant * b.constant) ELSE
     IF a.coefficient = 0 /\ isIndex(b) THEN Linear(a.constant, 0) ELSE
     IF b.coefficient = 0 /\ isIndex(a) THEN Linear(b.constant, 0) ELSE NotAffine

\* The value of the subscript as coefficient * LoopVar + constant; the other
\* index variables of the nest count as the constant 0.
ExtractAffineSubscript[e \in Expressions] ==
  LET a == ExtractAffineSubscript[e.lhs]
      b == ExtractAffineSubscript[e.rhs]
      inner == ExtractAffineSubscript[e.operand]
  IN CASE e.op = "var" -> IF e.name = LoopVar THEN Linear(1, 0) ELSE
                          IF e.name \in knownLoopVars THEN Linear(0, 0) ELSE NotAffine
       [] e.op = "int" -> Linear(0, e.value)
       [] e.op = "minus" -> IF inner.isAffine
                            THEN Linear(-inner.coefficient, -inner.constant)
                            ELSE NotAffine
       [] e.op = "add" -> IF a.isAffine /\ b.isAffine
                          THEN Linear(a.coefficient + b.coefficient, a.constant + b.constant)
                          ELSE NotAffine
       [] e.op = "subtract" -> IF a.isAffine /\ b.isAffine
                               THEN Linear(a.coefficient - b.coefficient,
                                           a.constant - b.constant)
                               ELSE NotAffine
       [] e.op = "multiply" -> IF a.isAffine /\ b.isAffine THEN Product(a, b) ELSE NotAffine
       [] e.op = "divide" -> NotAffine

Abs(x) == IF x < 0 THEN -x ELSE x

gcd[p \in Nat \X Nat] == IF p[2] = 0 THEN p[1] ELSE gcd[<<p[2], p[1] % p[2]>>]

\* Mutant: any difference is taken for a multiple of the divisor.
GcdTest_NotDivided(c1, c2, delta) == c1 # 0 \/ c2 # 0 \/ delta = 0

\* Has c1 * i1 - c2 * i2 = delta an integer solution?
GcdTest(c1, c2, delta) ==
  LET g == gcd[<<Abs(c1), Abs(c2)>>] IN IF g = 0 THEN delta = 0 ELSE delta % g = 0

\* hasLoopCarriedDependence of two subscripts.
MayDepend(sub1, sub2) ==
  LET s1 == ExtractAffineSubscript[sub1]
      s2 == ExtractAffineSubscript[sub2]
  IN \/ ~s1.isAffine \/ ~s2.isAffine
     \/ /\ GcdTest(s1.coefficient, s2.coefficient, s2.constant - s1.constant)
        /\ <<s1.coefficient, s1.constant>> # <<s2.coefficient, s2.constant>>

\* The variables that an expression refers to.
Mentioned[e \in Expressions] ==
  CASE e.op = "var" -> {e.name}
    [] e.op = "int" -> {}
    [] e.op = "minus" -> Mentioned[e.operand]
    [] OTHER -> Mentioned[e.lhs] \cup Mentioned[e.rhs]

MentionedBy(r) == UNION {Mentioned[r.subscripts[d]] : d \in DOMAIN r.subscripts}

-----------------------------------------------------------------------------
(***************************************************************************)
(* analyze.                                                                *)
(***************************************************************************)

\* The references of the body that write, or those that read.
Selected(body, isWrite) ==
  LET upTo[n \in 0..Len(body)] ==
        IF n = 0 THEN << >> ELSE
        IF body[n].isWrite = isWrite THEN Append(upTo[n - 1], body[n]) ELSE upTo[n - 1]
  IN upTo[Len(body)]

\* collectArrayReferences: the reads first, then the writes.
Collect ==
  /\ phase = "collect"
  /\ refs' = Selected(loop.body, FALSE) \o Selected(loop.body, TRUE)
  /\ phase' = "guard"
  /\ UNCHANGED <<loop, pair, dependent>>

Return(result) ==
  /\ dependent' = result
  /\ phase' = "done"
  /\ UNCHANGED <<loop, refs, pair>>

\* Writes that move with a nested loop but not with this one.
RepeatedByNest(r) ==
  /\ r.isWrite /\ r.base # NoBase /\ ~r.private
  /\ LoopVar \notin MentionedBy(r)
  /\ MentionedBy(r) \cap loop.nested # {}

GuardNest ==
  /\ phase = "guard"
  /\ \/ /\ \E n \in DOMAIN refs : RepeatedByNest(refs[n])
        /\ Return(TRUE)
     \/ /\ ~\E n \in DOMAIN refs : RepeatedByNest(refs[n])
        /\ phase' = "compare"
        /\ UNCHANGED <<loop, refs, pair, dependent>>

PairDepends(r1, r2) ==
  /\ r1.isWrite \/ r2.isWrite
  /\ r1.base = r2.base /\ r1.base # NoBase
  /\ \/ Len(r1.subscripts) # Len(r2.subscripts)
     \/ \E d \in DOMAIN r1.subscripts \cap DOMAIN r2.subscripts :
          MayDepend(r1.subscripts[d], r2.subscripts[d])

\* Mutant: the inner loop starts at the first reference.
NextPair_FromStart(i, j) == IF j < Len(refs) THEN <<i, j + 1>> ELSE <<i + 1, 1>>

\* The two nested loops over the references.
NextPair(i, j) == IF j < Len(refs) THEN <<i, j + 1>> ELSE <<i + 1, i + 2>>

ComparePair ==
  /\ phase = "compare" /\ pair[2] <= Len(refs)
  /\ \/ /\ PairDepends(refs[pair[1]], refs[pair[2]])
        /\ Return(TRUE)
     \/ /\ ~PairDepends(refs[pair[1]], refs[pair[2]])
        /\ pair' = NextPair(pair[1], pair[2])
        /\ UNCHANGED <<loop, refs, phase, dependent>>

NoDependence ==
  /\ phase = "compare" /\ pair[2] > Len(refs)
  /\ Return(FALSE)

Next == Collect \/ GuardNest \/ ComparePair \/ NoDependence

Spec == Init /\ [][Next]_vars

-----------------------------------------------------------------------------
(***************************************************************************)
(* What the iterations really do: an iteration evaluates the subscripts in *)
(* environments that give values to the variables; v has the values of the *)
(* sub-expressions.  A quotient stands for the result of any operation     *)
(* that the analysis does not know.                                        *)
(***************************************************************************)
ValueOf(v, env, e) ==
  CASE e.op = "var" -> env[e.name]
    [] e.op = "int" -> e.value
    [] e.op = "minus" -> -v[e.operand]
    [] e.op = "add" -> v[e.lhs] + v[e.rhs]
    [] e.op = "subtract" -> v[e.lhs] - v[e.rhs]
    [] e.op = "multiply" -> v[e.lhs] * v[e.rhs]
    [] e.op = "divide" -> IF v[e.rhs] > 0 THEN v[e.lhs] \div v[e.rhs] ELSE 0

Value(env) == LET v[e \in Expressions] == ValueOf(v, env, e) IN v

\* The loop variable has the value x; variables without a given value do not
\* matter.
Environment(x, outer, free) ==
  [n \in Variables |-> IF n = LoopVar THEN x ELSE
                       IF n \in Enclosing THEN outer[n] ELSE
                       IF n \in DOMAIN free THEN free[n] ELSE 0]

\* Iterations x and y, of one run of the loop, touch the same element.
Touch(r1, x, r2, y) ==
  LET free1 == MentionedBy(r1) \ (Enclosing \cup {LoopVar})
      free2 == MentionedBy(r2) \ (Enclosing \cup {LoopVar})
  IN \E outer \in [Enclosing -> Values], f1 \in [free1 -> Values], f2 \in [free2 -> Values] :
       LET v1 == Value(Environment(x, outer, f1))
           v2 == Value(Environment(y, outer, f2))
       IN \A d \in DOMAIN r1.subscripts \cap DOMAIN r2.subscripts :
            v1[r1.subscripts[d]] = v2[r2.subscripts[d]]

\* Two iterations touch the same element of an array and one of them writes.
Conflict ==
  \E m, n \in DOMAIN loop.body :
    LET r1 == loop.body[m]
        r2 == loop.body[n]
    IN /\ m <= n
       /\ r1.isWrite \/ r2.isWrite
       /\ r1.base = r2.base /\ r1.base # NoBase /\ ~r1.private
       /\ \E x, y \in Iterations : x # y /\ Touch(r1, x, r2, y)

-----------------------------------------------------------------------------
(***************************************************************************)
(* Properties.                                                             *)
(***************************************************************************)
\* Types: the pairs compared are two references of the body, in order.
TypeOK ==
  /\ loop \in Loops
  /\ refs \in Seq(References)
  /\ pair \in (1..(Len(loop.body) + 1)) \X (2..(Len(loop.body) + 2))
  /\ pair[1] < pair[2]
  /\ phase \in {"collect", "guard", "compare", "done"}
  /\ dependent \in BOOLEAN

\* The write has a dimension that moves with the loop and in which no
\* reference to the array depends on anything but the loop variable.
Anchored(w) ==
  \E d \in DOMAIN w.subscripts :
    /\ ExtractAffineSubscript[w.subscripts[d]].coefficient # 0
    /\ \A n \in DOMAIN loop.body :
         LET r == loop.body[n]
         IN r.base = w.base /\ d \in DOMAIN r.subscripts =>
              Mentioned[r.subscripts[d]] \subseteq {LoopVar}

\* "Returns true if the loop is safe to parallelize": without a dependence in
\* the result, no two iterations touch the same element, provided that every
\* write is anchored or moves with a nested loop only.
SafeIfAnchored ==
  /\ phase = "done" /\ ~dependent
  /\ \A n \in DOMAIN loop.body :
       loop.body[n].isWrite => Anchored(loop.body[n]) \/ RepeatedByNest(loop.body[n])
  => ~Conflict

\* A subscript within the documented scope: affine in the loop index.
Simple(e) == Mentioned[e] \subseteq {LoopVar} /\ ExtractAffineSubscript[e].isAffine

\* The test is exact for one-dimensional arrays with subscripts that are affine
\* in the loop index: a loop is rejected only if two iterations touch the same
\* element, unless the loop bounds keep them apart.
RejectedIfConflict ==
  /\ phase = "done" /\ dependent
  /\ \A n \in DOMAIN loop.body :
       LET r == loop.body[n]
       IN ~r.private /\ Len(r.subscripts) = 1 /\ Simple(r.subscripts[1])
  => Conflict

\* "Decide whether two different iterations could access the same element.  If
\* so, the loop is marked as having a loop-carried dependence."
MarkedIfConflict == phase = "done" /\ Conflict => dependent
=============================================================================
