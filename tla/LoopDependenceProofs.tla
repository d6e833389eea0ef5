------------------------ MODULE LoopDependenceProofs ------------------------
(***************************************************************************)
(* Proofs about LoopDependence, for every set of expressions, loops and    *)
(* values: type correctness, that a loop declared safe is safe if each of  *)
(* its writes is anchored in the loop index, and that a loop of affine     *)
(* subscripts is rejected only if iterations do collide.                   *)
(*                                                                         *)
(* The functions of the model are recursions to smaller arguments: to the  *)
(* rest of a division, to sub-expressions, to shorter beginnings of the    *)
(* body.  Each is first shown to satisfy its own equation (the lemmas      *)
(* named ...Unfolds), and then what it computes follows by induction.      *)
(***************************************************************************)
EXTENDS LoopDependence, Induction, TLAPS

-----------------------------------------------------------------------------
(* gcd and the test made of it *)

Pairs == Nat \X Nat

\* One call of gcd, with g for the inner call.
GcdStep(g, p) == IF p[2] = 0 THEN p[1] ELSE g[<<p[2], p[1] % p[2]>>]

IsGcd(g) == g = [p \in Pairs |-> GcdStep(g, p)]

\* The second argument gets smaller from call to call.
LEMMA SmallerRest ==
  ASSUME NEW p \in Pairs, p[2] # 0
  PROVE  <<p[2], p[1] % p[2]>> \in Pairs /\ p[1] % p[2] \in Nat /\ p[1] % p[2] < p[2]
BY DEF Pairs

\* gcd ends for every pair of natural numbers.
LEMMA GcdUnfolds ==
  \A p \in Pairs : gcd[p] = GcdStep(gcd, p)
<1> DEFINE rank == [p \in Pairs |-> p[2]]
           step == [g \in [Pairs -> Nat] |-> [p \in Pairs |-> GcdStep(g, p)]]
<1>1. rank \in [Pairs -> Nat] /\ \A p \in Pairs : rank[p] = p[2]
  BY DEF Pairs
<1>2. \A g \in [Pairs -> Nat], p \in Pairs : step[g][p] = GcdStep(g, p)
  OBVIOUS
<1>3. ASSUME NEW g \in [Pairs -> Nat] PROVE step[g] \in [Pairs -> Nat]
  <2>1. \A p \in Pairs : p[1] \in Nat
    BY DEF Pairs
  <2>2. \A p \in Pairs : GcdStep(g, p) \in Nat
    BY <2>1, SmallerRest DEF GcdStep
  <2> QED BY <2>2
<1>4. ASSUME NEW g \in [Pairs -> Nat], NEW h \in [Pairs -> Nat], NEW p \in Pairs,
             \A q \in Pairs : rank[q] < rank[p] => g[q] = h[q]
      PROVE  step[g][p] = step[h][p]
  <2>1. CASE p[2] = 0
    BY <1>2, <2>1 DEF GcdStep
  <2>2. CASE p[2] # 0
    <3>1. PICK q : q = <<p[2], p[1] % p[2]>>
      OBVIOUS
    <3>2. q \in Pairs /\ q[2] < p[2]
      BY <2>2, <3>1, SmallerRest
    <3>3. g[q] = h[q]
      BY <1>1, <1>4, <3>2
    <3> QED BY <1>2, <2>2, <3>1, <3>3 DEF GcdStep
  <2> QED BY <2>1, <2>2
<1> HIDE DEF rank, step
<1>5. PICK g \in [Pairs -> Nat] : \A p \in Pairs : g[p] = step[g][p]
  <2>1. DependsOnLower(step, Pairs, rank, Nat)
    BY <1>3, <1>4 DEF DependsOnLower
  <2>2. Nat # {}
    OBVIOUS
  <2> QED BY <1>1, <2>1, <2>2, RankedRecursion
<1>6. IsGcd(g)
  BY <1>2, <1>5 DEF IsGcd
<1>7. gcd = CHOOSE f : IsGcd(f)
  BY DEF gcd, IsGcd, GcdStep, Pairs
<1>8. IsGcd(gcd)
  BY <1>6, <1>7
<1> QED BY <1>8 DEF IsGcd

\* x is a multiple of g.
Multiple(x, g) == \E t \in Int : x = t * g

\* If g divides b and the rest of a by b, it divides a.
LEMMA MultipleOfRest ==
  ASSUME NEW a \in Nat, NEW b \in Nat, b # 0, NEW g \in Nat,
         Multiple(b, g), Multiple(a % b, g)
  PROVE  Multiple(a, g)
<1>1. PICK s \in Int : b = s * g
  BY DEF Multiple
<1>2. PICK t \in Int : a % b = t * g
  BY DEF Multiple
<1>3. PICK q : q = a \div b
  OBVIOUS
<1>4. q \in Int /\ a % b = a - b * q
  BY <1>3
<1>5. a = (s * q + t) * g
  <2>1. a = b * q + (a % b) /\ a % b \in Int
    BY <1>4
  <2> QED BY <1>1, <1>2, <1>4, <2>1
<1>6. s * q + t \in Int
  BY <1>4
<1> QED BY <1>5, <1>6 DEF Multiple

\* gcd divides its arguments, and is not 0 unless they both are.
LEMMA GcdDivides ==
  ASSUME NEW a \in Nat, NEW b \in Nat
  PROVE  /\ gcd[<<a, b>>] \in Nat
         /\ Multiple(a, gcd[<<a, b>>]) /\ Multiple(b, gcd[<<a, b>>])
         /\ gcd[<<a, b>>] = 0 => a = 0 /\ b = 0
<1> DEFINE rank == [p \in Pairs |-> p[2]]
           Good(p) == /\ gcd[p] \in Nat
                      /\ Multiple(p[1], gcd[p]) /\ Multiple(p[2], gcd[p])
                      /\ gcd[p] = 0 => p[1] = 0 /\ p[2] = 0
           T == {p \in Pairs : Good(p)}
<1>1. rank \in [Pairs -> Nat] /\ \A p \in Pairs : rank[p] = p[2]
  BY DEF Pairs
<1>2. ASSUME NEW p \in Pairs, \A q \in Pairs : rank[q] < rank[p] => q \in T
      PROVE  p \in T
  <2>0. p[1] \in Nat /\ p[2] \in Nat
    BY DEF Pairs
  <2>1. CASE p[2] = 0
    <3>1. gcd[p] = p[1]
      BY <2>1, GcdUnfolds DEF GcdStep
    <3>2. Multiple(p[1], p[1]) /\ Multiple(p[2], p[1])
      <4>1. p[1] = 1 * p[1] /\ p[2] = 0 * p[1]
        BY <2>0, <2>1
      <4> QED BY <4>1 DEF Multiple
    <3> QED BY <2>0, <2>1, <3>1, <3>2
  <2>2. CASE p[2] # 0
    <3>1. PICK q : q = <<p[2], p[1] % p[2]>>
      OBVIOUS
    <3>2. q \in Pairs /\ q[2] < p[2] /\ q[1] = p[2] /\ q[2] = p[1] % p[2]
      BY <2>2, <3>1, SmallerRest
    <3>3. Good(q)
      BY <1>1, <1>2, <3>2
    <3>4. gcd[p] = gcd[q]
      BY <2>2, <3>1, GcdUnfolds DEF GcdStep
    <3>5. Multiple(p[1], gcd[p])
      BY <2>0, <2>2, <3>2, <3>3, <3>4, MultipleOfRest
    <3> QED BY <2>2, <3>2, <3>3, <3>4, <3>5
  <2> QED BY <2>1, <2>2
<1>3. Pairs \subseteq T
  <2> HIDE DEF rank, T
  <2> QED BY <1>1, <1>2, RankedInduction
<1>4. <<a, b>> \in Pairs /\ <<a, b>>[1] = a /\ <<a, b>>[2] = b
  BY DEF Pairs
<1>5. Good(<<a, b>>)
  BY <1>3, <1>4
<1> QED BY <1>4, <1>5

\* Two subscripts with a common value pass the test.
LEMMA GcdTestComplete ==
  ASSUME NEW c1 \in Int, NEW c2 \in Int, NEW k1 \in Int, NEW k2 \in Int,
         NEW x \in Int, NEW y \in Int, c1 # 0 \/ c2 # 0, c1 * x + k1 = c2 * y + k2
  PROVE  GcdTest(c1, c2, k2 - k1)
<1>1. Abs(c1) \in Nat /\ Abs(c2) \in Nat /\ (c1 # 0 => Abs(c1) # 0) /\ (c2 # 0 => Abs(c2) # 0)
  BY DEF Abs
<1>2. PICK g : g = gcd[<<Abs(c1), Abs(c2)>>]
  OBVIOUS
<1>3. g \in Nat /\ g # 0 /\ Multiple(Abs(c1), g) /\ Multiple(Abs(c2), g)
  BY <1>1, <1>2, GcdDivides
<1>4. PICK s \in Int : c1 = s * g
  <2>1. PICK t \in Int : Abs(c1) = t * g
    BY <1>3 DEF Multiple
  <2>2. c1 = t * g \/ c1 = (-t) * g
    BY <1>3, <2>1 DEF Abs
  <2>3. -t \in Int
    OBVIOUS
  <2> QED BY <2>2, <2>3
<1>5. PICK u \in Int : c2 = u * g
  <2>1. PICK t \in Int : Abs(c2) = t * g
    BY <1>3 DEF Multiple
  <2>2. c2 = t * g \/ c2 = (-t) * g
    BY <1>3, <2>1 DEF Abs
  <2>3. -t \in Int
    OBVIOUS
  <2> QED BY <2>2, <2>3
<1>6. k2 - k1 = (s * x - u * y) * g /\ s * x - u * y \in Int
  BY <1>3, <1>4, <1>5
<1>7. (k2 - k1) % g = 0
  <2>1. \A t \in Int : (t * g) % g = 0
    BY <1>3
  <2> QED BY <1>6, <2>1
<1> QED BY <1>2, <1>3, <1>7 DEF GcdTest

\* gcd is a combination of its arguments.
LEMMA GcdCombines ==
  ASSUME NEW a \in Nat, NEW b \in Nat
  PROVE  \E s, t \in Int : gcd[<<a, b>>] = s * a + t * b
<1> DEFINE rank == [p \in Pairs |-> p[2]]
           Good(p) == \E s, t \in Int : gcd[p] = s * p[1] + t * p[2]
           T == {p \in Pairs : Good(p)}
<1>1. rank \in [Pairs -> Nat] /\ \A p \in Pairs : rank[p] = p[2]
  BY DEF Pairs
<1>2. ASSUME NEW p \in Pairs, \A q \in Pairs : rank[q] < rank[p] => q \in T
      PROVE  p \in T
  <2>0. p[1] \in Nat /\ p[2] \in Nat
    BY DEF Pairs
  <2>1. CASE p[2] = 0
    <3>1. gcd[p] = p[1]
      BY <2>1, GcdUnfolds DEF GcdStep
    <3>2. p[1] = 1 * p[1] + 0 * p[2]
      BY <2>0
    <3> QED BY <3>1, <3>2
  <2>2. CASE p[2] # 0
    <3>1. PICK q : q = <<p[2], p[1] % p[2]>>
      OBVIOUS
    <3>2. q \in Pairs /\ q[2] < p[2] /\ q[1] = p[2] /\ q[2] = p[1] % p[2]
      BY <2>2, <3>1, SmallerRest
    <3>3. PICK s, t \in Int : gcd[q] = s * q[1] + t * q[2]
      BY <1>1, <1>2, <3>2
    <3>4. gcd[p] = gcd[q]
      BY <2>2, <3>1, GcdUnfolds DEF GcdStep
    <3>5. PICK m, n \in Nat : m = p[1] /\ n = p[2]
      BY <2>0
    <3>6. PICK d : d = m \div n
      OBVIOUS
    <3>7. d \in Int /\ m % n = m - n * d
      BY <2>2, <3>5, <3>6
    <3>8. s * n + t * (m - n * d) = t * m + (s - t * d) * n
      BY <3>7
    <3>9. t \in Int /\ s - t * d \in Int
      BY <3>7
    <3>10. gcd[p] = t * p[1] + (s - t * d) * p[2]
      BY <3>2, <3>3, <3>4, <3>5, <3>7, <3>8
    <3> QED BY <3>9, <3>10
  <2> QED BY <2>1, <2>2
<1>3. Pairs \subseteq T
  <2> HIDE DEF rank, T
  <2> QED BY <1>1, <1>2, RankedInduction
<1>4. <<a, b>> \in Pairs /\ <<a, b>>[1] = a /\ <<a, b>>[2] = b
  BY DEF Pairs
<1>5. Good(<<a, b>>)
  BY <1>3, <1>4
<1> QED BY <1>4, <1>5

\* Two subscripts have the same value in two different iterations.
Meet(c1, k1, c2, k2) == \E x, y \in Int : x # y /\ c1 * x + k1 = c2 * y + k2

\* Two different subscripts that pass the test have a common value in two
\* different iterations.
LEMMA GcdTestSound ==
  ASSUME NEW c1 \in Int, NEW c2 \in Int, NEW k1 \in Int, NEW k2 \in Int,
         GcdTest(c1, c2, k2 - k1), c1 # c2 \/ k1 # k2
  PROVE  Meet(c1, k1, c2, k2)
<1> SUFFICES \E x, y \in Int : x # y /\ c1 * x + k1 = c2 * y + k2
  BY DEF Meet
<1>1. Abs(c1) \in Nat /\ Abs(c2) \in Nat
  BY DEF Abs
<1>2. PICK g : g = gcd[<<Abs(c1), Abs(c2)>>]
  OBVIOUS
<1>3. g \in Nat /\ (g = 0 => Abs(c1) = 0 /\ Abs(c2) = 0)
  BY <1>1, <1>2, GcdDivides
<1>4. PICK delta \in Int : delta = k2 - k1
  OBVIOUS
<1>5. g # 0 /\ delta % g = 0
  <2>1. CASE g = 0
    <3>1. c1 = 0 /\ c2 = 0
      BY <1>3, <2>1 DEF Abs
    <3>2. k2 - k1 = 0
      BY <1>2, <2>1 DEF GcdTest
    <3> QED BY <3>1, <3>2
  <2>2. CASE g # 0
    BY <1>2, <1>4, <2>2 DEF GcdTest
  <2> QED BY <2>1, <2>2
<1>6. PICK m \in Int : delta = m * g
  <2>1. PICK d : d = delta \div g
    OBVIOUS
  <2>2. d \in Int /\ delta % g = delta - g * d
    BY <1>3, <1>5, <2>1
  <2>3. delta = d * g
    BY <1>3, <1>5, <2>2
  <2> QED BY <2>2, <2>3
<1>7. PICK s, t \in Int : g = s * c1 + t * c2
  <2>1. PICK u, v \in Int : g = u * Abs(c1) + v * Abs(c2)
    BY <1>1, <1>2, GcdCombines
  <2>2. PICK s \in {u, -u} : u * Abs(c1) = s * c1
    BY DEF Abs
  <2>3. PICK t \in {v, -v} : v * Abs(c2) = t * c2
    BY DEF Abs
  <2>4. s \in Int /\ t \in Int
    BY <2>2, <2>3
  <2> QED BY <2>1, <2>2, <2>3, <2>4
<1>8. PICK x, y \in Int : x = m * s /\ y = -(m * t)
  OBVIOUS
<1>9. c1 * x - c2 * y = delta
  <2>1. c1 * (m * s) - c2 * (-(m * t)) = m * (s * c1 + t * c2)
    OBVIOUS
  <2> QED BY <1>6, <1>7, <1>8, <2>1
<1>10. c1 * x + k1 = c2 * y + k2
  <2>1. c1 * x \in Int /\ c2 * y \in Int
    OBVIOUS
  <2> QED BY <1>4, <1>9, <2>1
<1>11. CASE x # y
  BY <1>10, <1>11
<1>12. CASE x = y
  <2>1. c1 # c2
    <3>1. CASE c1 = c2
      <4>1. k1 = k2
        BY <1>10, <1>12, <3>1
      <4> QED BY <3>1, <4>1
    <3> QED BY <3>1
  <2>2. PICK v, w \in Int : v = x + c2 /\ w = y + c1
    OBVIOUS
  <2>3. v # w
    BY <1>12, <2>1, <2>2
  <2>4. c1 * (x + c2) + k1 = c2 * (y + c1) + k2
    BY <1>10
  <2> QED BY <2>2, <2>3, <2>4
<1> QED BY <1>11, <1>12

-----------------------------------------------------------------------------
(* Expressions *)

\* The forms of an expression.
LEMMA Forms ==
  ASSUME NEW e \in Expressions
  PROVE  \/ e.op = "var" /\ e.name \in Variables
         \/ e.op = "int" /\ e.value \in Int
         \/ /\ e.op = "minus"
            /\ e.operand \in Expressions /\ Height[e.operand] < Height[e]
         \/ /\ e.op \in {"add", "subtract", "multiply", "divide"}
            /\ e.lhs \in Expressions /\ Height[e.lhs] < Height[e]
            /\ e.rhs \in Expressions /\ Height[e.rhs] < Height[e]
BY ExpressionsAssumption DEF Operations

\* What extractAffineSubscript returns.
Affine ==
  [isAffine : {TRUE}, coefficient : Int, constant : Int] \cup {NotAffine}

\* One call of extractAffineSubscript, with f for the inner calls and known
\* for the index variables of the nest.
AffineStep(f, known, e) ==
  LET a == f[e.lhs]
      b == f[e.rhs]
      inner == f[e.operand]
  IN CASE e.op = "var" -> IF e.name = LoopVar THEN Linear(1, 0) ELSE
                          IF e.name \in known THEN Linear(0, 0) ELSE NotAffine
       [] e.op = "int" -> Linear(0, e.value)
       [] e.op = "minus" -> IF inner.isAffine
                            THEN Linear(-inner.coefficient, -inner.constant)
                            ELSE NotAffine
       [] e.op = "add" -> IF a.isAffine /\ b.isAffine
                          THEN Linear(a.coefficient + b.coefficient, a.constant + b.constant)
                          ELSE NotAffine
       [] e.op = "subtract" -> IF a.isAffine /\ b.isAffine
                               THEN Linear(a.coefficient - b.coefficient,
                                           a.constant - b.constant)
                               ELSE NotAffine
       [] e.op = "multiply" -> IF a.isAffine /\ b.isAffine THEN Product(a, b) ELSE NotAffine
       [] e.op = "divide" -> NotAffine

IsExtract(f, known) == f = [e \in Expressions |-> AffineStep(f, known, e)]

Extracted(known) == CHOOSE f : IsExtract(f, known)

\* The results of extractAffineSubscript are well formed.
LEMMA LinearType ==
  ASSUME NEW c \in Int, NEW k \in Int
  PROVE  Linear(c, k) \in Affine
BY DEF Linear, Affine

\* What is not affine has the coefficient 0.
LEMMA AffineFields ==
  ASSUME NEW a \in Affine
  PROVE  /\ a.isAffine \in BOOLEAN /\ a.coefficient \in Int /\ a.constant \in Int
         /\ ~a.isAffine => a.coefficient = 0
<1>1. CASE a \in [isAffine : {TRUE}, coefficient : Int, constant : Int]
  <2>1. a.isAffine = TRUE /\ a.coefficient \in Int /\ a.constant \in Int
    BY <1>1
  <2> QED BY <2>1
<1>2. CASE a = NotAffine
  <2>1. a.isAffine = FALSE /\ a.coefficient = 0 /\ a.constant = 0
    BY <1>2 DEF NotAffine
  <2>2. a.coefficient \in Int /\ a.constant \in Int
    BY <2>1
  <2>3. a.isAffine \in BOOLEAN
    BY <2>1
  <2> QED BY <2>1, <2>2, <2>3
<1> QED BY <1>1, <1>2 DEF Affine

\* So are products of them.
LEMMA ProductType ==
  ASSUME NEW a \in Affine, NEW b \in Affine
  PROVE  Product(a, b) \in Affine
<1>1. a.coefficient \in Int /\ a.constant \in Int /\ b.coefficient \in Int /\ b.constant \in Int
  BY AffineFields
<1>2. a.constant * b.constant \in Int
  BY <1>1
<1>3. NotAffine \in Affine
  BY DEF Affine
<1> QED BY <1>1, <1>2, <1>3, LinearType DEF Product

\* A call gives a result of the type if the inner calls do.
LEMMA AffineStepType ==
  ASSUME NEW f \in [Expressions -> Affine], NEW e \in Expressions
  PROVE  AffineStep(f, knownLoopVars, e) \in Affine
<1>1. NotAffine \in Affine
  BY DEF Affine
<1>2. CASE e.op = "var"
  <2>1. Linear(1, 0) \in Affine /\ Linear(0, 0) \in Affine
    BY LinearType
  <2> QED BY <1>1, <1>2, <2>1 DEF AffineStep
<1>3. CASE e.op = "int"
  <2>0. e.value \in Int
    BY <1>3, Forms
  <2>1. Linear(0, e.value) \in Affine
    BY <2>0, LinearType
  <2> QED BY <1>3, <2>1 DEF AffineStep
<1>4. CASE e.op = "minus"
  <2>1. f[e.operand] \in Affine
    BY <1>4, Forms
  <2>2. -f[e.operand].coefficient \in Int /\ -f[e.operand].constant \in Int
    BY <2>1, AffineFields
  <2>3. Linear(-f[e.operand].coefficient, -f[e.operand].constant) \in Affine
    BY <2>2, LinearType
  <2> QED BY <1>1, <1>4, <2>3 DEF AffineStep
<1>5. CASE e.op \in {"add", "subtract", "multiply", "divide"}
  <2>1. f[e.lhs] \in Affine /\ f[e.rhs] \in Affine
    BY <1>5, Forms
  <2>2. PICK a, b : a = f[e.lhs] /\ b = f[e.rhs]
    OBVIOUS
  <2>3. a.coefficient \in Int /\ a.constant \in Int /\ b.coefficient \in Int /\ b.constant \in Int
    BY <2>1, <2>2, AffineFields
  <2>4. /\ Linear(a.coefficient + b.coefficient, a.constant + b.constant) \in Affine
        /\ Linear(a.coefficient - b.coefficient, a.constant - b.constant) \in Affine
    BY <2>3, LinearType
  <2>5. Product(a, b) \in Affine
    BY <2>1, <2>2, ProductType
  <2> QED BY <1>1, <1>5, <2>2, <2>4, <2>5 DEF AffineStep
<1> QED BY <1>2, <1>3, <1>4, <1>5, Forms

\* A call depends on the inner calls for what is below the expression only.
LEMMA AffineStepAgrees ==
  ASSUME NEW f, NEW h, NEW e \in Expressions,
         \A d \in Expressions : Height[d] < Height[e] => f[d] = h[d]
  PROVE  AffineStep(f, knownLoopVars, e) = AffineStep(h, knownLoopVars, e)
<1>1. CASE e.op \in {"var", "int"}
  BY <1>1 DEF AffineStep
<1>2. CASE e.op = "minus"
  <2>1. f[e.operand] = h[e.operand]
    BY <1>2, Forms
  <2> QED BY <1>2, <2>1 DEF AffineStep
<1>3. CASE e.op \in {"add", "subtract", "multiply", "divide"}
  <2>1. f[e.lhs] = h[e.lhs] /\ f[e.rhs] = h[e.rhs]
    BY <1>3, Forms
  <2> QED BY <1>3, <2>1 DEF AffineStep
<1> QED BY <1>1, <1>2, <1>3, Forms

\* extractAffineSubscript ends for every expression.
LEMMA ExtractUnfolds ==
  /\ ExtractAffineSubscript \in [Expressions -> Affine]
  /\ \A e \in Expressions :
       ExtractAffineSubscript[e] = AffineStep(ExtractAffineSubscript, knownLoopVars, e)
<1> DEFINE step == [f \in [Expressions -> Affine] |->
                      [e \in Expressions |-> AffineStep(f, knownLoopVars, e)]]
<1>1. Height \in [Expressions -> Nat]
  BY ExpressionsAssumption
<1>2. \A f \in [Expressions -> Affine], e \in Expressions : step[f][e] = AffineStep(f, knownLoopVars, e)
  OBVIOUS
<1>3. \A f \in [Expressions -> Affine] : step[f] \in [Expressions -> Affine]
  BY AffineStepType
<1>4. ASSUME NEW f \in [Expressions -> Affine], NEW h \in [Expressions -> Affine],
             NEW e \in Expressions,
             \A d \in Expressions : Height[d] < Height[e] => f[d] = h[d]
      PROVE  step[f][e] = step[h][e]
  <2>1. AffineStep(f, knownLoopVars, e) = AffineStep(h, knownLoopVars, e)
    BY <1>4, AffineStepAgrees
  <2> QED BY <1>2, <2>1
<1> HIDE DEF step
<1>5. PICK f \in [Expressions -> Affine] : \A e \in Expressions : f[e] = step[f][e]
  <2>1. DependsOnLower(step, Expressions, Height, Affine)
    BY <1>3, <1>4 DEF DependsOnLower
  <2>2. Affine # {}
    BY DEF Affine
  <2> QED BY <1>1, <2>1, <2>2, RankedRecursion
<1>6. IsExtract(f, knownLoopVars)
  BY <1>2, <1>5 DEF IsExtract
<1>7. ExtractAffineSubscript = Extracted(knownLoopVars)
  BY DEF ExtractAffineSubscript, Extracted, IsExtract, AffineStep
<1>8. IsExtract(ExtractAffineSubscript, knownLoopVars)
  BY <1>6, <1>7 DEF Extracted
<1>9. PICK g : g = ExtractAffineSubscript
  OBVIOUS
<1>10. g = [e \in Expressions |-> AffineStep(g, knownLoopVars, e)]
  BY <1>8, <1>9 DEF IsExtract
<1>11. \A e \in Expressions : g[e] = AffineStep(g, knownLoopVars, e)
  BY <1>10
<1>12. g \in [Expressions -> Affine]
  <2> DEFINE T == {e \in Expressions : g[e] \in Affine}
  <2>1. ASSUME NEW e \in Expressions, \A d \in Expressions : Height[d] < Height[e] => d \in T
        PROVE  e \in T
    <3>1. PICK h : h = [d \in Expressions |-> IF g[d] \in Affine THEN g[d] ELSE NotAffine]
      OBVIOUS
    <3>2. h \in [Expressions -> Affine]
      BY <3>1 DEF Affine
    <3>3. \A d \in Expressions : Height[d] < Height[e] => g[d] = h[d]
      BY <2>1, <3>1
    <3>4. AffineStep(g, knownLoopVars, e) = AffineStep(h, knownLoopVars, e)
      BY <3>3, AffineStepAgrees
    <3>5. g[e] \in Affine
      BY <1>11, <3>2, <3>4, AffineStepType
    <3> QED BY <3>5
  <2>2. Expressions \subseteq T
    <3> HIDE DEF T
    <3> QED BY <1>1, <2>1, RankedInduction
  <2> QED BY <1>10, <2>2
<1> QED BY <1>9, <1>11, <1>12

\* One step of Mentioned, with f for the sub-expressions.
MentionedStep(f, e) ==
  CASE e.op = "var" -> {e.name}
    [] e.op = "int" -> {}
    [] e.op = "minus" -> f[e.operand]
    [] OTHER -> f[e.lhs] \cup f[e.rhs]

IsMentioned(f) == f = [e \in Expressions |-> MentionedStep(f, e)]

\* The variables of an expression are those of its sub-expressions.
LEMMA MentionedUnfolds ==
  \A e \in Expressions : Mentioned[e] = MentionedStep(Mentioned, e)
<1> DEFINE S == SUBSET Variables
           step == [f \in [Expressions -> S] |->
                      [e \in Expressions |-> MentionedStep(f, e)]]
<1>1. Height \in [Expressions -> Nat]
  BY ExpressionsAssumption
<1>2. \A f \in [Expressions -> S], e \in Expressions : step[f][e] = MentionedStep(f, e)
  OBVIOUS
<1>3. ASSUME NEW f \in [Expressions -> S] PROVE step[f] \in [Expressions -> S]
  <2>1. ASSUME NEW e \in Expressions PROVE MentionedStep(f, e) \in S
    <3>1. CASE e.op \in {"var", "int"}
      <4>1. e.op = "var" => e.name \in Variables
        BY Forms
      <4> QED BY <3>1, <4>1 DEF MentionedStep
    <3>2. CASE e.op = "minus"
      <4>1. f[e.operand] \in S
        BY <3>2, Forms
      <4> QED BY <3>2, <4>1 DEF MentionedStep
    <3>3. CASE e.op \in {"add", "subtract", "multiply", "divide"}
      <4>1. f[e.lhs] \in S /\ f[e.rhs] \in S
        BY <3>3, Forms
      <4> QED BY <3>3, <4>1 DEF MentionedStep
    <3> QED BY <3>1, <3>2, <3>3, Forms
  <2> QED BY <2>1
<1>4. ASSUME NEW f \in [Expressions -> S], NEW h \in [Expressions -> S],
             NEW e \in Expressions,
             \A d \in Expressions : Height[d] < Height[e] => f[d] = h[d]
      PROVE  step[f][e] = step[h][e]
  <2>1. MentionedStep(f, e) = MentionedStep(h, e)
    <3>1. CASE e.op \in {"var", "int"}
      BY <3>1 DEF MentionedStep
    <3>2. CASE e.op = "minus"
      <4>1. f[e.operand] = h[e.operand]
        BY <1>4, <3>2, Forms
      <4> QED BY <3>2, <4>1 DEF MentionedStep
    <3>3. CASE e.op \in {"add", "subtract", "multiply", "divide"}
      <4>1. f[e.lhs] = h[e.lhs] /\ f[e.rhs] = h[e.rhs]
        BY <1>4, <3>3, Forms
      <4> QED BY <3>3, <4>1 DEF MentionedStep
    <3> QED BY <3>1, <3>2, <3>3, Forms
  <2> QED BY <1>2, <2>1
<1>5. S # {}
  OBVIOUS
<1> HIDE DEF step, S
<1>6. PICK f \in [Expressions -> S] : \A e \in Expressions : f[e] = step[f][e]
  <2>1. DependsOnLower(step, Expressions, Height, S)
    BY <1>3, <1>4 DEF DependsOnLower
  <2> QED BY <1>1, <1>5, <2>1, RankedRecursion
<1>7. IsMentioned(f)
  BY <1>2, <1>6 DEF IsMentioned
<1>8. Mentioned = CHOOSE g : IsMentioned(g)
  BY DEF Mentioned, IsMentioned, MentionedStep
<1>9. IsMentioned(Mentioned)
  BY <1>7, <1>8
<1> QED BY <1>9 DEF IsMentioned

IsValue(v, env) == v = [e \in Expressions |-> ValueOf(v, env, e)]

\* The value of an expression is made of those of its sub-expressions.
LEMMA ValueUnfolds ==
  ASSUME NEW env \in [Variables -> Int]
  PROVE  \A e \in Expressions : Value(env)[e] = ValueOf(Value(env), env, e)
<1> DEFINE step == [f \in [Expressions -> Int] |->
                      [e \in Expressions |-> ValueOf(f, env, e)]]
<1>1. Height \in [Expressions -> Nat]
  BY ExpressionsAssumption
<1>2. \A f \in [Expressions -> Int], e \in Expressions : step[f][e] = ValueOf(f, env, e)
  OBVIOUS
<1>3. ASSUME NEW f \in [Expressions -> Int] PROVE step[f] \in [Expressions -> Int]
  <2>1. ASSUME NEW e \in Expressions PROVE ValueOf(f, env, e) \in Int
    <3>1. CASE e.op = "var"
      BY <3>1, Forms DEF ValueOf
    <3>2. CASE e.op = "int"
      BY <3>2, Forms DEF ValueOf
    <3>3. CASE e.op = "minus"
      <4>1. f[e.operand] \in Int
        BY <3>3, Forms
      <4> QED BY <3>3, <4>1 DEF ValueOf
    <3>4. CASE e.op \in {"add", "subtract", "multiply", "divide"}
      <4>1. PICK a, b : a = f[e.lhs] /\ b = f[e.rhs]
        OBVIOUS
      <4>2. a \in Int /\ b \in Int
        BY <3>4, <4>1, Forms
      <4>3. a + b \in Int /\ a - b \in Int /\ a * b \in Int /\ (b > 0 => a \div b \in Int)
        BY <4>2
      <4> QED BY <3>4, <4>1, <4>3 DEF ValueOf
    <3> QED BY <3>1, <3>2, <3>3, <3>4, Forms
  <2> QED BY <2>1
<1>4. ASSUME NEW f \in [Expressions -> Int], NEW h \in [Expressions -> Int],
             NEW e \in Expressions,
             \A d \in Expressions : Height[d] < Height[e] => f[d] = h[d]
      PROVE  step[f][e] = step[h][e]
  <2>1. ValueOf(f, env, e) = ValueOf(h, env, e)
    <3>1. CASE e.op \in {"var", "int"}
      BY <3>1 DEF ValueOf
    <3>2. CASE e.op = "minus"
      <4>1. f[e.operand] = h[e.operand]
        BY <1>4, <3>2, Forms
      <4> QED BY <3>2, <4>1 DEF ValueOf
    <3>3. CASE e.op \in {"add", "subtract", "multiply", "divide"}
      <4>1. f[e.lhs] = h[e.lhs] /\ f[e.rhs] = h[e.rhs]
        BY <1>4, <3>3, Forms
      <4> QED BY <3>3, <4>1 DEF ValueOf
    <3> QED BY <3>1, <3>2, <3>3, Forms
  <2> QED BY <1>2, <2>1
<1>5. Int # {}
  OBVIOUS
<1> HIDE DEF step
<1>6. PICK f \in [Expressions -> Int] : \A e \in Expressions : f[e] = step[f][e]
  <2>1. DependsOnLower(step, Expressions, Height, Int)
    BY <1>3, <1>4 DEF DependsOnLower
  <2> QED BY <1>1, <1>5, <2>1, RankedRecursion
<1>7. IsValue(f, env)
  BY <1>2, <1>6 DEF IsValue
<1>8. Value(env) = CHOOSE v : IsValue(v, env)
  BY DEF Value, IsValue
<1>9. IsValue(Value(env), env)
  BY <1>7, <1>8
<1> QED BY <1>9 DEF IsValue

\* The value of a product of affine subscripts.
LEMMA ProductValue ==
  ASSUME NEW a \in Affine, NEW b \in Affine, NEW x \in Int, Product(a, b).isAffine
  PROVE  Product(a, b).coefficient * x + Product(a, b).constant
           = (a.coefficient * x + a.constant) * (b.coefficient * x + b.constant)
<1>1. a.coefficient \in Int /\ a.constant \in Int /\ b.coefficient \in Int /\ b.constant \in Int
  BY AffineFields
<1>2. PICK p, q, r, s : p = a.coefficient /\ q = a.constant /\ r = b.coefficient /\ s = b.constant
  OBVIOUS
<1>3. ~NotAffine.isAffine
  BY DEF NotAffine
<1>4. \A c, k : Linear(c, k).coefficient = c /\ Linear(c, k).constant = k
  BY DEF Linear
<1>5. CASE p = 0 /\ r = 0
  <2>1. Product(a, b) = Linear(0, q * s)
    BY <1>2, <1>5 DEF Product
  <2>2. 0 * x + q * s = (0 * x + q) * (0 * x + s)
    BY <1>1, <1>2
  <2> QED BY <1>2, <1>4, <1>5, <2>1, <2>2
<1>6. CASE p = 0 /\ r # 0
  <2>1. r = 1 /\ s = 0 /\ Product(a, b) = Linear(q, 0)
    BY <1>2, <1>3, <1>6 DEF Product
  <2>2. q * x + 0 = (0 * x + q) * (1 * x + 0)
    BY <1>1, <1>2
  <2> QED BY <1>2, <1>4, <1>6, <2>1, <2>2
<1>7. CASE p # 0
  <2>1. r = 0 /\ p = 1 /\ q = 0 /\ Product(a, b) = Linear(s, 0)
    BY <1>2, <1>3, <1>7 DEF Product
  <2>2. s * x + 0 = (1 * x + 0) * (0 * x + s)
    BY <1>1, <1>2
  <2> QED BY <1>2, <1>4, <1>7, <2>1, <2>2
<1> QED BY <1>5, <1>6, <1>7

\* The value of an affine subscript that depends on the loop variable only.
LEMMA AffineValue ==
  ASSUME NEW env \in [Variables -> Int], NEW x \in Int, env[LoopVar] = x,
         NEW e \in Expressions,
         Mentioned[e] \subseteq {LoopVar}, ExtractAffineSubscript[e].isAffine
  PROVE  Value(env)[e] = ExtractAffineSubscript[e].coefficient * x
                           + ExtractAffineSubscript[e].constant
<1>1. PICK A : A = ExtractAffineSubscript
  OBVIOUS
<1>2. PICK v : v = Value(env)
  OBVIOUS
<1>3. A \in [Expressions -> Affine] /\ \A d \in Expressions : A[d] = AffineStep(A, knownLoopVars, d)
  BY <1>1, ExtractUnfolds
<1>4. \A d \in Expressions : v[d] = ValueOf(v, env, d)
  BY <1>2, ValueUnfolds
<1>5. \A d \in Expressions : A[d].coefficient \in Int /\ A[d].constant \in Int
  BY <1>3, AffineFields
<1>6. \A c, k : /\ Linear(c, k).coefficient = c
                /\ Linear(c, k).constant = k
  BY DEF Linear
<1>7. ~NotAffine.isAffine
  BY DEF NotAffine
<1> DEFINE Fits(d) == Mentioned[d] \subseteq {LoopVar} /\ A[d].isAffine
                        => v[d] = A[d].coefficient * x + A[d].constant
           T == {d \in Expressions : Fits(d)}
<1>8. ASSUME NEW d \in Expressions, \A c \in Expressions : Height[c] < Height[d] => c \in T,
             Mentioned[d] \subseteq {LoopVar}, A[d].isAffine
      PROVE  v[d] = A[d].coefficient * x + A[d].constant
  <2>0. /\ A[d] = AffineStep(A, knownLoopVars, d) /\ v[d] = ValueOf(v, env, d)
        /\ Mentioned[d] = MentionedStep(Mentioned, d)
    BY <1>3, <1>4, MentionedUnfolds
  <2>1. CASE d.op = "var"
    <3>1. d.name = LoopVar
      BY <1>8, <2>0, <2>1 DEF MentionedStep
    <3>2. A[d] = Linear(1, 0) /\ v[d] = x
      BY <2>0, <2>1, <3>1 DEF AffineStep, ValueOf
    <3>3. x = 1 * x + 0
      OBVIOUS
    <3> QED BY <1>6, <3>2, <3>3
  <2>2. CASE d.op = "int"
    <3>1. A[d] = Linear(0, d.value) /\ v[d] = d.value
      BY <2>0, <2>2 DEF AffineStep, ValueOf
    <3>2. d.value \in Int
      BY <2>2, Forms
    <3>3. d.value = 0 * x + d.value
      BY <3>2
    <3> QED BY <1>6, <3>1, <3>3
  <2>3. CASE d.op = "minus"
    <3>1. PICK c : c = d.operand
      OBVIOUS
    <3>2. c \in Expressions /\ c \in T
      BY <1>8, <2>3, <3>1, Forms
    <3>3. Mentioned[c] \subseteq {LoopVar} /\ v[d] = -v[c]
      BY <1>8, <2>0, <2>3, <3>1 DEF MentionedStep, ValueOf
    <3>4. A[c].isAffine /\ A[d] = Linear(-A[c].coefficient, -A[c].constant)
      BY <1>7, <1>8, <2>0, <2>3, <3>1 DEF AffineStep
    <3>5. v[c] = A[c].coefficient * x + A[c].constant
      BY <3>2, <3>3, <3>4
    <3>6. PICK p, q \in Int : p = A[c].coefficient /\ q = A[c].constant
      BY <1>5, <3>2
    <3>7. -(p * x + q) = (-p) * x + (-q)
      BY <3>6
    <3> QED BY <1>6, <3>3, <3>4, <3>5, <3>6, <3>7
  <2>4. CASE d.op \in {"add", "subtract", "multiply", "divide"}
    <3>1. PICK a, b : a = d.lhs /\ b = d.rhs
      OBVIOUS
    <3>2. a \in Expressions /\ a \in T /\ b \in Expressions /\ b \in T
      BY <1>8, <2>4, <3>1, Forms
    <3>3. Mentioned[a] \subseteq {LoopVar} /\ Mentioned[b] \subseteq {LoopVar}
      <4>1. Mentioned[d] = Mentioned[a] \cup Mentioned[b]
        BY <2>0, <2>4, <3>1 DEF MentionedStep
      <4> QED BY <1>8, <4>1
    <3>4. A[a].isAffine /\ A[b].isAffine /\ d.op # "divide"
      BY <1>7, <1>8, <2>0, <2>4, <3>1 DEF AffineStep
    <3>5. v[a] = A[a].coefficient * x + A[a].constant /\ v[b] = A[b].coefficient * x + A[b].constant
      BY <3>2, <3>3, <3>4
    <3>6. PICK p, q, r, s \in Int : /\ p = A[a].coefficient /\ q = A[a].constant
                                    /\ r = A[b].coefficient /\ s = A[b].constant
      BY <1>5, <3>2
    <3>7. CASE d.op = "add"
      <4>1. A[d] = Linear(p + r, q + s) /\ v[d] = v[a] + v[b]
        BY <2>0, <3>1, <3>4, <3>6, <3>7 DEF AffineStep, ValueOf
      <4>2. (p * x + q) + (r * x + s) = (p + r) * x + (q + s)
        OBVIOUS
      <4> QED BY <1>6, <3>5, <3>6, <4>1, <4>2
    <3>8. CASE d.op = "subtract"
      <4>1. A[d] = Linear(p - r, q - s) /\ v[d] = v[a] - v[b]
        BY <2>0, <3>1, <3>4, <3>6, <3>8 DEF AffineStep, ValueOf
      <4>2. (p * x + q) - (r * x + s) = (p - r) * x + (q - s)
        OBVIOUS
      <4> QED BY <1>6, <3>5, <3>6, <4>1, <4>2
    <3>9. CASE d.op = "multiply"
      <4>1. A[d] = Product(A[a], A[b]) /\ v[d] = v[a] * v[b]
        BY <2>0, <3>1, <3>4, <3>9 DEF AffineStep, ValueOf
      <4>2. A[d].coefficient * x + A[d].constant
              = (A[a].coefficient * x + A[a].constant) * (A[b].coefficient * x + A[b].constant)
        BY <1>3, <1>8, <3>2, <4>1, ProductValue
      <4> QED BY <3>5, <4>1, <4>2
    <3> QED BY <2>4, <3>4, <3>7, <3>8, <3>9
  <2> QED BY <2>1, <2>2, <2>3, <2>4, Forms
<1>9. Expressions \subseteq T
  <2>1. \A d \in Expressions :
          (\A c \in Expressions : Height[c] < Height[d] => c \in T) => d \in T
    BY <1>8
  <2> HIDE DEF T
  <2> QED BY <2>1, ExpressionsAssumption, RankedInduction
<1> QED BY <1>1, <1>2, <1>9

-----------------------------------------------------------------------------
(* The references of the body, in the order in which they are compared *)

\* f has what is selected of the beginnings of the body.
Filtering(f, body, isWrite) ==
  /\ f \in [0 .. Len(body) -> Seq(References)]
  /\ f[0] = << >>
  /\ \A n \in 1 .. Len(body) :
       /\ body[n].isWrite = isWrite => f[n] = Append(f[n - 1], body[n])
       /\ body[n].isWrite # isWrite => f[n] = f[n - 1]

FilterStep(f, body, isWrite, n) ==
  IF n = 0 THEN << >> ELSE
  IF body[n].isWrite = isWrite THEN Append(f[n - 1], body[n]) ELSE f[n - 1]

IsFilter(f, body, isWrite) ==
  f = [n \in 0 .. Len(body) |-> FilterStep(f, body, isWrite, n)]

\* Selected goes through the body from its beginning.
LEMMA SelectedUnfolds ==
  ASSUME NEW body \in Seq(References), NEW isWrite
  PROVE  \E f : Filtering(f, body, isWrite) /\ Selected(body, isWrite) = f[Len(body)]
<1>1. PICK L \in Nat : L = Len(body)
  OBVIOUS
<1>2. \A n \in 1 .. L : body[n] \in References
  BY <1>1
<1> DEFINE S == Seq(References)
           step == [j \in 1 .. L |-> [x \in S |->
                      IF body[j].isWrite = isWrite THEN Append(x, body[j]) ELSE x]]
<1>3. ASSUME NEW j \in 1 .. L, NEW x \in S
      PROVE  /\ step[j][x] \in S
             /\ step[j][x] = IF body[j].isWrite = isWrite THEN Append(x, body[j]) ELSE x
  <2>1. Append(x, body[j]) \in S
    BY <1>2
  <2> QED BY <2>1
<1>4. << >> \in S
  OBVIOUS
<1>5. PICK f : IsRecursion(f, 0, L, S, << >>, step)
  <2> HIDE DEF step, S
  <2>1. \A j \in 0 + 1 .. L, x \in S : step[j][x] \in S
    BY <1>3
  <2>2. 0 \in Int /\ L \in Int /\ 0 <= L
    BY <1>1
  <2> QED BY <1>4, <2>1, <2>2, IntervalRecursion
<1>6. f \in [0 .. L -> S] /\ f[0] = << >> /\ \A j \in 1 .. L : f[j] = step[j][f[j - 1]]
  BY <1>5 DEF IsRecursion
<1>7. ASSUME NEW n \in 0 .. L PROVE f[n] = FilterStep(f, body, isWrite, n)
  <2>1. CASE n = 0
    BY <1>6, <2>1 DEF FilterStep
  <2>2. CASE n # 0
    <3>1. n \in 1 .. L /\ n - 1 \in 0 .. L
      BY <2>2
    <3>2. f[n - 1] \in S
      BY <1>6, <3>1
    <3> HIDE DEF step, S
    <3> QED BY <1>3, <1>6, <2>2, <3>1, <3>2 DEF FilterStep
  <2> QED BY <2>1, <2>2
<1>8. IsFilter(f, body, isWrite)
  BY <1>1, <1>6, <1>7 DEF IsFilter
<1>9. Selected(body, isWrite) = (CHOOSE g : IsFilter(g, body, isWrite))[Len(body)]
  BY DEF Selected, IsFilter, FilterStep
<1>10. PICK g : g = CHOOSE h : IsFilter(h, body, isWrite)
  OBVIOUS
<1>11. IsFilter(g, body, isWrite)
  BY <1>8, <1>10
<1>12. g = [n \in 0 .. L |-> FilterStep(g, body, isWrite, n)]
  BY <1>1, <1>11 DEF IsFilter
<1>13. \A n \in 0 .. L : g[n] = FilterStep(g, body, isWrite, n)
  BY <1>12
<1>14. g[0] = << >>
  BY <1>13 DEF FilterStep
<1>15. \A n \in 1 .. L : /\ body[n].isWrite = isWrite => g[n] = Append(g[n - 1], body[n])
                         /\ body[n].isWrite # isWrite => g[n] = g[n - 1]
  <2>1. \A n \in 1 .. L : n \in 0 .. L /\ n # 0
    OBVIOUS
  <2> QED BY <1>13, <2>1 DEF FilterStep
<1>16. g \in [0 .. L -> S]
  <2> DEFINE T == {n \in 0 .. L : g[n] \in S}
  <2>1. 0 \in T
    <3>1. 0 \in 0 .. L
      OBVIOUS
    <3> QED BY <1>4, <1>14, <3>1
  <2>2. ASSUME NEW n \in 0 .. L - 1, n \in T PROVE n + 1 \in T
    <3>1. n + 1 \in 1 .. L /\ (n + 1) - 1 = n /\ g[n] \in S
      BY <2>2
    <3>2. Append(g[n], body[n + 1]) \in S
      BY <1>2, <3>1
    <3>3. g[n + 1] = Append(g[n], body[n + 1]) \/ g[n + 1] = g[n]
      BY <1>15, <3>1
    <3>4. n + 1 \in 0 .. L
      OBVIOUS
    <3> HIDE DEF S
    <3> QED BY <3>1, <3>2, <3>3, <3>4
  <2>3. 0 .. L \subseteq T
    <3> HIDE DEF T
    <3> QED BY <2>1, <2>2, IntervalInduction
  <2> QED BY <1>12, <2>3
<1>17. Filtering(g, body, isWrite)
  BY <1>1, <1>14, <1>15, <1>16 DEF Filtering
<1> QED BY <1>9, <1>10, <1>17

\* What is selected of a beginning of the body stays at its place.
LEMMA FilterGrows ==
  ASSUME NEW body \in Seq(References), NEW isWrite, NEW f, Filtering(f, body, isWrite),
         NEW m \in 0 .. Len(body), NEW n \in m .. Len(body)
  PROVE  /\ Len(f[m]) <= Len(f[n])
         /\ \A p \in 1 .. Len(f[m]) : f[n][p] = f[m][p]
<1>1. PICK L \in Nat : L = Len(body)
  OBVIOUS
<1>2. f \in [0 .. L -> Seq(References)]
  BY <1>1 DEF Filtering
<1>3. m \in 0 .. L /\ f[m] \in Seq(References) /\ Len(f[m]) \in Nat
  BY <1>1, <1>2
<1> DEFINE Kept(k) == /\ Len(f[m]) <= Len(f[k])
                      /\ \A p \in 1 .. Len(f[m]) : f[k][p] = f[m][p]
           T == {k \in m .. L : Kept(k)}
<1>4. m \in T
  BY <1>3
<1>5. ASSUME NEW k \in m .. L - 1, k \in T PROVE k + 1 \in T
  <2>1. k + 1 \in 1 .. L /\ (k + 1) - 1 = k /\ k \in 0 .. L /\ k + 1 \in m .. L
    BY <1>3
  <2>2. f[k] \in Seq(References) /\ Kept(k)
    BY <1>2, <1>5, <2>1
  <2>3. f[k + 1] = f[k] \/ f[k + 1] = Append(f[k], body[k + 1])
    BY <1>1, <2>1 DEF Filtering
  <2>4. CASE f[k + 1] = f[k]
    BY <2>1, <2>2, <2>4
  <2>5. CASE f[k + 1] = Append(f[k], body[k + 1])
    <3>1. Len(f[k + 1]) = Len(f[k]) + 1 /\ \A p \in 1 .. Len(f[k]) : f[k + 1][p] = f[k][p]
      BY <2>2, <2>5
    <3>2. Len(f[k]) \in Nat
      BY <2>2
    <3> QED BY <1>3, <2>1, <2>2, <3>1, <3>2
  <2> QED BY <2>3, <2>4, <2>5
<1>6. m .. L \subseteq T
  <2> HIDE DEF T
  <2>1. m \in Int /\ L \in Int
    BY <1>3
  <2> QED BY <1>4, <1>5, <2>1, IntervalInduction
<1> QED BY <1>1, <1>6

\* The place of a selected reference; a later one has a later place.
LEMMA FilterPlaces ==
  ASSUME NEW body \in Seq(References), NEW isWrite, NEW f, Filtering(f, body, isWrite),
         NEW n \in 1 .. Len(body), body[n].isWrite = isWrite
  PROVE  /\ Len(f[n]) \in 1 .. Len(f[Len(body)])
         /\ f[Len(body)][Len(f[n])] = body[n]
         /\ \A m \in 1 .. n - 1 : Len(f[m]) < Len(f[n])
<1>1. PICK L \in Nat : L = Len(body)
  OBVIOUS
<1>2. f \in [0 .. L -> Seq(References)] /\ f[n] = Append(f[n - 1], body[n])
  BY <1>1 DEF Filtering
<1>3. n \in 0 .. L /\ n - 1 \in 0 .. L /\ L \in n .. L /\ L \in 0 .. L /\ body[n] \in References
  BY <1>1
<1>4. /\ f[n - 1] \in Seq(References) /\ Len(f[n - 1]) \in Nat
      /\ f[L] \in Seq(References) /\ Len(f[L]) \in Nat
  BY <1>2, <1>3
<1>5. Len(f[n]) = Len(f[n - 1]) + 1 /\ f[n][Len(f[n])] = body[n]
  BY <1>2, <1>3, <1>4
<1>6. Len(f[n]) <= Len(f[L]) /\ \A p \in 1 .. Len(f[n]) : f[L][p] = f[n][p]
  BY <1>1, <1>3, FilterGrows
<1>7. Len(f[n]) \in 1 .. Len(f[n])
  BY <1>4, <1>5
<1>8. ASSUME NEW m \in 1 .. n - 1 PROVE Len(f[m]) < Len(f[n])
  <2>1. m \in 0 .. L /\ n - 1 \in m .. L
    BY <1>3
  <2>2. Len(f[m]) <= Len(f[n - 1]) /\ Len(f[m]) \in Nat
    BY <1>1, <1>2, <2>1, FilterGrows
  <2> QED BY <1>4, <1>5, <2>2
<1> QED BY <1>1, <1>4, <1>5, <1>6, <1>7, <1>8

\* What is selected comes from the body.
LEMMA FilterOrigin ==
  ASSUME NEW body \in Seq(References), NEW isWrite, NEW f, Filtering(f, body, isWrite)
  PROVE  \A p \in 1 .. Len(f[Len(body)]) :
           \E n \in 1 .. Len(body) : f[Len(body)][p] = body[n]
<1>1. PICK L \in Nat : L = Len(body)
  OBVIOUS
<1>2. f \in [0 .. L -> Seq(References)]
  BY <1>1 DEF Filtering
<1> DEFINE T == {k \in 0 .. L : \A p \in 1 .. Len(f[k]) : \E n \in 1 .. L : f[k][p] = body[n]}
<1>3. 0 \in T
  BY DEF Filtering
<1>4. ASSUME NEW k \in 0 .. L - 1, k \in T PROVE k + 1 \in T
  <2>1. k + 1 \in 1 .. L /\ (k + 1) - 1 = k /\ k \in 0 .. L /\ k + 1 \in 0 .. L
    OBVIOUS
  <2>2. f[k] \in Seq(References) /\ \A p \in 1 .. Len(f[k]) : \E n \in 1 .. L : f[k][p] = body[n]
    BY <1>2, <1>4, <2>1
  <2>3. f[k + 1] = f[k] \/ f[k + 1] = Append(f[k], body[k + 1])
    BY <1>1, <2>1 DEF Filtering
  <2>4. \A p \in 1 .. Len(f[k + 1]) : \E n \in 1 .. L : f[k + 1][p] = body[n]
    <3>1. CASE f[k + 1] = f[k]
      BY <2>2, <3>1
    <3>2. CASE f[k + 1] = Append(f[k], body[k + 1])
      <4>1. /\ Len(f[k + 1]) = Len(f[k]) + 1 /\ Len(f[k]) \in Nat
            /\ f[k + 1][Len(f[k]) + 1] = body[k + 1]
            /\ \A p \in 1 .. Len(f[k]) : f[k + 1][p] = f[k][p]
        BY <2>2, <3>2
      <4> SUFFICES ASSUME NEW p \in 1 .. Len(f[k + 1])
                   PROVE  \E n \in 1 .. L : f[k + 1][p] = body[n]
        OBVIOUS
      <4>2. p \in 1 .. Len(f[k]) \/ p = Len(f[k]) + 1
        BY <4>1
      <4> QED BY <2>1, <2>2, <4>1, <4>2
    <3> QED BY <2>3, <3>1, <3>2
  <2> QED BY <2>1, <2>4
<1>5. 0 .. L \subseteq T
  <2> HIDE DEF T
  <2> QED BY <1>3, <1>4, IntervalInduction
<1>6. L \in T
  <2>1. L \in 0 .. L
    OBVIOUS
  <2> QED BY <1>5, <2>1
<1> QED BY <1>1, <1>6

\* A reference is selected either way, but not both.
LEMMA FilterLengths ==
  ASSUME NEW body \in Seq(References), NEW f, Filtering(f, body, FALSE),
         NEW g, Filtering(g, body, TRUE)
  PROVE  Len(f[Len(body)]) + Len(g[Len(body)]) = Len(body)
<1>1. PICK L \in Nat : L = Len(body)
  OBVIOUS
<1>2. f \in [0 .. L -> Seq(References)] /\ g \in [0 .. L -> Seq(References)]
  BY <1>1 DEF Filtering
<1> DEFINE T == {k \in 0 .. L : Len(f[k]) + Len(g[k]) = k}
<1>3. 0 \in T
  BY DEF Filtering
<1>4. ASSUME NEW k \in 0 .. L - 1, k \in T PROVE k + 1 \in T
  <2>1. k + 1 \in 1 .. L /\ (k + 1) - 1 = k /\ k \in 0 .. L /\ k + 1 \in 0 .. L
    OBVIOUS
  <2>2. /\ f[k] \in Seq(References) /\ g[k] \in Seq(References)
        /\ Len(f[k]) \in Nat /\ Len(g[k]) \in Nat
    BY <1>2, <2>1
  <2>3. body[k + 1] \in References
    BY <1>1, <2>1
  <2>4. body[k + 1].isWrite = FALSE \/ body[k + 1].isWrite = TRUE
    BY <2>3 DEF References
  <2>5. /\ Len(Append(f[k], body[k + 1])) = Len(f[k]) + 1
        /\ Len(Append(g[k], body[k + 1])) = Len(g[k]) + 1
    BY <2>2, <2>3
  <2>6. \/ f[k + 1] = Append(f[k], body[k + 1]) /\ g[k + 1] = g[k]
        \/ f[k + 1] = f[k] /\ g[k + 1] = Append(g[k], body[k + 1])
    BY <1>1, <2>1, <2>4 DEF Filtering
  <2>7. Len(f[k]) + Len(g[k]) = k
    BY <1>4
  <2>8. Len(f[k + 1]) + Len(g[k + 1]) = k + 1
    <3>1. \/ Len(f[k + 1]) = Len(f[k]) + 1 /\ Len(g[k + 1]) = Len(g[k])
          \/ Len(f[k + 1]) = Len(f[k]) /\ Len(g[k + 1]) = Len(g[k]) + 1
      BY <2>5, <2>6
    <3>2. PICK a, b \in Nat : a = Len(f[k]) /\ b = Len(g[k])
      BY <2>2
    <3>3. PICK c, d : c = Len(f[k + 1]) /\ d = Len(g[k + 1])
      OBVIOUS
    <3>4. a + b = k
      BY <2>7, <3>2
    <3>5. \/ c = a + 1 /\ d = b
          \/ c = a /\ d = b + 1
      BY <3>1, <3>2, <3>3
    <3>6. c + d = k + 1
      BY <3>4, <3>5
    <3> QED BY <3>3, <3>6
  <2> QED BY <2>1, <2>8
<1>5. 0 .. L \subseteq T
  <2> HIDE DEF T
  <2> QED BY <1>3, <1>4, IntervalInduction
<1>6. L \in T
  <2>1. L \in 0 .. L
    OBVIOUS
  <2> QED BY <1>5, <2>1
<1> QED BY <1>1, <1>6

\* The references as collectArrayReferences returns them.
Collected(body) == Selected(body, FALSE) \o Selected(body, TRUE)

\* r has the L references of the body, each at a place of its own.
Collects(r, body, L) ==
  /\ r \in Seq(References)
  /\ Len(r) = L
  /\ \A p \in 1 .. L : \E n \in 1 .. L : r[p] = body[n]
  /\ \A n \in 1 .. L : \E p \in 1 .. L : r[p] = body[n]
  /\ \A n \in 1 .. L : \A m \in 1 .. n - 1 :
       \E p, q \in 1 .. L : p # q /\ r[p] = body[m] /\ r[q] = body[n]

\* Every reference of the body is collected once.
LEMMA CollectedFacts ==
  ASSUME NEW body \in Seq(References)
  PROVE  /\ Collected(body) \in Seq(References)
         /\ Len(Collected(body)) = Len(body)
         /\ \A p \in 1 .. Len(body) : \E n \in 1 .. Len(body) : Collected(body)[p] = body[n]
         /\ \A n \in 1 .. Len(body) : \E p \in 1 .. Len(body) : Collected(body)[p] = body[n]
         /\ \A n \in 1 .. Len(body) : \A m \in 1 .. n - 1 :
              \E p, q \in 1 .. Len(body) :
                p # q /\ Collected(body)[p] = body[m] /\ Collected(body)[q] = body[n]
<1>1. PICK f : Filtering(f, body, FALSE) /\ Selected(body, FALSE) = f[Len(body)]
  BY SelectedUnfolds
<1>2. PICK g : Filtering(g, body, TRUE) /\ Selected(body, TRUE) = g[Len(body)]
  BY SelectedUnfolds
<1>3. PICK L \in Nat : L = Len(body)
  OBVIOUS
<1>4. PICK reads, writes \in Seq(References) : reads = f[L] /\ writes = g[L]
  BY <1>1, <1>2, <1>3 DEF Filtering
<1>5. PICK r : r = reads \o writes
  OBVIOUS
<1>6. Collected(body) = r
  BY <1>1, <1>2, <1>3, <1>4, <1>5 DEF Collected
<1>7. PICK a, b \in Nat : a = Len(reads) /\ b = Len(writes)
  BY <1>4
<1>8. a + b = L
  BY <1>1, <1>2, <1>3, <1>4, <1>7, FilterLengths
<1>9. r \in Seq(References) /\ Len(r) = L
  BY <1>5, <1>7, <1>8
<1>10. /\ \A p \in 1 .. a : p \in 1 .. L /\ r[p] = reads[p]
       /\ \A p \in 1 .. b : a + p \in 1 .. L /\ r[a + p] = writes[p]
  BY <1>5, <1>7, <1>8
<1> DEFINE place(n) == IF body[n].isWrite = FALSE THEN Len(f[n]) ELSE a + Len(g[n])
<1>11. \A n \in 1 .. L : body[n].isWrite = FALSE \/ body[n].isWrite = TRUE
  BY <1>3 DEF References
<1>12. ASSUME NEW n \in 1 .. L, body[n].isWrite = FALSE
       PROVE  /\ Len(f[n]) \in 1 .. a /\ r[Len(f[n])] = body[n]
              /\ \A m \in 1 .. n - 1 : Len(f[m]) < Len(f[n])
  <2>1. n \in 1 .. Len(body)
    BY <1>3
  <2>2. /\ Len(f[n]) \in 1 .. Len(f[Len(body)])
        /\ f[Len(body)][Len(f[n])] = body[n]
        /\ \A m \in 1 .. n - 1 : Len(f[m]) < Len(f[n])
    BY <1>1, <1>12, <2>1, FilterPlaces, Zenon
  <2>3. Len(f[n]) \in 1 .. Len(reads) /\ reads[Len(f[n])] = body[n]
    BY <1>3, <1>4, <2>2
  <2> QED BY <1>7, <1>10, <2>2, <2>3
<1>13. ASSUME NEW n \in 1 .. L, body[n].isWrite = TRUE
       PROVE  /\ Len(g[n]) \in 1 .. b /\ r[a + Len(g[n])] = body[n]
              /\ \A m \in 1 .. n - 1 : Len(g[m]) < Len(g[n])
  <2>1. n \in 1 .. Len(body)
    BY <1>3
  <2>2. /\ Len(g[n]) \in 1 .. Len(g[Len(body)])
        /\ g[Len(body)][Len(g[n])] = body[n]
        /\ \A m \in 1 .. n - 1 : Len(g[m]) < Len(g[n])
    BY <1>2, <1>13, <2>1, FilterPlaces, Zenon
  <2>3. Len(g[n]) \in 1 .. Len(writes) /\ writes[Len(g[n])] = body[n]
    BY <1>3, <1>4, <2>2
  <2> QED BY <1>7, <1>10, <2>2, <2>3
<1>14. ASSUME NEW n \in 1 .. L PROVE place(n) \in 1 .. L /\ r[place(n)] = body[n]
  <2>1. CASE body[n].isWrite = FALSE
    BY <1>10, <1>12, <2>1
  <2>2. CASE body[n].isWrite = TRUE
    BY <1>10, <1>13, <2>2
  <2> QED BY <1>11, <2>1, <2>2
<1>15. ASSUME NEW n \in 1 .. L, NEW m \in 1 .. n - 1 PROVE place(m) # place(n)
  <2>1. m \in 1 .. L
    OBVIOUS
  <2>2. CASE body[m].isWrite = FALSE /\ body[n].isWrite = FALSE
    <3>1. Len(f[m]) \in Nat /\ Len(f[n]) \in Nat /\ Len(f[m]) < Len(f[n])
      <4>1. Len(f[m]) \in 1 .. a
        BY <1>12, <2>1, <2>2
      <4>2. Len(f[n]) \in 1 .. a /\ Len(f[m]) < Len(f[n])
        BY <1>12, <2>2
      <4> QED BY <4>1, <4>2
    <3> QED BY <2>2, <3>1
  <2>3. CASE body[m].isWrite = TRUE /\ body[n].isWrite = TRUE
    <3>1. Len(g[m]) \in Nat /\ Len(g[n]) \in Nat /\ Len(g[m]) < Len(g[n])
      <4>1. Len(g[m]) \in 1 .. b
        BY <1>13, <2>1, <2>3
      <4>2. Len(g[n]) \in 1 .. b /\ Len(g[m]) < Len(g[n])
        BY <1>13, <2>3
      <4> QED BY <4>1, <4>2
    <3> QED BY <2>3, <3>1
  <2>4. CASE body[m].isWrite = FALSE /\ body[n].isWrite = TRUE
    <3>1. Len(f[m]) \in 1 .. a /\ Len(g[n]) \in 1 .. b
      BY <1>12, <1>13, <2>1, <2>4
    <3> QED BY <2>4, <3>1
  <2>5. CASE body[m].isWrite = TRUE /\ body[n].isWrite = FALSE
    <3>1. Len(f[n]) \in 1 .. a /\ Len(g[m]) \in 1 .. b
      BY <1>12, <1>13, <2>1, <2>5
    <3> QED BY <2>5, <3>1
  <2> QED BY <1>11, <2>1, <2>2, <2>3, <2>4, <2>5
<1> HIDE DEF place
<1>16. \A n \in 1 .. L : \E p \in 1 .. L : r[p] = body[n]
  BY <1>14
<1>17. ASSUME NEW n \in 1 .. L, NEW m \in 1 .. n - 1
       PROVE  \E p, q \in 1 .. L : p # q /\ r[p] = body[m] /\ r[q] = body[n]
  <2>1. m \in 1 .. L
    OBVIOUS
  <2> QED BY <1>14, <1>15, <2>1
<1>18. ASSUME NEW p \in 1 .. L PROVE \E n \in 1 .. L : r[p] = body[n]
  <2>1. CASE p <= a
    <3>1. \A q \in 1 .. Len(reads) : \E n \in 1 .. L : reads[q] = body[n]
      <4>1. \A q \in 1 .. Len(f[Len(body)]) :
              \E n \in 1 .. Len(body) : f[Len(body)][q] = body[n]
        <5>1. PICK w : Filtering(f, body, w)
          BY <1>1
        <5> QED BY <5>1, FilterOrigin
      <4> QED BY <1>3, <1>4, <4>1
    <3> QED BY <1>7, <1>10, <2>1, <3>1
  <2>2. CASE p > a
    <3>1. \A q \in 1 .. Len(writes) : \E n \in 1 .. L : writes[q] = body[n]
      <4>1. \A q \in 1 .. Len(g[Len(body)]) :
              \E n \in 1 .. Len(body) : g[Len(body)][q] = body[n]
        <5>1. PICK w : Filtering(g, body, w)
          BY <1>2
        <5> QED BY <5>1, FilterOrigin
      <4> QED BY <1>3, <1>4, <4>1
    <3>2. p - a \in 1 .. b /\ a + (p - a) = p
      BY <1>8, <2>2
    <3>3. r[p] = writes[p - a]
      BY <1>10, <3>2
    <3> QED BY <1>7, <3>1, <3>2, <3>3
  <2> QED BY <2>1, <2>2
<1>19. Collects(r, body, L)
  BY <1>9, <1>16, <1>17, <1>18, Zenon DEF Collects
<1>20. Collects(Collected(body), body, Len(body))
  BY <1>3, <1>6, <1>19
<1> QED BY <1>20, Zenon DEF Collects

-----------------------------------------------------------------------------
(* Iterations and the elements that they touch *)

\* An iteration gives a value to every variable, and its own to the loop
\* variable.
LEMMA EnvironmentType ==
  ASSUME NEW x \in Int, NEW outer \in [Enclosing -> Values],
         NEW F, NEW free \in [F -> Values]
  PROVE  /\ Environment(x, outer, free) \in [Variables -> Int]
         /\ Environment(x, outer, free)[LoopVar] = x
<1>1. Values \subseteq Int /\ DOMAIN free = F
  BY RangesAssumption
<1>2. LoopVar \in Variables
  BY DEF Variables
<1>3. \A n \in Enclosing : outer[n] \in Int
  BY <1>1
<1>4. \A n \in F : free[n] \in Int
  BY <1>1
<1> QED BY <1>1, <1>2, <1>3, <1>4 DEF Environment

\* Subscripts of the loop variable that the analysis takes for independent have
\* no common value in different iterations.
LEMMA SubscriptsApart ==
  ASSUME NEW s1 \in Expressions, NEW s2 \in Expressions,
         Mentioned[s1] \subseteq {LoopVar}, Mentioned[s2] \subseteq {LoopVar},
         ~MayDepend(s1, s2),
         \/ ExtractAffineSubscript[s1].coefficient # 0
         \/ ExtractAffineSubscript[s2].coefficient # 0,
         NEW x \in Int, NEW env1 \in [Variables -> Int], env1[LoopVar] = x,
         NEW y \in Int, NEW env2 \in [Variables -> Int], env2[LoopVar] = y,
         Value(env1)[s1] = Value(env2)[s2]
  PROVE  x = y
<1>1. PICK a, b : a = ExtractAffineSubscript[s1] /\ b = ExtractAffineSubscript[s2]
  OBVIOUS
<1>2. a \in Affine /\ b \in Affine
  BY <1>1, ExtractUnfolds
<1>3. PICK c1, k1, c2, k2 \in Int : /\ c1 = a.coefficient /\ k1 = a.constant
                                    /\ c2 = b.coefficient /\ k2 = b.constant
  BY <1>2, AffineFields
<1>4. /\ a.isAffine /\ b.isAffine
      /\ GcdTest(c1, c2, k2 - k1) => c1 = c2 /\ k1 = k2
  BY <1>1, <1>3 DEF MayDepend
<1>5. Value(env1)[s1] = c1 * x + k1 /\ Value(env2)[s2] = c2 * y + k2
  BY <1>1, <1>3, <1>4, AffineValue
<1>6. c1 * x + k1 = c2 * y + k2
  BY <1>5
<1>7. c1 # 0 \/ c2 # 0
  BY <1>1, <1>3
<1>8. GcdTest(c1, c2, k2 - k1)
  BY <1>6, <1>7, GcdTestComplete
<1>9. c1 = c2 /\ k1 = k2 /\ c1 # 0
  BY <1>4, <1>7, <1>8
<1>10. c1 * x = c1 * y
  <2>1. c1 * x \in Int /\ c1 * y \in Int
    OBVIOUS
  <2> QED BY <1>6, <1>9, <2>1
<1> QED BY <1>9, <1>10

\* A subscript that moves with the loop has different values in different
\* iterations.
LEMMA SubscriptMoves ==
  ASSUME NEW s \in Expressions, Mentioned[s] \subseteq {LoopVar},
         ExtractAffineSubscript[s].coefficient # 0,
         NEW x \in Int, NEW env1 \in [Variables -> Int], env1[LoopVar] = x,
         NEW y \in Int, NEW env2 \in [Variables -> Int], env2[LoopVar] = y,
         Value(env1)[s] = Value(env2)[s]
  PROVE  x = y
<1>1. PICK a : a = ExtractAffineSubscript[s]
  OBVIOUS
<1>2. a \in Affine
  BY <1>1, ExtractUnfolds
<1>3. PICK c, k \in Int : c = a.coefficient /\ k = a.constant
  BY <1>2, AffineFields
<1>4. a.isAffine
  BY <1>1, <1>2, AffineFields
<1>5. Value(env1)[s] = c * x + k /\ Value(env2)[s] = c * y + k
  BY <1>1, <1>3, <1>4, AffineValue
<1>6. c * x + k = c * y + k /\ c # 0
  BY <1>1, <1>3, <1>5
<1>7. c * x = c * y
  <2>1. c * x \in Int /\ c * y \in Int
    OBVIOUS
  <2> QED BY <1>6, <2>1
<1> QED BY <1>6, <1>7

\* All pairs of references have been found independent, and no write is
\* repeated by a nested loop.
Independent ==
  /\ \A p \in DOMAIN refs : ~RepeatedByNest(refs[p])
  /\ \A p, q \in DOMAIN refs : p < q => ~PairDepends(refs[p], refs[q])

\* Then the iterations touch different elements, if every write is anchored.
LEMMA IndependentIsSafe ==
  ASSUME loop \in Loops, refs = Collected(loop.body), Independent,
         \A n \in DOMAIN loop.body :
           loop.body[n].isWrite => Anchored(loop.body[n]) \/ RepeatedByNest(loop.body[n])
  PROVE  ~Conflict
<1>1. PICK body \in Seq(References) : body = loop.body
  BY LoopsAssumption
<1>2. PICK L \in Nat : L = Len(body)
  OBVIOUS
<1>3. DOMAIN body = 1 .. L /\ \A n \in 1 .. L : body[n] \in References
  BY <1>2
<1>4. DOMAIN refs = 1 .. L
  <2>1. refs \in Seq(References) /\ Len(refs) = L
    BY <1>1, <1>2, CollectedFacts
  <2> QED BY <2>1
<1>5. ASSUME NEW n \in 1 .. L, body[n].isWrite PROVE Anchored(body[n])
  <2>1. PICK p \in 1 .. L : refs[p] = body[n]
    BY <1>1, <1>2, CollectedFacts
  <2>2. ~RepeatedByNest(body[n])
    BY <1>4, <2>1 DEF Independent
  <2> QED BY <1>1, <1>3, <1>5, <2>2
<1>6. ASSUME NEW n \in 1 .. L, NEW m \in 1 .. n - 1
      PROVE  ~PairDepends(body[m], body[n]) \/ ~PairDepends(body[n], body[m])
  <2>1. PICK p, q \in 1 .. L : p # q /\ refs[p] = body[m] /\ refs[q] = body[n]
    <3>1. refs = Collected(body)
      BY <1>1
    <3>2. \E p, q \in 1 .. Len(body) :
            p # q /\ Collected(body)[p] = body[m] /\ Collected(body)[q] = body[n]
      BY <1>2, CollectedFacts
    <3> QED BY <1>2, <3>1, <3>2
  <2>2. p < q \/ q < p
    BY <2>1
  <2> QED BY <1>4, <2>1, <2>2 DEF Independent
<1> SUFFICES ASSUME Conflict PROVE FALSE
  OBVIOUS
<1>7. PICK m, n \in 1 .. L :
        /\ m <= n
        /\ body[m].isWrite \/ body[n].isWrite
        /\ body[m].base = body[n].base /\ body[m].base # NoBase
        /\ \E x, y \in Iterations : x # y /\ Touch(body[m], x, body[n], y)
  BY <1>1, <1>3 DEF Conflict
<1>8. PICK r1, r2 \in References : r1 = body[m] /\ r2 = body[n]
  BY <1>3
<1>9. PICK x, y \in Iterations : x # y /\ Touch(r1, x, r2, y)
  BY <1>7, <1>8
<1>10. PICK env1, env2 \in [Variables -> Int] :
         /\ env1[LoopVar] = x /\ env2[LoopVar] = y
         /\ \A d \in DOMAIN r1.subscripts \cap DOMAIN r2.subscripts :
              Value(env1)[r1.subscripts[d]] = Value(env2)[r2.subscripts[d]]
  <2>1. PICK F1, F2 : /\ F1 = MentionedBy(r1) \ (Enclosing \cup {LoopVar})
                      /\ F2 = MentionedBy(r2) \ (Enclosing \cup {LoopVar})
    OBVIOUS
  <2>2. PICK outer \in [Enclosing -> Values], f1 \in [F1 -> Values], f2 \in [F2 -> Values] :
          \A d \in DOMAIN r1.subscripts \cap DOMAIN r2.subscripts :
            Value(Environment(x, outer, f1))[r1.subscripts[d]]
              = Value(Environment(y, outer, f2))[r2.subscripts[d]]
    BY <1>9, <2>1 DEF Touch
  <2>3. x \in Int /\ y \in Int
    BY RangesAssumption
  <2>4. /\ Environment(x, outer, f1) \in [Variables -> Int]
        /\ Environment(x, outer, f1)[LoopVar] = x
        /\ Environment(y, outer, f2) \in [Variables -> Int]
        /\ Environment(y, outer, f2)[LoopVar] = y
    BY <2>3, EnvironmentType
  <2> QED BY <2>2, <2>4
<1>11. x \in Int /\ y \in Int
  BY RangesAssumption
<1>12. /\ \A d \in DOMAIN r1.subscripts : r1.subscripts[d] \in Expressions
       /\ \A d \in DOMAIN r2.subscripts : r2.subscripts[d] \in Expressions
  BY DEF References
<1>13. CASE m = n
  <2>1. Anchored(r1) /\ r1 = r2
    BY <1>5, <1>7, <1>8, <1>13
  <2>2. PICK d \in DOMAIN r1.subscripts :
          /\ ExtractAffineSubscript[r1.subscripts[d]].coefficient # 0
          /\ Mentioned[r1.subscripts[d]] \subseteq {LoopVar}
    BY <1>1, <1>3, <1>8, <2>1 DEF Anchored
  <2>3. Value(env1)[r1.subscripts[d]] = Value(env2)[r1.subscripts[d]]
    BY <1>10, <2>1, <2>2
  <2>4. x = y
    BY <1>10, <1>11, <1>12, <2>2, <2>3, SubscriptMoves
  <2> QED BY <1>9, <2>4
<1>14. CASE m # n
  <2>1. ~PairDepends(r1, r2) \/ ~PairDepends(r2, r1)
    <3>1. m \in 1 .. n - 1
      BY <1>7, <1>14
    <3> QED BY <1>6, <1>8, <3>1
  <2>2. PICK w \in {r1, r2} : Anchored(w)
    BY <1>5, <1>7, <1>8
  <2>3. /\ Len(r1.subscripts) = Len(r2.subscripts)
        /\ \A d \in DOMAIN r1.subscripts \cap DOMAIN r2.subscripts :
             \/ ~MayDepend(r1.subscripts[d], r2.subscripts[d])
             \/ ~MayDepend(r2.subscripts[d], r1.subscripts[d])
    BY <1>7, <1>8, <2>1 DEF PairDepends
  <2>4. DOMAIN r1.subscripts = DOMAIN r2.subscripts
    BY <2>3 DEF References
  <2>5. PICK d \in DOMAIN w.subscripts :
          /\ ExtractAffineSubscript[w.subscripts[d]].coefficient # 0
          /\ \A k \in DOMAIN body :
               body[k].base = w.base /\ d \in DOMAIN body[k].subscripts =>
                 Mentioned[body[k].subscripts[d]] \subseteq {LoopVar}
    BY <1>1, <2>2 DEF Anchored
  <2>6. d \in DOMAIN r1.subscripts /\ d \in DOMAIN r2.subscripts
    BY <2>2, <2>4, <2>5
  <2>7. r1.base = w.base /\ r2.base = w.base
    BY <1>7, <1>8, <2>2
  <2>8. PICK s1, s2 \in Expressions : s1 = r1.subscripts[d] /\ s2 = r2.subscripts[d]
    BY <1>12, <2>6
  <2>9. Mentioned[s1] \subseteq {LoopVar} /\ Mentioned[s2] \subseteq {LoopVar}
    BY <1>3, <1>8, <2>5, <2>6, <2>7, <2>8
  <2>10. \/ ExtractAffineSubscript[s1].coefficient # 0
         \/ ExtractAffineSubscript[s2].coefficient # 0
    BY <2>2, <2>5, <2>8
  <2>11. ~MayDepend(s1, s2) \/ ~MayDepend(s2, s1)
    BY <2>3, <2>6, <2>8
  <2>12. Value(env1)[s1] = Value(env2)[s2]
    BY <1>10, <2>6, <2>8
  <2>13. x = y
    <3>0. env1[LoopVar] = x /\ env2[LoopVar] = y
      BY <1>10
    <3>1. CASE ~MayDepend(s1, s2)
      BY <1>11, <2>9, <2>10, <2>12, <3>0, <3>1, SubscriptsApart, Zenon
    <3>2. CASE ~MayDepend(s2, s1)
      BY <1>10, <1>11, <2>9, <2>10, <2>12, <3>2, SubscriptsApart
    <3> QED BY <2>11, <3>1, <3>2
  <2> QED BY <1>9, <2>13
<1> QED BY <1>13, <1>14

\* Two references to one-dimensional arrays with affine subscripts that depend
\* touch the same element in some iterations.
LEMMA DependentTouch ==
  ASSUME Values # {}, NEW r1 \in References, NEW r2 \in References,
         Len(r1.subscripts) = 1, Len(r2.subscripts) = 1,
         Simple(r1.subscripts[1]), Simple(r2.subscripts[1]),
         MayDepend(r1.subscripts[1], r2.subscripts[1])
  PROVE  \E x, y \in Int : x # y /\ Touch(r1, x, r2, y) /\ Touch(r2, y, r1, x)
<1>1. /\ r1.subscripts \in Seq(Expressions) /\ DOMAIN r1.subscripts = {1}
      /\ r2.subscripts \in Seq(Expressions) /\ DOMAIN r2.subscripts = {1}
  BY DEF References
<1>2. PICK s1, s2 \in Expressions : s1 = r1.subscripts[1] /\ s2 = r2.subscripts[1]
  BY <1>1
<1>3. PICK a, b : a = ExtractAffineSubscript[s1] /\ b = ExtractAffineSubscript[s2]
  OBVIOUS
<1>4. a \in Affine /\ b \in Affine
  BY <1>3, ExtractUnfolds
<1>5. PICK c1, k1, c2, k2 \in Int : /\ c1 = a.coefficient /\ k1 = a.constant
                                    /\ c2 = b.coefficient /\ k2 = b.constant
  BY <1>4, AffineFields
<1>6. /\ Mentioned[s1] \subseteq {LoopVar} /\ Mentioned[s2] \subseteq {LoopVar}
      /\ a.isAffine /\ b.isAffine
  BY <1>2, <1>3 DEF Simple
<1>7. GcdTest(c1, c2, k2 - k1) /\ (c1 # c2 \/ k1 # k2)
  BY <1>2, <1>3, <1>5, <1>6 DEF MayDepend
<1>8. PICK x, y \in Int : x # y /\ c1 * x + k1 = c2 * y + k2
  <2>1. Meet(c1, k1, c2, k2)
    BY <1>7, GcdTestSound
  <2> QED BY <2>1 DEF Meet
<1>9. MentionedBy(r1) = Mentioned[s1] /\ MentionedBy(r2) = Mentioned[s2]
  BY <1>1, <1>2 DEF MentionedBy
<1>10. /\ MentionedBy(r1) \ (Enclosing \cup {LoopVar}) = {}
       /\ MentionedBy(r2) \ (Enclosing \cup {LoopVar}) = {}
  BY <1>6, <1>9
<1>11. PICK val \in Values : TRUE
  OBVIOUS
<1>12. PICK outer \in [Enclosing -> Values], f \in [{} -> Values] : TRUE
  <2>1. [n \in Enclosing |-> val] \in [Enclosing -> Values]
    OBVIOUS
  <2>2. [n \in {} |-> val] \in [{} -> Values]
    OBVIOUS
  <2> QED BY <2>1, <2>2
<1>13. PICK env1, env2 : env1 = Environment(x, outer, f) /\ env2 = Environment(y, outer, f)
  OBVIOUS
<1>14. /\ env1 \in [Variables -> Int] /\ env1[LoopVar] = x
       /\ env2 \in [Variables -> Int] /\ env2[LoopVar] = y
  <2>1. \A z \in Int : /\ Environment(z, outer, f) \in [Variables -> Int]
                       /\ Environment(z, outer, f)[LoopVar] = z
    BY EnvironmentType, Zenon
  <2> QED BY <1>13, <2>1
<1>15. Value(env1)[s1] = c1 * x + k1 /\ Value(env2)[s2] = c2 * y + k2
  BY <1>3, <1>5, <1>6, <1>14, AffineValue
<1>16. Value(env1)[s1] = Value(env2)[s2]
  BY <1>8, <1>15
<1>17. Touch(r1, x, r2, y)
  <2>1. \A d \in DOMAIN r1.subscripts \cap DOMAIN r2.subscripts :
          Value(Environment(x, outer, f))[r1.subscripts[d]]
            = Value(Environment(y, outer, f))[r2.subscripts[d]]
    BY <1>1, <1>2, <1>13, <1>16
  <2>2. PICK F1, F2 : /\ F1 = MentionedBy(r1) \ (Enclosing \cup {LoopVar})
                      /\ F2 = MentionedBy(r2) \ (Enclosing \cup {LoopVar})
    OBVIOUS
  <2>3. f \in [F1 -> Values] /\ f \in [F2 -> Values]
    BY <1>10, <2>2
  <2>4. \E o \in [Enclosing -> Values], f1 \in [F1 -> Values], f2 \in [F2 -> Values] :
          \A d \in DOMAIN r1.subscripts \cap DOMAIN r2.subscripts :
            Value(Environment(x, o, f1))[r1.subscripts[d]]
              = Value(Environment(y, o, f2))[r2.subscripts[d]]
    BY <2>1, <2>3
  <2> QED BY <2>2, <2>4 DEF Touch
<1>18. Touch(r2, y, r1, x)
  <2>1. \A d \in DOMAIN r2.subscripts \cap DOMAIN r1.subscripts :
          Value(Environment(y, outer, f))[r2.subscripts[d]]
            = Value(Environment(x, outer, f))[r1.subscripts[d]]
    BY <1>1, <1>2, <1>13, <1>16
  <2>2. PICK F1, F2 : /\ F1 = MentionedBy(r1) \ (Enclosing \cup {LoopVar})
                      /\ F2 = MentionedBy(r2) \ (Enclosing \cup {LoopVar})
    OBVIOUS
  <2>3. f \in [F1 -> Values] /\ f \in [F2 -> Values]
    BY <1>10, <2>2
  <2>4. \E o \in [Enclosing -> Values], f2 \in [F2 -> Values], f1 \in [F1 -> Values] :
          \A d \in DOMAIN r2.subscripts \cap DOMAIN r1.subscripts :
            Value(Environment(y, o, f2))[r2.subscripts[d]]
              = Value(Environment(x, o, f1))[r1.subscripts[d]]
    BY <2>1, <2>3
  <2> QED BY <2>2, <2>4 DEF Touch
<1> QED BY <1>8, <1>17, <1>18

\* A loop with such references only is not rejected for nothing.
LEMMA DependentConflicts ==
  ASSUME Iterations = Int, Values # {},
         loop \in Loops, refs = Collected(loop.body), ~Independent,
         \A n \in DOMAIN loop.body :
           LET r == loop.body[n]
           IN ~r.private /\ Len(r.subscripts) = 1 /\ Simple(r.subscripts[1])
  PROVE  Conflict
<1>1. PICK body \in Seq(References) : body = loop.body
  BY LoopsAssumption
<1>2. PICK L \in Nat : L = Len(body)
  OBVIOUS
<1>3. DOMAIN body = 1 .. L /\ \A n \in 1 .. L : body[n] \in References
  BY <1>2
<1>4. \A n \in 1 .. L : /\ ~body[n].private /\ Len(body[n].subscripts) = 1
                        /\ Simple(body[n].subscripts[1])
  BY <1>1, <1>3
<1>5. DOMAIN refs = 1 .. L
  <2>1. refs \in Seq(References) /\ Len(refs) = L
    BY <1>1, <1>2, CollectedFacts
  <2> QED BY <2>1
<1>6. ASSUME NEW p \in DOMAIN refs PROVE \E n \in 1 .. L : refs[p] = body[n]
  <2>1. refs = Collected(body)
    BY <1>1
  <2>2. \A k \in 1 .. Len(body) : \E n \in 1 .. Len(body) : Collected(body)[k] = body[n]
    BY CollectedFacts
  <2> QED BY <1>2, <1>5, <2>1, <2>2
<1>7. ASSUME NEW n \in 1 .. L PROVE ~RepeatedByNest(body[n])
  <2>1. body[n].subscripts \in Seq(Expressions) /\ DOMAIN body[n].subscripts = {1}
    BY <1>3, <1>4 DEF References
  <2>2. MentionedBy(body[n]) \subseteq {LoopVar}
    BY <1>4, <2>1 DEF MentionedBy, Simple
  <2>3. LoopVar \notin loop.nested
    BY LoopsAssumption
  <2> QED BY <2>2, <2>3 DEF RepeatedByNest
<1>8. PICK p, q \in DOMAIN refs : PairDepends(refs[p], refs[q])
  BY <1>6, <1>7 DEF Independent
<1>9. PICK m, n \in 1 .. L : refs[p] = body[m] /\ refs[q] = body[n]
  BY <1>6
<1>10. PICK r1, r2 \in References : r1 = body[m] /\ r2 = body[n]
  BY <1>3
<1>11. /\ r1.isWrite \/ r2.isWrite
       /\ r1.base = r2.base /\ r1.base # NoBase
  BY <1>8, <1>9, <1>10 DEF PairDepends
<1>12. MayDepend(r1.subscripts[1], r2.subscripts[1])
  <2>1. Len(r1.subscripts) = 1 /\ Len(r2.subscripts) = 1
    BY <1>4, <1>10
  <2>2. DOMAIN r1.subscripts = {1} /\ DOMAIN r2.subscripts = {1}
    BY <2>1 DEF References
  <2>3. PairDepends(r1, r2)
    BY <1>8, <1>9, <1>10
  <2> QED BY <2>1, <2>2, <2>3 DEF PairDepends
<1>13. PICK x, y \in Int : x # y /\ Touch(r1, x, r2, y) /\ Touch(r2, y, r1, x)
  BY <1>4, <1>10, <1>12, DependentTouch
<1>14. ~r1.private /\ ~r2.private
  BY <1>4, <1>10
<1>15. CASE m <= n
  BY <1>1, <1>3, <1>10, <1>11, <1>13, <1>14, <1>15 DEF Conflict
<1>16. CASE n <= m
  BY <1>1, <1>3, <1>10, <1>11, <1>13, <1>14, <1>16 DEF Conflict
<1> QED BY <1>15, <1>16

-----------------------------------------------------------------------------
(* The steps of analyze *)

\* extractAffineSubscript depends on the loop only.
ExtractIsExtracted == ExtractAffineSubscript = Extracted(knownLoopVars)

\* This is how it is defined.
LEMMA ExtractIsExtractedHolds == ExtractIsExtracted
BY DEF ExtractIsExtracted, ExtractAffineSubscript, Extracted, IsExtract, AffineStep

\* It does not change during a call of analyze.
LEMMA SameExtract ==
  ASSUME UNCHANGED loop
  PROVE  ExtractAffineSubscript' = ExtractAffineSubscript
<1>1. ExtractIsExtracted'
  BY ExtractIsExtractedHolds, PTL
<1>2. knownLoopVars' = knownLoopVars
  BY DEF knownLoopVars
<1>3. ExtractAffineSubscript' = Extracted(knownLoopVars')
  BY <1>1 DEF ExtractIsExtracted
<1>4. ExtractAffineSubscript = Extracted(knownLoopVars)
  BY ExtractIsExtractedHolds DEF ExtractIsExtracted
<1> QED BY <1>2, <1>3, <1>4

\* So do the tests of a reference and of a pair.
LEMMA SameTests ==
  ASSUME UNCHANGED <<loop, refs>>, NEW p, NEW q
  PROVE  /\ RepeatedByNest(refs[p])' <=> RepeatedByNest(refs[p])
         /\ PairDepends(refs[p], refs[q])' <=> PairDepends(refs[p], refs[q])
<1>1. RepeatedByNest(refs[p])' <=> RepeatedByNest(refs[p])
  BY DEF RepeatedByNest
<1>2. PairDepends(refs[p], refs[q])' <=> PairDepends(refs[p], refs[q])
  BY SameExtract DEF PairDepends, MayDepend
<1> QED BY <1>1, <1>2

\* And so does their outcome for the whole body.
LEMMA SameIndependent ==
  ASSUME UNCHANGED <<loop, refs>>
  PROVE  Independent' <=> Independent
BY SameTests DEF Independent

\* The pairs before the next one, in the order of the two loops.
Before(p, q) == p < pair[1] \/ (p = pair[1] /\ q < pair[2])

\* No write is repeated by a nested loop, and no pair so far depends.
ComparedSoFar ==
  /\ \A p \in DOMAIN refs : ~RepeatedByNest(refs[p])
  /\ \A p, q \in DOMAIN refs : p < q /\ Before(p, q) => ~PairDepends(refs[p], refs[q])
  /\ pair[2] <= Len(refs) \/ pair[2] = pair[1] + 1

\* The inductive invariant.
ComparedInv ==
  /\ TypeOK
  /\ phase # "collect" => refs = Collected(loop.body)
  /\ phase \in {"collect", "guard"} => pair = <<1, 2>>
  /\ phase = "compare" => ComparedSoFar
  /\ phase = "done" => (dependent <=> ~Independent)

\* The references collected are as many as those of the body.
LEMMA CollectedLength ==
  ASSUME loop \in Loops
  PROVE  /\ loop.body \in Seq(References) /\ Len(loop.body) \in Nat
         /\ Collected(loop.body) \in Seq(References)
         /\ Len(Collected(loop.body)) = Len(loop.body)
<1>1. loop.body \in Seq(References)
  BY LoopsAssumption
<1>2. Len(loop.body) \in Nat
  BY <1>1
<1> QED BY <1>1, <1>2, CollectedFacts

\* A call of analyze starts with nothing compared.
LEMMA InitInv ==
  Init => ComparedInv
<1> SUFFICES ASSUME Init PROVE ComparedInv
  OBVIOUS
<1>1. Len(loop.body) \in Nat /\ loop \in Loops
  BY CollectedLength DEF Init
<1>2. << >> \in Seq(References)
  OBVIOUS
<1>3. pair = <<1, 2>> /\ refs = << >> /\ phase = "collect" /\ dependent = FALSE
  BY DEF Init
<1>4. TypeOK
  <2>1. 1 \in 1 .. Len(loop.body) + 1 /\ 2 \in 2 .. Len(loop.body) + 2
    BY <1>1
  <2>2. /\ pair \in (1 .. Len(loop.body) + 1) \X (2 .. Len(loop.body) + 2)
        /\ pair[1] < pair[2]
    BY <1>3, <2>1
  <2> QED BY <1>1, <1>2, <1>3, <2>2 DEF TypeOK
<1> QED BY <1>3, <1>4 DEF ComparedInv

\* A return sets the result and nothing else.
LEMMA ReturnKeepsType ==
  ASSUME TypeOK, NEW result \in BOOLEAN, Return(result)
  PROVE  TypeOK' /\ UNCHANGED <<loop, refs, pair>> /\ phase' = "done" /\ dependent' = result
BY DEF TypeOK, Return

\* Collecting the references comes before the first pair.
LEMMA CollectKeeps ==
  ASSUME ComparedInv, Collect
  PROVE  ComparedInv'
<1>1. /\ refs' = Collected(loop.body) /\ phase' = "guard" /\ phase = "collect"
      /\ UNCHANGED <<loop, pair, dependent>>
  BY DEF Collect, Collected
<1>2. TypeOK /\ loop \in Loops
  BY DEF ComparedInv, TypeOK
<1>3. refs' \in Seq(References)
  BY <1>1, <1>2, CollectedLength
<1>4. TypeOK'
  BY <1>1, <1>2, <1>3 DEF TypeOK
<1>5. pair = <<1, 2>>
  BY <1>1 DEF ComparedInv
<1> QED BY <1>1, <1>4, <1>5 DEF ComparedInv

\* The guard returns a dependence, or leaves no repeated write behind.
LEMMA GuardNestKeeps ==
  ASSUME ComparedInv, GuardNest
  PROVE  ComparedInv'
<1>1. TypeOK /\ phase = "guard" /\ refs = Collected(loop.body) /\ pair = <<1, 2>>
  BY DEF ComparedInv, GuardNest
<1>2. CASE (\E n \in DOMAIN refs : RepeatedByNest(refs[n])) /\ Return(TRUE)
  <2>1. TypeOK' /\ UNCHANGED <<loop, refs, pair>> /\ phase' = "done" /\ dependent' = TRUE
    BY <1>1, <1>2, ReturnKeepsType
  <2>2. ~Independent
    BY <1>2 DEF Independent
  <2>3. ~Independent'
    BY <2>1, <2>2, SameIndependent
  <2> QED BY <1>1, <2>1, <2>3 DEF ComparedInv
<1>3. CASE /\ ~\E n \in DOMAIN refs : RepeatedByNest(refs[n])
           /\ phase' = "compare"
           /\ UNCHANGED <<loop, refs, pair, dependent>>
  <2>1. TypeOK'
    BY <1>1, <1>3 DEF TypeOK
  <2>2. refs \in Seq(References) /\ DOMAIN refs = 1 .. Len(refs)
    BY <1>1 DEF TypeOK
  <2>3. ComparedSoFar'
    <3>1. UNCHANGED <<loop, refs>> /\ pair' = <<1, 2>>
      BY <1>1, <1>3
    <3>2. \A p \in DOMAIN refs : ~RepeatedByNest(refs[p])'
      BY <1>3, <3>1, SameTests
    <3>3. ASSUME NEW p \in DOMAIN refs, NEW q \in DOMAIN refs, p < q PROVE ~Before(p, q)'
      <4>1. p \in Nat /\ q \in Nat /\ 1 <= p
        BY <2>2
      <4> QED BY <3>1, <3>3, <4>1 DEF Before
    <3>4. pair'[2] = pair'[1] + 1
      BY <3>1
    <3> QED BY <3>1, <3>2, <3>3, <3>4 DEF ComparedSoFar
  <2> QED BY <1>1, <1>3, <2>1, <2>3 DEF ComparedInv
<1> QED BY <1>2, <1>3 DEF GuardNest

\* A comparison finds a dependence, or moves on to the next pair in order.
LEMMA ComparePairKeeps ==
  ASSUME ComparedInv, ComparePair
  PROVE  ComparedInv'
<1>1. /\ TypeOK /\ phase = "compare" /\ refs = Collected(loop.body) /\ ComparedSoFar
      /\ pair[2] <= Len(refs)
  BY DEF ComparedInv, ComparePair
<1>2. CASE PairDepends(refs[pair[1]], refs[pair[2]]) /\ Return(TRUE)
  <2>1. TypeOK' /\ UNCHANGED <<loop, refs, pair>> /\ phase' = "done" /\ dependent' = TRUE
    BY <1>1, <1>2, ReturnKeepsType
  <2>2. ~Independent
    <3>1. Len(loop.body) = Len(refs) /\ refs \in Seq(References)
      BY <1>1, CollectedLength DEF TypeOK
    <3>2. pair[1] \in DOMAIN refs /\ pair[2] \in DOMAIN refs /\ pair[1] < pair[2]
      BY <1>1, <3>1 DEF TypeOK
    <3> QED BY <1>2, <3>2 DEF Independent
  <2>3. ~Independent'
    BY <2>1, <2>2, SameIndependent
  <2> QED BY <1>1, <2>1, <2>3 DEF ComparedInv
<1>3. CASE /\ ~PairDepends(refs[pair[1]], refs[pair[2]])
           /\ pair' = NextPair(pair[1], pair[2])
           /\ UNCHANGED <<loop, refs, phase, dependent>>
  <2>1. PICK L \in Nat : L = Len(refs)
    BY <1>1 DEF TypeOK
  <2>2. Len(loop.body) = L /\ DOMAIN refs = 1 .. L
    BY <1>1, <2>1, CollectedLength DEF TypeOK
  <2>3. PICK i, j \in Nat : i = pair[1] /\ j = pair[2]
    BY <1>1, <2>2 DEF TypeOK
  <2>4. 1 <= i /\ i < j /\ j <= L
    BY <1>1, <2>1, <2>2, <2>3 DEF TypeOK
  <2>5. pair' = IF j < L THEN <<i, j + 1>> ELSE <<i + 1, i + 2>>
    BY <1>3, <2>1, <2>3 DEF NextPair
  <2>6. PICK k, l \in Nat : k = pair'[1] /\ l = pair'[2] /\ pair' = <<k, l>>
    BY <2>5
  <2>7. \/ j < L /\ k = i /\ l = j + 1
        \/ j = L /\ k = i + 1 /\ l = i + 2
    BY <2>4, <2>5, <2>6
  <2>8. TypeOK'
    <3>1. k \in 1 .. L + 1 /\ l \in 2 .. L + 2 /\ k < l
      BY <2>4, <2>7
    <3> QED BY <1>1, <1>3, <2>2, <2>6, <3>1 DEF TypeOK
  <2>9. ComparedSoFar'
    <3>1. UNCHANGED <<loop, refs>>
      BY <1>3
    <3>2. \A p \in DOMAIN refs : ~RepeatedByNest(refs[p])'
      BY <1>1, <3>1, SameTests DEF ComparedSoFar
    <3>3. ASSUME NEW p \in DOMAIN refs, NEW q \in DOMAIN refs, p < q, Before(p, q)'
          PROVE  ~PairDepends(refs[p], refs[q])'
      <4>1. p \in Nat /\ q \in Nat /\ q <= L
        BY <2>2
      <4>2. p < k \/ (p = k /\ q < l)
        BY <2>6, <3>3 DEF Before
      <4>3. \/ p < i \/ (p = i /\ q < j)
            \/ p = i /\ q = j
        BY <2>4, <2>7, <3>3, <4>1, <4>2
      <4>4. CASE p < i \/ (p = i /\ q < j)
        <5>1. Before(p, q)
          BY <2>3, <4>4 DEF Before
        <5>2. ~PairDepends(refs[p], refs[q])
          BY <1>1, <3>3, <5>1 DEF ComparedSoFar
        <5> QED BY <3>1, <5>2, SameTests
      <4>5. CASE p = i /\ q = j
        <5>1. ~PairDepends(refs[p], refs[q])
          BY <1>3, <2>3, <4>5
        <5> QED BY <3>1, <5>1, SameTests
      <4> QED BY <4>3, <4>4, <4>5
    <3>4. l <= L \/ l = k + 1
      BY <2>7
    <3> QED BY <2>1, <2>6, <3>1, <3>2, <3>3, <3>4 DEF ComparedSoFar
  <2> QED BY <1>1, <1>3, <2>8, <2>9 DEF ComparedInv
<1> QED BY <1>2, <1>3 DEF ComparePair

\* Behind the last pair, all pairs have been compared.
LEMMA NoDependenceKeeps ==
  ASSUME ComparedInv, NoDependence
  PROVE  ComparedInv'
<1>1. /\ TypeOK /\ refs = Collected(loop.body) /\ ComparedSoFar
      /\ pair[2] > Len(refs)
  BY DEF ComparedInv, NoDependence
<1>2. TypeOK' /\ UNCHANGED <<loop, refs, pair>> /\ phase' = "done" /\ dependent' = FALSE
  <2>1. Return(FALSE)
    BY DEF NoDependence
  <2> QED BY <1>1, <2>1, ReturnKeepsType
<1>3. PICK L \in Nat : L = Len(refs) /\ DOMAIN refs = 1 .. L
  BY <1>1 DEF TypeOK
<1>4. pair[1] \in Nat /\ pair[1] >= L
  <2>1. Len(loop.body) = L
    BY <1>1, <1>3, CollectedLength DEF TypeOK
  <2>2. PICK i, j \in Nat : i = pair[1] /\ j = pair[2]
    BY <1>1, <2>1 DEF TypeOK
  <2>3. j > L /\ (j <= L \/ j = i + 1)
    BY <1>1, <1>3, <2>2 DEF ComparedSoFar
  <2> QED BY <2>2, <2>3
<1>5. Independent'
  <2>1. UNCHANGED <<loop, refs>>
    BY <1>2
  <2>2. \A p \in DOMAIN refs : ~RepeatedByNest(refs[p])'
    BY <1>1, <2>1, SameTests DEF ComparedSoFar
  <2>3. ASSUME NEW p \in DOMAIN refs, NEW q \in DOMAIN refs, p < q
        PROVE  ~PairDepends(refs[p], refs[q])'
    <3>1. p < pair[1]
      BY <1>3, <1>4, <2>3
    <3>2. ~PairDepends(refs[p], refs[q])
      BY <1>1, <2>3, <3>1 DEF ComparedSoFar, Before
    <3> QED BY <2>1, <3>2, SameTests
  <2> QED BY <2>1, <2>2, <2>3 DEF Independent
<1> QED BY <1>1, <1>2, <1>5 DEF ComparedInv

\* Nothing else changes the result.
LEMMA StutterKeeps ==
  ASSUME ComparedInv, UNCHANGED vars
  PROVE  ComparedInv'
<1>1. UNCHANGED <<loop, refs, pair, phase, dependent>>
  BY DEF vars
<1>2. TypeOK'
  BY <1>1 DEF ComparedInv, TypeOK
<1>3. Independent' <=> Independent
  BY <1>1, SameIndependent
<1>4. ComparedSoFar => ComparedSoFar'
  BY <1>1, SameTests DEF ComparedSoFar, Before
<1> QED BY <1>1, <1>2, <1>3, <1>4 DEF ComparedInv

\* The invariant holds throughout.
LEMMA ComparedInvHolds == Spec => []ComparedInv
<1>1. ComparedInv /\ [Next]_vars => ComparedInv'
  BY CollectKeeps, GuardNestKeeps, ComparePairKeeps, NoDependenceKeeps, StutterKeeps DEF Next
<1> QED BY <1>1, InitInv, PTL DEF Spec

\* The pairs that analyze compares are references of the body, in order, for
\* every set of loops.
THEOREM TypeCorrect == Spec => []TypeOK
<1>1. ComparedInv => TypeOK
  BY DEF ComparedInv
<1> QED BY <1>1, ComparedInvHolds, PTL

\* A loop that analyze declares safe has no two iterations that touch the same
\* element of an array, for every set of subscripts, loops and values of the
\* variables, if each write is anchored in the loop index.
THEOREM SafeCorrect == Spec => []SafeIfAnchored
<1>1. ComparedInv => SafeIfAnchored
  <2> SUFFICES ASSUME ComparedInv, phase = "done", ~dependent,
                      \A n \in DOMAIN loop.body :
                        loop.body[n].isWrite =>
                          Anchored(loop.body[n]) \/ RepeatedByNest(loop.body[n])
               PROVE  ~Conflict
    BY DEF SafeIfAnchored
  <2>1. loop \in Loops /\ refs = Collected(loop.body) /\ Independent
    BY DEF ComparedInv, TypeOK
  <2> QED BY <2>1, IndependentIsSafe
<1> QED BY <1>1, ComparedInvHolds, PTL

\* The test is exact: a loop with one-dimensional arrays and subscripts that are
\* affine in the loop index is rejected only if two iterations touch the same
\* element, for every set of such subscripts, when no loop bounds keep the
\* iterations apart (the analysis reads none).
THEOREM RejectedCorrect ==
  ASSUME Iterations = Int, Values # {}
  PROVE  Spec => []RejectedIfConflict
<1>1. ComparedInv => RejectedIfConflict
  <2> SUFFICES ASSUME ComparedInv, phase = "done", dependent,
                      \A n \in DOMAIN loop.body :
                        LET r == loop.body[n]
                        IN ~r.private /\ Len(r.subscripts) = 1 /\ Simple(r.subscripts[1])
               PROVE  Conflict
    BY DEF RejectedIfConflict
  <2>1. loop \in Loops /\ refs = Collected(loop.body) /\ ~Independent
    BY DEF ComparedInv, TypeOK
  <2> QED BY <2>1, DependentConflicts
<1> QED BY <1>1, ComparedInvHolds, PTL
=============================================================================
