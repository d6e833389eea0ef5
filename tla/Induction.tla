----------------------------- MODULE Induction -----------------------------
(***************************************************************************)
(* Induction and recursion over the naturals, stated for sets and functions *)
(* rather than for operators, so that the proofs of this project can cite  *)
(* them with a set comprehension or a function in place of the predicate   *)
(* or the step; and what follows from them about sums over finite sets.    *)
(***************************************************************************)
EXTENDS Integers, FiniteSets, FiniteSetsExt, FiniteSetTheorems,
        WellFoundedInduction, TLAPS

\* A set of natural numbers that is not empty has a least member.
LEMMA LeastNumber ==
  ASSUME NEW T \in SUBSET Nat, T # {}
  PROVE  \E x \in T : \A y \in T : x <= y
<1> DEFINE R == OpToRel(<, Nat)
<1>1. IsWellFoundedOn(R, Nat)
  BY NatLessThanWellFounded
<1>2. \A x, y \in Nat : <<y, x>> \in R <=> y < x
  BY DEF OpToRel
<1> HIDE DEF R
<1>3. PICK x \in T : \A y \in T : ~(<<y, x>> \in R)
  BY <1>1, WFMin
<1>4. \A y \in T : y \in Nat /\ ~(y < x)
  BY <1>2, <1>3
<1>5. \A y \in T : x <= y
  BY <1>4
<1> QED BY <1>5

\* A set of numbers up to n that is not empty has a greatest member.
LEMMA GreatestNumber ==
  ASSUME NEW n \in Nat, NEW T \in SUBSET (0 .. n), T # {}
  PROVE  \E x \in T : \A y \in T : y <= x
<1> DEFINE U == {n - x : x \in T}
<1>1. \A x \in T : x \in Int /\ n - x \in Nat /\ n - x \in U
  OBVIOUS
<1>1a. U \in SUBSET Nat /\ U # {}
  BY <1>1
<1>2. PICK u \in U : \A v \in U : u <= v
  <2> HIDE DEF U
  <2> QED BY <1>1a, LeastNumber
<1>3. PICK x \in T : u = n - x
  BY <1>2
<1>4. ASSUME NEW y \in T PROVE y <= x
  <2>1. n - x <= n - y /\ x \in Int /\ y \in Int
    BY <1>1, <1>2, <1>3
  <2> QED BY <2>1
<1> QED BY <1>4

\* A set that has 0, and the successor of every natural number that it has,
\* has them all.
LEMMA NumberInduction ==
  ASSUME NEW T, 0 \in T, \A n \in Nat : n \in T => n + 1 \in T
  PROVE  Nat \subseteq T
<1> DEFINE Missing == Nat \ T
<1> SUFFICES ASSUME Missing # {} PROVE FALSE
  OBVIOUS
<1>1. PICK x \in Missing : \A y \in Missing : x <= y
  BY LeastNumber
<1>2. x \in Nat /\ x # 0
  BY <1>1
<1>3. x - 1 \in Nat /\ x - 1 \in T
  BY <1>1, <1>2
<1>4. (x - 1) + 1 \in T
  BY <1>3
<1> QED BY <1>1, <1>2, <1>4

\* The same within an interval.
LEMMA IntervalInduction ==
  ASSUME NEW lo \in Int, NEW hi \in Int, NEW T,
         lo \in T, \A n \in lo .. hi - 1 : n \in T => n + 1 \in T
  PROVE  lo .. hi \subseteq T
<1> DEFINE U == {m \in Nat : lo + m <= hi => lo + m \in T}
<1>1. 0 \in U
  OBVIOUS
<1>2. \A m \in Nat : m \in U => m + 1 \in U
  <2> SUFFICES ASSUME NEW m \in Nat, m \in U, lo + (m + 1) <= hi
               PROVE  lo + (m + 1) \in T
    OBVIOUS
  <2>1. lo + m \in lo .. hi - 1 /\ lo + m \in T
    OBVIOUS
  <2>2. (lo + m) + 1 \in T /\ (lo + m) + 1 = lo + (m + 1)
    BY <2>1
  <2> QED BY <2>2
<1>3. Nat \subseteq U
  <2> HIDE DEF U
  <2> QED BY <1>1, <1>2, NumberInduction
<1> SUFFICES ASSUME NEW n \in lo .. hi PROVE n \in T
  OBVIOUS
<1>4. n - lo \in Nat /\ lo + (n - lo) = n /\ n <= hi
  OBVIOUS
<1>5. n - lo \in U
  BY <1>3, <1>4
<1> QED BY <1>4, <1>5

\* f is the recursion over an interval that starts with base and in which
\* step[j] makes the value at j of the value at j - 1.
IsRecursion(f, lo, hi, S, base, step) ==
  /\ f \in [lo .. hi -> S]
  /\ f[lo] = base
  /\ \A j \in lo + 1 .. hi : f[j] = step[j][f[j - 1]]

\* A recursion over an interval has a solution.
LEMMA IntervalRecursion ==
  ASSUME NEW lo \in Int, NEW hi \in Int, lo <= hi,
         NEW S, NEW base \in S, NEW step,
         \A j \in lo + 1 .. hi, x \in S : step[j][x] \in S
  PROVE  \E f : IsRecursion(f, lo, hi, S, base, step)
<1> DEFINE Sol(m, f) == /\ f[lo] = base
                        /\ \A j \in lo + 1 .. m : f[j] = step[j][f[j - 1]]
           T == {m \in lo .. hi : \E f \in [lo .. m -> S] : Sol(m, f)}
<1>1. lo \in T
  <2>1. [j \in lo .. lo |-> base] \in [lo .. lo -> S]
        /\ Sol(lo, [j \in lo .. lo |-> base])
    OBVIOUS
  <2>2. lo \in lo .. hi
    OBVIOUS
  <2> QED BY <2>1, <2>2
<1>2. \A m \in lo .. hi - 1 : m \in T => m + 1 \in T
  <2> SUFFICES ASSUME NEW m \in lo .. hi - 1, m \in T
               PROVE  m + 1 \in T
    OBVIOUS
  <2>1. PICK f \in [lo .. m -> S] : Sol(m, f)
    OBVIOUS
  <2> DEFINE g == [j \in lo .. m + 1 |->
                     IF j = m + 1 THEN step[m + 1][f[m]] ELSE f[j]]
  <2>2. m \in lo .. m /\ m + 1 \in lo + 1 .. hi /\ lo # m + 1 /\ lo \in lo .. m
    OBVIOUS
  <2>3. f[m] \in S /\ step[m + 1][f[m]] \in S
    BY <2>2
  <2>4. g \in [lo .. m + 1 -> S]
    <3>1. \A j \in lo .. m + 1 : j = m + 1 \/ j \in lo .. m
      OBVIOUS
    <3> QED BY <2>3, <3>1
  <2>5. Sol(m + 1, g)
    <3>1. g[lo] = base
      BY <2>1, <2>2
    <3>2. ASSUME NEW j \in lo + 1 .. m + 1 PROVE g[j] = step[j][g[j - 1]]
      <4>1. j - 1 \in lo .. m /\ j - 1 # m + 1 /\ j \in lo .. m + 1
            /\ j - 1 \in lo .. m + 1
        OBVIOUS
      <4>2. g[j - 1] = f[j - 1]
        BY <4>1
      <4>3. CASE j = m + 1
        BY <4>1, <4>2, <4>3
      <4>4. CASE j # m + 1
        <5>1. j \in lo + 1 .. m
          BY <4>4
        <5>2. g[j] = f[j] /\ f[j] = step[j][f[j - 1]]
          BY <2>1, <4>1, <4>4, <5>1
        <5> QED BY <4>2, <5>2
      <4> QED BY <4>3, <4>4
    <3> QED BY <3>1, <3>2
  <2>6. m + 1 \in lo .. hi
    OBVIOUS
  <2> HIDE DEF g
  <2> QED BY <2>4, <2>5, <2>6
<1>3. hi \in T
  <2>1. lo .. hi \subseteq T
    <3> HIDE DEF T
    <3> QED BY <1>1, <1>2, IntervalInduction
  <2> QED BY <2>1
<1> QED BY <1>3 DEF IsRecursion

\* A set that has each member of E once it has those of lower rank has all
\* of E.
LEMMA RankedInduction ==
  ASSUME NEW E, NEW rank \in [E -> Nat], NEW T,
         \A e \in E : (\A d \in E : rank[d] < rank[e] => d \in T) => e \in T
  PROVE  E \subseteq T
<1> DEFINE Missing == {rank[e] : e \in E \ T}
<1> SUFFICES ASSUME NEW a \in E, a \notin T PROVE FALSE
  OBVIOUS
<1>1. Missing \in SUBSET Nat /\ rank[a] \in Missing
  OBVIOUS
<1>2. PICK n \in Missing : \A m \in Missing : n <= m
  <2> HIDE DEF Missing
  <2> QED BY <1>1, LeastNumber
<1>3. PICK e \in E \ T : n = rank[e]
  BY <1>2
<1>4. ASSUME NEW d \in E, rank[d] < rank[e] PROVE d \in T
  <2>1. CASE d \notin T
    <3>1. rank[d] \in Missing
      BY <2>1
    <3>2. rank[e] <= rank[d] /\ rank[d] \in Nat /\ rank[e] \in Nat
      BY <1>2, <1>3, <3>1
    <3> QED BY <1>4, <3>2
  <2> QED BY <2>1
<1> QED BY <1>3, <1>4

\* step makes a function of a function, and its value for e depends on what
\* has a lower rank than e only.
DependsOnLower(step, E, rank, S) ==
  /\ \A g \in [E -> S] : step[g] \in [E -> S]
  /\ \A g, h \in [E -> S], e \in E :
       (\A d \in E : rank[d] < rank[e] => g[d] = h[d]) => step[g][e] = step[h][e]

\* A recursion to lower ranks has a solution.
LEMMA RankedRecursion ==
  ASSUME NEW E, NEW rank \in [E -> Nat], NEW S, S # {}, NEW step,
         DependsOnLower(step, E, rank, S)
  PROVE  \E g \in [E -> S] : \A e \in E : g[e] = step[g][e]
<1> DEFINE Sol(n, g) == \A e \in E : rank[e] < n => g[e] = step[g][e]
           T == {n \in Nat : \E g \in [E -> S] : Sol(n, g)}
<1>0. /\ \A g \in [E -> S] : step[g] \in [E -> S]
      /\ \A g, h \in [E -> S], e \in E :
           (\A d \in E : rank[d] < rank[e] => g[d] = h[d]) => step[g][e] = step[h][e]
  BY DEF DependsOnLower
<1>1. 0 \in T
  <2>1. PICK s \in S : TRUE
    OBVIOUS
  <2>2. [e \in E |-> s] \in [E -> S]
    OBVIOUS
  <2>3. Sol(0, [e \in E |-> s])
    <3>1. \A e \in E : ~(rank[e] < 0)
      OBVIOUS
    <3> QED BY <3>1
  <2> HIDE DEF Sol
  <2> QED BY <2>2, <2>3
<1>2. ASSUME NEW n \in Nat, n \in T PROVE n + 1 \in T
  <2>1. PICK g \in [E -> S] : Sol(n, g)
    BY <1>2
  <2>2. PICK h : h = step[g]
    OBVIOUS
  <2>3. h \in [E -> S]
    BY <1>0, <2>2
  <2>4. ASSUME NEW e \in E, rank[e] < n + 1 PROVE h[e] = step[h][e]
    <3>1. ASSUME NEW d \in E, rank[d] < rank[e] PROVE h[d] = g[d]
      <4>1. rank[d] < n
        BY <2>4, <3>1
      <4> QED BY <2>1, <2>2, <4>1
    <3>2. step[h][e] = step[g][e]
      BY <1>0, <2>3, <3>1
    <3> QED BY <2>2, <3>2
  <2> QED BY <2>3, <2>4
<1>3. Nat \subseteq T
  <2> HIDE DEF T
  <2> QED BY <1>1, <1>2, NumberInduction
<1>4. ASSUME NEW n \in Nat, NEW m \in Nat, NEW g \in [E -> S], NEW h \in [E -> S],
             Sol(n, g), Sol(m, h)
      PROVE  \A e \in E : rank[e] < n /\ rank[e] < m => g[e] = h[e]
  <2> DEFINE U == {e \in E : rank[e] < n /\ rank[e] < m => g[e] = h[e]}
  <2>1. ASSUME NEW e \in E, \A d \in E : rank[d] < rank[e] => d \in U
        PROVE  e \in U
    <3> SUFFICES ASSUME rank[e] < n, rank[e] < m PROVE g[e] = h[e]
      OBVIOUS
    <3>1. \A d \in E : rank[d] < rank[e] => rank[d] < n /\ rank[d] < m
      OBVIOUS
    <3>2. \A d \in E : rank[d] < rank[e] => g[d] = h[d]
      BY <2>1, <3>1
    <3>3. step[g][e] = step[h][e]
      BY <1>0, <3>2
    <3> QED BY <1>4, <3>3
  <2>2. E \subseteq U
    <3> HIDE DEF U
    <3> QED BY <2>1, RankedInduction
  <2> QED BY <2>2
<1>5. PICK best : best = [e \in E |-> CHOOSE g \in [E -> S] : Sol(rank[e] + 1, g)]
  OBVIOUS
<1>6. \A e \in E : best[e] \in [E -> S] /\ Sol(rank[e] + 1, best[e])
  <2> SUFFICES ASSUME NEW e \in E
               PROVE  best[e] \in [E -> S] /\ Sol(rank[e] + 1, best[e])
    OBVIOUS
  <2>1. \E g \in [E -> S] : Sol(rank[e] + 1, g)
    BY <1>3
  <2> HIDE DEF Sol
  <2> QED BY <1>5, <2>1
<1>7. PICK G : G = [e \in E |-> best[e][e]]
  OBVIOUS
<1>8. G \in [E -> S]
  BY <1>6, <1>7
<1>9. ASSUME NEW e \in E PROVE G[e] = step[G][e]
  <2>1. ASSUME NEW d \in E, rank[d] < rank[e] PROVE G[d] = best[e][d]
    <3>1. rank[d] + 1 \in Nat /\ rank[e] + 1 \in Nat
          /\ rank[d] < rank[d] + 1 /\ rank[d] < rank[e] + 1
      BY <2>1
    <3>2. best[d][d] = best[e][d]
      <4> HIDE DEF Sol
      <4> QED BY <1>4, <1>6, <3>1
    <3> QED BY <1>7, <3>2
  <2>2. step[G][e] = step[best[e]][e]
    BY <1>0, <1>6, <1>8, <2>1
  <2>3. best[e][e] = step[best[e]][e]
    <3>1. rank[e] < rank[e] + 1
      OBVIOUS
    <3> QED BY <1>6, <3>1
  <2> QED BY <1>7, <2>2, <2>3
<1> QED BY <1>8, <1>9

-----------------------------------------------------------------------------
(* Sums over finite sets *)

\* The sum of the values of the members of S.
SumOf(val, S) == MapThenSumSet(LAMBDA x : val[x], S)

\* The member that MapThenSumSet takes out of a set.
Pick(s) == CHOOSE x \in s : TRUE

\* One step of its recursion, with iter for the sums of smaller sets.
Unrolled(iter, val, s) ==
  IF s = {} THEN 0 ELSE val[Pick(s)] + iter[s \ {Pick(s)}]

\* iter solves the recursion on the subsets of S.
Summing(iter, val, S) == iter = [s \in SUBSET S |-> Unrolled(iter, val, s)]

\* The subsets of S with at most n members.
UpTo(S, n) == {s \in SUBSET S : Cardinality(s) <= n}

\* A sum in terms of a solution of the recursion.
LEMMA SumUnrolled ==
  ASSUME NEW S, NEW val
  PROVE  SumOf(val, S) = (CHOOSE iter : Summing(iter, val, S))[S]
BY DEF SumOf, MapThenSumSet, MapThenFoldSet, Summing, Unrolled, Pick

\* A sum depends on the values of its members only.
LEMMA SameSum ==
  ASSUME NEW S, NEW v, NEW w, \A x \in S : v[x] = w[x]
  PROVE  SumOf(v, S) = SumOf(w, S)
<1>1. \A s \in SUBSET S : s # {} => Pick(s) \in S
  BY DEF Pick
<1>2. \A i : [s \in SUBSET S |-> Unrolled(i, v, s)] = [s \in SUBSET S |-> Unrolled(i, w, s)]
  BY <1>1 DEF Unrolled
<1>3. (CHOOSE iter : Summing(iter, v, S)) = (CHOOSE iter : Summing(iter, w, S))
  BY <1>2 DEF Summing
<1>4. SumOf(v, S) = (CHOOSE iter : Summing(iter, v, S))[S]
  BY SumUnrolled
<1>5. SumOf(w, S) = (CHOOSE iter : Summing(iter, w, S))[S]
  BY SumUnrolled
<1> QED BY <1>3, <1>4, <1>5

\* Subsets by size; the recursion goes to smaller ones.
LEMMA SmallerSubsets ==
  ASSUME NEW S, IsFiniteSet(S)
  PROVE  /\ \A s \in SUBSET S : Cardinality(s) \in Nat
         /\ \A n \in Nat : \A s \in UpTo(S, n + 1) :
              s # {} => Pick(s) \in S /\ s \ {Pick(s)} \in UpTo(S, n)
         /\ \A n \in Nat : UpTo(S, n) \subseteq UpTo(S, n + 1)
         /\ UpTo(S, 0) = {{}}
         /\ Cardinality(S) \in Nat /\ UpTo(S, Cardinality(S)) = SUBSET S
<1>1. \A s \in SUBSET S : IsFiniteSet(s) /\ Cardinality(s) <= Cardinality(S)
  BY FS_Subset
<1>2. \A s \in SUBSET S : Cardinality(s) \in Nat
  BY <1>1, FS_CardinalityType
<1>3. ASSUME NEW n \in Nat, NEW s \in UpTo(S, n + 1), s # {}
      PROVE  Pick(s) \in S /\ s \ {Pick(s)} \in UpTo(S, n)
  <2>1. Pick(s) \in s /\ s \in SUBSET S /\ Cardinality(s) <= n + 1
    BY <1>3 DEF Pick, UpTo
  <2>2. Cardinality(s \ {Pick(s)}) = Cardinality(s) - 1
    BY <1>1, <2>1, FS_RemoveElement
  <2>3. Cardinality(s \ {Pick(s)}) <= n
    BY <1>2, <2>1, <2>2
  <2> QED BY <2>1, <2>3 DEF UpTo
<1>4. \A n \in Nat : UpTo(S, n) \subseteq UpTo(S, n + 1)
  BY <1>2 DEF UpTo
<1>5. UpTo(S, 0) = {{}}
  <2>1. \A s \in SUBSET S : Cardinality(s) <= 0 <=> s = {}
    BY <1>1, <1>2, FS_EmptySet
  <2> QED BY <2>1 DEF UpTo
<1>6. Cardinality(S) \in Nat /\ UpTo(S, Cardinality(S)) = SUBSET S
  BY <1>1, <1>2 DEF UpTo
<1> QED BY <1>2, <1>3, <1>4, <1>5, <1>6

\* The recursion has a solution on a finite set.
LEMMA SummingExists ==
  ASSUME NEW S, IsFiniteSet(S), NEW val, \A x \in S : val[x] \in Nat
  PROVE  \E iter : Summing(iter, val, S)
<1> DEFINE Sol(n, i) == \A s \in UpTo(S, n) : i[s] = Unrolled(i, val, s)
           T == {n \in Nat : \E i \in [UpTo(S, n) -> Nat] : Sol(n, i)}
<1>1. 0 \in T
  <2>1. [s \in UpTo(S, 0) |-> 0] \in [UpTo(S, 0) -> Nat]
    OBVIOUS
  <2>2. Sol(0, [s \in UpTo(S, 0) |-> 0])
    BY SmallerSubsets DEF Unrolled
  <2> QED BY <2>1, <2>2
<1>2. ASSUME NEW n \in Nat, n \in T PROVE n + 1 \in T
  <2>1. PICK i \in [UpTo(S, n) -> Nat] : Sol(n, i)
    BY <1>2
  <2> DEFINE j == [s \in UpTo(S, n + 1) |->
                     IF s \in UpTo(S, n) THEN i[s] ELSE Unrolled(i, val, s)]
  <2>2. ASSUME NEW s \in UpTo(S, n + 1)
        PROVE  j[s] \in Nat /\ j[s] = Unrolled(j, val, s)
    <3>1. j[s] = Unrolled(i, val, s)
      BY <2>1
    <3>2. CASE s = {}
      BY <3>1, <3>2 DEF Unrolled
    <3>3. CASE s # {}
      <4>1. PICK p : p = Pick(s)
        OBVIOUS
      <4>2. p \in S /\ s \ {p} \in UpTo(S, n) /\ s \ {p} \in UpTo(S, n + 1)
        BY <3>3, <4>1, SmallerSubsets
      <4>3. j[s \ {p}] = i[s \ {p}] /\ i[s \ {p}] \in Nat
        BY <4>2
      <4>4. j[s] = val[p] + i[s \ {p}]
        BY <3>1, <3>3, <4>1 DEF Unrolled
      <4>5. Unrolled(j, val, s) = val[p] + j[s \ {p}]
        BY <3>3, <4>1 DEF Unrolled
      <4> HIDE DEF j
      <4>6. val[p] \in Nat
        BY <4>2
      <4> QED BY <4>3, <4>4, <4>5, <4>6
    <3> QED BY <3>2, <3>3
  <2>3. j \in [UpTo(S, n + 1) -> Nat]
    <3>1. j = [s \in UpTo(S, n + 1) |-> j[s]]
      OBVIOUS
    <3> HIDE DEF j
    <3> QED BY <2>2, <3>1
  <2> HIDE DEF j
  <2> QED BY <2>2, <2>3
<1>3. Nat \subseteq T
  <2> HIDE DEF T
  <2> QED BY <1>1, <1>2, NumberInduction
<1>4. PICK i \in [SUBSET S -> Nat] : \A s \in SUBSET S : i[s] = Unrolled(i, val, s)
  <2>1. Cardinality(S) \in T /\ UpTo(S, Cardinality(S)) = SUBSET S
    BY <1>3, SmallerSubsets
  <2> QED BY <2>1
<1>5. i = [s \in SUBSET S |-> Unrolled(i, val, s)]
  BY <1>4
<1> QED BY <1>5 DEF Summing

\* A finite sum of natural numbers is a natural number.
LEMMA SumType ==
  ASSUME NEW S, IsFiniteSet(S), NEW val, \A x \in S : val[x] \in Nat
  PROVE  SumOf(val, S) \in Nat
<1>1. PICK i : i = CHOOSE iter : Summing(iter, val, S)
  OBVIOUS
<1>2. Summing(i, val, S)
  <2>1. \E iter : Summing(iter, val, S)
    BY SummingExists
  <2> QED BY <1>1, <2>1
<1>3. \A s \in SUBSET S : i[s] = Unrolled(i, val, s)
  BY <1>2 DEF Summing
<1> DEFINE T == {n \in Nat : \A s \in UpTo(S, n) : i[s] \in Nat}
<1>3a. i[{}] = 0
  <2>1. {} \in SUBSET S /\ Unrolled(i, val, {}) = 0
    BY DEF Unrolled
  <2> QED BY <1>3, <2>1
<1>4. 0 \in T
  <2>1. \A s \in UpTo(S, 0) : s = {}
    BY SmallerSubsets
  <2> QED BY <1>3a, <2>1
<1>5. ASSUME NEW n \in Nat, n \in T PROVE n + 1 \in T
  <2> SUFFICES ASSUME NEW s \in UpTo(S, n + 1) PROVE i[s] \in Nat
    OBVIOUS
  <2>1. s \in SUBSET S
    BY DEF UpTo
  <2>2. CASE s = {}
    BY <1>3a, <2>2
  <2>3. CASE s # {}
    <3>1. PICK p : p = Pick(s)
      OBVIOUS
    <3>2. p \in S /\ s \ {p} \in UpTo(S, n)
      BY <2>3, <3>1, SmallerSubsets
    <3>3. i[s] = val[p] + i[s \ {p}]
      BY <1>3, <2>1, <2>3, <3>1 DEF Unrolled
    <3>4. val[p] \in Nat /\ i[s \ {p}] \in Nat
      BY <1>5, <3>2
    <3> QED BY <3>3, <3>4
  <2> QED BY <2>2, <2>3
<1>6. Nat \subseteq T
  <2> HIDE DEF T
  <2> QED BY <1>4, <1>5, NumberInduction
<1>7. i[S] \in Nat
  <2>1. Cardinality(S) \in T /\ S \in UpTo(S, Cardinality(S))
    BY <1>6, SmallerSubsets
  <2> QED BY <2>1
<1> QED BY <1>1, <1>7, SumUnrolled
=============================================================================
