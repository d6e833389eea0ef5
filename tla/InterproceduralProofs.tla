------------------------ MODULE InterproceduralProofs ------------------------
(***************************************************************************)
(* Proofs about InterproceduralAnalysis: type correctness, that the first   *)
(* definition of a name decides, that propagateSideEffects marks exactly   *)
(* the functions that have a reason to be unsafe, and what follows for the *)
(* verdicts, whatever dfsSCC marks as recursive; then that dfsSCC marks    *)
(* exactly the functions that can call themselves again, and that the      *)
(* estimates reach their fixed point in a bounded number of passes.        *)
(***************************************************************************)
EXTENDS InterproceduralAnalysis, Induction, FiniteSetTheorems, TLAPS

\* The functions on the stacks of dfsSCC have summaries.
NodesKnown ==
  /\ \A i \in DOMAIN stack : stack[i] \in Known
  /\ \A i \in DOMAIN frames : frames[i].node \in Known

\* What is true of the variables in every phase.
IndTypeOK == TypeOK /\ NodesKnown

-----------------------------------------------------------------------------
(* Sequences *)

\* Appending an element to a sequence over S.
LEMMA AppendFacts ==
  ASSUME NEW S, NEW s \in Seq(S), NEW e \in S
  PROVE  /\ Append(s, e) \in Seq(S)
         /\ \A i \in DOMAIN Append(s, e) :
              \/ Append(s, e)[i] = e
              \/ i \in DOMAIN s /\ Append(s, e)[i] = s[i]
PROOF
<1>1. Append(s, e) \in Seq(S) /\ Len(Append(s, e)) = Len(s) + 1
  OBVIOUS
<1>2. \A i \in 1..(Len(s) + 1) :
        Append(s, e)[i] = IF i <= Len(s) THEN s[i] ELSE e
  OBVIOUS
<1> QED
  BY <1>1, <1>2

\* The last element of a sequence over S, and its replacement.
LEMMA LastFacts ==
  ASSUME NEW S, NEW s \in Seq(S), s # << >>
  PROVE  /\ Len(s) \in DOMAIN s /\ Len(s) - 1 \in Nat /\ s[Len(s)] \in S
         /\ \A e \in S : [s EXCEPT ![Len(s)] = e] \in Seq(S)
PROOF
<1>1. Len(s) \in Nat /\ Len(s) # 0 /\ DOMAIN s = 1..Len(s)
  OBVIOUS
<1>2. Len(s) \in DOMAIN s /\ Len(s) - 1 \in Nat
  BY <1>1
<1>3. s[Len(s)] \in S
  BY <1>2
<1> QED
  BY <1>1, <1>2, <1>3

\* A prefix of a sequence over S.
LEMMA PrefixFacts ==
  ASSUME NEW S, NEW s \in Seq(S), NEW n \in Nat, n <= Len(s)
  PROVE  /\ SubSeq(s, 1, n) \in Seq(S)
         /\ \A i \in DOMAIN SubSeq(s, 1, n) :
              i \in DOMAIN s /\ SubSeq(s, 1, n)[i] = s[i]
PROOF
<1>1. Len(s) \in Nat /\ DOMAIN s = 1..Len(s) /\ \A i \in 1..Len(s) : s[i] \in S
  OBVIOUS
<1>2. SubSeq(s, 1, n) = [i \in 1..n |-> s[i]]
  BY <1>1
<1>3. [i \in 1..n |-> s[i]] \in Seq(S)
  BY <1>1
<1> QED
  BY <1>1, <1>2, <1>3

-----------------------------------------------------------------------------
(* Type correctness *)

\* A declaration of the project has a well formed summary.
LEMMA SummaryType ==
  ASSUME NEW d \in Declarations
  PROVE  Summary(d) \in Summaries
PROOF
<1> USE NamesAssumption, ProjectsAssumption DEF Declarations
<1>1. CASE d.name \in Pure \cup Impure \/ d.body = NoBody
  BY <1>1 DEF Summary, EmptySummary, Summaries
<1>2. CASE ~(d.name \in Pure \cup Impure \/ d.body = NoBody)
  <2>1. /\ d.body \in Bodies
        /\ d.body.calls \in SUBSET Names
        /\ d.body.writes \in SUBSET [pointer : Int, index : Int, offset : Int]
        /\ d.body.work \in Nat
    BY <1>2
  <2>2. PointerWritePatterns(d.body) \in SUBSET [pointer : Int, index : Int]
    BY <2>1 DEF PointerWritePatterns
  <2>3. Callees(d.body) \in SUBSET Names
    BY <2>1 DEF Callees
  <2> QED
    BY <1>2, <2>1, <2>2, <2>3 DEF Summary, Summaries, HasGlobalWrites
<1> QED
  BY <1>1, <1>2

\* The number of discovered functions is a number.
LEMMA VisitedFinite == Cardinality(Visited) \in Nat
PROOF
<1>1. Visited \subseteq Names
  BY DEF Visited
<1>2. IsFiniteSet(Visited)
  BY <1>1, NamesAssumption, FS_Subset
<1> QED
  BY <1>2, FS_CardinalityType

\* A new activation of dfsSCC keeps the types.
LEMMA EnterType ==
  ASSUME IndTypeOK, NEW f \in Known, NEW activations,
         activations \in Seq(Activations),
         \A i \in DOMAIN activations : activations[i].node \in Known,
         Enter(f, activations), UNCHANGED summaries_
  PROVE  /\ index' \in [Names -> Int] /\ lowlink' \in [Names -> Int]
         /\ stack' \in Seq(Names)
         /\ frames' \in Seq(Activations)
         /\ NodesKnown'
PROOF
<1>1. f \in Names /\ summaries_[f].callees \in SUBSET Names
  BY DEF IndTypeOK, TypeOK, Summaries
<1>2. index' \in [Names -> Int] /\ lowlink' \in [Names -> Int]
  BY VisitedFinite, <1>1 DEF Enter, IndTypeOK, TypeOK
<1>3. stack' \in Seq(Names)
  BY <1>1 DEF Enter, IndTypeOK, TypeOK
<1>4. frames' \in Seq(Activations)
  <2>1. [node |-> f, left |-> summaries_[f].callees] \in Activations
    BY <1>1 DEF Activations
  <2> QED
    BY <2>1, AppendFacts DEF Enter
<1>5. \A i \in DOMAIN stack' : stack'[i] \in Known
  BY <1>1 DEF Enter, IndTypeOK, TypeOK, NodesKnown
<1>6. \A i \in DOMAIN frames' : frames'[i].node \in Known
  <2>1. frames' = Append(activations, [node |-> f, left |-> summaries_[f].callees])
    BY DEF Enter
  <2>2. [node |-> f, left |-> summaries_[f].callees] \in Activations
    BY <1>1 DEF Activations
  <2>3. \A i \in DOMAIN frames' :
          \/ frames'[i] = [node |-> f, left |-> summaries_[f].callees]
          \/ i \in DOMAIN activations /\ frames'[i] = activations[i]
    BY <2>1, <2>2, AppendFacts
  <2> QED
    BY <2>3
<1>7. Known' = Known
  BY DEF Known
<1> QED
  BY <1>2, <1>3, <1>4, <1>5, <1>6, <1>7 DEF NodesKnown

\* Every step of the analysis keeps the types.
LEMMA TypeStep == IndTypeOK /\ [Next]_vars => IndTypeOK'
PROOF
<1> SUFFICES ASSUME IndTypeOK, [Next]_vars PROVE IndTypeOK'
  OBVIOUS
<1> USE DEF IndTypeOK
<1>1. CASE AnalyzeFunction
  <2> DEFINE d == Head(decls)
  <2>1. d \in Declarations /\ decls' \in Seq(Declarations)
    BY <1>1 DEF AnalyzeFunction, TypeOK
  <2>2. d.name \in Names /\ Summary(d) \in Summaries
    BY <2>1, SummaryType DEF Declarations
  <2> HIDE DEF d
  <2>3. \/ summaries_' = [f \in Known \cup {d.name} |->
                            IF f = d.name THEN Summary(d) ELSE summaries_[f]]
        \/ summaries_' = summaries_
    BY <1>1 DEF AnalyzeFunction, d
  <2>4. /\ Known \subseteq Known' /\ Known' \subseteq Names
        /\ \A f \in Known' : summaries_'[f] \in Summaries
    BY <2>2, <2>3 DEF TypeOK, Known
  <2>5. UNCHANGED <<project, phase, callers, cycleVars, effectVars, rest, changed,
                    passes>>
    BY <1>1 DEF AnalyzeFunction
  <2>6. callers' \in [Names -> SUBSET Known']
    BY <2>4, <2>5 DEF TypeOK
  <2>7. TypeOK'
    BY <2>1, <2>4, <2>5, <2>6 DEF TypeOK, cycleVars, effectVars
  <2>8. NodesKnown'
    BY <2>4, <2>5 DEF NodesKnown, cycleVars
  <2> QED
    BY <2>7, <2>8
<1>2. CASE BuildCallGraphEdges
  <2>1. callers' \in [Names -> SUBSET Known]
    BY <1>2 DEF BuildCallGraphEdges
  <2>2. Known' = Known
    BY <1>2 DEF BuildCallGraphEdges, inputVars, Known
  <2>3. TypeOK'
    BY <1>2, <2>1, <2>2 DEF BuildCallGraphEdges, TypeOK, inputVars, cycleVars,
       effectVars, estimateVars
  <2> QED
    BY <1>2, <2>2, <2>3 DEF BuildCallGraphEdges, NodesKnown, cycleVars
<1>3. CASE VisitRoot
  <2>1. PICK f \in Known : Enter(f, frames)
    BY <1>3 DEF VisitRoot
  <2>2. UNCHANGED <<inputVars, phase, callers, recursive, effectVars, estimateVars>>
    BY <1>3 DEF VisitRoot
  <2>3. UNCHANGED summaries_ /\ Known' = Known
    BY <2>2 DEF inputVars, Known
  <2>4. /\ index' \in [Names -> Int] /\ lowlink' \in [Names -> Int]
        /\ stack' \in Seq(Names)
        /\ frames' \in Seq(Activations)
        /\ NodesKnown'
    BY <2>1, <2>3, EnterType DEF TypeOK, NodesKnown
  <2>5. TypeOK'
    BY <2>2, <2>3, <2>4 DEF TypeOK, inputVars, effectVars, estimateVars
  <2> QED
    BY <2>4, <2>5
<1>4. CASE VisitCallee
  <2>1. PICK g \in Names :
          \/ g \in Known \ Visited /\ Enter(g, Advance(g))
          \/ /\ \E i \in DOMAIN stack : stack[i] = g
             /\ lowlink' = [lowlink EXCEPT ![Top.node] = Min2(@, index[g])]
             /\ frames' = Advance(g)
             /\ UNCHANGED <<index, stack>>
          \/ frames' = Advance(g) /\ UNCHANGED <<index, lowlink, stack>>
    BY <1>4 DEF VisitCallee
  <2>2. UNCHANGED <<inputVars, phase, callers, recursive, effectVars, estimateVars>>
    BY <1>4 DEF VisitCallee
  <2>3. UNCHANGED summaries_ /\ Known' = Known
    BY <2>2 DEF inputVars, Known
  <2>4. frames # << >> /\ Len(frames) \in DOMAIN frames /\ Top \in Activations
    BY <1>4, LastFacts DEF VisitCallee, TypeOK, Top
  <2>5. /\ Advance(g) \in Seq(Activations)
        /\ \A i \in DOMAIN Advance(g) : Advance(g)[i].node \in Known
    <3> DEFINE a == [node |-> Top.node, left |-> Top.left \ {g}]
    <3>1. a \in Activations /\ a.node = Top.node
      BY <2>4 DEF Activations
    <3> HIDE DEF a
    <3>2. Advance(g) = [frames EXCEPT ![Len(frames)] = a]
      BY DEF Advance, a
    <3>3. Advance(g) \in Seq(Activations)
      BY <3>1, <3>2, <2>4, LastFacts DEF TypeOK
    <3>4. \A i \in DOMAIN frames :
            Advance(g)[i] = IF i = Len(frames) THEN a ELSE frames[i]
      BY <3>2
    <3>5. DOMAIN Advance(g) = DOMAIN frames
      BY <3>2
    <3>6. Top.node \in Known
      BY <2>4 DEF Top, NodesKnown
    <3> QED
      BY <3>1, <3>3, <3>4, <3>5, <3>6 DEF NodesKnown
  <2>6. Top.node \in Names
    BY <2>4 DEF Activations
  <2>7. /\ index' \in [Names -> Int] /\ lowlink' \in [Names -> Int]
        /\ stack' \in Seq(Names)
        /\ frames' \in Seq(Activations)
        /\ NodesKnown'
    <3>1. CASE g \in Known \ Visited /\ Enter(g, Advance(g))
      BY <3>1, <2>3, <2>5, EnterType
    <3>2. CASE /\ lowlink' = [lowlink EXCEPT ![Top.node] = Min2(@, index[g])]
               /\ frames' = Advance(g)
               /\ UNCHANGED <<index, stack>>
      <4>1. lowlink' \in [Names -> Int]
        BY <3>2, <2>6 DEF TypeOK, Min2
      <4> QED
        BY <4>1, <3>2, <2>3, <2>5 DEF TypeOK, NodesKnown
    <3>3. CASE frames' = Advance(g) /\ UNCHANGED <<index, lowlink, stack>>
      BY <3>3, <2>3, <2>5 DEF TypeOK, NodesKnown
    <3> QED
      BY <2>1, <3>1, <3>2, <3>3
  <2>8. TypeOK'
    BY <2>2, <2>3, <2>7 DEF TypeOK, inputVars, effectVars, estimateVars
  <2> QED
    BY <2>7, <2>8
<1>5. CASE Leave
  <2>1. UNCHANGED <<inputVars, phase, callers, index, effectVars, estimateVars>>
    BY <1>5 DEF Leave
  <2>2. Known' = Known
    BY <2>1 DEF inputVars, Known
  <2>3. /\ frames # << >> /\ Len(frames) \in DOMAIN frames
        /\ Len(frames) - 1 \in Nat /\ Top \in Activations
    BY <1>5, LastFacts DEF Leave, TypeOK, Top
  <2>4. Top.node \in Names
    BY <2>3 DEF Activations
  <2>5. /\ frames' \in Seq(Activations)
        /\ \A i \in DOMAIN frames' : frames'[i].node \in Known
    <3>1. frames' = SubSeq(frames, 1, Len(frames) - 1)
      BY <1>5 DEF Leave
    <3>2. Len(frames) - 1 <= Len(frames)
      BY DEF TypeOK
    <3>3. /\ frames' \in Seq(Activations)
          /\ \A i \in DOMAIN frames' : i \in DOMAIN frames /\ frames'[i] = frames[i]
      BY <3>1, <3>2, <2>3, PrefixFacts DEF TypeOK
    <3> QED
      BY <3>3 DEF NodesKnown
  <2>6. lowlink' \in [Names -> Int]
    <3>1. CASE Len(frames) - 1 = 0
      BY <1>5, <3>1 DEF Leave, TypeOK
    <3>2. CASE Len(frames) - 1 # 0
      <4>1. Len(frames) - 1 \in DOMAIN frames /\ frames[Len(frames) - 1] \in Activations
        <5>1. Len(frames) \in Nat /\ DOMAIN frames = 1..Len(frames)
          BY DEF TypeOK
        <5>2. Len(frames) - 1 \in DOMAIN frames
          BY <2>3, <3>2, <5>1
        <5> QED
          BY <5>2 DEF TypeOK
      <4>2. frames[Len(frames) - 1].node \in Names
        BY <4>1 DEF Activations
      <4> QED
        BY <1>5, <2>4, <3>2, <4>2 DEF Leave, TypeOK, Min2
    <3> QED
      BY <3>1, <3>2
  <2>7. /\ stack' \in Seq(Names) /\ recursive' \subseteq Known
        /\ \A i \in DOMAIN stack' : stack'[i] \in Known
    <3>1. CASE UNCHANGED <<stack, recursive>>
      BY <3>1 DEF TypeOK, NodesKnown
    <3>2. CASE ~UNCHANGED <<stack, recursive>>
      <4>1. PICK i \in DOMAIN stack :
              /\ stack' = SubSeq(stack, 1, i - 1)
              /\ \/ recursive' = recursive \cup {stack[j] : j \in i..Len(stack)}
                 \/ recursive' = recursive
        BY <1>5, <3>2 DEF Leave
      <4>2. \A j \in i..Len(stack) : j \in DOMAIN stack /\ stack[j] \in Known
        BY DEF TypeOK, NodesKnown
      <4>3. recursive' \subseteq Known
        BY <4>1, <4>2 DEF TypeOK
      <4>4. i - 1 \in Nat /\ i - 1 <= Len(stack)
        BY DEF TypeOK
      <4>5. /\ stack' \in Seq(Names)
            /\ \A k \in DOMAIN stack' : stack'[k] \in Known
        <5>1. /\ stack' \in Seq(Names)
              /\ \A k \in DOMAIN stack' : k \in DOMAIN stack /\ stack'[k] = stack[k]
          BY <4>1, <4>4, PrefixFacts DEF TypeOK
        <5> QED
          BY <5>1 DEF NodesKnown
      <4> QED
        BY <4>3, <4>5
    <3> QED
      BY <3>1, <3>2
  <2>8. TypeOK'
    BY <2>1, <2>2, <2>5, <2>6, <2>7 DEF TypeOK, inputVars, effectVars, estimateVars
  <2> QED
    BY <2>2, <2>5, <2>7, <2>8 DEF NodesKnown
<1>6. CASE \/ StartPropagation \/ PropagateSideEffects \/ StartEstimates
           \/ Estimate \/ EndPass
  <2>1. UNCHANGED <<inputVars, callers, cycleVars>>
    BY <1>6 DEF StartPropagation, PropagateSideEffects, StartEstimates, Estimate,
       EndPass
  <2>2. Known' = Known
    BY <2>1 DEF inputVars, Known
  <2>3. phase' \in {"analyze", "cycles", "propagate", "estimate", "done"}
    BY <1>6 DEF StartPropagation, PropagateSideEffects, StartEstimates, Estimate,
       EndPass, TypeOK
  <2>4. transitive' \subseteq Known /\ worklist' \subseteq Known
    BY <1>6 DEF StartPropagation, PropagateSideEffects, StartEstimates, Estimate,
       EndPass, TypeOK, LocallyUnsafe, effectVars
  <2>5. rest' \subseteq Known /\ passes' \in Nat
    BY <1>6 DEF StartPropagation, PropagateSideEffects, StartEstimates, Estimate,
       EndPass, TypeOK, estimateVars
  <2>6. changed' \in BOOLEAN
    BY <1>6 DEF StartPropagation, PropagateSideEffects, StartEstimates, Estimate,
       EndPass, TypeOK, estimateVars
  <2>7. TypeOK'
    BY <2>1, <2>2, <2>3, <2>4, <2>5, <2>6 DEF TypeOK, inputVars, cycleVars
  <2> QED
    BY <2>1, <2>2, <2>7 DEF NodesKnown, cycleVars
<1>7. CASE UNCHANGED vars
  <2>1. Known' = Known
    BY <1>7 DEF vars, inputVars, Known
  <2> QED
    BY <1>7, <2>1 DEF vars, inputVars, cycleVars, effectVars, estimateVars, TypeOK,
       NodesKnown
<1> QED
  BY <1>1, <1>2, <1>3, <1>4, <1>5, <1>6, <1>7 DEF Next, Done

\* The strengthened type invariant holds throughout analyzeProject.
LEMMA IndTypeHolds == Spec => []IndTypeOK
PROOF
<1>1. Init => IndTypeOK
  <2> SUFFICES ASSUME Init PROVE IndTypeOK
    OBVIOUS
  <2>1. Known = {}
    BY DEF Init, Known
  <2>2. TypeOK
    <3>1. project \in Seq(Declarations) /\ decls \in Seq(Declarations)
      BY ProjectsAssumption DEF Init
    <3>2. stack \in Seq(Names) /\ frames \in Seq(Activations)
      BY DEF Init
    <3>3. callers \in [Names -> SUBSET Known]
      BY DEF Init
    <3>4. index \in [Names -> Int] /\ lowlink \in [Names -> Int]
      BY DEF Init, Unvisited
    <3> QED
      BY <2>1, <3>1, <3>2, <3>3, <3>4 DEF Init, TypeOK
  <2> QED
    BY <2>2 DEF Init, IndTypeOK, NodesKnown
<1> QED
  BY <1>1, TypeStep, PTL DEF Spec

\* Every variable of the analysis keeps its type, for any project; the stacks
\* of dfsSCC hold only functions that have summaries.
THEOREM TypeCorrect == Spec => []TypeOK
PROOF
<1>1. IndTypeOK => TypeOK
  BY DEF IndTypeOK
<1> QED
  BY <1>1, IndTypeHolds, PTL

-----------------------------------------------------------------------------
(* Declarations in any order *)

\* Declaration i is the first definition of its name.
FirstDefinition(i) ==
  /\ project[i].body # NoBody
  /\ \A j \in 1..(i-1) : project[j].name = project[i].name => project[j].body = NoBody

\* Declarations that analyzeFunction has seen.
Seen == Len(project) - Len(decls)

\* The summaries stand for the declarations seen so far.
DeclInv ==
  /\ Seen \in Nat
  /\ phase # "analyze" => decls = << >>
  /\ \A k \in 1..Len(decls) : decls[k] = project[Seen + k]
  /\ \A f \in Known : summaries_[f].hasDefinition =>
       \E j \in 1..Seen : project[j].name = f /\ project[j].body # NoBody
  /\ \A i \in 1..Seen : FirstDefinition(i) =>
       project[i].name \in Known /\ summaries_[project[i].name] = Summary(project[i])

\* A summary has a definition exactly if its declaration has one.
LEMMA SummaryDefinition ==
  ASSUME NEW d
  PROVE  Summary(d).hasDefinition <=> d.body # NoBody
PROOF
BY DEF Summary, EmptySummary

\* The next declaration is either passed over, because the name has a
\* definition, or its summary replaces what was known.
LEMMA DeclStep == TypeOK /\ DeclInv /\ [Next]_vars => DeclInv'
PROOF
<1> SUFFICES ASSUME TypeOK, DeclInv, [Next]_vars PROVE DeclInv'
  OBVIOUS
<1>1. CASE AnalyzeFunction
  <2> DEFINE d == Head(decls)
             n == Seen
  <2>1. /\ decls # << >> /\ phase = "analyze" /\ phase' = phase
        /\ project' = project /\ decls' = Tail(decls)
    BY <1>1 DEF AnalyzeFunction
  <2>2. /\ Len(project) \in Nat /\ Len(decls) \in Nat /\ Len(decls) # 0
        /\ Len(decls') = Len(decls) - 1
        /\ \A k \in 1..Len(decls') : decls'[k] = decls[k + 1]
        /\ d = decls[1]
    BY <2>1 DEF TypeOK
  <2>3. n \in Nat /\ Seen' = n + 1 /\ d = project[n + 1]
    BY <2>1, <2>2 DEF DeclInv, Seen
  <2>4. \A k \in 1..Len(decls') : decls'[k] = project'[Seen' + k]
    BY <2>1, <2>2, <2>3 DEF DeclInv
  <2>5. \/ /\ Supersedes(d)
           /\ summaries_' = [f \in Known \cup {d.name} |->
                               IF f = d.name THEN Summary(d) ELSE summaries_[f]]
        \/ ~Supersedes(d) /\ summaries_' = summaries_
    BY <1>1 DEF AnalyzeFunction
  <2> HIDE DEF d, n
  <2>6. n = Seen
    BY DEF n
  <2>8. \A f \in Known' : summaries_'[f].hasDefinition =>
          \E j \in 1..(n + 1) : project[j].name = f /\ project[j].body # NoBody
    <3> SUFFICES ASSUME NEW f \in Known', summaries_'[f].hasDefinition
                 PROVE  \E j \in 1..(n + 1) :
                          project[j].name = f /\ project[j].body # NoBody
      OBVIOUS
    <3>1. CASE f = d.name /\ Supersedes(d)
      <4>1. summaries_'[f] = Summary(d)
        BY <2>5, <3>1 DEF Known
      <4>2. d.body # NoBody
        BY <4>1, SummaryDefinition
      <4> QED
        BY <2>3, <3>1, <4>2
    <3>2. CASE ~(f = d.name /\ Supersedes(d))
      <4>1. f \in Known /\ summaries_'[f] = summaries_[f]
        BY <2>5, <3>2 DEF Known
      <4>2. \E j \in 1..n : project[j].name = f /\ project[j].body # NoBody
        BY <4>1, <2>6 DEF DeclInv
      <4> QED
        BY <4>2, <2>3
    <3> QED
      BY <3>1, <3>2
  <2>9. ASSUME NEW i \in 1..(n + 1), FirstDefinition(i)
        PROVE  /\ project[i].name \in Known'
               /\ summaries_'[project[i].name] = Summary(project[i])
    <3>1. CASE i \in 1..n
      <4>1. /\ project[i].name \in Known
            /\ summaries_[project[i].name] = Summary(project[i])
        BY <2>6, <2>9, <3>1 DEF DeclInv
      <4>2. summaries_[project[i].name].hasDefinition
        BY <4>1, <2>9, SummaryDefinition DEF FirstDefinition
      <4>3. ~(d.name = project[i].name /\ Supersedes(d))
        BY <4>1, <4>2 DEF Supersedes
      <4> QED
        BY <2>5, <4>1, <4>3 DEF Known
    <3>2. CASE i = n + 1
      <4>1. project[i] = d
        BY <2>3, <3>2
      <4>2. Supersedes(d)
        <5>1. SUFFICES ASSUME d.name \in Known, summaries_[d.name].hasDefinition
                       PROVE  FALSE
          BY DEF Supersedes
        <5>2. PICK j \in 1..n : project[j].name = d.name /\ project[j].body # NoBody
          BY <5>1, <2>6 DEF DeclInv
        <5>3. j \in 1..(i - 1)
          BY <3>2, <2>3
        <5> QED
          BY <2>9, <4>1, <5>2, <5>3 DEF FirstDefinition
      <4> QED
        BY <2>5, <4>1, <4>2 DEF Known
    <3> QED
      BY <3>1, <3>2, <2>3
  <2>10. \A i \in 1..(n + 1) : FirstDefinition(i)' = FirstDefinition(i)
    BY <2>1 DEF FirstDefinition
  <2>11. \A i \in 1..(n + 1) : Summary(project[i])' = Summary(project[i])
    BY <2>1 DEF Summary, EmptySummary, HasGlobalWrites, PointerWritePatterns, Callees
  <2> QED
    BY <2>1, <2>3, <2>4, <2>8, <2>9, <2>10, <2>11 DEF DeclInv
<1>2. CASE UNCHANGED inputVars /\ (phase' = "analyze" => phase = "analyze")
           /\ (phase' # "analyze" => decls = << >>)
  <2>1. project' = project /\ decls' = decls /\ summaries_' = summaries_
    BY <1>2 DEF inputVars
  <2> QED
    BY <1>2, <2>1 DEF DeclInv, Seen, FirstDefinition, Known, Summary, EmptySummary,
       HasGlobalWrites, PointerWritePatterns, Callees
<1>3. CASE BuildCallGraphEdges
  BY <1>2, <1>3 DEF BuildCallGraphEdges
<1>4. CASE \/ VisitRoot \/ VisitCallee \/ Leave \/ StartPropagation
           \/ PropagateSideEffects \/ StartEstimates \/ Estimate \/ EndPass
  <2>1. UNCHANGED inputVars /\ phase # "analyze" /\ phase' # "analyze"
    BY <1>4 DEF VisitRoot, VisitCallee, Leave, StartPropagation,
       PropagateSideEffects, StartEstimates, Estimate, EndPass
  <2> QED
    BY <1>2, <2>1 DEF DeclInv
<1>5. CASE UNCHANGED vars
  BY <1>2, <1>5 DEF vars, DeclInv
<1> QED
  BY <1>1, <1>3, <1>4, <1>5 DEF Next, Done

\* For every project, the summary of a name is that of its first definition
\* once analyzeProject has seen all declarations.
THEOREM FirstDefinitionCorrect == Spec => []FirstDefinitionDecides
PROOF
<1>1. Init => DeclInv
  <2> SUFFICES ASSUME Init PROVE DeclInv
    OBVIOUS
  <2>1. project \in Seq(Declarations) /\ decls = project
    BY ProjectsAssumption DEF Init
  <2>2. Len(project) \in Nat /\ Seen = 0 /\ Known = {}
    BY <2>1 DEF Seen, Init, Known
  <2> QED
    BY <2>1, <2>2 DEF DeclInv, Init
<1>2. TypeOK /\ DeclInv => FirstDefinitionDecides
  <2> SUFFICES ASSUME TypeOK, DeclInv, Analyzed,
                      NEW i \in DOMAIN project, FirstDefinition(i)
               PROVE  summaries_[project[i].name] = Summary(project[i])
    BY DEF FirstDefinitionDecides, FirstDefinition
  <2>1. Seen = Len(project) /\ DOMAIN project = 1..Len(project)
    BY DEF TypeOK, DeclInv, Analyzed, Seen
  <2> QED
    BY <2>1 DEF DeclInv
<1> QED
  BY <1>1, <1>2, DeclStep, TypeCorrect, PTL DEF Spec

-----------------------------------------------------------------------------
(* Side effects go up to the callers *)

\* A reason for f to be unsafe.
Bad(f) == f \in LocallyUnsafe
            \/ Reaches(f) \cap (LocallyUnsafe \cup recursive) # {}

\* callers is the inverse of callees.
CallersInv ==
  phase # "analyze" =>
    \A f, g \in Known : g \in callers[f] <=> f \in summaries_[g].callees

\* While the worklist is worked off: marked functions have a reason, and the
\* callers of a marked or recursive function are marked once it has left the
\* worklist.
WorkInv ==
  phase = "propagate" =>
    /\ LocallyUnsafe \subseteq transitive
    /\ \A f \in transitive : Bad(f)
    /\ worklist \subseteq transitive \cup recursive
    /\ \A f \in (transitive \cup recursive) \ worklist : callers[f] \subseteq transitive

EffectInv == CallersInv /\ WorkInv /\ SideEffectsReachCallers

\* A caller reaches the function it calls and all that this function reaches.
LEMMA CallerReaches ==
  ASSUME NEW f \in Known, NEW g \in Known, f \in summaries_[g].callees
  PROVE  f \in Reaches(g) /\ Reaches(f) \subseteq Reaches(g)
PROOF
BY DEF Reaches, Calls

\* Hence a caller has a reason to be unsafe if the function it calls has one
\* or is recursive.
LEMMA CallerBad ==
  ASSUME NEW f \in Known, NEW g \in Known, f \in summaries_[g].callees,
         Bad(f) \/ f \in recursive
  PROVE  Bad(g)
PROOF
BY CallerReaches DEF Bad

\* What depends on the summaries alone does not change after phase 1.
LEMMA SameSummaries ==
  ASSUME UNCHANGED summaries_
  PROVE  /\ Known' = Known /\ LocallyUnsafe' = LocallyUnsafe
         /\ \A f : Reaches(f)' = Reaches(f)
PROOF
<1>1. Known' = Known
  BY DEF Known
<1>2. LocallyUnsafe' = LocallyUnsafe
  BY <1>1 DEF LocallyUnsafe, HasUnanalyzablePointerWrites
<1>3. ASSUME NEW f PROVE Reaches(f)' = Reaches(f)
  BY <1>1 DEF Reaches, Calls
<1> QED
  BY <1>1, <1>2, <1>3

\* With an empty worklist exactly the functions that have a reason are marked:
\* the functions that are neither marked nor recursive call only each other.
LEMMA WorklistDone ==
  ASSUME TypeOK, CallersInv, WorkInv, phase = "propagate", worklist = {}
  PROVE  transitive = {f \in Known : Bad(f)}
PROOF
<1> DEFINE S == Known \ (transitive \cup recursive)
<1>1. \A h \in Known \ transitive : Calls(h) \subseteq S
  <2> SUFFICES ASSUME NEW h \in Known \ transitive, NEW c \in Calls(h)
               PROVE  c \notin transitive \cup recursive
    BY DEF Calls
  <2>1. c \in Known /\ h \in callers[c]
    BY DEF Calls, CallersInv
  <2> QED
    BY <2>1 DEF WorkInv
<1>2. ASSUME NEW f \in Known, f \notin transitive PROVE ~Bad(f)
  <2>1. Calls(f) \subseteq S /\ \A h \in S : Calls(h) \subseteq S
    BY <1>1, <1>2
  <2>2. Reaches(f) \subseteq S
    BY <2>1 DEF Reaches
  <2> QED
    BY <1>2, <2>2 DEF Bad, WorkInv
<1> QED
  BY <1>2 DEF WorkInv, TypeOK

\* Every step keeps the invariant of the propagation.
LEMMA EffectStep == TypeOK /\ TypeOK' /\ EffectInv /\ [Next]_vars => EffectInv'
PROOF
<1> SUFFICES ASSUME TypeOK, TypeOK', EffectInv, [Next]_vars PROVE EffectInv'
  OBVIOUS
<1>1. CASE AnalyzeFunction
  <2>1. phase' = "analyze"
    BY <1>1 DEF AnalyzeFunction
  <2> QED
    BY <2>1 DEF EffectInv, CallersInv, WorkInv, SideEffectsReachCallers
<1>2. CASE BuildCallGraphEdges
  <2>1. phase' = "cycles" /\ Known' = Known /\ summaries_' = summaries_
    BY <1>2 DEF BuildCallGraphEdges, inputVars, Known
  <2>2. \A f \in Known : callers'[f] = {g \in Known : f \in summaries_[g].callees}
    BY <1>2 DEF BuildCallGraphEdges, TypeOK
  <2>3. CallersInv'
    BY <2>1, <2>2 DEF CallersInv
  <2> QED
    BY <2>1, <2>3 DEF EffectInv, WorkInv, SideEffectsReachCallers
<1>3. CASE VisitRoot \/ VisitCallee \/ Leave
  <2>1. phase = "cycles" /\ phase' = phase /\ callers' = callers
        /\ summaries_' = summaries_
    BY <1>3 DEF VisitRoot, VisitCallee, Leave, inputVars
  <2>2. CallersInv'
    BY <2>1, SameSummaries DEF EffectInv, CallersInv
  <2> QED
    BY <2>1, <2>2 DEF EffectInv, WorkInv, SideEffectsReachCallers
<1>4. CASE \/ StartPropagation \/ PropagateSideEffects \/ StartEstimates
           \/ Estimate \/ EndPass \/ UNCHANGED vars
  <2>1. /\ summaries_' = summaries_ /\ callers' = callers /\ recursive' = recursive
        /\ phase' = "analyze" => phase = "analyze"
        /\ phase = "analyze" => phase' = "analyze"
    BY <1>4 DEF StartPropagation, PropagateSideEffects, StartEstimates, Estimate,
       EndPass, vars, inputVars, cycleVars
  <2>2. /\ Known' = Known /\ LocallyUnsafe' = LocallyUnsafe
        /\ \A f : Reaches(f)' = Reaches(f)
    BY <2>1, SameSummaries
  <2>3. \A f : Bad(f)' <=> Bad(f)
    BY <2>1, <2>2 DEF Bad
  <2>4. CallersInv'
    BY <2>1, <2>2 DEF EffectInv, CallersInv
  <2>5. CASE StartPropagation
    <3>1. /\ phase' = "propagate" /\ transitive' = LocallyUnsafe
          /\ worklist' = LocallyUnsafe \cup (recursive \cap Known)
      BY <2>5 DEF StartPropagation
    <3>2. \A f \in transitive' : Bad(f)
      BY <3>1 DEF Bad
    <3>3. recursive \subseteq Known
      BY DEF TypeOK
    <3>4. WorkInv'
      BY <2>1, <2>2, <2>3, <3>1, <3>2, <3>3 DEF WorkInv
    <3> QED
      BY <2>4, <3>1, <3>4 DEF EffectInv, SideEffectsReachCallers
  <2>6. CASE PropagateSideEffects
    <3>1. PICK f \in worklist :
            /\ transitive' = transitive \cup callers[f]
            /\ worklist' = (worklist \ {f}) \cup (callers[f] \ transitive)
      BY <2>6 DEF PropagateSideEffects
    <3>2. phase = "propagate" /\ phase' = "propagate"
      BY <2>6 DEF PropagateSideEffects
    <3>3. f \in Known /\ callers[f] \subseteq Known /\ transitive \subseteq Known
      BY DEF TypeOK
    <3>4. f \in transitive \cup recursive
      BY <3>2 DEF EffectInv, WorkInv
    <3>5. Bad(f) \/ f \in recursive
      BY <3>2, <3>4 DEF EffectInv, WorkInv
    <3>6. \A g \in callers[f] : Bad(g)
      <4> SUFFICES ASSUME NEW g \in callers[f] PROVE Bad(g)
        OBVIOUS
      <4>1. g \in Known /\ f \in summaries_[g].callees
        BY <3>2, <3>3 DEF EffectInv, CallersInv
      <4> QED
        BY <3>3, <3>5, <4>1, CallerBad
    <3>7. \A g \in transitive' : Bad(g)
      BY <3>1, <3>2, <3>6 DEF EffectInv, WorkInv
    <3>8. LocallyUnsafe \subseteq transitive'
      BY <3>1, <3>2 DEF EffectInv, WorkInv
    <3>9. worklist' \subseteq transitive' \cup recursive
      BY <3>1, <3>2 DEF EffectInv, WorkInv
    <3>10. \A g \in (transitive' \cup recursive) \ worklist' :
             callers[g] \subseteq transitive'
      <4> SUFFICES ASSUME NEW g \in (transitive' \cup recursive) \ worklist'
                   PROVE  callers[g] \subseteq transitive'
        OBVIOUS
      <4>1. CASE g = f
        BY <3>1, <4>1
      <4>2. CASE g # f
        <5>1. g \in (transitive \cup recursive) \ worklist
          BY <3>1, <4>2
        <5> QED
          BY <3>1, <3>2, <5>1 DEF EffectInv, WorkInv
      <4> QED
        BY <4>1, <4>2
    <3>11. WorkInv'
      BY <2>1, <2>2, <2>3, <3>7, <3>8, <3>9, <3>10 DEF WorkInv
    <3> QED
      BY <2>4, <3>2, <3>11 DEF EffectInv, SideEffectsReachCallers
  <2>7. CASE StartEstimates
    <3>1. /\ phase = "propagate" /\ phase' = "estimate" /\ worklist = {}
          /\ transitive' = transitive
      BY <2>7 DEF StartEstimates, effectVars
    <3>2. transitive = {f \in Known : Bad(f)}
      BY <3>1, WorklistDone DEF EffectInv
    <3>3. SideEffectsReachCallers'
      BY <2>1, <2>2, <3>1, <3>2 DEF SideEffectsReachCallers, Bad
    <3> QED
      BY <2>4, <3>1, <3>3 DEF EffectInv, WorkInv
  <2>8. CASE Estimate \/ EndPass
    <3>1. /\ phase = "estimate" /\ phase' \in {"estimate", "done"}
          /\ transitive' = transitive
      BY <2>8 DEF Estimate, EndPass, effectVars
    <3>2. SideEffectsReachCallers'
      BY <2>1, <2>2, <3>1 DEF EffectInv, SideEffectsReachCallers
    <3> QED
      BY <2>4, <3>1, <3>2 DEF EffectInv, WorkInv
  <2>9. CASE UNCHANGED vars
    <3>1. phase' = phase /\ transitive' = transitive /\ worklist' = worklist
      BY <2>9 DEF vars, effectVars
    <3>2. WorkInv'
      BY <2>1, <2>2, <2>3, <3>1 DEF EffectInv, WorkInv
    <3>3. SideEffectsReachCallers'
      BY <2>1, <2>2, <3>1 DEF EffectInv, SideEffectsReachCallers
    <3> QED
      BY <2>4, <3>2, <3>3 DEF EffectInv
  <2> QED
    BY <1>4, <2>5, <2>6, <2>7, <2>8, <2>9
<1> QED
  BY <1>1, <1>2, <1>3, <1>4 DEF Next, Done

\* The invariant of the propagation holds throughout analyzeProject.
LEMMA EffectInvHolds == Spec => []EffectInv
PROOF
<1>1. Init => EffectInv
  BY DEF Init, EffectInv, CallersInv, WorkInv, SideEffectsReachCallers
<1> QED
  BY <1>1, EffectStep, TypeCorrect, PTL DEF Spec

\* For any call graph, propagateSideEffects ends with exactly the functions
\* marked that are unsafe or reach an unsafe or recursive function.
THEOREM SideEffectsCorrect == Spec => []SideEffectsReachCallers
PROOF
<1>1. EffectInv => SideEffectsReachCallers
  BY DEF EffectInv
<1> QED
  BY <1>1, EffectInvHolds, PTL

\* For any call graph, isSafeForParallelLoop accepts a call only if nothing it
\* reaches has an effect that the analysis tracks.
THEOREM SafeCorrect == Spec => []SafeHasNoKnownEffects
PROOF
<1>1. SideEffectsReachCallers => SafeHasNoKnownEffects
  BY DEF SideEffectsReachCallers, SafeHasNoKnownEffects, IsSafeForParallelLoop
<1> QED
  BY <1>1, SideEffectsCorrect, PTL

\* For any call graph, isFunctionSafe and isSafeForParallelLoop without a loop
\* variable give the same verdict, although only one of them tests
\* hasGlobalWrites.
THEOREM VerdictsCorrect == Spec => []VerdictsAgree
PROOF
<1>1. TypeOK /\ SideEffectsReachCallers => VerdictsAgree
  <2> SUFFICES ASSUME TypeOK, SideEffectsReachCallers, phase = "done",
                      NEW f \in Names, NEW baseline \in BOOLEAN
               PROVE  IsFunctionSafe(f) = IsSafeForParallelLoop(f, {}, FALSE, baseline)
    BY DEF VerdictsAgree
  <2>1. f \in Known /\ f \notin transitive => f \notin LocallyUnsafe
    BY DEF SideEffectsReachCallers
  <2>2. f \in Known /\ f \notin transitive => ~summaries_[f].hasGlobalWrites
    BY <2>1 DEF LocallyUnsafe
  <2>3. IsFunctionSafe(f) <=> IsSafeForParallelLoop(f, {}, FALSE, baseline)
    BY <2>2 DEF IsFunctionSafe, IsSafeForParallelLoop
  <2> QED
    BY <2>3 DEF IsFunctionSafe, IsSafeForParallelLoop
<1> QED
  BY <1>1, SideEffectsCorrect, TypeCorrect, PTL

-----------------------------------------------------------------------------
(***************************************************************************)
(* Cycles: dfsSCC marks exactly the functions that can call themselves.    *)
(*                                                                         *)
(* A function is complete once it has left the stack.  The stack falls     *)
(* into segments, one for each activation: the activation's function and   *)
(* the functions after it up to the next activation's.  dfsSCC relies on   *)
(* three facts about them: the functions of a segment call one another,    *)
(* directly or not; lowlink is a lower bound for every call from a segment *)
(* back into the stack; and it is the index of a function that is reached. *)
(***************************************************************************)

OnStack == {stack[i] : i \in DOMAIN stack}

Complete == Visited \ OnStack

Node(k) == frames[k].node

\* The callees of v that v's activation, if it has one, has dealt with.
Dealt(v) ==
  {g \in Calls(v) :
     \A k \in DOMAIN frames : Node(k) = v => g \notin frames[k].left}

Segment(k) ==
  {v \in OnStack :
     /\ index[Node(k)] <= index[v]
     /\ \A m \in DOMAIN frames : k < m => index[v] < index[Node(m)]}

\* Functions are numbered in the order of their discovery.
Numbered ==
  /\ Visited \subseteq Known
  /\ \A f \in Visited : index[f] \in Nat /\ index[f] < Cardinality(Visited)
  /\ \A f, g \in Visited : index[f] = index[g] => f = g

\* The stack is in that order.
StackOrdered ==
  /\ OnStack \subseteq Visited
  /\ \A i, j \in DOMAIN stack : i < j => index[stack[i]] < index[stack[j]]

\* So are the activations, each of which was reached from the ones before,
\* and the first of which is the first of the stack.
FramesOrdered ==
  /\ \A k \in DOMAIN frames : /\ Node(k) \in OnStack
                               /\ frames[k].left \subseteq summaries_[Node(k)].callees
  /\ \A j, k \in DOMAIN frames : j < k => /\ index[Node(j)] < index[Node(k)]
                                          /\ Node(k) \in Reaches(Node(j))
  /\ \A v \in OnStack : frames # << >> /\ index[Node(1)] <= index[v]

\* A callee that was dealt with was visited.
DealtVisited == \A v \in Visited : Dealt(v) \subseteq Visited

\* Nothing leads out of the functions that are complete.
CompleteClosed == \A v \in Complete : Calls(v) \subseteq Complete

\* The link of an activation bounds the calls from its segment into the
\* stack, and is the index of a function on the stack that it reaches.
Links ==
  \A k \in DOMAIN frames :
    /\ lowlink[Node(k)] <= index[Node(k)]
    /\ \A v \in Segment(k) : \A w \in Dealt(v) \cap OnStack :
         lowlink[Node(k)] <= index[w]
    /\ \E u \in OnStack : /\ index[u] = lowlink[Node(k)]
                          /\ u = Node(k) \/ u \in Reaches(Node(k))

\* A segment is strongly connected.
Segments ==
  \A k \in DOMAIN frames : \A v \in Segment(k) :
    v = Node(k) \/ (v \in Reaches(Node(k)) /\ Node(k) \in Reaches(v))

\* The complete functions are marked as they should be.
Marked ==
  /\ recursive \subseteq Complete
  /\ \A f \in Complete : f \in recursive <=> f \in Reaches(f)

DfsInv ==
  /\ Numbered /\ StackOrdered /\ FramesOrdered
  /\ DealtVisited /\ CompleteClosed
  /\ Links /\ Segments /\ Marked

\* Before the search nothing was visited, and after it the marks are right.
CycleInv ==
  /\ phase = "analyze" =>
       Visited = {} /\ stack = << >> /\ frames = << >> /\ recursive = {}
  /\ phase = "cycles" => DfsInv
  /\ CyclesFound

\* Reaching is calling any number of times, at least once.
LEMMA ReachesCalls == \A f : Calls(f) \subseteq Reaches(f)
PROOF
BY DEF Reaches, Calls

\* It is transitive.
LEMMA ReachesTransitive ==
  \A f, g, h : g \in Reaches(f) /\ h \in Reaches(g) => h \in Reaches(f)
PROOF
BY DEF Reaches

\* What f reaches lies in any set that is closed under calls and holds the
\* functions that f calls.
LEMMA ReachesLeast ==
  ASSUME NEW f, NEW S \in SUBSET Known, Calls(f) \subseteq S,
         \A h \in S : Calls(h) \subseteq S
  PROVE  Reaches(f) \subseteq S
PROOF
BY DEF Reaches

\* The call graph does not change during the search.
LEMMA SameGraph ==
  ASSUME UNCHANGED summaries_
  PROVE  /\ Known' = Known
         /\ \A f : Reaches(f)' = Reaches(f)
         /\ \A f : Calls(f)' = Calls(f)
PROOF
<1>1. Known' = Known
  BY DEF Known
<1>2. \A f : Calls(f)' = Calls(f)
  BY <1>1 DEF Calls
<1> QED
  BY <1>1, <1>2, SameSummaries

\* The stacks as functions on an initial part of the numbers.
LEMMA StackTypes ==
  ASSUME IndTypeOK, DfsInv
  PROVE  /\ Len(stack) \in Nat /\ DOMAIN stack = 1..Len(stack)
         /\ Len(frames) \in Nat /\ DOMAIN frames = 1..Len(frames)
         /\ \A i \in DOMAIN stack : stack[i] \in OnStack
         /\ \A v \in OnStack : v \in Visited /\ v \in Known /\ v \in Names
         /\ \A v \in Visited : v \in Known /\ v \in Names
         /\ \A f \in Names : index[f] \in Int /\ lowlink[f] \in Int
         /\ \A k \in DOMAIN frames : Node(k) \in OnStack
PROOF
<1>1. /\ Len(stack) \in Nat /\ DOMAIN stack = 1..Len(stack)
      /\ Len(frames) \in Nat /\ DOMAIN frames = 1..Len(frames)
  BY DEF IndTypeOK, TypeOK
<1>2. \A i \in DOMAIN stack : stack[i] \in OnStack
  BY DEF OnStack
<1>3. OnStack \subseteq Visited /\ Visited \subseteq Known /\ Known \subseteq Names
  BY DEF DfsInv, StackOrdered, Numbered, IndTypeOK, TypeOK
<1>4. \A f \in Names : index[f] \in Int /\ lowlink[f] \in Int
  BY DEF IndTypeOK, TypeOK
<1> QED
  BY <1>1, <1>2, <1>3, <1>4 DEF DfsInv, FramesOrdered

\* A new activation keeps the invariant: the new function comes last, its
\* segment is itself, and no call of its was dealt with.
LEMMA EnterKeeps ==
  ASSUME IndTypeOK, DfsInv, UNCHANGED <<summaries_, recursive>>,
         NEW g \in Known \ Visited, NEW acts \in Seq(Activations), Enter(g, acts),
         Len(acts) = Len(frames),
         \A k \in DOMAIN frames :
           /\ acts[k].node = Node(k)
           /\ acts[k].left \subseteq frames[k].left
           /\ frames[k].left \subseteq acts[k].left \cup {g}
           /\ g \in Reaches(Node(k))
  PROVE  DfsInv'
PROOF
<1>0. IsFiniteSet(Visited)
  BY NamesAssumption, FS_Subset DEF Visited
<1>1. PICK N \in Nat : N = Cardinality(Visited)
  BY <1>0, FS_CardinalityType
<1>2a. PICK n \in Nat : n = Len(frames)
  BY StackTypes
<1>2b. PICK a : a = [node |-> g, left |-> summaries_[g].callees]
  OBVIOUS
<1>2. /\ n \in Nat /\ DOMAIN frames = 1..n
      /\ Len(stack) \in Nat /\ DOMAIN stack = 1..Len(stack)
      /\ \A v \in Visited : v \in Names /\ v \in Known
      /\ \A k \in 1..n : Node(k) \in OnStack
      /\ OnStack \subseteq Visited
      /\ g \in Names /\ g \notin Visited /\ g \notin OnStack
  BY <1>2a, StackTypes DEF IndTypeOK, TypeOK
<1>3. /\ index' = [index EXCEPT ![g] = N] /\ lowlink' = [lowlink EXCEPT ![g] = N]
      /\ stack' = Append(stack, g) /\ frames' = Append(acts, a)
      /\ summaries_' = summaries_ /\ recursive' = recursive
  BY <1>1, <1>2b DEF Enter
<1>4. /\ \A v \in Visited : index'[v] = index[v] /\ lowlink'[v] = lowlink[v]
      /\ index'[g] = N /\ lowlink'[g] = N
      /\ \A v \in Visited : index[v] \in Nat /\ index[v] < N
  BY <1>1, <1>2, <1>3 DEF IndTypeOK, TypeOK, DfsInv, Numbered
<1>5. Visited' = Visited \cup {g}
  <2>1. \A v \in Names : v # g => index'[v] = index[v]
    BY <1>3 DEF IndTypeOK, TypeOK
  <2>2. N # Unvisited
    BY <1>1 DEF Unvisited
  <2> QED
    BY <1>2, <1>4, <2>1, <2>2 DEF Visited
<1>6. Cardinality(Visited') = N + 1
  BY <1>0, <1>1, <1>2, <1>5, FS_AddElement
<1>7. /\ Len(stack') = Len(stack) + 1 /\ DOMAIN stack' = 1..(Len(stack) + 1)
      /\ \A i \in DOMAIN stack : stack'[i] = stack[i]
      /\ stack'[Len(stack) + 1] = g
  BY <1>2, <1>3 DEF IndTypeOK, TypeOK
<1>8. OnStack' = OnStack \cup {g}
  <2>1. \A i : i \in DOMAIN stack' <=> i \in DOMAIN stack \/ i = Len(stack) + 1
    BY <1>2, <1>7
  <2>2. \A v : v \in OnStack' <=> v \in OnStack \/ v = g
    BY <1>7, <2>1 DEF OnStack
  <2> QED
    BY <2>2
<1>9. /\ DOMAIN frames' = 1..(n + 1)
      /\ \A k \in 1..n : /\ frames'[k].node = Node(k)
                          /\ frames'[k].left = acts[k].left
      /\ frames'[n + 1].node = g /\ frames'[n + 1].left = summaries_[g].callees
      /\ frames' # << >>
  <2>1. a \in Activations
    BY <1>2, <1>2b DEF Activations, IndTypeOK, TypeOK, Summaries
  <2>2. a.node = g /\ a.left = summaries_[g].callees
    BY <1>2b
  <2>3. Len(acts) = n /\ acts \in Seq(Activations) /\ frames' = Append(acts, a)
    BY <1>2a, <1>3
  <2> HIDE DEF Activations
  <2>4. Len(frames') = n + 1 /\ DOMAIN frames' = 1..(n + 1)
    BY <2>1, <2>3
  <2>5. \A k \in 1..n : frames'[k] = acts[k]
    BY <2>1, <2>3
  <2>6. frames'[n + 1] = a /\ frames' # << >>
    BY <2>1, <2>3, <2>4
  <2> QED
    BY <1>2, <2>2, <2>4, <2>5, <2>6
<1>10. \A k \in 1..(n + 1) : k \in 1..n \/ k = n + 1
  BY <1>2
<1>11. /\ Known' = Known
       /\ \A f : Reaches(f)' = Reaches(f)
       /\ \A f : Calls(f)' = Calls(f)
  BY <1>3, SameGraph
<1>12. Complete' = Complete
  BY <1>2, <1>5, <1>8 DEF Complete
<1>13. /\ \A v \in Visited : Dealt(v)' \subseteq Dealt(v) \cup {g}
       /\ Dealt(g)' = {}
  <2>1. ASSUME NEW v \in Visited, NEW h \in Dealt(v)' PROVE h \in Dealt(v) \cup {g}
    <3>1. h \in Calls(v)
          /\ \A k \in 1..(n + 1) : frames'[k].node = v => h \notin frames'[k].left
      BY <1>9, <1>11 DEF Dealt, Node
    <3>2. \A k \in 1..n : Node(k) = v => h \notin acts[k].left
      BY <1>2, <1>9, <3>1
    <3> QED
      BY <1>2, <3>1, <3>2 DEF Dealt
  <2>2. \A h \in Calls(g) : h \in summaries_[g].callees
    BY DEF Calls
  <2>3. n + 1 \in DOMAIN frames' /\ Node(n + 1)' = g
    BY <1>2, <1>9 DEF Node
  <2>4. Dealt(g)' = {}
    BY <1>9, <1>11, <2>2, <2>3 DEF Dealt, Node
  <2> QED
    BY <2>1, <2>4
<1>14. /\ \A k \in 1..n : Segment(k)' \subseteq Segment(k)
       /\ Segment(n + 1)' \subseteq {g}
  <2>1. ASSUME NEW k \in 1..n, NEW v \in Segment(k)' PROVE v \in Segment(k)
    <3>1. /\ v \in OnStack'
          /\ index'[Node(k)] <= index'[v]
          /\ \A m \in 1..(n + 1) : k < m => index'[v] < index'[frames'[m].node]
      BY <1>9 DEF Segment, Node
    <3>2. n + 1 \in 1..(n + 1) /\ k < n + 1
      BY <1>2
    <3>3. index'[v] < N
      BY <1>4, <1>9, <3>1, <3>2
    <3>4. v \in OnStack
      BY <1>1, <1>4, <1>8, <3>1, <3>3
    <3>5. \A m \in 1..n : m \in 1..(n + 1) /\ index'[Node(m)] = index[Node(m)]
      BY <1>2, <1>4
    <3>6. index'[v] = index[v]
      BY <1>2, <1>4, <3>4
    <3>7. \A m \in 1..n : k < m => index[v] < index[Node(m)]
      BY <1>9, <3>1, <3>5, <3>6
    <3> QED
      BY <1>2, <3>1, <3>4, <3>5, <3>6, <3>7 DEF Segment
  <2>2. ASSUME NEW v \in Segment(n + 1)' PROVE v = g
    <3>1. v \in OnStack' /\ N <= index'[v]
      BY <1>4, <1>9 DEF Segment, Node
    <3> QED
      BY <1>1, <1>2, <1>4, <1>8, <3>1
  <2> QED
    BY <2>1, <2>2
<1>15. Numbered'
  BY <1>1, <1>2, <1>4, <1>5, <1>6, <1>11 DEF DfsInv, Numbered
<1>16. StackOrdered'
  <2>1. \A i \in DOMAIN stack' : i \in DOMAIN stack \/ i = Len(stack) + 1
    BY <1>2, <1>7
  <2>2. \A i \in DOMAIN stack : stack[i] \in Visited
    BY <1>2 DEF OnStack
  <2>3. ASSUME NEW i \in DOMAIN stack', NEW j \in DOMAIN stack', i < j
        PROVE  index'[stack'[i]] < index'[stack'[j]]
    <3>1. i \in DOMAIN stack
      BY <1>2, <1>7, <2>3
    <3>2. CASE j \in DOMAIN stack
      BY <1>4, <1>7, <2>2, <2>3, <3>1, <3>2 DEF DfsInv, StackOrdered
    <3>3. CASE j = Len(stack) + 1
      BY <1>4, <1>7, <2>2, <3>1, <3>3
    <3> QED
      BY <2>1, <3>2, <3>3
  <2> QED
    BY <1>2, <1>5, <1>8, <2>3 DEF StackOrdered
<1>17. FramesOrdered'
  <2>1. \A k \in 1..n : Node(k) \in Visited /\ Node(k)' = Node(k)
    BY <1>2, <1>9 DEF Node
  <2>2. Node(n + 1)' = g
    BY <1>9 DEF Node
  <2>3. \A k \in DOMAIN frames' :
          /\ Node(k)' \in OnStack'
          /\ frames'[k].left \subseteq summaries_'[Node(k)'].callees
    BY <1>2, <1>3, <1>8, <1>9, <1>10, <2>1, <2>2 DEF DfsInv, FramesOrdered
  <2>4. ASSUME NEW j \in DOMAIN frames', NEW k \in DOMAIN frames', j < k
        PROVE  /\ index'[Node(j)'] < index'[Node(k)']
               /\ Node(k)' \in Reaches(Node(j)')
    <3>1. j \in 1..n
      BY <1>2, <1>9, <2>4
    <3>2. CASE k \in 1..n
      BY <1>2, <1>4, <2>1, <2>4, <3>1, <3>2 DEF DfsInv, FramesOrdered
    <3>3. CASE k = n + 1
      BY <1>2, <1>4, <2>1, <2>2, <3>1, <3>3
    <3> QED
      BY <1>9, <1>10, <3>2, <3>3
  <2>5. ASSUME NEW v \in OnStack' PROVE index'[Node(1)'] <= index'[v]
    <3>1. CASE n = 0
      <4>1. OnStack = {}
        BY <1>2, <3>1 DEF DfsInv, FramesOrdered
      <4> QED
        BY <1>1, <1>4, <1>8, <2>2, <3>1, <4>1
    <3>2. CASE n # 0
      <4>1. 1 \in 1..n
        BY <1>2, <3>2
      <4>2. CASE v \in OnStack
        BY <1>2, <1>4, <2>1, <4>1, <4>2 DEF DfsInv, FramesOrdered
      <4>3. CASE v = g
        BY <1>1, <1>4, <2>1, <4>1, <4>3
      <4> QED
        BY <1>8, <4>2, <4>3
    <3> QED
      BY <3>1, <3>2
  <2> QED
    BY <1>9, <1>11, <2>3, <2>4, <2>5 DEF FramesOrdered
<1>18. DealtVisited' /\ CompleteClosed' /\ Marked'
  BY <1>3, <1>5, <1>11, <1>12, <1>13 DEF DfsInv, DealtVisited, CompleteClosed,
     Marked
<1>19. Links'
  <2> SUFFICES ASSUME NEW k \in 1..(n + 1)
               PROVE  /\ lowlink'[Node(k)'] <= index'[Node(k)']
                      /\ \A v \in Segment(k)' : \A w \in Dealt(v)' \cap OnStack' :
                           lowlink'[Node(k)'] <= index'[w]
                      /\ \E u \in OnStack' :
                           /\ index'[u] = lowlink'[Node(k)']
                           /\ u = Node(k)' \/ u \in Reaches(Node(k)')
    BY <1>9, <1>11 DEF Links
  <2>1. CASE k = n + 1
    <3>1. Node(k)' = g
      BY <1>9, <2>1 DEF Node
    <3>2. Segment(k)' \subseteq {g}
      BY <1>14, <2>1
    <3> QED
      BY <1>1, <1>4, <1>8, <1>13, <3>1, <3>2
  <2>2. CASE k \in 1..n
    <3>1. Node(k)' = Node(k) /\ Node(k) \in Visited /\ k \in DOMAIN frames
      BY <1>2, <1>9, <2>2 DEF Node
    <3>2. lowlink'[Node(k)] = lowlink[Node(k)] /\ index'[Node(k)] = index[Node(k)]
          /\ index[Node(k)] \in Nat /\ index[Node(k)] < N
          /\ lowlink[Node(k)] \in Int
      BY <1>2, <1>4, <3>1 DEF IndTypeOK, TypeOK
    <3>3. /\ lowlink[Node(k)] <= index[Node(k)]
          /\ \A v \in Segment(k) : \A w \in Dealt(v) \cap OnStack :
               lowlink[Node(k)] <= index[w]
          /\ \E u \in OnStack : /\ index[u] = lowlink[Node(k)]
                                /\ u = Node(k) \/ u \in Reaches(Node(k))
      BY <3>1 DEF DfsInv, Links
    <3>4. ASSUME NEW v \in Segment(k)', NEW w \in Dealt(v)' \cap OnStack'
          PROVE  lowlink[Node(k)] <= index'[w]
      <4>1. v \in Segment(k) /\ v \in Visited
        BY <1>2, <1>14, <2>2 DEF Segment
      <4>2. CASE w = g
        BY <1>1, <1>4, <3>2, <3>3, <4>2
      <4>3. CASE w # g
        BY <1>2, <1>4, <1>8, <1>13, <3>3, <4>1, <4>3
      <4> QED
        BY <4>2, <4>3
    <3>5. \E u \in OnStack' : /\ index'[u] = lowlink[Node(k)]
                              /\ u = Node(k) \/ u \in Reaches(Node(k))
      BY <1>2, <1>4, <1>8, <3>3
    <3>6. lowlink'[Node(k)'] <= index'[Node(k)']
      BY <3>1, <3>2, <3>3
    <3>7. lowlink'[Node(k)'] = lowlink[Node(k)]
      BY <3>1, <3>2
    <3>8. \A v \in Segment(k)' : \A w \in Dealt(v)' \cap OnStack' :
            lowlink'[Node(k)'] <= index'[w]
      BY <3>4, <3>7
    <3>9. \E u \in OnStack' : /\ index'[u] = lowlink'[Node(k)']
                              /\ u = Node(k)' \/ u \in Reaches(Node(k)')
      BY <3>1, <3>5, <3>7
    <3> QED
      BY <3>6, <3>8, <3>9
  <2> QED
    BY <1>10, <2>1, <2>2
<1>20. Segments'
  <2>1. \A k \in 1..n : Node(k)' = Node(k)
    BY <1>9 DEF Node
  <2>2. Node(n + 1)' = g
    BY <1>9 DEF Node
  <2> QED
    BY <1>2, <1>9, <1>10, <1>11, <1>14, <2>1, <2>2 DEF DfsInv, Segments
<1> QED
  BY <1>15, <1>16, <1>17, <1>18, <1>19, <1>20 DEF DfsInv

\* The activations after a step of the innermost one differ from those before
\* in one callee that is no longer left.
LEMMA AdvanceFrames ==
  ASSUME IndTypeOK, DfsInv, frames # << >>, NEW g \in Names
  PROVE  /\ Len(frames) \in Nat \ {0} /\ DOMAIN frames = 1..Len(frames)
         /\ Advance(g) \in Seq(Activations)
         /\ Len(Advance(g)) = Len(frames)
         /\ DOMAIN Advance(g) = 1..Len(frames)
         /\ \A k \in 1..Len(frames) :
              /\ Advance(g)[k].node = Node(k)
              /\ Advance(g)[k].left =
                   IF k = Len(frames) THEN frames[k].left \ {g} ELSE frames[k].left
PROOF
<1>1. PICK n : n = Len(frames)
  OBVIOUS
<1>2. frames \in Seq(Activations)
  BY DEF IndTypeOK, TypeOK
<1>3. n \in Nat \ {0} /\ DOMAIN frames = 1..n
  BY <1>1, <1>2
<1>4. \A k \in 1..n : frames[k] \in Activations
  BY <1>1, <1>2, <1>3
<1>5. PICK a : a = [node |-> Top.node, left |-> Top.left \ {g}]
  OBVIOUS
<1>6. n \in 1..n /\ Top = frames[n]
  BY <1>1, <1>3 DEF Top
<1>7. a \in Activations /\ a.node = Node(n) /\ a.left = frames[n].left \ {g}
  BY <1>4, <1>5, <1>6 DEF Activations, Node
<1>8. Advance(g) = [frames EXCEPT ![n] = a]
  BY <1>1, <1>5 DEF Advance
<1> HIDE DEF Activations
<1>9. Advance(g) \in Seq(Activations) /\ Len(Advance(g)) = n
      /\ DOMAIN Advance(g) = 1..n
  BY <1>1, <1>2, <1>3, <1>6, <1>7, <1>8
<1>10. \A k \in 1..n : Advance(g)[k] = IF k = n THEN a ELSE frames[k]
  BY <1>3, <1>8
<1> QED
  BY <1>1, <1>3, <1>7, <1>9, <1>10 DEF Node

\* The innermost activation keeps the invariant when it skips a callee or lowers
\* its link to that of a callee on the stack.
LEMMA AdvanceKeeps ==
  ASSUME IndTypeOK, DfsInv, UNCHANGED <<summaries_, recursive, index, stack>>,
         frames # << >>, NEW g \in Names, g \in Top.left, frames' = Advance(g),
         g \in Known => g \in Visited,
         lowlink' = IF g \in OnStack
                    THEN [lowlink EXCEPT ![Top.node] = Min2(@, index[g])]
                    ELSE lowlink
  PROVE  DfsInv'
PROOF
<1>1. PICK n : n = Len(frames)
  OBVIOUS
<1>2. /\ n \in Nat \ {0} /\ DOMAIN frames = 1..n /\ DOMAIN frames' = 1..n
      /\ \A k \in 1..n : /\ frames'[k].node = Node(k)
                         /\ frames'[k].left = IF k = n THEN frames[k].left \ {g}
                                              ELSE frames[k].left
  BY <1>1, AdvanceFrames
<1>3. n \in 1..n /\ Top.node = Node(n) /\ Top.left = frames[n].left
      /\ frames' # << >>
  BY <1>1, <1>2 DEF Top, Node
<1>4. /\ \A k \in 1..n : Node(k) \in OnStack
      /\ \A v \in OnStack : v \in Visited /\ v \in Known /\ v \in Names
      /\ \A f \in Names : index[f] \in Int /\ lowlink[f] \in Int
  BY <1>2, StackTypes
<1>5. /\ Known' = Known
      /\ \A f : Reaches(f)' = Reaches(f)
      /\ \A f : Calls(f)' = Calls(f)
  BY SameGraph
<1>6. Visited' = Visited /\ OnStack' = OnStack /\ Complete' = Complete
  BY DEF Visited, OnStack, Complete
<1>7. \A k \in 1..n : Node(k)' = Node(k)
  BY <1>2 DEF Node
<1>8. \A k \in 1..n : Segment(k)' = Segment(k)
  BY <1>2, <1>6, <1>7 DEF Segment
<1>9. ASSUME NEW v \in Visited, NEW h \in Dealt(v)'
      PROVE  h \in Dealt(v) \/ (h = g /\ v = Node(n))
  <2>1. h \in Calls(v)
        /\ \A k \in 1..n : Node(k) = v => h \notin frames'[k].left
    BY <1>2, <1>5, <1>7 DEF Dealt
  <2>2. SUFFICES ASSUME ~(h = g /\ v = Node(n)) PROVE h \in Dealt(v)
    OBVIOUS
  <2>3. \A k \in 1..n : Node(k) = v => h \notin frames[k].left
    BY <1>2, <2>1, <2>2
  <2> QED
    BY <1>2, <2>1, <2>3 DEF Dealt
<1>10. \A v : Dealt(v)' \subseteq Calls(v) /\ Calls(v) \subseteq Known
  BY <1>5 DEF Dealt, Calls
<1>11. Numbered' /\ StackOrdered' /\ CompleteClosed' /\ Marked'
  BY <1>5, <1>6 DEF DfsInv, Numbered, StackOrdered, CompleteClosed, Marked
<1>12. FramesOrdered'
  <2>1. \A k \in 1..n : frames'[k].left \subseteq frames[k].left
    BY <1>2
  <2>2. 1 \in 1..n
    BY <1>2
  <2> QED
    BY <1>2, <1>3, <1>5, <1>6, <1>7, <2>1, <2>2 DEF DfsInv, FramesOrdered
<1>13. DealtVisited'
  BY <1>6, <1>9, <1>10 DEF DfsInv, DealtVisited
<1>14. Segments'
  BY <1>2, <1>5, <1>7, <1>8 DEF DfsInv, Segments
<1>15. Links'
  <2> SUFFICES ASSUME NEW k \in 1..n
               PROVE  /\ lowlink'[Node(k)] <= index[Node(k)]
                      /\ \A v \in Segment(k) : \A w \in Dealt(v)' \cap OnStack :
                           lowlink'[Node(k)] <= index[w]
                      /\ \E u \in OnStack :
                           /\ index[u] = lowlink'[Node(k)]
                           /\ u = Node(k) \/ u \in Reaches(Node(k))
    BY <1>2, <1>5, <1>6, <1>7, <1>8 DEF Links
  <2>1. /\ lowlink[Node(k)] <= index[Node(k)]
        /\ \A v \in Segment(k) : \A w \in Dealt(v) \cap OnStack :
             lowlink[Node(k)] <= index[w]
        /\ \E u \in OnStack : /\ index[u] = lowlink[Node(k)]
                              /\ u = Node(k) \/ u \in Reaches(Node(k))
    BY <1>2 DEF DfsInv, Links
  <2>2. CASE k # n
    <3>1. k < n /\ index[Node(k)] < index[Node(n)]
      BY <1>2, <1>3, <2>2 DEF DfsInv, FramesOrdered
    <3>2. lowlink'[Node(k)] = lowlink[Node(k)]
      BY <1>3, <1>4, <3>1 DEF IndTypeOK, TypeOK
    <3>3. ASSUME NEW v \in Segment(k) PROVE Dealt(v)' \subseteq Dealt(v)
      <4>1. v \in Visited /\ index[v] < index[Node(n)]
        BY <1>2, <1>3, <1>4, <3>1 DEF Segment
      <4>2. v # Node(n)
        BY <1>3, <1>4, <4>1
      <4> QED
        BY <1>9, <4>1, <4>2
    <3> QED
      BY <2>1, <3>2, <3>3
  <2>3. CASE k = n /\ g \notin OnStack
    <3>1. lowlink' = lowlink
      BY <2>3
    <3>2. ASSUME NEW v \in Segment(k)
          PROVE  Dealt(v)' \cap OnStack \subseteq Dealt(v) \cap OnStack
      <4>1. v \in Visited
        BY <1>4 DEF Segment
      <4> QED
        BY <1>9, <2>3, <4>1
    <3> QED
      BY <2>1, <3>1, <3>2
  <2>4. CASE k = n /\ g \in OnStack
    <3>1. lowlink'[Node(k)] = Min2(lowlink[Node(k)], index[g])
      BY <1>3, <1>4, <2>4 DEF IndTypeOK, TypeOK
    <3>2. /\ lowlink[Node(k)] \in Int /\ index[g] \in Int /\ index[Node(k)] \in Int
          /\ \A w \in OnStack : index[w] \in Int
      BY <1>4, <2>4
    <3>3. /\ lowlink'[Node(k)] \in Int
          /\ lowlink'[Node(k)] <= lowlink[Node(k)] /\ lowlink'[Node(k)] <= index[g]
          /\ lowlink'[Node(k)] \in {lowlink[Node(k)], index[g]}
      BY <3>1, <3>2 DEF Min2
    <3>4. ASSUME NEW v \in Segment(k), NEW w \in Dealt(v)' \cap OnStack
          PROVE  lowlink'[Node(k)] <= index[w]
      <4>1. v \in Visited
        BY <1>4 DEF Segment
      <4>2. w = g \/ w \in Dealt(v) \cap OnStack
        BY <1>9, <4>1
      <4>3. w = g \/ lowlink[Node(k)] <= index[w]
        BY <2>1, <4>2
      <4> QED
        BY <3>2, <3>3, <4>3
    <3>5. g \in Reaches(Node(k))
      <4>1. g \in Calls(Node(k))
        BY <1>2, <1>3, <1>4, <2>4 DEF DfsInv, FramesOrdered, Calls
      <4> QED
        BY <4>1, ReachesCalls
    <3>6. \E u \in OnStack : /\ index[u] = lowlink'[Node(k)]
                             /\ u = Node(k) \/ u \in Reaches(Node(k))
      BY <2>1, <2>4, <3>3, <3>5
    <3>7. lowlink'[Node(k)] <= index[Node(k)]
      BY <2>1, <3>2, <3>3
    <3> QED
      BY <3>4, <3>6, <3>7
  <2> QED
    BY <2>2, <2>3, <2>4
<1> QED
  BY <1>11, <1>12, <1>13, <1>14, <1>15 DEF DfsInv

\* The activations after the innermost one has ended.
LEMMA LeaveFrames ==
  ASSUME IndTypeOK, DfsInv, UNCHANGED summaries_,
         frames # << >>, Top.left = {},
         frames' = SubSeq(frames, 1, Len(frames) - 1),
         NEW n, n = Len(frames)
  PROVE  /\ n \in Nat \ {0} /\ DOMAIN frames = 1..n /\ n \in 1..n
         /\ DOMAIN frames' = 1..(n - 1)
         /\ n # 1 => frames' # << >>
         /\ \A k \in 1..(n - 1) : k \in 1..n /\ k < n /\ k # n
                                  /\ frames'[k] = frames[k] /\ Node(k)' = Node(k)
         /\ \A k \in 1..n : k = n \/ k \in 1..(n - 1)
         /\ Top.node = Node(n) /\ frames[n].left = {}
         /\ \A v : Dealt(v)' \subseteq Dealt(v)
         /\ \A j, k \in 1..n : j < k => /\ index[Node(j)] < index[Node(k)]
                                        /\ Node(k) \in Reaches(Node(j))
         /\ \A k \in 1..n : Node(k) \in OnStack /\ Node(k) \in Names
         /\ \A v \in OnStack : v \in Visited /\ v \in Known /\ v \in Names
         /\ \A v \in Names : index[v] \in Int /\ lowlink[v] \in Int
PROOF
<1>1. frames \in Seq(Activations)
  BY DEF IndTypeOK, TypeOK
<1> HIDE DEF Activations
<1>2. n \in Nat \ {0} /\ DOMAIN frames = 1..n /\ n \in 1..n
  BY <1>1
<1>3. /\ Len(frames') = n - 1 /\ DOMAIN frames' = 1..(n - 1)
      /\ \A k \in 1..(n - 1) : frames'[k] = frames[k]
  BY <1>1, <1>2
<1>4. n # 1 => frames' # << >>
  <2>1. frames' = << >> => Len(frames') = 0
    OBVIOUS
  <2> QED
    BY <1>2, <1>3, <2>1
<1>5. \A k \in 1..(n - 1) : k \in 1..n /\ k < n /\ k # n
  BY <1>2
<1>6. \A k \in 1..n : k = n \/ k \in 1..(n - 1)
  BY <1>2
<1>7. Top.node = Node(n) /\ frames[n].left = {}
  BY DEF Top, Node
<1>8. \A k \in 1..(n - 1) : Node(k)' = Node(k)
  BY <1>3 DEF Node
<1>9. ASSUME NEW v PROVE Dealt(v)' \subseteq Dealt(v)
  <2>1. Calls(v)' = Calls(v)
    BY SameGraph
  <2> SUFFICES ASSUME NEW h \in Dealt(v)' PROVE h \in Dealt(v)
    OBVIOUS
  <2>2. h \in Calls(v)
        /\ \A k \in 1..(n - 1) : Node(k) = v => h \notin frames[k].left
    BY <1>3, <1>8, <2>1 DEF Dealt
  <2>3. \A k \in 1..n : Node(k) = v => h \notin frames[k].left
    BY <1>6, <1>7, <2>2
  <2> QED
    BY <1>2, <2>2, <2>3 DEF Dealt
<1>10. \A j, k \in 1..n : j < k => /\ index[Node(j)] < index[Node(k)]
                                   /\ Node(k) \in Reaches(Node(j))
  BY <1>2 DEF DfsInv, FramesOrdered
<1>11. /\ \A k \in 1..n : Node(k) \in OnStack
       /\ \A v \in OnStack : v \in Visited /\ v \in Known /\ v \in Names
       /\ \A v \in Names : index[v] \in Int /\ lowlink[v] \in Int
  BY <1>2, StackTypes
<1> QED
  BY <1>2, <1>3, <1>4, <1>5, <1>6, <1>7, <1>8, <1>9, <1>10, <1>11

\* A function whose link is lower than its index reaches the function of the
\* activation below it.
LEMMA LowLinkReaches ==
  ASSUME IndTypeOK, DfsInv, NEW n \in Nat \ {0}, DOMAIN frames = 1..n,
         lowlink[Node(n)] # index[Node(n)]
  PROVE  n - 1 \in 1..n /\ Node(n - 1) \in Reaches(Node(n))
PROOF
<1>1. /\ \A k \in 1..n : Node(k) \in OnStack
      /\ \A v \in OnStack : v \in Names
      /\ \A v \in Names : index[v] \in Int /\ lowlink[v] \in Int
      /\ n \in 1..n /\ 1 \in 1..n
  BY StackTypes
<1>2. PICK u \in OnStack : /\ index[u] = lowlink[Node(n)]
                           /\ u = Node(n) \/ u \in Reaches(Node(n))
  BY <1>1 DEF DfsInv, Links
<1>3. index[u] < index[Node(n)] /\ index[u] \in Int /\ u \in Reaches(Node(n))
  BY <1>1, <1>2 DEF DfsInv, Links
<1>4. index[Node(1)] <= index[u]
  BY DEF DfsInv, FramesOrdered
<1> DEFINE T == {j \in 1..n : index[Node(j)] <= index[u]}
<1>5. T \in SUBSET (0..n) /\ T # {}
  BY <1>1, <1>4
<1>6. PICK j \in T : \A m \in T : m <= j
  <2> HIDE DEF T
  <2> QED
    BY <1>5, GreatestNumber
<1>7. j \in 1..n /\ j # n /\ index[Node(j)] <= index[u]
  BY <1>1, <1>3, <1>6
<1>8. ASSUME NEW m \in 1..n, j < m PROVE index[u] < index[Node(m)]
  <2>1. m \notin T
    BY <1>6, <1>7, <1>8
  <2>2. index[Node(m)] \in Int
    BY <1>1
  <2> QED
    BY <1>3, <2>1, <2>2
<1>9. u \in Segment(j)
  BY <1>7, <1>8 DEF Segment
<1>10. u = Node(j) \/ Node(j) \in Reaches(u)
  BY <1>7, <1>9 DEF DfsInv, Segments
<1>11. Node(j) \in Reaches(Node(n))
  BY <1>3, <1>10, ReachesTransitive
<1>12. n - 1 \in 1..n /\ (j = n - 1 \/ j < n - 1)
  BY <1>7
<1>13. j = n - 1 \/ Node(n - 1) \in Reaches(Node(j))
  BY <1>7, <1>12 DEF DfsInv, FramesOrdered
<1> QED
  BY <1>11, <1>12, <1>13, ReachesTransitive

\* The end of an activation that is no root keeps the invariant: its segment
\* joins the one below.
LEMMA MergeKeeps ==
  ASSUME IndTypeOK, DfsInv, UNCHANGED <<summaries_, recursive, index, stack>>,
         frames # << >>, Top.left = {},
         lowlink[Top.node] # index[Top.node],
         frames' = SubSeq(frames, 1, Len(frames) - 1),
         lowlink' = IF Len(frames) - 1 = 0 THEN lowlink
                    ELSE [lowlink EXCEPT ![frames[Len(frames) - 1].node] =
                            Min2(@, lowlink[Top.node])]
  PROVE  DfsInv'
PROOF
<1>1. PICK n : n = Len(frames)
  OBVIOUS
<1>2. /\ n \in Nat \ {0} /\ DOMAIN frames = 1..n /\ n \in 1..n
      /\ DOMAIN frames' = 1..(n - 1)
      /\ n # 1 => frames' # << >>
      /\ \A k \in 1..(n - 1) : k \in 1..n /\ k < n /\ k # n
                               /\ frames'[k] = frames[k] /\ Node(k)' = Node(k)
      /\ \A k \in 1..n : k = n \/ k \in 1..(n - 1)
      /\ Top.node = Node(n)
      /\ \A v : Dealt(v)' \subseteq Dealt(v)
  BY <1>1, LeaveFrames
<1>3. /\ \A j, k \in 1..n : j < k => /\ index[Node(j)] < index[Node(k)]
                                     /\ Node(k) \in Reaches(Node(j))
      /\ \A k \in 1..n : Node(k) \in OnStack /\ Node(k) \in Names
      /\ \A v \in OnStack : v \in Visited /\ v \in Known /\ v \in Names
      /\ \A v \in Names : index[v] \in Int /\ lowlink[v] \in Int
  BY <1>1, LeaveFrames
<1>4. n - 1 \in 1..n /\ Node(n - 1) \in Reaches(Node(n))
  BY <1>2, LowLinkReaches
<1>5. PICK p : p = n - 1
  OBVIOUS
<1>6. p \in 1..n /\ p < n /\ 1..(n - 1) = 1..p /\ p \in 1..p /\ 1 \in 1..p
  BY <1>2, <1>4, <1>5
<1>7. Node(p) \in Reaches(Node(n)) /\ Node(n) \in Reaches(Node(p))
  BY <1>2, <1>3, <1>4, <1>5, <1>6
<1>8. lowlink' = [lowlink EXCEPT ![Node(p)] = Min2(@, lowlink[Node(n)])]
  BY <1>1, <1>2, <1>4, <1>5 DEF Node
<1>9. /\ Known' = Known
      /\ \A f : Reaches(f)' = Reaches(f)
      /\ \A f : Calls(f)' = Calls(f)
  BY SameGraph
<1>10. Visited' = Visited /\ OnStack' = OnStack /\ Complete' = Complete
  BY DEF Visited, OnStack, Complete
<1>10a. /\ DOMAIN frames' = 1..p /\ frames' # << >>
        /\ \A k \in 1..p : k \in 1..n /\ frames'[k] = frames[k] /\ Node(k)' = Node(k)
  BY <1>2, <1>4, <1>6
<1>11. \A v \in OnStack : index[v] \in Int
  BY <1>3
<1>12. ASSUME NEW k \in 1..p, k # p PROVE Segment(k)' \subseteq Segment(k)
  <2> SUFFICES ASSUME NEW v \in Segment(k)' PROVE v \in Segment(k)
    OBVIOUS
  <2>1. /\ v \in OnStack /\ index[Node(k)] <= index[v]
        /\ \A m \in 1..p : k < m => index[v] < index[Node(m)]
    BY <1>2, <1>6, <1>10 DEF Segment
  <2>2. index[v] < index[Node(p)] /\ index[Node(p)] < index[Node(n)]
    BY <1>2, <1>3, <1>6, <1>12, <2>1
  <2>3. index[v] < index[Node(n)]
    BY <1>2, <1>3, <1>6, <2>1, <2>2
  <2>4. \A m \in 1..n : k < m => index[v] < index[Node(m)]
    BY <1>2, <1>6, <2>1, <2>3
  <2> QED
    BY <1>2, <2>1, <2>4 DEF Segment
<1>13. Segment(p)' \subseteq Segment(p) \cup Segment(n)
  <2> SUFFICES ASSUME NEW v \in Segment(p)' PROVE v \in Segment(p) \cup Segment(n)
    OBVIOUS
  <2>1. v \in OnStack /\ index[Node(p)] <= index[v]
    BY <1>2, <1>6, <1>10 DEF Segment
  <2>2. CASE index[v] < index[Node(n)]
    <3>1. \A m \in 1..n : p < m => m = n
      BY <1>2, <1>5
    <3> QED
      BY <1>2, <2>1, <2>2, <3>1 DEF Segment
  <2>3. CASE ~(index[v] < index[Node(n)])
    <3>1. index[Node(n)] <= index[v]
      BY <1>2, <1>3, <1>11, <2>1, <2>3
    <3>2. \A m \in 1..n : ~(n < m)
      BY <1>2
    <3> QED
      BY <1>2, <2>1, <3>1, <3>2 DEF Segment
  <2> QED
    BY <2>2, <2>3
<1>14. Numbered' /\ StackOrdered' /\ CompleteClosed' /\ Marked'
  BY <1>9, <1>10 DEF DfsInv, Numbered, StackOrdered, CompleteClosed, Marked
<1>15. FramesOrdered'
  <2>1. \A k \in 1..p : /\ Node(k)' \in OnStack'
                         /\ frames'[k].left \subseteq summaries_'[Node(k)'].callees
    <3>1. \A k \in 1..n : /\ Node(k) \in OnStack
                           /\ frames[k].left \subseteq summaries_[Node(k)].callees
      BY <1>2 DEF DfsInv, FramesOrdered
    <3>2. summaries_' = summaries_
      OBVIOUS
    <3> QED
      BY <1>10, <1>10a, <3>1, <3>2
  <2>2. \A j, k \in 1..p : j < k => /\ index'[Node(j)'] < index'[Node(k)']
                                     /\ Node(k)' \in Reaches(Node(j)')
    BY <1>3, <1>10a
  <2>3. \A v \in OnStack' : index'[Node(1)'] <= index'[v]
    BY <1>6, <1>10, <1>10a DEF DfsInv, FramesOrdered
  <2> QED
    BY <1>9, <1>10a, <2>1, <2>2, <2>3 DEF FramesOrdered
<1>16. DealtVisited'
  BY <1>2, <1>10 DEF DfsInv, DealtVisited
<1>17. Segments'
  <2> SUFFICES ASSUME NEW k \in 1..p, NEW v \in Segment(k)'
               PROVE  v = Node(k) \/ (v \in Reaches(Node(k)) /\ Node(k) \in Reaches(v))
    BY <1>2, <1>6, <1>9 DEF Segments
  <2>1. CASE v \in Segment(k)
    BY <1>2, <1>6, <2>1 DEF DfsInv, Segments
  <2>2. CASE k = p /\ v \in Segment(n)
    <3>1. v = Node(n) \/ (v \in Reaches(Node(n)) /\ Node(n) \in Reaches(v))
      BY <1>2, <2>2 DEF DfsInv, Segments
    <3> QED
      BY <1>7, <2>2, <3>1, ReachesTransitive
  <2> QED
    BY <1>12, <1>13, <2>1, <2>2
<1>18. Links'
  <2> SUFFICES ASSUME NEW k \in 1..p
               PROVE  /\ lowlink'[Node(k)'] <= index'[Node(k)']
                      /\ \A v \in Segment(k)' : \A w \in Dealt(v)' \cap OnStack' :
                           lowlink'[Node(k)'] <= index'[w]
                      /\ \E u \in OnStack' :
                           /\ index'[u] = lowlink'[Node(k)']
                           /\ u = Node(k)' \/ u \in Reaches(Node(k)')
    BY <1>9, <1>10a DEF Links
  <2> SUFFICES /\ lowlink'[Node(k)] <= index[Node(k)]
               /\ \A v \in Segment(k)' : \A w \in Dealt(v)' \cap OnStack :
                    lowlink'[Node(k)] <= index[w]
               /\ \E u \in OnStack : /\ index[u] = lowlink'[Node(k)]
                                     /\ u = Node(k) \/ u \in Reaches(Node(k))
    BY <1>10, <1>10a
  <2>0. k \in 1..n
    BY <1>2, <1>6
  <2>1. /\ lowlink[Node(k)] <= index[Node(k)]
        /\ \A v \in Segment(k) : \A w \in Dealt(v) \cap OnStack :
             lowlink[Node(k)] <= index[w]
        /\ \E u \in OnStack : /\ index[u] = lowlink[Node(k)]
                              /\ u = Node(k) \/ u \in Reaches(Node(k))
    BY <1>2, <2>0 DEF DfsInv, Links
  <2>2. CASE k # p
    <3>1. k < p /\ index[Node(k)] < index[Node(p)]
      BY <1>3, <1>6, <2>0, <2>2
    <3>2. lowlink'[Node(k)] = lowlink[Node(k)]
      BY <1>3, <1>6, <1>8, <2>0, <3>1 DEF IndTypeOK, TypeOK
    <3> QED
      BY <1>2, <1>12, <2>1, <2>2, <3>2
  <2>3. CASE k = p
    <3>1. lowlink'[Node(k)] = Min2(lowlink[Node(k)], lowlink[Node(n)])
      BY <1>3, <1>8, <2>0, <2>3 DEF IndTypeOK, TypeOK
    <3>2. lowlink[Node(k)] \in Int /\ lowlink[Node(n)] \in Int
          /\ index[Node(k)] \in Int
      BY <1>2, <1>3, <2>0
    <3>3. /\ lowlink'[Node(k)] \in Int
          /\ lowlink'[Node(k)] <= lowlink[Node(k)]
          /\ lowlink'[Node(k)] <= lowlink[Node(n)]
          /\ lowlink'[Node(k)] \in {lowlink[Node(k)], lowlink[Node(n)]}
      BY <3>1, <3>2 DEF Min2
    <3>4. /\ \A v \in Segment(n) : \A w \in Dealt(v) \cap OnStack :
               lowlink[Node(n)] <= index[w]
          /\ \E u \in OnStack : /\ index[u] = lowlink[Node(n)]
                                /\ u = Node(n) \/ u \in Reaches(Node(n))
      BY <1>2 DEF DfsInv, Links
    <3>5. ASSUME NEW v \in Segment(k)', NEW w \in Dealt(v)' \cap OnStack
          PROVE  lowlink'[Node(k)] <= index[w]
      <4>1. w \in Dealt(v) \cap OnStack /\ index[w] \in Int
        BY <1>2, <1>11
      <4>2. v \in Segment(k) \/ v \in Segment(n)
        BY <1>13, <2>3
      <4>3. lowlink[Node(k)] <= index[w] \/ lowlink[Node(n)] <= index[w]
        BY <2>1, <3>4, <4>1, <4>2
      <4> QED
        BY <3>2, <3>3, <4>1, <4>3
    <3>6. \E u \in OnStack : /\ index[u] = lowlink[Node(n)]
                             /\ u \in Reaches(Node(k))
      BY <1>7, <2>3, <3>4, ReachesTransitive
    <3>7. \E u \in OnStack : /\ index[u] = lowlink'[Node(k)]
                             /\ u = Node(k) \/ u \in Reaches(Node(k))
      BY <2>1, <3>3, <3>6
    <3>8. lowlink'[Node(k)] <= index[Node(k)]
      BY <2>1, <3>2, <3>3
    <3> QED
      BY <3>5, <3>7, <3>8
  <2> QED
    BY <2>2, <2>3
<1> QED
  BY <1>14, <1>15, <1>16, <1>17, <1>18 DEF DfsInv

\* The functions that a root takes off the stack are those found after it.
LEMMA PopComponent ==
  ASSUME IndTypeOK, DfsInv, UNCHANGED index,
         NEW i \in DOMAIN stack, stack' = SubSeq(stack, 1, i - 1)
  PROVE  /\ {stack[j] : j \in i..Len(stack)} =
              {v \in OnStack : index[stack[i]] <= index[v]}
         /\ OnStack' = {v \in OnStack : ~(index[stack[i]] <= index[v])}
         /\ StackOrdered'
PROOF
<1>1. PICK n : n = Len(stack)
  OBVIOUS
<1>2. stack \in Seq(Names)
  BY DEF IndTypeOK, TypeOK
<1>3. n \in Nat /\ DOMAIN stack = 1..n /\ i \in 1..n
  BY <1>1, <1>2
<1>4. /\ DOMAIN stack' = 1..(i - 1)
      /\ \A j \in 1..(i - 1) : j \in 1..n /\ stack'[j] = stack[j]
  BY <1>1, <1>2, <1>3
<1>5. \A j \in 1..n : stack[j] \in OnStack /\ index[stack[j]] \in Int
  BY <1>3, StackTypes
<1>6. \A j, k \in 1..n : j < k => index[stack[j]] < index[stack[k]]
  BY <1>3 DEF DfsInv, StackOrdered
<1>7. \A j \in 1..n : j \in i..n <=> index[stack[i]] <= index[stack[j]]
  <2> TAKE j \in 1..n
  <2>1. j < i \/ j = i \/ i < j
    BY <1>3
  <2>2. j < i => index[stack[j]] < index[stack[i]]
    BY <1>3, <1>6
  <2>3. i < j => index[stack[i]] < index[stack[j]]
    BY <1>3, <1>6
  <2>4. j \in i..n <=> ~(j < i)
    BY <1>3
  <2>5. index[stack[i]] \in Int /\ index[stack[j]] \in Int
    BY <1>3, <1>5
  <2> QED
    BY <2>1, <2>2, <2>3, <2>4, <2>5
<1>8. \A v : v \in OnStack <=> \E j \in 1..n : v = stack[j]
  BY <1>3 DEF OnStack
<1>9. \A j : j \in i..n => j \in 1..n
  BY <1>3
<1>10. \A j : j \in 1..(i - 1) <=> j \in 1..n /\ j \notin i..n
  BY <1>3
<1>11. \A v : v \in OnStack' <=> \E j \in 1..(i - 1) : v = stack[j]
  BY <1>4 DEF OnStack
<1>12. \A v : v \in {stack[j] : j \in i..n} <=> v \in OnStack /\ index[stack[i]] <= index[v]
  BY <1>7, <1>8, <1>9
<1>13. \A v : v \in OnStack' <=> v \in OnStack /\ ~(index[stack[i]] <= index[v])
  BY <1>7, <1>8, <1>10, <1>11
<1>14. StackOrdered'
  <2>1. Visited' = Visited
    BY DEF Visited
  <2>2. OnStack' \subseteq Visited
    BY <1>13 DEF DfsInv, StackOrdered
  <2>3. \A j, k \in 1..(i - 1) : j < k => index'[stack'[j]] < index'[stack'[k]]
    BY <1>4, <1>6
  <2> QED
    BY <1>4, <2>1, <2>2, <2>3 DEF StackOrdered
<1> QED
  BY <1>1, <1>12, <1>13, <1>14

\* What dfsSCC asks of a component decides whether its members can call
\* themselves: a strongly connected set that nothing but complete functions can
\* be reached from is a cycle if it has two members or a self-loop.
LEMMA CycleTest ==
  ASSUME DfsInv, NEW f \in Known, NEW C \in SUBSET Known, IsFiniteSet(C),
         f \in C, C \cap Complete = {},
         \A v \in C : v = f \/ (v \in Reaches(f) /\ f \in Reaches(v)),
         \A v \in C : Calls(v) \subseteq Complete \cup C
  PROVE  \A v \in C : v \in Reaches(v) <=> IsCycle(C, f)
PROOF
<1>1. CASE IsCycle(C, f)
  <2>1. CASE Cardinality(C) > 1
    <3>1. C # {f}
      BY <2>1, FS_Singleton
    <3>2. PICK w \in C : w # f
      BY <3>1
    <3>3. f \in Reaches(f)
      BY <3>2, ReachesTransitive
    <3> QED
      BY <1>1, <3>3, ReachesTransitive
  <2>2. CASE f \in summaries_[f].callees
    <3>1. f \in Reaches(f)
      BY <2>2, ReachesCalls DEF Calls
    <3> QED
      BY <1>1, <3>1, ReachesTransitive
  <2> QED
    BY <1>1, <2>1, <2>2 DEF IsCycle
<1>2. CASE ~IsCycle(C, f)
  <2>1. Cardinality(C) \in Nat /\ ~(Cardinality(C) > 1)
    BY <1>2, FS_CardinalityType DEF IsCycle
  <2>2. IsFiniteSet(C \ {f}) /\ Cardinality(C \ {f}) = Cardinality(C) - 1
    BY FS_RemoveElement
  <2>3. Cardinality(C \ {f}) \in Nat
    BY <2>2, FS_CardinalityType
  <2>4. Cardinality(C \ {f}) = 0
    BY <2>1, <2>2, <2>3
  <2>5. C \ {f} = {}
    BY <2>2, <2>4, FS_EmptySet
  <2>6. Calls(f) \subseteq Complete
    BY <1>2, <2>5 DEF IsCycle, Calls
  <2>7. Complete \in SUBSET Known /\ \A h \in Complete : Calls(h) \subseteq Complete
    BY DEF DfsInv, Numbered, CompleteClosed, Complete
  <2>8. Reaches(f) \subseteq Complete
    BY <2>6, <2>7, ReachesLeast
  <2> QED
    BY <1>2, <2>5, <2>8
<1> QED
  BY <1>1, <1>2

\* The end of a root's activation keeps the invariant: its segment is a whole
\* component, which becomes complete and is marked if it is a cycle.
LEMMA RootKeeps ==
  ASSUME IndTypeOK, DfsInv, UNCHANGED <<summaries_, index>>, StackOrdered',
         frames # << >>, Top.left = {},
         lowlink[Top.node] = index[Top.node],
         frames' = SubSeq(frames, 1, Len(frames) - 1),
         lowlink' = IF Len(frames) - 1 = 0 THEN lowlink
                    ELSE [lowlink EXCEPT ![frames[Len(frames) - 1].node] =
                            Min2(@, lowlink[Top.node])],
         NEW C, C = {v \in OnStack : index[Top.node] <= index[v]},
         OnStack' = {v \in OnStack : ~(index[Top.node] <= index[v])},
         recursive' = IF IsCycle(C, Top.node) THEN recursive \cup C ELSE recursive
  PROVE  DfsInv'
PROOF
<1>1. PICK n : n = Len(frames)
  OBVIOUS
<1>2. /\ n \in Nat \ {0} /\ DOMAIN frames = 1..n /\ n \in 1..n
      /\ DOMAIN frames' = 1..(n - 1)
      /\ n # 1 => frames' # << >>
      /\ \A k \in 1..(n - 1) : k \in 1..n /\ k < n /\ k # n
                               /\ frames'[k] = frames[k] /\ Node(k)' = Node(k)
      /\ \A k \in 1..n : k = n \/ k \in 1..(n - 1)
      /\ Top.node = Node(n) /\ frames[n].left = {}
      /\ \A v : Dealt(v)' \subseteq Dealt(v)
  BY <1>1, LeaveFrames
<1>3. /\ \A j, k \in 1..n : j < k => /\ index[Node(j)] < index[Node(k)]
                                     /\ Node(k) \in Reaches(Node(j))
      /\ \A k \in 1..n : Node(k) \in OnStack /\ Node(k) \in Names
      /\ \A v \in OnStack : v \in Visited /\ v \in Known /\ v \in Names
      /\ \A v \in Names : index[v] \in Int /\ lowlink[v] \in Int
  BY <1>1, LeaveFrames
<1>4. PICK f : f = Node(n)
  OBVIOUS
<1>5. /\ f \in OnStack /\ index[f] \in Int /\ lowlink[f] = index[f]
      /\ C = {v \in OnStack : index[f] <= index[v]}
      /\ OnStack' = {v \in OnStack : ~(index[f] <= index[v])}
      /\ recursive' = IF IsCycle(C, f) THEN recursive \cup C ELSE recursive
  BY <1>2, <1>3, <1>4
<1>6. /\ Known' = Known
      /\ \A v : Reaches(v)' = Reaches(v)
      /\ \A v : Calls(v)' = Calls(v)
  BY SameGraph
<1>7. /\ Visited' = Visited /\ index' = index /\ summaries_' = summaries_
      /\ \A v \in OnStack' : v \in OnStack /\ index[v] < index[f]
      /\ \A v \in OnStack : v \in OnStack' \/ v \in C
  BY <1>3, <1>5 DEF Visited
<1>8. Complete' = Complete \cup C /\ C \cap Complete = {} /\ f \in C
      /\ C \subseteq Known
  BY <1>3, <1>5, <1>7 DEF Complete
<1>9. C \subseteq Segment(n)
  <2>1. \A m \in 1..n : ~(n < m)
    BY <1>2
  <2> QED
    BY <1>2, <1>4, <1>5, <2>1 DEF Segment
<1>10. \A k \in 1..(n - 1) : Node(k) \in OnStack' /\ index[Node(k)] < index[f]
                             /\ Node(k) \notin C
  <2> TAKE k \in 1..(n - 1)
  <2>1. index[Node(k)] < index[f] /\ index[Node(k)] \in Int /\ Node(k) \in OnStack
    BY <1>2, <1>3, <1>4
  <2>2. ~(index[f] <= index[Node(k)])
    BY <1>5, <2>1
  <2> QED
    BY <1>5, <2>1, <2>2
<1>11. ASSUME NEW v \in C PROVE Calls(v) \subseteq Complete \cup C
  <2> SUFFICES ASSUME NEW h \in Calls(v) PROVE h \in Complete \cup C
    OBVIOUS
  <2>1. \A k \in 1..n : Node(k) = v => frames[k].left = {}
    BY <1>2, <1>10
  <2>2. h \in Dealt(v)
    BY <1>2, <2>1 DEF Dealt
  <2>3. v \in Visited /\ v \in Segment(n)
    BY <1>3, <1>5, <1>9
  <2>4. h \in Visited
    BY <2>2, <2>3 DEF DfsInv, DealtVisited
  <2>5. h \in OnStack => index[f] <= index[h]
    BY <1>2, <1>4, <1>5, <2>2, <2>3 DEF DfsInv, Links
  <2> QED
    BY <1>5, <2>4, <2>5 DEF Complete
<1>12. \A v \in C : v = f \/ (v \in Reaches(f) /\ f \in Reaches(v))
  BY <1>2, <1>4, <1>9 DEF DfsInv, Segments
<1>13. \A v \in C : v \in Reaches(v) <=> IsCycle(C, f)
  <2>1. IsFiniteSet(C)
    <3>1. C \subseteq Names
      BY <1>3, <1>5
    <3> QED
      BY <3>1, NamesAssumption, FS_Subset
  <2>2. f \in Known /\ f \in C /\ C \in SUBSET Known /\ C \cap Complete = {}
    BY <1>8
  <2> QED
    BY <1>11, <1>12, <2>1, <2>2, CycleTest
<1>14. Numbered'
  BY <1>6, <1>7 DEF DfsInv, Numbered
<1>15. DealtVisited'
  BY <1>2, <1>7 DEF DfsInv, DealtVisited
<1>16. CompleteClosed'
  BY <1>6, <1>8, <1>11 DEF DfsInv, CompleteClosed
<1>17. Marked'
  <2>1. recursive \subseteq Complete /\ \A v \in Complete : v \in recursive <=> v \in Reaches(v)
    BY DEF DfsInv, Marked
  <2>2. recursive' \subseteq Complete'
    BY <1>5, <1>8, <2>1
  <2>3. \A v \in Complete' : v \in recursive' <=> v \in Reaches(v)
    BY <1>5, <1>8, <1>13, <2>1
  <2> QED
    BY <1>6, <2>2, <2>3 DEF Marked
<1>18. \A k \in 1..(n - 1) : Segment(k)' \subseteq Segment(k)
  <2> SUFFICES ASSUME NEW k \in 1..(n - 1), NEW v \in Segment(k)'
               PROVE  v \in Segment(k)
    OBVIOUS
  <2>1. /\ v \in OnStack' /\ index[Node(k)] <= index[v]
        /\ \A m \in 1..(n - 1) : k < m => index[v] < index[Node(m)]
    BY <1>2, <1>7 DEF Segment
  <2>2. v \in OnStack /\ index[v] < index[Node(n)]
    BY <1>4, <1>7, <2>1
  <2> QED
    BY <1>2, <2>1, <2>2 DEF Segment
<1>19. Segments'
  <2> SUFFICES ASSUME NEW k \in 1..(n - 1), NEW v \in Segment(k)'
               PROVE  v = Node(k)' \/ (v \in Reaches(Node(k)') /\ Node(k)' \in Reaches(v))
    BY <1>2, <1>6 DEF Segments
  <2>1. v \in Segment(k) /\ Node(k)' = Node(k)
    BY <1>2, <1>18
  <2>2. \A m \in 1..n : \A u \in Segment(m) :
          u = Node(m) \/ (u \in Reaches(Node(m)) /\ Node(m) \in Reaches(u))
    BY <1>2 DEF DfsInv, Segments
  <2> QED
    BY <1>2, <2>1, <2>2
<1>20. FramesOrdered'
  <2>1. \A k \in 1..(n - 1) :
          /\ Node(k)' \in OnStack'
          /\ frames'[k].left \subseteq summaries_'[Node(k)'].callees
    <3>1. \A k \in 1..n : frames[k].left \subseteq summaries_[Node(k)].callees
      BY <1>2 DEF DfsInv, FramesOrdered
    <3> QED
      BY <1>2, <1>7, <1>10, <3>1
  <2>2. \A j, k \in 1..(n - 1) : j < k => /\ index'[Node(j)'] < index'[Node(k)']
                                         /\ Node(k)' \in Reaches(Node(j)')
    BY <1>2, <1>3, <1>7
  <2>3. ASSUME NEW v \in OnStack'
        PROVE  frames' # << >> /\ index'[Node(1)'] <= index'[v]
    <3>1. v \in OnStack /\ index[Node(1)] <= index[v] /\ index[v] < index[f]
      BY <1>7 DEF DfsInv, FramesOrdered
    <3>2. n # 1
      BY <1>3, <1>4, <1>5, <3>1
    <3>3. 1 \in 1..(n - 1)
      BY <1>2, <3>2
    <3> QED
      BY <1>2, <1>7, <3>1, <3>2, <3>3
  <2> QED
    BY <1>2, <1>6, <2>1, <2>2, <2>3 DEF FramesOrdered
<1>21. \A k \in 1..(n - 1) : lowlink'[Node(k)] = lowlink[Node(k)]
  <2> TAKE k \in 1..(n - 1)
  <2>1. n - 1 # 0 /\ n - 1 \in 1..(n - 1)
    BY <1>2
  <2>2. lowlink' = [lowlink EXCEPT ![Node(n - 1)] = Min2(@, lowlink[f])]
    BY <1>1, <1>2, <1>4, <2>1 DEF Node
  <2>3. lowlink[Node(n - 1)] <= index[Node(n - 1)]
        /\ index[Node(n - 1)] < index[f]
        /\ index[Node(n - 1)] \in Int /\ lowlink[Node(n - 1)] \in Int
    BY <1>2, <1>3, <1>10, <2>1 DEF DfsInv, Links
  <2>4. Min2(lowlink[Node(n - 1)], lowlink[f]) = lowlink[Node(n - 1)]
    BY <1>5, <2>3 DEF Min2
  <2>5. lowlink' = [lowlink EXCEPT ![Node(n - 1)] = lowlink[Node(n - 1)]]
    BY <2>2, <2>4
  <2> QED
    BY <1>2, <1>3, <2>5 DEF IndTypeOK, TypeOK
<1>22. Links'
  <2> SUFFICES ASSUME NEW k \in 1..(n - 1)
               PROVE  /\ lowlink'[Node(k)'] <= index'[Node(k)']
                      /\ \A v \in Segment(k)' : \A w \in Dealt(v)' \cap OnStack' :
                           lowlink'[Node(k)'] <= index'[w]
                      /\ \E u \in OnStack' :
                           /\ index'[u] = lowlink'[Node(k)']
                           /\ u = Node(k)' \/ u \in Reaches(Node(k)')
    BY <1>2, <1>6 DEF Links
  <2>1. /\ lowlink[Node(k)] <= index[Node(k)]
        /\ \A v \in Segment(k) : \A w \in Dealt(v) \cap OnStack :
             lowlink[Node(k)] <= index[w]
        /\ \E u \in OnStack : /\ index[u] = lowlink[Node(k)]
                              /\ u = Node(k) \/ u \in Reaches(Node(k))
    BY <1>2 DEF DfsInv, Links
  <2>2. Node(k)' = Node(k) /\ lowlink'[Node(k)'] = lowlink[Node(k)] /\ index' = index
    BY <1>2, <1>7, <1>21
  <2>3. PICK u \in OnStack : /\ index[u] = lowlink[Node(k)]
                             /\ u = Node(k) \/ u \in Reaches(Node(k))
    BY <2>1
  <2>4. u \in OnStack'
    <3>1. index[Node(k)] \in Int /\ index[u] \in Int /\ index[Node(k)] < index[f]
          /\ index[u] <= index[Node(k)]
      BY <1>2, <1>3, <1>10, <2>1, <2>3
    <3>2. ~(index[f] <= index[u])
      BY <1>5, <3>1
    <3> QED
      BY <1>5, <3>2
  <2>5. \A v \in Segment(k)' : \A w \in Dealt(v)' \cap OnStack' :
          lowlink[Node(k)] <= index[w]
    BY <1>2, <1>7, <1>18, <2>1
  <2> QED
    BY <2>1, <2>2, <2>3, <2>4, <2>5
<1> QED
  BY <1>14, <1>15, <1>16, <1>17, <1>19, <1>20, <1>22 DEF DfsInv

\* Every step keeps the invariant of the search.
LEMMA CycleStep == IndTypeOK /\ CycleInv /\ [Next]_vars => CycleInv'
PROOF
<1> SUFFICES ASSUME IndTypeOK, CycleInv, [Next]_vars PROVE CycleInv'
  OBVIOUS
<1>1. CASE AnalyzeFunction
  <2>1. /\ phase = "analyze" /\ phase' = "analyze"
        /\ UNCHANGED <<index, stack, frames, recursive>>
    BY <1>1 DEF AnalyzeFunction, cycleVars
  <2>2. Visited' = Visited
    BY <2>1 DEF Visited
  <2> QED
    BY <2>1, <2>2 DEF CycleInv, CyclesFound
<1>2. CASE BuildCallGraphEdges
  <2>1. /\ phase = "analyze" /\ phase' = "cycles"
        /\ UNCHANGED <<index, stack, frames, recursive>>
    BY <1>2 DEF BuildCallGraphEdges, cycleVars
  <2>2. Visited' = {} /\ stack' = << >> /\ frames' = << >> /\ recursive' = {}
    BY <2>1 DEF CycleInv, Visited
  <2>3. OnStack' = {} /\ Complete' = {} /\ DOMAIN frames' = {} /\ DOMAIN stack' = {}
    <3>1. DOMAIN frames' = {} /\ DOMAIN stack' = {}
      BY <2>2
    <3> QED
      BY <2>2, <3>1 DEF OnStack, Complete
  <2>4. Numbered' /\ StackOrdered' /\ FramesOrdered' /\ DealtVisited'
    BY <2>2, <2>3 DEF Numbered, StackOrdered, FramesOrdered, DealtVisited
  <2>5. CompleteClosed' /\ Links' /\ Segments' /\ Marked'
    BY <2>2, <2>3 DEF CompleteClosed, Links, Segments, Marked
  <2> QED
    BY <2>1, <2>4, <2>5 DEF CycleInv, CyclesFound, DfsInv
<1>3. CASE VisitRoot
  <2>1. /\ phase = "cycles" /\ phase' = "cycles" /\ frames = << >>
        /\ UNCHANGED <<summaries_, recursive>>
    BY <1>3 DEF VisitRoot, inputVars
  <2>2. PICK f \in Known : IsFirst(f, Known \ Visited) /\ Enter(f, frames)
    BY <1>3 DEF VisitRoot
  <2>3. f \in Known \ Visited
    BY <2>2 DEF IsFirst
  <2>4. frames \in Seq(Activations) /\ DOMAIN frames = {}
    BY <2>1 DEF IndTypeOK, TypeOK
  <2>5. DfsInv
    BY <2>1 DEF CycleInv
  <2>6. DfsInv'
    BY <2>1, <2>2, <2>3, <2>4, <2>5, EnterKeeps
  <2> QED
    BY <2>1, <2>6 DEF CycleInv, CyclesFound
<1>4. CASE VisitCallee
  <2>1. /\ phase = "cycles" /\ phase' = "cycles" /\ frames # << >>
        /\ UNCHANGED <<summaries_, recursive>>
    BY <1>4 DEF VisitCallee, inputVars
  <2>2. PICK g \in Names :
          /\ IsFirst(g, Top.left)
          /\ \/ g \in Known \ Visited /\ Enter(g, Advance(g))
             \/ /\ g \in OnStack
                /\ lowlink' = [lowlink EXCEPT ![Top.node] = Min2(@, index[g])]
                /\ frames' = Advance(g)
                /\ UNCHANGED <<index, stack>>
             \/ /\ g \notin Known \/ (g \in Visited /\ g \notin OnStack)
                /\ frames' = Advance(g)
                /\ UNCHANGED <<index, lowlink, stack>>
    BY <1>4 DEF VisitCallee, OnStack
  <2>3. DfsInv /\ g \in Top.left
    BY <2>1, <2>2 DEF CycleInv, IsFirst
  <2>4. OnStack \subseteq Known /\ OnStack \subseteq Visited
    BY <2>3, StackTypes
  <2>5. CASE g \in Known \ Visited /\ Enter(g, Advance(g))
    <3>1. PICK n : n = Len(frames)
      OBVIOUS
    <3>2. /\ n \in Nat \ {0} /\ DOMAIN frames = 1..n
          /\ Advance(g) \in Seq(Activations) /\ Len(Advance(g)) = n
          /\ \A k \in 1..n :
               /\ Advance(g)[k].node = Node(k)
               /\ Advance(g)[k].left =
                    IF k = n THEN frames[k].left \ {g} ELSE frames[k].left
      BY <2>1, <2>3, <3>1, AdvanceFrames
    <3>3. n \in 1..n /\ Top = frames[n]
      BY <3>1, <3>2 DEF Top
    <3>4. g \in Reaches(Node(n))
      <4>1. g \in Calls(Node(n))
        BY <2>3, <2>5, <3>2, <3>3 DEF DfsInv, FramesOrdered, Calls
      <4> QED
        BY <4>1, ReachesCalls
    <3>5. ASSUME NEW k \in DOMAIN frames
          PROVE  /\ Advance(g)[k].node = Node(k)
                 /\ Advance(g)[k].left \subseteq frames[k].left
                 /\ frames[k].left \subseteq Advance(g)[k].left \cup {g}
                 /\ g \in Reaches(Node(k))
      <4>1. k = n \/ k < n
        BY <3>2
      <4>2. k < n => Node(n) \in Reaches(Node(k))
        BY <2>3, <3>2, <3>3 DEF DfsInv, FramesOrdered
      <4>3. g \in Reaches(Node(k))
        BY <3>4, <4>1, <4>2, ReachesTransitive
      <4> QED
        BY <3>2, <4>3
    <3>6. Len(Advance(g)) = Len(frames)
      BY <3>1, <3>2
    <3>7. DfsInv'
      BY <2>1, <2>3, <2>5, <3>2, <3>5, <3>6, EnterKeeps
    <3> QED
      BY <2>1, <3>7 DEF CycleInv, CyclesFound
  <2>6. CASE ~(g \in Known \ Visited /\ Enter(g, Advance(g)))
    <3>1. /\ frames' = Advance(g) /\ UNCHANGED <<index, stack>>
          /\ g \in Known => g \in Visited
          /\ lowlink' = IF g \in OnStack
                        THEN [lowlink EXCEPT ![Top.node] = Min2(@, index[g])]
                        ELSE lowlink
      BY <2>2, <2>4, <2>6
    <3>2. DfsInv'
      BY <2>1, <2>3, <3>1, AdvanceKeeps
    <3> QED
      BY <2>1, <3>2 DEF CycleInv, CyclesFound
  <2> QED
    BY <2>5, <2>6
<1>5. CASE Leave
  <2>1. /\ phase = "cycles" /\ phase' = "cycles" /\ frames # << >> /\ Top.left = {}
        /\ UNCHANGED <<summaries_, index>>
        /\ frames' = SubSeq(frames, 1, Len(frames) - 1)
        /\ lowlink' = IF Len(frames) - 1 = 0 THEN lowlink
                      ELSE [lowlink EXCEPT ![frames[Len(frames) - 1].node] =
                              Min2(@, lowlink[Top.node])]
    BY <1>5 DEF Leave, inputVars
  <2>2. DfsInv
    BY <2>1 DEF CycleInv
  <2>3. CASE lowlink[Top.node] # index[Top.node]
    <3>1. UNCHANGED <<stack, recursive>>
      BY <1>5, <2>3 DEF Leave
    <3>2. DfsInv'
      BY <2>1, <2>2, <2>3, <3>1, MergeKeeps
    <3> QED
      BY <2>1, <3>2 DEF CycleInv, CyclesFound
  <2>4. CASE lowlink[Top.node] = index[Top.node]
    <3>1. PICK i \in DOMAIN stack :
            /\ stack[i] = Top.node
            /\ stack' = SubSeq(stack, 1, i - 1)
            /\ recursive' = IF IsCycle({stack[j] : j \in i..Len(stack)}, Top.node)
                            THEN recursive \cup {stack[j] : j \in i..Len(stack)}
                            ELSE recursive
      BY <1>5, <2>4 DEF Leave
    <3>2. PICK C : C = {v \in OnStack : index[Top.node] <= index[v]}
      OBVIOUS
    <3>3. /\ {stack[j] : j \in i..Len(stack)} = C
          /\ OnStack' = {v \in OnStack : ~(index[Top.node] <= index[v])}
          /\ StackOrdered'
      BY <2>1, <2>2, <3>1, <3>2, PopComponent
    <3>4. recursive' = IF IsCycle(C, Top.node) THEN recursive \cup C ELSE recursive
      BY <3>1, <3>3
    <3>5. DfsInv'
      BY <2>1, <2>2, <2>4, <3>2, <3>3, <3>4, RootKeeps
    <3> QED
      BY <2>1, <3>5 DEF CycleInv, CyclesFound
  <2> QED
    BY <2>3, <2>4
<1>6. CASE StartPropagation
  <2>1. /\ phase = "cycles" /\ phase' = "propagate" /\ frames = << >>
        /\ Known \subseteq Visited /\ UNCHANGED <<summaries_, recursive>>
    BY <1>6 DEF StartPropagation, inputVars, cycleVars
  <2>2. DfsInv
    BY <2>1 DEF CycleInv
  <2>3. OnStack = {}
    BY <2>1, <2>2 DEF DfsInv, FramesOrdered
  <2>4. Complete = Known
    BY <2>1, <2>2, <2>3 DEF Complete, DfsInv, Numbered
  <2>5. recursive = {f \in Known : f \in Reaches(f)}
    BY <2>2, <2>4 DEF DfsInv, Marked
  <2>6. Known' = Known /\ \A f : Reaches(f)' = Reaches(f)
    BY <2>1, SameGraph
  <2> QED
    BY <2>1, <2>5, <2>6 DEF CycleInv, CyclesFound
<1>7. CASE PropagateSideEffects \/ StartEstimates \/ Estimate \/ EndPass
  <2>1. /\ phase \in {"propagate", "estimate"}
        /\ phase' \in {"propagate", "estimate", "done"}
        /\ UNCHANGED <<summaries_, recursive>>
    BY <1>7 DEF PropagateSideEffects, StartEstimates, Estimate, EndPass, inputVars,
       cycleVars
  <2>2. Known' = Known /\ \A f : Reaches(f)' = Reaches(f)
    BY <2>1, SameGraph
  <2> QED
    BY <2>1, <2>2 DEF CycleInv, CyclesFound
<1>8. CASE UNCHANGED vars
  <2>1. UNCHANGED <<phase, summaries_, index, lowlink, stack, frames, recursive>>
    BY <1>8 DEF vars, inputVars, cycleVars
  <2>2. /\ Known' = Known
        /\ \A f : Reaches(f)' = Reaches(f)
        /\ \A f : Calls(f)' = Calls(f)
    BY <2>1, SameGraph
  <2>3. /\ Visited' = Visited /\ OnStack' = OnStack /\ Complete' = Complete
        /\ \A k : Node(k)' = Node(k)
    BY <2>1 DEF Visited, OnStack, Complete, Node
  <2>4. (\A v : Dealt(v)' = Dealt(v)) /\ (\A k : Segment(k)' = Segment(k))
    BY <2>1, <2>2, <2>3 DEF Dealt, Segment
  <2>5. DfsInv => DfsInv'
    <3> SUFFICES ASSUME DfsInv PROVE DfsInv'
      OBVIOUS
    <3>1. Numbered' /\ StackOrdered' /\ DealtVisited' /\ CompleteClosed' /\ Marked'
      BY <2>1, <2>2, <2>3, <2>4 DEF DfsInv, Numbered, StackOrdered, DealtVisited,
         CompleteClosed, Marked
    <3>2. FramesOrdered' /\ Segments'
      BY <2>1, <2>2, <2>3, <2>4 DEF DfsInv, FramesOrdered, Segments
    <3>3. Links'
      BY <2>1, <2>2, <2>3, <2>4 DEF DfsInv, Links
    <3> QED
      BY <3>1, <3>2, <3>3 DEF DfsInv
  <2> QED
    BY <2>1, <2>2, <2>3, <2>5 DEF CycleInv, CyclesFound
<1> QED
  BY <1>1, <1>2, <1>3, <1>4, <1>5, <1>6, <1>7, <1>8 DEF Next, Done

\* For any call graph, dfsSCC marks exactly the functions that can call
\* themselves again, directly or through others.
THEOREM CyclesCorrect == Spec => []CyclesFound
PROOF
<1>1. Init => CycleInv
  BY DEF Init, CycleInv, CyclesFound, Visited
<1>2. CycleInv => CyclesFound
  BY DEF CycleInv
<1> QED
  BY <1>1, <1>2, CycleStep, IndTypeHolds, PTL DEF Spec

-----------------------------------------------------------------------------
(***************************************************************************)
(* Work estimates: the fixed point loop ends.                              *)
(*                                                                         *)
(* The functions that are not recursive form a graph without cycles.  At   *)
(* any time some of them are settled: their estimates are the final ones,  *)
(* and so are those of everything they count.  A pass that changes an      *)
(* estimate settles at least one more, so there is at most one pass per    *)
(* function and a last one that changes nothing.                           *)
(***************************************************************************)

Estimable == Known \ recursive

\* F is settled, is large enough for the passes made, is not everything if
\* this pass has changed an estimate, and what counts only members of F is
\* estimated once the pass has come by.
Settled(F) ==
  /\ \A f \in F : Counted(f) \subseteq F /\ estimated[f] = Total(f)
  /\ passes - 1 <= Cardinality(F)
  /\ changed => F # Estimable
  /\ \A f \in Estimable \ F :
       Counted(f) \subseteq F /\ f \notin rest => estimated[f] = Total(f)

EstimateInv ==
  /\ estimated \in [Names -> Int]
  /\ phase \in {"analyze", "cycles", "propagate"} =>
       passes = 0 /\ \A f \in Names : estimated[f] \in Nat
  /\ phase \in {"estimate", "done"} =>
       /\ \A f \in recursive : estimated[f] = -1
       /\ \A f \in Estimable : estimated[f] \in Nat
       /\ \E F \in SUBSET Estimable : Settled(F)
  /\ phase \in {"estimate", "done"} /\ ~changed =>
       \A f \in Estimable \ rest : estimated[f] = Total(f)
  /\ phase = "done" => ~changed /\ rest = {}

TotalsAreSums ==
  \A f : Total(f) = summaries_[f].localFlops + SumOf(estimated, Counted(f))

\* A total is the local work and a sum.
LEMMA TotalSum == TotalsAreSums
PROOF
BY DEF TotalsAreSums, Total, SumOf

\* The functions that are counted and what they amount to.
LEMMA CountedFacts ==
  ASSUME TypeOK, \A f \in Estimable : estimated[f] \in Nat, NEW f \in Known
  PROVE  /\ Counted(f) = Calls(f) \ recursive
         /\ Counted(f) \subseteq Estimable
         /\ Total(f) \in Nat
PROOF
<1>1. Counted(f) = Calls(f) \ recursive /\ Counted(f) \subseteq Estimable
  BY DEF Counted, Calls, Estimable
<1>2. IsFiniteSet(Counted(f))
  <2>1. Counted(f) \subseteq Names
    BY DEF Counted, TypeOK
  <2> QED
    BY <2>1, NamesAssumption, FS_Subset
<1>3. \A g \in Counted(f) : estimated[g] \in Nat
  BY <1>1
<1>4. SumOf(estimated, Counted(f)) \in Nat
  BY <1>2, <1>3, SumType
<1>5. summaries_[f].localFlops \in Nat
  BY DEF TypeOK, Summaries
<1>6. Total(f) = summaries_[f].localFlops + SumOf(estimated, Counted(f))
  BY TotalSum DEF TotalsAreSums
<1>7. Total(f) \in Nat
  BY <1>4, <1>5, <1>6
<1> QED
  BY <1>1, <1>7

\* A total changes only if the estimate of a counted function does.
LEMMA SameTotal ==
  ASSUME UNCHANGED <<summaries_, recursive>>, NEW f,
         Counted(f)' = Counted(f),
         \A g \in Counted(f) : estimated'[g] = estimated[g]
  PROVE  Total(f)' = Total(f)
PROOF
<1>1. SumOf(estimated', Counted(f)) = SumOf(estimated, Counted(f))
  BY SameSum
<1>2. TotalsAreSums'
  BY TotalSum, PTL
<1>3. Total(f)' = summaries_[f].localFlops + SumOf(estimated', Counted(f))
  BY <1>2 DEF TotalsAreSums
<1>4. Total(f) = summaries_[f].localFlops + SumOf(estimated, Counted(f))
  BY TotalSum DEF TotalsAreSums
<1> QED
  BY <1>1, <1>3, <1>4

\* Among functions that are not recursive, and of which not all are settled,
\* one counts settled functions only.
LEMMA NextSettled ==
  ASSUME TypeOK, CyclesFound, phase = "estimate",
         \A f \in Estimable : estimated[f] \in Nat,
         NEW F \in SUBSET Estimable, F # Estimable
  PROVE  \E f \in Estimable \ F : Counted(f) \subseteq F
PROOF
<1> DEFINE T == Estimable \ F
           Size(f) == Cardinality(Reaches(f) \cap T)
           Sizes == {Size(f) : f \in T}
<1>1. \A f : IsFiniteSet(Reaches(f) \cap T)
  <2>1. \A f : Reaches(f) \cap T \subseteq Names
    BY DEF TypeOK, Estimable
  <2> QED
    BY <2>1, NamesAssumption, FS_Subset
<1>2. \A f : Size(f) \in Nat
  BY <1>1, FS_CardinalityType
<1>3. T # {} /\ Sizes \in SUBSET Nat /\ Sizes # {}
  BY <1>2
<1>4. PICK f \in T : \A g \in T : Size(f) <= Size(g)
  <2>1. PICK m \in Sizes : \A k \in Sizes : m <= k
    <3> HIDE DEF Sizes
    <3> QED
      BY <1>3, LeastNumber
  <2>2. PICK f \in T : m = Size(f)
    BY <2>1
  <2>3. \A g \in T : Size(g) \in Sizes
    OBVIOUS
  <2> QED
    BY <2>1, <2>2, <2>3
<1>5. SUFFICES ASSUME NEW g \in Counted(f), g \notin F PROVE FALSE
  BY <1>4
<1>6. g \in T /\ g \in Reaches(f)
  BY <1>4, <1>5, CountedFacts, ReachesCalls DEF Estimable
<1>7. g \notin Reaches(g)
  BY <1>6 DEF CyclesFound, Estimable
<1>8. Reaches(g) \cap T \subseteq Reaches(f) \cap T
  BY <1>6, ReachesTransitive
<1>9. Reaches(g) \cap T # Reaches(f) \cap T
  BY <1>6, <1>7
<1>10. Size(g) < Size(f)
  <2>1. Size(g) <= Size(f) /\ Size(g) # Size(f)
    BY <1>1, <1>8, <1>9, FS_Subset
  <2> QED
    BY <1>2, <2>1
<1> QED
  BY <1>2, <1>4, <1>6, <1>10

\* One function's estimate keeps the settled set settled.
LEMMA EstimateSettles ==
  ASSUME TypeOK, UNCHANGED <<summaries_, recursive, passes>>,
         estimated \in [Names -> Int],
         \A h \in Estimable : estimated[h] \in Nat,
         NEW f \in Estimable, rest' = rest \ {f},
         estimated' = [estimated EXCEPT ![f] = Total(f)],
         changed' = (changed \/ Total(f) # estimated[f]),
         NEW F \in SUBSET Estimable, Settled(F)
  PROVE  /\ \A h \in Estimable : estimated'[h] \in Nat
         /\ Settled(F)'
PROOF
<1>1. /\ Known' = Known /\ Estimable' = Estimable
      /\ \A h : Calls(h)' = Calls(h)
  BY SameGraph DEF Estimable
<1>2. /\ f \in Known /\ f \in Names /\ Total(f) \in Nat
      /\ \A h \in Names : h # f => estimated'[h] = estimated[h]
      /\ estimated'[f] = Total(f)
      /\ \A h \in Estimable : h \in Known /\ h \in Names
  BY CountedFacts DEF Estimable, TypeOK
<1>3. \A h \in Estimable : estimated'[h] \in Nat
  BY <1>2
<1>4. \A h \in Estimable : Counted(h)' = Counted(h) /\ Counted(h) \subseteq Estimable
  <2> TAKE h \in Estimable
  <2>1. Counted(h) = Calls(h) \ recursive /\ Counted(h) \subseteq Estimable
    BY <1>2, CountedFacts
  <2>2. Counted(h)' = Calls(h) \ recursive
    BY <1>1, <1>3 DEF Counted, Calls, Estimable
  <2> QED
    BY <2>1, <2>2
<1>5. ASSUME NEW h \in Estimable, f \notin Counted(h) PROVE Total(h)' = Total(h)
  <2>1. \A g \in Counted(h) : estimated'[g] = estimated[g]
    BY <1>2, <1>4, <1>5
  <2> QED
    BY <1>4, <2>1, SameTotal
<1>6. /\ \A h \in F : Counted(h) \subseteq F /\ estimated[h] = Total(h)
      /\ passes - 1 <= Cardinality(F)
      /\ changed => F # Estimable
      /\ \A h \in Estimable \ F :
           Counted(h) \subseteq F /\ h \notin rest => estimated[h] = Total(h)
  BY DEF Settled
<1>7. CASE Total(f) = estimated[f]
  <2>1. estimated' = estimated /\ changed' = changed
    BY <1>2, <1>7 DEF TypeOK
  <2>2. \A h \in Estimable : Total(h)' = Total(h)
    BY <1>4, <2>1, SameTotal
  <2>3. \A h \in Estimable \ F :
          Counted(h) \subseteq F /\ h \notin rest' => estimated[h] = Total(h)
    BY <1>6, <1>7
  <2>4. Settled(F)'
    BY <1>1, <1>4, <1>6, <2>1, <2>2, <2>3 DEF Settled
  <2> QED
    BY <1>3, <2>4
<1>8. CASE Total(f) # estimated[f]
  <2>1. f \notin F
    BY <1>6, <1>8
  <2>2. \A h \in F : Counted(h)' \subseteq F /\ estimated'[h] = Total(h)'
    BY <1>2, <1>4, <1>5, <1>6, <2>1
  <2>3. ASSUME NEW h \in Estimable \ F, Counted(h) \subseteq F, h \notin rest'
        PROVE  estimated'[h] = Total(h)'
    <3>1. Total(h)' = Total(h)
      BY <1>5, <2>1, <2>3
    <3> QED
      BY <1>2, <1>6, <2>3, <3>1
  <2>4. F # Estimable
    BY <2>1
  <2>5. Settled(F)'
    BY <1>1, <1>4, <1>6, <2>2, <2>3, <2>4 DEF Settled
  <2> QED
    BY <1>3, <2>5
<1> QED
  BY <1>7, <1>8

\* Totals and estimable functions if no estimate changes.
LEMMA SameEstimates ==
  ASSUME UNCHANGED <<summaries_, recursive, estimated>>
  PROVE  /\ Known' = Known /\ Estimable' = Estimable
         /\ \A f : Counted(f)' = Counted(f)
         /\ \A f : Total(f)' = Total(f)
PROOF
<1>1. Known' = Known
  BY DEF Known
<1>2. Estimable' = Estimable /\ \A f : Counted(f)' = Counted(f)
  BY <1>1 DEF Estimable, Counted
<1>3. ASSUME NEW f PROVE Total(f)' = Total(f)
  BY <1>2, SameTotal
<1> QED
  BY <1>1, <1>2, <1>3

\* Every step keeps the invariant of the estimates.
LEMMA EstimateStep ==
  TypeOK /\ CyclesFound /\ EstimateInv /\ [Next]_vars => EstimateInv'
PROOF
<1> SUFFICES ASSUME TypeOK, CyclesFound, EstimateInv, [Next]_vars
             PROVE  EstimateInv'
  OBVIOUS
<1>1. CASE AnalyzeFunction
  <2>1. /\ phase = "analyze" /\ phase' = "analyze" /\ passes' = passes
        /\ decls # << >>
        /\ \/ estimated' = estimated
           \/ estimated' = [estimated EXCEPT ![Head(decls).name] =
                              Summary(Head(decls)).localFlops]
    BY <1>1 DEF AnalyzeFunction
  <2>2. decls \in Seq(Declarations)
    BY DEF TypeOK
  <2>3. Head(decls) \in Declarations
    BY <2>1, <2>2
  <2>4. Summary(Head(decls)).localFlops \in Nat
    BY <2>3, SummaryType DEF Summaries
  <2>5. /\ estimated \in [Names -> Int] /\ passes = 0
        /\ \A f \in Names : estimated[f] \in Nat
    BY <2>1 DEF EstimateInv
  <2>6. /\ estimated' \in [Names -> Int]
        /\ \A f \in Names : estimated'[f] \in Nat
    BY <2>1, <2>4, <2>5
  <2> QED
    BY <2>1, <2>5, <2>6 DEF EstimateInv
<1>2. CASE \/ BuildCallGraphEdges \/ VisitRoot \/ VisitCallee \/ Leave
           \/ StartPropagation \/ PropagateSideEffects
  <2>1. /\ phase \in {"analyze", "cycles", "propagate"}
        /\ phase' \in {"analyze", "cycles", "propagate"}
        /\ UNCHANGED <<estimated, passes>>
    BY <1>2 DEF BuildCallGraphEdges, VisitRoot, VisitCallee, Leave, StartPropagation,
       PropagateSideEffects, estimateVars
  <2> QED
    BY <2>1 DEF EstimateInv
<1>3. CASE StartEstimates
  <2>1. /\ phase = "propagate" /\ phase' = "estimate"
        /\ estimated' = [f \in Names |-> IF f \in recursive THEN -1 ELSE estimated[f]]
        /\ rest' = Known /\ changed' = FALSE /\ passes' = 1
        /\ UNCHANGED <<summaries_, recursive>>
    BY <1>3 DEF StartEstimates, inputVars, cycleVars
  <2>2. Known' = Known /\ Estimable' = Known \ recursive
    BY <2>1 DEF Known, Estimable
  <2>3. \A f \in Names : estimated[f] \in Nat
    BY <2>1 DEF EstimateInv
  <2>4. estimated' \in [Names -> Int]
    BY <2>1, <2>3
  <2>5. /\ \A f \in recursive' : estimated'[f] = -1
        /\ \A f \in Estimable' : estimated'[f] \in Nat
    BY <2>1, <2>2, <2>3 DEF TypeOK
  <2>6. Settled({})'
    <3>1. passes' - 1 <= Cardinality({})
      BY <2>1, FS_EmptySet
    <3> QED
      BY <2>1, <2>2, <3>1 DEF Settled
  <2>7. \E F \in SUBSET Estimable' : Settled(F)'
    BY <2>6
  <2> QED
    BY <2>1, <2>2, <2>4, <2>5, <2>7 DEF EstimateInv
<1>4. CASE Estimate
  <2>1. PICK f \in rest :
          /\ phase = "estimate" /\ phase' = "estimate"
          /\ rest' = rest \ {f}
          /\ IF f \notin recursive /\ Total(f) # estimated[f]
             THEN /\ estimated' = [estimated EXCEPT ![f] = Total(f)]
                  /\ changed' = TRUE
             ELSE UNCHANGED <<estimated, changed>>
          /\ UNCHANGED <<summaries_, recursive, passes>>
    BY <1>4 DEF Estimate, inputVars, cycleVars
  <2>2. /\ estimated \in [Names -> Int]
        /\ \A h \in recursive : estimated[h] = -1
        /\ \A h \in Estimable : estimated[h] \in Nat
        /\ ~changed => \A h \in Estimable \ rest : estimated[h] = Total(h)
    BY <2>1 DEF EstimateInv
  <2>3. PICK F \in SUBSET Estimable : Settled(F)
    BY <2>1 DEF EstimateInv
  <2>4. f \in Known /\ f \in Names /\ recursive \subseteq Names /\ changed \in BOOLEAN
    BY DEF TypeOK
  <2>5. Known' = Known /\ Estimable' = Estimable
    BY <2>1 DEF Known, Estimable
  <2>6. CASE f \in recursive
    <3>1. UNCHANGED <<estimated, changed>>
      BY <2>1, <2>6
    <3>2. (\A h : Counted(h)' = Counted(h)) /\ (\A h : Total(h)' = Total(h))
      BY <2>1, <3>1, SameEstimates
    <3>3. \A h \in Estimable : h \in rest' <=> h \in rest
      BY <2>1, <2>6 DEF Estimable
    <3>4. Settled(F)'
      BY <2>1, <2>3, <2>5, <3>1, <3>2, <3>3 DEF Settled
    <3>5. \E G \in SUBSET Estimable' : Settled(G)'
      BY <2>5, <3>4
    <3>6. ~changed' => \A h \in Estimable' \ rest' : estimated'[h] = Total(h)'
      BY <2>2, <2>5, <3>1, <3>2, <3>3
    <3> QED
      BY <2>1, <2>2, <2>5, <3>1, <3>5, <3>6 DEF EstimateInv
  <2>7. CASE f \notin recursive
    <3>1. f \in Estimable
      BY <2>4, <2>7 DEF Estimable
    <3>2. estimated' = [estimated EXCEPT ![f] = Total(f)]
      BY <2>1, <2>2, <2>4, <2>7
    <3>3. changed' = (changed \/ Total(f) # estimated[f])
      BY <2>1, <2>4, <2>7
    <3>4. (\A h \in Estimable : estimated'[h] \in Nat) /\ Settled(F)'
      BY <2>1, <2>2, <2>3, <3>1, <3>2, <3>3, EstimateSettles
    <3>5. \E G \in SUBSET Estimable' : Settled(G)'
      BY <2>5, <3>4
    <3>6. Total(f) \in Nat
      BY <2>2, <2>4, CountedFacts
    <3>7. estimated' \in [Names -> Int]
      <4>1. PICK t \in Int : t = Total(f)
        BY <3>6
      <4>2. estimated' = [estimated EXCEPT ![f] = t]
        BY <3>2, <4>1
      <4> QED
        BY <2>2, <2>4, <4>2
    <3>8. \A h \in recursive' : estimated'[h] = -1
      BY <2>1, <2>2, <2>4, <2>7, <3>2
    <3>9. ~changed' => \A h \in Estimable' \ rest' : estimated'[h] = Total(h)'
      <4> SUFFICES ASSUME ~changed', NEW h \in Estimable \ rest'
                   PROVE  estimated'[h] = Total(h)'
        BY <2>5
      <4>1. ~changed /\ Total(f) = estimated[f] /\ estimated' = estimated
        BY <2>1, <2>4, <2>7
      <4>2. Total(h)' = Total(h)
        BY <2>1, <4>1, SameEstimates
      <4>3. h = f \/ h \in Estimable \ rest
        BY <2>1
      <4> QED
        BY <2>2, <4>1, <4>2, <4>3
    <3> QED
      BY <2>1, <2>5, <3>4, <3>5, <3>7, <3>8, <3>9 DEF EstimateInv
  <2> QED
    BY <2>6, <2>7
<1>5. CASE EndPass
  <2>1. /\ phase = "estimate" /\ rest = {}
        /\ UNCHANGED <<summaries_, recursive, estimated>>
    BY <1>5 DEF EndPass, inputVars, cycleVars
  <2>2. /\ estimated \in [Names -> Int]
        /\ \A h \in recursive : estimated[h] = -1
        /\ \A h \in Estimable : estimated[h] \in Nat
        /\ ~changed => \A h \in Estimable \ rest : estimated[h] = Total(h)
    BY <2>1 DEF EstimateInv
  <2>3. /\ Known' = Known /\ Estimable' = Estimable
        /\ \A f : Counted(f)' = Counted(f)
        /\ \A f : Total(f)' = Total(f)
    BY <2>1, SameEstimates
  <2>4. PICK F \in SUBSET Estimable : Settled(F)
    BY <2>1 DEF EstimateInv
  <2>5. CASE changed
    <3>1. phase' = phase /\ rest' = Known /\ changed' = FALSE /\ passes' = passes + 1
      BY <1>5, <2>5 DEF EndPass
    <3>2. F # Estimable
      BY <2>4, <2>5 DEF Settled
    <3>3. PICK f \in Estimable \ F : Counted(f) \subseteq F
      BY <2>1, <2>2, <3>2, NextSettled
    <3>4. estimated[f] = Total(f)
      BY <2>1, <2>4, <3>3 DEF Settled
    <3>5. passes' - 1 <= Cardinality(F \cup {f})
      <4>1. F \subseteq Names
        BY DEF Estimable, TypeOK
      <4>2. IsFiniteSet(F)
        BY <4>1, NamesAssumption, FS_Subset
      <4>3. Cardinality(F) \in Nat /\ Cardinality(F \cup {f}) = Cardinality(F) + 1
        BY <3>3, <4>2, FS_CardinalityType, FS_AddElement
      <4>4. passes - 1 <= Cardinality(F) /\ passes \in Nat
        BY <2>4 DEF Settled, TypeOK
      <4> QED
        BY <3>1, <4>3, <4>4
    <3>6. \A h \in F \cup {f} : Counted(h) \subseteq F \cup {f} /\ estimated[h] = Total(h)
      BY <2>4, <3>3, <3>4 DEF Settled
    <3>7. Settled(F \cup {f})'
      <4>1. \A h \in Estimable : h \in rest'
        BY <3>1 DEF Estimable
      <4> QED
        BY <2>1, <2>3, <3>1, <3>5, <3>6, <4>1 DEF Settled
    <3>8. \E G \in SUBSET Estimable' : Settled(G)'
      <4>1. F \cup {f} \in SUBSET Estimable'
        BY <2>3, <3>3
      <4> QED
        BY <3>7, <4>1
    <3>9. \A h \in Estimable' : h \in rest'
      BY <2>3, <3>1 DEF Estimable
    <3> QED
      BY <2>1, <2>2, <2>3, <3>1, <3>8, <3>9 DEF EstimateInv
  <2>6. CASE ~changed
    <3>1. phase' = "done" /\ UNCHANGED <<rest, changed, passes>>
      BY <1>5, <2>6 DEF EndPass
    <3>2. Settled(F)'
      BY <2>1, <2>3, <2>4, <3>1 DEF Settled
    <3>3. \E G \in SUBSET Estimable' : Settled(G)'
      BY <2>3, <3>2
    <3> QED
      BY <2>1, <2>2, <2>3, <2>6, <3>1, <3>3 DEF EstimateInv
  <2> QED
    BY <2>5, <2>6
<1>6. CASE UNCHANGED vars
  <2>1. UNCHANGED <<phase, summaries_, recursive, estimated, rest, changed, passes>>
    BY <1>6 DEF vars, inputVars, cycleVars, estimateVars
  <2>2. /\ Known' = Known /\ Estimable' = Estimable
        /\ \A f : Counted(f)' = Counted(f)
        /\ \A f : Total(f)' = Total(f)
    BY <2>1, SameEstimates
  <2>3. \A F : Settled(F)' <=> Settled(F)
    BY <2>1, <2>2 DEF Settled
  <2> QED
    BY <2>1, <2>2, <2>3 DEF EstimateInv
<1> QED
  BY <1>1, <1>2, <1>3, <1>4, <1>5, <1>6 DEF Next, Done

\* For any call graph, the fixed point loop of the estimates ends after at most
\* one pass per function and a last one, with each estimate the local work plus
\* that of the callees that are not recursive.
THEOREM EstimatesCorrect == Spec => []EstimatesSettle
PROOF
<1>1. Init => EstimateInv
  BY DEF Init, EstimateInv
<1>2. TypeOK /\ EstimateInv => EstimatesSettle
  <2> SUFFICES ASSUME TypeOK, EstimateInv PROVE EstimatesSettle
    OBVIOUS
  <2>1. IsFiniteSet(Known) /\ Cardinality(Known) \in Nat
    BY NamesAssumption, FS_Subset, FS_CardinalityType DEF TypeOK
  <2>2. passes <= Cardinality(Known) + 1
    <3>1. CASE phase \in {"analyze", "cycles", "propagate"}
      BY <2>1, <3>1 DEF EstimateInv
    <3>2. CASE phase \in {"estimate", "done"}
      <4>1. PICK F \in SUBSET Estimable : Settled(F)
        BY <3>2 DEF EstimateInv
      <4>2. F \in SUBSET Known
        BY DEF Estimable
      <4>3. IsFiniteSet(F) /\ Cardinality(F) <= Cardinality(Known)
        BY <2>1, <4>2, FS_Subset
      <4>4. Cardinality(F) \in Nat /\ passes - 1 <= Cardinality(F) /\ passes \in Nat
        BY <4>1, <4>3, FS_CardinalityType DEF Settled, TypeOK
      <4> QED
        BY <2>1, <4>3, <4>4
    <3> QED
      BY <3>1, <3>2 DEF TypeOK
  <2>3. ASSUME phase = "done", NEW f \in Known
        PROVE  IF f \in recursive THEN estimated[f] = -1
               ELSE estimated[f] = Total(f) /\ estimated[f] >= 0
    <3>1. f \notin recursive => estimated[f] = Total(f) /\ estimated[f] \in Nat
      BY <2>3 DEF EstimateInv, Estimable
    <3>2. f \in recursive => estimated[f] = -1
      BY <2>3 DEF EstimateInv
    <3> QED
      BY <3>1, <3>2
  <2> QED
    BY <2>2, <2>3 DEF EstimatesSettle
<1> QED
  BY <1>1, <1>2, EstimateStep, TypeCorrect, CyclesCorrect, PTL DEF Spec
=============================================================================
