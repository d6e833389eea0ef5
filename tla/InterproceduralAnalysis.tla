----------------------- MODULE InterproceduralAnalysis -----------------------
(***************************************************************************)
(* loomX's side-effect analysis: InterproceduralAnalysis::analyzeProject    *)
(* and the verdicts isSafeForParallelLoop and isFunctionSafe based on it.   *)
(*                                                                         *)
(* A project is the sequence of function declarations in the order of the  *)
(* AST traversal.  A declaration has a name and a body, or NoBody.  A body *)
(* is what the analysis can find in the AST:                               *)
(*   calls     names of the functions it calls                             *)
(*   indirect  whether it calls through a pointer that is not resolved     *)
(*   stores    kinds of variables that outlive the call and are assigned   *)
(*   writes    writes through pointer parameters: the parameter, the       *)
(*             position of the scalar parameter that indexes it (or NoIndex)*)
(*             and the constant added to it, as in p[i + 1]                *)
(*   work      its own work, in FLOPs                                      *)
(***************************************************************************)
EXTENDS Integers, Sequences, FiniteSets, FiniteSetsExt

CONSTANTS
  Names,     \* function names; std::map visits them in the order of Int
  Pure,      \* the names of getPureStdlibFunctions
  Impure,    \* the names of getImpureStdlibFunctions
  Bodies,    \* the function bodies that can occur
  Projects,  \* the projects that are analysed
  NoBody     \* a declaration without a definition

NoIndex == -1

Declarations == [name : Names, body : Bodies \cup {NoBody}]

ASSUME NamesAssumption ==
  /\ Names \subseteq Int /\ IsFiniteSet(Names)
  /\ Pure \subseteq Names /\ Impure \subseteq Names
  /\ Pure \cap Impure = {}

ASSUME ProjectsAssumption ==
  /\ NoBody \notin Bodies
  /\ Bodies \subseteq
       [calls : SUBSET Names, indirect : BOOLEAN,
        stores : SUBSET {"global", "element", "static"},
        writes : SUBSET [pointer : Int, index : Int, offset : Int],
        work : Nat]
  /\ Projects \subseteq Seq(Declarations)

VARIABLES
  project,     \* the declarations
  phase,       \* which part of analyzeProject is running
  decls,       \* declarations not yet analysed
  summaries_,  \* the summaries by name
  callers,     \* callers of each function that has a summary
  index,       \* dfsSCC: order of discovery, or Unvisited
  lowlink,     \* dfsSCC
  stack,       \* dfsSCC: functions whose component is not complete
  frames,      \* the activations of dfsSCC: node and callees still to visit
  recursive,   \* functions with inRecursiveCycle set
  transitive,  \* functions with hasTransitiveSideEffects set
  worklist,    \* propagateSideEffects
  estimated,   \* estimatedFlops of each function
  rest,        \* functions the current pass has still to estimate
  changed,     \* whether the current pass has changed an estimate
  passes       \* history: passes over the estimates begun so far

inputVars    == <<project, decls, summaries_>>
cycleVars    == <<index, lowlink, stack, frames, recursive>>
effectVars   == <<transitive, worklist>>
estimateVars == <<estimated, rest, changed, passes>>

vars == <<inputVars, phase, callers, cycleVars, effectVars, estimateVars>>

Unvisited == -1

Init ==
  /\ project \in Projects
  /\ decls = project
  /\ phase = "analyze"
  /\ summaries_ = << >>
  /\ callers = [f \in Names |-> {}]
  /\ index = [f \in Names |-> Unvisited]
  /\ lowlink = [f \in Names |-> Unvisited]
  /\ stack = << >> /\ frames = << >>
  /\ recursive = {} /\ transitive = {} /\ worklist = {}
  /\ estimated = [f \in Names |-> 0]
  /\ rest = {} /\ changed = FALSE /\ passes = 0

\* The functions that have a summary.
Known == DOMAIN summaries_

\* std::set and std::map are visited in the order of the names.
IsFirst(f, S) == f \in S /\ \A g \in S : f <= g

-----------------------------------------------------------------------------
(***************************************************************************)
(* Phase 1: the summary of one function.                                   *)
(***************************************************************************)

\* collectParameterAccess: a write through a pointer is reduced to the pointer
\* and the parameter that indexes it.  The added constant is not kept.
PointerWritePatterns(body) ==
  {[pointer |-> w.pointer, index |-> w.index] : w \in body.writes}

\* collectCallees: the library functions, and calls that are not resolved,
\* are no callees.
Callees(body) == body.calls \ (Pure \cup Impure)

\* Only a write reference that is a plain variable of global scope counts: not
\* an array element, and not a static variable declared inside the function.
HasGlobalWrites(body) == "global" \in body.stores

EmptySummary(d) ==
  [hasDefinition |-> d.body # NoBody, hasIOSideEffects |-> d.name \in Impure,
   hasGlobalWrites |-> FALSE, patterns |-> {}, callees |-> {}, localFlops |-> 0]

Summary(d) ==
  IF d.name \in Pure \cup Impure \/ d.body = NoBody
  THEN EmptySummary(d)
  ELSE [hasDefinition |-> TRUE,
        hasIOSideEffects |-> d.body.calls \cap Impure # {},
        hasGlobalWrites |-> HasGlobalWrites(d.body),
        patterns |-> PointerWritePatterns(d.body),
        callees |-> Callees(d.body),
        localFlops |-> d.body.work]

\* Mutant: the last declaration of a name wins.
Supersedes_LastWins(d) == TRUE

\* A summary with a definition is kept; any other one is replaced.
Supersedes(d) == ~(d.name \in Known /\ summaries_[d.name].hasDefinition)

AnalyzeFunction ==
  /\ phase = "analyze"
  /\ decls # << >>
  /\ LET d == Head(decls)
     IN \/ /\ Supersedes(d)
           /\ summaries_' = [f \in Known \cup {d.name} |->
                               IF f = d.name THEN Summary(d) ELSE summaries_[f]]
           /\ estimated' = [estimated EXCEPT ![d.name] = Summary(d).localFlops]
        \/ /\ ~Supersedes(d)
           /\ UNCHANGED <<summaries_, estimated>>
  /\ decls' = Tail(decls)
  /\ UNCHANGED <<project, phase, callers, cycleVars, effectVars, rest, changed,
                 passes>>

-----------------------------------------------------------------------------
(***************************************************************************)
(* Phase 2: the call graph and its cycles, by Tarjan's algorithm.          *)
(***************************************************************************)

BuildCallGraphEdges ==
  /\ phase = "analyze"
  /\ decls = << >>
  /\ callers' = [f \in Names |->
                   {g \in Known : f \in Known /\ f \in summaries_[g].callees}]
  /\ phase' = "cycles"
  /\ UNCHANGED <<inputVars, cycleVars, effectVars, estimateVars>>

Visited == {f \in Names : index[f] # Unvisited}

\* A new activation of dfsSCC for f on top of the given ones.
Enter(f, activations) ==
  /\ index' = [index EXCEPT ![f] = Cardinality(Visited)]
  /\ lowlink' = [lowlink EXCEPT ![f] = Cardinality(Visited)]
  /\ stack' = Append(stack, f)
  /\ frames' = Append(activations, [node |-> f, left |-> summaries_[f].callees])

\* findRecursiveCycles: the next root.
VisitRoot ==
  /\ phase = "cycles"
  /\ frames = << >>
  /\ \E f \in Known : IsFirst(f, Known \ Visited) /\ Enter(f, frames)
  /\ UNCHANGED <<inputVars, phase, callers, recursive, effectVars, estimateVars>>

Top == frames[Len(frames)]

Min2(m, n) == IF m < n THEN m ELSE n

\* The activations when the innermost one has dealt with callee g.
Advance(g) ==
  [frames EXCEPT ![Len(frames)] = [node |-> Top.node, left |-> Top.left \ {g}]]

\* Mutant: a callee that was visited before counts even if its component is
\* complete.
VisitCallee_IgnoresStack ==
  /\ phase = "cycles"
  /\ frames # << >>
  /\ \E g \in Names :
       /\ IsFirst(g, Top.left)
       /\ LET here == Advance(g)
          IN \/ /\ g \in Known \ Visited
                /\ Enter(g, here)
             \/ /\ g \in Visited
                /\ lowlink' = [lowlink EXCEPT ![Top.node] = Min2(@, index[g])]
                /\ frames' = here
                /\ UNCHANGED <<index, stack>>
             \/ /\ g \notin Known
                /\ frames' = here
                /\ UNCHANGED <<index, lowlink, stack>>
  /\ UNCHANGED <<inputVars, phase, callers, recursive, effectVars, estimateVars>>

\* The next callee of the innermost activation: an unknown name is skipped, a
\* new function is entered, one that is on the stack lowers the link.
VisitCallee ==
  /\ phase = "cycles"
  /\ frames # << >>
  /\ \E g \in Names :
       /\ IsFirst(g, Top.left)
       /\ LET here == Advance(g)
              onStack == \E i \in DOMAIN stack : stack[i] = g
          IN \/ /\ g \in Known \ Visited
                /\ Enter(g, here)
             \/ /\ onStack
                /\ lowlink' = [lowlink EXCEPT ![Top.node] = Min2(@, index[g])]
                /\ frames' = here
                /\ UNCHANGED <<index, stack>>
             \/ /\ g \notin Known \/ (g \in Visited /\ ~onStack)
                /\ frames' = here
                /\ UNCHANGED <<index, lowlink, stack>>
  /\ UNCHANGED <<inputVars, phase, callers, recursive, effectVars, estimateVars>>

\* A component with more than one node, or a self-loop, is recursive.
IsCycle(component, f) ==
  Cardinality(component) > 1 \/ f \in summaries_[f].callees

\* The end of an activation: a root of a component takes it off the stack,
\* and the activation below takes over the link.
Leave ==
  /\ phase = "cycles"
  /\ frames # << >>
  /\ Top.left = {}
  /\ LET f == Top.node
         below == Len(frames) - 1
     IN /\ \/ /\ lowlink[f] = index[f]
              /\ \E i \in DOMAIN stack :
                   LET component == {stack[j] : j \in i..Len(stack)}
                   IN /\ stack[i] = f
                      /\ stack' = SubSeq(stack, 1, i - 1)
                      /\ recursive' = IF IsCycle(component, f)
                                      THEN recursive \cup component
                                      ELSE recursive
           \/ /\ lowlink[f] # index[f]
              /\ UNCHANGED <<stack, recursive>>
        /\ frames' = SubSeq(frames, 1, below)
        /\ lowlink' = IF below = 0 THEN lowlink
                      ELSE [lowlink EXCEPT ![frames[below].node] =
                              Min2(@, lowlink[f])]
  /\ UNCHANGED <<inputVars, phase, callers, index, effectVars, estimateVars>>

-----------------------------------------------------------------------------
(***************************************************************************)
(* Phase 3: side effects and work estimates go up to the callers.          *)
(***************************************************************************)

\* hasUnanalyzablePointerWrites.
HasUnanalyzablePointerWrites(s) == \E p \in s.patterns : p.index < 0

\* Local side effects that are unsafe regardless of the call site.
LocallyUnsafe ==
  {f \in Known : \/ summaries_[f].hasIOSideEffects
                 \/ summaries_[f].hasGlobalWrites
                 \/ HasUnanalyzablePointerWrites(summaries_[f])}

StartPropagation ==
  /\ phase = "cycles"
  /\ frames = << >>
  /\ Known \subseteq Visited
  /\ transitive' = LocallyUnsafe
  /\ worklist' = LocallyUnsafe \cup (recursive \cap Known)
  /\ phase' = "propagate"
  /\ UNCHANGED <<inputVars, callers, cycleVars, estimateVars>>

\* Mutant: the callers are marked but not put on the worklist.
PropagateSideEffects_OneLevel ==
  /\ phase = "propagate"
  /\ \E f \in worklist :
       /\ IsFirst(f, worklist)
       /\ transitive' = transitive \cup callers[f]
       /\ worklist' = worklist \ {f}
  /\ UNCHANGED <<inputVars, phase, callers, cycleVars, estimateVars>>

\* One iteration of the while loop.
PropagateSideEffects ==
  /\ phase = "propagate"
  /\ \E f \in worklist :
       /\ IsFirst(f, worklist)
       /\ transitive' = transitive \cup callers[f]
       /\ worklist' = (worklist \ {f}) \cup (callers[f] \ transitive)
  /\ UNCHANGED <<inputVars, phase, callers, cycleVars, estimateVars>>

StartEstimates ==
  /\ phase = "propagate"
  /\ worklist = {}
  /\ estimated' = [f \in Names |-> IF f \in recursive THEN -1 ELSE estimated[f]]
  /\ rest' = Known
  /\ changed' = FALSE
  /\ passes' = 1
  /\ phase' = "estimate"
  /\ UNCHANGED <<inputVars, callers, cycleVars, effectVars>>

\* Callees whose estimates count for f.
Counted(f) ==
  {g \in summaries_[f].callees \cap Known :
     g \notin recursive /\ estimated[g] >= 0}

\* Mutant: the callees' work is added to the last total instead of the local
\* work.
Total_Accumulates(f) ==
  estimated[f] + MapThenSumSet(LAMBDA g : estimated[g], Counted(f))

Total(f) ==
  summaries_[f].localFlops + MapThenSumSet(LAMBDA g : estimated[g], Counted(f))

\* One iteration of the for loop of a pass.
Estimate ==
  /\ phase = "estimate"
  /\ \E f \in rest :
       /\ IsFirst(f, rest)
       /\ rest' = rest \ {f}
       /\ IF f \notin recursive /\ Total(f) # estimated[f]
          THEN /\ estimated' = [estimated EXCEPT ![f] = Total(f)]
               /\ changed' = TRUE
          ELSE UNCHANGED <<estimated, changed>>
  /\ UNCHANGED <<inputVars, phase, callers, cycleVars, effectVars, passes>>

\* The end of a pass: another one, unless nothing has changed.
EndPass ==
  /\ phase = "estimate"
  /\ rest = {}
  /\ \/ /\ changed
        /\ rest' = Known
        /\ changed' = FALSE
        /\ passes' = passes + 1
        /\ UNCHANGED phase
     \/ /\ ~changed
        /\ phase' = "done"
        /\ UNCHANGED <<rest, changed, passes>>
  /\ UNCHANGED <<inputVars, callers, cycleVars, effectVars, estimated>>

Done == phase = "done" /\ UNCHANGED vars

Next ==
  \/ AnalyzeFunction \/ BuildCallGraphEdges
  \/ VisitRoot \/ VisitCallee \/ Leave
  \/ StartPropagation \/ PropagateSideEffects
  \/ StartEstimates \/ Estimate \/ EndPass
  \/ Done

Spec == Init /\ [][Next]_vars

-----------------------------------------------------------------------------
(***************************************************************************)
(* The verdicts, which main.cpp asks for once the analysis is done.        *)
(***************************************************************************)

\* Mutant: side effects of callees are not looked at.
IsSafeForParallelLoop_LocalOnly(f, args, loopVar, baseline) ==
  \/ f \in Pure
  \/ /\ f \in Known
     /\ summaries_[f].hasDefinition
     /\ ~summaries_[f].hasGlobalWrites
     /\ f \notin recursive
     /\ \/ summaries_[f].patterns = {}
        \/ /\ ~baseline /\ loopVar
           /\ \A p \in summaries_[f].patterns : p.index >= 0 /\ p.index \in args

\* A call of f in a loop, where the arguments at the positions in args are the
\* loop variable.  loopVar: the caller knows the loop variable; baseline:
\* intraproceduralBaseline_.
IsSafeForParallelLoop(f, args, loopVar, baseline) ==
  \/ f \in Pure
  \/ /\ f \in Known
     /\ summaries_[f].hasDefinition
     /\ f \notin transitive
     /\ ~summaries_[f].hasGlobalWrites
     /\ f \notin recursive
     /\ \/ summaries_[f].patterns = {}
        \/ /\ ~baseline /\ loopVar
           /\ \A p \in summaries_[f].patterns : p.index >= 0 /\ p.index \in args

\* Mutant: a missing definition is overlooked.
IsFunctionSafe_NoDefinition(f) ==
  \/ f \in Pure
  \/ /\ f \in Known
     /\ f \notin transitive
     /\ summaries_[f].patterns = {}
     /\ f \notin recursive

IsFunctionSafe(f) ==
  \/ f \in Pure
  \/ /\ f \in Known
     /\ summaries_[f].hasDefinition
     /\ f \notin transitive
     /\ summaries_[f].patterns = {}
     /\ f \notin recursive

-----------------------------------------------------------------------------
(***************************************************************************)
(* Properties.                                                             *)
(***************************************************************************)

Analyzed == phase # "analyze"

Activations == [node : Names, left : SUBSET Names]

Summaries == [hasDefinition : BOOLEAN, hasIOSideEffects : BOOLEAN,
              hasGlobalWrites : BOOLEAN,
              patterns : SUBSET [pointer : Int, index : Int],
              callees : SUBSET Names, localFlops : Nat]

\* The sets the variables of the analysis range over; EstimatesSettle says
\* what the estimates are.
TypeOK ==
  /\ project \in Seq(Declarations) /\ decls \in Seq(Declarations)
  /\ phase \in {"analyze", "cycles", "propagate", "estimate", "done"}
  /\ Known \subseteq Names
  /\ \A f \in Known : summaries_[f] \in Summaries
  /\ callers \in [Names -> SUBSET Known]
  /\ index \in [Names -> Int] /\ lowlink \in [Names -> Int]
  /\ stack \in Seq(Names) /\ frames \in Seq(Activations)
  /\ recursive \subseteq Known /\ transitive \subseteq Known
  /\ worklist \subseteq Known /\ rest \subseteq Known
  /\ changed \in BOOLEAN /\ passes \in Nat

\* The callees of f in the call graph.
Calls(f) == summaries_[f].callees \cap Known

\* What f calls directly or indirectly: the members of every set that holds
\* the callees of f and the callees of its members.
Reaches(f) ==
  {g \in Known : \A S \in SUBSET Known :
     (Calls(f) \subseteq S /\ \A h \in S : Calls(h) \subseteq S) => g \in S}

\* The first definition of a name decides, whatever prototypes and further
\* declarations come before and after it in the AST.
FirstDefinitionDecides ==
  Analyzed =>
    \A i \in DOMAIN project :
      LET d == project[i]
      IN (d.body # NoBody
            /\ \A j \in 1..(i-1) : project[j].name = d.name => project[j].body = NoBody)
         => summaries_[d.name] = Summary(d)

\* dfsSCC marks exactly the functions that can call themselves again.
CyclesFound ==
  phase \in {"propagate", "estimate", "done"} =>
    recursive = {f \in Known : f \in Reaches(f)}

\* The worklist ends with exactly the functions that are unsafe themselves or
\* reach one that is unsafe or recursive: no caller is missed, and no function
\* is condemned without a reason.
SideEffectsReachCallers ==
  phase \in {"estimate", "done"} =>
    transitive = {f \in Known :
                    \/ f \in LocallyUnsafe
                    \/ Reaches(f) \cap (LocallyUnsafe \cup recursive) # {}}

\* The estimates settle within as many passes as there are functions, and one
\* more, so the fixed point loop cannot run for ever on a recursive project.
\* In the end each is the local work plus that of the callees, and exactly the
\* recursive functions have none.
EstimatesSettle ==
  /\ passes <= Cardinality(Known) + 1
  /\ phase = "done" =>
       \A f \in Known : IF f \in recursive THEN estimated[f] = -1
                       ELSE estimated[f] = Total(f) /\ estimated[f] >= 0

\* A call that is declared safe reaches no function that does I/O, writes a
\* global variable, writes through a pointer in an unknown way or recurses,
\* and f's own pointer writes are all indexed by the loop variable.
SafeHasNoKnownEffects ==
  phase = "done" =>
    \A f \in Known \ Pure, args \in {{}, {1}}, loopVar, baseline \in BOOLEAN :
      IsSafeForParallelLoop(f, args, loopVar, baseline) =>
        /\ f \notin LocallyUnsafe /\ f \notin recursive
        /\ Reaches(f) \cap (LocallyUnsafe \cup recursive) = {}
        /\ \A p \in summaries_[f].patterns : loopVar /\ p.index \in args

\* The function-level verdict that printSummaries shows is the verdict on a
\* call without a loop variable.
VerdictsAgree ==
  phase = "done" =>
    \A f \in Names, baseline \in BOOLEAN :
      IsFunctionSafe(f) = IsSafeForParallelLoop(f, {}, FALSE, baseline)

-----------------------------------------------------------------------------
(***************************************************************************)
(* What comments of the code promise.                                      *)
(***************************************************************************)

\* The bodies of f in the project.
BodiesOf(f) == {project[i].body : i \in {j \in DOMAIN project :
                  project[j].name = f /\ project[j].body # NoBody}}

\* "guaranteed to be side-effect free": a call that is accepted without a loop
\* variable reaches no function that is unknown or calls an unknown one
\* ("Unknown external function: conservative.", "Unknown target (e.g. function
\* pointer we could not resolve)."), that assigns a variable which outlives the
\* call ("writes to global/static variables") or writes through a pointer.
SafeIsSideEffectFree ==
  phase = "done" =>
    \A f \in Known \ Pure : IsSafeForParallelLoop(f, {}, FALSE, FALSE) =>
      \A g \in Reaches(f) \cup {f} :
        /\ summaries_[g].hasDefinition
        /\ \A b \in BodiesOf(g) : ~b.indirect /\ b.stores = {} /\ b.writes = {}
=============================================================================
