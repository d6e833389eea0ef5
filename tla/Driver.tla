------------------------------- MODULE Driver -------------------------------
(***************************************************************************)
(* The loomX driver: what main() decides about the for-loops of a project. *)
(* The loops are examined in program order by a chain of filters and a     *)
(* cost model; the loops that are left are looked at together by four      *)
(* passes, which move some of them to the GPU or back; then each of them   *)
(* gets its directive.  The later passes revise verdicts that the filters  *)
(* gave, so what holds of a loop at the end takes all of them.             *)
(*                                                                         *)
(* What the analyses find out about a loop is an input: Facts.  A loop is  *)
(* a number, its position in collector.loops (preorder).                   *)
(***************************************************************************)
EXTENDS Integers, Sequences, FiniteSets

CONSTANTS
  Shapes,               \* the loop nests of the projects, see IsShape
  Facts,                \* what the analyses may say of a loop, see IsFact
  Options,              \* the command lines, see IsOption
  Arrays,               \* names of arrays
  MinParallel, MinCPU,  \* config.minIterationsForParallel, ...ForCPU
  BatchLimit,           \* horizontalSubBatch leaves longer loops alone
  HelperLimit           \* longer helper loops amortize a launch

SEQ == "SEQUENTIAL"
CPU == "CPU_OPENMP"
GPU == "GPU_OFFLOAD"

Modes == {"CPU_ONLY", "CPU_FORCED", "GPU_NAIVE", "GPU_PROFITABLE",
          "ANALYZE_ONLY"}

\* The reasons for which a filter skips a loop: a dependence between its
\* iterations, a blocking pragma, a scalar carried around the loop, an unsafe
\* call, and a missing proof that strict race safety asks for.
Reasons == {"dependence", "pragma", "scalar", "call", "race"}

\* What is known of a loop: the reasons to skip it, its form, whether it is
\* regular and free of strong divergence, its trip count (-1: unknown), how
\* its work compares with the thresholds for threads and for the GPU, whether
\* it has reductions and does nothing else, whether it has array references
\* and all of them stand on the left of an assignment, and the names of the
\* arrays it touches.  The last two are found independently: A[i] += 1 stands
\* on the left and reads A, and a target may have no name.
IsFact(f) ==
  /\ f.unsafe \subseteq Reasons
  /\ {f.canonical, f.uniform, f.cpuWork, f.gpuWork, f.leftOnly} \subseteq BOOLEAN
  /\ f.trip \in Int /\ f.trip >= -1
  /\ f.gpuWork => f.trip >= 0
  /\ f.reductions \in {"none", "some", "only"}
  /\ f.reads \subseteq Arrays /\ f.writes \subseteq Arrays

\* For every loop the loops around it, its function, and whether that function
\* is called in a loop.
IsShape(s) ==
  \A i \in DOMAIN s :
    /\ s[i].inside \subseteq 1 .. i - 1
    /\ s[i].func \in {"main", "init_array", "print_array", "other"}
    /\ s[i].repeated \in BOOLEAN
    /\ \A j \in s[i].inside : /\ s[j].inside \subseteq s[i].inside
                              /\ s[j].func = s[i].func
                              /\ s[j].repeated = s[i].repeated

IsOption(o) ==
  /\ o.mode \in Modes
  /\ {o.scalarDepCheck, o.strictRaceSafety, o.phaseCouple, o.kernelCodegen}
       \subseteq BOOLEAN

ASSUME InputAssumption ==
  /\ \A s \in Shapes : s \in Seq([inside : SUBSET Nat, func : STRING,
                                  repeated : BOOLEAN]) /\ IsShape(s)
  /\ \A f \in Facts : IsFact(f)
  /\ \A o \in Options : IsOption(o)
  /\ {MinParallel, MinCPU, BatchLimit, HelperLimit} \subseteq Nat

VARIABLES
  shape, opt,           \* the input
  facts,                \* of the loops processed so far
  accepted,             \* the loops to be transformed, in program order
  selectedLoops,        \* those accepted for the GPU
  parallelized, skipped, \* the counters of the final report
  phase,                \* where main() is
  emitted,              \* how many of accepted have been transformed
  coupled,              \* history: loops that phase coupling promoted
  directive             \* history: the directives in the output, by loop

vars == <<shape, opt, facts, accepted, selectedLoops, parallelized, skipped,
          phase, emitted, coupled, directive>>
inputVars == <<shape, opt>>
outputVars == <<emitted, directive>>

\* A loop summary with the flag that says it is only there to be coupled.  The
\* leader of its batch or pipeline is a position, 0 while it is in none.
Summary(i, t, only) == [loop |-> i, target |-> t, coupleOnly |-> only,
                        batchLeader |-> 0, pipelineLeader |-> 0]
Summaries == [loop : 1 .. Len(shape), target : {SEQ, CPU, GPU},
              coupleOnly : BOOLEAN, batchLeader : Nat, pipelineLeader : Nat]

Init ==
  /\ shape \in Shapes /\ opt \in Options
  /\ facts = <<>> /\ accepted = <<>> /\ selectedLoops = {}
  /\ parallelized = 0 /\ skipped = 0
  /\ phase = "loops" /\ emitted = 0
  /\ coupled = {} /\ directive = <<>>

-----------------------------------------------------------------------------
(* The loops one by one.                                                   *)

isInitializationLoop(f) == f.reductions = "none" /\ f.leftOnly

\* The cost model.
decideTarget(i, f) ==
  LET cpuTarget == IF shape[i].inside = {} THEN CPU ELSE SEQ
      worth(min) == IF f.trip >= min /\ f.cpuWork THEN cpuTarget ELSE SEQ
  IN IF ~f.canonical \/ f.trip \in 0 .. MinParallel - 1 THEN SEQ
     ELSE IF ~f.uniform THEN worth(MinCPU)
     ELSE IF isInitializationLoop(f) \/ f.reductions = "only" \/ ~f.gpuWork
     THEN worth(MinParallel)
     ELSE GPU

\* The translation mode overrides the cost model, except in init_array.
Target(i, f) ==
  LET t == decideTarget(i, f)
  IN IF shape[i].func = "init_array" THEN t
     ELSE IF opt.mode = "CPU_ONLY" /\ t # SEQ THEN CPU
     ELSE IF opt.mode = "CPU_FORCED" /\ f.trip >= MinCPU THEN CPU
     ELSE IF opt.mode = "GPU_NAIVE" THEN GPU
     ELSE t

\* The reasons that this command line asks the filters for.
Checked == {"dependence", "pragma", "call"}
             \cup (IF opt.scalarDepCheck THEN {"scalar"} ELSE {})
             \cup (IF opt.strictRaceSafety THEN {"race"} ELSE {})

Filtered_ParentOnly(i, f) ==
  \/ shape[i].func = "print_array"
  \/ \E j \in shape[i].inside \cap selectedLoops :
       \A k \in shape[i].inside : k <= j
  \/ f.unsafe \cap Checked # {}
Filtered_HelpersExempt(i, f) ==
  \/ shape[i].func = "print_array"
  \/ shape[i].inside \cap selectedLoops # {}
  \/ shape[i].func # "init_array" /\ f.unsafe \cap Checked # {}
Filtered(i, f) ==
  \/ shape[i].func = "print_array"
  \/ shape[i].inside \cap selectedLoops # {}
  \/ f.unsafe \cap Checked # {}

\* What an inner loop has, the loops around it have.
Fits(i, f) ==
  \A j \in shape[i].inside :
    /\ f.reads \subseteq facts[j].reads /\ f.writes \subseteq facts[j].writes
    /\ facts[j].leftOnly => f.leftOnly \/ f.reads \cup f.writes = {}

NextLoop(i, f) ==
  /\ phase = "loops"
  /\ i = Len(facts) + 1 /\ i <= Len(shape)
  /\ Fits(i, f)
  /\ facts' = Append(facts, f)
  /\ UNCHANGED <<inputVars, outputVars, phase, coupled>>

\* A filter skips the loop.
SkipLoop(i, f) ==
  /\ NextLoop(i, f)
  /\ Filtered(i, f)
  /\ skipped' = skipped + 1
  /\ UNCHANGED <<accepted, selectedLoops, parallelized>>

\* The loop is not profitable.
RejectLoop(i, f) ==
  /\ NextLoop(i, f)
  /\ ~Filtered(i, f)
  /\ Target(i, f) = SEQ /\ shape[i].func # "init_array"
  /\ skipped' = skipped + 1
  /\ UNCHANGED <<accepted, selectedLoops, parallelized>>

\* A loop of init_array stays a candidate for phase coupling.
KeepInitLoop_Counted(i, f) ==
  /\ NextLoop(i, f)
  /\ ~Filtered(i, f)
  /\ Target(i, f) = SEQ /\ shape[i].func = "init_array"
  /\ accepted' = Append(accepted, Summary(i, SEQ, TRUE))
  /\ skipped' = skipped + 1
  /\ UNCHANGED <<selectedLoops, parallelized>>
KeepInitLoop(i, f) ==
  /\ NextLoop(i, f)
  /\ ~Filtered(i, f)
  /\ Target(i, f) = SEQ /\ shape[i].func = "init_array"
  /\ accepted' = Append(accepted, Summary(i, SEQ, TRUE))
  /\ UNCHANGED <<selectedLoops, parallelized, skipped>>

\* In analyze-only mode the verdict is all.
ReportLoop(i, f) ==
  /\ NextLoop(i, f)
  /\ ~Filtered(i, f)
  /\ Target(i, f) # SEQ /\ opt.mode = "ANALYZE_ONLY"
  /\ parallelized' = parallelized + 1
  /\ UNCHANGED <<accepted, selectedLoops, skipped>>

AcceptLoop(i, f) ==
  LET t == Target(i, f)
  IN /\ NextLoop(i, f)
     /\ ~Filtered(i, f)
     /\ t # SEQ /\ opt.mode # "ANALYZE_ONLY"
     /\ accepted' = Append(accepted,
                           Summary(i, t, shape[i].func = "init_array"))
     /\ selectedLoops' = selectedLoops \cup (IF t = GPU THEN {i} ELSE {})
     /\ UNCHANGED <<parallelized, skipped>>

-----------------------------------------------------------------------------
(* The passes over the accepted loops.  They are named by their positions. *)

Positions == 1 .. Len(accepted)
FactsAt(k) == facts[accepted[k].loop]
Reads(k)   == FactsAt(k).reads
Writes(k)  == FactsAt(k).writes
IsGpu(k)   == accepted[k].target = GPU

\* The loop at j touches an array that the loop at i writes.
Consumes(i, j) == Writes(i) \cap (Reads(j) \cup Writes(j)) # {}

Consumers(i) == {j \in Positions : j > i /\ IsGpu(j) /\ Consumes(i, j)}

\* An initialization loop whose arrays a later GPU loop consumes.
Candidate(i) ==
  /\ ~IsGpu(i) /\ isInitializationLoop(FactsAt(i))
  /\ Writes(i) # {} /\ Consumers(i) # {}

\* It is promoted if no loop before the consumer, unless it is on the GPU or
\* a candidate too, touches its arrays.
Promoted_Unverified(i) == Candidate(i)
Promoted(i) ==
  /\ Candidate(i)
  /\ \E g \in Consumers(i) :
       /\ \A j \in Consumers(i) : g <= j
       /\ \A k \in i + 1 .. g - 1 : IsGpu(k) \/ Candidate(k) \/ ~Consumes(i, k)

PassVars == <<inputVars, outputVars, facts, selectedLoops, parallelized,
              skipped>>

phaseCoupleInitLoops ==
  LET up == IF opt.mode = "GPU_PROFITABLE" /\ opt.phaseCouple
            THEN {k \in Positions : Promoted(k)} ELSE {}
  IN /\ phase = "loops" /\ Len(facts) = Len(shape)
     /\ phase' = "batch"
     /\ accepted' = [k \in Positions |->
                       IF k \in up THEN [accepted[k] EXCEPT !.target = GPU]
                                   ELSE accepted[k]]
     /\ coupled' = {accepted[k].loop : k \in up}
     /\ UNCHANGED PassVars

\* A batch b reaches the loop at j: it takes the loop in, passes over it, or
\* is closed by it.
Reach(b, j) ==
  LET overlap == \/ Reads(j) \cap b.writes # {}
                 \/ Writes(j) \cap (b.reads \cup b.writes) # {}
      ends == IF IsGpu(j) THEN FactsAt(j).trip >= BatchLimit ELSE overlap
      passes == \/ ~IsGpu(j)
                \/ FactsAt(j).reductions # "none"
                \/ \E k \in 1 .. j - 1 :
                     accepted[k].loop \in shape[accepted[j].loop].inside
  IN IF ~b.open THEN b
     ELSE IF ends THEN [b EXCEPT !.open = FALSE]
     ELSE IF passes THEN b
     ELSE IF ~overlap THEN [b EXCEPT !.open = FALSE]
     ELSE [end |-> j, reads |-> b.reads \cup Reads(j),
           writes |-> b.writes \cup Writes(j), open |-> TRUE]

\* The batch that starts with the loop at i, before it reaches any other.
Alone(i) == [end |-> i, reads |-> Reads(i), writes |-> Writes(i), open |-> TRUE]

\* The last loop of the batch that starts with the loop at i: later GPU loops
\* that touch its arrays, up to a loop that stands in the way.
BatchEnd(i) ==
  LET scan[j \in i .. Len(accepted)] ==
        IF j = i THEN Alone(i) ELSE Reach(scan[j - 1], j)
  IN scan[Len(accepted)].end

\* The batches p up to the loop before i, and the one that i starts, if it
\* is in none of them and there is another loop in it.
StartAt(p, i) ==
  IF \/ i <= p.last
     \/ ~IsGpu(i)
     \/ FactsAt(i).trip >= BatchLimit
     \/ BatchEnd(i) = i
  THEN p
  ELSE [last |-> BatchEnd(i),
        leader |-> [k \in Positions |->
                      IF k \in i .. BatchEnd(i) THEN i ELSE p.leader[k]]]

\* The first loop of the batch of each loop, 0 if it is in no batch of two or
\* more.  Batches are taken from the left.
BatchLeaders ==
  LET upTo[i \in 0 .. Len(accepted)] ==
        IF i = 0 THEN [last |-> 0, leader |-> [k \in Positions |-> 0]]
                 ELSE StartAt(upTo[i - 1], i)
  IN upTo[Len(accepted)].leader

horizontalSubBatch ==
  LET leaders == IF opt.mode = "GPU_PROFITABLE" THEN BatchLeaders
                 ELSE [k \in Positions |-> 0]
  IN /\ phase = "batch"
     /\ phase' = "pipeline"
     /\ accepted' = [k \in Positions |->
                       [accepted[k] EXCEPT !.batchLeader = leaders[k]]]
     /\ UNCHANGED <<PassVars, coupled>>

\* The loop at j continues the pipeline of the loop before it.  A pipeline is
\* a run of such loops, so no loop is met twice.
Joins(j) ==
  /\ j \in Positions \ {1}
  /\ IsGpu(j - 1) /\ IsGpu(j)
  /\ Writes(j - 1) \cap Reads(j) # {} \/ FactsAt(j).reductions # "none"

\* Where the run that reaches the loop at k starts: one position.
Heads(k) == {i \in 1 .. k : ~Joins(i) /\ \A j \in i + 1 .. k : Joins(j)}

\* The first loop of the pipeline of the loop at k, 0 if it is in no pipeline
\* of two or more.
PipelineLeader_OneStage(k) ==
  IF opt.mode = "GPU_PROFITABLE" /\ IsGpu(k)
  THEN CHOOSE i \in Heads(k) : TRUE
  ELSE 0
PipelineLeader(k) ==
  IF opt.mode = "GPU_PROFITABLE" /\ (Joins(k) \/ Joins(k + 1))
  THEN CHOOSE i \in Heads(k) : TRUE
  ELSE 0

pipelinePhaseCouple ==
  /\ phase = "pipeline"
  /\ phase' = "helpers"
  /\ accepted' = [k \in Positions |->
                    [accepted[k] EXCEPT !.pipelineLeader = PipelineLeader(k)]]
  /\ UNCHANGED <<PassVars, coupled>>

\* A small loop of a function that is called in a loop.
SmallHelper(k) ==
  LET i == accepted[k].loop
  IN /\ shape[i].func # "main" /\ shape[i].repeated
     /\ facts[i].trip < HelperLimit

\* Such a loop goes back to the host, unless it is in a batch or a pipeline.
SuppressHelpers ==
  /\ phase = "helpers"
  /\ phase' = "emit"
  /\ accepted' = [k \in Positions |->
       IF /\ IsGpu(k) /\ SmallHelper(k)
          /\ accepted[k].batchLeader = 0 /\ accepted[k].pipelineLeader = 0
       THEN [accepted[k] EXCEPT !.target = SEQ]
       ELSE accepted[k]]
  /\ UNCHANGED <<PassVars, coupled>>

-----------------------------------------------------------------------------
(* Code generation.                                                        *)

NextEntry(k) ==
  /\ phase = "emit"
  /\ k = emitted + 1 /\ k \in Positions
  /\ emitted' = k
  /\ UNCHANGED <<inputVars, facts, accepted, selectedLoops, skipped, phase,
                 coupled>>

\* An init_array loop that was not promoted is left alone.
LeaveInitLoop(k) ==
  /\ NextEntry(k)
  /\ accepted[k].coupleOnly /\ ~IsGpu(k)
  /\ UNCHANGED <<parallelized, directive>>

\* The loop gets a directive for target t.
Write(k, t) ==
  /\ parallelized' = parallelized + 1
  /\ directive' = [i \in DOMAIN directive \cup {accepted[k].loop} |->
                     IF i = accepted[k].loop THEN t ELSE directive[i]]

\* CUDA and OpenCL: the loop becomes a kernel, which takes a canonical loop,
\* or else falls back to threads.
GenerateKernel(k) ==
  /\ NextEntry(k)
  /\ opt.kernelCodegen /\ IsGpu(k)
  /\ \/ FactsAt(k).canonical /\ Write(k, GPU)
     \/ Write(k, CPU)

\* OpenMP and OpenACC, and the CPU loops of every backend.  Nothing is
\* inserted for a sequential loop, or for a GPU loop whose storage cannot be
\* mapped; both are counted all the same.
GeneratePragmas(k) ==
  /\ NextEntry(k)
  /\ ~(accepted[k].coupleOnly /\ ~IsGpu(k))
  /\ ~(opt.kernelCodegen /\ IsGpu(k))
  /\ \/ accepted[k].target # SEQ /\ Write(k, accepted[k].target)
     \/ /\ accepted[k].target # CPU
        /\ parallelized' = parallelized + 1
        /\ UNCHANGED directive

Next ==
  \/ \E i \in DOMAIN shape, f \in Facts :
       \/ SkipLoop(i, f)
       \/ RejectLoop(i, f)
       \/ KeepInitLoop(i, f)
       \/ ReportLoop(i, f)
       \/ AcceptLoop(i, f)
  \/ phaseCoupleInitLoops
  \/ horizontalSubBatch
  \/ pipelinePhaseCouple
  \/ SuppressHelpers
  \/ \E k \in Positions :
       \/ LeaveInitLoop(k)
       \/ GenerateKernel(k)
       \/ GeneratePragmas(k)

Spec == Init /\ [][Next]_vars

-----------------------------------------------------------------------------
(* Properties.                                                             *)

\* Types: entries and verdicts concern loops that were examined, a directive is
\* for threads or for the GPU, and no counter is negative.
TypeOK ==
  /\ shape \in Shapes /\ opt \in Options
  /\ facts \in Seq(Facts) /\ Len(facts) <= Len(shape)
  /\ accepted \in Seq(Summaries)
  /\ selectedLoops \subseteq 1 .. Len(facts)
  /\ parallelized \in Nat /\ skipped \in Nat
  /\ phase \in {"loops", "batch", "pipeline", "helpers", "emit"}
  /\ emitted \in 0 .. Len(accepted)
  /\ coupled \subseteq 1 .. Len(facts)
  /\ DOMAIN directive \subseteq 1 .. Len(facts)
  /\ \A i \in DOMAIN directive : directive[i] \in {CPU, GPU}

\* A loop with a directive has none of the reasons for which the filters skip
\* a loop, whatever the mode overrides and the later passes made of it, and
\* print_array is never touched.
DirectivesSafe ==
  \A i \in DOMAIN directive :
    /\ facts[i].unsafe \cap Checked = {}
    /\ shape[i].func # "print_array"

\* No kernel is launched from inside a kernel, at any depth, unless phase
\* coupling promoted the outer loop after the inner one had been accepted.
NoNestedKernels ==
  \A i \in DOMAIN directive : \A j \in shape[i].inside \cap DOMAIN directive :
    directive[i] = GPU /\ directive[j] = GPU => j \in coupled

\* Outside the two modes that bypass the cost model, a loop that is not
\* canonical gets no directive and an irregular or divergent one is not
\* offloaded, unless phase coupling promoted it.
FormRespected ==
  opt.mode \notin {"CPU_FORCED", "GPU_NAIVE"} =>
    \A i \in DOMAIN directive \ coupled :
      /\ facts[i].canonical
      /\ directive[i] = GPU => facts[i].uniform

\* The later GPU loops that touch what the loop at i writes, those that were
\* promoted themselves left out.
Kernels(i) == {j \in Consumers(i) : accepted[j].loop \notin coupled}

\* An initialization loop that a kernel consumes, but that stays on the host:
\* before the kernel, a host loop that is no such loop touches its arrays.
HeldBack(k) ==
  LET offered(n) == isInitializationLoop(FactsAt(n)) /\ Kernels(n) # {}
  IN /\ offered(k)
     /\ \E m \in Positions :
          /\ m > k /\ \A g \in Kernels(k) : m < g
          /\ ~IsGpu(m) /\ Consumes(k, m) /\ ~offered(m)

\* What phase coupling verifies.  A promoted loop feeds a kernel, and of the
\* accepted loops in between, one that stays on the host and touches its
\* arrays is an initialization loop that was held back.  Loops that are not
\* accepted are not seen: NoHostTouchBetween is about these too.
HostBetweenHeldBack ==
  phase = "batch" =>
    \A i \in Positions : accepted[i].loop \in coupled =>
      \E g \in Kernels(i) : \A k \in i + 1 .. g - 1 :
        Consumes(i, k) /\ ~IsGpu(k) => HeldBack(k)

\* Neither the loop nor one around it or in it is meant for the GPU.
OnHost(i) ==
  \A k \in Positions :
    LET j == accepted[k].loop
    IN IsGpu(k) => j # i /\ j \notin shape[i].inside /\ i \notin shape[j].inside

\* What phaseCoupleInitLoops says of itself: no loop of the program between a
\* promoted loop and the kernel that consumes its arrays runs on the host and
\* touches these arrays.
NoHostTouchBetween ==
  phase = "batch" =>
    \A i \in Positions : accepted[i].loop \in coupled =>
      \E g \in Kernels(i) :
        \A m \in accepted[i].loop + 1 .. accepted[g].loop - 1 :
          OnHost(m) => Writes(i) \cap (facts[m].reads \cup facts[m].writes) = {}

\* The loops at j and k are in one batch or in one pipeline.
Grouped(j, k) ==
  \/ /\ accepted[k].batchLeader # 0
     /\ accepted[j].batchLeader = accepted[k].batchLeader
  \/ /\ accepted[k].pipelineLeader # 0
     /\ accepted[j].pipelineLeader = accepted[k].pipelineLeader

\* No group of one exempts a loop from suppression: a small helper loop that is
\* meant for the GPU when code generation begins has another such loop in its
\* own batch or pipeline, which was not sent back to the host either.  What
\* the generators make of the two is not said here: no launch is shared.
HelpersGrouped ==
  phase = "emit" =>
    \A k \in Positions : IsGpu(k) /\ SmallHelper(k) =>
      \E j \in Positions \ {k} : IsGpu(j) /\ Grouped(j, k)

\* The final report: every loop is counted once, as parallelized or as
\* skipped, but for the init_array loops that are left alone, and every loop
\* with a directive is counted as parallelized.
CountsAgree ==
  phase = "emit" /\ emitted = Len(accepted) =>
    /\ parallelized + skipped
         + Cardinality({k \in Positions : accepted[k].coupleOnly /\ ~IsGpu(k)})
         = Len(shape)
    /\ Cardinality(DOMAIN directive) <= parallelized
=============================================================================
