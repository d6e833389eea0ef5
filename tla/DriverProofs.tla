---------------------------- MODULE DriverProofs ----------------------------
(***************************************************************************)
(* Proofs about Driver for every project, every outcome of the analyses    *)
(* and every command line: types, the safety of the loops that get a       *)
(* directive, nesting, form, phase coupling, the counts of the report, and *)
(* the groups of helper loops.                                             *)
(***************************************************************************)
EXTENDS Driver, Induction, TLAPS

\* What is known of an accepted loop, whatever the passes made of it.
EntryOK(s) ==
  LET i == s.loop
  IN /\ i \in 1 .. Len(facts)
     /\ facts[i].unsafe \cap Checked = {}
     /\ shape[i].func # "print_array"
     /\ shape[i].inside \cap selectedLoops = {}
     /\ s.target = GPU => i \in selectedLoops \cup coupled
     /\ opt.mode \notin {"CPU_FORCED", "GPU_NAIVE"} /\ i \notin coupled
          /\ s.target # SEQ
        => facts[i].canonical /\ (s.target = GPU => facts[i].uniform)

EntriesOK == \A k \in Positions : EntryOK(accepted[k])

\* No loop is accepted twice.
EntriesDistinct ==
  \A k, n \in Positions : accepted[k].loop = accepted[n].loop => k = n

\* A directive stems from an accepted loop that was not sequential.
DirectivesKnown ==
  \A i \in DOMAIN directive : \E k \in Positions :
    /\ accepted[k].loop = i
    /\ accepted[k].target # SEQ
    /\ directive[i] = GPU => accepted[k].target = GPU

\* The histories begin with the phase that writes them.
HistoryOK ==
  /\ phase # "emit" => DOMAIN directive = {}
  /\ phase = "loops" => coupled = {}

IndInv == TypeOK /\ EntriesOK /\ EntriesDistinct /\ DirectivesKnown /\ HistoryOK

-----------------------------------------------------------------------------
(* The shape of the input.                                                 *)

\* A loop lies inside loops that come before it in program order.
LEMMA InsideBefore ==
  ASSUME TypeOK, NEW i \in 1 .. Len(shape)
  PROVE  /\ Len(shape) \in Nat /\ DOMAIN shape = 1 .. Len(shape)
         /\ shape[i].inside \subseteq 1 .. i - 1
<1>1. shape \in Seq([inside : SUBSET Nat, func : STRING,
                     repeated : BOOLEAN]) /\ IsShape(shape)
  BY InputAssumption DEF TypeOK
<1>2. i \in DOMAIN shape /\ Len(shape) \in Nat /\ DOMAIN shape = 1 .. Len(shape)
  BY <1>1
<1> QED BY <1>1, <1>2 DEF IsShape

\* Without an override, a loop that is not sequential is canonical, and one
\* that is offloaded is regular and does not diverge.
LEMMA TargetForm ==
  ASSUME NEW i, NEW f,
         opt.mode \notin {"CPU_FORCED", "GPU_NAIVE"},
         Target(i, f) # SEQ
  PROVE  f.canonical /\ (Target(i, f) = GPU => f.uniform)
BY DEF Target, decideTarget, SEQ, CPU, GPU

\* The cost model and the overrides choose one of the three targets.
LEMMA TargetType ==
  ASSUME NEW i, NEW f
  PROVE  Target(i, f) \in {SEQ, CPU, GPU}
BY DEF Target, decideTarget, SEQ, CPU, GPU

-----------------------------------------------------------------------------
(* The steps that examine a loop.                                          *)

\* A loop that the filters let through may be appended with its target; a
\* loop that is not appended leaves the accepted ones as they were.
LEMMA ExamineKeeps ==
  ASSUME IndInv, NEW i \in DOMAIN shape, NEW f \in Facts, NextLoop(i, f),
         NEW t \in {SEQ, CPU, GPU}, NEW only \in BOOLEAN,
         \/ accepted' = accepted
         \/ /\ ~Filtered(i, f) /\ t \in {SEQ, Target(i, f)}
            /\ accepted' = Append(accepted, Summary(i, t, only)),
         selectedLoops' = selectedLoops
           \/ selectedLoops' = selectedLoops \cup {i},
         t = GPU => i \in selectedLoops',
         parallelized' \in Nat, skipped' \in Nat
  PROVE  IndInv'
<1> USE DEF inputVars, outputVars
<1>1. /\ phase = "loops" /\ phase' = phase /\ coupled = {} /\ coupled' = {}
      /\ shape' = shape /\ opt' = opt /\ emitted' = emitted
      /\ directive' = directive /\ DOMAIN directive = {}
  BY DEF IndInv, HistoryOK, NextLoop
<1>2. /\ facts \in Seq(Facts) /\ facts' = Append(facts, f)
      /\ i = Len(facts) + 1 /\ i <= Len(shape)
      /\ Len(facts) \in Nat /\ Len(shape) \in Nat
      /\ accepted \in Seq(Summaries)
  <2>1. Len(shape) \in Nat
    BY InputAssumption DEF IndInv, TypeOK
  <2> QED BY <2>1 DEF IndInv, TypeOK, NextLoop
<1>3. /\ facts' \in Seq(Facts) /\ Len(facts') = i /\ facts'[i] = f
      /\ \A j \in 1 .. Len(facts) : facts'[j] = facts[j]
  BY <1>2
<1>4. Summary(i, t, only) \in Summaries
  BY <1>2 DEF Summary, Summaries
<1>5. /\ accepted' \in Seq(Summaries) /\ Len(accepted) \in Nat
      /\ Len(accepted') \in {Len(accepted), Len(accepted) + 1}
  <2>1. PICK z \in Summaries : z = Summary(i, t, only)
    BY <1>4
  <2>2. /\ Append(accepted, z) \in Seq(Summaries) /\ Len(accepted) \in Nat
        /\ Len(Append(accepted, z)) = Len(accepted) + 1
    BY <1>2
  <2>3. accepted' = accepted \/ accepted' = Append(accepted, z)
    BY <2>1
  <2> QED BY <1>2, <2>2, <2>3
<1>6. Len(accepted') \in {Len(accepted), Len(accepted) + 1}
  BY <1>5
<1>7. TypeOK'
  <2>1. Summaries' = Summaries
    BY <1>1 DEF Summaries
  <2>2. selectedLoops' \subseteq 1 .. Len(facts')
    <3>1. selectedLoops \subseteq 1 .. Len(facts)
      BY DEF IndInv, TypeOK
    <3>2. 1 .. Len(facts) \subseteq 1 .. i /\ i \in 1 .. i
      BY <1>2
    <3> QED BY <1>3, <3>1, <3>2
  <2>3. emitted' \in 0 .. Len(accepted')
    BY <1>1, <1>5, <1>6 DEF IndInv, TypeOK
  <2> QED BY <1>1, <1>2, <1>3, <1>5, <2>1, <2>2, <2>3 DEF IndInv, TypeOK
<1>8. EntriesOK'
  <2> SUFFICES ASSUME NEW k \in Positions'
               PROVE  EntryOK(accepted[k])'
    BY DEF EntriesOK
  <2>1. CASE k \in Positions
    <3>1. accepted'[k] = accepted[k]
      <4>1. \A q \in Seq(Summaries), e \in Summaries : \A n \in 1 .. Len(q) :
              Append(q, e)[n] = q[n]
        OBVIOUS
      <4> QED BY <1>2, <1>4, <2>1, <4>1 DEF Positions
    <3>2. EntryOK(accepted[k])
      BY <2>1 DEF IndInv, EntriesOK
    <3>3. accepted[k].loop \in 1 .. Len(facts) /\ accepted[k].loop \in Nat
      BY <1>2, <3>2 DEF EntryOK
    <3>4. shape[accepted[k].loop].inside \subseteq 1 .. accepted[k].loop - 1
      BY <1>2, <3>3, InsideBefore DEF IndInv
    <3>5. i \notin shape[accepted[k].loop].inside
      BY <1>2, <3>3, <3>4
    <3>6. /\ accepted[k].loop \in 1 .. Len(facts')
          /\ facts'[accepted[k].loop] = facts[accepted[k].loop]
      BY <1>2, <1>3, <3>3
    <3>7. shape[accepted[k].loop].inside \cap selectedLoops' = {}
      BY <3>2, <3>5 DEF EntryOK
    <3>8. Checked' = Checked
      BY <1>1 DEF Checked
    <3> QED BY <1>1, <3>1, <3>2, <3>6, <3>7, <3>8 DEF EntryOK
  <2>2. CASE k \notin Positions
    <3>1. /\ accepted' = Append(accepted, Summary(i, t, only))
          /\ k = Len(accepted) + 1 /\ accepted'[k] = Summary(i, t, only)
          /\ ~Filtered(i, f) /\ t \in {SEQ, Target(i, f)}
      BY <1>2, <1>4, <1>5, <2>2 DEF Positions
    <3>2. accepted'[k].loop = i /\ accepted'[k].target = t
      BY <3>1 DEF Summary
    <3>3. shape[i].inside \cap selectedLoops' = {}
      <4>1. shape[i].inside \subseteq 1 .. i - 1
        BY <1>2, InsideBefore DEF IndInv
      <4>2. i \notin shape[i].inside
        BY <1>2, <4>1
      <4> QED BY <3>1, <4>2 DEF Filtered
    <3>4. i \in 1 .. Len(facts') /\ f.unsafe \cap Checked = {}
          /\ shape[i].func # "print_array"
      BY <1>2, <1>3, <3>1 DEF Filtered
    <3>5. opt.mode \notin {"CPU_FORCED", "GPU_NAIVE"} /\ t # SEQ
          => f.canonical /\ (t = GPU => f.uniform)
      BY <3>1, TargetForm
    <3>6. Checked' = Checked
      BY <1>1 DEF Checked
    <3> QED BY <1>1, <1>3, <3>2, <3>3, <3>4, <3>5, <3>6 DEF EntryOK
  <2> QED BY <2>1, <2>2
<1>9. DirectivesKnown' /\ HistoryOK'
  BY <1>1 DEF DirectivesKnown, HistoryOK
<1>10. EntriesDistinct'
  <2>1. \A k \in Positions : accepted[k].loop \in 1 .. Len(facts)
    BY DEF IndInv, EntriesOK, EntryOK
  <2>2. \A q \in Seq(Summaries), e \in Summaries :
          /\ Len(Append(q, e)) = Len(q) + 1
          /\ Append(q, e)[Len(q) + 1] = e
          /\ \A n \in 1 .. Len(q) : Append(q, e)[n] = q[n]
    OBVIOUS
  <2>3. Summary(i, t, only).loop = i
    BY DEF Summary
  <2>4. EntriesDistinct
    BY DEF IndInv
  <2>5. CASE accepted' = accepted
    BY <2>4, <2>5 DEF EntriesDistinct, Positions
  <2>6. CASE accepted' = Append(accepted, Summary(i, t, only))
    <3>1. /\ Positions' = Positions \cup {Len(accepted) + 1}
          /\ accepted'[Len(accepted) + 1].loop = i
          /\ \A n \in Positions : accepted'[n].loop = accepted[n].loop
      BY <1>2, <1>4, <1>5, <2>2, <2>3, <2>6 DEF Positions
    <3>2. \A n \in Positions : accepted'[n].loop # i
      BY <1>2, <2>1, <3>1
    <3> QED BY <2>4, <3>1, <3>2 DEF EntriesDistinct
  <2> QED BY <2>5, <2>6
<1> QED BY <1>7, <1>8, <1>9, <1>10 DEF IndInv

\* Every outcome for one loop keeps the invariant.
LEMMA LoopsKeep ==
  ASSUME IndInv, NEW i \in DOMAIN shape, NEW f \in Facts,
         \/ SkipLoop(i, f) \/ RejectLoop(i, f) \/ KeepInitLoop(i, f)
         \/ ReportLoop(i, f) \/ AcceptLoop(i, f)
  PROVE  IndInv'
<1>1. parallelized \in Nat /\ skipped \in Nat
  BY DEF IndInv, TypeOK
<1>2. CASE SkipLoop(i, f) \/ RejectLoop(i, f) \/ ReportLoop(i, f)
  <2>1. /\ NextLoop(i, f) /\ accepted' = accepted
        /\ selectedLoops' = selectedLoops
        /\ parallelized' \in Nat /\ skipped' \in Nat
    BY <1>1, <1>2 DEF SkipLoop, RejectLoop, ReportLoop
  <2>2. SEQ \in {SEQ, CPU, GPU} /\ SEQ # GPU
    BY DEF SEQ, CPU, GPU
  <2> QED BY <2>1, <2>2, ExamineKeeps
<1>3. CASE KeepInitLoop(i, f)
  <2>1. /\ NextLoop(i, f) /\ ~Filtered(i, f)
        /\ accepted' = Append(accepted, Summary(i, SEQ, TRUE))
        /\ selectedLoops' = selectedLoops
        /\ parallelized' \in Nat /\ skipped' \in Nat
    BY <1>1, <1>3 DEF KeepInitLoop
  <2>2. SEQ \in {SEQ, CPU, GPU} /\ SEQ # GPU
    BY DEF SEQ, CPU, GPU
  <2> QED BY <2>1, <2>2, ExamineKeeps
<1>4. CASE AcceptLoop(i, f)
  <2> DEFINE t == Target(i, f)
             only == shape[i].func = "init_array"
  <2>1. t \in {SEQ, CPU, GPU} /\ only \in BOOLEAN
    BY TargetType
  <2>2. /\ NextLoop(i, f) /\ ~Filtered(i, f)
        /\ accepted' = Append(accepted, Summary(i, t, only))
        /\ selectedLoops' = selectedLoops \cup (IF t = GPU THEN {i} ELSE {})
        /\ parallelized' \in Nat /\ skipped' \in Nat
    BY <1>1, <1>4 DEF AcceptLoop
  <2>3. /\ selectedLoops' = selectedLoops
             \/ selectedLoops' = selectedLoops \cup {i}
        /\ t = GPU => i \in selectedLoops'
    BY <2>2
  <2> HIDE DEF t, only
  <2>4. t \in {SEQ, Target(i, f)}
    BY DEF t
  <2> QED BY <2>1, <2>2, <2>3, <2>4, ExamineKeeps
<1> QED BY <1>2, <1>3, <1>4

-----------------------------------------------------------------------------
(* The passes over the accepted loops.                                     *)

\* A pass may change the targets of accepted loops as long as it sends to the
\* GPU only what it adds to coupled.
LEMMA PassKeeps ==
  ASSUME IndInv, UNCHANGED PassVars,
         phase' \in {"batch", "pipeline", "helpers", "emit"},
         phase # "emit",
         coupled \subseteq coupled',
         coupled' \subseteq {accepted[k].loop : k \in Positions} \cup coupled,
         NEW to, accepted' = [k \in Positions |-> to[k]],
         \A k \in Positions :
           /\ to[k] \in Summaries
           /\ to[k].loop = accepted[k].loop
           /\ \/ to[k].target \in {SEQ, accepted[k].target}
              \/ accepted[k].loop \in coupled' /\ to[k].target = GPU
  PROVE  IndInv'
<1> USE DEF PassVars, inputVars, outputVars
<1>1. /\ shape' = shape /\ opt' = opt /\ emitted' = emitted
      /\ facts' = facts /\ selectedLoops' = selectedLoops
      /\ parallelized' = parallelized /\ skipped' = skipped
      /\ directive' = directive /\ DOMAIN directive = {}
  BY DEF IndInv, HistoryOK
<1>2. Len(accepted) \in Nat /\ accepted' \in Seq(Summaries)
      /\ Len(accepted') = Len(accepted)
  BY DEF IndInv, TypeOK, Positions
<1>3. Positions' = Positions
  BY <1>2 DEF Positions
<1>4. \A k \in Positions : EntryOK(accepted[k])
  BY DEF IndInv, EntriesOK
<1>5. coupled' \subseteq 1 .. Len(facts)
  <2>1. \A k \in Positions : accepted[k].loop \in 1 .. Len(facts)
    BY <1>4 DEF EntryOK
  <2>2. coupled \subseteq 1 .. Len(facts)
    BY DEF IndInv, TypeOK
  <2> QED BY <2>1, <2>2
<1>6. TypeOK'
  <2>1. Summaries' = Summaries
    BY <1>1 DEF Summaries
  <2> QED BY <1>1, <1>2, <1>5, <2>1 DEF IndInv, TypeOK
<1>7. EntriesOK'
  <2> SUFFICES ASSUME NEW k \in Positions
               PROVE  EntryOK(accepted[k])'
    BY <1>3 DEF EntriesOK
  <2>1. accepted'[k] = to[k] /\ EntryOK(accepted[k])
    BY <1>4
  <2>2. Checked' = Checked
    BY <1>1 DEF Checked
  <2>3. SEQ # GPU
    BY DEF SEQ, GPU
  <2> QED BY <1>1, <2>1, <2>2, <2>3 DEF EntryOK
<1>8. DirectivesKnown' /\ HistoryOK'
  BY <1>1 DEF DirectivesKnown, HistoryOK
<1>9. EntriesDistinct'
  <2>1. \A k \in Positions : accepted'[k].loop = accepted[k].loop
    OBVIOUS
  <2> QED BY <1>3, <2>1 DEF IndInv, EntriesDistinct
<1> QED BY <1>6, <1>7, <1>8, <1>9 DEF IndInv

\* The arrays of an accepted loop are arrays.
LEMMA ArraysKnown ==
  ASSUME IndInv, NEW k \in Positions
  PROVE  Reads(k) \subseteq Arrays /\ Writes(k) \subseteq Arrays
<1>1. accepted[k].loop \in 1 .. Len(facts)
  BY DEF IndInv, EntriesOK, EntryOK
<1>2. FactsAt(k) \in Facts
  BY <1>1 DEF IndInv, TypeOK, FactsAt
<1> QED BY <1>2, InputAssumption DEF Reads, Writes, IsFact

\* Batches that start at position i: the last loop of a batch is its first
\* one or a later loop on the GPU.
Ends(i) == {j \in i .. Len(accepted) : j = i \/ IsGpu(j)}
BatchesFrom(i) == [end : Ends(i), reads : SUBSET Arrays,
                   writes : SUBSET Arrays, open : BOOLEAN]

\* A batch that reaches a loop is still one of these batches.
LEMMA ReachType ==
  ASSUME IndInv, NEW i \in Positions, NEW j \in i + 1 .. Len(accepted),
         NEW b \in BatchesFrom(i)
  PROVE  Reach(b, j) \in BatchesFrom(i)
<1>1. Len(accepted) \in Nat
  BY DEF IndInv, TypeOK
<1>2. j \in Positions /\ j \in i .. Len(accepted)
  BY <1>1 DEF Positions
<1>3. Reads(j) \subseteq Arrays /\ Writes(j) \subseteq Arrays
  BY <1>2, ArraysKnown
<1>4. /\ b.end \in Ends(i) /\ b.reads \subseteq Arrays
      /\ b.writes \subseteq Arrays /\ b.open \in BOOLEAN
      /\ [b EXCEPT !.open = FALSE] \in BatchesFrom(i)
  BY DEF BatchesFrom
<1> DEFINE more == [end |-> j, reads |-> b.reads \cup Reads(j),
                    writes |-> b.writes \cup Writes(j), open |-> TRUE]
<1>5. IsGpu(j) => more \in BatchesFrom(i)
  BY <1>2, <1>3, <1>4 DEF BatchesFrom, Ends
<1>6. \/ Reach(b, j) = b
      \/ Reach(b, j) = [b EXCEPT !.open = FALSE]
      \/ IsGpu(j) /\ Reach(b, j) = more
  BY DEF Reach
<1> QED BY <1>4, <1>5, <1>6

\* The batch of a loop ends with it or with a later loop on the GPU.
LEMMA BatchEndType ==
  ASSUME IndInv, NEW i \in Positions
  PROVE  BatchEnd(i) \in Ends(i)
<1> DEFINE n == Len(accepted)
           S == BatchesFrom(i)
           step == [j \in i + 1 .. n |-> [b \in S |-> Reach(b, j)]]
           solves(f) == f = [j \in i .. n |->
                               IF j = i THEN Alone(i) ELSE Reach(f[j - 1], j)]
           scan == CHOOSE f : solves(f)
<1>1. n \in Nat /\ i \in Int /\ n \in Int /\ i <= n
  BY DEF IndInv, TypeOK, Positions
<1>2. Alone(i) \in S
  <2>1. i \in Ends(i)
    BY <1>1 DEF Ends
  <2> QED BY <2>1, ArraysKnown DEF Alone, BatchesFrom
<1>3. \A j \in i + 1 .. n, b \in S : step[j][b] \in S
  BY ReachType
<1> HIDE DEF S
<1>4. PICK f : IsRecursion(f, i, n, S, Alone(i), step)
  <2> HIDE DEF step, n
  <2> QED BY <1>1, <1>2, <1>3, IntervalRecursion
<1>5. solves(f)
  <2>1. \A j \in i .. n : j # i => j \in i + 1 .. n /\ j - 1 \in i .. n
    BY <1>1
  <2>2. \A j \in i .. n : j # i => f[j] = Reach(f[j - 1], j)
    BY <1>4, <2>1 DEF IsRecursion
  <2> QED BY <1>4, <2>2 DEF IsRecursion
<1>6. solves(scan)
  <2> HIDE DEF solves
  <2> QED BY <1>5
<1>7. BatchEnd(i) = scan[n].end
  BY DEF BatchEnd
<1> HIDE DEF scan, step
<1>8. \A j \in i .. n : scan[j] \in S
  <2> DEFINE T == {j \in i .. n : scan[j] \in S}
  <2>1. i \in T
    BY <1>1, <1>2, <1>6
  <2>2. ASSUME NEW j \in i .. n - 1, j \in T PROVE j + 1 \in T
    <3>1. j + 1 \in i .. n /\ j + 1 # i /\ (j + 1) - 1 = j
          /\ j + 1 \in i + 1 .. n
      BY <1>1
    <3>2. scan[j + 1] = Reach(scan[j], j + 1)
      BY <1>6, <3>1
    <3>3. Reach(scan[j], j + 1) \in S
      BY <2>2, <3>1, ReachType DEF S
    <3> QED BY <3>1, <3>2, <3>3
  <2>3. i .. n \subseteq T
    <3> HIDE DEF T
    <3> QED BY <1>1, <2>1, <2>2, IntervalInduction
  <2> QED BY <2>3
<1>9. scan[n] \in S
  BY <1>1, <1>8
<1> QED BY <1>7, <1>9 DEF S, BatchesFrom

\* A loop with a leader is in the leader's batch, whose first and last loops
\* are two loops on the GPU; the batches found so far end at last or before.
WholeBatches(f, last) ==
  \A k \in Positions : f[k] # 0 =>
    /\ f[k] \in Positions /\ IsGpu(f[k]) /\ f[f[k]] = f[k]
    /\ BatchEnd(f[k]) # f[k] /\ BatchEnd(f[k]) <= last
    /\ f[BatchEnd(f[k])] = f[k]
Leaders == [Positions -> 0 .. Len(accepted)]
BatchPrefixes == {p \in [last : 0 .. Len(accepted), leader : Leaders] :
                    WholeBatches(p.leader, p.last)}

\* Starting a batch, or none, adds a whole batch, or nothing.
LEMMA StartAtType ==
  ASSUME IndInv, NEW i \in Positions, NEW p \in BatchPrefixes
  PROVE  StartAt(p, i) \in BatchPrefixes
<1>1. Len(accepted) \in Nat
  BY DEF IndInv, TypeOK
<1>2. /\ p.last \in 0 .. Len(accepted) /\ p.leader \in Leaders
      /\ WholeBatches(p.leader, p.last)
  BY DEF BatchPrefixes
<1> DEFINE e == BatchEnd(i)
           lead == [k \in Positions |-> IF k \in i .. e THEN i ELSE p.leader[k]]
           more == [last |-> e, leader |-> lead]
<1>3. e \in i .. Len(accepted)
  BY BatchEndType DEF Ends
<1>4. \/ StartAt(p, i) = p
      \/ /\ IsGpu(i) /\ e # i /\ ~(i <= p.last)
         /\ StartAt(p, i) = more
  BY DEF StartAt
<1>5. ASSUME IsGpu(i), e # i, ~(i <= p.last) PROVE more \in BatchPrefixes
  <2>1. /\ i \in Positions /\ e \in Positions /\ e \in 0 .. Len(accepted)
        /\ i \in 0 .. Len(accepted) /\ i # 0 /\ p.last < i /\ p.last < e
    BY <1>1, <1>2, <1>3, <1>5 DEF Positions
  <2>2. lead \in Leaders
    BY <1>2, <2>1 DEF Leaders
  <2>3. ASSUME NEW k \in Positions, lead[k] # 0
        PROVE  /\ lead[k] \in Positions /\ IsGpu(lead[k])
               /\ lead[lead[k]] = lead[k]
               /\ BatchEnd(lead[k]) # lead[k] /\ BatchEnd(lead[k]) <= e
               /\ lead[BatchEnd(lead[k])] = lead[k]
    <3>1. CASE k \in i .. e
      <4>1. lead[k] = i /\ lead[i] = i /\ lead[e] = i
        BY <1>3, <2>1, <3>1
      <4>2. e <= e
        BY <1>3
      <4> HIDE DEF lead
      <4> QED BY <1>5, <2>1, <4>1, <4>2
    <3>2. CASE k \notin i .. e
      <4>1. lead[k] = p.leader[k]
        BY <3>2
      <4>2. PICK h : h = p.leader[k]
        OBVIOUS
      <4>3. /\ h \in Positions /\ IsGpu(h) /\ p.leader[h] = h
            /\ BatchEnd(h) # h /\ BatchEnd(h) <= p.last
            /\ p.leader[BatchEnd(h)] = h
        BY <1>2, <2>3, <4>1, <4>2 DEF WholeBatches
      <4>4. BatchEnd(h) \in h .. Len(accepted)
        BY <4>3, BatchEndType DEF Ends
      <4>5. /\ BatchEnd(h) \in Positions /\ BatchEnd(h) < i /\ h < i
            /\ BatchEnd(h) <= e
        BY <1>1, <1>2, <1>3, <2>1, <4>3, <4>4 DEF Positions
      <4>6. h \notin i .. e /\ BatchEnd(h) \notin i .. e
        BY <1>3, <2>1, <4>4, <4>5 DEF Positions
      <4>7. lead[h] = h /\ lead[BatchEnd(h)] = h
        BY <4>3, <4>5, <4>6
      <4> HIDE DEF lead
      <4> QED BY <4>1, <4>2, <4>3, <4>5, <4>7
    <3> QED BY <3>1, <3>2
  <2> HIDE DEF lead, e
  <2>4. WholeBatches(lead, e)
    BY <2>3 DEF WholeBatches
  <2> QED BY <2>1, <2>2, <2>4 DEF BatchPrefixes
<1> QED BY <1>4, <1>5

\* The loops that horizontalSubBatch marks form whole batches.
LEMMA BatchesWhole ==
  ASSUME IndInv
  PROVE  /\ BatchLeaders \in Leaders
         /\ \E last \in 0 .. Len(accepted) : WholeBatches(BatchLeaders, last)
<1> DEFINE n == Len(accepted)
           S == BatchPrefixes
           none == [last |-> 0, leader |-> [k \in Positions |-> 0]]
           step == [j \in 0 + 1 .. n |-> [p \in S |-> StartAt(p, j)]]
           solves(f) == f = [j \in 0 .. n |->
                               IF j = 0 THEN [last |-> 0,
                                              leader |-> [k \in Positions |-> 0]]
                                        ELSE StartAt(f[j - 1], j)]
           upTo == CHOOSE f : solves(f)
<1>1. n \in Nat /\ n \in Int /\ 0 <= n
  BY DEF IndInv, TypeOK
<1>2. none \in S
  <2>1. WholeBatches([k \in Positions |-> 0], 0)
    BY DEF WholeBatches
  <2>2. [k \in Positions |-> 0] \in Leaders
    BY <1>1 DEF Leaders
  <2> QED BY <1>1, <2>1, <2>2 DEF BatchPrefixes
<1>3. \A j \in 0 + 1 .. n, p \in S : step[j][p] \in S
  BY StartAtType DEF Positions
<1> HIDE DEF S
<1>4. PICK f : IsRecursion(f, 0, n, S, none, step)
  <2> DEFINE lo == 0
  <2>1. lo \in Int /\ lo <= n /\ \A j \in lo + 1 .. n, p \in S : step[j][p] \in S
    BY <1>1, <1>3
  <2> HIDE DEF step, n, none, lo
  <2>2. \E f : IsRecursion(f, lo, n, S, none, step)
    BY <1>1, <1>2, <2>1, IntervalRecursion
  <2> QED BY <2>2 DEF lo
<1>5. solves(f)
  <2>1. \A j \in 0 .. n : j # 0 => j \in 0 + 1 .. n /\ j - 1 \in 0 .. n
    BY <1>1
  <2>2. \A j \in 0 .. n : j # 0 => f[j] = StartAt(f[j - 1], j)
    BY <1>4, <2>1 DEF IsRecursion
  <2> QED BY <1>4, <2>2 DEF IsRecursion
<1>6. solves(upTo)
  <2> HIDE DEF solves
  <2> QED BY <1>5
<1>7. BatchLeaders = upTo[n].leader
  BY DEF BatchLeaders
<1> HIDE DEF upTo, step
<1>8. \A j \in 0 .. n : upTo[j] \in S
  <2> DEFINE T == {j \in 0 .. n : upTo[j] \in S}
  <2>1. 0 \in T
    BY <1>1, <1>2, <1>6
  <2>2. ASSUME NEW j \in 0 .. n - 1, j \in T PROVE j + 1 \in T
    <3>1. j + 1 \in 0 .. n /\ j + 1 # 0 /\ (j + 1) - 1 = j
          /\ j + 1 \in Positions
      BY <1>1 DEF Positions
    <3>2. upTo[j + 1] = StartAt(upTo[j], j + 1)
      BY <1>6, <3>1
    <3>3. StartAt(upTo[j], j + 1) \in S
      BY <2>2, <3>1, StartAtType DEF S
    <3> QED BY <3>1, <3>2, <3>3
  <2>3. 0 .. n \subseteq T
    <3> HIDE DEF T
    <3> QED BY <1>1, <2>1, <2>2, IntervalInduction
  <2> QED BY <2>3
<1>9. upTo[n] \in S
  BY <1>1, <1>8
<1>10. /\ upTo[n].last \in 0 .. Len(accepted) /\ upTo[n].leader \in Leaders
       /\ WholeBatches(upTo[n].leader, upTo[n].last)
  BY <1>9 DEF S, BatchPrefixes
<1> QED BY <1>7, <1>10

\* Every run of joined loops starts somewhere.
LEMMA HeadsExist ==
  ASSUME IndInv, NEW k \in Positions
  PROVE  Heads(k) # {}
<1> DEFINE T == {i \in 1 .. k : ~Joins(i)}
<1>1. k \in Nat /\ k >= 1 /\ Len(accepted) \in Nat
  BY DEF IndInv, TypeOK, Positions
<1>2. 1 \in T
  BY <1>1 DEF Joins
<1>3. T \in SUBSET (0 .. k) /\ T # {}
  BY <1>1, <1>2
<1> HIDE DEF T
<1>4. PICK x \in T : \A y \in T : y <= x
  BY <1>1, <1>3, GreatestNumber
<1>5. ASSUME NEW j \in x + 1 .. k PROVE Joins(j)
  <2>1. x \in 1 .. k /\ j \in 1 .. k /\ ~(j <= x)
    BY <1>1, <1>4 DEF T
  <2> QED BY <1>4, <2>1 DEF T
<1> QED BY <1>4, <1>5 DEF T, Heads

\* A loop that continues a run is in a run with the same start.
LEMMA HeadsJoin ==
  ASSUME IndInv, NEW k \in Positions, Joins(k + 1)
  PROVE  Heads(k + 1) = Heads(k)
<1>1. k \in Nat /\ k >= 1
  BY DEF IndInv, TypeOK, Positions
<1>2. ASSUME NEW i \in Heads(k) PROVE i \in Heads(k + 1)
  <2>1. i \in 1 .. k /\ ~Joins(i) /\ \A j \in i + 1 .. k : Joins(j)
    BY <1>2 DEF Heads
  <2>2. \A j \in i + 1 .. k + 1 : j = k + 1 \/ j \in i + 1 .. k
    BY <1>1, <2>1
  <2>3. i \in 1 .. k + 1
    BY <1>1, <2>1
  <2> QED BY <2>1, <2>2, <2>3 DEF Heads
<1>3. ASSUME NEW i \in Heads(k + 1) PROVE i \in Heads(k)
  <2>1. i \in 1 .. k + 1 /\ ~Joins(i) /\ \A j \in i + 1 .. k + 1 : Joins(j)
    BY <1>3 DEF Heads
  <2>2. i # k + 1
    BY <2>1
  <2>3. i \in 1 .. k /\ \A j \in i + 1 .. k : j \in i + 1 .. k + 1
    BY <1>1, <2>1, <2>2
  <2> QED BY <2>1, <2>3 DEF Heads
<1> QED BY <1>2, <1>3

\* The leader of a pipeline is a position.
LEMMA PipelineLeaderType ==
  ASSUME IndInv, NEW k \in Positions
  PROVE  /\ PipelineLeader(k) \in Nat
         /\ (CHOOSE i \in Heads(k) : TRUE) # 0
<1>1. (CHOOSE i \in Heads(k) : TRUE) \in Heads(k)
  BY HeadsExist
<1>2. Heads(k) \subseteq 1 .. k /\ k \in Nat
  BY DEF IndInv, TypeOK, Positions, Heads
<1> QED BY <1>1, <1>2 DEF PipelineLeader

\* Phase coupling and the three passes after it keep the invariant.
LEMMA PassesKeep ==
  ASSUME IndInv,
         \/ phaseCoupleInitLoops \/ horizontalSubBatch
         \/ pipelinePhaseCouple \/ SuppressHelpers
  PROVE  IndInv'
<1>1. accepted \in Seq(Summaries) /\ \A k \in Positions : accepted[k] \in Summaries
  BY DEF IndInv, TypeOK, Positions
<1>2. CASE phaseCoupleInitLoops
  <2> DEFINE up == IF opt.mode = "GPU_PROFITABLE" /\ opt.phaseCouple
                   THEN {k \in Positions : Promoted(k)} ELSE {}
             to == [k \in Positions |->
                     IF k \in up THEN [accepted[k] EXCEPT !.target = GPU]
                                 ELSE accepted[k]]
  <2>1. /\ phase = "loops" /\ phase' = "batch" /\ UNCHANGED PassVars
        /\ accepted' = to /\ coupled' = {accepted[k].loop : k \in up}
    BY <1>2 DEF phaseCoupleInitLoops
  <2>2. up \subseteq Positions /\ coupled = {}
    BY <2>1 DEF IndInv, HistoryOK
  <2> HIDE DEF up
  <2>3. \A k \in Positions :
          /\ to[k] \in Summaries
          /\ to[k].loop = accepted[k].loop
          /\ \/ to[k].target \in {SEQ, accepted[k].target}
             \/ accepted[k].loop \in coupled' /\ to[k].target = GPU
    BY <1>1, <2>1, <2>2 DEF Summaries
  <2>4. accepted' = [k \in Positions |-> to[k]]
    BY <2>1
  <2>5. coupled' \subseteq {accepted[k].loop : k \in Positions} \cup coupled
    BY <2>1, <2>2
  <2>6. phase' \in {"batch", "pipeline", "helpers", "emit"} /\ phase # "emit"
        /\ coupled \subseteq coupled' /\ UNCHANGED PassVars
    BY <2>1, <2>2
  <2> HIDE DEF to
  <2> QED BY <2>3, <2>4, <2>5, <2>6, PassKeeps
<1>3. CASE horizontalSubBatch
  <2> DEFINE lead == IF opt.mode = "GPU_PROFITABLE" THEN BatchLeaders
                     ELSE [k \in Positions |-> 0]
             to == [k \in Positions |->
                      [accepted[k] EXCEPT !.batchLeader = lead[k]]]
  <2>1. /\ phase = "batch" /\ phase' = "pipeline" /\ UNCHANGED PassVars
        /\ accepted' = to /\ coupled' = coupled
    BY <1>3 DEF horizontalSubBatch
  <2>2. \A k \in Positions : lead[k] \in Nat
    BY BatchesWhole DEF Leaders
  <2> HIDE DEF lead
  <2>3. \A k \in Positions :
          /\ to[k] \in Summaries
          /\ to[k].loop = accepted[k].loop
          /\ \/ to[k].target \in {SEQ, accepted[k].target}
             \/ accepted[k].loop \in coupled' /\ to[k].target = GPU
    BY <1>1, <2>2 DEF Summaries
  <2>4. accepted' = [k \in Positions |-> to[k]]
    BY <2>1
  <2>5. coupled' \subseteq {accepted[k].loop : k \in Positions} \cup coupled
    BY <2>1
  <2>6. phase' \in {"batch", "pipeline", "helpers", "emit"} /\ phase # "emit"
        /\ coupled \subseteq coupled' /\ UNCHANGED PassVars
    BY <2>1
  <2> HIDE DEF to
  <2> QED BY <2>3, <2>4, <2>5, <2>6, PassKeeps
<1>4. CASE pipelinePhaseCouple
  <2> DEFINE to == [k \in Positions |->
                      [accepted[k] EXCEPT !.pipelineLeader = PipelineLeader(k)]]
  <2>1. /\ phase = "pipeline" /\ phase' = "helpers" /\ UNCHANGED PassVars
        /\ accepted' = to /\ coupled' = coupled
    BY <1>4 DEF pipelinePhaseCouple
  <2>2. \A k \in Positions : PipelineLeader(k) \in Nat
    BY PipelineLeaderType
  <2>3. \A k \in Positions :
          /\ to[k] \in Summaries
          /\ to[k].loop = accepted[k].loop
          /\ \/ to[k].target \in {SEQ, accepted[k].target}
             \/ accepted[k].loop \in coupled' /\ to[k].target = GPU
    BY <1>1, <2>2 DEF Summaries
  <2>4. accepted' = [k \in Positions |-> to[k]]
    BY <2>1
  <2>5. coupled' \subseteq {accepted[k].loop : k \in Positions} \cup coupled
    BY <2>1
  <2>6. phase' \in {"batch", "pipeline", "helpers", "emit"} /\ phase # "emit"
        /\ coupled \subseteq coupled' /\ UNCHANGED PassVars
    BY <2>1
  <2> HIDE DEF to
  <2> QED BY <2>3, <2>4, <2>5, <2>6, PassKeeps
<1>5. CASE SuppressHelpers
  <2> DEFINE small(k) == /\ IsGpu(k) /\ SmallHelper(k)
                         /\ accepted[k].batchLeader = 0
                         /\ accepted[k].pipelineLeader = 0
             to == [k \in Positions |->
                     IF small(k) THEN [accepted[k] EXCEPT !.target = SEQ]
                                 ELSE accepted[k]]
  <2>1. /\ phase = "helpers" /\ phase' = "emit" /\ UNCHANGED PassVars
        /\ accepted' = to /\ coupled' = coupled
    BY <1>5 DEF SuppressHelpers
  <2> HIDE DEF small
  <2>3. \A k \in Positions :
          /\ to[k] \in Summaries
          /\ to[k].loop = accepted[k].loop
          /\ \/ to[k].target \in {SEQ, accepted[k].target}
             \/ accepted[k].loop \in coupled' /\ to[k].target = GPU
    BY <1>1 DEF Summaries
  <2>4. accepted' = [k \in Positions |-> to[k]]
    BY <2>1
  <2>5. coupled' \subseteq {accepted[k].loop : k \in Positions} \cup coupled
    BY <2>1
  <2>6. phase' \in {"batch", "pipeline", "helpers", "emit"} /\ phase # "emit"
        /\ coupled \subseteq coupled' /\ UNCHANGED PassVars
    BY <2>1
  <2> HIDE DEF to
  <2> QED BY <2>3, <2>4, <2>5, <2>6, PassKeeps
<1> QED BY <1>2, <1>3, <1>4, <1>5

-----------------------------------------------------------------------------
(* Code generation.                                                        *)

\* An entry whose turn it is may get a directive that agrees with its target,
\* or none.
LEMMA EmitKeeps ==
  ASSUME IndInv, NEW k \in Positions, NextEntry(k),
         parallelized' \in Nat,
         \/ directive' = directive
         \/ \E t \in {CPU, GPU} :
              /\ Write(k, t)
              /\ accepted[k].target # SEQ
              /\ t = GPU => accepted[k].target = GPU
  PROVE  IndInv'
<1> USE DEF inputVars
<1>1. /\ shape' = shape /\ opt' = opt /\ facts' = facts
      /\ accepted' = accepted /\ selectedLoops' = selectedLoops
      /\ skipped' = skipped /\ phase' = phase /\ coupled' = coupled
      /\ phase = "emit" /\ emitted' = k
  BY DEF NextEntry
<1>2. EntryOK(accepted[k])
  BY DEF IndInv, EntriesOK
<1>3. accepted[k].loop \in 1 .. Len(facts)
  BY <1>2 DEF EntryOK
<1>4. DirectivesKnown' /\ DOMAIN directive' \subseteq 1 .. Len(facts)
      /\ \A i \in DOMAIN directive' : directive'[i] \in {CPU, GPU}
  <2>1. DirectivesKnown /\ DOMAIN directive \subseteq 1 .. Len(facts)
        /\ \A i \in DOMAIN directive : directive[i] \in {CPU, GPU}
    BY DEF IndInv, TypeOK
  <2>2. Positions' = Positions
    BY <1>1 DEF Positions
  <2>3. CASE directive' = directive
    BY <1>1, <2>1, <2>2, <2>3 DEF DirectivesKnown
  <2>4. CASE \E t \in {CPU, GPU} :
               /\ Write(k, t)
               /\ accepted[k].target # SEQ
               /\ t = GPU => accepted[k].target = GPU
    <3>1. PICK t \in {CPU, GPU} :
               /\ Write(k, t)
               /\ accepted[k].target # SEQ
               /\ t = GPU => accepted[k].target = GPU
      BY <2>4
    <3>2. /\ DOMAIN directive' = DOMAIN directive \cup {accepted[k].loop}
          /\ \A i \in DOMAIN directive' :
               directive'[i] = IF i = accepted[k].loop THEN t ELSE directive[i]
      BY <3>1 DEF Write
    <3>3. DirectivesKnown'
      <4> SUFFICES ASSUME NEW i \in DOMAIN directive'
                   PROVE  \E n \in Positions :
                            /\ accepted[n].loop = i
                            /\ accepted[n].target # SEQ
                            /\ directive'[i] = GPU => accepted[n].target = GPU
        BY <1>1, <2>2 DEF DirectivesKnown
      <4>1. CASE i = accepted[k].loop
        BY <3>1, <3>2, <4>1
      <4>2. CASE i # accepted[k].loop
        BY <2>1, <3>2, <4>2 DEF DirectivesKnown
      <4> QED BY <4>1, <4>2
    <3> QED BY <1>3, <2>1, <3>2, <3>3
  <2> QED BY <2>3, <2>4
<1>5. TypeOK'
  <2>1. Summaries' = Summaries
    BY <1>1 DEF Summaries
  <2>2. emitted' \in 0 .. Len(accepted')
    BY <1>1 DEF IndInv, TypeOK, Positions
  <2> QED BY <1>1, <1>4, <2>1, <2>2 DEF IndInv, TypeOK
<1>6. EntriesOK'
  BY <1>1 DEF IndInv, EntriesOK, EntryOK, Positions, Checked
<1>7. HistoryOK' /\ EntriesDistinct'
  BY <1>1 DEF IndInv, HistoryOK, EntriesDistinct, Positions
<1> QED BY <1>4, <1>5, <1>6, <1>7 DEF IndInv

\* Every backend keeps the invariant.
LEMMA GenerationKeeps ==
  ASSUME IndInv, NEW k \in Positions,
         LeaveInitLoop(k) \/ GenerateKernel(k) \/ GeneratePragmas(k)
  PROVE  IndInv'
<1>1. parallelized \in Nat /\ accepted[k].target \in {SEQ, CPU, GPU}
  <2>1. accepted[k] \in Summaries /\ parallelized \in Nat
    BY DEF IndInv, TypeOK, Positions
  <2> QED BY <2>1 DEF Summaries
<1>2. SEQ # GPU /\ CPU # GPU /\ SEQ # CPU
  BY DEF SEQ, CPU, GPU
<1>3. NextEntry(k)
  BY DEF LeaveInitLoop, GenerateKernel, GeneratePragmas
<1>4. parallelized' \in Nat
  BY <1>1 DEF LeaveInitLoop, GenerateKernel, GeneratePragmas, Write
<1>5. \/ directive' = directive
      \/ \E t \in {CPU, GPU} :
           /\ Write(k, t)
           /\ accepted[k].target # SEQ
           /\ t = GPU => accepted[k].target = GPU
  BY <1>1, <1>2 DEF LeaveInitLoop, GenerateKernel, GeneratePragmas, IsGpu
<1> QED BY <1>3, <1>4, <1>5, EmitKeeps

-----------------------------------------------------------------------------
(* The theorems.                                                           *)

\* Whatever the input, main() preserves the invariant.
THEOREM IndInvHolds == Spec => []IndInv
<1>1. Init => IndInv
  <2> SUFFICES ASSUME Init PROVE IndInv
    OBVIOUS
  <2>1. Len(shape) \in Nat
    BY InputAssumption DEF Init
  <2>2. Positions = {} /\ DOMAIN directive = {} /\ Len(facts) = 0
        /\ Len(accepted) = 0
    BY DEF Init, Positions
  <2> QED BY <2>1, <2>2 DEF Init, IndInv, TypeOK, EntriesOK, EntriesDistinct,
                            DirectivesKnown, HistoryOK
<1>2. IndInv /\ [Next]_vars => IndInv'
  <2> SUFFICES ASSUME IndInv, [Next]_vars PROVE IndInv'
    OBVIOUS
  <2>1. CASE \E i \in DOMAIN shape, f \in Facts :
               \/ SkipLoop(i, f) \/ RejectLoop(i, f) \/ KeepInitLoop(i, f)
               \/ ReportLoop(i, f) \/ AcceptLoop(i, f)
    BY <2>1, LoopsKeep
  <2>2. CASE \/ phaseCoupleInitLoops \/ horizontalSubBatch
             \/ pipelinePhaseCouple \/ SuppressHelpers
    BY <2>2, PassesKeep
  <2>3. CASE \E k \in Positions :
               LeaveInitLoop(k) \/ GenerateKernel(k) \/ GeneratePragmas(k)
    BY <2>3, GenerationKeeps
  <2>4. CASE UNCHANGED vars
    BY <2>4 DEF vars, IndInv, TypeOK, Summaries, EntriesOK, EntryOK, Checked,
                EntriesDistinct, Positions, DirectivesKnown, HistoryOK
  <2> QED BY <2>1, <2>2, <2>3, <2>4 DEF Next
<1> QED BY <1>1, <1>2, PTL DEF Spec

\* The state of the driver is well typed.
THEOREM TypeCorrect == Spec => []TypeOK
<1>1. IndInv => TypeOK
  BY DEF IndInv
<1> QED BY <1>1, IndInvHolds, PTL

\* No override and no pass gives a directive to a loop that the filters of
\* this command line would have skipped, or to one in print_array.
THEOREM DirectivesSafeHolds == Spec => []DirectivesSafe
<1>1. IndInv => DirectivesSafe
  BY DEF IndInv, DirectivesSafe, DirectivesKnown, EntriesOK, EntryOK
<1> QED BY <1>1, IndInvHolds, PTL

\* Kernels are nested only through phase coupling, in nests of any depth.
THEOREM NoNestedKernelsHolds == Spec => []NoNestedKernels
<1>1. IndInv => NoNestedKernels
  BY DEF IndInv, NoNestedKernels, DirectivesKnown, EntriesOK, EntryOK
<1> QED BY <1>1, IndInvHolds, PTL

\* In the modes that follow the cost model, only phase coupling gives a
\* directive to a loop of the wrong form.
THEOREM FormRespectedHolds == Spec => []FormRespected
<1>1. IndInv => FormRespected
  BY DEF IndInv, FormRespected, DirectivesKnown, EntriesOK, EntryOK
<1> QED BY <1>1, IndInvHolds, PTL

\* Right after phase coupling, every promoted loop feeds a kernel, and a host
\* loop in between that touches its arrays is a candidate that was not
\* promoted: some host loop that is no candidate stood in its way.
LEMMA CouplingStep ==
  ASSUME IndInv, phaseCoupleInitLoops
  PROVE  HostBetweenHeldBack'
<1> DEFINE up == IF opt.mode = "GPU_PROFITABLE" /\ opt.phaseCouple
                 THEN {k \in Positions : Promoted(k)} ELSE {}
<1>1. /\ phase = "loops" /\ facts' = facts
      /\ accepted' = [k \in Positions |->
                        IF k \in up THEN [accepted[k] EXCEPT !.target = GPU]
                                    ELSE accepted[k]]
      /\ coupled' = {accepted[k].loop : k \in up}
  BY DEF phaseCoupleInitLoops, PassVars, inputVars, outputVars
<1>2. /\ \A k \in up : k \in Positions /\ Promoted(k)
      /\ up # {} => \A k \in Positions : Promoted(k) => k \in up
  OBVIOUS
<1> HIDE DEF up
<1>3. Len(accepted) \in Nat /\ \A k \in Positions : accepted[k] \in Summaries
  BY DEF IndInv, TypeOK, Positions
<1>4. Positions' = Positions /\ Positions \subseteq Nat
  BY <1>1, <1>3 DEF Positions
<1>5. \A k \in Positions :
        /\ accepted'[k].loop = accepted[k].loop
        /\ IsGpu(k)' <=> IsGpu(k) \/ k \in up
  BY <1>1, <1>3 DEF Summaries, IsGpu
<1>6. \A k \in Positions : accepted'[k].loop \in coupled' <=> k \in up
  BY <1>1, <1>2, <1>5 DEF IndInv, EntriesDistinct
<1>7. \A k \in Positions : FactsAt(k)' = FactsAt(k)
  BY <1>1, <1>5 DEF FactsAt
<1>8. \A k, n \in Positions : Consumes(k, n)' <=> Consumes(k, n)
  BY <1>7 DEF Consumes, Reads, Writes
<1>9. \A k \in Positions : k \in up => Candidate(k)
  BY <1>2 DEF Promoted
<1>10. ASSUME NEW k \in Positions PROVE Kernels(k)' = Consumers(k)
  <2>1. \A j \in Positions : IsGpu(j)' /\ j \notin up <=> IsGpu(j)
    BY <1>5, <1>9 DEF Candidate
  <2>2. \A j : j \in Kernels(k)' <=> /\ j \in Positions /\ j > k
                                     /\ IsGpu(j)' /\ Consumes(k, j)'
                                     /\ accepted'[j].loop \notin coupled'
    BY <1>4 DEF Kernels, Consumers
  <2>3. \A j : j \in Consumers(k) <=> /\ j \in Positions /\ j > k
                                      /\ IsGpu(j) /\ Consumes(k, j)
    BY DEF Consumers
  <2> QED BY <1>6, <1>8, <2>1, <2>2, <2>3
<1> SUFFICES ASSUME NEW i \in Positions, i \in up
             PROVE  \E g \in Kernels(i)' : \A k \in i + 1 .. g - 1 :
                      Consumes(i, k)' /\ ~IsGpu(k)' => HeldBack(k)'
  BY <1>4, <1>6 DEF HostBetweenHeldBack
<1>11. PICK g \in Consumers(i) :
         \A k \in i + 1 .. g - 1 : IsGpu(k) \/ Candidate(k) \/ ~Consumes(i, k)
  BY <1>2 DEF Promoted
<1>12. ASSUME NEW k \in i + 1 .. g - 1, Consumes(i, k)', ~IsGpu(k)'
       PROVE  HeldBack(k)'
  <2>1. g \in Positions /\ k \in Positions
    BY <1>3, <1>11 DEF Positions, Consumers
  <2>2. Consumes(i, k) /\ ~IsGpu(k) /\ k \notin up
    BY <1>5, <1>8, <1>12, <2>1
  <2>3. Candidate(k) /\ ~Promoted(k)
    BY <1>2, <1>11, <2>1, <2>2
  <2>4. PICK h \in Consumers(k) : \A j \in Consumers(k) : h <= j
    <3>1. Consumers(k) \subseteq Nat /\ Consumers(k) # {}
      BY <1>4, <2>3 DEF Consumers, Candidate
    <3> QED BY <3>1, LeastNumber
  <2>5. PICK m \in k + 1 .. h - 1 :
          ~IsGpu(m) /\ ~Candidate(m) /\ Consumes(k, m)
    BY <2>3, <2>4 DEF Promoted
  <2>6. h \in Positions /\ m \in Positions /\ m > k /\ m < h
    BY <1>3, <2>1, <2>4, <2>5 DEF Positions, Consumers
  <2>7. \A j \in Kernels(k)' : m < j
    <3>1. Consumers(k) \subseteq Nat /\ m \in Nat /\ h \in Nat
      BY <1>4, <2>6 DEF Consumers
    <3> QED BY <1>10, <2>1, <2>4, <2>6, <3>1
  <2>8. ~IsGpu(m)' /\ Consumes(k, m)'
    BY <1>5, <1>8, <1>9, <2>1, <2>5, <2>6
  <2>9. ~(isInitializationLoop(FactsAt(m)) /\ Consumers(m) # {})
    <3>1. Consumers(m) # {} => Writes(m) # {}
      BY DEF Consumers, Consumes
    <3> QED BY <2>5, <3>1 DEF Candidate
  <2>10. isInitializationLoop(FactsAt(k)) /\ Consumers(k) # {}
    BY <2>3 DEF Candidate
  <2>11. /\ isInitializationLoop(FactsAt(k)') /\ Kernels(k)' # {}
         /\ ~(isInitializationLoop(FactsAt(m)') /\ Kernels(m)' # {})
    BY <1>7, <1>10, <2>1, <2>6, <2>9, <2>10
  <2> QED BY <1>4, <2>6, <2>7, <2>8, <2>11 DEF HeldBack
<1>13. g \in Kernels(i)'
  BY <1>10, <1>11
<1> QED BY <1>12, <1>13

\* Phase coupling promotes for the sake of a kernel; the accepted loops that
\* may touch the promoted loop's arrays on the host before it are the
\* candidates that phase coupling held back, and no others.
THEOREM HostBetweenHeldBackHolds == Spec => []HostBetweenHeldBack
<1>1. Init => HostBetweenHeldBack
  BY DEF Init, HostBetweenHeldBack
<1>2. IndInv /\ HostBetweenHeldBack /\ [Next]_vars => HostBetweenHeldBack'
  <2> SUFFICES ASSUME IndInv, HostBetweenHeldBack, [Next]_vars
               PROVE  HostBetweenHeldBack'
    OBVIOUS
  <2>1. CASE phaseCoupleInitLoops
    BY <2>1, CouplingStep
  <2>2. CASE UNCHANGED vars
    <3>1. /\ phase' = phase /\ accepted' = accepted /\ coupled' = coupled
          /\ facts' = facts /\ Positions' = Positions
      BY <2>2 DEF vars, Positions
    <3>2. \A j, k : /\ Consumes(j, k)' <=> Consumes(j, k)
                    /\ IsGpu(k)' <=> IsGpu(k)
                    /\ FactsAt(k)' = FactsAt(k)
      BY <3>1 DEF Consumes, Reads, Writes, FactsAt, IsGpu
    <3>3. \A k : Kernels(k)' = Kernels(k)
      BY <3>1, <3>2 DEF Kernels, Consumers
    <3>4. \A k : HeldBack(k)' <=> HeldBack(k)
      BY <3>1, <3>2, <3>3 DEF HeldBack
    <3> QED BY <3>1, <3>2, <3>3, <3>4 DEF HostBetweenHeldBack
  <2>3. CASE Next /\ ~phaseCoupleInitLoops
    <3>1. phase' # "batch"
      BY <2>3 DEF Next, SkipLoop, RejectLoop, KeepInitLoop, ReportLoop,
                  AcceptLoop, NextLoop, horizontalSubBatch,
                  pipelinePhaseCouple, SuppressHelpers, LeaveInitLoop,
                  GenerateKernel, GeneratePragmas, NextEntry
    <3> QED BY <3>1 DEF HostBetweenHeldBack
  <2> QED BY <2>1, <2>2, <2>3
<1> QED BY <1>1, <1>2, IndInvHolds, PTL DEF Spec

-----------------------------------------------------------------------------
(* The counters of the final report.                                       *)

\* The entries up to n that code generation leaves alone.
LeftAlone(n) == {k \in 1 .. n : accepted[k].coupleOnly /\ ~IsGpu(k)}

\* Every loop that was examined is counted as skipped or parallelized, or is
\* waiting for code generation, or was left alone by it.
CountInv ==
  /\ phase # "loops" => Len(facts) = Len(shape)
  /\ phase # "emit" => emitted = 0
  /\ Len(facts) + emitted = Len(accepted) + skipped + parallelized
                              + Cardinality(LeftAlone(emitted))
  /\ IsFiniteSet(DOMAIN directive)
  /\ Cardinality(DOMAIN directive) <= parallelized

\* The numbers that the counting adds up.
LEMMA CountTypes ==
  ASSUME TypeOK
  PROVE  /\ Len(facts) \in Nat /\ Len(accepted) \in Nat /\ Len(shape) \in Nat
         /\ skipped \in Nat /\ parallelized \in Nat /\ emitted \in Nat
         /\ \A n \in Nat : /\ IsFiniteSet(LeftAlone(n))
                           /\ Cardinality(LeftAlone(n)) \in Nat
<1>1. Len(shape) \in Nat
  BY InputAssumption DEF TypeOK
<1>2. ASSUME NEW n \in Nat
      PROVE  IsFiniteSet(LeftAlone(n)) /\ Cardinality(LeftAlone(n)) \in Nat
  <2>1. LeftAlone(n) \subseteq 1 .. n /\ IsFiniteSet(1 .. n)
    BY FS_Interval DEF LeftAlone
  <2> QED BY <2>1, FS_Subset, FS_CardinalityType
<1>3. Len(facts) \in Nat /\ Len(accepted) \in Nat
  BY DEF TypeOK
<1>4. skipped \in Nat /\ parallelized \in Nat /\ emitted \in 0 .. Len(accepted)
  BY DEF TypeOK
<1>5. emitted \in Nat
  BY <1>3, <1>4
<1> QED BY <1>1, <1>2, <1>3, <1>4, <1>5

\* Examining a loop counts it, or puts it among the accepted ones.
LEMMA LoopsCount ==
  ASSUME IndInv, CountInv, NEW i \in DOMAIN shape, NEW f \in Facts,
         \/ SkipLoop(i, f) \/ RejectLoop(i, f) \/ KeepInitLoop(i, f)
         \/ ReportLoop(i, f) \/ AcceptLoop(i, f)
  PROVE  CountInv'
<1> USE DEF inputVars, outputVars
<1>1. /\ phase = "loops" /\ phase' = phase /\ emitted' = emitted
      /\ facts' = Append(facts, f) /\ directive' = directive /\ emitted = 0
  BY DEF SkipLoop, RejectLoop, KeepInitLoop, ReportLoop, AcceptLoop, NextLoop,
         CountInv
<1>2. Len(facts') = Len(facts) + 1
  BY <1>1 DEF IndInv, TypeOK
<1>3. \A s : Len(Append(accepted, s)) = Len(accepted) + 1
  BY DEF IndInv, TypeOK
<1>4. \/ accepted' = accepted /\ skipped' = skipped + 1
           /\ parallelized' = parallelized
      \/ accepted' = accepted /\ skipped' = skipped
           /\ parallelized' = parallelized + 1
      \/ Len(accepted') = Len(accepted) + 1 /\ skipped' = skipped
           /\ parallelized' = parallelized
  BY <1>3 DEF SkipLoop, RejectLoop, KeepInitLoop, ReportLoop, AcceptLoop
<1>5. LeftAlone(emitted) = {} /\ LeftAlone(emitted)' = {}
  BY <1>1 DEF LeftAlone
<1>6. /\ Len(facts) \in Nat /\ Len(accepted) \in Nat
      /\ skipped \in Nat /\ parallelized \in Nat
  BY CountTypes DEF IndInv
<1>7. /\ IsFiniteSet(DOMAIN directive')
      /\ Cardinality(DOMAIN directive') <= parallelized'
  <2>1. Cardinality(DOMAIN directive) \in Nat
        /\ Cardinality(DOMAIN directive) <= parallelized
        /\ IsFiniteSet(DOMAIN directive)
    BY FS_CardinalityType DEF CountInv
  <2>2. parallelized' \in {parallelized, parallelized + 1}
    BY <1>4
  <2> QED BY <1>1, <1>6, <2>1, <2>2
<1>8. Len(facts') + emitted' = Len(accepted') + skipped' + parallelized'
                                 + Cardinality(LeftAlone(emitted)')
  <2>1. Cardinality(LeftAlone(emitted)') = 0 /\ Cardinality(LeftAlone(emitted)) = 0
    BY <1>5, FS_EmptySet
  <2>2. Len(facts) = Len(accepted) + skipped + parallelized
    BY <1>1, <1>6, <2>1 DEF CountInv
  <2> QED BY <1>1, <1>2, <1>4, <1>6, <2>1, <2>2
<1> QED BY <1>1, <1>7, <1>8 DEF CountInv

\* The passes neither add nor drop an accepted loop.
LEMMA PassesCount ==
  ASSUME IndInv, CountInv,
         \/ phaseCoupleInitLoops \/ horizontalSubBatch
         \/ pipelinePhaseCouple \/ SuppressHelpers
  PROVE  CountInv'
<1> USE DEF PassVars, inputVars, outputVars
<1>1. /\ phase # "emit" /\ emitted = 0 /\ emitted' = 0
      /\ facts' = facts /\ shape' = shape /\ Len(facts) = Len(shape)
      /\ skipped' = skipped /\ parallelized' = parallelized
      /\ directive' = directive
  BY DEF phaseCoupleInitLoops, horizontalSubBatch, pipelinePhaseCouple,
         SuppressHelpers, CountInv
<1>2. Len(accepted') = Len(accepted)
  <2>1. Len(accepted) \in Nat
    BY CountTypes DEF IndInv
  <2> QED BY <2>1 DEF phaseCoupleInitLoops, horizontalSubBatch,
                      pipelinePhaseCouple, SuppressHelpers, Positions
<1>3. LeftAlone(emitted) = {} /\ LeftAlone(emitted)' = {}
  BY <1>1 DEF LeftAlone
<1> QED BY <1>1, <1>2, <1>3 DEF CountInv

\* Code generation counts an entry as parallelized or leaves it alone.
LEMMA GenerationCount ==
  ASSUME IndInv, CountInv, NEW k \in Positions,
         LeaveInitLoop(k) \/ GenerateKernel(k) \/ GeneratePragmas(k)
  PROVE  CountInv'
<1> USE DEF inputVars
<1>1. /\ phase = "emit" /\ phase' = phase /\ emitted' = emitted + 1
      /\ k = emitted + 1 /\ facts' = facts /\ shape' = shape
      /\ accepted' = accepted /\ skipped' = skipped
  BY DEF LeaveInitLoop, GenerateKernel, GeneratePragmas, NextEntry
<1>2. LeftAlone(emitted)' = LeftAlone(k)
  BY <1>1 DEF LeftAlone, IsGpu
<1> DEFINE left == Cardinality(LeftAlone(emitted))
           done == Cardinality(DOMAIN directive)
<1>3. /\ Len(facts) \in Nat /\ Len(accepted) \in Nat /\ skipped \in Nat
      /\ parallelized \in Nat /\ emitted \in Nat
      /\ IsFiniteSet(LeftAlone(emitted)) /\ left \in Nat
      /\ IsFiniteSet(DOMAIN directive) /\ done \in Nat
  BY CountTypes, FS_CardinalityType DEF IndInv, CountInv
<1>4. /\ Len(facts) + emitted = Len(accepted) + skipped + parallelized + left
      /\ done <= parallelized /\ Len(facts) = Len(shape)
  BY <1>1 DEF CountInv
<1>5. 1 .. k = (1 .. emitted) \cup {k} /\ k \notin 1 .. emitted
  BY <1>1, <1>3
<1>6. /\ Cardinality(LeftAlone(k)) \in Nat /\ parallelized' \in Nat
      /\ Cardinality(LeftAlone(k)) + parallelized' = left + parallelized + 1
      /\ IsFiniteSet(DOMAIN directive')
      /\ Cardinality(DOMAIN directive') <= parallelized'
  <2>1. CASE accepted[k].coupleOnly /\ ~IsGpu(k)
    <3>1. UNCHANGED <<parallelized, directive>>
      BY <2>1 DEF LeaveInitLoop, GenerateKernel, GeneratePragmas
    <3>2. LeftAlone(k) = LeftAlone(emitted) \cup {k}
          /\ k \notin LeftAlone(emitted)
      BY <1>5, <2>1 DEF LeftAlone
    <3>3. Cardinality(LeftAlone(k)) = left + 1
      BY <1>3, <3>2, FS_AddElement
    <3> QED BY <1>3, <1>4, <3>1, <3>3
  <2>2. CASE ~(accepted[k].coupleOnly /\ ~IsGpu(k))
    <3>1. /\ parallelized' = parallelized + 1
          /\ \/ DOMAIN directive' = DOMAIN directive
             \/ DOMAIN directive' = DOMAIN directive \cup {accepted[k].loop}
      BY <2>2 DEF LeaveInitLoop, GenerateKernel, GeneratePragmas, Write
    <3>2. LeftAlone(k) = LeftAlone(emitted)
      BY <1>5, <2>2 DEF LeftAlone
    <3>3. /\ IsFiniteSet(DOMAIN directive')
          /\ Cardinality(DOMAIN directive') \in {done, done + 1}
      <4>1. CASE accepted[k].loop \in DOMAIN directive
        <5>1. DOMAIN directive' = DOMAIN directive
          BY <3>1, <4>1
        <5> QED BY <1>3, <5>1
      <4>2. CASE accepted[k].loop \notin DOMAIN directive
        <5>1. /\ IsFiniteSet(DOMAIN directive \cup {accepted[k].loop})
              /\ Cardinality(DOMAIN directive \cup {accepted[k].loop}) = done + 1
          BY <1>3, <4>2, FS_AddElement
        <5> QED BY <1>3, <3>1, <5>1
      <4> QED BY <4>1, <4>2
    <3> QED BY <1>3, <1>4, <3>1, <3>2, <3>3
  <2> QED BY <2>1, <2>2
<1>7. Len(facts') + emitted' = Len(accepted') + skipped' + parallelized'
                                 + Cardinality(LeftAlone(emitted)')
  <2>1. Cardinality(LeftAlone(emitted)') = Cardinality(LeftAlone(k))
    BY <1>2
  <2>2. /\ Len(facts') = Len(facts) /\ Len(accepted') = Len(accepted)
        /\ emitted' = emitted + 1 /\ skipped' = skipped
    BY <1>1
  <2> HIDE DEF left
  <2>3. Len(facts) + (emitted + 1) = Len(accepted) + skipped + parallelized'
                                       + Cardinality(LeftAlone(k))
    <3>1. PICK a, b, c, d, e, f, g, h \in Nat :
            /\ a = Len(facts) /\ b = emitted /\ c = Len(accepted) /\ d = skipped
            /\ e = parallelized /\ f = left /\ g = Cardinality(LeftAlone(k))
            /\ h = parallelized'
      BY <1>3, <1>6
    <3>2. a + b = c + d + e + f /\ g + h = f + e + 1
      BY <1>4, <1>6, <3>1
    <3>3. a + (b + 1) = c + d + h + g
      BY <3>2
    <3> QED BY <3>1, <3>3
  <2> QED BY <2>1, <2>2, <2>3
<1> QED BY <1>1, <1>4, <1>6, <1>7 DEF CountInv

\* The final report adds up: every loop of the project is counted once, or is
\* an init_array loop that was left alone.
THEOREM CountsAgreeHolds == Spec => []CountsAgree
<1>1. ASSUME Init PROVE CountInv
  <2>1. /\ LeftAlone(emitted) = {} /\ DOMAIN directive = {}
        /\ Len(facts) = 0 /\ Len(accepted) = 0
    BY <1>1 DEF Init, LeftAlone
  <2>2. Cardinality(LeftAlone(emitted)) = 0 /\ Cardinality(DOMAIN directive) = 0
        /\ IsFiniteSet(DOMAIN directive)
    BY <2>1, FS_EmptySet
  <2> QED BY <1>1, <2>1, <2>2 DEF Init, CountInv
<1>2. ASSUME IndInv, CountInv, [Next]_vars PROVE CountInv'
  <2>1. CASE UNCHANGED vars
    BY <1>2, <2>1 DEF vars, CountInv, LeftAlone, IsGpu
  <2> QED BY <1>2, <2>1, LoopsCount, PassesCount, GenerationCount DEF Next
<1>3. ASSUME IndInv, CountInv PROVE CountsAgree
  <2> SUFFICES ASSUME phase = "emit", emitted = Len(accepted)
               PROVE  /\ parallelized + skipped
                           + Cardinality({k \in Positions :
                                accepted[k].coupleOnly /\ ~IsGpu(k)})
                           = Len(shape)
                      /\ Cardinality(DOMAIN directive) <= parallelized
    BY DEF CountsAgree
  <2>1. LeftAlone(emitted)
          = {k \in Positions : accepted[k].coupleOnly /\ ~IsGpu(k)}
    BY DEF LeftAlone, Positions
  <2>2. /\ Len(accepted) \in Nat /\ Len(shape) \in Nat /\ skipped \in Nat
        /\ parallelized \in Nat /\ Cardinality(LeftAlone(emitted)) \in Nat
    BY <1>3, CountTypes DEF IndInv
  <2>3. /\ Len(shape) + Len(accepted) = Len(accepted) + skipped + parallelized
                                          + Cardinality(LeftAlone(emitted))
        /\ Cardinality(DOMAIN directive) <= parallelized
    BY <1>3 DEF CountInv
  <2> QED BY <2>1, <2>2, <2>3
<1>4. IndInv /\ CountInv => CountsAgree
  BY <1>3
<1> QED BY <1>1, <1>2, <1>4, IndInvHolds, PTL DEF Spec

-----------------------------------------------------------------------------
(* The groups of helper loops.                                             *)

\* A loop with a leader has a partner on the GPU with the same leader.
Partners ==
  /\ phase \in {"pipeline", "helpers", "emit"} =>
       \A k \in Positions : accepted[k].batchLeader # 0 =>
         \E j \in Positions \ {k} :
           IsGpu(j) /\ accepted[j].batchLeader = accepted[k].batchLeader
  /\ phase \in {"helpers", "emit"} =>
       \A k \in Positions : accepted[k].pipelineLeader # 0 =>
         \E j \in Positions \ {k} :
           IsGpu(j) /\ accepted[j].pipelineLeader = accepted[k].pipelineLeader

\* After SuppressHelpers, a small helper loop on the GPU has a leader.
HelpersLed ==
  phase = "emit" => \A k \in Positions :
    IsGpu(k) /\ SmallHelper(k)
    => accepted[k].batchLeader # 0 \/ accepted[k].pipelineLeader # 0

GroupInv == Partners /\ HelpersLed

\* horizontalSubBatch finds whole batches.
LEMMA BatchGroups ==
  ASSUME IndInv, horizontalSubBatch
  PROVE  GroupInv'
<1> DEFINE lead == IF opt.mode = "GPU_PROFITABLE" THEN BatchLeaders
                   ELSE [k \in Positions |-> 0]
<1>1. /\ phase' = "pipeline"
      /\ accepted' = [k \in Positions |->
                        [accepted[k] EXCEPT !.batchLeader = lead[k]]]
  BY DEF horizontalSubBatch
<1>2. PICK last : WholeBatches(lead, last)
  <2>1. WholeBatches([k \in Positions |-> 0], 0)
    BY DEF WholeBatches
  <2> QED BY <2>1, BatchesWhole
<1> HIDE DEF lead
<1>3. Positions' = Positions /\ Len(accepted) \in Nat
  <2>1. Len(accepted) \in Nat
    BY DEF IndInv, TypeOK
  <2> QED BY <1>1, <2>1 DEF Positions
<1>4. \A k \in Positions : accepted[k] \in Summaries
  BY DEF IndInv, TypeOK, Positions
<1>5. \A k \in Positions : /\ accepted'[k].batchLeader = lead[k]
                           /\ accepted'[k].target = accepted[k].target
  BY <1>1, <1>4 DEF Summaries
<1>6. ASSUME NEW k \in Positions, lead[k] # 0
      PROVE  \E j \in Positions \ {k} : IsGpu(j) /\ lead[j] = lead[k]
  <2>1. PICK h : h = lead[k]
    OBVIOUS
  <2>2. /\ h \in Positions /\ IsGpu(h) /\ lead[h] = h
        /\ BatchEnd(h) # h /\ lead[BatchEnd(h)] = h
    BY <1>2, <1>6, <2>1 DEF WholeBatches
  <2>3. BatchEnd(h) \in h .. Len(accepted)
        /\ (BatchEnd(h) = h \/ IsGpu(BatchEnd(h)))
    BY <2>2, BatchEndType DEF Ends
  <2>4. BatchEnd(h) \in Positions
    BY <1>3, <2>2, <2>3 DEF Positions
  <2> QED BY <2>1, <2>2, <2>3, <2>4
<1>7. Partners'
  <2>1. \A k \in Positions : accepted'[k].batchLeader # 0 =>
          \E j \in Positions \ {k} :
            IsGpu(j)' /\ accepted'[j].batchLeader = accepted'[k].batchLeader
    BY <1>5, <1>6 DEF IsGpu
  <2> QED BY <1>1, <1>3, <2>1 DEF Partners
<1> QED BY <1>1, <1>7 DEF GroupInv, HelpersLed

\* pipelinePhaseCouple gives neighbours in a run the same leader.
LEMMA PipelineGroups ==
  ASSUME IndInv, GroupInv, pipelinePhaseCouple
  PROVE  GroupInv'
<1> DEFINE lead(k) == PipelineLeader(k)
<1>1. /\ phase = "pipeline" /\ phase' = "helpers"
      /\ accepted' = [k \in Positions |->
                        [accepted[k] EXCEPT !.pipelineLeader = lead(k)]]
  BY DEF pipelinePhaseCouple
<1>2. Positions' = Positions /\ Len(accepted) \in Nat
  <2>1. Len(accepted) \in Nat
    BY DEF IndInv, TypeOK
  <2> QED BY <1>1, <2>1 DEF Positions
<1>3. \A k \in Positions : accepted[k] \in Summaries
  BY DEF IndInv, TypeOK, Positions
<1>4. ASSUME NEW k \in Positions, lead(k) # 0
      PROVE  \E j \in Positions \ {k} : IsGpu(j) /\ lead(j) = lead(k)
  <2>1. opt.mode = "GPU_PROFITABLE" /\ (Joins(k) \/ Joins(k + 1))
        /\ lead(k) = CHOOSE i \in Heads(k) : TRUE
    BY <1>4 DEF PipelineLeader
  <2>2. CASE Joins(k)
    <3>1. k - 1 \in Positions \ {k} /\ IsGpu(k - 1) /\ (k - 1) + 1 = k
      BY <1>2, <2>2 DEF Joins, Positions
    <3>2. Heads(k) = Heads(k - 1)
      BY <2>2, <3>1, HeadsJoin
    <3>3. lead(k - 1) = CHOOSE i \in Heads(k - 1) : TRUE
      BY <2>1, <2>2, <3>1 DEF PipelineLeader
    <3> HIDE DEF lead
    <3> QED BY <2>1, <3>1, <3>2, <3>3
  <2>3. CASE Joins(k + 1)
    <3>1. k + 1 \in Positions \ {k} /\ IsGpu(k + 1)
      BY <1>2, <2>3 DEF Joins, Positions
    <3>2. Heads(k + 1) = Heads(k)
      BY <2>3, HeadsJoin
    <3>3. lead(k + 1) = CHOOSE i \in Heads(k + 1) : TRUE
      BY <2>1, <2>3 DEF PipelineLeader
    <3> HIDE DEF lead
    <3> QED BY <2>1, <3>1, <3>2, <3>3
  <2> QED BY <2>1, <2>2, <2>3
<1> HIDE DEF lead
<1>5. \A k \in Positions : /\ accepted'[k].pipelineLeader = lead(k)
                           /\ accepted'[k].batchLeader = accepted[k].batchLeader
                           /\ accepted'[k].target = accepted[k].target
  BY <1>1, <1>3 DEF Summaries
<1>6. Partners'
  <2>1. \A k \in Positions : accepted[k].batchLeader # 0 =>
          \E j \in Positions \ {k} :
            IsGpu(j) /\ accepted[j].batchLeader = accepted[k].batchLeader
    BY <1>1 DEF GroupInv, Partners
  <2>2. \A k \in Positions : accepted'[k].batchLeader # 0 =>
          \E j \in Positions \ {k} :
            IsGpu(j)' /\ accepted'[j].batchLeader = accepted'[k].batchLeader
    BY <1>5, <2>1 DEF IsGpu
  <2>3. \A k \in Positions : accepted'[k].pipelineLeader # 0 =>
          \E j \in Positions \ {k} :
            IsGpu(j)' /\ accepted'[j].pipelineLeader = accepted'[k].pipelineLeader
    BY <1>4, <1>5 DEF IsGpu
  <2> QED BY <1>1, <1>2, <2>2, <2>3 DEF Partners
<1> QED BY <1>1, <1>6 DEF GroupInv, HelpersLed

\* SuppressHelpers takes no loop with a leader from the GPU, and every small
\* helper loop that has none.
LEMMA SuppressGroups ==
  ASSUME IndInv, GroupInv, SuppressHelpers
  PROVE  GroupInv'
<1> USE DEF PassVars, inputVars, outputVars
<1> DEFINE lone(k) == /\ IsGpu(k) /\ SmallHelper(k)
                      /\ accepted[k].batchLeader = 0
                      /\ accepted[k].pipelineLeader = 0
<1>1. /\ phase = "helpers" /\ phase' = "emit"
      /\ shape' = shape /\ facts' = facts
      /\ accepted' = [k \in Positions |->
                        IF lone(k) THEN [accepted[k] EXCEPT !.target = SEQ]
                                   ELSE accepted[k]]
  BY DEF SuppressHelpers
<1>2. Positions' = Positions
  <2>1. Len(accepted) \in Nat
    BY DEF IndInv, TypeOK
  <2> HIDE DEF lone
  <2> QED BY <1>1, <2>1 DEF Positions
<1>3. \A k \in Positions : accepted[k] \in Summaries
  BY DEF IndInv, TypeOK, Positions
<1>4. \A k \in Positions :
        /\ accepted'[k].loop = accepted[k].loop
        /\ accepted'[k].batchLeader = accepted[k].batchLeader
        /\ accepted'[k].pipelineLeader = accepted[k].pipelineLeader
        /\ accepted'[k].target = IF lone(k) THEN SEQ ELSE accepted[k].target
  <2> HIDE DEF lone
  <2> QED BY <1>1, <1>3 DEF Summaries
<1>5. SEQ # GPU
  BY DEF SEQ, GPU
<1>6. Partners'
  <2>1. \A j \in Positions :
          /\ IsGpu(j) /\ accepted[j].batchLeader # 0 => IsGpu(j)'
          /\ IsGpu(j) /\ accepted[j].pipelineLeader # 0 => IsGpu(j)'
    BY <1>4 DEF IsGpu
  <2> HIDE DEF lone
  <2>2. \A k \in Positions : accepted'[k].batchLeader # 0 =>
          \E j \in Positions \ {k} :
            IsGpu(j)' /\ accepted'[j].batchLeader = accepted'[k].batchLeader
    BY <1>1, <1>4, <2>1 DEF GroupInv, Partners
  <2>3. \A k \in Positions : accepted'[k].pipelineLeader # 0 =>
          \E j \in Positions \ {k} :
            IsGpu(j)' /\ accepted'[j].pipelineLeader = accepted'[k].pipelineLeader
    BY <1>1, <1>4, <2>1 DEF GroupInv, Partners
  <2> QED BY <1>1, <1>2, <2>2, <2>3 DEF Partners
<1>7. HelpersLed'
  <2>1. \A k \in Positions : SmallHelper(k)' = SmallHelper(k)
    BY <1>1, <1>4 DEF SmallHelper
  <2> QED BY <1>1, <1>2, <1>4, <1>5, <2>1 DEF HelpersLed, IsGpu
<1> QED BY <1>6, <1>7 DEF GroupInv

\* A small loop of a function that is called in a loop is meant for the GPU
\* only beside another such loop of its own batch or pipeline.
THEOREM HelpersGroupedHolds == Spec => []HelpersGrouped
<1>1. Init => GroupInv
  BY DEF Init, GroupInv, Partners, HelpersLed
<1>2. ASSUME IndInv, GroupInv, [Next]_vars PROVE GroupInv'
  <2> USE DEF GroupInv, Partners, HelpersLed, SmallHelper, IsGpu, Positions
  <2>1. CASE UNCHANGED vars
    BY <1>2, <2>1 DEF vars
  <2>2. CASE phase' \in {"loops", "batch"}
    BY <2>2
  <2>3. CASE \E k \in Positions :
               LeaveInitLoop(k) \/ GenerateKernel(k) \/ GeneratePragmas(k)
    BY <1>2, <2>3 DEF LeaveInitLoop, GenerateKernel, GeneratePragmas,
                      NextEntry, inputVars
  <2>4. CASE \/ phaseCoupleInitLoops
             \/ \E i \in DOMAIN shape, f \in Facts :
                  \/ SkipLoop(i, f) \/ RejectLoop(i, f) \/ KeepInitLoop(i, f)
                  \/ ReportLoop(i, f) \/ AcceptLoop(i, f)
    BY <2>2, <2>4 DEF phaseCoupleInitLoops, SkipLoop, RejectLoop,
                      KeepInitLoop, ReportLoop, AcceptLoop, NextLoop
  <2> QED BY <1>2, <2>1, <2>3, <2>4, BatchGroups, PipelineGroups,
             SuppressGroups DEF Next
<1>3. GroupInv => HelpersGrouped
  BY DEF GroupInv, Partners, HelpersLed, HelpersGrouped, Grouped
<1> QED BY <1>1, <1>2, <1>3, IndInvHolds, PTL DEF Spec
=============================================================================
