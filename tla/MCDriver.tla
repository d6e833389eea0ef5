------------------------------ MODULE MCDriver ------------------------------
(***************************************************************************)
(* Small projects for TLC: every project has one of four arrangements of   *)
(* three or four loops, and each of its loops is any of fourteen kinds.    *)
(***************************************************************************)
EXTENDS Driver, TLC

Loop(in, fn, r) == [inside |-> in, func |-> fn, repeated |-> r]

\* Helper loops before kernels, with room for a loop that stays on the host;
\* a nest of three; a nest in init_array before a function that is called in a
\* loop; and two loops of such a function before an output helper.
SmallShapes == {
  <<Loop({}, "init_array", FALSE), Loop({}, "init_array", FALSE),
    Loop({}, "main", FALSE), Loop({}, "main", FALSE)>>,
  <<Loop({}, "main", FALSE), Loop({1}, "main", FALSE), Loop({1, 2}, "main", FALSE)>>,
  <<Loop({}, "init_array", FALSE), Loop({1}, "init_array", FALSE),
    Loop({}, "other", TRUE)>>,
  <<Loop({}, "other", TRUE), Loop({}, "other", TRUE),
    Loop({}, "print_array", FALSE)>>}

\* A loop worth a kernel: it reads A and writes B.
Kernel == [unsafe |-> {}, canonical |-> TRUE, uniform |-> TRUE, trip |-> 500,
           cpuWork |-> TRUE, gpuWork |-> TRUE, reductions |-> "none",
           leftOnly |-> FALSE, reads |-> {"A"}, writes |-> {"B"}]
Initialize(r, w) == [Kernel EXCEPT !.reads = r, !.writes = w, !.leftOnly = TRUE,
                                   !.cpuWork = FALSE, !.gpuWork = FALSE]

\* The filters treat dependences, pragmas and calls alike.
SmallFacts ==
  {[Kernel EXCEPT !.unsafe = {r}] : r \in {"dependence", "scalar", "race"}}
    \cup {Kernel,
          [Kernel EXCEPT !.trip = 60000, !.reads = {"A", "B"}],
          [Kernel EXCEPT !.reductions = "some", !.reads = {"B"},
                         !.writes = {}],
          [Kernel EXCEPT !.uniform = FALSE, !.trip = 2000],
          [Kernel EXCEPT !.canonical = FALSE, !.trip = 2000],
          [Kernel EXCEPT !.gpuWork = FALSE, !.reductions = "only",
                         !.reads = {"B"}, !.writes = {}],
          [Kernel EXCEPT !.trip = -1, !.gpuWork = FALSE],
          Initialize({}, {"A"}), Initialize({"A"}, {"A", "B"}),
          [Initialize({}, {}) EXCEPT !.canonical = FALSE],
          [Initialize({}, {"B"}) EXCEPT !.canonical = FALSE]}

\* An initialization loop, a kernel, and the same loop with a dependence.
CouplingShapes == {<<Loop({}, "init_array", FALSE), Loop({}, "main", FALSE),
                     Loop({}, "main", FALSE)>>}
CouplingFacts == {Initialize({}, {"A"}), Kernel,
                  [Kernel EXCEPT !.unsafe = {"dependence"}]}

\* The default, and each option that changes a decision.
Default == [mode |-> "GPU_PROFITABLE", scalarDepCheck |-> TRUE,
            strictRaceSafety |-> FALSE, phaseCouple |-> TRUE,
            kernelCodegen |-> FALSE]
SmallOptions ==
  {[Default EXCEPT !.mode = m] : m \in Modes}
    \cup {[Default EXCEPT !.scalarDepCheck = FALSE],
          [Default EXCEPT !.strictRaceSafety = TRUE],
          [Default EXCEPT !.phaseCouple = FALSE],
          [Default EXCEPT !.kernelCodegen = TRUE]}
DefaultOnly == {Default}
=============================================================================
