------------------------------ MODULE MCStartup ------------------------------
(* Startup for TLC: two NVIDIA and two AMD cards, one of each in another    *)
(* PCI domain; scenarios that vary one thing at a time.                     *)
EXTENDS Startup

MCAddress == [c \in Cards |->
    CASE c = "n1" -> [domain |-> 0, bus |-> 1]
      [] c = "n2" -> [domain |-> 1, bus |-> 1]
      [] c = "a1" -> [domain |-> 0, bus |-> 2]
      [] c = "a2" -> [domain |-> 1, bus |-> 2]]

\* Values above 1 are outside every driver's range.
MCAccepts(c, s, v) == v <= 1

On(c, info)  == [card |-> c, usable |-> TRUE, info |-> info]
Off(c, info) == [card |-> c, usable |-> FALSE, info |-> info]

Machine(cuda, platforms) ==
    [cuda |-> cuda, platforms |-> platforms, avx2 |-> TRUE, media_ops |-> {"a1"}]

\* A platform that exposes NVIDIA's card too, then the AMD cards.
Rig == Machine(<<"n1">>, <<<<On("n1", "khr"), On("a1", "khr"), On("a2", "khr")>>>>)

\* Cards exposed by several platforms, one by a platform that cannot use it.
TwoIcds == Machine(<<"n2", "n1">>,
    <<<<Off("a2", "khr"), On("a1", "topology")>>, <<On("a1", "khr"), On("a2", "khr")>>>>)

OpenClOnly == [Machine(<<>>, <<<<On("a1", "khr")>>, <<On("a1", "khr"), On("n1", "khr")>>>>)
               EXCEPT !.avx2 = FALSE]

\* Addresses that cannot be told apart, or are missing.
Vague == Machine(<<>>, <<<<On("a1", "topology"), On("a2", "topology")>>, <<On("a1", "none"), On("n1", "none")>>>>)

Options(asked) ==
    [asked |-> asked, user |-> TRUE, temperatures_ordered |-> TRUE,
     cpu_variant |-> "auto", no_cpu |-> TRUE, no_gpu |-> FALSE, cpu_threads |-> 0,
     explicit |-> FALSE, devices |-> <<>>, gpu_mode |-> "auto",
     block_fits |-> TRUE, variant |-> 3, opencl_variant |-> "auto",
     batch |-> 3, cpu_batch |-> 3]

Asking(o, ds) == [o EXCEPT !.explicit = TRUE, !.devices = ds]
CpuOnly(o) == [o EXCEPT !.no_cpu = FALSE, !.no_gpu = TRUE, !.cpu_threads = 1]

NoControls == [s \in Settings |-> <<>>]

\* Around the target of difficulty one, 60: the high words of 48 .. 63 are equal.
HashesOf(f) == [n \in 0 .. Space - 1 |-> ToBytes(f[n + 1])]
Mixed == HashesOf(<<60, 63, 200, 48, 59, 61, 64, 0>>)
Rich  == HashesOf(<<1, 2, 3, 255, 60, 5, 60, 7>>)

Work(h) == [hash |-> h, difficulty |-> <<1, 0>>, nbits |-> <<4, 3>>, flaky |-> FALSE]

Scenario(m, o, c, w) == [machine |-> m, options |-> o, controls |-> c, work |-> w]

\* No value, one for all, one per card with and without an inadmissible one,
\* and a list of the wrong length.
Lists == {<<>>, <<1>>, <<0>>, <<0, 1, 0>>, <<1, 0, 2>>, <<1, 1>>}

\* The threads of these scenarios end at their configuration.
Unfit(o) == [o EXCEPT !.block_fits = FALSE]

\* All control lists.
ControlScenarios ==
    {Scenario(Rig, Unfit(Asking(Options({"url"}), <<1, 0, 2>>)), c, Work(Mixed)) :
        c \in [Settings -> Lists]}

Fan == [NoControls EXCEPT !["fan"] = <<1>>]
Fans == [NoControls EXCEPT !["fan"] = <<0, 1>>]

Selections == {Options({"url"}), Asking(Options({"url"}), <<2, 0>>),
               Asking(Options({"bench"}), <<1, 7>>),
               Asking([Options({"url"}) EXCEPT !.gpu_mode = "opencl"], <<1, 0>>)}

\* Machines and selections.
SelectionScenarios ==
    {Scenario(m, Unfit([o EXCEPT !.gpu_mode = g]), c, Work(Mixed)) :
        m \in {TwoIcds, OpenClOnly, Vague}, o \in Selections, g \in GpuModes \cup {"other"},
        c \in {NoControls, Fan, Fans}}

\* Every mode with every other, and the refusals of main() and mine().
ModeScenarios ==
    {Scenario(OpenClOnly, o, c, Work(Mixed)) :
        c \in {NoControls, Fan},
        o \in {CpuOnly(Options(a)) : a \in SUBSET {"bench", "demo", "list", "url"}}
              \cup {[CpuOnly(Options(a)) EXCEPT !.cpu_variant = v] :
                      a \in {{"bench"}, {"list"}, {"url"}}, v \in {"avx2", "scalar", "none"}}
              \cup {[Options({"url"}) EXCEPT !.user = FALSE],
                    [Options({"bench"}) EXCEPT !.temperatures_ordered = FALSE],
                    [Options({"bench"}) EXCEPT !.no_gpu = TRUE],
                    [CpuOnly(Options({"bench"})) EXCEPT !.cpu_threads = 0],
                    [CpuOnly(Options({"url"})) EXCEPT !.cpu_threads = 0],
                    [CpuOnly(Options({"url"})) EXCEPT !.cpu_threads = 2],
                    Asking(CpuOnly(Options({"bench"})), <<0>>)}}

\* Kernels: every variant, reports in any order, the buffer's limit, a device
\* that computes wrong, and drivers that fail at any step.
KernelScenarios ==
    {Scenario(Rig, Asking([Options({a}) EXCEPT !.variant = k[2], !.batch = b], k[1]),
              NoControls, [Work(h) EXCEPT !.flaky = f]) :
        a \in {"url", "bench"}, k \in {<<<<1>>, 3>>} \cup ({<<0>>} \X (3 .. 6)),
        b \in {2, 3}, h \in {Mixed, Rich}, f \in BOOLEAN}

\* A card of each kind and a CPU thread.
TogetherScenarios ==
    {Scenario(Rig, Asking([Options({"bench"}) EXCEPT
                                !.no_cpu = FALSE, !.cpu_threads = 1, !.batch = 1,
                                !.block_fits = fits, !.opencl_variant = v], <<0, 2>>),
              NoControls, Work(Mixed)) : v \in {"auto", "amd"}, fits \in BOOLEAN}

\* Difficulties, nbits and wrong vector lanes, on the CPU.
TargetScenarios ==
    {Scenario(Rig, [CpuOnly(Options({"url"})) EXCEPT !.cpu_batch = Space - 1, !.cpu_variant = v],
              NoControls, [Work(Mixed) EXCEPT !.difficulty = d, !.nbits = b]) :
        v \in {"scalar", "auto"},
        d \in {<<1, 0>>, <<0, 0>>, <<1, -1>>, <<5, -1>>, <<25, -2>>, <<7, 0>>, <<1, 1>>},
        b \in {<<4, 3>>}}
    \cup
    {Scenario(Rig, [CpuOnly(Options({"url"})) EXCEPT !.cpu_batch = Space - 1],
              NoControls, [Work(Mixed) EXCEPT !.nbits = <<e, m>>, !.difficulty = <<1, -1>>]) :
        e \in 0 .. HashBytes + 3, m \in 0 .. Base^3 - 1}
    \cup
    {Scenario(Rig, CpuOnly(Options({a})), NoControls, [Work(Mixed) EXCEPT !.flaky = TRUE]) :
        a \in {"url", "bench"}}

MCScenarios ==
    ControlScenarios \cup SelectionScenarios \cup ModeScenarios
    \cup KernelScenarios \cup TogetherScenarios \cup TargetScenarios
=============================================================================
