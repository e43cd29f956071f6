------------------------------- MODULE Startup -------------------------------
(***************************************************************************)
(* The program from the command line to the device threads                 *)
(* (src/src/main.cpp:71-335, src/src/miner.cpp:266-345): the options are   *)
(* checked, devices discovered and selected, controls applied, and a       *)
(* thread is started for every selected card and CPU thread, by the        *)
(* benchmark or by mine().                                                 *)
(*                                                                         *)
(* The options are as the parser leaves them: a list of device numbers has *)
(* no duplicates and numbers are within their limits.  Of mine() itself    *)
(* only the part up to the device threads is here.                         *)
(***************************************************************************)
EXTENDS Backends

CONSTANTS
    Scenarios,   \* machines, command lines and works to be checked
    MaxGpus,     \* 64
    MaxThreads,  \* 128
    Logical      \* logical processors

ASSUME StartupAssumption ==
    /\ {MaxGpus, MaxThreads, Logical} \subseteq Nat \ {0}
    /\ \A s \in Scenarios :
          /\ s.options.batch \in 1 .. Space /\ s.options.cpu_batch \in 1 .. Space
          /\ s.options.asked \subseteq {"bench", "demo", "list", "url"}
          /\ s.options.devices \in Seq(Nat) /\ IsInjective(s.options.devices)
          /\ s.options.cpu_threads \in Nat
          /\ s.controls \in [Settings -> Seq(Nat)]
          /\ IsMachine(s.machine)
          /\ IsWork(s.work)
          /\ "bench" \in s.options.asked => s.work.difficulty[1] > 0

VARIABLES
    pc,    \* "options", "discover", "apply", "threads" or "exit"
    exit   \* the exit status

vars == <<selected, controls, applyVars, machine, options, work, th, pc, exit>>
given == <<controls, machine, options, work>>

Init ==
    /\ \E s \in Scenarios :
          /\ machine = s.machine
          /\ options = s.options
          /\ controls = s.controls
          /\ work = s.work
    /\ ApplyInit
    /\ selected = <<>>
    /\ th = <<>>
    /\ pc = "options"
    /\ exit = 0

Return(status) == pc' = "exit" /\ exit' = status

-----------------------------------------------------------------------------
(* main() *)

\* What main() refuses before it looks at any device.
OptionsRefused ==
    \/ options.cpu_variant \notin {"auto", "scalar", "avx2"}
    \/ Cardinality(options.asked \ {"url"}) > 1
    \/ "list" \in options.asked /\ Requested
    \/ ~options.temperatures_ordered
    \/ options.asked \cap {"bench", "demo", "list"} # {} /\ "url" \in options.asked
    \/ "demo" \in options.asked /\ Requested

\* ... and before mining or the benchmark.
DevicesRefused ==
    \/ options.no_cpu /\ options.no_gpu
    \/ options.no_gpu /\ options.explicit

Inspects == options.asked \cap {"demo", "list"} # {}

RefuseOptions ==
    /\ pc = "options"
    /\ \/ OptionsRefused
       \/ ~Inspects /\ (DevicesRefused \/ options.asked = {})
       \/ "url" \in options.asked /\ ~options.user
    /\ Return(1)
    /\ UNCHANGED <<given, selected, applyVars, th>>

\* The demonstration shows invented values and ends by a key, a signal or time.
Demo ==
    /\ pc = "options"
    /\ ~OptionsRefused
    /\ "demo" \in options.asked
    /\ Return(0)
    /\ UNCHANGED <<given, selected, applyVars, th>>

\* Every listed device is sampled and the CPU's backend named.
ListDevices ==
    /\ pc = "options"
    /\ ~OptionsRefused
    /\ "list" \in options.asked
    /\ \E driver_error \in BOOLEAN :
          Return(IF /\ options.gpu_mode \in GpuModes /\ ~driver_error
                    /\ options.cpu_variant = "avx2" => machine.avx2
                 THEN 0 ELSE 1)
    /\ UNCHANGED <<given, selected, applyVars, th>>

Discover ==
    /\ pc = "options"
    /\ ~OptionsRefused /\ ~DevicesRefused
    /\ ~Inspects /\ options.asked # {}
    /\ "url" \in options.asked => options.user
    /\ pc' = "discover"
    /\ UNCHANGED <<given, selected, applyVars, th, exit>>

\* The drivers' lists, or none at all.
Available == IF options.no_gpu THEN <<>> ELSE gpu_devices(machine, options.gpu_mode)

\* The asked devices in the order they were asked for.
Chosen ==
    IF options.explicit
    THEN [k \in DOMAIN options.devices |->
            CHOOSE d \in ToSet(Available) : d.index = options.devices[k]]
    ELSE Available

Unavailable ==
    options.explicit /\ \E k \in DOMAIN options.devices :
        \A d \in ToSet(Available) : d.index # options.devices[k]

ChosenCount == IF options.explicit THEN Len(options.devices) ELSE Len(Available)

AtLeastOne(n) == IF n < 1 THEN 1 ELSE n

\* Half of the processors; mine() leaves one more for each card and for itself.
CpuThreads(cards) ==
    CASE options.no_cpu -> 0
      [] options.cpu_threads > 0 -> options.cpu_threads
      [] "bench" \in options.asked -> AtLeastOne(Logical \div 2)
      [] OTHER -> AtLeastOne(Logical \div 2 - cards - 1)

TooMany ==
    /\ "url" \in options.asked
    /\ ChosenCount > MaxGpus \/ CpuThreads(ChosenCount) > MaxThreads

SelectionRefused ==
    \/ ~options.no_gpu /\ options.gpu_mode \notin GpuModes
    \/ Unavailable
    \/ TooMany
    \/ ChosenCount = 0 /\ CpuThreads(0) = 0

\* A driver's error ends the discovery too.
DiscoveryFails ==
    /\ pc = "discover"
    /\ SelectionRefused \/ ~options.no_gpu
    /\ Return(1)
    /\ UNCHANGED <<given, selected, applyVars, th>>

\* The cards are looked up, then apply() begins.
Select ==
    /\ pc = "discover"
    /\ ~SelectionRefused
    /\ selected' = Chosen
    /\ stage' = "check"
    /\ pc' = "apply"
    /\ UNCHANGED <<given, hw, card, step, fan_changed, unrestored, th, exit>>

Apply == pc = "apply" /\ apply /\ UNCHANGED <<machine, options, work, th, pc, exit>>

ApplyThrows ==
    /\ pc = "apply"
    /\ stage \in {"refused", "failed"}
    /\ Return(1)
    /\ UNCHANGED <<given, selected, applyVars, th>>

\* mine() names its CPU backend, and opens the API's port and the log, before
\* it starts threads.
CpuNamed == CpuThreads(N) > 0 /\ options.cpu_variant = "avx2" => machine.avx2

SetupThrows ==
    /\ pc = "apply"
    /\ stage = "applied"
    /\ "url" \in options.asked
    /\ Return(1)
    /\ UNCHANGED <<given, selected, applyVars, th>>

StartThreads ==
    /\ pc = "apply"
    /\ stage = "applied"
    /\ "url" \in options.asked => CpuNamed
    /\ th' = [t \in 1 .. N + CpuThreads(N) |-> NewThread]
    /\ pc' = "threads"
    /\ UNCHANGED <<given, selected, applyVars, exit>>

Thread(t) == pc = "threads" /\ BackendStep(t) /\ UNCHANGED <<pc, exit>>

\* The benchmark's time is over after a timed scan; mine() requests a stop.
Finish(t) ==
    /\ pc = "threads"
    /\ th[t].pc = "idle"
    /\ "url" \in options.asked \/ th[t].scans > 1
    /\ Become(t, [th[t] EXCEPT !.pc = "unwind"])
    /\ UNCHANGED <<pc, exit>>

\* All threads are joined; the benchmark's status tells of any error.  What
\* mine() returns is not represented here.
Join ==
    /\ pc = "threads"
    /\ \A t \in DOMAIN th : th[t].pc = "done"
    /\ Return(IF \E t \in DOMAIN th : th[t].error THEN 1 ELSE 0)
    /\ UNCHANGED <<given, selected, applyVars, th>>

Next ==
    \/ RefuseOptions \/ Demo \/ ListDevices \/ Discover
    \/ DiscoveryFails \/ Select \/ Apply \/ ApplyThrows
    \/ SetupThrows \/ StartThreads
    \/ \E t \in DOMAIN th : Thread(t) \/ Finish(t)
    \/ Join

Spec == Init /\ [][Next]_vars
-----------------------------------------------------------------------------
(* Properties *)

\* "Validate all devices and limits before the first hardware write"
\* (nvml.cpp:132), and inspection writes nothing (main.cpp:172-180): a register
\* changes only on the way to mining or a benchmark, and only if every selected
\* card accepts what is asked of it, those later in the selection included.
CheckedBeforeWritten ==
    (\E c \in Cards : hw[c] # Old) =>
        /\ options.asked \in {{"url"}, {"bench"}}
        /\ ListsFit
        /\ \A d \in Positions : Acceptable(d)

\* "If switching to manual mode succeeded but the subsequent PWM write fails,
\* the miner restores the previous fan policy; it reports a restoration failure
\* if the driver also refuses that" (docs/OPERATIONS.md:128-131;
\* amd.cpp:206-215).
NoFanLeftManual ==
    stage \in {"applied", "refused", "failed"} =>
        \A c \in Cards :
            hw[c]["policy"] = "manual" => hw[c]["duty"] = "set" \/ c \in unrestored

\* The option's registers on this card hold v ("auto" or "set"), or "old".
Holds(s, c, v) ==
    CASE c \notin AmdCards /\ s = "fan" -> \A f \in 1 .. FanCount : hw[c][FanReg(f)] = v
      [] c \in AmdCards /\ s = "fan"    ->
            IF v = "set" THEN hw[c]["duty"] = v
                         ELSE hw[c]["policy"] = v /\ hw[c]["duty"] = "old"
      [] c \in AmdCards /\ s \in {"core", "memory"} /\ v = "auto" ->
            hw[c]["level"] = v /\ hw[c][s] = "old"
      [] OTHER -> hw[c][s] = v

\* The value for the d-th selected card, as the documentation has it.
Meant(s, d) ==
    IF controls[s] = <<>> THEN "old"
    ELSE IF controls[s][IF Len(controls[s]) = N THEN d ELSE 1] = 0 THEN "auto" ELSE "set"

\* Per-card values follow the selection order, and "unsupported operations and
\* permission failures are errors, not success messages"
\* (docs/OPERATIONS.md:46-48, 58): when threads run, the card that the d-th of
\* them will open holds the d-th value of every option, and no other card was
\* touched, although registers are found by PCI address and backends by the
\* number in the driver's list (nvml.cpp:9-17, 58-61, 177-221;
\* devices.cpp:19-26).
AppliedAsAsked ==
    pc = "threads" /\ AddressesExact(machine) =>
        /\ \A d \in Positions : Opened(machine, selected[d]) \in Cards
        /\ \A d \in Positions, s \in Settings :
              Holds(s, Opened(machine, selected[d]), Meant(s, d))
        /\ \A c \in Cards \ {Opened(machine, selected[d]) : d \in Positions} : hw[c] = Old

\* "avoid mining the same card twice when multiple ICDs expose it"
\* (docs/ARCHITECTURE.md:106-107; runtime.cpp:144-146, devices.cpp:6-18): with
\* exact addresses no two threads open one card, and without a selection every
\* card the chosen mode takes has a thread, also one that the first platform
\* to list it cannot use.
EachCardOnce ==
    pc = "threads" /\ AddressesExact(machine) =>
        LET card_of == [d \in Positions |-> Opened(machine, selected[d])]
        IN /\ \A d, e \in Positions : card_of[d] = card_of[e] => d = e
           /\ ~options.explicit /\ ~options.no_gpu =>
                ToSet(card_of) = UsableCards(machine, options.gpu_mode)

\* Hash value times divisor against difficulty one, without any rounding.
Qualifies(n) ==
    LET d == work.difficulty[1]  e == work.difficulty[2]
    IN Number(work.hash[n]) * d * (IF e > 0 THEN Power(10, e) ELSE 1)
          <= One * (IF e < 0 THEN Power(10, -e) ELSE 1)

\* "The host independently recomputes candidates and performs the full target
\* test" (docs/ARCHITECTURE.md:86-87; runtime.cpp:300-341, blake2b.cu:112-138,
\* 242-273, cpu_avx2.cpp:102-129): a scan that returns gives each nonce of its
\* range that meets the difficulty, as an exact comparison decides it, and
\* each once, in whatever order the lanes reported, at word boundaries and
\* with a short last block; if the device computes wrong it gives none that
\* does not.
ScanIsExact ==
    \A t \in DOMAIN th : th[t].pc = "idle" /\ th[t].scans > 0 =>
        LET got  == th[t].result
            want == {n \in th[t].start .. th[t].start + Batch(t) - 1 : Qualifies(n)}
        IN /\ IsInjective(got)
           /\ ToSet(got) \subseteq want
           /\ ~work.flaky => ToSet(got) = want

\* A share is announced as a block candidate exactly if its hash is at most
\* mantissa * Base^(exponent - 3), and nbits of a target that is zero, negative
\* or too large never become work (coin.cpp:6-34, miner.cpp:655-664).
CandidatesAreExact ==
    "url" \in options.asked =>
      \A t \in DOMAIN th : \A k \in DOMAIN th[t].result :
        LET e == work.nbits[1]
            m == work.nbits[2]
            n == Number(work.hash[th[t].result[k]])
        IN /\ m \in 1 .. Power(Base, 3) \div 2 - 1
           /\ m * Power(Base, e) \in Power(Base, 3) .. Power(Base, HashBytes + 3) - 1
           /\ BlockCandidate(th[t].result[k]) <=> n * Power(Base, 3) <= m * Power(Base, e)

\* A thread that has ended holds no object of the driver, wherever its
\* construction or its scan failed, and nothing was released under a kernel
\* that still wrote to it (runtime.cpp:172-191, 294-299, blake2b.cu:220-240); a
\* benchmark succeeds only if every card asked for and every CPU thread
\* completed a timed scan (main.cpp:271-330).
EndIsClean ==
    /\ \A t \in DOMAIN th : th[t].pc = "done" => th[t].held = {} /\ ~Running(t)
    /\ pc = "exit" /\ exit = 0 /\ "bench" \in options.asked =>
          /\ th # <<>>
          /\ options.explicit => N = Len(options.devices)
          /\ \A t \in DOMAIN th : th[t].hashes > 0 /\ ~th[t].error
=============================================================================
