------------------------------- MODULE Backends -------------------------------
(***************************************************************************)
(* The backends a device thread owns: construction and release of the      *)
(* driver's objects and the scan of a nonce range                          *)
(* (src/src/opencl/runtime.cpp:161-341, src/src/cuda/blake2b.cu:112-283,   *)
(* src/src/cpu.cpp, src/src/cpu_avx2.cpp:98-156).                          *)
(*                                                                         *)
(* A kernel's lanes run concurrently: a lane whose hash passes the test on *)
(* the high word takes a slot of the candidate buffer atomically and later *)
(* writes its nonce there.  The hash of a nonce is a value of the work; a  *)
(* flaky device may compute one of them wrong.                             *)
(***************************************************************************)
EXTENDS GpuControls, Targets

CONSTANTS
    Space, Word,  \* 2^64 nonces, 2^32 values of the low nonce word
    Capacity,     \* 4096 candidates
    BlockDim,     \* threads of a block
    AvxLanes,     \* 4
    Starts,       \* nonces the scheduler may begin a scan at
    MaxScans      \* bound: scans of a thread

ASSUME BackendsAssumption ==
    /\ {Word, Capacity, BlockDim, AvxLanes} \subseteq Nat \ {0}
    /\ Space \in Nat /\ Space % Word = 0
    /\ Starts \subseteq 0 .. Space - 1
    /\ MaxScans \in Nat

VARIABLES
    machine,  \* what the drivers expose
    options,  \* the command line
    work,     \* hash of every nonce, difficulty, nbits; whether devices are flaky
    th        \* the device threads: those of the selected cards, then the CPU's

\* A difficulty is digits and a decimal exponent, nbits an exponent and a mantissa.
IsWork(w) ==
    /\ w.hash \in [0 .. Space - 1 -> Hashes]
    /\ w.difficulty \in Nat \X Int
    /\ w.nbits \in Nat \X (0 .. Power(Base, 3) - 1)
    /\ w.flaky \in BOOLEAN

IsCpu(t) == t > N
Api(t)   == IF IsCpu(t) THEN "cpu" ELSE selected[t].api
Batch(t) == IF IsCpu(t) THEN options.cpu_batch ELSE options.batch

NewThread ==
    [pc |-> "open", error |-> FALSE, held |-> {}, scans |-> 0, hashes |-> 0,
     start |-> 0, n |-> 0, buf |-> [s \in 0 .. Capacity - 1 |-> 0],
     todo |-> {}, stores |-> {}, result |-> <<>>]

Kept == <<selected, controls, applyVars, machine, options, work>>

Become(t, record) == th' = [th EXCEPT ![t] = record] /\ UNCHANGED Kept

-----------------------------------------------------------------------------
(* Construction and release *)

\* The driver's objects in the order they are created.
Objects(t) ==
    CASE IsCpu(t) -> <<>>
      [] Api(t) = "cuda" -> <<"stream", "hits", "host">>
      [] OTHER -> <<"context", "queue", "program", "scanner", "diagnostic",
                    "input", "hits", "nonces">>

\* Numbers of those that do not exist yet.
Missing(t) == {k \in DOMAIN Objects(t) : Objects(t)[k] \notin th[t].held}

\* Checks before the first object: the block and the variant, the device's
\* number, the extension a variant needs; the CPU's instruction set.
Configured(t) ==
    CASE IsCpu(t) -> options.cpu_variant = "avx2" => machine.avx2
      [] Api(t) = "cuda" -> options.block_fits /\ Opened(machine, selected[t]) # NoCard
      [] OTHER ->
           /\ options.block_fits
           /\ Opened(machine, selected[t]) # NoCard
           /\ options.opencl_variant = "amd" =>
                Opened(machine, selected[t]) \in machine.media_ops

\* Mutant: release() forgets the second kernel.
ReleasedWithoutDiagnostic(t) ==
    CASE IsCpu(t) -> {}
      [] Api(t) = "cuda" -> {"host", "hits", "stream"}
      [] OTHER -> {"nonces", "hits", "input", "scanner", "program", "queue", "context"}

\* What release(), the CUDA constructor's catch block and its destructor free,
\* each if it exists.
Released(t) ==
    CASE IsCpu(t) -> {}
      [] Api(t) = "cuda" -> {"host", "hits", "stream"}
      [] OTHER -> {"nonces", "hits", "input", "diagnostic", "scanner", "program",
                   "queue", "context"}

\* What is left of a thread's objects after that.
Freed(t) == th[t].held \ Released(t)

ConstructionFails(t) ==
    /\ th[t].pc = "open"
    /\ ~Configured(t) \/ Missing(t) # {}
    /\ Become(t, [th[t] EXCEPT !.pc = "done", !.error = TRUE, !.held = Freed(t)])

Acquire(t) ==
    /\ th[t].pc = "open"
    /\ Configured(t)
    /\ \E k \in Missing(t) :
          /\ \A j \in Missing(t) : k <= j
          /\ Become(t, [th[t] EXCEPT !.held = @ \cup {Objects(t)[k]}])

Constructed(t) ==
    /\ th[t].pc = "open"
    /\ Configured(t)
    /\ Missing(t) = {}
    /\ Become(t, [th[t] EXCEPT !.pc = "idle"])

Running(t) == th[t].todo # {} \/ th[t].stores # {}

\* clFinish() and cudaStreamSynchronize() wait for the kernel; they are called
\* if there is a queue or a stream.
Waited(t) == th[t].held \cap {"queue", "stream"} # {} => ~Running(t)

\* The destructor, in an unwinding or at the thread's end: the wait, then the
\* release.
Destruct(t) ==
    /\ th[t].pc = "unwind"
    /\ Waited(t)
    /\ Become(t, [NewThread EXCEPT !.pc = "done", !.error = th[t].error,
                                  !.hashes = th[t].hashes, !.held = Freed(t),
                                  !.todo = th[t].todo, !.stores = th[t].stores])

-----------------------------------------------------------------------------
(* The kernel *)

\* Nonces per thread of the kernel's variant.
Roll(t) ==
    CASE Api(t) = "cuda" /\ options.variant = 5 -> 2
      [] Api(t) = "cuda" /\ options.variant = 6 -> 4
      [] OTHER -> 1

Grid(t) == (Batch(t) + Roll(t) * BlockDim - 1) \div (Roll(t) * BlockDim)

\* A lane is a block, a thread of it and one of its rolls.
LaneSet(t) == (0 .. Grid(t) - 1) \X (0 .. BlockDim - 1) \X (0 .. Roll(t) - 1)

Index(t, l) == l[1] * BlockDim * Roll(t) + l[2] + l[3] * BlockDim

\* Mutant: the high word is held fixed although the batch crosses it.
NonceUniform(t, start, i) == (start - (start % Word)) + (((start % Word) + i) % Word)

\* Variants 4 to 6 keep the high word fixed if the batch does not cross it.
Nonce(t, start, i) ==
    IF /\ Api(t) = "cuda" /\ options.variant >= 4
       /\ (start % Word) <= Word - Batch(t)
    THEN (start - (start % Word)) + (((start % Word) + i) % Word)
    ELSE (start + i) % Space

Target  == difficulty_target(work.difficulty[1], work.difficulty[2])
Network == compact_target(work.nbits[1], work.nbits[2])

Prefilter(n) == High(work.hash[n]) <= High(Target)

\* Lanes that will report a nonce started at `start'.
Reporting(t, start) ==
    {l \in LaneSet(t) : Index(t, l) < Batch(t) /\ Prefilter(Nonce(t, start, Index(t, l)))}

\* The scheduler's choice when mining; the benchmark warms up at 0 and then
\* goes on from there.
MayStart(t, start) ==
    /\ th[t].scans < MaxScans
    /\ IF "url" \in options.asked
       THEN start \in Starts /\ Network # Refused /\ Target # Refused
       ELSE start = th[t].hashes

RangeOverflow(t, start) == start > Space - Batch(t)

\* What a device may be wrong about: nothing, or one lane if it is flaky.
Errors(lanes) ==
    {{}} \cup IF work.flaky THEN {{l} : l \in lanes} ELSE {}

\* The hit counter is reset, the nonces are not.
Launch(t, start) ==
    /\ th[t].pc = "idle"
    /\ ~IsCpu(t)
    /\ MayStart(t, start)
    /\ ~RangeOverflow(t, start)
    /\ \E wrong \in Errors({l \in LaneSet(t) : Index(t, l) < Batch(t)}) :
          LET right == Reporting(t, start)
          IN Become(t, [th[t] EXCEPT !.pc = "kernel", !.start = start, !.n = 0,
                                     !.todo = (right \ wrong) \cup (wrong \ right)])

TakeSlot(t, l) ==
    /\ l \in th[t].todo
    /\ Become(t, [th[t] EXCEPT
          !.todo = @ \ {l}, !.n = @ + 1,
          !.stores = @ \cup {<<th[t].n, Nonce(t, th[t].start, Index(t, l))>>}])

Store(t, s) ==
    /\ s \in th[t].stores
    /\ Become(t, [th[t] EXCEPT
          !.stores = @ \ {s},
          !.buf = IF s[1] < Capacity THEN [@ EXCEPT ![s[1]] = s[2]] ELSE @])

-----------------------------------------------------------------------------
(* The host's side of a scan *)

InRange(t, n) == th[t].start <= n /\ n - th[t].start < Batch(t)

\* The candidate's hash, computed again on the host.
Validated(t, n) ==
    /\ Api(t) = "opencl" => InRange(t, n)
    /\ High(work.hash[n]) <= High(Target)

\* The candidates read back; only for n <= Capacity.
Candidates(t) == [s \in 1 .. th[t].n |-> th[t].buf[s - 1]]

Meeting(nonces) == {n \in nonces : meets(work.hash[n], Target)}

\* A permutation of the numbers in which none is above its successor.
Sorted(s) ==
    LET order == CHOOSE p \in [DOMAIN s -> DOMAIN s] :
                    IsInjective(p) /\ \A i, j \in DOMAIN s : i < j => s[p[i]] <= s[p[j]]
    IN [i \in DOMAIN s |-> s[order[i]]]

Shares(t) ==
    LET meeting == Filter(Candidates(t), Meeting(ToSet(Candidates(t))))
    IN IF Api(t) = "opencl" THEN Sorted(meeting) ELSE meeting

Refusal(t) ==
    \/ th[t].n > Capacity
    \/ \E s \in 1 .. th[t].n : ~Validated(t, Candidates(t)[s])
    \/ Api(t) = "opencl" /\ \E s \in 2 .. Len(Shares(t)) : Shares(t)[s] = Shares(t)[s - 1]

Scanned(t, start, nonces) ==
    Become(t, [th[t] EXCEPT
        !.pc = "idle", !.start = start, !.result = nonces, !.scans = @ + 1,
        !.hashes = IF "url" \in options.asked \/ th[t].scans > 0 THEN @ + Batch(t) ELSE @])

\* The blocking read, or the synchronised stream, waits for the kernel.
Collect(t) ==
    /\ th[t].pc = "kernel"
    /\ ~Running(t)
    /\ ~Refusal(t)
    /\ Scanned(t, th[t].start, Shares(t))

\* A range past the end, the checks of the candidates, or a driver call that
\* fails, before or after the kernel was started.
ScanThrows(t) ==
    /\ \/ th[t].pc = "idle" /\ ~IsCpu(t) /\ \E s \in 0 .. Space - 1 :
              MayStart(t, s) /\ RangeOverflow(t, s)
       \/ th[t].pc = "kernel"
    /\ Become(t, [th[t] EXCEPT !.pc = "unwind", !.error = TRUE])

UsesAvx2 == options.cpu_variant # "scalar" /\ machine.avx2

\* Scalar code looks at every nonce, AVX2 at groups of four, the last of which
\* may be cut; both test the whole hash on the host.
Scalar(start, count) ==
    Filter([i \in 1 .. count |-> start + i - 1], Meeting(start .. start + count - 1))

Avx2(start, count) ==
    LET group(g) == [lane \in 1 .. AvxLanes |-> start + AvxLanes * (g - 1) + lane - 1]
        groups   == (count + AvxLanes - 1) \div AvxLanes
    IN FlattenSeq([g \in 1 .. groups |->
          Filter(group(g), {n \in Meeting(start .. start + count - 1) : Prefilter(n)})])

\* A vector lane that is wrong and above the limit is passed over.
CpuScan(t, start) ==
    /\ th[t].pc = "idle"
    /\ IsCpu(t)
    /\ MayStart(t, start)
    /\ ~RangeOverflow(t, start)
    /\ IF UsesAvx2
       THEN \E missed \in Errors(start .. start + Batch(t) - 1) :
              Scanned(t, start, Filter(Avx2(start, Batch(t)), (start .. start + Batch(t) - 1) \ missed))
       ELSE Scanned(t, start, Scalar(start, Batch(t)))

\* The range ends the space, or a vector lane differs from the scalar hash.
CpuScanThrows(t) ==
    /\ th[t].pc = "idle"
    /\ IsCpu(t)
    /\ \E s \in 0 .. Space - 1 : MayStart(t, s) /\ ((work.flaky /\ UsesAvx2) \/ RangeOverflow(t, s))
    /\ Become(t, [th[t] EXCEPT !.pc = "unwind", !.error = TRUE])

\* A share whose hash meets the network's target.
BlockCandidate(n) == meets(work.hash[n], Network)

BackendStep(t) ==
    \/ ConstructionFails(t) \/ Acquire(t) \/ Constructed(t) \/ Destruct(t)
    \/ \E s \in 0 .. Space - 1 : Launch(t, s) \/ CpuScan(t, s)
    \/ \E l \in th[t].todo : TakeSlot(t, l)
    \/ \E s \in th[t].stores : Store(t, s)
    \/ Collect(t) \/ ScanThrows(t) \/ CpuScanThrows(t)
=============================================================================
