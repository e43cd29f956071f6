------------------------------- MODULE Devices -------------------------------
(***************************************************************************)
(* Device discovery: gpu_devices (src/src/devices.cpp), the CUDA list      *)
(* (src/src/cuda/blake2b.cu:299-314) and the OpenCL list                   *)
(* (src/src/opencl/runtime.cpp:93-161, 370-376).                           *)
(*                                                                         *)
(* A machine is the order in which CUDA lists its cards and, per OpenCL    *)
(* platform (ICD), what that platform says of the cards it exposes: the    *)
(* card, whether it can be used at all, and where the PCI address can be   *)
(* read ("khr", "topology", or "none").  A card is addressed by a domain   *)
(* and a bus number.                                                       *)
(***************************************************************************)
EXTENDS Integers, Sequences, SequencesExt

CONSTANTS
    Cards,     \* physical cards
    AmdCards,  \* those of vendor 0x1002, the others are NVIDIA's
    Address,   \* PCI address of a card: [domain, bus]
    NoPci, NoCard

ASSUME DevicesAssumption ==
    /\ AmdCards \subseteq Cards
    /\ DOMAIN Address = Cards
    /\ \A c, d \in Cards : Address[c] = Address[d] => c = d
    /\ \A c \in Cards : Address[c] # NoPci
    /\ NoCard \notin Cards

\* CUDA numbers NVIDIA's cards, each once; a platform may expose any card.
Entries == [card : Cards, usable : BOOLEAN, info : {"khr", "topology", "none"}]

IsMachine(m) ==
    /\ m.cuda \in Seq(Cards \ AmdCards) /\ IsInjective(m.cuda)
    /\ m.platforms \in Seq(Seq(Entries))

\* The elements of a sequence that lie in S, in their order.
Filter(s, S) ==
    LET kept[k \in 0 .. Len(s)] ==
            IF k = 0 THEN <<>>
            ELSE IF s[k] \in S THEN Append(kept[k - 1], s[k]) ELSE kept[k - 1]
    IN kept[Len(s)]

\* The address as discovery reads it.  The AMD topology query has no domain.
Pci(e) ==
    CASE e.info = "khr" -> Address[e.card]
      [] e.info = "topology" /\ e.card \in AmdCards -> [Address[e.card] EXCEPT !.domain = 0]
      [] OTHER -> NoPci

Info(i, api, e) ==
    [index |-> i, pci |-> Pci(e), api |-> api, backend_index |-> i,
     amd |-> api = "opencl" /\ e.card \in AmdCards]

\* Mutant: a card whose address was seen is listed again.
SeenAgain(out, e) == FALSE

\* "Several ICDs can expose the same physical AMD card.  Mine it once."
Seen(out, e) == Pci(e) # NoPci /\ \E i \in DOMAIN out : out[i].info.pci = Pci(e)

\* One entry of enumerate(): nothing, or the next device of the list.
Enumerated(out, e) ==
    IF ~e.usable \/ Seen(out, e) THEN out
    ELSE Append(out, [handle |-> e.card, info |-> Info(Len(out), "opencl", e)])

\* The loop over the entries of all platforms.
Listed(entries) ==
    LET out[k \in 0 .. Len(entries)] ==
            IF k = 0 THEN <<>> ELSE Enumerated(out[k - 1], entries[k])
    IN out[Len(entries)]

enumerate(m) == Listed(FlattenSeq(m.platforms))

opencl_devices(m, amd_only) ==
    LET infos == [i \in DOMAIN enumerate(m) |-> enumerate(m)[i].info]
    IN Filter(infos, {d \in ToSet(infos) : amd_only => d.amd})

\* CUDA numbers its cards itself and knows their addresses.
cuda_devices(m) ==
    [i \in DOMAIN m.cuda |-> Info(i - 1, "cuda", [card |-> m.cuda[i], info |-> "khr"])]

GpuModes == {"auto", "cuda", "opencl"}

\* CUDA's devices, then OpenCL's, numbered through; backend_index stays.
gpu_devices(m, mode) ==
    LET cuda   == IF mode = "opencl" THEN <<>> ELSE cuda_devices(m)
        opencl == IF mode = "cuda" THEN <<>>
                  ELSE opencl_devices(m, mode = "auto" /\ cuda # <<>>)
    IN [i \in 1 .. Len(cuda) + Len(opencl) |->
          [(cuda \o opencl)[i] EXCEPT !.index = i - 1]]

\* Mutant: the backend is given the number of the merged list.
WrongOpened(m, d) ==
    LET handles == IF d.api = "cuda" THEN m.cuda
                   ELSE [i \in DOMAIN enumerate(m) |-> enumerate(m)[i].handle]
    IN IF d.index < Len(handles) THEN handles[d.index + 1] ELSE NoCard

\* gpu_backend: the card the driver opens; OpenCL enumerates again.
Opened(m, d) ==
    LET handles == IF d.api = "cuda" THEN m.cuda
                   ELSE [i \in DOMAIN enumerate(m) |-> enumerate(m)[i].handle]
    IN IF d.backend_index < Len(handles) THEN handles[d.backend_index + 1] ELSE NoCard

\* Every entry that can be used names its card's address exactly.
AddressesExact(m) ==
    \A p \in DOMAIN m.platforms : \A i \in DOMAIN m.platforms[p] :
        LET e == m.platforms[p][i] IN e.usable => Pci(e) = Address[e.card]

\* The cards a mode takes, as documented: "uses CUDA for NVIDIA and OpenCL for
\* AMD" (README.md:335).  In auto mode OpenCL's other cards count only where CUDA
\* lists none.
UsableCards(m, mode) ==
    LET cuda   == IF mode = "opencl" THEN {} ELSE ToSet(m.cuda)
        opencl == IF mode = "cuda" THEN {}
                  ELSE {e.card : e \in {x \in ToSet(FlattenSeq(m.platforms)) : x.usable}}
    IN cuda \cup (IF mode = "auto" /\ cuda # {} THEN opencl \cap AmdCards ELSE opencl)
=============================================================================
