---------------------------- MODULE StratumState ----------------------------
(***************************************************************************)
(* StratumState (src/src/stratum.cpp): the pure state of one Stratum V1    *)
(* connection.  The pool is arbitrary: every message may arrive at any     *)
(* time, well formed or not.  An exception ends the connection, so what a  *)
(* failing message changed before it threw can no longer be seen.          *)
(*                                                                         *)
(* Extranonces, targets and job ids are abstract values; the bytes of a    *)
(* job are the fields that decide its header: en1, en2 and the job data,   *)
(* here its id.  `issued' remembers every job handed to the devices.       *)
(***************************************************************************)
EXTENDS Integers, FiniteSets

CONSTANTS
    JobIds,   \* job id strings
    En1s,     \* extranonce1 values
    Targets,  \* share targets
    None,     \* no extranonce, no target yet
    MaxJobs,  \* 1024: limit of valid_ids
    MaxGen    \* bound: notifications in a connection

ASSUME StratumAssumption ==
    /\ None \notin En1s \cup Targets
    /\ MaxJobs \in Nat
    /\ MaxGen \in Nat

VARIABLES
    en1,         \* extranonce1; None is en2_size = 0
    next_target, \* target of the next job; None is have_target = false
    generation, epoch,
    valid_ids,   \* [JobIds -> generation], 0 for an id that is not in the map
    authorized,
    current,     \* generation of `current', 0 while there is none
    failed,      \* an exception left receive()
    issued       \* history: every job built, and whether it was a clean one

vars == <<en1, next_target, generation, epoch, valid_ids, authorized, current,
          failed, issued>>

Gens == 1 .. MaxGen
Jobs == [id : JobIds, generation : Gens, epoch : 0 .. MaxGen, en1 : En1s,
         en2 : Gens, target : Targets, clean : BOOLEAN]

Messages ==
    [type : {"set_difficulty"}, ok : BOOLEAN, target : Targets]
    \cup [type : {"set_extranonce", "subscribed"}, ok : BOOLEAN, en1 : En1s]
    \cup [type : {"notify"}, ok : BOOLEAN, id : JobIds, clean : BOOLEAN]
    \cup [type : {"authorized"}, ok : BOOLEAN]

TypeOK ==
    /\ en1 \in En1s \cup {None}
    /\ next_target \in Targets \cup {None}
    /\ generation \in 0 .. MaxGen
    /\ epoch \in 0 .. MaxGen
    /\ valid_ids \in [JobIds -> 0 .. MaxGen]
    /\ authorized \in BOOLEAN
    /\ current \in 0 .. MaxGen
    /\ failed \in BOOLEAN
    /\ issued \subseteq Jobs

Init ==
    /\ en1 = None
    /\ next_target = None
    /\ generation = 0
    /\ epoch = 0
    /\ valid_ids = [id \in JobIds |-> 0]
    /\ authorized = FALSE
    /\ current = 0
    /\ failed = FALSE
    /\ issued = {}

-----------------------------------------------------------------------------
\* Mutant: the id is looked up, its generation is not compared.
ValidAnyGeneration(j) ==
    /\ authorized
    /\ j.epoch = epoch
    /\ valid_ids[j.id] # 0

\* StratumState::valid
valid(j) ==
    /\ authorized
    /\ j.epoch = epoch
    /\ valid_ids[j.id] = j.generation

\* The map a notification is entered in: a clean one clears it first.
Live(clean) == IF clean THEN [id \in JobIds |-> 0] ELSE valid_ids

Size(table) == Cardinality({id \in JobIds : table[id] # 0})

\* m.ok: the message has the layout receive() and the functions it calls ask for.
Require(m) ==
    /\ m.ok
    /\ m.type = "notify" =>
          /\ next_target # None
          /\ en1 # None
          /\ Size(Live(m.clean)) < MaxJobs

Fail ==
    /\ failed' = TRUE
    /\ UNCHANGED <<en1, next_target, generation, epoch, valid_ids, authorized,
                   current, issued>>

SetDifficulty(m) ==
    /\ m.type = "set_difficulty"
    /\ next_target' = m.target
    /\ UNCHANGED <<en1, generation, epoch, valid_ids, authorized, current, issued>>

\* mining.set_extranonce, and the answer to mining.subscribe.
SetExtranonce(m) ==
    /\ m.type \in {"set_extranonce", "subscribed"}
    /\ en1' = m.en1
    /\ UNCHANGED <<next_target, generation, epoch, valid_ids, authorized, current, issued>>

Epoch(clean) == IF clean THEN epoch + 1 ELSE epoch

\* Mutant: extranonce2 counts clean jobs only.
NewJobPerEpoch(m) ==
    [id |-> m.id, generation |-> generation + 1, epoch |-> Epoch(m.clean),
     en1 |-> en1, en2 |-> Epoch(m.clean) + 1, target |-> next_target, clean |-> m.clean]

\* en2 is the generation, so that no two jobs of a connection share a header.
NewJob(m) ==
    [id |-> m.id, generation |-> generation + 1, epoch |-> Epoch(m.clean),
     en1 |-> en1, en2 |-> generation + 1, target |-> next_target, clean |-> m.clean]

\* Mutant: clean is applied to neither the epoch nor the map.
NotifyIgnoringClean(m) ==
    /\ m.type = "notify"
    /\ generation' = generation + 1
    /\ valid_ids' = [valid_ids EXCEPT ![m.id] = generation + 1]
    /\ current' = generation + 1
    /\ issued' = issued \cup {[NewJob(m) EXCEPT !.epoch = epoch]}
    /\ UNCHANGED <<en1, next_target, authorized, epoch>>

\* Mutant: the map is cleared after the job was entered.
NotifyClearsLast(m) ==
    /\ m.type = "notify"
    /\ generation' = generation + 1
    /\ epoch' = Epoch(m.clean)
    /\ valid_ids' = [id \in JobIds |->
          IF m.clean THEN 0 ELSE IF id = m.id THEN generation + 1 ELSE valid_ids[id]]
    /\ current' = generation + 1
    /\ issued' = issued \cup {NewJob(m)}
    /\ UNCHANGED <<en1, next_target, authorized>>

Notify(m) ==
    /\ m.type = "notify"
    /\ generation' = generation + 1
    /\ epoch' = Epoch(m.clean)
    /\ valid_ids' = [Live(m.clean) EXCEPT ![m.id] = generation + 1]
    /\ current' = generation + 1
    /\ issued' = issued \cup {NewJob(m)}
    /\ UNCHANGED <<en1, next_target, authorized>>

Authorized(m) ==
    /\ m.type = "authorized"
    /\ authorized' = TRUE
    /\ UNCHANGED <<en1, next_target, generation, epoch, valid_ids, current, issued>>

Handle(m) == SetDifficulty(m) \/ SetExtranonce(m) \/ Notify(m) \/ Authorized(m)

receive(m) ==
    /\ ~failed
    /\ \/ Require(m) /\ Handle(m) /\ UNCHANGED failed
       \/ ~Require(m) /\ Fail

\* Bound: notifications past MaxGen are not explored.
Within(m) == m.type = "notify" => generation < MaxGen

Next == \E m \in Messages : Within(m) /\ receive(m)

Spec == Init /\ [][Next]_vars

-----------------------------------------------------------------------------
(* Properties *)

\* "Clean jobs invalidate older work" (docs/ARCHITECTURE.md): a job that may
\* be submitted is not older than any clean job (stratum.cpp:38-42, 78-81).
CleanInvalidatesOlder ==
    \A j, c \in issued : (valid(j) /\ c.clean) => c.generation <= j.generation

\* "A reused job ID replaces its previous generation" (docs/ARCHITECTURE.md):
\* the pool is never sent a share of an older job under an id it has reused
\* (stratum.cpp:46, 80).
ReusedIdReplaces ==
    \A i, j \in issued : (valid(i) /\ valid(j) /\ i.id = j.id) => i = j

\* "Each notification gets a fresh extranonce2, preventing nonce reuse"
\* (docs/ARCHITECTURE.md): no two jobs of a connection have the same coinbase,
\* even when the pool repeats id and extranonce1 (stratum.cpp:45, 48-50).
FreshCoinbase ==
    \A i, j \in issued : (i.en1 = j.en1 /\ i.en2 = j.en2) => i = j

\* Once the pool has authorized the miner, the newest job is submittable: the
\* devices never work on a job whose shares would be dropped
\* (stratum.cpp:54-55, miner.cpp:615-621).
CurrentIsValid ==
    (authorized /\ current # 0) =>
        \E j \in issued : j.generation = current /\ valid(j)
=============================================================================
