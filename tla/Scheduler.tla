------------------------------ MODULE Scheduler ------------------------------
(***************************************************************************)
(* The mining scheduler of one pool session (src/src/miner.cpp, the worker *)
(* lambda of mine(), with sv2::partition of src/src/sv2.cpp).  Every       *)
(* device thread repeats three steps: under the session mutex it copies    *)
(* the current job and, for an SV2 job, reserves a range of the cursor all *)
(* devices share; without the lock it scans the range; under the mutex     *)
(* again it appends what it found to the share queue.  The connection      *)
(* thread publishes jobs, swaps the queue out, and stops the workers.      *)
(*                                                                         *)
(* 2^32, 2^56 and 2^24 of the code are the parameters Span, Space and      *)
(* Rows.  A job is its generation; what a scan hashes is a set of points,  *)
(* one per (job, ntime, nonce), the fields of the header that vary.        *)
(***************************************************************************)
EXTENDS Integers, FiniteSets

CONSTANTS
    NSlots,     \* number of device threads; slot indices are 0 .. NSlots-1
    Batch,      \* [Slots -> Nat \ {0}]: cpu_batch or batch of the slot
    Span,       \* 2^32: nonces of one SV2 header
    Rows,       \* 2^24: ntime values one SV2 partition may roll through
    TimeMod,    \* 2^32: ntime arithmetic is modulo this
    MaxGen,     \* bound: jobs published in the session
    JobTime,    \* [Gens -> 0..TimeMod-1]: time32 of each job
    MaxQueue,   \* 8192: limit of the share queue
    Winning(_)  \* does the hash of this point meet its job's target?

Slots == 0 .. NSlots - 1
Gens  == 1 .. MaxGen
Space == Span * Rows          \* uint64_t{1} << 56

ASSUME SchedulerAssumption ==
    /\ NSlots \in Nat \ {0}
    /\ Span \in Nat \ {0}
    /\ Rows \in Nat \ {0}
    /\ TimeMod \in Nat \ {0}
    /\ Rows <= TimeMod
    /\ MaxGen \in Nat
    /\ MaxQueue \in Nat
    /\ Batch \in [Slots -> Nat \ {0}]
    /\ JobTime \in [Gens -> 0 .. TimeMod - 1]

VARIABLES
    sv2,                \* j->sv2 of every job of this session
    work,               \* generation of the published job, 0 for none
    shared_generation,  \* job the shared cursor belongs to
    shared_cursor,      \* next unreserved hash of that job
    pc,                 \* what each worker does next
    job,                \* the worker's copy of the published job
    reserved,           \* reserved_cursor
    generation,         \* the worker's generation
    cursor,             \* the worker's cursor
    hits,               \* r.nonces of the scan not yet published
    hashes,             \* slot.hashes
    found,              \* the share queue
    failure,            \* why a worker died, "none" while none did
    stop,               \* stop was requested of every worker
    tested,             \* history: every point hashed in this session
    taken               \* history: every share the connection thread took

vars == <<sv2, work, shared_generation, shared_cursor, pc, job, reserved,
          generation, cursor, hits, hashes, found, failure, stop, tested, taken>>

Points == [gen : Gens, ntime : 0 .. TimeMod - 1, nonce : Nat]
Shares == [point : Points, slot : Slots]

-----------------------------------------------------------------------------
(* sv2::partition *)

PartitionFails(cur) == cur >= Space

LeftInRow(cur) == Span - (cur % Span)

\* Mutant: ntime is not rolled when the cursor enters the next row.
PartitionSameTime(base, slot, cur, batch) ==
    [nonce |-> cur % Span,
     ntime |-> (base + slot * Rows) % TimeMod,
     count |-> IF batch <= LeftInRow(cur) THEN batch ELSE LeftInRow(cur)]

\* Mutant: the batch is not cut at the end of the row.
PartitionUncut(base, slot, cur, batch) ==
    [nonce |-> cur % Span,
     ntime |-> (base + slot * Rows + cur \div Span) % TimeMod,
     count |-> batch]

Partition(base, slot, cur, batch) ==
    [nonce |-> cur % Span,
     ntime |-> (base + slot * Rows + cur \div Span) % TimeMod,
     count |-> IF batch <= LeftInRow(cur) THEN batch ELSE LeftInRow(cur)]

-----------------------------------------------------------------------------
(* The range a worker scans next, from its copy of the job *)

\* Mutant: every scan restarts at the beginning of the slot's partition.
CursorRestarted(w) == 0 * cursor[w]

\* "if (j->generation != generation) cursor = 0"
Cursor(w) == IF job[w] = generation[w] THEN cursor[w] ELSE 0

Assigned(w) ==
    IF sv2
    THEN Partition(JobTime[job[w]], 0, reserved[w], Batch[w])
    ELSE [nonce |-> w * Space + Cursor(w), ntime |-> JobTime[job[w]],
          count |-> Batch[w]]

Scanned(w) ==
    [gen : {job[w]}, ntime : {Assigned(w).ntime},
     nonce : Assigned(w).nonce .. Assigned(w).nonce + Assigned(w).count - 1]

\* "cursor > space - batch": the slot's own partition is used up
OwnSpaceExhausted(w) == ~sv2 /\ Cursor(w) > Space - Batch[w]

Scanning(w) == pc[w] = "scan" /\ ~OwnSpaceExhausted(w)

-----------------------------------------------------------------------------
TypeOK ==
    /\ sv2 \in BOOLEAN
    /\ work \in 0 .. MaxGen
    /\ shared_generation \in 0 .. MaxGen
    /\ shared_cursor \in 0 .. Space
    /\ pc \in [Slots -> {"reserve", "scan", "publish", "done"}]
    /\ job \in [Slots -> 0 .. MaxGen]
    /\ reserved \in [Slots -> 0 .. Space]
    /\ generation \in [Slots -> 0 .. MaxGen]
    /\ cursor \in [Slots -> Nat]
    /\ hits \in [Slots -> SUBSET Shares]
    /\ hashes \in [Slots -> Nat]
    /\ found \subseteq Shares
    /\ failure \in {"none", "partition", "queue", "backend"}
    /\ stop \in BOOLEAN
    /\ tested \subseteq Points
    /\ taken \subseteq Shares

Init ==
    /\ sv2 \in BOOLEAN
    /\ work = 0
    /\ shared_generation = 0
    /\ shared_cursor = 0
    /\ pc = [w \in Slots |-> "reserve"]
    /\ job = [w \in Slots |-> 0]
    /\ reserved = [w \in Slots |-> 0]
    /\ generation = [w \in Slots |-> 0]
    /\ cursor = [w \in Slots |-> 0]
    /\ hits = [w \in Slots |-> {}]
    /\ hashes = [w \in Slots |-> 0]
    /\ found = {}
    /\ failure = "none"
    /\ stop = FALSE
    /\ tested = {}
    /\ taken = {}

-----------------------------------------------------------------------------
(* Worker steps *)


\* The catch block: the exception ends the thread and leaves its text behind.
Die(w, why) ==
    /\ failure' = why
    /\ pc' = [pc EXCEPT ![w] = "done"]

\* The device's backend cannot be constructed: the thread dies before its loop.
BackendFails(w) ==
    /\ pc[w] = "reserve"
    /\ job[w] = 0
    /\ Die(w, "backend")
    /\ UNCHANGED <<sv2, work, shared_generation, shared_cursor, job, reserved,
                   generation, cursor, hits, hashes, found, stop, tested, taken>>

SharedStart == IF shared_generation = work THEN shared_cursor ELSE 0

\* First critical section, SV1 job: only the copy of the job is taken.
Reserve1(w) ==
    /\ ~sv2
    /\ pc' = [pc EXCEPT ![w] = "scan"]
    /\ UNCHANGED <<shared_generation, shared_cursor, reserved, failure>>

\* First critical section, SV2 job: restart the shared cursor on a new job,
\* then reserve what partition grants from it.
Reserve2(w) ==
    /\ sv2
    /\ shared_generation' = work
    /\ reserved' = [reserved EXCEPT ![w] = SharedStart]
    /\ \/ /\ PartitionFails(SharedStart)
          /\ shared_cursor' = SharedStart
          /\ Die(w, "partition")
       \/ /\ ~PartitionFails(SharedStart)
          /\ shared_cursor' = SharedStart +
                Partition(JobTime[work], 0, SharedStart, Batch[w]).count
          /\ pc' = [pc EXCEPT ![w] = "scan"]
          /\ UNCHANGED failure

Reserve(w) ==
    /\ pc[w] = "reserve"
    /\ ~stop
    /\ work # 0
    /\ job' = [job EXCEPT ![w] = work]
    /\ Reserve1(w) \/ Reserve2(w)
    /\ UNCHANGED <<sv2, work, generation, cursor, hits, hashes, found, stop,
                   tested, taken>>

\* The worker's own partition has no batch left.
ScanExhausted(w) ==
    /\ pc[w] = "scan"
    /\ OwnSpaceExhausted(w)
    /\ generation' = [generation EXCEPT ![w] = job[w]]
    /\ cursor' = [cursor EXCEPT ![w] = Cursor(w)]
    /\ Die(w, "partition")
    /\ UNCHANGED <<sv2, work, shared_generation, shared_cursor, job, reserved,
                   hits, hashes, found, stop, tested, taken>>

\* backend->scan throws: device error, candidate overflow, failed validation.
ScanError(w) ==
    /\ Scanning(w)
    /\ generation' = [generation EXCEPT ![w] = job[w]]
    /\ cursor' = [cursor EXCEPT ![w] = Cursor(w)]
    /\ Die(w, "backend")
    /\ UNCHANGED <<sv2, work, shared_generation, shared_cursor, job, reserved,
                   hits, hashes, found, stop, tested, taken>>

\* backend->scan returns the winning points of the range; the worker
\* then advances its cursor and its hash counter by the whole range.
Scan(w) ==
    /\ Scanning(w)
    /\ hits' = [hits EXCEPT ![w] =
                   [point : {p \in Scanned(w) : Winning(p)}, slot : {w}]]
    /\ tested' = tested \cup Scanned(w)
    /\ generation' = [generation EXCEPT ![w] = job[w]]
    /\ cursor' = [cursor EXCEPT ![w] = Cursor(w) + Assigned(w).count]
    /\ hashes' = [hashes EXCEPT ![w] = @ + Assigned(w).count]
    /\ pc' = [pc EXCEPT ![w] = "publish"]
    /\ UNCHANGED <<sv2, work, shared_generation, shared_cursor, job, reserved,
                   found, failure, stop, taken>>

\* Second critical section: append to the share queue, or die on overflow.
Publish(w) ==
    /\ pc[w] = "publish"
    /\ hits' = [hits EXCEPT ![w] = {}]
    /\ \/ /\ Cardinality(found) + Cardinality(hits[w]) > MaxQueue
          /\ Die(w, "queue")
          /\ UNCHANGED found
       \/ /\ Cardinality(found) + Cardinality(hits[w]) <= MaxQueue
          /\ found' = found \cup hits[w]
          /\ pc' = [pc EXCEPT ![w] = "reserve"]
          /\ UNCHANGED failure
    /\ UNCHANGED <<sv2, work, shared_generation, shared_cursor, job, reserved,
                   generation, cursor, hashes, stop, tested, taken>>

\* The loop condition sees the stop request.
Leave(w) ==
    /\ pc[w] = "reserve"
    /\ stop
    /\ pc' = [pc EXCEPT ![w] = "done"]
    /\ UNCHANGED <<sv2, work, shared_generation, shared_cursor, job, reserved,
                   generation, cursor, hits, hashes, found, failure, stop,
                   tested, taken>>

Worker(w) ==
    Reserve(w) \/ ScanExhausted(w) \/ Scan(w) \/ ScanError(w) \/ Publish(w)
        \/ Leave(w)

-----------------------------------------------------------------------------
(* Connection-thread steps *)

\* A message made another job current.  Several SV2 jobs may arrive in one
\* read, so generations can be skipped; they are never published again.
Activate(g) ==
    /\ ~stop
    /\ g > work
    /\ work' = g
    /\ UNCHANGED <<sv2, shared_generation, shared_cursor, pc, job, reserved,
                   generation, cursor, hits, hashes, found, failure, stop,
                   tested, taken>>

\* queue.swap(found), unless a worker has failed.
TakeFound ==
    /\ failure = "none"
    /\ found # {}
    /\ taken' = taken \cup found
    /\ found' = {}
    /\ UNCHANGED <<sv2, work, shared_generation, shared_cursor, pc, job,
                   reserved, generation, cursor, hits, hashes, failure, stop,
                   tested>>

\* "if (!failure.empty()) throw": the session unwinds and stops the workers.
SeeFailure ==
    /\ failure # "none"
    /\ ~stop
    /\ stop' = TRUE
    /\ UNCHANGED <<sv2, work, shared_generation, shared_cursor, pc, job,
                   reserved, generation, cursor, hits, hashes, found, failure,
                   tested, taken>>

\* Expiry (drain) or a session error stops the workers.
RequestStop ==
    /\ ~stop
    /\ stop' = TRUE
    /\ UNCHANGED <<sv2, work, shared_generation, shared_cursor, pc, job,
                   reserved, generation, cursor, hits, hashes, found, failure,
                   tested, taken>>

Connection == TakeFound \/ SeeFailure \/ RequestStop \/ \E g \in Gens : Activate(g)

Next == Connection \/ \E w \in Slots : BackendFails(w) \/ Worker(w)

\* Threads are scheduled by the operating system and scans are finite; the
\* connection loop polls every two milliseconds.  Nothing makes the pool send
\* jobs or the user stop the program.
Fairness == WF_vars(SeeFailure) /\ \A w \in Slots : WF_vars(Worker(w))

Spec == Init /\ [][Next]_vars /\ Fairness

-----------------------------------------------------------------------------
(* Properties *)

\* "allocates consecutive, non-overlapping ranges across all selected devices"
\* (docs/ARCHITECTURE.md): what a worker is about to hash was hashed by nobody
\* and is being hashed by nobody else, whatever jobs were published between its
\* reservation (miner.cpp:485-491) and its scan (miner.cpp:520).
NoOverlap ==
    \A w \in Slots : Scanning(w) =>
        /\ Scanned(w) \cap tested = {}
        /\ \A v \in Slots \ {w} : Scanning(v) => Scanned(w) \cap Scanned(v) = {}

\* A share is queued and handed to the connection thread at most once: the
\* hits a worker is about to append (miner.cpp:527-533) are in no other
\* worker's hits, not in the queue, and were never taken before.
NoDuplicateShare ==
    /\ \A w \in Slots : hits[w] \cap (found \cup taken) = {}
    /\ \A w, v \in Slots : w # v =>
        {s.point : s \in hits[w]} \cap {s.point : s \in hits[v]} = {}
    /\ found \cap taken = {}

\* The point of the c-th hash of an SV2 job.
CursorPoint(g, c) ==
    [gen |-> g, ntime |-> Partition(JobTime[g], 0, c, 1).ntime,
     nonce |-> Partition(JobTime[g], 0, c, 1).nonce]

\* The shared cursor leaves no holes: while no worker has died, the SV2 hashes
\* below shared_cursor are exactly those of the shared job that were hashed or
\* are assigned to a worker (miner.cpp:485-491 and 504-511).
NoGap ==
    (sv2 /\ failure = "none" /\ shared_generation # 0) =>
        {CursorPoint(shared_generation, c) : c \in 0 .. shared_cursor - 1} =
            {p \in tested : p.gen = shared_generation} \cup
            UNION {Scanned(w) : w \in {v \in Slots :
                        pc[v] = "scan" /\ job[v] = shared_generation}}


-----------------------------------------------------------------------------
(* The inductive invariant behind NoOverlap and NoDuplicateShare *)

\* Workers hold jobs that were published, and fall behind but never run ahead.
GenOrder ==
    /\ shared_generation <= work
    /\ \A w \in Slots :
        /\ generation[w] <= job[w]
        /\ job[w] <= work
        /\ pc[w] = "scan" => job[w] # 0
        /\ (pc[w] = "scan" /\ sv2) => job[w] <= shared_generation
        /\ (pc[w] = "scan" /\ sv2) => reserved[w] < Space

\* The point belongs to an older job, or to the part of the shared job that
\* has been reserved.
Behind(p) ==
    \/ p.gen < shared_generation
    \/ /\ p.gen = shared_generation
       /\ \E c \in 0 .. shared_cursor - 1 : p = CursorPoint(p.gen, c)

SharedBehind ==
    sv2 => /\ \A p \in tested : Behind(p)
           /\ \A w \in Slots : pc[w] = "scan" => \A p \in Scanned(w) : Behind(p)

\* The slot whose SV1 partition holds the point, and how far it has come.
OwnedBy(p, w) ==
    /\ p.nonce >= w * Space
    /\ p.nonce < w * Space + Space
    /\ \/ p.gen < generation[w]
       \/ p.gen = generation[w] /\ p.nonce < w * Space + cursor[w]

OwnBehind == ~sv2 => \A p \in tested : \E w \in Slots : OwnedBy(p, w)

\* Shares come from hashed points.
SharesTested ==
    /\ \A s \in found \cup taken : s.point \in tested
    /\ \A w \in Slots : \A s \in hits[w] : s.point \in tested

Inv ==
    /\ TypeOK
    /\ GenOrder
    /\ SharedBehind
    /\ OwnBehind
    /\ NoOverlap
    /\ SharesTested
    /\ NoDuplicateShare
=============================================================================
