--------------------------- MODULE SchedulerProofs ---------------------------
(***************************************************************************)
(* For every number of devices, batch sizes, partition sizes and job       *)
(* sequence: no hash is computed twice in a session, and no share is       *)
(* queued twice.                                                           *)
(***************************************************************************)
EXTENDS Scheduler, TLAPS

-----------------------------------------------------------------------------
(* Arithmetic *)

\* A cursor is its row times the span plus its column.
LEMMA DivMod ==
    ASSUME NEW S \in Nat \ {0}, NEW c \in Nat
    PROVE  /\ c \div S \in Nat
           /\ c % S \in 0 .. S - 1
           /\ c = S * (c \div S) + (c % S)
OBVIOUS

\* Row and column of a cursor are determined by it.
LEMMA DivModUnique ==
    ASSUME NEW S \in Nat \ {0}, NEW q \in Nat, NEW r \in 0 .. S - 1
    PROVE  (S * q + r) \div S = q /\ (S * q + r) % S = r
OBVIOUS

\* Adding a fixed base modulo M is injective on 0 .. M-1.
LEMMA AddModInjective ==
    ASSUME NEW M \in Nat \ {0}, NEW b \in 0 .. M - 1,
           NEW x \in 0 .. M - 1, NEW y \in 0 .. M - 1,
           (b + x) % M = (b + y) % M
    PROVE  x = y
OBVIOUS

\* The SV1 partitions of two slots do not touch.
LEMMA BlocksApart ==
    ASSUME NEW S \in Nat, NEW i \in Nat, NEW j \in Nat, i < j
    PROVE  i * S + S <= j * S
OBVIOUS

\* Products of naturals are naturals.
LEMMA ProductNat ==
    ASSUME NEW i \in Nat, NEW j \in Nat
    PROVE  i * j \in Nat
OBVIOUS

\* A longer interval holds a shorter one.
LEMMA IntervalGrows ==
    ASSUME NEW a \in Int, NEW b \in Int, a <= b
    PROVE  \A c \in 0 .. a - 1 : c \in 0 .. b - 1
OBVIOUS

\* The row of a cursor below Space is below Rows.
LEMMA RowBound ==
    ASSUME NEW S \in Nat \ {0}, NEW R \in Nat \ {0}, NEW c \in 0 .. S * R - 1
    PROVE  c \div S \in 0 .. R - 1
<1>1. S * R \in Nat
  BY ProductNat
<1>2. c \in Nat /\ c < S * R
  BY <1>1
<1>3. c \div S \in Nat /\ c >= S * (c \div S)
  BY <1>2, DivMod
<1>4. CASE c \div S >= R
  <2>1. S * (c \div S) >= S * R
    BY <1>3, <1>4
  <2> QED  BY <2>1, <1>1, <1>2, <1>3, ProductNat
<1> QED  BY <1>3, <1>4

-----------------------------------------------------------------------------
(* sv2::partition *)

\* Space is positive and the constants have their types.
LEMMA SpaceType == Space \in Nat \ {0} /\ Slots \subseteq Nat /\ Gens \subseteq Nat
<1>1. Span * Rows \in Nat /\ Span * Rows # 0
  BY SchedulerAssumption
<1> QED  BY <1>1, SchedulerAssumption DEF Space, Slots, Gens

\* What partition returns has the types of struct Partition, stays in its row
\* and grants at least one hash.
LEMMA PartitionType ==
    ASSUME NEW base \in 0 .. TimeMod - 1, NEW c \in Nat, NEW b \in Nat \ {0}
    PROVE  LET p == Partition(base, 0, c, b) IN
           /\ p.nonce \in 0 .. Span - 1
           /\ p.ntime \in 0 .. TimeMod - 1
           /\ p.count \in Nat \ {0}
           /\ p.nonce + p.count <= Span
           /\ p.nonce = c % Span
           /\ p.ntime = (base + (c \div Span)) % TimeMod
<1>1. c % Span \in 0 .. Span - 1 /\ c \div Span \in Nat
  BY SchedulerAssumption, DivMod
<1>2. 0 * Rows = 0
  BY SchedulerAssumption
<1>3. base + 0 * Rows + c \div Span = base + (c \div Span)
  BY <1>1, <1>2
<1>4. (base + (c \div Span)) % TimeMod \in 0 .. TimeMod - 1
  BY <1>1, SchedulerAssumption, DivMod
<1> QED  BY <1>1, <1>3, <1>4, SchedulerAssumption DEF Partition, LeftInRow

\* Different cursors of one job are different points.
LEMMA CursorPointInjective ==
    ASSUME NEW g \in Gens, NEW c \in 0 .. Space - 1, NEW d \in 0 .. Space - 1,
           CursorPoint(g, c) = CursorPoint(g, d)
    PROVE  c = d
<1>1. c \in Nat /\ d \in Nat
  BY SpaceType
<1>2. JobTime[g] \in 0 .. TimeMod - 1
  BY SchedulerAssumption
<1>3. /\ c % Span = d % Span
      /\ (JobTime[g] + (c \div Span)) % TimeMod = (JobTime[g] + (d \div Span)) % TimeMod
  BY <1>1, <1>2, PartitionType DEF CursorPoint
<1>4. c \div Span \in 0 .. Rows - 1 /\ d \div Span \in 0 .. Rows - 1
  BY RowBound, SchedulerAssumption DEF Space
<1>5. c \div Span = d \div Span
  <2>1. c \div Span \in 0 .. TimeMod - 1 /\ d \div Span \in 0 .. TimeMod - 1
    BY <1>4, SchedulerAssumption
  <2> QED  BY <2>1, <1>2, <1>3, AddModInjective, SchedulerAssumption
<1> QED  BY <1>1, <1>3, <1>5, DivMod, SchedulerAssumption

\* The k-th hash of a reservation at c is the point of cursor c + k, and a
\* reservation that starts below Space ends at or below it.
LEMMA ReservationPoints ==
    ASSUME NEW g \in Gens, NEW c \in 0 .. Space - 1, NEW b \in Nat \ {0},
           NEW k \in 0 .. Partition(JobTime[g], 0, c, b).count - 1
    PROVE  /\ c + Partition(JobTime[g], 0, c, b).count <= Space
           /\ CursorPoint(g, c + k) =
                 [gen |-> g, ntime |-> Partition(JobTime[g], 0, c, b).ntime,
                  nonce |-> Partition(JobTime[g], 0, c, b).nonce + k]
<1> DEFINE p == Partition(JobTime[g], 0, c, b)
           q == c \div Span
           r == c % Span
<1>1. c \in Nat /\ JobTime[g] \in 0 .. TimeMod - 1
  BY SpaceType, SchedulerAssumption
<1>2. /\ p.count \in Nat \ {0} /\ p.nonce = r /\ r + p.count <= Span
      /\ p.ntime = (JobTime[g] + q) % TimeMod
  BY <1>1, PartitionType
<1>3. q \in Nat /\ r \in 0 .. Span - 1 /\ c = Span * q + r /\ Span * q \in Nat
  BY <1>1, DivMod, ProductNat, SchedulerAssumption
<1>4. q \in 0 .. Rows - 1
  BY RowBound, SchedulerAssumption DEF Space
<1>5. Span * q + Span <= Space
  <2>1. q * Span + Span <= Rows * Span
    BY <1>4, BlocksApart, SchedulerAssumption
  <2> QED  BY <2>1, <1>3, <1>4, SchedulerAssumption DEF Space
<1> HIDE DEF p, q, r
<1>6. c + p.count <= Space
  BY <1>1, <1>2, <1>3, <1>5, SpaceType, SchedulerAssumption
<1>7a. k \in 0 .. p.count - 1
  BY DEF p
<1>7. k \in Nat /\ r + k \in 0 .. Span - 1 /\ c + k = Span * q + (r + k)
  BY <1>1, <1>2, <1>3, <1>7a, SchedulerAssumption
<1>8. (c + k) \div Span = q /\ (c + k) % Span = r + k
  <2>1. (Span * q + (r + k)) \div Span = q /\ (Span * q + (r + k)) % Span = r + k
    BY <1>3, <1>7, DivModUnique, SchedulerAssumption
  <2> QED  BY <2>1, <1>7
<1>9. c + k \in Nat
  BY <1>1, <1>7
<1>10. /\ Partition(JobTime[g], 0, c + k, 1).nonce = r + k
       /\ Partition(JobTime[g], 0, c + k, 1).ntime = (JobTime[g] + q) % TimeMod
  BY <1>1, <1>8, <1>9, PartitionType
<1> QED  BY <1>2, <1>6, <1>10 DEF CursorPoint, p

-----------------------------------------------------------------------------
(* Ranges *)

\* The range of a worker that holds a job is well formed.
LEMMA AssignedType ==
    ASSUME TypeOK, GenOrder, NEW w \in Slots, pc[w] = "scan"
    PROVE  /\ job[w] \in Gens
           /\ Cursor(w) \in Nat
           /\ Assigned(w).nonce \in Nat
           /\ Assigned(w).ntime \in 0 .. TimeMod - 1
           /\ Assigned(w).count \in Nat \ {0}
<1>1. job[w] \in Gens /\ Cursor(w) \in Nat /\ w \in Nat /\ Batch[w] \in Nat \ {0}
  BY SchedulerAssumption, SpaceType DEF TypeOK, GenOrder, Gens, Cursor
<1>2. JobTime[job[w]] \in 0 .. TimeMod - 1
  BY <1>1, SchedulerAssumption
<1>3. CASE sv2
  <2>1. reserved[w] \in Nat
    BY SpaceType DEF TypeOK
  <2>2. Assigned(w) = Partition(JobTime[job[w]], 0, reserved[w], Batch[w])
    BY <1>3 DEF Assigned
  <2> DEFINE p == Partition(JobTime[job[w]], 0, reserved[w], Batch[w])
  <2>3. p.nonce \in 0 .. Span - 1 /\ p.ntime \in 0 .. TimeMod - 1 /\ p.count \in Nat \ {0}
    BY <1>1, <1>2, <2>1, PartitionType
  <2> HIDE DEF p
  <2>4. p.nonce \in Nat
    BY <2>3, SchedulerAssumption
  <2> QED  BY <1>1, <2>2, <2>3, <2>4 DEF p
<1>4. CASE ~sv2
  <2>1. w * Space \in Nat
    BY <1>1, ProductNat, SpaceType
  <2> QED  BY <1>1, <1>2, <1>4, <2>1 DEF Assigned
<1> QED  BY <1>3, <1>4

\* What a worker scans is a set of points of its job.
LEMMA ScannedType ==
    ASSUME TypeOK, GenOrder, NEW w \in Slots, pc[w] = "scan"
    PROVE  /\ Scanned(w) \subseteq Points
           /\ \A p \in Scanned(w) : p.gen = job[w]
<1>1. /\ job[w] \in Gens
      /\ Assigned(w).nonce \in Nat
      /\ Assigned(w).ntime \in 0 .. TimeMod - 1
      /\ Assigned(w).count \in Nat \ {0}
  BY AssignedType
<1>2. Assigned(w).nonce .. Assigned(w).nonce + Assigned(w).count - 1 \subseteq Nat
  BY <1>1
<1> HIDE DEF Assigned
<1> QED  BY <1>1, <1>2 DEF Scanned, Points

\* In an SV2 session a worker scans points of its reservation.
LEMMA ScannedReserved ==
    ASSUME TypeOK, GenOrder, sv2, NEW w \in Slots, pc[w] = "scan",
           NEW p \in Scanned(w)
    PROVE  LET n == Partition(JobTime[job[w]], 0, reserved[w], Batch[w]).count IN
           /\ reserved[w] + n <= Space
           /\ \E k \in 0 .. n - 1 : p = CursorPoint(job[w], reserved[w] + k)
<1> DEFINE P == Partition(JobTime[job[w]], 0, reserved[w], Batch[w])
<1>1. /\ job[w] \in Gens
      /\ reserved[w] \in 0 .. Space - 1
      /\ Batch[w] \in Nat \ {0}
      /\ Assigned(w) = P
  BY AssignedType, SchedulerAssumption, SpaceType DEF TypeOK, GenOrder, Assigned
<1>2. P.nonce \in Nat /\ P.count \in Nat \ {0}
  BY <1>1, AssignedType
<1>3. p \in [gen : {job[w]}, ntime : {P.ntime}, nonce : P.nonce .. P.nonce + P.count - 1]
  BY <1>1 DEF Scanned
<1> HIDE DEF P
<1>4. PICK k \in 0 .. P.count - 1 : p.nonce = P.nonce + k
  <2>1. p.nonce - P.nonce \in 0 .. P.count - 1
    BY <1>2, <1>3
  <2> QED  BY <2>1, <1>2, <1>3
<1>5. p = [gen |-> job[w], ntime |-> P.ntime, nonce |-> P.nonce + k]
  BY <1>3, <1>4
<1>6. /\ reserved[w] + P.count <= Space
      /\ CursorPoint(job[w], reserved[w] + k) =
            [gen |-> job[w], ntime |-> P.ntime, nonce |-> P.nonce + k]
  BY <1>1, <1>4, ReservationPoints DEF P
<1> QED  BY <1>5, <1>6, <1>4 DEF P

\* In an SV1 session a worker scans its own partition from its cursor on.
LEMMA ScannedOwn ==
    ASSUME TypeOK, GenOrder, ~sv2, NEW w \in Slots, Scanning(w),
           NEW p \in Scanned(w)
    PROVE  /\ p.nonce \in Nat
           /\ p.nonce >= w * Space + Cursor(w)
           /\ p.nonce < w * Space + Cursor(w) + Batch[w]
           /\ p.nonce < w * Space + Space
           /\ p.gen = job[w]
<1>1. Cursor(w) \in Nat /\ w * Space \in Nat /\ Batch[w] \in Nat \ {0}
  BY AssignedType, ProductNat, SpaceType, SchedulerAssumption DEF Scanning
<1>2. Cursor(w) + Batch[w] <= Space
  BY <1>1, SpaceType DEF Scanning, OwnSpaceExhausted
<1>3. /\ p.nonce \in w * Space + Cursor(w) .. w * Space + Cursor(w) + Batch[w] - 1
      /\ p.gen = job[w]
  BY DEF Scanned, Assigned
<1> HIDE DEF Cursor
<1> QED  BY <1>1, <1>2, <1>3, SpaceType

\* A nonce lies in at most one slot's SV1 partition.
LEMMA OneOwner ==
    ASSUME NEW w \in Slots, NEW v \in Slots, NEW n \in Nat,
           n >= w * Space, n < w * Space + Space,
           n >= v * Space, n < v * Space + Space
    PROVE  w = v
<1>1. w \in Nat /\ v \in Nat /\ Space \in Nat
  BY SpaceType
<1>2. w * Space \in Nat /\ v * Space \in Nat
  BY <1>1, ProductNat
<1>3. CASE w < v
  BY <1>1, <1>2, <1>3, BlocksApart
<1>4. CASE v < w
  BY <1>1, <1>2, <1>4, BlocksApart
<1> QED  BY <1>1, <1>3, <1>4

\* SV1: own partitions alone rule out every overlap.
LEMMA OwnNoOverlap ==
    ASSUME TypeOK, GenOrder, OwnBehind, ~sv2
    PROVE  NoOverlap
<1>1. ASSUME NEW w \in Slots, Scanning(w), NEW p \in Scanned(w), p \in tested
      PROVE  FALSE
  <2>1. PICK v \in Slots : OwnedBy(p, v)
    BY <1>1 DEF OwnBehind
  <2>2. /\ p.nonce \in Nat
        /\ p.nonce >= w * Space + Cursor(w)
        /\ p.nonce < w * Space + Space
        /\ p.gen = job[w]
    BY <1>1, ScannedOwn
  <2>3. Cursor(w) \in Nat /\ w * Space \in Nat
    BY <1>1, AssignedType, ProductNat, SpaceType DEF Scanning
  <2>4. w = v
    BY <2>1, <2>2, <2>3, OneOwner DEF OwnedBy
  <2>5. generation[w] \in Nat /\ job[w] \in Nat /\ generation[w] <= job[w] /\ cursor[w] \in Nat
    BY DEF TypeOK, GenOrder
  <2>6. p.gen = generation[w] /\ p.nonce < w * Space + cursor[w]
    BY <2>1, <2>2, <2>4, <2>5 DEF OwnedBy
  <2>7. Cursor(w) = cursor[w]
    BY <2>2, <2>6 DEF Cursor
  <2> QED  BY <2>2, <2>3, <2>5, <2>6, <2>7
<1>2. ASSUME NEW w \in Slots, Scanning(w), NEW v \in Slots \ {w}, Scanning(v),
             NEW p \in Scanned(w), p \in Scanned(v)
      PROVE  FALSE
  <2>1. /\ p.nonce \in Nat
        /\ p.nonce >= w * Space + Cursor(w) /\ p.nonce < w * Space + Space
        /\ p.nonce >= v * Space + Cursor(v) /\ p.nonce < v * Space + Space
    BY <1>2, ScannedOwn
  <2>2. /\ Cursor(w) \in Nat /\ w * Space \in Nat
        /\ Cursor(v) \in Nat /\ v * Space \in Nat
    BY <1>2, AssignedType, ProductNat, SpaceType DEF Scanning
  <2>3. p.nonce >= w * Space /\ p.nonce >= v * Space
    BY <2>1, <2>2
  <2> QED  BY <2>1, <2>3, OneOwner
<1> QED  BY <1>1, <1>2 DEF NoOverlap

\* SV2: what partition grants from the shared cursor is ahead of every point
\* already reserved.
LEMMA FreshReservation ==
    ASSUME TypeOK, GenOrder, work \in Gens, NEW p, Behind(p),
           NEW c \in Nat, c >= SharedStart, c < Space, p = CursorPoint(work, c)
    PROVE  FALSE
<1>1. p.gen = work
  BY DEF CursorPoint
<1>2. work \in Nat /\ shared_generation \in Nat /\ shared_generation <= work
  BY DEF TypeOK, GenOrder
<1>3. p.gen = shared_generation /\ shared_generation = work
  BY <1>1, <1>2 DEF Behind
<1>4. PICK d \in 0 .. shared_cursor - 1 : p = CursorPoint(p.gen, d)
  BY <1>1, <1>2, <1>3 DEF Behind
<1>5. shared_cursor \in 0 .. Space /\ SharedStart = shared_cursor /\ Space \in Nat
  BY <1>3, SpaceType DEF TypeOK, SharedStart
<1>6. d \in 0 .. Space - 1 /\ c \in 0 .. Space - 1 /\ d < c
  BY <1>4, <1>5
<1>7. CursorPoint(work, c) = CursorPoint(work, d)
  BY <1>1, <1>4
<1>8. c = d
  BY <1>6, <1>7, CursorPointInjective
<1> QED  BY <1>6, <1>8

-----------------------------------------------------------------------------
(* Type correctness *)

\* Every step keeps every variable in its type.
LEMMA TypeStep ==
    ASSUME TypeOK, GenOrder, [Next]_vars
    PROVE  TypeOK'
<1>0. 0 .. Space \subseteq Nat /\ 0 .. MaxGen \subseteq Nat
  BY SpaceType, SchedulerAssumption
<1>1. ASSUME NEW w \in Slots, Reserve(w)
      PROVE  TypeOK'
  <2>1. work \in Gens
    BY <1>1, SchedulerAssumption DEF Reserve, TypeOK, Gens
  <2>2. CASE Reserve1(w)
    BY <1>1, <2>2 DEF Reserve, Reserve1, TypeOK
  <2>3. CASE Reserve2(w)
    <3>1. SharedStart \in 0 .. Space
      BY SpaceType DEF TypeOK, SharedStart
    <3>2. shared_cursor' \in 0 .. Space
      <4>1. CASE PartitionFails(SharedStart)
        BY <2>3, <3>1, <4>1 DEF Reserve2
      <4>2. CASE ~PartitionFails(SharedStart)
        <5> DEFINE p == Partition(JobTime[work], 0, SharedStart, Batch[w])
        <5>1. SharedStart \in 0 .. Space - 1 /\ Batch[w] \in Nat \ {0}
          BY <3>1, <4>2, SpaceType, SchedulerAssumption DEF PartitionFails
        <5>2. SharedStart \in Nat /\ JobTime[work] \in 0 .. TimeMod - 1
          BY <2>1, <5>1, SpaceType, SchedulerAssumption
        <5>3. p.count \in Nat \ {0}
          BY <5>1, <5>2, PartitionType
        <5>4. 0 \in 0 .. p.count - 1
          BY <5>3
        <5>5. SharedStart + p.count <= Space
          BY <2>1, <5>1, <5>4, ReservationPoints
        <5>6. shared_cursor' = SharedStart + p.count
          BY <2>3, <4>2 DEF Reserve2
        <5> HIDE DEF p
        <5> QED  BY <5>2, <5>3, <5>5, <5>6, SpaceType
      <4> QED  BY <4>1, <4>2
    <3>3. /\ shared_generation' \in 0 .. MaxGen
          /\ reserved' \in [Slots -> 0 .. Space]
          /\ pc' \in [Slots -> {"reserve", "scan", "publish", "done"}]
          /\ failure' \in {"none", "partition", "queue", "backend"}
      BY <2>3, <3>1 DEF Reserve2, Die, TypeOK
    <3> QED  BY <1>1, <3>2, <3>3 DEF Reserve, TypeOK
  <2> QED  BY <1>1, <2>2, <2>3 DEF Reserve
<1>2. ASSUME NEW w \in Slots, ScanExhausted(w)
      PROVE  TypeOK'
  <2>1. Cursor(w) \in Nat
    BY DEF TypeOK, Cursor
  <2> QED  BY <1>2, <2>1 DEF ScanExhausted, Die, TypeOK
<1>3. ASSUME NEW w \in Slots, ScanError(w)
      PROVE  TypeOK'
  <2>1. Cursor(w) \in Nat
    BY DEF TypeOK, Cursor
  <2> QED  BY <1>3, <2>1 DEF ScanError, Die, TypeOK
<1>4. ASSUME NEW w \in Slots, Scan(w)
      PROVE  TypeOK'
  <2>1. /\ Cursor(w) \in Nat /\ Assigned(w).count \in Nat \ {0}
        /\ Scanned(w) \subseteq Points
    BY <1>4, AssignedType, ScannedType DEF Scan, Scanning
  <2>2. [point : {p \in Scanned(w) : Winning(p)}, slot : {w}] \subseteq Shares
    BY <2>1 DEF Shares
  <2>3. hits' \in [Slots -> SUBSET Shares]
    BY <1>4, <2>2 DEF Scan, TypeOK
  <2>4. /\ cursor' \in [Slots -> Nat] /\ hashes' \in [Slots -> Nat]
        /\ generation' \in [Slots -> 0 .. MaxGen]
        /\ pc' \in [Slots -> {"reserve", "scan", "publish", "done"}]
        /\ tested' \subseteq Points
    <3> HIDE DEF Cursor, Assigned, Scanned
    <3> QED  BY <1>4, <2>1 DEF Scan, TypeOK
  <2> QED  BY <1>4, <2>3, <2>4 DEF Scan, TypeOK
<1>5. ASSUME NEW w \in Slots, Publish(w)
      PROVE  TypeOK'
  BY <1>5 DEF Publish, Die, TypeOK
<1>6. ASSUME NEW w \in Slots, BackendFails(w) \/ Leave(w)
      PROVE  TypeOK'
  BY <1>6 DEF BackendFails, Leave, Die, TypeOK
<1>7. ASSUME NEW g \in Gens, Activate(g)
      PROVE  TypeOK'
  BY <1>7 DEF Activate, TypeOK, Gens
<1>8. CASE TakeFound
  BY <1>8 DEF TakeFound, TypeOK
<1>9. CASE SeeFailure
  BY <1>9 DEF SeeFailure, TypeOK
<1>10. CASE RequestStop
  BY <1>10 DEF RequestStop, TypeOK
<1>11. CASE UNCHANGED vars
  BY <1>11 DEF vars, TypeOK
<1> QED
  BY <1>1, <1>2, <1>3, <1>4, <1>5, <1>6, <1>7, <1>8, <1>9, <1>10, <1>11
     DEF Next, Connection, Worker

\* Every step keeps workers behind the published job.
LEMMA GenOrderStep ==
    ASSUME TypeOK, GenOrder, [Next]_vars
    PROVE  GenOrder'
<1>0. /\ work \in Nat /\ shared_generation \in Nat
      /\ \A v \in Slots : generation[v] \in Nat /\ job[v] \in Nat /\ reserved[v] \in Nat
  BY SpaceType DEF TypeOK
<1>1. ASSUME NEW w \in Slots, Reserve(w)
      PROVE  GenOrder'
  <2>1. CASE Reserve1(w)
    BY <1>0, <1>1, <2>1 DEF Reserve, Reserve1, TypeOK, GenOrder
  <2>2. CASE Reserve2(w)
    <3>1. SharedStart \in 0 .. Space
      BY SpaceType DEF TypeOK, SharedStart
    <3>2. pc'[w] = "scan" => SharedStart < Space
      BY <2>2, <3>1, SpaceType DEF Reserve2, Die, PartitionFails, TypeOK
    <3>3. /\ shared_generation' = work /\ work' = work /\ sv2' = sv2
          /\ job' = [job EXCEPT ![w] = work] /\ generation' = generation
          /\ reserved' = [reserved EXCEPT ![w] = SharedStart]
          /\ \A v \in Slots \ {w} : pc'[v] = pc[v]
      BY <1>1, <2>2 DEF Reserve, Reserve2, Die, TypeOK
    <3>4. job \in [Slots -> Nat] /\ reserved \in [Slots -> Nat] /\ work # 0
      BY <1>1, SpaceType DEF TypeOK, Reserve
    <3>5. ASSUME NEW v \in Slots
          PROVE  /\ generation'[v] <= job'[v]
                 /\ job'[v] <= work'
                 /\ pc'[v] = "scan" => job'[v] # 0
                 /\ (pc'[v] = "scan" /\ sv2') => job'[v] <= shared_generation'
                 /\ (pc'[v] = "scan" /\ sv2') => reserved'[v] < Space
      <4>1. CASE v = w
        BY <1>0, <3>2, <3>3, <3>4, <4>1 DEF GenOrder
      <4>2. CASE v # w
        BY <1>0, <3>3, <3>4, <4>2 DEF GenOrder
      <4> QED  BY <4>1, <4>2
    <3> QED  BY <1>0, <3>3, <3>5 DEF GenOrder
  <2> QED  BY <1>1, <2>1, <2>2 DEF Reserve
<1>2. ASSUME NEW w \in Slots, ScanExhausted(w) \/ ScanError(w) \/ Scan(w)
      PROVE  GenOrder'
  <2>1. /\ UNCHANGED <<sv2, work, shared_generation, job, reserved>>
        /\ generation' = [generation EXCEPT ![w] = job[w]]
        /\ pc'[w] # "scan" /\ \A v \in Slots \ {w} : pc'[v] = pc[v]
    BY <1>2 DEF ScanExhausted, ScanError, Scan, Die, TypeOK
  <2> QED  BY <1>0, <2>1 DEF TypeOK, GenOrder
<1>3. ASSUME NEW w \in Slots, Publish(w) \/ BackendFails(w) \/ Leave(w)
      PROVE  GenOrder'
  <2>1. /\ UNCHANGED <<sv2, work, shared_generation, job, reserved, generation>>
        /\ pc'[w] # "scan" /\ \A v \in Slots \ {w} : pc'[v] = pc[v]
    BY <1>3 DEF Publish, BackendFails, Leave, Die, TypeOK
  <2> QED  BY <2>1 DEF GenOrder
<1>4. ASSUME NEW g \in Gens, Activate(g)
      PROVE  GenOrder'
  BY <1>0, <1>4, SpaceType DEF Activate, GenOrder
<1>5. CASE TakeFound \/ SeeFailure \/ RequestStop \/ UNCHANGED vars
  BY <1>5 DEF TakeFound, SeeFailure, RequestStop, vars, GenOrder
<1> QED
  BY <1>1, <1>2, <1>3, <1>4, <1>5 DEF Next, Connection, Worker

-----------------------------------------------------------------------------
(* The invariant *)

\* A range depends only on the worker's own copy of the job and its cursors.
LEMMA SameRange ==
    ASSUME NEW v \in Slots, sv2' = sv2, job'[v] = job[v],
           reserved'[v] = reserved[v], generation'[v] = generation[v],
           cursor'[v] = cursor[v]
    PROVE  /\ Scanned(v)' = Scanned(v)
           /\ OwnSpaceExhausted(v)' = OwnSpaceExhausted(v)
BY DEF Scanned, Assigned, OwnSpaceExhausted, Cursor

\* An SV2 reservation keeps the shared cursor ahead of every range and opens
\* a range nobody has.
LEMMA Reserve2Step ==
    ASSUME Inv, TypeOK', GenOrder', NEW w \in Slots, Reserve(w), Reserve2(w)
    PROVE  SharedBehind' /\ NoOverlap'
<1>1. /\ TypeOK /\ GenOrder /\ SharedBehind /\ NoOverlap /\ sv2 /\ sv2'
      /\ work \in Gens
  <2>1. TypeOK /\ GenOrder /\ SharedBehind /\ NoOverlap
    BY DEF Inv
  <2>2. sv2 /\ sv2' /\ work # 0
    BY DEF Reserve, Reserve2
  <2>3. work \in 0 .. MaxGen
    BY <2>1 DEF TypeOK
  <2>4. work \in Gens
    BY <2>2, <2>3, SchedulerAssumption DEF Gens
  <2> QED  BY <2>1, <2>2, <2>4
<1>2. /\ shared_generation' = work /\ work' = work
      /\ tested' = tested
      /\ job'[w] = work /\ reserved'[w] = SharedStart
      /\ \A v \in Slots \ {w} :
            /\ Scanned(v)' = Scanned(v)
            /\ OwnSpaceExhausted(v)' = OwnSpaceExhausted(v)
            /\ pc'[v] = pc[v]
  <2>1. /\ shared_generation' = work /\ work' = work /\ sv2' = sv2
        /\ tested' = tested
        /\ job'[w] = work /\ reserved'[w] = SharedStart
        /\ UNCHANGED <<generation, cursor>>
        /\ \A v \in Slots \ {w} : /\ pc'[v] = pc[v] /\ job'[v] = job[v]
                                  /\ reserved'[v] = reserved[v]
    BY <1>1 DEF Reserve, Reserve2, Die, TypeOK
  <2> QED  BY <2>1, SameRange
<1>3. shared_cursor' \in 0 .. Space /\ SharedStart \in Nat /\ Space \in Nat
      /\ shared_cursor' >= SharedStart
  <2>1. SharedStart \in 0 .. Space /\ Space \in Nat /\ shared_cursor' \in 0 .. Space
    BY <1>1, SpaceType DEF TypeOK, SharedStart
  <2>2. CASE PartitionFails(SharedStart)
    BY <2>1, <2>2 DEF Reserve2
  <2>3. CASE ~PartitionFails(SharedStart)
    <3> DEFINE n == Partition(JobTime[work], 0, SharedStart, Batch[w]).count
    <3>1. n \in Nat \ {0}
      <4>1. /\ SharedStart \in Nat /\ Batch[w] \in Nat \ {0}
            /\ JobTime[work] \in 0 .. TimeMod - 1
        BY <1>1, <2>1, SchedulerAssumption
      <4> QED  BY <4>1, PartitionType
    <3>2. shared_cursor' = SharedStart + n
      BY <2>3 DEF Reserve2
    <3> HIDE DEF n
    <3> QED  BY <2>1, <3>1, <3>2
  <2> QED  BY <2>1, <2>2, <2>3
<1>4. ASSUME NEW p \in Points, Behind(p)
      PROVE  Behind(p)'
  <2>1. CASE shared_generation = work
    <3>1. /\ shared_cursor \in Int
          /\ shared_cursor' \in Int
          /\ shared_cursor <= shared_cursor'
      BY <1>1, <1>3, <2>1, SpaceType DEF SharedStart, TypeOK
    <3>2. \A c \in 0 .. shared_cursor - 1 : c \in 0 .. shared_cursor' - 1
      BY <3>1, IntervalGrows
    <3>3. \A c : CursorPoint(p.gen, c)' = CursorPoint(p.gen, c)
      BY DEF CursorPoint
    <3> QED  BY <1>2, <1>4, <2>1, <3>2, <3>3 DEF Behind
  <2>2. CASE shared_generation # work
    <3>1. p.gen \in Gens
      BY DEF Points
    <3>2. p.gen \in Nat
      BY <3>1, SpaceType
    <3>3. shared_generation \in Nat /\ work \in Nat
      BY <1>1 DEF TypeOK
    <3> QED  BY <1>1, <1>2, <1>4, <2>2, <3>2, <3>3 DEF Behind, GenOrder
  <2> QED  BY <2>1, <2>2
<1>5. ASSUME pc'[w] = "scan", NEW p \in Scanned(w)'
      PROVE  /\ Behind(p)'
             /\ ~Behind(p)
  <2> DEFINE n == Partition(JobTime[work], 0, SharedStart, Batch[w]).count
  <2>1. ~PartitionFails(SharedStart)
    BY <1>1, <1>5 DEF Reserve2, Die, TypeOK
  <2>2. shared_cursor' = SharedStart + n
    BY <2>1 DEF Reserve2
  <2>3a. Batch[w] \in Nat \ {0} /\ JobTime[work] \in 0 .. TimeMod - 1
    BY <1>1, SchedulerAssumption
  <2>3. n \in Nat
    BY <1>3, <2>3a, PartitionType
  <2>4. PICK k \in 0 .. n - 1 : p = CursorPoint(work, SharedStart + k)
    <3>1. /\ job'[w] = work /\ reserved'[w] = SharedStart
          /\ SharedStart \in 0 .. Space - 1
          /\ Batch[w] \in Nat \ {0}
      BY <1>2, <1>3, <2>1, SchedulerAssumption DEF PartitionFails
    <3> DEFINE P == Partition(JobTime[work], 0, SharedStart, Batch[w])
    <3>2. Assigned(w)' = P
      BY <1>1, <3>1 DEF Assigned
    <3>3. P.nonce \in Nat
      <4>1. P.nonce \in 0 .. Span - 1
        BY <1>3, <2>3a, PartitionType
      <4> HIDE DEF P
      <4> QED  BY <4>1, SchedulerAssumption
    <3>4. p \in [gen : {work}, ntime : {P.ntime}, nonce : P.nonce .. P.nonce + n - 1]
      BY <1>5, <3>1, <3>2 DEF Scanned
    <3>5. \A k \in 0 .. n - 1 : CursorPoint(work, SharedStart + k) =
              [gen |-> work, ntime |-> P.ntime, nonce |-> P.nonce + k]
      BY <1>1, <3>1, ReservationPoints
    <3> HIDE DEF P, n
    <3>6. p.nonce - P.nonce \in 0 .. n - 1
      BY <2>3, <3>3, <3>4
    <3>7. p = [gen |-> work, ntime |-> P.ntime, nonce |-> P.nonce + (p.nonce - P.nonce)]
      BY <3>3, <3>4
    <3> QED  BY <3>5, <3>6, <3>7
  <2> HIDE DEF n
  <2>5. /\ SharedStart + k \in 0 .. shared_cursor' - 1
        /\ SharedStart + k \in Nat /\ SharedStart + k >= SharedStart
        /\ SharedStart + k < Space
    BY <1>3, <2>2, <2>3, <2>4
  <2>6. p.gen = work
    BY <2>4 DEF CursorPoint
  <2>7. Behind(p)'
    <3>2. \E c \in 0 .. shared_cursor' - 1 : p = CursorPoint(p.gen, c)'
      BY <2>4, <2>5, <2>6 DEF CursorPoint
    <3> QED  BY <1>2, <2>6, <3>2 DEF Behind
  <2>8. ~Behind(p)
    BY <1>1, <2>4, <2>5, FreshReservation
  <2> QED  BY <2>7, <2>8
<1>6. SharedBehind'
  <2>1. \A p \in tested : p \in Points
    BY <1>1 DEF TypeOK
  <2>2. \A v \in Slots : pc[v] = "scan" => \A p \in Scanned(v) : p \in Points
    BY <1>1, ScannedType
  <2> QED  BY <1>1, <1>2, <1>4, <1>5, <2>1, <2>2 DEF SharedBehind
<1>7. NoOverlap'
  <2>1. ASSUME NEW v \in Slots, Scanning(v)', NEW p \in Scanned(v)', p \in tested'
        PROVE  FALSE
    BY <1>1, <1>2, <1>5, <2>1 DEF NoOverlap, Scanning, SharedBehind
  <2>2. ASSUME NEW v \in Slots, NEW u \in Slots \ {v}, Scanning(v)', Scanning(u)',
               NEW p \in Scanned(v)', p \in Scanned(u)'
        PROVE  FALSE
    BY <1>1, <1>2, <1>5, <2>2 DEF NoOverlap, Scanning, SharedBehind
  <2> QED  BY <2>1, <2>2 DEF NoOverlap
<1> QED  BY <1>6, <1>7

\* Every step keeps the invariant.
LEMMA InvStep ==
    ASSUME Inv, [Next]_vars
    PROVE  Inv'
<1>0. /\ TypeOK /\ GenOrder /\ SharedBehind /\ OwnBehind /\ NoOverlap
      /\ SharesTested /\ NoDuplicateShare
  BY DEF Inv
<1>1. TypeOK' /\ GenOrder'
  BY <1>0, TypeStep, GenOrderStep
<1>2. ASSUME NEW w \in Slots, Reserve(w)
      PROVE  Inv'
  <2>1. UNCHANGED <<sv2, generation, cursor, hits, found, taken, tested>>
    BY <1>2 DEF Reserve
  <2>2. OwnBehind' /\ SharesTested' /\ NoDuplicateShare'
    BY <1>0, <2>1 DEF OwnBehind, OwnedBy, SharesTested, NoDuplicateShare
  <2>3. CASE Reserve1(w)
    <3>1. ~sv2'
      BY <2>1, <2>3 DEF Reserve1
    <3>2. SharedBehind'
      BY <3>1 DEF SharedBehind
    <3>3. NoOverlap'
      BY <1>1, <2>2, <3>1, OwnNoOverlap, PTL
    <3> QED  BY <1>1, <2>2, <3>2, <3>3 DEF Inv
  <2>4. CASE Reserve2(w)
    BY <1>1, <1>2, <2>2, <2>4, Reserve2Step DEF Inv
  <2> QED  BY <1>2, <2>3, <2>4 DEF Reserve
<1>3. ASSUME NEW w \in Slots, Scan(w)
      PROVE  Inv'
  <2>1. /\ UNCHANGED <<sv2, work, shared_generation, shared_cursor, job, reserved,
                       found, taken>>
        /\ tested' = tested \cup Scanned(w)
        /\ pc'[w] = "publish" /\ pc[w] = "scan" /\ Scanning(w)
        /\ generation'[w] = job[w] /\ cursor'[w] = Cursor(w) + Assigned(w).count
        /\ \A s \in hits'[w] : s.point \in Scanned(w)
        /\ \A v \in Slots \ {w} :
              /\ pc'[v] = pc[v] /\ generation'[v] = generation[v]
              /\ cursor'[v] = cursor[v] /\ hits'[v] = hits[v]
    BY <1>0, <1>3 DEF Scan, Scanning, TypeOK
  <2>2. \A v \in Slots \ {w} :
           /\ Scanned(v)' = Scanned(v)
           /\ Scanning(v)' = Scanning(v)
    BY <2>1, SameRange DEF Scanning
  <2>3. ~Scanning(w)'
    BY <2>1 DEF Scanning
  <2>4. NoOverlap'
    BY <1>0, <2>1, <2>2, <2>3 DEF NoOverlap
  <2>5. SharedBehind'
    <3>1. \A p : Behind(p)' = Behind(p)
      BY <2>1 DEF Behind, CursorPoint
    <3> QED  BY <1>0, <2>1, <2>2, <3>1 DEF SharedBehind
  <2>6. OwnBehind'
    <3>1. SUFFICES ASSUME ~sv2, NEW p \in tested \cup Scanned(w)
                   PROVE  \E v \in Slots : OwnedBy(p, v)'
      BY <2>1 DEF OwnBehind
    <3>2. /\ job[w] \in Nat /\ generation[w] \in Nat /\ cursor[w] \in Nat
          /\ generation[w] <= job[w]
          /\ w * Space \in Nat /\ Batch[w] \in Nat
          /\ Cursor(w) \in Nat /\ Assigned(w).count = Batch[w]
      BY <1>0, <2>1, <3>1, AssignedType, ProductNat, SpaceType, SchedulerAssumption
         DEF TypeOK, GenOrder, Assigned
    <3>3. CASE p \in Scanned(w)
      <4>1. /\ p.nonce \in Nat
            /\ p.nonce >= w * Space + Cursor(w)
            /\ p.nonce < w * Space + Cursor(w) + Batch[w]
            /\ p.nonce < w * Space + Space
            /\ p.gen = job[w]
        BY <1>0, <2>1, <3>1, <3>3, ScannedOwn
      <4>2. p.nonce >= w * Space /\ p.nonce < w * Space + cursor'[w]
        BY <2>1, <3>2, <4>1
      <4> QED  BY <2>1, <4>1, <4>2 DEF OwnedBy
    <3>4. CASE p \in tested
      <4>1. PICK v \in Slots : OwnedBy(p, v)
        BY <1>0, <3>1, <3>4 DEF OwnBehind
      <4>2. CASE v # w
        BY <2>1, <4>1, <4>2 DEF OwnedBy
      <4>3. CASE v = w
        <5>1. p \in Points
          BY <1>0, <3>4 DEF TypeOK
        <5>2. p.gen \in Nat /\ p.nonce \in Nat
          BY <5>1, SpaceType DEF Points
        <5>3. \/ p.gen < job[w]
              \/ p.gen = job[w] /\ p.nonce < w * Space + cursor'[w]
          BY <2>1, <3>2, <4>1, <4>3, <5>2 DEF OwnedBy, Cursor
        <5> QED  BY <2>1, <4>1, <4>3, <5>3 DEF OwnedBy
      <4> QED  BY <4>2, <4>3
    <3> QED  BY <3>1, <3>3, <3>4
  <2>7. SharesTested'
    BY <1>0, <2>1 DEF SharesTested
  <2>8. NoDuplicateShare'
    <3>1. \A p \in Scanned(w) : p \notin tested
      BY <1>0, <2>1 DEF NoOverlap
    <3>2. ASSUME NEW s \in hits'[w] PROVE s \notin found \cup taken
      BY <1>0, <2>1, <3>1 DEF SharesTested
    <3>3. ASSUME NEW v \in Slots \ {w}, NEW s \in hits'[w], NEW t \in hits[v]
          PROVE  s.point # t.point
      BY <1>0, <2>1, <3>1 DEF SharesTested
    <3>4. ASSUME NEW v \in Slots \ {w}, NEW u \in Slots \ {w}, v # u,
                 NEW s \in hits[u], NEW t \in hits[v]
          PROVE  s.point # t.point
      BY <1>0, <3>4 DEF NoDuplicateShare
    <3>5. \A v, u \in Slots : v # u =>
             {s.point : s \in hits'[v]} \cap {s.point : s \in hits'[u]} = {}
      BY <2>1, <3>3, <3>4
    <3>6. \A v \in Slots : hits'[v] \cap (found' \cup taken') = {}
      BY <1>0, <2>1, <3>2 DEF NoDuplicateShare
    <3> QED  BY <1>0, <2>1, <3>5, <3>6 DEF NoDuplicateShare
  <2> QED  BY <1>1, <2>4, <2>5, <2>6, <2>7, <2>8 DEF Inv
<1>4. ASSUME NEW w \in Slots, ScanExhausted(w) \/ ScanError(w)
      PROVE  Inv'
  <2>1. /\ UNCHANGED <<sv2, work, shared_generation, shared_cursor, job, reserved,
                       found, taken, tested, hits>>
        /\ pc'[w] = "done" /\ pc[w] = "scan"
        /\ generation'[w] = job[w] /\ cursor'[w] = Cursor(w)
        /\ \A v \in Slots \ {w} :
              /\ pc'[v] = pc[v] /\ generation'[v] = generation[v]
              /\ cursor'[v] = cursor[v]
    BY <1>0, <1>4 DEF ScanExhausted, ScanError, Scanning, Die, TypeOK
  <2>2. \A v \in Slots \ {w} :
           /\ Scanned(v)' = Scanned(v)
           /\ Scanning(v)' = Scanning(v)
    BY <2>1, SameRange DEF Scanning
  <2>3. ~Scanning(w)'
    BY <2>1 DEF Scanning
  <2>4. NoOverlap'
    BY <1>0, <2>1, <2>2, <2>3 DEF NoOverlap
  <2>5. SharedBehind'
    <3>1. \A p : Behind(p)' = Behind(p)
      BY <2>1 DEF Behind, CursorPoint
    <3> QED  BY <1>0, <2>1, <2>2, <3>1 DEF SharedBehind
  <2>6. OwnBehind'
    <3>1. SUFFICES ASSUME ~sv2, NEW p \in tested
                   PROVE  \E v \in Slots : OwnedBy(p, v)'
      BY <2>1 DEF OwnBehind
    <3>2. /\ job[w] \in Nat /\ generation[w] \in Nat
          /\ generation[w] <= job[w]
      BY <1>0 DEF TypeOK, GenOrder
    <3>3. PICK v \in Slots : OwnedBy(p, v)
      BY <1>0, <3>1 DEF OwnBehind
    <3>4. p.gen \in Nat
      <4>1. p \in Points
        BY <1>0, <3>1 DEF TypeOK
      <4> QED  BY <4>1, SpaceType DEF Points
    <3>5. CASE v # w
      BY <2>1, <3>3, <3>5 DEF OwnedBy
    <3>6. CASE v = w
      BY <2>1, <3>2, <3>3, <3>4, <3>6 DEF OwnedBy, Cursor
    <3> QED  BY <3>5, <3>6
  <2>7. SharesTested' /\ NoDuplicateShare'
    BY <1>0, <2>1 DEF SharesTested, NoDuplicateShare
  <2> QED  BY <1>1, <2>4, <2>5, <2>6, <2>7 DEF Inv
<1>5. ASSUME NEW w \in Slots, Publish(w) \/ BackendFails(w) \/ Leave(w)
      PROVE  Inv'
  <2>1. /\ UNCHANGED <<sv2, work, shared_generation, shared_cursor, job, reserved,
                       generation, cursor, tested, taken>>
        /\ pc'[w] # "scan" /\ pc[w] # "scan"
        /\ \A v \in Slots \ {w} : pc'[v] = pc[v] /\ hits'[v] = hits[v]
        /\ \/ hits'[w] = {} /\ (found' = found \/ found' = found \cup hits[w])
           \/ hits'[w] = hits[w] /\ found' = found
    BY <1>0, <1>5 DEF Publish, BackendFails, Leave, Die, TypeOK
  <2>2. \A v \in Slots : Scanned(v)' = Scanned(v) /\ Scanning(v)' = Scanning(v)
    BY <2>1, SameRange DEF Scanning
  <2>3. NoOverlap'
    BY <1>0, <2>1, <2>2 DEF NoOverlap
  <2>4. SharedBehind'
    <3>1. \A p : Behind(p)' = Behind(p)
      BY <2>1 DEF Behind, CursorPoint
    <3> QED  BY <1>0, <2>1, <2>2, <3>1 DEF SharedBehind
  <2>5. OwnBehind'
    BY <1>0, <2>1 DEF OwnBehind, OwnedBy
  <2>6. SharesTested'
    BY <1>0, <2>1 DEF SharesTested
  <2>7. NoDuplicateShare'
    <3>1. \A v \in Slots : hits'[v] \subseteq hits[v]
      BY <2>1
    <3>2. \A v, u \in Slots : v # u =>
             {s.point : s \in hits'[v]} \cap {s.point : s \in hits'[u]} = {}
      BY <1>0, <3>1 DEF NoDuplicateShare
    <3>3. \A v \in Slots \ {w} : \A s \in hits[v] : s \notin hits[w]
      BY <1>0 DEF NoDuplicateShare
    <3>4. \A v \in Slots : hits'[v] \cap (found' \cup taken') = {}
      BY <1>0, <2>1, <3>3 DEF NoDuplicateShare
    <3>5. found' \cap taken' = {}
      BY <1>0, <2>1 DEF NoDuplicateShare
    <3> QED  BY <3>2, <3>4, <3>5 DEF NoDuplicateShare
  <2> QED  BY <1>1, <2>3, <2>4, <2>5, <2>6, <2>7 DEF Inv
<1>6. CASE Connection \/ UNCHANGED vars
  <2>1. /\ UNCHANGED <<sv2, shared_generation, shared_cursor, pc, job, reserved,
                       generation, cursor, tested, hits>>
        /\ \/ found' = found /\ taken' = taken
           \/ found' = {} /\ taken' = taken \cup found
    BY <1>6 DEF Connection, Activate, TakeFound, SeeFailure, RequestStop, vars
  <2>2. \A v \in Slots : Scanned(v)' = Scanned(v) /\ Scanning(v)' = Scanning(v)
    BY <2>1, SameRange DEF Scanning
  <2>3. NoOverlap' /\ OwnBehind'
    BY <1>0, <2>1, <2>2 DEF NoOverlap, OwnBehind, OwnedBy
  <2>4. SharedBehind'
    <3>1. \A p : Behind(p)' = Behind(p)
      BY <2>1 DEF Behind, CursorPoint
    <3> QED  BY <1>0, <2>1, <2>2, <3>1 DEF SharedBehind
  <2>5. SharesTested' /\ NoDuplicateShare'
    BY <1>0, <2>1 DEF SharesTested, NoDuplicateShare
  <2> QED  BY <1>1, <2>3, <2>4, <2>5 DEF Inv
<1> QED
  BY <1>2, <1>3, <1>4, <1>5, <1>6 DEF Next, Worker

\* The invariant holds before any worker has run.
LEMMA InvInit == Init => Inv
<1> SUFFICES ASSUME Init PROVE Inv
  OBVIOUS
<1>1. TypeOK
  <2>1. 0 \in 0 .. MaxGen /\ 0 \in 0 .. Space /\ 0 \in Nat
    BY SpaceType, SchedulerAssumption
  <2> QED  BY <2>1, Zenon DEF Init, TypeOK
<1>2. GenOrder
  BY SpaceType DEF Init, GenOrder
<1>3. SharedBehind /\ OwnBehind /\ NoOverlap
  BY DEF Init, SharedBehind, OwnBehind, NoOverlap, Scanning
<1>4. SharesTested /\ NoDuplicateShare
  BY DEF Init, SharesTested, NoDuplicateShare
<1> QED  BY <1>1, <1>2, <1>3, <1>4 DEF Inv

-----------------------------------------------------------------------------
(* No holes behind the shared cursor                                        *)

\* A range that partition grants is a run of cursor points, and all of it.
LEMMA RangePoints ==
    ASSUME NEW g \in Gens, NEW c \in 0 .. Space - 1, NEW b \in Nat \ {0}, NEW p
    PROVE  LET P == Partition(JobTime[g], 0, c, b) IN
           p \in [gen : {g}, ntime : {P.ntime}, nonce : P.nonce .. P.nonce + P.count - 1]
              <=> \E d \in c .. c + P.count - 1 : p = CursorPoint(g, d)
<1> DEFINE P == Partition(JobTime[g], 0, c, b)
           R == [gen : {g}, ntime : {P.ntime}, nonce : P.nonce .. P.nonce + P.count - 1]
<1>1. c \in Nat /\ JobTime[g] \in 0 .. TimeMod - 1
  BY SpaceType, SchedulerAssumption
<1>2. P.nonce \in Nat /\ P.count \in Nat \ {0}
  <2>1. P.nonce \in 0 .. Span - 1 /\ P.count \in Nat \ {0}
    BY <1>1, PartitionType
  <2> HIDE DEF P
  <2> QED  BY <2>1, SchedulerAssumption
<1>3. \A k \in 0 .. P.count - 1 : CursorPoint(g, c + k) =
         [gen |-> g, ntime |-> P.ntime, nonce |-> P.nonce + k]
  BY ReservationPoints
<1> HIDE DEF P
<1>4. ASSUME p \in R PROVE \E d \in c .. c + P.count - 1 : p = CursorPoint(g, d)
  <2>1. /\ p.nonce \in P.nonce .. P.nonce + P.count - 1
        /\ p = [gen |-> g, ntime |-> P.ntime, nonce |-> p.nonce]
    BY <1>4
  <2> DEFINE k == p.nonce - P.nonce
  <2>2. k \in 0 .. P.count - 1 /\ P.nonce + k = p.nonce /\ c + k \in c .. c + P.count - 1
    BY <1>1, <1>2, <2>1
  <2> QED  BY <1>3, <2>1, <2>2
<1>5. ASSUME NEW d \in c .. c + P.count - 1, p = CursorPoint(g, d) PROVE p \in R
  <2> DEFINE k == d - c
  <2>1. /\ k \in 0 .. P.count - 1 /\ c + k = d
        /\ P.nonce + k \in P.nonce .. P.nonce + P.count - 1
    BY <1>1, <1>2
  <2>2. p = [gen |-> g, ntime |-> P.ntime, nonce |-> P.nonce + k]
    BY <1>3, <1>5, <2>1
  <2> HIDE DEF k
  <2> QED  BY <2>1, <2>2
<1> QED  BY <1>4, <1>5 DEF P

\* A point of the shared job below the shared cursor.
Reached(p) == \E c \in 0 .. shared_cursor - 1 : p = CursorPoint(shared_generation, c)

\* A point of the shared job that was hashed or is assigned to a worker.
Given(p) ==
    \/ p \in tested /\ p.gen = shared_generation
    \/ \E v \in Slots : pc[v] = "scan" /\ job[v] = shared_generation /\ p \in Scanned(v)

\* NoGap, point by point.
GapFree ==
    (sv2 /\ failure = "none" /\ shared_generation # 0) => \A p : Reached(p) <=> Given(p)

\* Two sets are equal when they have the same elements.
LEMMA GapByPoint == NoGap <=> GapFree
<1> DEFINE L == {CursorPoint(shared_generation, c) : c \in 0 .. shared_cursor - 1}
           W == {v \in Slots : pc[v] = "scan" /\ job[v] = shared_generation}
           R == {p \in tested : p.gen = shared_generation} \cup UNION {Scanned(w) : w \in W}
<1>1. \A p : p \in L <=> Reached(p)
  BY DEF Reached
<1>2. \A p : p \in R <=> Given(p)
  BY DEF Given
<1>3. NoGap <=> ((sv2 /\ failure = "none" /\ shared_generation # 0) => L = R)
  BY DEF NoGap
<1> HIDE DEF L, R
<1>4. L = R <=> \A p : p \in L <=> p \in R
  OBVIOUS
<1> QED  BY <1>1, <1>2, <1>3, <1>4 DEF GapFree

\* No step opens a hole.
LEMMA GapStep == Inv /\ GapFree /\ [Next]_vars => GapFree'
<1> SUFFICES ASSUME Inv, GapFree, [Next]_vars, sv2', failure' = "none", shared_generation' # 0
             PROVE  \A p : Reached(p)' <=> Given(p)'
  BY DEF GapFree
<1>0. TypeOK /\ GenOrder /\ SharedBehind
  BY DEF Inv
<1>1. sv2
  BY DEF Next, Connection, TakeFound, SeeFailure, RequestStop, Activate, BackendFails, Worker,
         Reserve, ScanExhausted, Scan, ScanError, Publish, Leave, vars
<1>2. ASSUME UNCHANGED <<shared_generation, shared_cursor, failure>>, NEW p
      PROVE  (Reached(p)' <=> Reached(p)) /\ (Reached(p) <=> Given(p))
  <2>1. Reached(p)' <=> Reached(p)
    BY <1>2 DEF Reached, CursorPoint
  <2> QED  BY <1>1, <1>2, <2>1 DEF GapFree
<1>3. CASE Connection \/ UNCHANGED vars
  <2>1. UNCHANGED <<sv2, shared_generation, shared_cursor, pc, job, reserved,
                    generation, cursor, tested, failure>>
    BY <1>3 DEF Connection, Activate, TakeFound, SeeFailure, RequestStop, vars
  <2>2. \A v \in Slots : Scanned(v)' = Scanned(v)
    BY <2>1, SameRange
  <2>3. \A p : Given(p)' <=> Given(p)
    BY <2>1, <2>2 DEF Given
  <2> QED  BY <1>2, <2>1, <2>3
<1>4. ASSUME NEW w \in Slots, Publish(w) \/ BackendFails(w) \/ Leave(w)
      PROVE  \A p : Reached(p)' <=> Given(p)'
  <2>1. /\ UNCHANGED <<sv2, shared_generation, shared_cursor, job, reserved,
                       generation, cursor, tested, failure>>
        /\ pc'[w] # "scan" /\ pc[w] # "scan"
        /\ \A v \in Slots \ {w} : pc'[v] = pc[v]
    BY <1>0, <1>4 DEF Publish, BackendFails, Leave, Die, TypeOK
  <2>2. \A v \in Slots : Scanned(v)' = Scanned(v)
    BY <2>1, SameRange
  <2>3. \A v \in Slots : pc'[v] = "scan" <=> pc[v] = "scan"
    BY <2>1
  <2>4. \A p : Given(p)' <=> Given(p)
    BY <2>1, <2>2, <2>3 DEF Given
  <2> QED  BY <1>2, <2>1, <2>4
<1>5. ASSUME NEW w \in Slots, ScanExhausted(w) \/ ScanError(w)
      PROVE  FALSE
  BY <1>5 DEF ScanExhausted, ScanError, Die
<1>6. ASSUME NEW w \in Slots, Scan(w)
      PROVE  \A p : Reached(p)' <=> Given(p)'
  <2>1. /\ UNCHANGED <<sv2, shared_generation, shared_cursor, job, reserved, failure>>
        /\ pc[w] = "scan" /\ pc'[w] = "publish" /\ tested' = tested \cup Scanned(w)
        /\ \A v \in Slots \ {w} : /\ pc'[v] = pc[v] /\ generation'[v] = generation[v]
                                  /\ cursor'[v] = cursor[v]
    BY <1>0, <1>6 DEF Scan, Scanning, TypeOK
  <2>2. \A v \in Slots \ {w} : Scanned(v)' = Scanned(v)
    BY <2>1, SameRange
  <2>3. \A p \in Scanned(w) : p.gen = job[w]
    BY <1>0, <2>1, ScannedType
  <2>4. ASSUME NEW p PROVE Given(p)' <=> Given(p)
    <3>1. ASSUME p \in Scanned(w), job[w] = shared_generation
          PROVE  Given(p)' /\ Given(p)
      BY <2>1, <2>3, <3>1 DEF Given
    <3>2. ASSUME ~ (p \in Scanned(w) /\ job[w] = shared_generation)
          PROVE  Given(p)' <=> Given(p)
      <4>1. (p \in tested' /\ p.gen = shared_generation')
               <=> (p \in tested /\ p.gen = shared_generation)
        BY <2>1, <2>3, <3>2
      <4>2. (\E v \in Slots : pc'[v] = "scan" /\ job'[v] = shared_generation' /\ p \in Scanned(v)')
               <=> \E v \in Slots \ {w} : /\ pc[v] = "scan" /\ job[v] = shared_generation
                                          /\ p \in Scanned(v)
        BY <2>1, <2>2
      <4> QED  BY <3>2, <4>1, <4>2 DEF Given
    <3> QED  BY <3>1, <3>2
  <2> QED  BY <1>2, <2>1, <2>4
<1>7. ASSUME NEW w \in Slots, Reserve(w)
      PROVE  \A p : Reached(p)' <=> Given(p)'
  <2> DEFINE P == Partition(JobTime[work], 0, SharedStart, Batch[w])
  <2>1. /\ Reserve2(w) /\ ~PartitionFails(SharedStart)
        /\ shared_cursor' = SharedStart + P.count
        /\ shared_generation' = work /\ tested' = tested /\ failure' = failure
        /\ job'[w] = work /\ reserved'[w] = SharedStart /\ pc'[w] = "scan" /\ pc[w] = "reserve"
        /\ UNCHANGED <<generation, cursor, sv2>>
        /\ \A v \in Slots \ {w} : /\ pc'[v] = pc[v] /\ job'[v] = job[v]
                                  /\ reserved'[v] = reserved[v]
    BY <1>0, <1>1, <1>7 DEF Reserve, Reserve1, Reserve2, Die, TypeOK
  <2>2. \A v \in Slots \ {w} : Scanned(v)' = Scanned(v)
    BY <2>1, SameRange
  <2>3. work \in Gens /\ SharedStart \in 0 .. Space - 1 /\ SharedStart \in Nat
        /\ Batch[w] \in Nat \ {0} /\ JobTime[work] \in 0 .. TimeMod - 1
    <3>1. work \in 0 .. MaxGen /\ work # 0 /\ SharedStart \in 0 .. Space /\ ~ (SharedStart >= Space)
      BY <1>0, <1>7, <2>1, SpaceType DEF TypeOK, Reserve, SharedStart, PartitionFails
    <3>2. work \in Gens
      BY <3>1, SchedulerAssumption DEF Gens
    <3> QED  BY <3>1, <3>2, SpaceType, SchedulerAssumption
  <2>4. P.count \in Nat
    BY <2>3, PartitionType
  <2>5. Assigned(w)' = P
    BY <2>1 DEF Assigned
  <2>6. Scanned(w)' = [gen : {work}, ntime : {P.ntime}, nonce : P.nonce .. P.nonce + P.count - 1]
    BY <2>1, <2>5 DEF Scanned
  <2>7. \A p : p \in Scanned(w)' <=>
                 \E d \in SharedStart .. SharedStart + P.count - 1 : p = CursorPoint(work, d)
    BY <2>3, <2>6, RangePoints
  <2> HIDE DEF P
  <2>8. \A p : Reached(p)' <=> \E d \in 0 .. SharedStart + P.count - 1 : p = CursorPoint(work, d)
    <3>1. \A p : Reached(p)' <=>
             \E c \in 0 .. shared_cursor' - 1 : p = CursorPoint(shared_generation', c)
      BY DEF Reached, CursorPoint
    <3>2. shared_cursor' - 1 = SharedStart + P.count - 1 /\ shared_generation' = work
      BY <2>1, <2>3, <2>4
    <3> QED  BY <3>1, <3>2, Zenon
  <2>9. \A p : (\E d \in 0 .. SharedStart + P.count - 1 : p = CursorPoint(work, d)) <=>
                  p \in Scanned(w)' \/ \E d \in 0 .. SharedStart - 1 : p = CursorPoint(work, d)
    <3>1. \A d : d \in 0 .. SharedStart + P.count - 1 <=>
                    d \in 0 .. SharedStart - 1 \/ d \in SharedStart .. SharedStart + P.count - 1
      BY <2>3, <2>4
    <3> QED  BY <2>7, <3>1
  <2>10. \A p : Given(p)' <=>
            \/ p \in Scanned(w)'
            \/ p \in tested /\ p.gen = work
            \/ \E v \in Slots \ {w} : pc[v] = "scan" /\ job[v] = work /\ p \in Scanned(v)
    BY <2>1, <2>2 DEF Given
  <2>11. CASE shared_generation = work
    <3>1. \A p : Given(p) <=>
             \/ p \in tested /\ p.gen = work
             \/ \E v \in Slots \ {w} : pc[v] = "scan" /\ job[v] = work /\ p \in Scanned(v)
      BY <2>1, <2>11 DEF Given
    <3>2. \A p : Reached(p) <=> \E d \in 0 .. SharedStart - 1 : p = CursorPoint(work, d)
      BY <2>11 DEF Reached, SharedStart
    <3>3. \A p : Reached(p) <=> Given(p)
      BY <1>1, <2>1, <2>11 DEF GapFree
    <3> QED  BY <2>8, <2>9, <2>10, <3>1, <3>2, <3>3
  <2>12. CASE shared_generation # work
    <3>1. shared_generation < work /\ shared_generation \in Nat /\ work \in Nat
      BY <1>0, <2>12 DEF GenOrder, TypeOK
    <3>2. \A p \in tested : p.gen # work
      <4> SUFFICES ASSUME NEW p \in tested PROVE p.gen # work
        OBVIOUS
      <4>1. p.gen \in Gens
        BY <1>0 DEF TypeOK, Points
      <4>2. p.gen \in Nat /\ (p.gen < shared_generation \/ p.gen = shared_generation)
        BY <1>0, <1>1, <4>1, SpaceType DEF SharedBehind, Behind
      <4> QED  BY <3>1, <4>2
    <3>3. \A v \in Slots : pc[v] = "scan" => job[v] # work
      <4> SUFFICES ASSUME NEW v \in Slots, pc[v] = "scan" PROVE job[v] # work
        OBVIOUS
      <4>1. job[v] <= shared_generation /\ job[v] \in Nat
        BY <1>0, <1>1 DEF GenOrder, TypeOK
      <4> QED  BY <3>1, <4>1
    <3>4. SharedStart = 0 /\ \A d \in 0 .. 0 - 1 : FALSE
      BY <2>12 DEF SharedStart
    <3> QED  BY <2>8, <2>9, <2>10, <3>2, <3>3, <3>4
  <2> QED  BY <2>11, <2>12
<1> QED  BY <1>3, <1>4, <1>5, <1>6, <1>7 DEF Next, Worker

-----------------------------------------------------------------------------
(* The theorems *)

\* The inductive invariant holds in every reachable state.
THEOREM Invariance == Spec => []Inv
BY InvInit, InvStep, PTL DEF Spec

\* Every variable of the scheduler keeps its type; in particular the shared
\* cursor never passes 2^56 (miner.cpp:490, sv2.cpp:179).
THEOREM TypeCorrectness == Spec => []TypeOK
<1>1. Inv => TypeOK
  BY DEF Inv
<1> QED  BY <1>1, Invariance, PTL

\* No two scans of a session hash the same header and nonce, for any number of
\* devices and any interleaving of reservations, scans and new jobs.
THEOREM NoHashTwice == Spec => []NoOverlap
<1>1. Inv => NoOverlap
  BY DEF Inv
<1> QED  BY <1>1, Invariance, PTL

\* No share reaches the connection thread twice.
THEOREM NoShareTwice == Spec => []NoDuplicateShare
<1>1. Inv => NoDuplicateShare
  BY DEF Inv
<1> QED  BY <1>1, Invariance, PTL

\* While no worker has died the shared cursor leaves no hash of its job
\* behind: what lies below it was hashed or is assigned (miner.cpp:485-491,
\* 504-511).
THEOREM NoHoles == Spec => []NoGap
<1>1. Init => GapFree
  BY DEF Init, GapFree
<1> QED  BY <1>1, GapByPoint, GapStep, Invariance, PTL DEF Spec
=============================================================================
