------------------------- MODULE StratumStateProofs -------------------------
(***************************************************************************)
(* The promises of docs/ARCHITECTURE.md about Stratum V1 jobs, for every   *)
(* pool and every sequence of messages.                                    *)
(***************************************************************************)
EXTENDS StratumState, TLAPS

\* Jobs are numbered by their generation, which is also their extranonce2.
Numbered ==
    /\ \A j \in issued : j.generation <= generation /\ j.epoch <= epoch
                         /\ j.en2 = j.generation
    /\ \A i, j \in issued : i.generation = j.generation => i = j

\* No job of the present epoch is older than a clean job.
CleanFirst ==
    \A j, c \in issued : (j.epoch = epoch /\ c.clean) => c.generation <= j.generation

\* The current job is the last one notified, and entered as live.
CurrentLive ==
    current # 0 => \E j \in issued : /\ j.generation = current
                                     /\ j.epoch = epoch
                                     /\ valid_ids[j.id] = current

\* Generations count at least as fast as epochs.
EpochBound == epoch <= generation

Inv == TypeOK /\ Numbered /\ CleanFirst /\ CurrentLive /\ EpochBound

-----------------------------------------------------------------------------
\* A notification keeps the invariant.
LEMMA NotifyStep ==
    ASSUME Inv, NEW m \in Messages, Within(m), Require(m), Notify(m),
           failed' = failed
    PROVE  Inv'
<1> DEFINE n == NewJob(m)
<1>0. /\ TypeOK /\ Numbered /\ CleanFirst /\ EpochBound
  BY DEF Inv
<1>1. /\ generation \in 0 .. MaxGen - 1 /\ generation + 1 \in Gens
      /\ epoch \in Nat /\ epoch <= generation /\ generation \in Nat
  BY <1>0, StratumAssumption DEF TypeOK, Within, Notify, Gens, EpochBound
<1>2. /\ m.id \in JobIds /\ m.clean \in BOOLEAN
      /\ en1 \in En1s /\ next_target \in Targets
  BY <1>0 DEF Messages, Notify, Require, TypeOK
<1>3. /\ Epoch(m.clean) \in 0 .. MaxGen /\ Epoch(m.clean) \in Nat
      /\ Epoch(m.clean) <= generation + 1
      /\ Epoch(m.clean) >= epoch
      /\ m.clean => Epoch(m.clean) = epoch + 1
      /\ ~m.clean => Epoch(m.clean) = epoch
  BY <1>1, StratumAssumption DEF Epoch
<1>4. /\ n \in Jobs
      /\ n.id = m.id /\ n.generation = generation + 1 /\ n.en2 = generation + 1
      /\ n.epoch = Epoch(m.clean) /\ n.clean = m.clean
  BY <1>1, <1>2, <1>3 DEF NewJob, Jobs
<1>5. /\ generation' = generation + 1 /\ epoch' = Epoch(m.clean)
      /\ current' = generation + 1 /\ issued' = issued \cup {n}
      /\ UNCHANGED <<en1, next_target, authorized>>
  BY DEF Notify
<1>6. valid_ids' \in [JobIds -> 0 .. MaxGen] /\ valid_ids'[m.id] = generation + 1
  <2>1. Live(m.clean) \in [JobIds -> 0 .. MaxGen]
    BY <1>0, StratumAssumption DEF Live, TypeOK
  <2>2. generation + 1 \in 0 .. MaxGen
    BY <1>1, StratumAssumption
  <2> QED  BY <1>2, <2>1, <2>2 DEF Notify
<1> HIDE DEF n
<1>7. \A j \in issued : /\ j.generation \in Nat /\ j.epoch \in Nat
                        /\ j.generation <= generation /\ j.epoch <= epoch
  <2>1. \A j \in Jobs : j.generation \in Nat /\ j.epoch \in Nat
    BY StratumAssumption DEF Jobs, Gens
  <2> QED  BY <1>0, <2>1 DEF TypeOK, Numbered
<1>8. Numbered'
  <2>1. \A j \in issued' : /\ j.generation <= generation + 1 /\ j.epoch <= Epoch(m.clean)
                           /\ j.en2 = j.generation
    BY <1>0, <1>1, <1>3, <1>4, <1>5, <1>7 DEF Numbered
  <2>2. \A j \in issued : j.generation # n.generation
    BY <1>1, <1>4, <1>7
  <2>3. \A i, j \in issued' : i.generation = j.generation => i = j
    BY <1>0, <1>5, <2>2 DEF Numbered
  <2> QED  BY <1>5, <2>1, <2>3 DEF Numbered
<1>9. CleanFirst'
  <2>1. SUFFICES ASSUME NEW j \in issued \cup {n}, NEW c \in issued \cup {n},
                        j.epoch = Epoch(m.clean), c.clean
                 PROVE  c.generation <= j.generation
    BY <1>5 DEF CleanFirst
  <2>2. CASE j = n
    BY <1>1, <1>4, <1>7, <2>2
  <2>3. CASE j \in issued /\ m.clean
    <3>1. j.epoch <= epoch /\ j.epoch = epoch + 1
      BY <1>3, <1>7, <2>1, <2>3
    <3> QED  BY <1>1, <3>1
  <2>4. CASE j \in issued /\ ~m.clean
    <3>1. c \in issued
      BY <1>4, <2>1, <2>4
    <3> QED  BY <1>0, <1>3, <2>1, <2>4, <3>1 DEF CleanFirst
  <2> QED  BY <2>2, <2>3, <2>4
<1>10. CurrentLive'
  BY <1>4, <1>5, <1>6 DEF CurrentLive
<1>11. TypeOK'
  <2>1. generation + 1 \in 0 .. MaxGen
    BY <1>1, StratumAssumption
  <2> QED  BY <1>0, <1>3, <1>4, <1>5, <1>6, <2>1 DEF TypeOK
<1>12. EpochBound'
  BY <1>3, <1>5 DEF EpochBound
<1> QED  BY <1>8, <1>9, <1>10, <1>11, <1>12 DEF Inv

\* Every message keeps the invariant.
LEMMA InvStep == Inv /\ [Next]_vars => Inv'
<1> SUFFICES ASSUME Inv, [Next]_vars PROVE Inv'
  OBVIOUS
<1>1. CASE UNCHANGED vars
  BY <1>1 DEF vars, Inv, TypeOK, Numbered, CleanFirst, CurrentLive, EpochBound
<1>2. ASSUME NEW m \in Messages, Within(m), receive(m)
      PROVE  Inv'
  <2>1. CASE ~Require(m) /\ Fail
    BY <2>1 DEF Fail, Inv, TypeOK, Numbered, CleanFirst, CurrentLive, EpochBound
  <2>2. CASE Require(m) /\ Handle(m) /\ UNCHANGED failed
    <3>1. CASE Notify(m)
      BY <1>2, <2>2, <3>1, NotifyStep
    <3>2. CASE SetDifficulty(m)
      <4>1. m.target \in Targets
        BY <3>2 DEF SetDifficulty, Messages
      <4> QED  BY <2>2, <3>2, <4>1 DEF SetDifficulty, Inv, TypeOK, Numbered, CleanFirst, CurrentLive, EpochBound
    <3>3. CASE SetExtranonce(m)
      <4>1. m.en1 \in En1s
        BY <3>3 DEF SetExtranonce, Messages
      <4> QED  BY <2>2, <3>3, <4>1 DEF SetExtranonce, Inv, TypeOK, Numbered, CleanFirst, CurrentLive, EpochBound
    <3>4. CASE Authorized(m)
      BY <2>2, <3>4 DEF Authorized, Inv, TypeOK, Numbered, CleanFirst, CurrentLive, EpochBound
    <3> QED  BY <2>2, <3>1, <3>2, <3>3, <3>4 DEF Handle
  <2> QED  BY <1>2, <2>1, <2>2 DEF receive
<1> QED  BY <1>1, <1>2 DEF Next

\* The invariant holds in every reachable state.
THEOREM Invariance == Spec => []Inv
<1>1. Init => Inv
  <2>1. 0 \in 0 .. MaxGen /\ 0 <= 0
    BY StratumAssumption
  <2>2. Init => TypeOK
    BY <2>1, Zenon DEF Init, TypeOK
  <2>3. Init => Numbered /\ CleanFirst /\ CurrentLive /\ EpochBound
    BY DEF Init, Numbered, CleanFirst, CurrentLive, EpochBound
  <2> QED  BY <2>2, <2>3 DEF Inv
<1> QED  BY <1>1, InvStep, PTL DEF Spec

\* Clean jobs invalidate all older work.
THEOREM CleanJobs == Spec => []CleanInvalidatesOlder
<1>1. Inv => CleanInvalidatesOlder
  BY DEF Inv, CleanFirst, CleanInvalidatesOlder, valid
<1> QED  BY <1>1, Invariance, PTL

\* A reused job id replaces the job it named before.
THEOREM ReusedIds == Spec => []ReusedIdReplaces
<1>1. Inv => ReusedIdReplaces
  BY DEF Inv, Numbered, ReusedIdReplaces, valid
<1> QED  BY <1>1, Invariance, PTL

\* No two jobs of a connection have the same coinbase.
THEOREM FreshWork == Spec => []FreshCoinbase
<1>1. Inv => FreshCoinbase
  BY DEF Inv, Numbered, FreshCoinbase
<1> QED  BY <1>1, Invariance, PTL

\* The newest job is submittable once the pool has authorized the miner.
THEOREM NewestIsValid == Spec => []CurrentIsValid
<1>1. Inv => CurrentIsValid
  BY DEF Inv, CurrentLive, CurrentIsValid, valid
<1> QED  BY <1>1, Invariance, PTL
=============================================================================
