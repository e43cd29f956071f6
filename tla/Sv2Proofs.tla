------------------------------ MODULE Sv2Proofs ------------------------------
(***************************************************************************)
(* Part one: what Session::valid guarantees about jobs, and the books of   *)
(* the session as a ledger, for every pool, every set of job ids and every *)
(* sequence of messages.  Part two: the miner books what a conforming pool *)
(* decided, for every number of shares, every batching of acknowledgements *)
(* and every delay of errors.                                              *)
(***************************************************************************)
EXTENDS Sv2Channel, FiniteSetTheorems, WellFoundedInduction, TLAPS

-----------------------------------------------------------------------------
(* Part one: the session *)

\* The types of the job half of the session.
JobTypes ==
    /\ generation \in 0 .. MaxGen
    /\ epoch \in Nat
    /\ epoch <= generation
    /\ jobs \in [JobIds -> Stored]
    /\ issued \subseteq Jobs
    /\ previous \in Hashes \cup {NoHash}

\* Jobs are numbered by their generation.
Numbered ==
    /\ \A j \in issued : j.generation <= generation /\ j.epoch <= epoch
    /\ \A i, j \in issued : i.generation = j.generation => i = j

\* All jobs of the present epoch build on the present previous hash.
EpochIsTip == \A j \in issued : j.epoch = epoch => j.previous = previous

\* The current job is stored, active and of the present epoch.
CurrentLive ==
    current # 0 =>
        /\ phase = 3
        /\ \E j \in issued : /\ j.generation = current
                             /\ j.epoch = epoch
                             /\ jobs[j.wire_job].kind = "active"
                             /\ jobs[j.wire_job].generation = current

JobInv == JobTypes /\ Numbered /\ EpochIsTip /\ CurrentLive

-----------------------------------------------------------------------------
\* The part of the invariant a step that activates no job leaves alone.
LEMMA JobVarsUnchanged ==
    ASSUME JobInv, UNCHANGED jobVars, phase' = phase \/ phase # 3
    PROVE  JobInv'
<1>1. UNCHANGED <<previous, jobs, generation, epoch, current, issued>>
  BY DEF jobVars
<1>2. JobTypes' /\ Numbered' /\ EpochIsTip'
  BY <1>1 DEF JobInv, JobTypes, Numbered, EpochIsTip
<1>3. CurrentLive'
  BY <1>1 DEF JobInv, CurrentLive
<1> QED  BY <1>2, <1>3 DEF JobInv

\* Activating a job in the table T, for tip h and epoch e, keeps the invariant
\* if e is the present epoch and h its tip, or e is new.
LEMMA ActivateStep ==
    ASSUME JobInv, NEW id \in JobIds, NEW T \in [JobIds -> Stored], NEW h \in Hashes,
           NEW e \in Nat, activate(id, T, h, e), generation < MaxGen,
           (e = epoch /\ h = previous) \/ e = epoch + 1,
           epoch' = e, previous' = h, phase = 3, phase' = 3
    PROVE  JobInv'
<1> DEFINE n == [wire_job |-> id, generation |-> generation + 1, epoch |-> e,
                 previous |-> h]
<1>0. JobTypes /\ Numbered /\ EpochIsTip
  BY DEF JobInv
<1>1. /\ generation \in Nat /\ epoch \in Nat /\ epoch <= generation
      /\ generation + 1 \in 0 .. MaxGen /\ generation + 1 \in Gens
      /\ e <= generation + 1 /\ epoch <= e /\ e \in 0 .. MaxGen
  BY <1>0, Sv2Assumption DEF JobTypes, Gens
<1>2. n \in Jobs
  BY <1>1 DEF Jobs
<1>3. /\ generation' = generation + 1 /\ current' = generation + 1
      /\ issued' = issued \cup {n}
      /\ jobs' = [T EXCEPT ![id] = [kind |-> "active", generation |-> generation + 1]]
  BY DEF activate
<1>4. /\ jobs' \in [JobIds -> Stored]
      /\ jobs'[id].kind = "active" /\ jobs'[id].generation = generation + 1
  <2>1. [kind |-> "active", generation |-> generation + 1] \in Stored
    BY <1>1 DEF Stored
  <2> QED  BY <1>3, <2>1
<1>5. \A j \in issued : /\ j.generation \in Nat /\ j.epoch \in Nat
                        /\ j.generation <= generation /\ j.epoch <= epoch
  <2>1. \A j \in Jobs : j.generation \in Nat /\ j.epoch \in Nat
    BY Sv2Assumption DEF Jobs, Gens
  <2> QED  BY <1>0, <2>1 DEF JobTypes, Numbered
<1>6. /\ n.generation = generation + 1 /\ n.epoch = e /\ n.previous = h
      /\ n.wire_job = id
  OBVIOUS
<1> HIDE DEF n
<1>7. JobTypes'
  BY <1>0, <1>1, <1>2, <1>3, <1>4 DEF JobTypes
<1>8. Numbered'
  <2>1. \A j \in issued' : j.generation <= generation + 1 /\ j.epoch <= e
    BY <1>1, <1>3, <1>5, <1>6
  <2>2. \A j \in issued : j.generation # n.generation
    BY <1>1, <1>5, <1>6
  <2>3. \A i, j \in issued' : i.generation = j.generation => i = j
    BY <1>0, <1>3, <2>2 DEF Numbered
  <2> QED  BY <1>3, <2>1, <2>3 DEF Numbered
<1>9. EpochIsTip'
  <2>1. CASE e = epoch /\ h = previous
    BY <1>0, <1>3, <1>6, <2>1 DEF EpochIsTip
  <2>2. CASE e = epoch + 1
    <3>1. \A j \in issued : j.epoch # e
      BY <1>1, <1>5, <2>2
    <3> QED  BY <1>3, <1>6, <3>1 DEF EpochIsTip
  <2> QED  BY <2>1, <2>2
<1>10. CurrentLive'
  BY <1>3, <1>4, <1>6 DEF CurrentLive
<1> QED  BY <1>7, <1>8, <1>9, <1>10 DEF JobInv

\* Storing a future job under an unknown id keeps the invariant.
LEMMA FutureStep ==
    ASSUME JobInv, NEW id \in JobIds, id \notin Known,
           jobs' = [jobs EXCEPT ![id] = [kind |-> "future", generation |-> 0]],
           UNCHANGED <<phase, previous, generation, epoch, current, issued>>
    PROVE  JobInv'
<1>0. JobTypes /\ Numbered /\ EpochIsTip /\ CurrentLive
  BY DEF JobInv
<1>1. jobs' \in [JobIds -> Stored]
  <2>1. [kind |-> "future", generation |-> 0] \in Stored
    BY Sv2Assumption DEF Stored
  <2> QED  BY <1>0, <2>1 DEF JobTypes
<1>2. \A k \in JobIds : jobs[k].kind = "active" => jobs'[k] = jobs[k]
  BY <1>0 DEF JobTypes, Known
<1>3. \A j \in issued : j.wire_job \in JobIds
  BY <1>0 DEF JobTypes, Jobs
<1>4. CurrentLive'
  BY <1>0, <1>2, <1>3 DEF CurrentLive
<1> QED  BY <1>0, <1>1, <1>4 DEF JobInv, JobTypes, Numbered, EpochIsTip

\* Every step keeps the invariant.
LEMMA JobInvStep == JobInv /\ [Next]_vars => JobInv'
<1> SUFFICES ASSUME JobInv, [Next]_vars PROVE JobInv'
  OBVIOUS
<1>1. CASE UNCHANGED vars
  BY <1>1, JobVarsUnchanged DEF vars
<1>2. CASE Handshake \/ HandshakeRefused \/ Return
  BY <1>2, JobVarsUnchanged DEF Handshake, HandshakeRefused, Return, Fail
<1>3. ASSUME NEW j \in issued, submit(j)
      PROVE  JobInv'
  BY <1>3, JobVarsUnchanged DEF submit, Fail
<1>4. ASSUME NEW m \in Messages, Within(m), Receive(m)
      PROVE  JobInv'
  <2>1. CASE ~Require(m) /\ Fail
    BY <2>1, JobVarsUnchanged DEF Fail
  <2>2. CASE Require(m) /\ Handle(m)
    <3>1. CASE SetupSuccess(m)
      <4>1. phase = 1
        BY <2>2, <3>1 DEF Require, SetupSuccess
      <4> QED  BY <3>1, <4>1, JobVarsUnchanged DEF SetupSuccess
    <3>2. CASE OpenSuccess(m)
      <4>1. phase = 2
        BY <2>2, <3>2 DEF Require, OpenSuccess
      <4> QED  BY <3>2, <4>1, JobVarsUnchanged DEF OpenSuccess
    <3>3. CASE NewJob(m)
      <4>1. /\ m.type = "NewJob" /\ m.job \in JobIds
            /\ phase = 3 /\ m.job \notin Known
            /\ m.now => previous # NoHash
            /\ generation < MaxGen
        BY <1>4, <2>2, <3>3 DEF Require, NewJob, Messages, Within
      <4>2. CASE m.now
        <5>1. activate(m.job, jobs, previous, epoch)
          BY <3>3, <4>2 DEF NewJob
        <5>2. /\ previous \in Hashes /\ epoch \in Nat /\ jobs \in [JobIds -> Stored]
          BY <4>1, <4>2 DEF JobInv, JobTypes
        <5>3. epoch' = epoch /\ previous' = previous /\ phase' = 3
          BY <3>3, <4>1 DEF NewJob
        <5> QED  BY <4>1, <5>1, <5>2, <5>3, ActivateStep
      <4>3. CASE ~m.now
        BY <3>3, <4>1, <4>3, FutureStep DEF NewJob
      <4> QED  BY <4>2, <4>3
    <3>4. CASE PrevHash(m)
      <4>1. /\ m.type = "PrevHash" /\ m.job \in JobIds /\ m.hash \in Hashes
            /\ phase = 3 /\ generation < MaxGen
        BY <1>4, <2>2, <3>4 DEF Require, PrevHash, Messages, Within
      <4>2. [id \in JobIds |-> Absent] \in [JobIds -> Stored]
        BY Sv2Assumption DEF Absent, Stored
      <4>3. epoch + 1 \in Nat
        BY DEF JobInv, JobTypes
      <4>4. /\ activate(m.job, [id \in JobIds |-> Absent], m.hash, epoch + 1)
            /\ epoch' = epoch + 1 /\ previous' = m.hash /\ phase' = 3
        BY <3>4, <4>1 DEF PrevHash
      <4> QED  BY <4>1, <4>2, <4>3, <4>4, ActivateStep
    <3>5. CASE Target(m) \/ Accepted(m) \/ Rejected(m)
      BY <3>5, JobVarsUnchanged DEF Target, Accepted, Rejected
    <3> QED  BY <2>2, <3>1, <3>2, <3>3, <3>4, <3>5 DEF Handle
  <2> QED  BY <1>4, <2>1, <2>2 DEF Receive
<1> QED  BY <1>1, <1>2, <1>3, <1>4 DEF Next

\* The invariant holds in every reachable state.
THEOREM JobInvariance == Spec => []JobInv
<1>1. Init => JobInv
  <2> SUFFICES ASSUME Init PROVE JobInv
    OBVIOUS
  <2>1. 0 \in 0 .. MaxGen /\ 0 \in Nat /\ 0 <= 0
    BY Sv2Assumption
  <2>2. jobs \in [JobIds -> Stored]
    BY <2>1 DEF Init, Absent, Stored
  <2>3. JobTypes
    BY <2>1, <2>2 DEF Init, JobTypes
  <2> QED  BY <2>3 DEF Init, JobInv, Numbered, EpochIsTip, CurrentLive
<1> QED  BY <1>1, JobInvStep, PTL DEF Spec

\* Shares are only submitted for the chain tip.
THEOREM SubmitsBuildOnTip == Spec => []ValidBuildsOnTip
<1>1. JobInv => ValidBuildsOnTip
  BY DEF JobInv, EpochIsTip, ValidBuildsOnTip, valid
<1> QED  BY <1>1, JobInvariance, PTL

\* Of the jobs issued under one wire id at most one is valid.
THEOREM OneLiveHeaderPerId == Spec => []OneValidJobPerId
<1>1. JobInv => OneValidJobPerId
  BY DEF JobInv, Numbered, OneValidJobPerId, valid
<1> QED  BY <1>1, JobInvariance, PTL

\* The devices never work on a job whose shares would be dropped.
THEOREM WorkIsSubmittable == Spec => []CurrentIsValid
<1>1. JobInv => CurrentIsValid
  BY DEF JobInv, CurrentLive, CurrentIsValid, valid
<1> QED  BY <1>1, JobInvariance, PTL

-----------------------------------------------------------------------------
(* The share half: what settle() may do to the tables, and the ledger       *)

Batches == [last : Seqs, count : 1 .. MaxPending]

\* The types of the share half; ids in it have been submitted.
ShareTypes ==
    /\ last_sent \in 0 .. MaxSeq
    /\ last_ack \in 0 .. last_sent
    /\ failed \in BOOLEAN
    /\ pending \subseteq 1 .. last_sent
    /\ batches \in Seq(Batches)
    /\ out \subseteq [id : 1 .. last_sent, verdict : Verdicts]
    /\ told \subseteq [id : 1 .. last_sent, verdict : Verdicts]
    /\ credits \in Nat

\* A share is pending or has one verdict, and it is reported once.
OneVerdict ==
    /\ \A r \in out \cup told : r.id \notin pending
    /\ \A r, q \in out \cup told : r.id = q.id => r = q
    /\ out \cap told = {}

\* Acceptances, and the batches that wait, are at or below last_ack.
AckBound ==
    /\ \A r \in out \cup told : r.verdict = "accepted" => r.id <= last_ack
    /\ \A i \in 1 .. Len(batches) : batches[i].last <= last_ack

ShareInv == ShareTypes /\ OneVerdict /\ AckBound

\* A set of naturals that is not empty has a least element: the form in which
\* the induction below is carried out.
LEMMA LeastElement ==
    ASSUME NEW T \in SUBSET Nat, T # {}
    PROVE  \E x \in T : \A y \in T : x <= y
<1> DEFINE R == OpToRel(<, Nat)
<1>1. IsWellFoundedOn(R, Nat)
  BY NatLessThanWellFounded
<1>2. \A a, b \in Nat : <<a, b>> \in R <=> a < b
  BY DEF OpToRel
<1> HIDE DEF R
<1>3. PICK x \in T : \A y \in T : ~ (<<y, x>> \in R)
  BY <1>1, WFMin
<1>4. ASSUME NEW y \in T PROVE x <= y
  <2>1. x \in Nat /\ y \in Nat
    OBVIOUS
  <2>2. ~ (<<y, x>> \in R)
    BY <1>3
  <2>3. ~ (y < x)
    BY <1>2, <2>1, <2>2, Zenon
  <2> QED  BY <2>1, <2>3
<1> QED  BY <1>4

\* The batches settled are a first part of the queue.
LEMMA SettledPrefix ==
    ASSUME NEW P, NEW S, NEW B \in Seq(S)
    PROVE  \E k \in 0 .. Len(B) : /\ SettledBatches(P, B) = 1 .. k
                                  /\ Cardinality(SettledBatches(P, B)) = k
<1> DEFINE D == SettledBatches(P, B)
<1>1. Len(B) \in Nat
  OBVIOUS
<1>2. D \subseteq 1 .. Len(B) /\ \A i \in D : \A k \in 1 .. i : k \in D
  BY <1>1 DEF SettledBatches
<1> HIDE DEF D
<1>3. \E k \in 0 .. Len(B) : D = 1 .. k
  <2>1. CASE D = 1 .. Len(B)
    BY <1>1, <2>1
  <2>2. CASE D # 1 .. Len(B)
    <3> DEFINE T == (1 .. Len(B)) \ D
    <3>1. T \in SUBSET Nat /\ T # {}
      <4>1. T \subseteq Nat
        BY <1>1
      <4>2. T = {} => 1 .. Len(B) \subseteq D
        OBVIOUS
      <4> QED  BY <1>2, <2>2, <4>1, <4>2
    <3>2. PICK x \in T : \A y \in T : x <= y
      BY <3>1, LeastElement
    <3>3. x \in 1 .. Len(B) /\ x - 1 \in 0 .. Len(B)
      BY <1>1
    <3>4. ASSUME NEW i \in 1 .. x - 1 PROVE i \in D
      BY <1>1, <3>2, <3>3
    <3>5. ASSUME NEW i \in D PROVE i \in 1 .. x - 1
      <4>1. i \in 1 .. Len(B) /\ x \notin D
        BY <1>2
      <4>2. ~ (x \in 1 .. i)
        BY <1>2, <4>1
      <4> QED  BY <1>1, <3>3, <4>1, <4>2
    <3> QED  BY <3>3, <3>4, <3>5
  <2> QED  BY <2>1, <2>2
<1>4. PICK k \in 0 .. Len(B) : D = 1 .. k
  BY <1>3
<1>5. Cardinality(1 .. k) = k
  BY <1>1, FS_Interval
<1> QED  BY <1>4, <1>5 DEF D

\* settle() takes shares out of the table and batches out of the queue.
LEMMA SettleRemoves ==
    ASSUME NEW P, NEW S, NEW B \in Seq(S)
    PROVE  /\ SettledShares(P, B) \subseteq P
           /\ \A s \in SettledShares(P, B) : \E i \in 1 .. Len(B) : s <= B[i].last
           /\ RemainingBatches(P, B) \in Seq(S)
           /\ \A i \in 1 .. Len(RemainingBatches(P, B)) :
                 \E k \in 1 .. Len(B) : RemainingBatches(P, B)[i] = B[k]
<1>1. PICK k \in 0 .. Len(B) : /\ SettledBatches(P, B) = 1 .. k
                               /\ Cardinality(SettledBatches(P, B)) = k
  BY SettledPrefix
<1>2. RemainingBatches(P, B) = SubSeq(B, k + 1, Len(B))
  BY <1>1 DEF RemainingBatches
<1>3. /\ RemainingBatches(P, B) \in Seq(S)
      /\ Len(RemainingBatches(P, B)) = Len(B) - k
      /\ \A i \in 1 .. Len(B) - k : RemainingBatches(P, B)[i] = B[i + k]
  BY <1>2
<1>4. \A i \in SettledBatches(P, B) : i \in 1 .. Len(B)
  BY DEF SettledBatches
<1>5. \A i : Covered(P, B, i) \subseteq P /\ \A s \in Covered(P, B, i) : s <= B[i].last
  BY DEF Covered
<1>6. /\ SettledShares(P, B) \subseteq P
      /\ \A s \in SettledShares(P, B) : \E i \in 1 .. Len(B) : s <= B[i].last
  BY <1>4, <1>5 DEF SettledShares
<1>7. ASSUME NEW i \in 1 .. Len(RemainingBatches(P, B))
      PROVE  \E n \in 1 .. Len(B) : RemainingBatches(P, B)[i] = B[n]
  <2>1. i + k \in 1 .. Len(B) /\ RemainingBatches(P, B)[i] = B[i + k]
    BY <1>3
  <2> QED  BY <2>1
<1> QED  BY <1>3, <1>6, <1>7

\* Settling shares of P and recording them as accepted keeps the share half:
\* results are verdicts of shares that have just left the table.
LEMMA SettleKeeps ==
    ASSUME ShareInv, NEW P, NEW B \in Seq(Batches), NEW results,
           settle(P, B, results), last_sent' = last_sent, failed' = failed, told' = told,
           credits' \in Nat, last_ack' \in last_ack .. last_sent,
           P \subseteq pending,
           results \subseteq [id : pending \ P, verdict : Verdicts \ {"accepted"}],
           \A r, q \in results : r = q,
           \A i \in 1 .. Len(B) : B[i].last <= last_ack'
    PROVE  ShareInv'
<1> DEFINE SS == SettledShares(P, B)
           new == [id : SS, verdict : {"accepted"}]
<1>1. /\ SS \subseteq P
      /\ \A s \in SS : \E i \in 1 .. Len(B) : s <= B[i].last
      /\ RemainingBatches(P, B) \in Seq(Batches)
      /\ \A i \in 1 .. Len(RemainingBatches(P, B)) :
            \E k \in 1 .. Len(B) : RemainingBatches(P, B)[i] = B[k]
  BY SettleRemoves
<1>2. /\ pending' = P \ SS
      /\ batches' = RemainingBatches(P, B)
      /\ out' = out \cup results \cup new
  BY DEF settle
<1>3. /\ last_sent \in Nat /\ last_ack \in Nat /\ last_ack' \in Nat
      /\ last_ack <= last_ack' /\ last_ack' <= last_sent
      /\ pending \subseteq 1 .. last_sent
  BY Sv2Assumption DEF ShareInv, ShareTypes
<1>4. \A s \in SS : s <= last_ack'
  <2> SUFFICES ASSUME NEW s \in SS PROVE s <= last_ack'
    OBVIOUS
  <2>1. PICK i \in 1 .. Len(B) : s <= B[i].last
    BY <1>1
  <2>2. B[i].last \in Nat /\ s \in Nat /\ B[i].last <= last_ack'
    <3>1. B[i] \in Batches
      OBVIOUS
    <3>2. B[i].last \in Nat
      BY <3>1, Sv2Assumption DEF Batches, Seqs
    <3>3. s \in 1 .. last_sent
      BY <1>1, <1>3
    <3> QED  BY <3>2, <3>3
  <2> QED  BY <1>3, <2>1, <2>2
<1>5. "accepted" \in Verdicts
  BY DEF Verdicts
<1> HIDE DEF SS
<1>6. /\ \A r \in new : r.id \in SS /\ r.verdict = "accepted"
      /\ \A r, q \in new : r.id = q.id => r = q
      /\ new \subseteq [id : pending, verdict : Verdicts]
  BY <1>1, <1>5
<1>7. /\ \A r \in results : r.id \in pending /\ r.id \notin P /\ r.verdict # "accepted"
      /\ results \subseteq [id : pending, verdict : Verdicts]
  OBVIOUS
<1>8. /\ \A r \in out \cup told : r.id \notin pending
      /\ \A r, q \in out \cup told : r.id = q.id => r = q
      /\ out \cap told = {}
      /\ \A r \in out \cup told : r.verdict = "accepted" => r.id <= last_ack
      /\ out \subseteq [id : 1 .. last_sent, verdict : Verdicts]
      /\ told \subseteq [id : 1 .. last_sent, verdict : Verdicts]
  BY DEF ShareInv, ShareTypes, OneVerdict, AckBound
<1> HIDE DEF new
<1>9. ShareTypes'
  <2>1. /\ new \subseteq [id : 1 .. last_sent, verdict : Verdicts]
        /\ results \subseteq [id : 1 .. last_sent, verdict : Verdicts]
    BY <1>3, <1>6, <1>7
  <2>2. out' \subseteq [id : 1 .. last_sent, verdict : Verdicts]
    BY <1>2, <1>8, <2>1
  <2>3. pending' \subseteq 1 .. last_sent
    BY <1>2, <1>3
  <2>4. last_ack' \in 0 .. last_sent
    BY <1>3
  <2> QED  BY <1>1, <1>2, <1>8, <2>2, <2>3, <2>4 DEF ShareInv, ShareTypes
<1>10. OneVerdict'
  <2>1. \A r \in new \cup results : r.id \in pending /\ r.id \notin pending'
    BY <1>1, <1>2, <1>6, <1>7
  <2>2. \A r \in new, q \in results : r.id # q.id
    BY <1>1, <1>6, <1>7
  <2>3. \A r, q \in new \cup results : r.id = q.id => r = q
    BY <1>6, <2>2
  <2>4. out' \cup told' = (out \cup told) \cup (new \cup results)
    BY <1>2
  <2>5. \A r \in out \cup told : \A q \in new \cup results : r.id # q.id
    BY <1>8, <2>1
  <2>6. \A r \in out' \cup told' : r.id \notin pending'
    BY <1>1, <1>2, <1>8, <2>1, <2>4
  <2>7. \A r, q \in out' \cup told' : r.id = q.id => r = q
    BY <1>8, <2>3, <2>4, <2>5
  <2>8. out' \cap told' = {}
    BY <1>2, <1>8, <2>5
  <2> QED  BY <2>6, <2>7, <2>8 DEF OneVerdict
<1>11. AckBound'
  <2>1. \A r \in out' \cup told' : r.verdict = "accepted" => r.id <= last_ack'
    <3>1. \A r \in out \cup told : r.id \in Nat
      BY <1>3, <1>8
    <3>2. \A r \in out \cup told : r.verdict = "accepted" => r.id <= last_ack'
      BY <1>3, <1>8, <3>1
    <3> QED  BY <1>2, <1>4, <1>6, <1>7, <3>2
  <2> QED  BY <1>1, <1>2, <2>1 DEF AckBound
<1> QED  BY <1>9, <1>10, <1>11 DEF ShareInv

\* A step that leaves the share half alone, or reports or drops results.
LEMMA ShareVarsUnchanged ==
    ASSUME ShareInv, UNCHANGED shareVars, failed' \in BOOLEAN,
           \/ out' = out /\ told' = told
           \/ out' = {} /\ told' = told
           \/ out' = {} /\ told' = told \cup out
    PROVE  ShareInv'
<1>1. UNCHANGED <<pending, batches, last_ack, last_sent, credits>>
  BY DEF shareVars
<1>2. ShareTypes'
  BY <1>1 DEF ShareInv, ShareTypes
<1>3. OneVerdict'
  BY <1>1 DEF ShareInv, OneVerdict
<1>4. AckBound'
  BY <1>1 DEF ShareInv, AckBound
<1> QED  BY <1>2, <1>3, <1>4 DEF ShareInv

\* A submit keeps the share half.
LEMMA ShareSubmit ==
    ASSUME ShareInv, NEW j, submit(j)
    PROVE  ShareInv'
<1>1. CASE Fail
  BY <1>1, ShareVarsUnchanged DEF Fail
<1>2. CASE /\ last_sent < MaxSeq
           /\ pending' = pending \cup {last_sent + 1}
           /\ last_sent' = last_sent + 1
           /\ UNCHANGED <<batches, last_ack, credits, out, failed, told>>
  <2>1. last_sent \in 0 .. MaxSeq /\ last_ack \in 0 .. last_sent
    BY DEF ShareInv, ShareTypes
  <2>2. /\ last_sent' \in 0 .. MaxSeq /\ last_ack' \in 0 .. last_sent'
        /\ 1 .. last_sent \subseteq 1 .. last_sent' /\ last_sent' \notin 1 .. last_sent
        /\ last_sent' \in 1 .. last_sent'
    BY <1>2, <2>1, Sv2Assumption
  <2>3. ShareTypes'
    <3>1. [id : 1 .. last_sent, verdict : Verdicts]
            \subseteq [id : 1 .. last_sent', verdict : Verdicts]
      BY <2>2
    <3> QED  BY <1>2, <2>2, <3>1 DEF ShareInv, ShareTypes
  <2>4. \A r \in out \cup told : r.id # last_sent'
    BY <2>2 DEF ShareInv, ShareTypes
  <2>5. OneVerdict' /\ AckBound'
    BY <1>2, <2>4 DEF ShareInv, OneVerdict, AckBound
  <2> QED  BY <2>3, <2>5 DEF ShareInv
<1> QED  BY <1>1, <1>2 DEF submit

\* One frame, whatever it holds, keeps the share half.
LEMMA ShareReceive ==
    ASSUME ShareInv, NEW m, Receive(m)
    PROVE  ShareInv'
<1>0. failed \in BOOLEAN
  BY DEF ShareInv, ShareTypes
<1>1. CASE ~Require(m) /\ Fail
  BY <1>1, ShareVarsUnchanged DEF Fail
<1>2. CASE Require(m) /\ Handle(m) /\ UNCHANGED <<failed, told>>
  <2>1. CASE SetupSuccess(m) \/ OpenSuccess(m) \/ NewJob(m) \/ PrevHash(m) \/ Target(m)
    BY <1>0, <1>2, <2>1, ShareVarsUnchanged
       DEF SetupSuccess, OpenSuccess, NewJob, PrevHash, Target
  <2>2. CASE Accepted(m)
    <3> DEFINE b == [last |-> m.last, count |-> m.count]
               B == Append(batches, b)
    <3>1. /\ m.type = "Accepted" /\ m.last \in pending /\ m.count \in 1 .. MaxPending
          /\ m.last > last_ack /\ m.last <= last_sent
      BY <1>0, <1>2, <2>2 DEF Require, Accepted
    <3>2. /\ last_sent \in Nat /\ last_ack \in Nat /\ credits \in Nat
          /\ batches \in Seq(Batches)
      BY Sv2Assumption DEF ShareInv, ShareTypes
    <3>3. m.last \in Nat /\ m.count \in Nat /\ b \in Batches
      <4>1. m.last \in Seqs
        <5>1. m.last \in 1 .. last_sent /\ last_sent \in 0 .. MaxSeq
          BY <3>1 DEF ShareInv, ShareTypes
        <5> QED  BY <5>1, Sv2Assumption DEF Seqs
      <4> QED  BY <3>1, <4>1, Sv2Assumption DEF Batches, Seqs
    <3>4. /\ B \in Seq(Batches) /\ Len(B) = Len(batches) + 1
          /\ \A i \in 1 .. Len(batches) : B[i] = batches[i]
          /\ B[Len(batches) + 1] = b
      BY <3>2, <3>3
    <3>5. \A i \in 1 .. Len(B) : B[i].last <= m.last
      <4> SUFFICES ASSUME NEW i \in 1 .. Len(B) PROVE B[i].last <= m.last
        OBVIOUS
      <4>1. CASE i \in 1 .. Len(batches)
        <5>1. batches[i] \in Batches
          BY <3>2, <4>1
        <5>2. batches[i].last \in Nat
          BY <5>1, Sv2Assumption DEF Batches, Seqs
        <5>3. batches[i].last <= last_ack
          BY <4>1 DEF ShareInv, AckBound
        <5> QED  BY <3>1, <3>2, <3>3, <3>4, <4>1, <5>2, <5>3
      <4>2. CASE i = Len(batches) + 1
        BY <3>3, <3>4, <4>2
      <4> QED  BY <3>2, <3>4, <4>1, <4>2
    <3>6. /\ last_ack' = m.last /\ credits' = credits + m.count
          /\ settle(pending, B, {}) /\ last_sent' = last_sent
      BY <2>2 DEF Accepted
    <3>7. credits' \in Nat /\ last_ack' \in last_ack .. last_sent
      BY <3>1, <3>2, <3>3, <3>6
    <3> HIDE DEF B
    <3> QED  BY <1>2, <3>4, <3>5, <3>6, <3>7, SettleKeeps
  <2>3. CASE Rejected(m)
    <3> DEFINE r == [id |-> m.seq, verdict |-> IF m.stale THEN "stale" ELSE "rejected"]
    <3>1. m.type = "Rejected" /\ m.seq \in pending
      BY <1>2, <2>3 DEF Require, Rejected
    <3>2. /\ settle(pending \ {m.seq}, batches, {r})
          /\ last_ack' = last_ack /\ last_sent' = last_sent /\ credits' = credits
      BY <2>3 DEF Rejected
    <3>3. {r} \subseteq [id : pending \ (pending \ {m.seq}), verdict : Verdicts \ {"accepted"}]
      BY <3>1 DEF Verdicts
    <3>4. /\ batches \in Seq(Batches) /\ credits' \in Nat
          /\ last_ack' \in last_ack .. last_sent
          /\ \A i \in 1 .. Len(batches) : batches[i].last <= last_ack'
      BY <3>2, Sv2Assumption DEF ShareInv, ShareTypes, AckBound
    <3> HIDE DEF r
    <3> QED  BY <1>2, <3>2, <3>3, <3>4, SettleKeeps
  <2> QED  BY <1>2, <2>1, <2>2, <2>3 DEF Handle
<1> QED  BY <1>1, <1>2 DEF Receive

\* Every step keeps the share half.
LEMMA ShareInvStep == ShareInv /\ [Next]_vars => ShareInv'
<1> SUFFICES ASSUME ShareInv, [Next]_vars PROVE ShareInv'
  OBVIOUS
<1>0. failed \in BOOLEAN
  BY DEF ShareInv, ShareTypes
<1>1. CASE UNCHANGED vars
  BY <1>0, <1>1, ShareVarsUnchanged DEF vars
<1>2. CASE Handshake \/ HandshakeRefused \/ Return
  BY <1>0, <1>2, ShareVarsUnchanged DEF Handshake, HandshakeRefused, Return, Fail
<1> QED  BY <1>1, <1>2, ShareSubmit, ShareReceive DEF Next

\* The share half holds in every reachable state.
THEOREM ShareInvariance == Spec => []ShareInv
<1>1. Init => ShareInv
  <2> SUFFICES ASSUME Init PROVE ShareInv
    OBVIOUS
  <2>1. 0 \in 0 .. MaxSeq /\ 0 \in 0 .. 0 /\ <<>> \in Seq(Batches) /\ Len(<<>>) = 0
    BY Sv2Assumption
  <2>2. ShareTypes
    BY <2>1 DEF Init, ShareTypes
  <2> QED  BY <2>1, <2>2 DEF Init, ShareInv, OneVerdict, AckBound
<1> QED  BY <1>1, ShareInvStep, PTL DEF Spec

-----------------------------------------------------------------------------
(* The session implements the share ledger                                  *)

\* What Status() says of a share, case by case: it is a status of the ledger,
\* unsent above last_sent, the verdict once told, else pending or lost.
StatusRight ==
    /\ \A r \in told : /\ r.id \in Seqs /\ r.verdict \in Verdicts
                       /\ ~ (r.id > last_sent)
                       /\ Status(r.id) = r.verdict
    /\ \A s \in Seqs : (\A r \in told : r.id # s) =>
          Status(s) = IF s > last_sent THEN "unsent"
                      ELSE IF failed THEN "lost" ELSE "pending"
    /\ \A s \in Seqs : /\ Status(s) \in {"unsent", "pending", "lost"} \cup Verdicts
                       /\ Status(s) = "unsent" <=> s > last_sent

\* The invariant makes the status of a share what it should be.
LEMMA StatusCases == ShareInv => StatusRight
<1> SUFFICES ASSUME ShareInv PROVE StatusRight
  OBVIOUS
<1>1. /\ last_sent \in 0 .. MaxSeq
      /\ told \subseteq [id : 1 .. last_sent, verdict : Verdicts]
      /\ \A r, q \in told : r.id = q.id => r = q
  BY DEF ShareInv, ShareTypes, OneVerdict
<1>2. \A r \in told : /\ r.id \in 1 .. last_sent /\ r.verdict \in Verdicts
                      /\ r.id \in Seqs /\ ~ (r.id > last_sent)
  BY <1>1, Sv2Assumption DEF Seqs
<1>3. ASSUME NEW r \in told
      PROVE  Status(r.id) = r.verdict
  <2>1. (CHOOSE q \in told : q.id = r.id) = r
    BY <1>1
  <2> QED  BY <2>1 DEF Status
<1>4. \A s \in Seqs : (\A r \in told : r.id # s) =>
         Status(s) = IF s > last_sent THEN "unsent" ELSE IF failed THEN "lost" ELSE "pending"
  BY DEF Status
<1>5. ASSUME NEW s \in Seqs
      PROVE  /\ Status(s) \in {"unsent", "pending", "lost"} \cup Verdicts
             /\ Status(s) = "unsent" <=> s > last_sent
  <2>1. \A v \in Verdicts : v \notin {"unsent", "pending", "lost"}
    BY DEF Verdicts
  <2>2. CASE \E r \in told : r.id = s
    BY <1>2, <1>3, <2>1, <2>2
  <2>3. CASE \A r \in told : r.id # s
    BY <1>4, <2>3
  <2> QED  BY <2>2, <2>3
<1> QED  BY <1>2, <1>3, <1>4, <1>5 DEF StatusRight

\* The session's end closes the ledger: what was pending is lost.
LEMMA FailCloses ==
    ASSUME StatusRight, StatusRight', Fail, ~failed
    PROVE  Ledger!Close
<1>1. told' = told /\ last_sent' = last_sent /\ failed' = TRUE
  BY DEF Fail, shareVars
<1>2. ASSUME NEW s \in Seqs
      PROVE  Status(s)' = IF Status(s) = "pending" THEN "lost" ELSE Status(s)
  <2>1. CASE \E r \in told : r.id = s
    <3>1. Status(s) # "pending"
      BY <2>1 DEF StatusRight, Verdicts
    <3>2. Status(s)' = Status(s)
      BY <1>1, <2>1 DEF Status
    <3> QED  BY <3>1, <3>2
  <2>2. CASE \A r \in told : r.id # s
    BY <1>1, <2>2 DEF Status
  <2> QED  BY <2>1, <2>2
<1>3. Ledger!Pending = {s \in Seqs : Status(s) = "pending"}
  BY DEF Ledger!Pending
<1>4. [s \in Seqs |-> Status(s)]' =
         [s \in Seqs |-> IF s \in Ledger!Pending THEN "lost" ELSE [t \in Seqs |-> Status(t)][s]]
  BY <1>2, <1>3
<1> QED  BY <1>1, <1>4 DEF Ledger!Close

\* Returning the results of a read settles pending shares.
LEMMA ReturnSettles ==
    ASSUME ShareInv, StatusRight, StatusRight', Return
    PROVE  Ledger!Settle
<1>1. /\ ~failed /\ failed' = failed /\ last_sent' = last_sent
      /\ told' = told \cup out
  BY DEF Return, shareVars
<1>2. ASSUME NEW s \in Seqs, Status(s)' # Status(s)
      PROVE  Status(s) = "pending" /\ Status(s)' \in Verdicts
  <2>1. CASE \E r \in told : r.id = s
    <3>1. PICK r \in told : r.id = s
      BY <2>1
    <3>2. Status(s) = r.verdict
      BY <3>1 DEF StatusRight
    <3>3. Status(s)' = r.verdict
      BY <1>1, <3>1 DEF StatusRight
    <3> QED  BY <1>2, <3>2, <3>3
  <2>2. CASE \A r \in told : r.id # s
    <3>1. \E r \in out : r.id = s
      <4> SUFFICES ASSUME \A r \in out : r.id # s PROVE FALSE
        OBVIOUS
      <4>1. \A r \in told' : r.id # s
        BY <1>1, <2>2
      <4>2. Status(s)' = Status(s)
        BY <1>1, <2>2, <4>1 DEF StatusRight
      <4> QED  BY <1>2, <4>2
    <3>2. PICK r \in out : r.id = s
      BY <3>1
    <3>3. Status(s)' = r.verdict /\ r.verdict \in Verdicts /\ ~ (s > last_sent)
      BY <1>1, <3>2 DEF StatusRight
    <3>4. Status(s) = "pending"
      BY <1>1, <2>2, <3>3 DEF StatusRight
    <3> QED  BY <3>3, <3>4
  <2> QED  BY <2>1, <2>2
<1>3. \A s \in Seqs : Status(s)' \in Ledger!Statuses
  BY DEF StatusRight, Ledger!Statuses
<1> QED  BY <1>1, <1>2, <1>3 DEF Ledger!Settle, Ledger!Pending

\* A share that is sent is the first unsent one of the ledger.
LEMMA SubmitSubmits ==
    ASSUME ShareInv, StatusRight, StatusRight', ~failed, last_sent < MaxSeq,
           last_sent' = last_sent + 1, UNCHANGED <<told, failed>>
    PROVE  Ledger!Submit
<1> DEFINE n == last_sent + 1
<1>1. last_sent \in Nat /\ n \in Seqs /\ Seqs \subseteq Nat
  BY Sv2Assumption DEF ShareInv, ShareTypes, Seqs
<1>2. \A t \in Seqs : Status(t) = "unsent" <=> t >= n
  BY <1>1 DEF StatusRight
<1>3. ASSUME NEW t \in Seqs
      PROVE  Status(t)' = IF t = n THEN "pending" ELSE Status(t)
  <2>1. CASE \E r \in told : r.id = t
    <3>1. Status(t)' = Status(t)
      BY <2>1 DEF Status
    <3>2. t # n
      BY <1>1, <2>1 DEF StatusRight
    <3> QED  BY <3>1, <3>2
  <2>2. CASE \A r \in told : r.id # t
    BY <1>1, <2>2 DEF Status
  <2> QED  BY <2>1, <2>2
<1>4. [s \in Seqs |-> Status(s)]' = [[s \in Seqs |-> Status(s)] EXCEPT ![n] = "pending"]
  BY <1>1, <1>3
<1> QED  BY <1>1, <1>2, <1>4 DEF Ledger!Submit

\* Every step of the session is a step of the ledger or leaves it alone.
LEMMA LedgerStep ==
    ASSUME ShareInv, StatusRight, StatusRight', [Next]_vars
    PROVE  [Ledger!Submit \/ Ledger!Settle \/ Ledger!Close]_
               <<[s \in Seqs |-> Status(s)], failed>>
<1>1. CASE UNCHANGED <<told, last_sent, failed>>
  <2>1. \A s \in Seqs : Status(s)' = Status(s)
    BY <1>1 DEF Status
  <2> QED  BY <1>1, <2>1
<1>2. CASE Fail /\ ~failed
  BY <1>2, FailCloses
<1>3. CASE Return
  BY <1>3, ReturnSettles
<1>4. CASE UNCHANGED vars \/ Handshake \/ HandshakeRefused
  BY <1>1, <1>2, <1>4 DEF vars, shareVars, Handshake, HandshakeRefused
<1>5. ASSUME NEW j \in issued, submit(j)
      PROVE  \/ Fail /\ ~failed
             \/ Ledger!Submit
  <2>1. CASE last_sent' = last_sent + 1 /\ UNCHANGED <<told, failed>>
    BY <1>5, <2>1, SubmitSubmits DEF submit
  <2> QED  BY <1>5, <2>1 DEF submit
<1>6. ASSUME NEW m \in Messages, Receive(m)
      PROVE  \/ Fail /\ ~failed
             \/ UNCHANGED <<told, last_sent, failed>>
  <2>1. CASE Handle(m) /\ UNCHANGED <<failed, told>>
    <3>1. last_sent' = last_sent
      BY <2>1 DEF Handle, SetupSuccess, OpenSuccess, NewJob, PrevHash, Target, Accepted,
                  Rejected, shareVars
    <3> QED  BY <2>1, <3>1
  <2> QED  BY <1>6, <2>1 DEF Receive
<1> QED  BY <1>1, <1>2, <1>3, <1>4, <1>5, <1>6 DEF Next

\* The session implements the share ledger: for every pool and every sequence
\* of messages a share goes from unsent to pending to one final verdict, or is
\* lost with the session (sv2_session.cpp:43-59, 128-144, 156-162).
THEOREM SessionIsLedger == Spec => ImplementsLedger
<1>1. Init => Ledger!Init
  <2> SUFFICES ASSUME Init PROVE Ledger!Init
    OBVIOUS
  <2>1. \A s \in Seqs : Status(s) = "unsent"
    BY Sv2Assumption DEF Init, Status, Seqs
  <2> QED  BY <2>1 DEF Init, Ledger!Init
<1> QED  BY <1>1, ShareInvariance, StatusCases, LedgerStep, PTL
         DEF Spec, ImplementsLedger, Ledger!Spec

-----------------------------------------------------------------------------
(* Acceptances add up to what the pool acknowledged                         *)

AcceptedResults(R) == {r \in R : r.verdict = "accepted"}

\* Every acknowledged share is reported, or waits in a batch.
Counted ==
    ~failed => Cardinality(AcceptedResults(out \cup told))
                  + Cardinality(Waiting(batches)) = credits

\* The numbers up to k are k.
LEMMA CountTo == \A k \in Nat : IsFiniteSet(1 .. k) /\ Cardinality(1 .. k) = k
BY FS_Interval

\* Cardinalities of disjoint finite sets add up.
LEMMA DisjointUnion ==
    ASSUME NEW S, NEW T, IsFiniteSet(S), IsFiniteSet(T), S \cap T = {}
    PROVE  /\ IsFiniteSet(S \cup T)
           /\ Cardinality(S \cup T) = Cardinality(S) + Cardinality(T)
<1>1. Cardinality(S) \in Nat /\ Cardinality(T) \in Nat /\ Cardinality(S \cap T) = 0
  BY FS_CardinalityType, FS_EmptySet
<1>2. /\ IsFiniteSet(S \cup T)
      /\ Cardinality(S \cup T) = Cardinality(S) + Cardinality(T) - Cardinality(S \cap T)
  BY FS_Union, Zenon
<1> QED  BY <1>1, <1>2

\* The shares that wait are finitely many.
LEMMA WaitingFinite ==
    ASSUME NEW B \in Seq(Batches)
    PROVE  IsFiniteSet(Waiting(B))
<1>1. IsFiniteSet(1 .. Len(B)) /\ IsFiniteSet(1 .. MaxPending)
  <2>1. Len(B) \in Nat /\ MaxPending \in Nat
    BY Sv2Assumption
  <2> QED  BY <2>1, CountTo
<1>2. IsFiniteSet((1 .. Len(B)) \X (1 .. MaxPending))
  BY <1>1, FS_Product, Zenon
<1>3. Waiting(B) \in SUBSET ((1 .. Len(B)) \X (1 .. MaxPending))
  BY DEF Waiting
<1> QED  BY <1>2, <1>3, FS_Subset, Zenon

\* A new batch waits with all its shares.
LEMMA WaitingAppend ==
    ASSUME NEW B \in Seq(Batches), NEW b \in Batches
    PROVE  Cardinality(Waiting(Append(B, b))) = Cardinality(Waiting(B)) + b.count
<1> DEFINE n == Len(B) + 1
           W == Waiting(B)
           V == Waiting(Append(B, b))
           C == 1 .. b.count
           N == {n} \X C
<1>0. /\ Len(B) \in Nat /\ n \in Nat /\ MaxPending \in Nat
      /\ Len(Append(B, b)) = n /\ Append(B, b)[n] = b
      /\ \A i \in 1 .. Len(B) : Append(B, b)[i] = B[i]
  BY Sv2Assumption
<1>1. b.count \in 1 .. MaxPending /\ b.count \in Nat
  BY <1>0 DEF Batches
<1>2. \A i \in 1 .. Len(B) : B[i].count \in Nat
  <2>1. \A i \in 1 .. Len(B) : B[i] \in Batches
    OBVIOUS
  <2> QED  BY <1>0, <2>1 DEF Batches
<1>3. IsFiniteSet(W)
  BY WaitingFinite
<1>4. IsFiniteSet(N) /\ Cardinality(N) = b.count
  <2>1. IsFiniteSet({n}) /\ Cardinality({n}) = 1
    BY FS_Singleton, Zenon
  <2>2. IsFiniteSet(C) /\ Cardinality(C) = b.count
    BY <1>1, CountTo
  <2>3. IsFiniteSet(N) /\ Cardinality(N) = Cardinality({n}) * Cardinality(C)
    BY <2>1, <2>2, FS_Product, Zenon
  <2> QED  BY <1>1, <2>1, <2>2, <2>3
<1>5. \A w : w \in N <=> w \in (1 .. n) \X (1 .. MaxPending) /\ w[1] = n /\ w[2] <= b.count
  BY <1>0, <1>1
<1>6. V = W \cup N
  <2>1. \A w : w \in V <=> /\ w \in (1 .. n) \X (1 .. MaxPending)
                           /\ w[2] <= Append(B, b)[w[1]].count
    BY <1>0 DEF Waiting
  <2>2. \A w : w \in W <=> /\ w \in (1 .. Len(B)) \X (1 .. MaxPending)
                           /\ w[2] <= B[w[1]].count
    BY DEF Waiting
  <2>3. ASSUME NEW w
        PROVE  w \in V <=> w \in W \/ w \in N
    <3>1. CASE w \in (1 .. n) \X (1 .. MaxPending) /\ w[1] = n
      <4>1. w \notin (1 .. Len(B)) \X (1 .. MaxPending)
        BY <1>0, <3>1
      <4> QED  BY <1>0, <1>5, <2>1, <2>2, <3>1, <4>1
    <3>2. CASE w \in (1 .. n) \X (1 .. MaxPending) /\ w[1] # n
      <4>1. /\ w \in (1 .. Len(B)) \X (1 .. MaxPending)
            /\ Append(B, b)[w[1]] = B[w[1]]
        BY <1>0, <3>2
      <4> QED  BY <1>5, <2>1, <2>2, <3>2, <4>1
    <3>3. CASE w \notin (1 .. n) \X (1 .. MaxPending)
      <4>1. w \notin (1 .. Len(B)) \X (1 .. MaxPending)
        BY <1>0, <3>3
      <4> QED  BY <1>5, <2>1, <2>2, <3>3, <4>1
    <3> QED  BY <3>1, <3>2, <3>3
  <2> QED  BY <2>3
<1>7. W \cap N = {}
  <2>1. \A w \in W : w[1] # n
    BY <1>0 DEF Waiting
  <2> QED  BY <1>5, <2>1
<1> HIDE DEF W, N, V
<1>8. Cardinality(W \cup N) = Cardinality(W) + Cardinality(N)
  BY <1>3, <1>4, <1>7, DisjointUnion
<1> QED  BY <1>4, <1>6, <1>8 DEF W, V

\* A one-to-one correspondence keeps the number of elements.
LEMMA SameSize ==
    ASSUME NEW S, NEW T, IsFiniteSet(S), NEW f \in [S -> T],
           \A a, b \in S : f[a] = f[b] => a = b,
           \A t \in T : \E a \in S : f[a] = t
    PROVE  IsFiniteSet(T) /\ Cardinality(T) = Cardinality(S)
<1>1. f \in Bijection(S, T)
  BY DEF Bijection, Injection, Surjection, IsInjective
<1>2. ExistsBijection(S, T)
  BY <1>1 DEF ExistsBijection
<1> QED  BY <1>2, FS_Bijection

\* The batches that settle() leaves wait as before, under smaller numbers.
LEMMA WaitingLater ==
    ASSUME NEW B \in Seq(Batches), NEW k \in 0 .. Len(B)
    PROVE  Cardinality(Waiting(SubSeq(B, k + 1, Len(B))))
              = Cardinality({w \in Waiting(B) : w[1] > k})
<1> DEFINE R == SubSeq(B, k + 1, Len(B))
           S == Waiting(R)
           T == {w \in Waiting(B) : w[1] > k}
           f == [w \in S |-> <<w[1] + k, w[2]>>]
<1>1. /\ Len(B) \in Nat /\ k \in Nat
      /\ R \in Seq(Batches) /\ Len(R) = Len(B) - k /\ Len(R) \in Nat
      /\ \A i \in 1 .. Len(R) : R[i] = B[i + k]
  OBVIOUS
<1>2. IsFiniteSet(S)
  BY <1>1, WaitingFinite
<1> HIDE DEF R
<1>3. ASSUME NEW w \in S
      PROVE  <<w[1] + k, w[2]>> \in T
  <2>1. /\ w[1] \in 1 .. Len(R) /\ w[2] \in 1 .. MaxPending
        /\ w[2] <= R[w[1]].count
    BY DEF Waiting
  <2>2. w[1] + k \in 1 .. Len(B) /\ w[1] + k > k /\ R[w[1]] = B[w[1] + k]
    BY <1>1, <2>1
  <2> QED  BY <2>1, <2>2 DEF Waiting
<1>4. f \in [S -> T]
  BY <1>3
<1>5. ASSUME NEW a \in S, NEW b \in S, f[a] = f[b]
      PROVE  a = b
  <2>1. /\ a \in Nat \X Nat /\ b \in Nat \X Nat
    BY <1>1, Sv2Assumption DEF Waiting
  <2>2. a[1] + k = b[1] + k /\ a[2] = b[2]
    BY <1>5
  <2> QED  BY <1>1, <2>1, <2>2
<1>6. ASSUME NEW t \in T
      PROVE  \E a \in S : f[a] = t
  <2>1. /\ t \in (1 .. Len(B)) \X (1 .. MaxPending) /\ t[2] <= B[t[1]].count /\ t[1] > k
    BY DEF Waiting
  <2>2. /\ t[1] - k \in 1 .. Len(R) /\ R[t[1] - k] = B[t[1]] /\ (t[1] - k) + k = t[1]
    BY <1>1, <2>1
  <2>3. <<t[1] - k, t[2]>> \in S
    BY <2>1, <2>2 DEF Waiting
  <2>4. f[<<t[1] - k, t[2]>>] = t
    BY <2>1, <2>2, <2>3
  <2> QED  BY <2>3, <2>4
<1> HIDE DEF S, T, f
<1>7. Cardinality(T) = Cardinality(S)
  BY <1>2, <1>4, <1>5, <1>6, SameSize
<1> QED  BY <1>7 DEF S, T, R

\* A batch is settled exactly when the table has as many shares for it as it
\* counts, so the shares settle() takes are those the settled batches count.
LEMMA WaitingSettled ==
    ASSUME NEW P \in SUBSET Nat, IsFiniteSet(P), NEW B \in Seq(Batches),
           NEW k \in 0 .. Len(B), SettledBatches(P, B) = 1 .. k
    PROVE  Cardinality(SettledShares(P, B)) = Cardinality({w \in Waiting(B) : w[1] <= k})
<1> DEFINE C == [i \in 1 .. k |-> Covered(P, B, i)]
           S == {w \in Waiting(B) : w[1] <= k}
           T == SettledShares(P, B)
           h == [i \in 1 .. k |-> CHOOSE g : g \in Bijection(1 .. B[i].count, C[i])]
           f == [w \in S |-> h[w[1]][w[2]]]
<1>1. /\ Len(B) \in Nat /\ k \in Nat /\ 1 .. k \subseteq 1 .. Len(B)
      /\ \A i \in 1 .. Len(B) : /\ B[i] \in Batches
  OBVIOUS
<1>2. \A i \in 1 .. Len(B) : /\ B[i].count \in 1 .. MaxPending /\ B[i].last \in Nat
                             /\ B[i].count \in Nat
  BY <1>1, Sv2Assumption DEF Batches, Seqs
<1>3. ASSUME NEW i \in 1 .. k
      PROVE  h[i] \in Bijection(1 .. B[i].count, C[i])
  <2>1. C[i] \in SUBSET P
    BY DEF Covered
  <2>2. IsFiniteSet(C[i])
    BY <2>1, FS_Subset
  <2>3. Cardinality(Covered(P, B, i)) = B[i].count
    <3>1. i \in SettledBatches(P, B) /\ i \in 1 .. i
      BY <1>1
    <3> QED  BY <3>1 DEF SettledBatches, Complete
  <2>4. ExistsBijection(1 .. Cardinality(C[i]), C[i])
    BY <2>2, FS_CardinalityType
  <2> QED  BY <2>3, <2>4 DEF ExistsBijection
<1> HIDE DEF h, C
<1>4. ASSUME NEW i \in 1 .. k
      PROVE  /\ \A c \in 1 .. B[i].count : h[i][c] \in C[i]
             /\ \A c, d \in 1 .. B[i].count : h[i][c] = h[i][d] => c = d
             /\ \A s \in C[i] : \E c \in 1 .. B[i].count : h[i][c] = s
  <2>1. h[i] \in Bijection(1 .. B[i].count, C[i])
    BY <1>3
  <2> QED  BY <2>1 DEF Bijection, Injection, Surjection, IsInjective
<1>5. \A i, j \in 1 .. k : \A s \in C[i] : s \in C[j] => i = j
  <2> SUFFICES ASSUME NEW i \in 1 .. k, NEW j \in 1 .. k, NEW s \in C[i], s \in C[j], i < j
               PROVE  FALSE
    BY <1>1
  <2>1. s \in Nat /\ s <= B[i].last
    BY DEF Covered, C
  <2>2. s > B[i].last
    <3>1. i \in 1 .. j - 1
      BY <1>1
    <3> QED  BY <3>1 DEF Covered, C
  <2> QED  BY <1>1, <1>2, <2>1, <2>2
<1>6. T = UNION {C[i] : i \in 1 .. k}
  BY DEF SettledShares, C
<1> HIDE DEF T
<1>7. ASSUME NEW w \in S
      PROVE  w[1] \in 1 .. k /\ w[2] \in 1 .. B[w[1]].count /\ w = <<w[1], w[2]>>
  <2>1. /\ w \in (1 .. Len(B)) \X (1 .. MaxPending)
        /\ w[2] <= B[w[1]].count /\ w[1] <= k
    BY DEF Waiting
  <2>2. B[w[1]].count \in Nat /\ w = <<w[1], w[2]>>
    BY <1>2, <2>1
  <2> QED  BY <1>1, <2>1, <2>2
<1>8. ASSUME NEW i \in 1 .. k, NEW c \in 1 .. B[i].count
      PROVE  <<i, c>> \in S
  <2>1. i \in 1 .. Len(B) /\ i <= k /\ B[i].count \in 1 .. MaxPending
    BY <1>1, <1>2
  <2>2. c \in 1 .. MaxPending /\ c <= B[i].count
    BY <2>1, Sv2Assumption
  <2> QED  BY <2>1, <2>2 DEF Waiting
<1>9. IsFiniteSet(S)
  <2>1. S \in SUBSET Waiting(B)
    OBVIOUS
  <2> QED  BY <2>1, WaitingFinite, FS_Subset
<1> HIDE DEF S
<1>10. f \in [S -> T]
  BY <1>4, <1>6, <1>7
<1>11. ASSUME NEW a \in S, NEW b \in S, f[a] = f[b]
       PROVE  a = b
  <2>1. h[a[1]][a[2]] = h[b[1]][b[2]]
    BY <1>11
  <2>2. a[1] = b[1]
    <3>1. h[a[1]][a[2]] \in C[a[1]] /\ h[b[1]][b[2]] \in C[b[1]]
      BY <1>4, <1>7
    <3> QED  BY <1>5, <1>7, <2>1, <3>1
  <2>3. a[2] = b[2]
    BY <1>4, <1>7, <2>1, <2>2
  <2> QED  BY <1>7, <2>2, <2>3
<1>12. ASSUME NEW t \in T
       PROVE  \E a \in S : f[a] = t
  <2>1. PICK i \in 1 .. k : t \in C[i]
    BY <1>6
  <2>2. PICK c \in 1 .. B[i].count : h[i][c] = t
    BY <1>4, <2>1
  <2>3. <<i, c>> \in S /\ f[<<i, c>>] = t
    BY <1>8, <2>2
  <2> QED  BY <2>3
<1> HIDE DEF f
<1>13. Cardinality(T) = Cardinality(S)
  BY <1>9, <1>10, <1>11, <1>12, SameSize
<1> QED  BY <1>13 DEF S, T

\* settle() reports as many acceptances as it takes shares off the batches.
LEMMA SettleCounts ==
    ASSUME NEW P \in SUBSET Nat, IsFiniteSet(P), NEW B \in Seq(Batches)
    PROVE  Cardinality(SettledShares(P, B)) + Cardinality(Waiting(RemainingBatches(P, B)))
              = Cardinality(Waiting(B))
<1> DEFINE W == Waiting(B)
<1>1. PICK k \in 0 .. Len(B) : /\ SettledBatches(P, B) = 1 .. k
                               /\ Cardinality(SettledBatches(P, B)) = k
  BY SettledPrefix
<1> DEFINE Lo == {w \in W : w[1] <= k}
           Hi == {w \in W : w[1] > k}
<1>2. Cardinality(SettledShares(P, B)) = Cardinality(Lo)
  BY <1>1, WaitingSettled
<1>3. Cardinality(Waiting(RemainingBatches(P, B))) = Cardinality(Hi)
  BY <1>1, WaitingLater DEF RemainingBatches
<1>4. IsFiniteSet(W)
  BY WaitingFinite
<1>5. \A w \in W : w[1] \in Nat
  BY DEF Waiting
<1> HIDE DEF W
<1>6. Lo \cap Hi = {} /\ Lo \cup Hi = W
  BY <1>5
<1>7. Lo \in SUBSET W /\ Hi \in SUBSET W
  OBVIOUS
<1>8. IsFiniteSet(Lo) /\ IsFiniteSet(Hi)
  BY <1>4, <1>7, FS_Subset
<1> HIDE DEF Lo, Hi
<1>9. Cardinality(Lo \cup Hi) = Cardinality(Lo) + Cardinality(Hi)
  BY <1>6, <1>8, DisjointUnion
<1> QED  BY <1>2, <1>3, <1>6, <1>9 DEF W

\* The results are finitely many: their ids are different.
LEMMA ResultsFinite ==
    ASSUME ShareInv
    PROVE  /\ IsFiniteSet(AcceptedResults(out \cup told))
           /\ pending \in SUBSET Nat /\ IsFiniteSet(pending)
<1> DEFINE A == AcceptedResults(out \cup told)
           f == [r \in A |-> r.id]
<1>1. /\ last_sent \in Nat /\ pending \in SUBSET (1 .. last_sent)
      /\ out \cup told \subseteq [id : 1 .. last_sent, verdict : Verdicts]
      /\ \A r, q \in out \cup told : r.id = q.id => r = q
  BY Sv2Assumption DEF ShareInv, ShareTypes, OneVerdict
<1>2. IsFiniteSet(1 .. last_sent)
  BY <1>1, CountTo
<1>3. A \subseteq out \cup told
  BY DEF AcceptedResults
<1> HIDE DEF A
<1>4. f \in Injection(A, 1 .. last_sent)
  BY <1>1, <1>3 DEF Injection, IsInjective
<1>5. IsFiniteSet(A)
  BY <1>2, <1>4, FS_Injection
<1>6. IsFiniteSet(pending)
  BY <1>1, <1>2, FS_Subset
<1>7. pending \in SUBSET Nat
  BY <1>1
<1> QED  BY <1>5, <1>6, <1>7 DEF A

\* settle() moves shares from the batches to the acceptances.
LEMMA SettleCounted ==
    ASSUME ShareInv, NEW P \in SUBSET pending, NEW B \in Seq(Batches), NEW results,
           settle(P, B, results), told' = told,
           \A r \in results : r.verdict # "accepted",
           Cardinality(AcceptedResults(out \cup told)) + Cardinality(Waiting(B)) = credits'
    PROVE  Cardinality(AcceptedResults(out' \cup told')) + Cardinality(Waiting(batches'))
              = credits'
<1> DEFINE SS  == SettledShares(P, B)
           new == [id : SS, verdict : {"accepted"}]
           A   == AcceptedResults(out \cup told)
           f   == [s \in SS |-> [id |-> s, verdict |-> "accepted"]]
<1>1. /\ P \in SUBSET Nat /\ IsFiniteSet(P) /\ IsFiniteSet(A)
  BY ResultsFinite, FS_Subset
<1>2. Cardinality(SS) + Cardinality(Waiting(RemainingBatches(P, B))) = Cardinality(Waiting(B))
  BY <1>1, SettleCounts
<1>3. SS \in SUBSET P
  BY SettleRemoves
<1>4. IsFiniteSet(SS)
  BY <1>1, <1>3, FS_Subset
<1>5. /\ batches' = RemainingBatches(P, B)
      /\ out' = out \cup results \cup new
  BY DEF settle
<1> HIDE DEF SS
<1>6. IsFiniteSet(new) /\ Cardinality(new) = Cardinality(SS)
  <2>1. f \in [SS -> new]
    OBVIOUS
  <2>2. \A a, b \in SS : f[a] = f[b] => a = b
    <3>1. \A a \in SS : f[a].id = a
      OBVIOUS
    <3> QED  BY <3>1
  <2>3. \A r \in new : \E a \in SS : f[a] = r
    <3> SUFFICES ASSUME NEW r \in new PROVE \E a \in SS : f[a] = r
      OBVIOUS
    <3>1. r.id \in SS /\ r = [id |-> r.id, verdict |-> "accepted"]
      OBVIOUS
    <3> QED  BY <3>1
  <2> HIDE DEF f, new
  <2> QED  BY <1>4, <2>1, <2>2, <2>3, SameSize
<1>7. \A r \in new : r.id \in pending /\ r.verdict = "accepted"
  BY <1>3
<1> HIDE DEF new
<1>8. AcceptedResults(out' \cup told') = A \cup new
  BY <1>5, <1>7 DEF AcceptedResults
<1>9. A \cap new = {}
  BY <1>7 DEF AcceptedResults, ShareInv, OneVerdict
<1> HIDE DEF A
<1>10. Cardinality(A \cup new) = Cardinality(A) + Cardinality(new)
  BY <1>1, <1>6, <1>9, DisjointUnion
<1>11. /\ Cardinality(A) \in Nat /\ Cardinality(SS) \in Nat
       /\ Cardinality(Waiting(batches')) \in Nat /\ Cardinality(Waiting(B)) \in Nat
  <2>1. batches' \in Seq(Batches)
    BY <1>5, SettleRemoves
  <2> QED  BY <1>1, <1>4, <2>1, WaitingFinite, FS_CardinalityType
<1>12. Cardinality(A) + Cardinality(Waiting(B)) = credits'
  BY DEF A
<1>13. /\ Cardinality(AcceptedResults(out' \cup told')) = Cardinality(A) + Cardinality(SS)
       /\ Cardinality(SS) + Cardinality(Waiting(batches')) = Cardinality(Waiting(B))
  BY <1>2, <1>5, <1>6, <1>8, <1>10
<1> QED  BY <1>11, <1>12, <1>13

\* Every step keeps the count.
LEMMA CountedStep == ShareInv /\ Counted /\ [Next]_vars => Counted'
<1> SUFFICES ASSUME ShareInv, Counted, [Next]_vars, ~failed' PROVE Counted'
  BY DEF Counted
<1>1. ASSUME UNCHANGED <<batches, credits, failed>>, out' \cup told' = out \cup told
      PROVE  Counted'
  BY <1>1 DEF Counted
<1>2. CASE UNCHANGED vars \/ Handshake \/ HandshakeRefused \/ Return
  BY <1>1, <1>2 DEF vars, shareVars, Handshake, HandshakeRefused, Return, Fail
<1>3. ASSUME NEW j \in issued, submit(j)
      PROVE  Counted'
  BY <1>1, <1>3 DEF submit, Fail
<1>4. ASSUME NEW m \in Messages, Receive(m)
      PROVE  Counted'
  <2>1. /\ ~failed /\ Require(m) /\ Handle(m) /\ UNCHANGED <<failed, told>>
    BY <1>4 DEF Receive, Fail
  <2>2. CASE SetupSuccess(m) \/ OpenSuccess(m) \/ NewJob(m) \/ PrevHash(m) \/ Target(m)
    BY <1>1, <2>1, <2>2
       DEF SetupSuccess, OpenSuccess, NewJob, PrevHash, Target, shareVars
  <2>3. CASE Accepted(m)
    <3> DEFINE b == [last |-> m.last, count |-> m.count]
               B == Append(batches, b)
    <3>1. m.type = "Accepted" /\ m.last \in Seqs /\ m.count \in 1 .. MaxPending
      BY <1>4, <2>1, <2>3 DEF Require, Accepted, Messages
    <3>2. b \in Batches /\ b.count = m.count /\ m.count \in Nat
      BY <3>1, Sv2Assumption DEF Batches
    <3>3. batches \in Seq(Batches) /\ credits \in Nat
      BY DEF ShareInv, ShareTypes
    <3> HIDE DEF b
    <3>4. B \in Seq(Batches)
      BY <3>2, <3>3
    <3>5. credits' = credits + m.count /\ settle(pending, B, {})
      BY <2>3 DEF Accepted, b
    <3>6. Cardinality(Waiting(B)) = Cardinality(Waiting(batches)) + m.count
      BY <3>2, <3>3, WaitingAppend
    <3>7. /\ Cardinality(AcceptedResults(out \cup told)) \in Nat
          /\ Cardinality(Waiting(batches)) \in Nat
      BY <3>3, ResultsFinite, WaitingFinite, FS_CardinalityType
    <3>8. Cardinality(AcceptedResults(out \cup told)) + Cardinality(Waiting(batches)) = credits
      BY <2>1 DEF Counted
    <3> HIDE DEF B
    <3>9. Cardinality(AcceptedResults(out \cup told)) + Cardinality(Waiting(B)) = credits'
      BY <3>2, <3>3, <3>5, <3>6, <3>7, <3>8
    <3>10. Cardinality(AcceptedResults(out' \cup told')) + Cardinality(Waiting(batches'))
              = credits'
      <4> DEFINE E == {}
      <4>1. /\ pending \in SUBSET pending /\ \A q \in E : q.verdict # "accepted"
            /\ settle(pending, B, E) /\ told' = told
        BY <2>1, <3>5
      <4> HIDE DEF E
      <4> QED  BY <3>4, <3>9, <4>1, SettleCounted
    <3> QED  BY <3>10 DEF Counted
  <2>4. CASE Rejected(m)
    <3> DEFINE r == [id |-> m.seq, verdict |-> IF m.stale THEN "stale" ELSE "rejected"]
    <3>1. settle(pending \ {m.seq}, batches, {r}) /\ credits' = credits
      BY <2>4 DEF Rejected
    <3>2. \A q \in {r} : q.verdict # "accepted"
      OBVIOUS
    <3>3. batches \in Seq(Batches) /\ pending \ {m.seq} \in SUBSET pending
      BY DEF ShareInv, ShareTypes
    <3>4. Cardinality(AcceptedResults(out \cup told)) + Cardinality(Waiting(batches)) = credits'
      BY <2>1, <3>1 DEF Counted
    <3> HIDE DEF r
    <3>5. Cardinality(AcceptedResults(out' \cup told')) + Cardinality(Waiting(batches'))
             = credits'
      BY <2>1, <3>1, <3>2, <3>3, <3>4, SettleCounted
    <3> QED  BY <3>5 DEF Counted
  <2> QED  BY <2>1, <2>2, <2>3, <2>4 DEF Handle
<1> QED  BY <1>2, <1>3, <1>4 DEF Next

\* Pending responses are never counted as accepted: the shares reported
\* accepted and those of the batches that wait are exactly the ones the pool
\* acknowledged, and all are at or below last_ack (sv2_session.cpp:43-59).
THEOREM AcknowledgedOnly == Spec => []AcceptedAreAcknowledged
<1>1. Init => Counted
  <2> SUFFICES ASSUME Init PROVE Counted
    OBVIOUS
  <2>1. AcceptedResults(out \cup told) = {} /\ credits = 0
    BY DEF Init, AcceptedResults
  <2>2. Waiting(batches) = {}
    <3>1. Len(batches) = 0
      BY DEF Init
    <3>2. 1 .. Len(batches) = {}
      BY <3>1
    <3> QED  BY <3>2 DEF Waiting
  <2> QED  BY <2>1, <2>2, FS_EmptySet DEF Counted
<1>2. ShareInv /\ Counted => AcceptedAreAcknowledged
  BY DEF ShareInv, AckBound, Counted, AcceptedResults, AcceptedAreAcknowledged
<1> QED  BY <1>1, <1>2, CountedStep, ShareInvariance, PTL DEF Spec

-----------------------------------------------------------------------------
(* Part two: the session and a conforming pool *)

\* What a conforming pool sends.
PoolMessages ==
    [type : {"SetupSuccess", "OpenSuccess"}, ok : BOOLEAN]
    \cup [type : {"NewJob"}, channel : Channels, job : JobIds, now : BOOLEAN]
    \cup [type : {"PrevHash"}, channel : Channels, job : JobIds, hash : Hashes, ok : BOOLEAN]
    \cup [type : {"Accepted"}, channel : Channels, last : Seqs, count : Nat]
    \cup [type : {"Rejected"}, channel : Channels, seq : Seqs, stale : BOOLEAN]

ChannelTypes ==
    /\ conforming \in BOOLEAN
    /\ toPool \in Seq([seq : Seqs, job : JobIds])
    /\ toMiner \in Seq(PoolMessages)
    /\ decision \in [Seqs -> Verdicts \cup {"none"}]
    /\ unacked \subseteq Seqs
    /\ unreported \subseteq Seqs
    /\ greeted \in 0 .. 2
    /\ pJobs \subseteq JobIds
    /\ \A j \in issued : j.wire_job \in JobIds

\* Shares the pool has checked.
Checked == last_sent - Len(toPool)

\* The pool checks the shares in the order of their numbers.
InOrder ==
    /\ Len(toPool) <= last_sent
    /\ \A i \in 1 .. Len(toPool) : toPool[i].seq = Checked + i
    /\ \A s \in Seqs : decision[s] = "none" <=> s > Checked

\* Errors say what was decided, and so does what the miner booked.
Truthful ==
    /\ \A r \in out \cup told : r.verdict = decision[r.id]
    /\ \A s \in unreported : decision[s] \in {"rejected", "stale"}
    /\ \A n \in 1 .. Len(toMiner) : toMiner[n].type = "Rejected" =>
          /\ decision[toMiner[n].seq] \in {"rejected", "stale"}
          /\ toMiner[n].stale <=> decision[toMiner[n].seq] = "stale"

\* No share is forgotten.
Accounted == \A s \in 1 .. last_sent : s \in pending \/ \E r \in out \cup told : r.id = s

\* The lasts of the batches in the queue B and of the acknowledgements among
\* the first n - 1 messages of M.
Lasts(B, M, n) ==
    {B[i].last : i \in 1 .. Len(B)}
    \cup {M[k].last : k \in {j \in 1 .. n - 1 : M[j].type = "Accepted"}}

\* The accepted shares of P above all these lasts.
AcceptedAbove(P, D, L) == {s \in P : D[s] = "accepted" /\ \A l \in L : s > l}

UpTo(P, last) == {s \in P : s <= last}

\* An acknowledgement counts the accepted shares between the one before it and
\* its own last; those above all of them the pool has yet to acknowledge.
AcksExact(P, B, M, D, U) ==
    /\ U = AcceptedAbove(P, D, Lasts(B, M, Len(M) + 1))
    /\ \A n \in 1 .. Len(M) : M[n].type = "Accepted" =>
          M[n].count = Cardinality(UpTo(AcceptedAbove(P, D, Lasts(B, M, n)), M[n].last))
    /\ \A i \in 1 .. Len(B) :
          B[i].count = Cardinality({s \in Covered(P, B, i) : D[s] = "accepted"})
    /\ \A l \in Lasts(B, M, Len(M) + 1) : D[l] # "none"

\* Until the session fails its tables agree with the pool's.
InStep ==
    ~failed => Accounted /\ AcksExact(pending, batches, toMiner, decision, unacked)

ChannelInv ==
    /\ ShareInv
    /\ ChannelTypes
    /\ conforming => InOrder /\ Truthful /\ InStep

-----------------------------------------------------------------------------
(* What the operations do to the acknowledgements                           *)

\* What is left in the table after settle() is above all settled batches.
LEMMA SettledAbove ==
    ASSUME NEW P \in SUBSET Nat, NEW B \in Seq(Batches), NEW k \in 0 .. Len(B),
           SettledBatches(P, B) = 1 .. k
    PROVE  \A s \in P : s \notin SettledShares(P, B) <=> \A i \in 1 .. k : s > B[i].last
<1>1. /\ Len(B) \in Nat /\ k \in Nat /\ 1 .. k \subseteq 1 .. Len(B)
      /\ \A i \in 1 .. k : B[i] \in Batches
  OBVIOUS
<1>2. \A i \in 1 .. k : B[i].last \in Nat
  BY <1>1, Sv2Assumption DEF Batches, Seqs
<1>3. \A s : s \in SettledShares(P, B) <=> \E i \in 1 .. k : s \in Covered(P, B, i)
  BY DEF SettledShares
<1>4. ASSUME NEW s \in P, \A i \in 1 .. k : s > B[i].last
      PROVE  s \notin SettledShares(P, B)
  <2>1. \A i \in 1 .. k : ~ (s <= B[i].last)
    BY <1>2, <1>4
  <2> QED  BY <1>3, <2>1 DEF Covered
<1>5. ASSUME NEW s \in P, NEW j \in 1 .. k, ~ (s > B[j].last)
      PROVE  s \in SettledShares(P, B)
  <2> DEFINE T == {i \in 1 .. k : ~ (s > B[i].last)}
  <2>1. T \in SUBSET Nat /\ T # {}
    BY <1>1, <1>5
  <2>2. PICK x \in T : \A y \in T : x <= y
    BY <2>1, LeastElement
  <2>3. x \in 1 .. k /\ s <= B[x].last
    BY <1>2
  <2>4. \A i \in 1 .. x - 1 : s > B[i].last
    <3> SUFFICES ASSUME NEW i \in 1 .. x - 1 PROVE s > B[i].last
      OBVIOUS
    <3>1. i \in 1 .. k /\ ~ (x <= i)
      BY <1>1, <2>3
    <3> QED  BY <2>2, <3>1
  <2>5. s \in Covered(P, B, x)
    BY <2>3, <2>4 DEF Covered
  <2> QED  BY <1>3, <2>3, <2>5
<1> QED  BY <1>4, <1>5

\* settle() keeps the acknowledgements exact, and takes only accepted shares: a
\* batch is complete when nothing but what it counts is left below its last.
LEMMA AcksSettle ==
    ASSUME NEW P \in SUBSET Nat, IsFiniteSet(P), NEW B \in Seq(Batches),
           NEW M, NEW D, NEW U, AcksExact(P, B, M, D, U)
    PROVE  /\ AcksExact(P \ SettledShares(P, B), RemainingBatches(P, B), M, D, U)
           /\ \A s \in SettledShares(P, B) : D[s] = "accepted"
<1> DEFINE SS == SettledShares(P, B)
           Q  == P \ SS
           R  == RemainingBatches(P, B)
<1>1. PICK k \in 0 .. Len(B) : /\ SettledBatches(P, B) = 1 .. k
                               /\ Cardinality(SettledBatches(P, B)) = k
  BY SettledPrefix
<1>2. /\ Len(B) \in Nat /\ k \in Nat
      /\ Len(R) = Len(B) - k /\ Len(R) \in Nat
      /\ \A i \in 1 .. Len(R) : R[i] = B[i + k]
  <2>1. R = SubSeq(B, k + 1, Len(B))
    BY <1>1 DEF RemainingBatches
  <2> HIDE DEF R
  <2> QED  BY <2>1
<1>3. \A s : s \in Q <=> s \in P /\ \A i \in 1 .. k : s > B[i].last
  BY <1>1, SettledAbove
<1> HIDE DEF R
<1>4. \A s \in P : /\ s \in Q
                   /\ \A i \in 1 .. Len(R) : s > R[i].last
                   <=> \A i \in 1 .. Len(B) : s > B[i].last
  <2> SUFFICES ASSUME NEW s \in P
               PROVE  (/\ \A i \in 1 .. k : s > B[i].last
                       /\ \A i \in 1 .. Len(R) : s > R[i].last)
                      <=> \A i \in 1 .. Len(B) : s > B[i].last
    BY <1>3
  <2>1. ASSUME \A i \in 1 .. k : s > B[i].last, \A i \in 1 .. Len(R) : s > R[i].last,
               NEW i \in 1 .. Len(B)
        PROVE  s > B[i].last
    <3>1. CASE i \in 1 .. k
      BY <2>1, <3>1
    <3>2. CASE i \notin 1 .. k
      <4>1. i - k \in 1 .. Len(R) /\ (i - k) + k = i
        BY <1>2, <3>2
      <4>2. R[i - k] = B[i]
        BY <1>2, <4>1
      <4> QED  BY <2>1, <4>1, <4>2
    <3> QED  BY <3>1, <3>2
  <2>2. ASSUME \A i \in 1 .. Len(B) : s > B[i].last
        PROVE  /\ \A i \in 1 .. k : s > B[i].last
               /\ \A i \in 1 .. Len(R) : s > R[i].last
    <3>1. \A i \in 1 .. Len(R) : i + k \in 1 .. Len(B)
      BY <1>2
    <3>2. \A i \in 1 .. k : i \in 1 .. Len(B)
      BY <1>2
    <3> QED  BY <1>2, <2>2, <3>1, <3>2
  <2> QED  BY <2>1, <2>2
<1> HIDE DEF Q
<1>5. ASSUME NEW n
      PROVE  AcceptedAbove(Q, D, Lasts(R, M, n)) = AcceptedAbove(P, D, Lasts(B, M, n))
  <2>0. Q \subseteq P
    BY DEF Q
  <2>1. ASSUME NEW s, NEW C \in Seq(Batches)
        PROVE  (\A l \in Lasts(C, M, n) : s > l) <=>
                  /\ \A i \in 1 .. Len(C) : s > C[i].last
                  /\ \A j \in 1 .. n - 1 : M[j].type = "Accepted" => s > M[j].last
    BY DEF Lasts
  <2>2. R \in Seq(Batches)
    BY SettleRemoves DEF R
  <2> QED  BY <1>4, <2>0, <2>1, <2>2 DEF AcceptedAbove
<1>6. ASSUME NEW i \in 1 .. Len(R)
      PROVE  Covered(Q, R, i) = Covered(P, B, i + k) /\ i + k \in 1 .. Len(B) /\ R[i] = B[i + k]
  <2>1. i + k \in 1 .. Len(B) /\ R[i] = B[i + k]
    BY <1>2
  <2>2. ASSUME NEW s \in P
        PROVE  (s \in Q /\ \A j \in 1 .. i - 1 : s > R[j].last)
                  <=> \A j \in 1 .. (i + k) - 1 : s > B[j].last
    <3>1. ASSUME s \in Q, \A j \in 1 .. i - 1 : s > R[j].last, NEW j \in 1 .. (i + k) - 1
          PROVE  s > B[j].last
      <4>1. CASE j \in 1 .. k
        BY <1>3, <3>1, <4>1
      <4>2. CASE j \notin 1 .. k
        <5>1. j - k \in 1 .. i - 1 /\ j - k \in 1 .. Len(R) /\ (j - k) + k = j
          BY <1>2, <4>2
        <5>2. R[j - k] = B[j]
          BY <1>2, <5>1
        <5> QED  BY <3>1, <5>1, <5>2
      <4> QED  BY <4>1, <4>2
    <3>2. ASSUME \A j \in 1 .. (i + k) - 1 : s > B[j].last
          PROVE  s \in Q /\ \A j \in 1 .. i - 1 : s > R[j].last
      <4>1. \A j \in 1 .. k : j \in 1 .. (i + k) - 1
        BY <1>2
      <4>2. \A j \in 1 .. i - 1 : j + k \in 1 .. (i + k) - 1 /\ j \in 1 .. Len(R)
        BY <1>2
      <4> QED  BY <1>2, <1>3, <3>2, <4>1, <4>2
    <3> QED  BY <3>1, <3>2
  <2>3. Q \subseteq P
    BY DEF Q
  <2> QED  BY <2>1, <2>2, <2>3 DEF Covered
<1>7. AcksExact(Q, R, M, D, U)
  <2>1. Lasts(R, M, Len(M) + 1) \subseteq Lasts(B, M, Len(M) + 1)
    BY <1>6 DEF Lasts
  <2>2. \A n \in 1 .. Len(M) : M[n].type = "Accepted" =>
          M[n].count = Cardinality(UpTo(AcceptedAbove(Q, D, Lasts(R, M, n)), M[n].last))
    BY <1>5 DEF AcksExact
  <2>3. \A i \in 1 .. Len(R) :
          R[i].count = Cardinality({s \in Covered(Q, R, i) : D[s] = "accepted"})
    BY <1>6 DEF AcksExact
  <2>4. U = AcceptedAbove(Q, D, Lasts(R, M, Len(M) + 1))
    BY <1>5 DEF AcksExact
  <2> QED  BY <2>1, <2>2, <2>3, <2>4 DEF AcksExact
<1>8. ASSUME NEW s \in SS PROVE D[s] = "accepted"
  <2>1. PICK i \in 1 .. k : s \in Covered(P, B, i)
    BY <1>1 DEF SettledShares
  <2> DEFINE C == Covered(P, B, i)
             A == {t \in C : D[t] = "accepted"}
  <2>2. i \in 1 .. Len(B) /\ Cardinality(C) = B[i].count
    <3>1. i \in SettledBatches(P, B) /\ i \in 1 .. i
      BY <1>1
    <3> QED  BY <1>2, <3>1 DEF SettledBatches, Complete
  <2>3. B[i].count = Cardinality(A)
    BY <2>2 DEF AcksExact
  <2>4. C \in SUBSET P /\ A \in SUBSET C
    BY DEF Covered
  <2>5. IsFiniteSet(C)
    BY <2>4, FS_Subset
  <2> HIDE DEF C
  <2>6. C = A
    BY <2>2, <2>3, <2>4, <2>5, FS_Subset
  <2> QED  BY <2>1, <2>6 DEF C
<1> QED  BY <1>7, <1>8 DEF Q, R

\* The acknowledgements depend on the accepted shares of the table only.
LEMMA AcksSame ==
    ASSUME NEW P, NEW Q, NEW B, NEW M, NEW D, NEW U, AcksExact(P, B, M, D, U),
           \A s \in P \cup Q : D[s] = "accepted" => s \in P \cap Q
    PROVE  AcksExact(Q, B, M, D, U)
<1>1. \A L : AcceptedAbove(Q, D, L) = AcceptedAbove(P, D, L)
  BY DEF AcceptedAbove
<1>2. \A i : {s \in Covered(Q, B, i) : D[s] = "accepted"}
                = {s \in Covered(P, B, i) : D[s] = "accepted"}
  BY DEF Covered
<1> QED  BY <1>1, <1>2 DEF AcksExact

\* A message that is no acknowledgement is received.
LEMMA AcksSkip ==
    ASSUME NEW P, NEW B, NEW M \in Seq(PoolMessages), NEW D, NEW U,
           AcksExact(P, B, M, D, U), M # <<>>, Head(M).type # "Accepted"
    PROVE  AcksExact(P, B, Tail(M), D, U)
<1> DEFINE T == Tail(M)
<1>1. /\ Len(M) \in Nat \ {0} /\ Len(T) = Len(M) - 1 /\ M[1] = Head(M)
      /\ \A n \in 1 .. Len(T) : T[n] = M[n + 1] /\ n + 1 \in 1 .. Len(M)
  OBVIOUS
<1> HIDE DEF T
<1>2. ASSUME NEW n \in 1 .. Len(M)
      PROVE  Lasts(B, T, n) = Lasts(B, M, n + 1)
  <2>1. ASSUME NEW l
        PROVE  (\E j \in 1 .. n - 1 : T[j].type = "Accepted" /\ l = T[j].last)
                  <=> \E j \in 1 .. n : M[j].type = "Accepted" /\ l = M[j].last
    <3>1. ASSUME NEW j \in 1 .. n - 1, T[j].type = "Accepted", l = T[j].last
          PROVE  \E i \in 1 .. n : M[i].type = "Accepted" /\ l = M[i].last
      <4>1. j + 1 \in 1 .. n /\ T[j] = M[j + 1]
        BY <1>1
      <4> QED  BY <3>1, <4>1
    <3>2. ASSUME NEW j \in 1 .. n, M[j].type = "Accepted", l = M[j].last
          PROVE  \E i \in 1 .. n - 1 : T[i].type = "Accepted" /\ l = T[i].last
      <4>1. j # 1
        BY <1>1, <3>2
      <4>2. j - 1 \in 1 .. n - 1 /\ j - 1 \in 1 .. Len(T) /\ (j - 1) + 1 = j
        BY <1>1, <4>1
      <4>3. T[j - 1] = M[j]
        BY <1>1, <4>2
      <4> QED  BY <3>2, <4>2, <4>3
    <3> QED  BY <3>1, <3>2
  <2>2. (n + 1) - 1 = n
    BY <1>1
  <2>3. \A l : l \in Lasts(B, T, n) <=> l \in Lasts(B, M, n + 1)
    <3> SUFFICES ASSUME NEW l PROVE l \in Lasts(B, T, n) <=> l \in Lasts(B, M, n + 1)
      OBVIOUS
    <3>1. l \in Lasts(B, T, n) <=>
             \/ \E i \in 1 .. Len(B) : l = B[i].last
             \/ \E j \in 1 .. n - 1 : T[j].type = "Accepted" /\ l = T[j].last
      BY DEF Lasts
    <3>2. l \in Lasts(B, M, n + 1) <=>
             \/ \E i \in 1 .. Len(B) : l = B[i].last
             \/ \E j \in 1 .. n : M[j].type = "Accepted" /\ l = M[j].last
      BY <2>2 DEF Lasts
    <3> QED  BY <2>1, <3>1, <3>2
  <2> QED  BY <2>3
<1>3. Lasts(B, T, Len(T) + 1) = Lasts(B, M, Len(M) + 1)
  BY <1>1, <1>2
<1>4. \A n \in 1 .. Len(T) : T[n].type = "Accepted" =>
         T[n].count = Cardinality(UpTo(AcceptedAbove(P, D, Lasts(B, T, n)), T[n].last))
  <2> SUFFICES ASSUME NEW n \in 1 .. Len(T), T[n].type = "Accepted"
               PROVE  T[n].count =
                        Cardinality(UpTo(AcceptedAbove(P, D, Lasts(B, T, n)), T[n].last))
    OBVIOUS
  <2>1. n \in 1 .. Len(M) /\ n + 1 \in 1 .. Len(M) /\ T[n] = M[n + 1]
    BY <1>1
  <2> QED  BY <1>2, <2>1 DEF AcksExact
<1> QED  BY <1>3, <1>4 DEF AcksExact, T

\* An acknowledgement that is received becomes the last batch of the queue.
LEMMA AcksQueue ==
    ASSUME NEW P, NEW B \in Seq(Batches), NEW M \in Seq(PoolMessages), NEW D, NEW U,
           AcksExact(P, B, M, D, U), M # <<>>, Head(M).type = "Accepted",
           NEW b \in Batches, b.last = Head(M).last, b.count = Head(M).count
    PROVE  AcksExact(P, Append(B, b), Tail(M), D, U)
<1> DEFINE T == Tail(M)
           C == Append(B, b)
<1>1. /\ Len(M) \in Nat \ {0} /\ Len(T) = Len(M) - 1 /\ M[1] = Head(M)
      /\ \A n \in 1 .. Len(T) : T[n] = M[n + 1] /\ n + 1 \in 1 .. Len(M)
  OBVIOUS
<1>2. /\ Len(B) \in Nat /\ C \in Seq(Batches) /\ Len(C) = Len(B) + 1
      /\ C[Len(B) + 1] = b /\ \A i \in 1 .. Len(B) : C[i] = B[i]
  OBVIOUS
<1> HIDE DEF T, C
<1>3. ASSUME NEW l, NEW n \in 1 .. Len(M)
      PROVE  l \in Lasts(C, T, n) <=> l \in Lasts(B, M, n + 1)
  <2> DEFINE InB == \E i \in 1 .. Len(B) : l = B[i].last
             InT == \E j \in 1 .. n - 1 : T[j].type = "Accepted" /\ l = T[j].last
  <2>1. (\E i \in 1 .. Len(C) : l = C[i].last) <=> InB \/ l = b.last
    <3>1. ASSUME NEW i \in 1 .. Len(C), l = C[i].last
          PROVE  InB \/ l = b.last
      <4>1. i \in 1 .. Len(B) \/ i = Len(B) + 1
        BY <1>2
      <4> QED  BY <1>2, <3>1, <4>1
    <3>2. Len(B) + 1 \in 1 .. Len(C) /\ \A i \in 1 .. Len(B) : i \in 1 .. Len(C)
      BY <1>2
    <3> QED  BY <1>2, <3>1, <3>2
  <2>2. (\E j \in 1 .. n : M[j].type = "Accepted" /\ l = M[j].last) <=> InT \/ l = b.last
    <3>1. ASSUME NEW j \in 1 .. n, M[j].type = "Accepted", l = M[j].last
          PROVE  InT \/ l = b.last
      <4>1. CASE j = 1
        BY <1>1, <3>1, <4>1
      <4>2. CASE j # 1
        <5>1. j - 1 \in 1 .. n - 1 /\ j - 1 \in 1 .. Len(T) /\ (j - 1) + 1 = j
          BY <1>1, <4>2
        <5>2. T[j - 1] = M[j]
          BY <1>1, <5>1
        <5> QED  BY <3>1, <5>1, <5>2
      <4> QED  BY <4>1, <4>2
    <3>2. ASSUME NEW j \in 1 .. n - 1, T[j].type = "Accepted", l = T[j].last
          PROVE  \E i \in 1 .. n : M[i].type = "Accepted" /\ l = M[i].last
      <4>1. j + 1 \in 1 .. n /\ T[j] = M[j + 1]
        BY <1>1
      <4> QED  BY <3>2, <4>1
    <3>3. 1 \in 1 .. n
      BY <1>1
    <3> QED  BY <1>1, <3>1, <3>2, <3>3
  <2>3. (n + 1) - 1 = n
    BY <1>1
  <2>4. l \in Lasts(C, T, n) <=> (\E i \in 1 .. Len(C) : l = C[i].last) \/ InT
    BY DEF Lasts
  <2>5. l \in Lasts(B, M, n + 1) <=>
           InB \/ \E j \in 1 .. n : M[j].type = "Accepted" /\ l = M[j].last
    BY <2>3 DEF Lasts
  <2> QED  BY <2>1, <2>2, <2>4, <2>5
<1>4. \A n \in 1 .. Len(M) : Lasts(C, T, n) = Lasts(B, M, n + 1)
  BY <1>3
<1>5. Lasts(C, T, Len(T) + 1) = Lasts(B, M, Len(M) + 1)
  BY <1>1, <1>4
<1>6. ASSUME NEW n \in 1 .. Len(T), T[n].type = "Accepted"
      PROVE  T[n].count = Cardinality(UpTo(AcceptedAbove(P, D, Lasts(C, T, n)), T[n].last))
  <2>1. n \in 1 .. Len(M) /\ n + 1 \in 1 .. Len(M) /\ T[n] = M[n + 1]
    BY <1>1
  <2> QED  BY <1>4, <1>6, <2>1 DEF AcksExact
<1>7. ASSUME NEW i \in 1 .. Len(C)
      PROVE  C[i].count = Cardinality({s \in Covered(P, C, i) : D[s] = "accepted"})
  <2>1. CASE i \in 1 .. Len(B)
    <3>1. C[i] = B[i] /\ \A j \in 1 .. i - 1 : C[j] = B[j]
      BY <1>2, <2>1
    <3>2. Covered(P, C, i) = Covered(P, B, i)
      BY <3>1 DEF Covered
    <3> QED  BY <2>1, <3>1, <3>2 DEF AcksExact
  <2>2. CASE i = Len(B) + 1
    <3> DEFINE A == {s \in Covered(P, C, i) : D[s] = "accepted"}
               E == UpTo(AcceptedAbove(P, D, Lasts(B, M, 1)), M[1].last)
    <3>1. 1 \in 1 .. Len(M) /\ 1 .. i - 1 = 1 .. Len(B) /\ 1 .. 1 - 1 = {}
      BY <1>1, <1>2, <2>2
    <3>2. \A s : (\A l \in Lasts(B, M, 1) : s > l) <=> \A j \in 1 .. Len(B) : s > B[j].last
      BY <3>1 DEF Lasts
    <3>3. \A s : s \in A <=> /\ s \in P /\ D[s] = "accepted" /\ s <= b.last
                             /\ \A j \in 1 .. Len(B) : s > B[j].last
      BY <1>2, <2>2, <3>1 DEF Covered
    <3>4. \A s : s \in E <=> /\ s \in P /\ D[s] = "accepted" /\ s <= b.last
                             /\ \A j \in 1 .. Len(B) : s > B[j].last
      BY <1>1, <3>2 DEF UpTo, AcceptedAbove
    <3>5. A = E
      BY <3>3, <3>4
    <3>6. M[1].count = Cardinality(E)
      BY <1>1, <3>1 DEF AcksExact
    <3> HIDE DEF A, E
    <3> QED  BY <1>1, <1>2, <2>2, <3>5, <3>6 DEF A
  <2> QED  BY <1>2, <2>1, <2>2
<1> QED  BY <1>5, <1>6, <1>7 DEF AcksExact, C, T

\* A message behind the others is not among the first n - 1 of them.
LEMMA LastsAppend ==
    ASSUME NEW B, NEW M \in Seq(PoolMessages), NEW m \in PoolMessages
    PROVE  /\ \A n \in 1 .. Len(M) + 1 : Lasts(B, Append(M, m), n) = Lasts(B, M, n)
           /\ Lasts(B, Append(M, m), Len(M) + 2) = Lasts(B, M, Len(M) + 1)
                 \cup IF m.type = "Accepted" THEN {m.last} ELSE {}
<1> DEFINE A == Append(M, m)
<1>1. /\ Len(M) \in Nat /\ A[Len(M) + 1] = m
      /\ \A j \in 1 .. Len(M) : A[j] = M[j]
  OBVIOUS
<1> HIDE DEF A
<1>2. ASSUME NEW n \in 1 .. Len(M) + 1
      PROVE  Lasts(B, A, n) = Lasts(B, M, n)
  <2>1. \A j \in 1 .. n - 1 : A[j] = M[j]
    BY <1>1
  <2> QED  BY <2>1 DEF Lasts
<1>3. \A l : l \in Lasts(B, A, Len(M) + 2) <=>
         l \in Lasts(B, M, Len(M) + 1) \/ (m.type = "Accepted" /\ l = m.last)
  <2> SUFFICES ASSUME NEW l
               PROVE  l \in Lasts(B, A, Len(M) + 2) <=>
                        l \in Lasts(B, M, Len(M) + 1) \/ (m.type = "Accepted" /\ l = m.last)
    OBVIOUS
  <2>1. /\ (Len(M) + 2) - 1 = Len(M) + 1 /\ (Len(M) + 1) - 1 = Len(M)
        /\ \A j \in 1 .. Len(M) + 1 : j \in 1 .. Len(M) \/ j = Len(M) + 1
        /\ Len(M) + 1 \in 1 .. Len(M) + 1
        /\ \A j \in 1 .. Len(M) : j \in 1 .. Len(M) + 1
    BY <1>1
  <2>2. (\E j \in 1 .. Len(M) + 1 : A[j].type = "Accepted" /\ l = A[j].last) <=>
           \/ \E j \in 1 .. Len(M) : M[j].type = "Accepted" /\ l = M[j].last
           \/ m.type = "Accepted" /\ l = m.last
    BY <1>1, <2>1
  <2>3. l \in Lasts(B, A, Len(M) + 2) <=>
           \/ \E i \in 1 .. Len(B) : l = B[i].last
           \/ \E j \in 1 .. Len(M) + 1 : A[j].type = "Accepted" /\ l = A[j].last
    BY <2>1 DEF Lasts
  <2>4. l \in Lasts(B, M, Len(M) + 1) <=>
           \/ \E i \in 1 .. Len(B) : l = B[i].last
           \/ \E j \in 1 .. Len(M) : M[j].type = "Accepted" /\ l = M[j].last
    BY <2>1 DEF Lasts
  <2> QED  BY <2>2, <2>3, <2>4
<1> QED  BY <1>2, <1>3 DEF A

\* The pool sends a message that is no acknowledgement.
LEMMA AcksOther ==
    ASSUME NEW P, NEW B, NEW M \in Seq(PoolMessages), NEW D, NEW U,
           AcksExact(P, B, M, D, U), NEW m \in PoolMessages, m.type # "Accepted"
    PROVE  AcksExact(P, B, Append(M, m), D, U)
<1> DEFINE A == Append(M, m)
<1>1. /\ Len(M) \in Nat /\ Len(A) = Len(M) + 1 /\ A[Len(M) + 1] = m
      /\ \A j \in 1 .. Len(M) : A[j] = M[j]
      /\ Len(A) + 1 = Len(M) + 2
  OBVIOUS
<1>2. /\ \A n \in 1 .. Len(M) + 1 : Lasts(B, A, n) = Lasts(B, M, n)
      /\ Lasts(B, A, Len(A) + 1) = Lasts(B, M, Len(M) + 1)
  <2>1. Lasts(B, A, Len(M) + 2) = Lasts(B, M, Len(M) + 1) \cup {}
    BY LastsAppend
  <2> QED  BY <1>1, <2>1, LastsAppend
<1> HIDE DEF A
<1>3. ASSUME NEW n \in 1 .. Len(A), A[n].type = "Accepted"
      PROVE  A[n].count = Cardinality(UpTo(AcceptedAbove(P, D, Lasts(B, A, n)), A[n].last))
  <2>1. n # Len(M) + 1
    BY <1>1, <1>3
  <2>2. n \in 1 .. Len(M) /\ n \in 1 .. Len(M) + 1
    BY <1>1, <2>1
  <2> QED  BY <1>1, <1>2, <1>3, <2>2 DEF AcksExact
<1> QED  BY <1>2, <1>3 DEF AcksExact, A

\* The pool acknowledges the accepted shares up to one of them.
LEMMA AcksAcknowledge ==
    ASSUME NEW P \in SUBSET Nat, NEW B, NEW M \in Seq(PoolMessages), NEW D, NEW U,
           AcksExact(P, B, M, D, U), NEW x \in U,
           NEW m \in PoolMessages, m.type = "Accepted", m.last = x,
           m.count = Cardinality({s \in U : s <= x})
    PROVE  AcksExact(P, B, Append(M, m), D, {s \in U : s > x})
<1> DEFINE A == Append(M, m)
<1>1. /\ Len(M) \in Nat /\ Len(A) = Len(M) + 1 /\ A[Len(M) + 1] = m
      /\ \A j \in 1 .. Len(M) : A[j] = M[j]
      /\ Len(A) + 1 = Len(M) + 2
  OBVIOUS
<1>2. /\ \A n \in 1 .. Len(M) + 1 : Lasts(B, A, n) = Lasts(B, M, n)
      /\ Lasts(B, A, Len(A) + 1) = Lasts(B, M, Len(M) + 1) \cup {x}
  BY <1>1, LastsAppend
<1> HIDE DEF A
<1>3. U = AcceptedAbove(P, D, Lasts(B, M, Len(M) + 1)) /\ D[x] = "accepted"
  BY DEF AcksExact, AcceptedAbove
<1>4. {s \in U : s > x} = AcceptedAbove(P, D, Lasts(B, A, Len(A) + 1))
  BY <1>2, <1>3 DEF AcceptedAbove
<1>5. ASSUME NEW n \in 1 .. Len(A), A[n].type = "Accepted"
      PROVE  A[n].count = Cardinality(UpTo(AcceptedAbove(P, D, Lasts(B, A, n)), A[n].last))
  <2>1. CASE n = Len(M) + 1
    <3>1. AcceptedAbove(P, D, Lasts(B, A, n)) = U
      BY <1>1, <1>2, <1>3, <2>1
    <3>2. UpTo(AcceptedAbove(P, D, Lasts(B, A, n)), A[n].last) = {s \in U : s <= x}
      BY <1>1, <2>1, <3>1 DEF UpTo
    <3> QED  BY <1>1, <2>1, <3>2
  <2>2. CASE n # Len(M) + 1
    <3>1. n \in 1 .. Len(M) /\ n \in 1 .. Len(M) + 1
      BY <1>1, <2>2
    <3> QED  BY <1>1, <1>2, <1>5, <3>1 DEF AcksExact
  <2> QED  BY <2>1, <2>2
<1>6. \A l \in Lasts(B, A, Len(A) + 1) : D[l] # "none"
  BY <1>2, <1>3 DEF AcksExact
<1> QED  BY <1>4, <1>5, <1>6 DEF AcksExact, A

\* The pool decides a share above everything it has acknowledged.
LEMMA AcksDecide ==
    ASSUME NEW P \in SUBSET Seqs, NEW B \in Seq(Batches), NEW M \in Seq(PoolMessages),
           NEW D \in [Seqs -> Verdicts \cup {"none"}], NEW U,
           AcksExact(P, B, M, D, U), NEW d \in P, D[d] = "none",
           NEW v \in Verdicts, \A l \in Lasts(B, M, Len(M) + 1) : d > l,
           Lasts(B, M, Len(M) + 1) \subseteq Seqs
    PROVE  AcksExact(P, B, M, [D EXCEPT ![d] = v],
                     IF v = "accepted" THEN U \cup {d} ELSE U)
<1> DEFINE E == [D EXCEPT ![d] = v]
           V == IF v = "accepted" THEN U \cup {d} ELSE U
           L == Lasts(B, M, Len(M) + 1)
<1>1. E[d] = v /\ v # "none" /\ \A s \in Seqs : s # d => E[s] = D[s]
  BY DEF Verdicts
<1>2. Len(M) \in Nat /\ Len(B) \in Nat /\ Seqs \subseteq Nat
  BY Sv2Assumption DEF Seqs
<1>3. /\ \A n \in 1 .. Len(M) : M[n].type = "Accepted" => M[n].last \in L
      /\ \A i \in 1 .. Len(B) : B[i].last \in L
  <2>1. \A n \in 1 .. Len(M) : n \in 1 .. (Len(M) + 1) - 1
    BY <1>2
  <2> QED  BY <2>1 DEF Lasts
<1>0. d \in Nat /\ L \subseteq Nat /\ \A l \in L : d > l
  BY <1>2
<1> HIDE DEF E, L
<1>4. \A l \in L : ~ (d <= l) /\ d # l
  BY <1>0
<1>5. V = AcceptedAbove(P, E, L)
  <2>1. U = AcceptedAbove(P, D, L)
    BY DEF AcksExact, L
  <2>2. \A s : s \in AcceptedAbove(P, E, L) <=> s \in V
    <3> SUFFICES ASSUME NEW s \in P PROVE s \in AcceptedAbove(P, E, L) <=> s \in V
      BY <2>1 DEF AcceptedAbove
    <3>1. CASE s = d
      <4>1. s \notin U
        BY <2>1, <3>1 DEF AcceptedAbove
      <4>2. \A l \in L : s > l
        BY <3>1 DEF L
      <4> QED  BY <1>1, <3>1, <4>1, <4>2 DEF AcceptedAbove
    <3>2. CASE s # d
      BY <1>1, <2>1, <3>2 DEF AcceptedAbove
    <3> QED  BY <3>1, <3>2
  <2> QED  BY <2>2
<1>6. ASSUME NEW n \in 1 .. Len(M), M[n].type = "Accepted"
      PROVE  M[n].count = Cardinality(UpTo(AcceptedAbove(P, E, Lasts(B, M, n)), M[n].last))
  <2>1. ~ (d <= M[n].last)
    BY <1>3, <1>4, <1>6
  <2>2. UpTo(AcceptedAbove(P, E, Lasts(B, M, n)), M[n].last)
           = UpTo(AcceptedAbove(P, D, Lasts(B, M, n)), M[n].last)
    BY <1>1, <2>1 DEF UpTo, AcceptedAbove
  <2> QED  BY <1>6, <2>2 DEF AcksExact
<1>7. ASSUME NEW i \in 1 .. Len(B)
      PROVE  B[i].count = Cardinality({s \in Covered(P, B, i) : E[s] = "accepted"})
  <2>1. ~ (d <= B[i].last)
    BY <1>3, <1>4
  <2>2. {s \in Covered(P, B, i) : E[s] = "accepted"}
           = {s \in Covered(P, B, i) : D[s] = "accepted"}
    BY <1>1, <2>1 DEF Covered
  <2> QED  BY <2>2 DEF AcksExact
<1>8. \A l \in L : E[l] # "none"
  BY <1>1, <1>4 DEF AcksExact, L
<1> QED  BY <1>5, <1>6, <1>7, <1>8 DEF AcksExact, E, L

-----------------------------------------------------------------------------
(* The steps of the channel                                                 *)

\* The session's own half of the invariant.
LEMMA ChannelShares == ShareInv /\ [ChannelNext]_allVars => ShareInv'
<1> SUFFICES ASSUME ShareInv, [ChannelNext]_allVars PROVE ShareInv'
  OBVIOUS
<1>0. failed \in BOOLEAN
  BY DEF ShareInv, ShareTypes
<1>1. CASE UNCHANGED vars
  BY <1>0, <1>1, ShareVarsUnchanged DEF vars
<1>2. CASE AnyPool
  BY <1>2, ShareReceive, ShareVarsUnchanged DEF AnyPool, HandshakeRefused, Fail
<1>3. CASE MinerHandshake \/ MinerReturn
  BY <1>0, <1>3, ShareVarsUnchanged DEF MinerHandshake, MinerReturn, Handshake, Return
<1>4. CASE MinerReceive
  BY <1>4, ShareReceive DEF MinerReceive
<1>5. ASSUME NEW j, MinerSubmit(j) PROVE ShareInv'
  BY <1>5, ShareSubmit DEF MinerSubmit
<1> QED  BY <1>1, <1>2, <1>3, <1>4, <1>5 DEF ChannelNext, allVars, Pool

\* Messages name job ids, so the jobs made from them do.
LEMMA IssuedReceive ==
    ASSUME \A j \in issued : j.wire_job \in JobIds, NEW m \in PoolMessages \cup Messages,
           Receive(m)
    PROVE  \A j \in issued' : j.wire_job \in JobIds
<1>1. CASE Fail
  BY <1>1 DEF Fail, jobVars
<1>2. CASE SetupSuccess(m) \/ OpenSuccess(m) \/ Target(m) \/ Accepted(m) \/ Rejected(m)
  BY <1>2 DEF SetupSuccess, OpenSuccess, Target, Accepted, Rejected, jobVars
<1>3. ASSUME m.type \in {"NewJob", "PrevHash"} PROVE m.job \in JobIds
  BY <1>3 DEF PoolMessages, Messages
<1>4. CASE NewJob(m) \/ PrevHash(m)
  BY <1>3, <1>4 DEF NewJob, PrevHash, activate
<1> QED  BY <1>1, <1>2, <1>4 DEF Receive, Handle

\* What a conforming pool sends is one of PoolMessages.
LEMMA PoolSends ==
    ASSUME ChannelTypes
    PROVE  /\ Greet => toMiner' \in Seq(PoolMessages)
           /\ \A id \in PoolJobs, now \in BOOLEAN :
                 OfferJob(id, now) => toMiner' \in Seq(PoolMessages) /\ pJobs' \subseteq JobIds
           /\ \A id \in PoolJobs, h \in PoolHashes :
                 NewTip(id, h) => toMiner' \in Seq(PoolMessages) /\ pJobs' \subseteq JobIds
           /\ PoolAcknowledge => toMiner' \in Seq(PoolMessages)
           /\ PoolReport => toMiner' \in Seq(PoolMessages)
<1>1. ASSUME NEW m \in PoolMessages PROVE Append(toMiner, m) \in Seq(PoolMessages)
  BY DEF ChannelTypes
<1>2. Greet => toMiner' \in Seq(PoolMessages)
  BY <1>1 DEF Greet, Send, PoolMessages
<1>3. ASSUME NEW id \in PoolJobs, NEW now \in BOOLEAN, OfferJob(id, now)
      PROVE  toMiner' \in Seq(PoolMessages) /\ pJobs' \subseteq JobIds
  <2>1. [type |-> "NewJob", channel |-> "own", job |-> id, now |-> now] \in PoolMessages
    BY PoolAssumption DEF PoolMessages, Channels
  <2> QED  BY <1>1, <1>3, <2>1, PoolAssumption DEF OfferJob, Send, ChannelTypes
<1>4. ASSUME NEW id \in PoolJobs, NEW h \in PoolHashes, NewTip(id, h)
      PROVE  toMiner' \in Seq(PoolMessages) /\ pJobs' \subseteq JobIds
  <2>1. [type |-> "PrevHash", channel |-> "group", job |-> id, hash |-> h, ok |-> TRUE]
           \in PoolMessages
    BY PoolAssumption DEF PoolMessages, Channels
  <2> QED  BY <1>1, <1>4, <2>1, PoolAssumption DEF NewTip, Send, ChannelTypes
<1>5. ASSUME NEW x \in unacked, Acknowledge(x) PROVE toMiner' \in Seq(PoolMessages)
  <2>1. IsFiniteSet(Seqs)
    BY FS_Interval, Sv2Assumption DEF Seqs
  <2>2. {s \in unacked : s <= x} \in SUBSET Seqs
    BY DEF ChannelTypes
  <2>3. Cardinality({s \in unacked : s <= x}) \in Nat
    BY <2>1, <2>2, FS_Subset, FS_CardinalityType
  <2>4. [type |-> "Accepted", channel |-> "own", last |-> x,
         count |-> Cardinality({s \in unacked : s <= x})] \in PoolMessages
    BY <2>3 DEF PoolMessages, Channels, ChannelTypes
  <2> QED  BY <1>1, <1>5, <2>4 DEF Acknowledge, Send
<1>6. ASSUME NEW x \in unreported, Report(x) PROVE toMiner' \in Seq(PoolMessages)
  <2>1. [type |-> "Rejected", channel |-> "own", seq |-> x, stale |-> decision[x] = "stale"]
           \in PoolMessages
    BY DEF PoolMessages, Channels, ChannelTypes
  <2> QED  BY <1>1, <1>6, <2>1 DEF Report, Send
<1> QED  BY <1>2, <1>3, <1>4, <1>5, <1>6 DEF PoolAcknowledge, PoolReport

\* The types of the channel.
LEMMA ChannelTypesStep == ShareInv /\ ChannelTypes /\ [ChannelNext]_allVars => ChannelTypes'
<1> SUFFICES ASSUME ShareInv, ChannelTypes, [ChannelNext]_allVars PROVE ChannelTypes'
  OBVIOUS
<1>1. CASE UNCHANGED allVars
  BY <1>1 DEF allVars, vars, jobVars, poolVars, ChannelTypes
<1>2. CASE Pool
  <2>0. issued' = issued /\ conforming' = conforming
    BY <1>2 DEF Pool, vars, jobVars
  <2>1. CASE Greet
    <3>1. greeted' \in 0 .. 2
      BY <2>1 DEF Greet, ChannelTypes
    <3> QED  BY <2>0, <2>1, <3>1, PoolSends DEF Greet, ChannelTypes
  <2>2. ASSUME NEW id \in PoolJobs, NEW now \in BOOLEAN, OfferJob(id, now)
        PROVE  ChannelTypes'
    BY <2>0, <2>2, PoolSends DEF OfferJob, ChannelTypes
  <2>3. ASSUME NEW id \in PoolJobs, NEW h \in PoolHashes, NewTip(id, h)
        PROVE  ChannelTypes'
    BY <2>0, <2>3, PoolSends DEF NewTip, ChannelTypes
  <2>4. CASE Check
    <3>1. /\ Head(toPool) \in [seq : Seqs, job : JobIds]
          /\ toPool' \in Seq([seq : Seqs, job : JobIds])
      <4> DEFINE T == [seq : Seqs, job : JobIds]
      <4>1. toPool \in Seq(T) /\ toPool # <<>> /\ toPool' = Tail(toPool)
        BY <2>4 DEF Check, ChannelTypes
      <4> HIDE DEF T
      <4>2. Head(toPool) \in T /\ toPool' \in Seq(T)
        BY <4>1
      <4> QED  BY <4>2 DEF T
    <3>2. PICK v \in Verdicts :
             /\ decision' = [decision EXCEPT ![Head(toPool).seq] = v]
             /\ unacked' = IF v = "accepted" THEN unacked \cup {Head(toPool).seq} ELSE unacked
             /\ unreported' = IF v = "accepted" THEN unreported
                                                ELSE unreported \cup {Head(toPool).seq}
      BY <2>4 DEF Check, Verdicts
    <3>3. Head(toPool).seq \in Seqs
      BY <3>1
    <3>4. decision' \in [Seqs -> Verdicts \cup {"none"}] /\ unacked' \subseteq Seqs
          /\ unreported' \subseteq Seqs
      BY <3>2, <3>3 DEF ChannelTypes
    <3> QED  BY <2>0, <2>4, <3>1, <3>4 DEF Check, ChannelTypes
  <2>5. CASE PoolAcknowledge
    BY <2>0, <2>5, PoolSends DEF PoolAcknowledge, Acknowledge, ChannelTypes
  <2>6. CASE PoolReport
    BY <2>0, <2>6, PoolSends DEF PoolReport, Report, ChannelTypes
  <2> QED  BY <1>2, <2>1, <2>2, <2>3, <2>4, <2>5, <2>6 DEF Pool
<1>3. CASE AnyPool
  <2>1. \A j \in issued' : j.wire_job \in JobIds
    BY <1>3, IssuedReceive DEF AnyPool, HandshakeRefused, Fail, jobVars, ChannelTypes
  <2> QED  BY <1>3, <2>1 DEF AnyPool, poolVars, ChannelTypes
<1>4. CASE MinerHandshake \/ MinerReturn
  BY <1>4 DEF MinerHandshake, MinerReturn, Handshake, Return, jobVars, poolVars, ChannelTypes
<1>5. CASE MinerReceive
  <2>1. Head(toMiner) \in PoolMessages /\ toMiner' \in Seq(PoolMessages)
    BY <1>5 DEF MinerReceive, ChannelTypes
  <2>2. \A j \in issued' : j.wire_job \in JobIds
    BY <1>5, <2>1, IssuedReceive DEF MinerReceive, ChannelTypes
  <2> QED  BY <1>5, <2>1, <2>2 DEF MinerReceive, ChannelTypes
<1>6. ASSUME NEW j \in issued, MinerSubmit(j) PROVE ChannelTypes'
  <2>1. issued' = issued
    BY <1>6 DEF MinerSubmit, submit, Fail, jobVars
  <2>2. toPool' \in Seq([seq : Seqs, job : JobIds])
    <3>1. CASE conforming /\ ~failed'
      <4>1. last_sent' \in Seqs
        BY <1>6, <3>1, Sv2Assumption DEF MinerSubmit, submit, Fail, ShareInv, ShareTypes, Seqs
      <4>2. [seq |-> last_sent', job |-> j.wire_job] \in [seq : Seqs, job : JobIds]
        BY <4>1 DEF ChannelTypes
      <4> QED  BY <1>6, <3>1, <4>2 DEF MinerSubmit, ChannelTypes
    <3> QED  BY <1>6, <3>1 DEF MinerSubmit, ChannelTypes
  <2> QED  BY <1>6, <2>1, <2>2 DEF MinerSubmit, ChannelTypes
<1> QED  BY <1>1, <1>2, <1>3, <1>4, <1>5, <1>6 DEF ChannelNext

\* A step of a conforming pool that only sends, and sends no acknowledgement.
LEMMA SendKeeps ==
    ASSUME ChannelInv, conforming, ChannelTypes',
           UNCHANGED <<vars, conforming, toPool, decision, unacked>>,
           NEW m, toMiner' = Append(toMiner, m), m.type # "Accepted",
           m.type = "Rejected" => /\ m.seq \in unreported
                                  /\ m.stale <=> decision[m.seq] = "stale",
           unreported' \subseteq unreported
    PROVE  (InOrder /\ Truthful /\ InStep)'
<1>1. /\ UNCHANGED <<pending, batches, last_sent, out, told, failed>>
      /\ UNCHANGED <<toPool, decision, unacked>>
  BY DEF vars, shareVars
<1>2. toMiner \in Seq(PoolMessages) /\ toMiner' \in Seq(PoolMessages)
  BY DEF ChannelInv, ChannelTypes
<1>3. /\ Len(toMiner) \in Nat /\ Len(toMiner') = Len(toMiner) + 1
      /\ toMiner'[Len(toMiner) + 1] = m
      /\ \A i \in 1 .. Len(toMiner) : toMiner'[i] = toMiner[i]
  BY <1>2
<1>4. m \in PoolMessages
  <2>1. Len(toMiner) + 1 \in 1 .. Len(toMiner')
    BY <1>3
  <2>2. toMiner'[Len(toMiner) + 1] \in PoolMessages
    BY <1>2, <2>1
  <2> QED  BY <1>3, <2>2
<1>5. InOrder'
  BY <1>1 DEF ChannelInv, InOrder, Checked
<1>6. Truthful'
  <2>1. ASSUME NEW n \in 1 .. Len(toMiner'), toMiner'[n].type = "Rejected"
        PROVE  /\ decision[toMiner'[n].seq] \in {"rejected", "stale"}
               /\ toMiner'[n].stale <=> decision[toMiner'[n].seq] = "stale"
    <3>1. CASE n = Len(toMiner) + 1
      BY <1>3, <2>1, <3>1 DEF ChannelInv, Truthful
    <3>2. CASE n # Len(toMiner) + 1
      <4>1. n \in 1 .. Len(toMiner)
        BY <1>3, <3>2
      <4> QED  BY <1>3, <2>1, <4>1 DEF ChannelInv, Truthful
    <3> QED  BY <3>1, <3>2
  <2>2. /\ \A r \in (out \cup told)' : r.verdict = decision'[r.id]
        /\ \A s \in unreported' : decision'[s] \in {"rejected", "stale"}
    BY <1>1 DEF ChannelInv, Truthful
  <2> QED  BY <1>1, <2>1, <2>2 DEF Truthful
<1>7. ASSUME ~failed
      PROVE  (Accounted /\ AcksExact(pending, batches, toMiner, decision, unacked))'
  <2>1. Accounted /\ AcksExact(pending, batches, toMiner, decision, unacked)
    BY <1>7 DEF ChannelInv, InStep
  <2>2. Accounted'
    BY <1>1, <2>1 DEF Accounted
  <2>3. AcksExact(pending, batches, Append(toMiner, m), decision, unacked)
    BY <1>2, <1>4, <2>1, AcksOther
  <2> QED  BY <1>1, <2>2, <2>3
<1> QED  BY <1>1, <1>5, <1>6, <1>7 DEF InStep

\* The pool acknowledges shares.
LEMMA AcknowledgeKeeps ==
    ASSUME ChannelInv, conforming, ChannelTypes', UNCHANGED <<vars, conforming>>,
           NEW x \in unacked, Acknowledge(x)
    PROVE  (InOrder /\ Truthful /\ InStep)'
<1> DEFINE m == [type |-> "Accepted", channel |-> "own", last |-> x,
                 count |-> Cardinality({s \in unacked : s <= x})]
<1>1. /\ UNCHANGED <<pending, batches, last_sent, out, told, failed>>
      /\ UNCHANGED <<toPool, decision, unreported>>
      /\ unacked' = {s \in unacked : s > x} /\ toMiner' = Append(toMiner, m)
  BY DEF vars, shareVars, Acknowledge, Send
<1>0. m.type = "Accepted" /\ m.last = x /\ m.count = Cardinality({s \in unacked : s <= x})
  OBVIOUS
<1> HIDE DEF m
<1>2. toMiner \in Seq(PoolMessages) /\ toMiner' \in Seq(PoolMessages)
  BY DEF ChannelInv, ChannelTypes
<1>3. /\ Len(toMiner) \in Nat /\ Len(toMiner') = Len(toMiner) + 1
      /\ toMiner'[Len(toMiner) + 1] = m
      /\ \A i \in 1 .. Len(toMiner) : toMiner'[i] = toMiner[i]
  BY <1>1, <1>2
<1>4. m \in PoolMessages
  <2>1. Len(toMiner) + 1 \in 1 .. Len(toMiner')
    BY <1>3
  <2>2. toMiner'[Len(toMiner) + 1] \in PoolMessages
    BY <1>2, <2>1
  <2> QED  BY <1>3, <2>2
<1>5. InOrder'
  BY <1>1 DEF ChannelInv, InOrder, Checked
<1>6. Truthful'
  <2>1. ASSUME NEW n \in 1 .. Len(toMiner'), toMiner'[n].type = "Rejected"
        PROVE  n \in 1 .. Len(toMiner) /\ toMiner'[n] = toMiner[n]
    <3>1. n # Len(toMiner) + 1
      BY <1>0, <1>3, <2>1
    <3>2. n \in 1 .. Len(toMiner)
      BY <1>3, <3>1
    <3> QED  BY <1>3, <3>2
  <2> QED  BY <1>1, <2>1 DEF ChannelInv, Truthful
<1>7. ASSUME ~failed
      PROVE  (Accounted /\ AcksExact(pending, batches, toMiner, decision, unacked))'
  <2>1. Accounted /\ AcksExact(pending, batches, toMiner, decision, unacked)
    BY <1>7 DEF ChannelInv, InStep
  <2>2. Accounted'
    BY <1>1, <2>1 DEF Accounted
  <2>3. pending \in SUBSET Nat
    BY DEF ChannelInv, ShareInv, ShareTypes
  <2>4. AcksExact(pending, batches, Append(toMiner, m), decision, {s \in unacked : s > x})
    BY <1>0, <1>2, <1>4, <2>1, <2>3, AcksAcknowledge
  <2> QED  BY <1>1, <2>2, <2>4
<1> QED  BY <1>1, <1>5, <1>6, <1>7 DEF InStep

\* The pool checks a share: nobody has settled or reported it before.
LEMMA CheckKeeps ==
    ASSUME ChannelInv, conforming, ChannelTypes', UNCHANGED <<vars, conforming>>, Check
    PROVE  (InOrder /\ Truthful /\ InStep)'
<1> DEFINE d == Head(toPool).seq
<1>1. /\ UNCHANGED <<pending, batches, last_sent, out, told, failed>>
      /\ UNCHANGED toMiner /\ toPool # <<>> /\ toPool' = Tail(toPool)
  BY DEF vars, shareVars, Check
<1>2. PICK v \in Verdicts :
         /\ decision' = [decision EXCEPT ![d] = v]
         /\ unacked' = IF v = "accepted" THEN unacked \cup {d} ELSE unacked
         /\ unreported' = IF v = "accepted" THEN unreported ELSE unreported \cup {d}
  BY DEF Check, Verdicts
<1>3. /\ Len(toPool) \in Nat \ {0} /\ Len(toPool') = Len(toPool) - 1
      /\ d = toPool[1].seq
      /\ \A i \in 1 .. Len(toPool') : toPool'[i] = toPool[i + 1] /\ i + 1 \in 1 .. Len(toPool)
  <2> DEFINE T == [seq : Seqs, job : JobIds]
  <2>1. toPool \in Seq(T)
    BY DEF ChannelInv, ChannelTypes
  <2> HIDE DEF T
  <2> QED  BY <1>1, <2>1
<1> HIDE DEF d
<1>4. /\ last_sent \in Nat /\ last_sent <= MaxSeq /\ MaxSeq \in Nat /\ Checked \in Nat
      /\ Checked' = Checked + 1 /\ d = Checked + 1 /\ d <= last_sent /\ d \in Seqs
      /\ d \in 1 .. last_sent
  <2>1. last_sent \in Nat /\ last_sent <= MaxSeq /\ MaxSeq \in Nat
    BY Sv2Assumption DEF ChannelInv, ShareInv, ShareTypes
  <2>2. Len(toPool) <= last_sent /\ 1 \in 1 .. Len(toPool)
    BY <1>3 DEF ChannelInv, InOrder
  <2>3. d = Checked + 1
    BY <1>3, <2>2 DEF ChannelInv, InOrder
  <2>4. Checked \in Nat /\ Checked' = Checked + 1 /\ Checked + 1 <= last_sent
    BY <1>1, <1>3, <2>1, <2>2 DEF Checked
  <2> QED  BY <2>1, <2>3, <2>4 DEF Seqs
<1>5. decision[d] = "none" /\ decision \in [Seqs -> Verdicts \cup {"none"}]
  <2>1. d > Checked
    BY <1>4
  <2> QED  BY <1>4, <2>1 DEF ChannelInv, InOrder, ChannelTypes
<1>6. decision'[d] = v /\ v # "none" /\ \A s \in Seqs : s # d => decision'[s] = decision[s]
  BY <1>2, <1>4, <1>5 DEF Verdicts
<1>7. InOrder'
  <2>1. Len(toPool') <= last_sent'
    BY <1>1, <1>3, <1>4 DEF ChannelInv, InOrder
  <2>2. ASSUME NEW i \in 1 .. Len(toPool') PROVE toPool'[i].seq = Checked' + i
    <3>1. toPool[i + 1].seq = Checked + (i + 1)
      BY <1>3 DEF ChannelInv, InOrder
    <3> QED  BY <1>3, <1>4, <3>1
  <2>3. ASSUME NEW s \in Seqs PROVE decision'[s] = "none" <=> s > Checked'
    <3>1. CASE s = d
      BY <1>4, <1>6, <3>1
    <3>2. CASE s # d
      <4>1. s > Checked <=> s > Checked'
        BY <1>4, <3>2 DEF Seqs
      <4> QED  BY <1>6, <3>2, <4>1 DEF ChannelInv, InOrder
    <3> QED  BY <3>1, <3>2
  <2> QED  BY <2>1, <2>2, <2>3 DEF InOrder
<1>8. \A r \in out \cup told : r.id # d /\ r.id \in Seqs
  <2> SUFFICES ASSUME NEW r \in out \cup told PROVE r.id # d /\ r.id \in Seqs
    OBVIOUS
  <2>1. r.verdict \in Verdicts /\ r.id \in 1 .. last_sent
    BY DEF ChannelInv, ShareInv, ShareTypes
  <2>2. decision[r.id] # "none"
    BY <2>1 DEF ChannelInv, Truthful, Verdicts
  <2> QED  BY <1>4, <1>5, <2>1, <2>2 DEF Seqs
<1>9. Truthful'
  <2>1. \A r \in out' \cup told' : r.verdict = decision'[r.id]
    BY <1>1, <1>6, <1>8 DEF ChannelInv, Truthful
  <2>2. \A s \in unreported' : decision'[s] \in {"rejected", "stale"}
    <3>1. \A s \in unreported : s # d /\ s \in Seqs
      BY <1>5 DEF ChannelInv, Truthful, ChannelTypes
    <3> QED  BY <1>2, <1>6, <3>1 DEF ChannelInv, Truthful, Verdicts
  <2>3. ASSUME NEW n \in 1 .. Len(toMiner'), toMiner'[n].type = "Rejected"
        PROVE  /\ decision'[toMiner'[n].seq] \in {"rejected", "stale"}
               /\ toMiner'[n].stale <=> decision'[toMiner'[n].seq] = "stale"
    <3>1. toMiner[n] \in PoolMessages
      BY <1>1 DEF ChannelInv, ChannelTypes
    <3>2. toMiner[n].seq \in Seqs
      BY <1>1, <2>3, <3>1 DEF PoolMessages
    <3>3. decision[toMiner[n].seq] \in {"rejected", "stale"}
      BY <1>1, <2>3 DEF ChannelInv, Truthful
    <3>4. toMiner[n].seq # d
      BY <1>5, <3>3
    <3> QED  BY <1>1, <1>6, <2>3, <3>2, <3>4 DEF ChannelInv, Truthful
  <2> QED  BY <2>1, <2>2, <2>3 DEF Truthful
<1>10. ASSUME ~failed
       PROVE  (Accounted /\ AcksExact(pending, batches, toMiner, decision, unacked))'
  <2>1. Accounted /\ AcksExact(pending, batches, toMiner, decision, unacked)
    BY <1>10 DEF ChannelInv, InStep
  <2>2. Accounted'
    BY <1>1, <2>1 DEF Accounted
  <2>3. d \in pending
    BY <1>4, <1>8, <2>1 DEF Accounted
  <2> DEFINE L == Lasts(batches, toMiner, Len(toMiner) + 1)
  <2>4. batches \in Seq(Batches) /\ toMiner \in Seq(PoolMessages) /\ pending \in SUBSET Seqs
    BY <1>4 DEF ChannelInv, ShareInv, ShareTypes, ChannelTypes, Seqs
  <2>5. L \subseteq Seqs
    <3>1. \A i \in 1 .. Len(batches) : batches[i].last \in Seqs
      <4>1. \A i \in 1 .. Len(batches) : batches[i] \in Batches
        BY <2>4
      <4> QED  BY <4>1 DEF Batches
    <3>2. \A j \in 1 .. Len(toMiner) : toMiner[j].type = "Accepted" => toMiner[j].last \in Seqs
      <4> SUFFICES ASSUME NEW j \in 1 .. Len(toMiner), toMiner[j].type = "Accepted"
                   PROVE  toMiner[j].last \in Seqs
        OBVIOUS
      <4>1. toMiner[j] \in PoolMessages
        BY <2>4
      <4> QED  BY <4>1 DEF PoolMessages
    <3>3. 1 .. (Len(toMiner) + 1) - 1 = 1 .. Len(toMiner)
      BY <2>4
    <3> QED  BY <3>1, <3>2, <3>3 DEF Lasts
  <2>6. \A l \in L : d > l
    <3> SUFFICES ASSUME NEW l \in L PROVE d > l
      OBVIOUS
    <3>1. l \in Seqs /\ decision[l] # "none"
      BY <2>1, <2>5 DEF AcksExact
    <3> HIDE DEF L
    <3>2. ~ (l > Checked)
      BY <3>1 DEF ChannelInv, InOrder
    <3> QED  BY <1>4, <3>1, <3>2 DEF Seqs
  <2>7. AcksExact(pending, batches, toMiner, [decision EXCEPT ![d] = v],
                  IF v = "accepted" THEN unacked \cup {d} ELSE unacked)
    BY <1>5, <2>1, <2>3, <2>4, <2>5, <2>6, AcksDecide
  <2> QED  BY <1>1, <1>2, <2>2, <2>7
<1> QED  BY <1>1, <1>7, <1>9, <1>10 DEF InStep

\* The miner works on the next message.
LEMMA ReceiveKeeps ==
    ASSUME ChannelInv, conforming, MinerReceive
    PROVE  (InOrder /\ Truthful /\ InStep)'
<1> DEFINE m == Head(toMiner)
<1>1. /\ UNCHANGED <<toPool, decision, unacked, unreported>>
      /\ ~failed /\ toMiner # <<>> /\ toMiner' = Tail(toMiner) /\ Receive(m)
  BY DEF MinerReceive, Receive
<1>2. /\ toMiner \in Seq(PoolMessages) /\ batches \in Seq(Batches) /\ m \in PoolMessages
      /\ decision \in [Seqs -> Verdicts \cup {"none"}]
      /\ last_sent \in Nat /\ pending \in SUBSET Nat /\ pending \subseteq 1 .. last_sent
      /\ told \subseteq [id : 1 .. last_sent, verdict : Verdicts]
  BY <1>1 DEF ChannelInv, ChannelTypes, ShareInv, ShareTypes
<1>3. /\ Len(toMiner) \in Nat /\ Len(toMiner') = Len(toMiner) - 1 /\ m = toMiner[1]
      /\ \A n \in 1 .. Len(toMiner') : toMiner'[n] = toMiner[n + 1] /\ n + 1 \in 1 .. Len(toMiner)
      /\ 1 \in 1 .. Len(toMiner)
  BY <1>1, <1>2
<1>4. Accounted /\ AcksExact(pending, batches, toMiner, decision, unacked) /\ InOrder /\ Truthful
  BY <1>1 DEF ChannelInv, InStep
<1>5. IsFiniteSet(pending)
  <2>1. IsFiniteSet(1 .. last_sent)
    BY <1>2, CountTo
  <2> QED  BY <1>2, <2>1, FS_Subset
<1>6. /\ \A s \in unreported' : decision'[s] \in {"rejected", "stale"}
      /\ \A n \in 1 .. Len(toMiner') : toMiner'[n].type = "Rejected" =>
            /\ decision'[toMiner'[n].seq] \in {"rejected", "stale"}
            /\ toMiner'[n].stale <=> decision'[toMiner'[n].seq] = "stale"
  BY <1>1, <1>3, <1>4 DEF Truthful
<1> HIDE DEF m
<1>7. CASE Fail
  <2>1. /\ failed' = TRUE /\ out' = {} /\ UNCHANGED <<told, last_sent>>
    BY <1>7 DEF Fail, shareVars
  <2>2. InOrder'
    BY <1>1, <1>4, <2>1 DEF InOrder, Checked
  <2>3. Truthful'
    BY <1>1, <1>4, <1>6, <2>1 DEF Truthful
  <2> QED  BY <2>1, <2>2, <2>3 DEF InStep
<1>8. CASE /\ SetupSuccess(m) \/ OpenSuccess(m) \/ NewJob(m) \/ PrevHash(m) \/ Target(m)
           /\ UNCHANGED <<failed, told>>
  <2>1. UNCHANGED <<pending, batches, last_sent, out, told, failed>> /\ m.type # "Accepted"
    BY <1>8 DEF SetupSuccess, OpenSuccess, NewJob, PrevHash, Target, shareVars
  <2>2. AcksExact(pending, batches, toMiner', decision, unacked)
    BY <1>1, <1>2, <1>4, <2>1, AcksSkip DEF m
  <2>3. Accounted'
    BY <1>4, <2>1 DEF Accounted
  <2>4. InOrder'
    BY <1>1, <1>4, <2>1 DEF InOrder, Checked
  <2>5. Truthful'
    BY <1>1, <1>4, <1>6, <2>1 DEF Truthful
  <2> QED  BY <1>1, <2>1, <2>2, <2>3, <2>4, <2>5 DEF InStep
<1>9. ASSUME NEW P, NEW B \in Seq(Batches), NEW results,
             settle(P, B, results), P \subseteq pending,
             UNCHANGED <<failed, told, last_sent>>,
             AcksExact(P, B, toMiner', decision, unacked),
             \A r \in results : r.verdict = decision[r.id],
             \A s \in pending \ P : \E r \in results : r.id = s
      PROVE  (InOrder /\ Truthful /\ InStep)'
  <2> DEFINE S == SettledShares(P, B)
  <2>1. P \in SUBSET Nat /\ IsFiniteSet(P)
    BY <1>2, <1>5, <1>9, FS_Subset
  <2>2. /\ AcksExact(P \ S, RemainingBatches(P, B), toMiner', decision, unacked)
        /\ \A s \in S : decision[s] = "accepted"
    <3> DEFINE M == toMiner'
    <3>1. AcksExact(P, B, M, decision, unacked)
      BY <1>9
    <3> HIDE DEF M
    <3>2. /\ AcksExact(P \ S, RemainingBatches(P, B), M, decision, unacked)
          /\ \A s \in S : decision[s] = "accepted"
      BY <2>1, <3>1, AcksSettle
    <3> QED  BY <3>2 DEF M
  <2>3. /\ pending' = P \ S /\ batches' = RemainingBatches(P, B)
        /\ out' = out \cup results \cup [id : S, verdict : {"accepted"}]
    BY <1>9 DEF settle
  <2> HIDE DEF S
  <2>4. \A r \in out' \cup told' : r.verdict = decision'[r.id]
    <3>1. \A r \in [id : S, verdict : {"accepted"}] : r.verdict = decision[r.id]
      BY <2>2
    <3> QED  BY <1>1, <1>4, <1>9, <2>3, <3>1 DEF Truthful
  <2>5. Accounted'
    <3> SUFFICES ASSUME NEW s \in 1 .. last_sent, s \notin pending'
                 PROVE  \E r \in out' \cup told' : r.id = s
      BY <1>9 DEF Accounted
    <3>1. CASE \E r \in out \cup told : r.id = s
      BY <1>9, <2>3, <3>1
    <3>2. CASE s \in pending \ P
      BY <1>9, <2>3, <3>2
    <3>3. CASE s \in S
      <4>1. [id |-> s, verdict |-> "accepted"] \in out'
        BY <2>3, <3>3
      <4> QED  BY <4>1
    <3> QED  BY <1>4, <2>3, <3>1, <3>2, <3>3 DEF Accounted
  <2>6. InOrder'
    BY <1>1, <1>4, <1>9 DEF InOrder, Checked
  <2>7. Truthful'
    BY <1>6, <2>4 DEF Truthful
  <2> QED  BY <1>1, <2>2, <2>3, <2>5, <2>6, <2>7 DEF InStep
<1>10. CASE Require(m) /\ Accepted(m) /\ UNCHANGED <<failed, told>>
  <2> DEFINE b == [last |-> m.last, count |-> m.count]
             B == Append(batches, b)
             none == {}
  <2>1. m.type = "Accepted" /\ settle(pending, B, none) /\ last_sent' = last_sent
    BY <1>10 DEF Accepted
  <2>2. b \in Batches
    <3>1. m.last \in Seqs
      BY <1>2, <2>1 DEF PoolMessages
    <3>2. m.count \in 1 .. MaxPending
      BY <1>10, <2>1 DEF Require
    <3> QED  BY <3>1, <3>2 DEF Batches
  <2>3. b.last = m.last /\ b.count = m.count
    OBVIOUS
  <2> HIDE DEF b
  <2>4. B \in Seq(Batches)
    BY <1>2, <2>2
  <2>5. AcksExact(pending, B, toMiner', decision, unacked)
    BY <1>1, <1>2, <1>4, <2>1, <2>2, <2>3, AcksQueue DEF m
  <2>6. /\ \A r \in none : r.verdict = decision[r.id]
        /\ \A s \in pending \ pending : \E r \in none : r.id = s
    OBVIOUS
  <2> HIDE DEF B, none
  <2> QED  BY <1>9, <1>10, <2>1, <2>4, <2>5, <2>6
<1>11. CASE Require(m) /\ Rejected(m) /\ UNCHANGED <<failed, told>>
  <2> DEFINE r == [id |-> m.seq, verdict |-> IF m.stale THEN "stale" ELSE "rejected"]
             P == pending \ {m.seq}
             results == {r}
  <2>1. m.type = "Rejected" /\ settle(P, batches, results) /\ last_sent' = last_sent
    BY <1>11 DEF Rejected
  <2>2. /\ decision[m.seq] \in {"rejected", "stale"}
        /\ m.stale <=> decision[m.seq] = "stale"
    BY <1>3, <1>4, <2>1 DEF Truthful
  <2>3. r.id = m.seq /\ r.verdict = decision[r.id]
    BY <2>2
  <2>4. AcksExact(pending, batches, toMiner', decision, unacked)
    BY <1>1, <1>2, <1>4, <2>1, AcksSkip DEF m
  <2>5. \A s \in pending \cup P : decision[s] = "accepted" => s \in pending \cap P
    BY <2>2
  <2>6. P \subseteq pending
    OBVIOUS
  <2>7. /\ \A q \in results : q.verdict = decision[q.id]
        /\ \A s \in pending \ P : \E q \in results : q.id = s
    BY <2>3
  <2> HIDE DEF P, r, results
  <2>8. AcksExact(P, batches, toMiner', decision, unacked)
    BY <2>4, <2>5, AcksSame
  <2> QED  BY <1>2, <1>9, <1>11, <2>1, <2>6, <2>7, <2>8
<1> QED  BY <1>1, <1>7, <1>8, <1>10, <1>11 DEF Receive, Handle

\* The miner submits the share after all others.
LEMMA SubmitKeeps ==
    ASSUME ChannelInv, conforming, NEW j \in issued, MinerSubmit(j)
    PROVE  (InOrder /\ Truthful /\ InStep)'
<1>1. /\ UNCHANGED <<toMiner, decision, unacked, unreported>> /\ ~failed /\ submit(j)
      /\ toPool' = IF ~failed' THEN Append(toPool, [seq |-> last_sent', job |-> j.wire_job])
                               ELSE toPool
  BY DEF MinerSubmit, submit
<1>2. Accounted /\ AcksExact(pending, batches, toMiner, decision, unacked) /\ InOrder /\ Truthful
  BY <1>1 DEF ChannelInv, InStep
<1>3. CASE Fail
  <2>1. /\ failed' = TRUE /\ out' = {} /\ UNCHANGED <<told, last_sent>> /\ toPool' = toPool
    BY <1>1, <1>3 DEF Fail, shareVars
  <2>2. InOrder'
    BY <1>1, <1>2, <2>1 DEF InOrder, Checked
  <2>3. Truthful'
    BY <1>1, <1>2, <2>1 DEF Truthful
  <2> QED  BY <2>1, <2>2, <2>3 DEF InStep
<1>4. CASE /\ pending' = pending \cup {last_sent + 1}
           /\ last_sent < MaxSeq
           /\ last_sent' = last_sent + 1
           /\ UNCHANGED <<batches, out, failed, told>>
  <2> DEFINE x == [seq |-> last_sent', job |-> j.wire_job]
             T == [seq : Seqs, job : JobIds]
  <2>1. /\ last_sent \in Nat /\ last_sent + 1 \in Seqs /\ last_sent' \in Seqs
    BY <1>4, Sv2Assumption DEF ChannelInv, ShareInv, ShareTypes, Seqs
  <2>2. x.seq = last_sent + 1 /\ toPool' = Append(toPool, x) /\ toPool \in Seq(T) /\ x \in T
    BY <1>1, <1>4, <2>1 DEF ChannelInv, ChannelTypes
  <2> HIDE DEF x, T
  <2>3. /\ Len(toPool) \in Nat /\ Len(toPool') = Len(toPool) + 1
        /\ toPool'[Len(toPool) + 1] = x
        /\ \A i \in 1 .. Len(toPool) : toPool'[i] = toPool[i]
    BY <2>2
  <2>4. Checked' = Checked /\ Checked \in Int /\ Checked + (Len(toPool) + 1) = last_sent + 1
    BY <1>4, <2>1, <2>3 DEF Checked
  <2>5. InOrder'
    <3>1. Len(toPool') <= last_sent'
      BY <1>2, <1>4, <2>1, <2>3 DEF InOrder
    <3>2. ASSUME NEW i \in 1 .. Len(toPool') PROVE toPool'[i].seq = Checked' + i
      <4>1. CASE i = Len(toPool) + 1
        BY <2>2, <2>3, <2>4, <4>1
      <4>2. CASE i # Len(toPool) + 1
        <5>1. i \in 1 .. Len(toPool)
          BY <2>3, <4>2
        <5> QED  BY <1>2, <2>3, <2>4, <5>1 DEF InOrder
      <4> QED  BY <4>1, <4>2
    <3> QED  BY <1>1, <1>2, <2>4, <3>1, <3>2 DEF InOrder
  <2>6. Truthful'
    BY <1>1, <1>2, <1>4 DEF Truthful
  <2>7. Accounted'
    <3> SUFFICES ASSUME NEW s \in 1 .. last_sent'
                 PROVE  s \in pending' \/ \E r \in out' \cup told' : r.id = s
      BY DEF Accounted
    <3>1. s = last_sent + 1 \/ s \in 1 .. last_sent
      BY <1>4, <2>1
    <3> QED  BY <1>2, <1>4, <3>1 DEF Accounted
  <2>8. AcksExact(pending', batches, toMiner, decision, unacked)
    <3>1. last_sent + 1 > Checked
      BY <2>1, <2>3, <2>4
    <3>2. decision[last_sent + 1] = "none"
      BY <1>2, <2>1, <3>1 DEF InOrder
    <3>3. \A s \in pending \cup pending' : decision[s] = "accepted" => s \in pending \cap pending'
      BY <1>4, <3>2
    <3> QED  BY <1>2, <3>3, AcksSame
  <2> QED  BY <1>1, <1>4, <2>5, <2>6, <2>7, <2>8 DEF InStep
<1> QED  BY <1>1, <1>3, <1>4 DEF submit

\* Every step of the channel keeps the invariant.
LEMMA ChannelStep == ChannelInv /\ [ChannelNext]_allVars => ChannelInv'
<1> SUFFICES ASSUME ChannelInv, [ChannelNext]_allVars PROVE ChannelInv'
  OBVIOUS
<1>1. ShareInv' /\ ChannelTypes'
  BY ChannelShares, ChannelTypesStep DEF ChannelInv
<1>2. SUFFICES ASSUME conforming' PROVE (InOrder /\ Truthful /\ InStep)'
  BY <1>1 DEF ChannelInv
<1>3. conforming
  BY <1>2 DEF ChannelNext, Pool, AnyPool, MinerHandshake, MinerReceive, MinerReturn,
              MinerSubmit, poolVars, allVars
<1>4. InOrder /\ Truthful /\ InStep
  BY <1>3 DEF ChannelInv
<1>5. CASE UNCHANGED poolVars /\ UNCHANGED <<shareVars, failed>>
           /\ out' \cup told' = out \cup told
  <2>1. UNCHANGED <<conforming, toPool, toMiner, decision, unacked, unreported>>
    BY <1>5 DEF poolVars
  <2>2. UNCHANGED <<pending, batches, last_sent, failed>>
    BY <1>5 DEF shareVars
  <2>3. InOrder'
    BY <1>4, <2>1, <2>2 DEF InOrder, Checked
  <2>4. Truthful'
    BY <1>4, <1>5, <2>1 DEF Truthful
  <2>5. InStep'
    BY <1>4, <1>5, <2>1, <2>2 DEF InStep, Accounted
  <2> QED  BY <2>3, <2>4, <2>5
<1>6. CASE UNCHANGED allVars \/ MinerHandshake \/ MinerReturn
  BY <1>5, <1>6 DEF allVars, vars, MinerHandshake, MinerReturn, Handshake, Return
<1>7. CASE Pool
  <2>0. UNCHANGED <<vars, conforming>>
    BY <1>7 DEF Pool
  <2>1. CASE Greet
    <3> DEFINE m == [type |-> IF greeted = 0 THEN "SetupSuccess" ELSE "OpenSuccess", ok |-> TRUE]
    <3>1. m.type # "Accepted" /\ m.type # "Rejected" /\ toMiner' = Append(toMiner, m)
      BY <2>1 DEF Greet, Send
    <3> HIDE DEF m
    <3> QED  BY <1>1, <1>3, <2>0, <2>1, <3>1, SendKeeps DEF Greet
  <2>2. ASSUME NEW id \in PoolJobs, NEW now \in BOOLEAN, OfferJob(id, now)
        PROVE  (InOrder /\ Truthful /\ InStep)'
    <3> DEFINE m == [type |-> "NewJob", channel |-> "own", job |-> id, now |-> now]
    <3>1. m.type # "Accepted" /\ m.type # "Rejected" /\ toMiner' = Append(toMiner, m)
      BY <2>2 DEF OfferJob, Send
    <3> HIDE DEF m
    <3> QED  BY <1>1, <1>3, <2>0, <2>2, <3>1, SendKeeps DEF OfferJob
  <2>3. ASSUME NEW id \in PoolJobs, NEW h \in PoolHashes, NewTip(id, h)
        PROVE  (InOrder /\ Truthful /\ InStep)'
    <3> DEFINE m == [type |-> "PrevHash", channel |-> "group", job |-> id, hash |-> h, ok |-> TRUE]
    <3>1. m.type # "Accepted" /\ m.type # "Rejected" /\ toMiner' = Append(toMiner, m)
      BY <2>3 DEF NewTip, Send
    <3> HIDE DEF m
    <3> QED  BY <1>1, <1>3, <2>0, <2>3, <3>1, SendKeeps DEF NewTip
  <2>4. CASE PoolReport
    <3>1. PICK x \in unreported : Report(x)
      BY <2>4 DEF PoolReport
    <3> DEFINE m == [type |-> "Rejected", channel |-> "own", seq |-> x,
                     stale |-> decision[x] = "stale"]
    <3>2. /\ m.type # "Accepted" /\ toMiner' = Append(toMiner, m)
          /\ m.seq \in unreported /\ (m.stale <=> decision[m.seq] = "stale")
      BY <3>1 DEF Report, Send
    <3> HIDE DEF m
    <3>3. unreported' \subseteq unreported
      BY <3>1 DEF Report
    <3> QED  BY <1>1, <1>3, <2>0, <3>1, <3>2, <3>3, SendKeeps DEF Report
  <2>5. CASE PoolAcknowledge
    BY <1>1, <1>3, <2>0, <2>5, AcknowledgeKeeps DEF PoolAcknowledge
  <2>6. CASE Check
    BY <1>1, <1>3, <2>0, <2>6, CheckKeeps
  <2> QED  BY <1>7, <2>1, <2>2, <2>3, <2>4, <2>5, <2>6 DEF Pool
<1>8. CASE AnyPool
  BY <1>3, <1>8 DEF AnyPool
<1> QED  BY <1>3, <1>6, <1>7, <1>8, ReceiveKeeps, SubmitKeeps DEF ChannelNext

\* The invariant holds in every reachable state of the channel.
THEOREM ChannelInvariance == ChannelSpec => []ChannelInv
<1>1. ChannelInit => ChannelInv
  <2> SUFFICES ASSUME ChannelInit PROVE ChannelInv
    OBVIOUS
  <2>1. ShareInv
    <3>1. 0 \in 0 .. MaxSeq /\ 0 \in 0 .. 0 /\ <<>> \in Seq(Batches) /\ Len(<<>>) = 0
      BY Sv2Assumption
    <3>2. ShareTypes
      BY <3>1 DEF ChannelInit, Init, ShareTypes
    <3> QED  BY <3>1, <3>2 DEF ChannelInit, Init, ShareInv, OneVerdict, AckBound
  <2>2. ChannelTypes
    <3> DEFINE T == [seq : Seqs, job : JobIds]
    <3>1. <<>> \in Seq(T) /\ <<>> \in Seq(PoolMessages) /\ 0 \in 0 .. 2
      OBVIOUS
    <3> QED  BY <3>1 DEF ChannelInit, Init, ChannelTypes
  <2>3. Len(toPool) = 0 /\ Len(toMiner) = 0 /\ Len(batches) = 0 /\ last_sent = 0
        /\ 1 .. 0 = {} /\ Len(toMiner) + 1 - 1 = 0
    BY DEF ChannelInit, Init
  <2>4. InOrder
    <3>1. \A s \in Seqs : s > 0 - 0
      BY Sv2Assumption DEF Seqs
    <3> QED  BY <2>3, <3>1 DEF ChannelInit, InOrder, Checked
  <2>5. Truthful
    BY <2>3 DEF ChannelInit, Init, Truthful
  <2>6. Accounted
    BY <2>3 DEF Accounted
  <2>7. AcksExact(pending, batches, toMiner, decision, unacked)
    <3>1. Lasts(batches, toMiner, Len(toMiner) + 1) = {}
      BY <2>3 DEF Lasts
    <3>2. pending = {} /\ unacked = {}
      BY DEF ChannelInit, Init
    <3> QED  BY <2>3, <3>1, <3>2 DEF AcksExact, AcceptedAbove
  <2> QED  BY <2>1, <2>2, <2>4, <2>5, <2>6, <2>7 DEF ChannelInv, InStep
<1> QED  BY <1>1, ChannelStep, PTL DEF ChannelSpec

\* The miner books exactly what the pool decided (sv2_session.cpp:43-59,
\* 128-144): no batching, delay or order of the answers of a conforming pool
\* settles a share with another verdict than the pool's.
THEOREM BooksAgree == ChannelSpec => []VerdictsAgree
<1>1. ChannelInv => VerdictsAgree
  BY DEF ChannelInv, Truthful, VerdictsAgree
<1> QED  BY <1>1, ChannelInvariance, PTL

-----------------------------------------------------------------------------
(* A conforming pool never makes a require() of the session fail            *)

\* No message a .. b of M moves the tip.
NoTip(M, a, b) == \A j \in a .. b : M[j].type # "PrevHash"

\* The ids a miner that knows K knows after the first n - 1 messages of M.
Live(K, M, n) ==
    {id \in K : NoTip(M, 1, n - 1)}
    \cup {M[k].job : k \in {i \in 1 .. n - 1 : /\ M[i].type \in {"NewJob", "PrevHash"}
                                               /\ NoTip(M, i + 1, n - 1)}}

\* Every job message applies to what the miner will know when it arrives (K
\* now, has: it has a tip now), and the pool (J, tip) is ahead by the messages
\* on their way.
JobsInStep(K, has, M, J, tip) ==
    /\ J = Live(K, M, Len(M) + 1)
    /\ tip <=> has \/ \E k \in 1 .. Len(M) : M[k].type = "PrevHash"
    /\ \A n \in 1 .. Len(M) : M[n].type = "NewJob" =>
          /\ M[n].channel = "own"
          /\ M[n].job \notin Live(K, M, n)
          /\ Cardinality(Live(K, M, n)) < MaxJobs
          /\ M[n].now => has \/ \E k \in 1 .. n - 1 : M[k].type = "PrevHash"
    /\ \A n \in 1 .. Len(M) : M[n].type = "PrevHash" =>
          /\ M[n].channel = "group" /\ M[n].ok
          /\ M[n].job \in Live(K, M, n)

\* Messages a .. Len(M) are no handshake answers.
NoGreeting(M, a) == \A n \in a .. Len(M) : M[n].type \notin {"SetupSuccess", "OpenSuccess"}

\* The handshake: one answer at a time, and only OpenSuccess has others behind it.
Greeting ==
    /\ phase \in 0 .. 3
    /\ phase = 0 => greeted = 0 /\ Len(toMiner) = 0
    /\ phase = 1 => \/ greeted = 0 /\ Len(toMiner) = 0
                    \/ /\ greeted = 1 /\ Len(toMiner) = 1
                       /\ toMiner[1].type = "SetupSuccess" /\ toMiner[1].ok
    /\ phase = 2 => \/ greeted = 1 /\ Len(toMiner) = 0
                    \/ /\ greeted = 2 /\ Len(toMiner) > 0
                       /\ toMiner[1].type = "OpenSuccess" /\ toMiner[1].ok
                       /\ NoGreeting(toMiner, 2)
    /\ phase = 3 => greeted = 2 /\ NoGreeting(toMiner, 1)

\* The answers on their way name pending shares, acknowledgements in rising
\* order and errors once.
AnswersApply ==
    /\ last_ack <= Checked
    /\ Cardinality(pending) <= MaxPending
    /\ \A s \in unacked : s > last_ack
    /\ unreported \subseteq pending
    /\ \A n \in 1 .. Len(toMiner) : toMiner[n].type = "Accepted" =>
          /\ toMiner[n].channel = "own"
          /\ toMiner[n].last \in pending
          /\ decision[toMiner[n].last] = "accepted"
          /\ toMiner[n].last > last_ack
          /\ \A k \in 1 .. n - 1 :
                toMiner[k].type = "Accepted" => toMiner[k].last < toMiner[n].last
    /\ \A n \in 1 .. Len(toMiner) : toMiner[n].type = "Rejected" =>
          /\ toMiner[n].channel = "own"
          /\ toMiner[n].seq \in pending \ unreported
          /\ \A k \in 1 .. n - 1 :
                toMiner[k].type = "Rejected" => toMiner[k].seq # toMiner[n].seq

\* Jobs are offered, and shares submitted, on an open channel.
Opened ==
    /\ pTip \in BOOLEAN
    /\ pJobs # {} => greeted = 2
    /\ last_sent # 0 => phase = 3

JobTable == jobs \in [JobIds -> [kind : {"absent", "future", "active"}, generation : Int]]

KeepInv ==
    /\ JobTable
    /\ generation \in Int
    /\ previous \in Hashes \cup {NoHash}
    /\ conforming /\ ~failed =>
          /\ Greeting
          /\ Opened
          /\ AnswersApply
          /\ JobsInStep(Known, previous # NoHash, toMiner, pJobs, pTip)

\* What the miner knows once it has worked on m.
Learn(K, m) ==
    IF m.type = "NewJob" THEN K \cup {m.job} ELSE IF m.type = "PrevHash" THEN {m.job} ELSE K

\* A message behind the others changes what is known after it only.
LEMMA LiveAppend ==
    ASSUME NEW K, NEW M \in Seq(PoolMessages), NEW m \in PoolMessages
    PROVE  /\ \A n \in 1 .. Len(M) + 1 : Live(K, Append(M, m), n) = Live(K, M, n)
           /\ Live(K, Append(M, m), Len(M) + 2) = Learn(Live(K, M, Len(M) + 1), m)
<1> DEFINE A == Append(M, m)
           z == Len(M)
<1>1. /\ z \in Nat /\ A[z + 1] = m /\ \A j \in 1 .. z : A[j] = M[j]
  OBVIOUS
<1> HIDE DEF A, z
<1>2. ASSUME NEW n \in 1 .. z + 1
      PROVE  Live(K, A, n) = Live(K, M, n)
  <2>1. \A j \in 1 .. n - 1 : A[j] = M[j]
    BY <1>1
  <2>2. NoTip(A, 1, n - 1) <=> NoTip(M, 1, n - 1)
    BY <2>1 DEF NoTip
  <2>3. \A i \in 1 .. n - 1 : NoTip(A, i + 1, n - 1) <=> NoTip(M, i + 1, n - 1)
    <3>1. \A i \in 1 .. n - 1 : \A j \in i + 1 .. n - 1 : j \in 1 .. n - 1
      BY <1>1
    <3> QED  BY <2>1, <3>1 DEF NoTip
  <2> QED  BY <2>1, <2>2, <2>3 DEF Live
<1>3. ASSUME NEW a \in 1 .. z + 1
      PROVE  NoTip(A, a, z + 1) <=> NoTip(M, a, z) /\ m.type # "PrevHash"
  <2>1. /\ \A j \in a .. z + 1 : j = z + 1 \/ (j \in a .. z /\ j \in 1 .. z)
        /\ \A j \in a .. z : j \in a .. z + 1 /\ j \in 1 .. z
        /\ z + 1 \in a .. z + 1
    BY <1>1
  <2> QED  BY <1>1, <2>1 DEF NoTip
<1>4. NoTip(A, z + 2, z + 1)
  <2>1. \A j \in z + 2 .. z + 1 : FALSE
    BY <1>1
  <2> QED  BY <2>1 DEF NoTip
<1>5. /\ (z + 2) - 1 = z + 1 /\ (z + 1) - 1 = z /\ (z + 1) + 1 = z + 2
      /\ 1 \in 1 .. z + 1 /\ z + 1 \in 1 .. z + 1
      /\ \A i \in 1 .. z : i \in 1 .. z + 1 /\ i + 1 \in 1 .. z + 1
      /\ \A i \in 1 .. z + 1 : i \in 1 .. z \/ i = z + 1
  BY <1>1
<1>6. ASSUME NEW x
      PROVE  x \in Live(K, A, z + 2) <=>
                \/ m.type # "PrevHash" /\ x \in Live(K, M, z + 1)
                \/ m.type \in {"NewJob", "PrevHash"} /\ x = m.job
  <2>1. x \in Live(K, A, z + 2) <=>
           \/ x \in K /\ NoTip(A, 1, z + 1)
           \/ \E i \in 1 .. z + 1 : /\ A[i].type \in {"NewJob", "PrevHash"}
                                    /\ NoTip(A, i + 1, z + 1) /\ x = A[i].job
    BY <1>5 DEF Live
  <2>2. x \in Live(K, M, z + 1) <=>
           \/ x \in K /\ NoTip(M, 1, z)
           \/ \E i \in 1 .. z : /\ M[i].type \in {"NewJob", "PrevHash"}
                                /\ NoTip(M, i + 1, z) /\ x = M[i].job
    BY <1>5 DEF Live
  <2>3. (\E i \in 1 .. z + 1 : /\ A[i].type \in {"NewJob", "PrevHash"}
                               /\ NoTip(A, i + 1, z + 1) /\ x = A[i].job) <=>
           \/ m.type \in {"NewJob", "PrevHash"} /\ x = m.job
           \/ \E i \in 1 .. z : /\ M[i].type \in {"NewJob", "PrevHash"}
                                /\ NoTip(M, i + 1, z) /\ m.type # "PrevHash" /\ x = M[i].job
    BY <1>1, <1>3, <1>4, <1>5
  <2> QED  BY <1>3, <1>5, <2>1, <2>2, <2>3
<1>7. Live(K, A, z + 2) = Learn(Live(K, M, z + 1), m)
  <2>1. \A x : x \in Learn(Live(K, M, z + 1), m) <=>
                \/ m.type # "PrevHash" /\ x \in Live(K, M, z + 1)
                \/ m.type \in {"NewJob", "PrevHash"} /\ x = m.job
    BY DEF Learn
  <2> QED  BY <1>6, <2>1
<1> QED  BY <1>2, <1>7 DEF A, z

\* Working on the first message leaves what is known after the others.
LEMMA LiveTail ==
    ASSUME NEW K, NEW M \in Seq(PoolMessages), M # <<>>, NEW n \in 1 .. Len(M)
    PROVE  Live(Learn(K, Head(M)), Tail(M), n) = Live(K, M, n + 1)
<1> DEFINE T == Tail(M)
           m == Head(M)
<1>1. /\ Len(M) \in Nat \ {0} /\ Len(T) = Len(M) - 1 /\ M[1] = m
      /\ \A i \in 1 .. Len(T) : T[i] = M[i + 1] /\ i + 1 \in 1 .. Len(M)
  OBVIOUS
<1> HIDE DEF T, m
<1>2. ASSUME NEW a \in 1 .. n
      PROVE  NoTip(T, a, n - 1) <=> NoTip(M, a + 1, n)
  <2>1. ASSUME NoTip(T, a, n - 1), NEW j \in a + 1 .. n PROVE M[j].type # "PrevHash"
    <3>1. j - 1 \in a .. n - 1 /\ j - 1 \in 1 .. Len(T) /\ (j - 1) + 1 = j
      BY <1>1
    <3>2. T[j - 1] = M[j]
      BY <1>1, <3>1
    <3> QED  BY <2>1, <3>1, <3>2 DEF NoTip
  <2>2. ASSUME NoTip(M, a + 1, n), NEW j \in a .. n - 1 PROVE T[j].type # "PrevHash"
    <3>1. j + 1 \in a + 1 .. n /\ j \in 1 .. Len(T)
      BY <1>1
    <3> QED  BY <1>1, <2>2, <3>1 DEF NoTip
  <2> QED  BY <2>1, <2>2 DEF NoTip
<1>3. NoTip(M, 1, n) <=> m.type # "PrevHash" /\ NoTip(M, 2, n)
  <2>1. /\ 1 \in 1 .. n /\ \A j \in 1 .. n : j = 1 \/ j \in 2 .. n
        /\ \A j \in 2 .. n : j \in 1 .. n
    BY <1>1
  <2> QED  BY <1>1, <2>1 DEF NoTip
<1>4. 1 \in 1 .. n /\ (n + 1) - 1 = n /\ 1 + 1 = 2
  BY <1>1
<1>5. ASSUME NEW x
      PROVE  (\E i \in 1 .. n - 1 : /\ T[i].type \in {"NewJob", "PrevHash"}
                                    /\ NoTip(T, i + 1, n - 1) /\ x = T[i].job)
             <=> \E i \in 2 .. n : /\ M[i].type \in {"NewJob", "PrevHash"}
                                   /\ NoTip(M, i + 1, n) /\ x = M[i].job
  <2>1. ASSUME NEW i \in 1 .. n - 1, T[i].type \in {"NewJob", "PrevHash"},
               NoTip(T, i + 1, n - 1), x = T[i].job
        PROVE  \E k \in 2 .. n : /\ M[k].type \in {"NewJob", "PrevHash"}
                                 /\ NoTip(M, k + 1, n) /\ x = M[k].job
    <3>1. i + 1 \in 2 .. n /\ i + 1 \in 1 .. n /\ T[i] = M[i + 1]
      BY <1>1
    <3>2. NoTip(M, (i + 1) + 1, n)
      BY <1>2, <2>1, <3>1
    <3> QED  BY <2>1, <3>1, <3>2
  <2>2. ASSUME NEW i \in 2 .. n, M[i].type \in {"NewJob", "PrevHash"},
               NoTip(M, i + 1, n), x = M[i].job
        PROVE  \E k \in 1 .. n - 1 : /\ T[k].type \in {"NewJob", "PrevHash"}
                                     /\ NoTip(T, k + 1, n - 1) /\ x = T[k].job
    <3>1. i - 1 \in 1 .. n - 1 /\ i - 1 \in 1 .. Len(T) /\ (i - 1) + 1 = i /\ i \in 1 .. n
      BY <1>1
    <3>2. T[i - 1] = M[i] /\ NoTip(T, (i - 1) + 1, n - 1)
      BY <1>1, <1>2, <2>2, <3>1
    <3> QED  BY <2>2, <3>1, <3>2
  <2> QED  BY <2>1, <2>2
<1>6. ASSUME NEW x
      PROVE  x \in Live(Learn(K, m), T, n) <=> x \in Live(K, M, n + 1)
  <2> DEFINE Rest == \E i \in 2 .. n : /\ M[i].type \in {"NewJob", "PrevHash"}
                                       /\ NoTip(M, i + 1, n) /\ x = M[i].job
  <2>1. x \in Live(Learn(K, m), T, n) <=>
           (x \in Learn(K, m) /\ NoTip(M, 2, n)) \/ Rest
    <3>1. NoTip(T, 1, n - 1) <=> NoTip(M, 2, n)
      BY <1>2, <1>4
    <3>2. x \in Live(Learn(K, m), T, n) <=>
             \/ x \in Learn(K, m) /\ NoTip(T, 1, n - 1)
             \/ \E i \in 1 .. n - 1 : /\ T[i].type \in {"NewJob", "PrevHash"}
                                      /\ NoTip(T, i + 1, n - 1) /\ x = T[i].job
      BY DEF Live
    <3> QED  BY <1>5, <3>1, <3>2
  <2>2. x \in Live(K, M, n + 1) <=>
           \/ x \in K /\ NoTip(M, 1, n)
           \/ \E i \in 1 .. n : /\ M[i].type \in {"NewJob", "PrevHash"}
                                /\ NoTip(M, i + 1, n) /\ x = M[i].job
    BY <1>4 DEF Live
  <2>3. (\E i \in 1 .. n : /\ M[i].type \in {"NewJob", "PrevHash"}
                           /\ NoTip(M, i + 1, n) /\ x = M[i].job)
        <=> Rest \/ (m.type \in {"NewJob", "PrevHash"} /\ NoTip(M, 2, n) /\ x = m.job)
    <3>1. \A i \in 1 .. n : i = 1 \/ i \in 2 .. n
      BY <1>1
    <3>2. \A i \in 2 .. n : i \in 1 .. n
      BY <1>1
    <3> QED  BY <1>1, <1>4, <3>1, <3>2
  <2> HIDE DEF Rest
  <2> QED  BY <1>3, <2>1, <2>2, <2>3 DEF Learn
<1> QED  BY <1>6 DEF T, m

\* The pool sends a message that applies to the jobs it considers live.
LEMMA JobsSend ==
    ASSUME NEW K, NEW has \in BOOLEAN, NEW M \in Seq(PoolMessages), NEW m \in PoolMessages,
           NEW J, NEW tip \in BOOLEAN, JobsInStep(K, has, M, J, tip),
           m.type = "NewJob" => /\ m.channel = "own" /\ m.job \notin J
                                /\ Cardinality(J) < MaxJobs
                                /\ m.now => tip,
           m.type = "PrevHash" => m.channel = "group" /\ m.ok /\ m.job \in J
    PROVE  JobsInStep(K, has, Append(M, m), Learn(J, m), tip \/ m.type = "PrevHash")
<1> DEFINE A == Append(M, m)
           z == Len(M)
<1>1. /\ z \in Nat /\ A[z + 1] = m /\ Len(A) = z + 1 /\ (z + 1) + 1 = z + 2
      /\ \A j \in 1 .. z : A[j] = M[j]
  OBVIOUS
<1>2. /\ \A n \in 1 .. z + 1 : Live(K, A, n) = Live(K, M, n)
      /\ J = Live(K, M, z + 1)
  BY LiveAppend DEF JobsInStep
<1>3. Learn(J, m) = Live(K, A, z + 2)
  BY <1>2, LiveAppend, Zenon
<1> HIDE DEF A, z
<1>4. \A n \in 1 .. z + 1 : (\E k \in 1 .. n - 1 : A[k].type = "PrevHash")
                               <=> \E k \in 1 .. n - 1 : M[k].type = "PrevHash"
  <2>1. \A n \in 1 .. z + 1 : \A k \in 1 .. n - 1 : A[k] = M[k]
    BY <1>1
  <2> QED  BY <2>1
<1>5. tip \/ m.type = "PrevHash" <=> has \/ \E k \in 1 .. z + 1 : A[k].type = "PrevHash"
  <2>1. /\ \A k \in 1 .. z + 1 : k \in 1 .. z \/ k = z + 1
        /\ \A k \in 1 .. z : k \in 1 .. z + 1
        /\ z + 1 \in 1 .. z + 1
    BY <1>1
  <2>2. tip <=> has \/ \E k \in 1 .. z : M[k].type = "PrevHash"
    BY DEF JobsInStep, z
  <2> QED  BY <1>1, <2>1, <2>2
<1>6. ASSUME NEW n \in 1 .. z + 1
      PROVE  /\ A[n].type = "NewJob" =>
                  /\ A[n].channel = "own"
                  /\ A[n].job \notin Live(K, A, n)
                  /\ Cardinality(Live(K, A, n)) < MaxJobs
                  /\ A[n].now => has \/ \E k \in 1 .. n - 1 : A[k].type = "PrevHash"
             /\ A[n].type = "PrevHash" =>
                  /\ A[n].channel = "group" /\ A[n].ok
                  /\ A[n].job \in Live(K, A, n)
  <2>1. CASE n = z + 1
    <3>1. tip <=> has \/ \E k \in 1 .. n - 1 : A[k].type = "PrevHash"
      <4>1. n - 1 = z
        BY <1>1, <2>1
      <4> QED  BY <1>4, <2>1, <4>1 DEF JobsInStep, z
    <3> QED  BY <1>1, <1>2, <2>1, <3>1
  <2>2. CASE n # z + 1
    <3>1. n \in 1 .. z
      BY <1>1, <2>2
    <3> QED  BY <1>1, <1>2, <1>4, <3>1 DEF JobsInStep, z
  <2> QED  BY <2>1, <2>2
<1>7. JobsInStep(K, has, A, Learn(J, m), tip \/ m.type = "PrevHash")
  BY <1>1, <1>3, <1>5, <1>6 DEF JobsInStep
<1> QED  BY <1>7 DEF A

\* The miner works on the first message.
LEMMA JobsReceive ==
    ASSUME NEW K, NEW has \in BOOLEAN, NEW M \in Seq(PoolMessages), M # <<>>,
           NEW J, NEW tip \in BOOLEAN, JobsInStep(K, has, M, J, tip)
    PROVE  JobsInStep(Learn(K, Head(M)), has \/ Head(M).type = "PrevHash", Tail(M), J, tip)
<1> DEFINE T == Tail(M)
           m == Head(M)
           L == Learn(K, m)
           had == has \/ m.type = "PrevHash"
<1>1. /\ Len(M) \in Nat \ {0} /\ Len(T) = Len(M) - 1 /\ M[1] = m
      /\ \A i \in 1 .. Len(T) : T[i] = M[i + 1] /\ i + 1 \in 1 .. Len(M)
      /\ Len(T) + 1 = Len(M)
  OBVIOUS
<1>2. \A n \in 1 .. Len(M) : Live(L, T, n) = Live(K, M, n + 1)
  BY LiveTail
<1> HIDE DEF T, m, L
<1>3. ASSUME NEW n \in 1 .. Len(M)
      PROVE  (had \/ \E k \in 1 .. n - 1 : T[k].type = "PrevHash")
                <=> has \/ \E k \in 1 .. n : M[k].type = "PrevHash"
  <2>1. ASSUME NEW k \in 1 .. n - 1, T[k].type = "PrevHash"
        PROVE  \E i \in 1 .. n : M[i].type = "PrevHash"
    <3>1. k + 1 \in 1 .. n /\ T[k] = M[k + 1]
      BY <1>1
    <3> QED  BY <2>1, <3>1
  <2>2. ASSUME NEW k \in 1 .. n, M[k].type = "PrevHash", k # 1
        PROVE  \E i \in 1 .. n - 1 : T[i].type = "PrevHash"
    <3>1. k - 1 \in 1 .. n - 1 /\ k - 1 \in 1 .. Len(T) /\ (k - 1) + 1 = k
      BY <1>1, <2>2
    <3>2. T[k - 1] = M[k]
      BY <1>1, <3>1
    <3> QED  BY <2>2, <3>1, <3>2
  <2>3. 1 \in 1 .. n
    BY <1>1
  <2> QED  BY <1>1, <2>1, <2>2, <2>3
<1>4. J = Live(L, T, Len(T) + 1)
  <2>1. Len(M) \in 1 .. Len(M)
    BY <1>1
  <2> QED  BY <1>1, <1>2, <2>1 DEF JobsInStep
<1>5. tip <=> had \/ \E k \in 1 .. Len(T) : T[k].type = "PrevHash"
  <2>1. Len(M) \in 1 .. Len(M) /\ Len(M) - 1 = Len(T)
    BY <1>1
  <2>2. tip <=> has \/ \E k \in 1 .. Len(M) : M[k].type = "PrevHash"
    BY DEF JobsInStep
  <2> HIDE DEF had
  <2>3. (had \/ \E k \in 1 .. Len(M) - 1 : T[k].type = "PrevHash")
           <=> has \/ \E k \in 1 .. Len(M) : M[k].type = "PrevHash"
    BY <1>3, <2>1
  <2> QED  BY <2>1, <2>2, <2>3
<1>6. ASSUME NEW n \in 1 .. Len(T)
      PROVE  /\ T[n].type = "NewJob" =>
                  /\ T[n].channel = "own"
                  /\ T[n].job \notin Live(L, T, n)
                  /\ Cardinality(Live(L, T, n)) < MaxJobs
                  /\ T[n].now => had \/ \E k \in 1 .. n - 1 : T[k].type = "PrevHash"
             /\ T[n].type = "PrevHash" =>
                  /\ T[n].channel = "group" /\ T[n].ok
                  /\ T[n].job \in Live(L, T, n)
  <2>1. n + 1 \in 1 .. Len(M) /\ n \in 1 .. Len(M) /\ T[n] = M[n + 1] /\ (n + 1) - 1 = n
    BY <1>1
  <2> HIDE DEF had
  <2>2. (had \/ \E k \in 1 .. n - 1 : T[k].type = "PrevHash")
           <=> has \/ \E k \in 1 .. (n + 1) - 1 : M[k].type = "PrevHash"
    BY <1>3, <2>1
  <2> QED  BY <1>2, <2>1, <2>2 DEF JobsInStep
<1>7. JobsInStep(L, had, T, J, tip)
  BY <1>4, <1>5, <1>6 DEF JobsInStep
<1> QED  BY <1>7 DEF L, T, m, had

\* Exact acknowledgements never count more shares than are open: the require()
\* of settle() holds.
LEMMA AcksOk ==
    ASSUME NEW P, IsFiniteSet(P), NEW B, NEW M, NEW D, NEW U, AcksExact(P, B, M, D, U)
    PROVE  SettleOk(P, B)
<1> SUFFICES ASSUME NEW i \in 1 .. Len(B)
             PROVE  Cardinality(Covered(P, B, i)) >= B[i].count
  BY DEF SettleOk
<1> DEFINE C == Covered(P, B, i)
           A == {s \in C : D[s] = "accepted"}
<1>1. B[i].count = Cardinality(A)
  BY DEF AcksExact
<1>2. C \in SUBSET P /\ A \in SUBSET C
  BY DEF Covered
<1> HIDE DEF C, A
<1>3. IsFiniteSet(C) /\ Cardinality(A) <= Cardinality(C)
  BY <1>2, FS_Subset
<1>4. Cardinality(A) \in Nat /\ Cardinality(C) \in Nat
  BY <1>2, <1>3, FS_Subset, FS_CardinalityType
<1> QED  BY <1>1, <1>3, <1>4 DEF C

\* The table of jobs keeps its type, whatever arrives.
LEMMA TableReceive ==
    ASSUME JobTable, generation \in Int, previous \in Hashes \cup {NoHash},
           NEW m \in PoolMessages \cup Messages, Receive(m)
    PROVE  JobTable' /\ generation' \in Int /\ previous' \in Hashes \cup {NoHash}
<1>1. CASE \/ Fail \/ SetupSuccess(m) \/ OpenSuccess(m) \/ Target(m) \/ Accepted(m)
           \/ Rejected(m)
  BY <1>1 DEF Fail, SetupSuccess, OpenSuccess, Target, Accepted, Rejected, jobVars, JobTable
<1>2. CASE NewJob(m)
  <2>1. m.job \in JobIds
    BY <1>2 DEF NewJob, PoolMessages, Messages
  <2>2. jobs' = [jobs EXCEPT ![m.job] = [kind |-> "active", generation |-> generation + 1]]
        \/ jobs' = [jobs EXCEPT ![m.job] = [kind |-> "future", generation |-> 0]]
    BY <1>2 DEF NewJob, activate
  <2>3. JobTable'
    BY <2>1, <2>2 DEF JobTable
  <2> QED  BY <1>2, <2>3 DEF NewJob, activate
<1>3. CASE PrevHash(m)
  <2>1. m.job \in JobIds /\ m.hash \in Hashes
    BY <1>3 DEF PrevHash, PoolMessages, Messages
  <2>2. /\ jobs' = [[id \in JobIds |-> Absent] EXCEPT
                      ![m.job] = [kind |-> "active", generation |-> generation + 1]]
        /\ generation' = generation + 1 /\ previous' = m.hash
    BY <1>3 DEF PrevHash, activate
  <2>3. JobTable'
    BY <2>1, <2>2 DEF JobTable, Absent
  <2> QED  BY <2>1, <2>2, <2>3
<1> QED  BY <1>1, <1>2, <1>3 DEF Receive, Handle

\* A handled message teaches the miner its job.
LEMMA HandleLearns ==
    ASSUME JobTable, generation \in Int, previous \in Hashes \cup {NoHash},
           NEW m \in PoolMessages, Handle(m)
    PROVE  /\ Known' = Learn(Known, m)
           /\ previous' # NoHash <=> previous # NoHash \/ m.type = "PrevHash"
<1>1. CASE SetupSuccess(m) \/ OpenSuccess(m) \/ Target(m) \/ Accepted(m) \/ Rejected(m)
  BY <1>1 DEF SetupSuccess, OpenSuccess, Target, Accepted, Rejected, jobVars, Known, Learn
<1>2. CASE NewJob(m)
  <2>1. m.job \in JobIds /\ m.type = "NewJob"
    BY <1>2 DEF NewJob, PoolMessages
  <2>2. jobs' = [jobs EXCEPT ![m.job] = [kind |-> "active", generation |-> generation + 1]]
        \/ jobs' = [jobs EXCEPT ![m.job] = [kind |-> "future", generation |-> 0]]
    BY <1>2 DEF NewJob, activate
  <2>3. jobs'[m.job].kind # "absent" /\ \A id \in JobIds : id # m.job => jobs'[id] = jobs[id]
    BY <2>1, <2>2 DEF JobTable
  <2>4. Known' = Learn(Known, m)
    BY <2>1, <2>3 DEF Known, Learn
  <2> QED  BY <1>2, <2>1, <2>4 DEF NewJob
<1>3. CASE PrevHash(m)
  <2>1. m.job \in JobIds /\ m.hash \in Hashes /\ m.type = "PrevHash"
    BY <1>3 DEF PrevHash, PoolMessages
  <2>2. /\ jobs' = [[id \in JobIds |-> Absent] EXCEPT
                      ![m.job] = [kind |-> "active", generation |-> generation + 1]]
        /\ previous' = m.hash
    BY <1>3 DEF PrevHash, activate
  <2>3. jobs'[m.job].kind # "absent"
        /\ \A id \in JobIds : id # m.job => jobs'[id].kind = "absent"
    BY <2>1, <2>2 DEF Absent
  <2>4. Known' = Learn(Known, m)
    BY <2>1, <2>3 DEF Known, Learn
  <2> QED  BY <2>1, <2>2, <2>4, Sv2Assumption
<1> QED  BY <1>1, <1>2, <1>3 DEF Handle

\* In the handshake the first message is the answer the phase waits for.
LEMMA GreetingHead ==
    ASSUME Greeting, toMiner \in Seq(PoolMessages), toMiner # <<>>
    PROVE  \/ phase = 1 /\ toMiner[1].type = "SetupSuccess" /\ toMiner[1].ok
           \/ phase = 2 /\ toMiner[1].type = "OpenSuccess" /\ toMiner[1].ok
           \/ phase = 3 /\ toMiner[1].type \notin {"SetupSuccess", "OpenSuccess"}
<1>1. Len(toMiner) > 0 /\ Len(toMiner) \in Nat
  OBVIOUS
<1>2. 1 \in 1 .. Len(toMiner) /\ Len(toMiner) # 0
  BY <1>1
<1>3. phase = 0 \/ phase = 1 \/ phase = 2 \/ phase = 3
  BY DEF Greeting
<1> QED  BY <1>2, <1>3 DEF Greeting, NoGreeting

\* What the next message of a conforming pool requires is the case.
LEMMA RequireHolds ==
    ASSUME ChannelInv, KeepInv, conforming, ~failed, toMiner # <<>>
    PROVE  Require(Head(toMiner))
<1> DEFINE m == Head(toMiner)
<1>1. /\ Greeting /\ AnswersApply
      /\ JobsInStep(Known, previous # NoHash, toMiner, pJobs, pTip)
      /\ AcksExact(pending, batches, toMiner, decision, unacked) /\ InOrder /\ Truthful
  BY DEF ChannelInv, KeepInv, InStep
<1>2. /\ toMiner \in Seq(PoolMessages) /\ batches \in Seq(Batches) /\ m \in PoolMessages
      /\ last_sent \in Nat /\ last_ack \in Nat /\ pending \subseteq 1 .. last_sent
      /\ m = toMiner[1] /\ 1 \in 1 .. Len(toMiner) /\ 1 .. 1 - 1 = {}
  BY DEF ChannelInv, ChannelTypes, ShareInv, ShareTypes
<1>3. IsFiniteSet(pending)
  <2>1. IsFiniteSet(1 .. last_sent)
    BY <1>2, CountTo
  <2> QED  BY <1>2, <2>1, FS_Subset
<1> SUFFICES Require(m)
  OBVIOUS
<1> HIDE DEF m
<1>4. Live(Known, toMiner, 1) = Known
  <2>1. 1 - 1 = 0 /\ 1 .. 0 = {}
    OBVIOUS
  <2>2. NoTip(toMiner, 1, 1 - 1)
    BY <1>2 DEF NoTip
  <2> QED  BY <2>1, <2>2 DEF Live
<1>5. CASE m.type = "SetupSuccess"
  BY <1>1, <1>2, <1>5, GreetingHead DEF Require
<1>6. CASE m.type = "OpenSuccess"
  BY <1>1, <1>2, <1>6, GreetingHead DEF Require
<1>7. CASE m.type \notin {"SetupSuccess", "OpenSuccess"}
  <2>1. phase = 3
    BY <1>1, <1>2, <1>7, GreetingHead
  <2>2. CASE m.type = "NewJob"
    BY <1>1, <1>2, <1>4, <2>1, <2>2 DEF Require, JobsInStep
  <2>3. CASE m.type = "PrevHash"
    BY <1>1, <1>2, <1>4, <2>1, <2>3 DEF Require, JobsInStep
  <2>4. CASE m.type = "Accepted"
    <3> DEFINE b == [last |-> m.last, count |-> m.count]
               X == UpTo(AcceptedAbove(pending, decision, Lasts(batches, toMiner, 1)), m.last)
    <3>1. /\ m.channel = "own" /\ m.last \in pending /\ m.last > last_ack
          /\ decision[m.last] = "accepted"
      BY <1>1, <1>2, <2>4 DEF AnswersApply
    <3>2. m.last <= last_sent /\ m.last \in Nat
      <4>1. m.last \in 1 .. last_sent /\ last_sent \in Nat
        BY <1>2, <3>1
      <4> QED  BY <4>1
    <3>3. m.count = Cardinality(X)
      BY <1>1, <1>2, <2>4 DEF AcksExact
    <3>4. \A l \in Lasts(batches, toMiner, 1) : m.last > l
      <4>1. \A i \in 1 .. Len(batches) : batches[i].last <= last_ack /\ batches[i] \in Batches
        BY <1>2 DEF ChannelInv, ShareInv, AckBound
      <4>2. \A i \in 1 .. Len(batches) : m.last > batches[i].last
        <5> SUFFICES ASSUME NEW i \in 1 .. Len(batches) PROVE m.last > batches[i].last
          OBVIOUS
        <5>1. batches[i].last \in Nat
          BY <4>1, Sv2Assumption DEF Batches, Seqs
        <5> QED  BY <1>2, <3>1, <3>2, <4>1, <5>1
      <4> QED  BY <1>2, <4>2 DEF Lasts
    <3>5. m.last \in X /\ X \in SUBSET pending
      BY <3>1, <3>2, <3>4 DEF UpTo, AcceptedAbove
    <3> HIDE DEF X
    <3>6. /\ IsFiniteSet(X) /\ Cardinality(X) \in Nat /\ Cardinality(X) # 0
          /\ Cardinality(X) <= Cardinality(pending) /\ Cardinality(pending) \in Nat
      BY <1>3, <3>5, FS_Subset, FS_EmptySet, FS_CardinalityType
    <3>7. m.count \in 1 .. MaxPending
      BY <1>1, <3>3, <3>6, Sv2Assumption DEF AnswersApply
    <3>8. b \in Batches
      <4>1. m.last \in Seqs
        BY <1>2, <2>4 DEF PoolMessages
      <4> QED  BY <3>7, <4>1 DEF Batches
    <3>9. b.last = m.last /\ b.count = m.count
      OBVIOUS
    <3> HIDE DEF b
    <3>10. AcksExact(pending, Append(batches, b), Tail(toMiner), decision, unacked)
      BY <1>1, <1>2, <2>4, <3>8, <3>9, AcksQueue DEF m
    <3>11. SettleOk(pending, Append(batches, b))
      BY <1>3, <3>10, AcksOk
    <3> QED  BY <2>1, <2>4, <3>1, <3>2, <3>7, <3>11 DEF Require, b
  <2>5. CASE m.type = "Rejected"
    <3> DEFINE P == pending \ {m.seq}
    <3>1. /\ m.channel = "own" /\ m.seq \in pending
          /\ decision[m.seq] \in {"rejected", "stale"}
      BY <1>1, <1>2, <2>5 DEF AnswersApply, Truthful
    <3>2. \A s \in pending \cup P : decision[s] = "accepted" => s \in pending \cap P
      BY <3>1
    <3>3. P \in SUBSET pending
      OBVIOUS
    <3> HIDE DEF P
    <3>4. AcksExact(P, batches, toMiner, decision, unacked)
      BY <1>1, <3>2, AcksSame
    <3>5. SettleOk(P, batches)
      BY <1>3, <3>3, <3>4, AcksOk, FS_Subset
    <3> QED  BY <2>1, <2>5, <3>1, <3>5 DEF Require, P
  <2> QED  BY <1>2, <1>7, <2>2, <2>3, <2>4, <2>5 DEF PoolMessages
<1> QED  BY <1>5, <1>6, <1>7

\* The handshake goes on as it should when the pool sends m.
LEMMA GreetingSend ==
    ASSUME Greeting, toMiner \in Seq(PoolMessages), NEW m \in PoolMessages,
           toMiner' = Append(toMiner, m), phase' = phase,
           \/ /\ greeted < phase /\ greeted < 2 /\ greeted' = greeted + 1 /\ m.ok
              /\ m.type = IF greeted = 0 THEN "SetupSuccess" ELSE "OpenSuccess"
           \/ /\ greeted = 2 /\ greeted' = 2
              /\ m.type \notin {"SetupSuccess", "OpenSuccess"}
    PROVE  Greeting'
<1> DEFINE A == toMiner'
           z == Len(toMiner)
<1>1. /\ z \in Nat /\ A[z + 1] = m /\ Len(A) = z + 1
      /\ \A j \in 1 .. z : A[j] = toMiner[j]
  OBVIOUS
<1> HIDE DEF A, z
<1>2. phase = 0 \/ phase = 1 \/ phase = 2 \/ phase = 3
  BY DEF Greeting
<1>3. CASE greeted = 2
  <2>1. greeted' = 2 /\ m.type \notin {"SetupSuccess", "OpenSuccess"}
    BY <1>3
  <2>2. CASE phase = 3
    <3>1. NoGreeting(toMiner, 1)
      BY <2>2 DEF Greeting
    <3>2. \A n \in 1 .. z + 1 : n \in 1 .. z \/ n = z + 1
      BY <1>1
    <3>3. NoGreeting(A, 1)
      BY <1>1, <2>1, <3>1, <3>2 DEF NoGreeting, z
    <3> QED  BY <2>1, <2>2, <3>3 DEF Greeting, A
  <2>3. CASE phase = 2
    <3>1. /\ z > 0 /\ toMiner[1].type = "OpenSuccess" /\ toMiner[1].ok
          /\ NoGreeting(toMiner, 2)
      BY <1>3, <2>3 DEF Greeting, z
    <3>2. \A n \in 2 .. z + 1 : n \in 2 .. z \/ n = z + 1
      BY <1>1
    <3>3. \A n \in 2 .. z : n \in 1 .. z
      BY <1>1
    <3>4. NoGreeting(A, 2)
      BY <1>1, <2>1, <3>1, <3>2, <3>3 DEF NoGreeting, z
    <3>5. 1 \in 1 .. z /\ Len(A) > 0
      BY <1>1, <3>1
    <3>6. A[1] = toMiner[1]
      BY <1>1, <3>5
    <3> QED  BY <2>1, <2>3, <3>1, <3>4, <3>5, <3>6 DEF Greeting, A
  <2> QED  BY <1>2, <1>3, <2>2, <2>3 DEF Greeting
<1>4. CASE greeted # 2
  <2>1. /\ greeted < phase /\ greeted' = greeted + 1 /\ m.ok
        /\ m.type = IF greeted = 0 THEN "SetupSuccess" ELSE "OpenSuccess"
    BY <1>4
  <2>2. CASE phase = 1
    <3>1. greeted = 0 /\ z = 0
      BY <2>1, <2>2 DEF Greeting, z
    <3> QED  BY <1>1, <2>1, <2>2, <3>1 DEF Greeting, A
  <2>3. CASE phase = 2
    <3>1. greeted = 1 /\ z = 0
      BY <1>4, <2>1, <2>3 DEF Greeting, z
    <3>2. \A n \in 2 .. Len(A) : FALSE
      BY <1>1, <3>1
    <3>3. NoGreeting(A, 2)
      BY <3>2 DEF NoGreeting
    <3>4. Len(A) > 0 /\ A[1] = m
      BY <1>1, <3>1
    <3> QED  BY <2>1, <2>3, <3>1, <3>3, <3>4 DEF Greeting, A
  <2> QED  BY <1>2, <1>4, <2>1, <2>2, <2>3 DEF Greeting
<1> QED  BY <1>3, <1>4

\* The handshake goes on as it should when the miner works on a message.
LEMMA GreetingReceive ==
    ASSUME Greeting, toMiner \in Seq(PoolMessages), toMiner # <<>>,
           toMiner' = Tail(toMiner), greeted' = greeted, Handle(Head(toMiner))
    PROVE  Greeting'
<1> DEFINE T == toMiner'
           m == Head(toMiner)
           z == Len(toMiner)
<1>1. /\ z \in Nat \ {0} /\ Len(T) = z - 1 /\ toMiner[1] = m
      /\ \A i \in 1 .. Len(T) : T[i] = toMiner[i + 1] /\ i + 1 \in 2 .. z /\ i + 1 \in 1 .. z
      /\ Handle(m)
  OBVIOUS
<1> HIDE DEF T, m, z
<1>2. CASE phase = 1 /\ m.type = "SetupSuccess"
  <2>1. phase' = 2
    BY <1>1, <1>2 DEF Handle, SetupSuccess, OpenSuccess, NewJob, PrevHash, Target, Accepted, Rejected
  <2>2. greeted = 1 /\ z = 1
    BY <1>1, <1>2 DEF Greeting, z
  <2> QED  BY <1>1, <2>1, <2>2 DEF Greeting, T
<1>3. CASE phase = 2 /\ m.type = "OpenSuccess"
  <2>1. phase' = 3
    BY <1>1, <1>3 DEF Handle, SetupSuccess, OpenSuccess, NewJob, PrevHash, Target, Accepted, Rejected
  <2>2. greeted = 2 /\ NoGreeting(toMiner, 2)
    BY <1>1, <1>3 DEF Greeting, z
  <2>3. NoGreeting(T, 1)
    BY <1>1, <2>2 DEF NoGreeting, z
  <2> QED  BY <2>1, <2>2, <2>3 DEF Greeting, T
<1>4. CASE phase = 3 /\ m.type \notin {"SetupSuccess", "OpenSuccess"}
  <2>1. phase' = 3
    BY <1>1, <1>4 DEF Handle, SetupSuccess, OpenSuccess, NewJob, PrevHash, Target, Accepted, Rejected
  <2>2. greeted = 2 /\ NoGreeting(toMiner, 1)
    BY <1>4 DEF Greeting
  <2>3. NoGreeting(T, 1)
    BY <1>1, <2>2 DEF NoGreeting, z
  <2> QED  BY <2>1, <2>2, <2>3 DEF Greeting, T
<1> QED  BY <1>1, <1>2, <1>3, <1>4, GreetingHead

\* The answers still apply when the pool sends m.
LEMMA AnswersSend ==
    ASSUME AnswersApply, toMiner \in Seq(PoolMessages), NEW m \in PoolMessages,
           toMiner' = Append(toMiner, m),
           UNCHANGED <<pending, last_ack, last_sent, toPool, decision>>,
           unacked' \subseteq unacked, unreported' \subseteq unreported,
           m.type = "Accepted" =>
              /\ m.channel = "own" /\ m.last \in pending /\ decision[m.last] = "accepted"
              /\ m.last > last_ack
              /\ \A k \in 1 .. Len(toMiner) :
                    toMiner[k].type = "Accepted" => toMiner[k].last < m.last,
           m.type = "Rejected" =>
              /\ m.channel = "own" /\ m.seq \in unreported /\ m.seq \notin unreported'
    PROVE  AnswersApply'
<1> DEFINE A == toMiner'
           z == Len(toMiner)
<1>1. /\ z \in Nat /\ A[z + 1] = m /\ Len(A) = z + 1
      /\ \A j \in 1 .. z : A[j] = toMiner[j]
  OBVIOUS
<1> HIDE DEF A, z
<1>2. ASSUME NEW n \in 1 .. z + 1
      PROVE  /\ \A k \in 1 .. n - 1 : A[k] = toMiner[k]
             /\ \/ n \in 1 .. z /\ A[n] = toMiner[n]
                \/ n = z + 1 /\ A[n] = m /\ n - 1 = z
  BY <1>1, SMTT(30)
<1>3. ASSUME NEW n \in 1 .. z + 1, A[n].type = "Accepted"
      PROVE  /\ A[n].channel = "own" /\ A[n].last \in pending
             /\ decision[A[n].last] = "accepted" /\ A[n].last > last_ack
             /\ \A k \in 1 .. n - 1 : A[k].type = "Accepted" => A[k].last < A[n].last
  BY <1>2, <1>3 DEF AnswersApply, z
<1>4. ASSUME NEW n \in 1 .. z + 1, A[n].type = "Rejected"
      PROVE  /\ A[n].channel = "own" /\ A[n].seq \in pending \ unreported'
             /\ \A k \in 1 .. n - 1 : A[k].type = "Rejected" => A[k].seq # A[n].seq
  <2>1. CASE n \in 1 .. z /\ A[n] = toMiner[n]
    BY <1>2, <1>4, <2>1 DEF AnswersApply, z
  <2>2. CASE n = z + 1 /\ A[n] = m /\ n - 1 = z
    BY <1>2, <1>4, <2>2 DEF AnswersApply, z
  <2> QED  BY <1>2, <2>1, <2>2
<1>5. Checked' = Checked
  BY DEF Checked
<1>6. last_ack' <= Checked' /\ Cardinality(pending') <= MaxPending
      /\ unreported' \subseteq pending'
  BY <1>5 DEF AnswersApply
<1>7. \A s \in unacked' : s > last_ack'
  BY DEF AnswersApply
<1> QED  BY <1>1, <1>3, <1>4, <1>6, <1>7 DEF AnswersApply, A

\* The answers still apply when the first message is worked on, the shares R
\* leave the table and last_ack moves to a.
LEMMA AnswersReceive ==
    ASSUME AnswersApply, Truthful, toMiner \in Seq(PoolMessages), toMiner # <<>>,
           toMiner' = Tail(toMiner), UNCHANGED <<last_sent, toPool, decision, unacked, unreported>>,
           IsFiniteSet(pending), NEW R, pending' = pending \ R,
           \A s \in R : \/ decision[s] = "accepted" /\ s <= last_ack'
                        \/ Head(toMiner).type = "Rejected" /\ s = Head(toMiner).seq,
           \/ last_ack' = last_ack
           \/ Head(toMiner).type = "Accepted" /\ last_ack' = Head(toMiner).last,
           last_ack' <= Checked, \A s \in unacked : s > last_ack',
           pending \subseteq Nat, last_ack' \in Nat
    PROVE  AnswersApply'
<1> DEFINE T == toMiner'
           m == Head(toMiner)
           z == Len(toMiner)
<1>1. /\ z \in Nat \ {0} /\ Len(T) = z - 1 /\ toMiner[1] = m /\ 1 \in 1 .. z
      /\ \A i \in 1 .. Len(T) : T[i] = toMiner[i + 1] /\ i + 1 \in 1 .. z /\ 1 \in 1 .. (i + 1) - 1
  OBVIOUS
<1> HIDE DEF T, m, z
<1>2. /\ IsFiniteSet(pending') /\ Cardinality(pending') <= Cardinality(pending)
      /\ Cardinality(pending') \in Nat /\ Cardinality(pending) \in Nat
  <2>1. pending' \in SUBSET pending
    OBVIOUS
  <2> QED  BY <2>1, FS_Subset, FS_CardinalityType
<1>3. Cardinality(pending') <= MaxPending
  BY <1>2, Sv2Assumption DEF AnswersApply
<1>4. ASSUME NEW s \in pending, decision[s] \in {"rejected", "stale"},
             m.type = "Rejected" => s # m.seq
      PROVE  s \in pending'
  BY <1>4 DEF m
<1>5. unreported' \subseteq pending'
  <2> SUFFICES ASSUME NEW s \in unreported PROVE s \in pending'
    OBVIOUS
  <2>1. s \in pending /\ decision[s] \in {"rejected", "stale"}
    BY DEF AnswersApply, Truthful
  <2>2. m.type = "Rejected" => s # m.seq
    BY <1>1 DEF AnswersApply, z
  <2> QED  BY <1>4, <2>1, <2>2
<1>6. ASSUME NEW n \in 1 .. Len(T), T[n].type = "Accepted"
      PROVE  /\ T[n].channel = "own" /\ T[n].last \in pending'
             /\ decision[T[n].last] = "accepted" /\ T[n].last > last_ack'
             /\ \A k \in 1 .. n - 1 : T[k].type = "Accepted" => T[k].last < T[n].last
  <2> DEFINE x == T[n].last
  <2>1. /\ T[n] = toMiner[n + 1] /\ n + 1 \in 1 .. z /\ 1 \in 1 .. (n + 1) - 1
        /\ \A k \in 1 .. n - 1 : T[k] = toMiner[k + 1] /\ k + 1 \in 1 .. (n + 1) - 1
    BY <1>1
  <2>2. /\ T[n].channel = "own" /\ x \in pending /\ decision[x] = "accepted" /\ x > last_ack
        /\ \A k \in 1 .. (n + 1) - 1 : toMiner[k].type = "Accepted" => toMiner[k].last < x
    BY <1>6, <2>1 DEF AnswersApply, z
  <2>3. x > last_ack'
    <3>1. CASE last_ack' = last_ack
      BY <2>2, <3>1
    <3>2. CASE m.type = "Accepted" /\ last_ack' = m.last
      BY <1>1, <2>1, <2>2, <3>2
    <3> QED  BY <3>1, <3>2 DEF m
  <2>4. x \notin R
    <3>0. x \in Nat /\ last_ack' \in Nat
      BY <2>2
    <3>1. ~ (x <= last_ack')
      BY <2>3, <3>0
    <3>2. m.type = "Rejected" => decision[m.seq] # "accepted"
      BY <1>1 DEF Truthful, z
    <3> QED  BY <2>2, <3>1, <3>2 DEF m
  <2> QED  BY <2>1, <2>2, <2>3, <2>4
<1>7. ASSUME NEW n \in 1 .. Len(T), T[n].type = "Rejected"
      PROVE  /\ T[n].channel = "own" /\ T[n].seq \in pending' \ unreported'
             /\ \A k \in 1 .. n - 1 : T[k].type = "Rejected" => T[k].seq # T[n].seq
  <2> DEFINE x == T[n].seq
  <2>1. /\ T[n] = toMiner[n + 1] /\ n + 1 \in 1 .. z /\ 1 \in 1 .. (n + 1) - 1
        /\ \A k \in 1 .. n - 1 : T[k] = toMiner[k + 1] /\ k + 1 \in 1 .. (n + 1) - 1
    BY <1>1
  <2>2. /\ T[n].channel = "own" /\ x \in pending \ unreported
        /\ decision[x] \in {"rejected", "stale"}
        /\ \A k \in 1 .. (n + 1) - 1 : toMiner[k].type = "Rejected" => toMiner[k].seq # x
    BY <1>7, <2>1 DEF AnswersApply, Truthful, z
  <2>3. x \in pending'
    BY <1>1, <1>4, <2>1, <2>2
  <2> QED  BY <2>1, <2>2, <2>3
<1>8. Checked' = Checked
  BY DEF Checked
<1> QED  BY <1>3, <1>5, <1>6, <1>7, <1>8 DEF AnswersApply, T

\* A step of a conforming pool keeps its answers applicable.
LEMMA KeepPool ==
    ASSUME ChannelInv, KeepInv, conforming, ~failed, ChannelTypes', Pool
    PROVE  /\ Greeting' /\ Opened' /\ AnswersApply'
           /\ JobsInStep(Known, previous # NoHash, toMiner', pJobs', pTip')
<1>1. /\ UNCHANGED <<phase, jobs, previous, pending, batches, last_ack, last_sent>>
      /\ UNCHANGED <<out, told, failed>>
  BY DEF Pool, vars, jobVars, shareVars
<1>2. /\ Greeting /\ Opened /\ AnswersApply
      /\ JobsInStep(Known, previous # NoHash, toMiner, pJobs, pTip)
      /\ AcksExact(pending, batches, toMiner, decision, unacked) /\ InOrder /\ Truthful
      /\ Accounted
  BY DEF ChannelInv, KeepInv, InStep
<1>3. toMiner \in Seq(PoolMessages) /\ toMiner' \in Seq(PoolMessages)
  BY DEF ChannelInv, ChannelTypes
<1>4. pTip \in BOOLEAN
  BY <1>2 DEF Opened
<1>5. ASSUME NEW m, toMiner' = Append(toMiner, m) PROVE m \in PoolMessages
  <2>1. Len(toMiner) + 1 \in 1 .. Len(toMiner') /\ toMiner'[Len(toMiner) + 1] = m
    BY <1>3, <1>5
  <2>2. toMiner'[Len(toMiner) + 1] \in PoolMessages
    BY <1>3, <2>1
  <2> QED  BY <2>1, <2>2
<1>6. ASSUME NEW m, toMiner' = Append(toMiner, m), pJobs' = Learn(pJobs, m),
             pTip' = (pTip \/ m.type = "PrevHash"),
             m.type = "NewJob" => /\ m.channel = "own" /\ m.job \notin pJobs
                                  /\ Cardinality(pJobs) < MaxJobs
                                  /\ m.now => pTip,
             m.type = "PrevHash" => m.channel = "group" /\ m.ok /\ m.job \in pJobs
      PROVE  JobsInStep(Known, previous # NoHash, toMiner', pJobs', pTip')
  <2> DEFINE has == previous # NoHash
  <2>1. m \in PoolMessages /\ has \in BOOLEAN /\ JobsInStep(Known, has, toMiner, pJobs, pTip)
    BY <1>2, <1>5, <1>6
  <2> HIDE DEF has
  <2>2. JobsInStep(Known, has, Append(toMiner, m), Learn(pJobs, m), pTip \/ m.type = "PrevHash")
    BY <1>3, <1>4, <1>6, <2>1, JobsSend
  <2> QED  BY <1>6, <2>2 DEF has
<1>7. CASE Greet
  <2> DEFINE m == [type |-> IF greeted = 0 THEN "SetupSuccess" ELSE "OpenSuccess", ok |-> TRUE]
  <2>1. /\ toMiner' = Append(toMiner, m) /\ m.ok
        /\ m.type = IF greeted = 0 THEN "SetupSuccess" ELSE "OpenSuccess"
        /\ greeted < phase /\ greeted < 2 /\ greeted' = greeted + 1
        /\ UNCHANGED <<toPool, pJobs, pTip, decision, unacked, unreported>>
    BY <1>7 DEF Greet, Send
  <2> HIDE DEF m
  <2>2. m \in PoolMessages /\ m.type \notin {"NewJob", "PrevHash", "Accepted", "Rejected"}
    BY <1>5, <2>1
  <2>3. Greeting'
    BY <1>1, <1>2, <1>3, <2>1, <2>2, GreetingSend
  <2>4. AnswersApply'
    BY <1>1, <1>2, <1>3, <2>1, <2>2, AnswersSend
  <2>5. Learn(pJobs, m) = pJobs /\ (pTip \/ m.type = "PrevHash") = pTip
    BY <1>4, <2>2 DEF Learn
  <2>6. Opened'
    BY <1>1, <1>2, <2>1 DEF Opened
  <2> QED  BY <1>6, <2>1, <2>2, <2>3, <2>4, <2>5, <2>6
<1>8. ASSUME NEW id \in PoolJobs, NEW now \in BOOLEAN, OfferJob(id, now)
      PROVE  /\ Greeting' /\ Opened' /\ AnswersApply'
             /\ JobsInStep(Known, previous # NoHash, toMiner', pJobs', pTip')
  <2> DEFINE m == [type |-> "NewJob", channel |-> "own", job |-> id, now |-> now]
  <2>1. /\ toMiner' = Append(toMiner, m) /\ m.type = "NewJob" /\ m.channel = "own"
        /\ m.job = id /\ m.now = now /\ greeted = 2 /\ greeted' = greeted
        /\ id \notin pJobs /\ Cardinality(pJobs) < MaxJobs /\ pJobs' = pJobs \cup {id}
        /\ UNCHANGED <<toPool, pTip, decision, unacked, unreported>>
        /\ now => pTip
    BY <1>8 DEF OfferJob, Send
  <2> HIDE DEF m
  <2>2. m \in PoolMessages
    BY <1>5, <2>1
  <2>3. Greeting'
    BY <1>1, <1>2, <1>3, <2>1, <2>2, GreetingSend
  <2>4. AnswersApply'
    BY <1>1, <1>2, <1>3, <2>1, <2>2, AnswersSend
  <2>5. Learn(pJobs, m) = pJobs' /\ (pTip \/ m.type = "PrevHash") = pTip
    BY <1>4, <2>1 DEF Learn
  <2>6. Opened'
    BY <1>1, <1>2, <2>1 DEF Opened
  <2> QED  BY <1>6, <2>1, <2>3, <2>4, <2>5, <2>6
<1>9. ASSUME NEW id \in PoolJobs, NEW h \in PoolHashes, NewTip(id, h)
      PROVE  /\ Greeting' /\ Opened' /\ AnswersApply'
             /\ JobsInStep(Known, previous # NoHash, toMiner', pJobs', pTip')
  <2> DEFINE m == [type |-> "PrevHash", channel |-> "group", job |-> id, hash |-> h, ok |-> TRUE]
  <2>1. /\ toMiner' = Append(toMiner, m) /\ m.type = "PrevHash" /\ m.channel = "group"
        /\ m.job = id /\ m.ok /\ greeted' = greeted
        /\ id \in pJobs /\ pJobs' = {id} /\ pTip' = TRUE
        /\ UNCHANGED <<toPool, decision, unacked, unreported>>
    BY <1>9 DEF NewTip, Send
  <2> HIDE DEF m
  <2>2. m \in PoolMessages
    BY <1>5, <2>1
  <2>3. greeted = 2 /\ m.type \notin {"SetupSuccess", "OpenSuccess", "Accepted", "Rejected"}
    BY <1>2, <2>1 DEF Opened
  <2>4. Greeting'
    BY <1>1, <1>2, <1>3, <2>1, <2>2, <2>3, GreetingSend
  <2>5. AnswersApply'
    BY <1>1, <1>2, <1>3, <2>1, <2>2, <2>3, AnswersSend
  <2>6. Learn(pJobs, m) = pJobs' /\ (pTip \/ m.type = "PrevHash") = pTip'
    BY <1>4, <2>1 DEF Learn
  <2>7. Opened'
    BY <1>1, <1>2, <2>1, <2>3 DEF Opened
  <2> QED  BY <1>6, <2>1, <2>4, <2>5, <2>6, <2>7
<1>10. ASSUME pending # {} PROVE greeted = 2
  <2>1. last_sent # 0
    <3>1. 1 .. 0 = {} /\ pending \subseteq 1 .. last_sent
      BY DEF ChannelInv, ShareInv, ShareTypes
    <3> QED  BY <1>10, <3>1
  <2> QED  BY <1>2, <2>1 DEF Opened, Greeting
<1>11. CASE PoolAcknowledge
  <2>1. PICK x \in unacked : Acknowledge(x)
    BY <1>11 DEF PoolAcknowledge
  <2> DEFINE m == [type |-> "Accepted", channel |-> "own", last |-> x,
                   count |-> Cardinality({s \in unacked : s <= x})]
  <2>2. /\ toMiner' = Append(toMiner, m) /\ m.type = "Accepted" /\ m.channel = "own"
        /\ m.last = x /\ unacked' \subseteq unacked
        /\ UNCHANGED <<toPool, greeted, pJobs, pTip, decision, unreported>>
    BY <2>1 DEF Acknowledge, Send
  <2> HIDE DEF m
  <2>3. m \in PoolMessages
    BY <1>5, <2>2
  <2>4. /\ x \in pending /\ decision[x] = "accepted"
        /\ \A l \in Lasts(batches, toMiner, Len(toMiner) + 1) : x > l
    BY <1>2 DEF AcksExact, AcceptedAbove
  <2>5. ASSUME NEW k \in 1 .. Len(toMiner), toMiner[k].type = "Accepted"
        PROVE  toMiner[k].last < x
    <3>1. k \in 1 .. (Len(toMiner) + 1) - 1
      BY <1>3
    <3>2. x > toMiner[k].last
      BY <2>4, <2>5, <3>1 DEF Lasts
    <3> QED  BY <3>2
  <2>6. x > last_ack
    BY <1>2 DEF AnswersApply
  <2>7. AnswersApply'
    BY <1>1, <1>2, <1>3, <2>2, <2>3, <2>4, <2>5, <2>6, AnswersSend
  <2>8. Greeting'
    BY <1>1, <1>2, <1>3, <1>10, <2>2, <2>3, <2>4, GreetingSend
  <2>9. Learn(pJobs, m) = pJobs' /\ (pTip \/ m.type = "PrevHash") = pTip'
    BY <1>4, <2>2 DEF Learn
  <2>10. Opened'
    BY <1>1, <1>2, <2>2 DEF Opened
  <2> QED  BY <1>6, <2>2, <2>7, <2>8, <2>9, <2>10
<1>12. CASE PoolReport
  <2>1. PICK x \in unreported : Report(x)
    BY <1>12 DEF PoolReport
  <2> DEFINE m == [type |-> "Rejected", channel |-> "own", seq |-> x,
                   stale |-> decision[x] = "stale"]
  <2>2. /\ toMiner' = Append(toMiner, m) /\ m.type = "Rejected" /\ m.channel = "own"
        /\ m.seq = x /\ unreported' = unreported \ {x}
        /\ UNCHANGED <<toPool, greeted, pJobs, pTip, decision, unacked>>
    BY <2>1 DEF Report, Send
  <2> HIDE DEF m
  <2>3. m \in PoolMessages /\ x \in pending
    BY <1>2, <1>5, <2>2 DEF AnswersApply
  <2>4. AnswersApply'
    BY <1>1, <1>2, <1>3, <2>2, <2>3, AnswersSend
  <2>5. Greeting'
    BY <1>1, <1>2, <1>3, <1>10, <2>2, <2>3, GreetingSend
  <2>6. Learn(pJobs, m) = pJobs' /\ (pTip \/ m.type = "PrevHash") = pTip'
    BY <1>4, <2>2 DEF Learn
  <2>7. Opened'
    BY <1>1, <1>2, <2>2 DEF Opened
  <2> QED  BY <1>6, <2>2, <2>4, <2>5, <2>6, <2>7
<1>13. CASE Check
  <2>1. /\ UNCHANGED <<toMiner, greeted, pJobs, pTip>> /\ toPool # <<>> /\ toPool' = Tail(toPool)
    BY <1>13 DEF Check
  <2>2. Greeting' /\ Opened' /\ JobsInStep(Known, previous # NoHash, toMiner', pJobs', pTip')
    BY <1>1, <1>2, <2>1 DEF Greeting, Opened, NoGreeting
  <2> DEFINE d == Head(toPool).seq
  <2>3. PICK v \in Verdicts :
           /\ decision' = [decision EXCEPT ![d] = v]
           /\ unacked' = IF v = "accepted" THEN unacked \cup {d} ELSE unacked
           /\ unreported' = IF v = "accepted" THEN unreported ELSE unreported \cup {d}
    BY <1>13 DEF Check, Verdicts
  <2>4. Len(toPool) \in Nat \ {0} /\ Len(toPool') = Len(toPool) - 1 /\ d = toPool[1].seq
    <3> DEFINE T == [seq : Seqs, job : JobIds]
    <3>1. toPool \in Seq(T)
      BY DEF ChannelInv, ChannelTypes
    <3> HIDE DEF T
    <3> QED  BY <2>1, <3>1
  <2> HIDE DEF d
  <2>5. /\ Checked' = Checked + 1 /\ d = Checked + 1 /\ Checked \in Nat /\ d \in 1 .. last_sent
        /\ d \in Seqs /\ d > Checked
    <3>1. last_sent \in Nat /\ last_sent <= MaxSeq /\ MaxSeq \in Nat
      BY Sv2Assumption DEF ChannelInv, ShareInv, ShareTypes
    <3>2. Len(toPool) <= last_sent /\ 1 \in 1 .. Len(toPool)
      BY <1>2, <2>4 DEF InOrder
    <3>3. d = Checked + 1
      BY <1>2, <2>4, <3>2 DEF InOrder
    <3>4. Checked \in Nat /\ Checked' = Checked + 1 /\ Checked + 1 <= last_sent
      BY <1>1, <2>4, <3>1, <3>2 DEF Checked
    <3> QED  BY <3>1, <3>3, <3>4 DEF Seqs
  <2>6. decision[d] = "none" /\ decision \in [Seqs -> Verdicts \cup {"none"}]
    BY <1>2, <2>5 DEF InOrder, ChannelInv, ChannelTypes
  <2>7. \A s \in Seqs : s # d => decision'[s] = decision[s]
    BY <2>3, <2>6
  <2>8. d \in pending
    <3>1. \A r \in out \cup told : r.verdict \in Verdicts
      BY DEF ChannelInv, ShareInv, ShareTypes
    <3>2. \A r \in out \cup told : r.id # d
      BY <1>2, <2>6, <3>1 DEF Truthful, Verdicts
    <3> QED  BY <1>2, <2>5, <3>2 DEF Accounted
  <2>9. last_ack' <= Checked' /\ last_ack' \in Nat /\ d > last_ack'
    <3>1. last_ack <= Checked /\ last_ack \in Nat
      BY <1>2 DEF AnswersApply, ChannelInv, ShareInv, ShareTypes
    <3> QED  BY <1>1, <2>5, <3>1
  <2>10. /\ \A s \in unacked' : s > last_ack'
         /\ unreported' \subseteq pending'
    BY <1>1, <1>2, <2>3, <2>8, <2>9 DEF AnswersApply
  <2>11. ASSUME NEW n \in 1 .. Len(toMiner), toMiner[n].type = "Accepted"
         PROVE  decision'[toMiner[n].last] = "accepted"
    <3>1. toMiner[n] \in PoolMessages
      BY <1>3
    <3>2. toMiner[n].last \in Seqs /\ decision[toMiner[n].last] = "accepted"
      BY <1>2, <2>11, <3>1 DEF PoolMessages, AnswersApply
    <3> QED  BY <2>6, <2>7, <3>2
  <2>12. ASSUME NEW n \in 1 .. Len(toMiner), toMiner[n].type = "Rejected"
         PROVE  toMiner[n].seq \in pending' \ unreported'
    <3>1. toMiner[n].seq # d
      BY <1>2, <2>6, <2>12 DEF Truthful
    <3> QED  BY <1>1, <1>2, <2>3, <2>12, <3>1 DEF AnswersApply
  <2>13. AnswersApply'
    BY <1>1, <1>2, <2>1, <2>9, <2>10, <2>11, <2>12 DEF AnswersApply
  <2> QED  BY <2>2, <2>13
<1> QED  BY <1>7, <1>8, <1>9, <1>11, <1>12, <1>13 DEF Pool

\* The miner works on a message, and its requirement holds.
LEMMA KeepReceive ==
    ASSUME ChannelInv, KeepInv, conforming, MinerReceive
    PROVE  /\ failed' = FALSE /\ Greeting' /\ Opened' /\ AnswersApply'
           /\ JobsInStep(Known', previous' # NoHash, toMiner', pJobs', pTip')
<1> DEFINE m == Head(toMiner)
<1>1. /\ UNCHANGED <<toPool, greeted, pJobs, pTip, decision, unacked, unreported>>
      /\ ~failed /\ toMiner # <<>> /\ toMiner' = Tail(toMiner) /\ Receive(m)
  BY DEF MinerReceive, Receive
<1>2. Handle(m) /\ UNCHANGED <<failed, told>> /\ Require(m)
  BY <1>1, RequireHolds DEF Receive
<1>3. /\ Greeting /\ Opened /\ AnswersApply
      /\ JobsInStep(Known, previous # NoHash, toMiner, pJobs, pTip)
      /\ AcksExact(pending, batches, toMiner, decision, unacked) /\ InOrder /\ Truthful
      /\ JobTable /\ generation \in Int /\ previous \in Hashes \cup {NoHash}
  BY <1>1 DEF ChannelInv, KeepInv, InStep
<1>4. /\ toMiner \in Seq(PoolMessages) /\ m \in PoolMessages /\ batches \in Seq(Batches)
      /\ last_sent \in Nat /\ pending \subseteq 1 .. last_sent /\ last_ack \in Nat
      /\ pending \subseteq Nat /\ failed \in BOOLEAN
      /\ 1 \in 1 .. Len(toMiner) /\ m = toMiner[1] /\ Len(toMiner) \in Nat
      /\ (Len(toMiner) + 1) - 1 = Len(toMiner)
  BY <1>1 DEF ChannelInv, ChannelTypes, ShareInv, ShareTypes
<1>5. IsFiniteSet(pending)
  <2>1. IsFiniteSet(1 .. last_sent)
    BY <1>4, CountTo
  <2> QED  BY <1>4, <2>1, FS_Subset
<1>6. JobsInStep(Known', previous' # NoHash, toMiner', pJobs', pTip')
  <2> DEFINE has == previous # NoHash
             had == previous' # NoHash
  <2>1. /\ has \in BOOLEAN /\ pTip \in BOOLEAN /\ JobsInStep(Known, has, toMiner, pJobs, pTip)
        /\ Known' = Learn(Known, m) /\ had = (has \/ m.type = "PrevHash")
    BY <1>2, <1>3, <1>4, HandleLearns DEF Opened
  <2> HIDE DEF has, had
  <2>2. JobsInStep(Learn(Known, m), has \/ m.type = "PrevHash", toMiner', pJobs, pTip)
    BY <1>1, <1>4, <2>1, JobsReceive
  <2> QED  BY <1>1, <2>1, <2>2 DEF had
<1>7. Greeting'
  BY <1>1, <1>2, <1>3, <1>4, GreetingReceive
<1> HIDE DEF m
<1>8. last_sent' = last_sent
  BY <1>2 DEF Handle, SetupSuccess, OpenSuccess, NewJob, PrevHash, Target, Accepted, Rejected,
              shareVars
<1>9. Opened'
  <2>1. last_sent # 0 => phase' = 3
    <3>0. /\ m.type = "SetupSuccess" => phase = 1
          /\ m.type = "OpenSuccess" => phase = 2
      BY <1>2 DEF Require
    <3>1. phase = 3 => m.type \notin {"SetupSuccess", "OpenSuccess"}
      BY <3>0
    <3>2. phase = 3 => phase' = 3
      BY <1>2, <3>1 DEF Handle, SetupSuccess, OpenSuccess, NewJob, PrevHash, Target, Accepted,
                        Rejected
    <3> QED  BY <1>3, <3>2 DEF Opened
  <2> QED  BY <1>1, <1>3, <1>8, <2>1 DEF Opened
<1>10. last_ack <= Checked /\ \A s \in unacked : s > last_ack
  BY <1>3 DEF AnswersApply
<1>11. CASE SetupSuccess(m) \/ OpenSuccess(m) \/ NewJob(m) \/ PrevHash(m) \/ Target(m)
  <2> DEFINE none == {}
  <2>1. last_ack' = last_ack /\ pending' = pending \ none /\ \A s \in none : FALSE
    BY <1>11 DEF SetupSuccess, OpenSuccess, NewJob, PrevHash, Target, shareVars
  <2> HIDE DEF none
  <2>2. AnswersApply'
    BY <1>1, <1>3, <1>4, <1>5, <1>8, <1>10, <2>1, AnswersReceive
  <2> QED  BY <1>1, <1>2, <1>6, <1>7, <1>9, <2>2
<1>12. CASE Accepted(m)
  <2> DEFINE b == [last |-> m.last, count |-> m.count]
             B == Append(batches, b)
             S == SettledShares(pending, B)
  <2>1. /\ m.type = "Accepted" /\ pending' = pending \ S /\ last_ack' = m.last
    BY <1>12 DEF Accepted, settle
  <2>2. /\ m.last \in Seqs /\ m.count \in 1 .. MaxPending /\ m.last \in pending
        /\ m.last > last_ack
    BY <1>2, <1>4, <2>1 DEF PoolMessages, Require
  <2>3. b \in Batches /\ b.last = m.last /\ b.count = m.count
    BY <2>2 DEF Batches
  <2> HIDE DEF b
  <2>4. AcksExact(pending, B, toMiner', decision, unacked)
    BY <1>1, <1>3, <1>4, <2>1, <2>3, AcksQueue DEF m
  <2>5. /\ B \in Seq(Batches) /\ Len(batches) \in Nat /\ Len(B) = Len(batches) + 1
        /\ B[Len(batches) + 1] = b /\ \A i \in 1 .. Len(batches) : B[i] = batches[i]
    BY <1>4, <2>3
  <2> HIDE DEF B
  <2>6. \A s \in S : decision[s] = "accepted"
    <3> DEFINE M == toMiner'
    <3>1. AcksExact(pending, B, M, decision, unacked)
      BY <2>4
    <3> HIDE DEF M
    <3>2. pending \in SUBSET Nat
      BY <1>4
    <3> QED  BY <1>5, <2>5, <3>1, <3>2, AcksSettle
  <2>7. \A i \in 1 .. Len(B) : B[i].last <= m.last
    <3> SUFFICES ASSUME NEW i \in 1 .. Len(B) PROVE B[i].last <= m.last
      OBVIOUS
    <3>1. m.last \in Nat
      BY <1>4, <2>2
    <3>2. CASE i = Len(batches) + 1
      BY <2>3, <2>5, <3>1, <3>2
    <3>3. CASE i # Len(batches) + 1
      <4>1. i \in 1 .. Len(batches)
        BY <2>5, <3>3
      <4>2. batches[i].last <= last_ack /\ batches[i] \in Batches
        BY <1>4, <4>1 DEF ChannelInv, ShareInv, AckBound
      <4>3. batches[i].last \in Nat
        BY <4>2, Sv2Assumption DEF Batches, Seqs
      <4> QED  BY <1>4, <2>2, <2>5, <3>1, <4>1, <4>2, <4>3
    <3> QED  BY <3>2, <3>3
  <2>8. \A s \in S : s <= m.last
    <3> SUFFICES ASSUME NEW s \in S PROVE s <= m.last
      OBVIOUS
    <3>1. PICK i \in 1 .. Len(B) : s <= B[i].last
      BY <2>5, SettleRemoves
    <3>2. s \in Nat
      BY <1>4, <2>5, SettleRemoves
    <3>3. B[i] \in Batches
      BY <2>5
    <3>4. B[i].last \in Nat /\ m.last \in Nat
      BY <1>4, <2>2, <3>3, Sv2Assumption DEF Batches, Seqs
    <3> QED  BY <2>7, <3>1, <3>2, <3>4
  <2>9. m.last <= Checked
    <3>1. decision[m.last] = "accepted"
      BY <1>3, <1>4, <2>1 DEF AnswersApply
    <3>2. ~ (m.last > Checked)
      BY <1>3, <2>2, <3>1 DEF InOrder
    <3>3. Checked \in Int /\ m.last \in Nat
      <4> DEFINE T == [seq : Seqs, job : JobIds]
      <4>1. toPool \in Seq(T)
        BY DEF ChannelInv, ChannelTypes
      <4> HIDE DEF T
      <4>2. Len(toPool) \in Nat
        BY <4>1
      <4>3. m.last \in Nat /\ last_sent \in Nat
        BY <1>4, <2>2
      <4> QED  BY <4>2, <4>3 DEF Checked
    <3> QED  BY <3>2, <3>3
  <2>10. \A s \in unacked : s > m.last
    <3>1. m.last \in Lasts(batches, toMiner, Len(toMiner) + 1)
      BY <1>4, <2>1 DEF Lasts
    <3> QED  BY <1>3, <3>1 DEF AcksExact, AcceptedAbove
  <2> HIDE DEF S
  <2>11. AnswersApply'
    BY <1>1, <1>3, <1>4, <1>5, <1>8, <2>1, <2>2, <2>6, <2>8, <2>9, <2>10, AnswersReceive DEF m
  <2> QED  BY <1>1, <1>2, <1>6, <1>7, <1>9, <2>11
<1>13. CASE Rejected(m)
  <2> DEFINE P == pending \ {m.seq}
             S == SettledShares(P, batches)
             R == S \cup {m.seq}
  <2>1. m.type = "Rejected" /\ pending' = P \ S /\ last_ack' = last_ack
    BY <1>13 DEF Rejected, settle
  <2>2. decision[m.seq] \in {"rejected", "stale"}
    BY <1>3, <1>4, <2>1 DEF Truthful
  <2>3. P \in SUBSET pending /\ P \in SUBSET Nat
    BY <1>4
  <2>4. \A s \in pending \cup P : decision[s] = "accepted" => s \in pending \cap P
    BY <2>2
  <2>5. pending' = pending \ R
    BY <2>1
  <2> HIDE DEF P
  <2>6. \A s \in S : decision[s] = "accepted"
    <3>1. AcksExact(P, batches, toMiner, decision, unacked)
      BY <1>3, <2>4, AcksSame
    <3> QED  BY <1>4, <1>5, <2>3, <3>1, AcksSettle, FS_Subset
  <2>7. \A s \in S : s <= last_ack
    <3> SUFFICES ASSUME NEW s \in S PROVE s <= last_ack
      OBVIOUS
    <3>1. PICK i \in 1 .. Len(batches) : s <= batches[i].last
      BY <1>4, SettleRemoves
    <3>2. s \in Nat
      BY <1>4, <2>3, SettleRemoves
    <3>3. batches[i] \in Batches /\ batches[i].last <= last_ack
      BY <1>4 DEF ChannelInv, ShareInv, AckBound
    <3>4. batches[i].last \in Nat
      BY <3>3, Sv2Assumption DEF Batches, Seqs
    <3> QED  BY <1>4, <3>1, <3>2, <3>3, <3>4
  <2>8. \A s \in R : \/ decision[s] = "accepted" /\ s <= last_ack'
                     \/ m.type = "Rejected" /\ s = m.seq
    BY <2>1, <2>6, <2>7
  <2> HIDE DEF R
  <2>9. AnswersApply'
    BY <1>1, <1>3, <1>4, <1>5, <1>8, <1>10, <2>1, <2>5, <2>8, AnswersReceive DEF m
  <2> QED  BY <1>1, <1>2, <1>6, <1>7, <1>9, <2>9
<1> QED  BY <1>2, <1>11, <1>12, <1>13 DEF Handle

\* A submit below the limit of unacknowledged ones keeps the answers applicable.
LEMMA KeepSubmit ==
    ASSUME ChannelInv, KeepInv, conforming, ~failed, NEW j \in issued, MinerSubmit(j), ~failed'
    PROVE  /\ Greeting' /\ Opened' /\ AnswersApply'
           /\ JobsInStep(Known', previous' # NoHash, toMiner', pJobs', pTip')
<1>1. /\ UNCHANGED <<toMiner, greeted, pJobs, pTip, decision, unacked, unreported>>
      /\ UNCHANGED <<phase, jobs, previous, last_ack>>
      /\ phase = 3 /\ Cardinality(pending) < MaxPending
      /\ pending' = pending \cup {last_sent + 1} /\ last_sent' = last_sent + 1
      /\ toPool' = Append(toPool, [seq |-> last_sent', job |-> j.wire_job])
  BY DEF MinerSubmit, submit, Fail, valid, jobVars
<1>2. /\ Greeting /\ Opened /\ AnswersApply
      /\ JobsInStep(Known, previous # NoHash, toMiner, pJobs, pTip)
  BY DEF KeepInv
<1>3. Greeting' /\ Opened'
  BY <1>1, <1>2 DEF Greeting, Opened, NoGreeting
<1>4. JobsInStep(Known', previous' # NoHash, toMiner', pJobs', pTip')
  BY <1>1, <1>2 DEF Known
<1>5. /\ last_sent \in Nat /\ pending \subseteq 1 .. last_sent
  BY DEF ChannelInv, ShareInv, ShareTypes
<1>6. Cardinality(pending') <= MaxPending
  <2>1. IsFiniteSet(1 .. last_sent)
    BY <1>5, CountTo
  <2>2. IsFiniteSet(pending)
    BY <1>5, <2>1, FS_Subset
  <2>3. last_sent + 1 \notin pending
    BY <1>5
  <2>4. Cardinality(pending \cup {last_sent + 1}) = Cardinality(pending) + 1
        /\ Cardinality(pending) \in Nat
    BY <2>2, <2>3, FS_AddElement, FS_CardinalityType, Zenon
  <2> QED  BY <1>1, <2>4, Sv2Assumption
<1>7. Checked' = Checked
  <2> DEFINE T == [seq : Seqs, job : JobIds]
             x == [seq |-> last_sent', job |-> j.wire_job]
  <2>1. toPool \in Seq(T) /\ toPool' = Append(toPool, x)
    BY <1>1 DEF ChannelInv, ChannelTypes
  <2> HIDE DEF T, x
  <2>2. Len(toPool) \in Nat /\ Len(toPool') = Len(toPool) + 1
    BY <2>1
  <2> QED  BY <1>1, <1>5, <2>2 DEF Checked
<1>8. AnswersApply'
  BY <1>1, <1>2, <1>6, <1>7 DEF AnswersApply
<1> QED  BY <1>3, <1>4, <1>8

\* Every step keeps the answers applicable.
LEMMA KeepStep == ChannelInv /\ KeepInv /\ [ChannelNext]_allVars => KeepInv'
<1> SUFFICES ASSUME ChannelInv, KeepInv, [ChannelNext]_allVars PROVE KeepInv'
  OBVIOUS
<1>1. ChannelInv'
  BY ChannelStep
<1>2. JobTable' /\ generation' \in Int /\ previous' \in Hashes \cup {NoHash}
  <2>1. CASE UNCHANGED jobVars
    BY <2>1 DEF jobVars, KeepInv, JobTable
  <2>2. CASE \/ UNCHANGED allVars \/ Pool \/ MinerHandshake \/ MinerReturn
             \/ \E j \in issued : MinerSubmit(j)
    BY <2>1, <2>2 DEF allVars, vars, Pool, MinerHandshake, MinerReturn, Handshake, Return,
                      MinerSubmit, submit, Fail
  <2>3. CASE AnyPool
    BY <2>1, <2>3, TableReceive DEF AnyPool, HandshakeRefused, Fail, KeepInv
  <2>4. CASE MinerReceive
    <3>1. Head(toMiner) \in PoolMessages
      BY <2>4 DEF MinerReceive, ChannelInv, ChannelTypes
    <3> QED  BY <2>4, <3>1, TableReceive DEF MinerReceive, KeepInv
  <2> QED  BY <2>2, <2>3, <2>4 DEF ChannelNext
<1>3. SUFFICES ASSUME conforming', ~failed'
               PROVE  /\ Greeting' /\ Opened' /\ AnswersApply'
                      /\ JobsInStep(Known, previous # NoHash, toMiner, pJobs, pTip)'
  BY <1>2 DEF KeepInv
<1>4. conforming
  BY <1>3 DEF ChannelNext, Pool, AnyPool, MinerHandshake, MinerReceive, MinerReturn,
              MinerSubmit, poolVars, allVars
<1>5. ~failed
  BY <1>3 DEF ChannelNext, Pool, AnyPool, MinerHandshake, MinerReceive, MinerReturn,
              MinerSubmit, allVars, vars, HandshakeRefused, Receive, Handshake, Return, submit
<1>6. /\ Greeting /\ Opened /\ AnswersApply
      /\ JobsInStep(Known, previous # NoHash, toMiner, pJobs, pTip)
  BY <1>4, <1>5 DEF KeepInv
<1>7. CASE /\ UNCHANGED <<jobVars, shareVars, poolVars>>
           /\ phase' = phase \/ (phase = 0 /\ phase' = 1)
  <2>1. /\ UNCHANGED <<jobs, previous, pending, last_ack, last_sent>>
        /\ UNCHANGED <<toPool, toMiner, greeted, pJobs, pTip, decision, unacked, unreported>>
    BY <1>7 DEF jobVars, shareVars, poolVars
  <2>2. Greeting' /\ Opened'
    BY <1>6, <1>7, <2>1 DEF Greeting, Opened, NoGreeting
  <2>3. AnswersApply'
    BY <1>6, <2>1 DEF AnswersApply, Checked
  <2>4. JobsInStep(Known, previous # NoHash, toMiner, pJobs, pTip)'
    BY <1>6, <2>1 DEF Known
  <2> QED  BY <2>2, <2>3, <2>4
<1>8. CASE UNCHANGED allVars \/ MinerHandshake \/ MinerReturn
  BY <1>7, <1>8 DEF allVars, vars, MinerHandshake, MinerReturn, Handshake, Return
<1>9. CASE Pool
  <2>1. Known' = Known /\ previous' = previous
    BY <1>9 DEF Pool, vars, jobVars, Known
  <2> QED  BY <1>1, <1>4, <1>5, <1>9, <2>1, KeepPool DEF ChannelInv
<1>10. CASE AnyPool
  BY <1>4, <1>10 DEF AnyPool
<1>11. CASE MinerReceive
  BY <1>4, <1>11, KeepReceive
<1>12. ASSUME NEW j \in issued, MinerSubmit(j)
       PROVE  /\ Greeting' /\ Opened' /\ AnswersApply'
              /\ JobsInStep(Known, previous # NoHash, toMiner, pJobs, pTip)'
  BY <1>3, <1>4, <1>5, <1>12, KeepSubmit
<1> QED  BY <1>8, <1>9, <1>10, <1>11, <1>12 DEF ChannelNext

\* Both invariants hold in every reachable state of the channel.
THEOREM KeepInvariance == ChannelSpec => [](ChannelInv /\ KeepInv)
<1>1. ChannelInit => KeepInv
  <2> SUFFICES ASSUME ChannelInit PROVE KeepInv
    OBVIOUS
  <2>1. JobTable /\ generation \in Int /\ previous \in Hashes \cup {NoHash}
    BY DEF ChannelInit, Init, JobTable, Absent
  <2>2. /\ Len(toMiner) = 0 /\ 1 .. 0 = {} /\ (0 + 1) - 1 = 0
        /\ phase = 0 /\ greeted = 0 /\ pJobs = {} /\ ~pTip /\ pTip \in BOOLEAN
        /\ last_sent = 0 /\ last_ack = 0 /\ pending = {} /\ unacked = {} /\ unreported = {}
        /\ previous = NoHash /\ Len(toPool) = 0
    <3>1. Len(toMiner) = 0 /\ Len(toPool) = 0
      BY DEF ChannelInit
    <3>2. phase = 0 /\ last_sent = 0 /\ last_ack = 0 /\ pending = {} /\ previous = NoHash
      BY DEF ChannelInit, Init
    <3>3. greeted = 0 /\ pJobs = {} /\ unacked = {} /\ unreported = {}
      BY DEF ChannelInit
    <3>4. ~pTip /\ pTip \in BOOLEAN
      BY DEF ChannelInit
    <3>5. 1 .. 0 = {} /\ (0 + 1) - 1 = 0
      OBVIOUS
    <3> QED  BY <3>1, <3>2, <3>3, <3>4, <3>5, Zenon
  <2>3. Greeting /\ Opened
    BY <2>2 DEF Greeting, Opened
  <2>4. AnswersApply
    <3>1. Cardinality(pending) <= MaxPending
      BY <2>2, FS_EmptySet, Sv2Assumption
    <3> QED  BY <2>2, <3>1 DEF AnswersApply, Checked
  <2>5. Known = {}
    BY DEF ChannelInit, Init, Known, Absent
  <2>6. Live(Known, toMiner, Len(toMiner) + 1) = {}
    BY <2>2, <2>5 DEF Live
  <2>7. JobsInStep(Known, previous # NoHash, toMiner, pJobs, pTip)
    BY <2>2, <2>6 DEF JobsInStep
  <2> QED  BY <2>1, <2>3, <2>4, <2>7 DEF KeepInv
<1> QED  BY <1>1, ChannelInvariance, KeepStep, PTL DEF ChannelSpec

\* No answer of a conforming pool ends the session, at any limit of
\* unacknowledged submits: every require() of receive() and settle() holds
\* (sv2_session.cpp:49, 93-144).
THEOREM AnswersNeverFail ==
    ChannelSpec => [][conforming /\ MinerReceive => ~failed']_allVars
<1>1. ChannelInv /\ KeepInv => [conforming /\ MinerReceive => ~failed']_allVars
  BY KeepReceive
<1> QED  BY <1>1, KeepInvariance, PTL

\* Below the limit of unacknowledged submits (sv2_session.cpp:158) a
\* conforming pool keeps the session, whatever it sends and in whatever order.
THEOREM ConformingKeeps ==
    ASSUME MaxSeq <= MaxPending
    PROVE  ChannelSpec => []ConformingPoolKeepsSession
<1>1. ChannelInit => ConformingPoolKeepsSession
  BY DEF ChannelInit, Init, ConformingPoolKeepsSession
<1>2. ChannelInv /\ KeepInv /\ ConformingPoolKeepsSession /\ [ChannelNext]_allVars
         => ConformingPoolKeepsSession'
  <2> SUFFICES ASSUME ChannelInv, KeepInv, ConformingPoolKeepsSession,
                      [ChannelNext]_allVars, conforming'
               PROVE  ~failed'
    BY DEF ConformingPoolKeepsSession
  <2>1. conforming /\ ~failed
    BY DEF ChannelNext, Pool, AnyPool, MinerHandshake, MinerReceive, MinerReturn,
           MinerSubmit, poolVars, allVars, ConformingPoolKeepsSession
  <2>2. ASSUME NEW j \in issued, MinerSubmit(j) PROVE ~failed'
    <3>1. last_sent < MaxSeq /\ last_sent \in Nat /\ pending \subseteq 1 .. last_sent
      BY <2>2 DEF MinerSubmit, submit, ChannelInv, ShareInv, ShareTypes
    <3>2. IsFiniteSet(1 .. last_sent) /\ Cardinality(1 .. last_sent) = last_sent
      BY <3>1, CountTo
    <3>3. Cardinality(pending) <= last_sent /\ Cardinality(pending) \in Nat
      BY <3>1, <3>2, FS_Subset, FS_CardinalityType
    <3>4. ~ (Cardinality(pending) >= MaxPending)
      BY <3>1, <3>3, Sv2Assumption
    <3> QED  BY <2>1, <2>2, <3>4 DEF MinerSubmit, submit
  <2>3. CASE Pool \/ MinerHandshake \/ MinerReturn \/ UNCHANGED allVars
    BY <2>1, <2>3 DEF Pool, MinerHandshake, MinerReturn, Handshake, Return, allVars, vars
  <2>4. CASE MinerReceive
    BY <2>1, <2>4, KeepReceive
  <2> QED  BY <2>1, <2>2, <2>3, <2>4 DEF ChannelNext, AnyPool
<1> QED  BY <1>1, <1>2, KeepInvariance, PTL DEF ChannelSpec
=============================================================================
