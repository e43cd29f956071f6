----------------------------- MODULE Sv2Session -----------------------------
(***************************************************************************)
(* sv2::Session (src/src/sv2_session.cpp): one Stratum V2 standard channel *)
(* seen from the miner.  The pool is arbitrary: every decoded message may  *)
(* arrive in every state.  receive() works through the frames of one read; *)
(* a failed require() (or an undecodable frame) throws out of it, which    *)
(* ends the session and drops the results collected from that read.        *)
(*                                                                         *)
(* Hashes, targets, ids and the wire layout are abstract.  A job that      *)
(* workers hold is the record activate() fills in; `issued' remembers all  *)
(* of them, since a worker may return a share for any of them.             *)
(***************************************************************************)
EXTENDS Integers, Sequences, FiniteSets

CONSTANTS
    JobIds,      \* wire job ids
    Hashes,      \* hidden previous hashes
    NoHash,      \* value of `previous' before the first PrevHash
    MaxJobs,     \* 1024: stored jobs
    MaxPending,  \* 4096: unacknowledged submits; also the largest batch count
    MaxGen,      \* bound: activations in a session
    MaxSeq       \* bound: shares submitted in a session

ASSUME Sv2Assumption ==
    /\ NoHash \notin Hashes
    /\ MaxJobs \in Nat
    /\ MaxPending \in Nat \ {0}
    /\ MaxGen \in Nat
    /\ MaxSeq \in Nat

VARIABLES
    phase,          \* 0 handshake, 1 setup sent, 2 open sent, 3 channel open
    previous,       \* hidden previous hash; NoHash is have_previous = false
    jobs,           \* stored jobs: [JobIds -> Stored]
    generation, epoch,
    current,        \* generation of `current', 0 while there is none
    pending,        \* sequence numbers submitted and not settled
    batches,        \* accepted batches not yet settled
    last_ack, last_sent,
    out,            \* results collected from the read being processed
    failed,         \* an exception left the session
    issued,         \* history: every job activate() made current
    told,           \* history: the verdict the mining loop got per share
    credits         \* history: sum of the counts of all Accepted messages

jobVars   == <<previous, jobs, generation, epoch, current, issued>>
shareVars == <<pending, batches, last_ack, last_sent, credits>>
vars == <<phase, jobVars, shareVars, out, failed, told>>

Seqs     == 1 .. MaxSeq
Gens     == 1 .. MaxGen
Channels == {"own", "group", "other"}
Stored   == [kind : {"absent", "future", "active"}, generation : 0 .. MaxGen]
Absent   == [kind |-> "absent", generation |-> 0]
Jobs     == [wire_job : JobIds, generation : Gens, epoch : 0 .. MaxGen,
             previous : Hashes]
Verdicts == {"accepted", "rejected", "stale"}

Messages ==
    [type : {"SetupSuccess", "OpenSuccess"}, ok : BOOLEAN]
    \cup [type : {"NewJob"}, channel : Channels, job : JobIds, now : BOOLEAN]
    \cup [type : {"PrevHash"}, channel : Channels, job : JobIds,
          hash : Hashes, ok : BOOLEAN]
    \cup [type : {"Target"}, channel : Channels]
    \cup [type : {"Accepted"}, channel : Channels, last : Seqs,
          count : 0 .. MaxPending + 1]
    \cup [type : {"Rejected"}, channel : Channels, seq : Seqs, stale : BOOLEAN]
    \cup [type : {"Error"}]

-----------------------------------------------------------------------------
Known == {id \in JobIds : jobs[id].kind # "absent"}

\* Mutant: the stored job's generation is not compared.
ValidAnyGeneration(j) ==
    /\ phase = 3
    /\ jobs[j.wire_job].kind = "active"

\* Session::valid
valid(j) ==
    /\ phase = 3
    /\ j.epoch = epoch
    /\ jobs[j.wire_job].kind = "active"
    /\ jobs[j.wire_job].generation = j.generation

-----------------------------------------------------------------------------
(* settle(): accepted batches are worked off in order.  The lasts of the    *)
(* queue increase, so once the batches before it are settled the shares of  *)
(* batch i are the pending ones above its predecessor's last.               *)

Covered(P, B, i) ==
    {s \in P : s <= B[i].last /\ \A k \in 1 .. i - 1 : s > B[k].last}

\* Mutant: a batch is settled although more submits than it counts are open.
CompleteEarly(P, B, i) == Cardinality(Covered(P, B, i)) >= B[i].count

Complete(P, B, i) == Cardinality(Covered(P, B, i)) = B[i].count

\* Batches the loop settles: up to the first one that waits for an error reply.
SettledBatches(P, B) ==
    {i \in 1 .. Len(B) : \A k \in 1 .. i : Complete(P, B, k)}

\* Mutant: the session fails when a batch has to wait for an error reply.
SettleOkExact(P, B) ==
    \A i \in 1 .. Len(B) :
        (\A k \in 1 .. i - 1 : Complete(P, B, k)) => Complete(P, B, i)

\* "require(n >= b.count)" on every batch the loop visits.
SettleOk(P, B) ==
    \A i \in 1 .. Len(B) :
        (\A k \in 1 .. i - 1 : Complete(P, B, k))
            => Cardinality(Covered(P, B, i)) >= B[i].count

SettledShares(P, B) == UNION {Covered(P, B, i) : i \in SettledBatches(P, B)}

RemainingBatches(P, B) ==
    SubSeq(B, Cardinality(SettledBatches(P, B)) + 1, Len(B))

settle(P, B, results) ==
    /\ pending' = P \ SettledShares(P, B)
    /\ batches' = RemainingBatches(P, B)
    /\ out' = out \cup results
                  \cup [id : SettledShares(P, B), verdict : {"accepted"}]

-----------------------------------------------------------------------------
TypeOK ==
    /\ phase \in 0 .. 3
    /\ previous \in Hashes \cup {NoHash}
    /\ jobs \in [JobIds -> Stored]
    /\ generation \in 0 .. MaxGen
    /\ epoch \in 0 .. MaxGen
    /\ current \in 0 .. MaxGen
    /\ pending \subseteq Seqs
    /\ batches \in Seq([last : Seqs, count : 1 .. MaxPending])
    /\ last_ack \in 0 .. MaxSeq
    /\ last_sent \in 0 .. MaxSeq
    /\ out \subseteq [id : Seqs, verdict : Verdicts]
    /\ failed \in BOOLEAN
    /\ issued \subseteq Jobs
    /\ told \subseteq [id : Seqs, verdict : Verdicts]
    /\ credits \in Nat

Init ==
    /\ phase = 0
    /\ previous = NoHash
    /\ jobs = [id \in JobIds |-> Absent]
    /\ generation = 0
    /\ epoch = 0
    /\ current = 0
    /\ pending = {}
    /\ batches = <<>>
    /\ last_ack = 0
    /\ last_sent = 0
    /\ out = {}
    /\ failed = FALSE
    /\ issued = {}
    /\ told = {}
    /\ credits = 0

-----------------------------------------------------------------------------
(* What each message must satisfy, in the order of receive() *)

Require(m) ==
    CASE m.type = "SetupSuccess" -> phase = 1 /\ m.ok
      [] m.type = "OpenSuccess"  -> phase = 2 /\ m.ok
      [] m.type = "NewJob"       ->
            /\ phase = 3
            /\ m.channel = "own"
            /\ Cardinality(Known) < MaxJobs
            /\ m.job \notin Known
            /\ m.now => previous # NoHash
      [] m.type = "PrevHash"     ->
            /\ phase = 3
            /\ m.channel \in {"own", "group"}
            /\ m.job \in Known
            /\ m.ok
      [] m.type = "Target"       -> phase = 3 /\ m.channel \in {"own", "group"}
      [] m.type = "Accepted"     ->
            /\ phase = 3
            /\ m.channel = "own"
            /\ m.count \in 1 .. MaxPending
            /\ m.last > last_ack
            /\ m.last <= last_sent
            /\ m.last \in pending
            /\ SettleOk(pending, Append(batches, [last |-> m.last, count |-> m.count]))
      [] m.type = "Rejected"     ->
            /\ phase = 3
            /\ m.channel = "own"
            /\ m.seq \in pending
            /\ SettleOk(pending \ {m.seq}, batches)
      [] m.type = "Error"        -> FALSE

\* An exception leaves receive(): the mining loop drops the session, and with
\* it the results of this read.
Fail ==
    /\ failed' = TRUE
    /\ out' = {}
    /\ UNCHANGED <<phase, jobVars, shareVars, told>>

SetupSuccess(m) ==
    /\ m.type = "SetupSuccess"
    /\ phase' = 2
    /\ UNCHANGED <<jobVars, shareVars, out>>

OpenSuccess(m) ==
    /\ m.type = "OpenSuccess"
    /\ phase' = 3
    /\ UNCHANGED <<jobVars, shareVars, out>>

\* Mutant: the activated job is stored as a future one.
ActivateAsFuture(id, table, prev, ep) ==
    /\ generation' = generation + 1
    /\ current' = generation + 1
    /\ jobs' = [table EXCEPT ![id] = [kind |-> "future", generation |-> generation + 1]]
    /\ issued' = issued \cup {[wire_job |-> id, generation |-> generation + 1,
                               epoch |-> ep, previous |-> prev]}

\* Session::activate on a stored job, with the job table it is stored in.
activate(id, table, prev, ep) ==
    /\ generation' = generation + 1
    /\ current' = generation + 1
    /\ jobs' = [table EXCEPT ![id] = [kind |-> "active", generation |-> generation + 1]]
    /\ issued' = issued \cup {[wire_job |-> id, generation |-> generation + 1,
                               epoch |-> ep, previous |-> prev]}

NewJob(m) ==
    /\ m.type = "NewJob"
    /\ \/ /\ m.now
          /\ activate(m.job, jobs, previous, epoch)
       \/ /\ ~m.now
          /\ jobs' = [jobs EXCEPT ![m.job] = [kind |-> "future", generation |-> 0]]
          /\ UNCHANGED <<generation, current, issued>>
    /\ UNCHANGED <<phase, previous, epoch, shareVars, out>>

\* Mutant: the jobs of the old tip stay valid.
PrevHashKeepsJobs(m) ==
    /\ m.type = "PrevHash"
    /\ previous' = m.hash
    /\ activate(m.job, jobs, m.hash, epoch)
    /\ UNCHANGED <<phase, epoch, shareVars, out>>

PrevHash(m) ==
    /\ m.type = "PrevHash"
    /\ previous' = m.hash
    /\ epoch' = epoch + 1
    /\ activate(m.job, [id \in JobIds |-> Absent], m.hash, epoch + 1)
    /\ UNCHANGED <<phase, shareVars, out>>

\* The new share target only matters to later activations; its value, and the
\* difficulty shown for it, are not modelled.
Target(m) ==
    /\ m.type = "Target"
    /\ UNCHANGED <<phase, jobVars, shareVars, out>>

Accepted(m) ==
    /\ m.type = "Accepted"
    /\ last_ack' = m.last
    /\ credits' = credits + m.count
    /\ settle(pending, Append(batches, [last |-> m.last, count |-> m.count]), {})
    /\ UNCHANGED <<phase, jobVars, last_sent>>

\* Mutant: an error reply does not work off the batches that waited for it.
RejectedNoSettle(m) ==
    /\ m.type = "Rejected"
    /\ pending' = pending \ {m.seq}
    /\ out' = out \cup {[id |-> m.seq,
                         verdict |-> IF m.stale THEN "stale" ELSE "rejected"]}
    /\ UNCHANGED <<phase, jobVars, batches, last_ack, last_sent, credits>>

Rejected(m) ==
    /\ m.type = "Rejected"
    /\ settle(pending \ {m.seq}, batches,
              {[id |-> m.seq, verdict |-> IF m.stale THEN "stale" ELSE "rejected"]})
    /\ UNCHANGED <<phase, jobVars, last_ack, last_sent, credits>>

Handle(m) ==
    SetupSuccess(m) \/ OpenSuccess(m) \/ NewJob(m) \/ PrevHash(m) \/ Target(m)
        \/ Accepted(m) \/ Rejected(m)

-----------------------------------------------------------------------------
(* Operations *)

\* receive() in phase 0: the Noise handshake is complete and SetupConnection
\* is sent.
Handshake ==
    /\ ~failed
    /\ phase = 0
    /\ phase' = 1
    /\ UNCHANGED <<jobVars, shareVars, out, failed, told>>

\* receive() in phase 0: bad authentication, or the 64 KiB limit.
HandshakeRefused ==
    /\ ~failed
    /\ phase = 0
    /\ Fail

\* One frame of a read.
Receive(m) ==
    /\ ~failed
    /\ phase > 0
    /\ \/ /\ Require(m)
          /\ Handle(m)
          /\ UNCHANGED <<failed, told>>
       \/ ~Require(m) /\ Fail

\* Mutant: results of a read that ended in an exception are reported too.
ReturnAfterFailure ==
    /\ out # {} \/ failed
    /\ told' = told \cup out \cup
          IF failed THEN [id : pending, verdict : {"rejected"}] ELSE {}
    /\ out' = {}
    /\ UNCHANGED <<phase, jobVars, shareVars, failed>>

\* receive() returns: the mining loop sees the results.
Return ==
    /\ ~failed
    /\ out # {}
    /\ told' = told \cup out
    /\ out' = {}
    /\ UNCHANGED <<phase, jobVars, shareVars, failed>>

\* submit(), as the mining loop calls it: after valid(), with the next id,
\* between two reads.  At the limit of unacknowledged submits it throws.
submit(j) ==
    /\ ~failed
    /\ out = {}
    /\ valid(j)
    /\ last_sent < MaxSeq
    /\ \/ /\ Cardinality(pending) < MaxPending
          /\ pending' = pending \cup {last_sent + 1}
          /\ last_sent' = last_sent + 1
          /\ UNCHANGED <<phase, jobVars, batches, last_ack, credits, out, failed, told>>
       \/ /\ Cardinality(pending) >= MaxPending
          /\ Fail

\* Bound: messages that would activate past MaxGen are not explored.
Within(m) == m.type \in {"NewJob", "PrevHash"} => generation < MaxGen

Next ==
    \/ Handshake
    \/ HandshakeRefused
    \/ \E m \in Messages : Within(m) /\ Receive(m)
    \/ Return
    \/ \E j \in issued : submit(j)

Spec == Init /\ [][Next]_vars

-----------------------------------------------------------------------------
(* Properties *)

\* Shares are only submitted for the chain tip: a job valid() accepts was
\* built on the previous hash the session has now, although valid() compares
\* only epoch and generation (sv2_session.cpp:151-155, 108-117).
ValidBuildsOnTip == \A j \in issued : valid(j) => j.previous = previous

\* A wire job id never stands for two live headers: of all jobs ever issued
\* under one id at most one is valid (sv2_session.cpp:96, 154).
OneValidJobPerId ==
    \A i, j \in issued :
        (valid(i) /\ valid(j) /\ i.wire_job = j.wire_job) => i = j

\* The work the devices are given can be submitted: whatever the pool sends,
\* the current job is a valid one (sv2_session.cpp:40-41, 615).
CurrentIsValid ==
    current # 0 => \E j \in issued : j.generation = current /\ valid(j)

\* Shares the pool acknowledged in batches that are not settled yet: the c-th
\* of batch i.
Waiting(B) == {w \in (1 .. Len(B)) \X (1 .. MaxPending) : w[2] <= B[w[1]].count}

\* "pending responses are never counted as accepted" (docs/RELEASES.md): the
\* shares reported accepted and the counts of the batches still waiting add up
\* to what the pool acknowledged, and all of them are at or below last_ack.
AcceptedAreAcknowledged ==
    LET accepted == {r \in out \cup told : r.verdict = "accepted"} IN
    /\ \A r \in accepted : r.id <= last_ack
    /\ ~failed => Cardinality(accepted) + Cardinality(Waiting(batches)) = credits

-----------------------------------------------------------------------------
(* Refinement: the session is a share ledger *)

Status(s) ==
    IF \E r \in told : r.id = s THEN (CHOOSE r \in told : r.id = s).verdict
    ELSE IF s > last_sent THEN "unsent"
    ELSE IF failed THEN "lost" ELSE "pending"

Ledger == INSTANCE ShareLedger WITH
              Ids <- Seqs, status <- [s \in Seqs |-> Status(s)], closed <- failed

\* Whatever the pool sends, shares only move from unsent to pending to one
\* final verdict, or are lost with the session (sv2_session.cpp:43-59,
\* 128-144, 156-162).
ImplementsLedger == Ledger!Spec
=============================================================================
