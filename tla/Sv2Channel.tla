----------------------------- MODULE Sv2Channel -----------------------------
(***************************************************************************)
(* sv2::Session talking to a pool over two FIFO streams.  A conforming pool *)
(* checks shares in the order it gets them, but it is free in when it      *)
(* answers: accepted shares are acknowledged in batches, and the error for *)
(* a rejected share may come before, between or after the batches that     *)
(* pass it ("Delayed error replies may identify the remaining submits",    *)
(* sv2_session.cpp:52).  Any other pool sends what it likes (Sv2Session).  *)
(*                                                                         *)
(* The pool is external: it is modelled from what the session sends, what  *)
(* it requires of the answers, and what the comment above allows.          *)
(***************************************************************************)
EXTENDS Sv2Session

CONSTANTS
    PoolJobs, PoolHashes  \* bound: ids and hashes a conforming pool uses

ASSUME PoolAssumption == PoolJobs \subseteq JobIds /\ PoolHashes \subseteq Hashes

VARIABLES
    conforming,  \* the pool follows the protocol
    toPool,      \* submits on their way
    toMiner,     \* pool messages on their way
    greeted,     \* handshake answers the pool has sent: 0, 1 or 2
    pJobs,       \* ids the pool considers live
    pTip,        \* the pool has announced a previous hash
    activations, \* jobs the pool has activated
    decision,    \* the pool's verdict per share, "none" before it is checked
    unacked,     \* accepted shares not yet acknowledged
    unreported   \* rejected shares whose error was not yet sent

poolVars == <<conforming, toPool, toMiner, greeted, pJobs, pTip, activations, decision,
              unacked, unreported>>
allVars == <<vars, poolVars>>

ChannelInit ==
    /\ Init
    /\ conforming \in BOOLEAN
    /\ toPool = <<>>
    /\ toMiner = <<>>
    /\ greeted = 0
    /\ pJobs = {}
    /\ pTip = FALSE
    /\ activations = 0
    /\ decision = [s \in Seqs |-> "none"]
    /\ unacked = {}
    /\ unreported = {}

-----------------------------------------------------------------------------
(* The pool *)

Send(m) == toMiner' = Append(toMiner, m)

\* Answers SetupConnection, then OpenStandardMiningChannel.
Greet ==
    /\ greeted < phase
    /\ greeted < 2
    /\ greeted' = greeted + 1
    /\ Send([type |-> IF greeted = 0 THEN "SetupSuccess" ELSE "OpenSuccess", ok |-> TRUE])
    /\ UNCHANGED <<toPool, pJobs, pTip, activations, decision, unacked, unreported>>

OfferJob(id, now) ==
    /\ greeted = 2
    /\ id \notin pJobs
    /\ Cardinality(pJobs) < MaxJobs
    /\ now => pTip /\ activations < MaxGen
    /\ pJobs' = pJobs \cup {id}
    /\ activations' = IF now THEN activations + 1 ELSE activations
    /\ Send([type |-> "NewJob", channel |-> "own", job |-> id, now |-> now])
    /\ UNCHANGED <<toPool, greeted, pTip, decision, unacked, unreported>>

NewTip(id, h) ==
    /\ id \in pJobs
    /\ activations < MaxGen
    /\ pJobs' = {id}
    /\ pTip' = TRUE
    /\ activations' = activations + 1
    /\ Send([type |-> "PrevHash", channel |-> "group", job |-> id, hash |-> h, ok |-> TRUE])
    /\ UNCHANGED <<toPool, greeted, decision, unacked, unreported>>

\* Checks the next share.  A share for a job that is gone is stale.
Check ==
    /\ toPool # <<>>
    /\ toPool' = Tail(toPool)
    /\ \E v \in IF Head(toPool).job \in pJobs THEN {"accepted", "rejected"} ELSE {"stale"} :
          /\ decision' = [decision EXCEPT ![Head(toPool).seq] = v]
          /\ unacked' = IF v = "accepted" THEN unacked \cup {Head(toPool).seq} ELSE unacked
          /\ unreported' = IF v = "accepted" THEN unreported
                                             ELSE unreported \cup {Head(toPool).seq}
    /\ UNCHANGED <<toMiner, greeted, pJobs, pTip, activations>>

\* Acknowledges the accepted shares up to one of them.
Acknowledge(last) ==
    /\ unacked' = {s \in unacked : s > last}
    /\ Send([type |-> "Accepted", channel |-> "own", last |-> last,
             count |-> Cardinality({s \in unacked : s <= last})])
    /\ UNCHANGED <<toPool, greeted, pJobs, pTip, activations, decision, unreported>>

Report(s) ==
    /\ unreported' = unreported \ {s}
    /\ Send([type |-> "Rejected", channel |-> "own", seq |-> s,
             stale |-> decision[s] = "stale"])
    /\ UNCHANGED <<toPool, greeted, pJobs, pTip, activations, decision, unacked>>

PoolAcknowledge == \E s \in unacked : Acknowledge(s)
PoolReport == \E s \in unreported : Report(s)

Pool ==
    /\ conforming
    /\ \/ Greet
       \/ \E id \in PoolJobs, now \in BOOLEAN : OfferJob(id, now)
       \/ \E id \in PoolJobs, h \in PoolHashes : NewTip(id, h)
       \/ Check
       \/ PoolAcknowledge
       \/ PoolReport
    /\ UNCHANGED <<vars, conforming>>

-----------------------------------------------------------------------------
(* The miner's side of the channel *)

MinerHandshake == Handshake /\ UNCHANGED poolVars

\* One frame of the stream.
MinerReceive ==
    /\ toMiner # <<>>
    /\ Receive(Head(toMiner))
    /\ toMiner' = Tail(toMiner)
    /\ UNCHANGED <<conforming, toPool, greeted, pJobs, pTip, activations, decision, unacked, unreported>>

MinerReturn == Return /\ UNCHANGED poolVars

\* Any frame at any time; what such a pool does with shares does not matter.
AnyPool ==
    /\ ~conforming
    /\ HandshakeRefused \/ \E m \in Messages : Within(m) /\ Receive(m)
    /\ UNCHANGED poolVars

\* A submit that throws sends nothing.
MinerSubmit(j) ==
    /\ submit(j)
    /\ toPool' = IF conforming /\ ~failed'
                  THEN Append(toPool, [seq |-> last_sent', job |-> j.wire_job])
                  ELSE toPool
    /\ UNCHANGED <<conforming, toMiner, greeted, pJobs, pTip, activations, decision, unacked, unreported>>

ChannelNext ==
    \/ Pool
    \/ AnyPool
    \/ MinerHandshake
    \/ MinerReceive
    \/ MinerReturn
    \/ \E j \in issued : MinerSubmit(j)

\* The mining loop polls the socket for ever; the pool answers every share in
\* the end, in an order and in batches of its own choosing.
ChannelFairness ==
    /\ WF_allVars(MinerReceive)
    /\ WF_allVars(MinerReturn)
    /\ WF_allVars(Check /\ UNCHANGED <<vars, conforming>>)
    /\ WF_allVars(PoolAcknowledge /\ UNCHANGED <<vars, conforming>>)
    /\ WF_allVars(PoolReport /\ UNCHANGED <<vars, conforming>>)

ChannelSpec == ChannelInit /\ [][ChannelNext]_allVars /\ ChannelFairness

-----------------------------------------------------------------------------
(* Properties *)

\* No pool that follows the protocol makes a require() of the session fail,
\* however it batches acknowledgements and delays errors, and however jobs and
\* shares cross on the wire (sv2_session.cpp:49, 93-144).
ConformingPoolKeepsSession == conforming => ~failed

\* The miner books exactly what the pool decided: a share the pool rejected is
\* never settled by a batch that passed it (sv2_session.cpp:43-59).
VerdictsAgree ==
    conforming => \A r \in out \cup told : r.verdict = decision[r.id]

\* Every submitted share is answered in the end: no order of batches and
\* errors leaves a batch waiting for ever (sv2_session.cpp:51-52).
EveryShareSettles ==
    \A s \in Seqs : (conforming /\ s \in pending) ~> \E r \in told : r.id = s
=============================================================================
