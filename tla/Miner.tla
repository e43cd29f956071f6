-------------------------------- MODULE Miner --------------------------------
(***************************************************************************)
(* The connection thread of mine() (src/src/miner.cpp:422-716): connect,   *)
(* poll the pool, publish work, submit what the devices found, book the    *)
(* answers, drain at the end, reconnect with backoff after an error.       *)
(*                                                                         *)
(* The thread is a program counter over the steps of its loop, so that     *)
(* expiry, pool messages and device results fall between any two steps.    *)
(* Device threads (module Scheduler) only appear as the producers of found *)
(* shares and of a failure.  A share is its device row and the epoch of    *)
(* the job it was found on; epochs and share ids restart with every        *)
(* session, as they do in the code.  Clock values are not modelled: each   *)
(* time limit may strike whenever its other conditions hold.               *)
(***************************************************************************)
EXTENDS Integers, Sequences, FiniteSets

CONSTANTS
    Rows,        \* devices
    MaxPending,  \* 4096: unanswered shares
    MaxBackoff,  \* 30 seconds
    MaxRead,     \* 1024: messages one read may return
    PoolCalls,   \* does the pool send requests of its own, with numeric ids?
    MaxSent,     \* bound: shares submitted in a run
    MaxFound,    \* bound: shares waiting in the queue
    MaxSessions, \* bound: connections
    MaxEpoch,    \* bound: clean jobs in a session
    MaxWire      \* bound: unread pool messages

ASSUME MinerAssumption ==
    /\ {MaxPending, MaxRead} \subseteq Nat
    /\ MaxBackoff \in Nat \ {0}
    /\ PoolCalls \in BOOLEAN
    /\ {MaxSent, MaxFound, MaxSessions, MaxEpoch, MaxWire} \subseteq Nat

VARIABLES
    pc,         \* next step of the connection thread
    expired,    \* expired(): interrupt, quit key or --seconds
    fatal, had_work, backoff,
    view,       \* counters of the dashboard and the API
    device,     \* the same counters per row
    sessions,   \* connections made
    \* locals of a session
    base,       \* shares sent before this session: id i is share base + i
    authorized, tip, work, activated,
    draining, drain_over,
    inbox, found, failure, queue,
    pending,    \* ids sent and not answered
    \* the pool's side
    toMiner, answered, closed,
    shares      \* history: every share sent, in order

processVars == <<expired, fatal, had_work, backoff, view, device, sessions>>
sessionVars == <<base, authorized, tip, work, activated, draining, drain_over,
                 inbox, found, failure, queue, pending>>
poolVars    == <<toMiner, answered, closed>>
vars == <<pc, processVars, sessionVars, poolVars, shares>>

Answers == {"accepted", "rejected", "stale"}
Zero    == [a \in Answers |-> 0]
Live    == pc \notin {"loop", "backoff", "stopped"}
Ids     == 1 .. Len(shares) - base

FoundShares == [row : Rows, epoch : 1 .. MaxEpoch, session : 1 .. MaxSessions]

TypeOK ==
    /\ pc \in {"loop", "top", "drain", "read", "messages", "submit", "backoff",
               "stopped"}
    /\ {expired, fatal, had_work, authorized, activated, draining, drain_over,
        failure, closed} \subseteq BOOLEAN
    /\ backoff \in 1 .. MaxBackoff
    /\ view \in [Answers \cup {"pending"} -> 0 .. MaxSent]
    /\ device \in [Rows -> [Answers -> 0 .. MaxSent]]
    /\ sessions \in 0 .. MaxSessions
    /\ base \in 0 .. Len(shares)
    /\ tip \in 0 .. MaxEpoch
    /\ work \in 0 .. tip
    /\ found \in Seq(FoundShares) /\ queue \in Seq(FoundShares)
    /\ pending \subseteq Ids /\ answered \subseteq Ids
    /\ Cardinality(pending) <= MaxPending
    /\ Len(shares) <= MaxSent

Init ==
    /\ pc = "loop"
    /\ expired = FALSE
    /\ fatal = FALSE
    /\ had_work = FALSE
    /\ backoff = 1
    /\ view = [a \in Answers \cup {"pending"} |-> 0]
    /\ device = [r \in Rows |-> Zero]
    /\ sessions = 0
    /\ base = 0
    /\ authorized = FALSE
    /\ tip = 0
    /\ work = 0
    /\ activated = FALSE
    /\ draining = FALSE
    /\ drain_over = FALSE
    /\ inbox = <<>>
    /\ found = <<>>
    /\ failure = FALSE
    /\ queue = <<>>
    /\ pending = {}
    /\ toMiner = <<>>
    /\ answered = {}
    /\ closed = FALSE
    /\ shares = <<>>

-----------------------------------------------------------------------------
(* Outer loop *)

\* Mutant: the share queue survives the session.
FreshSessionKeepsFound ==
    /\ authorized' = FALSE
    /\ tip' = 0
    /\ work' = 0
    /\ activated' = FALSE
    /\ draining' = FALSE
    /\ drain_over' = FALSE
    /\ inbox' = <<>>
    /\ failure' = FALSE
    /\ queue' = <<>>
    /\ pending' = {}
    /\ toMiner' = <<>>
    /\ answered' = {}
    /\ closed' = FALSE
    /\ UNCHANGED found

\* What a session holds when it starts, and no longer holds when it is over.
FreshSession ==
    /\ authorized' = FALSE
    /\ tip' = 0
    /\ work' = 0
    /\ activated' = FALSE
    /\ draining' = FALSE
    /\ drain_over' = FALSE
    /\ inbox' = <<>>
    /\ found' = <<>>
    /\ failure' = FALSE
    /\ queue' = <<>>
    /\ pending' = {}
    /\ toMiner' = <<>>
    /\ answered' = {}
    /\ closed' = FALSE

\* The socket, the pool session, the shared state and the device threads.
Connect ==
    /\ pc = "loop"
    /\ ~expired /\ ~fatal
    /\ sessions < MaxSessions
    /\ sessions' = sessions + 1
    /\ base' = Len(shares)
    /\ FreshSession
    /\ pc' = "top"
    /\ UNCHANGED <<expired, fatal, had_work, backoff, view, device, shares>>

ConnectFails ==
    /\ pc = "loop"
    /\ ~expired /\ ~fatal
    /\ pc' = "backoff"
    /\ UNCHANGED <<processVars, sessionVars, poolVars, shares>>

\* An exception destroys the session (struct Stop joins the device threads)
\* and enters the catch block: only a device error ends the outer loop.  The
\* catch block shows the view as it stands, with the pending count of the last
\* complete iteration.
Throw(device_error) ==
    /\ FreshSession
    /\ base' = Len(shares)
    /\ fatal' = device_error
    /\ pc' = IF device_error THEN "loop" ELSE "backoff"
    /\ UNCHANGED <<expired, had_work, backoff, view, device, sessions, shares>>

\* The wait is over or cut short by expiry; the next one is twice as long.
BackoffDone ==
    /\ pc = "backoff"
    /\ backoff' = IF 2 * backoff > MaxBackoff THEN MaxBackoff ELSE 2 * backoff
    /\ pc' = "loop"
    /\ UNCHANGED <<expired, fatal, had_work, view, device, sessions, sessionVars,
                   poolVars, shares>>

Finish ==
    /\ pc = "loop"
    /\ expired \/ fatal
    /\ pc' = "stopped"
    /\ UNCHANGED <<processVars, sessionVars, poolVars, shares>>

-----------------------------------------------------------------------------
(* Session loop *)

\* Mutant: the drain has no deadline.
KeepGoingForever == ~expired \/ pending # {}

KeepGoing ==
    \/ ~expired
    \/ ~draining /\ pending # {}
    \/ draining /\ pending # {} /\ ~drain_over

LoopTop ==
    /\ pc = "top"
    /\ KeepGoing
    /\ pc' = "drain"
    /\ UNCHANGED <<processVars, sessionVars, poolVars, shares>>

\* The regular end: the threads are joined, the locals destroyed.
SessionEnds ==
    /\ pc = "top"
    /\ ~KeepGoing
    /\ FreshSession
    /\ base' = Len(shares)
    /\ pc' = "loop"
    /\ UNCHANGED <<processVars, shares>>

StartDrain ==
    /\ pc = "drain"
    /\ pc' = "read"
    /\ draining' = (draining \/ expired)
    /\ UNCHANGED <<processVars, base, authorized, tip, work, activated, drain_over,
                   inbox, found, failure, queue, pending, poolVars, shares>>

\* read() takes what arrives, line by line, until recv() would block: it looks
\* at nothing but the stream and its own count of messages.  (An SV2 read is a
\* single recv(), whose behaviours are among these.)
Recv ==
    /\ pc = "read"
    /\ toMiner # <<>>
    /\ Head(toMiner).type # "blank"
    /\ Len(inbox) < MaxRead
    /\ inbox' = Append(inbox, Head(toMiner))
    /\ toMiner' = Tail(toMiner)
    /\ UNCHANGED <<pc, processVars, base, authorized, tip, work, activated,
                   draining, drain_over, found, failure, queue, pending,
                   answered, closed, shares>>

\* An empty line is skipped; it counts toward no limit.
RecvBlank ==
    /\ pc = "read"
    /\ toMiner # <<>>
    /\ Head(toMiner).type = "blank"
    /\ toMiner' = Tail(toMiner)
    /\ UNCHANGED <<pc, processVars, sessionVars, answered, closed, shares>>

\* A line that is too long or does not parse, or a message too many: read()
\* throws, and with it goes what the same call had read.
RecvRefused ==
    /\ pc = "read"
    /\ toMiner # <<>>
    /\ \/ Head(toMiner).type = "bad"
       \/ Head(toMiner).type # "blank" /\ Len(inbox) >= MaxRead
    /\ Throw(FALSE)

\* recv() would block.  The rest of what was sent may still be in transit.
WouldBlock ==
    /\ pc = "read"
    /\ pc' = "messages"
    /\ UNCHANGED <<processVars, sessionVars, poolVars, shares>>

\* End of stream: read() throws as well.
ReadClosed ==
    /\ pc = "read"
    /\ closed
    /\ Throw(FALSE)

\* Mutant: the first answer empties the table.
BookClearsTable(id, answer) ==
    LET k == base + id
        r == shares[k].row
    IN  /\ view' = [view EXCEPT ![answer] = @ + 1]
        /\ device' = [device EXCEPT ![r][answer] = @ + 1]
        /\ shares' = [shares EXCEPT ![k].booked = answer]
        /\ pending' = {}

\* Mutant: the device is that of the share with this id in the first session.
BookFirstSession(id, answer) ==
    LET k == base + id
        r == shares[id].row
    IN  /\ view' = [view EXCEPT ![answer] = @ + 1]
        /\ device' = [device EXCEPT ![r][answer] = @ + 1]
        /\ shares' = [shares EXCEPT ![k].booked = answer]
        /\ pending' = pending \ {id}

\* Mutant: an answered share stays in the table.
BookKeepsPending(id, answer) ==
    LET k == base + id
        r == shares[k].row
    IN  /\ view' = [view EXCEPT ![answer] = @ + 1]
        /\ device' = [device EXCEPT ![r][answer] = @ + 1]
        /\ shares' = [shares EXCEPT ![k].booked = answer]
        /\ UNCHANGED pending

Book(id, answer) ==
    LET k == base + id
        r == shares[k].row
    IN  /\ view' = [view EXCEPT ![answer] = @ + 1]
        /\ device' = [device EXCEPT ![r][answer] = @ + 1]
        /\ shares' = [shares EXCEPT ![k].booked = answer]
        /\ pending' = pending \ {id}

\* Mutant: error 21 is taken for any other rejection.
AnswerNoStale(m) ==
    IF m.type = "reply" /\ m.answer = "accepted" THEN m.answer ELSE "rejected"

\* Any message with a numeric id that is pending answers that share: result
\* true is an acceptance, error 21 a stale share, all else a rejection.
Answer(m) ==
    IF m.type = "reply" THEN m.answer ELSE "rejected"

BookMessage(m) ==
    \/ /\ m.type \in {"reply", "call"} /\ m.id \in pending
       /\ Book(m.id, Answer(m))
    \/ /\ ~(m.type \in {"reply", "call"} /\ m.id \in pending)
       /\ UNCHANGED <<view, device, shares, pending>>

Epoch(m) == IF m.type = "job" THEN tip + 1 ELSE tip
Authorized(m) == authorized \/ m.type = "authorized"

\* Mutant: work is published by the message that brings a job, and by no other.
PublishesJobsOnly(m) == ~draining /\ Authorized(m) /\ m.type = "job"

Publishes(m) == ~draining /\ Authorized(m) /\ (m.type = "job" \/ ~activated)

Message ==
    /\ pc = "messages"
    /\ inbox # <<>>
    /\ Head(inbox).type # "bad"
    /\ LET m == Head(inbox) IN
          /\ authorized' = Authorized(m)
          /\ tip' = Epoch(m)
          /\ BookMessage(m)
          /\ \/ /\ Publishes(m)
                /\ work' = Epoch(m)
                /\ activated' = (Epoch(m) # 0)
                /\ had_work' = (had_work \/ Epoch(m) # 0)
                /\ backoff' = IF Epoch(m) # 0 THEN 1 ELSE backoff
             \/ /\ ~Publishes(m)
                /\ UNCHANGED <<work, activated, had_work, backoff>>
    /\ inbox' = Tail(inbox)
    /\ UNCHANGED <<pc, expired, fatal, sessions, base, draining, drain_over,
                   found, failure, queue, poolVars>>

\* A refused authorization, a handshake out of order, a protocol error.
BadMessage ==
    /\ pc = "messages"
    /\ inbox # <<>>
    /\ Head(inbox).type = "bad"
    /\ Throw(FALSE)

MessagesDone == pc = "messages" /\ inbox = <<>>

\* Under the lock: the queue is taken, unless a device has failed.
Swap ==
    /\ MessagesDone
    /\ ~failure
    /\ queue' = found
    /\ found' = <<>>
    /\ pc' = "submit"
    /\ UNCHANGED <<processVars, base, authorized, tip, work, activated, draining,
                   drain_over, inbox, failure, pending, poolVars, shares>>

SeeFailure ==
    /\ MessagesDone
    /\ failure
    /\ Throw(TRUE)

valid(f) == authorized /\ f.epoch = tip

\* While draining, and for jobs that are no longer valid, shares are dropped.
Drop ==
    /\ pc = "submit"
    /\ queue # <<>>
    /\ draining \/ ~valid(Head(queue))
    /\ queue' = Tail(queue)
    /\ UNCHANGED <<pc, processVars, base, authorized, tip, work, activated, draining,
                   drain_over, inbox, found, failure, pending, poolVars, shares>>

Sendable == pc = "submit" /\ queue # <<>> /\ ~draining /\ valid(Head(queue))

Submit ==
    /\ Sendable
    /\ Cardinality(pending) < MaxPending
    /\ Len(shares) < MaxSent
    /\ shares' = Append(shares, [row |-> Head(queue).row,
                                 session |-> sessions,
                                 found_in |-> Head(queue).session,
                                 decided |-> "none", booked |-> "none"])
    /\ pending' = pending \cup {Len(shares) + 1 - base}
    /\ queue' = Tail(queue)
    /\ UNCHANGED <<pc, processVars, base, authorized, tip, work, activated, draining,
                   drain_over, inbox, found, failure, poolVars>>

\* Too many unanswered shares, or the socket is gone.
SubmitFails ==
    /\ Sendable
    /\ Cardinality(pending) >= MaxPending \/ closed
    /\ Throw(FALSE)

\* The independent hash check refuses what the device reported.
HashCheckFails ==
    /\ Sendable
    /\ Cardinality(pending) < MaxPending
    /\ Throw(TRUE)

SubmitDone == pc = "submit" /\ queue = <<>>

\* 120 s without a message, or 60 s without the answer to a share.
Timeout ==
    /\ SubmitDone
    /\ Throw(FALSE)

EndOfIteration ==
    /\ SubmitDone
    /\ view' = [view EXCEPT !["pending"] = Cardinality(pending)]
    /\ pc' = "top"
    /\ UNCHANGED <<expired, fatal, had_work, backoff, device, sessions, sessionVars,
                   poolVars, shares>>

MainStep ==
    \/ Connect \/ ConnectFails \/ BackoffDone \/ Finish
    \/ LoopTop \/ SessionEnds \/ StartDrain
    \/ Recv \/ RecvBlank \/ RecvRefused \/ ReadClosed \/ WouldBlock
    \/ Message \/ BadMessage
    \/ Swap \/ SeeFailure \/ Drop \/ Submit \/ SubmitFails \/ HashCheckFails
    \/ Timeout \/ EndOfIteration

-----------------------------------------------------------------------------
(* Everything else that moves *)

Expire ==
    /\ ~expired
    /\ pc # "stopped"
    /\ expired' = TRUE
    /\ UNCHANGED <<pc, fatal, had_work, backoff, view, device, sessions, sessionVars,
                   poolVars, shares>>

\* Five seconds after the drain began.
DrainDeadline ==
    /\ Live /\ draining /\ ~drain_over
    /\ drain_over' = TRUE
    /\ UNCHANGED <<pc, processVars, base, authorized, tip, work, activated, draining,
                   inbox, found, failure, queue, pending, poolVars, shares>>

\* A device finishes a scan of the present job or of one it still held.
Find(r, e) ==
    /\ Live
    /\ e <= work
    /\ Len(found) < MaxFound
    /\ found' = Append(found, [row |-> r, epoch |-> e, session |-> sessions])
    /\ UNCHANGED <<pc, processVars, base, authorized, tip, work, activated, draining,
                   drain_over, inbox, failure, queue, pending, poolVars, shares>>

DeviceFails ==
    /\ Live /\ ~failure
    /\ failure' = TRUE
    /\ UNCHANGED <<pc, processVars, base, authorized, tip, work, activated, draining,
                   drain_over, inbox, found, queue, pending, poolVars, shares>>

CanSend == Live /\ ~closed /\ Len(toMiner) < MaxWire

JobsOnWire == Len(SelectSeq(toMiner \o inbox, LAMBDA m : m.type = "job"))

PoolSends(m) ==
    /\ CanSend
    /\ m.type = "job" => tip + JobsOnWire < MaxEpoch
    /\ toMiner' = Append(toMiner, m)
    /\ UNCHANGED <<pc, processVars, sessionVars, answered, closed, shares>>

PoolAnswers(id, answer) ==
    /\ CanSend
    /\ id \notin answered
    /\ answered' = answered \cup {id}
    /\ shares' = [shares EXCEPT ![base + id].decided = answer]
    /\ toMiner' = Append(toMiner, [type |-> "reply", id |-> id, answer |-> answer])
    /\ UNCHANGED <<pc, processVars, sessionVars, closed>>

PoolCloses ==
    /\ Live /\ ~closed
    /\ closed' = TRUE
    /\ UNCHANGED <<pc, processVars, sessionVars, toMiner, answered, shares>>

Environment ==
    \/ Expire
    \/ DrainDeadline
    \/ DeviceFails
    \/ PoolCloses
    \/ \E r \in Rows, e \in 1 .. MaxEpoch : Find(r, e)
    \/ \E t \in {"job", "authorized", "bad", "blank"} : PoolSends([type |-> t])
    \/ \E id \in Ids, a \in Answers : PoolAnswers(id, a)
    \/ PoolCalls /\ \E id \in 1 .. MaxSent : PoolSends([type |-> "call", id |-> id])

Next == MainStep \/ Environment

\* The thread always gets to its next step, which may be the next line of the
\* same read(): every socket wait is limited to ten seconds and every sleep is
\* short.  The clock passes the drain deadline.
Spec == Init /\ [][Next]_vars /\ WF_vars(MainStep) /\ WF_vars(DrainDeadline)

-----------------------------------------------------------------------------
(* Properties *)

Count(P(_)) == Cardinality({k \in 1 .. Len(shares) : P(shares[k])})

\* "acknowledged accepted/rejected/stale shares" (docs/RELEASES.md:170): what
\* is booked for a share is what the pool answered to that share, across
\* reused ids, sessions and answers that cross with the end of the session
\* (miner.cpp:582-614).
BookedAsAnswered ==
    \A k \in 1 .. Len(shares) :
        shares[k].booked # "none" => shares[k].booked = shares[k].decided

\* Every counter is the number of shares booked that way, in total and for the
\* device that found them: nothing is booked twice or to another device
\* (miner.cpp:591-611).
CountersAddUp ==
    \A a \in Answers :
        /\ view[a] = Count(LAMBDA s : s.booked = a)
        /\ \A r \in Rows : device[r][a] = Count(LAMBDA s : s.booked = a /\ s.row = r)

\* Shares of earlier sessions that were never answered.
Lost == Cardinality({k \in 1 .. base : shares[k].booked = "none"})

\* The numbers that are published together belong together: at the end of an
\* iteration, also the first after a lost session, accepted, rejected, stale
\* and pending shares are all that were sent, less those that went with their
\* session (miner.cpp:582-611, 684).
PublishedAddsUp ==
    [][(pc = "submit" /\ pc' = "top") =>
          view'["accepted"] + view'["rejected"] + view'["stale"] + view'["pending"]
             = Len(shares) - Lost]_vars

\* Shares of a lost session never reach the next one, although job generations
\* and ids start again (miner.cpp:452-467, 542-543).
OwnSessionOnly == \A k \in 1 .. Len(shares) : shares[k].session = shares[k].found_in

\* Once authorized, the devices work on the newest job the pool has announced,
\* whichever of the job and the authorization came first: a job that was held
\* back is published by a later message (miner.cpp:582, 615-628).
WorkIsNewest == (authorized /\ ~draining) => work = tip

\* "The miner waits up to five additional seconds for outstanding replies"
\* (docs/VALIDATION.md:178): when a session ends in the regular way, every
\* share it sent has been booked, or the drain deadline has passed
\* (miner.cpp:547-554, 582-612).
DrainWaits ==
    [][(pc = "top" /\ pc' = "loop") =>
          \/ drain_over
          \/ \A k \in base + 1 .. Len(shares) : shares[k].booked # "none"]_vars

\* Once stopped by the user or by a fatal error, mine() returns, whatever the
\* pool does (miner.cpp:422, 547-548, 698-703), with one exception: a read()
\* that the pool feeds empty lines for ever.  They count toward no limit, and
\* the loop looks at expired() only after read() (miner.cpp:174-197, 547).
Terminates ==
    \/ <>[](pc = "read") /\ []<><<RecvBlank>>_vars
    \/ (expired \/ fatal) ~> pc = "stopped"
=============================================================================
