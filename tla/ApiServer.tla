------------------------------ MODULE ApiServer ------------------------------
(***************************************************************************)
(* The HTTP status server (src/src/api.cpp): one thread accepts loopback   *)
(* connections one after the other, reads a request, answers with the last *)
(* published snapshot and closes.  Reading and writing each have a         *)
(* deadline; clients may be slow, silent, endless or gone.  The miner      *)
(* publishes snapshots and, at its end, destroys the server.               *)
(*                                                                         *)
(* A request is a number of pieces and a kind; a reply is the version of   *)
(* the snapshot it was made from, or NotFound, sent in pieces.  Clock      *)
(* values are not modelled: `late' may become true whenever a deadline is  *)
(* running.                                                                *)
(***************************************************************************)
EXTENDS Integers, Sequences

CONSTANTS
    Clients,
    RequestSize, \* pieces of a whole request
    MaxRequest,  \* 4096 bytes: pieces after which reading stops
    ReplySize,   \* pieces of a reply; a client that does not read holds one
    NotFound,    \* the body of a 404
    NoClient,
    MaxUpdates   \* bound: snapshots published

ASSUME ApiAssumption ==
    /\ {RequestSize, MaxRequest, ReplySize} \subseteq Nat \ {0}
    /\ RequestSize <= MaxRequest
    /\ NotFound \notin Nat
    /\ NoClient \notin Clients
    /\ MaxUpdates \in Nat

VARIABLES
    pc,        \* the server: "loop", "poll", "request", "reply" or "done"
    stop,      \* stop requested of it
    client,    \* connection being served
    got,       \* pieces of its request
    late,      \* the running deadline has passed
    body, off, \* reply and pieces of it sent
    snapshot,  \* version update() published last
    backlog,   \* connections waiting for accept
    conn,      \* per client: state of the socket, kind of request, pieces of it
               \* sent and still unread, and whether a reply piece is unread
    destroyed, \* the destructor has returned
    asked      \* history: version published when a client's request was complete

serviceVars == <<client, got, late, body, off>>
vars == <<pc, stop, serviceVars, snapshot, backlog, conn, destroyed, asked>>

\* "get" is a GET of / or /summary, "other" any other whole request, "endless"
\* one whose end never comes.
Kinds == {"get", "other", "endless"}

NewConn == [state |-> "new", kind |-> "get", sent |-> 0, unread |-> 0, full |-> FALSE]
Closed  == [NewConn EXCEPT !.state = "closed"]

Init ==
    /\ pc = "loop"
    /\ stop = FALSE
    /\ client = NoClient
    /\ got = 0
    /\ late = FALSE
    /\ body = NotFound
    /\ off = 0
    /\ snapshot = 0
    /\ backlog = <<>>
    /\ conn = [c \in Clients |-> NewConn]
    /\ destroyed = FALSE
    /\ asked = [c \in Clients |-> 0]

-----------------------------------------------------------------------------
(* The server thread *)

Loop ==
    /\ pc = "loop"
    /\ pc' = IF stop THEN "done" ELSE "poll"
    /\ UNCHANGED <<stop, serviceVars, snapshot, backlog, conn, destroyed, asked>>

\* Nothing to accept within 100 ms.
PollTimeout ==
    /\ pc = "poll"
    /\ backlog = <<>>
    /\ pc' = "loop"
    /\ UNCHANGED <<stop, serviceVars, snapshot, backlog, conn, destroyed, asked>>

Accept ==
    /\ pc = "poll"
    /\ backlog # <<>>
    /\ client' = Head(backlog)
    /\ backlog' = Tail(backlog)
    /\ conn' = [conn EXCEPT ![Head(backlog)].state = "open"]
    /\ pc' = "request"
    /\ UNCHANGED <<stop, got, late, body, off, snapshot, destroyed, asked>>

\* The connection was aborted before accept(), or its socket cannot be made
\* non-blocking and is closed.  Running out of descriptors, which leaves the
\* connection in the queue, is not modelled.
AcceptFails ==
    /\ pc = "poll"
    /\ backlog # <<>>
    /\ backlog' = Tail(backlog)
    /\ conn' = [conn EXCEPT ![Head(backlog)] = Closed]
    /\ asked' = [asked EXCEPT ![Head(backlog)] = 0]
    /\ pc' = "loop"
    /\ UNCHANGED <<stop, serviceVars, snapshot, destroyed>>

\* The request holds an empty line.
Whole == conn[client].kind # "endless" /\ got >= RequestSize

\* Mutant: only the stop request and the size limit end the reading.
ReadingNoDeadline == ~stop /\ got < MaxRequest /\ ~Whole

\* Mutant: the stop request is not looked at and the clock is not either.
ReadingUntilWhole == got < MaxRequest /\ ~Whole

Reading == ~stop /\ got < MaxRequest /\ ~late /\ ~Whole

\* recv() takes what has arrived, at most a buffer full of it.
Receive ==
    /\ pc = "request"
    /\ Reading
    /\ \E n \in 1 .. conn[client].unread :
          /\ got' = got + n
          /\ conn' = [conn EXCEPT ![client].unread = @ - n]
    /\ UNCHANGED <<pc, stop, client, late, body, off, snapshot, backlog, destroyed, asked>>

Serves == Whole /\ conn[client].kind = "get"

\* Mutant: the thread answers from a copy it made when it was started.
AnswerFirst ==
    /\ pc = "request"
    /\ ~Reading \/ (conn[client].state = "gone" /\ conn[client].unread = 0)
    /\ body' = IF Serves THEN 0 ELSE NotFound
    /\ late' = FALSE
    /\ pc' = "reply"
    /\ UNCHANGED <<stop, client, got, off, snapshot, backlog, conn, destroyed, asked>>

\* The loop ends by its condition, at the end of the stream or by an error.
Answer ==
    /\ pc = "request"
    /\ ~Reading \/ (conn[client].state = "gone" /\ conn[client].unread = 0)
    /\ body' = IF Serves THEN snapshot ELSE NotFound
    /\ late' = FALSE
    /\ pc' = "reply"
    /\ UNCHANGED <<stop, client, got, off, snapshot, backlog, conn, destroyed, asked>>

Sending == ~stop /\ off < ReplySize /\ ~late

\* What the socket takes; while it is full the loop polls.
Send ==
    /\ pc = "reply"
    /\ Sending
    /\ conn[client].state = "open"
    /\ ~conn[client].full
    /\ off' = off + 1
    /\ conn' = [conn EXCEPT ![client].full = TRUE]
    /\ UNCHANGED <<pc, stop, client, got, late, body, snapshot, backlog, destroyed, asked>>

\* The loop ends by its condition or by an error of send(); the locals of the
\* loop body are gone.
CloseClient ==
    /\ pc = "reply"
    /\ ~Sending \/ conn[client].state = "gone"
    /\ conn' = [conn EXCEPT ![client] = Closed]
    /\ asked' = [asked EXCEPT ![client] = 0]
    /\ client' = NoClient
    /\ got' = 0
    /\ late' = FALSE
    /\ body' = NotFound
    /\ off' = 0
    /\ pc' = "loop"
    /\ UNCHANGED <<stop, snapshot, backlog, destroyed>>

Server ==
    \/ Loop \/ PollTimeout \/ Accept \/ AcceptFails
    \/ Receive \/ Answer \/ Send \/ CloseClient

\* One second after the accept, or after the reply was begun.
Deadline ==
    /\ pc \in {"request", "reply"}
    /\ ~late
    /\ late' = TRUE
    /\ UNCHANGED <<pc, stop, client, got, body, off, snapshot, backlog, conn, destroyed, asked>>

-----------------------------------------------------------------------------
(* The miner *)

update ==
    /\ ~stop
    /\ snapshot < MaxUpdates
    /\ snapshot' = snapshot + 1
    /\ UNCHANGED <<pc, stop, serviceVars, backlog, conn, destroyed, asked>>

\* The destructor requests the stop, joins the thread and closes the listener,
\* which refuses whom it did not accept.
Destroy ==
    /\ ~stop
    /\ stop' = TRUE
    /\ UNCHANGED <<pc, serviceVars, snapshot, backlog, conn, destroyed, asked>>

Joined ==
    /\ stop
    /\ pc = "done"
    /\ ~destroyed
    /\ destroyed' = TRUE
    /\ backlog' = <<>>
    /\ conn' = [c \in Clients |-> IF conn[c].state = "waiting" THEN Closed ELSE conn[c]]
    /\ UNCHANGED <<pc, stop, serviceVars, snapshot, asked>>

-----------------------------------------------------------------------------
(* Clients *)

Connect(c, k) ==
    /\ conn[c].state = "new"
    /\ ~destroyed
    /\ conn' = [conn EXCEPT ![c].state = "waiting", ![c].kind = k]
    /\ backlog' = Append(backlog, c)
    /\ UNCHANGED <<pc, stop, serviceVars, snapshot, destroyed, asked>>

ClientSends(c) ==
    /\ conn[c].state \in {"waiting", "open"}
    /\ conn[c].sent < (IF conn[c].kind = "endless" THEN MaxRequest ELSE RequestSize)
    /\ conn' = [conn EXCEPT ![c].sent = @ + 1, ![c].unread = @ + 1]
    /\ asked' = [asked EXCEPT ![c] = IF conn[c].sent + 1 = RequestSize THEN snapshot ELSE @]
    /\ UNCHANGED <<pc, stop, serviceVars, snapshot, backlog, destroyed>>

ClientReads(c) ==
    /\ conn[c].full
    /\ conn' = [conn EXCEPT ![c].full = FALSE]
    /\ UNCHANGED <<pc, stop, serviceVars, snapshot, backlog, destroyed, asked>>

ClientGone(c) ==
    /\ conn[c].state = "open"
    /\ conn' = [conn EXCEPT ![c].state = "gone", ![c].full = FALSE]
    /\ UNCHANGED <<pc, stop, serviceVars, snapshot, backlog, destroyed, asked>>

Next ==
    \/ Server \/ Deadline
    \/ update \/ Destroy \/ Joined
    \/ \E c \in Clients :
          \/ \E k \in Kinds : Connect(c, k)
          \/ ClientSends(c) \/ ClientReads(c) \/ ClientGone(c)

\* Polls return, the clock advances and the join returns when the thread has
\* ended; nothing is assumed of the clients.
Spec ==
    /\ Init
    /\ [][Next]_vars
    /\ WF_vars(Server)
    /\ WF_vars(Deadline)
    /\ WF_vars(Joined)

-----------------------------------------------------------------------------
(* Properties *)

\* A summary that is sent is no older than the snapshot that was in force when
\* the request was complete, however slowly the request came and whatever was
\* published meanwhile (api.cpp:54-59, 75).
ReplyIsCurrent == body # NotFound => body \in asked[client] .. snapshot

\* "slow clients cannot block mining or shutdown" (api.cpp:46): the destructor
\* returns with clients that send nothing, never end or do not read
\* (api.cpp:49, 61, 71).
DestructorReturns == stop ~> destroyed

\* A client in the queue gets its turn however slow those before it are
\* (api.cpp:48-67).
EveryClientHasItsTurn ==
    \A c \in Clients : conn[c].state = "waiting" ~> conn[c].state # "waiting"
=============================================================================
