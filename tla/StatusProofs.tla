---------------------------- MODULE StatusProofs ----------------------------
(***************************************************************************)
(* What the miner says about itself is true: for every number of clients   *)
(* and every size of their requests an HTTP reply is no older than its     *)
(* request, and for every number of cards, every threshold and every       *)
(* reading the last thermal message of a card fits the temperature shown.  *)
(***************************************************************************)
EXTENDS ApiServer, Telemetry, TLAPS

-----------------------------------------------------------------------------
(* The status server: the inductive invariant *)

States == {"new", "waiting", "open", "gone", "closed"}
Sockets == [state : States, kind : Kinds, sent : Nat, unread : Nat, full : BOOLEAN]

ApiTypes ==
    /\ pc \in {"loop", "poll", "request", "reply", "done"}
    /\ snapshot \in Nat /\ got \in Nat
    /\ conn \in [Clients -> Sockets]
    /\ backlog \in Seq(Clients)
    /\ asked \in [Clients -> Nat]

\* Those in the queue wait, each once.
QueueWaits ==
    /\ \A i \in 1 .. Len(backlog) : conn[backlog[i]].state = "waiting"
    /\ \A i, j \in 1 .. Len(backlog) : backlog[i] = backlog[j] => i = j

\* Between two connections the loop's locals are gone.
BetweenClients ==
    pc \in {"loop", "poll", "done"} => got = 0 /\ body = NotFound

\* Every piece sent is read or waiting, and a whole request has no further one.
RequestBooks ==
    /\ \A c \in Clients : conn[c].state = "new" => conn[c].sent = 0 /\ conn[c].unread = 0
    /\ \A c \in Clients : conn[c].state = "waiting" => conn[c].unread = conn[c].sent
    /\ \A c \in Clients : conn[c].kind # "endless" => conn[c].sent <= RequestSize
    /\ pc \in {"request", "reply"} =>
          /\ client \in Clients
          /\ conn[client].state \in {"open", "gone"}
          /\ got + conn[client].unread = conn[client].sent

\* A summary is made from a whole request, after it was complete.
SummaryCurrent ==
    /\ \A c \in Clients : asked[c] <= snapshot
    /\ pc = "request" => body = NotFound
    /\ body # NotFound =>
          /\ body \in Nat
          /\ pc = "reply"
          /\ conn[client].kind # "endless" /\ got >= RequestSize
          /\ asked[client] <= body /\ body <= snapshot

ApiInv == ApiTypes /\ QueueWaits /\ BetweenClients /\ RequestBooks /\ SummaryCurrent

-----------------------------------------------------------------------------
(* The status server: steps *)

\* One socket changes.
LEMMA OneSocket ==
    ASSUME conn \in [Clients -> Sockets], NEW c \in Clients, NEW r \in Sockets,
           conn' = [conn EXCEPT ![c] = r]
    PROVE  /\ conn' \in [Clients -> Sockets]
           /\ conn'[c] = r
           /\ \A d \in Clients : d # c => conn'[d] = conn[d]
OBVIOUS

\* Steps of the thread that leave sockets, queue and history alone.
LEMMA ApiQuiet ==
    ASSUME ApiInv, UNCHANGED <<client, got, body, backlog, conn, asked>>,
           snapshot' = snapshot \/ snapshot' = snapshot + 1,
           \/ pc' = pc
           \/ pc \in {"loop", "poll"} /\ pc' \in {"loop", "poll", "done"}
    PROVE  ApiInv'
<1>1. snapshot \in Nat /\ snapshot' \in Nat /\ snapshot <= snapshot'
  BY DEF ApiInv, ApiTypes
<1>2. ApiTypes'
  BY <1>1 DEF ApiInv, ApiTypes
<1>3. QueueWaits' /\ BetweenClients' /\ RequestBooks'
  BY DEF ApiInv, ApiTypes, QueueWaits, BetweenClients, RequestBooks
<1>4. SummaryCurrent'
  <2>1. \A c \in Clients : asked[c] \in Nat /\ asked[c] <= snapshot'
    BY <1>1 DEF ApiInv, ApiTypes, SummaryCurrent
  <2>2. body # NotFound => body \in Nat /\ body <= snapshot'
    BY <1>1 DEF ApiInv, SummaryCurrent
  <2>3. body # NotFound => pc' = "reply"
    BY DEF ApiInv, SummaryCurrent
  <2>4. pc' = "request" => body = NotFound
    BY DEF ApiInv, SummaryCurrent
  <2> QED
    BY <2>1, <2>2, <2>3, <2>4 DEF ApiInv, SummaryCurrent
<1> QED
  BY <1>2, <1>3, <1>4 DEF ApiInv

\* The head of the queue leaves it.
LEMMA QueueHead ==
    ASSUME ApiTypes, QueueWaits, backlog # <<>>
    PROVE  /\ Head(backlog) \in Clients /\ conn[Head(backlog)].state = "waiting"
           /\ Tail(backlog) \in Seq(Clients)
           /\ \A i \in 1 .. Len(Tail(backlog)) :
                 /\ Tail(backlog)[i] # Head(backlog)
                 /\ Tail(backlog)[i] \in Clients
                 /\ conn[Tail(backlog)[i]].state = "waiting"
           /\ \A i, j \in 1 .. Len(Tail(backlog)) :
                 Tail(backlog)[i] = Tail(backlog)[j] => i = j
<1> DEFINE q == backlog
           t == Tail(backlog)
           h == Head(backlog)
<1>1. /\ q \in Seq(Clients) /\ q # <<>>
      /\ \A i \in 1 .. Len(q) : conn[q[i]].state = "waiting"
      /\ \A i, j \in 1 .. Len(q) : q[i] = q[j] => i = j
  BY DEF ApiTypes, QueueWaits
<1>2. /\ Len(q) \in Nat \ {0} /\ h = q[1] /\ h \in Clients
      /\ t \in Seq(Clients) /\ Len(t) = Len(q) - 1
      /\ \A i \in 1 .. Len(t) : t[i] = q[i + 1]
  BY <1>1
<1> HIDE DEF q, t, h
<1>3. 1 \in 1 .. Len(q) /\ \A i \in 1 .. Len(t) : i \in Nat \ {0} /\ i + 1 \in 1 .. Len(q)
  BY <1>2
<1>4. ASSUME NEW i \in 1 .. Len(t)
      PROVE  t[i] # h /\ t[i] \in Clients /\ conn[t[i]].state = "waiting"
  <2>1. t[i] = q[i + 1] /\ i + 1 \in 1 .. Len(q) /\ i + 1 # 1
    BY <1>2, <1>3
  <2> QED
    BY <1>1, <1>2, <1>3, <2>1
<1>5. ASSUME NEW i \in 1 .. Len(t), NEW j \in 1 .. Len(t), t[i] = t[j] PROVE i = j
  <2>1. /\ t[i] = q[i + 1] /\ i + 1 \in 1 .. Len(q) /\ i \in Nat
        /\ t[j] = q[j + 1] /\ j + 1 \in 1 .. Len(q) /\ j \in Nat
    BY <1>2, <1>3
  <2>2. i + 1 = j + 1
    BY <1>1, <1>5, <2>1
  <2> QED
    BY <2>1, <2>2
<1>6. conn[h].state = "waiting"
  BY <1>1, <1>2, <1>3
<1> QED
  BY <1>2, <1>4, <1>5, <1>6 DEF q, t, h

\* accept().
LEMMA ApiAccept ==
    ASSUME ApiInv, Accept
    PROVE  ApiInv'
<1>1. /\ pc = "poll" /\ pc' = "request" /\ backlog # <<>>
      /\ client' = Head(backlog) /\ backlog' = Tail(backlog)
      /\ conn' = [conn EXCEPT ![Head(backlog)].state = "open"]
      /\ UNCHANGED <<got, body, snapshot, asked>>
  BY DEF Accept
<1>2. ApiTypes /\ QueueWaits /\ BetweenClients /\ RequestBooks /\ SummaryCurrent
  BY DEF ApiInv
<1> DEFINE h == Head(backlog)
           t == Tail(backlog)
           r == [conn[h] EXCEPT !.state = "open"]
<1>3. /\ h \in Clients /\ conn[h].state = "waiting" /\ t \in Seq(Clients)
      /\ \A i \in 1 .. Len(t) :
            t[i] # h /\ t[i] \in Clients /\ conn[t[i]].state = "waiting"
      /\ \A i, j \in 1 .. Len(t) : t[i] = t[j] => i = j
  BY <1>1, <1>2, QueueHead
<1>4. conn \in [Clients -> Sockets] /\ conn[h] \in Sockets
  BY <1>2, <1>3 DEF ApiTypes
<1>5. /\ r \in Sockets /\ r.state = "open" /\ r.kind = conn[h].kind
      /\ r.sent = conn[h].sent /\ r.unread = conn[h].unread
  BY <1>4 DEF Sockets, States
<1>6. conn' = [conn EXCEPT ![h] = r]
  BY <1>1
<1>7. client' = h /\ backlog' = t
  BY <1>1
<1> HIDE DEF h, t, r
<1>8. conn' \in [Clients -> Sockets] /\ conn'[h] = r /\ \A d \in Clients : d # h => conn'[d] = conn[d]
  BY <1>3, <1>4, <1>5, <1>6, OneSocket
<1>9. got = 0 /\ body = NotFound
  BY <1>1, <1>2 DEF BetweenClients
<1>10. ApiTypes'
  BY <1>1, <1>2, <1>3, <1>7, <1>8 DEF ApiTypes
<1>11. QueueWaits'
  BY <1>3, <1>7, <1>8 DEF QueueWaits
<1>12. RequestBooks'
  <2>1. conn[h].unread = conn[h].sent /\ conn[h].sent \in Nat
    BY <1>2, <1>3, <1>4 DEF RequestBooks, Sockets
  <2>2. got' + conn'[client'].unread = conn'[client'].sent
    BY <1>1, <1>5, <1>7, <1>8, <1>9, <2>1
  <2>3. \A c \in Clients : conn'[c].state = "waiting" => conn'[c].unread = conn'[c].sent
    BY <1>2, <1>5, <1>8 DEF RequestBooks
  <2>4. \A c \in Clients : conn'[c].kind # "endless" => conn'[c].sent <= RequestSize
    BY <1>2, <1>5, <1>8 DEF RequestBooks
  <2> QED
    BY <1>2, <1>3, <1>5, <1>7, <1>8, <2>2, <2>3, <2>4 DEF RequestBooks
<1> QED
  BY <1>1, <1>2, <1>9, <1>10, <1>11, <1>12 DEF ApiInv, BetweenClients, SummaryCurrent

\* The closed socket.
LEMMA ClosedSocket ==
    Closed \in Sockets /\ Closed.state = "closed" /\ Closed.sent = 0 /\ Closed.unread = 0
BY DEF Closed, NewConn, Sockets, States, Kinds

\* accept() fails: the head of the queue is gone.
LEMMA ApiAcceptFails ==
    ASSUME ApiInv, AcceptFails
    PROVE  ApiInv'
<1>1. /\ pc = "poll" /\ pc' = "loop" /\ backlog # <<>>
      /\ backlog' = Tail(backlog)
      /\ conn' = [conn EXCEPT ![Head(backlog)] = Closed]
      /\ asked' = [asked EXCEPT ![Head(backlog)] = 0]
      /\ UNCHANGED <<client, got, body, snapshot>>
  BY DEF AcceptFails, serviceVars
<1>2. ApiTypes /\ QueueWaits /\ BetweenClients /\ RequestBooks /\ SummaryCurrent
  BY DEF ApiInv
<1> DEFINE h == Head(backlog)
           t == Tail(backlog)
<1>3. /\ h \in Clients /\ t \in Seq(Clients)
      /\ \A i \in 1 .. Len(t) :
            t[i] # h /\ t[i] \in Clients /\ conn[t[i]].state = "waiting"
      /\ \A i, j \in 1 .. Len(t) : t[i] = t[j] => i = j
  BY <1>1, <1>2, QueueHead
<1>4. /\ backlog' = t /\ conn' = [conn EXCEPT ![h] = Closed] /\ asked' = [asked EXCEPT ![h] = 0]
      /\ conn \in [Clients -> Sockets] /\ asked \in [Clients -> Nat]
  BY <1>1, <1>2 DEF ApiTypes
<1> HIDE DEF h, t
<1>5. /\ conn' \in [Clients -> Sockets] /\ conn'[h] = Closed
      /\ \A d \in Clients : d # h => conn'[d] = conn[d]
  BY <1>3, <1>4, ClosedSocket, OneSocket
<1>6. asked' \in [Clients -> Nat] /\ \A c \in Clients : asked'[c] = 0 \/ asked'[c] = asked[c]
  BY <1>3, <1>4
<1>7. got = 0 /\ body = NotFound /\ snapshot \in Nat /\ RequestSize \in Nat
  BY <1>1, <1>2, ApiAssumption DEF BetweenClients, ApiTypes
<1>8. ApiTypes'
  BY <1>1, <1>2, <1>3, <1>4, <1>5, <1>6 DEF ApiTypes
<1>9. QueueWaits'
  BY <1>3, <1>4, <1>5 DEF QueueWaits
<1>10. RequestBooks'
  BY <1>1, <1>2, <1>5, <1>7, ClosedSocket DEF RequestBooks
<1>11. SummaryCurrent'
  BY <1>1, <1>2, <1>6, <1>7 DEF SummaryCurrent
<1> QED
  BY <1>1, <1>7, <1>8, <1>9, <1>10, <1>11 DEF ApiInv, BetweenClients

\* A step that changes the socket of one client, by anyone but accept().
LEMMA ApiSocket ==
    ASSUME ApiInv, NEW c \in Clients, NEW r \in Sockets,
           conn' = [conn EXCEPT ![c] = r],
           UNCHANGED <<pc, client, body, snapshot, backlog>>,
           asked' \in [Clients -> Nat], \A d \in Clients : asked'[d] <= snapshot,
           got' \in Nat,
           c # client => got' = got,
           pc \in {"loop", "poll", "done"} => got' = got,
           r.kind = conn[c].kind,
           conn[c].state = "waiting" <=> r.state = "waiting",
           r.state = "new" => r.sent = 0 /\ r.unread = 0,
           r.state = "waiting" => r.unread = r.sent,
           r.kind # "endless" => r.sent <= RequestSize,
           c = client /\ pc \in {"request", "reply"} =>
              r.state \in {"open", "gone"} /\ got' + r.unread = r.sent,
           body # NotFound => got' = got /\ asked'[client] = asked[client]
    PROVE  ApiInv'
<1>1. ApiTypes /\ QueueWaits /\ BetweenClients /\ RequestBooks /\ SummaryCurrent
  BY DEF ApiInv
<1>2. conn' \in [Clients -> Sockets] /\ conn'[c] = r /\ \A d \in Clients : d # c => conn'[d] = conn[d]
  BY <1>1, OneSocket DEF ApiTypes
<1>3. ApiTypes'
  BY <1>1, <1>2 DEF ApiTypes
<1>4. QueueWaits'
  <2>1. \A i \in 1 .. Len(backlog) : backlog[i] \in Clients
    BY <1>1 DEF ApiTypes
  <2>2. \A d \in Clients : conn[d].state = "waiting" => conn'[d].state = "waiting"
    BY <1>2
  <2> QED
    BY <1>1, <2>1, <2>2 DEF QueueWaits
<1>5. RequestBooks'
  <2>1. \A d \in Clients : conn'[d].state = "waiting" => conn'[d].unread = conn'[d].sent
    BY <1>1, <1>2 DEF RequestBooks
  <2>2. \A d \in Clients : conn'[d].kind # "endless" => conn'[d].sent <= RequestSize
    BY <1>1, <1>2 DEF RequestBooks
  <2>3. ASSUME pc \in {"request", "reply"}
        PROVE  /\ client \in Clients
               /\ conn'[client].state \in {"open", "gone"}
               /\ got' + conn'[client].unread = conn'[client].sent
    BY <1>1, <1>2, <2>3 DEF RequestBooks
  <2>4. \A d \in Clients :
           conn'[d].state = "new" => conn'[d].sent = 0 /\ conn'[d].unread = 0
    BY <1>1, <1>2 DEF RequestBooks
  <2> QED
    BY <2>1, <2>2, <2>3, <2>4 DEF RequestBooks
<1>6. SummaryCurrent'
  <2>1. ASSUME body # NotFound
        PROVE  /\ body \in Nat /\ pc = "reply"
               /\ conn'[client].kind # "endless" /\ got' >= RequestSize
               /\ asked'[client] <= body /\ body <= snapshot
    <3>1. client \in Clients /\ conn'[client].kind = conn[client].kind
      BY <1>1, <1>2, <2>1 DEF SummaryCurrent, RequestBooks
    <3> QED
      BY <1>1, <2>1, <3>1 DEF SummaryCurrent
  <2> QED
    BY <1>1, <2>1 DEF SummaryCurrent
<1>7. BetweenClients'
  BY <1>1 DEF BetweenClients
<1> QED
  BY <1>3, <1>4, <1>5, <1>6, <1>7 DEF ApiInv

\* recv() and send().
LEMMA ApiTransfers ==
    ASSUME ApiInv, Receive \/ Send
    PROVE  ApiInv'
<1>1. ApiTypes /\ RequestBooks /\ SummaryCurrent
  BY DEF ApiInv
<1>2. pc \in {"request", "reply"}
  BY DEF Receive, Send
<1>3. /\ client \in Clients /\ conn[client].state \in {"open", "gone"}
      /\ got + conn[client].unread = conn[client].sent
      /\ conn[client].kind # "endless" => conn[client].sent <= RequestSize
  BY <1>1, <1>2 DEF RequestBooks
<1>4. /\ conn[client] \in Sockets /\ got \in Nat /\ snapshot \in Nat
      /\ asked \in [Clients -> Nat] /\ \A d \in Clients : asked[d] <= snapshot
  BY <1>1, <1>3 DEF ApiTypes, SummaryCurrent
<1>5. conn[client].unread \in Nat /\ conn[client].sent \in Nat
  BY <1>4 DEF Sockets
<1>6. CASE Receive
  <2>1. PICK n \in 1 .. conn[client].unread :
           got' = got + n /\ conn' = [conn EXCEPT ![client].unread = @ - n]
    BY <1>6 DEF Receive
  <2>2. pc = "request" /\ UNCHANGED <<pc, client, body, snapshot, backlog, asked>>
    BY <1>6 DEF Receive
  <2> DEFINE u == conn[client].unread - n
             r == [conn[client] EXCEPT !.unread = u]
  <2>3. u \in Nat /\ got + n \in Nat /\ (got + n) + u = conn[client].sent
    BY <1>3, <1>4, <1>5
  <2>4. conn' = [conn EXCEPT ![client] = r]
    BY <2>1
  <2> HIDE DEF u
  <2>5. /\ r \in Sockets /\ r.state = conn[client].state /\ r.kind = conn[client].kind
        /\ r.sent = conn[client].sent /\ r.unread = u
    BY <1>4, <2>3 DEF Sockets
  <2> HIDE DEF r
  <2>6. body = NotFound
    BY <1>1, <2>2 DEF SummaryCurrent
  <2>7. r.state \notin {"waiting", "new"} /\ conn[client].state # "waiting"
    BY <1>3, <2>5
  <2> QED
    BY <1>3, <1>4, <2>1, <2>2, <2>3, <2>4, <2>5, <2>6, <2>7, ApiSocket
<1>7. CASE Send
  <2>1. /\ conn' = [conn EXCEPT ![client].full = TRUE]
        /\ UNCHANGED <<pc, client, body, snapshot, backlog, asked, got>>
    BY <1>7 DEF Send
  <2> DEFINE r == [conn[client] EXCEPT !.full = TRUE]
  <2>2. conn' = [conn EXCEPT ![client] = r]
    BY <2>1
  <2>3. /\ r \in Sockets /\ r.state = conn[client].state /\ r.kind = conn[client].kind
        /\ r.sent = conn[client].sent /\ r.unread = conn[client].unread
    BY <1>4 DEF Sockets
  <2> HIDE DEF r
  <2>4. r.state \notin {"waiting", "new"} /\ conn[client].state # "waiting"
    BY <1>3, <2>3
  <2> QED
    BY <1>3, <1>4, <2>1, <2>2, <2>3, <2>4, ApiSocket, ZenonT(40)
<1> QED
  BY <1>6, <1>7

\* The reply is made from the snapshot in force.
LEMMA ApiAnswer ==
    ASSUME ApiInv, Answer
    PROVE  ApiInv'
<1>1. /\ pc = "request" /\ pc' = "reply" /\ body' = IF Serves THEN snapshot ELSE NotFound
      /\ UNCHANGED <<client, got, snapshot, backlog, conn, asked>>
  BY DEF Answer
<1>2. ApiTypes /\ QueueWaits /\ RequestBooks /\ SummaryCurrent
  BY DEF ApiInv
<1>3. ApiTypes' /\ QueueWaits' /\ BetweenClients' /\ RequestBooks'
  BY <1>1, <1>2 DEF ApiTypes, QueueWaits, BetweenClients, RequestBooks
<1>4. client \in Clients /\ snapshot \in Nat /\ asked[client] <= snapshot
  BY <1>1, <1>2 DEF RequestBooks, ApiTypes, SummaryCurrent
<1>5. body' # NotFound =>
         body' = snapshot /\ conn[client].kind # "endless" /\ got >= RequestSize
  BY <1>1 DEF Serves, Whole
<1>6. SummaryCurrent'
  BY <1>1, <1>2, <1>4, <1>5 DEF SummaryCurrent
<1> QED
  BY <1>3, <1>6 DEF ApiInv

\* The connection is closed.
LEMMA ApiClose ==
    ASSUME ApiInv, CloseClient
    PROVE  ApiInv'
<1>1. /\ pc = "reply" /\ pc' = "loop" /\ got' = 0 /\ body' = NotFound
      /\ conn' = [conn EXCEPT ![client] = Closed]
      /\ asked' = [asked EXCEPT ![client] = 0]
      /\ UNCHANGED <<snapshot, backlog>>
  BY DEF CloseClient
<1>2. ApiTypes /\ QueueWaits /\ RequestBooks /\ SummaryCurrent
  BY DEF ApiInv
<1>3. /\ client \in Clients /\ conn[client].state \in {"open", "gone"}
      /\ snapshot \in Nat /\ RequestSize \in Nat
      /\ conn \in [Clients -> Sockets] /\ asked \in [Clients -> Nat]
  BY <1>1, <1>2, ApiAssumption DEF RequestBooks, ApiTypes
<1>4. /\ conn' \in [Clients -> Sockets] /\ conn'[client] = Closed
      /\ \A d \in Clients : d # client => conn'[d] = conn[d]
  BY <1>1, <1>3, ClosedSocket, OneSocket
<1>5. asked' \in [Clients -> Nat] /\ \A c \in Clients : asked'[c] = 0 \/ asked'[c] = asked[c]
  BY <1>1, <1>3
<1>6. ApiTypes'
  BY <1>1, <1>2, <1>4, <1>5 DEF ApiTypes
<1>7. QueueWaits'
  <2>1. \A i \in 1 .. Len(backlog) : backlog[i] \in Clients /\ conn[backlog[i]].state = "waiting"
    BY <1>2 DEF ApiTypes, QueueWaits
  <2> QED
    BY <1>1, <1>2, <1>3, <1>4, <2>1 DEF QueueWaits
<1>8. RequestBooks'
  BY <1>1, <1>2, <1>3, <1>4, ClosedSocket DEF RequestBooks
<1>9. SummaryCurrent'
  BY <1>1, <1>2, <1>3, <1>5 DEF SummaryCurrent
<1> QED
  BY <1>1, <1>6, <1>7, <1>8, <1>9 DEF ApiInv, BetweenClients

\* The destructor's close of the listener.
LEMMA ApiJoined ==
    ASSUME ApiInv, Joined
    PROVE  ApiInv'
<1>1. /\ pc = "done" /\ pc' = pc /\ backlog' = <<>>
      /\ conn' = [c \in Clients |-> IF conn[c].state = "waiting" THEN Closed ELSE conn[c]]
      /\ UNCHANGED <<client, got, body, snapshot, asked>>
  BY DEF Joined, serviceVars
<1>2. ApiTypes /\ RequestBooks /\ SummaryCurrent /\ BetweenClients /\ RequestSize \in Nat
  BY ApiAssumption DEF ApiInv
<1>3. conn' \in [Clients -> Sockets] /\ \A c \in Clients : conn'[c] \in {Closed, conn[c]}
  BY <1>1, <1>2, ClosedSocket DEF ApiTypes
<1>4. \A c \in Clients : conn'[c].state # "waiting"
  BY <1>1, ClosedSocket
<1>5. ApiTypes'
  BY <1>1, <1>2, <1>3 DEF ApiTypes
<1>6. QueueWaits'
  BY <1>1 DEF QueueWaits
<1>7. RequestBooks'
  <2>1. ASSUME NEW c \in Clients, conn'[c].kind # "endless" PROVE conn'[c].sent <= RequestSize
    BY <1>2, <1>3, <2>1, ClosedSocket DEF RequestBooks
  <2>2. \A c \in Clients :
           conn'[c].state = "new" => conn'[c].sent = 0 /\ conn'[c].unread = 0
    BY <1>2, <1>3, ClosedSocket DEF RequestBooks
  <2> QED
    BY <1>1, <1>4, <2>1, <2>2 DEF RequestBooks
<1>8. SummaryCurrent' /\ BetweenClients'
  BY <1>1, <1>2 DEF SummaryCurrent, BetweenClients
<1> QED
  BY <1>5, <1>6, <1>7, <1>8 DEF ApiInv

\* A client connects.
LEMMA ApiConnect ==
    ASSUME ApiInv, NEW c \in Clients, NEW k \in Kinds, Connect(c, k)
    PROVE  ApiInv'
<1>1. /\ conn[c].state = "new"
      /\ conn' = [conn EXCEPT ![c].state = "waiting", ![c].kind = k]
      /\ backlog' = Append(backlog, c)
      /\ UNCHANGED <<pc, client, got, body, snapshot, asked>>
  BY DEF Connect, serviceVars
<1>2. ApiTypes /\ QueueWaits /\ RequestBooks /\ SummaryCurrent /\ BetweenClients
  BY DEF ApiInv
<1>3. conn \in [Clients -> Sockets] /\ conn[c] \in Sockets /\ backlog \in Seq(Clients)
  BY <1>2 DEF ApiTypes
<1>4. conn[c].sent = 0 /\ conn[c].unread = 0
  BY <1>1, <1>2 DEF RequestBooks
<1> DEFINE r == [conn[c] EXCEPT !.state = "waiting", !.kind = k]
<1>5. /\ r \in Sockets /\ r.state = "waiting" /\ r.sent = 0 /\ r.unread = 0
  BY <1>3, <1>4 DEF Sockets, States
<1>6. conn' = [conn EXCEPT ![c] = r]
  BY <1>1, <1>3
<1> HIDE DEF r
<1>7. conn' \in [Clients -> Sockets] /\ conn'[c] = r /\ \A d \in Clients : d # c => conn'[d] = conn[d]
  BY <1>3, <1>5, <1>6, OneSocket
<1>8. ApiTypes'
  BY <1>1, <1>2, <1>3, <1>7 DEF ApiTypes
<1> DEFINE b == Append(backlog, c)
<1>9. /\ Len(backlog) \in Nat /\ Len(b) = Len(backlog) + 1 /\ b[Len(b)] = c
      /\ \A i \in 1 .. Len(backlog) : b[i] = backlog[i] /\ b[i] \in Clients
  BY <1>3
<1> HIDE DEF b
<1>10. \A i \in 1 .. Len(backlog) : b[i] # c /\ conn'[b[i]].state = "waiting"
  BY <1>1, <1>2, <1>7, <1>9 DEF QueueWaits
<1>11. QueueWaits'
  <2>1. \A i \in 1 .. Len(b) : i \in 1 .. Len(backlog) \/ i = Len(b)
    BY <1>9
  <2>2. \A i \in 1 .. Len(b) : conn'[b[i]].state = "waiting"
    BY <1>5, <1>7, <1>9, <1>10, <2>1
  <2>3. \A i, j \in 1 .. Len(b) : b[i] = b[j] => i = j
    BY <1>2, <1>9, <1>10, <2>1 DEF QueueWaits
  <2> QED
    BY <1>1, <2>2, <2>3 DEF QueueWaits, b
<1>12. pc \in {"request", "reply"} => client \in Clients /\ client # c
  BY <1>1, <1>2 DEF RequestBooks
<1>13. RequestBooks'
  <2>1. RequestSize \in Nat
    BY ApiAssumption
  <2> QED
    BY <1>1, <1>2, <1>5, <1>7, <1>12, <2>1 DEF RequestBooks
<1>14. SummaryCurrent' /\ BetweenClients'
  <2>1. body # NotFound => client \in Clients /\ conn'[client] = conn[client]
    BY <1>2, <1>7, <1>12 DEF SummaryCurrent
  <2> QED
    BY <1>1, <1>2, <2>1 DEF SummaryCurrent, BetweenClients
<1> QED
  BY <1>8, <1>11, <1>13, <1>14 DEF ApiInv

\* What a client sends, reads or gives up.
LEMMA ApiClient ==
    ASSUME ApiInv, NEW c \in Clients, ClientSends(c) \/ ClientReads(c) \/ ClientGone(c)
    PROVE  ApiInv'
<1>1. ApiTypes /\ RequestBooks /\ SummaryCurrent
  BY DEF ApiInv
<1>2. /\ conn[c] \in Sockets /\ got \in Nat /\ snapshot \in Nat /\ RequestSize \in Nat
      /\ asked \in [Clients -> Nat] /\ \A d \in Clients : asked[d] <= snapshot
  BY <1>1, ApiAssumption DEF ApiTypes, SummaryCurrent
<1>3. conn[c].unread \in Nat /\ conn[c].sent \in Nat
  BY <1>2 DEF Sockets
<1>4. /\ conn[c].state = "new" => conn[c].sent = 0 /\ conn[c].unread = 0
      /\ conn[c].state = "waiting" => conn[c].unread = conn[c].sent
      /\ conn[c].kind # "endless" => conn[c].sent <= RequestSize
      /\ c = client /\ pc \in {"request", "reply"} =>
            conn[c].state \in {"open", "gone"} /\ got + conn[c].unread = conn[c].sent
  BY <1>1 DEF RequestBooks
<1>5. CASE ClientSends(c)
  <2>1. /\ conn[c].state \in {"waiting", "open"}
        /\ conn[c].kind # "endless" => conn[c].sent < RequestSize
        /\ conn' = [conn EXCEPT ![c].sent = @ + 1, ![c].unread = @ + 1]
        /\ asked' = [asked EXCEPT ![c] = IF conn[c].sent + 1 = RequestSize THEN snapshot ELSE @]
        /\ UNCHANGED <<pc, client, got, body, snapshot, backlog>>
    BY <1>5 DEF ClientSends, serviceVars
  <2> DEFINE m == conn[c].sent + 1
             u == conn[c].unread + 1
             r == [conn[c] EXCEPT !.sent = m, !.unread = u]
  <2>2. /\ m \in Nat /\ u \in Nat
        /\ conn[c].unread = conn[c].sent => u = m
        /\ conn[c].sent < RequestSize => m <= RequestSize
        /\ got + conn[c].unread = conn[c].sent => got + u = m
    BY <1>2, <1>3
  <2>3. conn' = [conn EXCEPT ![c] = r]
    BY <1>1, <2>1 DEF ApiTypes
  <2> HIDE DEF m, u
  <2>4. /\ r \in Sockets /\ r.state = conn[c].state /\ r.kind = conn[c].kind
        /\ r.sent = m /\ r.unread = u
    BY <1>2, <2>2 DEF Sockets
  <2> HIDE DEF r
  <2>5. /\ asked' \in [Clients -> Nat] /\ \A d \in Clients : asked'[d] <= snapshot
        /\ \A d \in Clients : d # c => asked'[d] = asked[d]
    <3>1. \A d \in Clients : asked'[d] \in {asked[d], snapshot}
      BY <1>2, <2>1
    <3>2. \A d \in Clients : d # c => asked'[d] = asked[d]
      BY <1>2, <2>1
    <3>3. asked' \in [Clients -> Nat]
      BY <1>2, <2>1
    <3> QED
      BY <1>2, <3>1, <3>2, <3>3
  <2>6. ASSUME body # NotFound PROVE asked'[client] = asked[client]
    <3>1. /\ pc = "reply" /\ client \in Clients /\ conn[client].kind # "endless"
          /\ got >= RequestSize /\ conn[client].sent <= RequestSize
          /\ got + conn[client].unread = conn[client].sent
      BY <1>1, <2>6 DEF SummaryCurrent, RequestBooks
    <3>2. c # client
      <4> SUFFICES ASSUME c = client PROVE FALSE
        OBVIOUS
      <4>1. conn[c].sent < RequestSize /\ got >= RequestSize /\ got + conn[c].unread = conn[c].sent
        BY <2>1, <3>1
      <4> QED
        BY <1>2, <1>3, <4>1
    <3> QED
      BY <2>5, <3>1, <3>2
  <2>7. /\ r.state # "new"
        /\ r.state = "waiting" => r.unread = r.sent
        /\ r.kind # "endless" => r.sent <= RequestSize
        /\ c = client /\ pc \in {"request", "reply"} =>
              r.state \in {"open", "gone"} /\ got' + r.unread = r.sent
    BY <1>4, <2>1, <2>2, <2>4
  <2> QED
    BY <1>2, <2>1, <2>3, <2>4, <2>5, <2>6, <2>7, ApiSocket, ZenonT(40)
<1>6. CASE ClientReads(c) \/ ClientGone(c)
  <2>1. /\ UNCHANGED <<pc, client, got, body, snapshot, backlog, asked>>
        /\ \/ conn' = [conn EXCEPT ![c].full = FALSE]
           \/ /\ conn[c].state = "open"
              /\ conn' = [conn EXCEPT ![c].state = "gone", ![c].full = FALSE]
    BY <1>6 DEF ClientReads, ClientGone, serviceVars
  <2> DEFINE r == IF conn' = [conn EXCEPT ![c].full = FALSE] THEN [conn[c] EXCEPT !.full = FALSE]
                  ELSE [conn[c] EXCEPT !.state = "gone", !.full = FALSE]
  <2>2. conn' = [conn EXCEPT ![c] = r]
    BY <1>1, <2>1 DEF ApiTypes
  <2>3. /\ r \in Sockets /\ r.kind = conn[c].kind
        /\ r.state = conn[c].state \/ (conn[c].state = "open" /\ r.state = "gone")
        /\ r.sent = conn[c].sent /\ r.unread = conn[c].unread
    BY <1>2, <2>1 DEF Sockets, States
  <2>4. PICK q \in Sockets :
           /\ q.kind = conn[c].kind
           /\ q.state = conn[c].state \/ (conn[c].state = "open" /\ q.state = "gone")
           /\ q.sent = conn[c].sent /\ q.unread = conn[c].unread
           /\ conn' = [conn EXCEPT ![c] = q]
    <3> HIDE DEF r
    <3> QED
      BY <2>2, <2>3
  <2>5. /\ q.state = "new" => q.sent = 0 /\ q.unread = 0
        /\ conn[c].state = "waiting" <=> q.state = "waiting"
        /\ q.state = "waiting" => q.unread = q.sent
        /\ q.kind # "endless" => q.sent <= RequestSize
        /\ c = client /\ pc \in {"request", "reply"} =>
              q.state \in {"open", "gone"} /\ got' + q.unread = q.sent
    BY <1>4, <2>1, <2>4
  <2> QED
    BY <1>2, <2>1, <2>4, <2>5, ApiSocket
<1> QED
  BY <1>5, <1>6

\* The invariant of the status server.
THEOREM ApiInvariance == Spec => []ApiInv
<1>1. Init => ApiInv
  <2> SUFFICES ASSUME Init PROVE ApiInv
    OBVIOUS
  <2>1. /\ pc = "loop" /\ got = 0 /\ body = NotFound /\ snapshot = 0 /\ backlog = <<>>
        /\ conn = [c \in Clients |-> NewConn] /\ asked = [c \in Clients |-> 0]
    BY DEF Init
  <2>2. NewConn \in Sockets /\ NewConn.state = "new" /\ NewConn.sent = 0 /\ NewConn.unread = 0
    BY DEF NewConn, Sockets, States, Kinds
  <2>3. RequestSize \in Nat
    BY ApiAssumption
  <2>4. ApiTypes
    BY <2>1, <2>2 DEF ApiTypes
  <2>5. RequestBooks
    BY <2>1, <2>2, <2>3 DEF RequestBooks
  <2> QED
    BY <2>1, <2>4, <2>5 DEF ApiInv, QueueWaits, BetweenClients, SummaryCurrent
<1>2. ApiInv /\ [Next]_vars => ApiInv'
  <2> SUFFICES ASSUME ApiInv, [Next]_vars PROVE ApiInv'
    OBVIOUS
  <2>1. CASE Loop \/ PollTimeout \/ Deadline \/ update \/ Destroy \/ UNCHANGED vars
    <3>1. /\ UNCHANGED <<client, got, body, backlog, conn, asked>>
          /\ snapshot' = snapshot \/ snapshot' = snapshot + 1
          /\ \/ pc' = pc
             \/ pc \in {"loop", "poll"} /\ pc' \in {"loop", "poll", "done"}
      BY <2>1 DEF Loop, PollTimeout, Deadline, update, Destroy, vars, serviceVars
    <3> QED
      BY <3>1, ApiQuiet
  <2>2. CASE \E c \in Clients :
                \/ \E k \in Kinds : Connect(c, k)
                \/ ClientSends(c) \/ ClientReads(c) \/ ClientGone(c)
    BY <2>2, ApiConnect, ApiClient
  <2>3. CASE Server
    BY <2>1, <2>3, ApiAccept, ApiAcceptFails, ApiTransfers, ApiAnswer, ApiClose DEF Server
  <2> QED
    BY <2>1, <2>2, <2>3, ApiJoined DEF Next
<1> QED
  BY <1>1, <1>2, PTL DEF Spec

\* A summary that is sent is no older than the snapshot in force when its
\* request was complete (api.cpp:54-59, 75), for every number of clients.
THEOREM RepliesCurrent == Spec => []ReplyIsCurrent
<1>1. ApiInv => ReplyIsCurrent
  <2> SUFFICES ASSUME ApiInv, body # NotFound PROVE body \in asked[client] .. snapshot
    BY DEF ReplyIsCurrent
  <2>1. /\ body \in Nat /\ pc = "reply" /\ asked[client] <= body /\ body <= snapshot
        /\ client \in Clients /\ snapshot \in Nat
    BY DEF ApiInv, SummaryCurrent, RequestBooks, ApiTypes
  <2>2. asked[client] \in Nat
    BY <2>1 DEF ApiInv, ApiTypes
  <2> QED
    BY <2>1, <2>2
<1> QED
  BY <1>1, ApiInvariance, PTL

-----------------------------------------------------------------------------
(* Thermal messages *)

\* The last message is the level last seen, and the temperature shown has it.
ThermalInv ==
    \A d \in Cards :
        /\ events[d] \in Seq({0, 1, 2})
        /\ thermal[d] \in {-1, 0, 1, 2}
        /\ LastLevel(d) = IF thermal[d] = -1 THEN 0 ELSE thermal[d]
        /\ view[d] # None => thermal[d] = Level(view[d])

\* The last element of a longer list.
LEMMA LastAppended ==
    ASSUME NEW s \in Seq({0, 1, 2}), NEW l \in {0, 1, 2}
    PROVE  /\ Append(s, l) \in Seq({0, 1, 2}) /\ Append(s, l) # <<>>
           /\ Append(s, l)[Len(Append(s, l))] = l
<1> DEFINE L == {0, 1, 2}
<1>1. s \in Seq(L) /\ l \in L
  OBVIOUS
<1> HIDE DEF L
<1>2. /\ Append(s, l) \in Seq(L) /\ Append(s, l) # <<>>
      /\ Append(s, l)[Len(Append(s, l))] = l
  BY <1>1
<1> QED
  BY <1>2 DEF L

\* update() looks at every card.
LEMMA ThermalUpdate ==
    ASSUME ThermalInv, update_view
    PROVE  ThermalInv'
<1>1. /\ view' = readings
      /\ thermal' = [d \in Cards |-> NewLevel(d)]
      /\ events' = [d \in Cards |->
            IF Announces(d) THEN Append(events[d], NewLevel(d)) ELSE events[d]]
  BY DEF update_view
<1>2. ASSUME NEW d \in Cards
      PROVE  /\ events'[d] \in Seq({0, 1, 2})
             /\ thermal'[d] \in {-1, 0, 1, 2}
             /\ LastLevel(d)' = IF thermal'[d] = -1 THEN 0 ELSE thermal'[d]
             /\ view'[d] # None => thermal'[d] = Level(view[d])'
  <2> DEFINE n == NewLevel(d)
             o == thermal[d]
             e == events[d]
  <2>1. /\ e \in Seq({0, 1, 2}) /\ o \in {-1, 0, 1, 2}
        /\ LastLevel(d) = IF o = -1 THEN 0 ELSE o
    BY DEF ThermalInv
  <2>2. \A t : Level(t) \in {0, 1, 2}
    BY DEF Level
  <2>3. /\ readings[d] # None => n = Level(readings[d])
        /\ readings[d] = None => n = o
    BY DEF NewLevel, Known
  <2>4. n \in {0, 1, 2} \/ n = o
    BY <2>2, <2>3
  <2>5. thermal'[d] = n
    BY <1>1
  <2>6. events'[d] = IF n # o /\ (n > 0 \/ o > 0) THEN Append(e, n) ELSE e
    BY <1>1 DEF Announces
  <2> DEFINE f == events'[d]
  <2>7. LastLevel(d)' = IF f = <<>> THEN 0 ELSE f[Len(f)]
    BY DEF LastLevel
  <2>8. LastLevel(d) = IF e = <<>> THEN 0 ELSE e[Len(e)]
    BY DEF LastLevel
  <2>9. readings[d] # None => n = Level(view[d])'
    BY <1>1, <2>3 DEF Level
  <2> HIDE DEF n, o, e, f
  <2>10. CASE n # o /\ (n > 0 \/ o > 0)
    <3>1. n \in {0, 1, 2} /\ f = Append(e, n)
      BY <2>4, <2>6, <2>10 DEF f
    <3>2. f \in Seq({0, 1, 2}) /\ f # <<>> /\ f[Len(f)] = n
      BY <2>1, <3>1, LastAppended
    <3> QED
      BY <1>1, <2>5, <2>7, <2>9, <3>1, <3>2 DEF f
  <2>11. CASE ~(n # o /\ (n > 0 \/ o > 0))
    <3>1. f = e
      BY <2>6, <2>11 DEF f
    <3>2. n = o \/ (n = 0 /\ o = -1)
      BY <2>1, <2>4, <2>11
    <3> QED
      BY <1>1, <2>1, <2>5, <2>7, <2>8, <2>9, <3>1, <3>2 DEF f
  <2> QED
    BY <2>10, <2>11
<1> QED
  BY <1>1, <1>2 DEF ThermalInv, Cards

\* What the last thermal message of a card says is true of the temperature
\* shown (miner.cpp:400-416), for every number of cards and all thresholds.
THEOREM MessagesTrue == TelemetrySpec => []LastMessageTrue
<1>1. TelemetryInit => ThermalInv
  <2> SUFFICES ASSUME TelemetryInit PROVE ThermalInv
    OBVIOUS
  <2>1. /\ view = [d \in Cards |-> None]
        /\ thermal = [d \in Cards |-> -1]
        /\ events = [d \in Cards |-> <<>>]
    BY DEF TelemetryInit
  <2>2. <<>> \in Seq({0, 1, 2})
    OBVIOUS
  <2> QED
    BY <2>1, <2>2 DEF ThermalInv, LastLevel
<1>2. ThermalInv /\ [TelemetryNext]_telemetryVars => ThermalInv'
  <2> SUFFICES ASSUME ThermalInv, [TelemetryNext]_telemetryVars PROVE ThermalInv'
    OBVIOUS
  <2>1. CASE update_view
    BY <2>1, ThermalUpdate
  <2>2. CASE SensorStep \/ RequestStop \/ UNCHANGED telemetryVars
    <3>1. UNCHANGED <<view, thermal, events>>
      BY <2>2 DEF SensorStep, Sample, Store, Wake,
                  RequestStop, telemetryVars
    <3>2. \A d : /\ LastLevel(d)' = LastLevel(d)
                /\ Level(view[d])' = Level(view[d])
      BY <3>1 DEF LastLevel, Level
    <3> QED
      BY <3>1, <3>2 DEF ThermalInv, Cards
  <2> QED
    BY <2>1, <2>2 DEF TelemetryNext
<1>3. ThermalInv => LastMessageTrue
  <2> SUFFICES ASSUME ThermalInv, NEW d \in Cards, view[d] # None
               PROVE  LastLevel(d) = Level(view[d])
    BY DEF LastMessageTrue
  <2>1. thermal[d] = Level(view[d]) /\ Level(view[d]) \in {0, 1, 2}
    BY DEF ThermalInv, Level
  <2> QED
    BY <2>1 DEF ThermalInv
<1> QED
  BY <1>1, <1>2, <1>3, PTL DEF TelemetrySpec
=============================================================================
