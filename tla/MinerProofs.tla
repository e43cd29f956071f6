----------------------------- MODULE MinerProofs -----------------------------
(***************************************************************************)
(* For every set of devices, every limit and every pool: a share is        *)
(* submitted in the session that found it, every counter is the number of  *)
(* shares booked that way, the published numbers add up, the devices work  *)
(* on the newest job, and a regular end waits for the drain.  If the pool  *)
(* sends no requests of its own, what is booked for a share is what the    *)
(* pool answered to it.                                                    *)
(***************************************************************************)
EXTENDS Miner, FiniteSetTheorems, TLAPS

-----------------------------------------------------------------------------
(* The inductive invariants *)

Verdicts == Answers \cup {"none"}

ShareRecords == [row : Rows, session : Nat, found_in : Nat,
                 decided : Verdicts, booked : Verdicts]

FoundRecords == [row : Rows, epoch : Nat, session : Nat]

Messages == [type : {"job", "authorized", "bad", "blank"}]
              \cup [type : {"call"}, id : Nat]
              \cup [type : {"reply"}, id : Nat, answer : Answers]

MinerTypes ==
    /\ base \in Nat
    /\ sessions \in Nat
    /\ shares \in Seq(ShareRecords)
    /\ base <= Len(shares)
    /\ found \in Seq(FoundRecords)
    /\ queue \in Seq(FoundRecords)
    /\ toMiner \in Seq(Messages)
    /\ inbox \in Seq(Messages)
    /\ view \in [Answers \cup {"pending"} -> Nat]
    /\ device \in [Rows -> [Answers -> Nat]]
    /\ pending \subseteq Ids
    /\ answered \subseteq Ids

\* What waits to be submitted was found in this session.
OwnFinds(s) == \A i \in 1 .. Len(s) : s[i].session = sessions

\* The table of pending shares holds exactly the shares of this session that
\* are not booked.
TableExact ==
    \A k \in base + 1 .. Len(shares) :
        shares[k].booked = "none" <=> k - base \in pending

MinerInv ==
    /\ MinerTypes
    /\ OwnFinds(found)
    /\ OwnFinds(queue)
    /\ OwnSessionOnly
    /\ TableExact
    /\ CountersAddUp

\* A reply on its way tells what the pool decided about that share.
RepliesTrue(s) ==
    \A i \in 1 .. Len(s) :
        /\ s[i].type # "call"
        /\ s[i].type = "reply" =>
              /\ s[i].id \in answered
              /\ s[i].answer = shares[base + s[i].id].decided

\* The pool decides no share of this session again after it was booked.
BookedAreAnswered ==
    \A k \in base + 1 .. Len(shares) :
        shares[k].booked # "none" => k - base \in answered

ReplyInv ==
    /\ RepliesTrue(toMiner)
    /\ RepliesTrue(inbox)
    /\ BookedAreAnswered
    /\ BookedAsAnswered

-----------------------------------------------------------------------------
(* What the steps do to the shares *)

\* A session begins or ends: nothing of the old one is left.
Restart ==
    /\ base' = Len(shares)
    /\ sessions' \in {sessions, sessions + 1}
    /\ found' = <<>> /\ queue' = <<>>
    /\ toMiner' = <<>> /\ inbox' = <<>>
    /\ pending' = {} /\ answered' = {}
    /\ UNCHANGED <<view, device, shares>>

\* The step does not touch the books or the queues.
Quiet == UNCHANGED <<base, sessions, shares, found, queue, toMiner, inbox,
                     view, device, pending, answered>>

\* Every step restarts the session, is quiet, or is one of those that
\* move shares, messages or counters.
LEMMA StepKinds ==
    ASSUME [Next]_vars
    PROVE  \/ Restart
           \/ Quiet
           \/ Recv \/ RecvBlank
           \/ Message \/ Swap \/ Drop \/ Submit \/ EndOfIteration
           \/ \E r \in Rows, e \in 1 .. MaxEpoch : Find(r, e)
           \/ \E t \in {"job", "authorized", "bad", "blank"} : PoolSends([type |-> t])
           \/ \E id \in Ids, a \in Answers : PoolAnswers(id, a)
           \/ PoolCalls /\ \E id \in 1 .. MaxSent : PoolSends([type |-> "call", id |-> id])
<1> USE DEF processVars, sessionVars, poolVars
<1>1. ASSUME NEW d, Throw(d) PROVE Restart
  BY <1>1 DEF Throw, FreshSession, Restart
<1>2. CASE MainStep
  <2>1. CASE Connect
    BY <2>1 DEF Connect, FreshSession, Restart
  <2>2. CASE ConnectFails \/ BackoffDone \/ Finish \/ LoopTop \/ StartDrain
               \/ WouldBlock
    BY <2>2 DEF ConnectFails, BackoffDone, Finish, LoopTop, StartDrain, WouldBlock, Quiet
  <2>3. CASE SessionEnds
    BY <2>3 DEF SessionEnds, FreshSession, Restart
  <2>4. CASE RecvRefused \/ ReadClosed \/ BadMessage \/ SeeFailure \/ SubmitFails
               \/ HashCheckFails \/ Timeout
    BY <2>4, <1>1 DEF RecvRefused, ReadClosed, BadMessage, SeeFailure, SubmitFails,
                      HashCheckFails, Timeout
  <2> QED
    BY <1>2, <2>1, <2>2, <2>3, <2>4 DEF MainStep
<1>3. CASE Environment
  <2>1. CASE Expire \/ DrainDeadline \/ DeviceFails \/ PoolCloses
    BY <2>1 DEF Expire, DrainDeadline, DeviceFails, PoolCloses, Quiet
  <2> QED
    BY <1>3, <2>1 DEF Environment
<1>4. CASE UNCHANGED vars
  BY <1>4 DEF vars, Quiet
<1> QED
  BY <1>2, <1>3, <1>4 DEF Next

-----------------------------------------------------------------------------
(* Counting *)

BookedAs(S, a) == {k \in 1 .. Len(S) : S[k].booked = a}

BookedFor(S, a, r) == {k \in 1 .. Len(S) : S[k].booked = a /\ S[k].row = r}

CountersBySet ==
    \A a \in Answers :
        /\ view[a] = Cardinality(BookedAs(shares, a))
        /\ \A r \in Rows : device[r][a] = Cardinality(BookedFor(shares, a, r))

\* The counters, with the counted sets named.
LEMMA CountersNamed == CountersAddUp <=> CountersBySet
BY DEF CountersAddUp, CountersBySet, Count, BookedAs, BookedFor

\* What is counted is finite.
LEMMA BookedFinite ==
    ASSUME NEW S \in Seq(ShareRecords), NEW a, NEW r
    PROVE  IsFiniteSet(BookedAs(S, a)) /\ IsFiniteSet(BookedFor(S, a, r))
<1>1. Len(S) \in Nat
  OBVIOUS
<1>2. IsFiniteSet(1 .. Len(S))
  BY <1>1, FS_Interval
<1>3. BookedAs(S, a) \in SUBSET (1 .. Len(S)) /\ BookedFor(S, a, r) \in SUBSET (1 .. Len(S))
  BY DEF BookedAs, BookedFor
<1> QED
  BY <1>2, <1>3, FS_Subset

\* Booking one share that was not booked changes the counted sets of its
\* answer, and those of its device, by that share.
LEMMA BookOne ==
    ASSUME NEW S \in Seq(ShareRecords), NEW k \in 1 .. Len(S), NEW b \in Answers,
           S[k].booked = "none"
    PROVE  LET T == [S EXCEPT ![k].booked = b]
           IN  /\ T \in Seq(ShareRecords)
               /\ Len(T) = Len(S)
               /\ T[k] = [S[k] EXCEPT !.booked = b]
               /\ T[k].booked = b /\ T[k].row = S[k].row /\ T[k].decided = S[k].decided
               /\ T[k].session = S[k].session /\ T[k].found_in = S[k].found_in
               /\ \A j \in 1 .. Len(S) : j # k => T[j] = S[j]
<1>1. S[k] \in ShareRecords
  OBVIOUS
<1>2. [S[k] EXCEPT !.booked = b] \in ShareRecords
  BY <1>1 DEF ShareRecords, Verdicts
<1> DEFINE T == [S EXCEPT ![k].booked = b]
<1>3. T = [S EXCEPT ![k] = [S[k] EXCEPT !.booked = b]]
  OBVIOUS
<1>4. /\ T \in Seq(ShareRecords)
      /\ Len(T) = Len(S)
      /\ T[k] = [S[k] EXCEPT !.booked = b]
      /\ \A j \in 1 .. Len(S) : j # k => T[j] = S[j]
  BY <1>2, <1>3
<1>5. /\ [S[k] EXCEPT !.booked = b].booked = b
      /\ [S[k] EXCEPT !.booked = b].row = S[k].row
      /\ [S[k] EXCEPT !.booked = b].decided = S[k].decided
      /\ [S[k] EXCEPT !.booked = b].session = S[k].session
      /\ [S[k] EXCEPT !.booked = b].found_in = S[k].found_in
  BY <1>1 DEF ShareRecords
<1> QED
  BY <1>4, <1>5

\* Booking one share adds one to the counter of its answer and to that of its
\* device, and to no other.
LEMMA BookOneCounts ==
    ASSUME NEW S \in Seq(ShareRecords), NEW k \in 1 .. Len(S), NEW b \in Answers,
           S[k].booked = "none",
           NEW T \in Seq(ShareRecords), Len(T) = Len(S),
           T[k].booked = b, T[k].row = S[k].row,
           \A j \in 1 .. Len(S) : j # k => T[j] = S[j],
           NEW a \in Answers
    PROVE  /\ Cardinality(BookedAs(T, a)) =
                IF a = b THEN Cardinality(BookedAs(S, a)) + 1 ELSE Cardinality(BookedAs(S, a))
           /\ \A r \in Rows : Cardinality(BookedFor(T, a, r)) =
                IF a = b /\ r = S[k].row THEN Cardinality(BookedFor(S, a, r)) + 1
                ELSE Cardinality(BookedFor(S, a, r))
<1>2. b # "none" /\ a # "none"
  BY DEF Answers
<1>3. k \notin BookedAs(S, a) /\ \A r : k \notin BookedFor(S, a, r)
  BY <1>2 DEF BookedAs, BookedFor
<1>4. CASE a = b
  <2>1. BookedAs(T, a) = BookedAs(S, a) \cup {k}
    BY <1>4 DEF BookedAs
  <2>2. Cardinality(BookedAs(T, a)) = Cardinality(BookedAs(S, a)) + 1
    BY <2>1, <1>3, FS_AddElement, BookedFinite, Zenon
  <2>3. ASSUME NEW r \in Rows, r = S[k].row
        PROVE  Cardinality(BookedFor(T, a, r)) = Cardinality(BookedFor(S, a, r)) + 1
    <3>1. BookedFor(T, a, r) = BookedFor(S, a, r) \cup {k}
      BY <1>4, <2>3 DEF BookedFor
    <3> QED
      BY <3>1, <1>3, FS_AddElement, BookedFinite, Zenon
  <2>4. ASSUME NEW r \in Rows, r # S[k].row
        PROVE  BookedFor(T, a, r) = BookedFor(S, a, r)
    BY <1>4, <2>4 DEF BookedFor
  <2> QED
    BY <1>4, <2>2, <2>3, <2>4
<1>5. CASE a # b
  <2>1. BookedAs(T, a) = BookedAs(S, a)
    BY <1>2, <1>5 DEF BookedAs
  <2>2. \A r \in Rows : BookedFor(T, a, r) = BookedFor(S, a, r)
    BY <1>2, <1>5 DEF BookedFor
  <2> QED
    BY <1>5, <2>1, <2>2
<1> QED
  BY <1>4, <1>5

\* A decision of the pool changes nothing the miner has booked.
LEMMA DecideOne ==
    ASSUME NEW S \in Seq(ShareRecords), NEW k \in 1 .. Len(S), NEW b \in Answers,
           NEW T, T = [S EXCEPT ![k].decided = b]
    PROVE  /\ T \in Seq(ShareRecords)
           /\ Len(T) = Len(S)
           /\ T[k].decided = b
           /\ \A j \in 1 .. Len(S) :
                 /\ T[j].booked = S[j].booked /\ T[j].row = S[j].row
                 /\ T[j].session = S[j].session /\ T[j].found_in = S[j].found_in
                 /\ j # k => T[j] = S[j]
<1>1. S[k] \in ShareRecords
  OBVIOUS
<1>2. [S[k] EXCEPT !.decided = b] \in ShareRecords
  BY <1>1 DEF ShareRecords, Verdicts
<1>3. T = [S EXCEPT ![k] = [S[k] EXCEPT !.decided = b]]
  OBVIOUS
<1>4. /\ T \in Seq(ShareRecords)
      /\ Len(T) = Len(S)
      /\ T[k] = [S[k] EXCEPT !.decided = b]
      /\ \A j \in 1 .. Len(S) : j # k => T[j] = S[j]
  BY <1>2, <1>3
<1>5. /\ [S[k] EXCEPT !.decided = b].decided = b
      /\ [S[k] EXCEPT !.decided = b].row = S[k].row
      /\ [S[k] EXCEPT !.decided = b].booked = S[k].booked
      /\ [S[k] EXCEPT !.decided = b].session = S[k].session
      /\ [S[k] EXCEPT !.decided = b].found_in = S[k].found_in
  BY <1>1 DEF ShareRecords
<1> QED
  BY <1>4, <1>5

\* Sets of booked shares depend on the rows and the bookings alone.
LEMMA SameBooks ==
    ASSUME NEW S, NEW T, Len(T) = Len(S),
           \A j \in 1 .. Len(S) : T[j].booked = S[j].booked /\ T[j].row = S[j].row
    PROVE  \A a, r : BookedAs(T, a) = BookedAs(S, a) /\ BookedFor(T, a, r) = BookedFor(S, a, r)
BY DEF BookedAs, BookedFor

\* A share just sent is the last one, and the others stay.
LEMMA SendOne ==
    ASSUME NEW S \in Seq(ShareRecords), NEW x \in ShareRecords,
           NEW T, T = Append(S, x)
    PROVE  /\ T \in Seq(ShareRecords)
           /\ Len(T) = Len(S) + 1
           /\ T[Len(S) + 1] = x
           /\ \A j \in 1 .. Len(S) : T[j] = S[j]
OBVIOUS

-----------------------------------------------------------------------------
(* The invariant holds *)

\* Nothing is found, sent or booked at the start.
LEMMA MinerInit ==
    ASSUME Init
    PROVE  MinerInv
<1>1. MinerTypes
  BY DEF Init, MinerTypes, Ids, Answers, Zero
<1>2. Len(shares) = 0 /\ 1 .. 0 = {}
  BY DEF Init
<1>3. \A a, r : BookedAs(shares, a) = {} /\ BookedFor(shares, a, r) = {}
  BY <1>2 DEF BookedAs, BookedFor
<1>4. Cardinality({}) = 0
  BY FS_EmptySet
<1>5. \A a \in Answers : view[a] = 0 /\ \A r \in Rows : device[r][a] = 0
  BY DEF Init, Zero
<1>6. CountersBySet
  BY <1>3, <1>4, <1>5 DEF CountersBySet
<1>7. CountersAddUp
  BY <1>6, CountersNamed
<1>8. TableExact /\ OwnSessionOnly /\ OwnFinds(found) /\ OwnFinds(queue)
  BY <1>2 DEF Init, TableExact, OwnSessionOnly, OwnFinds
<1> QED
  BY <1>1, <1>7, <1>8 DEF MinerInv

\* A restart empties the queues and the table; the books stay.
LEMMA MinerRestart ==
    ASSUME MinerInv, Restart
    PROVE  MinerInv'
<1> USE DEF MinerInv, Restart
<1>1. MinerTypes'
  BY DEF MinerTypes, Ids
<1>2. OwnFinds(found)' /\ OwnFinds(queue)'
  BY DEF OwnFinds
<1>3. TableExact'
  BY DEF TableExact, MinerTypes
<1>4. OwnSessionOnly'
  BY DEF OwnSessionOnly
<1>5. CountersBySet
  BY CountersNamed
<1>6. CountersBySet'
  BY <1>5 DEF CountersBySet
<1>7. CountersAddUp'
  BY <1>6, CountersNamed, PTL
<1> QED
  BY <1>1, <1>2, <1>3, <1>4, <1>7

\* Steps that leave the shares, the books and the table alone.
LEMMA MinerSameBooks ==
    ASSUME MinerInv, UNCHANGED <<base, sessions, shares, device, pending>>,
           \A a \in Answers : view'[a] = view[a],
           MinerTypes', OwnFinds(found)', OwnFinds(queue)'
    PROVE  MinerInv'
<1> USE DEF MinerInv
<1>1. TableExact' /\ OwnSessionOnly'
  BY DEF TableExact, OwnSessionOnly
<1>2. CountersBySet
  BY CountersNamed
<1>3. CountersBySet'
  BY <1>2 DEF CountersBySet
<1>4. CountersAddUp'
  BY <1>3, CountersNamed, PTL
<1> QED
  BY <1>1, <1>4

\* The first message on the wire, and the others.
LEMMA WireHead ==
    ASSUME MinerTypes, toMiner # <<>>
    PROVE  /\ Head(toMiner) \in Messages
           /\ Tail(toMiner) \in Seq(Messages)
           /\ Head(toMiner) = toMiner[1]
           /\ Len(toMiner) \in Nat \ {0}
           /\ Len(Tail(toMiner)) = Len(toMiner) - 1
           /\ \A i \in 1 .. Len(toMiner) - 1 : Tail(toMiner)[i] = toMiner[i + 1]
<1> DEFINE M == Messages
<1>1. toMiner \in Seq(M)
  BY DEF MinerTypes
<1> HIDE DEF M
<1>2. /\ Head(toMiner) \in M
      /\ Tail(toMiner) \in Seq(M)
      /\ Head(toMiner) = toMiner[1]
      /\ Len(toMiner) \in Nat \ {0}
      /\ Len(Tail(toMiner)) = Len(toMiner) - 1
      /\ \A i \in 1 .. Len(toMiner) - 1 : Tail(toMiner)[i] = toMiner[i + 1]
  BY <1>1
<1> QED
  BY <1>2 DEF M

\* A line of the stream leaves the wire; it joins the inbox if it is a message.
LEMMA MinerRecv ==
    ASSUME MinerInv, Recv \/ RecvBlank
    PROVE  MinerInv'
<1> USE DEF MinerInv
<1>1. toMiner # <<>>
  BY DEF Recv, RecvBlank
<1>2. Head(toMiner) \in Messages /\ Tail(toMiner) \in Seq(Messages)
  BY <1>1, WireHead
<1>3. /\ toMiner' = Tail(toMiner)
      /\ inbox' = Append(inbox, Head(toMiner)) \/ inbox' = inbox
      /\ UNCHANGED <<base, sessions, shares, found, queue, view, device, pending, answered>>
  BY DEF Recv, RecvBlank, processVars, sessionVars
<1>4. inbox' \in Seq(Messages) /\ toMiner' \in Seq(Messages)
  <2> DEFINE M == Messages
             h == Head(toMiner)
  <2>1. inbox \in Seq(M) /\ h \in M
    BY <1>2 DEF MinerTypes
  <2>2. inbox' = Append(inbox, h) \/ inbox' = inbox
    BY <1>3
  <2> HIDE DEF M, h
  <2>3. inbox' \in Seq(M)
    BY <2>1, <2>2
  <2> QED
    BY <1>2, <1>3, <2>3 DEF M
<1>5. MinerTypes' /\ OwnFinds(found)' /\ OwnFinds(queue)'
  BY <1>3, <1>4 DEF MinerTypes, OwnFinds, Ids
<1> QED
  BY <1>3, <1>5, MinerSameBooks

\* The queue of the devices is taken over as it is.
LEMMA MinerSwap ==
    ASSUME MinerInv, Swap
    PROVE  MinerInv'
<1> USE DEF MinerInv
<1>1. MinerTypes' /\ OwnFinds(found)' /\ OwnFinds(queue)'
  BY DEF Swap, MinerTypes, OwnFinds, Ids, processVars, poolVars
<1> QED
  BY <1>1, MinerSameBooks DEF Swap, processVars

\* The tail of a queue holds nothing new.
LEMMA OwnTail ==
    ASSUME MinerInv, queue # <<>>
    PROVE  /\ Tail(queue) \in Seq(FoundRecords)
           /\ OwnFinds(Tail(queue))
           /\ Head(queue) \in FoundRecords
           /\ Head(queue).session = sessions
<1> DEFINE F == FoundRecords
<1>1. queue \in Seq(F)
  BY DEF MinerInv, MinerTypes
<1> HIDE DEF F
<1>2. /\ Tail(queue) \in Seq(F) /\ Head(queue) \in F
      /\ Head(queue) = queue[1]
      /\ Len(queue) \in Nat \ {0}
      /\ Len(Tail(queue)) = Len(queue) - 1
      /\ \A i \in 1 .. Len(queue) - 1 : Tail(queue)[i] = queue[i + 1]
  BY <1>1
<1>3. \A i \in 1 .. Len(queue) : queue[i].session = sessions
  BY DEF MinerInv, OwnFinds
<1> QED
  BY <1>2, <1>3 DEF OwnFinds, F

\* A share that cannot be submitted is dropped.
LEMMA MinerDrop ==
    ASSUME MinerInv, Drop
    PROVE  MinerInv'
<1>1. Tail(queue) \in Seq(FoundRecords) /\ OwnFinds(Tail(queue))
  BY OwnTail DEF Drop
<1>2. MinerTypes' /\ OwnFinds(found)' /\ OwnFinds(queue)'
  BY <1>1 DEF MinerInv, Drop, MinerTypes, OwnFinds, Ids, processVars, poolVars
<1> QED
  BY <1>2, MinerSameBooks DEF Drop, processVars

\* Publishing the number of pending shares changes no other counter.
LEMMA MinerPublish ==
    ASSUME MinerInv, EndOfIteration
    PROVE  MinerInv'
<1> USE DEF MinerInv
<1>1. IsFiniteSet(1 .. Len(shares) - base)
  BY FS_Interval DEF MinerTypes
<1>2. Cardinality(pending) \in Nat
  BY <1>1, FS_Subset, FS_CardinalityType DEF MinerTypes, Ids
<1>3. /\ view' \in [Answers \cup {"pending"} -> Nat]
      /\ \A a \in Answers : view'[a] = view[a]
  BY <1>2 DEF EndOfIteration, MinerTypes, Answers
<1>4. MinerTypes' /\ OwnFinds(found)' /\ OwnFinds(queue)'
  BY <1>3 DEF EndOfIteration, MinerTypes, OwnFinds, Ids, sessionVars, poolVars
<1> QED
  BY <1>3, <1>4, MinerSameBooks DEF EndOfIteration, sessionVars

\* A device queues a share of this session.
LEMMA MinerFind ==
    ASSUME MinerInv, NEW r \in Rows, NEW e \in 1 .. MaxEpoch, Find(r, e)
    PROVE  MinerInv'
<1> USE DEF MinerInv
<1> DEFINE x == [row |-> r, epoch |-> e, session |-> sessions]
<1>1. e \in Nat
  BY MinerAssumption
<1>2. x \in FoundRecords /\ x.session = sessions
  BY <1>1 DEF FoundRecords, MinerTypes
<1>3. found' = Append(found, x)
  BY DEF Find
<1> HIDE DEF x
<1>4. found' \in Seq(FoundRecords)
  BY <1>2, <1>3 DEF MinerTypes
<1>5. OwnFinds(found)'
  <2>1. sessions' = sessions
    BY DEF Find, processVars
  <2>2. found \in Seq(FoundRecords) /\ \A i \in 1 .. Len(found) : found[i].session = sessions
    BY DEF MinerTypes, OwnFinds
  <2>3. \A i \in 1 .. Len(found') : found'[i].session = sessions
    BY <1>2, <1>3, <2>2
  <2> QED
    BY <2>1, <2>3 DEF OwnFinds
<1>6. MinerTypes' /\ OwnFinds(queue)'
  BY <1>4 DEF Find, MinerTypes, OwnFinds, Ids, processVars, poolVars
<1> QED
  BY <1>5, <1>6, MinerSameBooks DEF Find, processVars

\* A message of the pool joins those on the wire.
LEMMA MinerPoolSends ==
    ASSUME MinerInv, NEW m \in Messages, PoolSends(m)
    PROVE  MinerInv'
<1> USE DEF MinerInv
<1>1. toMiner' \in Seq(Messages)
  BY DEF PoolSends, MinerTypes
<1>2. MinerTypes' /\ OwnFinds(found)' /\ OwnFinds(queue)'
  BY <1>1 DEF PoolSends, MinerTypes, OwnFinds, Ids, processVars, sessionVars
<1> QED
  BY <1>2, MinerSameBooks DEF PoolSends, processVars, sessionVars

\* The pool decides about a share; the miner's books stay.
LEMMA MinerPoolAnswers ==
    ASSUME MinerInv, NEW id \in Ids, NEW a \in Answers, PoolAnswers(id, a)
    PROVE  MinerInv'
<1> USE DEF MinerInv
<1> DEFINE k == base + id
           m == [type |-> "reply", id |-> id, answer |-> a]
<1>1. k \in 1 .. Len(shares) /\ id \in Nat
  BY DEF Ids, MinerTypes
<1>2. shares' = [shares EXCEPT ![k].decided = a]
  BY DEF PoolAnswers
<1>3. m \in Messages
  BY <1>1 DEF Messages
<1>4. toMiner' = Append(toMiner, m)
  BY DEF PoolAnswers
<1> HIDE DEF k, m
<1>5. /\ shares' \in Seq(ShareRecords)
      /\ Len(shares') = Len(shares)
      /\ \A j \in 1 .. Len(shares) :
            /\ shares'[j].booked = shares[j].booked /\ shares'[j].row = shares[j].row
            /\ shares'[j].session = shares[j].session
            /\ shares'[j].found_in = shares[j].found_in
  <2>1. shares \in Seq(ShareRecords)
    BY DEF MinerTypes
  <2> QED
    BY <1>1, <1>2, <2>1, DecideOne, SMTT(30)
<1>6. toMiner' \in Seq(Messages)
  BY <1>3, <1>4 DEF MinerTypes
<1>7. UNCHANGED <<base, sessions, found, queue, inbox, view, device, pending>>
  BY DEF PoolAnswers, processVars, sessionVars
<1>8. answered' \subseteq Ids'
  BY <1>5, <1>7 DEF PoolAnswers, MinerTypes, Ids
<1>9. MinerTypes'
  BY <1>5, <1>6, <1>7, <1>8 DEF MinerTypes, Ids
<1>10. OwnFinds(found)' /\ OwnFinds(queue)'
  BY <1>7 DEF OwnFinds
<1>11. OwnSessionOnly'
  BY <1>5 DEF OwnSessionOnly
<1>12. TableExact'
  <2> SUFFICES ASSUME NEW j \in base + 1 .. Len(shares)
               PROVE  shares'[j].booked = "none" <=> j - base \in pending
    BY <1>5, <1>7 DEF TableExact
  <2>1. j \in 1 .. Len(shares)
    BY DEF MinerTypes
  <2> QED
    BY <1>5, <2>1 DEF TableExact
<1>13. CountersAddUp'
  <2>1. CountersBySet
    BY CountersNamed
  <2>2. \A b, r : /\ BookedAs(shares', b) = BookedAs(shares, b)
                  /\ BookedFor(shares', b, r) = BookedFor(shares, b, r)
    BY <1>5, SameBooks
  <2>3. CountersBySet'
    BY <1>7, <2>1, <2>2 DEF CountersBySet
  <2> QED
    BY <2>3, CountersNamed, PTL
<1> QED
  BY <1>9, <1>10, <1>11, <1>12, <1>13

\* A submitted share is in the table and in no counter.
LEMMA MinerSubmit ==
    ASSUME MinerInv, Submit
    PROVE  MinerInv'
<1> USE DEF MinerInv
<1> DEFINE x == [row |-> Head(queue).row, session |-> sessions,
                 found_in |-> Head(queue).session,
                 decided |-> "none", booked |-> "none"]
           n == Len(shares) + 1
<1>1. /\ Tail(queue) \in Seq(FoundRecords) /\ OwnFinds(Tail(queue))
      /\ Head(queue) \in FoundRecords /\ Head(queue).session = sessions
  BY OwnTail DEF Submit, Sendable
<1>2. x \in ShareRecords /\ x.booked = "none" /\ x.session = x.found_in
  BY <1>1 DEF ShareRecords, FoundRecords, Verdicts
<1>3. shares \in Seq(ShareRecords) /\ Len(shares) \in Nat /\ base \in Nat /\ base <= Len(shares)
  BY DEF MinerTypes
<1>4. /\ shares' = Append(shares, x)
      /\ pending' = pending \cup {n - base}
      /\ queue' = Tail(queue)
      /\ UNCHANGED <<base, sessions, found, toMiner, inbox, view, device, answered>>
  <2>1. shares' = Append(shares, x)
    BY DEF Submit
  <2>2. pending' = pending \cup {Len(shares) + 1 - base} /\ queue' = Tail(queue)
    BY DEF Submit
  <2>3. UNCHANGED <<base, sessions, found, toMiner, inbox, view, device, answered>>
    BY DEF Submit, processVars, poolVars
  <2>4. Len(shares) + 1 - base = n - base
    BY <1>3
  <2> QED
    BY <2>1, <2>2, <2>3, <2>4
<1> HIDE DEF x
<1>5. /\ shares' \in Seq(ShareRecords)
      /\ Len(shares') = n
      /\ shares'[n] = x
      /\ \A j \in 1 .. Len(shares) : shares'[j] = shares[j]
      /\ \A a \in Answers : \A r : /\ BookedAs(shares', a) = BookedAs(shares, a)
                                   /\ BookedFor(shares', a, r) = BookedFor(shares, a, r)
  <2>1. shares' = Append(shares, x)
    BY <1>4
  <2>2. x \in ShareRecords /\ x.booked = "none"
    BY <1>2
  <2> DEFINE T == shares'
  <2>3. T = Append(shares, x)
    BY <2>1
  <2> HIDE DEF T
  <2>4. /\ T \in Seq(ShareRecords)
        /\ Len(T) = n
        /\ T[n] = x
    BY <2>2, <2>3, <1>3, SendOne
  <2>5. \A j \in 1 .. Len(shares) : T[j] = shares[j]
    BY <2>2, <2>3, <1>3, SendOne
  <2>6. \A a \in Answers : \A r : /\ BookedAs(T, a) = BookedAs(shares, a)
                                  /\ BookedFor(T, a, r) = BookedFor(shares, a, r)
    <3> SUFFICES ASSUME NEW a \in Answers, NEW r
                 PROVE  /\ BookedAs(T, a) = BookedAs(shares, a)
                        /\ BookedFor(T, a, r) = BookedFor(shares, a, r)
      OBVIOUS
    <3>1. a # "none"
      BY DEF Answers
    <3> QED
      BY <1>3, <2>2, <2>4, <2>5, <3>1 DEF BookedAs, BookedFor
  <2> QED
    BY <2>4, <2>5, <2>6 DEF T
<1>6. Ids' = 1 .. n - base /\ Ids \subseteq Ids' /\ n - base \in Ids'
  BY <1>3, <1>4, <1>5 DEF Ids
<1>7. MinerTypes'
  <2>1. base' <= Len(shares')
    BY <1>3, <1>4, <1>5
  <2>2. pending' \subseteq Ids' /\ answered' \subseteq Ids'
    BY <1>4, <1>6 DEF MinerTypes
  <2> QED
    BY <1>1, <1>4, <1>5, <2>1, <2>2 DEF MinerTypes
<1>8. OwnFinds(found)' /\ OwnFinds(queue)'
  BY <1>1, <1>4 DEF OwnFinds
<1>9. OwnSessionOnly'
  BY <1>2, <1>3, <1>5 DEF OwnSessionOnly
<1>10. TableExact'
  <2> SUFFICES ASSUME NEW k \in base + 1 .. n
               PROVE  shares'[k].booked = "none" <=> k - base \in pending'
    BY <1>4, <1>5 DEF TableExact
  <2>1. CASE k = n
    BY <1>2, <1>4, <1>5, <2>1
  <2>2. CASE k # n
    <3>1. k \in base + 1 .. Len(shares) /\ k \in 1 .. Len(shares)
      BY <1>3, <2>2
    <3>2. shares'[k].booked = "none" <=> k - base \in pending
      BY <1>5, <3>1 DEF TableExact
    <3>3. k - base # n - base
      BY <1>3, <2>2
    <3> QED
      BY <1>4, <3>2, <3>3
  <2> QED
    BY <2>1, <2>2
<1>11. CountersAddUp'
  <2>1. CountersBySet
    BY CountersNamed
  <2>3. CountersBySet'
    BY <1>4, <1>5, <2>1 DEF CountersBySet
  <2> QED
    BY <2>3, CountersNamed, PTL
<1> QED
  BY <1>7, <1>8, <1>9, <1>10, <1>11

\* The head of the inbox is a message, and the tail holds the others.
LEMMA InboxHead ==
    ASSUME MinerTypes, inbox # <<>>
    PROVE  /\ Head(inbox) \in Messages
           /\ Tail(inbox) \in Seq(Messages)
           /\ Head(inbox) = inbox[1]
           /\ Len(inbox) \in Nat \ {0}
           /\ Len(Tail(inbox)) = Len(inbox) - 1
           /\ \A i \in 1 .. Len(inbox) - 1 : Tail(inbox)[i] = inbox[i + 1]
<1> DEFINE M == Messages
<1>1. inbox \in Seq(M)
  BY DEF MinerTypes
<1> HIDE DEF M
<1>2. /\ Head(inbox) \in M
      /\ Tail(inbox) \in Seq(M)
      /\ Head(inbox) = inbox[1]
      /\ Len(inbox) \in Nat \ {0}
      /\ Len(Tail(inbox)) = Len(inbox) - 1
      /\ \A i \in 1 .. Len(inbox) - 1 : Tail(inbox)[i] = inbox[i + 1]
  BY <1>1
<1> QED
  BY <1>2 DEF M

\* The message carries the id of a pending share.
Books(m) == m.type \in {"reply", "call"} /\ m.id \in pending

\* A message either books a pending share or leaves the books alone.
LEMMA MessageBooks ==
    ASSUME MinerInv, Message
    PROVE  /\ inbox' = Tail(inbox)
           /\ UNCHANGED <<base, sessions, found, queue, toMiner, answered>>
           /\ \/ Books(Head(inbox)) /\ Book(Head(inbox).id, Answer(Head(inbox)))
              \/ ~Books(Head(inbox)) /\ UNCHANGED <<view, device, shares, pending>>
<1>1. inbox' = Tail(inbox) /\ UNCHANGED <<base, sessions, found, queue, toMiner, answered>>
  BY DEF Message, poolVars
<1>2. BookMessage(Head(inbox))
  BY DEF Message
<1> QED
  BY <1>1, <1>2 DEF BookMessage, Books

\* An answer is one of the three.
LEMMA AnswerType ==
    ASSUME NEW m \in Messages
    PROVE  Answer(m) \in Answers
<1>1. m.type = "reply" => m.answer \in Answers
  BY DEF Messages
<1> QED
  BY <1>1 DEF Answer, Answers

\* Booking keeps the invariant: the share was in the table, so it was not
\* booked, and now it is booked and out of the table.
LEMMA MinerBook ==
    ASSUME MinerInv, NEW id \in pending, NEW b \in Answers, Book(id, b),
           inbox' \in Seq(Messages),
           UNCHANGED <<base, sessions, found, queue, toMiner, answered>>
    PROVE  MinerInv'
<1> USE DEF MinerInv
<1> DEFINE k == base + id
           r == shares[k].row
<1>1. /\ base \in Nat /\ shares \in Seq(ShareRecords) /\ Len(shares) \in Nat
      /\ base <= Len(shares) /\ id \in 1 .. Len(shares) - base
  BY DEF MinerTypes, Ids
<1>2. k \in 1 .. Len(shares) /\ k \in base + 1 .. Len(shares) /\ k - base = id /\ k \in Nat
  BY <1>1
<1>3. /\ view' = [view EXCEPT ![b] = @ + 1]
      /\ device' = [device EXCEPT ![r][b] = @ + 1]
      /\ shares' = [shares EXCEPT ![k].booked = b]
      /\ pending' = pending \ {id}
  BY DEF Book
<1> HIDE DEF k
<1>4. shares[k].booked = "none"
  BY <1>2 DEF TableExact
<1>5. shares[k] \in ShareRecords
  BY <1>1, <1>2
<1>6. r \in Rows
  BY <1>5 DEF ShareRecords
<1>7. /\ shares' \in Seq(ShareRecords)
      /\ Len(shares') = Len(shares)
      /\ shares'[k].booked = b
      /\ shares'[k].row = shares[k].row
      /\ shares'[k].session = shares[k].session
      /\ shares'[k].found_in = shares[k].found_in
      /\ \A j \in 1 .. Len(shares) : j # k => shares'[j] = shares[j]
  BY <1>1, <1>2, <1>3, <1>4, BookOne, SMTT(30)
<1>8. Ids' = Ids /\ pending' \subseteq Ids'
  BY <1>3, <1>7 DEF Ids, MinerTypes
<1>9. /\ view' \in [Answers \cup {"pending"} -> Nat]
      /\ \A a \in Answers : view'[a] = IF a = b THEN view[a] + 1 ELSE view[a]
  BY <1>3 DEF MinerTypes
<1> HIDE DEF r
<1>10. /\ device' \in [Rows -> [Answers -> Nat]]
       /\ \A q \in Rows : \A a \in Answers :
             device'[q][a] = IF q = r /\ a = b THEN device[q][a] + 1 ELSE device[q][a]
  <2>1. device \in [Rows -> [Answers -> Nat]]
    BY DEF MinerTypes
  <2>2. device' = [device EXCEPT ![r] = [device[r] EXCEPT ![b] = device[r][b] + 1]]
    BY <1>3, <1>6, <2>1
  <2>3. device[r] \in [Answers -> Nat]
    BY <1>6, <2>1
  <2>4. [device[r] EXCEPT ![b] = device[r][b] + 1] \in [Answers -> Nat]
    BY <2>3
  <2>5. device' \in [Rows -> [Answers -> Nat]]
    BY <1>6, <2>1, <2>2, <2>4
  <2>6. ASSUME NEW q \in Rows, NEW a \in Answers
        PROVE  device'[q][a] = IF q = r /\ a = b THEN device[q][a] + 1 ELSE device[q][a]
    BY <1>6, <2>1, <2>2, <2>3
  <2> QED
    BY <2>5, <2>6
<1>11. MinerTypes'
  BY <1>7, <1>8, <1>9, <1>10 DEF MinerTypes, Ids
<1>12. OwnFinds(found)' /\ OwnFinds(queue)'
  BY DEF OwnFinds
<1>13. OwnSessionOnly'
  BY <1>2, <1>7 DEF OwnSessionOnly
<1>14. TableExact'
  <2> SUFFICES ASSUME NEW j \in base + 1 .. Len(shares)
               PROVE  shares'[j].booked = "none" <=> j - base \in pending'
    BY <1>7 DEF TableExact
  <2>1. CASE j = k
    <3>1. b # "none"
      BY DEF Answers
    <3> QED
      BY <1>2, <1>3, <1>7, <2>1, <3>1
  <2>2. CASE j # k
    <3>1. j \in 1 .. Len(shares) /\ j - base # id
      BY <1>1, <1>2, <2>2
    <3> QED
      BY <1>3, <1>7, <2>2, <3>1 DEF TableExact
  <2> QED
    BY <2>1, <2>2
<1>15. CountersAddUp'
  <2>1. CountersBySet
    BY CountersNamed
  <2>2. ASSUME NEW a \in Answers
        PROVE  /\ Cardinality(BookedAs(shares', a)) =
                    IF a = b THEN Cardinality(BookedAs(shares, a)) + 1
                    ELSE Cardinality(BookedAs(shares, a))
               /\ \A q \in Rows : Cardinality(BookedFor(shares', a, q)) =
                    IF a = b /\ q = shares[k].row
                    THEN Cardinality(BookedFor(shares, a, q)) + 1
                    ELSE Cardinality(BookedFor(shares, a, q))
    <3> DEFINE T == shares'
    <3>1. /\ T \in Seq(ShareRecords) /\ Len(T) = Len(shares)
          /\ T[k].booked = b /\ T[k].row = shares[k].row
          /\ \A j \in 1 .. Len(shares) : j # k => T[j] = shares[j]
      BY <1>7
    <3> HIDE DEF T
    <3>2. /\ Cardinality(BookedAs(T, a)) =
               IF a = b THEN Cardinality(BookedAs(shares, a)) + 1
               ELSE Cardinality(BookedAs(shares, a))
          /\ \A q \in Rows : Cardinality(BookedFor(T, a, q)) =
               IF a = b /\ q = shares[k].row
               THEN Cardinality(BookedFor(shares, a, q)) + 1
               ELSE Cardinality(BookedFor(shares, a, q))
      BY <1>1, <1>2, <1>4, <3>1, BookOneCounts
    <3> QED
      BY <3>2 DEF T
  <2>3. CountersBySet'
    BY <1>9, <1>10, <2>1, <2>2 DEF CountersBySet, r
  <2> QED
    BY <2>3, CountersNamed, PTL
<1> QED
  BY <1>11, <1>12, <1>13, <1>14, <1>15

\* A message that books nothing, and one that books.
LEMMA MinerMessage ==
    ASSUME MinerInv, Message
    PROVE  MinerInv'
<1>1. inbox # <<>>
  BY DEF Message
<1>2. Head(inbox) \in Messages /\ Tail(inbox) \in Seq(Messages)
  BY <1>1, InboxHead DEF MinerInv
<1>3. /\ inbox' \in Seq(Messages)
      /\ UNCHANGED <<base, sessions, found, queue, toMiner, answered>>
  BY <1>2, MessageBooks
<1>4. CASE Books(Head(inbox)) /\ Book(Head(inbox).id, Answer(Head(inbox)))
  BY <1>2, <1>3, <1>4, AnswerType, MinerBook DEF Books
<1>5. CASE UNCHANGED <<view, device, shares, pending>>
  <2>1. MinerTypes' /\ OwnFinds(found)' /\ OwnFinds(queue)'
    BY <1>3, <1>5 DEF MinerInv, MinerTypes, OwnFinds, Ids
  <2> QED
    BY <1>3, <1>5, <2>1, MinerSameBooks
<1> QED
  BY <1>4, <1>5, MessageBooks

\* No step of the miner, its devices or the pool breaks the invariant.
LEMMA MinerNext ==
    ASSUME MinerInv, [Next]_vars
    PROVE  MinerInv'
<1>1. CASE Quiet
  <2>1. MinerTypes' /\ OwnFinds(found)' /\ OwnFinds(queue)'
    BY <1>1 DEF Quiet, MinerInv, MinerTypes, OwnFinds, Ids
  <2> QED
    BY <1>1, <2>1, MinerSameBooks DEF Quiet
<1>2. CASE \E t \in {"job", "authorized", "bad", "blank"} : PoolSends([type |-> t])
  <2>1. PICK t \in {"job", "authorized", "bad", "blank"} : PoolSends([type |-> t])
    BY <1>2
  <2>2. [type |-> t] \in Messages
    BY DEF Messages
  <2> QED
    BY <2>1, <2>2, MinerPoolSends
<1>3. CASE \E id \in 1 .. MaxSent : PoolSends([type |-> "call", id |-> id])
  <2>1. PICK id \in 1 .. MaxSent : PoolSends([type |-> "call", id |-> id])
    BY <1>3
  <2>2. [type |-> "call", id |-> id] \in Messages
    BY DEF Messages
  <2> QED
    BY <2>1, <2>2, MinerPoolSends
<1> QED
  BY <1>1, <1>2, <1>3, StepKinds, MinerRestart, MinerRecv, MinerMessage, MinerSwap,
     MinerDrop, MinerSubmit, MinerPublish, MinerFind, MinerPoolAnswers

\* The invariant of the connection thread.
THEOREM MinerInvariance == Spec => []MinerInv
<1>1. Init => MinerInv
  BY MinerInit
<1>2. MinerInv /\ [Next]_vars => MinerInv'
  BY MinerNext
<1> QED
  BY <1>1, <1>2, PTL DEF Spec

\* Nothing found in a lost session is submitted in the next one, although job
\* generations and ids start again (miner.cpp:452-467, 542-543).
THEOREM OwnSessions == Spec => []OwnSessionOnly
<1>1. MinerInv => OwnSessionOnly
  BY DEF MinerInv
<1> QED
  BY <1>1, MinerInvariance, PTL

\* Every counter of the dashboard and the API is the number of shares booked
\* that way, in total and per device, whatever the pool sends
\* (miner.cpp:591-611).
THEOREM CountersExact == Spec => []CountersAddUp
<1>1. MinerInv => CountersAddUp
  BY DEF MinerInv
<1> QED
  BY <1>1, MinerInvariance, PTL

-----------------------------------------------------------------------------
(* The published numbers *)

\* Cardinality of a disjoint union.
LEMMA DisjointUnion ==
    ASSUME NEW S, NEW T, IsFiniteSet(S), IsFiniteSet(T), S \cap T = {}
    PROVE  /\ IsFiniteSet(S \cup T)
           /\ Cardinality(S \cup T) = Cardinality(S) + Cardinality(T)
           /\ Cardinality(S) \in Nat /\ Cardinality(T) \in Nat
<1>1. IsFiniteSet(S \cup T)
  BY FS_Union
<1>2. Cardinality(S) \in Nat /\ Cardinality(T) \in Nat
  BY FS_CardinalityType
<1>3. Cardinality(S \cap T) = 0
  BY FS_EmptySet
<1> QED
  BY <1>1, <1>2, <1>3, FS_Union

LostShares == {k \in 1 .. base : shares[k].booked = "none"}

OpenShares == {k \in base + 1 .. Len(shares) : shares[k].booked = "none"}

\* The table has one entry for each share of the session that is not booked.
LEMMA TableSize ==
    ASSUME MinerInv
    PROVE  /\ IsFiniteSet(pending) /\ IsFiniteSet(OpenShares)
           /\ Cardinality(OpenShares) = Cardinality(pending)
<1>1. /\ base \in Nat /\ Len(shares) \in Nat /\ base <= Len(shares)
      /\ pending \subseteq 1 .. Len(shares) - base
  BY DEF MinerInv, MinerTypes, Ids
<1>2. IsFiniteSet(1 .. Len(shares) - base)
  BY <1>1, FS_Interval
<1>3. IsFiniteSet(pending)
  BY <1>1, <1>2, FS_Subset
<1> DEFINE f == [i \in pending |-> base + i]
<1>4. \A i \in pending : base + i \in OpenShares
  <2> SUFFICES ASSUME NEW i \in pending PROVE base + i \in OpenShares
    OBVIOUS
  <2>1. PICK k \in base + 1 .. Len(shares) : k = base + i /\ k - base = i
    BY <1>1
  <2>2. shares[k].booked = "none"
    BY <2>1 DEF MinerInv, TableExact
  <2> QED
    BY <2>1, <2>2 DEF OpenShares
<1>5. \A k \in OpenShares : k - base \in pending /\ base + (k - base) = k
  BY <1>1 DEF OpenShares, MinerInv, TableExact
<1>6. f \in [pending -> OpenShares]
  BY <1>4
<1>7. \A i, j \in pending : f[i] = f[j] => i = j
  BY <1>1
<1>8. \A k \in OpenShares : \E i \in pending : f[i] = k
  BY <1>5
<1> HIDE DEF f
<1>9. f \in Bijection(pending, OpenShares)
  BY <1>6, <1>7, <1>8 DEF Bijection, Injection, Surjection, IsInjective
<1>10. ExistsBijection(pending, OpenShares)
  BY <1>9 DEF ExistsBijection
<1> QED
  BY <1>3, <1>10, FS_Bijection

\* Every share sent is accepted, rejected, stale, in the table, or lost with
\* its session.
LEMMA EveryShareOnce ==
    ASSUME MinerInv
    PROVE  view["accepted"] + view["rejected"] + view["stale"] + Cardinality(pending)
             = Len(shares) - Lost
<1> DEFINE A == BookedAs(shares, "accepted")
           R == BookedAs(shares, "rejected")
           S == BookedAs(shares, "stale")
           L == LostShares
           O == OpenShares
<1>1. /\ base \in Nat /\ Len(shares) \in Nat /\ base <= Len(shares)
      /\ shares \in Seq(ShareRecords)
  BY DEF MinerInv, MinerTypes
<1>2. \A k \in 1 .. Len(shares) : shares[k].booked \in {"accepted", "rejected", "stale", "none"}
  <2>1. \A k \in 1 .. Len(shares) : shares[k] \in ShareRecords
    BY <1>1
  <2> QED
    BY <2>1 DEF ShareRecords, Verdicts, Answers
<1>3. /\ view["accepted"] = Cardinality(A)
      /\ view["rejected"] = Cardinality(R)
      /\ view["stale"] = Cardinality(S)
  <2>1. CountersBySet
    BY CountersNamed DEF MinerInv
  <2> QED
    BY <2>1 DEF CountersBySet, Answers
<1>4. Lost = Cardinality(L)
  BY DEF Lost, LostShares
<1>5. IsFiniteSet(A) /\ IsFiniteSet(R) /\ IsFiniteSet(S)
  BY <1>1, BookedFinite
<1>6. IsFiniteSet(O) /\ Cardinality(O) = Cardinality(pending)
  BY TableSize
<1>7. IsFiniteSet(L)
  <2>1. IsFiniteSet(1 .. base) /\ L \in SUBSET (1 .. base)
    BY <1>1, FS_Interval DEF LostShares
  <2> QED
    BY <2>1, FS_Subset
<1>8. /\ A \cap R = {} /\ (A \cup R) \cap S = {}
      /\ ((A \cup R) \cup S) \cap L = {}
      /\ (((A \cup R) \cup S) \cup L) \cap O = {}
      /\ ((((A \cup R) \cup S) \cup L) \cup O) = 1 .. Len(shares)
  <2>1. /\ A \cap R = {} /\ (A \cup R) \cap S = {}
        /\ ((A \cup R) \cup S) \cap L = {}
    BY DEF BookedAs, LostShares
  <2>2. (((A \cup R) \cup S) \cup L) \cap O = {}
    BY <1>1 DEF BookedAs, LostShares, OpenShares
  <2>3. ((((A \cup R) \cup S) \cup L) \cup O) \subseteq 1 .. Len(shares)
    BY <1>1 DEF BookedAs, LostShares, OpenShares
  <2>4. 1 .. Len(shares) \subseteq ((((A \cup R) \cup S) \cup L) \cup O)
    BY <1>1, <1>2 DEF BookedAs, LostShares, OpenShares
  <2> QED
    BY <2>1, <2>2, <2>3, <2>4
<1>9. Cardinality(1 .. Len(shares)) = Len(shares)
  <2>1. 1 \in Int /\ Len(shares) \in Int
    BY <1>1
  <2>2. Cardinality(1 .. Len(shares)) = IF 1 > Len(shares) THEN 0 ELSE Len(shares) - 1 + 1
    BY <2>1, FS_Interval, Zenon
  <2> QED
    BY <1>1, <2>2
<1> HIDE DEF A, R, S, L, O
<1>10. /\ IsFiniteSet(A \cup R)
       /\ Cardinality(A \cup R) = Cardinality(A) + Cardinality(R)
       /\ Cardinality(A) \in Nat /\ Cardinality(R) \in Nat
  BY <1>5, <1>8, DisjointUnion
<1>11. /\ IsFiniteSet((A \cup R) \cup S)
       /\ Cardinality((A \cup R) \cup S) = Cardinality(A \cup R) + Cardinality(S)
       /\ Cardinality(S) \in Nat
  BY <1>5, <1>8, <1>10, DisjointUnion
<1>12. /\ IsFiniteSet(((A \cup R) \cup S) \cup L)
       /\ Cardinality(((A \cup R) \cup S) \cup L)
            = Cardinality((A \cup R) \cup S) + Cardinality(L)
       /\ Cardinality(L) \in Nat
  BY <1>7, <1>8, <1>11, DisjointUnion
<1>13. /\ Cardinality((((A \cup R) \cup S) \cup L) \cup O)
            = Cardinality(((A \cup R) \cup S) \cup L) + Cardinality(O)
       /\ Cardinality(O) \in Nat
  BY <1>6, <1>8, <1>12, DisjointUnion
<1>14. Len(shares) = Cardinality(A) + Cardinality(R) + Cardinality(S) + Cardinality(L)
                       + Cardinality(O)
  BY <1>8, <1>9, <1>10, <1>11, <1>12, <1>13
<1> QED
  BY <1>1, <1>3, <1>4, <1>6, <1>10, <1>11, <1>12, <1>13, <1>14

\* Only the end of an iteration leads from submitting back to the loop's top.
LEMMA BackToTop ==
    ASSUME [Next]_vars, pc = "submit", pc' = "top"
    PROVE  EndOfIteration
BY DEF Next, MainStep, Environment, vars, Connect, ConnectFails, BackoffDone, Finish,
       LoopTop, SessionEnds, StartDrain, Recv, RecvBlank, RecvRefused, ReadClosed,
       WouldBlock, Message, BadMessage,
       MessagesDone, Swap, SeeFailure, Drop, Submit, SubmitFails, HashCheckFails, Timeout,
       Throw, Expire, DrainDeadline, Find, DeviceFails, PoolSends, PoolAnswers,
       PoolCloses

\* The numbers published at the end of an iteration belong together: accepted,
\* rejected, stale and pending shares are all that were sent, less those lost
\* with their session (miner.cpp:582-611, 684).
THEOREM PublishedExact == Spec => PublishedAddsUp
<1> DEFINE P == (pc = "submit" /\ pc' = "top") =>
                  view'["accepted"] + view'["rejected"] + view'["stale"] + view'["pending"]
                     = Len(shares) - Lost
<1>1. MinerInv /\ [Next]_vars => [P]_vars
  <2> SUFFICES ASSUME MinerInv, [Next]_vars, pc = "submit", pc' = "top"
               PROVE  view'["accepted"] + view'["rejected"] + view'["stale"]
                        + view'["pending"] = Len(shares) - Lost
    OBVIOUS
  <2>1. EndOfIteration
    BY BackToTop
  <2>2. view \in [Answers \cup {"pending"} -> Nat]
    BY DEF MinerInv, MinerTypes
  <2>3. /\ view'["accepted"] = view["accepted"]
        /\ view'["rejected"] = view["rejected"]
        /\ view'["stale"] = view["stale"]
        /\ view'["pending"] = Cardinality(pending)
    BY <2>1, <2>2 DEF EndOfIteration, Answers
  <2> QED
    BY <2>3, EveryShareOnce
<1> QED
  BY <1>1, MinerInvariance, PTL DEF Spec, PublishedAddsUp

\* When a session ends in the regular way, every share it sent has been booked
\* or the five seconds of the drain are over: the table the loop waits for
\* holds every share that is not booked (miner.cpp:547-554, 582-612).
THEOREM DrainIsWaitedFor == Spec => DrainWaits
<1> DEFINE Settled == \A k \in base + 1 .. Len(shares) : shares[k].booked # "none"
<1>1. MinerInv /\ [Next]_vars
        => [(pc = "top" /\ pc' = "loop") => drain_over \/ Settled]_vars
  <2> SUFFICES ASSUME MinerInv, [Next]_vars, pc = "top", pc' = "loop", ~drain_over
               PROVE  Settled
    OBVIOUS
  <2>1. SessionEnds
    BY DEF Next, MainStep, Environment, vars, Connect, ConnectFails, BackoffDone, Finish,
           LoopTop, StartDrain, Recv, RecvBlank, RecvRefused, ReadClosed, WouldBlock,
           Message, BadMessage, MessagesDone, Swap,
           SeeFailure, Drop, Sendable, Submit, SubmitFails, HashCheckFails, SubmitDone,
           Timeout, EndOfIteration, Expire, DrainDeadline, Find, DeviceFails, PoolSends,
           PoolAnswers, PoolCloses
  <2>2. pending = {}
    BY <2>1 DEF SessionEnds, KeepGoing
  <2> QED
    BY <2>2 DEF MinerInv, TableExact
<1> QED
  BY <1>1, MinerInvariance, PTL DEF Spec, DrainWaits

-----------------------------------------------------------------------------
(* The devices work on the newest job *)

\* Work is published only to an authorized session.
WorkInv ==
    /\ {authorized, activated, draining} \subseteq BOOLEAN
    /\ activated => authorized
    /\ WorkIsNewest

\* Every step but a message leaves the work alone, starts afresh or begins the
\* drain.
LEMMA WorkSteps ==
    ASSUME [Next]_vars
    PROVE  \/ UNCHANGED <<authorized, activated, draining, tip, work>>
           \/ FreshSession
           \/ StartDrain
           \/ Message
<1> USE DEF processVars, sessionVars, poolVars
<1>1. CASE MainStep
  <2>1. CASE Connect \/ SessionEnds
    BY <2>1 DEF Connect, SessionEnds
  <2>2. CASE RecvRefused \/ ReadClosed \/ BadMessage \/ SeeFailure \/ SubmitFails
               \/ HashCheckFails \/ Timeout
    BY <2>2 DEF RecvRefused, ReadClosed, BadMessage, SeeFailure, SubmitFails,
                HashCheckFails, Timeout, Throw
  <2>3. CASE ConnectFails \/ BackoffDone \/ Finish \/ LoopTop \/ WouldBlock \/ Recv
               \/ RecvBlank \/ Swap \/ Drop \/ Submit \/ EndOfIteration
    BY <2>3 DEF ConnectFails, BackoffDone, Finish, LoopTop, WouldBlock, Recv, RecvBlank,
                Swap, Drop, Submit, EndOfIteration
  <2> QED
    BY <1>1, <2>1, <2>2, <2>3 DEF MainStep
<1>2. CASE Environment
  <2>1. CASE Expire \/ DrainDeadline \/ DeviceFails \/ PoolCloses
    BY <2>1 DEF Expire, DrainDeadline, DeviceFails, PoolCloses
  <2>2. ASSUME NEW r, NEW e, Find(r, e)
        PROVE  UNCHANGED <<authorized, activated, draining, tip, work>>
    BY <2>2 DEF Find
  <2>3. ASSUME NEW m, PoolSends(m)
        PROVE  UNCHANGED <<authorized, activated, draining, tip, work>>
    BY <2>3 DEF PoolSends
  <2>4. ASSUME NEW id, NEW a, PoolAnswers(id, a)
        PROVE  UNCHANGED <<authorized, activated, draining, tip, work>>
    BY <2>4 DEF PoolAnswers
  <2> QED
    BY <1>2, <2>1, <2>2, <2>3, <2>4 DEF Environment
<1>3. CASE UNCHANGED vars
  BY <1>3 DEF vars
<1> QED
  BY <1>1, <1>2, <1>3 DEF Next

\* Once authorized, the devices work on the newest job, whichever of the job
\* and the authorization came first and whatever else arrives in between
\* (miner.cpp:582, 615-628).
THEOREM NewestWork == Spec => []WorkIsNewest
<1>1. Init => WorkInv
  BY DEF Init, WorkInv, WorkIsNewest
<1>2. WorkInv /\ [Next]_vars => WorkInv'
  <2> SUFFICES ASSUME WorkInv, [Next]_vars
               PROVE  WorkInv'
    OBVIOUS
  <2>1. CASE UNCHANGED <<authorized, activated, draining, tip, work>>
    BY <2>1 DEF WorkInv, WorkIsNewest
  <2>2. CASE FreshSession
    BY <2>2 DEF FreshSession, WorkInv, WorkIsNewest
  <2>3. CASE StartDrain
    BY <2>3 DEF StartDrain, WorkInv, WorkIsNewest
  <2>4. CASE Message
    <3> DEFINE m == Head(inbox)
    <3>1. /\ authorized' = Authorized(m) /\ draining' = draining /\ tip' = Epoch(m)
          /\ \/ Publishes(m) /\ work' = Epoch(m) /\ activated' = (Epoch(m) # 0)
             \/ ~Publishes(m) /\ UNCHANGED <<work, activated>>
      BY <2>4 DEF Message
    <3>2. authorized' \in BOOLEAN /\ activated' \in BOOLEAN /\ draining' \in BOOLEAN
      BY <3>1 DEF WorkInv, Authorized
    <3>3. CASE Publishes(m)
      BY <3>1, <3>2, <3>3 DEF WorkInv, WorkIsNewest, Publishes
    <3>4. CASE ~Publishes(m)
      BY <3>1, <3>2, <3>4 DEF WorkInv, WorkIsNewest, Publishes, Authorized, Epoch
    <3> QED
      BY <3>3, <3>4
  <2> QED
    BY <2>1, <2>2, <2>3, <2>4, WorkSteps
<1>3. WorkInv => WorkIsNewest
  BY DEF WorkInv
<1> QED
  BY <1>1, <1>2, <1>3, PTL DEF Spec

-----------------------------------------------------------------------------
(* What is booked is what the pool answered *)

\* Steps that touch neither the shares nor the messages.
LEMMA SameReplies ==
    ASSUME ReplyInv, UNCHANGED <<base, shares, toMiner, inbox, answered>>
    PROVE  ReplyInv'
BY DEF ReplyInv, RepliesTrue, BookedAreAnswered, BookedAsAnswered

\* A line of the stream moves from the wire to the inbox, or is skipped.
LEMMA ReplyRecv ==
    ASSUME MinerInv, ReplyInv, Recv \/ RecvBlank
    PROVE  ReplyInv'
<1>1. toMiner # <<>>
  BY DEF Recv, RecvBlank
<1> DEFINE h == Head(toMiner)
<1>2. /\ toMiner' = Tail(toMiner)
      /\ inbox' = Append(inbox, h) \/ inbox' = inbox
      /\ UNCHANGED <<base, shares, answered>>
  BY DEF Recv, RecvBlank, sessionVars
<1>3. /\ h = toMiner[1]
      /\ Len(toMiner) \in Nat \ {0}
      /\ Len(toMiner') = Len(toMiner) - 1
      /\ \A i \in 1 .. Len(toMiner) - 1 : toMiner'[i] = toMiner[i + 1]
  BY <1>1, <1>2, WireHead DEF MinerInv
<1>4. RepliesTrue(toMiner)'
  <2>1. \A i \in 1 .. Len(toMiner') : i + 1 \in 1 .. Len(toMiner) /\ toMiner'[i] = toMiner[i + 1]
    BY <1>3
  <2> QED
    BY <1>2, <2>1 DEF ReplyInv, RepliesTrue
<1>5. RepliesTrue(inbox)'
  <2>1. CASE inbox' = inbox
    BY <1>2, <2>1 DEF ReplyInv, RepliesTrue
  <2>2. CASE inbox' = Append(inbox, h)
    <3>1. inbox \in Seq(Messages)
      BY DEF MinerInv, MinerTypes
    <3> HIDE DEF h
    <3>2. /\ Len(inbox) \in Nat /\ Len(inbox') = Len(inbox) + 1
          /\ inbox'[Len(inbox) + 1] = h
          /\ \A i \in 1 .. Len(inbox) : inbox'[i] = inbox[i]
      BY <2>2, <3>1
    <3>3. 1 \in 1 .. Len(toMiner)
      BY <1>3
    <3>4. /\ h.type # "call"
          /\ h.type = "reply" => /\ h.id \in answered
                                 /\ h.answer = shares[base + h.id].decided
      BY <1>3, <3>3 DEF ReplyInv, RepliesTrue
    <3>5. \A i \in 1 .. Len(inbox') : i = Len(inbox) + 1 \/ i \in 1 .. Len(inbox)
      BY <3>2
    <3> QED
      BY <1>2, <3>2, <3>4, <3>5 DEF ReplyInv, RepliesTrue
  <2> QED
    BY <1>2, <2>1, <2>2
<1>6. BookedAreAnswered' /\ BookedAsAnswered'
  BY <1>2 DEF ReplyInv, BookedAreAnswered, BookedAsAnswered
<1> QED
  BY <1>4, <1>5, <1>6 DEF ReplyInv

\* A message that is neither a reply nor a request joins the wire.
LEMMA ReplySends ==
    ASSUME MinerInv, ReplyInv, NEW m \in Messages, PoolSends(m),
           m.type \notin {"reply", "call"}
    PROVE  ReplyInv'
<1>1. toMiner \in Seq(Messages) /\ toMiner' = Append(toMiner, m)
  BY DEF MinerInv, MinerTypes, PoolSends
<1>2. UNCHANGED <<base, shares, answered, inbox>>
  BY DEF PoolSends, sessionVars
<1>3. /\ Len(toMiner') = Len(toMiner) + 1 /\ Len(toMiner) \in Nat
      /\ toMiner'[Len(toMiner) + 1] = m
      /\ \A i \in 1 .. Len(toMiner) : toMiner'[i] = toMiner[i]
  BY <1>1
<1>4. RepliesTrue(toMiner)'
  BY <1>2, <1>3 DEF ReplyInv, RepliesTrue
<1>5. RepliesTrue(inbox)' /\ BookedAreAnswered' /\ BookedAsAnswered'
  BY <1>2 DEF ReplyInv, RepliesTrue, BookedAreAnswered, BookedAsAnswered
<1> QED
  BY <1>4, <1>5 DEF ReplyInv

\* A new share is not decided and not booked; the answered ones are older.
LEMMA ReplySubmit ==
    ASSUME MinerInv, ReplyInv, Submit
    PROVE  ReplyInv'
<1> DEFINE x == [row |-> Head(queue).row, session |-> sessions,
                 found_in |-> Head(queue).session,
                 decided |-> "none", booked |-> "none"]
<1>1. shares' = Append(shares, x)
  BY DEF Submit
<1>2. UNCHANGED <<base, answered, toMiner, inbox>>
  BY DEF Submit, poolVars
<1>3. x.booked = "none"
  OBVIOUS
<1> HIDE DEF x
<1>4. /\ shares \in Seq(ShareRecords) /\ Len(shares) \in Nat /\ base \in Nat
      /\ base <= Len(shares) /\ answered \subseteq 1 .. Len(shares) - base
  BY DEF MinerInv, MinerTypes, Ids
<1>5. /\ Len(shares') = Len(shares) + 1
      /\ shares'[Len(shares) + 1] = x
      /\ \A k \in 1 .. Len(shares) : shares'[k] = shares[k]
  BY <1>1, <1>4
<1>6. \A id \in answered : shares'[base + id] = shares[base + id]
  BY <1>4, <1>5
<1>7. RepliesTrue(inbox)' /\ RepliesTrue(toMiner)'
  BY <1>2, <1>6 DEF ReplyInv, RepliesTrue
<1>8. BookedAreAnswered'
  <2> SUFFICES ASSUME NEW k \in base + 1 .. Len(shares) + 1, shares'[k].booked # "none"
               PROVE  k - base \in answered
    BY <1>2, <1>5 DEF BookedAreAnswered
  <2>1. k # Len(shares) + 1
    BY <1>3, <1>5
  <2>2. k \in base + 1 .. Len(shares) /\ k \in 1 .. Len(shares)
    BY <1>4, <2>1
  <2> QED
    BY <1>5, <2>2 DEF ReplyInv, BookedAreAnswered
<1>9. BookedAsAnswered'
  BY <1>3, <1>4, <1>5 DEF ReplyInv, BookedAsAnswered
<1> QED
  BY <1>7, <1>8, <1>9 DEF ReplyInv

\* The pool decides a share it has not answered: no reply to it is on its way
\* and it is not booked.
LEMMA ReplyAnswers ==
    ASSUME MinerInv, ReplyInv, NEW id \in Ids, NEW a \in Answers, PoolAnswers(id, a)
    PROVE  ReplyInv'
<1> DEFINE k == base + id
           m == [type |-> "reply", id |-> id, answer |-> a]
<1>1. /\ shares \in Seq(ShareRecords) /\ Len(shares) \in Nat /\ base \in Nat
      /\ base <= Len(shares) /\ answered \subseteq 1 .. Len(shares) - base
      /\ toMiner \in Seq(Messages)
  BY DEF MinerInv, MinerTypes, Ids
<1>2. /\ k \in 1 .. Len(shares) /\ k \in base + 1 .. Len(shares) /\ id \in Nat
      /\ k - base = id
  BY <1>1 DEF Ids
<1>3. /\ shares' = [shares EXCEPT ![k].decided = a]
      /\ toMiner' = Append(toMiner, m)
      /\ id \notin answered /\ answered' = answered \cup {id}
      /\ UNCHANGED <<base, inbox>>
  BY DEF PoolAnswers, sessionVars
<1>4. m.type = "reply" /\ m.id = id /\ m.answer = a /\ m \in Messages
  BY <1>2 DEF Messages
<1>5. \A i \in answered : base + i # k /\ base + i \in 1 .. Len(shares)
  BY <1>1, <1>2, <1>3
<1> HIDE DEF k, m
<1>6. /\ Len(shares') = Len(shares)
      /\ shares'[k].decided = a
      /\ \A j \in 1 .. Len(shares) :
            shares'[j].booked = shares[j].booked /\ (j # k => shares'[j] = shares[j])
  <2> DEFINE T == shares'
  <2>1. T = [shares EXCEPT ![k].decided = a]
    BY <1>3
  <2> HIDE DEF T
  <2>2. /\ Len(T) = Len(shares)
        /\ T[k].decided = a
        /\ \A j \in 1 .. Len(shares) :
              T[j].booked = shares[j].booked /\ (j # k => T[j] = shares[j])
    BY <1>1, <1>2, <2>1, DecideOne
  <2> QED
    BY <2>2 DEF T
<1>7. ASSUME NEW s \in Seq(Messages), RepliesTrue(s), NEW i \in 1 .. Len(s)
      PROVE  /\ s[i].type # "call"
             /\ s[i].type = "reply" =>
                   s[i].id \in answered' /\ s[i].answer = shares'[base + s[i].id].decided
  <2>1. CASE s[i].type = "reply"
    <3>1. s[i].id \in answered /\ s[i].answer = shares[base + s[i].id].decided
      BY <1>7, <2>1 DEF RepliesTrue
    <3>2. shares'[base + s[i].id] = shares[base + s[i].id]
      BY <1>5, <1>6, <3>1
    <3> QED
      BY <1>3, <1>7, <2>1, <3>1, <3>2 DEF RepliesTrue
  <2>2. CASE s[i].type # "reply"
    BY <1>7, <2>2 DEF RepliesTrue
  <2> QED
    BY <2>1, <2>2
<1>8. RepliesTrue(inbox)'
  <2>1. inbox \in Seq(Messages) /\ RepliesTrue(inbox)
    BY DEF MinerInv, MinerTypes, ReplyInv
  <2> QED
    BY <1>3, <1>7, <2>1 DEF RepliesTrue
<1>9. RepliesTrue(toMiner)'
  <2>1. /\ Len(toMiner') = Len(toMiner) + 1 /\ Len(toMiner) \in Nat
        /\ toMiner'[Len(toMiner) + 1] = m
        /\ \A i \in 1 .. Len(toMiner) : toMiner'[i] = toMiner[i]
    BY <1>1, <1>3
  <2>2. toMiner \in Seq(Messages) /\ RepliesTrue(toMiner)
    BY <1>1 DEF ReplyInv
  <2> SUFFICES ASSUME NEW i \in 1 .. Len(toMiner) + 1
               PROVE  /\ toMiner'[i].type # "call"
                      /\ toMiner'[i].type = "reply" =>
                            /\ toMiner'[i].id \in answered'
                            /\ toMiner'[i].answer = shares'[base + toMiner'[i].id].decided
    BY <1>3, <2>1 DEF RepliesTrue
  <2>3. CASE i = Len(toMiner) + 1
    BY <1>3, <1>4, <1>6, <2>1, <2>3 DEF k
  <2>4. CASE i # Len(toMiner) + 1
    <3>1. i \in 1 .. Len(toMiner) /\ toMiner'[i] = toMiner[i]
      BY <2>1, <2>4
    <3> QED
      BY <1>7, <2>2, <3>1
  <2> QED
    BY <2>3, <2>4
<1>10. BookedAreAnswered'
  <2> SUFFICES ASSUME NEW j \in base + 1 .. Len(shares), shares'[j].booked # "none"
               PROVE  j - base \in answered'
    BY <1>3, <1>6 DEF BookedAreAnswered
  <2>1. j \in 1 .. Len(shares)
    BY <1>1
  <2> QED
    BY <1>3, <1>6, <2>1 DEF ReplyInv, BookedAreAnswered
<1>11. BookedAsAnswered'
  <2> SUFFICES ASSUME NEW j \in 1 .. Len(shares), shares'[j].booked # "none"
               PROVE  shares'[j].booked = shares'[j].decided
    BY <1>6 DEF BookedAsAnswered
  <2>1. shares[j].booked # "none"
    BY <1>6
  <2>2. j # k
    BY <1>2, <1>3, <2>1 DEF ReplyInv, BookedAreAnswered
  <2> QED
    BY <1>6, <2>1, <2>2 DEF ReplyInv, BookedAsAnswered
<1> QED
  BY <1>8, <1>9, <1>10, <1>11 DEF ReplyInv

\* A message that books a share is a reply, and tells what the pool decided.
LEMMA ReplyMessage ==
    ASSUME MinerInv, ReplyInv, Message
    PROVE  ReplyInv'
<1> DEFINE h == Head(inbox)
           k == base + h.id
<1>1. inbox # <<>> /\ MinerTypes
  BY DEF Message, MinerInv
<1>2. /\ h \in Messages /\ Tail(inbox) \in Seq(Messages)
      /\ h = inbox[1]
      /\ Len(inbox) \in Nat \ {0}
      /\ Len(Tail(inbox)) = Len(inbox) - 1
      /\ \A i \in 1 .. Len(inbox) - 1 : Tail(inbox)[i] = inbox[i + 1]
  BY <1>1, InboxHead
<1>3. /\ inbox' = Tail(inbox)
      /\ UNCHANGED <<base, toMiner, answered>>
      /\ \/ Books(h) /\ Book(h.id, Answer(h))
         \/ ~Books(h) /\ UNCHANGED <<view, device, shares, pending>>
  BY MessageBooks
<1>4. RepliesTrue(Tail(inbox))
  BY <1>2 DEF ReplyInv, RepliesTrue
<1>5. CASE UNCHANGED shares
  BY <1>3, <1>4, <1>5 DEF ReplyInv, RepliesTrue, BookedAreAnswered, BookedAsAnswered
<1>6. CASE Books(h) /\ Book(h.id, Answer(h))
  <2>1. h.id \in pending /\ h.type = "reply"
    <3>1. h.type # "call"
      BY <1>2 DEF ReplyInv, RepliesTrue
    <3> QED
      BY <1>6, <3>1 DEF Books
  <2>2. h.id \in answered /\ h.answer = shares[k].decided
    BY <1>2, <2>1 DEF ReplyInv, RepliesTrue
  <2>3. /\ base \in Nat /\ shares \in Seq(ShareRecords) /\ Len(shares) \in Nat
        /\ base <= Len(shares) /\ h.id \in 1 .. Len(shares) - base
        /\ answered \subseteq 1 .. Len(shares) - base
    <3>1. /\ base \in Nat /\ shares \in Seq(ShareRecords) /\ Len(shares) \in Nat
          /\ base <= Len(shares) /\ pending \subseteq 1 .. Len(shares) - base
          /\ answered \subseteq 1 .. Len(shares) - base
      BY <1>1 DEF MinerTypes, Ids
    <3> QED
      BY <2>1, <3>1, Zenon
  <2>4. k \in 1 .. Len(shares) /\ k \in base + 1 .. Len(shares) /\ k - base = h.id
    BY <2>3
  <2>5. Answer(h) = h.answer /\ Answer(h) \in Answers
    BY <1>2, <2>1, AnswerType DEF Answer
  <2>6. shares' = [shares EXCEPT ![k].booked = Answer(h)]
    BY <1>6 DEF Book
  <2>7. shares[k].booked = "none"
    BY <2>1, <2>4 DEF MinerInv, TableExact
  <2> DEFINE b == Answer(h)
  <2>8. b \in Answers /\ b = shares[k].decided
    BY <2>2, <2>5
  <2>9. shares' = [shares EXCEPT ![k].booked = b]
    BY <2>6
  <2> HIDE DEF b, k, h
  <2>10. /\ Len(shares') = Len(shares)
         /\ shares'[k].booked = b /\ shares'[k].decided = shares[k].decided
         /\ \A j \in 1 .. Len(shares) : j # k => shares'[j] = shares[j]
    BY <2>3, <2>4, <2>7, <2>8, <2>9, BookOne
  <2>11. \A j \in 1 .. Len(shares) : shares'[j].decided = shares[j].decided
    BY <2>10
  <2>12. \A i \in answered : base + i \in 1 .. Len(shares)
    BY <2>3
  <2>13. RepliesTrue(toMiner)' /\ RepliesTrue(inbox)'
    BY <1>3, <1>4, <2>11, <2>12 DEF ReplyInv, RepliesTrue
  <2>14. BookedAreAnswered'
    <3> SUFFICES ASSUME NEW j \in base + 1 .. Len(shares), shares'[j].booked # "none"
                 PROVE  j - base \in answered
      BY <1>3, <2>10 DEF BookedAreAnswered
    <3>1. CASE j = k
      BY <2>2, <2>4, <3>1
    <3>2. CASE j # k
      <4>1. j \in 1 .. Len(shares)
        BY <2>3
      <4> QED
        BY <2>10, <3>2, <4>1 DEF ReplyInv, BookedAreAnswered
    <3> QED
      BY <3>1, <3>2
  <2>15. BookedAsAnswered'
    BY <2>8, <2>10 DEF ReplyInv, BookedAsAnswered
  <2> QED
    BY <2>13, <2>14, <2>15 DEF ReplyInv
<1> QED
  BY <1>3, <1>5, <1>6

\* No step breaks the invariant while the pool sends no requests of its own.
LEMMA ReplyNext ==
    ASSUME PoolCalls = FALSE, MinerInv, ReplyInv, [Next]_vars
    PROVE  ReplyInv'
<1>1. CASE Restart
  <2>1. RepliesTrue(toMiner)' /\ RepliesTrue(inbox)'
    BY <1>1 DEF Restart, RepliesTrue
  <2>2. BookedAreAnswered'
    BY <1>1 DEF Restart, BookedAreAnswered, MinerInv, MinerTypes
  <2>3. BookedAsAnswered'
    BY <1>1 DEF Restart, ReplyInv, BookedAsAnswered
  <2> QED
    BY <2>1, <2>2, <2>3 DEF ReplyInv
<1>2. CASE Quiet
  BY <1>2, SameReplies DEF Quiet
<1>3. CASE Swap \/ Drop \/ EndOfIteration
  BY <1>3, SameReplies DEF Swap, Drop, EndOfIteration, sessionVars, poolVars
<1>4. CASE \E r \in Rows, e \in 1 .. MaxEpoch : Find(r, e)
  BY <1>4, SameReplies DEF Find, poolVars
<1>5. CASE \E t \in {"job", "authorized", "bad", "blank"} : PoolSends([type |-> t])
  <2>1. PICK t \in {"job", "authorized", "bad", "blank"} : PoolSends([type |-> t])
    BY <1>5
  <2> DEFINE m == [type |-> t]
  <2>2. m \in Messages /\ m.type \notin {"reply", "call"} /\ PoolSends(m)
    BY <2>1 DEF Messages
  <2> HIDE DEF m
  <2> QED
    BY <2>2, ReplySends
<1> QED
  BY <1>1, <1>2, <1>3, <1>4, <1>5, StepKinds, ReplyRecv, ReplyMessage, ReplySubmit,
     ReplyAnswers

\* If the pool sends no requests of its own, what is booked for a share is what
\* the pool answered to that share, across reused ids and lost sessions
\* (miner.cpp:582-614).  With such requests it is not: run miner_calls.
THEOREM AnswersBooked ==
    ASSUME PoolCalls = FALSE
    PROVE  Spec => []BookedAsAnswered
<1>1. Init => ReplyInv
  BY DEF Init, ReplyInv, RepliesTrue, BookedAreAnswered, BookedAsAnswered
<1>2. MinerInv /\ ReplyInv /\ [Next]_vars => ReplyInv'
  BY ReplyNext
<1>3. ReplyInv => BookedAsAnswered
  BY DEF ReplyInv
<1> QED
  BY <1>1, <1>2, <1>3, MinerInvariance, PTL DEF Spec
=============================================================================
