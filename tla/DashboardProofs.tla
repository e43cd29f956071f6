--------------------------- MODULE DashboardProofs ---------------------------
(***************************************************************************)
(* For every capacity: the log lists events in the order in which they     *)
(* were posted, none twice, the newest QueueCap events are never lost, and *)
(* the view shows the newest EventCap events.                              *)
(***************************************************************************)
EXTENDS Dashboard, TLAPS

-----------------------------------------------------------------------------
(* The inductive invariant *)

\* The newest events, without a gap, at most cap of them.
Window(q, cap) ==
    /\ q \in Seq(Nat)
    /\ Len(q) <= cap
    /\ \A i \in 1 .. Len(q) : q[i] = posted - Len(q) + i

Increasing(q) == \A i, j \in 1 .. Len(q) : i < j => q[i] < q[j]

\* What is queued is behind what the UI thread holds, and that is behind what
\* it has written.
LogInv ==
    /\ posted \in Nat
    /\ log \in Seq(Nat) /\ lines \in Seq(Nat)
    /\ Window(queued, QueueCap)
    /\ ui # "write" => lines = <<>>
    /\ Increasing(lines)
    /\ \A i \in 1 .. Len(lines) : lines[i] <= posted - Len(queued)
    /\ \A i \in 1 .. Len(log) : log[i] <= posted - Len(queued)
    /\ \A i \in 1 .. Len(log), j \in 1 .. Len(lines) : log[i] < lines[j]
    /\ LogInOrder
    /\ NewestKept

\* The view's events are the newest ones, as many as it may hold.
ShownAreNewest ==
    /\ Len(view.events) = IF posted < EventCap THEN posted ELSE EventCap
    /\ \A i \in 1 .. Len(view.events) : view.events[i] = posted - Len(view.events) + i

ViewInv ==
    /\ posted \in Nat
    /\ view.events \in Seq(Nat) /\ DOMAIN view = {"version", "events"}
    /\ ShownAreNewest

-----------------------------------------------------------------------------
(* The capped queue *)

\* Pushing onto a full queue drops its head, and only its head.
LEMMA Pushed ==
    ASSUME NEW q \in Seq(Nat), NEW e \in Nat, NEW cap \in Nat \ {0}, Len(q) <= cap
    PROVE  LET p == PushCapped(q, e, cap)
           IN /\ p \in Seq(Nat)
              /\ Len(q) < cap => /\ Len(p) = Len(q) + 1
                                 /\ \A i \in 1 .. Len(q) : p[i] = q[i]
              /\ Len(q) = cap => /\ Len(p) = Len(q)
                                 /\ \A i \in 1 .. Len(q) - 1 : p[i] = q[i + 1]
              /\ Len(p) \in Nat \ {0}
              /\ p[Len(p)] = e
<1> DEFINE p == PushCapped(q, e, cap)
           a == Append(q, e)
           Goal == /\ p \in Seq(Nat)
                   /\ Len(q) < cap => /\ Len(p) = Len(q) + 1
                                      /\ \A i \in 1 .. Len(q) : p[i] = q[i]
                   /\ Len(q) = cap => /\ Len(p) = Len(q)
                                      /\ \A i \in 1 .. Len(q) - 1 : p[i] = q[i + 1]
                   /\ Len(p) \in Nat \ {0}
                   /\ p[Len(p)] = e
<1> SUFFICES Goal
  OBVIOUS
<1>1. /\ a \in Seq(Nat) /\ Len(q) \in Nat /\ Len(a) = Len(q) + 1
      /\ a[Len(q) + 1] = e /\ \A i \in 1 .. Len(q) : a[i] = q[i]
  OBVIOUS
<1>2. CASE Len(q) < cap
  <2>1. p = a
    BY <1>1, <1>2 DEF PushCapped
  <2> HIDE DEF p, a
  <2> QED
    BY <1>1, <1>2, <2>1
<1>3. CASE Len(q) = cap
  <2>1. p = Tail(a)
    BY <1>1, <1>3 DEF PushCapped
  <2> HIDE DEF p, a
  <2>2. a # <<>>
    BY <1>1
  <2>3. /\ p \in Seq(Nat) /\ Len(p) = Len(a) - 1
        /\ \A i \in 1 .. Len(a) - 1 : p[i] = a[i + 1]
    BY <1>1, <2>1, <2>2
  <2>4. ASSUME NEW i \in 1 .. Len(q) - 1 PROVE p[i] = q[i + 1]
    <3>1. i \in 1 .. Len(a) - 1 /\ i + 1 \in 1 .. Len(q)
      BY <1>1
    <3> QED
      BY <1>1, <2>3, <3>1
  <2>5. Len(p) = Len(q) /\ p[Len(p)] = e
    BY <1>1, <1>3, <2>3
  <2> QED
    BY <1>1, <1>3, <2>3, <2>4, <2>5
<1> QED
  BY <1>1, <1>2, <1>3

\* Numbering without a gap survives the push of the next number.
LEMMA PushedConsecutive ==
    ASSUME NEW q \in Seq(Nat), NEW n \in Nat, NEW cap \in Nat \ {0}, Len(q) <= cap,
           \A i \in 1 .. Len(q) : q[i] = n - Len(q) + i
    PROVE  LET p == PushCapped(q, n + 1, cap)
           IN \A i \in 1 .. Len(p) : p[i] = (n + 1) - Len(p) + i
<1> DEFINE p == PushCapped(q, n + 1, cap)
<1>1. /\ p \in Seq(Nat)
      /\ Len(q) < cap => /\ Len(p) = Len(q) + 1
                         /\ \A i \in 1 .. Len(q) : p[i] = q[i]
      /\ Len(q) = cap => /\ Len(p) = Len(q)
                         /\ \A i \in 1 .. Len(q) - 1 : p[i] = q[i + 1]
      /\ Len(p) \in Nat \ {0}
      /\ p[Len(p)] = n + 1
  <2>1. n + 1 \in Nat
    OBVIOUS
  <2> QED
    BY <2>1, Pushed
<1>2. Len(q) \in Nat
  OBVIOUS
<1> HIDE DEF p
<1>3. ASSUME NEW i \in 1 .. Len(p) PROVE p[i] = (n + 1) - Len(p) + i
  <2>1. CASE i = Len(p)
    BY <1>1, <2>1
  <2>2. CASE i # Len(p) /\ Len(q) < cap
    <3>1. i \in 1 .. Len(q)
      BY <1>1, <1>2, <2>2
    <3>2. p[i] = n - Len(q) + i
      BY <1>1, <2>2, <3>1
    <3>3. Len(p) = Len(q) + 1 /\ Len(q) \in Nat /\ i \in Nat /\ n \in Nat
      BY <1>1, <1>2, <2>2, <3>1
    <3>4. n - Len(q) + i = (n + 1) - Len(p) + i
      BY <3>3
    <3> QED
      BY <3>2, <3>4
  <2>3. CASE i # Len(p) /\ Len(q) = cap
    <3>1. i \in 1 .. Len(q) - 1 /\ i + 1 \in 1 .. Len(q)
      BY <1>1, <1>2, <2>3
    <3>2. p[i] = n - Len(q) + (i + 1)
      BY <1>1, <2>3, <3>1
    <3>3. Len(p) = Len(q) /\ Len(q) \in Nat /\ i \in Nat /\ n \in Nat
      BY <1>1, <1>2, <2>3, <3>1
    <3>4. n - Len(q) + (i + 1) = (n + 1) - Len(p) + i
      BY <3>3
    <3> QED
      BY <3>2, <3>4
  <2> QED
    BY <1>2, <2>1, <2>2, <2>3
<1> QED
  BY <1>3 DEF p

-----------------------------------------------------------------------------
(* Steps *)

\* The elements of a sequence.
LEMMA Elements ==
    ASSUME NEW q \in Seq(Nat), NEW e
    PROVE  e \in ToSet(q) <=> \E i \in 1 .. Len(q) : q[i] = e
BY DEF ToSet

\* A posted event.
LEMMA LogEvent ==
    ASSUME LogInv, event
    PROVE  LogInv'
<1>1. /\ posted \in Nat /\ log \in Seq(Nat) /\ lines \in Seq(Nat)
      /\ queued \in Seq(Nat) /\ Len(queued) <= QueueCap
      /\ \A i \in 1 .. Len(queued) : queued[i] = posted - Len(queued) + i
      /\ \A i \in 1 .. Len(lines) : lines[i] <= posted - Len(queued)
      /\ \A i \in 1 .. Len(log) : log[i] <= posted - Len(queued)
  BY DEF LogInv, Window
<1>2. /\ posted' = posted + 1 /\ queued' = PushCapped(queued, posted + 1, QueueCap)
      /\ UNCHANGED <<log, lines, ui>>
  BY DEF event, uiVars
<1>3. QueueCap \in Nat \ {0} /\ posted + 1 \in Nat /\ Len(queued) \in Nat
  BY <1>1, DashboardAssumption
<1> DEFINE p == PushCapped(queued, posted + 1, QueueCap)
<1>4. /\ p \in Seq(Nat)
      /\ Len(queued) < QueueCap => /\ Len(p) = Len(queued) + 1
                                   /\ \A i \in 1 .. Len(queued) : p[i] = queued[i]
      /\ Len(queued) = QueueCap => /\ Len(p) = Len(queued)
                                   /\ \A i \in 1 .. Len(queued) - 1 : p[i] = queued[i + 1]
      /\ Len(p) \in Nat \ {0}
      /\ p[Len(p)] = posted + 1
  BY <1>1, <1>3, Pushed
<1>5. \A i \in 1 .. Len(p) : p[i] = (posted + 1) - Len(p) + i
  BY <1>1, <1>3, PushedConsecutive
<1>6. queued' = p
  BY <1>2
<1> HIDE DEF p
<1>7. Len(p) <= QueueCap /\ posted - Len(queued) <= (posted + 1) - Len(p)
  BY <1>1, <1>3, <1>4
<1>8. Window(queued, QueueCap)'
  BY <1>2, <1>4, <1>5, <1>6, <1>7 DEF Window
<1>9. /\ \A i \in 1 .. Len(lines') : lines'[i] <= posted' - Len(queued')
      /\ \A i \in 1 .. Len(log') : log'[i] <= posted' - Len(queued')
  <2>1. ASSUME NEW x \in Nat, x <= posted - Len(queued) PROVE x <= (posted + 1) - Len(p)
    BY <1>1, <1>3, <1>4, <1>7, <2>1
  <2>2. /\ \A i \in 1 .. Len(lines) : lines[i] \in Nat
        /\ \A i \in 1 .. Len(log) : log[i] \in Nat
    BY <1>1
  <2> QED
    BY <1>1, <1>2, <1>6, <2>1, <2>2
<1>10. NewestKept'
  <2>1. ASSUME NEW e \in 1 .. posted + 1, e > (posted + 1) - QueueCap
        PROVE  e \in ToSet(log) \cup ToSet(lines) \cup ToSet(p)
    <3>1. CASE e \notin (posted + 1) - Len(p) + 1 .. posted + 1
      <4>1. e \in 1 .. posted /\ e > posted - QueueCap
        BY <1>1, <1>3, <1>4, <2>1, <3>1
      <4>2. e \in ToSet(log) \cup ToSet(lines) \cup ToSet(queued)
        BY <4>1 DEF LogInv, NewestKept
      <4>3. e \notin ToSet(queued)
        <5> SUFFICES ASSUME NEW i \in 1 .. Len(queued), queued[i] = e PROVE FALSE
          BY <1>1, Elements
        <5>1. e = posted - Len(queued) + i
          BY <1>1
        <5>2. CASE Len(queued) < QueueCap
          BY <1>1, <1>3, <1>4, <3>1, <5>1, <5>2
        <5>3. CASE Len(queued) = QueueCap
          BY <1>1, <1>3, <1>4, <2>1, <3>1, <5>1, <5>3
        <5> QED
          BY <1>1, <1>3, <5>2, <5>3
      <4> QED
        BY <4>2, <4>3
    <3>2. CASE e \in (posted + 1) - Len(p) + 1 .. posted + 1
      <4> DEFINE i == e - ((posted + 1) - Len(p))
      <4>1. i \in 1 .. Len(p) /\ (posted + 1) - Len(p) + i = e
        BY <1>1, <1>4, <3>2
      <4>2. p[i] = e
        BY <1>5, <4>1
      <4> HIDE DEF i
      <4>3. e \in ToSet(p)
        BY <1>4, <4>1, <4>2, Elements
      <4> QED
        BY <4>3
    <3> QED
      BY <3>1, <3>2
  <2>2. ToSet(log)' = ToSet(log) /\ ToSet(lines)' = ToSet(lines) /\ ToSet(queued)' = ToSet(p)
    BY <1>2, <1>6
  <2> QED
    BY <1>2, <1>6, <1>7, <2>1, <2>2 DEF NewestKept
<1> QED
  BY <1>1, <1>2, <1>3, <1>8, <1>9, <1>10 DEF LogInv, LogInOrder, Increasing

\* The UI thread takes the whole queue.
LEMMA LogTake ==
    ASSUME LogInv, Take
    PROVE  LogInv'
<1>1. /\ posted \in Nat /\ log \in Seq(Nat) /\ lines = <<>>
      /\ queued \in Seq(Nat) /\ Len(queued) <= QueueCap
      /\ \A i \in 1 .. Len(queued) : queued[i] = posted - Len(queued) + i
      /\ \A i \in 1 .. Len(log) : log[i] <= posted - Len(queued)
  BY DEF LogInv, Window, Take
<1>2. /\ lines' = queued /\ queued' = <<>> /\ ui' = "write" /\ UNCHANGED <<posted, log>>
  BY DEF Take
<1>3. QueueCap \in Nat \ {0} /\ Len(queued) \in Nat
  BY <1>1, DashboardAssumption
<1>4. Window(queued, QueueCap)'
  BY <1>2, <1>3 DEF Window
<1>5. Increasing(lines)'
  BY <1>1, <1>2, <1>3 DEF Increasing
<1>6. \A i \in 1 .. Len(queued) : queued[i] <= posted
  BY <1>1, <1>3
<1>7. \A i \in 1 .. Len(log) : log[i] \in Nat /\ log[i] <= posted
  BY <1>1, <1>3
<1>8. \A i \in 1 .. Len(log), j \in 1 .. Len(queued) : log[i] < queued[j]
  BY <1>1, <1>3, <1>7
<1>9. /\ \A i \in 1 .. Len(lines') : lines'[i] <= posted' - Len(queued')
      /\ \A i \in 1 .. Len(log') : log'[i] <= posted' - Len(queued')
  <2>1. Len(queued') = 0 /\ posted - 0 = posted
    BY <1>1, <1>2
  <2> QED
    BY <1>2, <1>6, <1>7, <2>1
<1>10. NewestKept'
  <2>1. ToSet(lines)' = ToSet(queued) /\ ToSet(log)' = ToSet(log)
    BY <1>2
  <2>2. ToSet(lines) = {}
    <3>1. DOMAIN <<>> = {}
      OBVIOUS
    <3> QED
      BY <1>1, <3>1 DEF ToSet
  <2>3. Len(queued') <= QueueCap
    BY <1>4 DEF Window
  <2> QED
    BY <1>2, <2>1, <2>2, <2>3 DEF NewestKept, LogInv
<1> QED
  BY <1>1, <1>2, <1>4, <1>5, <1>8, <1>9, <1>10 DEF LogInv, LogInOrder

\* What it holds is written behind what was written before.
LEMMA LogWrite ==
    ASSUME LogInv, Write
    PROVE  LogInv'
<1>1. /\ posted \in Nat /\ log \in Seq(Nat) /\ lines \in Seq(Nat)
      /\ Window(queued, QueueCap)
      /\ Increasing(lines)
      /\ \A i \in 1 .. Len(lines) : lines[i] <= posted - Len(queued)
      /\ \A i \in 1 .. Len(log) : log[i] <= posted - Len(queued)
      /\ \A i \in 1 .. Len(log), j \in 1 .. Len(lines) : log[i] < lines[j]
      /\ LogInOrder
  BY DEF LogInv
<1>2. log' = log \o lines /\ lines' = <<>> /\ ui' = "check" /\ UNCHANGED <<posted, queued>>
  BY DEF Write, sharedVars
<1> DEFINE g == log \o lines
<1>3. /\ g \in Seq(Nat) /\ Len(log) \in Nat /\ Len(lines) \in Nat /\ Len(g) = Len(log) + Len(lines)
      /\ \A i \in 1 .. Len(log) : g[i] = log[i]
      /\ \A i \in 1 .. Len(lines) : g[Len(log) + i] = lines[i]
  BY <1>1
<1>4. log' = g
  BY <1>2
<1> HIDE DEF g
<1>5. ASSUME NEW i \in 1 .. Len(g)
      PROVE  \/ i \in 1 .. Len(log) /\ g[i] = log[i]
             \/ /\ i > Len(log) /\ i - Len(log) \in 1 .. Len(lines)
                /\ g[i] = lines[i - Len(log)]
  <2>1. CASE i <= Len(log)
    BY <1>3, <2>1
  <2>2. CASE i > Len(log)
    <3>1. i - Len(log) \in 1 .. Len(lines) /\ Len(log) + (i - Len(log)) = i
      BY <1>3, <2>2
    <3> QED
      BY <1>3, <2>2, <3>1
  <2> QED
    BY <1>3, <2>1, <2>2
<1>6. ASSUME NEW i \in 1 .. Len(g), NEW j \in 1 .. Len(g), i < j PROVE g[i] < g[j]
  <2>1. CASE j \in 1 .. Len(log)
    <3>1. i \in 1 .. Len(log)
      BY <1>3, <1>6, <2>1
    <3> QED
      BY <1>1, <1>3, <1>6, <2>1, <3>1 DEF LogInOrder
  <2>2. CASE j \notin 1 .. Len(log) /\ i \in 1 .. Len(log)
    <3>1. j - Len(log) \in 1 .. Len(lines) /\ g[j] = lines[j - Len(log)]
      BY <1>5, <2>2
    <3> QED
      BY <1>1, <1>3, <2>2, <3>1
  <2>3. CASE i \notin 1 .. Len(log)
    <3>1. j \notin 1 .. Len(log)
      BY <1>3, <1>6, <2>3
    <3>2. j - Len(log) \in 1 .. Len(lines) /\ g[j] = lines[j - Len(log)]
      BY <1>5, <3>1
    <3>3. i - Len(log) \in 1 .. Len(lines) /\ g[i] = lines[i - Len(log)]
      BY <1>5, <2>3
    <3>4. i - Len(log) < j - Len(log)
      BY <1>3, <1>6
    <3> QED
      BY <1>1, <3>2, <3>3, <3>4 DEF Increasing
  <2> QED
    BY <2>1, <2>2, <2>3
<1>7. \A i \in 1 .. Len(g) : g[i] <= posted - Len(queued)
  BY <1>1, <1>5
<1>8. \A e : e \in ToSet(log) \cup ToSet(lines) => e \in ToSet(g)
  <2> SUFFICES ASSUME NEW e, e \in ToSet(log) \/ e \in ToSet(lines) PROVE e \in ToSet(g)
    OBVIOUS
  <2>1. CASE e \in ToSet(log)
    <3>1. PICK i \in 1 .. Len(log) : log[i] = e
      BY <1>1, <2>1, Elements
    <3>2. i \in 1 .. Len(g) /\ g[i] = e
      BY <1>3, <3>1
    <3> QED
      BY <1>3, <3>2, Elements
  <2>2. CASE e \in ToSet(lines)
    <3>1. PICK i \in 1 .. Len(lines) : lines[i] = e
      BY <1>1, <2>2, Elements
    <3>2. Len(log) + i \in 1 .. Len(g) /\ g[Len(log) + i] = e
      BY <1>3, <3>1
    <3> QED
      BY <1>3, <3>2, Elements
  <2> QED
    BY <2>1, <2>2
<1>9. NewestKept'
  <2>1. ToSet(log)' = ToSet(g) /\ ToSet(queued)' = ToSet(queued)
    BY <1>2, <1>4
  <2> QED
    BY <1>2, <1>8, <2>1 DEF NewestKept, LogInv
<1>10. Window(queued, QueueCap)'
  BY <1>1, <1>2 DEF Window
<1>11. LogInOrder'
  BY <1>4, <1>6 DEF LogInOrder
<1>12. lines' \in Seq(Nat) /\ Len(lines') = 0
  BY <1>2
<1>13. 1 .. Len(lines') = {}
  BY <1>12
<1>14. Increasing(lines)'
  BY <1>13 DEF Increasing
<1>15. \A i \in 1 .. Len(log') : log'[i] <= posted' - Len(queued')
  BY <1>2, <1>4, <1>7
<1> QED
  BY <1>1, <1>2, <1>3, <1>4, <1>9, <1>10, <1>11, <1>12, <1>13, <1>14, <1>15 DEF LogInv

\* The invariant of the log.
THEOREM LogInvariance == Spec => []LogInv
<1>1. Init => LogInv
  <2> SUFFICES ASSUME Init PROVE LogInv
    OBVIOUS
  <2>1. posted = 0 /\ queued = <<>> /\ lines = <<>> /\ log = <<>>
    BY DEF Init
  <2>2. QueueCap \in Nat \ {0}
    BY DashboardAssumption
  <2> QED
    BY <2>1, <2>2 DEF LogInv, Window, Increasing, LogInOrder, NewestKept
<1>2. LogInv /\ [Next]_vars => LogInv'
  <2> SUFFICES ASSUME LogInv, [Next]_vars PROVE LogInv'
    OBVIOUS
  <2>1. CASE /\ UNCHANGED <<posted, queued, lines, log>>
             /\ ui' = ui \/ (ui \in {"check", "sleep"})
    BY <2>1 DEF LogInv, Window, Increasing, LogInOrder, NewestKept
  <2>2. CASE update \/ Destroy \/ Joined \/ Check \/ Sleep \/ UNCHANGED vars
    <3>1. /\ UNCHANGED <<posted, queued, lines, log>>
          /\ ui' = ui \/ (ui \in {"check", "sleep"})
      BY <2>2 DEF update, Destroy, Joined, Check, Sleep, vars, sharedVars, uiVars
    <3> QED
      BY <2>1, <3>1
  <2> QED
    BY <2>2, LogEvent, LogTake, LogWrite DEF Next, UiStep
<1> QED
  BY <1>1, <1>2, PTL DEF Spec

\* The log lists events in the order in which they were posted and none twice
\* (dashboard.cpp:277-290, 383-387), for every capacity of the queue.
THEOREM LogOrdered == Spec => []LogInOrder
<1>1. LogInv => LogInOrder
  BY DEF LogInv
<1> QED
  BY <1>1, LogInvariance, PTL

\* The newest QueueCap events are written, in hand or queued: only an overrun
\* takes events, and then the oldest (dashboard.cpp:283, 386-387).
THEOREM NewestNotLost == Spec => []NewestKept
<1>1. LogInv => NewestKept
  BY DEF LogInv
<1> QED
  BY <1>1, LogInvariance, PTL

\* The view shows the newest events without a gap, as many as were posted or
\* as it may hold (dashboard.cpp:378-387): update() never loses or repeats one.
THEOREM ViewShowsNewest == Spec => []ShownAreNewest
<1>1. Init => ViewInv
  <2> SUFFICES ASSUME Init PROVE ViewInv
    OBVIOUS
  <2>1. posted = 0 /\ view.events = <<>> /\ DOMAIN view = {"version", "events"}
    BY DEF Init
  <2>2. EventCap \in Nat \ {0}
    BY DashboardAssumption
  <2> QED
    BY <2>1, <2>2 DEF ViewInv, ShownAreNewest
<1>2. ViewInv /\ [Next]_vars => ViewInv'
  <2> SUFFICES ASSUME ViewInv, [Next]_vars PROVE ViewInv'
    OBVIOUS
  <2>1. CASE event
    <3> DEFINE q == view.events
               p == PushCapped(q, posted + 1, EventCap)
    <3>1. /\ posted \in Nat /\ q \in Seq(Nat) /\ DOMAIN view = {"version", "events"}
          /\ Len(q) = IF posted < EventCap THEN posted ELSE EventCap
          /\ \A i \in 1 .. Len(q) : q[i] = posted - Len(q) + i
      BY DEF ViewInv, ShownAreNewest
    <3>2. EventCap \in Nat \ {0} /\ posted + 1 \in Nat
      BY <3>1, DashboardAssumption
    <3>3. posted' = posted + 1 /\ view' = [view EXCEPT !.events = p]
      BY <2>1 DEF event
    <3>4. view'.events = p /\ DOMAIN view' = {"version", "events"}
      BY <3>1, <3>3
    <3> HIDE DEF q
    <3>5. Len(q) <= EventCap
      BY <3>1, <3>2
    <3>6. /\ p \in Seq(Nat)
          /\ Len(q) < EventCap => Len(p) = Len(q) + 1
          /\ Len(q) = EventCap => Len(p) = Len(q)
      BY <3>1, <3>2, <3>5, Pushed
    <3>7. \A i \in 1 .. Len(p) : p[i] = (posted + 1) - Len(p) + i
      BY <3>1, <3>2, <3>5, PushedConsecutive
    <3> HIDE DEF p
    <3>8. Len(p) = IF posted + 1 < EventCap THEN posted + 1 ELSE EventCap
      BY <3>1, <3>2, <3>6
    <3> QED
      BY <3>2, <3>3, <3>4, <3>6, <3>7, <3>8 DEF ViewInv, ShownAreNewest
  <2>2. CASE update
    <3>1. posted' = posted /\ view'.events = view.events /\ DOMAIN view' = {"version", "events"}
      BY <2>2 DEF update
    <3> QED
      BY <3>1 DEF ViewInv, ShownAreNewest
  <2>3. CASE Destroy \/ Joined \/ UiStep \/ UNCHANGED vars
    <3>1. posted' = posted /\ view' = view
      BY <2>3 DEF Destroy, Joined, UiStep, Take, Write, Check, Sleep, vars, sharedVars
    <3> QED
      BY <3>1 DEF ViewInv, ShownAreNewest
  <2> QED
    BY <2>1, <2>2, <2>3 DEF Next
<1>3. ViewInv => ShownAreNewest
  BY DEF ViewInv
<1> QED
  BY <1>1, <1>2, <1>3, PTL DEF Spec
=============================================================================
