---------------------------- MODULE StartupProofs ----------------------------
(***************************************************************************)
(* For every machine, command line and work: no register is written before *)
(* everything asked of every selected card was checked, no fan is left     *)
(* manual without a duty unless the report says so, every card opened is   *)
(* opened once and holds what was asked of it, a scan returns the nonces   *)
(* of its range whose hashes meet the target and a block candidate is one  *)
(* by the network's target; a thread that has ended holds nothing, and a   *)
(* benchmark that succeeds has measured every card and CPU thread.         *)
(***************************************************************************)
EXTENDS Startup, FiniteSetTheorems, WellFoundedInduction, TLAPS

-----------------------------------------------------------------------------
(* Induction and recursion over 0 .. n *)

\* A set of naturals that is not empty has a least element.
LEMMA LeastElement ==
    ASSUME NEW T \in SUBSET Nat, T # {}
    PROVE  \E x \in T : \A y \in T : x <= y
<1> DEFINE R == OpToRel(<, Nat)
<1>1. IsWellFoundedOn(R, Nat)
  BY NatLessThanWellFounded
<1>2. \A a, b \in Nat : <<a, b>> \in R <=> a < b
  BY DEF OpToRel
<1> HIDE DEF R
<1>3. PICK x \in T : \A y \in T : ~ (<<y, x>> \in R)
  BY <1>1, WFMin
<1>4. ASSUME NEW y \in T PROVE x <= y
  <2>1. x \in Nat /\ y \in Nat
    OBVIOUS
  <2>2. ~ (<<y, x>> \in R)
    BY <1>3
  <2>3. ~ (y < x)
    BY <1>2, <2>1, <2>2, Zenon
  <2> QED  BY <2>1, <2>3
<1> QED  BY <1>4

\* Induction up to n, for the elements of a set.
LEMMA Upwards ==
    ASSUME NEW n \in Nat, NEW T, 0 \in T, \A i \in 1 .. n : i - 1 \in T => i \in T
    PROVE  \A i \in 0 .. n : i \in T
<1> SUFFICES ASSUME NEW k \in 0 .. n, k \notin T PROVE FALSE
  OBVIOUS
<1> DEFINE U == {i \in 0 .. n : i \notin T}
<1>1. U \in SUBSET Nat /\ U # {}
  BY DEF U
<1>2. PICK x \in U : \A y \in U : x <= y
  BY <1>1, LeastElement
<1>3. x \in 0 .. n /\ x \notin T /\ x # 0
  BY DEF U
<1>4. x \in 1 .. n /\ x - 1 \in 0 .. n /\ ~(x <= x - 1)
  BY <1>3
<1>5. x - 1 \in T
  BY <1>2, <1>4 DEF U
<1> QED
  BY <1>3, <1>4, <1>5

\* The values a loop of n steps goes through, from x0.
Steps(n, X) == [(1 .. n) \X X -> X]

IsRunOf(f, X, x0, n, G) ==
    f \in [0 .. n -> X] /\ f[0] = x0 /\ \A i \in 1 .. n : f[i] = G[<<i, f[i - 1]>>]

\* A value and a step for every number make a sequence of values.
LEMMA Iterate ==
    ASSUME NEW X, NEW x0 \in X, NEW n \in Nat, NEW G \in Steps(n, X)
    PROVE  \E f : IsRunOf(f, X, x0, n, G)
<1> USE DEF Steps
<1> DEFINE OK(f, k) == f[0] = x0 /\ \A i \in 1 .. k : f[i] = G[<<i, f[i - 1]>>]
           T == {k \in 0 .. n : \E f \in [0 .. k -> X] : OK(f, k)}
<1>1. 0 \in T
  <2> DEFINE f == [i \in 0 .. 0 |-> x0]
  <2>1. f \in [0 .. 0 -> X] /\ f[0] = x0
    OBVIOUS
  <2>2. OK(f, 0)
    BY <2>1
  <2>3. 0 \in 0 .. n
    OBVIOUS
  <2> HIDE DEF f
  <2> QED
    BY <2>1, <2>2, <2>3
<1>2. ASSUME NEW k \in 1 .. n, k - 1 \in T PROVE k \in T
  <2>0. k - 1 \in Nat /\ k \in Nat /\ k - 1 \in 0 .. n /\ k \in 0 .. n
    OBVIOUS
  <2>1. PICK g \in [0 .. k - 1 -> X] : OK(g, k - 1)
    BY <1>2
  <2> DEFINE y == G[<<k, g[k - 1]>>]
             f == [i \in 0 .. k |-> IF i = k THEN y ELSE g[i]]
  <2>2. k - 1 \in 0 .. k - 1 /\ g[k - 1] \in X
    BY <2>0
  <2>3. y \in X
    BY <2>2
  <2> HIDE DEF y
  <2>4. \A i \in 0 .. k : i # k => i \in 0 .. k - 1
    BY <2>0
  <2>5. f \in [0 .. k -> X]
    BY <2>3, <2>4
  <2>6. f[k] = y /\ \A i \in 0 .. k - 1 : f[i] = g[i]
    BY <2>0
  <2>7. /\ 0 \in 0 .. k - 1
        /\ \A i \in 1 .. k : i = k \/ (i \in 1 .. k - 1 /\ i \in 0 .. k - 1)
        /\ \A i \in 1 .. k : i - 1 \in 0 .. k - 1
    BY <2>0
  <2> HIDE DEF f
  <2>8. \A i \in 1 .. k : f[i] = G[<<i, f[i - 1]>>]
    <3> SUFFICES ASSUME NEW i \in 1 .. k PROVE f[i] = G[<<i, f[i - 1]>>]
      OBVIOUS
    <3>1. f[i - 1] = g[i - 1]
      BY <2>6, <2>7
    <3>2. CASE i = k
      BY <2>6, <3>1, <3>2 DEF y
    <3>3. CASE i # k
      <4>1. i \in 1 .. k - 1 /\ i \in 0 .. k - 1
        BY <2>7, <3>3
      <4> QED
        BY <2>1, <2>6, <3>1, <4>1
    <3> QED
      BY <3>2, <3>3
  <2>9. OK(f, k)
    BY <2>1, <2>6, <2>7, <2>8
  <2> QED
    BY <2>0, <2>5, <2>9
<1> HIDE DEF T
<1>3. n \in T
  BY <1>1, <1>2, Upwards
<1> QED
  BY <1>3 DEF T, IsRunOf

-----------------------------------------------------------------------------
(* What the loops over sequences compute *)

\* The loop of Filter.
FiltersWith(kept, X, s, S) ==
    /\ kept \in [0 .. Len(s) -> Seq(X)]
    /\ kept[0] = <<>>
    /\ \A k \in 1 .. Len(s) :
          kept[k] = IF s[k] \in S THEN Append(kept[k - 1], s[k]) ELSE kept[k - 1]
    /\ Filter(s, S) = kept[Len(s)]

\* Filter computes the list its loop builds element by element.
LEMMA FilterLoop ==
    ASSUME NEW X, NEW s \in Seq(X), NEW S
    PROVE  \E kept : FiltersWith(kept, X, s, S)
<1> DEFINE n == Len(s)
           Step(k, x) == IF s[k] \in S THEN Append(x, s[k]) ELSE x
           Loop(g) == g = [k \in 0 .. n |-> IF k = 0 THEN <<>> ELSE Step(k, g[k - 1])]
           G == [p \in (1 .. n) \X Seq(X) |-> Step(p[1], p[2])]
           c == CHOOSE g : Loop(g)
<1>1. n \in Nat /\ <<>> \in Seq(X)
  OBVIOUS
<1>2. ASSUME NEW k \in 1 .. n, NEW x \in Seq(X) PROVE Step(k, x) \in Seq(X)
  OBVIOUS
<1>3. Filter(s, S) = c[n]
  BY DEF Filter
<1> HIDE DEF Step, n
<1>4. G \in [(1 .. n) \X Seq(X) -> Seq(X)]
  BY <1>2
<1>5. \A k \in 1 .. n : \A x \in Seq(X) : G[<<k, x>>] = Step(k, x)
  OBVIOUS
<1> HIDE DEF G
<1>6. PICK f \in [0 .. n -> Seq(X)] : f[0] = <<>> /\ \A i \in 1 .. n : f[i] = G[<<i, f[i - 1]>>]
  <2> DEFINE Y == Seq(X)
             e == <<>>
  <2>1. e \in Y /\ G \in Steps(n, Y)
    BY <1>1, <1>4 DEF Steps
  <2> HIDE DEF Y, e
  <2>2. \E f : IsRunOf(f, Y, e, n, G)
    BY <1>1, <2>1, Iterate, Zenon
  <2> QED
    BY <2>2 DEF Y, e, IsRunOf
<1>7. Loop(f)
  <2>1. \A i \in 1 .. n : f[i] = Step(i, f[i - 1])
    <3> SUFFICES ASSUME NEW i \in 1 .. n PROVE f[i] = Step(i, f[i - 1])
      OBVIOUS
    <3>1. i - 1 \in 0 .. n
      BY <1>1
    <3> QED
      BY <1>5, <1>6, <3>1
  <2>2. \A i \in 0 .. n : i = 0 \/ i \in 1 .. n
    BY <1>1
  <2> QED
    BY <1>6, <2>1, <2>2
<1>8. Loop(c)
  <2> HIDE DEF Loop
  <2> QED
    BY <1>7
<1> HIDE DEF c
<1>9. /\ c = [k \in 0 .. n |-> c[k]] /\ c[0] = <<>>
      /\ \A k \in 1 .. n : c[k] = Step(k, c[k - 1])
  <2>1. 0 \in 0 .. n /\ \A k \in 1 .. n : k \in 0 .. n /\ k # 0
    BY <1>1
  <2> QED
    BY <1>8, <2>1
<1>10. \A k \in 0 .. n : c[k] \in Seq(X)
  <2> DEFINE T == {k \in 0 .. n : c[k] \in Seq(X)}
  <2>1. 0 \in T /\ \A k \in 1 .. n : k - 1 \in T => k \in T
    BY <1>1, <1>2, <1>9
  <2> HIDE DEF T
  <2>2. \A k \in 0 .. n : k \in T
    BY <1>1, <2>1, Upwards
  <2> QED
    BY <2>2 DEF T
<1>11. c \in [0 .. n -> Seq(X)]
  BY <1>9, <1>10
<1> QED
  BY <1>3, <1>9, <1>11 DEF Step, n, FiltersWith

\* What is kept, and that nothing is kept twice.
LEMMA FilterFacts ==
    ASSUME NEW X, NEW s \in Seq(X), NEW S
    PROVE  /\ Filter(s, S) \in Seq(X)
           /\ ToSet(Filter(s, S)) = ToSet(s) \cap S
           /\ IsInjective(s) => IsInjective(Filter(s, S))
<1> DEFINE n == Len(s)
<1>1. PICK kept \in [0 .. Len(s) -> Seq(X)] :
          /\ kept[0] = <<>>
          /\ \A k \in 1 .. Len(s) :
                kept[k] = IF s[k] \in S THEN Append(kept[k - 1], s[k]) ELSE kept[k - 1]
          /\ Filter(s, S) = kept[Len(s)]
  <2>1. \E kept : FiltersWith(kept, X, s, S)
    BY FilterLoop, Zenon
  <2> QED
    BY <2>1 DEF FiltersWith
<1>2. n \in Nat /\ DOMAIN s = 1 .. n /\ n \in 0 .. n
  OBVIOUS
<1> DEFINE Is(k) == \A x : (\E i \in 1 .. Len(kept[k]) : x = kept[k][i])
                             <=> \E j \in 1 .. k : x = s[j] /\ x \in S
           Once(k) == \A i, j \in 1 .. Len(kept[k]) : kept[k][i] = kept[k][j] => i = j
           T == {k \in 0 .. n : Is(k) /\ (IsInjective(s) => Once(k))}
<1>3. 0 \in T
  <2>1. kept[0] = <<>> /\ Len(kept[0]) = 0
    BY <1>1
  <2>2. 1 .. 0 = {}
    OBVIOUS
  <2> QED
    BY <1>2, <2>1, <2>2
<1>4. ASSUME NEW k \in 1 .. n, k - 1 \in T PROVE k \in T
  <2> DEFINE a == kept[k - 1]
             b == kept[k]
             m == Len(a)
  <2>1. k \in Nat /\ k \in 0 .. n /\ k - 1 \in 0 .. n /\ k - 1 \in Nat
    BY <1>2
  <2>2. a \in Seq(X) /\ b \in Seq(X) /\ m \in Nat /\ s[k] \in X
    BY <1>1, <2>1
  <2>3. /\ \A j \in 1 .. k : j = k \/ j \in 1 .. k - 1
        /\ \A j \in 1 .. k - 1 : j \in 1 .. k /\ j \in 1 .. n /\ j # k
        /\ k \in 1 .. k
    BY <1>2, <2>1
  <2>4. Is(k - 1) /\ (IsInjective(s) => Once(k - 1))
    BY <1>4
  <2>5. CASE s[k] \in S
    <3>1. b = Append(a, s[k])
      BY <1>1, <2>5
    <3>2. /\ Len(b) = m + 1 /\ b[m + 1] = s[k] /\ \A i \in 1 .. m : b[i] = a[i]
      BY <2>2, <3>1
    <3>3. /\ \A i \in 1 .. m + 1 : i = m + 1 \/ i \in 1 .. m
          /\ \A i \in 1 .. m : i \in 1 .. m + 1
          /\ m + 1 \in 1 .. m + 1
      BY <2>2
    <3> HIDE DEF a, b, m
    <3>4. \A x : (\E i \in 1 .. m : x = a[i]) <=> \E j \in 1 .. k - 1 : x = s[j] /\ x \in S
      BY <2>4 DEF a, m
    <3>5. \A x : (\E i \in 1 .. Len(b) : x = b[i]) <=> \E j \in 1 .. k : x = s[j] /\ x \in S
      <4>1. ASSUME NEW x
            PROVE  (\E i \in 1 .. Len(b) : x = b[i]) <=> (\E i \in 1 .. m : x = a[i]) \/ x = s[k]
        BY <3>2, <3>3
      <4>2. ASSUME NEW x
            PROVE  (\E j \in 1 .. k : x = s[j] /\ x \in S) <=>
                      (\E j \in 1 .. k - 1 : x = s[j] /\ x \in S) \/ x = s[k]
        BY <2>3, <2>5
      <4> QED
        BY <3>4, <4>1, <4>2
    <3>6. ASSUME IsInjective(s), NEW i \in 1 .. Len(b), NEW j \in 1 .. Len(b), b[i] = b[j]
          PROVE  i = j
      <4>1. \A u \in 1 .. m : a[u] # s[k]
        <5> SUFFICES ASSUME NEW u \in 1 .. m, a[u] = s[k] PROVE FALSE
          OBVIOUS
        <5>1. PICK v \in 1 .. k - 1 : a[u] = s[v]
          BY <3>4
        <5>2. v = k
          BY <1>2, <2>3, <3>6, <5>1 DEF IsInjective
        <5> QED
          BY <2>3, <5>2
      <4>2. \A u, v \in 1 .. m : a[u] = a[v] => u = v
        BY <2>4, <3>6 DEF a, m
      <4> QED
        BY <3>2, <3>3, <3>6, <4>1, <4>2
    <3> QED
      BY <2>1, <3>5, <3>6 DEF b
  <2>6. CASE s[k] \notin S
    <3>1. b = a
      BY <1>1, <2>6
    <3>2. \A x : (\E j \in 1 .. k : x = s[j] /\ x \in S) <=>
                     \E j \in 1 .. k - 1 : x = s[j] /\ x \in S
      BY <2>3, <2>6
    <3> QED
      BY <2>1, <2>4, <3>1, <3>2
  <2> QED
    BY <2>5, <2>6
<1> HIDE DEF T
<1>5. n \in T
  BY <1>2, <1>3, <1>4, Upwards
<1>6. Is(n) /\ (IsInjective(s) => Once(n)) /\ kept[n] \in Seq(X)
  BY <1>1, <1>2, <1>5 DEF T
<1>7. DOMAIN kept[n] = 1 .. Len(kept[n])
  BY <1>6
<1> DEFINE r == kept[n]
<1>8. ASSUME NEW x PROVE x \in ToSet(r) <=> x \in ToSet(s) /\ x \in S
  <2>1. x \in ToSet(r) <=> \E i \in 1 .. Len(r) : x = r[i]
    BY <1>7 DEF ToSet
  <2>2. x \in ToSet(s) <=> \E i \in 1 .. n : x = s[i]
    BY <1>2 DEF ToSet
  <2> QED
    BY <1>6, <2>1, <2>2
<1>9. IsInjective(s) => IsInjective(r)
  BY <1>6, <1>7 DEF IsInjective
<1> HIDE DEF r
<1>10. ToSet(r) = ToSet(s) \cap S
  BY <1>8
<1> QED
  BY <1>1, <1>6, <1>9, <1>10 DEF r

\* The loop of FlattenSeq, begun at the empty list.
FlattensWith(f, X, ss) ==
    /\ f \in [0 .. Len(ss) -> Seq(X)]
    /\ f[0] = <<>>
    /\ \A k \in 1 .. Len(ss) : f[k] = f[k - 1] \o ss[k]
    /\ FlattenSeq(ss) = f[Len(ss)]

\* FlattenSeq computes the concatenation its loop builds list by list.
LEMMA FlattenLoop ==
    ASSUME NEW X, NEW ss \in Seq(Seq(X))
    PROVE  \E f : FlattensWith(f, X, ss)
<1> DEFINE n == Len(ss)
           Loop(g) == g = [i \in 1 .. n |-> IF i = 1 THEN ss[i] ELSE g[i - 1] \o ss[i]]
           G == [p \in (1 .. n) \X Seq(X) |-> p[2] \o ss[p[1]]]
           c == CHOOSE g : Loop(g)
<1>1. n \in Nat /\ <<>> \in Seq(X) /\ \A k \in 1 .. n : ss[k] \in Seq(X)
  OBVIOUS
<1>2. n # 0 => FlattenSeq(ss) = c[n]
  BY DEF FlattenSeq
<1>3. n = 0 => FlattenSeq(ss) = <<>>
  <2>1. n = 0 => ss = <<>>
    OBVIOUS
  <2> QED
    BY <2>1 DEF FlattenSeq
<1> HIDE DEF n
<1>4. G \in [(1 .. n) \X Seq(X) -> Seq(X)]
  BY <1>1
<1>5. \A k \in 1 .. n : \A x \in Seq(X) : G[<<k, x>>] = x \o ss[k]
  OBVIOUS
<1> HIDE DEF G
<1>6. PICK f \in [0 .. n -> Seq(X)] : f[0] = <<>> /\ \A i \in 1 .. n : f[i] = G[<<i, f[i - 1]>>]
  <2> DEFINE Y == Seq(X)
             e == <<>>
  <2>1. e \in Y /\ G \in Steps(n, Y)
    BY <1>1, <1>4 DEF Steps
  <2> HIDE DEF Y, e
  <2>2. \E f : IsRunOf(f, Y, e, n, G)
    BY <1>1, <2>1, Iterate, Zenon
  <2> QED
    BY <2>2 DEF Y, e, IsRunOf
<1>7. \A i \in 1 .. n : f[i] = f[i - 1] \o ss[i]
  <2> SUFFICES ASSUME NEW i \in 1 .. n PROVE f[i] = f[i - 1] \o ss[i]
    OBVIOUS
  <2>1. i - 1 \in 0 .. n
    BY <1>1
  <2> QED
    BY <1>5, <1>6, <2>1
<1>8. n # 0 => f[1] = ss[1]
  <2> SUFFICES ASSUME n # 0 PROVE f[1] = ss[1]
    OBVIOUS
  <2>1. 1 \in 1 .. n /\ 1 - 1 = 0
    BY <1>1
  <2>2. f[1] = <<>> \o ss[1]
    BY <1>6, <1>7, <2>1
  <2>3. ss[1] \in Seq(X)
    BY <1>1, <2>1
  <2> QED
    BY <2>2, <2>3
<1>9. Loop([i \in 1 .. n |-> f[i]])
  <2>1. ASSUME NEW i \in 1 .. n
        PROVE  f[i] = IF i = 1 THEN ss[i] ELSE [j \in 1 .. n |-> f[j]][i - 1] \o ss[i]
    <3>1. CASE i = 1
      <4>1. n # 0
        BY <1>1
      <4> QED
        BY <1>8, <3>1, <4>1
    <3>2. CASE i # 1
      <4>1. i - 1 \in 1 .. n
        BY <1>1, <3>2
      <4> QED
        BY <1>7, <3>2, <4>1
    <3> QED
      BY <3>1, <3>2
  <2> QED
    BY <2>1
<1>10. Loop(c)
  <2> HIDE DEF Loop
  <2> QED
    BY <1>9
<1> HIDE DEF c
<1>11. \A i \in 1 .. n : c[i] = f[i]
  <2> DEFINE T == {i \in 0 .. n : i = 0 \/ c[i] = f[i]}
  <2>1. 0 \in T
    BY <1>1
  <2>2. ASSUME NEW i \in 1 .. n, i - 1 \in T PROVE i \in T
    <3>1. c[i] = IF i = 1 THEN ss[i] ELSE c[i - 1] \o ss[i]
      BY <1>10
    <3>2. i \in 0 .. n /\ i \in Nat /\ (i = 1 \/ i - 1 # 0)
      BY <1>1
    <3>3. CASE i = 1
      <4>1. n # 0
        BY <1>1
      <4> QED
        BY <1>8, <3>1, <3>2, <3>3, <4>1
    <3>4. CASE i # 1
      BY <1>7, <2>2, <3>1, <3>2, <3>4
    <3> QED
      BY <3>3, <3>4
  <2> HIDE DEF T
  <2>3. \A i \in 0 .. n : i \in T
    BY <1>1, <2>1, <2>2, Upwards
  <2>4. \A i \in 1 .. n : i \in 0 .. n /\ i # 0
    BY <1>1
  <2> QED
    BY <2>3, <2>4 DEF T
<1>12. FlattenSeq(ss) = f[n]
  <2>1. CASE n = 0
    BY <1>3, <1>6, <2>1
  <2>2. CASE n # 0
    <3>1. n \in 1 .. n
      BY <1>1, <2>2
    <3> QED
      BY <1>2, <1>11, <2>2, <3>1
  <2> QED
    BY <2>1, <2>2
<1> QED
  BY <1>6, <1>7, <1>12 DEF n, FlattensWith

\* The elements of a list by their places.
LEMMA Places ==
    ASSUME NEW X, NEW s \in Seq(X)
    PROVE  /\ \A x : x \in ToSet(s) <=> \E i \in 1 .. Len(s) : x = s[i]
           /\ IsInjective(s) <=> \A i, j \in 1 .. Len(s) : s[i] = s[j] => i = j
<1>1. DOMAIN s = 1 .. Len(s)
  OBVIOUS
<1> QED
  BY <1>1 DEF ToSet, IsInjective

\* The elements of two joined lists.
LEMMA JoinedElements ==
    ASSUME NEW X, NEW s \in Seq(X), NEW t \in Seq(X)
    PROVE  /\ s \o t \in Seq(X)
           /\ ToSet(s \o t) = ToSet(s) \cup ToSet(t)
           /\ IsInjective(s) /\ IsInjective(t) /\ ToSet(s) \cap ToSet(t) = {}
                 => IsInjective(s \o t)
<1> DEFINE u == s \o t
           m == Len(s)
           n == Len(t)
<1>1. /\ m \in Nat /\ n \in Nat /\ u \in Seq(X) /\ Len(u) = m + n
      /\ \A i \in 1 .. m : u[i] = s[i]
      /\ \A i \in 1 .. n : u[m + i] = t[i]
  OBVIOUS
<1>2. /\ \A x : x \in ToSet(s) <=> \E i \in 1 .. m : x = s[i]
      /\ \A x : x \in ToSet(t) <=> \E i \in 1 .. n : x = t[i]
      /\ IsInjective(s) <=> \A i, j \in 1 .. m : s[i] = s[j] => i = j
      /\ IsInjective(t) <=> \A i, j \in 1 .. n : t[i] = t[j] => i = j
  BY Places
<1> HIDE DEF u
<1>3. /\ \A x : x \in ToSet(u) <=> \E i \in 1 .. m + n : x = u[i]
      /\ IsInjective(u) <=> \A i, j \in 1 .. m + n : u[i] = u[j] => i = j
  <2>1. /\ \A x : x \in ToSet(u) <=> \E i \in 1 .. Len(u) : x = u[i]
        /\ IsInjective(u) <=> \A i, j \in 1 .. Len(u) : u[i] = u[j] => i = j
    BY <1>1, Places, Zenon
  <2>2. Len(u) = m + n
    BY <1>1
  <2> HIDE DEF m, n
  <2> QED
    BY <2>1, <2>2, Zenon
<1> HIDE DEF m, n
<1>4. /\ \A i \in 1 .. m : i \in 1 .. m + n
      /\ \A i \in 1 .. n : m + i \in 1 .. m + n
      /\ \A i \in 1 .. m + n : i \in 1 .. m \/ (i - m \in 1 .. n /\ i = m + (i - m))
  BY <1>1
<1>5. \A i \in 1 .. m + n : (i \in 1 .. m /\ u[i] = s[i]) \/ \E j \in 1 .. n : i = m + j /\ u[i] = t[j]
  BY <1>1, <1>4
<1>6. ASSUME NEW x PROVE x \in ToSet(u) <=> x \in ToSet(s) \/ x \in ToSet(t)
  <2>1. ASSUME NEW i \in 1 .. m + n, x = u[i]
        PROVE  (\E j \in 1 .. m : x = s[j]) \/ (\E j \in 1 .. n : x = t[j])
    BY <1>5, <2>1
  <2>2. ASSUME NEW i \in 1 .. m, x = s[i] PROVE \E j \in 1 .. m + n : x = u[j]
    BY <1>1, <1>4, <2>2
  <2>3. ASSUME NEW i \in 1 .. n, x = t[i] PROVE \E j \in 1 .. m + n : x = u[j]
    BY <1>1, <1>4, <2>3
  <2> QED
    BY <1>2, <1>3, <2>1, <2>2, <2>3
<1>7. ASSUME IsInjective(s), IsInjective(t), ToSet(s) \cap ToSet(t) = {},
             NEW i \in 1 .. m + n, NEW j \in 1 .. m + n, u[i] = u[j]
      PROVE  i = j
  <2>1. (i \in 1 .. m /\ u[i] = s[i]) \/ \E k \in 1 .. n : i = m + k /\ u[i] = t[k]
    BY <1>5
  <2>2. (j \in 1 .. m /\ u[j] = s[j]) \/ \E k \in 1 .. n : j = m + k /\ u[j] = t[k]
    BY <1>5
  <2>3. \A k \in 1 .. m, l \in 1 .. n : s[k] # t[l]
    BY <1>2, <1>7
  <2> QED
    BY <1>2, <1>7, <2>1, <2>2, <2>3
<1>8. IsInjective(s) /\ IsInjective(t) /\ ToSet(s) \cap ToSet(t) = {} => IsInjective(u)
  BY <1>3, <1>7
<1>9. ToSet(u) = ToSet(s) \cup ToSet(t)
  BY <1>6
<1> QED
  BY <1>1, <1>8, <1>9 DEF u

\* The elements of a flattened list, and when none is there twice.
LEMMA FlattenFacts ==
    ASSUME NEW X, NEW ss \in Seq(Seq(X))
    PROVE  /\ FlattenSeq(ss) \in Seq(X)
           /\ ToSet(FlattenSeq(ss)) = UNION {ToSet(ss[k]) : k \in 1 .. Len(ss)}
           /\ /\ \A k \in 1 .. Len(ss) : IsInjective(ss[k])
              /\ \A k, l \in 1 .. Len(ss) : k # l => ToSet(ss[k]) \cap ToSet(ss[l]) = {}
              => IsInjective(FlattenSeq(ss))
<1>1. PICK f : FlattensWith(f, X, ss)
  BY FlattenLoop, Zenon
<1> DEFINE n == Len(ss)
<1>2. /\ n \in Nat /\ n \in 0 .. n
      /\ \A k \in 1 .. n : ss[k] \in Seq(X)
      /\ \A k \in 0 .. n : f[k] \in Seq(X)
      /\ f[0] = <<>>
      /\ \A k \in 1 .. n : f[k] = f[k - 1] \o ss[k]
      /\ FlattenSeq(ss) = f[n]
  <2>1. n \in Nat /\ n \in 0 .. n /\ \A k \in 1 .. n : ss[k] \in Seq(X)
    OBVIOUS
  <2> QED
    BY <1>1, <2>1 DEF FlattensWith
<1> DEFINE Unique == /\ \A k \in 1 .. n : IsInjective(ss[k])
                     /\ \A k, l \in 1 .. n : k # l => ToSet(ss[k]) \cap ToSet(ss[l]) = {}
           T == {k \in 0 .. n : /\ ToSet(f[k]) = UNION {ToSet(ss[l]) : l \in 1 .. k}
                                /\ Unique => IsInjective(f[k])}
<1>5. ToSet(<<>>) = {} /\ IsInjective(<<>>)
  BY DEF ToSet, IsInjective
<1>6. 1 .. 0 = {}
  OBVIOUS
<1> HIDE DEF n
<1>7. 0 \in T
  BY <1>2, <1>5, <1>6
<1>8. ASSUME NEW k \in 1 .. n, k - 1 \in T PROVE k \in T
  <2>1. /\ k \in 0 .. n /\ k - 1 \in 0 .. n /\ k \in Nat
        /\ \A l \in 1 .. k : l = k \/ l \in 1 .. k - 1
        /\ \A l \in 1 .. k - 1 : l \in 1 .. k /\ l \in 1 .. n /\ l # k
        /\ k \in 1 .. k
    BY <1>2
  <2> DEFINE a == f[k - 1]
             b == ss[k]
  <2>2. /\ a \in Seq(X) /\ b \in Seq(X) /\ f[k] = a \o b
        /\ ToSet(a) = UNION {ToSet(ss[l]) : l \in 1 .. k - 1}
        /\ Unique => IsInjective(a)
    BY <1>2, <1>8, <2>1
  <2>3. ToSet(b) = ToSet(ss[k]) /\ (Unique => IsInjective(b))
    OBVIOUS
  <2> HIDE DEF a, b
  <2>4. /\ ToSet(f[k]) = ToSet(a) \cup ToSet(b)
        /\ IsInjective(a) /\ IsInjective(b) /\ ToSet(a) \cap ToSet(b) = {} => IsInjective(f[k])
    BY <2>2, JoinedElements
  <2>5. ToSet(f[k]) = UNION {ToSet(ss[l]) : l \in 1 .. k}
    BY <2>1, <2>2, <2>3, <2>4
  <2>6. ASSUME Unique PROVE IsInjective(f[k])
    <3>1. ASSUME NEW x, x \in ToSet(a), x \in ToSet(b) PROVE FALSE
      <4>1. PICK l \in 1 .. k - 1 : x \in ToSet(ss[l])
        BY <2>2, <3>1
      <4>2. ToSet(ss[l]) \cap ToSet(ss[k]) = {}
        BY <2>1, <2>6
      <4> QED
        BY <2>3, <3>1, <4>1, <4>2
    <3>2. ToSet(a) \cap ToSet(b) = {}
      BY <3>1
    <3> QED
      BY <2>2, <2>3, <2>4, <2>6, <3>2
  <2> QED
    BY <2>1, <2>5, <2>6
<1> HIDE DEF T
<1>9. n \in T
  BY <1>2, <1>7, <1>8, Upwards
<1> HIDE DEF Unique
<1>10. ToSet(f[n]) = UNION {ToSet(ss[l]) : l \in 1 .. n} /\ (Unique => IsInjective(f[n]))
  BY <1>9 DEF T
<1> QED
  BY <1>2, <1>10 DEF Unique, n
-----------------------------------------------------------------------------
(* What the drivers list *)

\* The values of a GpuInfo and of an enumerated device.
PciValues == {Pci(e) : e \in Entries}

Infos == [index : Nat, pci : PciValues, api : {"cuda", "opencl"}, backend_index : Nat,
          amd : BOOLEAN]

Listings == [handle : Cards, info : Infos]

Listing(i, e) == [handle |-> e.card, info |-> Info(i, "opencl", e)]

\* Every device of the list is that of an entry that can be used.
ListedFrom(out, E) ==
    \A i \in 1 .. Len(out) : \E e \in E : e.usable /\ out[i] = Listing(i - 1, e)

ExactIn(E) == \A e \in E : e.usable => Pci(e) = Address[e.card]
UsableIn(E) == {e.card : e \in {x \in E : x.usable}}

Handles(out) == [i \in 1 .. Len(out) |-> out[i].handle]

\* A device of an entry.
LEMMA ListingType ==
    ASSUME NEW e \in Entries, NEW i \in Nat
    PROVE  /\ Info(i, "opencl", e) \in Infos /\ Listing(i, e) \in Listings
           /\ Listing(i, e).handle = e.card /\ Listing(i, e).info = Info(i, "opencl", e)
           /\ Info(i, "opencl", e).index = i /\ Info(i, "opencl", e).backend_index = i
           /\ Info(i, "opencl", e).api = "opencl" /\ Info(i, "opencl", e).pci = Pci(e)
           /\ Info(i, "opencl", e).amd = (e.card \in AmdCards)
<1> DEFINE p == Pci(e)
           b == e.card \in AmdCards
<1>1. p \in PciValues /\ b \in BOOLEAN /\ e.card \in Cards
  BY DEF PciValues, Entries
<1>2. Info(i, "opencl", e) = [index |-> i, pci |-> p, api |-> "opencl", backend_index |-> i,
                              amd |-> b]
  BY DEF Info
<1> HIDE DEF p, b
<1>3. Info(i, "opencl", e) \in Infos
  BY <1>1, <1>2 DEF Infos
<1>4. Listing(i, e) \in Listings
  BY <1>1, <1>3 DEF Listing, Listings
<1> QED
  BY <1>2, <1>3, <1>4 DEF Listing, p, b

\* A list of devices and one device more.
LEMMA OneMoreListing ==
    ASSUME NEW out \in Seq(Listings), NEW x \in Listings
    PROVE  /\ Append(out, x) \in Seq(Listings)
           /\ Len(out) \in Nat /\ Len(Append(out, x)) = Len(out) + 1
           /\ \A i \in 1 .. Len(out) : Append(out, x)[i] = out[i]
           /\ Append(out, x)[Len(out) + 1] = x
           /\ \A i \in 1 .. Len(out) + 1 : i \in 1 .. Len(out) \/ i = Len(out) + 1
           /\ \A i \in 1 .. Len(out) : i \in 1 .. Len(out) + 1 /\ i # Len(out) + 1
           /\ Len(out) + 1 \in 1 .. Len(out) + 1
<1> DEFINE L == Listings
<1>1. out \in Seq(L) /\ x \in L
  OBVIOUS
<1> HIDE DEF L
<1>2. /\ Append(out, x) \in Seq(L)
      /\ Len(out) \in Nat /\ Len(Append(out, x)) = Len(out) + 1
      /\ \A i \in 1 .. Len(out) : Append(out, x)[i] = out[i]
      /\ Append(out, x)[Len(out) + 1] = x
  BY <1>1
<1> DEFINE n == Len(out)
<1>3. n \in Nat
  BY <1>2
<1> HIDE DEF n
<1>4. /\ \A i \in 1 .. n + 1 : i \in 1 .. n \/ i = n + 1
      /\ \A i \in 1 .. n : i \in 1 .. n + 1 /\ i # n + 1
      /\ n + 1 \in 1 .. n + 1
  BY <1>3
<1> QED
  BY <1>2, <1>4 DEF L, n

\* A card is listed by its handle.
LEMMA HandlesFacts ==
    ASSUME NEW out \in Seq(Listings)
    PROVE  /\ \A c : c \in ToSet(Handles(out)) <=> \E i \in 1 .. Len(out) : c = out[i].handle
           /\ IsInjective(Handles(out)) <=>
                 \A i, j \in 1 .. Len(out) : out[i].handle = out[j].handle => i = j
BY DEF Handles, ToSet, IsInjective

\* One entry more.
LEMMA EnumeratedStep ==
    ASSUME NEW out \in Seq(Listings), NEW E \in SUBSET Entries, NEW e \in Entries,
           ListedFrom(out, E)
    PROVE  /\ Enumerated(out, e) \in Seq(Listings)
           /\ ListedFrom(Enumerated(out, e), E \cup {e})
           /\ ExactIn(E \cup {e}) /\ IsInjective(Handles(out)) /\ ToSet(Handles(out)) = UsableIn(E)
                 => /\ IsInjective(Handles(Enumerated(out, e)))
                    /\ ToSet(Handles(Enumerated(out, e))) = UsableIn(E \cup {e})
<1> DEFINE n == Len(out)
           x == Listing(n, e)
           new == Enumerated(out, e)
<1>1. n \in Nat /\ DOMAIN out = 1 .. n
  OBVIOUS
<1>2. \A f : f \in E \cup {e} <=> f \in E \/ f = e
  OBVIOUS
<1>3. ASSUME ExactIn(E \cup {e})
      PROVE  /\ \A i \in 1 .. n : out[i].info.pci = Address[out[i].handle] /\ out[i].handle \in Cards
             /\ e.usable => Pci(e) = Address[e.card]
  <2>1. ASSUME NEW i \in 1 .. n
        PROVE  out[i].info.pci = Address[out[i].handle] /\ out[i].handle \in Cards
    <3>1. PICK f \in E : f.usable /\ out[i] = Listing(i - 1, f)
      BY DEF ListedFrom
    <3>2. i - 1 \in Nat /\ f \in Entries
      BY <1>1
    <3>3. out[i].handle = f.card /\ out[i].info = Info(i - 1, "opencl", f)
          /\ Info(i - 1, "opencl", f).pci = Pci(f)
      BY <3>1, <3>2, ListingType
    <3>4. Pci(f) = Address[f.card] /\ f.card \in Cards
      BY <1>3, <3>1, <3>2 DEF ExactIn, Entries
    <3> QED
      BY <3>3, <3>4
  <2> QED
    BY <1>3, <2>1 DEF ExactIn
<1>4. CASE ~e.usable \/ Seen(out, e)
  <2>1. new = out
    BY <1>4 DEF Enumerated
  <2>2. ListedFrom(out, E \cup {e})
    BY DEF ListedFrom
  <2>3. ASSUME ExactIn(E \cup {e}), ToSet(Handles(out)) = UsableIn(E)
        PROVE  UsableIn(E \cup {e}) = UsableIn(E)
    <3>1. e.usable => e.card \in UsableIn(E)
      <4> SUFFICES ASSUME e.usable PROVE e.card \in UsableIn(E)
        OBVIOUS
      <4>1. Pci(e) = Address[e.card] /\ e.card \in Cards
        BY <1>3, <2>3 DEF Entries
      <4>2. PICK i \in 1 .. n : out[i].info.pci = Pci(e)
        BY <1>1, <1>4 DEF Seen
      <4>3. Address[out[i].handle] = Address[e.card] /\ out[i].handle \in Cards
        BY <1>3, <2>3, <4>1, <4>2
      <4>4. out[i].handle = e.card
        BY <4>1, <4>3, DevicesAssumption
      <4> QED
        BY <2>3, <4>4, HandlesFacts
    <3>2. \A c : c \in UsableIn(E \cup {e}) <=> c \in UsableIn(E) \/ (e.usable /\ c = e.card)
      BY DEF UsableIn
    <3> QED
      BY <3>1, <3>2
  <2> QED
    BY <2>1, <2>2, <2>3
<1>5. CASE e.usable /\ ~Seen(out, e)
  <2>1. new = Append(out, x)
    BY <1>5 DEF Enumerated, Listing
  <2>2. x \in Listings /\ x.handle = e.card
    BY <1>1, ListingType
  <2> HIDE DEF new
  <2>3. /\ new \in Seq(Listings) /\ Len(new) = n + 1
        /\ \A i \in 1 .. n : new[i] = out[i]
        /\ new[n + 1] = x
        /\ \A i \in 1 .. n + 1 : i \in 1 .. n \/ i = n + 1
        /\ \A i \in 1 .. n : i \in 1 .. n + 1 /\ i # n + 1
        /\ n + 1 \in 1 .. n + 1
    <3> HIDE DEF x
    <3> QED
      BY <2>1, <2>2, OneMoreListing
  <2> HIDE DEF n
  <2>4. ListedFrom(new, E \cup {e})
    <3> SUFFICES ASSUME NEW i \in 1 .. n + 1
                 PROVE  \E f \in E \cup {e} : f.usable /\ new[i] = Listing(i - 1, f)
      BY <2>3 DEF ListedFrom
    <3>1. CASE i = n + 1
      <4>1. i - 1 = n
        BY <1>1, <3>1
      <4> QED
        BY <1>5, <2>3, <3>1, <4>1
    <3>2. CASE i \in 1 .. n
      <4>1. \E f \in E : f.usable /\ out[i] = Listing(i - 1, f)
        BY <3>2 DEF ListedFrom, n
      <4> QED
        BY <2>3, <3>2, <4>1
    <3> QED
      BY <2>3, <3>1, <3>2
  <2>5. ASSUME ExactIn(E \cup {e}), IsInjective(Handles(out)), ToSet(Handles(out)) = UsableIn(E)
        PROVE  IsInjective(Handles(new)) /\ ToSet(Handles(new)) = UsableIn(E \cup {e})
    <3>1. \A i \in 1 .. n : out[i].handle # e.card
      <4> SUFFICES ASSUME NEW i \in 1 .. n, out[i].handle = e.card PROVE FALSE
        OBVIOUS
      <4>1. out[i].info.pci = Address[e.card] /\ Pci(e) = Address[e.card] /\ e.card \in Cards
        BY <1>3, <1>5, <2>5 DEF Entries
      <4>2. Pci(e) # NoPci
        BY <4>1, DevicesAssumption
      <4> QED
        BY <1>1, <1>5, <4>1, <4>2 DEF Seen
    <3>2. \A i, j \in 1 .. n : out[i].handle = out[j].handle => i = j
      BY <2>5, HandlesFacts DEF n
    <3>3. \A i, j \in 1 .. n + 1 : new[i].handle = new[j].handle => i = j
      <4> SUFFICES ASSUME NEW i \in 1 .. n + 1, NEW j \in 1 .. n + 1, new[i].handle = new[j].handle
                   PROVE  i = j
        OBVIOUS
      <4>1. CASE i \in 1 .. n /\ j \in 1 .. n
        BY <2>3, <3>2, <4>1
      <4>2. CASE i = n + 1 \/ j = n + 1
        BY <2>2, <2>3, <3>1, <4>2
      <4> QED
        BY <2>3, <4>1, <4>2
    <3>4. \A c : (\E i \in 1 .. n + 1 : c = new[i].handle) <=>
                    c = e.card \/ \E i \in 1 .. n : c = out[i].handle
      BY <2>2, <2>3
    <3>5. /\ \A c : c \in ToSet(Handles(new)) <=> \E i \in 1 .. n + 1 : c = new[i].handle
          /\ IsInjective(Handles(new)) <=>
                \A i, j \in 1 .. n + 1 : new[i].handle = new[j].handle => i = j
      BY <2>3, HandlesFacts
    <3>6. \A c : c \in UsableIn(E) <=> \E i \in 1 .. n : c = out[i].handle
      BY <2>5, HandlesFacts DEF n
    <3>7. \A c : c \in UsableIn(E \cup {e}) <=> c \in UsableIn(E) \/ c = e.card
      BY <1>5 DEF UsableIn
    <3>8. \A c : c \in ToSet(Handles(new)) <=> c \in UsableIn(E \cup {e})
      BY <3>4, <3>5, <3>6, <3>7
    <3> QED
      BY <3>3, <3>5, <3>8
  <2> QED
    BY <2>3, <2>4, <2>5 DEF new
<1> QED
  BY <1>4, <1>5

\* The loop over the entries.
ListsWith(out, es) ==
    /\ out \in [0 .. Len(es) -> Seq(Listings)]
    /\ out[0] = <<>>
    /\ \A k \in 1 .. Len(es) : out[k] = Enumerated(out[k - 1], es[k])
    /\ Listed(es) = out[Len(es)]

\* One more entry of a platform leaves a list of OpenCL devices.
LEMMA EnumeratedType ==
    ASSUME NEW out \in Seq(Listings), NEW e \in Entries
    PROVE  Enumerated(out, e) \in Seq(Listings)
<1> DEFINE n == Len(out)
<1>1. n \in Nat
  OBVIOUS
<1>2. Listing(n, e) \in Listings
  BY <1>1, ListingType
<1>3. Append(out, Listing(n, e)) \in Seq(Listings)
  BY <1>2, OneMoreListing
<1> QED
  BY <1>3 DEF Enumerated, Listing

\* Listed computes the list the loop over the entries builds.
LEMMA ListedLoop ==
    ASSUME NEW es \in Seq(Entries)
    PROVE  \E out : ListsWith(out, es)
<1> DEFINE n == Len(es)
           X == Listings
           Step(k, x) == Enumerated(x, es[k])
           Loop(g) == g = [k \in 0 .. n |-> IF k = 0 THEN <<>> ELSE Step(k, g[k - 1])]
           G == [p \in (1 .. n) \X Seq(X) |-> Step(p[1], p[2])]
           c == CHOOSE g : Loop(g)
<1>1. n \in Nat /\ <<>> \in Seq(X) /\ \A k \in 1 .. n : es[k] \in Entries
  OBVIOUS
<1>2. ASSUME NEW k \in 1 .. n, NEW x \in Seq(X) PROVE Step(k, x) \in Seq(X)
  BY <1>1, EnumeratedType
<1>3. Listed(es) = c[n]
  BY DEF Listed
<1> HIDE DEF Step, n, X
<1>4. G \in [(1 .. n) \X Seq(X) -> Seq(X)]
  BY <1>2
<1>5. \A k \in 1 .. n : \A x \in Seq(X) : G[<<k, x>>] = Step(k, x)
  OBVIOUS
<1> HIDE DEF G
<1>6. PICK f \in [0 .. n -> Seq(X)] : f[0] = <<>> /\ \A i \in 1 .. n : f[i] = G[<<i, f[i - 1]>>]
  <2> DEFINE Y == Seq(X)
             e == <<>>
  <2>1. e \in Y /\ G \in Steps(n, Y)
    BY <1>1, <1>4 DEF Steps
  <2> HIDE DEF Y, e
  <2>2. \E f : IsRunOf(f, Y, e, n, G)
    BY <1>1, <2>1, Iterate, Zenon
  <2> QED
    BY <2>2 DEF Y, e, IsRunOf
<1>7. Loop(f)
  <2>1. \A i \in 1 .. n : f[i] = Step(i, f[i - 1])
    <3> SUFFICES ASSUME NEW i \in 1 .. n PROVE f[i] = Step(i, f[i - 1])
      OBVIOUS
    <3>1. i - 1 \in 0 .. n
      BY <1>1
    <3> QED
      BY <1>5, <1>6, <3>1
  <2>2. \A i \in 0 .. n : i = 0 \/ i \in 1 .. n
    BY <1>1
  <2> QED
    BY <1>6, <2>1, <2>2
<1>8. Loop(c)
  <2> HIDE DEF Loop
  <2> QED
    BY <1>7
<1> HIDE DEF c
<1>9. /\ c = [k \in 0 .. n |-> c[k]] /\ c[0] = <<>>
      /\ \A k \in 1 .. n : c[k] = Step(k, c[k - 1])
  <2>1. 0 \in 0 .. n /\ \A k \in 1 .. n : k \in 0 .. n /\ k # 0
    BY <1>1
  <2> QED
    BY <1>8, <2>1
<1>10. \A k \in 0 .. n : c[k] \in Seq(X)
  <2> DEFINE T == {k \in 0 .. n : c[k] \in Seq(X)}
  <2>1. 0 \in T /\ \A k \in 1 .. n : k - 1 \in T => k \in T
    BY <1>1, <1>2, <1>9
  <2> HIDE DEF T
  <2>2. \A k \in 0 .. n : k \in T
    BY <1>1, <2>1, Upwards
  <2> QED
    BY <2>2 DEF T
<1>11. c \in [0 .. n -> Seq(X)]
  BY <1>9, <1>10
<1> QED
  BY <1>3, <1>9, <1>11 DEF Step, n, X, ListsWith

\* What enumerate() lists: entries that can be used, numbered from 0; with
\* exact addresses every such card once.
LEMMA ListedFacts ==
    ASSUME NEW es \in Seq(Entries)
    PROVE  /\ Listed(es) \in Seq(Listings)
           /\ ListedFrom(Listed(es), ToSet(es))
           /\ ExactIn(ToSet(es)) =>
                 /\ IsInjective(Handles(Listed(es)))
                 /\ ToSet(Handles(Listed(es))) = UsableIn(ToSet(es))
<1>1. PICK out : ListsWith(out, es)
  BY ListedLoop, Zenon
<1> DEFINE n == Len(es)
           E(k) == {es[i] : i \in 1 .. k}
           T == {k \in 0 .. n :
                   /\ out[k] \in Seq(Listings) /\ ListedFrom(out[k], E(k))
                   /\ ExactIn(E(n)) => /\ IsInjective(Handles(out[k]))
                                       /\ ToSet(Handles(out[k])) = UsableIn(E(k))}
<1>2. /\ n \in Nat /\ n \in 0 .. n
      /\ \A k \in 1 .. n : es[k] \in Entries
      /\ ToSet(es) = E(n)
  <2>1. DOMAIN es = 1 .. n
    OBVIOUS
  <2> QED
    BY <2>1 DEF ToSet
<1>3. /\ \A k \in 0 .. n : out[k] \in Seq(Listings)
      /\ out[0] = <<>>
      /\ \A k \in 1 .. n : out[k] = Enumerated(out[k - 1], es[k])
      /\ Listed(es) = out[n]
  BY <1>1 DEF ListsWith
<1> HIDE DEF n
<1>4. 0 \in T
  <2>1. E(0) = {} /\ 0 \in 0 .. n /\ Len(<<>>) = 0
    BY <1>2
  <2>2. ListedFrom(<<>>, E(0)) /\ UsableIn({}) = {}
    BY <2>1 DEF ListedFrom, UsableIn
  <2>3. IsInjective(Handles(<<>>)) /\ ToSet(Handles(<<>>)) = {}
    BY DEF Handles, IsInjective, ToSet
  <2> QED
    BY <1>3, <2>1, <2>2, <2>3
<1>5. ASSUME NEW k \in 1 .. n, k - 1 \in T PROVE k \in T
  <2>1. k - 1 \in 0 .. n /\ k \in 0 .. n
    BY <1>2
  <2>2. E(k) = E(k - 1) \cup {es[k]} /\ E(k - 1) \subseteq Entries /\ E(k) \subseteq E(n)
    <3>1. /\ \A i \in 1 .. k : i \in 1 .. k - 1 \/ i = k
          /\ \A i \in 1 .. k - 1 : i \in 1 .. k /\ i \in 1 .. n
          /\ \A i \in 1 .. k : i \in 1 .. n
          /\ k \in 1 .. k
      BY <1>2
    <3> QED
      BY <1>2, <3>1
  <2> DEFINE D == E(k - 1)
             e == es[k]
             a == out[k - 1]
  <2>3. /\ a \in Seq(Listings) /\ D \in SUBSET Entries /\ e \in Entries /\ ListedFrom(a, D)
        /\ ExactIn(E(n)) => IsInjective(Handles(a)) /\ ToSet(Handles(a)) = UsableIn(D)
    BY <1>2, <1>5, <2>2
  <2>4. out[k] = Enumerated(a, e) /\ E(k) = D \cup {e}
    BY <1>3, <2>2
  <2>5. ExactIn(E(n)) => ExactIn(E(k))
    BY <2>2 DEF ExactIn
  <2> HIDE DEF D, e, a, E
  <2>6. /\ out[k] \in Seq(Listings)
        /\ ListedFrom(out[k], E(k))
        /\ ExactIn(E(k)) /\ IsInjective(Handles(a)) /\ ToSet(Handles(a)) = UsableIn(D)
              => IsInjective(Handles(out[k])) /\ ToSet(Handles(out[k])) = UsableIn(E(k))
    <3>1. /\ Enumerated(a, e) \in Seq(Listings)
          /\ ListedFrom(Enumerated(a, e), D \cup {e})
          /\ ExactIn(D \cup {e}) /\ IsInjective(Handles(a)) /\ ToSet(Handles(a)) = UsableIn(D)
                => /\ IsInjective(Handles(Enumerated(a, e)))
                   /\ ToSet(Handles(Enumerated(a, e))) = UsableIn(D \cup {e})
      BY <2>3, EnumeratedStep, Zenon
    <3> QED
      BY <2>4, <3>1, Zenon
  <2>7. ExactIn(E(n)) => IsInjective(Handles(out[k])) /\ ToSet(Handles(out[k])) = UsableIn(E(k))
    BY <2>3, <2>5, <2>6
  <2> QED
    BY <2>1, <2>6, <2>7
<1> HIDE DEF T, E
<1>6. n \in T
  BY <1>2, <1>4, <1>5, Upwards
<1> QED
  BY <1>2, <1>3, <1>6 DEF T

\* enumerate() of a machine.
LEMMA EnumerateFacts ==
    ASSUME NEW m, IsMachine(m)
    PROVE  /\ enumerate(m) \in Seq(Listings)
           /\ \A i \in 1 .. Len(enumerate(m)) : \E e \in Entries :
                 enumerate(m)[i] = Listing(i - 1, e) /\ (AddressesExact(m) => Pci(e) = Address[e.card])
           /\ AddressesExact(m) =>
                 /\ IsInjective(Handles(enumerate(m)))
                 /\ ToSet(Handles(enumerate(m))) = UsableIn(ToSet(FlattenSeq(m.platforms)))
<1> DEFINE ss == m.platforms
           es == FlattenSeq(ss)
<1>1. ss \in Seq(Seq(Entries))
  BY DEF IsMachine
<1>2. es \in Seq(Entries) /\ ToSet(es) = UNION {ToSet(ss[k]) : k \in 1 .. Len(ss)}
  BY <1>1, FlattenFacts
<1>3. AddressesExact(m) => ExactIn(ToSet(es))
  <2> SUFFICES ASSUME AddressesExact(m), NEW e \in ToSet(es), e.usable PROVE Pci(e) = Address[e.card]
    BY DEF ExactIn
  <2>1. PICK k \in 1 .. Len(ss) : e \in ToSet(ss[k])
    BY <1>2
  <2>2. PICK i \in DOMAIN ss[k] : e = ss[k][i]
    BY <2>1 DEF ToSet
  <2>3. k \in DOMAIN ss
    BY <1>1
  <2> QED
    BY <2>2, <2>3 DEF AddressesExact
<1>4. ToSet(es) \subseteq Entries
  <2> HIDE DEF es
  <2>1. \A x : x \in ToSet(es) <=> \E i \in 1 .. Len(es) : x = es[i]
    BY <1>2, Places, Zenon
  <2>2. \A i \in 1 .. Len(es) : es[i] \in Entries
    BY <1>2
  <2> QED
    BY <2>1, <2>2
<1>5. enumerate(m) = Listed(es)
  BY DEF enumerate
<1> HIDE DEF es
<1>6. /\ Listed(es) \in Seq(Listings)
      /\ ListedFrom(Listed(es), ToSet(es))
      /\ ExactIn(ToSet(es)) =>
            /\ IsInjective(Handles(Listed(es)))
            /\ ToSet(Handles(Listed(es))) = UsableIn(ToSet(es))
  BY <1>2, ListedFacts
<1>7. \A i \in 1 .. Len(Listed(es)) : \E e \in Entries :
         Listed(es)[i] = Listing(i - 1, e) /\ (AddressesExact(m) => Pci(e) = Address[e.card])
  BY <1>3, <1>4, <1>6 DEF ListedFrom, ExactIn
<1> QED
  BY <1>3, <1>5, <1>6, <1>7 DEF es

\* The device is a card of CUDA's list.
FromCuda(m, d) ==
    /\ d.api = "cuda" /\ d.amd = FALSE
    /\ d.backend_index + 1 \in 1 .. Len(m.cuda)
    /\ d.pci = Address[m.cuda[d.backend_index + 1]]

\* The device is one of OpenCL's list.
FromOpencl(m, d) ==
    /\ d.api = "opencl"
    /\ d.backend_index + 1 \in 1 .. Len(enumerate(m))
    /\ d.amd = enumerate(m)[d.backend_index + 1].info.amd
    /\ d.pci = enumerate(m)[d.backend_index + 1].info.pci

\* CUDA's list.
LEMMA CudaFacts ==
    ASSUME NEW m, IsMachine(m)
    PROVE  /\ cuda_devices(m) \in Seq(Infos) /\ Len(cuda_devices(m)) = Len(m.cuda)
           /\ \A i \in 1 .. Len(m.cuda) :
                 FromCuda(m, cuda_devices(m)[i]) /\ cuda_devices(m)[i].backend_index = i - 1
<1> DEFINE n == Len(m.cuda)
           d(i) == Info(i - 1, "cuda", [card |-> m.cuda[i], info |-> "khr"])
<1>1. m.cuda \in Seq(Cards \ AmdCards)
  BY DEF IsMachine
<1>2. n \in Nat /\ DOMAIN m.cuda = 1 .. n /\ \A i \in 1 .. n : m.cuda[i] \in Cards \ AmdCards
  BY <1>1
<1>3. cuda_devices(m) = [i \in 1 .. n |-> d(i)]
  BY <1>2 DEF cuda_devices
<1>4. ASSUME NEW i \in 1 .. n PROVE d(i) \in Infos /\ FromCuda(m, d(i)) /\ d(i).backend_index = i - 1
  <2> DEFINE p == Address[m.cuda[i]]
  <2>1. p \in PciValues
    <3> DEFINE e == [card |-> m.cuda[i], usable |-> TRUE, info |-> "khr"]
    <3>1. e \in Entries
      BY <1>2 DEF Entries
    <3>2. Pci(e) = p
      BY DEF Pci
    <3> QED
      BY <3>1, <3>2 DEF PciValues
  <2>2. d(i) = [index |-> i - 1, pci |-> p, api |-> "cuda", backend_index |-> i - 1, amd |-> FALSE]
    BY DEF Info, Pci
  <2>3. i - 1 \in Nat /\ (i - 1) + 1 = i
    BY <1>2
  <2> HIDE DEF d
  <2>4. /\ d(i).backend_index = i - 1 /\ d(i).api = "cuda" /\ d(i).amd = FALSE /\ d(i).pci = p
    BY <2>2
  <2> HIDE DEF p
  <2>5. d(i) \in Infos
    BY <2>1, <2>2, <2>3 DEF Infos
  <2> QED
    BY <2>3, <2>4, <2>5 DEF FromCuda, p
<1> HIDE DEF d
<1>5. [i \in 1 .. n |-> d(i)] \in Seq(Infos) /\ Len([i \in 1 .. n |-> d(i)]) = n
  BY <1>2, <1>4
<1> QED
  BY <1>3, <1>4, <1>5

\* OpenCL's list, of which all or only AMD's devices are taken.
TakenFromOpencl(m, only, P) ==
    /\ P \in Seq(Infos)
    /\ \A i \in 1 .. Len(P) : FromOpencl(m, P[i]) /\ (only => P[i].amd)
    /\ \A i, j \in 1 .. Len(P) : P[i].backend_index = P[j].backend_index => i = j
    /\ \A k \in 1 .. Len(enumerate(m)) : (only => enumerate(m)[k].info.amd) =>
          \E i \in 1 .. Len(P) : P[i].backend_index = k - 1

\* opencl_devices takes every wanted device of the enumeration, each once.
LEMMA OpenclFacts ==
    ASSUME NEW m, IsMachine(m), NEW only \in BOOLEAN
    PROVE  TakenFromOpencl(m, only, opencl_devices(m, only))
<1> DEFINE L == enumerate(m)
           n == Len(L)
           infos == [i \in DOMAIN L |-> L[i].info]
           S == {d \in ToSet(infos) : only => d.amd}
           O == Filter(infos, S)
<1>1. /\ L \in Seq(Listings)
      /\ \A i \in 1 .. n : \E e \in Entries : L[i] = Listing(i - 1, e)
  BY EnumerateFacts
<1>2. opencl_devices(m, only) = O
  BY DEF opencl_devices
<1> HIDE DEF L
<1>3. n \in Nat /\ DOMAIN L = 1 .. n
  BY <1>1
<1> HIDE DEF n
<1>4. \A i \in 1 .. n : L[i].info \in Infos /\ L[i].info.backend_index = i - 1 /\ L[i].info.api = "opencl"
  <2> SUFFICES ASSUME NEW i \in 1 .. n
               PROVE  L[i].info \in Infos /\ L[i].info.backend_index = i - 1 /\ L[i].info.api = "opencl"
    OBVIOUS
  <2>1. PICK e \in Entries : L[i] = Listing(i - 1, e)
    BY <1>1
  <2>2. i - 1 \in Nat
    BY <1>3
  <2> QED
    BY <2>1, <2>2, ListingType
<1>5. infos \in Seq(Infos) /\ Len(infos) = n /\ \A i \in 1 .. n : infos[i] = L[i].info
  <2> DEFINE v(i) == L[i].info
  <2>1. infos = [i \in 1 .. n |-> v(i)] /\ \A i \in 1 .. n : v(i) \in Infos
    BY <1>3, <1>4
  <2> HIDE DEF v, infos
  <2>2. [i \in 1 .. n |-> v(i)] \in Seq(Infos) /\ Len([i \in 1 .. n |-> v(i)]) = n
    BY <1>3, <2>1
  <2>3. \A i \in 1 .. n : infos[i] = v(i)
    BY <2>1
  <2> QED
    BY <2>1, <2>2, <2>3 DEF v
<1> HIDE DEF infos
<1>6. IsInjective(infos) /\ \A x : x \in ToSet(infos) <=> \E i \in 1 .. n : x = infos[i]
  <2>1. /\ \A x : x \in ToSet(infos) <=> \E i \in 1 .. Len(infos) : x = infos[i]
        /\ IsInjective(infos) <=> \A i, j \in 1 .. Len(infos) : infos[i] = infos[j] => i = j
    BY <1>5, Places, Zenon
  <2>2. ASSUME NEW i \in 1 .. n, NEW j \in 1 .. n, infos[i] = infos[j] PROVE i = j
    <3>1. i - 1 = j - 1
      BY <1>4, <1>5, <2>2
    <3> QED
      BY <1>3, <3>1
  <2> QED
    BY <1>5, <2>1, <2>2
<1> HIDE DEF S
<1>7. O \in Seq(Infos) /\ ToSet(O) = ToSet(infos) \cap S /\ IsInjective(O)
  BY <1>5, <1>6, FilterFacts
<1> HIDE DEF O
<1>8. /\ \A x : x \in ToSet(O) <=> \E i \in 1 .. Len(O) : x = O[i]
      /\ \A i, j \in 1 .. Len(O) : O[i] = O[j] => i = j
  <2>1. /\ \A x : x \in ToSet(O) <=> \E i \in 1 .. Len(O) : x = O[i]
        /\ IsInjective(O) <=> \A i, j \in 1 .. Len(O) : O[i] = O[j] => i = j
    BY <1>7, Places, Zenon
  <2> QED
    BY <1>7, <2>1
<1>9. \A i \in 1 .. Len(O) : \E k \in 1 .. n : O[i] = L[k].info /\ (only => O[i].amd)
  BY <1>5, <1>6, <1>7, <1>8 DEF S
<1>10. ASSUME NEW i \in 1 .. Len(O) PROVE FromOpencl(m, O[i]) /\ (only => O[i].amd)
  <2>1. PICK k \in 1 .. n : O[i] = L[k].info /\ (only => O[i].amd)
    BY <1>9
  <2>2. O[i].backend_index + 1 = k /\ O[i].api = "opencl"
    BY <1>3, <1>4, <2>1
  <2> QED
    BY <2>1, <2>2 DEF FromOpencl, L, n
<1>11. ASSUME NEW i \in 1 .. Len(O), NEW j \in 1 .. Len(O), O[i].backend_index = O[j].backend_index
       PROVE  i = j
  <2>1. PICK k \in 1 .. n : O[i] = L[k].info
    BY <1>9
  <2>2. PICK l \in 1 .. n : O[j] = L[l].info
    BY <1>9
  <2>3. k - 1 = l - 1
    BY <1>4, <1>11, <2>1, <2>2
  <2>4. k = l
    BY <1>3, <2>3
  <2> QED
    BY <1>8, <2>1, <2>2, <2>4
<1>12. ASSUME NEW k \in 1 .. n, only => L[k].info.amd
       PROVE  \E i \in 1 .. Len(O) : O[i].backend_index = k - 1
  <2>1. L[k].info \in ToSet(O)
    BY <1>5, <1>6, <1>7, <1>12 DEF S
  <2>2. PICK i \in 1 .. Len(O) : O[i] = L[k].info
    BY <1>8, <2>1
  <2> QED
    BY <1>4, <2>2
<1> QED
  BY <1>2, <1>7, <1>10, <1>11, <1>12 DEF L, n, TakenFromOpencl

\* The merged list: CUDA's devices, then OpenCL's, numbered through; a
\* backend's number stands in it once.
IsMerged(m, mode, D) ==
    LET only == mode = "auto" /\ m.cuda # <<>>
    IN /\ D \in Seq(Infos)
       /\ \A i \in 1 .. Len(D) : D[i].index = i - 1
       /\ \A i \in 1 .. Len(D) :
             \/ mode # "opencl" /\ FromCuda(m, D[i])
             \/ mode # "cuda" /\ FromOpencl(m, D[i]) /\ (only => D[i].amd)
       /\ \A i, j \in 1 .. Len(D) :
             D[i].api = D[j].api /\ D[i].backend_index = D[j].backend_index => i = j
       /\ mode # "opencl" => \A k \in 1 .. Len(m.cuda) : \E i \in 1 .. Len(D) :
             D[i].api = "cuda" /\ D[i].backend_index = k - 1
       /\ mode # "cuda" => \A k \in 1 .. Len(enumerate(m)) :
             (only => enumerate(m)[k].info.amd) => \E i \in 1 .. Len(D) :
                 D[i].api = "opencl" /\ D[i].backend_index = k - 1

\* gpu_devices merges the two lists without losing or repeating a device.
LEMMA MergedFacts ==
    ASSUME NEW m, IsMachine(m), NEW mode
    PROVE  IsMerged(m, mode, gpu_devices(m, mode))
<1> DEFINE C == IF mode = "opencl" THEN <<>> ELSE cuda_devices(m)
           O == IF mode = "cuda" THEN <<>> ELSE opencl_devices(m, mode = "auto" /\ C # <<>>)
           J == C \o O
           D == [i \in 1 .. Len(C) + Len(O) |-> [J[i] EXCEPT !.index = i - 1]]
           only == mode = "auto" /\ m.cuda # <<>>
           M == Len(m.cuda)
           E == Len(enumerate(m))
<1>1. gpu_devices(m, mode) = D
  BY DEF gpu_devices
<1>2. M \in Nat /\ (m.cuda = <<>> <=> M = 0) /\ E \in Nat
  <2>1. m.cuda \in Seq(Cards \ AmdCards) /\ enumerate(m) \in Seq(Listings)
    BY EnumerateFacts DEF IsMachine
  <2> QED
    BY <2>1
<1>3. /\ C \in Seq(Infos)
      /\ \A i \in 1 .. Len(C) :
            mode # "opencl" /\ FromCuda(m, C[i]) /\ C[i].backend_index = i - 1
      /\ mode # "opencl" => Len(C) = M
  <2>1. CASE mode = "opencl"
    BY <2>1
  <2>2. CASE mode # "opencl"
    <3>1. C = cuda_devices(m)
      BY <2>2
    <3> QED
      BY <2>2, <3>1, CudaFacts
  <2> QED
    BY <2>1, <2>2
<1>4. only = (mode = "auto" /\ C # <<>>) /\ only \in BOOLEAN
  <2>1. C = <<>> <=> Len(C) = 0
    BY <1>3
  <2>2. mode = "auto" => mode # "opencl"
    OBVIOUS
  <2> HIDE DEF C
  <2> QED
    BY <1>2, <1>3, <2>1, <2>2
<1>5. /\ O \in Seq(Infos)
      /\ \A i \in 1 .. Len(O) : mode # "cuda" /\ FromOpencl(m, O[i]) /\ (only => O[i].amd)
      /\ \A i, j \in 1 .. Len(O) : O[i].backend_index = O[j].backend_index => i = j
      /\ mode # "cuda" => \A k \in 1 .. E : (only => enumerate(m)[k].info.amd) =>
            \E i \in 1 .. Len(O) : O[i].backend_index = k - 1
  <2>1. CASE mode = "cuda"
    BY <2>1
  <2>2. CASE mode # "cuda"
    <3>1. O = opencl_devices(m, only)
      BY <1>4, <2>2
    <3> HIDE DEF O, only, E
    <3>2. TakenFromOpencl(m, only, O)
      BY <1>4, <3>1, OpenclFacts
    <3> QED
      BY <2>2, <3>2 DEF TakenFromOpencl, E
  <2> QED
    BY <2>1, <2>2
<1> DEFINE c == Len(C)
           o == Len(O)
<1> HIDE DEF C, O
<1>6. /\ c \in Nat /\ o \in Nat /\ Len(J) = c + o /\ J \in Seq(Infos)
      /\ \A i \in 1 .. c : J[i] = C[i]
      /\ \A i \in 1 .. o : J[c + i] = O[i]
  <2> DEFINE X == Infos
  <2>1. C \in Seq(X) /\ O \in Seq(X)
    BY <1>3, <1>5
  <2> HIDE DEF X
  <2>2. J \in Seq(X)
    BY <2>1
  <2> QED
    BY <2>1, <2>2 DEF X
<1>7. /\ \A i \in 1 .. c + o : i \in 1 .. c \/ \E j \in 1 .. o : i = c + j
      /\ \A i \in 1 .. c : i \in 1 .. c + o
      /\ \A i \in 1 .. o : c + i \in 1 .. c + o
  <2> HIDE DEF c, o
  <2>1. \A i \in 1 .. c + o : i \in 1 .. c \/ (i - c \in 1 .. o /\ i = c + (i - c))
    BY <1>6
  <2>2. \A i \in 1 .. c : i \in 1 .. c + o
    BY <1>6
  <2>3. \A i \in 1 .. o : c + i \in 1 .. c + o
    BY <1>6
  <2> QED
    BY <2>1, <2>2, <2>3
<1> HIDE DEF J, c, o
<1>8. ASSUME NEW i \in 1 .. c + o
      PROVE  /\ D[i] = [J[i] EXCEPT !.index = i - 1] /\ D[i] \in Infos /\ D[i].index = i - 1
             /\ D[i].api = J[i].api /\ D[i].backend_index = J[i].backend_index
             /\ D[i].pci = J[i].pci /\ D[i].amd = J[i].amd
  <2>1. J[i] \in Infos
    BY <1>6
  <2>2. D[i] = [J[i] EXCEPT !.index = i - 1]
    BY DEF c, o
  <2>3. i - 1 \in Nat
    BY <1>6
  <2> HIDE DEF D
  <2> QED
    BY <2>1, <2>2, <2>3 DEF Infos
<1>9. D \in Seq(Infos) /\ Len(D) = c + o
  <2> DEFINE v(i) == [J[i] EXCEPT !.index = i - 1]
  <2>1. D = [i \in 1 .. c + o |-> v(i)]
    BY DEF c, o
  <2>2. \A i \in 1 .. c + o : v(i) \in Infos
    BY <1>8
  <2>3. c + o \in Nat
    BY <1>6
  <2> HIDE DEF v, D
  <2> QED
    BY <2>1, <2>2, <2>3
<1> HIDE DEF D
<1>10. \A i \in 1 .. c + o :
          \/ i \in 1 .. c /\ D[i].api = "cuda" /\ D[i].backend_index = i - 1
             /\ mode # "opencl" /\ FromCuda(m, D[i])
          \/ \E j \in 1 .. o : i = c + j /\ D[i].api = "opencl" /\ D[i].backend_index = O[j].backend_index
             /\ mode # "cuda" /\ FromOpencl(m, D[i]) /\ (only => D[i].amd)
  <2> SUFFICES ASSUME NEW i \in 1 .. c + o
               PROVE
          \/ i \in 1 .. c /\ D[i].api = "cuda" /\ D[i].backend_index = i - 1
             /\ mode # "opencl" /\ FromCuda(m, D[i])
          \/ \E j \in 1 .. o : i = c + j /\ D[i].api = "opencl" /\ D[i].backend_index = O[j].backend_index
             /\ mode # "cuda" /\ FromOpencl(m, D[i]) /\ (only => D[i].amd)
    OBVIOUS
  <2> HIDE DEF only
  <2>1. /\ D[i].api = J[i].api /\ D[i].backend_index = J[i].backend_index
        /\ D[i].pci = J[i].pci /\ D[i].amd = J[i].amd
    BY <1>8
  <2>2. CASE i \in 1 .. c
    <3>1. J[i] = C[i] /\ mode # "opencl" /\ FromCuda(m, C[i]) /\ C[i].backend_index = i - 1
      BY <1>3, <1>6, <2>2 DEF c
    <3> QED
      BY <2>1, <2>2, <3>1 DEF FromCuda
  <2>3. ASSUME NEW j \in 1 .. o, i = c + j
        PROVE  /\ D[i].api = "opencl" /\ D[i].backend_index = O[j].backend_index
               /\ mode # "cuda" /\ FromOpencl(m, D[i]) /\ (only => D[i].amd)
    <3>1. J[i] = O[j] /\ mode # "cuda" /\ FromOpencl(m, O[j]) /\ (only => O[j].amd)
      BY <1>5, <1>6, <2>3 DEF o
    <3> QED
      BY <2>1, <3>1 DEF FromOpencl
  <2> QED
    BY <1>7, <2>2, <2>3
<1>11. ASSUME NEW i \in 1 .. c + o, NEW j \in 1 .. c + o,
              D[i].api = D[j].api, D[i].backend_index = D[j].backend_index
       PROVE  i = j
  <2>1. CASE i \in 1 .. c /\ j \in 1 .. c /\ i - 1 = j - 1
    BY <1>6, <2>1
  <2>2. CASE \E k, l \in 1 .. o : i = c + k /\ j = c + l /\ O[k].backend_index = O[l].backend_index
    BY <1>5, <2>2 DEF o
  <2> QED
    BY <1>10, <1>11, <2>1, <2>2
<1>12. mode # "opencl" => \A k \in 1 .. M : \E i \in 1 .. c + o :
          D[i].api = "cuda" /\ D[i].backend_index = k - 1
  <2> SUFFICES ASSUME mode # "opencl", NEW k \in 1 .. M
               PROVE  \E i \in 1 .. c + o : D[i].api = "cuda" /\ D[i].backend_index = k - 1
    OBVIOUS
  <2>1. k \in 1 .. c /\ k \in 1 .. c + o
    BY <1>3, <1>7 DEF c
  <2>2. J[k] = C[k] /\ FromCuda(m, C[k]) /\ C[k].backend_index = k - 1
    BY <1>3, <1>6, <2>1 DEF c
  <2>3. D[k].api = "cuda" /\ D[k].backend_index = k - 1
    BY <1>8, <2>1, <2>2 DEF FromCuda
  <2> QED
    BY <2>1, <2>3
<1>13. mode # "cuda" => \A k \in 1 .. E : (only => enumerate(m)[k].info.amd) =>
          \E i \in 1 .. c + o : D[i].api = "opencl" /\ D[i].backend_index = k - 1
  <2> HIDE DEF only, E
  <2> SUFFICES ASSUME mode # "cuda", NEW k \in 1 .. E, only => enumerate(m)[k].info.amd
               PROVE  \E i \in 1 .. c + o : D[i].api = "opencl" /\ D[i].backend_index = k - 1
    OBVIOUS
  <2>1. PICK j \in 1 .. o : O[j].backend_index = k - 1
    BY <1>5 DEF o
  <2>2. c + j \in 1 .. c + o /\ J[c + j] = O[j] /\ FromOpencl(m, O[j])
    BY <1>5, <1>6, <1>7 DEF o
  <2>3. D[c + j].api = "opencl" /\ D[c + j].backend_index = k - 1
    BY <1>8, <2>1, <2>2 DEF FromOpencl
  <2>4. c + j \in 1 .. c + o
    BY <2>2
  <2> WITNESS c + j \in 1 .. c + o
  <2> QED
    BY <2>3
<1>14. \A i \in 1 .. Len(D) : D[i].index = i - 1
  BY <1>8, <1>9
<1>15. \A i \in 1 .. c + o : \/ mode # "opencl" /\ FromCuda(m, D[i])
                             \/ mode # "cuda" /\ FromOpencl(m, D[i]) /\ (only => D[i].amd)
  <2> HIDE DEF only
  <2> QED
    BY <1>10
<1> HIDE DEF only, E, M, IsMerged
<1> QED
  BY <1>1, <1>9, <1>11, <1>12, <1>13, <1>14, <1>15 DEF only, E, M, IsMerged

\* The card CUDA opens.
LEMMA OpenedCuda ==
    ASSUME NEW m, IsMachine(m), NEW d \in Infos, FromCuda(m, d)
    PROVE  /\ Opened(m, d) = m.cuda[d.backend_index + 1]
           /\ Opened(m, d) \in Cards \ AmdCards
           /\ d.pci = Address[Opened(m, d)] /\ d.amd = FALSE
<1> DEFINE b == d.backend_index
           n == Len(m.cuda)
<1>1. b \in Nat /\ d.api = "cuda" /\ b + 1 \in 1 .. n
  BY DEF FromCuda, Infos
<1>2. m.cuda \in Seq(Cards \ AmdCards)
  BY DEF IsMachine
<1>3. n \in Nat /\ \A i \in 1 .. n : m.cuda[i] \in Cards \ AmdCards
  BY <1>2
<1>4. b < n
  <2> HIDE DEF b, n
  <2> QED
    BY <1>1, <1>3
<1>5. Opened(m, d) = m.cuda[b + 1]
  BY <1>1, <1>4 DEF Opened
<1> QED
  BY <1>1, <1>3, <1>5 DEF FromCuda

\* The card OpenCL opens.
LEMMA OpenedOpencl ==
    ASSUME NEW m, IsMachine(m), NEW d \in Infos, FromOpencl(m, d)
    PROVE  /\ Opened(m, d) = enumerate(m)[d.backend_index + 1].handle
           /\ Opened(m, d) \in Cards
           /\ AddressesExact(m) => d.pci = Address[Opened(m, d)]
           /\ d.amd = (Opened(m, d) \in AmdCards)
<1> DEFINE b == d.backend_index
           L == enumerate(m)
           n == Len(L)
           H == [i \in DOMAIN L |-> L[i].handle]
<1>1. b \in Nat /\ d.api = "opencl" /\ b + 1 \in 1 .. n
      /\ d.amd = L[b + 1].info.amd /\ d.pci = L[b + 1].info.pci
  BY DEF FromOpencl, Infos
<1>2. /\ L \in Seq(Listings)
      /\ \A i \in 1 .. n : \E e \in Entries :
            L[i] = Listing(i - 1, e) /\ (AddressesExact(m) => Pci(e) = Address[e.card])
  BY EnumerateFacts
<1>3. Opened(m, d) = IF b < Len(H) THEN H[b + 1] ELSE NoCard
  BY <1>1 DEF Opened
<1> HIDE DEF L
<1>4. n \in Nat /\ DOMAIN L = 1 .. n
  BY <1>2
<1> HIDE DEF n
<1>5. Len(H) = n /\ \A i \in 1 .. n : H[i] = L[i].handle
  BY <1>4
<1> HIDE DEF H, b
<1>6. b < Len(H)
  BY <1>1, <1>4, <1>5
<1>7. Opened(m, d) = L[b + 1].handle
  BY <1>1, <1>3, <1>5, <1>6
<1>8. PICK e \in Entries :
         L[b + 1] = Listing((b + 1) - 1, e) /\ (AddressesExact(m) => Pci(e) = Address[e.card])
  BY <1>1, <1>2
<1>9. (b + 1) - 1 = b
  BY <1>1
<1>10. /\ L[b + 1].handle = e.card /\ L[b + 1].info.pci = Pci(e)
       /\ L[b + 1].info.amd = (e.card \in AmdCards)
  BY <1>1, <1>8, <1>9, ListingType
<1>11. e.card \in Cards
  BY DEF Entries
<1>12. /\ Opened(m, d) = e.card /\ d.pci = Pci(e) /\ d.amd = (e.card \in AmdCards)
  BY <1>1, <1>7, <1>10
<1> QED
  BY <1>7, <1>8, <1>11, <1>12 DEF L, b

\* An address leads to the card that has it.
LEMMA AddressLeads ==
    ASSUME NEW c \in Cards, NEW amd \in BOOLEAN, amd = (c \in AmdCards)
    PROVE  CardAt(Address[c], amd) = c
<1> DEFINE at == {x \in Cards : Address[x] = Address[c] /\ (x \in AmdCards) = amd}
<1>1. c \in at /\ \A x \in at : x = c
  BY DevicesAssumption
<1>2. (CHOOSE x \in at : TRUE) = c
  BY <1>1
<1> QED
  BY <1>1, <1>2 DEF CardAt

\* With exact addresses every device's registers and backend are those of one
\* card, each card that can be used is listed, and none twice.
OpensEachOnce(m, mode, D) ==
    /\ \A i \in 1 .. Len(D) :
          Opened(m, D[i]) \in Cards /\ CardAt(D[i].pci, D[i].amd) = Opened(m, D[i])
    /\ \A i, j \in 1 .. Len(D) : Opened(m, D[i]) = Opened(m, D[j]) => i = j
    /\ \A c : c \in UsableCards(m, mode) <=> \E i \in 1 .. Len(D) : c = Opened(m, D[i])

\* The positions of a merged list open every usable card exactly once.
LEMMA OpenedFacts ==
    ASSUME NEW m, IsMachine(m), AddressesExact(m), NEW mode \in GpuModes, NEW D,
           IsMerged(m, mode, D)
    PROVE  OpensEachOnce(m, mode, D)
<1> DEFINE only == mode = "auto" /\ m.cuda # <<>>
           L == enumerate(m)
           n == Len(D)
<1>1. /\ \A i \in 1 .. n : D[i] \in Infos
      /\ \A i \in 1 .. n : \/ mode # "opencl" /\ FromCuda(m, D[i])
                           \/ mode # "cuda" /\ FromOpencl(m, D[i]) /\ (only => D[i].amd)
      /\ \A i, j \in 1 .. n :
            D[i].api = D[j].api /\ D[i].backend_index = D[j].backend_index => i = j
      /\ mode # "opencl" => \A k \in 1 .. Len(m.cuda) : \E i \in 1 .. n :
            D[i].api = "cuda" /\ D[i].backend_index = k - 1
      /\ mode # "cuda" => \A k \in 1 .. Len(L) :
            (only => L[k].info.amd) => \E i \in 1 .. n :
                D[i].api = "opencl" /\ D[i].backend_index = k - 1
  BY DEF IsMerged
<1>2. /\ m.cuda \in Seq(Cards \ AmdCards) /\ Len(m.cuda) \in Nat
      /\ \A i, j \in 1 .. Len(m.cuda) : m.cuda[i] = m.cuda[j] => i = j
      /\ \A x : x \in ToSet(m.cuda) <=> \E i \in 1 .. Len(m.cuda) : x = m.cuda[i]
  <2>1. m.cuda \in Seq(Cards \ AmdCards) /\ IsInjective(m.cuda)
    BY DEF IsMachine
  <2> QED
    BY <2>1, Places
<1>3. /\ L \in Seq(Listings) /\ Len(L) \in Nat
      /\ \A i, j \in 1 .. Len(L) : L[i].handle = L[j].handle => i = j
      /\ \A c : c \in UsableIn(ToSet(FlattenSeq(m.platforms))) <=> \E i \in 1 .. Len(L) : c = L[i].handle
  <2>1. L \in Seq(Listings) /\ IsInjective(Handles(L))
        /\ ToSet(Handles(L)) = UsableIn(ToSet(FlattenSeq(m.platforms)))
    BY EnumerateFacts
  <2> HIDE DEF L
  <2>2. Len(L) \in Nat
    BY <2>1
  <2>3. /\ \A c : c \in ToSet(Handles(L)) <=> \E i \in 1 .. Len(L) : c = L[i].handle
        /\ IsInjective(Handles(L)) <=> \A i, j \in 1 .. Len(L) : L[i].handle = L[j].handle => i = j
    BY <2>1, HandlesFacts, Zenon
  <2> QED
    BY <2>1, <2>2, <2>3
<1> HIDE DEF L, n
<1> DEFINE card_at(i) == Opened(m, D[i])
           b(i) == D[i].backend_index
<1>4. ASSUME NEW i \in 1 .. n, FromCuda(m, D[i])
      PROVE  /\ D[i].api = "cuda" /\ b(i) \in Nat /\ b(i) + 1 \in 1 .. Len(m.cuda)
             /\ card_at(i) = m.cuda[b(i) + 1] /\ card_at(i) \in Cards \ AmdCards
             /\ D[i].pci = Address[card_at(i)] /\ D[i].amd = FALSE
  <2>1. D[i] \in Infos
    BY <1>1
  <2>2. b(i) \in Nat /\ D[i].api = "cuda" /\ b(i) + 1 \in 1 .. Len(m.cuda)
    BY <1>4, <2>1 DEF FromCuda, Infos
  <2> QED
    BY <1>4, <2>1, <2>2, OpenedCuda
<1>5. ASSUME NEW i \in 1 .. n, FromOpencl(m, D[i])
      PROVE  /\ D[i].api = "opencl" /\ b(i) \in Nat /\ b(i) + 1 \in 1 .. Len(L)
             /\ card_at(i) = L[b(i) + 1].handle /\ card_at(i) \in Cards
             /\ D[i].pci = Address[card_at(i)] /\ D[i].amd = (card_at(i) \in AmdCards)
  <2>1. D[i] \in Infos
    BY <1>1
  <2>2. b(i) \in Nat /\ D[i].api = "opencl" /\ b(i) + 1 \in 1 .. Len(L)
    BY <1>5, <2>1 DEF FromOpencl, Infos, L
  <2> QED
    BY <1>5, <2>1, <2>2, OpenedOpencl DEF L
<1>6. ASSUME NEW i \in 1 .. n
      PROVE  card_at(i) \in Cards /\ CardAt(D[i].pci, D[i].amd) = card_at(i)
  <2>1. card_at(i) \in Cards /\ D[i].pci = Address[card_at(i)] /\ D[i].amd = (card_at(i) \in AmdCards)
    <3>1. CASE FromCuda(m, D[i])
      <4>1. card_at(i) \in Cards \ AmdCards /\ D[i].pci = Address[card_at(i)] /\ D[i].amd = FALSE
        BY <1>4, <3>1
      <4>2. card_at(i) \in Cards /\ (card_at(i) \in AmdCards) = FALSE
        BY <4>1
      <4> QED
        BY <4>1, <4>2
    <3>2. CASE FromOpencl(m, D[i])
      BY <1>5, <3>2
    <3> QED
      BY <1>1, <3>1, <3>2
  <2>2. D[i].amd \in BOOLEAN
    BY <1>1 DEF Infos
  <2> HIDE DEF card_at
  <2> QED
    BY <2>1, <2>2, AddressLeads
<1>7. ASSUME NEW i \in 1 .. n, NEW j \in 1 .. n, FromCuda(m, D[i]), ~FromCuda(m, D[j])
      PROVE  card_at(i) # card_at(j)
  <2>1. mode # "cuda" /\ FromOpencl(m, D[j]) /\ (only => D[j].amd)
    BY <1>1, <1>7
  <2>3. ~FromOpencl(m, D[i])
    BY <1>7 DEF FromCuda, FromOpencl
  <2>4. mode # "opencl"
    BY <1>1, <2>3
  <2>5. mode = "auto"
    BY <2>1, <2>4 DEF GpuModes
  <2>6. b(i) + 1 \in 1 .. Len(m.cuda) /\ card_at(i) \notin AmdCards
    BY <1>4, <1>7
  <2>7. m.cuda # <<>>
    <3>1. Len(<<>>) = 0 /\ 1 .. 0 = {}
      OBVIOUS
    <3> QED
      BY <2>6, <3>1
  <2>8. D[j].amd /\ D[j].amd = (card_at(j) \in AmdCards)
    BY <1>5, <2>1, <2>5, <2>7
  <2> QED
    BY <2>6, <2>8
<1>8. ASSUME NEW i \in 1 .. n, NEW j \in 1 .. n, card_at(i) = card_at(j) PROVE i = j
  <2>1. CASE FromCuda(m, D[i]) /\ FromCuda(m, D[j])
    <3>1. b(i) + 1 = b(j) + 1 /\ b(i) \in Nat /\ b(j) \in Nat /\ D[i].api = D[j].api
      <4>1. /\ b(i) + 1 \in 1 .. Len(m.cuda) /\ b(j) + 1 \in 1 .. Len(m.cuda)
            /\ b(i) \in Nat /\ b(j) \in Nat /\ D[i].api = D[j].api
            /\ card_at(i) = m.cuda[b(i) + 1] /\ card_at(j) = m.cuda[b(j) + 1]
        BY <1>4, <2>1
      <4> HIDE DEF b, card_at
      <4> QED
        BY <1>2, <1>8, <4>1
    <3>2. b(i) = b(j)
      <4> HIDE DEF b
      <4> QED  BY <3>1
    <3> QED
      BY <1>1, <3>1, <3>2
  <2>2. CASE ~FromCuda(m, D[i]) /\ ~FromCuda(m, D[j])
    <3>1. FromOpencl(m, D[i]) /\ FromOpencl(m, D[j])
      BY <1>1, <2>2
    <3>2. b(i) + 1 = b(j) + 1 /\ b(i) \in Nat /\ b(j) \in Nat /\ D[i].api = D[j].api
      <4>1. /\ b(i) + 1 \in 1 .. Len(L) /\ b(j) + 1 \in 1 .. Len(L)
            /\ b(i) \in Nat /\ b(j) \in Nat /\ D[i].api = D[j].api
            /\ card_at(i) = L[b(i) + 1].handle /\ card_at(j) = L[b(j) + 1].handle
        BY <1>5, <3>1
      <4> HIDE DEF b, card_at
      <4> QED
        BY <1>3, <1>8, <4>1
    <3>3. b(i) = b(j)
      <4> HIDE DEF b
      <4> QED  BY <3>2
    <3> QED
      BY <1>1, <3>2, <3>3
  <2> QED
    BY <1>7, <1>8, <2>1, <2>2
<1> DEFINE X == UsableIn(ToSet(FlattenSeq(m.platforms)))
           K == ToSet(m.cuda)
<1>9. UsableCards(m, mode) =
         (IF mode = "opencl" THEN {} ELSE K) \cup
            LET o == IF mode = "cuda" THEN {} ELSE X
            IN IF mode = "auto" /\ (IF mode = "opencl" THEN {} ELSE K) # {} THEN o \cap AmdCards ELSE o
  BY DEF UsableCards, UsableIn
<1>10. K = {} <=> m.cuda = <<>>
  <2>1. m.cuda = <<>> <=> Len(m.cuda) = 0
    BY <1>2
  <2>2. Len(m.cuda) # 0 => 1 \in 1 .. Len(m.cuda)
    BY <1>2
  <2>3. 1 .. 0 = {}
    OBVIOUS
  <2> QED
    BY <1>2, <2>1, <2>2, <2>3
<1> HIDE DEF X, K, card_at, b
<1>11. \A c : c \in UsableCards(m, mode) <=>
          (mode # "opencl" /\ c \in K) \/ (mode # "cuda" /\ c \in X /\ (only => c \in AmdCards))
  BY <1>9, <1>10 DEF GpuModes
<1>12. ASSUME NEW i \in 1 .. n PROVE card_at(i) \in UsableCards(m, mode)
  <2>1. CASE FromCuda(m, D[i])
    <3>1. mode # "opencl"
      <4>1. ~FromOpencl(m, D[i])
        BY <2>1 DEF FromCuda, FromOpencl
      <4> QED
        BY <1>1, <4>1
    <3>2. card_at(i) \in K
      BY <1>2, <1>4, <2>1 DEF K
    <3> QED
      BY <1>11, <3>1, <3>2
  <2>2. CASE ~FromCuda(m, D[i])
    <3>1. mode # "cuda" /\ FromOpencl(m, D[i]) /\ (only => D[i].amd)
      BY <1>1, <2>2
    <3>2. card_at(i) \in X /\ D[i].amd = (card_at(i) \in AmdCards)
      BY <1>3, <1>5, <3>1 DEF X
    <3> QED
      BY <1>11, <3>1, <3>2
  <2> QED
    BY <2>1, <2>2
<1>13. ASSUME NEW c, c \in UsableCards(m, mode) PROVE \E i \in 1 .. n : c = card_at(i)
  <2>1. CASE mode # "opencl" /\ c \in K
    <3>1. PICK k \in 1 .. Len(m.cuda) : c = m.cuda[k]
      BY <1>2, <2>1 DEF K
    <3>2. PICK i \in 1 .. n : D[i].api = "cuda" /\ D[i].backend_index = k - 1
      BY <1>1, <2>1
    <3>3. ~FromOpencl(m, D[i])
      BY <3>2 DEF FromOpencl
    <3>4. card_at(i) = m.cuda[b(i) + 1] /\ b(i) \in Nat
      BY <1>1, <1>4, <3>3
    <3>5. b(i) + 1 = k
      BY <1>2, <3>2 DEF b
    <3> QED
      BY <3>1, <3>4, <3>5
  <2>2. CASE mode # "cuda" /\ c \in X /\ (only => c \in AmdCards)
    <3>1. PICK k \in 1 .. Len(L) : c = L[k].handle
      BY <1>3, <2>2 DEF X
    <3>2. L[k].info.amd = (c \in AmdCards)
      <4>1. PICK e \in Entries : L[k] = Listing(k - 1, e)
        BY EnumerateFacts DEF L
      <4>2. k - 1 \in Nat
        BY <1>3
      <4> QED
        BY <3>1, <4>1, <4>2, ListingType
    <3>3. PICK i \in 1 .. n : D[i].api = "opencl" /\ D[i].backend_index = k - 1
      BY <1>1, <2>2, <3>2
    <3>4. ~FromCuda(m, D[i])
      BY <3>3 DEF FromCuda
    <3>5. card_at(i) = L[b(i) + 1].handle /\ b(i) \in Nat
      BY <1>1, <1>5, <3>4
    <3>6. b(i) + 1 = k
      BY <1>3, <3>3 DEF b
    <3> QED
      BY <3>1, <3>5, <3>6
  <2> QED
    BY <1>11, <1>13, <2>1, <2>2
<1> HIDE DEF only
<1> QED
  BY <1>6, <1>8, <1>12, <1>13 DEF card_at, n, OpensEachOnce

-----------------------------------------------------------------------------
(* The inductive invariants *)

\* What the program was started with.
GivenScenario ==
    \E s \in Scenarios :
        machine = s.machine /\ options = s.options /\ controls = s.controls /\ work = s.work

Values == {"old", "auto", "manual", "set"}

Untouched == \A c \in Cards : hw[c] = Old

EveryCardAcceptable == ListsFit /\ \A d \in Positions : Acceptable(d)

\* Mining or the benchmark, and not both.
OneMode == options.asked \in {{"url"}, {"bench"}}

\* The registers are as they were until every selected card was found
\* acceptable; checks and writes go through the cards in order.
ControlInv ==
    /\ GivenScenario
    /\ N \in Nat
    /\ hw \in [Cards -> [Registers -> Values]]
    /\ card \in Nat \ {0} /\ step \in Nat
    /\ pc \in {"options", "discover"} => stage = "idle"
    /\ pc \in {"discover", "apply", "threads"} => OneMode
    /\ stage # "idle" => OneMode
    /\ stage = "idle" => card = 1 /\ step = 0
    /\ stage \in {"idle", "check"} => Untouched
    /\ stage = "check" => step = 0 /\ \A d \in 1 .. card - 1 : d <= N => Acceptable(d)
    /\ stage \in {"write", "restore"} => EveryCardAcceptable
    /\ stage = "restore" => card <= N
    /\ ~Untouched => EveryCardAcceptable

\* The card's next write is the duty of its manual fan, and a failure leads to
\* the restoration of its policy.
FanPending(c) ==
    /\ stage \in {"write", "restore"}
    /\ card <= N
    /\ c = Handle(card)
    /\ fan_changed = TRUE
    /\ step + 1 \in 1 .. Len(Plan(card))
    /\ Plan(card)[step + 1] = Write("duty", "set")

\* A manual fan without a duty is reported, or its duty is the next write.
FanInv ==
    \A c \in Cards :
        hw[c]["policy"] = "manual" =>
            hw[c]["duty"] = "set" \/ c \in unrestored \/ FanPending(c)

ThreadFields == {"pc", "error", "held", "scans", "hashes", "start", "n", "buf", "todo",
                 "stores", "result"}

\* The driver's objects are all there.
Complete(t, held) == \A k \in DOMAIN Objects(t) : Objects(t)[k] \in held

\* A CPU thread, and any thread at its start or end, has no kernel; a thread
\* holds nothing that is not released, all objects between its construction and
\* its end, and none at its end; in a benchmark a thread that ends without an
\* error has counted hashes.
ThreadInv(t, r) ==
    /\ DOMAIN r = ThreadFields
    /\ r.scans \in Nat /\ r.hashes \in Nat
    /\ IsCpu(t) \/ r.pc \in {"open", "done"} => r.todo = {} /\ r.stores = {}
    /\ r.held \subseteq Released(t)
    /\ r.pc \notin {"open", "done"} => Complete(t, r.held)
    /\ r.pc = "done" => r.held = {}
    /\ "bench" \in options.asked =>
          /\ r.scans > 1 => r.hashes > 0
          /\ r.pc \in {"unwind", "done"} /\ ~r.error => r.hashes > 0

\* Every thread is such a one, and there is one for each selected device.
EndInv ==
    /\ \A t \in DOMAIN th : ThreadInv(t, th[t])
    /\ pc \in {"apply", "threads"} =>
          /\ options.explicit => N = Len(options.devices)
          /\ N + CpuThreads(N) \in Nat \ {0}
    /\ pc \in {"options", "discover", "apply"} => th = <<>>
    /\ pc = "threads" => DOMAIN th = 1 .. N + CpuThreads(N)
    /\ EndIsClean

-----------------------------------------------------------------------------
(* What is asked depends on the selection and the options alone *)

\* The checks of a card.
LEMMA SameChecks ==
    ASSUME UNCHANGED <<selected, controls>>
    PROVE  /\ N' = N /\ Positions' = Positions
           /\ ListsFit' <=> ListsFit
           /\ \A d : Handle(d)' = Handle(d)
           /\ \A d : Acceptable(d)' <=> Acceptable(d)
<1>1. N' = N /\ Positions' = Positions
  BY DEF N, Positions
<1>2. ListsFit' <=> ListsFit
  BY <1>1 DEF ListsFit, Broadcasts
<1>3. \A d : Handle(d)' = Handle(d)
  BY DEF Handle, CardAt
<1>4. ASSUME NEW d PROVE Acceptable(d)' <=> Acceptable(d)
  <2>1. Handle(d)' = Handle(d)
    BY <1>3
  <2>2. ASSUME NEW s PROVE Value(s, d)' = Value(s, d) /\ (Asked(s)' <=> Asked(s))
    BY DEF Value, Asked
  <2>3. Amd' = Amd
    BY <1>1 DEF Amd
  <2>4. MixedClocks(d)' <=> MixedClocks(d)
    BY <2>2 DEF MixedClocks, Resets, Wants
  <2> QED
    BY <2>1, <2>2, <2>3, <2>4 DEF Acceptable
<1> QED
  BY <1>1, <1>2, <1>3, <1>4

\* The writes of a card.
LEMMA SamePlan ==
    ASSUME UNCHANGED <<selected, controls>>
    PROVE  \A d : Plan(d)' = Plan(d) /\ (Wants("fan", d)' <=> Wants("fan", d)) /\ Amd' = Amd
<1>1. ASSUME NEW s, NEW d PROVE Value(s, d)' = Value(s, d) /\ (Asked(s)' <=> Asked(s))
  BY DEF Value, Asked
<1>2. Amd' = Amd
  BY DEF Amd, Positions, N
<1>3. ASSUME NEW s, NEW d
      PROVE  /\ Single(s, d)' = Single(s, d)
             /\ Wants(s, d)' <=> Wants(s, d)
             /\ Resets(s, d)' <=> Resets(s, d)
  BY <1>1 DEF Single, Wants, Resets, NewValue, Write
<1>4. ASSUME NEW d PROVE NvidiaPlan(d)' = NvidiaPlan(d)
  <2>1. NvidiaFans(d)' = NvidiaFans(d)
    BY <1>1 DEF NvidiaFans, NewValue, Write, FanReg
  <2> QED
    BY <1>3, <2>1 DEF NvidiaPlan
<1>5. ASSUME NEW d PROVE AmdPlan(d)' = AmdPlan(d)
  <2>1. AmdClocks(d)' = AmdClocks(d)
    BY <1>1, <1>3 DEF AmdClocks, Write
  <2>2. AmdFan(d)' = AmdFan(d)
    BY <1>1, <1>3 DEF AmdFan, Write
  <2> QED
    BY <1>3, <2>1, <2>2 DEF AmdPlan
<1> QED
  BY <1>2, <1>3, <1>4, <1>5 DEF Plan

-----------------------------------------------------------------------------
(* Registers are written after every check *)

\* What the scenarios have in common.
LEMMA ScenarioFacts ==
    ASSUME GivenScenario
    PROVE  /\ options.asked \subseteq {"bench", "demo", "list", "url"}
           /\ options.devices \in Seq(Nat) /\ IsInjective(options.devices)
           /\ options.cpu_threads \in Nat
           /\ IsMachine(machine) /\ IsWork(work)
           /\ Len(gpu_devices(machine, options.gpu_mode)) \in Nat
           /\ options.batch \in 1 .. Space /\ options.cpu_batch \in 1 .. Space
           /\ options.batch \in Nat \ {0} /\ options.cpu_batch \in Nat \ {0}
           /\ controls \in [Settings -> Seq(Nat)]
           /\ "bench" \in options.asked => work.difficulty[1] > 0
<1>1. PICK s \in Scenarios : machine = s.machine /\ options = s.options /\ controls = s.controls
                             /\ work = s.work
  BY DEF GivenScenario
<1>2. Space \in Nat
  BY BackendsAssumption
<1>3. /\ s.options.asked \subseteq {"bench", "demo", "list", "url"}
      /\ s.options.devices \in Seq(Nat) /\ IsInjective(s.options.devices)
      /\ s.options.cpu_threads \in Nat
      /\ IsMachine(s.machine) /\ IsWork(s.work)
      /\ s.options.batch \in 1 .. Space /\ s.options.cpu_batch \in 1 .. Space
      /\ s.controls \in [Settings -> Seq(Nat)]
      /\ "bench" \in s.options.asked => s.work.difficulty[1] > 0
  BY StartupAssumption
<1>4. /\ options.asked \subseteq {"bench", "demo", "list", "url"}
      /\ options.devices \in Seq(Nat) /\ IsInjective(options.devices)
      /\ options.cpu_threads \in Nat
      /\ IsMachine(machine) /\ IsWork(work)
      /\ options.batch \in 1 .. Space /\ options.cpu_batch \in 1 .. Space
      /\ controls \in [Settings -> Seq(Nat)]
      /\ "bench" \in options.asked => work.difficulty[1] > 0
  BY <1>1, <1>3, Zenon
<1>5. Len(gpu_devices(machine, options.gpu_mode)) \in Nat
  <2> DEFINE D == gpu_devices(machine, options.gpu_mode)
  <2>1. IsMerged(machine, options.gpu_mode, D)
    BY <1>4, MergedFacts
  <2>2. D \in Seq(Infos)
    BY <2>1 DEF IsMerged
  <2> HIDE DEF D
  <2>3. Len(D) \in Nat
    BY <2>2
  <2> QED
    BY <2>3 DEF D
<1>6. options.batch \in Nat \ {0} /\ options.cpu_batch \in Nat \ {0}
  BY <1>2, <1>4
<1> QED
  BY <1>4, <1>5, <1>6, Zenon

\* The selection is a list, as long as what was asked for.
LEMMA ChosenIsList ==
    ASSUME GivenScenario
    PROVE  /\ Len(Chosen) = ChosenCount /\ ChosenCount \in Nat
           /\ options.explicit => ChosenCount = Len(options.devices)
<1>1. options.devices \in Seq(Nat) /\ Len(gpu_devices(machine, options.gpu_mode)) \in Nat
  BY ScenarioFacts
<1>2. CASE options.explicit
  <2> DEFINE n == Len(options.devices)
             f(k) == CHOOSE d \in ToSet(Available) : d.index = options.devices[k]
  <2>1. n \in Nat /\ DOMAIN options.devices = 1 .. n
    BY <1>1
  <2>2. Chosen = [k \in 1 .. n |-> f(k)]
    BY <1>2, <2>1 DEF Chosen
  <2> HIDE DEF n, f
  <2>3. Len([k \in 1 .. n |-> f(k)]) = n
    BY <2>1
  <2> QED
    BY <1>2, <2>1, <2>2, <2>3 DEF ChosenCount, n
<1>3. CASE ~options.explicit
  <2>1. Len(Available) \in Nat
    <3>1. Len(<<>>) \in Nat
      OBVIOUS
    <3> QED
      BY <1>1, <3>1, Zenon DEF Available
  <2> QED
    BY <1>3, <2>1 DEF Chosen, ChosenCount
<1> QED
  BY <1>2, <1>3

\* Nothing but the place in the program changes.
LEMMA ControlSame ==
    ASSUME ControlInv,
           UNCHANGED <<selected, controls, applyVars, machine, options, work>>,
           pc' \in {"options", "discover"} => stage = "idle",
           pc' \in {"discover", "apply", "threads"} => OneMode
    PROVE  ControlInv'
<1>1. UNCHANGED <<selected, controls, hw, stage, card, step, machine, options, work>>
  BY DEF applyVars
<1>2. /\ N' = N /\ Positions' = Positions /\ (ListsFit' <=> ListsFit)
      /\ \A d : Acceptable(d)' <=> Acceptable(d)
  BY <1>1, SameChecks
<1>3. /\ Untouched' <=> Untouched
      /\ OneMode' <=> OneMode
      /\ GivenScenario' <=> GivenScenario
  BY <1>1 DEF Untouched, OneMode, GivenScenario
<1>4. EveryCardAcceptable' <=> EveryCardAcceptable
  BY <1>2 DEF EveryCardAcceptable
<1> QED
  BY <1>1, <1>2, <1>3, <1>4 DEF ControlInv

\* A step of a device thread changes nothing but the threads.
LEMMA ThreadsKeep ==
    ASSUME NEW t \in DOMAIN th, Thread(t) \/ Finish(t)
    PROVE  /\ UNCHANGED <<selected, controls, applyVars, machine, options, work>>
           /\ pc = "threads" /\ pc' = pc /\ exit' = exit
<1>1. ASSUME NEW r, Become(t, r)
      PROVE  UNCHANGED <<selected, controls, applyVars, machine, options, work>>
  BY <1>1 DEF Become, Kept
<1>2. pc = "threads" /\ pc' = pc /\ exit' = exit
  BY DEF Thread, Finish
<1>3. CASE Finish(t)
  <2>1. Become(t, [th[t] EXCEPT !.pc = "unwind"])
    BY <1>3, ZenonT(40) DEF Finish
  <2> QED
    BY <1>1, <1>2, <2>1, Zenon
<1>4. CASE BackendStep(t)
  BY <1>1, <1>2, <1>4 DEF BackendStep, ConstructionFails, Acquire, Constructed, Destruct, Launch,
                    CpuScan, TakeSlot, Store, Collect, ScanThrows, CpuScanThrows, Scanned
<1> QED
  BY <1>3, <1>4 DEF Thread

\* main() before the devices are looked up.
LEMMA ControlMain ==
    ASSUME ControlInv,
           \/ RefuseOptions \/ Demo \/ ListDevices \/ Discover \/ DiscoveryFails
           \/ ApplyThrows \/ SetupThrows \/ StartThreads \/ Join
           \/ \E t \in DOMAIN th : Thread(t) \/ Finish(t)
    PROVE  ControlInv'
<1>1. CASE RefuseOptions \/ Demo \/ ListDevices \/ DiscoveryFails
           \/ ApplyThrows \/ SetupThrows \/ Join
  <2>1. /\ UNCHANGED <<selected, controls, applyVars, machine, options, work>>
        /\ pc' = "exit"
    BY <1>1 DEF RefuseOptions, Demo, ListDevices, DiscoveryFails, ApplyThrows, SetupThrows,
                Join, Return, given
  <2> QED
    BY <2>1, ControlSame
<1>2. CASE Discover
  <2>1. UNCHANGED <<selected, controls, applyVars, machine, options, work>>
    BY <1>2 DEF Discover, given
  <2>2. pc = "options" /\ pc' = "discover" /\ stage = "idle"
    BY <1>2 DEF Discover, ControlInv
  <2>3. OneMode
    <3>1. options.asked \subseteq {"bench", "demo", "list", "url"}
      BY ScenarioFacts DEF ControlInv
    <3>2. /\ options.asked # {}
          /\ "demo" \notin options.asked /\ "list" \notin options.asked
          /\ ~("bench" \in options.asked /\ "url" \in options.asked)
      BY <1>2 DEF Discover, Inspects, OptionsRefused
    <3> QED
      BY <3>1, <3>2 DEF OneMode
  <2> QED
    BY <2>1, <2>2, <2>3, ControlSame
<1>3. CASE StartThreads
  <2>1. UNCHANGED <<selected, controls, applyVars, machine, options, work>>
    BY <1>3 DEF StartThreads, given
  <2>2. pc = "apply" /\ pc' = "threads"
    BY <1>3 DEF StartThreads
  <2> QED
    BY <2>1, <2>2, ControlSame DEF ControlInv
<1>4. CASE \E t \in DOMAIN th : Thread(t) \/ Finish(t)
  <2>1. /\ UNCHANGED <<selected, controls, applyVars, machine, options, work>>
        /\ pc = "threads" /\ pc' = pc
    BY <1>4, ThreadsKeep
  <2> QED
    BY <2>1, ControlSame DEF ControlInv
<1> QED
  BY <1>1, <1>2, <1>3, <1>4

\* The cards are looked up while no register was touched.
LEMMA ControlSelect ==
    ASSUME ControlInv, Select
    PROVE  ControlInv'
<1>1. /\ pc = "discover" /\ pc' = "apply" /\ stage' = "check" /\ selected' = Chosen
      /\ UNCHANGED <<controls, machine, options, work, hw, card, step>>
  BY DEF Select, given
<1>2. stage = "idle" /\ OneMode /\ GivenScenario /\ card = 1 /\ step = 0 /\ Untouched
  BY <1>1 DEF ControlInv
<1>3. N' \in Nat
  BY <1>1, <1>2, ChosenIsList DEF N
<1>4. Untouched' /\ OneMode' /\ GivenScenario'
  BY <1>1, <1>2 DEF Untouched, OneMode, GivenScenario
<1>5. 1 .. card' - 1 = {}
  BY <1>1, <1>2
<1>6. stage' = "check" /\ step' = 0 /\ card' = 1 /\ pc' = "apply"
  BY <1>1, <1>2
<1> QED
  BY <1>1, <1>3, <1>4, <1>5, <1>6 DEF ControlInv

-----------------------------------------------------------------------------
(* The plans *)

Writes == [reg : Registers, value : Values]

\* No fan policy and no duty among the writes.
NoFan(s) == \A i \in 1 .. Len(s) : s[i].reg \notin {"policy", "duty"}

\* A pair of a register and a value is a write.
LEMMA WriteType ==
    ASSUME NEW r \in Registers, NEW v \in Values
    PROVE  Write(r, v) \in Writes /\ Write(r, v).reg = r /\ Write(r, v).value = v
BY DEF Write, Writes

\* Joining two lists of writes.
LEMMA JoinWrites ==
    ASSUME NEW s \in Seq(Writes), NEW t \in Seq(Writes)
    PROVE  /\ s \o t \in Seq(Writes)
           /\ Len(s) \in Nat /\ Len(t) \in Nat
           /\ Len(s \o t) = Len(s) + Len(t)
           /\ \A i \in 1 .. Len(s) : (s \o t)[i] = s[i]
           /\ \A i \in 1 .. Len(t) : (s \o t)[Len(s) + i] = t[i]
<1> DEFINE W == Writes
<1>1. s \in Seq(W) /\ t \in Seq(W)
  OBVIOUS
<1> HIDE DEF W
<1>2. /\ s \o t \in Seq(W)
      /\ Len(s) \in Nat /\ Len(t) \in Nat
      /\ Len(s \o t) = Len(s) + Len(t)
      /\ \A i \in 1 .. Len(s) : (s \o t)[i] = s[i]
      /\ \A i \in 1 .. Len(t) : (s \o t)[Len(s) + i] = t[i]
  BY <1>1
<1> QED
  BY <1>2 DEF W

\* An index of a joined list is one of the first or of the second.
LEMMA JoinIndex ==
    ASSUME NEW s \in Seq(Writes), NEW t \in Seq(Writes), NEW i \in 1 .. Len(s \o t)
    PROVE  \/ i \in 1 .. Len(s) /\ (s \o t)[i] = s[i]
           \/ \E j \in 1 .. Len(t) : i = Len(s) + j /\ (s \o t)[i] = t[j]
<1>1. /\ Len(s) \in Nat /\ Len(t) \in Nat
      /\ Len(s \o t) = Len(s) + Len(t)
      /\ \A k \in 1 .. Len(s) : (s \o t)[k] = s[k]
      /\ \A k \in 1 .. Len(t) : (s \o t)[Len(s) + k] = t[k]
  BY JoinWrites
<1>2. CASE i <= Len(s)
  <2>1. i \in 1 .. Len(s)
    BY <1>1, <1>2
  <2> QED
    BY <1>1, <2>1
<1>3. CASE i > Len(s)
  <2>1. PICK j \in 1 .. Len(t) : i = Len(s) + j
    <3>1. i - Len(s) \in 1 .. Len(t) /\ i = Len(s) + (i - Len(s))
      BY <1>1, <1>3
    <3> QED
      BY <3>1
  <2> QED
    BY <1>1, <2>1
<1> QED
  BY <1>1, <1>2, <1>3

\* Lists without fan writes, joined.
LEMMA JoinNoFan ==
    ASSUME NEW s \in Seq(Writes), NEW t \in Seq(Writes), NoFan(s), NoFan(t)
    PROVE  s \o t \in Seq(Writes) /\ NoFan(s \o t)
<1>1. s \o t \in Seq(Writes)
  BY JoinWrites
<1>2. ASSUME NEW i \in 1 .. Len(s \o t) PROVE (s \o t)[i].reg \notin {"policy", "duty"}
  <2>1. \/ i \in 1 .. Len(s) /\ (s \o t)[i] = s[i]
        \/ \E j \in 1 .. Len(t) : i = Len(s) + j /\ (s \o t)[i] = t[j]
    BY JoinIndex
  <2> QED
    BY <2>1 DEF NoFan
<1> QED
  BY <1>1, <1>2 DEF NoFan

\* A list of one write, or none.
LEMMA OneWrite ==
    ASSUME NEW r \in Registers, NEW v \in Values, r \notin {"policy", "duty"}
    PROVE  /\ <<Write(r, v)>> \in Seq(Writes) /\ NoFan(<<Write(r, v)>>)
           /\ <<>> \in Seq(Writes) /\ NoFan(<<>>)
<1> DEFINE w == Write(r, v)
<1>1. w \in Writes /\ w.reg = r
  BY WriteType
<1> HIDE DEF w
<1>2. <<w>> \in Seq(Writes) /\ Len(<<w>>) = 1 /\ <<w>>[1] = w
  BY <1>1
<1>3. NoFan(<<w>>)
  BY <1>1, <1>2 DEF NoFan
<1>4. <<>> \in Seq(Writes) /\ NoFan(<<>>)
  BY DEF NoFan
<1> QED
  BY <1>2, <1>3, <1>4 DEF w

\* The write of a single setting.
LEMMA SingleWrites ==
    ASSUME NEW s \in {"power", "core", "memory"}, NEW d
    PROVE  Single(s, d) \in Seq(Writes) /\ NoFan(Single(s, d))
<1>1. NewValue(s, d) \in Values
  BY DEF NewValue, Values
<1>2. s \in Registers /\ s \notin {"policy", "duty"}
  BY DEF Registers
<1> QED
  BY <1>1, <1>2, OneWrite DEF Single

\* What a plan says about the fan: the manual policy is followed by the duty,
\* and only on a card whose old policy was recorded.
FanPair(d) ==
    /\ Plan(d) \in Seq(Writes)
    /\ \A i \in 1 .. Len(Plan(d)) :
          /\ Plan(d)[i].reg = "duty" => Plan(d)[i].value = "set"
          /\ Plan(d)[i].reg = "policy" /\ Plan(d)[i].value = "manual" =>
                /\ d \in Amd /\ Wants("fan", d)
                /\ i + 1 \in 1 .. Len(Plan(d))
                /\ Plan(d)[i + 1] = Write("duty", "set")

\* NVIDIA's plans have no policy.
LEMMA NvidiaWrites ==
    ASSUME NEW d
    PROVE  NvidiaPlan(d) \in Seq(Writes) /\ NoFan(NvidiaPlan(d))
<1>1. NvidiaFans(d) \in Seq(Writes) /\ NoFan(NvidiaFans(d))
  <2>1. CASE ~Asked("fan")
    BY <2>1 DEF NvidiaFans, NoFan
  <2>2. CASE Asked("fan")
    <3>1. FanCount \in 1 .. 2
      BY GpuAssumption
    <3> DEFINE v == NewValue("fan", d)
               L == [f \in 1 .. FanCount |-> Write(FanReg(f), v)]
    <3>2. v \in Values
      BY DEF NewValue, Values
    <3>3. NvidiaFans(d) = L
      BY <2>2 DEF NvidiaFans
    <3> HIDE DEF v
    <3>4. ASSUME NEW f \in 1 .. FanCount
          PROVE  Write(FanReg(f), v) \in Writes
                   /\ Write(FanReg(f), v).reg \notin {"policy", "duty"}
      <4>1. f \in 1 .. 2
        BY <3>1
      <4>2. FanReg(f) \in {"fan1", "fan2"}
        BY <4>1 DEF FanReg
      <4>3. FanReg(f) \in Registers
        BY <4>2 DEF Registers
      <4>4. Write(FanReg(f), v) \in Writes /\ Write(FanReg(f), v).reg = FanReg(f)
        BY <3>2, <4>3, WriteType
      <4> QED
        BY <4>2, <4>4
    <3> DEFINE w(f) == Write(FanReg(f), v)
    <3>5. L = [f \in 1 .. FanCount |-> w(f)]
      OBVIOUS
    <3>6. \A f \in 1 .. FanCount : w(f) \in Writes /\ w(f).reg \notin {"policy", "duty"}
      BY <3>4
    <3> HIDE DEF w, L
    <3>7. L \in Seq(Writes) /\ Len(L) = FanCount
      BY <3>1, <3>5, <3>6
    <3>8. \A i \in 1 .. FanCount : L[i] = w(i)
      BY <3>5
    <3>9. NoFan(L)
      BY <3>6, <3>7, <3>8 DEF NoFan
    <3> QED
      BY <3>3, <3>7, <3>9
  <2> QED
    BY <2>1, <2>2
<1> DEFINE P == Single("power", d)
           C == Single("core", d)
           M == Single("memory", d)
           F == NvidiaFans(d)
<1>2. /\ P \in Seq(Writes) /\ NoFan(P) /\ C \in Seq(Writes) /\ NoFan(C)
      /\ M \in Seq(Writes) /\ NoFan(M) /\ F \in Seq(Writes) /\ NoFan(F)
  BY <1>1, SingleWrites
<1>3. NvidiaPlan(d) = ((P \o C) \o M) \o F
  BY DEF NvidiaPlan
<1> HIDE DEF P, C, M, F
<1>4. P \o C \in Seq(Writes) /\ NoFan(P \o C)
  BY <1>2, JoinNoFan
<1>5. (P \o C) \o M \in Seq(Writes) /\ NoFan((P \o C) \o M)
  BY <1>2, <1>4, JoinNoFan
<1>6. ((P \o C) \o M) \o F \in Seq(Writes) /\ NoFan(((P \o C) \o M) \o F)
  BY <1>2, <1>5, JoinNoFan
<1> QED
  BY <1>3, <1>6

\* AMD's clocks do not touch the fan.
LEMMA AmdClockWrites ==
    ASSUME NEW d
    PROVE  AmdClocks(d) \in Seq(Writes) /\ NoFan(AmdClocks(d))
<1>1. /\ "level" \in Registers /\ "level" \notin {"policy", "duty"}
      /\ "auto" \in Values /\ "manual" \in Values
  BY DEF Registers, Values
<1> DEFINE L == <<Write("level", "manual")>>
           C == Single("core", d)
           M == Single("memory", d)
<1>2. /\ <<Write("level", "auto")>> \in Seq(Writes) /\ NoFan(<<Write("level", "auto")>>)
      /\ L \in Seq(Writes) /\ NoFan(L)
      /\ <<>> \in Seq(Writes) /\ NoFan(<<>>)
  BY <1>1, OneWrite
<1>3. C \in Seq(Writes) /\ NoFan(C) /\ M \in Seq(Writes) /\ NoFan(M)
  BY SingleWrites
<1>4. \/ AmdClocks(d) = <<Write("level", "auto")>>
      \/ AmdClocks(d) = (L \o C) \o M
      \/ AmdClocks(d) = <<>>
  BY DEF AmdClocks
<1> HIDE DEF L, C, M
<1>5. L \o C \in Seq(Writes) /\ NoFan(L \o C)
  BY <1>2, <1>3, JoinNoFan
<1>6. (L \o C) \o M \in Seq(Writes) /\ NoFan((L \o C) \o M)
  BY <1>3, <1>5, JoinNoFan
<1> QED
  BY <1>2, <1>4, <1>6

\* The fan's part of an AMD plan.
LEMMA AmdFanWrites ==
    ASSUME NEW d
    PROVE  /\ AmdFan(d) \in Seq(Writes)
           /\ \A j \in 1 .. Len(AmdFan(d)) :
                 /\ AmdFan(d)[j].reg = "duty" => AmdFan(d)[j].value = "set"
                 /\ AmdFan(d)[j].reg = "policy" /\ AmdFan(d)[j].value = "manual" =>
                       /\ Wants("fan", d)
                       /\ j + 1 \in 1 .. Len(AmdFan(d))
                       /\ AmdFan(d)[j + 1] = Write("duty", "set")
<1> DEFINE p == Write("policy", "manual")
           u == Write("duty", "set")
           a == Write("policy", "auto")
<1>1. /\ p \in Writes /\ p.reg = "policy"
      /\ u \in Writes /\ u.reg = "duty" /\ u.value = "set"
      /\ a \in Writes /\ a.reg = "policy" /\ a.value = "auto"
  <2>1. {"policy", "duty"} \subseteq Registers /\ {"manual", "set", "auto"} \subseteq Values
    BY DEF Registers, Values
  <2> QED
    BY <2>1, WriteType
<1>2. CASE Wants("fan", d)
  <2>1. AmdFan(d) = <<p, u>>
    BY <1>2 DEF AmdFan
  <2> HIDE DEF p, a
  <2>2. /\ <<p, u>> \in Seq(Writes) /\ Len(<<p, u>>) = 2
        /\ <<p, u>>[1] = p /\ <<p, u>>[2] = u
    <3> HIDE DEF u
    <3> QED
      BY <1>1
  <2>3. ASSUME NEW j \in 1 .. 2
        PROVE  /\ <<p, u>>[j].reg = "duty" => <<p, u>>[j].value = "set"
               /\ <<p, u>>[j].reg = "policy" => j + 1 \in 1 .. 2 /\ <<p, u>>[j + 1] = u
    <3> HIDE DEF u
    <3>1. CASE j = 1
      BY <1>1, <2>2, <3>1
    <3>2. CASE j = 2
      BY <1>1, <2>2, <3>2
    <3> QED
      BY <3>1, <3>2
  <2> QED
    BY <1>2, <2>1, <2>2, <2>3
<1>3. CASE ~Wants("fan", d) /\ Asked("fan")
  <2>1. AmdFan(d) = <<a>>
    BY <1>3 DEF AmdFan
  <2> HIDE DEF p, a, u
  <2>2. <<a>> \in Seq(Writes) /\ Len(<<a>>) = 1 /\ <<a>>[1] = a
    BY <1>1
  <2> QED
    BY <1>1, <2>1, <2>2
<1>4. CASE ~Wants("fan", d) /\ ~Asked("fan")
  BY <1>4 DEF AmdFan
<1> QED
  BY <1>2, <1>3, <1>4

\* Every plan sets a duty right behind a manual policy.
LEMMA EveryPlan ==
    ASSUME NEW d
    PROVE  FanPair(d)
<1>1. CASE d \notin Amd
  <2>1. Plan(d) = NvidiaPlan(d)
    BY <1>1 DEF Plan
  <2> QED
    BY <2>1, NvidiaWrites DEF FanPair, NoFan
<1>2. CASE d \in Amd
  <2> DEFINE P == Single("power", d)
             C == AmdClocks(d)
             A == P \o C
             B == AmdFan(d)
  <2>1. P \in Seq(Writes) /\ NoFan(P) /\ C \in Seq(Writes) /\ NoFan(C)
    BY SingleWrites, AmdClockWrites
  <2>2. Plan(d) = A \o B
    BY <1>2 DEF Plan, AmdPlan
  <2> HIDE DEF P, C
  <2>3. A \in Seq(Writes) /\ NoFan(A)
    BY <2>1, JoinNoFan
  <2>4. /\ B \in Seq(Writes)
        /\ \A j \in 1 .. Len(B) :
              /\ B[j].reg = "duty" => B[j].value = "set"
              /\ B[j].reg = "policy" /\ B[j].value = "manual" =>
                    Wants("fan", d) /\ j + 1 \in 1 .. Len(B) /\ B[j + 1] = Write("duty", "set")
    BY AmdFanWrites
  <2> HIDE DEF A, B
  <2>5. /\ A \o B \in Seq(Writes) /\ Len(A) \in Nat /\ Len(B) \in Nat
        /\ Len(A \o B) = Len(A) + Len(B)
        /\ \A k \in 1 .. Len(B) : (A \o B)[Len(A) + k] = B[k]
    BY <2>3, <2>4, JoinWrites
  <2>6. ASSUME NEW i \in 1 .. Len(A \o B)
        PROVE  /\ (A \o B)[i].reg = "duty" => (A \o B)[i].value = "set"
               /\ (A \o B)[i].reg = "policy" /\ (A \o B)[i].value = "manual" =>
                     /\ Wants("fan", d)
                     /\ i + 1 \in 1 .. Len(A \o B)
                     /\ (A \o B)[i + 1] = Write("duty", "set")
    <3>1. \/ i \in 1 .. Len(A) /\ (A \o B)[i] = A[i]
          \/ \E j \in 1 .. Len(B) : i = Len(A) + j /\ (A \o B)[i] = B[j]
      BY <2>3, <2>4, JoinIndex
    <3>2. CASE i \in 1 .. Len(A) /\ (A \o B)[i] = A[i]
      BY <2>3, <3>2 DEF NoFan
    <3>3. CASE \E j \in 1 .. Len(B) : i = Len(A) + j /\ (A \o B)[i] = B[j]
      <4>1. PICK j \in 1 .. Len(B) : i = Len(A) + j /\ (A \o B)[i] = B[j]
        BY <3>3
      <4>2. CASE B[j].reg = "policy" /\ B[j].value = "manual"
        <5>1. Wants("fan", d) /\ j + 1 \in 1 .. Len(B) /\ B[j + 1] = Write("duty", "set")
          BY <2>4, <4>2
        <5>2. i + 1 = Len(A) + (j + 1) /\ i + 1 \in 1 .. Len(A \o B)
          BY <2>5, <4>1, <5>1
        <5>3. (A \o B)[Len(A) + (j + 1)] = B[j + 1]
          BY <2>5, <5>1
        <5> QED
          BY <4>1, <4>2, <5>1, <5>2, <5>3
      <4>3. CASE ~(B[j].reg = "policy" /\ B[j].value = "manual")
        BY <2>4, <4>1, <4>3
      <4> QED
        BY <4>2, <4>3
    <3> QED
      BY <3>1, <3>2, <3>3
  <2> QED
    BY <1>2, <2>2, <2>5, <2>6 DEF FanPair
<1> QED
  BY <1>1, <1>2

\* A checked card's address leads to a card.
LEMMA HandleIsCard ==
    ASSUME EveryCardAcceptable, NEW d \in Positions
    PROVE  Handle(d) \in Cards
<1>1. Handle(d) # NoCard
  BY DEF EveryCardAcceptable, Acceptable
<1> DEFINE at == {c \in Cards : Address[c] = selected[d].pci /\ (c \in AmdCards) = selected[d].amd}
<1>2. Handle(d) = IF at = {} THEN NoCard ELSE CHOOSE c \in at : TRUE
  BY DEF Handle, CardAt
<1>3. at # {} => (CHOOSE c \in at : TRUE) \in at
  OBVIOUS
<1> QED
  BY <1>1, <1>2, <1>3

-----------------------------------------------------------------------------
(* The steps of apply() *)

\* One register of one card changes.
LEMMA OneRegister ==
    ASSUME hw \in [Cards -> [Registers -> Values]],
           NEW H \in Cards, NEW r \in Registers, NEW v \in Values,
           hw' = [hw EXCEPT ![H][r] = v]
    PROVE  /\ hw' \in [Cards -> [Registers -> Values]]
           /\ hw'[H][r] = v
           /\ \A q \in Registers : q # r => hw'[H][q] = hw[H][q]
           /\ \A c \in Cards : c # H => hw'[c] = hw[c]
<1>1. hw[H] \in [Registers -> Values]
  OBVIOUS
<1>2. hw' = [hw EXCEPT ![H] = [hw[H] EXCEPT ![r] = v]]
  OBVIOUS
<1>3. [hw[H] EXCEPT ![r] = v] \in [Registers -> Values]
  BY <1>1
<1> QED
  BY <1>1, <1>2, <1>3

\* A step of apply() that writes nothing.
LEMMA ControlNoWrite ==
    ASSUME ControlInv, OneMode, pc = "apply", stage # "idle", stage' # "idle",
           UNCHANGED <<selected, controls, hw, machine, options, work, pc>>,
           card' \in Nat \ {0}, step' \in Nat,
           stage' = "check" =>
              stage = "check" /\ step' = 0 /\ \A d \in 1 .. card' - 1 : d <= N => Acceptable(d),
           stage' \in {"write", "restore"} => EveryCardAcceptable,
           stage' = "restore" => card' <= N
    PROVE  ControlInv'
<1>1. /\ N' = N /\ Positions' = Positions /\ (ListsFit' <=> ListsFit)
      /\ \A d : Acceptable(d)' <=> Acceptable(d)
  BY SameChecks
<1>2. /\ Untouched' <=> Untouched
      /\ OneMode' <=> OneMode
      /\ GivenScenario' <=> GivenScenario
  BY DEF Untouched, OneMode, GivenScenario
<1>3. EveryCardAcceptable' <=> EveryCardAcceptable
  BY <1>1 DEF EveryCardAcceptable
<1> QED
  BY <1>1, <1>2, <1>3 DEF ControlInv

\* Card by card: apply() writes only when all cards were checked.
LEMMA ControlApply ==
    ASSUME ControlInv, Apply
    PROVE  ControlInv'
<1>1. pc = "apply" /\ UNCHANGED <<machine, options, work, pc>> /\ OneMode /\ apply
  BY DEF Apply, ControlInv
<1>2. UNCHANGED <<selected, controls>>
  BY <1>1 DEF apply, NothingRequested, Refuse, CheckCard, AllChecked, WriteRegister, WriteFails,
              Restore, RestoreFails, CardDone, AllWritten
<1>3. N \in Nat /\ card \in Nat \ {0} /\ step \in Nat /\ hw \in [Cards -> [Registers -> Values]]
  BY DEF ControlInv
<1>4. CASE NothingRequested \/ Refuse \/ AllWritten
  <2>1. stage' \in {"applied", "refused"} /\ stage # "idle" /\ UNCHANGED <<hw, card, step>>
    BY <1>4 DEF NothingRequested, Refuse, AllWritten
  <2> QED
    BY <1>1, <1>2, <1>3, <2>1, ControlNoWrite
<1>5. CASE CheckCard
  <2>1. /\ stage = "check" /\ stage' = "check" /\ card <= N /\ Acceptable(card)
        /\ card' = card + 1 /\ UNCHANGED <<hw, step>>
    BY <1>5 DEF CheckCard
  <2>2. step' = 0 /\ \A d \in 1 .. card - 1 : d <= N => Acceptable(d)
    BY <2>1 DEF ControlInv
  <2>3. \A d \in 1 .. card' - 1 : d <= N => Acceptable(d)
    <3> SUFFICES ASSUME NEW d \in 1 .. card' - 1, d <= N PROVE Acceptable(d)
      OBVIOUS
    <3>1. d = card \/ d \in 1 .. card - 1
      BY <1>3, <2>1
    <3> QED
      BY <2>1, <2>2, <3>1
  <2>4. card' \in Nat \ {0}
    BY <1>3, <2>1
  <2> QED
    BY <1>1, <1>2, <1>3, <2>1, <2>2, <2>3, <2>4, ControlNoWrite
<1>6. CASE AllChecked
  <2>1. /\ stage = "check" /\ stage' = "write" /\ ListsFit /\ card = N + 1
        /\ card' = 1 /\ UNCHANGED <<hw, step>>
    BY <1>6 DEF AllChecked
  <2>2. \A d \in 1 .. card - 1 : d <= N => Acceptable(d)
    BY <2>1 DEF ControlInv
  <2>3. \A d \in 1 .. N : d \in 1 .. card - 1 /\ d <= N
    BY <1>3, <2>1
  <2>4. EveryCardAcceptable
    BY <2>1, <2>2, <2>3 DEF EveryCardAcceptable, Positions
  <2> QED
    BY <1>1, <1>2, <1>3, <2>1, <2>4, ControlNoWrite
<1>7. CASE WriteFails
  <2>1. /\ stage = "write" /\ card <= N /\ stage' \in {"restore", "failed"}
        /\ UNCHANGED <<hw, card, step>>
    BY <1>7 DEF WriteFails, Writing
  <2>2. EveryCardAcceptable
    BY <2>1 DEF ControlInv
  <2> QED
    BY <1>1, <1>2, <1>3, <2>1, <2>2, ControlNoWrite
<1>8. CASE RestoreFails
  <2>1. stage = "restore" /\ stage' = "failed" /\ UNCHANGED <<hw, card, step>>
    BY <1>8 DEF RestoreFails
  <2> QED
    BY <1>1, <1>2, <1>3, <2>1, ControlNoWrite
<1>9. CASE CardDone
  <2>1. stage = "write" /\ stage' = "write" /\ card' = card + 1 /\ step' = 0 /\ hw' = hw
    BY <1>9 DEF CardDone
  <2>2. EveryCardAcceptable
    BY <2>1 DEF ControlInv
  <2>3. card' \in Nat \ {0} /\ step' \in Nat
    BY <1>3, <2>1
  <2> QED
    BY <1>1, <1>2, <2>1, <2>2, <2>3, ControlNoWrite
<1>10. CASE WriteRegister \/ Restore
  <2>1. stage \in {"write", "restore"} /\ card <= N /\ card' = card /\ step' \in Nat
    BY <1>3, <1>10 DEF WriteRegister, Writing, Restore, ControlInv
  <2>2. EveryCardAcceptable
    BY <2>1 DEF ControlInv
  <2>3. card \in Positions
    BY <1>3, <2>1 DEF Positions
  <2>4. Handle(card) \in Cards
    BY <2>2, <2>3, HandleIsCard
  <2>5. hw' \in [Cards -> [Registers -> Values]]
    <3>1. CASE Restore
      <4>1. "policy" \in Registers /\ "old" \in Values
        BY DEF Registers, Values
      <4>2. hw' = [hw EXCEPT ![Handle(card)]["policy"] = "old"]
        BY <3>1 DEF Restore
      <4> QED
        BY <1>3, <2>4, <4>1, <4>2, OneRegister
    <3>2. CASE WriteRegister
      <4>1. step + 1 \in 1 .. Len(Plan(card)) /\ Plan(card) \in Seq(Writes)
        <5>1. Plan(card) \in Seq(Writes) /\ step < Len(Plan(card))
          BY <3>2, EveryPlan DEF WriteRegister, Writing, FanPair
        <5>2. Len(Plan(card)) \in Nat
          BY <5>1
        <5> QED
          BY <1>3, <5>1, <5>2
      <4>2. NextWrite \in Writes
        BY <4>1 DEF NextWrite
      <4>3. NextWrite.reg \in Registers /\ NextWrite.value \in Values
        BY <4>2 DEF Writes
      <4>4. hw' = [hw EXCEPT ![Handle(card)][NextWrite.reg] = NextWrite.value]
        BY <3>2 DEF WriteRegister
      <4> QED
        BY <1>3, <2>4, <4>3, <4>4, OneRegister
    <3> QED
      BY <1>10, <3>1, <3>2
  <2>6. stage' \in {"write", "failed"}
    BY <1>10 DEF WriteRegister, Writing, Restore
  <2>7. /\ N' = N /\ Positions' = Positions /\ (ListsFit' <=> ListsFit)
        /\ \A d : Acceptable(d)' <=> Acceptable(d)
    BY <1>2, SameChecks
  <2>8. EveryCardAcceptable'
    BY <2>2, <2>7 DEF EveryCardAcceptable
  <2>9. OneMode' /\ GivenScenario'
    BY <1>1, <1>2 DEF OneMode, GivenScenario, ControlInv
  <2> QED
    BY <1>1, <1>3, <2>1, <2>5, <2>6, <2>7, <2>8, <2>9 DEF ControlInv
<1> QED
  BY <1>1, <1>4, <1>5, <1>6, <1>7, <1>8, <1>9, <1>10 DEF apply

\* The invariant of the controls.
THEOREM ControlInvariance == Spec => []ControlInv
<1>1. Init => ControlInv
  <2> SUFFICES ASSUME Init PROVE ControlInv
    OBVIOUS
  <2>1. hw = [c \in Cards |-> Old] /\ stage = "idle" /\ card = 1 /\ step = 0 /\ pc = "options"
    BY DEF Init, ApplyInit
  <2>2. Old \in [Registers -> Values]
    BY DEF Old, Values
  <2>3. hw \in [Cards -> [Registers -> Values]] /\ Untouched
    BY <2>1, <2>2 DEF Untouched
  <2>4. N \in Nat
    BY DEF Init, N
  <2>5. GivenScenario
    BY DEF Init, GivenScenario
  <2> QED
    BY <2>1, <2>3, <2>4, <2>5 DEF ControlInv
<1>2. ControlInv /\ [Next]_vars => ControlInv'
  <2> SUFFICES ASSUME ControlInv, [Next]_vars PROVE ControlInv'
    OBVIOUS
  <2>1. CASE UNCHANGED vars
    <3>1. UNCHANGED <<selected, controls, applyVars, machine, options, work>> /\ pc' = pc
      BY <2>1 DEF vars
    <3> QED
      BY <3>1, ControlSame DEF ControlInv
  <2> QED
    BY <2>1, ControlMain, ControlSelect, ControlApply DEF Next
<1> QED
  BY <1>1, <1>2, PTL DEF Spec

\* "Validate all devices and limits before the first hardware write"
\* (nvml.cpp:132): a register changes only on the way to mining or a
\* benchmark, and only if every selected card accepts what is asked of it.
THEOREM CheckedFirst == Spec => []CheckedBeforeWritten
<1>1. ControlInv => CheckedBeforeWritten
  <2> SUFFICES ASSUME ControlInv, NEW c \in Cards, hw[c] # Old
               PROVE  /\ options.asked \in {{"url"}, {"bench"}}
                      /\ ListsFit
                      /\ \A d \in Positions : Acceptable(d)
    BY DEF CheckedBeforeWritten
  <2>1. ~Untouched
    BY DEF Untouched
  <2>2. stage # "idle"
    BY <2>1 DEF ControlInv
  <2> QED
    BY <2>1, <2>2 DEF ControlInv, OneMode, EveryCardAcceptable
<1> QED
  BY <1>1, ControlInvariance, PTL

-----------------------------------------------------------------------------
(* No fan is left manual *)

\* Steps that leave the registers and apply()'s place alone.
LEMMA FanSame ==
    ASSUME FanInv, UNCHANGED <<selected, controls, applyVars>>
    PROVE  FanInv'
<1>1. UNCHANGED <<hw, stage, card, step, fan_changed, unrestored>>
  BY DEF applyVars
<1>2. /\ N' = N
      /\ \A d : Handle(d)' = Handle(d)
      /\ \A d : Plan(d)' = Plan(d)
  BY SameChecks, SamePlan
<1>3. Handle(card)' = Handle(card) /\ Plan(card)' = Plan(card)
  BY <1>1, <1>2
<1>4. ASSUME NEW c PROVE FanPending(c)' <=> FanPending(c)
  BY <1>1, <1>2, <1>3 DEF FanPending
<1> QED
  BY <1>1, <1>4 DEF FanInv

\* Steps of apply() that write nothing: a fan whose duty is still to come stays
\* so, or is reported.
LEMMA FanNoWrite ==
    ASSUME FanInv, UNCHANGED <<selected, controls, hw>>,
           \A c \in unrestored : c \in unrestored',
           \A c \in Cards : FanPending(c) =>
              \/ c \in unrestored'
              \/ UNCHANGED <<card, step, fan_changed>> /\ stage' \in {"write", "restore"}
    PROVE  FanInv'
<1>1. /\ N' = N
      /\ \A d : Handle(d)' = Handle(d)
      /\ \A d : Plan(d)' = Plan(d)
  BY SameChecks, SamePlan
<1>2. ASSUME NEW c \in Cards, hw'[c]["policy"] = "manual"
      PROVE  hw'[c]["duty"] = "set" \/ c \in unrestored' \/ FanPending(c)'
  <2>1. hw[c]["duty"] = "set" \/ c \in unrestored \/ FanPending(c)
    BY <1>2 DEF FanInv
  <2>2. CASE FanPending(c) /\ c \notin unrestored'
    <3>1. UNCHANGED <<card, step, fan_changed>> /\ stage' \in {"write", "restore"}
      BY <2>2
    <3>2. Handle(card)' = Handle(card) /\ Plan(card)' = Plan(card)
      BY <1>1, <3>1
    <3> QED
      BY <1>1, <2>2, <3>1, <3>2 DEF FanPending
  <2> QED
    BY <2>1, <2>2
<1> QED
  BY <1>2 DEF FanInv

\* The write behind a manual policy is the duty's.
LEMMA FanWrite ==
    ASSUME ControlInv, FanInv, WriteRegister
    PROVE  FanInv'
<1>1. /\ stage = "write" /\ card <= N /\ step < Len(Plan(card))
      /\ UNCHANGED <<selected, controls, stage, card, unrestored>>
      /\ step' = step + 1
      /\ hw' = [hw EXCEPT ![Handle(card)][NextWrite.reg] = NextWrite.value]
  BY DEF WriteRegister, Writing
<1>2. N \in Nat /\ card \in Nat \ {0} /\ step \in Nat /\ hw \in [Cards -> [Registers -> Values]]
  BY DEF ControlInv
<1>3. EveryCardAcceptable
  BY <1>1 DEF ControlInv
<1>4. card \in Positions
  BY <1>1, <1>2 DEF Positions
<1>5. Handle(card) \in Cards
  BY <1>3, <1>4, HandleIsCard
<1>6. FanPair(card)
  BY EveryPlan
<1>7. Len(Plan(card)) \in Nat
  BY <1>6 DEF FanPair
<1>8. step + 1 \in 1 .. Len(Plan(card))
  BY <1>1, <1>2, <1>7
<1>9. NextWrite \in Writes
  BY <1>6, <1>8 DEF NextWrite, FanPair
<1> DEFINE H == Handle(card)
           r == NextWrite.reg
           v == NextWrite.value
<1>10. r \in Registers /\ v \in Values
  BY <1>9 DEF Writes
<1>11. {"policy", "duty"} \subseteq Registers
  BY DEF Registers
<1>12. /\ hw'[H][r] = v
       /\ \A q \in Registers : q # r => hw'[H][q] = hw[H][q]
       /\ \A c \in Cards : c # H => hw'[c] = hw[c]
  <2>1. H \in Cards /\ hw' = [hw EXCEPT ![H][r] = v]
    BY <1>1, <1>5
  <2> HIDE DEF H, r, v
  <2> QED
    BY <1>2, <1>10, <2>1, OneRegister
<1>13. N' = N /\ H' = H /\ Plan(card)' = Plan(card)
  BY <1>1, SameChecks, SamePlan
<1>14. r = "duty" => v = "set"
  BY <1>6, <1>8 DEF FanPair, NextWrite
<1>15. ASSUME NEW c \in Cards, hw'[c]["policy"] = "manual"
       PROVE  hw'[c]["duty"] = "set" \/ c \in unrestored' \/ FanPending(c)'
  <2>1. CASE c # H
    <3>1. ~FanPending(c)
      BY <2>1 DEF FanPending
    <3>2. hw'[c] = hw[c]
      BY <1>12, <2>1
    <3> QED
      BY <1>1, <1>15, <3>1, <3>2 DEF FanInv
  <2>2. CASE c = H /\ r = "policy"
    <3>1. v = "manual"
      BY <1>12, <1>15, <2>2
    <3>2. /\ card \in Amd /\ Wants("fan", card)
          /\ (step + 1) + 1 \in 1 .. Len(Plan(card))
          /\ Plan(card)[(step + 1) + 1] = Write("duty", "set")
      BY <1>6, <1>8, <2>2, <3>1 DEF FanPair, NextWrite
    <3>3. fan_changed' = TRUE
      BY <2>2, <3>2 DEF WriteRegister, Restorable
    <3> QED
      BY <1>1, <1>13, <2>2, <3>2, <3>3 DEF FanPending
  <2>3. CASE c = H /\ r = "duty"
    BY <1>12, <1>14, <2>3
  <2>4. CASE c = H /\ r \notin {"policy", "duty"}
    <3>1. hw'[c]["policy"] = hw[c]["policy"] /\ hw'[c]["duty"] = hw[c]["duty"]
      BY <1>11, <1>12, <2>4
    <3>2. ~FanPending(c)
      <4>1. Write("duty", "set").reg = "duty"
        BY DEF Write
      <4> QED
        BY <2>4, <4>1 DEF FanPending, NextWrite
    <3> QED
      BY <1>1, <1>15, <3>1, <3>2 DEF FanInv
  <2> QED
    BY <2>1, <2>2, <2>3, <2>4
<1> QED
  BY <1>15 DEF FanInv

\* A restored policy is the driver's again.
LEMMA FanRestored ==
    ASSUME ControlInv, FanInv, Restore
    PROVE  FanInv'
<1>1. /\ stage = "restore" /\ unrestored' = unrestored
      /\ hw' = [hw EXCEPT ![Handle(card)]["policy"] = "old"]
  BY DEF Restore
<1>2. /\ N \in Nat /\ card \in Nat \ {0} /\ hw \in [Cards -> [Registers -> Values]]
      /\ EveryCardAcceptable /\ card <= N
  BY <1>1 DEF ControlInv
<1>3. card \in Positions
  BY <1>2 DEF Positions
<1> DEFINE H == Handle(card)
<1>4. H \in Cards
  BY <1>2, <1>3, HandleIsCard
<1>5. "policy" \in Registers /\ "old" \in Values
  BY DEF Registers, Values
<1>6. hw'[H]["policy"] = "old" /\ \A c \in Cards : c # H => hw'[c] = hw[c]
  <2>1. hw' = [hw EXCEPT ![H]["policy"] = "old"]
    BY <1>1
  <2> HIDE DEF H
  <2> QED
    BY <1>2, <1>4, <1>5, <2>1, OneRegister
<1>7. ASSUME NEW c \in Cards, hw'[c]["policy"] = "manual"
      PROVE  hw'[c]["duty"] = "set" \/ c \in unrestored'
  <2>1. c # H
    BY <1>6, <1>7
  <2>2. hw'[c] = hw[c] /\ ~FanPending(c)
    BY <1>6, <2>1 DEF FanPending
  <2> QED
    BY <1>1, <1>7, <2>2 DEF FanInv
<1> QED
  BY <1>7 DEF FanInv

\* The steps of apply().
LEMMA FanApply ==
    ASSUME ControlInv, FanInv, Apply
    PROVE  FanInv'
<1>1. CASE NothingRequested \/ Refuse \/ CheckCard \/ AllChecked
  <2>1. /\ stage = "check" /\ UNCHANGED <<selected, controls, hw, unrestored>>
    BY <1>1 DEF NothingRequested, Refuse, CheckCard, AllChecked
  <2>2. \A c : ~FanPending(c)
    BY <2>1 DEF FanPending
  <2> QED
    BY <2>1, <2>2, FanNoWrite
<1>2. CASE WriteFails
  <2>1. /\ UNCHANGED <<selected, controls, hw, unrestored, card, step, fan_changed>>
        /\ fan_changed = TRUE => stage' = "restore"
    BY <1>2 DEF WriteFails
  <2>2. \A c : FanPending(c) => stage' = "restore"
    BY <2>1 DEF FanPending
  <2> QED
    BY <2>1, <2>2, FanNoWrite
<1>3. CASE RestoreFails
  <2>1. /\ UNCHANGED <<selected, controls, hw>>
        /\ unrestored' = unrestored \cup {Handle(card)}
    BY <1>3 DEF RestoreFails
  <2>2. \A c : FanPending(c) => c \in unrestored'
    BY <2>1 DEF FanPending
  <2> QED
    BY <2>1, <2>2, FanNoWrite
<1>4. CASE CardDone \/ AllWritten
  <2>1. UNCHANGED <<selected, controls, hw, unrestored>> /\ (card = N + 1 \/ step = Len(Plan(card)))
    BY <1>4 DEF CardDone, AllWritten
  <2>2. Len(Plan(card)) \in Nat /\ N \in Nat /\ step \in Nat /\ card \in Nat
    BY EveryPlan DEF FanPair, ControlInv
  <2>3. ~(card <= N /\ step + 1 \in 1 .. Len(Plan(card)))
    BY <2>1, <2>2
  <2>4. \A c : ~FanPending(c)
    BY <2>3 DEF FanPending
  <2> QED
    BY <2>1, <2>4, FanNoWrite
<1> QED
  BY <1>1, <1>2, <1>3, <1>4, FanWrite, FanRestored DEF Apply, apply

\* "If switching to manual mode succeeded but the subsequent PWM write fails,
\* the miner restores the previous fan policy; it reports a restoration failure
\* if the driver also refuses that" (docs/OPERATIONS.md:128-131,
\* amd.cpp:206-215): whichever write fails, on whichever card.
THEOREM FansAreSafe == Spec => []NoFanLeftManual
<1>1. Init => FanInv
  <2> SUFFICES ASSUME Init, NEW c \in Cards PROVE hw[c]["policy"] # "manual"
    BY DEF FanInv
  <2>1. hw[c] = Old /\ "policy" \in Registers
    BY DEF Init, ApplyInit, Registers
  <2>2. Old["policy"] = "old"
    BY <2>1 DEF Old
  <2> QED
    BY <2>1, <2>2
<1>2. ControlInv /\ FanInv /\ [Next]_vars => FanInv'
  <2> SUFFICES ASSUME ControlInv, FanInv, [Next]_vars PROVE FanInv'
    OBVIOUS
  <2>1. CASE UNCHANGED <<selected, controls, applyVars>>
    BY <2>1, FanSame
  <2>2. CASE UNCHANGED vars
    BY <2>1, <2>2 DEF vars
  <2>3. CASE Select
    <3>1. Untouched /\ hw' = hw
      BY <2>3 DEF Select, ControlInv
    <3>2. ASSUME NEW c \in Cards PROVE hw'[c]["policy"] # "manual"
      <4>1. hw'[c] = Old /\ "policy" \in Registers
        BY <3>1 DEF Untouched, Registers
      <4>2. Old["policy"] = "old"
        BY <4>1 DEF Old
      <4> QED
        BY <4>1, <4>2
    <3> QED
      BY <3>2 DEF FanInv
  <2>4. CASE Apply
    BY <2>4, FanApply
  <2>5. CASE RefuseOptions \/ Demo \/ ListDevices \/ Discover \/ DiscoveryFails \/ ApplyThrows
             \/ SetupThrows \/ StartThreads \/ Join
    <3>1. UNCHANGED <<selected, controls, applyVars>>
      BY <2>5 DEF RefuseOptions, Demo, ListDevices, Discover, DiscoveryFails, ApplyThrows,
                  SetupThrows, StartThreads, Join, given
    <3> QED
      BY <2>1, <3>1
  <2>6. CASE \E t \in DOMAIN th : Thread(t) \/ Finish(t)
    <3>1. UNCHANGED <<selected, controls, applyVars>>
      BY <2>6, ThreadsKeep
    <3> QED
      BY <2>1, <3>1
  <2> QED
    BY <2>2, <2>3, <2>4, <2>5, <2>6 DEF Next
<1>3. FanInv => NoFanLeftManual
  <2>1. stage \in {"applied", "refused", "failed"} => \A c : ~FanPending(c)
    BY DEF FanPending
  <2> QED
    BY <2>1 DEF FanInv, NoFanLeftManual
<1> QED
  BY <1>1, <1>2, <1>3, ControlInvariance, PTL DEF Spec

-----------------------------------------------------------------------------
(* Every thread ends clean *)

\* Every object that is created is released.
LEMMA AllReleased ==
    ASSUME NEW t, NEW k \in DOMAIN Objects(t)
    PROVE  Objects(t)[k] \in Released(t)
<1>1. CASE IsCpu(t)
  BY <1>1 DEF Objects, Released
<1>2. CASE ~IsCpu(t) /\ Api(t) = "cuda"
  <2>1. Objects(t) = <<"stream", "hits", "host">> /\ Released(t) = {"host", "hits", "stream"}
    BY <1>2 DEF Objects, Released
  <2>2. k \in 1 .. 3
    BY <2>1
  <2> QED
    BY <2>1, <2>2
<1>3. CASE ~IsCpu(t) /\ Api(t) # "cuda"
  <2>1. /\ Objects(t) = <<"context", "queue", "program", "scanner", "diagnostic", "input",
                           "hits", "nonces">>
        /\ Released(t) = {"nonces", "hits", "input", "diagnostic", "scanner", "program",
                          "queue", "context"}
    BY <1>3 DEF Objects, Released
  <2>2. k \in 1 .. 8
    BY <2>1
  <2> QED
    BY <2>1, <2>2
<1> QED
  BY <1>1, <1>2, <1>3

\* A complete GPU backend has a queue or a stream to wait for.
LEMMA HasQueue ==
    ASSUME NEW t, ~IsCpu(t), NEW held, Complete(t, held)
    PROVE  held \cap {"queue", "stream"} # {}
<1>1. CASE Api(t) = "cuda"
  <2>1. Objects(t) = <<"stream", "hits", "host">>
    BY <1>1 DEF Objects
  <2>2. 1 \in DOMAIN Objects(t) /\ Objects(t)[1] = "stream"
    BY <2>1
  <2> QED
    BY <2>2 DEF Complete
<1>2. CASE Api(t) # "cuda"
  <2>1. Objects(t) = <<"context", "queue", "program", "scanner", "diagnostic", "input",
                       "hits", "nonces">>
    BY <1>2 DEF Objects
  <2>2. 2 \in DOMAIN Objects(t) /\ Objects(t)[2] = "queue"
    BY <2>1
  <2> QED
    BY <2>2 DEF Complete
<1> QED
  BY <1>1, <1>2

\* A thread's steps, one by one.
LEMMA ThreadSteps ==
    ASSUME ControlInv, NEW t \in DOMAIN th, ThreadInv(t, th[t]), Thread(t) \/ Finish(t)
    PROVE  \E r : th' = [th EXCEPT ![t] = r] /\ ThreadInv(t, r)
<1> DEFINE q == th[t]
           Goal == \E r : th' = [th EXCEPT ![t] = r] /\ ThreadInv(t, r)
<1>0. /\ DOMAIN q = ThreadFields
      /\ q.scans \in Nat /\ q.hashes \in Nat
      /\ IsCpu(t) \/ q.pc \in {"open", "done"} => q.todo = {} /\ q.stores = {}
      /\ q.held \subseteq Released(t)
      /\ q.pc \notin {"open", "done"} => Complete(t, q.held)
      /\ q.pc = "done" => q.held = {}
      /\ "bench" \in options.asked =>
            /\ q.scans > 1 => q.hashes > 0
            /\ q.pc \in {"unwind", "done"} /\ ~q.error => q.hashes > 0
  BY DEF ThreadInv
<1>1. pc = "threads"
  BY DEF Thread, Finish
<1>2. ASSUME NEW r, Become(t, r), ThreadInv(t, r) PROVE Goal
  BY <1>2 DEF Become
<1>3. Batch(t) \in Nat \ {0}
  BY ScenarioFacts DEF Batch, ControlInv
<1>4. ASSUME NEW start, NEW nonces, Scanned(t, start, nonces), q.pc \in {"idle", "kernel"}
      PROVE  Goal
  <2> DEFINE h == IF "url" \in options.asked \/ q.scans > 0 THEN q.hashes + Batch(t) ELSE q.hashes
             r == [q EXCEPT !.pc = "idle", !.start = start, !.result = nonces,
                            !.scans = @ + 1, !.hashes = h]
  <2>1. Become(t, r)
    <3>1. r = [th[t] EXCEPT !.pc = "idle", !.start = start, !.result = nonces, !.scans = @ + 1,
                 !.hashes = IF "url" \in options.asked \/ th[t].scans > 0 THEN @ + Batch(t) ELSE @]
      OBVIOUS
    <3> QED
      BY <1>4, <3>1 DEF Scanned
  <2>2. h \in Nat /\ (q.scans > 0 => h > 0) /\ q.scans + 1 \in Nat /\ (q.scans + 1 > 1 => q.scans > 0)
    <3> HIDE DEF q
    <3> QED
      BY <1>0, <1>3
  <2> HIDE DEF q, h
  <2>3. /\ DOMAIN r = ThreadFields /\ r.pc = "idle" /\ r.scans = q.scans + 1 /\ r.hashes = h
        /\ r.held = q.held /\ r.todo = q.todo /\ r.stores = q.stores
    BY <1>0 DEF ThreadFields
  <2>4. ThreadInv(t, r)
    <3> HIDE DEF r
    <3> QED
      BY <1>0, <1>4, <2>2, <2>3 DEF ThreadInv
  <2> QED
    BY <1>2, <2>1, <2>4
<1>5. CASE Finish(t)
  <2> DEFINE r == [q EXCEPT !.pc = "unwind"]
  <2>1. Become(t, r) /\ q.pc = "idle" /\ ("url" \in options.asked \/ q.scans > 1)
    BY <1>5 DEF Finish
  <2>2. "bench" \in options.asked => "url" \notin options.asked
    BY <1>1 DEF ControlInv, OneMode
  <2> HIDE DEF q
  <2>3. /\ DOMAIN r = ThreadFields /\ r.pc = "unwind" /\ r.scans = q.scans /\ r.hashes = q.hashes
        /\ r.held = q.held /\ r.todo = q.todo /\ r.stores = q.stores
    BY <1>0 DEF ThreadFields
  <2>4. ThreadInv(t, r)
    <3> HIDE DEF r
    <3> QED
      BY <1>0, <2>1, <2>2, <2>3 DEF ThreadInv
  <2> QED
    BY <1>2, <2>1, <2>4
<1>6. CASE ConstructionFails(t)
  <2> DEFINE r == [q EXCEPT !.pc = "done", !.error = TRUE, !.held = {}]
  <2>0. Freed(t) = {}
    BY <1>0 DEF Freed
  <2>1. Become(t, r) /\ q.pc = "open"
    BY <1>6, <2>0 DEF ConstructionFails
  <2> HIDE DEF q
  <2>2. /\ DOMAIN r = ThreadFields /\ r.pc = "done" /\ r.scans = q.scans /\ r.hashes = q.hashes
        /\ r.error /\ r.held = {} /\ r.todo = q.todo /\ r.stores = q.stores
    BY <1>0 DEF ThreadFields
  <2>3. ThreadInv(t, r)
    <3> HIDE DEF r
    <3> QED
      BY <1>0, <2>1, <2>2 DEF ThreadInv
  <2> QED
    BY <1>2, <2>1, <2>3
<1>7. CASE Acquire(t)
  <2>0. PICK k \in DOMAIN Objects(t) :
            Become(t, [q EXCEPT !.held = q.held \cup {Objects(t)[k]}]) /\ q.pc = "open"
    BY <1>7 DEF Acquire, Missing
  <2>1. PICK x : Become(t, [q EXCEPT !.held = x]) /\ q.pc = "open" /\ x \subseteq Released(t)
    BY <1>0, <2>0, AllReleased
  <2> DEFINE r == [q EXCEPT !.held = x]
  <2>2. Become(t, r)
    BY <2>1
  <2> HIDE DEF q
  <2>3. /\ DOMAIN r = ThreadFields /\ r.pc = q.pc /\ r.scans = q.scans /\ r.hashes = q.hashes
        /\ r.todo = q.todo /\ r.stores = q.stores /\ r.held = x
    BY <1>0 DEF ThreadFields
  <2>4. ThreadInv(t, r)
    <3> HIDE DEF r
    <3> QED
      BY <1>0, <2>1, <2>3 DEF ThreadInv
  <2> QED
    BY <1>2, <2>2, <2>4
<1>8. CASE Constructed(t)
  <2> DEFINE r == [q EXCEPT !.pc = "idle"]
  <2>1. Become(t, r) /\ q.pc = "open" /\ Complete(t, q.held)
    BY <1>8 DEF Constructed, Missing, Complete
  <2> HIDE DEF q
  <2>2. /\ DOMAIN r = ThreadFields /\ r.pc = "idle" /\ r.scans = q.scans /\ r.hashes = q.hashes
        /\ r.held = q.held /\ r.todo = q.todo /\ r.stores = q.stores
    BY <1>0 DEF ThreadFields
  <2>3. ThreadInv(t, r)
    <3> HIDE DEF r
    <3> QED
      BY <1>0, <2>1, <2>2 DEF ThreadInv
  <2> QED
    BY <1>2, <2>1, <2>3
<1>9. CASE Destruct(t)
  <2> DEFINE r == [NewThread EXCEPT !.pc = "done", !.error = q.error, !.hashes = q.hashes,
                                    !.held = {}, !.todo = {}, !.stores = {}]
  <2>0. Freed(t) = {}
    BY <1>0 DEF Freed
  <2>4. q.pc = "unwind" /\ Waited(t)
    BY <1>9 DEF Destruct
  <2>5. q.todo = {} /\ q.stores = {}
    <3>1. CASE IsCpu(t)
      BY <1>0, <3>1
    <3>2. CASE ~IsCpu(t)
      <4>1. q.held \cap {"queue", "stream"} # {}
        BY <1>0, <2>4, <3>2, HasQueue
      <4> QED
        BY <2>4, <4>1 DEF Waited, Running
    <3> QED
      BY <3>1, <3>2
  <2>1. Become(t, r) /\ q.pc = "unwind"
    BY <1>9, <2>0, <2>5 DEF Destruct
  <2> HIDE DEF q
  <2>2. /\ DOMAIN r = ThreadFields /\ r.pc = "done" /\ r.scans = 0 /\ r.hashes = q.hashes
        /\ r.error = q.error /\ r.held = {} /\ r.todo = {} /\ r.stores = {}
    BY DEF ThreadFields, NewThread
  <2>3. ThreadInv(t, r)
    <3> HIDE DEF r
    <3>1. r.error <=> q.error
      BY <2>2
    <3> QED
      BY <1>0, <2>1, <2>2, <3>1 DEF ThreadInv
  <2> QED
    BY <1>2, <2>1, <2>3
<1>10. ASSUME NEW start, Launch(t, start) PROVE Goal
  <2>1. PICK x : Become(t, [q EXCEPT !.pc = "kernel", !.start = start, !.n = 0, !.todo = x])
    BY <1>10 DEF Launch
  <2>5. q.pc = "idle" /\ ~IsCpu(t)
    BY <1>10 DEF Launch
  <2> DEFINE r == [q EXCEPT !.pc = "kernel", !.start = start, !.n = 0, !.todo = x]
  <2>2. Become(t, r)
    BY <2>1
  <2> HIDE DEF q
  <2>3. /\ DOMAIN r = ThreadFields /\ r.pc = "kernel" /\ r.scans = q.scans /\ r.hashes = q.hashes
        /\ r.held = q.held
    BY <1>0 DEF ThreadFields
  <2>4. ThreadInv(t, r)
    <3> HIDE DEF r
    <3> QED
      BY <1>0, <2>3, <2>5 DEF ThreadInv
  <2> QED
    BY <1>2, <2>2, <2>4
<1>11. ASSUME NEW l \in q.todo, TakeSlot(t, l) PROVE Goal
  <2>1. PICK x, y, z : Become(t, [q EXCEPT !.todo = x, !.n = y, !.stores = z])
    <3>1. Become(t, [q EXCEPT !.todo = q.todo \ {l}, !.n = q.n + 1,
            !.stores = q.stores \cup {<<q.n, Nonce(t, q.start, Index(t, l))>>}])
      BY <1>11 DEF TakeSlot
    <3> QED
      BY <3>1
  <2> DEFINE r == [q EXCEPT !.todo = x, !.n = y, !.stores = z]
  <2>2. Become(t, r)
    BY <2>1
  <2>3. q.pc \notin {"open", "done"} /\ ~IsCpu(t)
    BY <1>0, <1>11
  <2> HIDE DEF q
  <2>4. /\ DOMAIN r = ThreadFields /\ r.pc = q.pc /\ r.scans = q.scans /\ r.hashes = q.hashes
        /\ r.error = q.error /\ r.held = q.held
    BY <1>0 DEF ThreadFields
  <2>5. ThreadInv(t, r)
    <3> HIDE DEF r
    <3>1. r.error <=> q.error
      BY <2>4
    <3> QED
      BY <1>0, <2>3, <2>4, <3>1 DEF ThreadInv
  <2> QED
    BY <1>2, <2>2, <2>5
<1>12. ASSUME NEW e \in q.stores, Store(t, e) PROVE Goal
  <2>1. PICK x, y : Become(t, [q EXCEPT !.stores = x, !.buf = y])
    <3>1. Become(t, [q EXCEPT !.stores = q.stores \ {e},
            !.buf = IF e[1] < Capacity THEN [q.buf EXCEPT ![e[1]] = e[2]] ELSE q.buf])
      BY <1>12 DEF Store
    <3> QED
      BY <3>1
  <2> DEFINE r == [q EXCEPT !.stores = x, !.buf = y]
  <2>2. Become(t, r)
    BY <2>1
  <2>3. q.pc \notin {"open", "done"} /\ ~IsCpu(t)
    BY <1>0, <1>12
  <2> HIDE DEF q
  <2>4. /\ DOMAIN r = ThreadFields /\ r.pc = q.pc /\ r.scans = q.scans /\ r.hashes = q.hashes
        /\ r.error = q.error /\ r.held = q.held
    BY <1>0 DEF ThreadFields
  <2>5. ThreadInv(t, r)
    <3> HIDE DEF r
    <3>1. r.error <=> q.error
      BY <2>4
    <3> QED
      BY <1>0, <2>3, <2>4, <3>1 DEF ThreadInv
  <2> QED
    BY <1>2, <2>2, <2>5
<1>13. CASE ScanThrows(t) \/ CpuScanThrows(t)
  <2> DEFINE r == [q EXCEPT !.pc = "unwind", !.error = TRUE]
  <2>1. Become(t, r) /\ q.pc \in {"idle", "kernel"}
    BY <1>13 DEF ScanThrows, CpuScanThrows
  <2> HIDE DEF q
  <2>2. /\ DOMAIN r = ThreadFields /\ r.pc = "unwind" /\ r.scans = q.scans /\ r.hashes = q.hashes
        /\ r.error /\ r.held = q.held /\ r.todo = q.todo /\ r.stores = q.stores
    BY <1>0 DEF ThreadFields
  <2>3. ThreadInv(t, r)
    <3> HIDE DEF r
    <3> QED
      BY <1>0, <2>1, <2>2 DEF ThreadInv
  <2> QED
    BY <1>2, <2>1, <2>3
<1>14. CASE Collect(t) \/ \E s \in 0 .. Space - 1 : CpuScan(t, s)
  <2>1. q.pc \in {"idle", "kernel"} /\ \E start, nonces : Scanned(t, start, nonces)
    BY <1>14 DEF Collect, CpuScan
  <2> QED
    BY <1>4, <2>1
<1>15. CASE BackendStep(t)
  BY <1>6, <1>7, <1>8, <1>9, <1>10, <1>11, <1>12, <1>13, <1>14, <1>15 DEF BackendStep
<1> QED
  BY <1>5, <1>15 DEF Thread

\* The number of CPU threads is a number, and an unchanged one.
LEMMA ThreadCounts ==
    ASSUME GivenScenario
    PROVE  \A c \in Nat : CpuThreads(c) \in Nat
<1>1. options.cpu_threads \in Nat
  BY ScenarioFacts
<1>2. Logical \in Nat /\ Logical \div 2 \in Nat
  BY StartupAssumption
<1>3. ASSUME NEW c \in Nat PROVE CpuThreads(c) \in Nat
  <2>1. AtLeastOne(Logical \div 2) \in Nat
    BY <1>2 DEF AtLeastOne
  <2>2. AtLeastOne(Logical \div 2 - c - 1) \in Nat
    <3> DEFINE L == Logical \div 2
    <3>1. L \in Nat
      BY <1>2
    <3> HIDE DEF L
    <3>2. AtLeastOne(L - c - 1) \in Nat
      BY <3>1 DEF AtLeastOne
    <3> QED
      BY <3>2 DEF L
  <2> QED
    BY <1>1, <2>1, <2>2 DEF CpuThreads
<1> QED
  BY <1>3

\* Inspection is never a benchmark.
LEMMA InspectionAlone ==
    ASSUME GivenScenario, ~OptionsRefused, "demo" \in options.asked \/ "list" \in options.asked
    PROVE  "bench" \notin options.asked
<1> SUFFICES ASSUME "bench" \in options.asked PROVE FALSE
  OBVIOUS
<1>1. options.asked \subseteq {"bench", "demo", "list", "url"}
  BY ScenarioFacts
<1>2. PICK x \in {"demo", "list"} : x \in options.asked
  OBVIOUS
<1> DEFINE A == options.asked \ {"url"}
           B == {"bench", x}
<1>3. IsFiniteSet({"bench", "demo", "list"})
  <2>1. IsFiniteSet({})
    BY FS_EmptySet
  <2>2. IsFiniteSet({} \cup {"bench"})
    BY <2>1, FS_AddElement, Zenon
  <2>3. IsFiniteSet(({} \cup {"bench"}) \cup {"demo"})
    BY <2>2, FS_AddElement, Zenon
  <2>4. IsFiniteSet((({} \cup {"bench"}) \cup {"demo"}) \cup {"list"})
    BY <2>3, FS_AddElement, Zenon
  <2>5. (({} \cup {"bench"}) \cup {"demo"}) \cup {"list"} = {"bench", "demo", "list"}
    OBVIOUS
  <2> QED
    BY <2>4, <2>5
<1>4. A \subseteq {"bench", "demo", "list"} /\ B \subseteq A
  BY <1>1, <1>2
<1>5. IsFiniteSet(A)
  BY <1>3, <1>4, FS_Subset, Zenon
<1>6. Cardinality(B) = 2
  <2>1. IsFiniteSet({"bench"}) /\ Cardinality({"bench"}) = 1
    BY FS_Singleton
  <2>2. x \notin {"bench"}
    BY <1>2
  <2>3. Cardinality({"bench"} \cup {x}) = Cardinality({"bench"}) + 1
    BY <2>1, <2>2, FS_AddElement
  <2>4. {"bench"} \cup {x} = B
    OBVIOUS
  <2> QED
    BY <2>1, <2>3, <2>4
<1>7. Cardinality(B) <= Cardinality(A) /\ Cardinality(A) \in Nat
  BY <1>4, <1>5, FS_Subset, FS_CardinalityType, Zenon
<1> QED
  BY <1>6, <1>7 DEF OptionsRefused

\* What the selection and the options decide.
LEMMA SameCounts ==
    ASSUME UNCHANGED <<selected, options>>
    PROVE  /\ N' = N /\ CpuThreads(N)' = CpuThreads(N)
           /\ \A t, r : ThreadInv(t, r)' <=> ThreadInv(t, r)
<1>1. N' = N
  BY DEF N
<1>2. CpuThreads(N)' = CpuThreads(N)
  BY <1>1 DEF CpuThreads
<1>3. ASSUME NEW t, NEW r PROVE ThreadInv(t, r)' <=> ThreadInv(t, r)
  <2>1. (IsCpu(t)' <=> IsCpu(t)) /\ Api(t)' = Api(t)
    BY <1>1 DEF IsCpu, Api
  <2>2. Released(t)' = Released(t) /\ Objects(t)' = Objects(t)
    BY <2>1 DEF Released, Objects
  <2>3. Complete(t, r.held)' <=> Complete(t, r.held)
    BY <2>2 DEF Complete
  <2> QED
    BY <2>1, <2>2, <2>3 DEF ThreadInv
<1> QED
  BY <1>1, <1>2, <1>3

\* Threads that satisfy their invariant end without objects and kernels.
LEMMA EndedClean ==
    ASSUME \A t \in DOMAIN th : ThreadInv(t, th[t])
    PROVE  \A t \in DOMAIN th : th[t].pc = "done" => th[t].held = {} /\ ~Running(t)
BY DEF ThreadInv, Running

\* Every step of the program.
LEMMA EndStep ==
    ASSUME ControlInv, EndInv, [Next]_vars
    PROVE  EndInv'
<1>1. /\ \A t \in DOMAIN th : ThreadInv(t, th[t])
      /\ pc \in {"apply", "threads"} =>
            /\ options.explicit => N = Len(options.devices)
            /\ N + CpuThreads(N) \in Nat \ {0}
      /\ pc \in {"options", "discover", "apply"} => th = <<>>
      /\ pc = "threads" => DOMAIN th = 1 .. N + CpuThreads(N)
      /\ EndIsClean
  BY DEF EndInv
<1>2. GivenScenario /\ N \in Nat
  BY DEF ControlInv
<1>3. ASSUME UNCHANGED <<selected, options, th>>, pc' = "exit",
             exit' = 0 /\ "bench" \in options.asked =>
                /\ th # <<>>
                /\ options.explicit => N = Len(options.devices)
                /\ \A t \in DOMAIN th : th[t].hashes > 0 /\ ~th[t].error
      PROVE  EndInv'
  <2>1. N' = N /\ \A t, r : ThreadInv(t, r)' <=> ThreadInv(t, r)
    BY <1>3, SameCounts
  <2>2. \A t \in DOMAIN th' : ThreadInv(t, th[t])'
    BY <1>1, <1>3, <2>1
  <2>3. \A t \in DOMAIN th' : th'[t].pc = "done" => th'[t].held = {} /\ ~Running(t)'
    BY <1>1, <1>3, EndedClean DEF Running
  <2> QED
    BY <1>3, <2>1, <2>2, <2>3 DEF EndInv, EndIsClean
<1>4. ASSUME UNCHANGED <<selected, options, th, pc, exit>> PROVE EndInv'
  <2>1. N' = N /\ CpuThreads(N)' = CpuThreads(N) /\ \A t, r : ThreadInv(t, r)' <=> ThreadInv(t, r)
    BY <1>4, SameCounts
  <2>2. \A t \in DOMAIN th' : ThreadInv(t, th[t])'
    BY <1>1, <1>4, <2>1
  <2>3. EndIsClean'
    BY <1>1, <1>4, <2>1 DEF EndIsClean, Running
  <2> QED
    BY <1>1, <1>4, <2>1, <2>2, <2>3 DEF EndInv
<1>5. CASE RefuseOptions \/ DiscoveryFails \/ ApplyThrows \/ SetupThrows
  <2>1. UNCHANGED <<selected, options, th>> /\ pc' = "exit" /\ exit' = 1
    BY <1>5 DEF RefuseOptions, DiscoveryFails, ApplyThrows, SetupThrows, Return, given
  <2> QED
    BY <1>3, <2>1
<1>6. CASE Demo \/ ListDevices
  <2>1. /\ UNCHANGED <<selected, options, th>> /\ pc' = "exit"
        /\ ~OptionsRefused /\ ("demo" \in options.asked \/ "list" \in options.asked)
    BY <1>6 DEF Demo, ListDevices, Return, given
  <2>2. "bench" \notin options.asked
    BY <1>2, <2>1, InspectionAlone
  <2> QED
    BY <1>3, <2>1, <2>2
<1>7. CASE Discover
  <2>1. UNCHANGED <<selected, options, th>> /\ pc = "options" /\ pc' = "discover"
    BY <1>7 DEF Discover, given
  <2>2. \A t, r : ThreadInv(t, r)' <=> ThreadInv(t, r)
    BY <2>1, SameCounts
  <2>3. \A t \in DOMAIN th' : ThreadInv(t, th[t])'
    BY <1>1, <2>1, <2>2
  <2>4. \A t \in DOMAIN th' : th'[t].pc = "done" => th'[t].held = {} /\ ~Running(t)'
    BY <1>1, <2>1, EndedClean DEF Running
  <2> QED
    BY <1>1, <2>1, <2>3, <2>4 DEF EndInv, EndIsClean
<1>8. CASE Select
  <2>1. /\ ~SelectionRefused /\ selected' = Chosen /\ pc = "discover" /\ pc' = "apply"
        /\ UNCHANGED <<options, th>>
    BY <1>8 DEF Select, given
  <2>2. /\ N' = ChosenCount /\ ChosenCount \in Nat
        /\ options.explicit => ChosenCount = Len(options.devices)
    BY <1>2, <2>1, ChosenIsList DEF N
  <2>3. CpuThreads(N)' = CpuThreads(ChosenCount)
    BY <2>1, <2>2 DEF CpuThreads
  <2>4. CpuThreads(ChosenCount) \in Nat /\ CpuThreads(0) \in Nat
    BY <1>2, <2>2, ThreadCounts
  <2>5. ChosenCount = 0 => CpuThreads(ChosenCount) # 0
    BY <2>1 DEF SelectionRefused
  <2>6. ChosenCount + CpuThreads(ChosenCount) \in Nat \ {0}
    BY <2>2, <2>4, <2>5
  <2>7. th' = <<>> /\ DOMAIN th' = {}
    BY <1>1, <2>1
  <2>8. \A t \in DOMAIN th' : ThreadInv(t, th[t])' /\ th'[t].pc # "done"
    BY <2>7
  <2> QED
    BY <2>1, <2>2, <2>3, <2>6, <2>7, <2>8 DEF EndInv, EndIsClean
<1>9. CASE Apply
  <2>1. UNCHANGED <<selected, options, th, pc, exit>>
    BY <1>9 DEF Apply, apply, NothingRequested, Refuse, CheckCard, AllChecked, WriteRegister,
                WriteFails, Restore, RestoreFails, CardDone, AllWritten
  <2> QED
    BY <1>4, <2>1
<1>10. CASE StartThreads
  <2>1. /\ pc = "apply" /\ pc' = "threads" /\ UNCHANGED <<selected, options>>
        /\ th' = [t \in 1 .. N + CpuThreads(N) |-> NewThread]
    BY <1>10 DEF StartThreads, given
  <2>2. N' = N /\ CpuThreads(N)' = CpuThreads(N) /\ \A t, r : ThreadInv(t, r)' <=> ThreadInv(t, r)
    BY <2>1, SameCounts
  <2>3. \A t : ThreadInv(t, NewThread)
    <3>1. /\ DOMAIN NewThread = ThreadFields /\ NewThread.pc = "open" /\ NewThread.scans = 0
          /\ NewThread.hashes = 0 /\ NewThread.todo = {} /\ NewThread.stores = {}
          /\ NewThread.held = {}
      BY DEF NewThread, ThreadFields
    <3> QED
      BY <3>1 DEF ThreadInv
  <2>4. DOMAIN th' = 1 .. N + CpuThreads(N) /\ \A t \in DOMAIN th' : th'[t] = NewThread
    BY <2>1
  <2>5. \A t \in DOMAIN th' : ThreadInv(t, th[t])'
    <3> SUFFICES ASSUME NEW t \in DOMAIN th' PROVE ThreadInv(t, th[t])'
      OBVIOUS
    <3>1. th'[t] = NewThread /\ ThreadInv(t, th'[t])
      BY <2>3, <2>4
    <3> QED
      BY <2>2, <3>1
  <2>6. \A t \in DOMAIN th' : th'[t].pc # "done"
    BY <2>4 DEF NewThread
  <2> QED
    BY <1>1, <2>1, <2>2, <2>4, <2>5, <2>6 DEF EndInv, EndIsClean
<1>11. CASE \E t \in DOMAIN th : Thread(t) \/ Finish(t)
  <2>1. PICK t \in DOMAIN th : Thread(t) \/ Finish(t)
    BY <1>11
  <2>2. UNCHANGED <<selected, options>> /\ pc = "threads" /\ pc' = pc
    BY <2>1, ThreadsKeep
  <2>3. ThreadInv(t, th[t])
    BY <1>1
  <2>4. PICK r : th' = [th EXCEPT ![t] = r] /\ ThreadInv(t, r)
    BY <2>1, <2>3, ThreadSteps
  <2>5. /\ N' = N /\ CpuThreads(N)' = CpuThreads(N)
        /\ \A u, x : ThreadInv(u, x)' <=> ThreadInv(u, x)
    BY <2>2, SameCounts
  <2>6. /\ DOMAIN th' = DOMAIN th
        /\ \A u \in DOMAIN th' : (u = t /\ th'[u] = r) \/ th'[u] = th[u]
    BY <2>4
  <2>7. ASSUME NEW u \in DOMAIN th' PROVE ThreadInv(u, th[u])'
    <3>1. ThreadInv(u, th'[u])
      BY <1>1, <2>4, <2>6
    <3> QED
      BY <2>5, <3>1
  <2>8. ASSUME NEW u \in DOMAIN th', th'[u].pc = "done" PROVE th'[u].held = {} /\ ~Running(u)'
    <3>1. ThreadInv(u, th'[u])
      BY <1>1, <2>4, <2>6
    <3> QED
      BY <2>8, <3>1 DEF ThreadInv, Running
  <2>9. EndIsClean'
    BY <2>2, <2>8 DEF EndIsClean
  <2> QED
    BY <1>1, <2>2, <2>5, <2>6, <2>7, <2>9 DEF EndInv
<1>12. CASE Join
  <2>1. /\ UNCHANGED <<selected, options, th>> /\ pc = "threads" /\ pc' = "exit"
        /\ \A t \in DOMAIN th : th[t].pc = "done"
        /\ exit' = IF \E t \in DOMAIN th : th[t].error THEN 1 ELSE 0
    BY <1>12 DEF Join, Return, given
  <2>2. DOMAIN th = 1 .. N + CpuThreads(N) /\ N + CpuThreads(N) \in Nat \ {0}
    BY <1>1, <2>1
  <2>3. 1 \in DOMAIN th
    <3> DEFINE M == N + CpuThreads(N)
    <3>1. M \in Nat \ {0} /\ DOMAIN th = 1 .. M
      BY <2>2
    <3> HIDE DEF M
    <3> QED
      BY <3>1
  <2>4. th # <<>>
    BY <2>3
  <2>5. ASSUME exit' = 0, "bench" \in options.asked
        PROVE  \A t \in DOMAIN th : th[t].hashes > 0 /\ ~th[t].error
    <3>1. \A t \in DOMAIN th : ~th[t].error
      BY <2>1, <2>5
    <3> QED
      BY <1>1, <2>1, <2>5, <3>1 DEF ThreadInv
  <2> QED
    BY <1>1, <1>3, <2>1, <2>4, <2>5
<1>13. CASE UNCHANGED vars
  <2>1. UNCHANGED <<selected, options, th, pc, exit>>
    BY <1>13 DEF vars
  <2> QED
    BY <1>4, <2>1
<1> QED
  BY <1>5, <1>6, <1>7, <1>8, <1>9, <1>10, <1>11, <1>12, <1>13 DEF Next

\* The invariant behind the threads' end (main.cpp:271-330, miner.cpp:314-345).
THEOREM EndInvariance == Spec => []EndInv
<1>1. Init => EndInv
  <2> SUFFICES ASSUME Init PROVE EndInv
    OBVIOUS
  <2>1. th = <<>> /\ pc = "options"
    BY DEF Init
  <2>2. DOMAIN th = {}
    BY <2>1
  <2> QED
    BY <2>1, <2>2 DEF EndInv, EndIsClean
<1>2. ControlInv /\ EndInv /\ [Next]_vars => EndInv'
  BY EndStep
<1> QED
  BY <1>1, <1>2, ControlInvariance, PTL DEF Spec

\* A thread that has ended holds no object of the driver and left no kernel
\* behind, wherever its construction or scan failed (runtime.cpp:172-191,
\* blake2b.cu:220-240), and a benchmark succeeds only if every card asked for
\* and every CPU thread completed a timed scan (main.cpp:271-330).
THEOREM ThreadsEndClean == Spec => []EndIsClean
<1>1. EndInv => EndIsClean
  BY DEF EndInv
<1> QED
  BY <1>1, EndInvariance, PTL

-----------------------------------------------------------------------------
(* Each card once *)

\* The selection is what was asked for, of what the drivers list.
CardsSelected ==
    /\ selected = Chosen
    /\ ~Unavailable
    /\ ~options.no_gpu => options.gpu_mode \in GpuModes

\* apply() and the threads work on this selection.
SelectInv == pc \in {"apply", "threads"} => CardsSelected

\* The thread of this device opens the card whose registers apply() writes.
OneCardEach ==
    /\ \A d \in Positions :
          /\ Opened(machine, selected[d]) \in Cards
          /\ Handle(d) = Opened(machine, selected[d])
          /\ selected[d].amd = (Handle(d) \in AmdCards)
    /\ \A d, e \in Positions : Opened(machine, selected[d]) = Opened(machine, selected[e]) => d = e
    /\ ~options.explicit /\ ~options.no_gpu =>
          \A c : c \in UsableCards(machine, options.gpu_mode) <=>
                    \E d \in Positions : c = Opened(machine, selected[d])

\* A list of no card.
LEMMA NoDevices ==
    ASSUME options.no_gpu, CardsSelected, options.devices \in Seq(Nat)
    PROVE  Positions = {}
<1>1. Available = <<>>
  BY DEF Available
<1>2. ToSet(<<>>) = {} /\ Len(<<>>) = 0 /\ 1 .. 0 = {}
  BY DEF ToSet
<1>3. CASE options.explicit
  <2>1. DOMAIN options.devices = {}
    BY <1>1, <1>2, <1>3 DEF CardsSelected, Unavailable
  <2>2. DOMAIN options.devices = 1 .. 0
    BY <1>2, <2>1
  <2> DEFINE f(k) == CHOOSE x \in ToSet(Available) : x.index = options.devices[k]
  <2>3. Chosen = [k \in DOMAIN options.devices |-> f(k)]
    BY <1>3 DEF Chosen
  <2> HIDE DEF f
  <2>4. Len(Chosen) = 0
    <3>1. Chosen = [k \in 1 .. 0 |-> f(k)]
      BY <2>2, <2>3
    <3>2. Len([k \in 1 .. 0 |-> f(k)]) = 0
      OBVIOUS
    <3> QED
      BY <3>1, <3>2
  <2> QED
    BY <1>2, <2>4 DEF CardsSelected, Positions, N
<1>4. CASE ~options.explicit
  BY <1>1, <1>2, <1>4 DEF CardsSelected, Chosen, Positions, N
<1> QED
  BY <1>3, <1>4

\* Each selected device stands at one place of the drivers' list.
LEMMA SelectedPlaces ==
    ASSUME GivenScenario, CardsSelected, ~options.no_gpu
    PROVE  LET D == gpu_devices(machine, options.gpu_mode)
           IN \E at \in [Positions -> 1 .. Len(D)] :
                 /\ \A d \in Positions : selected[d] = D[at[d]]
                 /\ \A d, e \in Positions : at[d] = at[e] => d = e
                 /\ ~options.explicit => Positions = 1 .. Len(D) /\ \A d \in Positions : at[d] = d
<1> DEFINE D == gpu_devices(machine, options.gpu_mode)
           n == Len(D)
<1>1. options.devices \in Seq(Nat) /\ IsInjective(options.devices) /\ IsMachine(machine)
  BY ScenarioFacts
<1>2. IsMerged(machine, options.gpu_mode, D)
  BY <1>1, MergedFacts
<1>3. Available = D
  BY DEF Available
<1> HIDE DEF D
<1>4. D \in Seq(Infos) /\ \A i \in 1 .. n : D[i].index = i - 1
  BY <1>2 DEF IsMerged
<1>5. n \in Nat /\ DOMAIN D = 1 .. n
  BY <1>4
<1>6. \A x : x \in ToSet(D) <=> \E i \in 1 .. n : x = D[i]
  BY <1>5 DEF ToSet
<1> HIDE DEF n
<1>7. CASE ~options.explicit
  <2>1. selected = D /\ Positions = 1 .. n
    BY <1>3, <1>7 DEF CardsSelected, Chosen, Positions, N, n
  <2> DEFINE at == [d \in Positions |-> d]
  <2>2. at \in [Positions -> 1 .. n] /\ \A d \in Positions : at[d] = d
    BY <2>1
  <2> HIDE DEF at
  <2>3. /\ \A d \in Positions : selected[d] = D[at[d]]
        /\ \A d, e \in Positions : at[d] = at[e] => d = e
    BY <2>1, <2>2
  <2> QED
    BY <1>7, <2>1, <2>2, <2>3 DEF D, n
<1>8. CASE options.explicit
  <2> DEFINE ds == options.devices
             m == Len(ds)
             f(k) == CHOOSE x \in ToSet(D) : x.index = ds[k]
             at == [d \in Positions |-> ds[d] + 1]
  <2>1. m \in Nat /\ DOMAIN ds = 1 .. m /\ \A k \in 1 .. m : ds[k] \in Nat
    BY <1>1
  <2>2. Chosen = [k \in 1 .. m |-> f(k)]
    BY <1>3, <1>8, <2>1 DEF Chosen
  <2>3. \A k \in 1 .. m : f(k) \in ToSet(D) /\ f(k).index = ds[k]
    <3> SUFFICES ASSUME NEW k \in 1 .. m PROVE f(k) \in ToSet(D) /\ f(k).index = ds[k]
      OBVIOUS
    <3>1. \E x \in ToSet(D) : x.index = ds[k]
      BY <1>3, <1>8, <2>1 DEF CardsSelected, Unavailable
    <3> QED
      BY <3>1
  <2> HIDE DEF f, m
  <2>4. Len(Chosen) = m
    BY <2>1, <2>2
  <2>5. Positions = 1 .. m /\ \A k \in 1 .. m : selected[k] = f(k)
    BY <2>2, <2>4 DEF CardsSelected, Positions, N
  <2>6. ASSUME NEW k \in 1 .. m PROVE ds[k] + 1 \in 1 .. n /\ f(k) = D[ds[k] + 1]
    <3>1. PICK i \in 1 .. n : f(k) = D[i]
      BY <1>6, <2>3
    <3>2. i - 1 = ds[k]
      BY <1>4, <2>3, <3>1
    <3>3. ds[k] + 1 = i
      BY <1>5, <2>1, <3>2
    <3> QED
      BY <3>1, <3>3
  <2>7. at \in [Positions -> 1 .. n] /\ \A d \in Positions : at[d] = ds[d] + 1
    BY <2>5, <2>6
  <2>8. \A d, e \in 1 .. m : ds[d] + 1 = ds[e] + 1 => d = e
    <3> SUFFICES ASSUME NEW d \in 1 .. m, NEW e \in 1 .. m, ds[d] + 1 = ds[e] + 1 PROVE d = e
      OBVIOUS
    <3>1. ds[d] = ds[e]
      BY <2>1
    <3> QED
      BY <1>1, <2>1, <3>1 DEF IsInjective
  <2> HIDE DEF at
  <2>9. /\ \A d \in Positions : selected[d] = D[at[d]]
        /\ \A d, e \in Positions : at[d] = at[e] => d = e
    BY <2>5, <2>6, <2>7, <2>8
  <2> QED
    BY <1>8, <2>7, <2>9 DEF D, n
<1> QED
  BY <1>7, <1>8

\* With exact addresses.
LEMMA SelectionFacts ==
    ASSUME GivenScenario, CardsSelected, AddressesExact(machine)
    PROVE  OneCardEach
<1>1. options.devices \in Seq(Nat) /\ IsMachine(machine)
  BY ScenarioFacts
<1>2. CASE options.no_gpu
  BY <1>1, <1>2, NoDevices DEF OneCardEach
<1>3. CASE ~options.no_gpu
  <2> DEFINE D == gpu_devices(machine, options.gpu_mode)
             n == Len(D)
             mode == options.gpu_mode
  <2>1. IsMerged(machine, mode, D) /\ mode \in GpuModes
    BY <1>1, <1>3, MergedFacts DEF CardsSelected
  <2>2. PICK at \in [Positions -> 1 .. n] :
            /\ \A d \in Positions : selected[d] = D[at[d]]
            /\ \A d, e \in Positions : at[d] = at[e] => d = e
            /\ ~options.explicit => Positions = 1 .. n /\ \A d \in Positions : at[d] = d
    BY <1>3, SelectedPlaces
  <2> HIDE DEF D, mode
  <2>4. /\ \A i \in 1 .. n :
              Opened(machine, D[i]) \in Cards /\ CardAt(D[i].pci, D[i].amd) = Opened(machine, D[i])
        /\ \A i, j \in 1 .. n : Opened(machine, D[i]) = Opened(machine, D[j]) => i = j
        /\ \A c : c \in UsableCards(machine, mode) <=> \E i \in 1 .. n : c = Opened(machine, D[i])
    <3>1. OpensEachOnce(machine, mode, D)
      BY <1>1, <2>1, OpenedFacts
    <3> QED
      BY <3>1 DEF OpensEachOnce
  <2> HIDE DEF n
  <2>6. ASSUME NEW d \in Positions
        PROVE  /\ Opened(machine, selected[d]) \in Cards
               /\ Handle(d) = Opened(machine, selected[d])
               /\ selected[d].amd = (Handle(d) \in AmdCards)
    <3>1. at[d] \in 1 .. n /\ selected[d] = D[at[d]]
      BY <2>2
    <3>2. Opened(machine, selected[d]) \in Cards /\ Handle(d) = Opened(machine, selected[d])
      BY <2>4, <3>1 DEF Handle
    <3> DEFINE S == {c \in Cards : Address[c] = selected[d].pci /\ (c \in AmdCards) = selected[d].amd}
    <3>3. Handle(d) = IF S = {} THEN NoCard ELSE CHOOSE c \in S : TRUE
      BY DEF Handle, CardAt
    <3>4. Handle(d) # NoCard
      BY <3>2, DevicesAssumption
    <3>5. Handle(d) \in S
      BY <3>3, <3>4
    <3>6. (Handle(d) \in AmdCards) = selected[d].amd
      BY <3>5
    <3> QED
      BY <3>2, <3>6
  <2>7. ASSUME NEW d \in Positions, NEW e \in Positions,
               Opened(machine, selected[d]) = Opened(machine, selected[e])
        PROVE  d = e
    <3>1. at[d] \in 1 .. n /\ selected[d] = D[at[d]] /\ at[e] \in 1 .. n /\ selected[e] = D[at[e]]
      BY <2>2
    <3>2. at[d] = at[e]
      BY <2>4, <2>7, <3>1
    <3> QED
      BY <2>2, <3>2
  <2>8. ASSUME ~options.explicit, NEW c
        PROVE  c \in UsableCards(machine, mode) <=> \E d \in Positions : c = Opened(machine, selected[d])
    <3>1. Positions = 1 .. n /\ \A d \in Positions : selected[d] = D[d]
      BY <2>2, <2>8
    <3>2. (\E d \in Positions : c = Opened(machine, selected[d])) <=>
             \E i \in 1 .. n : c = Opened(machine, D[i])
      BY <3>1
    <3> QED
      BY <2>4, <3>2
  <2> QED
    BY <2>6, <2>7, <2>8 DEF OneCardEach, mode
<1> QED
  BY <1>2, <1>3

\* The choice depends on the machine and the options.
LEMMA SameChoice ==
    ASSUME UNCHANGED <<machine, options>>
    PROVE  Chosen' = Chosen /\ (Unavailable' <=> Unavailable)
<1>1. Available' = Available
  BY DEF Available
<1> QED
  BY <1>1 DEF Chosen, Unavailable

\* Whatever runs after the selection leaves it alone.
LEMMA SelectStep ==
    ASSUME SelectInv, [Next]_vars
    PROVE  SelectInv'
<1>1. UNCHANGED <<machine, options>>
  <2>1. CASE \E t \in DOMAIN th : Thread(t) \/ Finish(t)
    BY <2>1, ThreadsKeep
  <2> QED
    BY <2>1 DEF Next, vars, RefuseOptions, Demo, ListDevices, Discover, DiscoveryFails, Select,
                Apply, ApplyThrows, SetupThrows, StartThreads, Join, given
<1>2. ASSUME UNCHANGED selected, pc' \in {"apply", "threads"} => pc \in {"apply", "threads"}
      PROVE  SelectInv'
  BY <1>1, <1>2, SameChoice DEF SelectInv, CardsSelected
<1>3. CASE Select
  <2>1. selected' = Chosen /\ ~SelectionRefused
    BY <1>3 DEF Select
  <2>2. ~Unavailable /\ (~options.no_gpu => options.gpu_mode \in GpuModes)
    BY <2>1 DEF SelectionRefused
  <2> QED
    BY <1>1, <2>1, <2>2, SameChoice DEF SelectInv, CardsSelected
<1>4. CASE UNCHANGED vars
  BY <1>2, <1>4 DEF vars
<1>5. CASE RefuseOptions \/ Demo \/ ListDevices \/ DiscoveryFails \/ ApplyThrows \/ SetupThrows \/ Join
  BY <1>2, <1>5 DEF RefuseOptions, Demo, ListDevices, DiscoveryFails, ApplyThrows, SetupThrows, Join,
                    Return
<1>6. CASE Discover \/ StartThreads
  BY <1>2, <1>6 DEF Discover, StartThreads
<1>7. CASE Apply
  <2>1. UNCHANGED <<selected, pc>>
    BY <1>7 DEF Apply, apply, NothingRequested, Refuse, CheckCard, AllChecked, WriteRegister,
                WriteFails, Restore, RestoreFails, CardDone, AllWritten
  <2> QED
    BY <1>2, <2>1
<1>8. CASE \E t \in DOMAIN th : Thread(t) \/ Finish(t)
  BY <1>2, <1>8, ThreadsKeep
<1> QED
  BY <1>3, <1>4, <1>5, <1>6, <1>7, <1>8 DEF Next

\* The selection is kept.
THEOREM SelectInvariance == Spec => []SelectInv
<1>1. Init => SelectInv
  BY DEF Init, SelectInv
<1>2. SelectInv /\ [Next]_vars => SelectInv'
  BY SelectStep
<1> QED
  BY <1>1, <1>2, PTL DEF Spec

\* "avoid mining the same card twice when multiple ICDs expose it"
\* (docs/ARCHITECTURE.md:106-107; runtime.cpp:144-146, devices.cpp:6-18): for
\* every machine whose usable entries name their cards' addresses exactly, in
\* every mode and for every list of asked devices, no two threads open one
\* card, and without a selection every card the mode takes has a thread.
THEOREM EveryCardMinedOnce == Spec => []EachCardOnce
<1>1. ControlInv /\ SelectInv => EachCardOnce
  <2> SUFFICES ASSUME ControlInv, SelectInv, pc = "threads", AddressesExact(machine)
               PROVE  LET card_of == [d \in Positions |-> Opened(machine, selected[d])]
                      IN /\ \A d, e \in Positions : card_of[d] = card_of[e] => d = e
                         /\ ~options.explicit /\ ~options.no_gpu =>
                              ToSet(card_of) = UsableCards(machine, options.gpu_mode)
    BY DEF EachCardOnce
  <2> DEFINE card_of == [d \in Positions |-> Opened(machine, selected[d])]
  <2>1. OneCardEach
    BY SelectionFacts DEF ControlInv, SelectInv
  <2>2. \A d, e \in Positions : card_of[d] = card_of[e] => d = e
    BY <2>1 DEF OneCardEach
  <2>3. \A c : c \in ToSet(card_of) <=> \E d \in Positions : c = Opened(machine, selected[d])
    BY DEF ToSet
  <2> HIDE DEF card_of
  <2>4. ASSUME ~options.explicit, ~options.no_gpu
        PROVE  ToSet(card_of) = UsableCards(machine, options.gpu_mode)
    BY <2>1, <2>3, <2>4 DEF OneCardEach
  <2> QED
    BY <2>2, <2>4 DEF card_of
<1> QED
  BY <1>1, ControlInvariance, SelectInvariance, PTL

-----------------------------------------------------------------------------
(* The registers hold what was asked *)

\* A list of writes that gives every register one value, once.
OneValueEach(s) ==
    /\ s \in Seq(Writes) /\ IsInjective(s)
    /\ \A v, w \in ToSet(s) : v.reg = w.reg => v = w

\* A card's registers after these writes.
Reflects(h, W) ==
    /\ \A w \in W : h[w.reg] = w.value
    /\ \A r \in Registers : (\A w \in W : w.reg # r) => h[r] = "old"

\* Lists that share no register, joined.
LEMMA JoinValues ==
    ASSUME NEW s, NEW t, OneValueEach(s), OneValueEach(t),
           \A v \in ToSet(s), w \in ToSet(t) : v.reg # w.reg
    PROVE  OneValueEach(s \o t) /\ ToSet(s \o t) = ToSet(s) \cup ToSet(t)
<1>1. s \in Seq(Writes) /\ t \in Seq(Writes) /\ IsInjective(s) /\ IsInjective(t)
  BY DEF OneValueEach
<1>2. ToSet(s) \cap ToSet(t) = {}
  OBVIOUS
<1>3. /\ s \o t \in Seq(Writes)
      /\ ToSet(s \o t) = ToSet(s) \cup ToSet(t)
      /\ IsInjective(s \o t)
  BY <1>1, <1>2, JoinedElements
<1>4. \A v, w \in ToSet(s) \cup ToSet(t) : v.reg = w.reg => v = w
  BY DEF OneValueEach
<1> QED
  BY <1>3, <1>4 DEF OneValueEach

\* No write, or one.
LEMMA OneValue ==
    /\ OneValueEach(<<>>) /\ ToSet(<<>>) = {}
    /\ \A w \in Writes : OneValueEach(<<w>>) /\ ToSet(<<w>>) = {w}
<1>1. OneValueEach(<<>>) /\ ToSet(<<>>) = {}
  BY DEF OneValueEach, ToSet, IsInjective
<1>2. ASSUME NEW w \in Writes PROVE OneValueEach(<<w>>) /\ ToSet(<<w>>) = {w}
  <2>1. <<w>> \in Seq(Writes)
    OBVIOUS
  <2>2. DOMAIN <<w>> = {1} /\ <<w>>[1] = w
    OBVIOUS
  <2>3. ToSet(<<w>>) = {w} /\ IsInjective(<<w>>)
    BY <2>2 DEF ToSet, IsInjective
  <2> QED
    BY <2>1, <2>3 DEF OneValueEach
<1> QED
  BY <1>1, <1>2

\* The writes of a setting of its own.
SingleSet(s, d) == IF Asked(s) THEN {Write(s, NewValue(s, d))} ELSE {}

FanSet(d) == IF Asked("fan") THEN {Write(FanReg(f), NewValue("fan", d)) : f \in 1 .. FanCount} ELSE {}

\* A setting with one register is written at most once, with its new value.
LEMMA SingleValues ==
    ASSUME NEW s \in {"power", "core", "memory"}, NEW d
    PROVE  /\ OneValueEach(Single(s, d)) /\ ToSet(Single(s, d)) = SingleSet(s, d)
           /\ \A w \in SingleSet(s, d) : w \in Writes /\ w.reg = s
<1>1. s \in Registers /\ NewValue(s, d) \in Values
  BY DEF Registers, NewValue, Values
<1>2. Write(s, NewValue(s, d)) \in Writes /\ Write(s, NewValue(s, d)).reg = s
  BY <1>1, WriteType
<1> QED
  BY <1>2, OneValue DEF Single, SingleSet

\* The fans are registers of their own.
LEMMA FanValues ==
    ASSUME NEW d
    PROVE  /\ OneValueEach(NvidiaFans(d)) /\ ToSet(NvidiaFans(d)) = FanSet(d)
           /\ \A w \in FanSet(d) : w \in Writes /\ w.reg \in {"fan1", "fan2"}
<1>1. CASE ~Asked("fan")
  BY <1>1, OneValue DEF NvidiaFans, FanSet
<1>2. CASE Asked("fan")
  <2> DEFINE v == NewValue("fan", d)
             w(f) == Write(FanReg(f), v)
             L == [f \in 1 .. FanCount |-> w(f)]
  <2>1. FanCount \in 1 .. 2 /\ v \in Values
    BY GpuAssumption DEF NewValue, Values
  <2>2. NvidiaFans(d) = L /\ FanSet(d) = {w(f) : f \in 1 .. FanCount}
    BY <1>2 DEF NvidiaFans, FanSet
  <2>3. FanReg(1) = "fan1" /\ FanReg(2) = "fan2"
    BY DEF FanReg
  <2>4. \A f \in 1 .. FanCount : f = 1 \/ f = 2
    BY <2>1
  <2> HIDE DEF v
  <2>5. \A f \in 1 .. FanCount : w(f) \in Writes /\ w(f).reg = FanReg(f)
    <3> SUFFICES ASSUME NEW f \in 1 .. FanCount PROVE w(f) \in Writes /\ w(f).reg = FanReg(f)
      OBVIOUS
    <3>1. FanReg(f) \in Registers
      BY <2>3, <2>4 DEF Registers
    <3> QED
      BY <2>1, <3>1, WriteType
  <2>6. \A f, g \in 1 .. FanCount : w(f).reg = w(g).reg => f = g
    BY <2>3, <2>4, <2>5
  <2> HIDE DEF w
  <2>7. FanCount \in Nat
    BY <2>1
  <2>8. L \in Seq(Writes) /\ DOMAIN L = 1 .. FanCount /\ \A f \in 1 .. FanCount : L[f] = w(f)
    BY <2>5, <2>7
  <2> HIDE DEF L
  <2>9. IsInjective(L)
    BY <2>6, <2>8 DEF IsInjective
  <2>10. \A x : x \in ToSet(L) <=> \E f \in 1 .. FanCount : x = w(f)
    BY <2>8 DEF ToSet
  <2>11. \A x, y \in ToSet(L) : x.reg = y.reg => x = y
    BY <2>6, <2>10
  <2>12. ToSet(L) = FanSet(d)
    BY <2>2, <2>10
  <2>13. \A x \in FanSet(d) : x \in Writes /\ x.reg \in {"fan1", "fan2"}
    BY <2>3, <2>4, <2>5, <2>10, <2>12
  <2> QED
    BY <2>2, <2>8, <2>9, <2>11, <2>12, <2>13 DEF OneValueEach
<1> QED
  BY <1>1, <1>2

\* All writes of an NVIDIA card.
NvidiaSet(d) ==
    SingleSet("power", d) \cup SingleSet("core", d) \cup SingleSet("memory", d) \cup FanSet(d)

\* The plan of an NVIDIA card writes each register once.
LEMMA NvidiaValues ==
    ASSUME NEW d
    PROVE  OneValueEach(NvidiaPlan(d)) /\ ToSet(NvidiaPlan(d)) = NvidiaSet(d)
<1> DEFINE P == Single("power", d)
           C == Single("core", d)
           M == Single("memory", d)
           F == NvidiaFans(d)
<1>1. /\ OneValueEach(P) /\ \A w \in ToSet(P) : w.reg = "power"
      /\ OneValueEach(C) /\ \A w \in ToSet(C) : w.reg = "core"
      /\ OneValueEach(M) /\ \A w \in ToSet(M) : w.reg = "memory"
      /\ ToSet(P) = SingleSet("power", d) /\ ToSet(C) = SingleSet("core", d)
      /\ ToSet(M) = SingleSet("memory", d)
  BY SingleValues
<1>2. OneValueEach(F) /\ ToSet(F) = FanSet(d) /\ \A w \in ToSet(F) : w.reg \in {"fan1", "fan2"}
  BY FanValues
<1>3. NvidiaPlan(d) = ((P \o C) \o M) \o F
  BY DEF NvidiaPlan
<1> HIDE DEF P, C, M, F
<1>4. OneValueEach(P \o C) /\ ToSet(P \o C) = ToSet(P) \cup ToSet(C)
  <2>1. \A v \in ToSet(P), w \in ToSet(C) : v.reg # w.reg
    BY <1>1
  <2> QED
    BY <1>1, <2>1, JoinValues
<1>5. /\ OneValueEach((P \o C) \o M)
      /\ ToSet((P \o C) \o M) = ToSet(P \o C) \cup ToSet(M)
  <2>1. \A v \in ToSet(P \o C), w \in ToSet(M) : v.reg # w.reg
    BY <1>1, <1>4
  <2> QED
    BY <1>1, <1>4, <2>1, JoinValues
<1>6. /\ OneValueEach(((P \o C) \o M) \o F)
      /\ ToSet(((P \o C) \o M) \o F) = ToSet((P \o C) \o M) \cup ToSet(F)
  <2>1. \A v \in ToSet((P \o C) \o M), w \in ToSet(F) : v.reg # w.reg
    <3>1. \A v \in ToSet((P \o C) \o M) : v.reg \in {"power", "core", "memory"}
      BY <1>1, <1>4, <1>5
    <3> QED
      BY <1>2, <3>1
  <2> QED
    BY <1>2, <1>5, <2>1, JoinValues
<1> QED
  BY <1>1, <1>2, <1>3, <1>4, <1>5, <1>6 DEF NvidiaSet

\* The clocks of an AMD card.
AmdClockSet(d) ==
    IF Resets("core", d) \/ Resets("memory", d) THEN {Write("level", "auto")}
    ELSE IF Asked("core") \/ Asked("memory")
    THEN {Write("level", "manual")} \cup SingleSet("core", d) \cup SingleSet("memory", d)
    ELSE {}

\* The clock writes of an AMD card are those of its level and its clocks.
LEMMA AmdClockValues ==
    ASSUME NEW d
    PROVE  /\ OneValueEach(AmdClocks(d)) /\ ToSet(AmdClocks(d)) = AmdClockSet(d)
           /\ \A w \in AmdClockSet(d) : w.reg \in {"level", "core", "memory"}
<1> DEFINE a == Write("level", "auto")
           m == Write("level", "manual")
           L == <<m>>
           C == Single("core", d)
           M == Single("memory", d)
<1>1. a \in Writes /\ a.reg = "level" /\ m \in Writes /\ m.reg = "level"
  <2>1. "level" \in Registers /\ "auto" \in Values /\ "manual" \in Values
    BY DEF Registers, Values
  <2> QED
    BY <2>1, WriteType
<1>2. CASE Resets("core", d) \/ Resets("memory", d)
  <2>1. AmdClocks(d) = <<a>> /\ AmdClockSet(d) = {a}
    BY <1>2 DEF AmdClocks, AmdClockSet
  <2> HIDE DEF a
  <2> QED
    BY <1>1, <2>1, OneValue
<1>3. CASE ~(Resets("core", d) \/ Resets("memory", d)) /\ (Asked("core") \/ Asked("memory"))
  <2>1. /\ AmdClocks(d) = (L \o C) \o M
        /\ AmdClockSet(d) = {m} \cup SingleSet("core", d) \cup SingleSet("memory", d)
    BY <1>3 DEF AmdClocks, AmdClockSet
  <2>2. /\ OneValueEach(C) /\ ToSet(C) = SingleSet("core", d) /\ \A w \in ToSet(C) : w.reg = "core"
        /\ OneValueEach(M) /\ ToSet(M) = SingleSet("memory", d) /\ \A w \in ToSet(M) : w.reg = "memory"
    BY SingleValues
  <2> HIDE DEF m, C, M
  <2>3. OneValueEach(L) /\ ToSet(L) = {m}
    BY <1>1, OneValue
  <2> HIDE DEF L
  <2>4. OneValueEach(L \o C) /\ ToSet(L \o C) = ToSet(L) \cup ToSet(C)
    <3>1. \A v \in ToSet(L), w \in ToSet(C) : v.reg # w.reg
      BY <1>1, <2>2, <2>3
    <3> QED
      BY <2>2, <2>3, <3>1, JoinValues
  <2>5. OneValueEach((L \o C) \o M) /\ ToSet((L \o C) \o M) = ToSet(L \o C) \cup ToSet(M)
    <3>1. \A v \in ToSet(L \o C), w \in ToSet(M) : v.reg # w.reg
      BY <1>1, <2>2, <2>3, <2>4
    <3> QED
      BY <2>2, <2>4, <3>1, JoinValues
  <2>6. ToSet((L \o C) \o M) = AmdClockSet(d)
    BY <2>1, <2>2, <2>3, <2>4, <2>5
  <2>7. \A w \in AmdClockSet(d) : w.reg \in {"level", "core", "memory"}
    BY <1>1, <2>1, <2>2
  <2> QED
    BY <2>1, <2>5, <2>6, <2>7
<1>4. CASE ~(Resets("core", d) \/ Resets("memory", d)) /\ ~(Asked("core") \/ Asked("memory"))
  BY <1>4, OneValue DEF AmdClocks, AmdClockSet
<1> QED
  BY <1>2, <1>3, <1>4

\* The fan of an AMD card.
AmdFanSet(d) ==
    IF Wants("fan", d) THEN {Write("policy", "manual"), Write("duty", "set")}
    ELSE IF Asked("fan") THEN {Write("policy", "auto")} ELSE {}

\* The fan writes of an AMD card are its policy and, if manual, its duty.
LEMMA AmdFanValues ==
    ASSUME NEW d
    PROVE  /\ OneValueEach(AmdFan(d)) /\ ToSet(AmdFan(d)) = AmdFanSet(d)
           /\ \A w \in AmdFanSet(d) : w.reg \in {"policy", "duty"}
<1> DEFINE p == Write("policy", "manual")
           u == Write("duty", "set")
           a == Write("policy", "auto")
<1>1. /\ p \in Writes /\ p.reg = "policy"
      /\ u \in Writes /\ u.reg = "duty"
      /\ a \in Writes /\ a.reg = "policy"
  <2>1. {"policy", "duty"} \subseteq Registers /\ {"manual", "set", "auto"} \subseteq Values
    BY DEF Registers, Values
  <2> QED
    BY <2>1, WriteType
<1>2. CASE Wants("fan", d)
  <2>1. AmdFan(d) = <<p, u>> /\ AmdFanSet(d) = {p, u}
    BY <1>2 DEF AmdFan, AmdFanSet
  <2> HIDE DEF p, u
  <2>2. <<p, u>> \in Seq(Writes) /\ DOMAIN <<p, u>> = {1, 2} /\ <<p, u>>[1] = p /\ <<p, u>>[2] = u
    BY <1>1
  <2>3. ToSet(<<p, u>>) = {p, u} /\ IsInjective(<<p, u>>)
    BY <1>1, <2>2 DEF ToSet, IsInjective
  <2> QED
    BY <1>1, <2>1, <2>2, <2>3 DEF OneValueEach
<1>3. CASE ~Wants("fan", d) /\ Asked("fan")
  <2>1. AmdFan(d) = <<a>> /\ AmdFanSet(d) = {a}
    BY <1>3 DEF AmdFan, AmdFanSet
  <2> HIDE DEF a
  <2> QED
    BY <1>1, <2>1, OneValue
<1>4. CASE ~Wants("fan", d) /\ ~Asked("fan")
  BY <1>4, OneValue DEF AmdFan, AmdFanSet
<1> QED
  BY <1>2, <1>3, <1>4

\* All writes of an AMD card.
AmdSet(d) == SingleSet("power", d) \cup AmdClockSet(d) \cup AmdFanSet(d)

\* The plan of an AMD card writes each register once.
LEMMA AmdValues ==
    ASSUME NEW d
    PROVE  OneValueEach(AmdPlan(d)) /\ ToSet(AmdPlan(d)) = AmdSet(d)
<1> DEFINE P == Single("power", d)
           C == AmdClocks(d)
           F == AmdFan(d)
<1>1. /\ OneValueEach(P) /\ ToSet(P) = SingleSet("power", d) /\ \A w \in ToSet(P) : w.reg = "power"
      /\ OneValueEach(C) /\ ToSet(C) = AmdClockSet(d)
      /\ \A w \in ToSet(C) : w.reg \in {"level", "core", "memory"}
      /\ OneValueEach(F) /\ ToSet(F) = AmdFanSet(d)
      /\ \A w \in ToSet(F) : w.reg \in {"policy", "duty"}
  BY SingleValues, AmdClockValues, AmdFanValues
<1>2. AmdPlan(d) = (P \o C) \o F
  BY DEF AmdPlan
<1> HIDE DEF P, C, F
<1>3. OneValueEach(P \o C) /\ ToSet(P \o C) = ToSet(P) \cup ToSet(C)
  <2>1. \A v \in ToSet(P), w \in ToSet(C) : v.reg # w.reg
    BY <1>1
  <2> QED
    BY <1>1, <2>1, JoinValues
<1>4. OneValueEach((P \o C) \o F) /\ ToSet((P \o C) \o F) = ToSet(P \o C) \cup ToSet(F)
  <2>1. \A v \in ToSet(P \o C), w \in ToSet(F) : v.reg # w.reg
    BY <1>1, <1>3
  <2> QED
    BY <1>1, <1>3, <2>1, JoinValues
<1> QED
  BY <1>1, <1>2, <1>3, <1>4 DEF AmdSet

\* The writes of a card.
PlanSet(d) == IF d \in Amd THEN AmdSet(d) ELSE NvidiaSet(d)

\* No plan writes a register twice.
LEMMA PlanValues ==
    ASSUME NEW d
    PROVE  OneValueEach(Plan(d)) /\ ToSet(Plan(d)) = PlanSet(d)
BY NvidiaValues, AmdValues DEF Plan, PlanSet

\* The value that is asked is the one that is meant.
LEMMA AskedIsMeant ==
    ASSUME controls \in [Settings -> Seq(Nat)], ListsFit \/ ~Requested, N \in Nat,
           NEW s \in Settings, NEW d \in Positions
    PROVE  /\ ~Asked(s) => Meant(s, d) = "old"
           /\ Asked(s) => Meant(s, d) = NewValue(s, d)
           /\ Wants(s, d) <=> Meant(s, d) = "set"
           /\ Resets(s, d) <=> Meant(s, d) = "auto"
<1> DEFINE list == controls[s]
           n == Len(list)
<1>1. list \in Seq(Nat) /\ n \in Nat
  OBVIOUS
<1>2. d \in 1 .. N
  BY DEF Positions
<1>3. ~Asked(s) => Meant(s, d) = "old"
  BY DEF Asked, Meant
<1>4. ASSUME Asked(s) PROVE Meant(s, d) = NewValue(s, d)
  <2>1. ListsFit
    BY <1>4 DEF Requested
  <2>2. n \in {0, 1, N}
    BY <2>1 DEF ListsFit, Broadcasts
  <2>3. n # 0
    BY <1>1, <1>4 DEF Asked
  <2>4. list[IF n = N THEN d ELSE 1] = Value(s, d)
    <3>1. CASE n = 1
      <4>1. n = N => d = 1
        <5>1. n = N => N = 1
          BY <3>1
        <5>2. N = 1 => d = 1
          BY <1>2
        <5> QED
          BY <5>1, <5>2
      <4>2. Value(s, d) = list[1]
        BY <3>1 DEF Value
      <4>3. (IF n = N THEN d ELSE 1) = 1
        BY <4>1
      <4> HIDE DEF list, n
      <4> QED
        BY <4>2, <4>3
    <3>2. CASE n # 1
      BY <2>2, <2>3, <3>2 DEF Value
    <3> QED
      BY <3>1, <3>2
  <2> QED
    BY <1>4, <2>4 DEF Asked, Meant, NewValue
<1> QED
  BY <1>3, <1>4 DEF Wants, Resets, NewValue

\* A register of which the plan says something, and one of which it does not.
LEMMA PlainRegister ==
    ASSUME NEW h, NEW W, Reflects(h, W), NEW s \in {"power", "core", "memory"}, NEW d,
           SingleSet(s, d) \subseteq W, \A w \in W : w.reg = s => w \in SingleSet(s, d)
    PROVE  h[s] = IF Asked(s) THEN NewValue(s, d) ELSE "old"
<1>1. s \in Registers /\ NewValue(s, d) \in Values
  BY DEF Registers, NewValue, Values
<1>2. CASE Asked(s)
  <2>1. Write(s, NewValue(s, d)) \in W
    BY <1>2 DEF SingleSet
  <2>2. Write(s, NewValue(s, d)).reg = s /\ Write(s, NewValue(s, d)).value = NewValue(s, d)
    BY <1>1, WriteType
  <2> QED
    BY <1>2, <2>1, <2>2 DEF Reflects
<1>3. CASE ~Asked(s)
  <2>1. \A w \in W : w.reg # s
    BY <1>3 DEF SingleSet
  <2> QED
    BY <1>1, <1>3, <2>1 DEF Reflects
<1> QED
  BY <1>2, <1>3

\* An NVIDIA card after all its writes.
LEMMA NvidiaHolds ==
    ASSUME NEW d, NEW c, c \notin AmdCards, Reflects(hw[c], NvidiaSet(d)), NEW s \in Settings
    PROVE  Holds(s, c, IF Asked(s) THEN NewValue(s, d) ELSE "old")
<1> DEFINE W == NvidiaSet(d)
           h == hw[c]
           v == IF Asked(s) THEN NewValue(s, d) ELSE "old"
<1>1. /\ \A w \in SingleSet("power", d) : w.reg = "power"
      /\ \A w \in SingleSet("core", d) : w.reg = "core"
      /\ \A w \in SingleSet("memory", d) : w.reg = "memory"
  BY SingleValues
<1>2. \A w \in FanSet(d) : w.reg \in {"fan1", "fan2"}
  BY FanValues
<1>3. CASE s # "fan"
  <2>1. s \in {"power", "core", "memory"}
    BY <1>3 DEF Settings
  <2>2. /\ SingleSet(s, d) \subseteq W
        /\ \A w \in W : w.reg = s => w \in SingleSet(s, d)
    BY <1>1, <1>2, <2>1 DEF NvidiaSet
  <2> HIDE DEF W
  <2>3. Reflects(h, W)
    BY DEF W
  <2>4. h[s] = v
    BY <2>1, <2>2, <2>3, PlainRegister
  <2>5. Holds(s, c, v) <=> hw[c][s] = v
    BY <1>3 DEF Holds
  <2> QED
    BY <2>4, <2>5
<1>4. CASE s = "fan"
  <2>1. ASSUME NEW f \in 1 .. FanCount PROVE h[FanReg(f)] = v
    <3>1. f \in {1, 2}
      BY GpuAssumption
    <3>2. FanReg(1) = "fan1" /\ FanReg(2) = "fan2"
      BY DEF FanReg
    <3>3. FanReg(f) \in Registers /\ FanReg(f) \in {"fan1", "fan2"} /\ NewValue("fan", d) \in Values
      BY <3>1, <3>2 DEF Registers, NewValue, Values
    <3>4. CASE Asked("fan")
      <4>1. Write(FanReg(f), NewValue("fan", d)) \in W
        BY <3>4 DEF NvidiaSet, FanSet
      <4>2. /\ Write(FanReg(f), NewValue("fan", d)).reg = FanReg(f)
            /\ Write(FanReg(f), NewValue("fan", d)).value = NewValue("fan", d)
        BY <3>3, WriteType
      <4>3. h[FanReg(f)] = NewValue("fan", d)
        BY <4>1, <4>2 DEF Reflects
      <4> QED
        BY <1>4, <3>4, <4>3
    <3>5. CASE ~Asked("fan")
      <4>1. \A w \in W : w.reg # FanReg(f)
        BY <1>1, <3>3, <3>5 DEF NvidiaSet, FanSet
      <4>2. h[FanReg(f)] = "old"
        BY <3>3, <4>1 DEF Reflects
      <4> QED
        BY <1>4, <3>5, <4>2
    <3> QED
      BY <3>4, <3>5
  <2>2. Holds("fan", c, v) <=> \A f \in 1 .. FanCount : hw[c][FanReg(f)] = v
    BY DEF Holds
  <2> QED
    BY <1>4, <2>1, <2>2
<1> QED
  BY <1>3, <1>4

\* An AMD card after all its writes.
LEMMA AmdHolds ==
    ASSUME NEW d, NEW c \in AmdCards, Reflects(hw[c], AmdSet(d)), ~MixedClocks(d), NEW s \in Settings
    PROVE  Holds(s, c, IF Asked(s) THEN NewValue(s, d) ELSE "old")
<1> DEFINE W == AmdSet(d)
           h == hw[c]
           v == IF Asked(s) THEN NewValue(s, d) ELSE "old"
<1>1. /\ \A w \in SingleSet("power", d) : w.reg = "power"
      /\ \A w \in SingleSet("core", d) : w.reg = "core"
      /\ \A w \in SingleSet("memory", d) : w.reg = "memory"
      /\ \A w \in AmdClockSet(d) : w.reg \in {"level", "core", "memory"}
      /\ \A w \in AmdFanSet(d) : w.reg \in {"policy", "duty"}
  BY SingleValues, AmdClockValues, AmdFanValues
<1>2. {"power", "core", "memory", "level", "policy", "duty"} \subseteq Registers
  BY DEF Registers
<1>3. \A r \in Registers, x \in Values : Write(r, x).reg = r /\ Write(r, x).value = x
  BY WriteType
<1>4. {"auto", "manual", "set", "old"} \subseteq Values
  BY DEF Values
<1>5. Asked(s) => v = IF Resets(s, d) THEN "auto" ELSE "set"
  BY DEF NewValue, Resets
<1>6. CASE s = "power"
  <2>1. /\ SingleSet(s, d) \subseteq W
        /\ \A w \in W : w.reg = s => w \in SingleSet(s, d)
    BY <1>1, <1>6 DEF AmdSet
  <2> HIDE DEF W
  <2>2. Reflects(h, W)
    BY DEF W
  <2>3. h[s] = v
    BY <1>6, <2>1, <2>2, PlainRegister
  <2>4. Holds(s, c, v) <=> hw[c][s] = v
    BY <1>6 DEF Holds
  <2> QED
    BY <2>3, <2>4
<1>7. CASE s = "fan"
  <2>1. Holds(s, c, v) <=> IF v = "set" THEN h["duty"] = v ELSE h["policy"] = v /\ h["duty"] = "old"
    BY <1>7 DEF Holds
  <2>2. CASE Wants("fan", d)
    <3>1. v = "set"
      BY <1>7, <2>2 DEF NewValue, Wants
    <3>2. Write("duty", "set") \in W
      BY <2>2 DEF AmdSet, AmdFanSet
    <3>3. h["duty"] = "set"
      BY <1>2, <1>3, <1>4, <3>2 DEF Reflects
    <3> QED
      BY <2>1, <3>1, <3>3
  <2>3. CASE ~Wants("fan", d) /\ Asked("fan")
    <3>1. v = "auto"
      BY <1>7, <2>3 DEF NewValue, Wants
    <3>2. AmdFanSet(d) = {Write("policy", "auto")}
      BY <2>3 DEF AmdFanSet
    <3>3. h["policy"] = "auto"
      BY <1>2, <1>3, <1>4, <3>2 DEF Reflects, AmdSet
    <3>4. \A w \in W : w.reg # "duty"
      BY <1>1, <1>2, <1>3, <1>4, <3>2 DEF AmdSet
    <3>5. h["duty"] = "old"
      BY <1>2, <3>4 DEF Reflects
    <3> QED
      BY <2>1, <3>1, <3>3, <3>5
  <2>4. CASE ~Asked("fan")
    <3>1. v = "old" /\ AmdFanSet(d) = {}
      BY <1>7, <2>4 DEF AmdFanSet, Wants
    <3>2. \A w \in W : w.reg # "duty" /\ w.reg # "policy"
      BY <1>1, <3>1 DEF AmdSet
    <3>3. h["duty"] = "old" /\ h["policy"] = "old"
      BY <1>2, <3>2 DEF Reflects
    <3> QED
      BY <2>1, <3>1, <3>3
  <2> QED
    BY <2>2, <2>3, <2>4
<1>8. CASE s \in {"core", "memory"}
  <2>1. Holds(s, c, v) <=> IF v = "auto" THEN h["level"] = v /\ h[s] = "old" ELSE h[s] = v
    BY <1>8 DEF Holds
  <2>2. CASE Resets("core", d) \/ Resets("memory", d)
    <3>1. AmdClockSet(d) = {Write("level", "auto")}
      BY <2>2 DEF AmdClockSet
    <3>2. h["level"] = "auto"
      BY <1>2, <1>3, <1>4, <3>1 DEF Reflects, AmdSet
    <3>3. \A w \in W : w.reg # s
      BY <1>1, <1>2, <1>3, <1>4, <1>8, <3>1 DEF AmdSet
    <3>4. h[s] = "old"
      BY <1>2, <1>8, <3>3 DEF Reflects
    <3>5. ~Wants(s, d)
      BY <1>8, <2>2 DEF MixedClocks
    <3>6. v \in {"auto", "old"}
      BY <3>5 DEF NewValue, Wants
    <3> QED
      BY <2>1, <3>2, <3>4, <3>6
  <2>3. CASE ~(Resets("core", d) \/ Resets("memory", d))
    <3>1. v # "auto"
      BY <1>5, <1>8, <2>3
    <3>2. /\ SingleSet(s, d) \subseteq W
          /\ \A w \in W : w.reg = s => w \in SingleSet(s, d)
      <4>1. CASE Asked("core") \/ Asked("memory")
        <5>1. AmdClockSet(d) = {Write("level", "manual")} \cup SingleSet("core", d)
                                  \cup SingleSet("memory", d)
          BY <2>3, <4>1 DEF AmdClockSet
        <5>2. Write("level", "manual").reg = "level"
          BY <1>2, <1>3, <1>4
        <5> QED
          BY <1>1, <1>8, <5>1, <5>2 DEF AmdSet
      <4>2. CASE ~Asked("core") /\ ~Asked("memory")
        <5>1. AmdClockSet(d) = {} /\ SingleSet(s, d) = {}
          BY <1>8, <2>3, <4>2 DEF AmdClockSet, SingleSet
        <5> QED
          BY <1>1, <1>8, <5>1 DEF AmdSet
      <4> QED
        BY <4>1, <4>2
    <3> HIDE DEF W
    <3>3. Reflects(h, W)
      BY DEF W
    <3>4. h[s] = v
      BY <1>8, <3>2, <3>3, PlainRegister
    <3> QED
      BY <2>1, <3>1, <3>4
  <2> QED
    BY <2>2, <2>3
<1> QED
  BY <1>6, <1>7, <1>8 DEF Settings

\* The writes of a card that were done.
WritesDone(d) ==
    IF stage = "applied" \/ d < card THEN PlanSet(d)
    ELSE IF d = card THEN {Plan(d)[i] : i \in 1 .. step} ELSE {}

\* Every card's registers show its writes, and no other card was touched.
HardwareShows ==
    /\ \A d \in Positions : Reflects(hw[Handle(d)], WritesDone(d))
    /\ \A c \in Cards \ {Handle(d) : d \in Positions} : hw[c] = Old
    /\ stage = "write" /\ card <= N => step <= Len(Plan(card))
    /\ ~Requested \/ EveryCardAcceptable

\* On a machine with exact addresses apply() has written what it should have,
\* at each of its steps, and no thread starts before it has returned.
WriteInv ==
    /\ pc = "threads" => stage = "applied"
    /\ pc \in {"apply", "threads"} /\ AddressesExact(machine) /\ stage \in {"write", "applied"} =>
          HardwareShows

\* What is asked, and of which cards, does not change after the selection.
LEMMA SameWrites ==
    ASSUME UNCHANGED <<selected, controls>>
    PROVE  /\ \A d : PlanSet(d)' = PlanSet(d)
           /\ Requested' <=> Requested
<1>1. ASSUME NEW d PROVE PlanSet(d)' = PlanSet(d)
  <2>1. PlanSet(d) = ToSet(Plan(d))
    BY PlanValues
  <2>2. ASSUME NEW s PROVE Value(s, d)' = Value(s, d) /\ (Asked(s)' <=> Asked(s))
    BY DEF Value, Asked
  <2>3. ASSUME NEW s
        PROVE  /\ SingleSet(s, d)' = SingleSet(s, d)
               /\ Wants(s, d)' <=> Wants(s, d)
               /\ Resets(s, d)' <=> Resets(s, d)
               /\ NewValue(s, d)' = NewValue(s, d)
    BY <2>2 DEF SingleSet, Wants, Resets, NewValue, Write
  <2>4. FanSet(d)' = FanSet(d)
    BY <2>2, <2>3 DEF FanSet, Write, FanReg
  <2>5. AmdClockSet(d)' = AmdClockSet(d) /\ AmdFanSet(d)' = AmdFanSet(d)
    BY <2>2, <2>3 DEF AmdClockSet, AmdFanSet, Write
  <2>6. Amd' = Amd
    BY DEF Amd, Positions, N
  <2> QED
    BY <2>3, <2>4, <2>5, <2>6 DEF PlanSet, AmdSet, NvidiaSet
<1> QED
  BY <1>1 DEF Requested, Asked

\* No writes were done on cards nobody touched.
LEMMA NothingShows ==
    ASSUME Untouched, NEW c \in Cards
    PROVE  Reflects(hw[c], {})
BY DEF Untouched, Reflects, Old

\* Another write, to a register the others left alone.
LEMMA OneWriteShows ==
    ASSUME NEW h \in [Registers -> Values], NEW g \in [Registers -> Values], NEW w \in Writes, NEW W,
           Reflects(h, W), \A v \in W : v \in Writes /\ v.reg # w.reg,
           g[w.reg] = w.value, \A r \in Registers : r # w.reg => g[r] = h[r]
    PROVE  Reflects(g, W \cup {w})
<1>1. w.reg \in Registers /\ \A v \in W : v.reg \in Registers
  BY DEF Writes
<1>2. ASSUME NEW v \in W \cup {w} PROVE g[v.reg] = v.value
  BY <1>1 DEF Reflects
<1>3. ASSUME NEW r \in Registers, \A v \in W \cup {w} : v.reg # r PROVE g[r] = "old"
  BY <1>3 DEF Reflects
<1> QED
  BY <1>2, <1>3 DEF Reflects

\* Steps that write nothing and keep the account of the writes.
LEMMA ShowsSame ==
    ASSUME HardwareShows, UNCHANGED <<selected, controls, hw>>,
           \A d \in Positions : WritesDone(d)' = WritesDone(d),
           (stage = "write" /\ card <= N)' => (step <= Len(Plan(card)))'
    PROVE  HardwareShows'
<1>1. /\ N' = N /\ Positions' = Positions
      /\ \A d : Handle(d)' = Handle(d)
      /\ \A d : Acceptable(d)' <=> Acceptable(d)
      /\ ListsFit' <=> ListsFit
  BY SameChecks
<1>2. Requested' <=> Requested
  BY SameWrites
<1>3. EveryCardAcceptable' <=> EveryCardAcceptable
  BY <1>1 DEF EveryCardAcceptable
<1>4. \A d \in Positions' : Reflects(hw[Handle(d)], WritesDone(d))'
  <2> SUFFICES ASSUME NEW d \in Positions PROVE Reflects(hw[Handle(d)], WritesDone(d))'
    BY <1>1
  <2>1. Reflects(hw[Handle(d)], WritesDone(d))
    BY DEF HardwareShows
  <2>2. hw[Handle(d)]' = hw[Handle(d)] /\ WritesDone(d)' = WritesDone(d)
    BY <1>1
  <2> QED
    BY <2>1, <2>2 DEF Reflects
<1>5. \A c \in Cards \ {Handle(d)' : d \in Positions'} : hw'[c] = Old
  BY <1>1 DEF HardwareShows
<1> QED
  BY <1>2, <1>3, <1>4, <1>5 DEF HardwareShows

\* A register is written.
LEMMA ShowsWrite ==
    ASSUME ControlInv, OneCardEach, HardwareShows, WriteRegister
    PROVE  HardwareShows'
<1>1. /\ stage = "write" /\ card <= N /\ step < Len(Plan(card))
      /\ UNCHANGED <<selected, controls, stage, card>>
      /\ step' = step + 1
      /\ hw' = [hw EXCEPT ![Handle(card)][NextWrite.reg] = NextWrite.value]
  BY DEF WriteRegister, Writing
<1>2. N \in Nat /\ card \in Nat \ {0} /\ step \in Nat /\ hw \in [Cards -> [Registers -> Values]]
  BY DEF ControlInv
<1>3. card \in Positions
  BY <1>1, <1>2 DEF Positions
<1>4. /\ N' = N /\ Positions' = Positions
      /\ \A d : Handle(d)' = Handle(d)
      /\ \A d : Acceptable(d)' <=> Acceptable(d)
      /\ ListsFit' <=> ListsFit
  BY <1>1, SameChecks
<1>5. (Requested' <=> Requested) /\ \A d : PlanSet(d)' = PlanSet(d)
  BY <1>1, SameWrites
<1>6. \A d : Plan(d)' = Plan(d)
  BY <1>1, SamePlan
<1>7. Plan(card) \in Seq(Writes) /\ IsInjective(Plan(card))
      /\ \A v, w \in ToSet(Plan(card)) : v.reg = w.reg => v = w
  BY PlanValues DEF OneValueEach
<1> DEFINE P == Plan(card)
           H == Handle(card)
           w == P[step + 1]
<1> HIDE DEF P
<1>8. P \in Seq(Writes) /\ Len(P) \in Nat /\ DOMAIN P = 1 .. Len(P)
  BY <1>7 DEF P
<1>9. step + 1 \in 1 .. Len(P) /\ \A i \in 1 .. step : i \in 1 .. Len(P) /\ i # step + 1
  BY <1>1, <1>2, <1>8 DEF P
<1>10. w \in Writes /\ \A i \in 1 .. step : P[i] \in Writes /\ P[i].reg # w.reg
  <2>1. w \in Writes /\ \A i \in 1 .. step : P[i] \in Writes
    BY <1>8, <1>9
  <2>2. ASSUME NEW i \in 1 .. step, P[i].reg = w.reg PROVE FALSE
    <3>1. P[i] \in ToSet(P) /\ w \in ToSet(P)
      BY <1>8, <1>9 DEF ToSet
    <3>2. P[i] = w
      BY <1>7, <2>2, <3>1 DEF P
    <3>3. i = step + 1
      BY <1>7, <1>8, <1>9, <3>2 DEF IsInjective, P
    <3> QED
      BY <1>9, <3>3
  <2> QED
    BY <2>1, <2>2
<1>11. NextWrite = w
  BY DEF NextWrite, P
<1>12. H \in Cards /\ \A d \in Positions : Handle(d) \in Cards /\ (Handle(d) = H => d = card)
  BY <1>3 DEF OneCardEach
<1> HIDE DEF w, H
<1>13. w.reg \in Registers /\ w.value \in Values
  BY <1>10 DEF Writes
<1>14. /\ hw' \in [Cards -> [Registers -> Values]]
       /\ hw'[H][w.reg] = w.value
       /\ \A q \in Registers : q # w.reg => hw'[H][q] = hw[H][q]
       /\ \A c \in Cards : c # H => hw'[c] = hw[c]
  <2>1. hw' = [hw EXCEPT ![H][w.reg] = w.value]
    BY <1>1, <1>11 DEF H
  <2> QED
    BY <1>2, <1>12, <1>13, <2>1, OneRegister
<1>15. ASSUME NEW d \in Positions PROVE Reflects(hw[Handle(d)], WritesDone(d))'
  <2>1. Reflects(hw[Handle(d)], WritesDone(d))
    BY DEF HardwareShows
  <2>2. CASE d = card
    <3> DEFINE W == {P[i] : i \in 1 .. step}
               V == {P[i] : i \in 1 .. step + 1}
    <3>1. ~(card < card)
      BY <1>2
    <3>2. WritesDone(d) = W /\ WritesDone(d)' = V
      <4>1. WritesDone(d) = W
        BY <1>1, <2>2, <3>1 DEF WritesDone, P
      <4>2. Plan(d)' = P
        BY <1>6, <2>2 DEF P
      <4>3. WritesDone(d)' = {Plan(d)'[i] : i \in 1 .. step'}
        BY <1>1, <2>2, <3>1 DEF WritesDone
      <4> QED
        BY <1>1, <4>1, <4>2, <4>3
    <3>3. V = W \cup {w}
      <4>1. \A i \in 1 .. step + 1 : i \in 1 .. step \/ i = step + 1
        BY <1>2
      <4>2. \A i \in 1 .. step : i \in 1 .. step + 1
        BY <1>2
      <4>3. step + 1 \in 1 .. step + 1
        BY <1>2
      <4> QED
        BY <4>1, <4>2, <4>3 DEF w
    <3>4. Reflects(hw[H], W)
      BY <2>1, <2>2, <3>2 DEF H
    <3>5. hw[H] \in [Registers -> Values] /\ hw'[H] \in [Registers -> Values]
      BY <1>2, <1>12, <1>14
    <3>6. \A v \in W : v \in Writes /\ v.reg # w.reg
      BY <1>10
    <3> HIDE DEF W, V
    <3>7. Reflects(hw'[H], W \cup {w})
      BY <1>10, <1>14, <3>4, <3>5, <3>6, OneWriteShows
    <3>8. hw[Handle(d)]' = hw'[H]
      BY <1>4, <2>2 DEF H
    <3> QED
      BY <3>2, <3>3, <3>7, <3>8 DEF Reflects
  <2>3. CASE d # card
    <3>1. Handle(d) \in Cards /\ Handle(d) # H
      BY <1>12, <2>3
    <3>2. hw[Handle(d)]' = hw[Handle(d)]
      BY <1>4, <1>14, <3>1
    <3>3. WritesDone(d)' = WritesDone(d)
      BY <1>1, <1>5, <2>3 DEF WritesDone
    <3> QED
      BY <2>1, <3>2, <3>3 DEF Reflects
  <2> QED
    BY <2>2, <2>3
<1>16. \A c \in Cards \ {Handle(d)' : d \in Positions'} : hw'[c] = Old
  <2> SUFFICES ASSUME NEW c \in Cards, \A d \in Positions : c # Handle(d) PROVE hw'[c] = Old
    BY <1>4
  <2>1. hw[c] = Old
    BY DEF HardwareShows
  <2>2. c # H
    BY <1>3 DEF H
  <2> QED
    BY <1>14, <2>1, <2>2
<1>17. (step <= Len(Plan(card)))'
  <2>1. Plan(card)' = P
    BY <1>1, <1>6 DEF P
  <2>2. step' <= Len(P)
    BY <1>1, <1>2, <1>8, <1>9
  <2> QED
    BY <2>1, <2>2
<1>18. EveryCardAcceptable' <=> EveryCardAcceptable
  BY <1>4 DEF EveryCardAcceptable
<1>19. ~Requested' \/ EveryCardAcceptable'
  BY <1>5, <1>18 DEF HardwareShows
<1>20. \A d \in Positions' : Reflects(hw[Handle(d)], WritesDone(d))'
  BY <1>4, <1>15
<1> QED
  BY <1>16, <1>17, <1>19, <1>20 DEF HardwareShows

\* Before the first write.
LEMMA ShowsNothing ==
    ASSUME ControlInv, OneCardEach, stage = "check", UNCHANGED <<selected, controls, hw>>,
           \A d \in Positions : WritesDone(d)' = {},
           (stage = "write" /\ card <= N)' => (step <= Len(Plan(card)))',
           ~Requested \/ EveryCardAcceptable
    PROVE  HardwareShows'
<1>1. Untouched
  BY DEF ControlInv
<1>2. /\ N' = N /\ Positions' = Positions
      /\ \A d : Handle(d)' = Handle(d)
      /\ \A d : Acceptable(d)' <=> Acceptable(d)
      /\ ListsFit' <=> ListsFit
  BY SameChecks
<1>3. Requested' <=> Requested
  BY SameWrites
<1>4. EveryCardAcceptable' <=> EveryCardAcceptable
  BY <1>2 DEF EveryCardAcceptable
<1>5. ASSUME NEW d \in Positions PROVE Reflects(hw[Handle(d)], WritesDone(d))'
  <2>1. Handle(d) \in Cards
    BY DEF OneCardEach
  <2>2. Reflects(hw[Handle(d)], {})
    BY <1>1, <2>1, NothingShows
  <2>3. hw[Handle(d)]' = hw[Handle(d)] /\ WritesDone(d)' = {}
    BY <1>2
  <2> QED
    BY <2>2, <2>3 DEF Reflects
<1>6. \A c \in Cards \ {Handle(d)' : d \in Positions'} : hw'[c] = Old
  BY <1>1 DEF Untouched
<1>7. \A d \in Positions' : Reflects(hw[Handle(d)], WritesDone(d))'
  BY <1>2, <1>5
<1> QED
  BY <1>3, <1>4, <1>6, <1>7 DEF HardwareShows

\* Nothing is written where nothing is asked.
LEMMA NothingAsked ==
    ASSUME ~Requested, NEW d
    PROVE  PlanSet(d) = {}
<1>1. ~Asked("power") /\ ~Asked("core") /\ ~Asked("memory") /\ ~Asked("fan")
  BY DEF Requested, Settings
<1> QED
  BY <1>1 DEF PlanSet, AmdSet, NvidiaSet, SingleSet, FanSet, AmdClockSet, AmdFanSet, Wants, Resets

\* Each step of apply().
LEMMA WriteApply ==
    ASSUME ControlInv, SelectInv, WriteInv, Apply
    PROVE  WriteInv'
<1>1. pc = "apply" /\ UNCHANGED <<machine, options, work, pc>> /\ apply
  BY DEF Apply
<1>2. UNCHANGED <<selected, controls>>
  BY <1>1 DEF apply, NothingRequested, Refuse, CheckCard, AllChecked, WriteRegister, WriteFails,
              Restore, RestoreFails, CardDone, AllWritten
<1>3. AddressesExact(machine)' <=> AddressesExact(machine)
  BY <1>1 DEF AddressesExact
<1> SUFFICES ASSUME AddressesExact(machine), stage' \in {"write", "applied"} PROVE HardwareShows'
  BY <1>1, <1>3 DEF WriteInv
<1>4. OneCardEach
  BY <1>1, SelectionFacts DEF ControlInv, SelectInv
<1>5. stage \in {"write", "applied"} => HardwareShows
  BY <1>1 DEF WriteInv
<1>6. N \in Nat /\ card \in Nat \ {0} /\ step \in Nat
  BY DEF ControlInv
<1>7. N' = N /\ Positions' = Positions /\ \A d \in Positions : d \in 1 .. N /\ d \in Nat
  BY <1>2, <1>6, SameChecks DEF Positions
<1>8. (\A d : PlanSet(d)' = PlanSet(d)) /\ (\A d : Plan(d)' = Plan(d))
  BY <1>2, SameWrites, SamePlan
<1>9. CASE NothingRequested
  <2>1. stage = "check" /\ stage' = "applied" /\ hw' = hw /\ ~Requested
    BY <1>9 DEF NothingRequested
  <2>2. \A d : WritesDone(d)' = {}
    BY <1>8, <2>1, NothingAsked DEF WritesDone
  <2> QED
    BY <1>2, <1>4, <2>1, <2>2, ShowsNothing
<1>10. CASE Refuse \/ CheckCard \/ WriteFails \/ Restore \/ RestoreFails
  BY <1>10 DEF Refuse, CheckCard, WriteFails, Restore, RestoreFails
<1>11. CASE AllChecked
  <2>1. stage = "check" /\ stage' = "write" /\ hw' = hw /\ card' = 1 /\ step' = step /\ card = N + 1
        /\ ListsFit
    BY <1>11 DEF AllChecked
  <2>2. step' = 0 /\ \A d \in 1 .. card - 1 : d <= N => Acceptable(d)
    BY <2>1 DEF ControlInv
  <2>3. EveryCardAcceptable
    <3>1. \A d \in 1 .. N : d \in 1 .. card - 1 /\ d <= N
      BY <1>6, <2>1
    <3> QED
      BY <2>1, <2>2, <3>1 DEF EveryCardAcceptable, Positions
  <2>4. \A d \in Positions : WritesDone(d)' = {}
    <3> SUFFICES ASSUME NEW d \in Positions PROVE WritesDone(d)' = {}
      OBVIOUS
    <3>1. ~(d < card') /\ 1 .. step' = {} /\ stage' # "applied"
      BY <1>7, <2>1, <2>2
    <3> QED
      BY <3>1 DEF WritesDone
  <2>5. (step <= Len(Plan(card)))'
    <3>1. Len(Plan(card)') \in Nat
      <4>1. Plan(card') \in Seq(Writes)
        BY PlanValues DEF OneValueEach
      <4>2. Plan(card)' = Plan(card')
        BY <1>8, <2>1
      <4> QED
        BY <4>1, <4>2
    <3> QED
      BY <2>2, <3>1
  <2> QED
    BY <1>2, <1>4, <2>1, <2>3, <2>4, <2>5, ShowsNothing
<1>12. CASE WriteRegister
  <2>1. stage = "write"
    BY <1>12 DEF WriteRegister, Writing
  <2> QED
    BY <1>4, <1>5, <1>12, <2>1, ShowsWrite
<1>13. CASE CardDone
  <2>1. /\ stage = "write" /\ stage' = "write" /\ card <= N /\ step = Len(Plan(card))
        /\ card' = card + 1 /\ step' = 0 /\ hw' = hw
    BY <1>13 DEF CardDone
  <2>2. ASSUME NEW d \in Positions PROVE WritesDone(d)' = WritesDone(d)
    <3>1. d \in Nat
      BY <1>7
    <3>2. CASE d < card
      <4>1. d < card'
        BY <1>6, <2>1, <3>1, <3>2
      <4> QED
        BY <1>8, <3>2, <4>1 DEF WritesDone
    <3>3. CASE d = card
      <4>1. d < card' /\ ~(d < card)
        BY <1>6, <2>1, <3>3
      <4>2. WritesDone(d)' = PlanSet(d)
        BY <1>8, <4>1 DEF WritesDone
      <4>3. WritesDone(d) = {Plan(d)[i] : i \in 1 .. Len(Plan(d))}
        BY <2>1, <3>3, <4>1 DEF WritesDone
      <4>4. Plan(d) \in Seq(Writes) /\ ToSet(Plan(d)) = PlanSet(d)
        BY PlanValues DEF OneValueEach
      <4>5. DOMAIN Plan(d) = 1 .. Len(Plan(d))
        BY <4>4
      <4> QED
        BY <4>2, <4>3, <4>4, <4>5 DEF ToSet
    <3>4. CASE card < d
      <4>1. ~(d < card) /\ ~(d = card) /\ ~(d < card')
        BY <1>6, <2>1, <3>1, <3>4
      <4>2. WritesDone(d) = {}
        BY <2>1, <4>1 DEF WritesDone
      <4>3. 1 .. step' = {} /\ stage' # "applied"
        BY <2>1
      <4> QED
        BY <4>1, <4>2, <4>3 DEF WritesDone
    <3> QED
      BY <1>6, <3>1, <3>2, <3>3, <3>4
  <2>3. (step <= Len(Plan(card)))'
    <3>1. Plan(card') \in Seq(Writes)
      BY PlanValues DEF OneValueEach
    <3>2. Plan(card)' = Plan(card')
      BY <1>8, <2>1
    <3>3. Len(Plan(card)') \in Nat
      BY <3>1, <3>2
    <3> QED
      BY <2>1, <3>3
  <2> QED
    BY <1>2, <1>5, <2>1, <2>2, <2>3, ShowsSame
<1>14. CASE AllWritten
  <2>1. stage = "write" /\ stage' = "applied" /\ card = N + 1 /\ UNCHANGED <<hw, card, step>>
    BY <1>14 DEF AllWritten
  <2>2. ASSUME NEW d \in Positions PROVE WritesDone(d)' = WritesDone(d)
    <3>1. d < card
      BY <1>6, <1>7, <2>1
    <3> QED
      BY <1>8, <2>1, <3>1 DEF WritesDone
  <2> QED
    BY <1>2, <1>5, <2>1, <2>2, ShowsSame
<1> QED
  BY <1>1, <1>9, <1>10, <1>11, <1>12, <1>13, <1>14 DEF apply

\* Steps of the program that are none of apply().
LEMMA WriteSame ==
    ASSUME WriteInv, UNCHANGED <<selected, controls, applyVars, machine>>,
           pc' = "threads" => stage = "applied" /\ pc \in {"apply", "threads"},
           pc' = "apply" => pc = "apply"
    PROVE  WriteInv'
<1>1. UNCHANGED <<hw, stage, card, step>>
  BY DEF applyVars
<1>2. AddressesExact(machine)' <=> AddressesExact(machine)
  BY DEF AddressesExact
<1>3. (\A d : PlanSet(d)' = PlanSet(d)) /\ (\A d : Plan(d)' = Plan(d)) /\ N' = N
  BY SameWrites, SamePlan, SameChecks
<1>4. \A d : WritesDone(d)' = WritesDone(d)
  BY <1>1, <1>3 DEF WritesDone
<1>5. Plan(card)' = Plan(card)
  BY <1>1, <1>3
<1>6. HardwareShows => HardwareShows'
  <2> SUFFICES ASSUME HardwareShows PROVE HardwareShows'
    OBVIOUS
  <2>1. (stage = "write" /\ card <= N)' => (step <= Len(Plan(card)))'
    BY <1>1, <1>3, <1>5 DEF HardwareShows
  <2> QED
    BY <1>1, <1>4, <2>1, ShowsSame
<1> QED
  BY <1>1, <1>2, <1>6 DEF WriteInv

\* Every step keeps the account of the writes.
LEMMA WriteStep ==
    ASSUME ControlInv, SelectInv, WriteInv, [Next]_vars
    PROVE  WriteInv'
<1>1. CASE UNCHANGED vars
  BY <1>1, WriteSame DEF vars, applyVars, WriteInv
<1>2. CASE RefuseOptions \/ Demo \/ ListDevices \/ Discover \/ DiscoveryFails \/ ApplyThrows
           \/ SetupThrows \/ Join
  <2>1. UNCHANGED <<selected, controls, applyVars, machine>> /\ pc' \in {"exit", "discover"}
    BY <1>2 DEF RefuseOptions, Demo, ListDevices, Discover, DiscoveryFails, ApplyThrows,
                SetupThrows, Join, Return, given
  <2> QED
    BY <2>1, WriteSame
<1>3. CASE StartThreads
  <2>1. /\ UNCHANGED <<selected, controls, applyVars, machine>>
        /\ pc = "apply" /\ stage = "applied" /\ pc' = "threads"
    BY <1>3 DEF StartThreads, given
  <2> QED
    BY <2>1, WriteSame
<1>4. CASE Select
  BY <1>4 DEF Select, WriteInv
<1>5. CASE Apply
  BY <1>5, WriteApply
<1>6. CASE \E t \in DOMAIN th : Thread(t) \/ Finish(t)
  <2>1. /\ UNCHANGED <<selected, controls, applyVars, machine>>
        /\ pc = "threads" /\ pc' = "threads"
    BY <1>6, ThreadsKeep
  <2> QED
    BY <2>1, WriteSame DEF WriteInv
<1> QED
  BY <1>1, <1>2, <1>3, <1>4, <1>5, <1>6 DEF Next

\* The account of the writes is right.
THEOREM WriteInvariance == Spec => []WriteInv
<1>1. Init => WriteInv
  BY DEF Init, WriteInv
<1>2. ControlInv /\ SelectInv /\ WriteInv /\ [Next]_vars => WriteInv'
  BY WriteStep
<1> QED
  BY <1>1, <1>2, ControlInvariance, SelectInvariance, PTL DEF Spec

\* Per-card values follow the selection order, and "unsupported operations and
\* permission failures are errors, not success messages"
\* (docs/OPERATIONS.md:46-48, 58): for any number of cards of both vendors and
\* any lists of values, when threads run, the card that the d-th of them will
\* open holds the d-th value of every option, and no other card was touched.
THEOREM ControlsAppliedAsAsked == Spec => []AppliedAsAsked
<1>1. ControlInv /\ SelectInv /\ WriteInv => AppliedAsAsked
  <2> SUFFICES ASSUME ControlInv, SelectInv, WriteInv, pc = "threads", AddressesExact(machine)
               PROVE  /\ \A d \in Positions : Opened(machine, selected[d]) \in Cards
                      /\ \A d \in Positions, s \in Settings :
                            Holds(s, Opened(machine, selected[d]), Meant(s, d))
                      /\ \A c \in Cards \ {Opened(machine, selected[d]) : d \in Positions} :
                            hw[c] = Old
    BY DEF AppliedAsAsked
  <2>1. OneCardEach
    BY SelectionFacts DEF ControlInv, SelectInv
  <2>2. HardwareShows /\ stage = "applied"
    BY DEF WriteInv
  <2>3. GivenScenario /\ N \in Nat
    BY DEF ControlInv
  <2>4. controls \in [Settings -> Seq(Nat)]
    BY <2>3, ScenarioFacts
  <2>5. ListsFit \/ ~Requested
    BY <2>2 DEF HardwareShows, EveryCardAcceptable
  <2>6. ASSUME NEW d \in Positions, NEW s \in Settings PROVE Holds(s, Handle(d), Meant(s, d))
    <3> DEFINE v == IF Asked(s) THEN NewValue(s, d) ELSE "old"
    <3>1. Meant(s, d) = v
      BY <2>3, <2>4, <2>5, AskedIsMeant
    <3>2. Reflects(hw[Handle(d)], PlanSet(d))
      <4>1. Reflects(hw[Handle(d)], WritesDone(d))
        BY <2>2 DEF HardwareShows
      <4>2. WritesDone(d) = PlanSet(d)
        BY <2>2 DEF WritesDone
      <4> QED
        BY <4>1, <4>2
    <3>3. selected[d].amd = (Handle(d) \in AmdCards) /\ Handle(d) \in Cards
      BY <2>1 DEF OneCardEach
    <3>4. d \in Amd <=> Handle(d) \in AmdCards
      BY <3>3 DEF Amd
    <3>5. CASE Handle(d) \in AmdCards
      <4>1. PlanSet(d) = AmdSet(d)
        BY <3>4, <3>5 DEF PlanSet
      <4>2. ~MixedClocks(d)
        <5>1. CASE ~Requested
          BY <5>1 DEF MixedClocks, Resets, Requested, Settings
        <5>2. CASE Requested
          BY <2>2, <3>4, <3>5, <5>2 DEF HardwareShows, EveryCardAcceptable, Acceptable
        <5> QED
          BY <5>1, <5>2
      <4>3. Holds(s, Handle(d), v)
        BY <3>2, <3>5, <4>1, <4>2, AmdHolds
      <4> QED
        BY <3>1, <4>3
    <3>6. CASE Handle(d) \notin AmdCards
      <4>1. PlanSet(d) = NvidiaSet(d)
        BY <3>4, <3>6 DEF PlanSet
      <4>2. Holds(s, Handle(d), v)
        BY <3>2, <3>6, <4>1, NvidiaHolds
      <4> QED
        BY <3>1, <4>2
    <3> QED
      BY <3>5, <3>6
  <2>7. \A d \in Positions : Handle(d) = Opened(machine, selected[d]) /\ Handle(d) \in Cards
    BY <2>1 DEF OneCardEach
  <2>8. \A c \in Cards \ {Handle(d) : d \in Positions} : hw[c] = Old
    BY <2>2 DEF HardwareShows
  <2> QED
    BY <2>6, <2>7, <2>8
<1> QED
  BY <1>1, ControlInvariance, SelectInvariance, WriteInvariance, PTL

-----------------------------------------------------------------------------
(* Powers *)

\* The loop of Power.
PowersWith(f, b, n) ==
    /\ f \in [0 .. n -> Nat]
    /\ f[0] = 1
    /\ \A k \in 1 .. n : f[k] = b * f[k - 1]
    /\ Power(b, n) = f[n]

\* Power computes the product its loop builds factor by factor.
LEMMA PowerLoop ==
    ASSUME NEW b \in Nat, NEW n \in Nat
    PROVE  \E f : PowersWith(f, b, n)
<1> DEFINE Step(x) == b * x
           Loop(g) == g = [k \in 0 .. n |-> IF k = 0 THEN 1 ELSE Step(g[k - 1])]
           G == [p \in (1 .. n) \X Nat |-> Step(p[2])]
           c == CHOOSE g : Loop(g)
<1>1. \A x \in Nat : Step(x) \in Nat
  OBVIOUS
<1>2. Power(b, n) = c[n]
  BY DEF Power
<1> HIDE DEF Step
<1>3. G \in Steps(n, Nat)
  BY <1>1 DEF Steps
<1>4. \A k \in 1 .. n : \A x \in Nat : G[<<k, x>>] = Step(x)
  OBVIOUS
<1> HIDE DEF G
<1>5. PICK f : IsRunOf(f, Nat, 1, n, G)
  <2>1. 1 \in Nat
    OBVIOUS
  <2> QED  BY <1>3, <2>1, Iterate, Zenon
<1>6. f \in [0 .. n -> Nat] /\ f[0] = 1 /\ \A k \in 1 .. n : f[k] = Step(f[k - 1])
  <2>1. f \in [0 .. n -> Nat] /\ f[0] = 1 /\ \A i \in 1 .. n : f[i] = G[<<i, f[i - 1]>>]
    BY <1>5 DEF IsRunOf
  <2>2. \A k \in 1 .. n : k - 1 \in 0 .. n
    OBVIOUS
  <2> QED  BY <1>4, <2>1, <2>2
<1>7. Loop(f)
  <2>1. \A i \in 0 .. n : i = 0 \/ i \in 1 .. n
    OBVIOUS
  <2> QED  BY <1>6, <2>1
<1>8. Loop(c)
  <2> HIDE DEF Loop
  <2> QED  BY <1>7
<1> HIDE DEF c
<1>9. /\ c = [k \in 0 .. n |-> c[k]] /\ c[0] = 1
      /\ \A k \in 1 .. n : c[k] = Step(c[k - 1])
  <2>1. 0 \in 0 .. n /\ \A k \in 1 .. n : k \in 0 .. n /\ k # 0
    OBVIOUS
  <2> QED  BY <1>8, <2>1
<1>10. \A k \in 0 .. n : c[k] \in Nat
  <2> DEFINE T == {k \in 0 .. n : c[k] \in Nat}
  <2>0. 0 \in T
    BY <1>9
  <2>1. ASSUME NEW k \in 1 .. n, k - 1 \in T PROVE k \in T
    <3>1. k \in 0 .. n /\ c[k - 1] \in Nat
      BY <2>1
    <3> QED  BY <1>1, <1>9, <3>1
  <2> HIDE DEF T
  <2>2. \A k \in 0 .. n : k \in T
    BY <2>0, <2>1, Upwards
  <2> QED  BY <2>2 DEF T
<1>11. c \in [0 .. n -> Nat]
  BY <1>9, <1>10
<1> QED
  BY <1>2, <1>9, <1>11 DEF PowersWith, Step

\* The two equations of a power.
LEMMA PowerSteps ==
    ASSUME NEW b \in Nat
    PROVE  /\ Power(b, 0) = 1
           /\ \A n \in Nat : Power(b, n) \in Nat /\ Power(b, n + 1) = b * Power(b, n)
<1>1. Power(b, 0) = 1
  <2>1. PICK f : PowersWith(f, b, 0)
    BY PowerLoop
  <2> QED  BY <2>1 DEF PowersWith
<1>2. ASSUME NEW n \in Nat PROVE Power(b, n) \in Nat /\ Power(b, n + 1) = b * Power(b, n)
  <2>0. n + 1 \in Nat
    OBVIOUS
  <2>1. PICK f : PowersWith(f, b, n)
    BY PowerLoop
  <2>2. PICK g : PowersWith(g, b, n + 1)
    BY <2>0, PowerLoop
  <2> DEFINE T == {k \in 0 .. n : f[k] = g[k]}
  <2>3. 0 \in T
    BY <2>1, <2>2 DEF PowersWith
  <2>4. ASSUME NEW k \in 1 .. n, k - 1 \in T PROVE k \in T
    <3>1. k \in 0 .. n /\ k \in 1 .. n + 1
      OBVIOUS
    <3>2. f[k] = b * f[k - 1] /\ g[k] = b * g[k - 1]
      BY <2>1, <2>2, <3>1 DEF PowersWith
    <3> QED  BY <2>4, <3>1, <3>2
  <2> HIDE DEF T
  <2>5. n \in T
    BY <2>3, <2>4, Upwards
  <2>6. n + 1 \in 1 .. n + 1 /\ (n + 1) - 1 = n /\ n \in 0 .. n
    OBVIOUS
  <2>7. g[n + 1] = b * g[n]
    BY <2>2, <2>6 DEF PowersWith
  <2>8. f[n] \in Nat /\ Power(b, n) = f[n] /\ Power(b, n + 1) = g[n + 1]
    BY <2>1, <2>2, <2>6 DEF PowersWith
  <2> QED
    BY <2>5, <2>7, <2>8 DEF T
<1> QED
  BY <1>1, <1>2

\* Powers of a positive number are positive.
LEMMA PowerPositive ==
    ASSUME NEW b \in Nat \ {0}, NEW n \in Nat
    PROVE  Power(b, n) \in Nat \ {0}
<1> DEFINE T == {k \in 0 .. n : Power(b, k) \in Nat \ {0}}
<1>1. 0 \in T
  BY PowerSteps
<1>2. ASSUME NEW k \in 1 .. n, k - 1 \in T PROVE k \in T
  <2>1. k - 1 \in Nat /\ (k - 1) + 1 = k /\ k \in 0 .. n
    OBVIOUS
  <2> DEFINE p == Power(b, k - 1)
  <2>2. p \in Nat \ {0}
    BY <1>2
  <2>3. Power(b, k) = b * p
    BY <2>1, PowerSteps
  <2> HIDE DEF p
  <2>4. b * p \in Nat /\ b * p # 0
    BY <2>2
  <2> QED  BY <2>1, <2>3, <2>4
<1> HIDE DEF T
<1>3. n \in T
  BY <1>1, <1>2, Upwards
<1> QED
  BY <1>3 DEF T

\* The power of a sum.
LEMMA PowerSum ==
    ASSUME NEW b \in Nat \ {0}, NEW m \in Nat, NEW n \in Nat
    PROVE  Power(b, m + n) = Power(b, m) * Power(b, n)
<1> DEFINE T == {k \in 0 .. n : Power(b, m + k) = Power(b, m) * Power(b, k)}
<1>0. \A k \in Nat : Power(b, k) \in Nat
  BY PowerSteps
<1>1. 0 \in T
  <2>1. m + 0 = m /\ Power(b, m) * 1 = Power(b, m)
    BY <1>0
  <2> QED  BY <2>1, PowerSteps
<1>2. ASSUME NEW k \in 1 .. n, k - 1 \in T PROVE k \in T
  <2> DEFINE p == Power(b, m)
             q == Power(b, k - 1)
             r == Power(b, m + (k - 1))
  <2>1. k - 1 \in Nat /\ (k - 1) + 1 = k /\ k \in 0 .. n
        /\ m + (k - 1) \in Nat /\ (m + (k - 1)) + 1 = m + k
    OBVIOUS
  <2>2. p \in Nat /\ q \in Nat /\ r \in Nat
    BY <1>0, <2>1
  <2>3. r = p * q
    BY <1>2
  <2>4. Power(b, k) = b * q
    BY <2>1, PowerSteps
  <2>5. Power(b, m + k) = b * r
    BY <2>1, PowerSteps
  <2> HIDE DEF p, q, r
  <2>6. b * (p * q) = p * (b * q)
    BY <2>2
  <2>7. Power(b, m + k) = p * Power(b, k)
    BY <2>3, <2>4, <2>5, <2>6
  <2> QED  BY <2>1, <2>7 DEF p
<1> HIDE DEF T
<1>3. n \in T
  BY <1>1, <1>2, Upwards
<1> QED
  BY <1>3 DEF T

\* Powers of a positive number do not decrease.
LEMMA PowerGrows ==
    ASSUME NEW b \in Nat \ {0}, NEW m \in Nat, NEW n \in Nat, m <= n
    PROVE  Power(b, m) <= Power(b, n)
<1> DEFINE p == Power(b, m)
           q == Power(b, n - m)
<1>1. n - m \in Nat /\ m + (n - m) = n
  OBVIOUS
<1>2. p \in Nat \ {0} /\ q \in Nat \ {0}
  BY <1>1, PowerPositive
<1>3. Power(b, n) = p * q
  BY <1>1, PowerSum
<1> HIDE DEF p, q
<1>4. p <= p * q
  BY <1>2
<1> QED
  BY <1>3, <1>4 DEF p

-----------------------------------------------------------------------------
(* Products and quotients *)

\* A product grows with a factor, strictly if the other one is positive.
LEMMA ProductGrows ==
    ASSUME NEW x \in Nat, NEW y \in Nat, NEW z \in Nat
    PROVE  /\ x <= y => x * z <= y * z
           /\ x < y => x * z + z <= y * z
           /\ x * z \in Nat
<1>1. x * z \in Nat /\ y * z \in Nat
  OBVIOUS
<1>2. ASSUME x <= y PROVE x * z <= y * z
  <2>1. PICK d \in Nat : y = x + d
    <3>1. y - x \in Nat /\ y = x + (y - x)
      BY <1>2
    <3> QED  BY <3>1
  <2>2. (x + d) * z = x * z + d * z /\ d * z \in Nat
    OBVIOUS
  <2> QED  BY <1>1, <2>1, <2>2
<1>3. ASSUME x < y PROVE x * z + z <= y * z
  <2>1. PICK d \in Nat : y = (x + 1) + d
    <3>1. y - x - 1 \in Nat /\ y = (x + 1) + (y - x - 1)
      BY <1>3
    <3> QED  BY <3>1
  <2>2. ((x + 1) + d) * z = x * z + z + d * z /\ d * z \in Nat
    OBVIOUS
  <2> QED  BY <1>1, <2>1, <2>2
<1> QED
  BY <1>1, <1>2, <1>3

\* A positive factor can be cancelled.
LEMMA Cancel ==
    ASSUME NEW x \in Nat, NEW y \in Nat, NEW z \in Nat \ {0}
    PROVE  x * z <= y * z <=> x <= y
<1>1. x <= y => x * z <= y * z
  BY ProductGrows
<1>2. y < x => y * z + z <= x * z
  BY ProductGrows
<1>3. x * z \in Nat /\ y * z \in Nat
  OBVIOUS
<1> QED
  BY <1>1, <1>2, <1>3

\* Quotient and remainder.
LEMMA Division ==
    ASSUME NEW a \in Nat, NEW d \in Nat \ {0}, NEW q, NEW r, q = a \div d, r = a % d
    PROVE  /\ q \in Nat /\ r \in 0 .. d - 1
           /\ q * d + r = a
<1>1. q \in Nat /\ r \in 0 .. d - 1
  OBVIOUS
<1>2. a - d * q = r
  OBVIOUS
<1>3. q * d = d * q /\ q * d \in Nat
  BY <1>1
<1> QED
  BY <1>1, <1>2, <1>3

\* The quotient is the number it lies between.
LEMMA Quotient ==
    ASSUME NEW a \in Nat, NEW d \in Nat \ {0}, NEW q \in Nat,
           q * d <= a, a < q * d + d
    PROVE  a \div d = q
<1> DEFINE w == a \div d
<1>1. w \in Nat /\ w * d <= a /\ a < w * d + d
  <2> DEFINE r == a % d
  <2>1. w \in Nat /\ r \in 0 .. d - 1 /\ w * d + r = a
    BY Division
  <2> HIDE DEF w, r
  <2>2. w * d \in Nat
    BY <2>1, ProductGrows
  <2> QED  BY <2>1, <2>2
<1> HIDE DEF w
<1>2. w * d \in Nat /\ q * d \in Nat
  BY <1>1, ProductGrows
<1>3. w < q => w * d + d <= q * d
  BY <1>1, ProductGrows
<1>4. q < w => q * d + d <= w * d
  BY <1>1, ProductGrows
<1>5. w = q
  BY <1>1, <1>2, <1>3, <1>4
<1> QED
  BY <1>5 DEF w

\* A number is at most the quotient if its product is at most the dividend.
LEMMA BelowQuotient ==
    ASSUME NEW a \in Nat, NEW d \in Nat \ {0}, NEW x \in Nat
    PROVE  x <= a \div d <=> x * d <= a
<1> DEFINE w == a \div d
           r == a % d
<1>1. w \in Nat /\ r \in 0 .. d - 1 /\ w * d + r = a
  BY Division
<1> HIDE DEF w, r
<1>2. w * d \in Nat /\ x * d \in Nat
  BY <1>1, ProductGrows
<1>3. x <= w => x * d <= w * d
  BY <1>1, ProductGrows
<1>4. w < x => w * d + d <= x * d
  BY <1>1, ProductGrows
<1>5. x <= w <=> x * d <= a
  BY <1>1, <1>2, <1>3, <1>4
<1> QED
  BY <1>5 DEF w

\* Dividing twice.
LEMMA DivideTwice ==
    ASSUME NEW x \in Nat, NEW p \in Nat \ {0}, NEW b \in Nat \ {0}
    PROVE  x \div (b * p) = (x \div p) \div b
<1> DEFINE q == x \div p
           r == x % p
           u == q \div b
           v == q % b
<1>1. q \in Nat /\ r \in 0 .. p - 1 /\ q * p + r = x
  BY Division
<1> HIDE DEF q, r
<1>2. u \in Nat /\ v \in 0 .. b - 1 /\ u * b + v = q
  BY <1>1, Division
<1> HIDE DEF u, v
<1>3. b * p \in Nat \ {0}
  OBVIOUS
<1>4. (u * b + v) * p = u * (b * p) + v * p
  BY <1>2
<1>5. v * p + p <= b * p /\ v * p \in Nat
  BY <1>2, ProductGrows
<1>6. u * (b * p) \in Nat
  BY <1>2, <1>3, ProductGrows
<1>7. x = u * (b * p) + (v * p + r)
  BY <1>1, <1>2, <1>4, <1>5, <1>6
<1>8. u * (b * p) <= x /\ x < u * (b * p) + (b * p)
  <2> DEFINE z == u * (b * p)
             y == b * p
             w == v * p
  <2> HIDE DEF z, y, w
  <2>1. z \in Nat /\ y \in Nat /\ w \in Nat /\ w + p <= y /\ x = z + (w + r)
    BY <1>3, <1>5, <1>6, <1>7 DEF z, y, w
  <2>2. z <= x /\ x < z + y
    BY <1>1, <2>1
  <2> QED  BY <2>2 DEF z, y
<1>9. x \div (b * p) = u
  BY <1>2, <1>3, <1>8, Quotient
<1> QED
  BY <1>9 DEF u, q

\* A multiple is divided without a remainder.
LEMMA DivideMultiple ==
    ASSUME NEW x \in Nat, NEW p \in Nat \ {0}
    PROVE  (x * p) \div p = x /\ (x * p) % p = 0
<1>1. x * p \in Nat /\ x * p <= x * p /\ x * p < x * p + p
  BY ProductGrows
<1>2. (x * p) \div p = x
  BY <1>1, Quotient
<1> DEFINE r == (x * p) % p
<1>3. r \in 0 .. p - 1 /\ x * p + r = x * p
  BY <1>1, <1>2, Division
<1> HIDE DEF r
<1>4. r = 0
  BY <1>1, <1>3
<1> QED
  BY <1>2, <1>4 DEF r

-----------------------------------------------------------------------------
(* Numbers and their digits *)

\* The loop of Number.
CountsWith(f, s) ==
    /\ f \in [0 .. Len(s) -> Nat]
    /\ f[0] = 0
    /\ \A k \in 1 .. Len(s) : f[k] = f[k - 1] * Base + s[k]
    /\ Number(s) = f[Len(s)]

\* Number computes the value its loop reads digit by digit.
LEMMA NumberLoop ==
    ASSUME NEW s \in Seq(Bytes)
    PROVE  \E f : CountsWith(f, s)
<1> DEFINE n == Len(s)
           Step(k, x) == x * Base + s[k]
           Loop(g) == g = [k \in 0 .. n |-> IF k = 0 THEN 0 ELSE Step(k, g[k - 1])]
           G == [p \in (1 .. n) \X Nat |-> Step(p[1], p[2])]
           c == CHOOSE g : Loop(g)
<1>0. n \in Nat /\ Base \in Nat /\ 0 \in Nat
  BY TargetsAssumption
<1>1. ASSUME NEW k \in 1 .. n, NEW x \in Nat PROVE Step(k, x) \in Nat
  <2>1. s[k] \in Nat
    BY <1>0 DEF Bytes
  <2>2. x * Base \in Nat
    BY <1>0
  <2> QED  BY <2>1, <2>2
<1>2. Number(s) = c[n]
  BY DEF Number
<1> HIDE DEF Step, n
<1>3. G \in Steps(n, Nat)
  BY <1>1 DEF Steps
<1>4. \A k \in 1 .. n : \A x \in Nat : G[<<k, x>>] = Step(k, x)
  OBVIOUS
<1> HIDE DEF G
<1>5. PICK f : IsRunOf(f, Nat, 0, n, G)
  BY <1>0, <1>3, Iterate, Zenon
<1>6. f \in [0 .. n -> Nat] /\ f[0] = 0 /\ \A k \in 1 .. n : f[k] = Step(k, f[k - 1])
  <2>1. f \in [0 .. n -> Nat] /\ f[0] = 0 /\ \A i \in 1 .. n : f[i] = G[<<i, f[i - 1]>>]
    BY <1>5 DEF IsRunOf
  <2>2. \A k \in 1 .. n : k - 1 \in 0 .. n
    BY <1>0
  <2> QED  BY <1>4, <2>1, <2>2
<1>7. Loop(f)
  <2>1. \A i \in 0 .. n : i = 0 \/ i \in 1 .. n
    BY <1>0
  <2> QED  BY <1>6, <2>1
<1>8. Loop(c)
  <2> HIDE DEF Loop
  <2> QED  BY <1>7
<1> HIDE DEF c
<1>9. /\ c = [k \in 0 .. n |-> c[k]] /\ c[0] = 0
      /\ \A k \in 1 .. n : c[k] = Step(k, c[k - 1])
  <2>1. 0 \in 0 .. n /\ \A k \in 1 .. n : k \in 0 .. n /\ k # 0
    BY <1>0
  <2> QED  BY <1>8, <2>1
<1>10. \A k \in 0 .. n : c[k] \in Nat
  <2> DEFINE T == {k \in 0 .. n : c[k] \in Nat}
  <2>0. 0 \in T
    BY <1>0, <1>9
  <2>1. ASSUME NEW k \in 1 .. n, k - 1 \in T PROVE k \in T
    <3>1. k \in 0 .. n /\ c[k - 1] \in Nat
      BY <1>0, <2>1
    <3> QED  BY <1>1, <1>9, <3>1
  <2> HIDE DEF T
  <2>2. \A k \in 0 .. n : k \in T
    BY <1>0, <2>0, <2>1, Upwards
  <2> QED  BY <2>2 DEF T
<1>11. c \in [0 .. n -> Nat]
  BY <1>9, <1>10
<1> QED
  BY <1>2, <1>9, <1>11 DEF CountsWith, Step, n

\* Numbers with one more digit are compared by the rest first.
LEMMA OneMoreDigit ==
    ASSUME NEW x \in Nat, NEW y \in Nat, NEW a \in Bytes, NEW b \in Bytes
    PROVE  /\ x > y => x * Base + a > y * Base + b
           /\ x = y => (x * Base + a > y * Base + b <=> a > b)
           /\ x * Base + a = y * Base + b <=> x = y /\ a = b
<1>0. Base \in Nat /\ a \in 0 .. Base - 1 /\ b \in 0 .. Base - 1
  BY TargetsAssumption DEF Bytes
<1> DEFINE u == x * Base
           v == y * Base
<1>1. u \in Nat /\ v \in Nat
  BY <1>0
<1>2. x > y => v + Base <= u
  BY <1>0, ProductGrows
<1>3. y > x => u + Base <= v
  BY <1>0, ProductGrows
<1>4. x = y => u = v
  OBVIOUS
<1> HIDE DEF u, v
<1>5. /\ x > y => u + a > v + b
      /\ x = y => (u + a > v + b <=> a > b)
      /\ u + a = v + b <=> x = y /\ a = b
  BY <1>0, <1>1, <1>2, <1>3, <1>4
<1> QED
  BY <1>5 DEF u, v

\* The first digit in which two lists differ is larger in a.
Above(a, b, n) ==
    \E p \in 1 .. n : b[p] < a[p] /\ \A q \in 1 .. p - 1 : a[q] = b[q]

\* Digits are compared as the numbers they make.
LEMMA DigitsCompare ==
    ASSUME NEW n \in Nat, NEW a \in Seq(Bytes), NEW b \in Seq(Bytes),
           Len(a) = n, Len(b) = n
    PROVE  Number(a) <= Number(b) <=> ~Above(a, b, n)
<1>1. PICK f : CountsWith(f, a)
  BY NumberLoop
<1>2. PICK g : CountsWith(g, b)
  BY NumberLoop
<1> DEFINE Same(k) == \A q \in 1 .. k : a[q] = b[q]
           T == {k \in 0 .. n : (f[k] > g[k] <=> Above(a, b, k)) /\ (f[k] = g[k] <=> Same(k))}
<1>3. 0 \in T
  <2>1. f[0] = 0 /\ g[0] = 0 /\ 0 \in 0 .. n
    BY <1>1, <1>2 DEF CountsWith
  <2>2. ~Above(a, b, 0) /\ Same(0)
    BY DEF Above
  <2> QED  BY <2>1, <2>2
<1>4. ASSUME NEW k \in 1 .. n, k - 1 \in T PROVE k \in T
  <2>0. k \in 0 .. n /\ k - 1 \in 0 .. n /\ k \in Nat
    OBVIOUS
  <2> DEFINE x == f[k - 1]
             y == g[k - 1]
  <2>1. x \in Nat /\ y \in Nat /\ a[k] \in Bytes /\ b[k] \in Bytes
    BY <1>1, <1>2, <2>0 DEF CountsWith
  <2>2. f[k] = x * Base + a[k] /\ g[k] = y * Base + b[k]
    BY <1>1, <1>2, <2>0 DEF CountsWith
  <2>3. (x > y <=> Above(a, b, k - 1)) /\ (x = y <=> Same(k - 1))
    BY <1>4
  <2> HIDE DEF x, y
  <2>4. f[k] \in Nat /\ g[k] \in Nat
    BY <1>1, <1>2, <2>0 DEF CountsWith
  <2>5. f[k] = g[k] <=> x = y /\ a[k] = b[k]
    BY <2>1, <2>2, OneMoreDigit
  <2>6. f[k] > g[k] <=> x > y \/ (x = y /\ a[k] > b[k])
    <3>1. /\ x > y => f[k] > g[k]
          /\ x = y => (f[k] > g[k] <=> a[k] > b[k])
          /\ y > x => g[k] > f[k]
      BY <2>1, <2>2, OneMoreDigit
    <3> QED  BY <2>1, <2>4, <3>1
  <2>7. a[k] \in Nat /\ b[k] \in Nat
    BY <2>1, TargetsAssumption DEF Bytes
  <2>8. Same(k) <=> Same(k - 1) /\ a[k] = b[k]
    <3>1. \A q \in 1 .. k : q = k \/ q \in 1 .. k - 1
      OBVIOUS
    <3>2. k \in 1 .. k /\ \A q \in 1 .. k - 1 : q \in 1 .. k
      OBVIOUS
    <3> QED  BY <3>1, <3>2
  <2>9. Above(a, b, k) <=> Above(a, b, k - 1) \/ (Same(k - 1) /\ a[k] > b[k])
    <3>1. \A q \in 1 .. k : q = k \/ q \in 1 .. k - 1
      OBVIOUS
    <3>2. k \in 1 .. k /\ \A q \in 1 .. k - 1 : q \in 1 .. k
      OBVIOUS
    <3>3. b[k] < a[k] <=> a[k] > b[k]
      BY <2>7
    <3> QED  BY <3>1, <3>2, <3>3 DEF Above
  <2> HIDE DEF Same
  <2> QED
    BY <2>0, <2>3, <2>5, <2>6, <2>8, <2>9
<1> HIDE DEF T, Same
<1>5. n \in T
  <2>1. \A k \in 0 .. n : k \in T
    BY <1>3, <1>4, Upwards, Zenon
  <2> QED  BY <2>1
<1>6. Number(a) = f[n] /\ Number(b) = g[n] /\ f[n] \in Nat /\ g[n] \in Nat
  BY <1>1, <1>2 DEF CountsWith
<1> QED
  BY <1>5, <1>6 DEF T

\* A hash is a list of its bytes.
LEMMA HashIsList ==
    ASSUME NEW h \in Hashes
    PROVE  /\ h \in Seq(Bytes) /\ Len(h) = HashBytes
           /\ SubSeq(h, 1, HighBytes) \in Seq(Bytes)
           /\ Len(SubSeq(h, 1, HighBytes)) = HighBytes
           /\ \A p \in 1 .. HighBytes : SubSeq(h, 1, HighBytes)[p] = h[p]
<1>1. HashBytes \in Nat /\ HighBytes \in 1 .. HashBytes
  BY TargetsAssumption
<1>2. h \in Seq(Bytes) /\ Len(h) = HashBytes
  BY <1>1 DEF Hashes
<1> QED
  BY <1>1, <1>2

\* The comparison by bytes is the comparison of the numbers, and the test of
\* the high words never drops what meets the target.
LEMMA MeetsCompares ==
    ASSUME NEW h \in Hashes, NEW t \in Hashes
    PROVE  /\ meets(h, t) <=> Number(h) <= Number(t)
           /\ meets(h, t) => High(h) <= High(t)
<1>0. HashBytes \in Nat /\ HighBytes \in 1 .. HashBytes /\ HighBytes \in Nat
  BY TargetsAssumption
<1>1. meets(h, t) <=> ~Above(h, t, HashBytes)
  BY DEF meets, Above
<1>2. Number(h) <= Number(t) <=> ~Above(h, t, HashBytes)
  BY <1>0, HashIsList, DigitsCompare
<1> DEFINE a == SubSeq(h, 1, HighBytes)
           b == SubSeq(t, 1, HighBytes)
<1>3. /\ a \in Seq(Bytes) /\ Len(a) = HighBytes /\ b \in Seq(Bytes) /\ Len(b) = HighBytes
      /\ \A p \in 1 .. HighBytes : a[p] = h[p] /\ b[p] = t[p]
  BY HashIsList
<1>4. Number(a) <= Number(b) <=> ~Above(a, b, HighBytes)
  <2> HIDE DEF a, b
  <2> QED  BY <1>0, <1>3, DigitsCompare
<1>5. Above(a, b, HighBytes) => Above(h, t, HashBytes)
  <2> HIDE DEF a, b
  <2>1. /\ \A p \in 1 .. HighBytes : p \in 1 .. HashBytes
        /\ \A p \in 1 .. HighBytes : \A q \in 1 .. p - 1 : q \in 1 .. HighBytes
    BY <1>0
  <2> QED  BY <1>3, <2>1 DEF Above
<1> QED
  BY <1>1, <1>2, <1>4, <1>5 DEF High

-----------------------------------------------------------------------------
(* Targets are exact *)

\* Powers of the base.
LEMMA BasePowers ==
    /\ Base \in Nat \ {0} /\ HashBytes \in Nat /\ HashBytes >= 4
    /\ \A n \in Nat : Power(Base, n) \in Nat \ {0}
    /\ Power(Base, 0) = 1
    /\ \A n \in Nat : Power(Base, n + 1) = Base * Power(Base, n)
    /\ \A m, n \in Nat : Power(Base, m + n) = Power(Base, m) * Power(Base, n)
<1>1. Base \in Nat \ {0} /\ HashBytes \in Nat /\ HashBytes >= 4
  BY TargetsAssumption
<1> QED
  BY <1>1, PowerPositive, PowerSteps, PowerSum

\* A digit of a number.
LEMMA ByteType ==
    ASSUME NEW x \in Nat, NEW i \in Nat
    PROVE  Byte(x, i) \in Bytes
<1> DEFINE y == x \div Power(Base, i)
           r == y % Base
<1>1. y \in Nat
  BY BasePowers, Division
<1> HIDE DEF y
<1>2. r \in 0 .. Base - 1
  BY <1>1, BasePowers, Division
<1> QED
  BY <1>2 DEF Byte, Bytes, y

\* The digits of a number are a hash.
LEMMA ToBytesType ==
    ASSUME NEW x \in Nat
    PROVE  ToBytes(x) \in Hashes
<1>1. \A p \in 1 .. HashBytes : HashBytes - p \in Nat
  BY BasePowers
<1>2. \A p \in 1 .. HashBytes : Byte(x, HashBytes - p) \in Bytes
  BY <1>1, ByteType
<1> QED
  BY <1>2 DEF ToBytes, Hashes

\* A number that fits is the number of its digits.
LEMMA NumberOfBytes ==
    ASSUME NEW x \in Nat, x < Power(Base, HashBytes)
    PROVE  Number(ToBytes(x)) = x
<1> DEFINE n == HashBytes
           s == ToBytes(x)
<1>0. n \in Nat
  BY BasePowers
<1>1. s \in Seq(Bytes) /\ Len(s) = n
  BY ToBytesType, HashIsList
<1>2. \A p \in 1 .. n : s[p] = (x \div Power(Base, n - p)) % Base
  BY DEF ToBytes, Byte
<1> HIDE DEF s
<1>3. PICK f : CountsWith(f, s)
  BY <1>1, NumberLoop
<1> DEFINE T == {k \in 0 .. n : f[k] = x \div Power(Base, n - k)}
<1>4. 0 \in T
  <2>1. f[0] = 0 /\ n - 0 = n /\ 0 \in 0 .. n
    BY <1>0, <1>3 DEF CountsWith
  <2> DEFINE P == Power(Base, n)
  <2>2. P \in Nat \ {0} /\ x < P
    BY <1>0, BasePowers
  <2> HIDE DEF P
  <2>3. 0 * P <= x /\ x < 0 * P + P
    BY <2>2
  <2>4. x \div P = 0
    BY <2>2, <2>3, Quotient
  <2> QED  BY <2>1, <2>4 DEF P
<1>5. ASSUME NEW k \in 1 .. n, k - 1 \in T PROVE k \in T
  <2> DEFINE P == Power(Base, n - k)
             y == x \div P
             r == y % Base
  <2>1. k \in 0 .. n /\ n - k \in Nat /\ n - (k - 1) = (n - k) + 1
    BY <1>0
  <2>2. P \in Nat \ {0} /\ Base \in Nat \ {0} /\ Power(Base, n - (k - 1)) = Base * P
    BY <2>1, BasePowers
  <2>3. f[k - 1] = x \div (Base * P)
    BY <1>5, <2>2
  <2>4. f[k] = f[k - 1] * Base + s[k]
    BY <1>1, <1>3 DEF CountsWith
  <2>5. s[k] = r
    BY <1>2
  <2> HIDE DEF P
  <2>6. y \in Nat
    BY <2>2, Division
  <2>7. f[k - 1] = y \div Base
    BY <2>2, <2>3, DivideTwice
  <2> HIDE DEF y
  <2>8. f[k - 1] * Base + r = y
    BY <2>2, <2>6, <2>7, Division
  <2>9. f[k] = y
    BY <2>4, <2>5, <2>8
  <2> QED
    BY <2>1, <2>9 DEF y, P
<1> HIDE DEF T
<1>6. n \in T
  <2>1. \A k \in 0 .. n : k \in T
    BY <1>0, <1>4, <1>5, Upwards, Zenon
  <2> QED  BY <1>0, <2>1
<1>7. n - n = 0 /\ x \div 1 = x
  BY <1>0
<1>8. f[n] = x
  BY <1>6, <1>7, BasePowers DEF T
<1> QED
  BY <1>1, <1>3, <1>8 DEF CountsWith, s

\* A hash is below the power of its length.
LEMMA HashBelow ==
    ASSUME NEW h \in Hashes
    PROVE  Number(h) \in Nat /\ Number(h) < Power(Base, HashBytes)
<1> DEFINE n == HashBytes
<1>0. n \in Nat
  BY BasePowers
<1>1. h \in Seq(Bytes) /\ Len(h) = n
  BY HashIsList
<1>2. PICK f : CountsWith(f, h)
  BY <1>1, NumberLoop
<1> DEFINE T == {k \in 0 .. n : f[k] < Power(Base, k)}
<1>3. 0 \in T
  <2>1. f[0] = 0 /\ 0 \in 0 .. n
    BY <1>0, <1>2 DEF CountsWith
  <2>2. Power(Base, 0) = 1
    BY BasePowers
  <2> QED  BY <2>1, <2>2
<1>4. ASSUME NEW k \in 1 .. n, k - 1 \in T PROVE k \in T
  <2> DEFINE P == Power(Base, k - 1)
             y == f[k - 1]
  <2>1. k \in 0 .. n /\ k - 1 \in Nat /\ (k - 1) + 1 = k /\ k - 1 \in 0 .. n
    BY <1>0
  <2>2. P \in Nat \ {0} /\ Base \in Nat \ {0} /\ Power(Base, k) = Base * P
    BY <2>1, BasePowers
  <2>3. y \in Nat /\ y < P
    BY <1>1, <1>2, <1>4, <2>1 DEF CountsWith
  <2>4. f[k] = y * Base + h[k] /\ h[k] \in 0 .. Base - 1
    <3>1. h[k] \in Bytes /\ k \in 1 .. Len(h)
      BY <1>1
    <3> QED  BY <1>2, <3>1 DEF CountsWith, Bytes
  <2> HIDE DEF P, y
  <2>5. y * Base + Base <= P * Base /\ y * Base \in Nat
    BY <2>2, <2>3, ProductGrows
  <2>6. P * Base = Base * P
    BY <2>2
  <2> DEFINE u == y * Base
             v == P * Base
  <2>7. v \in Nat
    BY <2>2
  <2>8. u + h[k] < v
    <3> HIDE DEF u, v
    <3>1. u + Base <= v /\ u \in Nat
      BY <2>5 DEF u, v
    <3> QED  BY <2>2, <2>4, <2>7, <3>1
  <2>9. f[k] < Power(Base, k)
    BY <2>2, <2>4, <2>6, <2>8
  <2> QED  BY <2>1, <2>9
<1> HIDE DEF T
<1>5. n \in T
  <2>1. \A k \in 0 .. n : k \in T
    BY <1>0, <1>3, <1>4, Upwards, Zenon
  <2> QED  BY <1>0, <2>1
<1> QED
  BY <1>0, <1>1, <1>2, <1>5 DEF CountsWith, T

\* A hash against the digits of a number that fits.
LEMMA MeetsNumber ==
    ASSUME NEW h \in Hashes, NEW x \in Nat, x < Power(Base, HashBytes)
    PROVE  meets(h, ToBytes(x)) <=> Number(h) <= x
<1>1. ToBytes(x) \in Hashes
  BY ToBytesType
<1>2. Number(ToBytes(x)) = x
  BY NumberOfBytes
<1>3. meets(h, ToBytes(x)) <=> Number(h) <= Number(ToBytes(x))
  BY <1>1, MeetsCompares
<1> QED
  BY <1>2, <1>3

-----------------------------------------------------------------------------
(* The share target and the network target *)

\* The largest target is met by every hash.
LEMMA MeetsLargest ==
    ASSUME NEW h \in Hashes
    PROVE  /\ [p \in 1 .. HashBytes |-> Base - 1] \in Hashes
           /\ meets(h, [p \in 1 .. HashBytes |-> Base - 1])
<1> DEFINE t == [p \in 1 .. HashBytes |-> Base - 1]
<1>1. Base - 1 \in Bytes
  BY BasePowers DEF Bytes
<1>2. t \in Hashes
  BY <1>1 DEF Hashes
<1>3. ASSUME NEW p \in 1 .. HashBytes PROVE ~(t[p] < h[p])
  <2>1. h[p] \in 0 .. Base - 1
    BY DEF Hashes, Bytes
  <2>2. Base \in Nat /\ t[p] = Base - 1
    BY BasePowers
  <2> QED  BY <2>1, <2>2
<1>4. meets(h, t)
  <2> HIDE DEF t
  <2> QED  BY <1>3 DEF meets
<1> QED
  BY <1>2, <1>4

\* The share target of a decimal difficulty decides as the exact fraction
\* does, whatever the quotient is cut to.
LEMMA DifficultyExact ==
    ASSUME NEW h \in Hashes, NEW d \in Nat \ {0}, NEW e \in Int
    PROVE  /\ difficulty_target(d, e) \in Hashes
           /\ meets(h, difficulty_target(d, e)) <=>
                 Number(h) * d * (IF e > 0 THEN Power(10, e) ELSE 1)
                    <= One * (IF e < 0 THEN Power(10, -e) ELSE 1)
<1> DEFINE num == IF e < 0 THEN One * Power(10, -e) ELSE One
           den == IF e < 0 THEN d ELSE d * Power(10, e)
           up == IF e > 0 THEN Power(10, e) ELSE 1
           down == IF e < 0 THEN Power(10, -e) ELSE 1
           x == Number(h)
           w == num \div den
           P == Power(Base, HashBytes)
           t == difficulty_target(d, e)
           top == [p \in 1 .. HashBytes |-> Base - 1]
<1>0. 10 \in Nat \ {0} /\ (e < 0 => -e \in Nat) /\ (e >= 0 => e \in Nat)
  OBVIOUS
<1>1. /\ e < 0 => Power(10, -e) \in Nat \ {0}
      /\ e >= 0 => Power(10, e) \in Nat \ {0}
      /\ Power(10, 0) = 1
  <2>1. \A n \in Nat : Power(10, n) \in Nat \ {0}
    BY <1>0, PowerPositive
  <2>2. Power(10, 0) = 1
    BY PowerSteps
  <2> QED  BY <1>0, <2>1, <2>2
<1>2. up \in Nat \ {0} /\ down \in Nat \ {0}
  <2>1. e > 0 => e >= 0
    OBVIOUS
  <2> QED  BY <1>1, <2>1
<1>3. P \in Nat \ {0} /\ One \in Nat
  <2>1. P \in Nat \ {0}
    BY BasePowers
  <2> QED  BY <2>1, TargetsAssumption
<1>4. x \in Nat /\ x < P
  BY HashBelow
<1>5. num = One * down
  <2>1. One * 1 = One
    BY <1>3
  <2> QED  BY <2>1
<1>6. den = d * up
  <2>1. d * 1 = d
    OBVIOUS
  <2>2. CASE e < 0
    <3>1. ~(e > 0)
      BY <2>2
    <3> QED  BY <2>1, <2>2, <3>1
  <2>3. CASE e = 0
    BY <1>1, <2>3
  <2>4. CASE e > 0
    BY <2>4
  <2> QED  BY <2>2, <2>3, <2>4
<1>7. t = IF w >= P THEN top ELSE ToBytes(w)
  BY DEF difficulty_target
<1> HIDE DEF num, den, up, down, x, P, t, top
<1>8. num \in Nat /\ den \in Nat \ {0}
  BY <1>2, <1>3, <1>5, <1>6
<1>9. w \in Nat
  BY <1>8, Division
<1>10. x <= w <=> x * den <= num
  BY <1>4, <1>8, BelowQuotient
<1>11. x * den = x * d * up
  BY <1>2, <1>4, <1>6
<1>12. t \in Hashes /\ (meets(h, t) <=> x <= w)
  <2> HIDE DEF w
  <2>1. CASE w >= P
    <3>1. t = top
      BY <1>7, <2>1
    <3>2. top \in Hashes /\ meets(h, top)
      BY MeetsLargest DEF top
    <3>3. x <= w
      BY <1>3, <1>4, <1>9, <2>1
    <3> QED  BY <3>1, <3>2, <3>3
  <2>2. CASE ~(w >= P)
    <3>1. t = ToBytes(w) /\ w < P
      BY <1>3, <1>7, <1>9, <2>2
    <3>2. ToBytes(w) \in Hashes
      BY <1>9, ToBytesType
    <3>3. meets(h, ToBytes(w)) <=> x <= w
      BY <1>9, <3>1, MeetsNumber DEF P, x
    <3> QED  BY <3>1, <3>2, <3>3
  <2> QED  BY <2>1, <2>2
<1>13. meets(h, t) <=> x * d * up <= One * down
  BY <1>5, <1>10, <1>11, <1>12
<1> QED
  BY <1>12, <1>13 DEF t, x, up, down

\* The first digits of a mantissa are zero if the number is small.
LEMMA LeadingZeros ==
    ASSUME NEW m \in Nat, m < Power(Base, 3)
    PROVE  /\ Byte(m, 2) = 0 => m < Power(Base, 2)
           /\ Byte(m, 2) = 0 /\ Byte(m, 1) = 0 => m < Power(Base, 1)
<1>1. ASSUME NEW i \in Nat, m < Power(Base, i + 1), Byte(m, i) = 0
      PROVE  m < Power(Base, i)
  <2> DEFINE P == Power(Base, i)
             y == m \div P
             r == m % P
  <2>1. P \in Nat \ {0} /\ Base \in Nat \ {0} /\ m < Base * P
    BY <1>1, BasePowers
  <2>2. y % Base = 0
    BY <1>1 DEF Byte
  <2> HIDE DEF P
  <2>3. y \in Nat /\ r \in 0 .. P - 1 /\ y * P + r = m
    BY <2>1, Division
  <2> HIDE DEF y, r
  <2>4. y < Base
    <3>1. Base <= y => Base * P <= y * P
      BY <2>1, <2>3, ProductGrows
    <3>2. y * P \in Nat /\ Base * P \in Nat
      BY <2>1, <2>3
    <3> DEFINE u == y * P
               v == Base * P
    <3>3. u \in Nat /\ v \in Nat /\ m < v /\ u + r = m /\ (Base <= y => v <= u)
      BY <2>1, <2>3, <3>1, <3>2
    <3> HIDE DEF u, v
    <3> QED  BY <2>1, <2>3, <3>3
  <2>5. y = 0
    <3>1. 0 * Base <= y /\ y < 0 * Base + Base
      BY <2>1, <2>3, <2>4
    <3>2. y \div Base = 0
      BY <2>1, <2>3, <3>1, Quotient
    <3>3. 0 * Base + 0 = y
      BY <2>1, <2>2, <2>3, <3>2, Division
    <3> QED  BY <2>1, <3>3
  <2>6. m < P
    BY <2>1, <2>3, <2>5
  <2> QED  BY <2>6 DEF P
<1>2. 2 \in Nat /\ 1 \in Nat /\ 2 + 1 = 3 /\ 1 + 1 = 2
  OBVIOUS
<1>3. Byte(m, 2) = 0 => m < Power(Base, 2)
  BY <1>1, <1>2
<1>4. Byte(m, 1) = 0 /\ m < Power(Base, 2) => m < Power(Base, 1)
  BY <1>1, <1>2
<1> QED
  BY <1>3, <1>4

\* A number of k digits, moved by q digits, has k + q.
LEMMA BelowPower ==
    ASSUME NEW m \in Nat, NEW k \in Nat, NEW q \in Nat, NEW n \in Nat,
           m < Power(Base, k), k + q <= n
    PROVE  m * Power(Base, q) \in Nat /\ m * Power(Base, q) < Power(Base, n)
<1> DEFINE K == Power(Base, k)
           Q == Power(Base, q)
           S == Power(Base, n)
<1>1. K \in Nat \ {0} /\ Q \in Nat \ {0} /\ S \in Nat \ {0} /\ Power(Base, k + q) = K * Q
  BY BasePowers
<1>2. Power(Base, k + q) <= S
  <2>1. k + q \in Nat
    OBVIOUS
  <2> QED  BY <2>1, BasePowers, PowerGrows
<1> HIDE DEF K, Q, S
<1>3. m < K
  BY DEF K
<1>4. m * Q + Q <= K * Q /\ m * Q \in Nat /\ K * Q \in Nat
  BY <1>1, <1>3, ProductGrows
<1>5. m * Q < S
  <2> DEFINE u == m * Q
             v == K * Q
  <2>1. u \in Nat /\ v \in Nat /\ u + Q <= v /\ v <= S
    BY <1>1, <1>2, <1>4
  <2> HIDE DEF u, v
  <2>2. u < S
    BY <1>1, <2>1
  <2> QED  BY <2>2 DEF u
<1> QED
  BY <1>4, <1>5 DEF Q, S

\* The mantissa's bytes in their place are the digits of the shifted mantissa.
LEMMA PlacedIsShifted ==
    ASSUME NEW e \in Nat, e > 3, NEW m \in Nat, m < Power(Base, 3)
    PROVE  Placed(e, m) = ToBytes(m * Power(Base, e - 3))
<1> DEFINE Q == Power(Base, e - 3)
           x == m * Q
<1>0. e - 3 \in Nat /\ HashBytes \in Nat /\ Base \in Nat \ {0}
  BY BasePowers
<1>1. Q \in Nat \ {0} /\ x \in Nat
  <2>1. Q \in Nat \ {0}
    BY <1>0, BasePowers
  <2> QED  BY <2>1, ProductGrows
<1> SUFFICES ASSUME NEW p \in 1 .. HashBytes
             PROVE  Byte(x, HashBytes - p) =
                       (LET i == p - 1 - (HashBytes - e)
                        IN IF i \in 0 .. 2 THEN Byte(m, 2 - i) ELSE 0)
  BY DEF Placed, ToBytes
<1> DEFINE j == HashBytes - p
           i == p - 1 - (HashBytes - e)
           J == Power(Base, j)
<1>2. j \in Nat /\ i \in Int /\ i = e - 1 - j
  BY <1>0
<1>3. J \in Nat \ {0}
  BY <1>2, BasePowers
<1>4. CASE i \in 0 .. 2
  <2> DEFINE R == Power(Base, 2 - i)
  <2>1. 2 - i \in Nat /\ j = (2 - i) + (e - 3)
    BY <1>0, <1>2, <1>4
  <2>2. R \in Nat \ {0} /\ J = R * Q
    BY <1>0, <2>1, BasePowers
  <2>3. x \div J = m \div R
    <3> HIDE DEF R, Q, J
    <3>1. (m * Q) \div (R * Q) = ((m * Q) \div Q) \div R
      BY <1>1, <2>2, DivideTwice
    <3>2. (m * Q) \div Q = m
      BY <1>1, DivideMultiple
    <3> QED  BY <2>2, <3>1, <3>2
  <2>4. Byte(x, j) = Byte(m, 2 - i)
    BY <2>3 DEF Byte
  <2> QED  BY <1>4, <2>4
<1>5. CASE i > 2
  <2> DEFINE k == e - 3 - j - 1
             R == Power(Base, k)
  <2>1. k \in Nat /\ e - 3 = (k + 1) + j /\ k + 1 \in Nat
    BY <1>0, <1>2, <1>5
  <2>2. R \in Nat \ {0} /\ Power(Base, k + 1) = Base * R /\ Q = Power(Base, k + 1) * J
    <3> HIDE DEF k, j
    <3>1. R \in Nat \ {0} /\ Power(Base, k + 1) = Base * R
      BY <2>1, BasePowers
    <3>2. Power(Base, (k + 1) + j) = Power(Base, k + 1) * J
      BY <1>2, <2>1, BasePowers
    <3> QED  BY <2>1, <3>1, <3>2
  <2> DEFINE y == m * R
  <2>3. y \in Nat /\ y * Base \in Nat
    BY <1>0, <2>2
  <2>4. x = (y * Base) * J
    <3> HIDE DEF R, Q, J
    <3> QED  BY <1>0, <1>3, <2>2
  <2>5. x \div J = y * Base
    <3> HIDE DEF R, Q, J, y, x
    <3> QED  BY <1>3, <2>3, <2>4, DivideMultiple
  <2>6. (y * Base) % Base = 0
    BY <1>0, <2>3, DivideMultiple
  <2>7. Byte(x, j) = 0
    BY <2>5, <2>6 DEF Byte
  <2>8. i \notin 0 .. 2
    BY <1>2, <1>5
  <2> QED  BY <2>7, <2>8
<1>6. CASE i < 0
  <2>1. 3 + (e - 3) <= j /\ 3 \in Nat
    BY <1>0, <1>2, <1>6
  <2>2. x < J
    BY <1>0, <1>2, <2>1, BelowPower
  <2>3. x \div J = 0
    <3> HIDE DEF x, J
    <3>1. 0 * J <= x /\ x < 0 * J + J
      BY <1>1, <1>3, <2>2
    <3> QED  BY <1>1, <1>3, <3>1, Quotient
  <2>4. 0 % Base = 0
    BY <1>0
  <2>5. Byte(x, j) = 0
    BY <2>3, <2>4 DEF Byte
  <2>6. i \notin 0 .. 2
    BY <1>2, <1>6
  <2> QED  BY <2>5, <2>6
<1> QED
  <2>1. i \in 0 .. 2 \/ i > 2 \/ i < 0
    BY <1>2
  <2> QED  BY <1>4, <1>5, <1>6, <2>1

\* What does not stand before the first byte fits.
LEMMA ShiftedFits ==
    ASSUME NEW e \in Nat, e > 3, e <= HashBytes + 2, NEW m \in Nat, m < Power(Base, 3),
           ~Overflows(e, m)
    PROVE  m * Power(Base, e - 3) \in Nat /\ m * Power(Base, e - 3) < Power(Base, HashBytes)
<1>0. e - 3 \in Nat /\ HashBytes \in Nat
  BY BasePowers
<1>1. \A i \in 0 .. 2 : HashBytes - e + i < 0 => Byte(m, 2 - i) = 0
  BY DEF Overflows
<1>2. CASE e <= HashBytes
  <2>1. 3 + (e - 3) <= HashBytes /\ 3 \in Nat
    BY <1>0, <1>2
  <2> QED  BY <1>0, <2>1, BelowPower
<1>3. CASE e = HashBytes + 1
  <2>1. 0 \in 0 .. 2 /\ HashBytes - e + 0 < 0 /\ 2 - 0 = 2
    BY <1>0, <1>3
  <2>2. Byte(m, 2) = 0
    BY <1>1, <2>1
  <2>3. m < Power(Base, 2)
    BY <2>2, LeadingZeros
  <2>4. 2 + (e - 3) <= HashBytes /\ 2 \in Nat
    BY <1>0, <1>3
  <2> QED  BY <1>0, <2>3, <2>4, BelowPower
<1>4. CASE e = HashBytes + 2
  <2>1. /\ 0 \in 0 .. 2 /\ HashBytes - e + 0 < 0 /\ 2 - 0 = 2
        /\ 1 \in 0 .. 2 /\ HashBytes - e + 1 < 0 /\ 2 - 1 = 1
    BY <1>0, <1>4
  <2>2. Byte(m, 2) = 0 /\ Byte(m, 1) = 0
    BY <1>1, <2>1
  <2>3. m < Power(Base, 1)
    BY <2>2, LeadingZeros
  <2>4. 1 + (e - 3) <= HashBytes /\ 1 \in Nat
    BY <1>0, <1>4
  <2> QED  BY <1>0, <2>3, <2>4, BelowPower
<1> QED
  <2>1. e <= HashBytes \/ e = HashBytes + 1 \/ e = HashBytes + 2
    BY <1>0
  <2> QED  BY <1>2, <1>3, <1>4, <2>1

\* The digits of zero.
LEMMA BytesOfZero == ToBytes(0) = Zero
<1>1. ASSUME NEW p \in 1 .. HashBytes PROVE Byte(0, HashBytes - p) = 0
  <2> DEFINE J == Power(Base, HashBytes - p)
  <2>1. HashBytes - p \in Nat /\ Base \in Nat \ {0}
    BY BasePowers
  <2>2. J \in Nat \ {0}
    BY <2>1, BasePowers
  <2> HIDE DEF J
  <2>3. 0 \div J = 0 /\ 0 % Base = 0
    BY <2>1, <2>2
  <2> QED  BY <2>3 DEF Byte, J
<1> QED
  BY <1>1 DEF ToBytes, Zero

\* nbits become work only if they are positive and fit, and then a hash meets
\* them exactly if it is at most mantissa * Base^(exponent - 3).
IsCompact(h, e, m, t) ==
    /\ t \in Hashes
    /\ m \in 1 .. Power(Base, 3) \div 2 - 1
    /\ m * Power(Base, e) \in Power(Base, 3) .. Power(Base, HashBytes + 3) - 1
    /\ meets(h, t) <=> Number(h) * Power(Base, 3) <= m * Power(Base, e)

\* An exponent of at most 3: the mantissa is shifted to the right.
LEMMA CompactSmall ==
    ASSUME NEW h \in Hashes, NEW e \in 0 .. 3, NEW m \in 1 .. Power(Base, 3) - 1,
           ToBytes(m \div Power(Base, 3 - e)) # Zero
    PROVE  LET t == ToBytes(m \div Power(Base, 3 - e))
           IN /\ t \in Hashes
              /\ m * Power(Base, e) \in Power(Base, 3) .. Power(Base, HashBytes + 3) - 1
              /\ meets(h, t) <=> Number(h) * Power(Base, 3) <= m * Power(Base, e)
<1> DEFINE P == Power(Base, 3)
           E == Power(Base, e)
           R == Power(Base, 3 - e)
           w == m \div R
           x == Number(h)
           S == Power(Base, HashBytes)
           U == Power(Base, HashBytes + 3)
<1>0. /\ e \in Nat /\ 3 - e \in Nat /\ 3 = (3 - e) + e /\ 3 \in Nat
      /\ HashBytes \in Nat /\ HashBytes + 3 \in Nat /\ 3 + e <= HashBytes + 3
      /\ 3 <= HashBytes
  <2>1. HashBytes \in Nat /\ HashBytes >= 4
    BY BasePowers
  <2> QED  BY <2>1
<1>1. /\ P \in Nat \ {0} /\ E \in Nat \ {0} /\ R \in Nat \ {0} /\ S \in Nat \ {0} /\ U \in Nat \ {0}
  BY <1>0, BasePowers
<1>2. P = R * E
  BY <1>0, BasePowers
<1>3. P <= S
  BY <1>0, BasePowers, PowerGrows
<1>4. m \in Nat \ {0} /\ m < P
  BY <1>1
<1>5. m * E < U
  BY <1>0, <1>4, BelowPower
<1>6. x \in Nat
  BY HashBelow
<1> HIDE DEF P, E, R, x, S, U
<1>7. w \in Nat /\ w <= m
  <2> DEFINE r == m % R
  <2>1. w \in Nat /\ r \in 0 .. R - 1 /\ w * R + r = m
    BY <1>1, <1>4, Division
  <2> HIDE DEF w, r
  <2>2. PICK d \in Nat : R = d + 1
    <3>1. R - 1 \in Nat /\ R = (R - 1) + 1
      BY <1>1
    <3> QED  BY <3>1
  <2>3. w * (d + 1) = w * d + w /\ w * d \in Nat
    BY <2>1
  <2> QED  BY <1>1, <1>4, <2>1, <2>2, <2>3
<1>8. x <= w <=> x * R <= m
  BY <1>1, <1>4, <1>6, BelowQuotient
<1>9. x * R <= m <=> x * P <= m * E
  <2>1. x * R \in Nat
    BY <1>1, <1>6
  <2>2. (x * R) * E <= m * E <=> x * R <= m
    BY <1>1, <1>4, <2>1, Cancel
  <2>3. (x * R) * E = x * (R * E)
    BY <1>1, <1>6
  <2> QED  BY <1>2, <2>2, <2>3
<1>10. w # 0
  <2>1. ToBytes(w) # Zero
    BY DEF R
  <2> HIDE DEF w
  <2> QED  BY <2>1, BytesOfZero
<1>11. P <= m * E
  <2>1. 1 <= w /\ 1 \in Nat
    BY <1>7, <1>10
  <2>2. 1 * R <= m
    BY <1>1, <1>4, <2>1, BelowQuotient
  <2>3. R <= m
    BY <1>1, <2>2
  <2>4. R * E <= m * E
    BY <1>1, <1>4, <2>3, ProductGrows
  <2> QED  BY <1>2, <2>4
<1> HIDE DEF w
<1>12. m * E \in P .. U - 1
  <2>1. m * E \in Nat
    BY <1>1, <1>4
  <2> QED  BY <1>1, <1>5, <1>11, <2>1
<1>13. w < S
  BY <1>1, <1>3, <1>4, <1>7
<1>14. ToBytes(w) \in Hashes
  BY <1>7, ToBytesType
<1>15. meets(h, ToBytes(w)) <=> x <= w
  BY <1>7, <1>13, MeetsNumber DEF S, x
<1>16. meets(h, ToBytes(w)) <=> x * P <= m * E
  BY <1>8, <1>9, <1>15
<1> QED
  BY <1>12, <1>14, <1>16 DEF w, P, E, R, x, U

\* A larger exponent: the mantissa is placed above zero bytes.
LEMMA CompactLarge ==
    ASSUME NEW h \in Hashes, NEW e \in Nat, e > 3, e <= HashBytes + 2,
           NEW m \in 1 .. Power(Base, 3) - 1, ~Overflows(e, m)
    PROVE  LET t == Placed(e, m)
           IN /\ t \in Hashes
              /\ m * Power(Base, e) \in Power(Base, 3) .. Power(Base, HashBytes + 3) - 1
              /\ meets(h, t) <=> Number(h) * Power(Base, 3) <= m * Power(Base, e)
<1> DEFINE P == Power(Base, 3)
           E == Power(Base, e)
           Q == Power(Base, e - 3)
           w == m * Q
           x == Number(h)
           S == Power(Base, HashBytes)
           U == Power(Base, HashBytes + 3)
<1>0. /\ e - 3 \in Nat /\ e = (e - 3) + 3 /\ 3 \in Nat
      /\ HashBytes \in Nat /\ HashBytes + 3 \in Nat
  BY BasePowers
<1>1. /\ P \in Nat \ {0} /\ E \in Nat \ {0} /\ Q \in Nat \ {0} /\ S \in Nat \ {0} /\ U \in Nat \ {0}
  BY <1>0, BasePowers
<1>2. E = Q * P
  BY <1>0, BasePowers
<1>3. U = S * P
  BY <1>0, BasePowers
<1>4. m \in Nat \ {0} /\ m < P
  BY <1>1
<1>5. w \in Nat /\ w < S
  BY <1>4, ShiftedFits
<1>6. x \in Nat
  BY HashBelow
<1>7. Placed(e, m) = ToBytes(w)
  BY <1>4, PlacedIsShifted
<1> HIDE DEF P, E, Q, x, S, U
<1>8. m * E = w * P
  BY <1>1, <1>2, <1>4
<1>9. Q \in Nat /\ w # 0
  BY <1>1, <1>4
<1> HIDE DEF w
<1>10. m * E \in P .. U - 1
  <2>1. w * P + P <= S * P /\ w * P \in Nat
    BY <1>1, <1>5, ProductGrows
  <2>2. 1 * P <= w * P
    <3>1. 1 <= w /\ 1 \in Nat
      BY <1>5, <1>9
    <3> QED  BY <1>1, <1>5, <3>1, ProductGrows
  <2> DEFINE u == w * P
  <2>3. u \in Nat /\ P <= u /\ u + P <= U
    BY <1>1, <1>3, <2>1, <2>2
  <2> HIDE DEF u
  <2>4. u \in P .. U - 1
    BY <1>1, <2>3
  <2> QED  BY <1>8, <2>4 DEF u
<1>11. ToBytes(w) \in Hashes
  BY <1>5, ToBytesType
<1>12. meets(h, ToBytes(w)) <=> x <= w
  BY <1>5, MeetsNumber DEF S, x
<1>13. x <= w <=> x * P <= w * P
  BY <1>1, <1>5, <1>6, Cancel
<1>14. meets(h, ToBytes(w)) <=> x * P <= m * E
  BY <1>8, <1>12, <1>13
<1> QED
  BY <1>7, <1>10, <1>11, <1>14 DEF w, P, E, Q, x, U

\* The target that nbits give is exact for every exponent and mantissa.
LEMMA CompactExact ==
    ASSUME NEW h \in Hashes, NEW e \in Nat, NEW m \in 0 .. Power(Base, 3) - 1,
           compact_target(e, m) # Refused
    PROVE  IsCompact(h, e, m, compact_target(e, m))
<1> DEFINE P == Power(Base, 3)
           small == ToBytes(m \div Power(Base, 3 - e))
           out == IF e <= 3 THEN small ELSE Placed(e, m)
           t == compact_target(e, m)
<1>0. P \in Nat \ {0} /\ HashBytes \in Nat
  BY BasePowers
<1>1. /\ ~(m >= P \div 2) /\ m # 0 /\ ~(e > HashBytes + 2)
      /\ ~(e > 3 /\ Overflows(e, m)) /\ out # Zero /\ t = out
  BY DEF compact_target
<1>2. P \div 2 \in Nat
  BY <1>0
<1>3. m \in Nat /\ m \in 1 .. P - 1
  BY <1>0, <1>1
<1>4. m \in 1 .. P \div 2 - 1
  <2> DEFINE g == P \div 2
  <2> HIDE DEF g
  <2>1. g \in Nat /\ ~(m >= g)
    BY <1>1, <1>2 DEF g
  <2>2. m \in 1 .. g - 1
    BY <1>3, <2>1
  <2> QED  BY <2>2 DEF g
<1>5. /\ t \in Hashes
      /\ m * Power(Base, e) \in P .. Power(Base, HashBytes + 3) - 1
      /\ meets(h, t) <=> Number(h) * P <= m * Power(Base, e)
  <2>1. CASE e <= 3
    <3>1. e \in 0 .. 3 /\ t = small /\ small # Zero
      BY <1>1, <2>1
    <3> QED  BY <1>3, <3>1, CompactSmall
  <2>2. CASE e > 3
    <3>1. e <= HashBytes + 2 /\ ~Overflows(e, m) /\ t = Placed(e, m)
      BY <1>0, <1>1, <2>2
    <3> QED  BY <1>3, <2>2, <3>1, CompactLarge
  <2> QED  BY <2>1, <2>2
<1> QED
  BY <1>4, <1>5 DEF IsCompact

-----------------------------------------------------------------------------
(* The invariant of a scan *)

\* The nonces of a scan, and the lanes that look at one of them.
RangeOf(t, start) == start .. start + Batch(t) - 1
InBatch(t) == {l \in LaneSet(t) : Index(t, l) < Batch(t)}
LaneNonce(t, start, l) == Nonce(t, start, Index(t, l))

\* The nonce that took the slot i is a[i].  It is in its place or still to be
\* written, no other lane has it, and a device that computes right passes over
\* none that the test on the high word keeps.
Assigns(a, t, q) ==
    /\ a \in [0 .. q.n - 1 -> RangeOf(t, q.start)]
    /\ \A i, j \in 0 .. q.n - 1 : a[i] = a[j] => i = j
    /\ \A i \in 0 .. q.n - 1, l \in q.todo : a[i] # LaneNonce(t, q.start, l)
    /\ \A s \in q.stores : \E i \in 0 .. q.n - 1 : s = <<i, a[i]>>
    /\ \A i \in 0 .. q.n - 1 : i < Capacity => q.buf[i] = a[i] \/ <<i, a[i]>> \in q.stores
    /\ ~work.flaky => \A x \in RangeOf(t, q.start) : Prefilter(x) =>
          (\E i \in 0 .. q.n - 1 : a[i] = x) \/ (\E l \in q.todo : LaneNonce(t, q.start, l) = x)

\* The work has a share target, and a network target if it is mined.
Accepted == work.difficulty[1] # 0 /\ ("url" \in options.asked => Network # Refused)

\* What a scan has returned.
IsExact(t, start, got) ==
    LET want == {n \in RangeOf(t, start) : Qualifies(n)}
    IN /\ IsInjective(got)
       /\ ToSet(got) \subseteq want
       /\ ~work.flaky => ToSet(got) = want

\* What a thread has done of a scan and, when it is idle again, returned.
ScanInv(t, q) ==
    /\ q.start \in 0 .. Space - Batch(t)
    /\ DOMAIN q.buf = 0 .. Capacity - 1
    /\ q.pc = "open" => q.scans = 0
    /\ q.pc = "idle" => q.todo = {} /\ q.stores = {}
    /\ q.pc = "kernel" => /\ q.n \in Nat /\ q.todo \subseteq InBatch(t) /\ Accepted
                          /\ \E a : Assigns(a, t, q)
    /\ q.pc = "idle" /\ q.scans > 0 => IsExact(t, q.start, q.result)
    /\ q.result \in Seq(0 .. Space - 1)
    /\ q.result # <<>> => Accepted

\* Every thread is at such a point of a scan.
ScansInv ==
    /\ pc \in {"options", "discover", "apply"} => th = <<>>
    /\ \A t \in DOMAIN th : ScanInv(t, th[t])

-----------------------------------------------------------------------------
(* The lanes of a kernel and the nonces of its range *)

\* A number below the divisor is its own remainder.
LEMMA SmallRemainder ==
    ASSUME NEW x \in Nat, NEW d \in Nat \ {0}, x < d
    PROVE  x % d = x
<1>1. 0 * d <= x /\ x < 0 * d + d
  OBVIOUS
<1>2. x \div d = 0
  BY <1>1, Quotient
<1> DEFINE r == x % d
<1>3. r \in 0 .. d - 1 /\ 0 * d + r = x
  BY <1>2, Division
<1> HIDE DEF r
<1>4. r = x
  BY <1>3
<1> QED
  BY <1>4 DEF r

\* A batch is positive and within the space of nonces.
LEMMA BatchFacts ==
    ASSUME GivenScenario, NEW t
    PROVE  Batch(t) \in 1 .. Space /\ Batch(t) \in Nat \ {0} /\ Space \in Nat
<1>1. options.batch \in 1 .. Space /\ options.cpu_batch \in 1 .. Space
  BY ScenarioFacts
<1>2. Space \in Nat
  BY BackendsAssumption
<1>3. Batch(t) \in 1 .. Space
  BY <1>1 DEF Batch
<1> QED
  BY <1>2, <1>3

\* With or without a fixed high word, the i-th nonce is the start plus i.
LEMMA NonceFacts ==
    ASSUME GivenScenario, NEW t, NEW start \in 0 .. Space - Batch(t), NEW i \in 0 .. Batch(t) - 1
    PROVE  Nonce(t, start, i) = start + i /\ start + i \in RangeOf(t, start)
           /\ start + i \in 0 .. Space - 1
<1> DEFINE B == Batch(t)
           w == start % Word
<1>1. B \in 1 .. Space /\ Space \in Nat /\ start \in Nat /\ i \in Nat /\ B \in Nat
  BY BatchFacts
<1>2. Word \in Nat \ {0}
  BY BackendsAssumption
<1> HIDE DEF B
<1>3. start + i \in 0 .. Space - 1 /\ start + i \in start .. start + B - 1
  BY <1>1 DEF B
<1>4. w \in 0 .. Word - 1
  BY <1>1, <1>2, Division
<1>5. ASSUME w <= Word - B PROVE (start - w) + ((w + i) % Word) = start + i
  <2> HIDE DEF w
  <2>1. w + i \in Nat /\ w + i < Word
    BY <1>1, <1>2, <1>4, <1>5 DEF B
  <2>2. (w + i) % Word = w + i
    BY <1>2, <2>1, SmallRemainder
  <2> QED  BY <1>1, <1>2, <1>4, <2>1, <2>2
<1>6. (start + i) % Space = start + i
  <2>1. start + i \in Nat /\ Space \in Nat \ {0} /\ start + i < Space
    BY <1>1, <1>3
  <2> QED  BY <2>1, SmallRemainder
<1>7. Nonce(t, start, i) = start + i
  BY <1>5, <1>6 DEF Nonce, B
<1> QED
  BY <1>3, <1>7 DEF RangeOf, B

\* A block of lanes tries a positive number of nonces.
LEMMA RollFacts ==
    ASSUME NEW t
    PROVE  Roll(t) \in Nat \ {0} /\ BlockDim \in Nat \ {0} /\ Roll(t) * BlockDim \in Nat \ {0}
<1>1. Roll(t) \in Nat \ {0}
  BY DEF Roll
<1>2. BlockDim \in Nat \ {0}
  BY BackendsAssumption
<1> HIDE DEF Roll
<1>3. \A a, b \in Nat \ {0} : a * b \in Nat \ {0}
  OBVIOUS
<1> QED
  BY <1>1, <1>2, <1>3

\* The index of a lane is a number in three digits.
LEMMA IndexDigits ==
    ASSUME NEW t, NEW l \in LaneSet(t), NEW X, X = Roll(t) * BlockDim
    PROVE  /\ l[1] \in Nat /\ l[2] \in Nat /\ l[3] \in Nat
           /\ l = <<l[1], l[2], l[3]>>
           /\ l[2] < BlockDim /\ l[3] * BlockDim + l[2] < X /\ l[3] * BlockDim + l[2] \in Nat
           /\ Index(t, l) = l[1] * X + (l[3] * BlockDim + l[2])
<1> DEFINE R == Roll(t)
           D == BlockDim
           G == Grid(t)
<1>1. R \in Nat \ {0} /\ D \in Nat \ {0}
  BY RollFacts
<1>2. l \in (0 .. G - 1) \X (0 .. D - 1) \X (0 .. R - 1)
  BY DEF LaneSet
<1>3. Index(t, l) = l[1] * D * R + l[2] + l[3] * D
  BY DEF Index
<1> HIDE DEF R, D, G
<1>4. l = <<l[1], l[2], l[3]>> /\ l[1] \in 0 .. G - 1 /\ l[2] \in 0 .. D - 1 /\ l[3] \in 0 .. R - 1
  BY <1>2
<1>5. l[1] \in Nat /\ l[2] \in Nat /\ l[3] \in Nat /\ l[2] < D /\ l[3] < R
  BY <1>1, <1>4
<1> DEFINE a == l[1]
           b == l[2]
           c == l[3]
<1>6. a \in Nat /\ b \in Nat /\ c \in Nat /\ b < D /\ c < R
  BY <1>5
<1>7. Index(t, l) = a * D * R + b + c * D
  BY <1>3
<1> HIDE DEF a, b, c
<1>8. c * D + D <= R * D /\ c * D \in Nat
  BY <1>1, <1>6, ProductGrows
<1>9. c * D + b < R * D /\ c * D + b \in Nat
  <2> DEFINE u == c * D
             v == R * D
  <2>1. u \in Nat /\ v \in Nat /\ u + D <= v
    BY <1>1, <1>8
  <2> HIDE DEF u, v
  <2>2. u + b < v /\ u + b \in Nat
    BY <1>1, <1>6, <2>1
  <2> QED  BY <2>2 DEF u, v
<1>10. a * D * R + b + c * D = a * (R * D) + (c * D + b)
  <2>1. a * D * R = a * (R * D) /\ a * (R * D) \in Nat
    BY <1>1, <1>6
  <2> DEFINE u == a * (R * D)
             v == c * D
  <2>2. u \in Nat /\ v \in Nat
    BY <1>8, <2>1
  <2>3. u + b + v = u + (v + b)
    <3> HIDE DEF u, v
    <3> QED  BY <1>6, <2>2
  <2> QED  BY <2>1, <2>3
<1> QED
  BY <1>4, <1>6, <1>7, <1>9, <1>10 DEF a, b, c, D, R

\* A number determines its quotient and remainder.
LEMMA TwoDigits ==
    ASSUME NEW z \in Nat \ {0}, NEW x \in Nat, NEW y \in Nat, NEW r \in Nat, NEW s \in Nat,
           r < z, s < z, x * z + r = y * z + s
    PROVE  x = y /\ r = s
<1> DEFINE u == x * z
           v == y * z
<1>1. u \in Nat /\ v \in Nat /\ (x < y => u + z <= v) /\ (y < x => v + z <= u) /\ (x = y => u = v)
  BY ProductGrows
<1>2. u + r = v + s
  OBVIOUS
<1> HIDE DEF u, v
<1> QED
  BY <1>1, <1>2

\* Two lanes have different indices.
LEMMA IndexInjective ==
    ASSUME NEW t, NEW l \in LaneSet(t), NEW m \in LaneSet(t), Index(t, l) = Index(t, m)
    PROVE  l = m
<1> DEFINE X == Roll(t) * BlockDim
           D == BlockDim
<1>0. X \in Nat \ {0} /\ D \in Nat \ {0}
  BY RollFacts
<1>1. /\ l[1] \in Nat /\ l[2] \in Nat /\ l[3] \in Nat /\ l = <<l[1], l[2], l[3]>>
      /\ l[2] < D /\ l[3] * D + l[2] < X /\ l[3] * D + l[2] \in Nat
      /\ Index(t, l) = l[1] * X + (l[3] * D + l[2])
  BY IndexDigits
<1>2. /\ m[1] \in Nat /\ m[2] \in Nat /\ m[3] \in Nat /\ m = <<m[1], m[2], m[3]>>
      /\ m[2] < D /\ m[3] * D + m[2] < X /\ m[3] * D + m[2] \in Nat
      /\ Index(t, m) = m[1] * X + (m[3] * D + m[2])
  BY IndexDigits
<1> HIDE DEF X, D
<1> DEFINE r == l[3] * D + l[2]
           s == m[3] * D + m[2]
<1>3. l[1] = m[1] /\ r = s
  <2>1. r \in Nat /\ s \in Nat /\ r < X /\ s < X /\ l[1] * X + r = m[1] * X + s
    BY <1>1, <1>2
  <2> HIDE DEF r, s
  <2> QED  BY <1>0, <1>1, <1>2, <2>1, TwoDigits
<1>4. l[3] = m[3] /\ l[2] = m[2]
  BY <1>0, <1>1, <1>2, <1>3, TwoDigits
<1> QED
  BY <1>1, <1>2, <1>3, <1>4

\* Every number of the batch is the index of a lane, also in the short last
\* block.
LEMMA IndexCovers ==
    ASSUME GivenScenario, NEW t, NEW i \in 0 .. Batch(t) - 1
    PROVE  \E l \in LaneSet(t) : Index(t, l) = i
<1> DEFINE R == Roll(t)
           D == BlockDim
           X == R * D
           B == Batch(t)
           G == Grid(t)
           a == i \div X
           e == i % X
           c == e \div D
           b == e % D
           l == <<a, b, c>>
<1>1. R \in Nat \ {0} /\ D \in Nat \ {0} /\ X \in Nat \ {0}
  BY RollFacts
<1>2. B \in Nat \ {0} /\ i \in Nat /\ i < B
  BY BatchFacts
<1>3. G = (B + X - 1) \div X
  BY DEF Grid
<1> HIDE DEF R, D, X, B, G
<1>4. a \in Nat /\ e \in 0 .. X - 1 /\ a * X + e = i
  BY <1>1, <1>2, Division
<1> HIDE DEF a, e
<1>5. e \in Nat
  BY <1>1, <1>4
<1>6. c \in Nat /\ b \in 0 .. D - 1 /\ c * D + b = e
  BY <1>1, <1>5, Division
<1> HIDE DEF b, c
<1>7. c < R
  <2>1. R <= c => R * D <= c * D
    BY <1>1, <1>6, ProductGrows
  <2>2. c * D \in Nat /\ R * D = X
    BY <1>1, <1>6 DEF X
  <2> DEFINE u == c * D
  <2>3. u \in Nat /\ u + b = e /\ (R <= c => X <= u)
    BY <1>6, <2>1, <2>2
  <2> HIDE DEF u
  <2> QED  BY <1>1, <1>4, <1>6, <2>3
<1>8. a + 1 <= G
  <2>1. B + X - 1 \in Nat /\ a + 1 \in Nat
    BY <1>1, <1>2, <1>4
  <2>2. (a + 1) * X = a * X + X /\ a * X \in Nat
    BY <1>1, <1>4
  <2> DEFINE u == a * X
  <2>3. u \in Nat /\ u + e = i
    BY <1>4, <2>2
  <2>4. u + X <= B + X - 1
    <3> HIDE DEF u
    <3> QED  BY <1>1, <1>2, <1>4, <2>3
  <2>5. (a + 1) * X <= B + X - 1
    BY <2>2, <2>4
  <2> QED  BY <1>1, <1>3, <2>1, <2>5, BelowQuotient
<1>9. G \in Nat
  <2>1. B + X - 1 \in Nat
    BY <1>1, <1>2
  <2> QED  BY <1>1, <1>3, <2>1, Division
<1>10. a \in 0 .. G - 1 /\ b \in 0 .. D - 1 /\ c \in 0 .. R - 1
  BY <1>1, <1>4, <1>6, <1>7, <1>8, <1>9
<1>11. l \in LaneSet(t)
  BY <1>10 DEF LaneSet, G, D, R
<1>12. l[1] = a /\ l[2] = b /\ l[3] = c
  OBVIOUS
<1> HIDE DEF l
<1>13. Index(t, l) = a * X + (c * D + b)
  <2>1. Index(t, l) = l[1] * X + (l[3] * BlockDim + l[2])
    BY <1>11, IndexDigits DEF X, R, D
  <2> QED  BY <1>12, <2>1 DEF D
<1>14. Index(t, l) = i
  BY <1>4, <1>6, <1>13
<1> QED
  BY <1>11, <1>14

\* The lanes of a batch and the nonces of its range correspond.
LEMMA LaneFacts ==
    ASSUME GivenScenario, NEW t, NEW start \in 0 .. Space - Batch(t)
    PROVE  /\ \A l \in InBatch(t) : LaneNonce(t, start, l) \in RangeOf(t, start)
           /\ \A l, m \in InBatch(t) : LaneNonce(t, start, l) = LaneNonce(t, start, m) => l = m
           /\ \A x \in RangeOf(t, start) : \E l \in InBatch(t) : LaneNonce(t, start, l) = x
<1> DEFINE B == Batch(t)
<1>0. B \in Nat \ {0} /\ Space \in Nat /\ B \in 1 .. Space /\ start \in Nat
  BY BatchFacts
<1>1. ASSUME NEW l \in InBatch(t) PROVE Index(t, l) \in 0 .. B - 1
  <2>1. l \in LaneSet(t) /\ Index(t, l) < B
    BY <1>1 DEF InBatch
  <2> DEFINE X == Roll(t) * BlockDim
             r == l[3] * BlockDim + l[2]
  <2>2. l[1] \in Nat /\ r \in Nat /\ Index(t, l) = l[1] * X + r
    BY <2>1, IndexDigits
  <2>3. X \in Nat
    BY RollFacts
  <2>4. l[1] * X \in Nat
    BY <2>2, <2>3
  <2>5. Index(t, l) \in Nat
    <3> HIDE DEF X, r
    <3> QED  BY <2>2, <2>4
  <2> QED  BY <1>0, <2>1, <2>5
<1>2. ASSUME NEW l \in InBatch(t)
      PROVE  /\ LaneNonce(t, start, l) = start + Index(t, l)
             /\ LaneNonce(t, start, l) \in RangeOf(t, start)
  BY <1>1, NonceFacts DEF LaneNonce
<1>3. ASSUME NEW l \in InBatch(t), NEW m \in InBatch(t),
             LaneNonce(t, start, l) = LaneNonce(t, start, m)
      PROVE  l = m
  <2>1. start + Index(t, l) = start + Index(t, m)
    BY <1>2, <1>3
  <2>2. Index(t, l) \in 0 .. B - 1 /\ Index(t, m) \in 0 .. B - 1
    BY <1>1
  <2>3. Index(t, l) = Index(t, m)
    BY <1>0, <2>1, <2>2
  <2> QED  BY <2>3, IndexInjective DEF InBatch
<1>4. ASSUME NEW x \in RangeOf(t, start) PROVE \E l \in InBatch(t) : LaneNonce(t, start, l) = x
  <2>1. x - start \in 0 .. B - 1 /\ start + (x - start) = x
    BY <1>0 DEF RangeOf
  <2>2. PICK l \in LaneSet(t) : Index(t, l) = x - start
    BY <2>1, IndexCovers
  <2>3. l \in InBatch(t)
    BY <1>0, <2>1, <2>2 DEF InBatch
  <2>4. LaneNonce(t, start, l) = x
    BY <1>2, <2>1, <2>2, <2>3
  <2> QED  BY <2>3, <2>4
<1> QED
  BY <1>2, <1>3, <1>4

-----------------------------------------------------------------------------
(* Sorting *)

\* p puts the first k numbers of s in order.
Orders(p, s, k) ==
    /\ p \in [1 .. k -> 1 .. k]
    /\ \A i, j \in 1 .. k : p[i] = p[j] => i = j
    /\ \A i, j \in 1 .. k : i < j => s[p[i]] <= s[p[j]]

\* One more number is put where the first larger one stood.
LEMMA Insertion ==
    ASSUME NEW k \in Nat \ {0}, NEW s, \A i \in 1 .. k : s[i] \in Nat,
           NEW p, Orders(p, s, k - 1)
    PROVE  \E q : Orders(q, s, k)
<1> DEFINE U == {i \in 1 .. k : i = k \/ s[p[i]] > s[k]}
<1>0. /\ p \in [1 .. k - 1 -> 1 .. k - 1]
      /\ \A i, j \in 1 .. k - 1 : p[i] = p[j] => i = j
      /\ \A i, j \in 1 .. k - 1 : i < j => s[p[i]] <= s[p[j]]
  BY DEF Orders
<1>1. U \in SUBSET Nat /\ k \in U
  OBVIOUS
<1>2. PICK c \in U : \A y \in U : c <= y
  BY <1>1, LeastElement, Zenon
<1>3. c \in 1 .. k /\ c \in Nat
  OBVIOUS
<1>4. ASSUME NEW i \in 1 .. k - 1
      PROVE  /\ p[i] \in 1 .. k - 1 /\ p[i] \in 1 .. k /\ p[i] # k /\ s[p[i]] \in Nat
             /\ i < c => s[p[i]] <= s[k]
             /\ i >= c => s[k] <= s[p[i]]
  <2>0. i \in 1 .. k /\ i # k /\ i \in Nat
    OBVIOUS
  <2>1. p[i] \in 1 .. k - 1
    BY <1>0
  <2>2. p[i] \in 1 .. k /\ p[i] # k
    BY <2>1
  <2>3. s[p[i]] \in Nat /\ s[k] \in Nat
    BY <2>2
  <2>4. i < c => i \notin U
    BY <1>2, <1>3, <2>0
  <2>5. i < c => s[p[i]] <= s[k]
    BY <2>0, <2>3, <2>4
  <2>6. ASSUME i >= c PROVE s[k] <= s[p[i]]
    <3>1. c \in 1 .. k - 1 /\ c # k
      BY <1>3, <2>6
    <3>2. s[p[c]] > s[k]
      BY <3>1
    <3>3. p[c] \in 1 .. k
      BY <1>0, <3>1
    <3>4. s[p[c]] \in Nat
      BY <3>3
    <3>5. i = c \/ s[p[c]] <= s[p[i]]
      BY <1>0, <1>3, <2>0, <2>6, <3>1
    <3> QED  BY <2>3, <3>2, <3>4, <3>5
  <2> QED  BY <2>1, <2>2, <2>3, <2>5, <2>6
<1>5. s[k] \in Nat /\ k \in 1 .. k
  OBVIOUS
<1> HIDE DEF U
<1> DEFINE q == [i \in 1 .. k |-> IF i < c THEN p[i] ELSE IF i = c THEN k ELSE p[i - 1]]
<1>6. ASSUME NEW i \in 1 .. k
      PROVE  /\ i < c => i \in 1 .. k - 1 /\ q[i] = p[i]
             /\ i = c => q[i] = k
             /\ i > c => i - 1 \in 1 .. k - 1 /\ q[i] = p[i - 1] /\ i - 1 >= c
             /\ i < c \/ i = c \/ i > c
  BY <1>3
<1> HIDE DEF q
<1>7. q \in [1 .. k -> 1 .. k]
  <2>1. \A i \in 1 .. k : q[i] \in 1 .. k
    BY <1>4, <1>5, <1>6
  <2>2. q = [i \in 1 .. k |-> q[i]]
    BY DEF q
  <2> QED  BY <2>1, <2>2
<1>8. ASSUME NEW i \in 1 .. k, NEW j \in 1 .. k, i < j
      PROVE  q[i] # q[j] /\ s[q[i]] <= s[q[j]]
  <2>1. CASE j < c
    <3>1. i < c
      BY <1>3, <1>8, <2>1
    <3>2. i \in 1 .. k - 1 /\ j \in 1 .. k - 1 /\ q[i] = p[i] /\ q[j] = p[j]
      BY <1>6, <2>1, <3>1
    <3> QED  BY <1>0, <1>8, <3>2
  <2>2. CASE j = c
    <3>1. i < c
      BY <1>8, <2>2
    <3>2. i \in 1 .. k - 1 /\ q[i] = p[i] /\ q[j] = k
      BY <1>6, <2>2, <3>1
    <3> QED  BY <1>4, <3>1, <3>2
  <2>3. CASE i < c /\ j > c
    <3>1. i \in 1 .. k - 1 /\ j - 1 \in 1 .. k - 1 /\ q[i] = p[i] /\ q[j] = p[j - 1] /\ j - 1 >= c
      BY <1>6, <2>3
    <3>2. i < j - 1
      BY <1>3, <2>3, <3>1
    <3>3. i # j - 1
      BY <3>2
    <3> QED  BY <1>0, <3>1, <3>2, <3>3
  <2>4. CASE i = c
    <3>1. j > c
      BY <1>8, <2>4
    <3>2. j - 1 \in 1 .. k - 1 /\ q[i] = k /\ q[j] = p[j - 1] /\ j - 1 >= c
      BY <1>6, <2>4, <3>1
    <3> QED  BY <1>4, <3>2
  <2>5. CASE i > c
    <3>1. j > c
      BY <1>3, <1>8, <2>5
    <3>2. /\ i - 1 \in 1 .. k - 1 /\ q[i] = p[i - 1]
          /\ j - 1 \in 1 .. k - 1 /\ q[j] = p[j - 1]
      BY <1>6, <2>5, <3>1
    <3>3. i - 1 < j - 1 /\ i - 1 # j - 1
      BY <1>8
    <3> QED  BY <1>0, <3>2, <3>3
  <2> QED
    BY <1>6, <2>1, <2>2, <2>3, <2>4, <2>5
<1>9. ASSUME NEW i \in 1 .. k, NEW j \in 1 .. k, q[i] = q[j] PROVE i = j
  <2>1. i < j \/ j < i \/ i = j
    OBVIOUS
  <2> QED  BY <1>8, <1>9, <2>1
<1>10. Orders(q, s, k)
  BY <1>7, <1>8, <1>9 DEF Orders
<1> QED
  BY <1>10

\* The numbers of a list, each once if the list has each once.
LEMMA SortedFacts ==
    ASSUME NEW X \in SUBSET Nat, NEW s \in Seq(X)
    PROVE  /\ Sorted(s) \in Seq(X)
           /\ ToSet(Sorted(s)) = ToSet(s)
           /\ IsInjective(s) => IsInjective(Sorted(s))
<1> DEFINE n == Len(s)
           T == {k \in 0 .. n : \E p : Orders(p, s, k)}
           Sorts(p) == IsInjective(p) /\ \A i, j \in DOMAIN s : i < j => s[p[i]] <= s[p[j]]
           order == CHOOSE p \in [DOMAIN s -> DOMAIN s] : Sorts(p)
<1>0. n \in Nat /\ DOMAIN s = 1 .. n /\ \A i \in 1 .. n : s[i] \in X /\ s[i] \in Nat
  <2>1. n \in Nat /\ DOMAIN s = 1 .. n
    OBVIOUS
  <2>2. ASSUME NEW i \in 1 .. n PROVE s[i] \in X
    OBVIOUS
  <2>3. \A x \in X : x \in Nat
    OBVIOUS
  <2> QED  BY <2>1, <2>2, <2>3
<1>1. Sorted(s) = [i \in DOMAIN s |-> s[order[i]]]
  BY DEF Sorted
<1>2. 0 \in T
  <2> DEFINE p == [i \in 1 .. 0 |-> i]
  <2>1. 1 .. 0 = {}
    OBVIOUS
  <2>2. Orders(p, s, 0)
    BY <2>1 DEF Orders
  <2>3. 0 \in 0 .. n
    BY <1>0
  <2> HIDE DEF p
  <2> QED  BY <2>2, <2>3
<1>3. ASSUME NEW k \in 1 .. n, k - 1 \in T PROVE k \in T
  <2>1. k \in Nat \ {0} /\ k \in 0 .. n /\ \A i \in 1 .. k : s[i] \in Nat
    BY <1>0
  <2>2. PICK p : Orders(p, s, k - 1)
    BY <1>3
  <2>3. \E q : Orders(q, s, k)
    BY <2>1, <2>2, Insertion
  <2> QED  BY <2>1, <2>3
<1> HIDE DEF T
<1>4. n \in T
  <2>1. \A k \in 0 .. n : k \in T
    BY <1>0, <1>2, <1>3, Upwards, Zenon
  <2> QED  BY <1>0, <2>1
<1>5. PICK p : Orders(p, s, n)
  BY <1>4 DEF T
<1>6. p \in [DOMAIN s -> DOMAIN s] /\ Sorts(p)
  <2>1. DOMAIN p = 1 .. n /\ p \in [1 .. n -> 1 .. n]
    BY <1>5 DEF Orders
  <2>2. IsInjective(p)
    BY <1>5, <2>1 DEF Orders, IsInjective
  <2> QED  BY <1>0, <1>5, <2>1, <2>2 DEF Orders
<1>7. order \in [DOMAIN s -> DOMAIN s] /\ Sorts(order)
  <2> HIDE DEF Sorts
  <2> QED  BY <1>6
<1>8. order \in [1 .. n -> 1 .. n] /\ IsInjective(order)
  BY <1>0, <1>7
<1> HIDE DEF order, Sorts
<1> DEFINE g == Sorted(s)
<1>9. g = [i \in 1 .. n |-> s[order[i]]]
  BY <1>0, <1>1
<1>10. \A i \in 1 .. n : order[i] \in 1 .. n /\ g[i] = s[order[i]] /\ g[i] \in X
  BY <1>0, <1>8, <1>9
<1>11. g \in Seq(X) /\ Len(g) = n
  <2>1. g \in [1 .. n -> X]
    BY <1>9, <1>10
  <2> HIDE DEF g
  <2> QED  BY <1>0, <2>1
<1>12. \A j \in 1 .. n : \E i \in 1 .. n : order[i] = j
  <2> DEFINE S == 1 .. n
  <2>1. IsFiniteSet(S)
    BY <1>0, FS_Interval
  <2> HIDE DEF S
  <2>2. order \in Injection(S, S)
    BY <1>8 DEF Injection, S
  <2>3. order \in Surjection(S, S)
    BY <2>1, <2>2, FS_Injection, Zenon
  <2>4. \A j \in S : \E i \in S : order[i] = j
    BY <2>3 DEF Surjection
  <2> QED  BY <2>4 DEF S
<1> HIDE DEF g
<1>13. ToSet(g) = ToSet(s)
  <2>1. \A x : x \in ToSet(g) <=> \E i \in 1 .. n : x = g[i]
    BY <1>11, Places
  <2>2. \A x : x \in ToSet(s) <=> \E i \in 1 .. n : x = s[i]
    BY Places
  <2>3. \A x : x \in ToSet(g) => x \in ToSet(s)
    BY <1>10, <2>1, <2>2
  <2>4. ASSUME NEW x \in ToSet(s) PROVE x \in ToSet(g)
    <3>1. PICK j \in 1 .. n : x = s[j]
      BY <2>2
    <3>2. PICK i \in 1 .. n : order[i] = j
      BY <1>12
    <3>3. x = g[i]
      BY <1>10, <3>1, <3>2
    <3> QED  BY <2>1, <3>3
  <2> QED  BY <2>3, <2>4
<1>14. ASSUME IsInjective(s) PROVE IsInjective(g)
  <2>1. \A i, j \in 1 .. n : s[i] = s[j] => i = j
    BY <1>14, Places
  <2>2. \A i, j \in 1 .. n : order[i] = order[j] => i = j
    BY <1>8 DEF IsInjective
  <2>3. \A i, j \in 1 .. n : g[i] = g[j] => i = j
    BY <1>10, <2>1, <2>2
  <2> QED  BY <1>11, <2>3, Places
<1> QED
  BY <1>11, <1>13, <1>14 DEF g

-----------------------------------------------------------------------------
(* What a scan returns *)

\* The share target decides as the exact fraction, and the devices' test on
\* the high words drops none that qualifies.
LEMMA TargetFacts ==
    ASSUME GivenScenario, work.difficulty[1] # 0, NEW n \in 0 .. Space - 1
    PROVE  /\ meets(work.hash[n], Target) <=> Qualifies(n)
           /\ Qualifies(n) => Prefilter(n)
<1> DEFINE h == work.hash[n]
           d == work.difficulty[1]
           e == work.difficulty[2]
<1>0. IsWork(work)
  BY ScenarioFacts
<1>1. h \in Hashes /\ d \in Nat \ {0} /\ e \in Int
  <2>1. work.hash \in [0 .. Space - 1 -> Hashes] /\ work.difficulty \in Nat \X Int
    BY <1>0 DEF IsWork
  <2>2. h \in Hashes
    BY <2>1
  <2>3. d \in Nat /\ e \in Int
    BY <2>1
  <2> QED  BY <2>2, <2>3
<1>2. Target = difficulty_target(d, e)
  BY DEF Target
<1>3. Qualifies(n) <=> Number(h) * d * (IF e > 0 THEN Power(10, e) ELSE 1)
                          <= One * (IF e < 0 THEN Power(10, -e) ELSE 1)
  BY DEF Qualifies
<1>4. Prefilter(n) <=> High(h) <= High(Target)
  BY DEF Prefilter
<1> HIDE DEF h, d, e
<1>5. Target \in Hashes /\ (meets(h, Target) <=> Qualifies(n))
  BY <1>1, <1>2, <1>3, DifficultyExact
<1>6. meets(h, Target) => High(h) <= High(Target)
  BY <1>1, <1>5, MeetsCompares
<1> QED
  BY <1>4, <1>5, <1>6 DEF h

\* A list of the nonces of S that meet the target is exact, if S has all that
\* pass the test on the high word.
LEMMA Exactness ==
    ASSUME GivenScenario, work.difficulty[1] # 0, NEW t, NEW start \in 0 .. Space - Batch(t),
           NEW S \in SUBSET RangeOf(t, start), NEW got, IsInjective(got),
           ToSet(got) = Meeting(S),
           ~work.flaky => \A x \in RangeOf(t, start) : Prefilter(x) => x \in S
    PROVE  IsExact(t, start, got)
<1>1. \A x \in RangeOf(t, start) : x \in 0 .. Space - 1
  <2>1. Batch(t) \in 1 .. Space /\ Space \in Nat
    BY BatchFacts
  <2> QED  BY <2>1 DEF RangeOf
<1>2. \A x \in RangeOf(t, start) :
          (meets(work.hash[x], Target) <=> Qualifies(x)) /\ (Qualifies(x) => Prefilter(x))
  BY <1>1, TargetFacts
<1>3. \A x : x \in ToSet(got) <=> x \in S /\ meets(work.hash[x], Target)
  BY DEF Meeting
<1> DEFINE want == {n \in RangeOf(t, start) : Qualifies(n)}
<1>4. ToSet(got) \subseteq want
  BY <1>2, <1>3
<1>5. ASSUME ~work.flaky PROVE want \subseteq ToSet(got)
  BY <1>2, <1>3, <1>5
<1> QED
  BY <1>4, <1>5 DEF IsExact

\* The candidates of a kernel that has ended.
LEMMA CollectExact ==
    ASSUME GivenScenario, NEW t, NEW a, Assigns(a, t, th[t]),
           th[t].start \in 0 .. Space - Batch(t), work.difficulty[1] # 0,
           th[t].n \in Nat, th[t].n <= Capacity, th[t].todo = {}, th[t].stores = {}
    PROVE  Shares(t) \in Seq(0 .. Space - 1) /\ IsExact(t, th[t].start, Shares(t))
<1> DEFINE q == th[t]
           n == q.n
           X == 0 .. Space - 1
           R == RangeOf(t, q.start)
           c == Candidates(t)
           S == {a[i] : i \in 0 .. n - 1}
           M == Meeting(ToSet(c))
           m == Filter(c, M)
<1>0. /\ n \in Nat /\ n <= Capacity /\ Capacity \in Nat
      /\ Batch(t) \in 1 .. Space /\ Space \in Nat /\ q.start \in 0 .. Space - Batch(t)
  BY BatchFacts, BackendsAssumption
<1>1. /\ a \in [0 .. n - 1 -> R]
      /\ \A i, j \in 0 .. n - 1 : a[i] = a[j] => i = j
      /\ \A i \in 0 .. n - 1 : i < Capacity => q.buf[i] = a[i]
      /\ ~work.flaky => \A x \in R : Prefilter(x) => x \in S
  BY DEF Assigns
<1>2. c = [s \in 1 .. n |-> q.buf[s - 1]]
  BY DEF Candidates
<1>3. \A x \in R : x \in X
  BY <1>0 DEF RangeOf
<1> HIDE DEF R, X
<1>4. ASSUME NEW s \in 1 .. n PROVE s - 1 \in 0 .. n - 1 /\ c[s] = a[s - 1] /\ c[s] \in X
  <2>1. s - 1 \in 0 .. n - 1 /\ s - 1 < Capacity
    BY <1>0
  <2>2. c[s] = q.buf[s - 1]
    BY <1>2
  <2>3. q.buf[s - 1] = a[s - 1] /\ a[s - 1] \in R
    BY <1>1, <2>1
  <2> QED  BY <1>3, <2>1, <2>2, <2>3
<1>5. c \in Seq(X) /\ Len(c) = n
  <2>1. c \in [1 .. n -> X]
    BY <1>2, <1>4
  <2> HIDE DEF c
  <2> QED  BY <1>0, <2>1
<1> HIDE DEF c, q, n
<1>6. ToSet(c) = S
  <2>1. \A x : x \in ToSet(c) <=> \E s \in 1 .. n : x = c[s]
    BY <1>5, Places
  <2>2. \A x : x \in ToSet(c) => x \in S
    BY <1>4, <2>1
  <2>3. ASSUME NEW i \in 0 .. n - 1 PROVE a[i] \in ToSet(c)
    <3>1. i + 1 \in 1 .. n /\ (i + 1) - 1 = i
      BY <1>0
    <3>2. c[i + 1] = a[i]
      BY <1>4, <3>1
    <3> QED  BY <2>1, <3>1, <3>2
  <2> QED  BY <2>2, <2>3
<1>7. IsInjective(c)
  <2>1. ASSUME NEW i \in 1 .. n, NEW j \in 1 .. n, c[i] = c[j] PROVE i = j
    <3>1. i - 1 \in 0 .. n - 1 /\ j - 1 \in 0 .. n - 1 /\ a[i - 1] = a[j - 1]
      BY <1>4, <2>1
    <3>2. i - 1 = j - 1
      BY <1>1, <3>1
    <3> QED  BY <1>0, <3>2
  <2> QED  BY <1>5, <2>1, Places
<1>8. m \in Seq(X) /\ ToSet(m) = ToSet(c) \cap M /\ IsInjective(m)
  <2> HIDE DEF M
  <2> QED  BY <1>5, <1>7, FilterFacts
<1>9. ToSet(m) = Meeting(S)
  BY <1>6, <1>8 DEF Meeting
<1>10. Shares(t) = IF Api(t) = "opencl" THEN Sorted(m) ELSE m
  BY DEF Shares, c
<1> HIDE DEF m, M
<1>11. Shares(t) \in Seq(X) /\ ToSet(Shares(t)) = Meeting(S) /\ IsInjective(Shares(t))
  <2>1. X \in SUBSET Nat
    BY <1>0 DEF X
  <2>2. Sorted(m) \in Seq(X) /\ ToSet(Sorted(m)) = ToSet(m) /\ IsInjective(Sorted(m))
    BY <1>8, <2>1, SortedFacts
  <2> QED  BY <1>8, <1>9, <1>10, <2>2
<1>12. S \in SUBSET R
  BY <1>1
<1> HIDE DEF S
<1>13. IsExact(t, q.start, Shares(t))
  BY <1>0, <1>1, <1>11, <1>12, Exactness DEF R
<1> QED
  BY <1>11, <1>13 DEF X, q

\* The scalar code looks at every nonce of the range.
LEMMA ScalarExact ==
    ASSUME GivenScenario, NEW t, NEW start \in 0 .. Space - Batch(t), work.difficulty[1] # 0
    PROVE  /\ Scalar(start, Batch(t)) \in Seq(0 .. Space - 1)
           /\ IsExact(t, start, Scalar(start, Batch(t)))
<1> DEFINE n == Batch(t)
           X == 0 .. Space - 1
           R == RangeOf(t, start)
           c == [i \in 1 .. n |-> start + i - 1]
           M == Meeting(R)
           got == Filter(c, M)
<1>0. n \in 1 .. Space /\ Space \in Nat /\ n \in Nat /\ start \in Nat
  BY BatchFacts
<1>1. Scalar(start, n) = got
  BY DEF Scalar, RangeOf
<1> HIDE DEF n
<1>2. c \in Seq(X) /\ Len(c) = n
  <2>1. \A i \in 1 .. n : start + i - 1 \in X
    BY <1>0 DEF n
  <2>2. c \in [1 .. n -> X]
    BY <2>1
  <2> HIDE DEF c, X
  <2> QED  BY <1>0, <2>2
<1>3. \A i \in 1 .. n : c[i] = start + i - 1
  OBVIOUS
<1> HIDE DEF c, X
<1>4. ToSet(c) = R
  <2>1. \A x : x \in ToSet(c) <=> \E s \in 1 .. n : x = c[s]
    BY <1>2, Places
  <2>2. R = start .. start + n - 1
    BY DEF RangeOf, n
  <2>3. ASSUME NEW x \in R PROVE x \in ToSet(c)
    <3>1. x - start + 1 \in 1 .. n /\ start + (x - start + 1) - 1 = x
      BY <1>0, <2>2
    <3> QED  BY <1>3, <2>1, <3>1
  <2>4. ASSUME NEW x \in ToSet(c) PROVE x \in R
    <3>1. PICK s \in 1 .. n : x = start + s - 1
      BY <1>3, <2>1
    <3> QED  BY <1>0, <2>2, <3>1
  <2> QED  BY <2>3, <2>4
<1>5. IsInjective(c)
  <2>1. ASSUME NEW i \in 1 .. n, NEW j \in 1 .. n, c[i] = c[j] PROVE i = j
    <3>1. start + i - 1 = start + j - 1
      BY <1>3, <2>1
    <3> QED  BY <1>0, <3>1
  <2> QED  BY <1>2, <2>1, Places
<1>6. got \in Seq(X) /\ ToSet(got) = ToSet(c) \cap M /\ IsInjective(got)
  <2> HIDE DEF M
  <2> QED  BY <1>2, <1>5, FilterFacts
<1>7. ToSet(got) = Meeting(R)
  BY <1>4, <1>6 DEF Meeting
<1> HIDE DEF got, M, R
<1>8. IsExact(t, start, got)
  <2>1. R \in SUBSET RangeOf(t, start) /\ \A x \in RangeOf(t, start) : x \in R
    BY DEF R
  <2> QED  BY <1>6, <1>7, <2>1, Exactness
<1> QED
  BY <1>1, <1>6, <1>8 DEF X, n

\* The nonces of a vector group.
Group(start, g) == [lane \in 1 .. AvxLanes |-> start + AvxLanes * (g - 1) + lane - 1]

\* The vector groups divide the nonces: each belongs to one group, once.
LEMMA GroupFacts ==
    ASSUME NEW start \in Nat, NEW g \in Nat \ {0}
    PROVE  /\ Group(start, g) \in Seq(Nat) /\ IsInjective(Group(start, g))
           /\ \A x \in Nat : x \in ToSet(Group(start, g)) <=>
                 x >= start /\ (x - start) \div AvxLanes = g - 1
<1> DEFINE L == AvxLanes
           c == Group(start, g)
           u == L * (g - 1)
<1>0. L \in Nat \ {0}
  BY BackendsAssumption
<1>1. c = [lane \in 1 .. L |-> start + u + lane - 1]
  BY DEF Group
<1>2. u \in Nat /\ u = (g - 1) * L /\ g - 1 \in Nat
  <2>1. g - 1 \in Nat
    OBVIOUS
  <2> DEFINE k == g - 1
  <2>2. k \in Nat
    BY <2>1
  <2> HIDE DEF k, L
  <2>3. L * k \in Nat /\ L * k = k * L
    BY <1>0, <2>2
  <2> QED  BY <2>1, <2>3 DEF k
<1> HIDE DEF u, L
<1>3. c \in Seq(Nat) /\ Len(c) = L
  <2>1. \A i \in 1 .. L : start + u + i - 1 \in Nat
    BY <1>0, <1>2
  <2>2. c \in [1 .. L -> Nat]
    BY <1>1, <2>1
  <2> HIDE DEF c
  <2> QED  BY <1>0, <2>2
<1>4. \A i \in 1 .. L : c[i] = start + u + i - 1
  BY <1>1
<1> HIDE DEF c
<1>5. IsInjective(c)
  <2>1. ASSUME NEW i \in 1 .. L, NEW j \in 1 .. L, c[i] = c[j] PROVE i = j
    <3>1. start + u + i - 1 = start + u + j - 1
      BY <1>4, <2>1
    <3> QED  BY <1>0, <1>2, <3>1
  <2> QED  BY <1>3, <2>1, Places
<1>6. ASSUME NEW x \in Nat
      PROVE  x \in ToSet(c) <=> x >= start /\ (x - start) \div L = g - 1
  <2>1. x \in ToSet(c) <=> \E i \in 1 .. L : x = c[i]
    BY <1>3, Places
  <2>2. ASSUME NEW i \in 1 .. L, x = c[i] PROVE x >= start /\ (x - start) \div L = g - 1
    <3>1. x = start + u + i - 1
      BY <1>4, <2>2
    <3>2. x >= start /\ x - start \in Nat /\ u <= x - start /\ x - start < u + L
      BY <1>0, <1>2, <3>1
    <3> DEFINE y == x - start
               k == g - 1
    <3>3. y \in Nat /\ k \in Nat /\ k * L <= y /\ y < k * L + L
      BY <1>2, <3>2
    <3> HIDE DEF y, k
    <3>4. y \div L = k
      BY <1>0, <3>3, Quotient
    <3> QED  BY <3>2, <3>4 DEF y, k
  <2>3. ASSUME x >= start, (x - start) \div L = g - 1 PROVE \E i \in 1 .. L : x = c[i]
    <3> DEFINE y == x - start
               k == g - 1
               r == y % L
    <3>1. y \in Nat /\ k = y \div L
      BY <2>3
    <3>2. u = k * L
      BY <1>2
    <3> HIDE DEF y, k
    <3>3. r \in 0 .. L - 1 /\ k * L + r = y
      BY <1>0, <3>1, Division
    <3> HIDE DEF r
    <3>4. u + r = x - start
      BY <3>2, <3>3 DEF y
    <3>5. r + 1 \in 1 .. L /\ x = start + u + (r + 1) - 1
      BY <1>0, <1>2, <3>3, <3>4
    <3> QED  BY <1>4, <3>5
  <2> QED  BY <2>1, <2>2, <2>3
<1> QED
  BY <1>3, <1>5, <1>6 DEF c, L

\* The elements of S in the groups that cover the range.
ByGroups(ss, t, start, S) ==
    ss = [g \in 1 .. (Batch(t) + AvxLanes - 1) \div AvxLanes |-> Filter(Group(start, g), S)]

\* The vector code covers the range by groups, the last of which may be cut.
LEMMA AvxFacts ==
    ASSUME GivenScenario, NEW t, NEW start \in 0 .. Space - Batch(t),
           NEW S \in SUBSET RangeOf(t, start), NEW ss, ByGroups(ss, t, start, S)
    PROVE  /\ FlattenSeq(ss) \in Seq(Nat)
           /\ ToSet(FlattenSeq(ss)) = S
           /\ IsInjective(FlattenSeq(ss))
<1> DEFINE n == Batch(t)
           L == AvxLanes
           G == (n + L - 1) \div L
<1>0. n \in Nat \ {0} /\ L \in Nat \ {0} /\ start \in Nat
  <2>1. n \in Nat \ {0} /\ Space \in Nat
    BY BatchFacts
  <2> QED  BY <2>1, BackendsAssumption
<1>1. ss = [g \in 1 .. G |-> Filter(Group(start, g), S)]
  BY DEF ByGroups
<1>2. \A x \in S : x \in start .. start + n - 1 /\ x \in Nat
  BY <1>0 DEF RangeOf
<1> HIDE DEF n, L
<1>3. n + L - 1 \in Nat /\ G \in Nat
  <2>1. n + L - 1 \in Nat
    BY <1>0
  <2> QED  BY <1>0, <2>1, Division
<1>4. ASSUME NEW g \in 1 .. G
      PROVE  /\ ss[g] \in Seq(Nat) /\ IsInjective(ss[g])
             /\ \A x : x \in ToSet(ss[g]) <=> x \in S /\ (x - start) \div L = g - 1
  <2>1. g \in Nat \ {0}
    BY <1>3
  <2> DEFINE c == Group(start, g)
  <2>2. /\ c \in Seq(Nat) /\ IsInjective(c)
        /\ \A x \in Nat : x \in ToSet(c) <=> x >= start /\ (x - start) \div L = g - 1
    BY <1>0, <2>1, GroupFacts DEF L
  <2>3. ss[g] = Filter(c, S)
    BY <1>1
  <2> HIDE DEF c
  <2>4. ss[g] \in Seq(Nat) /\ IsInjective(ss[g]) /\ ToSet(ss[g]) = ToSet(c) \cap S
    <3> DEFINE m == Filter(c, S)
    <3>1. m \in Seq(Nat) /\ IsInjective(m) /\ ToSet(m) = ToSet(c) \cap S
      BY <2>2, FilterFacts
    <3> HIDE DEF m
    <3>2. ss[g] = m
      BY <2>3 DEF m
    <3> QED  BY <3>1, <3>2
  <2>5. \A x \in S : x \in Nat /\ x >= start
    BY <1>0, <1>2
  <2> QED  BY <2>2, <2>4, <2>5
<1>5. ss \in Seq(Seq(Nat)) /\ Len(ss) = G
  <2>1. ss = [g \in 1 .. G |-> ss[g]]
    BY <1>1
  <2> DEFINE Y == Seq(Nat)
  <2>2. \A g \in 1 .. G : ss[g] \in Y
    BY <1>4
  <2> HIDE DEF G, Y
  <2>3. ss \in [1 .. G -> Y]
    BY <2>1, <2>2
  <2>4. ss \in Seq(Y) /\ Len(ss) = G
    BY <1>3, <2>3
  <2> QED  BY <2>4 DEF Y
<1>6. \A k, l \in 1 .. G : k # l => ToSet(ss[k]) \cap ToSet(ss[l]) = {}
  <2> SUFFICES ASSUME NEW k \in 1 .. G, NEW l \in 1 .. G, NEW x,
                      x \in ToSet(ss[k]), x \in ToSet(ss[l])
               PROVE  k = l
    OBVIOUS
  <2>1. (x - start) \div L = k - 1 /\ (x - start) \div L = l - 1
    BY <1>4
  <2>2. k \in Nat /\ l \in Nat /\ k - 1 = l - 1
    BY <1>3, <2>1
  <2> QED  BY <2>2
<1>7. UNION {ToSet(ss[k]) : k \in 1 .. G} = S
  <2>1. \A k \in 1 .. G : \A x \in ToSet(ss[k]) : x \in S
    BY <1>4
  <2>2. ASSUME NEW x \in S PROVE \E k \in 1 .. G : x \in ToSet(ss[k])
    <3> DEFINE y == x - start
               k == y \div L
               r == y % L
    <3>1. y \in Nat /\ y < n
      BY <1>0, <1>2
    <3> HIDE DEF y
    <3>2. k \in Nat /\ r \in 0 .. L - 1 /\ k * L + r = y
      BY <1>0, <3>1, Division
    <3>3. k + 1 <= G
      <4> HIDE DEF k, r
      <4>1. (k + 1) * L = k * L + L /\ k * L \in Nat /\ k + 1 \in Nat
        BY <1>0, <3>2
      <4> DEFINE u == k * L
      <4>2. u \in Nat /\ u + r = y
        BY <3>2, <4>1
      <4>3. u + L <= n + L - 1
        <5> HIDE DEF u
        <5> QED  BY <1>0, <3>1, <3>2, <4>2
      <4>4. (k + 1) * L <= n + L - 1
        BY <4>1, <4>3
      <4> QED  BY <1>0, <1>3, <4>1, <4>4, BelowQuotient
    <3>4. k + 1 \in 1 .. G /\ (k + 1) - 1 = k
      <4> HIDE DEF k, G
      <4> QED  BY <1>3, <3>2, <3>3
    <3>5. x \in ToSet(ss[k + 1])
      BY <1>4, <3>4 DEF y
    <3> QED  BY <3>4, <3>5
  <2> QED  BY <2>1, <2>2
<1> HIDE DEF G
<1>8. /\ FlattenSeq(ss) \in Seq(Nat)
      /\ ToSet(FlattenSeq(ss)) = UNION {ToSet(ss[k]) : k \in 1 .. Len(ss)}
      /\ /\ \A k \in 1 .. Len(ss) : IsInjective(ss[k])
         /\ \A k, l \in 1 .. Len(ss) : k # l => ToSet(ss[k]) \cap ToSet(ss[l]) = {}
         => IsInjective(FlattenSeq(ss))
  BY <1>5, FlattenFacts
<1> QED
  BY <1>4, <1>5, <1>6, <1>7, <1>8

\* A list whose elements lie in X.
LEMMA ListInto ==
    ASSUME NEW Y, NEW s \in Seq(Y), NEW X, ToSet(s) \subseteq X
    PROVE  s \in Seq(X)
<1> DEFINE n == Len(s)
<1>1. n \in Nat /\ s \in [1 .. n -> Y]
  OBVIOUS
<1>2. \A i \in 1 .. n : s[i] \in X
  BY Places
<1> HIDE DEF n
<1>3. s \in [1 .. n -> X]
  BY <1>1, <1>2
<1> QED
  BY <1>1, <1>3

\* The vector code, without the lanes that were missed.
LEMMA AvxExact ==
    ASSUME GivenScenario, NEW t, NEW start \in 0 .. Space - Batch(t), work.difficulty[1] # 0,
           NEW missed, ~work.flaky => missed = {},
           NEW got, got = Filter(Avx2(start, Batch(t)), RangeOf(t, start) \ missed)
    PROVE  got \in Seq(0 .. Space - 1) /\ IsExact(t, start, got)
<1> DEFINE n == Batch(t)
           R == RangeOf(t, start)
           S == {x \in Meeting(R) : Prefilter(x)}
           ss == [g \in 1 .. (n + AvxLanes - 1) \div AvxLanes |-> Filter(Group(start, g), S)]
           A == Avx2(start, n)
           K == R \ missed
           V == {x \in K : Prefilter(x)}
<1>1. A = FlattenSeq(ss)
  BY DEF Avx2, Group, RangeOf
<1>2. S \in SUBSET R
  BY DEF Meeting
<1>3. ByGroups(ss, t, start, S)
  BY DEF ByGroups
<1>4. A \in Seq(Nat) /\ ToSet(A) = S /\ IsInjective(A)
  <2> HIDE DEF ss, S, A
  <2> QED  BY <1>1, <1>2, <1>3, AvxFacts
<1> HIDE DEF A, K, ss
<1>5. got \in Seq(Nat) /\ ToSet(got) = ToSet(A) \cap K /\ IsInjective(got)
  <2>1. got = Filter(A, K)
    BY DEF A, K
  <2> DEFINE m == Filter(A, K)
  <2>2. m \in Seq(Nat) /\ ToSet(m) = ToSet(A) \cap K /\ IsInjective(m)
    BY <1>4, FilterFacts
  <2> HIDE DEF m
  <2>3. got = m
    BY <2>1 DEF m
  <2> QED  BY <2>2, <2>3
<1>6. ToSet(got) = Meeting(V)
  BY <1>4, <1>5 DEF Meeting, K
<1>7. \A x \in R : x \in 0 .. Space - 1
  <2>1. n \in 1 .. Space /\ Space \in Nat
    BY BatchFacts
  <2> QED  BY <2>1 DEF RangeOf
<1>8. got \in Seq(0 .. Space - 1)
  <2>1. ToSet(got) \subseteq 0 .. Space - 1
    BY <1>5, <1>7 DEF K
  <2> QED  BY <1>5, <2>1, ListInto
<1>9. V \in SUBSET R /\ (~work.flaky => \A x \in R : Prefilter(x) => x \in V)
  BY DEF K
<1> HIDE DEF V
<1>10. IsExact(t, start, got)
  BY <1>5, <1>6, <1>9, Exactness
<1> QED
  BY <1>8, <1>10

\* A scan begins within the range and with a work that has its targets.
LEMMA StartFacts ==
    ASSUME ControlInv, pc = "threads", NEW t, NEW start \in 0 .. Space - 1,
           MayStart(t, start), ~RangeOverflow(t, start)
    PROVE  start \in 0 .. Space - Batch(t) /\ Accepted
<1>1. GivenScenario /\ OneMode
  BY DEF ControlInv
<1>2. Batch(t) \in 1 .. Space /\ Space \in Nat
  BY <1>1, BatchFacts
<1>3. start \in 0 .. Space - Batch(t)
  BY <1>2 DEF RangeOverflow
<1>4. CASE "url" \in options.asked
  <2>1. Network # Refused /\ Target # Refused
    BY <1>4 DEF MayStart
  <2>2. work.difficulty[1] # 0
    BY <2>1 DEF Target, difficulty_target
  <2> QED  BY <1>3, <2>1, <2>2 DEF Accepted
<1>5. CASE "url" \notin options.asked
  <2>1. "bench" \in options.asked
    BY <1>1, <1>5 DEF OneMode
  <2>2. work.difficulty[1] > 0
    BY <1>1, <2>1, ScenarioFacts
  <2>3. work.difficulty \in Nat \X Int
    BY <1>1, ScenarioFacts DEF IsWork
  <2>4. work.difficulty[1] # 0
    BY <2>2, <2>3
  <2> QED  BY <1>3, <1>5, <2>4 DEF Accepted
<1> QED
  BY <1>4, <1>5

\* Neither at its beginning nor idle nor in a kernel.
LEMMA ScanSame ==
    ASSUME NEW t, NEW q, NEW r, ScanInv(t, q), r.start = q.start, DOMAIN r.buf = DOMAIN q.buf,
           r.result = q.result, r.pc \notin {"open", "idle", "kernel"}
    PROVE  ScanInv(t, r)
BY DEF ScanInv

\* A lane takes the next slot.
LEMMA ScanTake ==
    ASSUME GivenScenario, NEW t, NEW q, NEW r, ScanInv(t, q), q.pc = "kernel", NEW l \in q.todo,
           r.pc = "kernel", r.start = q.start, r.buf = q.buf, r.result = q.result,
           r.todo = q.todo \ {l}, r.n = q.n + 1,
           r.stores = q.stores \cup {<<q.n, LaneNonce(t, q.start, l)>>}
    PROVE  ScanInv(t, r)
<1> DEFINE n == q.n
           x == LaneNonce(t, q.start, l)
           R == RangeOf(t, q.start)
           V(m) == LaneNonce(t, q.start, m)
<1>1. /\ q.start \in 0 .. Space - Batch(t) /\ n \in Nat /\ q.todo \subseteq InBatch(t)
      /\ DOMAIN q.buf = 0 .. Capacity - 1 /\ q.result \in Seq(0 .. Space - 1) /\ Accepted
      /\ \E a : Assigns(a, t, q)
  BY DEF ScanInv
<1>2. PICK a : Assigns(a, t, q)
  BY <1>1
<1>3. /\ a \in [0 .. n - 1 -> R]
      /\ \A i, j \in 0 .. n - 1 : a[i] = a[j] => i = j
      /\ \A i \in 0 .. n - 1, m \in q.todo : a[i] # V(m)
      /\ \A s \in q.stores : \E i \in 0 .. n - 1 : s = <<i, a[i]>>
      /\ \A i \in 0 .. n - 1 : i < Capacity => q.buf[i] = a[i] \/ <<i, a[i]>> \in q.stores
      /\ ~work.flaky => \A y \in R : Prefilter(y) =>
            (\E i \in 0 .. n - 1 : a[i] = y) \/ (\E m \in q.todo : V(m) = y)
  BY <1>2 DEF Assigns
<1>4. x \in R /\ \A m \in q.todo : V(m) = x => m = l
  BY <1>1, LaneFacts
<1> HIDE DEF R, V, x, n
<1>5. V(l) = x
  BY DEF V, x
<1> DEFINE c == [i \in 0 .. n |-> IF i = n THEN x ELSE a[i]]
<1>6. \A i \in 0 .. n : i = n \/ i \in 0 .. n - 1
  BY <1>1
<1>7. n \in 0 .. n /\ \A i \in 0 .. n - 1 : i \in 0 .. n /\ i # n
  BY <1>1
<1>8. c \in [0 .. n -> R]
  BY <1>3, <1>4, <1>6
<1>9. c[n] = x /\ \A i \in 0 .. n - 1 : c[i] = a[i]
  BY <1>7
<1> HIDE DEF c
<1>10. r.n - 1 = n /\ r.n \in Nat
  BY <1>1 DEF n
<1>11. \A i \in 0 .. n - 1 : a[i] # x
  BY <1>3, <1>5
<1>12. \A i, j \in 0 .. n : c[i] = c[j] => i = j
  BY <1>3, <1>6, <1>9, <1>11
<1>13. \A i \in 0 .. n, m \in r.todo : c[i] # V(m)
  BY <1>3, <1>4, <1>6, <1>9
<1>14. r.stores = q.stores \cup {<<n, x>>}
  BY DEF n, x
<1>15. \A s \in r.stores : \E i \in 0 .. n : s = <<i, c[i]>>
  <2> SUFFICES ASSUME NEW s \in r.stores PROVE \E i \in 0 .. n : s = <<i, c[i]>>
    OBVIOUS
  <2>1. CASE s = <<n, x>>
    BY <1>7, <1>9, <2>1
  <2>2. CASE s \in q.stores
    <3>1. PICK i \in 0 .. n - 1 : s = <<i, a[i]>>
      BY <1>3, <2>2
    <3> QED  BY <1>7, <1>9, <3>1
  <2> QED  BY <1>14, <2>1, <2>2
<1>16. \A i \in 0 .. n : i < Capacity => r.buf[i] = c[i] \/ <<i, c[i]>> \in r.stores
  BY <1>3, <1>6, <1>9, <1>14
<1>17. ASSUME ~work.flaky, NEW y \in R, Prefilter(y)
       PROVE  (\E i \in 0 .. n : c[i] = y) \/ (\E m \in r.todo : V(m) = y)
  <2>1. (\E i \in 0 .. n - 1 : a[i] = y) \/ (\E m \in q.todo : V(m) = y)
    BY <1>3, <1>17
  <2>2. CASE \E i \in 0 .. n - 1 : a[i] = y
    BY <1>7, <1>9, <2>2
  <2>3. CASE \E m \in q.todo : V(m) = y
    <3>1. PICK m \in q.todo : V(m) = y
      BY <2>3
    <3>2. CASE m = l
      BY <1>5, <1>7, <1>9, <3>1, <3>2
    <3>3. CASE m # l
      BY <3>1, <3>3
    <3> QED  BY <3>2, <3>3
  <2> QED  BY <2>1, <2>2, <2>3
<1>18. Assigns(c, t, r)
  BY <1>8, <1>10, <1>12, <1>13, <1>15, <1>16, <1>17 DEF Assigns, R, V
<1>19. r.todo \subseteq InBatch(t)
  BY <1>1
<1> QED
  BY <1>1, <1>10, <1>18, <1>19 DEF ScanInv

\* A lane writes its nonce to its slot.
LEMMA ScanStore ==
    ASSUME NEW t, NEW q, NEW r, ScanInv(t, q), q.pc = "kernel", NEW e \in q.stores,
           r.pc = "kernel", r.start = q.start, r.n = q.n, r.todo = q.todo, r.result = q.result,
           r.stores = q.stores \ {e},
           r.buf = IF e[1] < Capacity THEN [q.buf EXCEPT ![e[1]] = e[2]] ELSE q.buf
    PROVE  ScanInv(t, r)
<1> DEFINE n == q.n
           R == RangeOf(t, q.start)
<1>1. /\ q.start \in 0 .. Space - Batch(t) /\ n \in Nat /\ q.todo \subseteq InBatch(t)
      /\ DOMAIN q.buf = 0 .. Capacity - 1 /\ q.result \in Seq(0 .. Space - 1) /\ Accepted
      /\ \E a : Assigns(a, t, q)
  BY DEF ScanInv
<1>2. PICK a : Assigns(a, t, q)
  BY <1>1
<1>3. /\ \A s \in q.stores : \E i \in 0 .. n - 1 : s = <<i, a[i]>>
      /\ \A i \in 0 .. n - 1 : i < Capacity => q.buf[i] = a[i] \/ <<i, a[i]>> \in q.stores
  BY <1>2 DEF Assigns
<1>4. PICK k \in 0 .. n - 1 : e = <<k, a[k]>>
  BY <1>3
<1>5. e[1] = k /\ e[2] = a[k] /\ k \in Nat /\ Capacity \in Nat
  BY <1>1, <1>4, BackendsAssumption
<1>6. r.buf = IF k < Capacity THEN [q.buf EXCEPT ![k] = a[k]] ELSE q.buf
  BY <1>5
<1>7. DOMAIN r.buf = 0 .. Capacity - 1
  BY <1>1, <1>6
<1>8. ASSUME NEW i \in 0 .. n - 1, i < Capacity
      PROVE  r.buf[i] = a[i] \/ <<i, a[i]>> \in r.stores
  <2>1. i \in DOMAIN q.buf
    BY <1>1, <1>5, <1>8
  <2>2. CASE i = k
    BY <1>6, <1>8, <2>1, <2>2
  <2>3. CASE i # k
    <3>1. r.buf[i] = q.buf[i]
      BY <1>6, <2>1, <2>3
    <3>2. <<i, a[i]>> # e
      BY <1>4, <2>3
    <3> QED  BY <1>3, <1>8, <3>1, <3>2
  <2> QED  BY <2>2, <2>3
<1>9. \A s \in r.stores : \E i \in 0 .. n - 1 : s = <<i, a[i]>>
  BY <1>3
<1>10. Assigns(a, t, r)
  BY <1>2, <1>8, <1>9 DEF Assigns
<1> QED
  BY <1>1, <1>7, <1>10 DEF ScanInv

\* A kernel begins with no slot taken.
LEMMA ScanLaunch ==
    ASSUME GivenScenario, NEW t, NEW q, NEW r, ScanInv(t, q), q.pc = "idle", Accepted,
           NEW start \in 0 .. Space - Batch(t), NEW wrong \in Errors(InBatch(t)),
           r.pc = "kernel", r.start = start, r.n = 0, r.buf = q.buf, r.result = q.result,
           r.stores = q.stores,
           r.todo = (Reporting(t, start) \ wrong) \cup (wrong \ Reporting(t, start))
    PROVE  ScanInv(t, r)
<1> DEFINE R == RangeOf(t, start)
           V(l) == LaneNonce(t, start, l)
           right == Reporting(t, start)
           a == [i \in 0 .. -1 |-> 0]
<1>1. q.stores = {} /\ DOMAIN q.buf = 0 .. Capacity - 1 /\ q.result \in Seq(0 .. Space - 1)
  BY DEF ScanInv
<1>2. right = {l \in InBatch(t) : Prefilter(V(l))}
  BY DEF Reporting, InBatch, LaneNonce
<1>3. wrong \subseteq InBatch(t) /\ (~work.flaky => wrong = {})
  BY DEF Errors
<1>4. \A x \in R : \E l \in InBatch(t) : V(l) = x
  BY LaneFacts
<1> HIDE DEF V, R, right
<1>5. r.todo = (right \ wrong) \cup (wrong \ right)
  BY DEF right
<1>6. r.todo \subseteq InBatch(t)
  BY <1>2, <1>3, <1>5
<1>7. ~work.flaky => \A x \in R : Prefilter(x) => \E l \in r.todo : V(l) = x
  BY <1>2, <1>3, <1>4, <1>5
<1>8. r.n - 1 = -1 /\ 0 .. -1 = {}
  OBVIOUS
<1>9. a \in [0 .. -1 -> R]
  BY <1>8
<1> HIDE DEF a
<1>10. Assigns(a, t, r)
  BY <1>1, <1>7, <1>8, <1>9 DEF Assigns, R, V
<1>11. r.n \in Nat
  OBVIOUS
<1> QED
  BY <1>1, <1>6, <1>10, <1>11 DEF ScanInv

\* A thread that has not begun, or is left by its destructor.
LEMMA ScanNew ==
    ASSUME GivenScenario, NEW t, NEW r, r.start = 0, r.buf = NewThread.buf, r.result = <<>>,
           r.scans = 0, r.pc \in {"open", "done"}
    PROVE  ScanInv(t, r)
<1>1. Batch(t) \in 1 .. Space /\ Space \in Nat
  BY BatchFacts
<1>2. r.start \in 0 .. Space - Batch(t)
  BY <1>1
<1>3. DOMAIN r.buf = 0 .. Capacity - 1
  BY DEF NewThread
<1>4. <<>> \in Seq(0 .. Space - 1)
  OBVIOUS
<1> QED
  BY <1>2, <1>3, <1>4 DEF ScanInv

\* A thread that is idle after a scan.
LEMMA ScanIdle ==
    ASSUME NEW t, NEW q, NEW r, ScanInv(t, q), q.todo = {}, q.stores = {}, Accepted,
           r.pc = "idle", r.start \in 0 .. Space - Batch(t), r.result \in Seq(0 .. Space - 1),
           IsExact(t, r.start, r.result),
           r.buf = q.buf, r.todo = q.todo, r.stores = q.stores
    PROVE  ScanInv(t, r)
BY DEF ScanInv

\* A thread's steps, one by one.
LEMMA ScanSteps ==
    ASSUME ControlInv, NEW t \in DOMAIN th, ThreadInv(t, th[t]), ScanInv(t, th[t]),
           Thread(t) \/ Finish(t)
    PROVE  \E r : th' = [th EXCEPT ![t] = r] /\ ScanInv(t, r)
<1> DEFINE q == th[t]
           Goal == \E r : th' = [th EXCEPT ![t] = r] /\ ScanInv(t, r)
<1>0. /\ DOMAIN q = ThreadFields
      /\ q.pc \in {"open", "done"} => q.todo = {} /\ q.stores = {}
      /\ q.pc = "idle" => q.todo = {} /\ q.stores = {}
      /\ q.pc = "open" => q.scans = 0
      /\ ScanInv(t, q)
  BY DEF ThreadInv, ScanInv
<1>1. pc = "threads" /\ GivenScenario
  BY DEF Thread, Finish, ControlInv
<1>2. ASSUME NEW r, Become(t, r), ScanInv(t, r) PROVE Goal
  BY <1>2 DEF Become
<1>3. ASSUME NEW start \in 0 .. Space - Batch(t), NEW nonces \in Seq(0 .. Space - 1), Accepted,
             IsExact(t, start, nonces), q.todo = {}, q.stores = {}, Scanned(t, start, nonces)
      PROVE  Goal
  <2> DEFINE h == IF "url" \in options.asked \/ q.scans > 0 THEN q.hashes + Batch(t) ELSE q.hashes
             r == [q EXCEPT !.pc = "idle", !.start = start, !.result = nonces,
                            !.scans = @ + 1, !.hashes = h]
  <2>1. Become(t, r)
    <3>1. r = [th[t] EXCEPT !.pc = "idle", !.start = start, !.result = nonces, !.scans = @ + 1,
                 !.hashes = IF "url" \in options.asked \/ th[t].scans > 0 THEN @ + Batch(t) ELSE @]
      OBVIOUS
    <3> QED
      BY <1>3, <3>1 DEF Scanned
  <2> HIDE DEF q, h
  <2>2. /\ r.pc = "idle" /\ r.start = start /\ r.result = nonces
        /\ r.buf = q.buf /\ r.todo = q.todo /\ r.stores = q.stores
    BY <1>0 DEF ThreadFields
  <2>3. ScanInv(t, r)
    <3> HIDE DEF r
    <3> QED
      BY <1>0, <1>3, <2>2, ScanIdle
  <2> QED
    BY <1>2, <2>1, <2>3
<1>4. CASE Finish(t)
  <2> DEFINE r == [q EXCEPT !.pc = "unwind"]
  <2>1. Become(t, r)
    BY <1>4 DEF Finish
  <2> HIDE DEF q
  <2>2. r.pc = "unwind" /\ r.start = q.start /\ r.buf = q.buf /\ r.result = q.result
    BY <1>0 DEF ThreadFields
  <2>3. ScanInv(t, r)
    <3> HIDE DEF r
    <3> QED  BY <1>0, <2>2, ScanSame
  <2> QED
    BY <1>2, <2>1, <2>3
<1>5. CASE ConstructionFails(t)
  <2> DEFINE r == [q EXCEPT !.pc = "done", !.error = TRUE, !.held = Freed(t)]
  <2>1. Become(t, r)
    BY <1>5 DEF ConstructionFails
  <2> HIDE DEF q
  <2>2. r.pc = "done" /\ r.start = q.start /\ r.buf = q.buf /\ r.result = q.result
    BY <1>0 DEF ThreadFields
  <2>3. ScanInv(t, r)
    <3> HIDE DEF r
    <3> QED  BY <1>0, <2>2, ScanSame
  <2> QED
    BY <1>2, <2>1, <2>3
<1>6. CASE Acquire(t)
  <2>1. PICK x : Become(t, [q EXCEPT !.held = x]) /\ q.pc = "open"
    BY <1>6 DEF Acquire
  <2> DEFINE r == [q EXCEPT !.held = x]
  <2>2. Become(t, r)
    BY <2>1
  <2> HIDE DEF q
  <2>3. /\ r.pc = q.pc /\ r.start = q.start /\ r.buf = q.buf /\ r.result = q.result
        /\ r.scans = q.scans
    BY <1>0 DEF ThreadFields
  <2>4. ScanInv(t, r)
    <3> HIDE DEF r
    <3> QED  BY <1>0, <2>1, <2>3 DEF ScanInv
  <2> QED
    BY <1>2, <2>2, <2>4
<1>7. CASE Constructed(t)
  <2> DEFINE r == [q EXCEPT !.pc = "idle"]
  <2>1. Become(t, r) /\ q.pc = "open"
    BY <1>7 DEF Constructed
  <2> HIDE DEF q
  <2>2. /\ r.pc = "idle" /\ r.start = q.start /\ r.buf = q.buf /\ r.result = q.result
        /\ r.scans = q.scans /\ r.todo = q.todo /\ r.stores = q.stores
    BY <1>0 DEF ThreadFields
  <2>3. ~(r.scans > 0)
    BY <1>0, <2>1, <2>2
  <2>4. ScanInv(t, r)
    <3> HIDE DEF r
    <3> QED  BY <1>0, <2>1, <2>2, <2>3 DEF ScanInv
  <2> QED
    BY <1>2, <2>1, <2>4
<1>8. CASE Destruct(t)
  <2> DEFINE r == [NewThread EXCEPT !.pc = "done", !.error = q.error, !.hashes = q.hashes,
                                    !.held = Freed(t), !.todo = q.todo, !.stores = q.stores]
  <2>1. Become(t, r)
    BY <1>8 DEF Destruct
  <2> HIDE DEF q
  <2>2. r.pc = "done" /\ r.start = 0 /\ r.buf = NewThread.buf /\ r.result = <<>> /\ r.scans = 0
    BY DEF NewThread
  <2>3. ScanInv(t, r)
    <3> HIDE DEF r
    <3> QED  BY <1>1, <2>2, ScanNew
  <2> QED
    BY <1>2, <2>1, <2>3
<1>9. ASSUME NEW start \in 0 .. Space - 1, Launch(t, start) PROVE Goal
  <2>1. q.pc = "idle" /\ MayStart(t, start) /\ ~RangeOverflow(t, start)
    BY <1>9 DEF Launch
  <2>2. start \in 0 .. Space - Batch(t) /\ Accepted
    BY <1>1, <2>1, StartFacts
  <2>3. PICK wrong \in Errors(InBatch(t)) :
           Become(t, [q EXCEPT !.pc = "kernel", !.start = start, !.n = 0,
              !.todo = (Reporting(t, start) \ wrong) \cup (wrong \ Reporting(t, start))])
    BY <1>9 DEF Launch, InBatch
  <2> DEFINE z == (Reporting(t, start) \ wrong) \cup (wrong \ Reporting(t, start))
             r == [q EXCEPT !.pc = "kernel", !.start = start, !.n = 0, !.todo = z]
  <2>4. Become(t, r)
    BY <2>3
  <2> HIDE DEF q, z
  <2>5. /\ r.pc = "kernel" /\ r.start = start /\ r.n = 0 /\ r.buf = q.buf /\ r.result = q.result
        /\ r.stores = q.stores /\ r.todo = z
    BY <1>0 DEF ThreadFields
  <2>6. ScanInv(t, r)
    <3> HIDE DEF r
    <3> QED  BY <1>0, <1>1, <2>1, <2>2, <2>5, ScanLaunch DEF z
  <2> QED
    BY <1>2, <2>4, <2>6
<1>10. ASSUME NEW l \in q.todo, TakeSlot(t, l) PROVE Goal
  <2> DEFINE x == q.todo \ {l}
             y == q.n + 1
             z == q.stores \cup {<<q.n, LaneNonce(t, q.start, l)>>}
             r == [q EXCEPT !.todo = x, !.n = y, !.stores = z]
  <2>1. Become(t, r)
    BY <1>10 DEF TakeSlot, LaneNonce
  <2>2. q.pc \notin {"open", "idle"}
    BY <1>0, <1>10
  <2>3. l \in q.todo
    BY <1>10
  <2> HIDE DEF q, x, y, z
  <2>4. /\ r.pc = q.pc /\ r.start = q.start /\ r.buf = q.buf /\ r.result = q.result
        /\ r.todo = x /\ r.n = y /\ r.stores = z
    BY <1>0 DEF ThreadFields
  <2> HIDE DEF r
  <2>5. CASE q.pc = "kernel"
    <3>1. ScanInv(t, r)
      BY <1>0, <1>1, <2>3, <2>4, <2>5, ScanTake DEF x, y, z
    <3> QED  BY <1>2, <2>1, <3>1
  <2>6. CASE q.pc # "kernel"
    <3>1. ScanInv(t, r)
      BY <1>0, <2>2, <2>4, <2>6, ScanSame
    <3> QED  BY <1>2, <2>1, <3>1
  <2> QED
    BY <2>5, <2>6
<1>11. ASSUME NEW e \in q.stores, Store(t, e) PROVE Goal
  <2> DEFINE x == q.stores \ {e}
             y == IF e[1] < Capacity THEN [q.buf EXCEPT ![e[1]] = e[2]] ELSE q.buf
             r == [q EXCEPT !.stores = x, !.buf = y]
  <2>1. Become(t, r)
    BY <1>11 DEF Store
  <2>2. q.pc \notin {"open", "idle"}
    BY <1>0, <1>11
  <2>3. e \in q.stores
    BY <1>11
  <2>4. DOMAIN y = DOMAIN q.buf
    <3> HIDE DEF q
    <3> QED  OBVIOUS
  <2> HIDE DEF q, x, y
  <2>5. /\ r.pc = q.pc /\ r.start = q.start /\ r.buf = y /\ r.result = q.result
        /\ r.todo = q.todo /\ r.n = q.n /\ r.stores = x
    BY <1>0 DEF ThreadFields
  <2> HIDE DEF r
  <2>6. CASE q.pc = "kernel"
    <3>1. ScanInv(t, r)
      BY <1>0, <2>3, <2>5, <2>6, ScanStore DEF x, y
    <3> QED  BY <1>2, <2>1, <3>1
  <2>7. CASE q.pc # "kernel"
    <3>1. ScanInv(t, r)
      BY <1>0, <2>2, <2>4, <2>5, <2>7, ScanSame
    <3> QED  BY <1>2, <2>1, <3>1
  <2> QED
    BY <2>6, <2>7
<1>12. CASE ScanThrows(t) \/ CpuScanThrows(t)
  <2> DEFINE r == [q EXCEPT !.pc = "unwind", !.error = TRUE]
  <2>1. Become(t, r)
    BY <1>12 DEF ScanThrows, CpuScanThrows
  <2> HIDE DEF q
  <2>2. r.pc = "unwind" /\ r.start = q.start /\ r.buf = q.buf /\ r.result = q.result
    BY <1>0 DEF ThreadFields
  <2>3. ScanInv(t, r)
    <3> HIDE DEF r
    <3> QED  BY <1>0, <2>2, ScanSame
  <2> QED
    BY <1>2, <2>1, <2>3
<1>13. CASE Collect(t)
  <2>1. /\ q.pc = "kernel" /\ q.todo = {} /\ q.stores = {} /\ ~(q.n > Capacity)
        /\ Scanned(t, q.start, Shares(t))
    BY <1>13 DEF Collect, Running, Refusal
  <2>2. /\ q.start \in 0 .. Space - Batch(t) /\ q.n \in Nat /\ Accepted
        /\ \E a : Assigns(a, t, q)
    BY <1>0, <2>1 DEF ScanInv
  <2>3. PICK a : Assigns(a, t, q)
    BY <2>2
  <2>4. q.n <= Capacity
    <3>1. Capacity \in Nat
      BY BackendsAssumption
    <3> QED  BY <2>1, <2>2, <3>1
  <2>5. work.difficulty[1] # 0
    BY <2>2 DEF Accepted
  <2>6. Shares(t) \in Seq(0 .. Space - 1) /\ IsExact(t, q.start, Shares(t))
    BY <1>1, <2>1, <2>2, <2>3, <2>4, <2>5, CollectExact
  <2> QED
    BY <1>3, <2>1, <2>2, <2>6
<1>14. ASSUME NEW start \in 0 .. Space - 1, CpuScan(t, start) PROVE Goal
  <2>1. q.pc = "idle" /\ MayStart(t, start) /\ ~RangeOverflow(t, start)
    BY <1>14 DEF CpuScan
  <2>2. start \in 0 .. Space - Batch(t) /\ Accepted
    BY <1>1, <2>1, StartFacts
  <2>3. work.difficulty[1] # 0
    BY <2>2 DEF Accepted
  <2>4. CASE UsesAvx2
    <3>1. PICK missed \in Errors(start .. start + Batch(t) - 1) :
             Scanned(t, start, Filter(Avx2(start, Batch(t)), RangeOf(t, start) \ missed))
      BY <1>14, <2>4 DEF CpuScan, RangeOf
    <3> DEFINE got == Filter(Avx2(start, Batch(t)), RangeOf(t, start) \ missed)
    <3>2. ~work.flaky => missed = {}
      BY DEF Errors
    <3>3. got \in Seq(0 .. Space - 1) /\ IsExact(t, start, got)
      BY <1>1, <2>2, <2>3, <3>2, AvxExact
    <3>4. Scanned(t, start, got)
      BY <3>1
    <3> HIDE DEF got
    <3> QED
      BY <1>0, <1>3, <2>1, <2>2, <3>3, <3>4
  <2>5. CASE ~UsesAvx2
    <3> DEFINE got == Scalar(start, Batch(t))
    <3>1. Scanned(t, start, got)
      BY <1>14, <2>5 DEF CpuScan
    <3>2. got \in Seq(0 .. Space - 1) /\ IsExact(t, start, got)
      BY <1>1, <2>2, <2>3, ScalarExact
    <3> HIDE DEF got
    <3> QED
      BY <1>0, <1>3, <2>1, <2>2, <3>1, <3>2
  <2> QED
    BY <2>4, <2>5
<1>15. CASE BackendStep(t)
  BY <1>5, <1>6, <1>7, <1>8, <1>9, <1>10, <1>11, <1>12, <1>13, <1>14, <1>15 DEF BackendStep
<1> QED
  BY <1>4, <1>15 DEF Thread

\* The invariant depends on the selection, the options, the machine and the
\* work alone.
LEMMA SameScan ==
    ASSUME UNCHANGED <<selected, options, machine, work>>
    PROVE  \A t, q : ScanInv(t, q)' <=> ScanInv(t, q)
<1>1. N' = N
  BY DEF N
<1>2. \A t : Api(t)' = Api(t) /\ Batch(t)' = Batch(t)
  BY <1>1 DEF Api, Batch, IsCpu
<1>3. \A t : Roll(t)' = Roll(t)
  BY <1>2 DEF Roll
<1>4. \A t : Grid(t)' = Grid(t)
  BY <1>2, <1>3 DEF Grid
<1>5. \A t : LaneSet(t)' = LaneSet(t)
  BY <1>3, <1>4 DEF LaneSet
<1>6. \A t, l : Index(t, l)' = Index(t, l)
  BY <1>3 DEF Index
<1>7. \A t, start, i : Nonce(t, start, i)' = Nonce(t, start, i)
  BY <1>2 DEF Nonce
<1>8. \A t, start, l : LaneNonce(t, start, l)' = LaneNonce(t, start, l)
  BY <1>6, <1>7 DEF LaneNonce
<1>9. \A t, start : RangeOf(t, start)' = RangeOf(t, start)
  BY <1>2 DEF RangeOf
<1>10. \A t : InBatch(t)' = InBatch(t)
  BY <1>2, <1>5, <1>6 DEF InBatch
<1>11. /\ Accepted' <=> Accepted
       /\ \A n : Prefilter(n)' <=> Prefilter(n)
       /\ \A n : Qualifies(n)' <=> Qualifies(n)
  BY DEF Accepted, Prefilter, Qualifies, Target, Network
<1>12. \A t, start, got : IsExact(t, start, got)' <=> IsExact(t, start, got)
  BY <1>9, <1>11 DEF IsExact
<1>13. \A a, t, q : Assigns(a, t, q)' <=> Assigns(a, t, q)
  BY <1>8, <1>9, <1>11 DEF Assigns
<1> QED
  BY <1>2, <1>10, <1>11, <1>12, <1>13 DEF ScanInv

\* Every step of the program.
LEMMA ScansStep ==
    ASSUME ControlInv, EndInv, ScansInv, [Next]_vars
    PROVE  ScansInv'
<1>1. /\ pc \in {"options", "discover", "apply"} => th = <<>>
      /\ \A t \in DOMAIN th : ScanInv(t, th[t]) /\ ThreadInv(t, th[t])
  BY DEF ScansInv, EndInv
<1>2. GivenScenario
  BY DEF ControlInv
<1>3. ASSUME UNCHANGED <<selected, options, machine, work, th>>,
             pc' \in {"options", "discover", "apply"} => pc \in {"options", "discover", "apply"}
      PROVE  ScansInv'
  <2>1. \A t, q : ScanInv(t, q)' <=> ScanInv(t, q)
    BY <1>3, SameScan
  <2>2. \A t \in DOMAIN th' : ScanInv(t, th[t])'
    <3> SUFFICES ASSUME NEW t \in DOMAIN th' PROVE ScanInv(t, th[t])'
      OBVIOUS
    <3>1. t \in DOMAIN th /\ th'[t] = th[t]
      BY <1>3
    <3>2. ScanInv(t, th'[t])
      BY <1>1, <3>1
    <3> QED  BY <2>1, <3>2
  <2> QED
    BY <1>1, <1>3, <2>2 DEF ScansInv
<1>4. CASE RefuseOptions \/ Demo \/ ListDevices \/ DiscoveryFails \/ ApplyThrows \/ SetupThrows
           \/ Join \/ Discover \/ Apply
  <2>1. UNCHANGED <<selected, options, machine, work, th>>
    BY <1>4 DEF RefuseOptions, Demo, ListDevices, DiscoveryFails, ApplyThrows, SetupThrows, Join,
                Discover, Apply, apply, NothingRequested, Refuse, CheckCard, AllChecked,
                WriteRegister, WriteFails, Restore, RestoreFails, CardDone, AllWritten, given
  <2>2. pc' \in {"options", "discover", "apply"} => pc \in {"options", "discover", "apply"}
    BY <1>4 DEF RefuseOptions, Demo, ListDevices, DiscoveryFails, ApplyThrows, SetupThrows, Join,
                Discover, Apply, Return
  <2> QED
    BY <1>3, <2>1, <2>2
<1>5. CASE UNCHANGED vars
  BY <1>3, <1>5 DEF vars
<1>6. CASE Select
  <2>1. th' = th /\ th = <<>>
    BY <1>1, <1>6 DEF Select
  <2>2. DOMAIN th' = {}
    BY <2>1
  <2> QED
    BY <2>1, <2>2 DEF ScansInv
<1>7. CASE StartThreads
  <2>1. /\ UNCHANGED <<selected, options, machine, work>> /\ pc' = "threads"
        /\ th' = [t \in 1 .. N + CpuThreads(N) |-> NewThread]
    BY <1>7 DEF StartThreads, given
  <2>2. \A t, q : ScanInv(t, q)' <=> ScanInv(t, q)
    BY <2>1, SameScan
  <2>3. ASSUME NEW t PROVE ScanInv(t, NewThread)
    <3>1. /\ NewThread.start = 0 /\ NewThread.result = <<>> /\ NewThread.scans = 0
          /\ NewThread.pc = "open"
      BY DEF NewThread
    <3> HIDE DEF NewThread
    <3> QED  BY <1>2, <3>1, ScanNew
  <2>4. \A t \in DOMAIN th' : th'[t] = NewThread
    BY <2>1
  <2>5. \A t \in DOMAIN th' : ScanInv(t, th[t])'
    <3> SUFFICES ASSUME NEW t \in DOMAIN th' PROVE ScanInv(t, th[t])'
      OBVIOUS
    <3>1. ScanInv(t, th'[t])
      BY <2>3, <2>4
    <3> QED  BY <2>2, <3>1
  <2> QED
    BY <2>1, <2>5 DEF ScansInv
<1>8. CASE \E t \in DOMAIN th : Thread(t) \/ Finish(t)
  <2>1. PICK t \in DOMAIN th : Thread(t) \/ Finish(t)
    BY <1>8
  <2>2. UNCHANGED <<selected, options, machine, work>> /\ pc = "threads" /\ pc' = pc
    BY <2>1, ThreadsKeep
  <2>3. \A u, q : ScanInv(u, q)' <=> ScanInv(u, q)
    BY <2>2, SameScan
  <2>4. PICK r : th' = [th EXCEPT ![t] = r] /\ ScanInv(t, r)
    BY <1>1, <2>1, ScanSteps
  <2>5. ASSUME NEW u \in DOMAIN th' PROVE ScanInv(u, th[u])'
    <3>1. u \in DOMAIN th /\ (u = t => th'[u] = r) /\ (u # t => th'[u] = th[u])
      BY <2>4
    <3>2. ScanInv(u, th'[u])
      BY <1>1, <2>4, <3>1
    <3> QED  BY <2>3, <3>2
  <2> QED
    BY <2>2, <2>5 DEF ScansInv
<1> QED
  BY <1>4, <1>5, <1>6, <1>7, <1>8 DEF Next

\* Every candidate is in its slot or on its way there, and what a scan
\* returned is exact (runtime.cpp:300-341, blake2b.cu:112-138, 242-273).
THEOREM ScansInvariance == Spec => []ScansInv
<1>1. Init => ScansInv
  <2> SUFFICES ASSUME Init PROVE ScansInv
    OBVIOUS
  <2>1. th = <<>>
    BY DEF Init
  <2>2. DOMAIN th = {}
    BY <2>1
  <2> QED
    BY <2>1, <2>2 DEF ScansInv
<1>2. ControlInv /\ EndInv /\ ScansInv /\ [Next]_vars => ScansInv'
  BY ScansStep
<1> QED
  BY <1>1, <1>2, ControlInvariance, EndInvariance, PTL DEF Spec

\* For every base, hash length, space of nonces, capacity, block, number of
\* vector lanes, difficulty and order of the lanes: a scan that returns gives
\* each nonce of its range that meets the difficulty exactly once, and none
\* that does not, even if the device computes wrong (runtime.cpp:300-341,
\* blake2b.cu:112-138, 242-273, cpu.cpp, cpu_avx2.cpp:102-129).
THEOREM ScansAreExact == Spec => []ScanIsExact
<1>1. ScansInv => ScanIsExact
  <2> SUFFICES ASSUME ScansInv, NEW t \in DOMAIN th, th[t].pc = "idle", th[t].scans > 0
               PROVE  LET got  == th[t].result
                          want == {n \in th[t].start .. th[t].start + Batch(t) - 1 : Qualifies(n)}
                      IN /\ IsInjective(got)
                         /\ ToSet(got) \subseteq want
                         /\ ~work.flaky => ToSet(got) = want
    BY DEF ScanIsExact
  <2>1. IsExact(t, th[t].start, th[t].result)
    BY DEF ScansInv, ScanInv
  <2> QED
    BY <2>1 DEF IsExact, RangeOf
<1> QED
  BY <1>1, ScansInvariance, PTL

\* For every nbits: work with a zero, negative or too large target is never
\* scanned, and a share is a block candidate exactly if its hash is at most
\* mantissa * Base^(exponent - 3) (coin.cpp:6-34, miner.cpp:655-664).
THEOREM BlocksAreExact == Spec => []CandidatesAreExact
<1>1. ControlInv /\ ScansInv => CandidatesAreExact
  <2> SUFFICES ASSUME ControlInv, ScansInv, "url" \in options.asked,
                      NEW t \in DOMAIN th, NEW k \in DOMAIN th[t].result
               PROVE  LET e == work.nbits[1]
                          m == work.nbits[2]
                          n == Number(work.hash[th[t].result[k]])
                      IN /\ m \in 1 .. Power(Base, 3) \div 2 - 1
                         /\ m * Power(Base, e) \in Power(Base, 3) .. Power(Base, HashBytes + 3) - 1
                         /\ BlockCandidate(th[t].result[k]) <=>
                               n * Power(Base, 3) <= m * Power(Base, e)
    BY DEF CandidatesAreExact
  <2> DEFINE e == work.nbits[1]
             m == work.nbits[2]
             x == th[t].result[k]
             h == work.hash[x]
  <2>1. th[t].result \in Seq(0 .. Space - 1) /\ (th[t].result # <<>> => Accepted)
    BY DEF ScansInv, ScanInv
  <2>2. x \in 0 .. Space - 1 /\ th[t].result # <<>>
    <3> DEFINE s == th[t].result
               X == 0 .. Space - 1
    <3>1. s \in Seq(X) /\ k \in DOMAIN s
      BY <2>1
    <3> HIDE DEF s, X
    <3>2. s[k] \in X /\ s # <<>>
      BY <3>1
    <3> QED  BY <3>2 DEF s, X
  <2>3. compact_target(e, m) # Refused
    BY <2>1, <2>2 DEF Accepted, Network
  <2>4. IsWork(work)
    BY ScenarioFacts DEF ControlInv
  <2>5. h \in Hashes /\ e \in Nat /\ m \in 0 .. Power(Base, 3) - 1
    <3> HIDE DEF x
    <3>1. /\ work.hash \in [0 .. Space - 1 -> Hashes]
          /\ work.nbits \in Nat \X (0 .. Power(Base, 3) - 1)
      BY <2>4 DEF IsWork
    <3>2. h \in Hashes
      BY <2>2, <3>1
    <3>3. e \in Nat /\ m \in 0 .. Power(Base, 3) - 1
      BY <3>1
    <3> QED  BY <3>2, <3>3
  <2>6. IsCompact(h, e, m, compact_target(e, m))
    <3> HIDE DEF h, e, m
    <3> QED  BY <2>3, <2>5, CompactExact
  <2>7. BlockCandidate(x) <=> meets(h, compact_target(e, m))
    BY DEF BlockCandidate, Network
  <2> QED
    BY <2>6, <2>7 DEF IsCompact
<1> QED
  BY <1>1, ControlInvariance, ScansInvariance, PTL

=============================================================================
