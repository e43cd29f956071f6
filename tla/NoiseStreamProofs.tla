-------------------------- MODULE NoiseStreamProofs --------------------------
(***************************************************************************)
(* For every block, header and tag size, every limit and every way TCP     *)
(* cuts the stream: the session gets the first frames that were sent,      *)
(* whole and in order, and none of them had a damaged block.               *)
(***************************************************************************)
EXTENDS NoiseStream, TLAPS

-----------------------------------------------------------------------------
(* The inductive invariant *)

Blocks == [len : Int, size : Nat, frame : Nat]

StreamTypes ==
    /\ frames \in Seq(Nat)
    /\ blocks \in Seq(Blocks)
    /\ altered \in Nat
    /\ block \in Nat
    /\ out \in Seq(Nat)
    /\ delivered \in Seq(Nat)
    /\ payload \in Nat
    /\ remaining \in Nat
    /\ incoming \in BOOLEAN
    /\ failed \in BOOLEAN

\* start[i] blocks come before the i-th frame, which has a header block and
\* its payload's chunks.
Layout(start) ==
    /\ start \in [1 .. Len(frames) + 1 -> Nat]
    /\ start[1] = 0
    /\ start[Len(frames) + 1] = Len(blocks)
    /\ \A i \in 1 .. Len(frames) :
          /\ start[i + 1] = start[i] + 1 + Chunks(frames[i])
          /\ start[i + 1] <= Len(blocks)
          /\ blocks[start[i] + 1].size = frames[i]
    /\ \A i \in 1 .. Len(frames) + 1 :
          \A j \in start[i] + 1 .. Len(blocks) : blocks[j].frame >= i

\* Frames handed out by this and by earlier calls.
Passed == Len(delivered) + Len(out)

PrefixPassed ==
    /\ Passed <= Len(frames)
    /\ \A i \in 1 .. Len(delivered) : delivered[i] = frames[i]
    /\ \A i \in 1 .. Len(out) : out[i] = frames[Len(delivered) + i]

\* What is not decrypted yet belongs to frames that were not passed on.
BehindPassed == \A j \in block + 1 .. Len(blocks) : blocks[j].frame > Passed

\* The cipher never gets past a damaged block.
DamageAhead == altered # 0 => altered \in block + 1 .. Len(blocks)

\* Between frames the cipher is at the next header; inside a frame of which c
\* chunks were read it is c blocks behind the header, and holds c full chunks
\* or the whole payload.
Position(start) ==
    /\ ~incoming => block = start[Passed + 1]
    /\ incoming =>
          /\ Passed < Len(frames)
          /\ payload + remaining = frames[Passed + 1]
          /\ \E c \in 0 .. Chunks(frames[Passed + 1]) :
                /\ block = start[Passed + 1] + 1 + c
                /\ payload = LesserOf(c * Chunk, frames[Passed + 1])

InPlace(start) == Layout(start) /\ (~failed => Position(start))

\* A poisoned session is never inside receive().
FailedIsOut == failed => pc # "cut"

StreamInv ==
    /\ StreamTypes
    /\ FailedIsOut
    /\ PrefixPassed
    /\ BehindPassed
    /\ DamageAhead
    /\ \E start \in [1 .. Len(frames) + 1 -> Nat] : InPlace(start)

-----------------------------------------------------------------------------
(* Arithmetic of chunks *)

\* Division rounded up, between two multiples.
LEMMA Ceiling ==
    ASSUME NEW n \in Nat, NEW C \in Nat \ {0}
    PROVE  LET q == (n + C - 1) \div C
           IN  q \in Nat /\ n <= q * C /\ q * C < n + C
<1> DEFINE q == (n + C - 1) \div C
<1>1. n + C - 1 \in Nat
  OBVIOUS
<1>2. q \in Nat /\ C * q <= n + C - 1 /\ n + C - 1 < C * q + C
  BY <1>1
<1>3. C * q = q * C /\ C * q \in Nat
  BY <1>2
<1> HIDE DEF q
<1>4. q \in Nat /\ n <= q * C /\ q * C < n + C
  BY <1>2, <1>3
<1> QED
  BY <1>4 DEF q

\* A larger factor, a larger product.
LEMMA TimesMonotone ==
    ASSUME NEW C \in Nat, NEW a \in Nat, NEW b \in Nat, a <= b
    PROVE  a * C <= b * C /\ a * C \in Nat /\ b * C \in Nat
OBVIOUS

\* The product grows by its factor.
LEMMA TimesNext ==
    ASSUME NEW C \in Nat, NEW a \in Nat
    PROVE  (a + 1) * C = a * C + C /\ a * C \in Nat
OBVIOUS

\* c chunks are less than the payload exactly while a chunk is missing.
LEMMA ChunkCount ==
    ASSUME NEW n \in Nat, NEW c \in Nat
    PROVE  Chunks(n) \in Nat /\ (c < Chunks(n) <=> c * Chunk < n)
<1>1. Chunk \in Nat \ {0}
  BY NoiseAssumption
<1> DEFINE q == Chunks(n)
<1>2. q \in Nat /\ n <= q * Chunk /\ q * Chunk < n + Chunk
  BY <1>1, Ceiling DEF Chunks
<1> HIDE DEF q
<1>3. ASSUME c < q PROVE c * Chunk < n
  <2>1. (c + 1) * Chunk <= q * Chunk /\ q * Chunk \in Nat
    BY <1>1, <1>2, <1>3, TimesMonotone
  <2>2. (c + 1) * Chunk = c * Chunk + Chunk /\ c * Chunk \in Nat
    BY <1>1, TimesNext
  <2> QED
    BY <1>1, <1>2, <2>1, <2>2
<1>4. ASSUME q <= c PROVE n <= c * Chunk
  <2>1. q * Chunk <= c * Chunk /\ q * Chunk \in Nat /\ c * Chunk \in Nat
    BY <1>1, <1>2, <1>4, TimesMonotone
  <2> QED
    BY <1>2, <2>1
<1>5. c * Chunk \in Nat
  BY <1>1, TimesNext
<1> QED
  BY <1>2, <1>3, <1>4, <1>5 DEF q

\* The number of chunks is a number.
LEMMA ChunksNat == \A n \in Nat : Chunks(n) \in Nat
<1>1. 0 \in Nat
  OBVIOUS
<1> QED
  BY <1>1, ChunkCount

\* A block tells the number of its frame.
LEMMA FrameNat ==
    ASSUME NEW s \in Seq(Blocks), NEW j \in 1 .. Len(s)
    PROVE  s[j].frame \in Nat
<1>1. s[j] \in Blocks
  OBVIOUS
<1> QED
  BY <1>1 DEF Blocks

\* The blocks of a frame: a header that tells the size, and the chunks, all of
\* the same frame.
LEMMA EncodeShape ==
    ASSUME NEW k \in Nat, NEW n \in Nat
    PROVE  /\ encode(k, n) \in Seq(Blocks)
           /\ Len(encode(k, n)) = 1 + Chunks(n)
           /\ encode(k, n)[1].size = n
           /\ \A i \in 1 .. Len(encode(k, n)) : encode(k, n)[i].frame = k
<1>1. Header \in Nat /\ Tag \in Nat /\ Chunk \in Nat \ {0}
  BY NoiseAssumption
<1>2. Chunks(n) \in Nat
  BY ChunkCount
<1> DEFINE h == [len |-> Header + Tag, size |-> n, frame |-> k]
           L(i) == LesserOf(Chunk, n - (i - 1) * Chunk) + Tag
           cs == [i \in 1 .. Chunks(n) |-> [len |-> L(i), size |-> n, frame |-> k]]
<1>3. h \in Blocks /\ h.size = n /\ h.frame = k
  BY <1>1 DEF Blocks
<1>4. \A i \in 1 .. Chunks(n) : L(i) \in Int
  BY <1>1, <1>2 DEF LesserOf
<1> HIDE DEF L
<1>5. \A i \in 1 .. Chunks(n) : [len |-> L(i), size |-> n, frame |-> k] \in Blocks
  BY <1>4 DEF Blocks
<1>6. /\ cs \in Seq(Blocks) /\ Len(cs) = Chunks(n)
      /\ \A i \in 1 .. Len(cs) : cs[i].frame = k
  BY <1>2, <1>5
<1>7. encode(k, n) = <<h>> \o cs
  BY DEF encode, L
<1> HIDE DEF h, cs
<1>8. <<h>> \in Seq(Blocks) /\ Len(<<h>>) = 1 /\ <<h>>[1] = h
  BY <1>3
<1> DEFINE B == Blocks
<1> HIDE DEF B
<1>9. ASSUME NEW u \in Seq(B), NEW v \in Seq(B)
      PROVE  /\ u \o v \in Seq(B)
             /\ Len(u \o v) = Len(u) + Len(v)
             /\ Len(u) = 1 => (u \o v)[1] = u[1]
             /\ \A i \in 1 .. Len(v) : (u \o v)[Len(u) + i] = v[i]
  OBVIOUS
<1> DEFINE e == <<h>> \o cs
<1>10. /\ e \in Seq(B)
       /\ Len(e) = 1 + Len(cs)
       /\ e[1] = h
       /\ \A i \in 1 .. Len(cs) : e[1 + i] = cs[i]
  BY <1>6, <1>8, <1>9 DEF B
<1> HIDE DEF e
<1>11. ASSUME NEW i \in 1 .. Len(e) PROVE e[i].frame = k
  <2>1. CASE i = 1
    BY <1>3, <1>10, <2>1
  <2>2. CASE i # 1
    <3>1. i - 1 \in 1 .. Len(cs) /\ 1 + (i - 1) = i
      BY <1>2, <1>6, <1>10, <2>2
    <3> QED
      BY <1>6, <1>10, <3>1
  <2> QED
    BY <2>1, <2>2
<1> QED
  BY <1>3, <1>6, <1>7, <1>10, <1>11 DEF B, e

-----------------------------------------------------------------------------
(* The invariant holds *)

StreamVars == <<frames, blocks, altered, block, out, delivered, payload, remaining,
                incoming>>

\* Nothing was sent.
LEMMA StreamInit ==
    ASSUME Init
    PROVE  StreamInv
<1>1. StreamTypes /\ FailedIsOut /\ DamageAhead
  <2>1. /\ frames = <<>> /\ blocks = <<>> /\ altered = 0 /\ block = 0 /\ out = <<>>
        /\ delivered = <<>> /\ payload = 0 /\ remaining = 0
    BY DEF Init
  <2>2. incoming = FALSE /\ failed = FALSE
    BY DEF Init
  <2>3. /\ frames \in Seq(Nat) /\ blocks \in Seq(Blocks) /\ out \in Seq(Nat)
        /\ delivered \in Seq(Nat)
        /\ altered \in Nat /\ block \in Nat /\ payload \in Nat /\ remaining \in Nat
    BY <2>1
  <2>4. incoming \in BOOLEAN /\ failed \in BOOLEAN
    BY <2>2
  <2> QED
    BY <2>1, <2>2, <2>3, <2>4, Zenon DEF StreamTypes, FailedIsOut, DamageAhead
<1>2. Passed = 0 /\ PrefixPassed /\ BehindPassed
  BY DEF Init, PrefixPassed, BehindPassed, Passed
<1> DEFINE start == [i \in 1 .. 1 |-> 0]
<1>3. Len(frames) + 1 = 1 /\ Len(blocks) = 0 /\ block = 0 /\ incoming = FALSE
  BY DEF Init
<1>4. start \in [1 .. Len(frames) + 1 -> Nat]
  BY <1>3
<1>5. start[1] = 0
  OBVIOUS
<1>6. 1 .. Len(frames) = {}
  BY <1>3 DEF Init
<1> HIDE DEF start
<1>7. Layout(start)
  BY <1>3, <1>4, <1>5, <1>6 DEF Layout
<1>8. Position(start)
  BY <1>2, <1>3, <1>5 DEF Position
<1>9. \E st \in [1 .. Len(frames) + 1 -> Nat] : InPlace(st)
  BY <1>4, <1>7, <1>8 DEF InPlace
<1> QED
  BY <1>1, <1>2, <1>9 DEF StreamInv

\* Steps that leave the stream and the receiver's place in it alone.
LEMMA StreamQuiet ==
    ASSUME StreamInv, UNCHANGED StreamVars, failed' = failed, FailedIsOut'
    PROVE  StreamInv'
<1>1. StreamTypes' /\ DamageAhead' /\ PrefixPassed' /\ BehindPassed'
  BY DEF StreamInv, StreamVars, StreamTypes, DamageAhead, PrefixPassed, BehindPassed, Passed
<1>2. PICK start \in [1 .. Len(frames) + 1 -> Nat] : InPlace(start)
  BY DEF StreamInv
<1>3. start \in [1 .. Len(frames') + 1 -> Nat] /\ InPlace(start)'
  BY <1>2 DEF InPlace, Layout, Position, Passed, StreamVars
<1>4. (\E st \in [1 .. Len(frames) + 1 -> Nat] : InPlace(st))'
  BY <1>3
<1> QED
  BY <1>1, <1>4 DEF StreamInv

\* An exception: what this call had collected is dropped, the rest stays.
LEMMA StreamPoison ==
    ASSUME StreamInv, Poison
    PROVE  StreamInv'
<1>1. /\ frames' = frames /\ blocks' = blocks /\ delivered' = delivered /\ out' = <<>>
      /\ failed' = TRUE
      /\ UNCHANGED <<altered, block, payload, remaining, incoming>>
  BY DEF Poison, peerVars
<1>2. StreamTypes' /\ DamageAhead' /\ FailedIsOut'
  BY <1>1 DEF StreamInv, StreamTypes, DamageAhead, FailedIsOut, Poison
<1>3. PrefixPassed'
  BY <1>1, SMTT(30) DEF StreamInv, StreamTypes, PrefixPassed, Passed
<1>4. PICK start \in [1 .. Len(frames) + 1 -> Nat] : InPlace(start)
  BY DEF StreamInv
<1>5. start \in [1 .. Len(frames') + 1 -> Nat] /\ InPlace(start)'
  BY <1>1, <1>4 DEF InPlace, Layout
<1>6. (\E st \in [1 .. Len(frames) + 1 -> Nat] : InPlace(st))'
  BY <1>5
<1>7. BehindPassed'
  <2>1. Len(out') = 0 /\ Len(out) \in Nat /\ Len(delivered) \in Nat
    BY <1>1 DEF StreamInv, StreamTypes
  <2>2. Passed' \in Nat /\ Passed \in Nat /\ Passed' <= Passed
    BY <1>1, <2>1 DEF Passed
  <2>3. ASSUME NEW j \in block + 1 .. Len(blocks) PROVE blocks[j].frame > Passed'
    <3>1. blocks[j].frame > Passed
      BY DEF StreamInv, BehindPassed
    <3>2. j \in 1 .. Len(blocks) /\ blocks \in Seq(Blocks)
      BY DEF StreamInv, StreamTypes
    <3>3. blocks[j].frame \in Nat
      BY <3>2, FrameNat
    <3> QED
      BY <2>2, <3>1, <3>3
  <2> QED
    BY <1>1, <2>3 DEF BehindPassed
<1> QED
  BY <1>2, <1>3, <1>6, <1>7 DEF StreamInv

\* A block behind the cipher's place is damaged.
LEMMA StreamDamage ==
    ASSUME StreamInv, NEW b \in 1 .. Len(blocks), Damage(b)
    PROVE  StreamInv'
<1>1. /\ frames' = frames /\ blocks' = blocks /\ delivered' = delivered /\ out' = out
      /\ altered' = b /\ b > block
      /\ UNCHANGED <<pc, failed, block, payload, remaining, incoming>>
  BY DEF Damage
<1>2. StreamTypes' /\ DamageAhead' /\ FailedIsOut' /\ PrefixPassed'
  BY <1>1, SMTT(30) DEF StreamInv, StreamTypes, DamageAhead, FailedIsOut, PrefixPassed, Passed
<1>6. BehindPassed'
  BY <1>1 DEF StreamInv, BehindPassed, Passed
<1>3. PICK start \in [1 .. Len(frames) + 1 -> Nat] : InPlace(start)
  BY DEF StreamInv
<1>4. start \in [1 .. Len(frames') + 1 -> Nat] /\ InPlace(start)'
  BY <1>1, <1>3 DEF InPlace, Layout, Position, Passed
<1>5. (\E st \in [1 .. Len(frames) + 1 -> Nat] : InPlace(st))'
  BY <1>4
<1> QED
  BY <1>2, <1>5, <1>6 DEF StreamInv

\* Appending to a sequence.
LEMMA AppendFacts ==
    ASSUME NEW T, NEW s \in Seq(T), NEW x \in T
    PROVE  /\ Append(s, x) \in Seq(T)
           /\ Len(Append(s, x)) = Len(s) + 1
           /\ Append(s, x)[Len(s) + 1] = x
           /\ \A i \in 1 .. Len(s) : Append(s, x)[i] = s[i]
OBVIOUS

\* Joining two sequences.
LEMMA ConcatFacts ==
    ASSUME NEW T, NEW s \in Seq(T), NEW t \in Seq(T)
    PROVE  /\ s \o t \in Seq(T)
           /\ Len(s \o t) = Len(s) + Len(t)
           /\ \A i \in 1 .. Len(s) : (s \o t)[i] = s[i]
           /\ \A i \in 1 .. Len(t) : (s \o t)[Len(s) + i] = t[i]
OBVIOUS

\* A frame is sent: it starts where the others end.
LEMMA StreamSends ==
    ASSUME StreamInv, NEW size \in Sizes, PeerSends(size)
    PROVE  StreamInv'
<1>1. size \in Nat
  BY NoiseAssumption
<1>2. /\ frames' = Append(frames, size) /\ blocks' = blocks \o encode(Len(frames) + 1, size)
      /\ UNCHANGED <<altered, pc, failed, block, payload, remaining, incoming, out,
                     delivered>>
  BY DEF PeerSends
<1> DEFINE F == Len(frames)
           b == Len(blocks)
           q == Chunks(size)
<1>3. /\ frames \in Seq(Nat) /\ blocks \in Seq(Blocks) /\ F \in Nat /\ b \in Nat
      /\ delivered \in Seq(Nat) /\ out \in Seq(Nat)
      /\ Len(delivered) \in Nat /\ Len(out) \in Nat
  BY DEF StreamInv, StreamTypes
<1> DEFINE E == encode(F + 1, size)
<1>4. /\ E \in Seq(Blocks) /\ Len(E) = 1 + q
      /\ E[1].size = size /\ q \in Nat
      /\ \A i \in 1 .. 1 + q : E[i].frame = F + 1
  <2> DEFINE k == F + 1
  <2>1. k \in Nat
    BY <1>3
  <2> HIDE DEF k
  <2>2. /\ encode(k, size) \in Seq(Blocks) /\ Len(encode(k, size)) = 1 + q
        /\ encode(k, size)[1].size = size
        /\ \A i \in 1 .. Len(encode(k, size)) : encode(k, size)[i].frame = k
    BY <1>1, <2>1, EncodeShape
  <2>3. q \in Nat
    BY <1>1, ChunksNat
  <2> QED
    BY <2>2, <2>3 DEF k
<1> HIDE DEF E
<1>5. /\ frames' \in Seq(Nat) /\ Len(frames') = F + 1 /\ frames'[F + 1] = size
      /\ \A i \in 1 .. F : frames'[i] = frames[i]
  BY <1>1, <1>2, <1>3, AppendFacts
<1>6. /\ blocks' \in Seq(Blocks) /\ Len(blocks') = b + 1 + q
      /\ blocks'[b + 1].size = size
      /\ \A i \in 1 .. b : blocks'[i] = blocks[i]
      /\ \A i \in 1 .. 1 + q : blocks'[b + i].frame = F + 1
  <2>1. /\ blocks' \in Seq(Blocks) /\ Len(blocks') = b + (1 + q)
        /\ \A i \in 1 .. b : blocks'[i] = blocks[i]
        /\ \A i \in 1 .. 1 + q : blocks'[b + i] = E[i]
    <3> DEFINE e == E
    <3>1. e \in Seq(Blocks) /\ Len(e) = 1 + q /\ blocks' = blocks \o e
      BY <1>2, <1>4 DEF E
    <3> HIDE DEF e, q
    <3>2. /\ blocks \o e \in Seq(Blocks) /\ Len(blocks \o e) = b + Len(e)
          /\ \A i \in 1 .. b : (blocks \o e)[i] = blocks[i]
          /\ \A i \in 1 .. Len(e) : (blocks \o e)[b + i] = e[i]
      <4>1. ASSUME NEW u \in Seq(Blocks), NEW v \in Seq(Blocks)
            PROVE  /\ u \o v \in Seq(Blocks) /\ Len(u \o v) = Len(u) + Len(v)
                   /\ \A i \in 1 .. Len(u) : (u \o v)[i] = u[i]
                   /\ \A i \in 1 .. Len(v) : (u \o v)[Len(u) + i] = v[i]
        BY ConcatFacts
      <4> QED
        BY <1>3, <3>1, <4>1
    <3> QED
      BY <3>1, <3>2 DEF e, q
  <2>2. 1 \in 1 .. 1 + q
    BY <1>4
  <2>3. blocks'[b + 1] = E[1]
    BY <2>1, <2>2
  <2>4. \A i \in 1 .. 1 + q : blocks'[b + i].frame = F + 1
    BY <1>4, <2>1
  <2>5. blocks'[b + 1].size = size
    BY <1>4, <2>3
  <2>6. b + (1 + q) = b + 1 + q
    BY <1>3, <1>4
  <2> QED
    BY <2>1, <2>4, <2>5, <2>6
<1>7. Passed' = Passed /\ Passed \in Nat /\ Passed <= F
  BY <1>2, <1>3 DEF Passed, StreamInv, PrefixPassed
<1>8. StreamTypes' /\ FailedIsOut' /\ DamageAhead'
  <2>1. StreamTypes' /\ FailedIsOut'
    BY <1>2, <1>5, <1>6 DEF StreamInv, StreamTypes, FailedIsOut
  <2>2. b <= Len(blocks') /\ block \in Nat /\ altered \in Nat
    BY <1>3, <1>4, <1>6 DEF StreamInv, StreamTypes
  <2>3. DamageAhead
    BY DEF StreamInv
  <2> QED
    BY <1>2, <1>3, <1>6, <2>1, <2>2, <2>3 DEF DamageAhead
<1>20. \A j \in 1 .. Len(blocks') :
           \/ j \in 1 .. b /\ blocks'[j] = blocks[j]
           \/ j > b /\ blocks'[j].frame = F + 1
  <2> SUFFICES ASSUME NEW j \in 1 .. Len(blocks'), ~(j \in 1 .. b)
               PROVE  j > b /\ blocks'[j].frame = F + 1
    BY <1>6
  <2>1. Len(blocks') = b + 1 + q /\ \A i \in 1 .. 1 + q : blocks'[b + i].frame = F + 1
    BY <1>6
  <2>2. b \in Nat /\ q \in Nat /\ ~(j \in 1 .. b) /\ j \in 1 .. Len(blocks')
    BY <1>3, <1>4
  <2> HIDE DEF b, q
  <2>3. j > b /\ j - b \in 1 .. 1 + q /\ b + (j - b) = j
    BY <2>1, <2>2
  <2> QED
    BY <2>1, <2>3
<1>21. BehindPassed'
  <2> SUFFICES ASSUME NEW j \in block + 1 .. Len(blocks')
               PROVE  blocks'[j].frame > Passed
    BY <1>2, <1>7 DEF BehindPassed
  <2>1. block \in Nat /\ j \in 1 .. Len(blocks')
    BY <1>6 DEF StreamInv, StreamTypes
  <2>2. CASE j \in 1 .. b /\ blocks'[j] = blocks[j]
    <3>1. j \in block + 1 .. Len(blocks)
      BY <2>1, <2>2
    <3> QED
      BY <2>2, <3>1 DEF StreamInv, BehindPassed
  <2>3. CASE j > b /\ blocks'[j].frame = F + 1
    BY <1>3, <1>7, <2>3
  <2> QED
    BY <1>20, <2>1, <2>2, <2>3
<1>9. PrefixPassed'
  <2>0. /\ \A i \in 1 .. Len(delivered) : i \in 1 .. F
        /\ \A i \in 1 .. Len(out) : Len(delivered) + i \in 1 .. F
    <3>1. Len(delivered) + Len(out) <= F
      BY <1>7 DEF Passed
    <3> QED
      BY <1>3, <3>1, SMTT(30)
  <2>1. \A i \in 1 .. Len(delivered) : i \in 1 .. F /\ delivered[i] = frames[i]
    BY <2>0, Zenon DEF StreamInv, PrefixPassed
  <2>2. \A i \in 1 .. Len(out) : Len(delivered) + i \in 1 .. F
                                   /\ out[i] = frames[Len(delivered) + i]
    BY <2>0, Zenon DEF StreamInv, PrefixPassed
  <2>3. \A i \in 1 .. Len(delivered) : delivered[i] = frames'[i]
    BY <1>5, <2>1
  <2>4. \A i \in 1 .. Len(out) : out[i] = frames'[Len(delivered) + i]
    BY <1>5, <2>2
  <2>5. Passed' <= Len(frames')
    BY <1>3, <1>5, <1>7
  <2> QED
    BY <1>2, <2>3, <2>4, <2>5 DEF PrefixPassed
<1>10. PICK start \in [1 .. F + 1 -> Nat] : InPlace(start)
  BY DEF StreamInv
<1>11. PICK next \in [1 .. F + 2 -> Nat] :
          /\ \A i \in 1 .. F + 1 : next[i] = start[i]
          /\ next[F + 2] = b + 1 + q
  <2> DEFINE nx == [i \in 1 .. F + 2 |-> IF i <= F + 1 THEN start[i] ELSE b + 1 + q]
  <2>1. /\ nx \in [1 .. F + 2 -> Nat]
        /\ \A i \in 1 .. F + 1 : nx[i] = start[i]
        /\ nx[F + 2] = b + 1 + q
    BY <1>3, <1>4, <1>10
  <2> HIDE DEF nx
  <2> QED
    BY <2>1
<1>22. ASSUME NEW i \in 1 .. F + 1 PROVE \A j \in start[i] + 1 .. b : blocks[j].frame >= i
  BY <1>10 DEF InPlace, Layout
<1>12. /\ start[1] = 0 /\ start[F + 1] = b
       /\ \A i \in 1 .. F : /\ start[i + 1] = start[i] + 1 + Chunks(frames[i])
                            /\ start[i + 1] <= b
                            /\ blocks[start[i] + 1].size = frames[i]
  BY <1>10 DEF InPlace, Layout
<1>13. ASSUME NEW i \in 1 .. F + 1
       PROVE  /\ next[i + 1] = next[i] + 1 + Chunks(frames'[i])
              /\ next[i + 1] <= Len(blocks')
              /\ blocks'[next[i] + 1].size = frames'[i]
  <2>1. CASE i = F + 1
    <3>0. F + 1 \in 1 .. F + 1 /\ i + 1 = F + 2
      BY <1>3, <2>1
    <3>1. next[i] = b /\ next[i + 1] = b + 1 + q /\ frames'[i] = size
      BY <1>5, <1>11, <1>12, <2>1, <3>0, Zenon
    <3> QED
      BY <1>3, <1>4, <1>6, <3>1
  <2>2. CASE i # F + 1
    <3>1. i \in 1 .. F /\ i \in 1 .. F + 1 /\ i + 1 \in 1 .. F + 1
      BY <1>3, <2>2, SMTT(30)
    <3>2. next[i] = start[i] /\ next[i + 1] = start[i + 1] /\ frames'[i] = frames[i]
      BY <1>5, <1>11, <3>1
    <3>3. start[i] \in Nat /\ start[i + 1] \in Nat /\ Chunks(frames[i]) \in Nat
      <4>1. start[i] \in Nat /\ start[i + 1] \in Nat
        BY <1>10, <3>1
      <4>2. frames[i] \in Nat
        BY <1>3, <3>1
      <4> QED
        BY <4>1, <4>2, ChunksNat
    <3>4. /\ start[i + 1] = start[i] + 1 + Chunks(frames[i])
          /\ start[i + 1] <= b
          /\ blocks[start[i] + 1].size = frames[i]
      BY <1>12, <3>1
    <3>5. start[i] + 1 \in 1 .. b
      BY <1>3, <3>3, <3>4, SMTT(30)
    <3>6. next[i + 1] <= Len(blocks')
      <4>1. Len(blocks') = b + 1 + q /\ next[i + 1] = start[i + 1] /\ start[i + 1] <= b
        BY <1>6, <3>2, <3>4
      <4> HIDE DEF b, q
      <4> QED
        BY <1>3, <1>4, <3>3, <4>1, SMTT(30)
    <3>7. blocks'[start[i] + 1] = blocks[start[i] + 1]
      BY <1>6, <3>5
    <3> QED
      BY <3>2, <3>4, <3>6, <3>7
  <2> QED
    BY <2>1, <2>2
<1>14. Len(frames') + 1 = F + 2 /\ F + 1 \in 1 .. F + 2
  BY <1>3, <1>5
<1>15. next[1] = 0 /\ next[Len(frames') + 1] = Len(blocks')
  <2>1. 1 \in 1 .. F + 1
    BY <1>3
  <2> QED
    BY <1>6, <1>11, <1>12, <1>14, <2>1, Zenon
<1>23. ASSUME NEW i \in 1 .. F + 2, NEW j \in next[i] + 1 .. Len(blocks')
       PROVE  blocks'[j].frame >= i
  <2>1. next[i] \in Nat /\ j \in 1 .. Len(blocks') /\ i \in Nat
    BY <1>11
  <2>2. CASE i = F + 2
    <3>1. next[i] = Len(blocks')
      BY <1>6, <1>11, <2>2
    <3> QED
      BY <2>1, <3>1
  <2>3. CASE i # F + 2
    <3>1. i \in 1 .. F + 1 /\ i <= F + 1
      BY <1>3, <2>3
    <3>2. next[i] = start[i]
      BY <1>11, <3>1
    <3>3. CASE j \in 1 .. b /\ blocks'[j] = blocks[j]
      <4>1. j \in start[i] + 1 .. b
        BY <2>1, <3>2, <3>3
      <4> QED
        BY <1>22, <3>1, <3>3, <4>1
    <3>4. CASE j > b /\ blocks'[j].frame = F + 1
      BY <1>3, <3>1, <3>4
    <3> QED
      BY <1>20, <2>1, <3>3, <3>4
  <2> QED
    BY <2>2, <2>3
<1>16. Layout(next)'
  BY <1>5, <1>11, <1>13, <1>14, <1>15, <1>23 DEF Layout
<1>17. ASSUME ~failed PROVE Position(next)'
  <2>1. Position(start)
    BY <1>10, <1>17 DEF InPlace
  <2>2. Passed + 1 \in 1 .. F + 1 /\ next[Passed + 1] = start[Passed + 1]
    BY <1>3, <1>7, <1>11
  <2>3. Passed < F => frames'[Passed + 1] = frames[Passed + 1]
    <3>1. Passed < F => Passed + 1 \in 1 .. F
      BY <1>3, <1>7
    <3> QED
      BY <1>5, <3>1
  <2>4. ~incoming => block = next[Passed + 1]
    BY <2>1, <2>2 DEF Position
  <2>5. ASSUME incoming
        PROVE  /\ Passed < F /\ Passed < Len(frames')
               /\ payload + remaining = frames'[Passed + 1]
               /\ \E c \in 0 .. Chunks(frames'[Passed + 1]) :
                     /\ block = next[Passed + 1] + 1 + c
                     /\ payload = LesserOf(c * Chunk, frames'[Passed + 1])
    <3>1. Passed < F /\ Passed < Len(frames')
      BY <1>3, <1>5, <1>7, <2>1, <2>5 DEF Position
    <3> QED
      BY <2>1, <2>2, <2>3, <2>5, <3>1 DEF Position
  <2> QED
    BY <1>2, <1>7, <2>4, <2>5 DEF Position
<1>18. next \in [1 .. Len(frames') + 1 -> Nat] /\ InPlace(next)'
  BY <1>2, <1>11, <1>14, <1>16, <1>17 DEF InPlace
<1>19. (\E st \in [1 .. Len(frames) + 1 -> Nat] : InPlace(st))'
  BY <1>18
<1> QED
  BY <1>8, <1>9, <1>19, <1>21 DEF StreamInv

\* The place of the receiver moves and the frames passed on stay.
LEMMA StreamMoves ==
    ASSUME StreamInv, UNCHANGED <<frames, blocks, altered, out, delivered, failed, pc>>,
           block' = block + 1, block + 1 # altered, StreamTypes', ~failed,
           \A start \in [1 .. Len(frames) + 1 -> Nat] :
              Layout(start) /\ Position(start) => Position(start)'
    PROVE  StreamInv'
<1>1. PICK start \in [1 .. Len(frames) + 1 -> Nat] : InPlace(start)
  BY DEF StreamInv
<1>2. Layout(start)' /\ Position(start)'
  <2>1. Layout(start) /\ Position(start)
    BY <1>1 DEF InPlace
  <2>2. Layout(start)'
    BY <2>1 DEF Layout
  <2> QED
    BY <2>1, <2>2
<1>3. start \in [1 .. Len(frames') + 1 -> Nat] /\ InPlace(start)'
  BY <1>2 DEF InPlace
<1>4. (\E st \in [1 .. Len(frames) + 1 -> Nat] : InPlace(st))'
  BY <1>3
<1>5. PrefixPassed' /\ FailedIsOut'
  BY DEF StreamInv, PrefixPassed, Passed, FailedIsOut
<1>6. block \in Nat /\ altered \in Nat /\ Len(blocks) \in Nat
  BY DEF StreamInv, StreamTypes
<1>7. DamageAhead'
  BY <1>6 DEF StreamInv, DamageAhead
<1>8. BehindPassed'
  <2>1. \A j \in block + 2 .. Len(blocks) : j \in block + 1 .. Len(blocks)
    BY <1>6
  <2>2. (block + 1) + 1 = block + 2 /\ Passed' = Passed
    BY <1>6 DEF Passed
  <2> QED
    BY <2>1, <2>2 DEF StreamInv, BehindPassed
<1> QED
  BY <1>4, <1>5, <1>7, <1>8 DEF StreamInv

\* Inside receive() the session is not poisoned, and its numbers are numbers.
LEMMA InReceive ==
    ASSUME StreamInv, pc = "cut"
    PROVE  /\ ~failed
           /\ Passed \in Nat /\ Passed <= Len(frames) /\ Len(frames) \in Nat
           /\ Len(blocks) \in Nat /\ block \in Nat
BY DEF StreamInv, FailedIsOut, StreamTypes, PrefixPassed, Passed

\* The next block is the header of the next frame.
LEMMA StreamHeader ==
    ASSUME StreamInv, ReadHeader
    PROVE  StreamInv'
<1>1. pc = "cut" /\ ~incoming /\ block < Len(blocks) /\ block + 1 # altered
  BY DEF ReadHeader, HaveHeader, Decrypts
<1>2. /\ UNCHANGED <<frames, blocks, altered, out, delivered, failed, pc>>
      /\ block' = block + 1 /\ payload' = 0
      /\ remaining' = blocks[block + 1].size
  BY DEF ReadHeader, Consume, peerVars
<1>3. incoming' = TRUE
  BY DEF ReadHeader
<1>4. /\ ~failed /\ Passed \in Nat /\ Passed <= Len(frames) /\ Len(frames) \in Nat
      /\ Len(blocks) \in Nat /\ block \in Nat
  BY <1>1, InReceive
<1>5. frames \in Seq(Nat) /\ blocks \in Seq(Blocks) /\ altered \in Nat
  BY DEF StreamInv, StreamTypes
<1>6. StreamTypes'
  <2>1. blocks[block + 1] \in Blocks
    BY <1>1, <1>4, <1>5
  <2>2. remaining' \in Nat
    BY <1>2, <2>1 DEF Blocks
  <2>3. block' \in Nat /\ payload' \in Nat
    BY <1>2, <1>4
  <2> QED
    BY <1>2, <1>3, <2>2, <2>3 DEF StreamInv, StreamTypes
<1>8. ASSUME NEW start \in [1 .. Len(frames) + 1 -> Nat], Layout(start), Position(start)
      PROVE  Position(start)'
  <2>1. block = start[Passed + 1]
    BY <1>1, <1>8 DEF Position
  <2>2. Passed < Len(frames)
    <3>1. start[Len(frames) + 1] = Len(blocks)
      BY <1>8 DEF Layout
    <3>2. Passed # Len(frames)
      BY <1>1, <1>4, <2>1, <3>1
    <3> QED
      BY <1>4, <3>2
  <2>3. Passed + 1 \in 1 .. Len(frames) /\ frames[Passed + 1] \in Nat
    BY <1>4, <1>5, <2>2
  <2>4. remaining' = frames[Passed + 1]
    BY <1>2, <1>8, <2>1, <2>3 DEF Layout
  <2>5. Passed' = Passed
    BY <1>2 DEF Passed
  <2>6. 0 \in 0 .. Chunks(frames[Passed + 1])
    <3>1. Chunks(frames[Passed + 1]) \in Nat
      BY <2>3, ChunksNat
    <3> QED
      BY <3>1
  <2>7. block' = start[Passed + 1] + 1 + 0
    BY <1>2, <1>4, <2>1
  <2>8. payload' = LesserOf(0 * Chunk, frames[Passed + 1])
    <3>1. Chunk \in Nat /\ 0 * Chunk = 0
      BY NoiseAssumption
    <3> QED
      BY <1>2, <2>3, <3>1 DEF LesserOf
  <2>9. payload' + remaining' = frames[Passed + 1]
    BY <1>2, <2>3, <2>4
  <2> QED
    BY <1>2, <1>3, <2>2, <2>5, <2>6, <2>7, <2>8, <2>9 DEF Position
<1> QED
  BY <1>1, <1>2, <1>4, <1>6, <1>8, StreamMoves

\* The arithmetic of one chunk.
LEMMA ChunkArithmetic ==
    ASSUME NEW n \in Nat, NEW c \in 0 .. Chunks(n), NEW p \in Nat, NEW r \in Nat,
           p + r = n, p = LesserOf(c * Chunk, n), r > 0
    PROVE  /\ c + 1 \in 0 .. Chunks(n)
           /\ p + LesserOf(r, Chunk) = LesserOf((c + 1) * Chunk, n)
           /\ LesserOf(r, Chunk) \in Nat /\ LesserOf(r, Chunk) <= r
<1>1. Chunk \in Nat \ {0} /\ Chunks(n) \in Nat /\ c \in Nat
  BY NoiseAssumption, ChunksNat
<1>2. c * Chunk \in Nat /\ (c + 1) * Chunk = c * Chunk + Chunk
  BY <1>1, TimesNext
<1>3. p = c * Chunk /\ c * Chunk < n
  BY <1>2 DEF LesserOf
<1>4. c < Chunks(n)
  BY <1>1, <1>3, ChunkCount
<1>5. c + 1 \in 0 .. Chunks(n)
  BY <1>1, <1>4
<1> DEFINE k == c * Chunk
<1>6. p = k /\ k \in Nat /\ (c + 1) * Chunk = k + Chunk
  BY <1>2, <1>3
<1> HIDE DEF k
<1>7. p + LesserOf(r, Chunk) = LesserOf(k + Chunk, n)
  BY <1>1, <1>6 DEF LesserOf
<1>8. LesserOf(r, Chunk) \in Nat /\ LesserOf(r, Chunk) <= r
  BY <1>1 DEF LesserOf
<1> QED
  BY <1>5, <1>6, <1>7, <1>8

\* The next block is the next chunk of the frame.
LEMMA StreamChunk ==
    ASSUME StreamInv, ReadChunk
    PROVE  StreamInv'
<1>1. pc = "cut" /\ incoming /\ remaining > 0 /\ block < Len(blocks) /\ block + 1 # altered
  BY DEF ReadChunk, HaveChunk, Decrypts
<1>2. /\ UNCHANGED <<frames, blocks, altered, out, delivered, failed, pc>>
      /\ block' = block + 1
      /\ payload' = payload + LesserOf(remaining, Chunk)
      /\ remaining' = remaining - LesserOf(remaining, Chunk)
  BY DEF ReadChunk, Consume, peerVars, ChunkLength
<1>3. incoming' = incoming
  BY DEF ReadChunk
<1>4. /\ ~failed /\ Passed \in Nat /\ Passed <= Len(frames) /\ Len(frames) \in Nat
      /\ Len(blocks) \in Nat /\ block \in Nat
  BY <1>1, InReceive
<1>5. /\ frames \in Seq(Nat) /\ altered \in Nat /\ payload \in Nat /\ remaining \in Nat
      /\ Chunk \in Nat
  BY NoiseAssumption DEF StreamInv, StreamTypes
<1>6. StreamTypes'
  <2>1. block' \in Nat /\ payload' \in Nat /\ remaining' \in Nat
    BY <1>2, <1>4, <1>5 DEF LesserOf
  <2> QED
    BY <1>2, <1>3, <2>1 DEF StreamInv, StreamTypes
<1>8. ASSUME NEW start \in [1 .. Len(frames) + 1 -> Nat], Layout(start), Position(start)
      PROVE  Position(start)'
  <2> DEFINE n == frames[Passed + 1]
  <2>1. Passed < Len(frames) /\ payload + remaining = n
    BY <1>1, <1>8 DEF Position
  <2>2. n \in Nat /\ start[Passed + 1] \in Nat
    <3>1. Passed + 1 \in 1 .. Len(frames) /\ Passed + 1 \in 1 .. Len(frames) + 1
      BY <1>4, <2>1
    <3> QED
      BY <1>5, <3>1
  <2>3. PICK c \in 0 .. Chunks(n) :
            block = start[Passed + 1] + 1 + c /\ payload = LesserOf(c * Chunk, n)
    BY <1>1, <1>8 DEF Position
  <2>4. Passed' = Passed
    BY <1>2 DEF Passed
  <2> HIDE DEF n
  <2>5. /\ c + 1 \in 0 .. Chunks(n)
        /\ payload + LesserOf(remaining, Chunk) = LesserOf((c + 1) * Chunk, n)
        /\ LesserOf(remaining, Chunk) \in Nat /\ LesserOf(remaining, Chunk) <= remaining
    BY <1>1, <1>5, <2>1, <2>2, <2>3, ChunkArithmetic, SMTT(30)
  <2>6. c \in Nat
    BY <2>2, <2>3, ChunksNat
  <2>7. block' = start[Passed + 1] + 1 + (c + 1)
    BY <1>2, <1>4, <2>2, <2>3, <2>6, SMTT(30)
  <2>8. payload' + remaining' = n
    BY <1>2, <1>5, <2>1, <2>5, SMTT(30)
  <2>9. payload' = LesserOf((c + 1) * Chunk, n)
    BY <1>2, <2>5
  <2>10. \E d \in 0 .. Chunks(n) :
            block' = start[Passed + 1] + 1 + d /\ payload' = LesserOf(d * Chunk, n)
    BY <2>5, <2>7, <2>9
  <2> QED
    BY <1>1, <1>2, <1>3, <2>1, <2>4, <2>8, <2>10 DEF Position, n
<1> QED
  BY <1>1, <1>2, <1>4, <1>6, <1>8, StreamMoves

\* A whole frame is passed on: its payload is complete, and the cipher is at
\* the next header.
LEMMA StreamFrame ==
    ASSUME StreamInv, FrameDone
    PROVE  StreamInv'
<1>1. pc = "cut" /\ incoming /\ remaining = 0
  BY DEF FrameDone, Whole
<1>2. /\ UNCHANGED <<frames, blocks, altered, delivered, failed, pc, block, payload, remaining>>
      /\ out' = Append(out, payload)
  BY DEF FrameDone, peerVars
<1>3. incoming' = FALSE
  BY DEF FrameDone
<1>4. /\ ~failed /\ Passed \in Nat /\ Passed <= Len(frames) /\ Len(frames) \in Nat
      /\ Len(blocks) \in Nat /\ block \in Nat
  BY <1>1, InReceive
<1>5. /\ frames \in Seq(Nat) /\ payload \in Nat /\ out \in Seq(Nat) /\ delivered \in Seq(Nat)
      /\ Len(out) \in Nat /\ Len(delivered) \in Nat
  BY DEF StreamInv, StreamTypes
<1>6. PICK start \in [1 .. Len(frames) + 1 -> Nat] : InPlace(start)
  BY DEF StreamInv
<1> DEFINE n == frames[Passed + 1]
<1>7. /\ Passed < Len(frames) /\ payload + remaining = n
      /\ \E c \in 0 .. Chunks(n) : /\ block = start[Passed + 1] + 1 + c
                                   /\ payload = LesserOf(c * Chunk, n)
  BY <1>1, <1>4, <1>6 DEF InPlace, Position
<1>8. Passed + 1 \in 1 .. Len(frames) /\ n \in Nat /\ start[Passed + 1] \in Nat
  <2>1. Passed + 1 \in 1 .. Len(frames) /\ Passed + 1 \in 1 .. Len(frames) + 1
    BY <1>4, <1>7
  <2> QED
    BY <1>5, <1>6, <2>1
<1>9. payload = n
  BY <1>1, <1>5, <1>7, <1>8
<1>10. /\ out' \in Seq(Nat) /\ Len(out') = Len(out) + 1
       /\ out'[Len(out) + 1] = payload
       /\ \A i \in 1 .. Len(out) : out'[i] = out[i]
  BY <1>2, <1>5, AppendFacts
<1>11. Passed' = Passed + 1 /\ Passed = Len(delivered) + Len(out)
  BY <1>2, <1>5, <1>10 DEF Passed
<1>12. StreamTypes' /\ DamageAhead' /\ FailedIsOut'
  BY <1>2, <1>3, <1>10 DEF StreamInv, StreamTypes, DamageAhead, FailedIsOut
<1>13. PrefixPassed'
  <2>1. Passed' <= Len(frames')
    BY <1>2, <1>4, <1>8, <1>11
  <2>2. \A i \in 1 .. Len(delivered) : delivered[i] = frames[i]
    BY DEF StreamInv, PrefixPassed
  <2>3. ASSUME NEW i \in 1 .. Len(out) + 1 PROVE out'[i] = frames[Len(delivered) + i]
    <3>1. CASE i = Len(out) + 1
      <4>1. Len(delivered) + i = Passed + 1
        BY <1>5, <1>11, <3>1
      <4> QED
        BY <1>9, <1>10, <3>1, <4>1
    <3>2. CASE i # Len(out) + 1
      <4>1. i \in 1 .. Len(out)
        BY <1>5, <3>2
      <4> QED
        BY <1>10, <4>1 DEF StreamInv, PrefixPassed
    <3> QED
      BY <3>1, <3>2
  <2> QED
    BY <1>2, <1>10, <2>1, <2>2, <2>3 DEF PrefixPassed
<1>14. block = start[Passed + 2]
  <2>1. PICK c \in 0 .. Chunks(n) : /\ block = start[Passed + 1] + 1 + c
                                    /\ payload = LesserOf(c * Chunk, n)
    BY <1>7
  <2>2. start[(Passed + 1) + 1] = start[Passed + 1] + 1 + Chunks(n)
    BY <1>6, <1>8 DEF InPlace, Layout
  <2>3. Chunks(n) \in Nat /\ (c \in Nat /\ c * Chunk \in Nat)
    <3>1. Chunks(n) \in Nat
      BY <1>8, ChunksNat
    <3>2. c \in Nat /\ Chunk \in Nat
      BY <2>1, <3>1, NoiseAssumption
    <3> QED
      BY <3>1, <3>2, TimesNext
  <2> HIDE DEF n
  <2>4. ~(c * Chunk < n)
    BY <1>8, <1>9, <2>1, <2>3 DEF LesserOf
  <2>5. ~(c < Chunks(n))
    BY <1>8, <2>3, <2>4, ChunkCount
  <2>6. c = Chunks(n)
    BY <2>1, <2>3, <2>5
  <2>7. (Passed + 1) + 1 = Passed + 2
    BY <1>4
  <2> QED
    BY <2>1, <2>2, <2>6, <2>7
<1>15. Layout(start)' /\ Position(start)'
  <2>1. Layout(start)'
    BY <1>2, <1>6 DEF InPlace, Layout
  <2>2. Passed' + 1 = Passed + 2
    BY <1>4, <1>11
  <2> QED
    BY <1>2, <1>3, <1>14, <2>1, <2>2 DEF Position
<1>16. start \in [1 .. Len(frames') + 1 -> Nat] /\ InPlace(start)'
  BY <1>2, <1>15 DEF InPlace
<1>17. (\E st \in [1 .. Len(frames) + 1 -> Nat] : InPlace(st))'
  BY <1>16
<1>18. BehindPassed'
  <2>1. Passed + 2 \in 1 .. Len(frames) + 1
    BY <1>4, <1>8
  <2>2. \A j \in block + 1 .. Len(blocks) : blocks[j].frame >= Passed + 2
    BY <1>6, <1>14, <2>1 DEF InPlace, Layout
  <2>3. ASSUME NEW j \in block + 1 .. Len(blocks) PROVE blocks[j].frame > Passed + 1
    <3>1. blocks[j].frame >= Passed + 2
      BY <2>2
    <3>2. j \in 1 .. Len(blocks) /\ blocks \in Seq(Blocks)
      BY <1>4 DEF StreamInv, StreamTypes
    <3>3. blocks[j].frame \in Nat
      BY <3>2, FrameNat
    <3> QED
      BY <1>4, <3>1, <3>3
  <2> QED
    BY <1>2, <1>11, <2>3 DEF BehindPassed
<1> QED
  BY <1>12, <1>13, <1>17, <1>18 DEF StreamInv

\* The frames of this call are handed to the session.
LEMMA StreamReturn ==
    ASSUME StreamInv, Return
    PROVE  StreamInv'
<1>1. /\ UNCHANGED <<frames, blocks, altered, failed, block, payload, remaining, incoming>>
      /\ out' = <<>> /\ delivered' = delivered \o out /\ pc' = "idle"
  BY DEF Return, peerVars
<1>2. /\ out \in Seq(Nat) /\ delivered \in Seq(Nat)
      /\ Len(out) \in Nat /\ Len(delivered) \in Nat
  BY DEF StreamInv, StreamTypes
<1>3. /\ delivered' \in Seq(Nat) /\ Len(delivered') = Len(delivered) + Len(out)
      /\ \A i \in 1 .. Len(delivered) : delivered'[i] = delivered[i]
      /\ \A i \in 1 .. Len(out) : delivered'[Len(delivered) + i] = out[i]
  BY <1>1, <1>2, ConcatFacts
<1>4. Len(out') = 0 /\ out' \in Seq(Nat)
  BY <1>1
<1>5. Passed' = Passed
  BY <1>2, <1>3, <1>4 DEF Passed
<1>6. StreamTypes' /\ DamageAhead' /\ FailedIsOut'
  BY <1>1, <1>3, <1>4 DEF StreamInv, StreamTypes, DamageAhead, FailedIsOut
<1>7. PrefixPassed'
  <2>1. ASSUME NEW i \in 1 .. Len(delivered') PROVE delivered'[i] = frames[i]
    <3>1. CASE i <= Len(delivered)
      <4>1. i \in 1 .. Len(delivered)
        BY <1>2, <3>1
      <4> QED
        BY <1>3, <4>1 DEF StreamInv, PrefixPassed
    <3>2. CASE i > Len(delivered)
      <4>1. PICK j \in 1 .. Len(out) : i = Len(delivered) + j
        <5>1. i - Len(delivered) \in 1 .. Len(out) /\ i = Len(delivered) + (i - Len(delivered))
          BY <1>2, <1>3, <3>2
        <5> QED
          BY <5>1
      <4> QED
        BY <1>3, <4>1 DEF StreamInv, PrefixPassed
    <3> QED
      BY <1>2, <1>3, <3>1, <3>2
  <2>2. 1 .. Len(out') = {}
    BY <1>4
  <2>3. Passed <= Len(frames)
    BY DEF StreamInv, PrefixPassed
  <2> QED
    BY <1>1, <1>5, <2>1, <2>2, <2>3 DEF PrefixPassed
<1>11. BehindPassed'
  BY <1>1, <1>5 DEF StreamInv, BehindPassed
<1>8. PICK start \in [1 .. Len(frames) + 1 -> Nat] : InPlace(start)
  BY DEF StreamInv
<1>9. start \in [1 .. Len(frames') + 1 -> Nat] /\ InPlace(start)'
  <2>1. Layout(start)'
    BY <1>1, <1>8 DEF InPlace, Layout
  <2>2. ~failed => Position(start)'
    BY <1>1, <1>5, <1>8 DEF InPlace, Position
  <2> QED
    BY <1>1, <2>1, <2>2 DEF InPlace
<1>10. (\E st \in [1 .. Len(frames) + 1 -> Nat] : InPlace(st))'
  BY <1>9
<1> QED
  BY <1>6, <1>7, <1>10, <1>11 DEF StreamInv

\* No step of the peer, the network or the receiver breaks the invariant.
LEMMA StreamNext ==
    ASSUME StreamInv, [Next]_vars
    PROVE  StreamInv'
<1>1. CASE \E size \in Sizes : PeerSends(size)
  BY <1>1, StreamSends
<1>2. CASE \E b \in 1 .. Len(blocks) : Damage(b)
  BY <1>2, StreamDamage
<1>3. CASE finish
  <2>1. UNCHANGED StreamVars /\ failed' = failed /\ FailedIsOut'
    BY <1>3 DEF finish, StreamVars, peerVars, FailedIsOut, StreamInv
  <2> QED
    BY <2>1, StreamQuiet
<1>4. CASE FinishRefused
  BY <1>4, StreamPoison DEF FinishRefused
<1>5. CASE Reads
  <2>1. PICK n \in 1 .. MaxPiece : Receive(n) \/ ReceiveOverflow(n)
    BY <1>5 DEF Reads
  <2>2. CASE Receive(n)
    <3>1. UNCHANGED StreamVars /\ failed' = failed /\ FailedIsOut'
      BY <2>2 DEF Receive, StreamVars, peerVars, FailedIsOut
    <3> QED
      BY <3>1, StreamQuiet
  <2>3. CASE ReceiveOverflow(n)
    BY <2>3, StreamPoison DEF ReceiveOverflow
  <2> QED
    BY <2>1, <2>2, <2>3
<1>6. CASE BadHeader \/ BadChunk \/ Flood
  BY <1>6, StreamPoison DEF BadHeader, BadChunk, Flood
<1>7. CASE UNCHANGED vars
  <2>1. UNCHANGED StreamVars /\ failed' = failed /\ FailedIsOut'
    BY <1>7 DEF vars, StreamVars, peerVars, FailedIsOut, StreamInv
  <2> QED
    BY <2>1, StreamQuiet
<1> QED
  BY <1>1, <1>2, <1>3, <1>4, <1>5, <1>6, <1>7, StreamHeader, StreamChunk, StreamFrame,
     StreamReturn DEF Next, Loop

\* The invariant of the encrypted stream.
THEOREM StreamInvariance == Spec => []StreamInv
<1>1. Init => StreamInv
  BY StreamInit
<1>2. StreamInv /\ [Next]_vars => StreamInv'
  BY StreamNext
<1> QED
  BY <1>1, <1>2, PTL DEF Spec

\* What has been passed on is a prefix of what was sent, ahead of any damage.
LEMMA PassedIsPrefix == StreamInv => FramesIntact
<1> SUFFICES ASSUME StreamInv PROVE FramesIntact
  OBVIOUS
<1> DEFINE d == delivered \o out
           D == Len(delivered)
           U == Len(out)
<1>1. /\ out \in Seq(Nat) /\ delivered \in Seq(Nat) /\ frames \in Seq(Nat)
      /\ D \in Nat /\ U \in Nat /\ Len(frames) \in Nat
  BY DEF StreamInv, StreamTypes
<1>2. /\ d \in Seq(Nat) /\ Len(d) = D + U
      /\ \A i \in 1 .. D : d[i] = delivered[i]
      /\ \A i \in 1 .. U : d[D + i] = out[i]
  BY <1>1, ConcatFacts
<1>3. D + U <= Len(frames)
  BY DEF StreamInv, PrefixPassed, Passed
<1> HIDE DEF d
<1>4. ASSUME NEW i \in 1 .. D + U PROVE d[i] = frames[i]
  <2>1. CASE i <= D
    <3>1. i \in 1 .. D
      BY <1>1, <2>1
    <3> QED
      BY <1>2, <3>1 DEF StreamInv, PrefixPassed
  <2>2. CASE i > D
    <3>1. PICK j \in 1 .. U : i = D + j
      <4>1. i - D \in 1 .. U /\ i = D + (i - D)
        BY <1>1, <2>2
      <4> QED
        BY <4>1
    <3> QED
      BY <1>2, <3>1 DEF StreamInv, PrefixPassed
  <2> QED
    BY <1>1, <2>1, <2>2
<1>5. SubSeq(d, 1, Len(d)) = SubSeq(frames, 1, Len(d))
  <2> DEFINE A == SubSeq(d, 1, Len(d))
             B == SubSeq(frames, 1, Len(d))
  <2>0. Len(d) \in Nat /\ Len(d) <= Len(frames)
    BY <1>1, <1>2, <1>3
  <2>1. A \in Seq(Nat) /\ Len(A) = Len(d) /\ \A i \in 1 .. Len(d) : A[i] = d[i]
    BY <1>2, <2>0
  <2>2. B \in Seq(Nat) /\ Len(B) = Len(d) /\ \A i \in 1 .. Len(d) : B[i] = frames[i]
    BY <1>1, <2>0
  <2> HIDE DEF A, B
  <2>3. \A i \in 1 .. Len(d) : A[i] = B[i]
    BY <1>2, <1>4, <2>1, <2>2
  <2>4. A = B
    BY <2>1, <2>2, <2>3, SMTT(30)
  <2> QED
    BY <2>4 DEF A, B
<1>6. IsPrefix(d, frames)
  BY <1>2, <1>3, <1>5 DEF IsPrefix
<1>7. ASSUME altered # 0 PROVE blocks[altered].frame > Len(d)
  <2>1. altered \in block + 1 .. Len(blocks)
    BY <1>7 DEF StreamInv, DamageAhead
  <2> QED
    BY <1>2, <2>1 DEF StreamInv, BehindPassed, Passed
<1> QED
  BY <1>6, <1>7 DEF FramesIntact, d

\* However TCP cuts the stream and whoever damages it, the session gets the
\* first frames that were sent, whole and in order, and none of them had a
\* damaged block (sv2_noise.cpp:64-89, 92-95).
THEOREM FramesArriveIntact == Spec => []FramesIntact
BY StreamInvariance, PassedIsPrefix, PTL
=============================================================================
