----------------------------- MODULE NoiseStream -----------------------------
(***************************************************************************)
(* The encrypted frame stream of Stratum V2 (src/src/sv2_noise.cpp over    *)
(* src/rust/sv2-noise/src/lib.rs): a frame is an encrypted header block    *)
(* that tells the payload size, followed by the payload in encrypted       *)
(* chunks.  The receiver gets the bytes in pieces of any size, cuts them   *)
(* into blocks by what it has decrypted so far, and delivers whole frames. *)
(* Any failure poisons the session.                                        *)
(*                                                                         *)
(* A ciphertext block is its length and the number and size of the frame   *)
(* it belongs to; bytes are counted, not represented.  Decryption succeeds exactly for the next     *)
(* unaltered block of the stream: the cipher's nonce counts the blocks.    *)
(***************************************************************************)
EXTENDS Integers, Sequences, SequencesExt

CONSTANTS
    Header,      \* 6: bytes of a frame header
    Tag,         \* 16: bytes encryption adds to a block
    Chunk,       \* 65519: payload bytes of a block
    MaxPayload,  \* 1 MiB
    Slack,       \* 4096: buffer space above MaxPayload
    ReadMax,     \* 8192: bytes one socket read returns at most
    MaxPiece,    \* bound: bytes of one call of receive(), which takes any span
    MaxBatch,    \* 1024: frames one receive() may return
    Sizes,       \* payload sizes the peer uses
    MaxFrames    \* bound: frames sent

ASSUME NoiseAssumption ==
    /\ {Header, Tag, Chunk, ReadMax, MaxPiece} \subseteq Nat \ {0}
    /\ {MaxPayload, Slack, MaxBatch, MaxFrames} \subseteq Nat
    /\ Sizes \subseteq Nat

VARIABLES
    frames,     \* payload sizes of the frames the peer sent
    blocks,     \* ciphertext blocks the peer sent
    altered,    \* number of the block that was damaged on the way, 0 for none
    pc,         \* "idle", or "cut" inside the loop of receive()
    ready, failed,
    got,        \* bytes read from the socket
    used,       \* bytes decrypted; input.size() is got - used
    block,      \* blocks decrypted: the cipher's nonce
    incoming,   \* a header was read and its frame is not complete
    remaining,  \* payload bytes missing from it
    payload,    \* payload bytes it has
    out,        \* payload sizes of the frames of this receive()
    delivered,  \* history: frames handed to the session
    oversized   \* history: receive() was given more than a socket read

peerVars == <<frames, blocks, altered>>
vars == <<peerVars, pc, ready, failed, got, used, block, incoming, remaining,
          payload, out, delivered, oversized>>

Init ==
    /\ frames = <<>>
    /\ blocks = <<>>
    /\ altered = 0
    /\ pc = "idle"
    /\ ready = FALSE
    /\ failed = FALSE
    /\ got = 0
    /\ used = 0
    /\ block = 0
    /\ incoming = FALSE
    /\ remaining = 0
    /\ payload = 0
    /\ out = <<>>
    /\ delivered = <<>>
    /\ oversized = FALSE

-----------------------------------------------------------------------------
(* The sending side: Noise::encode, which the peer runs as well *)

LesserOf(a, b) == IF a < b THEN a ELSE b

Chunks(size) == (size + Chunk - 1) \div Chunk

encode(frame, size) ==
    <<[len |-> Header + Tag, size |-> size, frame |-> frame]>> \o
    [i \in 1 .. Chunks(size) |->
        [len |-> LesserOf(Chunk, size - (i - 1) * Chunk) + Tag,
         size |-> size, frame |-> frame]]

Bytes == FoldLeft(LAMBDA n, b : n + b.len, 0, blocks)

\* The peer is not bound by the size limit of encode().
PeerSends(size) ==
    /\ Len(frames) < MaxFrames
    /\ frames' = Append(frames, size)
    /\ blocks' = blocks \o encode(Len(frames) + 1, size)
    /\ UNCHANGED <<altered, pc, ready, failed, got, used, block, incoming, remaining,
                   payload, out, delivered, oversized>>

\* A block that was not decrypted yet is damaged.
Damage(b) ==
    /\ altered = 0
    /\ b > block
    /\ altered' = b
    /\ UNCHANGED <<frames, blocks, pc, ready, failed, got, used, block, incoming,
                   remaining, payload, out, delivered, oversized>>

-----------------------------------------------------------------------------
(* The receiving side *)

\* Mutant: an exception leaves the session usable.
PoisonNothing ==
    /\ pc' = "idle"
    /\ out' = <<>>
    /\ UNCHANGED <<peerVars, ready, failed, got, used, block, incoming, remaining,
                   payload, delivered>>

\* The exception leaves receive(): what it had collected is gone.
Poison ==
    /\ failed' = TRUE
    /\ pc' = "idle"
    /\ out' = <<>>
    /\ UNCHANGED <<peerVars, ready, got, used, block, incoming, remaining, payload,
                   delivered>>

finish ==
    /\ ~ready /\ ~failed
    /\ ready' = TRUE
    /\ UNCHANGED <<peerVars, pc, failed, got, used, block, incoming, remaining,
                   payload, out, delivered, oversized>>

\* The certificate is not the authority's.
FinishRefused ==
    /\ ~ready /\ ~failed
    /\ Poison
    /\ UNCHANGED oversized

Receive(n) ==
    /\ pc = "idle"
    /\ ready /\ ~failed
    /\ n <= Bytes - got
    /\ got - used + n <= MaxPayload + Slack
    /\ got' = got + n
    /\ pc' = "cut"
    /\ oversized' = (oversized \/ n > ReadMax)
    /\ UNCHANGED <<peerVars, ready, failed, used, block, incoming, remaining, payload,
                   out, delivered>>

ReceiveOverflow(n) ==
    /\ pc = "idle"
    /\ ready /\ ~failed
    /\ n <= Bytes - got
    /\ got - used + n > MaxPayload + Slack
    /\ oversized' = (oversized \/ n > ReadMax)
    /\ Poison

\* yolo_noise_transform on the next n bytes.
Decrypts(n) == block < Len(blocks) /\ blocks[block + 1].len = n /\ block + 1 # altered

Consume(n) ==
    /\ used' = used + n
    /\ block' = block + 1

\* Mutant: off by one, an exact header waits for another byte.
HaveHeaderLate == pc = "cut" /\ ~incoming /\ got - used > Header + Tag

HaveHeader == pc = "cut" /\ ~incoming /\ got - used >= Header + Tag

ReadHeader ==
    /\ HaveHeader
    /\ Decrypts(Header + Tag)
    /\ blocks[block + 1].size <= MaxPayload
    /\ Consume(Header + Tag)
    /\ incoming' = TRUE
    /\ remaining' = blocks[block + 1].size
    /\ payload' = 0
    /\ UNCHANGED <<peerVars, pc, ready, failed, got, out, delivered, oversized>>

BadHeader ==
    /\ HaveHeader
    /\ ~Decrypts(Header + Tag) \/ blocks[block + 1].size > MaxPayload
    /\ Poison
    /\ UNCHANGED oversized

ChunkLength == LesserOf(remaining, Chunk)

HaveChunk ==
    pc = "cut" /\ incoming /\ remaining > 0 /\ got - used >= ChunkLength + Tag

ReadChunk ==
    /\ HaveChunk
    /\ Decrypts(ChunkLength + Tag)
    /\ Consume(ChunkLength + Tag)
    /\ remaining' = remaining - ChunkLength
    /\ payload' = payload + ChunkLength
    /\ UNCHANGED <<peerVars, pc, ready, failed, got, incoming, out, delivered, oversized>>

BadChunk ==
    /\ HaveChunk
    /\ ~Decrypts(ChunkLength + Tag)
    /\ Poison
    /\ UNCHANGED oversized

Whole == pc = "cut" /\ incoming /\ remaining = 0

FrameDone ==
    /\ Whole
    /\ Len(out) < MaxBatch
    /\ out' = Append(out, payload)
    /\ incoming' = FALSE
    /\ UNCHANGED <<peerVars, pc, ready, failed, got, used, block, remaining, payload,
                   delivered, oversized>>

Flood ==
    /\ Whole
    /\ Len(out) >= MaxBatch
    /\ Poison
    /\ UNCHANGED oversized

Return ==
    /\ pc = "cut"
    /\ ~HaveHeader /\ ~HaveChunk /\ ~Whole
    /\ pc' = "idle"
    /\ delivered' = delivered \o out
    /\ out' = <<>>
    /\ UNCHANGED <<peerVars, ready, failed, got, used, block, incoming, remaining,
                   payload, oversized>>

Loop ==
    ReadHeader \/ BadHeader \/ ReadChunk \/ BadChunk \/ FrameDone \/ Flood \/ Return

Reads == \E n \in 1 .. MaxPiece : Receive(n) \/ ReceiveOverflow(n)

Next ==
    \/ \E size \in Sizes : PeerSends(size)
    \/ \E b \in 1 .. Len(blocks) : Damage(b)
    \/ finish
    \/ FinishRefused
    \/ Reads
    \/ Loop

\* The mining loop reads the socket for ever, and TCP delivers what was sent.
Spec == Init /\ [][Next]_vars /\ WF_vars(finish) /\ WF_vars(Reads) /\ WF_vars(Loop)

-----------------------------------------------------------------------------
(* Properties *)

Conforming == altered = 0 /\ \A i \in 1 .. Len(frames) : frames[i] <= MaxPayload

\* The code's numbers: a started block and one more read fit in the buffer, and
\* no read holds more than MaxBatch headers.
LimitsSuffice ==
    /\ Chunk + Tag + ReadMax <= MaxPayload + Slack
    /\ ReadMax < MaxBatch * (Header + Tag)

\* However TCP cuts the stream, and whoever damages it, the session gets the
\* first frames that were sent, whole and in order, and none of them had a
\* damaged block.  Frames that are lost with a failing call are followed by no
\* later one (sv2_noise.cpp:64-89, 92-95).
FramesIntact ==
    /\ IsPrefix(delivered \o out, frames)
    /\ altered # 0 => blocks[altered].frame > Len(delivered \o out)

\* Every frame is delivered in the end, unless the session is poisoned, and it
\* is poisoned only by a cause: no cut of the stream leaves a complete frame in
\* the buffer; a damaged block or a frame beyond the size limit never leaves
\* the receiver waiting; and for a conforming peer, while receive() gets no
\* more than the socket returns in one read, the limits on the buffer and on
\* the frames of one call refuse nothing (sv2_noise.cpp:59, 67-89, 92-95).
EverythingArrives ==
    \A i \in 1 .. MaxFrames :
        (Len(frames) >= i) ~>
            \/ Len(delivered) >= i
            \/ failed /\ (~Conforming \/ ~ready \/ oversized \/ ~LimitsSuffice)
=============================================================================
