------------------------------- MODULE Targets -------------------------------
(***************************************************************************)
(* Targets (src/src/coin.cpp:6-34, src/src/crypto.cpp:109-158): the        *)
(* network target of nbits, the share target of a decimal difficulty, and  *)
(* the byte-wise comparison of a hash with a target.                       *)
(*                                                                         *)
(* A hash is a sequence of HashBytes digits, the most significant first.   *)
(* A byte has Base values; 256 and 32 in the code.                         *)
(***************************************************************************)
EXTENDS Integers, Sequences, SequencesExt

CONSTANTS
    Base, HashBytes,
    HighBytes,    \* digits of the 64-bit word the devices compare
    One,          \* target of difficulty one, a number: 65535 * 2^208
    Refused       \* the conversion throws

Power(b, n) ==
    LET power[k \in 0 .. n] == IF k = 0 THEN 1 ELSE b * power[k - 1]
    IN power[n]

ASSUME TargetsAssumption ==
    /\ Base \in Nat \ {0, 1} /\ HashBytes \in Nat \ {0, 1, 2, 3}
    /\ HighBytes \in 1 .. HashBytes
    /\ One \in 1 .. Power(Base, HashBytes) - 1

Byte(n, i) == (n \div Power(Base, i)) % Base

Bytes == 0 .. Base - 1
Hashes == [1 .. HashBytes -> Bytes]

\* The number as HashBytes digits.
ToBytes(n) == [p \in 1 .. HashBytes |-> Byte(n, HashBytes - p)]

\* The number of which b are the digits.
Number(b) ==
    LET value[k \in 0 .. Len(b)] == IF k = 0 THEN 0 ELSE value[k - 1] * Base + b[k]
    IN value[Len(b)]

\* The first eight bytes as a big-endian word.
High(b) == Number(SubSeq(b, 1, HighBytes))

\* Not lexicographically above the target.
meets(h, t) ==
    ~\E p \in 1 .. HashBytes : t[p] < h[p] /\ \A q \in 1 .. p - 1 : h[q] = t[q]

Zero == [p \in 1 .. HashBytes |-> 0]

\* The three mantissa bytes moved to their place; bytes past the end are lost.
Placed(exponent, mantissa) ==
    [p \in 1 .. HashBytes |->
        LET i == p - 1 - (HashBytes - exponent)
        IN IF i \in 0 .. 2 THEN Byte(mantissa, 2 - i) ELSE 0]

\* Mutant: bytes before the first one are lost like those past the end.
NeverOverflows(exponent, mantissa) == FALSE

\* A byte that would stand before the first one.
Overflows(exponent, mantissa) ==
    \E i \in 0 .. 2 : HashBytes - exponent + i < 0 /\ Byte(mantissa, 2 - i) # 0

\* nbits is an exponent byte and three mantissa bytes, whose top bit is a sign.
compact_target(exponent, mantissa) ==
    LET sign  == mantissa >= Power(Base, 3) \div 2
        small == ToBytes(mantissa \div Power(Base, 3 - exponent))
        out   == IF exponent <= 3 THEN small ELSE Placed(exponent, mantissa)
    IN IF \/ sign \/ mantissa = 0 \/ exponent > HashBytes + 2
          \/ exponent > 3 /\ Overflows(exponent, mantissa)
          \/ out = Zero
       THEN Refused ELSE out

\* A decimal is digits * Power(10, exponent), as the parser leaves it.
difficulty_target(digits, exponent) ==
    LET num == IF exponent < 0 THEN One * Power(10, -exponent) ELSE One
        den == IF exponent < 0 THEN digits ELSE digits * Power(10, exponent)
    IN IF digits = 0 THEN Refused
       ELSE IF num \div den >= Power(Base, HashBytes)
       THEN [p \in 1 .. HashBytes |-> Base - 1]
       ELSE ToBytes(num \div den)
=============================================================================
