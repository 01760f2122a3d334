--------------------------------- MODULE U29 ----------------------------------
(***************************************************************************)
(* The variable-length integers of storage/u29.ts and of WriteBuffer       *)
(* (storage/encoding/write-buffer.ts): one to four bytes, seven bits in    *)
(* each of the first three, eight in the fourth.  Buffers are sequences of *)
(* bytes; offsets into them start at 0.                                    *)
(***************************************************************************)
EXTENDS Integers, Sequences

Byte == 0 .. 255

\* U29_MAX_VALUE: 2^29 - 1
U29Max == 536870911

\* assertU29
IsU29(n) == n \in Nat /\ n <= U29Max

\* buffer[offset] is undefined past the end.
EndOfBuffer == 256

ByteAt(bytes, o) == IF o < Len(bytes) THEN bytes[o + 1] ELSE EndOfBuffer

\* What a decoder that throws gives.
Failed == [ok |-> FALSE]

\* A value and the offset of the first byte behind it.
Decoded(v, next) == [ok |-> TRUE, value |-> v, next |-> next]

-----------------------------------------------------------------------------

Seven(n, shift) == 128 + ((n \div shift) % 128)

EncodeU29(n) ==
    CASE n < 128 -> <<n>>
      [] n >= 128 /\ n < 16384 -> <<Seven(n, 128), n % 128>>
      [] n >= 16384 /\ n < 2097152 -> <<Seven(n, 16384), Seven(n, 128), n % 128>>
      [] n >= 2097152 ->
            <<Seven(n, 4194304), Seven(n, 32768), Seven(n, 256), n % 256>>

\* WriteBuffer.writeU29 does not mask the first of two or three bytes; the
\* buffer keeps the low eight bits of what it is given.
WriteU29(n) ==
    CASE n < 128 -> <<n>>
      [] n >= 128 /\ n < 16384 -> <<(128 + (n \div 128)) % 256, n % 128>>
      [] n >= 16384 /\ n < 2097152 ->
            <<(128 + (n \div 16384)) % 256, Seven(n, 128), n % 128>>
      [] n >= 2097152 ->
            <<Seven(n, 4194304), Seven(n, 32768), Seven(n, 256), n % 256>>

More(byte) == byte >= 128 /\ byte < EndOfBuffer

\* The fourth byte ends the number whatever its high bit says.
DecodeU29(bytes, o) ==
    LET b(i) == ByteAt(bytes, o + i)
        low(i) == b(i) % 128
    IN CASE b(0) < 128 -> Decoded(b(0), o + 1)
         [] More(b(0)) /\ b(1) < 128 -> Decoded(128 * low(0) + b(1), o + 2)
         [] More(b(0)) /\ More(b(1)) /\ b(2) < 128 ->
              Decoded(16384 * low(0) + 128 * low(1) + b(2), o + 3)
         [] More(b(0)) /\ More(b(1)) /\ More(b(2)) /\ b(3) < EndOfBuffer ->
              Decoded(4194304 * low(0) + 32768 * low(1) + 256 * low(2) + b(3), o + 4)
         [] OTHER -> Failed

\* alignTo4Bytes
AlignTo4Bytes(n) == 4 * ((n + 3) \div 4)

====
