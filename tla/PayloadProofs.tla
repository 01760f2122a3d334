---------------------------- MODULE PayloadProofs -----------------------------
(***************************************************************************)
(* What is written is read, for every number, name and document of bytes.  *)
(***************************************************************************)
EXTENDS Payloads, SequenceTheorems, TLAPS

Buffer == Seq(Byte)

-----------------------------------------------------------------------------
(* Integers.                                                               *)

\* A byte's high bit does not reach the seven below it.
LEMMA LowBits ==
    ASSUME NEW q \in Nat
    PROVE  128 + (q % 128) \in 128 .. 255 /\ (128 + (q % 128)) % 128 = q % 128
<1>1. q % 128 \in 0 .. 127
  BY SMTT(10)
<1> QED BY <1>1, SMTT(10)

LEMMA Split128 ==
    ASSUME NEW n \in Nat
    PROVE  /\ n \div 128 \in Nat /\ n % 128 \in 0 .. 127 /\ (n % 128) % 128 = n % 128
           /\ n = 128 * (n \div 128) + (n % 128)
BY SMTT(10)

LEMMA Split256 ==
    ASSUME NEW n \in Nat
    PROVE  /\ n \div 256 \in Nat /\ n % 256 \in 0 .. 255
           /\ n = 256 * (n \div 256) + (n % 256)
BY SMTT(10)

LEMMA Quotients ==
    ASSUME NEW n \in Nat
    PROVE  /\ n \div 16384 = (n \div 128) \div 128
           /\ n \div 32768 = (n \div 256) \div 128
           /\ n \div 4194304 = (n \div 32768) \div 128
<1>1. n \div 16384 = (n \div 128) \div 128
  BY SMTT(30)
<1>2. n \div 32768 = (n \div 256) \div 128
  BY SMTT(30)
<1>3. n \div 4194304 = (n \div 32768) \div 128
  BY SMTT(30)
<1> QED BY <1>1, <1>2, <1>3, SMT

LEMMA SmallMod == ASSUME NEW q \in 0 .. 127 PROVE q % 128 = q
BY SMTT(10)

LEMMA Digits2 ==
    ASSUME NEW n \in Nat, n >= 128, n < 16384
    PROVE  /\ Seven(n, 128) \in 128 .. 255 /\ n % 128 \in 0 .. 127
           /\ 128 * (Seven(n, 128) % 128) + ((n % 128) % 128) = n
<1>1. n \in Nat /\ n \div 128 \in 0 .. 127
  BY SMTT(10)
<1>2. (n \div 128) % 128 = n \div 128
  BY <1>1, SmallMod, SMT
<1>3. Seven(n, 128) \in 128 .. 255 /\ Seven(n, 128) % 128 = n \div 128
  BY <1>1, <1>2, LowBits, Split128, SMT DEF Seven
<1> QED BY <1>1, <1>3, Split128, SMT

LEMMA Digits3 ==
    ASSUME NEW n \in Nat, n >= 16384, n < 2097152
    PROVE  /\ Seven(n, 16384) \in 128 .. 255 /\ Seven(n, 128) \in 128 .. 255
           /\ n % 128 \in 0 .. 127
           /\ 16384 * (Seven(n, 16384) % 128) + 128 * (Seven(n, 128) % 128)
                + ((n % 128) % 128) = n
<1> DEFINE q == n \div 128
           r == n \div 16384
<1>1. n \in Nat /\ r \in 0 .. 127
  BY SMTT(10)
<1>2. q \in Nat /\ r = q \div 128
  BY <1>1, Split128, Quotients, SMT
<1>3. Seven(n, 16384) \in 128 .. 255 /\ Seven(n, 16384) % 128 = r
  BY <1>1, SmallMod, LowBits, SMT DEF Seven
<1>4. Seven(n, 128) \in 128 .. 255 /\ Seven(n, 128) % 128 = q % 128
  BY <1>2, LowBits, SMT DEF Seven
<1>5. n = 128 * q + (n % 128) /\ n % 128 \in 0 .. 127 /\ (n % 128) % 128 = n % 128
  BY <1>1, Split128, SMT
<1>6. q = 128 * r + (q % 128) /\ q % 128 \in 0 .. 127
  BY <1>2, Split128, SMT
<1> HIDE DEF q, r
<1> QED BY <1>1, <1>2, <1>3, <1>4, <1>5, <1>6, SMT

LEMMA Digits4 ==
    ASSUME NEW n \in Nat, n >= 2097152, n <= U29Max
    PROVE  /\ Seven(n, 4194304) \in 128 .. 255 /\ Seven(n, 32768) \in 128 .. 255
           /\ Seven(n, 256) \in 128 .. 255 /\ n % 256 \in 0 .. 255
           /\ 4194304 * (Seven(n, 4194304) % 128) + 32768 * (Seven(n, 32768) % 128)
                + 256 * (Seven(n, 256) % 128) + (n % 256) = n
<1> DEFINE q == n \div 256
           r == n \div 32768
           t == n \div 4194304
<1>1. n \in Nat /\ t \in 0 .. 127
  BY SMTT(10) DEF U29Max
<1>2. q \in Nat /\ r = q \div 128 /\ t = r \div 128
  BY <1>1, Split256, Quotients, SMT
<1>3. r \in Nat
  BY <1>2, Split128, SMT
<1>4. Seven(n, 4194304) \in 128 .. 255 /\ Seven(n, 4194304) % 128 = t
  BY <1>1, SmallMod, LowBits, SMT DEF Seven
<1>5. Seven(n, 32768) \in 128 .. 255 /\ Seven(n, 32768) % 128 = r % 128
  BY <1>3, LowBits, SMT DEF Seven
<1>6. Seven(n, 256) \in 128 .. 255 /\ Seven(n, 256) % 128 = q % 128
  BY <1>2, LowBits, SMT DEF Seven
<1>7. n = 256 * q + (n % 256) /\ n % 256 \in 0 .. 255
  BY <1>1, Split256, SMT
<1>8. q = 128 * r + (q % 128) /\ q % 128 \in 0 .. 127
  BY <1>2, Split128, SMT
<1>9. r = 128 * t + (r % 128) /\ r % 128 \in 0 .. 127
  BY <1>2, <1>3, Split128, SMT
<1> HIDE DEF q, r, t
<1> QED BY <1>1, <1>2, <1>3, <1>4, <1>5, <1>6, <1>7, <1>8, <1>9, SMT

LEMMA Encoded ==
    ASSUME NEW n, IsU29(n)
    PROVE  /\ n \in Nat
           /\ \/ n < 128 /\ EncodeU29(n) = <<n>>
              \/ n >= 128 /\ n < 16384 /\ EncodeU29(n) = <<Seven(n, 128), n % 128>>
              \/ /\ n >= 16384 /\ n < 2097152
                 /\ EncodeU29(n) = <<Seven(n, 16384), Seven(n, 128), n % 128>>
              \/ /\ n >= 2097152
                 /\ EncodeU29(n) =
                      <<Seven(n, 4194304), Seven(n, 32768), Seven(n, 256), n % 256>>
BY SMT DEF IsU29, EncodeU29

LEMMA EncodedBytes ==
    ASSUME NEW n, IsU29(n)
    PROVE  EncodeU29(n) \in Buffer /\ Len(EncodeU29(n)) \in 1 .. 4
<1>1. n \in Nat /\ n <= U29Max
  BY DEF IsU29
<1>2. CASE n < 128 /\ EncodeU29(n) = <<n>>
  <2>1. n \in Byte
    BY <1>1, <1>2, SMT DEF Byte
  <2>2. <<n>> \in Buffer /\ Len(<<n>>) \in 1 .. 4
    BY <2>1, SMT DEF Buffer
  <2> QED BY <1>2, <2>2, SMT
<1>3. CASE n >= 128 /\ n < 16384 /\ EncodeU29(n) = <<Seven(n, 128), n % 128>>
  <2>1. Seven(n, 128) \in Byte /\ n % 128 \in Byte
    BY <1>1, <1>3, Digits2, SMT DEF Byte
  <2>2. <<Seven(n, 128), n % 128>> \in Buffer /\ Len(<<Seven(n, 128), n % 128>>) \in 1 .. 4
    BY <2>1, SMT DEF Buffer
  <2> QED BY <1>3, <2>2, SMT
<1>4. CASE /\ n >= 16384 /\ n < 2097152
           /\ EncodeU29(n) = <<Seven(n, 16384), Seven(n, 128), n % 128>>
  <2>1. Seven(n, 16384) \in Byte /\ Seven(n, 128) \in Byte /\ n % 128 \in Byte
    BY <1>1, <1>4, Digits3, SMT DEF Byte
  <2>2. <<Seven(n, 16384), Seven(n, 128), n % 128>> \in Buffer /\ Len(<<Seven(n, 16384), Seven(n, 128), n % 128>>) \in 1 .. 4
    BY <2>1, SMT DEF Buffer
  <2> QED BY <1>4, <2>2, SMT
<1>5. CASE /\ n >= 2097152
           /\ EncodeU29(n) = <<Seven(n, 4194304), Seven(n, 32768), Seven(n, 256), n % 256>>
  <2>1. /\ Seven(n, 4194304) \in Byte /\ Seven(n, 32768) \in Byte
        /\ Seven(n, 256) \in Byte /\ n % 256 \in Byte
    BY <1>1, <1>5, Digits4, SMT DEF Byte
  <2>2. <<Seven(n, 4194304), Seven(n, 32768), Seven(n, 256), n % 256>> \in Buffer /\ Len(<<Seven(n, 4194304), Seven(n, 32768), Seven(n, 256), n % 256>>) \in 1 .. 4
    BY <2>1, SMT DEF Buffer
  <2> QED BY <1>5, <2>2, SMT
<1> QED BY <1>2, <1>3, <1>4, <1>5, Encoded, SMT

LEMMA ByteInside ==
    ASSUME NEW before \in Buffer, NEW middle \in Buffer, NEW after \in Buffer,
           NEW i \in Nat, i < Len(middle)
    PROVE  ByteAt(before \o middle \o after, Len(before) + i) = middle[i + 1]
BY SMT DEF ByteAt, Buffer

\* encodeU29 and WriteBuffer.writeU29 write the same bytes.
THEOREM WritersAgree == \A n : IsU29(n) => WriteU29(n) = EncodeU29(n)
<1> SUFFICES ASSUME NEW n, IsU29(n)
             PROVE  WriteU29(n) = EncodeU29(n)
  OBVIOUS
<1>0. n \in Nat
  BY DEF IsU29
<1>1. CASE n < 128
  BY <1>0, <1>1, SMT DEF EncodeU29, WriteU29
<1>2. CASE n >= 128 /\ n < 16384
  <2>1. n \div 128 <= 127 /\ n \div 128 \in Nat
    BY <1>0, <1>2, Split128, SMTT(10)
  <2>2. (128 + (n \div 128)) % 256 = Seven(n, 128)
    BY <2>1, SMTT(10) DEF Seven
  <2> QED BY <1>0, <1>2, <2>2, SMT DEF EncodeU29, WriteU29
<1>3. CASE n >= 16384 /\ n < 2097152
  <2>1. n \div 16384 <= 127 /\ n \div 16384 \in Nat
    BY <1>0, <1>3, SMTT(10)
  <2>2. (128 + (n \div 16384)) % 256 = Seven(n, 16384)
    BY <2>1, SMTT(10) DEF Seven
  <2> QED BY <1>0, <1>3, <2>2, SMT DEF EncodeU29, WriteU29
<1>4. CASE n >= 2097152
  BY <1>0, <1>4, SMT DEF EncodeU29, WriteU29
<1> QED BY <1>0, <1>1, <1>2, <1>3, <1>4, SMT

\* Whatever stands in front of a number and behind it, decodeU29 gives it back
\* and the offset where it ends.
THEOREM U29RoundTrip ==
    ASSUME NEW n, IsU29(n), NEW before \in Buffer, NEW after \in Buffer
    PROVE  DecodeU29(before \o EncodeU29(n) \o after, Len(before))
               = Decoded(n, Len(before) + Len(EncodeU29(n)))
<1> DEFINE e == EncodeU29(n)
           o == Len(before)
           buf == before \o e \o after
<1>0. n \in Nat /\ n <= U29Max /\ e \in Buffer /\ o \in Nat
  BY EncodedBytes, SMT DEF IsU29, Buffer
<1>1. \A i \in Nat : i < Len(e) => ByteAt(buf, o + i) = e[i + 1]
  BY <1>0, ByteInside, SMT
<1> HIDE DEF o, buf
<1>2. CASE n < 128 /\ e = <<n>>
  <2> HIDE DEF e
  <2>1. ByteAt(buf, o + 0) = n /\ Len(e) = 1
    BY <1>0, <1>1, <1>2, SMT
  <2>2. DecodeU29(buf, o) = Decoded(n, o + 1)
    BY <1>0, <1>2, <2>1, SMT DEF DecodeU29, EndOfBuffer, More
  <2> QED BY <2>1, <2>2 DEF e, o, buf
<1>3. CASE n >= 128 /\ n < 16384 /\ e = <<Seven(n, 128), n % 128>>
  <2> HIDE DEF e
  <2>1. ByteAt(buf, o + 0) = Seven(n, 128) /\ ByteAt(buf, o + 1) = n % 128 /\ Len(e) = 2
    BY <1>0, <1>1, <1>3, SMT
  <2>2. DecodeU29(buf, o) = Decoded(n, o + 2)
    BY <1>0, <1>3, <2>1, Digits2, SMT DEF DecodeU29, EndOfBuffer, More
  <2> QED BY <2>1, <2>2 DEF e, o, buf
<1>4. CASE /\ n >= 16384 /\ n < 2097152
           /\ e = <<Seven(n, 16384), Seven(n, 128), n % 128>>
  <2> HIDE DEF e
  <2>1. /\ ByteAt(buf, o + 0) = Seven(n, 16384) /\ ByteAt(buf, o + 1) = Seven(n, 128)
        /\ ByteAt(buf, o + 2) = n % 128 /\ Len(e) = 3
    BY <1>0, <1>1, <1>4, SMT
  <2>2. DecodeU29(buf, o) = Decoded(n, o + 3)
    BY <1>0, <1>4, <2>1, Digits3, SMT DEF DecodeU29, EndOfBuffer, More
  <2> QED BY <2>1, <2>2 DEF e, o, buf
<1>5. CASE /\ n >= 2097152
           /\ e = <<Seven(n, 4194304), Seven(n, 32768), Seven(n, 256), n % 256>>
  <2> HIDE DEF e
  <2>1. /\ ByteAt(buf, o + 0) = Seven(n, 4194304) /\ ByteAt(buf, o + 1) = Seven(n, 32768)
        /\ ByteAt(buf, o + 2) = Seven(n, 256) /\ ByteAt(buf, o + 3) = n % 256 /\ Len(e) = 4
    BY <1>0, <1>1, <1>5, SMT
  <2>2. DecodeU29(buf, o) = Decoded(n, o + 4)
    BY <1>0, <1>5, <2>1, Digits4, SMT DEF DecodeU29, EndOfBuffer, More
  <2> QED BY <2>1, <2>2 DEF e, o, buf
<1> QED BY <1>2, <1>3, <1>4, <1>5, Encoded, SMT

-----------------------------------------------------------------------------
(* Payloads.                                                               *)

LEMMA Concat ==
    ASSUME NEW s \in Buffer, NEW t \in Buffer
    PROVE  /\ s \o t \in Buffer /\ Len(s \o t) = Len(s) + Len(t)
           /\ Len(s) \in Nat /\ Len(t) \in Nat
BY ConcatProperties DEF Buffer

LEMMA Associative ==
    ASSUME NEW s \in Buffer, NEW t \in Buffer, NEW u \in Buffer
    PROVE  (s \o t) \o u = s \o (t \o u)
BY ConcatAssociative DEF Buffer

\* The bytes of the middle one of three.
LEMMA SliceInside ==
    ASSUME NEW before \in Buffer, NEW middle \in Buffer, NEW after \in Buffer
    PROVE  Slice(before \o middle \o after, Len(before), Len(before) + Len(middle)) = middle
<1> DEFINE s == before \o middle \o after
           m == Len(before)
           n == Len(before) + Len(middle)
           r == SubSeq(s, m + 1, n)
<1>1. /\ m \in Nat /\ n \in Nat /\ m <= n /\ n <= Len(s) /\ Len(middle) \in Nat
      /\ Len(middle) = n - m
  <2>1. before \o middle \in Buffer /\ Len(before \o middle) = Len(before) + Len(middle)
    BY Concat
  <2>2. Len(s) = Len(before) + Len(middle) + Len(after)
    BY <2>1, Concat
  <2>3. Len(before) \in Nat /\ Len(middle) \in Nat /\ Len(after) \in Nat
    BY Concat
  <2> HIDE DEF s
  <2> QED BY <2>2, <2>3, SMT
<1>2. \A i \in 1 .. Len(middle) : s[m + i] = middle[i] /\ s[m + i] \in Byte
  BY SMT DEF Buffer
<1>3. \A i \in m + 1 .. n : s[i] \in Byte
  <2> SUFFICES ASSUME NEW i \in m + 1 .. n PROVE s[i] \in Byte
    OBVIOUS
  <2>1. i - m \in 1 .. Len(middle) /\ m + (i - m) = i
    BY <1>1, SMT
  <2> QED BY <1>2, <2>1
<1> HIDE DEF s, m, n
<1>4. /\ r \in Seq(Byte) /\ Len(r) = Len(middle)
      /\ \A i \in 1 .. n - (m + 1) + 1 : r[i] = s[m + 1 + i - 1]
  <2>1. /\ r \in Seq(Byte) /\ Len(r) = (IF m + 1 <= n THEN n - (m + 1) + 1 ELSE 0)
        /\ \A i \in 1 .. n - (m + 1) + 1 : r[i] = s[m + 1 + i - 1]
    BY <1>1, <1>3, SubSeqProperties
  <2> QED BY <1>1, <2>1, SMT
<1>5. \A i \in 1 .. Len(r) : r[i] = middle[i]
  BY <1>1, <1>2, <1>4, SMT
<1>6. r = middle
  BY <1>4, <1>5, SeqEqual DEF Buffer
<1>7. Slice(s, m, n) = r
  BY <1>1, SMT DEF Slice
<1> QED BY <1>6, <1>7 DEF s, m, n

Zeros(n) == [i \in 1 .. AlignTo4Bytes(n) - n |-> 0]

LEMMA ZerosAreBytes ==
    ASSUME NEW n \in Nat
    PROVE  Zeros(n) \in Buffer /\ Len(Zeros(n)) \in Nat
                /\ \A i \in 1 .. Len(Zeros(n)) : Zeros(n)[i] = 0
<1>1. AlignTo4Bytes(n) - n \in 0 .. 3
  BY SMTT(10) DEF AlignTo4Bytes
<1> DEFINE k == AlignTo4Bytes(n) - n
<1>2. k \in Nat
  BY <1>1, SMT
<1> HIDE DEF k
<1>3. [i \in 1 .. k |-> 0] \in Seq(Byte) /\ Len([i \in 1 .. k |-> 0]) = k
  BY <1>2, SMT DEF Byte
<1> QED BY <1>2, <1>3, SMT DEF Zeros, k, Buffer

\* A padded payload in its parts.
LEMMA PaddedParts ==
    ASSUME NEW front \in Buffer, NEW field \in Buffer, IsU29(Len(field))
    PROVE  LET e == EncodeU29(Len(field))
               zeros == Zeros(Len(front \o Prefixed(field)))
           IN /\ e \in Buffer /\ zeros \in Buffer
              /\ Pad(front \o Prefixed(field)) = front \o e \o (field \o zeros)
              /\ Pad(front \o Prefixed(field)) = (front \o e) \o field \o zeros
              /\ Pad(front \o Prefixed(field)) = front \o (e \o field \o zeros)
<1> DEFINE e == EncodeU29(Len(field))
           whole == front \o Prefixed(field)
           zeros == Zeros(Len(whole))
<1>1. e \in Buffer
  BY EncodedBytes
<1>2. Prefixed(field) = e \o field /\ e \o field \in Buffer
  BY <1>1, Concat DEF Prefixed
<1>3. whole \in Buffer /\ Len(whole) \in Nat
  BY <1>2, Concat DEF Buffer
<1>4. zeros \in Buffer
  BY <1>3, ZerosAreBytes
<1>5. Pad(whole) = whole \o zeros
  BY DEF Pad, Zeros
<1> HIDE DEF e, zeros
<1>6. whole = (front \o e) \o field
  <2>1. (front \o e) \o field = front \o (e \o field)
    BY <1>1, Associative
  <2> QED BY <1>2, <2>1
<1>7. front \o e \in Buffer /\ field \o zeros \in Buffer
  BY <1>1, <1>4, Concat
<1>8. whole \o zeros = front \o e \o (field \o zeros)
  <2>1. ((front \o e) \o field) \o zeros = (front \o e) \o (field \o zeros)
    <3> DEFINE x == front \o e
    <3>1. x \in Buffer
      BY <1>7
    <3> HIDE DEF x
    <3>2. (x \o field) \o zeros = x \o (field \o zeros)
      BY <1>4, <3>1, Associative
    <3> QED BY <3>2 DEF x
  <2> QED BY <1>6, <2>1
<1>9. whole \o zeros = front \o ((e \o field) \o zeros)
  <2>1. (front \o (e \o field)) \o zeros = front \o ((e \o field) \o zeros)
    BY <1>2, <1>4, Associative
  <2> QED BY <1>2, <2>1
<1> QED BY <1>1, <1>4, <1>5, <1>6, <1>8, <1>9 DEF e, zeros

\* The last field of a payload is read as it was written, whatever is in front
\* of it: the length says where it ends and the rest is padding.
LEMMA FieldRead ==
    ASSUME NEW front \in Buffer, NEW field \in Buffer, IsU29(Len(field))
    PROVE  LET read == ReadPrefixed(Pad(front \o Prefixed(field)), Len(front))
           IN read.ok /\ read.value = field
<1> DEFINE e == EncodeU29(Len(field))
           zeros == Zeros(Len(front \o Prefixed(field)))
           payload == Pad(front \o Prefixed(field))
           n == DecodeU29(payload, Len(front))
           end == Len(front) + Len(e) + Len(field)
<1>1. /\ e \in Buffer /\ zeros \in Buffer
      /\ payload = front \o e \o (field \o zeros)
      /\ payload = (front \o e) \o field \o zeros
  BY PaddedParts
<1>2. \A i \in 1 .. Len(zeros) : zeros[i] = 0
  BY <1>1, ZerosAreBytes, Concat, EncodedBytes DEF Prefixed
<1>3. n = Decoded(Len(field), Len(front) + Len(e))
  <2>1. field \o zeros \in Buffer
    BY <1>1, Concat
  <2>2. DecodeU29(front \o e \o (field \o zeros), Len(front))
            = Decoded(Len(field), Len(front) + Len(e))
    BY <2>1, U29RoundTrip
  <2> QED BY <1>1, <2>2
<1> HIDE DEF e, zeros, payload, n
<1>4. n.ok /\ n.value = Len(field) /\ n.next = Len(front \o e) /\ n.next + n.value = end
  BY <1>1, <1>3, Concat, SMT DEF Decoded
<1>5. /\ end = Len((front \o e) \o field) /\ end \in Nat
      /\ (front \o e) \o field \in Buffer /\ front \o e \in Buffer
  BY <1>1, Concat
<1>6. Len(payload) = end + Len(zeros) /\ Len(zeros) \in Nat
  BY <1>1, <1>5, Concat
<1>7. \A i \in end + 1 .. Len(payload) : payload[i] = 0
  <2> SUFFICES ASSUME NEW i \in end + 1 .. Len(payload) PROVE payload[i] = 0
    OBVIOUS
  <2>1. payload[i] = zeros[i - end] /\ i - end \in 1 .. Len(zeros)
    BY <1>1, <1>5, <1>6, SMT DEF Buffer
  <2> QED BY <1>2, <2>1
<1>8. Slice(payload, n.next, end) = field
  <2>1. Slice((front \o e) \o field \o zeros, Len(front \o e),
              Len(front \o e) + Len(field)) = field
    BY <1>1, <1>5, SliceInside
  <2>2. end = Len(front \o e) + Len(field)
    BY <1>1, Concat
  <2> QED BY <1>1, <1>4, <2>1, <2>2
<1> HIDE DEF end
<1>9. ReadPrefixed(payload, Len(front)) = Decoded(field, end)
  BY <1>4, <1>5, <1>6, <1>7, <1>8, SMT DEF ReadPrefixed, n
<1> QED BY <1>9 DEF Decoded, payload

LEMMA Shape ==
    ASSUME NEW front \in Buffer, NEW field \in Buffer, IsU29(Len(field))
    PROVE  \E rest \in Buffer : Pad(front \o Prefixed(field)) = front \o rest
<1> DEFINE e == EncodeU29(Len(field))
           zeros == Zeros(Len(front \o Prefixed(field)))
<1>1. /\ e \in Buffer /\ zeros \in Buffer
      /\ Pad(front \o Prefixed(field)) = front \o (e \o field \o zeros)
  BY PaddedParts
<1>2. e \o field \in Buffer
  BY <1>1, Concat
<1>3. e \o field \o zeros \in Buffer
  BY <1>1, <1>2, Concat
<1> QED BY <1>1, <1>3

\* The two fixed fields in front of a payload.
LEMMA FrontRead ==
    ASSUME NEW x \in Buffer, NEW y \in Buffer, NEW field \in Buffer, IsU29(Len(field))
    PROVE  LET payload == Pad(x \o y \o Prefixed(field))
           IN Slice(payload, 0, Len(x)) = x /\ Slice(payload, Len(x), Len(x) + Len(y)) = y
<1> DEFINE payload == Pad(x \o y \o Prefixed(field))
<1>1. x \o y \in Buffer /\ Len(x) \in Nat
  BY Concat
<1>2. PICK rest \in Buffer : payload = x \o y \o rest
  BY <1>1, Shape
<1> HIDE DEF payload
<1>3. Slice(payload, Len(x), Len(x) + Len(y)) = y
  BY <1>2, SliceInside
<1>4. << >> \in Buffer /\ Len(<< >>) = 0 /\ << >> \o x = x
  BY ConcatEmptySeq, EmptySeq DEF Buffer
<1>5. y \o rest \in Buffer /\ payload = x \o (y \o rest)
  <2>1. (x \o y) \o rest = x \o (y \o rest)
    BY Associative
  <2> QED BY <1>2, <2>1, Concat
<1>6. Slice(<< >> \o x \o (y \o rest), Len(<< >>), Len(<< >>) + Len(x)) = x
  BY <1>4, <1>5, SliceInside
<1>7. Len(<< >>) + Len(x) = Len(x)
  BY <1>1, <1>4, SMT
<1>8. Slice(payload, 0, Len(x)) = x
  BY <1>4, <1>5, <1>6, <1>7
<1> QED BY <1>3, <1>8 DEF payload

LEMMA FrontAlone ==
    ASSUME NEW x \in Buffer, NEW field \in Buffer, IsU29(Len(field))
    PROVE  Slice(Pad(x \o Prefixed(field)), 0, Len(x)) = x
<1>1. << >> \in Buffer /\ x \o << >> = x
  BY ConcatEmptySeq, EmptySeq DEF Buffer
<1>2. Slice(Pad(x \o << >> \o Prefixed(field)), 0, Len(x)) = x
  BY <1>1, FrontRead, ZenonT(30)
<1> QED BY <1>1, <1>2

\* decodeNewCollectionPayload gives back what encodeNewCollectionPayload wrote,
\* for every name a length can be written of.
THEOREM NewCollectionRead ==
    ASSUME NEW id \in Buffer, Len(id) = CollectionIdBytes,
           NEW name \in Buffer, IsU29(Len(name))
    PROVE  LET read == DecodeNewCollection(EncodeNewCollection(id, name))
           IN read.ok /\ read.value = [id |-> id, name |-> name]
<1> DEFINE payload == Pad(id \o Prefixed(name))
           field == ReadPrefixed(payload, CollectionIdBytes)
<1>1. field.ok /\ field.value = name
  BY FieldRead
<1>2. Slice(payload, 0, CollectionIdBytes) = id
  BY FrontAlone
<1> HIDE DEF payload
<1> QED BY <1>1, <1>2 DEF DecodeNewCollection, EncodeNewCollection, Decoded, payload

\* The same of dix1.
THEOREM DropIndexRead ==
    ASSUME NEW id \in Buffer, Len(id) = CollectionIdBytes,
           NEW field \in Buffer, IsU29(Len(field))
    PROVE  LET read == DecodeDropIndex(EncodeDropIndex(id, field))
           IN read.ok /\ read.value = [id |-> id, field |-> field]
<1> DEFINE payload == Pad(id \o Prefixed(field))
           last == ReadPrefixed(payload, CollectionIdBytes)
<1>1. last.ok /\ last.value = field
  BY FieldRead
<1>2. Slice(payload, 0, CollectionIdBytes) = id
  BY FrontAlone
<1> HIDE DEF payload
<1> QED BY <1>1, <1>2 DEF DecodeDropIndex, EncodeDropIndex, Decoded, payload

\* The bytes a document's encoder gave come back as they are, and nothing of
\* the padding with them, whatever their last byte is.
THEOREM PutDocumentRead ==
    ASSUME NEW id \in Buffer, Len(id) = CollectionIdBytes,
           NEW doc \in Buffer, Len(doc) = DocumentIdBytes,
           NEW bytes \in Buffer, IsU29(Len(bytes))
    PROVE  LET read == DecodePutDocument(EncodePutDocument(id, doc, bytes))
           IN read.ok /\ read.value = [id |-> id, doc |-> doc, bytes |-> bytes]
<1> DEFINE payload == Pad(id \o doc \o Prefixed(bytes))
           field == ReadPrefixed(payload, CollectionIdBytes + DocumentIdBytes)
<1>1. id \o doc \in Buffer /\ Len(id \o doc) = CollectionIdBytes + DocumentIdBytes
  BY Concat
<1>2. field.ok /\ field.value = bytes
  <2> DEFINE front == id \o doc
  <2>1. /\ ReadPrefixed(Pad(front \o Prefixed(bytes)), Len(front)).ok
        /\ ReadPrefixed(Pad(front \o Prefixed(bytes)), Len(front)).value = bytes
    <3> HIDE DEF front
    <3>1. front \in Buffer
      BY <1>1 DEF front
    <3> QED BY <3>1, FieldRead
  <2> QED BY <1>1, <2>1
<1>3. /\ Slice(payload, 0, CollectionIdBytes) = id
      /\ Slice(payload, CollectionIdBytes, CollectionIdBytes + DocumentIdBytes) = doc
  BY FrontRead
<1>4. payload = EncodePutDocument(id, doc, bytes)
  <2>1. Prefixed(bytes) \in Buffer
    BY EncodedBytes, Concat DEF Prefixed
  <2> QED BY <2>1 DEF EncodePutDocument
<1> HIDE DEF payload
<1> QED BY <1>2, <1>3, <1>4 DEF DecodePutDocument, Decoded

\* An idx1 of the present layout is never taken for one of before 0.1.4.
THEOREM CreateIndexRead ==
    ASSUME NEW id \in Buffer, Len(id) = CollectionIdBytes,
           NEW field \in Buffer, IsU29(Len(field)),
           NEW type \in {"string", "number"}, NEW unique \in BOOLEAN
    PROVE  LET read == DecodeCreateIndex(EncodeCreateIndex(id, field, type, unique))
           IN read.ok /\ read.value = [id |-> id, field |-> field,
                                       type |-> type, unique |-> unique]
<1> DEFINE t == TypeByte[type]
           u == IF unique THEN 1 ELSE 0
           flags == <<t, u>>
           payload == Pad(id \o flags \o Prefixed(field))
           last == ReadPrefixed(payload, 6)
<1>1. t \in {1, 2} /\ u \in {0, 1} /\ (unique <=> u = 1)
  BY DEF TypeByte
<1>2. t \in Byte /\ u \in Byte
  BY <1>1, SMT DEF Byte
<1> HIDE DEF t, u
<1>3. flags \in Buffer /\ Len(flags) = 2 /\ flags[1] = t /\ flags[2] = u
  BY <1>2, SMT DEF Buffer
<1> HIDE DEF flags
<1>4. id \o flags \in Buffer /\ Len(id \o flags) = 6
  <2>1. id \o flags \in Buffer /\ Len(id \o flags) = Len(id) + Len(flags)
    BY <1>3, Concat
  <2> QED BY <1>3, <2>1, SMT DEF CollectionIdBytes
<1>5. last.ok /\ last.value = field
  <2> DEFINE front == id \o flags
  <2>1. /\ ReadPrefixed(Pad(front \o Prefixed(field)), Len(front)).ok
        /\ ReadPrefixed(Pad(front \o Prefixed(field)), Len(front)).value = field
    <3> HIDE DEF front
    <3>1. front \in Buffer
      BY <1>4 DEF front
    <3> QED BY <3>1, FieldRead
  <2> QED BY <1>4, <2>1
<1>6. DecodeU29(payload, 6).ok
  BY <1>5 DEF ReadPrefixed, Failed
<1>7. PICK rest \in Buffer : payload = id \o flags \o rest
  BY <1>4, Shape
<1>8. Slice(payload, 0, CollectionIdBytes) = id
  BY <1>3, FrontRead
<1> HIDE DEF payload
<1>9. ByteAt(payload, 4) = t /\ ByteAt(payload, 5) = u
  <2>1. /\ ByteAt(id \o flags \o rest, Len(id) + 0) = flags[0 + 1]
        /\ ByteAt(id \o flags \o rest, Len(id) + 1) = flags[1 + 1]
    <3>1. \A i \in Nat : i < Len(flags)
              => ByteAt(id \o flags \o rest, Len(id) + i) = flags[i + 1]
      BY <1>3, ByteInside, ZenonT(30)
    <3>2. 0 \in Nat /\ 1 \in Nat /\ 0 < Len(flags) /\ 1 < Len(flags)
      BY <1>3, SMT
    <3> QED BY <3>1, <3>2
  <2>2. Len(id) + 0 = 4 /\ Len(id) + 1 = 5
    BY SMT DEF CollectionIdBytes
  <2> QED BY <1>3, <1>7, <2>1, <2>2, SMT
<1>10. Len(payload) >= 6
  <2>1. Len(payload) = 6 + Len(rest) /\ Len(rest) \in Nat
    BY <1>4, <1>7, Concat
  <2> QED BY <2>1, SMT
<1>11. IndexTypes(payload) = {type}
  BY <1>9, SMT DEF IndexTypes, TypeByte, t
<1>12. HasUniqueByte(payload)
  BY <1>1, <1>9 DEF HasUniqueByte
<1>13. (CHOOSE k \in IndexTypes(payload) : TRUE) = type /\ IndexTypes(payload) # {}
  BY <1>11
<1>14. DecodeCreateIndex(payload)
          = Decoded([id |-> id, field |-> field, type |-> type, unique |-> (u = 1)], last.next)
  <2>1. ~(IndexTypes(payload) = {} \/ Len(payload) < 6)
    BY <1>10, <1>13, SMT
  <2>2. DecodeCreateIndex(payload) = IndexRead(payload, last, ByteAt(payload, 5) = 1)
    BY <1>5, <1>6, <1>12, <2>1 DEF DecodeCreateIndex
  <2>3. (ByteAt(payload, 5) = 1) = (u = 1)
    BY <1>9
  <2> QED BY <1>5, <1>8, <1>13, <2>2, <2>3 DEF IndexRead
<1>15. payload = EncodeCreateIndex(id, field, type, unique)
  BY DEF EncodeCreateIndex, payload, flags, t, u
<1> QED BY <1>1, <1>14, <1>15 DEF Decoded

====
