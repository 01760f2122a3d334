------------------------------- MODULE Payloads -------------------------------
(***************************************************************************)
(* The payloads of the operations as bytes: storage/collection-operation.  *)
(* ts, storage/document-operation.ts, storage/index-operation.ts.  Names   *)
(* and fields are the bytes of their UTF-8, documents the bytes their      *)
(* encoder gave.  Buffer.alloc fills a payload with zeros, so what is left *)
(* behind the last field is zero padding.                                  *)
(***************************************************************************)
EXTENDS U29

CollectionIdBytes == 4

DocumentIdBytes == 12

\* Bytes from offset a up to b, not included, as far as there are any.
Slice(bytes, a, b) ==
    SubSeq(bytes, a + 1, IF b < Len(bytes) THEN b ELSE Len(bytes))

Pad(bytes) ==
    bytes \o [i \in 1 .. AlignTo4Bytes(Len(bytes)) - Len(bytes) |-> 0]

Prefixed(bytes) == EncodeU29(Len(bytes)) \o bytes

\* Mutant: the field may not reach the end of the payload.
ReadPrefixedNeedsPadding(payload, o) ==
    LET n == DecodeU29(payload, o)
        end == n.next + n.value
    IN IF /\ n.ok
          /\ end < Len(payload)
          /\ \A i \in end + 1 .. Len(payload) : payload[i] = 0
       THEN Decoded(Slice(payload, n.next, end), end)
       ELSE Failed

\* The last field of a payload: a length, that many bytes, zeros to the end.
ReadPrefixed(payload, o) ==
    LET n == DecodeU29(payload, o)
        end == n.next + n.value
    IN IF /\ n.ok
          /\ end <= Len(payload)
          /\ \A i \in end + 1 .. Len(payload) : payload[i] = 0
       THEN Decoded(Slice(payload, n.next, end), end)
       ELSE Failed

-----------------------------------------------------------------------------
(* Collections.                                                            *)

EncodeNewCollection(id, name) == Pad(id \o Prefixed(name))

DecodeNewCollection(payload) ==
    LET name == ReadPrefixed(payload, CollectionIdBytes)
    IN IF name.ok
       THEN Decoded([id |-> Slice(payload, 0, CollectionIdBytes), name |-> name.value],
                    name.next)
       ELSE Failed

EncodeDropCollection(id) == id

DecodeDropCollection(payload) ==
    IF Len(payload) = CollectionIdBytes THEN Decoded([id |-> payload], Len(payload))
                                        ELSE Failed

-----------------------------------------------------------------------------
(* Documents.                                                              *)

EncodePutDocument(id, doc, bytes) == Pad(id \o doc \o Prefixed(bytes))

DecodePutDocument(payload) ==
    LET bytes == ReadPrefixed(payload, CollectionIdBytes + DocumentIdBytes)
    IN IF bytes.ok
       THEN Decoded([id |-> Slice(payload, 0, CollectionIdBytes),
                     doc |-> Slice(payload, CollectionIdBytes,
                                   CollectionIdBytes + DocumentIdBytes),
                     bytes |-> bytes.value],
                    bytes.next)
       ELSE Failed

EncodeDeleteDocument(id, doc) == id \o doc

DecodeDeleteDocument(payload) ==
    IF Len(payload) = CollectionIdBytes + DocumentIdBytes
    THEN Decoded([id |-> Slice(payload, 0, CollectionIdBytes),
                  doc |-> Slice(payload, CollectionIdBytes, Len(payload))], Len(payload))
    ELSE Failed

-----------------------------------------------------------------------------
(* Indexes.  Before version 0.1.4 a payload had no byte for unique; which  *)
(* layout a payload has is guessed: the present one if it can be read so.  *)

TypeByte == [type \in {"string", "number"} |-> IF type = "string" THEN 1 ELSE 2]

EncodeCreateIndex(id, field, type, unique) ==
    Pad(id \o <<TypeByte[type], IF unique THEN 1 ELSE 0>> \o Prefixed(field))

\* As written before 0.1.4.
EncodeCreateIndexLegacy(id, field, type) ==
    Pad(id \o <<TypeByte[type]>> \o Prefixed(field))

HasUniqueByte(payload) == ByteAt(payload, 5) \in {0, 1}

IndexTypes(payload) == {type \in DOMAIN TypeByte : ByteAt(payload, 4) = TypeByte[type]}

IndexRead(payload, field, unique) ==
    Decoded([id |-> Slice(payload, 0, CollectionIdBytes), field |-> field.value,
             type |-> CHOOSE type \in IndexTypes(payload) : TRUE, unique |-> unique],
            field.next)

DecodeCreateIndex(payload) ==
    IF IndexTypes(payload) = {} \/ Len(payload) < 6 THEN Failed
    ELSE IF HasUniqueByte(payload) /\ ~DecodeU29(payload, 6).ok THEN Failed
    ELSE IF HasUniqueByte(payload) /\ ReadPrefixed(payload, 6).ok
         THEN IndexRead(payload, ReadPrefixed(payload, 6), ByteAt(payload, 5) = 1)
    ELSE IF ReadPrefixed(payload, 5).ok
         THEN IndexRead(payload, ReadPrefixed(payload, 5), FALSE)
         ELSE Failed

EncodeDropIndex(id, field) == Pad(id \o Prefixed(field))

DecodeDropIndex(payload) ==
    LET field == ReadPrefixed(payload, CollectionIdBytes)
    IN IF field.ok
       THEN Decoded([id |-> Slice(payload, 0, CollectionIdBytes), field |-> field.value],
                    field.next)
       ELSE Failed

====
