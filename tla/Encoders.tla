------------------------------- MODULE Encoders -------------------------------
(***************************************************************************)
(* The document encoders: storage/encoding/json-encoder.ts, bson-encoder.  *)
(* ts and amf3-encoder.ts, on the bytes of write-buffer.ts.                *)
(*                                                                         *)
(* A value is a record of one field: null, undefined, bool, int (a number  *)
(* that is an integer of 32 bits), wide (a larger safe integer), float     *)
(* (any other number), string (its UTF-8 bytes), array (of values),        *)
(* members (an object: its keys and values in order) or date.  A double    *)
(* and a 64-bit integer are eight bytes that say which number they are.    *)
(***************************************************************************)
EXTENDS Payloads, SequencesExt

Is(v, kind) == kind \in DOMAIN v

Null == [null |-> TRUE]
Undefined == [undefined |-> TRUE]
Bool(b) == [bool |-> b]
Integer(n) == [int |-> n]
Str(s) == [string |-> s]
Arr(items) == [array |-> items]
Obj(ms) == [members |-> ms]

\* Numbers that are not safe integers, and the two zeros' negative one.
NaN == [float |-> 1]
Infinity == [float |-> 2]
NegativeZero == [float |-> 3]

IsNumber(v) == Is(v, "int") \/ Is(v, "wide") \/ Is(v, "float")

\* Number.isInteger(-0), and -0 is written as the integer 0 it equals.
AsInteger(v) == IF v = NegativeZero THEN Integer(0) ELSE v

\* obj[key] = value
Assign(ms, k, v) ==
    IF \E i \in DOMAIN ms : ms[i][1] = k
    THEN [i \in DOMAIN ms |-> IF ms[i][1] = k THEN <<k, v>> ELSE ms[i]]
    ELSE Append(ms, <<k, v>>)

\* Object.entries: those of a Date are none.
Members(v) == IF Is(v, "date") THEN << >> ELSE v.members

Flat(f) == FlattenSeq(f)

\* Decode this, then that with its value and the offset behind it; a decoder
\* that throws ends the whole.
Then(r, Rest(_, _)) == IF r.ok THEN Rest(r.value, r.next) ELSE Failed

Mapped(r, F(_)) == Then(r, LAMBDA v, next : Decoded(F(v), next))

-----------------------------------------------------------------------------
(* WriteBuffer.                                                            *)

Int32(n) == [i \in 1 .. 4 |-> (n \div 256 ^ (i - 1)) % 256]

\* readInt32LE throws past the end.
ReadInt32(buf, o) ==
    IF o + 4 > Len(buf) THEN Failed
    ELSE Decoded(buf[o + 1] + 256 * buf[o + 2] + 65536 * buf[o + 3]
                   + 16777216 * (IF buf[o + 4] < 128 THEN buf[o + 4] ELSE buf[o + 4] - 256),
                 o + 4)

\* A double or a 64-bit integer.
EightBytes(v) ==
    CASE Is(v, "int")   -> <<0, 0, 0, 1>> \o Int32(v.int)
      [] Is(v, "wide")  -> <<0, 0, 0, 2>> \o Int32(v.wide)
      [] Is(v, "float") -> <<0, 0, 0, 3>> \o Int32(v.float)

ReadEightBytes(buf, o) ==
    IF o + 8 > Len(buf) THEN Failed
    ELSE LET n == ReadInt32(buf, o + 4).value
         IN Decoded(CASE buf[o + 4] = 1 -> Integer(n)
                      [] buf[o + 4] = 2 -> [wide |-> n]
                      [] OTHER -> [float |-> n], o + 8)

-----------------------------------------------------------------------------
(* JSON.  JSON.stringify and JSON.parse are the platform's: the text is    *)
(* one symbol that stands for the value it says.                           *)

RECURSIVE Said(_)
Said(v) ==
    CASE v = NaN \/ v = Infinity -> Null
      [] v = NegativeZero -> Integer(0)
      [] Is(v, "undefined") -> Null
      [] Is(v, "date") -> Str(v.date)
      [] Is(v, "array") -> Arr([i \in DOMAIN v.array |-> Said(v.array[i])])
      [] Is(v, "members") ->
            Obj(LET kept == SelectSeq(v.members, LAMBDA m : m[2] # Undefined)
                IN [i \in DOMAIN kept |-> <<kept[i][1], Said(kept[i][2])>>])
      [] OTHER -> v

JsonEncode(document) == <<Said(document)>>

JsonDecode(bytes) == Decoded(bytes[1], 1)

-----------------------------------------------------------------------------
(* AMF3.                                                                   *)

AmfString(s) == WriteU29(2 * Len(s) + 1) \o s

\* Mutant: the limit of an unsigned integer is taken for that of a signed one.
IsAmfIntUnsigned(v) == Is(v, "int") /\ v.int \in -268435456 .. 536870911

IsAmfInt(v) == Is(v, "int") /\ v.int \in -268435456 .. 268435455

\* Two's complement in 29 bits.
AmfInt(n) == WriteU29(IF n < 0 THEN n + 536870912 ELSE n)

RECURSIVE AmfValue(_)
AmfObject(ms) ==
    LET kept == SelectSeq(ms, LAMBDA m : m[2] # Undefined)
    IN <<10, 11, 1>>
         \o Flat([i \in DOMAIN kept |-> AmfString(kept[i][1]) \o AmfValue(kept[i][2])])
         \o <<1>>

AmfValue(w) ==
    LET v == AsInteger(w) IN
    CASE Is(v, "null") \/ Is(v, "undefined") -> <<1>>
      [] Is(v, "bool")   -> IF v.bool THEN <<3>> ELSE <<2>>
      [] IsAmfInt(v)     -> <<4>> \o AmfInt(v.int)
      [] IsNumber(v) /\ ~IsAmfInt(v) -> <<5>> \o EightBytes(v)
      [] Is(v, "string") -> <<6>> \o AmfString(v.string)
      [] Is(v, "array")  ->
            <<9>> \o WriteU29(2 * Len(v.array) + 1) \o <<1>>
              \o Flat([i \in DOMAIN v.array |-> AmfValue(v.array[i])])
      [] Is(v, "members") \/ Is(v, "date") -> AmfObject(Members(v))

\* A count or a length, with the low bit that tells it from a reference.
ReadInline(buf, o) ==
    Then(DecodeU29(buf, o),
         LAMBDA n, next : IF n % 2 = 1 THEN Decoded(n \div 2, next) ELSE Failed)

ReadAmfString(buf, o) ==
    Then(ReadInline(buf, o), LAMBDA n, p : Decoded(Slice(buf, p, p + n), p + n))

ReadAmfInt(buf, o) ==
    Mapped(DecodeU29(buf, o),
           LAMBDA n : Integer(IF n >= 268435456 THEN n - 536870912 ELSE n))

RECURSIVE ReadNames(_, _, _, _)
ReadNames(buf, o, names, count) ==
    IF count = 0 THEN Decoded(names, o)
    ELSE Then(ReadAmfString(buf, o),
              LAMBDA name, p : ReadNames(buf, p, Append(names, name), count - 1))

RECURSIVE ReadAmf(_, _), ReadItems(_, _, _, _), ReadSealed(_, _, _, _), ReadDynamic(_, _, _)

\* Elements of an array.
ReadItems(buf, o, items, count) ==
    IF count = 0 THEN Decoded(items, o)
    ELSE Then(ReadAmf(buf, o),
              LAMBDA v, p : ReadItems(buf, p, Append(items, v), count - 1))

ReadSealed(buf, o, names, ms) ==
    IF names = << >> THEN Decoded(ms, o)
    ELSE Then(ReadAmf(buf, o),
              LAMBDA v, p : ReadSealed(buf, p, Tail(names), Assign(ms, Head(names), v)))

\* Keys and values up to an empty key.
ReadDynamic(buf, o, ms) ==
    Then(ReadAmfString(buf, o), LAMBDA key, p :
        IF key = << >> THEN Decoded(ms, p)
        ELSE Then(ReadAmf(buf, p), LAMBDA v, q : ReadDynamic(buf, q, Assign(ms, key, v))))

ReadArray(buf, o) ==
    Then(ReadInline(buf, o), LAMBDA count, p :
        Then(ReadDynamic(buf, p, << >>), LAMBDA unused, q :
            Mapped(ReadItems(buf, q, << >>, count), Arr)))

\* Traits: inline, inline, not externalizable, dynamic or not, the number of
\* sealed members; then the name of the class.
ReadObject(buf, o) ==
    Then(DecodeU29(buf, o), LAMBDA traits, p :
        IF traits % 8 # 3 THEN Failed
        ELSE Then(ReadAmfString(buf, p), LAMBDA class, q :
             Then(ReadNames(buf, q, << >>, traits \div 16), LAMBDA names, r :
             Then(ReadSealed(buf, r, names, << >>), LAMBDA sealed, t :
                 Mapped(IF (traits \div 8) % 2 = 1 THEN ReadDynamic(buf, t, sealed)
                        ELSE Decoded(sealed, t), Obj)))))

ReadAmf(buf, o) ==
    LET marker == ByteAt(buf, o) IN
    CASE marker \in {0, 1} -> Decoded(Null, o + 1)
      [] marker \in {2, 3} -> Decoded(Bool(marker = 3), o + 1)
      [] marker = 4  -> ReadAmfInt(buf, o + 1)
      [] marker = 5  -> ReadEightBytes(buf, o + 1)
      [] marker = 6  -> Mapped(ReadAmfString(buf, o + 1), Str)
      [] marker = 9  -> ReadArray(buf, o + 1)
      [] marker = 10 -> ReadObject(buf, o + 1)
      [] OTHER -> Failed

AmfEncode(document) == AmfObject(document.members)

AmfDecode(bytes) ==
    Then(ReadAmf(bytes, 0),
         LAMBDA v, p : IF Is(v, "members") THEN Decoded(v, p) ELSE Failed)

-----------------------------------------------------------------------------
(* BSON.                                                                   *)

BsonType(v) ==
    CASE Is(v, "null") \/ Is(v, "undefined") -> 10
      [] Is(v, "bool")   -> 8
      [] Is(v, "int")    -> 16
      [] Is(v, "wide")   -> 18
      [] Is(v, "float")  -> 1
      [] Is(v, "string") -> 2
      [] Is(v, "array")  -> 4
      [] Is(v, "members") \/ Is(v, "date") -> 3

\* String(i), the key of an element of an array.
RECURSIVE Digits(_)
Digits(i) == (IF i < 10 THEN << >> ELSE Digits(i \div 10)) \o <<48 + (i % 10)>>

RECURSIVE BsonBytes(_)
\* writeDocumentBody: the size counts itself and the terminator.
BsonBody(ms) ==
    LET Element(k, w) ==
            LET v == AsInteger(w) IN <<BsonType(v)>> \o k \o <<0>> \o BsonBytes(v)
        body == Flat([i \in DOMAIN ms |-> Element(ms[i][1], ms[i][2])])
    IN Int32(Len(body) + 5) \o body \o <<0>>

BsonBytes(v) ==
    CASE Is(v, "null") \/ Is(v, "undefined") -> << >>
      [] Is(v, "bool")   -> IF v.bool THEN <<1>> ELSE <<0>>
      [] Is(v, "int")    -> Int32(v.int)
      [] Is(v, "wide") \/ Is(v, "float") -> EightBytes(v)
      [] Is(v, "string") -> Int32(Len(v.string) + 1) \o v.string \o <<0>>
      [] Is(v, "array")  ->
            BsonBody([i \in DOMAIN v.array |-> <<Digits(i - 1), v.array[i]>>])
      [] Is(v, "members") \/ Is(v, "date") -> BsonBody(Members(v))

\* Up to a zero or the end of the buffer.
ReadCString(buf, o) ==
    IF o >= Len(buf) THEN Decoded(<< >>, o + 1)
    ELSE LET end == Min({i \in o .. Len(buf) : ByteAt(buf, i) \in {0, EndOfBuffer}})
         IN Decoded(Slice(buf, o, end), end + 1)

\* Mutant: the terminator is taken off twice.
ReadBsonStringShort(buf, o) ==
    Then(ReadInt32(buf, o), LAMBDA n, p : Decoded(Str(Slice(buf, p, p + n - 2)), p + n))

ReadBsonString(buf, o) ==
    Then(ReadInt32(buf, o), LAMBDA n, p : Decoded(Str(Slice(buf, p, p + n - 1)), p + n))

RECURSIVE ReadBson(_, _, _), ReadElements(_, _, _, _)

ReadElements(buf, o, end, ms) ==
    IF o >= end - 1 \/ ByteAt(buf, o) = 0 THEN Decoded(ms, o)
    ELSE Then(ReadCString(buf, o + 1), LAMBDA key, p :
             Then(ReadBson(buf, ByteAt(buf, o), p), LAMBDA v, q :
                 ReadElements(buf, q, end, Assign(ms, key, v))))

\* decodeDocument: whatever its elements, a document ends where its size says.
ReadDocument(buf, o) ==
    Then(ReadInt32(buf, o), LAMBDA size, p :
        Then(ReadElements(buf, p, o + size, << >>), LAMBDA ms, q : Decoded(ms, o + size)))

\* The keys of an array are its places, in order.
Values(ms) == [i \in DOMAIN ms |-> ms[i][2]]

ReadBson(buf, type, o) ==
    CASE type = 10 -> Decoded(Null, o)
      [] type = 8  -> Decoded(Bool(ByteAt(buf, o) # 0), o + 1)
      [] type \in {1, 18} -> ReadEightBytes(buf, o)
      [] type = 16 -> Mapped(ReadInt32(buf, o), Integer)
      [] type = 2  -> ReadBsonString(buf, o)
      [] type = 3  -> Mapped(ReadDocument(buf, o), Obj)
      [] type = 4  -> Mapped(ReadDocument(buf, o), LAMBDA ms : Arr(Values(ms)))
      [] OTHER -> Failed

BsonEncode(document) == BsonBody(document.members)

BsonDecode(bytes) ==
    Mapped(ReadDocument(bytes, 0), Obj)

-----------------------------------------------------------------------------
(* getEncoder.                                                             *)

Encode(format, document) ==
    CASE format = "json" -> JsonEncode(document)
      [] format = "bson" -> BsonEncode(document)
      [] format = "amf3" -> AmfEncode(document)

Decode(format, bytes) ==
    CASE format = "json" -> JsonDecode(bytes)
      [] format = "bson" -> BsonDecode(bytes)
      [] format = "amf3" -> AmfDecode(bytes)

====
