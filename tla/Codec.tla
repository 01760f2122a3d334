-------------------------------- MODULE Codec ---------------------------------
(***************************************************************************)
(* One operation on its way into the file and out of it: what append... of *)
(* api/collection.ts and api/database.ts encode, what applyOperation and   *)
(* the cursors decode, and what an update writes again of a document that  *)
(* was read.  The format is that of the file's header.                     *)
(***************************************************************************)
EXTENDS Encoders

CONSTANTS
    Formats,      \* serializationFormat
    Documents,    \* documents a caller may pass
    Operations,   \* operations other than put1
    Owner,        \* a collection id
    DocumentId,   \* a document id
    MaxTrips      \* bound: times a document is written

Kinds == {"ncl1", "dco1", "del1", "idx1", "dix1", "idx1 before 0.1.4"}

ASSUME FormatsAssumption == Formats \subseteq {"json", "bson", "amf3"}

ASSUME OperationsAssumption == \A op \in Operations : op.kind \in Kinds

ASSUME TripsAssumption == MaxTrips \in Nat

VARIABLES
    format,   \* the format of the file
    op,       \* the operation that was written last
    payload,  \* its payload in the file
    result,   \* what decoding gave
    trips     \* times op, or what it was read from, was written

vars == <<format, op, payload, result, trips>>

NotRead == [ok |-> FALSE, next |-> 0]

Put(document) ==
    [kind |-> "put1", id |-> Owner, doc |-> DocumentId, document |-> document]

-----------------------------------------------------------------------------

Payload(o) ==
    CASE o.kind = "put1" -> EncodePutDocument(o.id, o.doc, Encode(format, o.document))
      [] o.kind = "ncl1" -> EncodeNewCollection(o.id, o.name)
      [] o.kind = "dco1" -> EncodeDropCollection(o.id)
      [] o.kind = "del1" -> EncodeDeleteDocument(o.id, o.doc)
      [] o.kind = "idx1" -> EncodeCreateIndex(o.id, o.field, o.type, o.unique)
      [] o.kind = "dix1" -> EncodeDropIndex(o.id, o.field)
      [] o.kind = "idx1 before 0.1.4" -> EncodeCreateIndexLegacy(o.id, o.field, o.type)

ReadPut ==
    LET put == DecodePutDocument(payload)
        document == Decode(format, put.value.bytes)
    IN IF put.ok /\ document.ok
       THEN Decoded([kind |-> "put1", id |-> put.value.id, doc |-> put.value.doc,
                     document |-> document.value], put.next)
       ELSE Failed

\* applyOperation, by the identifier of the record.
Applied ==
    CASE op.kind = "put1" -> ReadPut
      [] op.kind = "ncl1" -> DecodeNewCollection(payload)
      [] op.kind = "dco1" -> DecodeDropCollection(payload)
      [] op.kind = "del1" -> DecodeDeleteDocument(payload)
      [] op.kind \in {"idx1", "idx1 before 0.1.4"} -> DecodeCreateIndex(payload)
      [] op.kind = "dix1" -> DecodeDropIndex(payload)

Write(o) ==
    /\ op' = o /\ payload' = Payload(o)
    /\ result' = NotRead
    /\ UNCHANGED format

WriteDocument(document) == Write(Put(document)) /\ trips' = 1

WriteOperation(o) == Write(o) /\ trips' = 1

Read ==
    /\ trips > 0 /\ result = NotRead
    /\ result' = Applied
    /\ UNCHANGED <<format, op, payload, trips>>

\* updateOne and replaceOne: a document that was read goes into a new put1.
Rewrite ==
    /\ result.ok /\ op.kind = "put1" /\ trips < MaxTrips
    /\ Write(result.value)
    /\ trips' = trips + 1

Init ==
    /\ format \in Formats
    /\ op = Put(Obj(<< >>)) /\ payload = << >>
    /\ result = NotRead /\ trips = 0

Next ==
    \/ \E document \in Documents : WriteDocument(document)
    \/ \E o \in Operations : WriteOperation(o)
    \/ Read \/ Rewrite

Spec == Init /\ [][Next]_vars

-----------------------------------------------------------------------------
(* What a value may lose.                                                  *)

RECURSIVE Kept(_)
\* What the file's format keeps of a value: JSON has no NaN and no Infinity,
\* BSON writes undefined as null, only JSON knows a Date, none knows -0.
Kept(v) ==
    CASE Is(v, "undefined") -> Null
      [] v = NegativeZero -> Integer(0)
      [] v \in {NaN, Infinity} -> IF format = "json" THEN Null ELSE v
      [] Is(v, "date") -> IF format = "json" THEN Str(v.date) ELSE Obj(<< >>)
      [] Is(v, "array") -> Arr([i \in DOMAIN v.array |-> Kept(v.array[i])])
      [] Is(v, "members") ->
            Obj(LET kept == SelectSeq(v.members,
                                LAMBDA m : m[2] # Undefined \/ format = "bson")
                IN [i \in DOMAIN kept |-> <<kept[i][1], Kept(kept[i][2])>>])
      [] OTHER -> v

RECURSIVE Within(_)
\* A value and all that it contains.
Within(v) ==
    {v} \cup CASE Is(v, "array") -> UNION {Within(v.array[i]) : i \in DOMAIN v.array}
               [] Is(v, "members") -> UNION {Within(v.members[i][2]) : i \in DOMAIN v.members}
               [] OTHER -> {}

Keys(v) ==
    UNION {{w.members[i][1] : i \in DOMAIN w.members} :
              w \in {x \in Within(v) : Is(x, "members")}}

\* The keys the format has a way to write: AMF3 ends an object by an empty
\* key, BSON ends a key by a zero.
Writable(v) ==
    \A k \in Keys(v) :
        /\ format = "amf3" => k # << >>
        /\ format = "bson" => 0 \notin {k[i] : i \in DOMAIN k}

\* Values that every one of the formats has.
Plain(v) ==
    \A w \in Within(v) :
        ~Is(w, "undefined") /\ ~Is(w, "date") /\ w \notin {NaN, Infinity, NegativeZero}

-----------------------------------------------------------------------------

IsRead == trips > 0 /\ result # NotRead

\* A document comes back as it was passed, but for what its format cannot say,
\* at every length and depth, and numbers at the borders between encodings
\* stay the numbers they are (encode and decode of the three encoders, inside
\* encodePutDocumentPayload and decodePutDocumentPayload).
DocumentsSurvive ==
    IsRead /\ op.kind = "put1" /\ Writable(op.document) =>
        result.ok /\ result.value = [op EXCEPT !.document = Kept(@)]

\* A document that has been through the file once comes back unchanged from
\* then on: reading and updating it again and again wears nothing away.
RewriteSettles == IsRead /\ trips > 1 => result.ok /\ result.value = op

\* Collections, deletions and indexes come back as they were written, at every
\* length of a name and of the padding; an index in the layout of before 0.1.4
\* is recognised as one and is not unique (decodeCreateIndexPayload).
OperationsSurvive ==
    IsRead /\ op.kind # "put1" =>
        /\ result.ok
        /\ \A f \in DOMAIN op \ {"kind"} : result.value[f] = op[f]
        /\ op.kind = "idx1 before 0.1.4" => ~result.value.unique

\* document-encoder.ts: "decoding those bytes must reproduce a value that is
\* deep-equal to the original", for documents every one of the formats can say.
DeepEqual ==
    IsRead /\ op.kind = "put1" /\ Plain(op.document) =>
        result.ok /\ result.value.document = op.document

====
