--------------------------- MODULE UpdateDocument ---------------------------
(***************************************************************************)
(* The update operators: updateDocument (search/update-document.ts) and    *)
(* the checks api/collection.ts makes around it.                           *)
(*                                                                         *)
(* An update is the sequence of its operators' entries, in key order: an   *)
(* operator, a field and an operand.  A document is a function from fields *)
(* to values, Missing for a field it does not have.                        *)
(***************************************************************************)
EXTENDS Query

CONSTANTS
    Now,       \* the clock reading of $currentDate, as milliseconds
    NowString  \* the same reading as an ISO-8601 string

Entry(op, f, operand) == [op |-> op, field |-> f, operand |-> operand]

Field(f) == [type |-> "field", name |-> f]          \* operand of $rename
DateSpec(kind) == [type |-> "spec", kind |-> kind]      \* operand of $currentDate

SupportedUpdateOperators ==
    {"$set", "$unset", "$min", "$max", "$inc", "$mul", "$rename", "$currentDate",
     "$push", "$addToSet", "$pop", "$pull", "$pullAll"}

NumberOperators == {"$min", "$max", "$inc", "$mul"}
ArrayOperators  == {"$push", "$addToSet", "$pop", "$pull", "$pullAll"}

\* assertUpdateDoesNotMutateId.
MutatesId(e) ==
    \/ e.op \in {"$unset", "$set", "$currentDate", "$rename"} /\ e.field = "_id"
    \/ e.op = "$rename" /\ e.operand = Field("_id")

-----------------------------------------------------------------------------
(* Numbers, with the infinities and NaN of IEEE 754.                       *)

Sign(v) == IF v.ord > 0 THEN 1 ELSE IF v.ord < 0 THEN -1 ELSE 0

Plus(x, y) ==
    CASE IsFinite(x) /\ IsFinite(y) -> Number(x.ord + y.ord)
      [] x = NaN \/ y = NaN -> NaN
      [] IsFinite(x) -> y
      [] IsFinite(y) -> x
      [] OTHER -> IF x = y THEN x ELSE NaN

Times(x, y) ==
    CASE IsFinite(x) /\ IsFinite(y) -> Number(x.ord * y.ord)
      [] x = NaN \/ y = NaN -> NaN
      [] OTHER -> IF Sign(x) * Sign(y) = 0 THEN NaN ELSE Infinity(Sign(x) * Sign(y))

-----------------------------------------------------------------------------
(* One entry: when it throws, and what it makes of the field.              *)

EntryRefused(doc, e) ==
    \/ e.op \in NumberOperators
       /\ (~IsNumber(e.operand) \/ e.operand = NaN \/ ~IsNumber(doc[e.field]))
    \/ e.op = "$rename" /\ (e.operand.type # "field" \/ e.operand = Field(e.field))
    \/ e.op = "$currentDate" /\ e.operand \notin {Boolean(TRUE), DateSpec("date"), DateSpec("timestamp")}
    \/ e.op \in ArrayOperators /\ doc[e.field].type # "array"
    \/ e.op = "$pop" /\ e.operand \notin {Number(1), Number(-1)}
    \/ e.op = "$pull" /\ ConditionThrows(e.operand)
    \/ e.op = "$pullAll" /\ e.operand.type # "array"

Listed(items, v) == \E i \in DOMAIN items : ValuesEqual(items[i], v)

Popped(items, direction) ==
    IF items = << >> THEN items
    ELSE IF direction = Number(1) THEN SubSeq(items, 1, Len(items) - 1) ELSE Tail(items)

\* $pull: an operator object removes what matches it, a value what equals it.
Pulled(x, condition) ==
    IF condition.type = "operators"
    THEN SatisfiesAll(CompileFieldOperators(condition), x)
    ELSE ValuesEqual(x, condition)

NewItems(items, op, v) ==
    CASE op = "$push"     -> Append(items, v)
      [] op = "$addToSet" -> IF Listed(items, v) THEN items ELSE Append(items, v)
      [] op = "$pop"      -> Popped(items, v)
      [] op = "$pull"     -> SelectSeq(items, LAMBDA x : ~Pulled(x, v))
      [] op = "$pullAll"  -> SelectSeq(items, LAMBDA x : ~Listed(v.items, x))

NewValue(current, op, v) ==
    CASE op = "$set"   -> v
      [] op = "$unset" -> Missing
      [] op = "$min"   -> IF Exceeds(current, v) THEN v ELSE current
      [] op = "$max"   -> IF Exceeds(v, current) THEN v ELSE current
      [] op = "$inc"   -> Plus(current, v)
      [] op = "$mul"   -> Times(current, v)
      [] op = "$currentDate" ->
            IF v = DateSpec("timestamp") THEN Number(Now) ELSE String(NowString)
      [] op \in ArrayOperators -> ArrayOf(NewItems(current.items, op, v))

\* $rename of a field that is not there does nothing.
ApplyEntry(doc, e) ==
    IF e.op # "$rename"
    THEN [doc EXCEPT ![e.field] = NewValue(doc[e.field], e.op, e.operand)]
    ELSE IF doc[e.field] = Missing THEN doc
    ELSE [doc EXCEPT ![e.operand.name] = doc[e.field], ![e.field] = Missing]

-----------------------------------------------------------------------------
(* A whole update, on a copy of the document: the entries in turn, up to   *)
(* the first that throws.                                                  *)

Throws == [type |-> "throws"]

ApplyUpdate(doc, update) ==
    LET result[i \in 0 .. Len(update)] ==
            IF i = 0 THEN doc
            ELSE IF result[i - 1] = Throws THEN Throws
            ELSE IF EntryRefused(result[i - 1], update[i]) THEN Throws
            ELSE ApplyEntry(result[i - 1], update[i])
    IN result[Len(update)]

\* Mutant: the _id is not put back, nor is it checked as the target of a rename.
UpdatedWithAnyId(doc, update) ==
    IF \E i \in DOMAIN update :
           \/ update[i].op \notin SupportedUpdateOperators
           \/ MutatesId(update[i]) /\ update[i].field = "_id"
    THEN Throws ELSE ApplyUpdate(doc, update)

\* buildUpdatedDocument; _id is put back whatever the operators made of it.
Updated(doc, update) ==
    IF \E i \in DOMAIN update :
           update[i].op \notin SupportedUpdateOperators \/ MutatesId(update[i])
    THEN Throws
    ELSE LET updated == ApplyUpdate(doc, update)
         IN IF updated = Throws THEN Throws ELSE [updated EXCEPT !["_id"] = doc["_id"]]

=============================================================================
