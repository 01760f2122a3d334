--------------------------- MODULE DocumentValues ---------------------------
(***************************************************************************)
(* What a document field may hold and how the query language compares it:  *)
(* valuesEqual, compareValues and jsonTypeOf of search/evaluate-query.ts,  *)
(* and the order of search/sort.ts.                                        *)
(*                                                                         *)
(* A scalar is [type, ord]; ord is the number itself, the sign of an       *)
(* infinity, the place of a string in the order of its code units.  Arrays *)
(* and objects hold scalars only: one more level of nesting adds no case.  *)
(***************************************************************************)
EXTENDS Integers, Sequences

CONSTANT Collation  \* Collation[s]: the place of string s for localeCompare

Scalar(t, o) == [type |-> t, ord |-> o]

Missing     == Scalar("missing", 0)        \* undefined: no such field
Null        == Scalar("null", 0)
Boolean(b)  == Scalar("boolean", IF b THEN 1 ELSE 0)
Number(n)   == Scalar("number", n)
Infinity(s) == Scalar("infinity", s)       \* s is 1 or -1
NaN         == Scalar("nan", 0)
String(s)   == Scalar("string", s)
ArrayOf(items)    == [type |-> "array", items |-> items]
ObjectOf(members) == [type |-> "object", members |-> members]  \* <<key, value>> in key order

IsFinite(v)    == v.type = "number"
IsNumber(v)    == v.type \in {"number", "infinity", "nan"}
IsString(v)    == v.type = "string"
IsContainer(v) == v.type \in {"array", "object"}

-----------------------------------------------------------------------------
(* valuesEqual: === on scalars, equal JSON texts on arrays and objects.    *)

\* JSON has no infinities and no NaN; undefined is null inside an array.
JsonItem(v) == IF v.type \in {"missing", "infinity", "nan"} THEN Null ELSE v

\* Members whose value is undefined are not written.
JsonMembers(ms) ==
    LET kept == SelectSeq(ms, LAMBDA m : m[2] # Missing)
    IN [i \in DOMAIN kept |-> <<kept[i][1], JsonItem(kept[i][2])>>]

Json(v) ==
    IF v.type = "array" THEN [i \in DOMAIN v.items |-> JsonItem(v.items[i])]
    ELSE JsonMembers(v.members)

ValuesEqual(l, r) ==
    /\ l.type = r.type
    /\ IF IsContainer(l) THEN Json(l) = Json(r) ELSE l = r /\ l # NaN

-----------------------------------------------------------------------------
(* compareValues: the sign of left - right, or of localeCompare.  Values   *)
(* of different types, and two infinities of one sign, do not compare.     *)

Exceeds(l, r) ==
    \/ IsFinite(l) /\ IsFinite(r) /\ l.ord > r.ord
    \/ l = Infinity(1) /\ IsNumber(r) /\ r \notin {NaN, Infinity(1)}
    \/ r = Infinity(-1) /\ IsNumber(l) /\ l \notin {NaN, Infinity(-1)}
    \/ IsString(l) /\ IsString(r) /\ Collation[l.ord] > Collation[r.ord]

Levels(l, r) ==
    \/ IsFinite(l) /\ IsFinite(r) /\ l.ord = r.ord
    \/ IsString(l) /\ IsString(r) /\ Collation[l.ord] = Collation[r.ord]

\* jsonTypeOf; a missing field has no type.
JsonTypeOf(v) == IF IsNumber(v) THEN "number" ELSE v.type

-----------------------------------------------------------------------------
(* The sort order: missing < boolean < number < string.                    *)

\* Mutant: NaN is an ordinary number, and neither < nor > of any other.
IsUnsetNotNaN(v) == v.type \in {"missing", "null"}

IsUnset(v) == v.type \in {"missing", "null", "nan"}

TypeRank(v) ==
    IF v.type = "boolean" THEN 1 ELSE IF IsNumber(v) THEN 2 ELSE 3

\* typeRank throws on arrays and objects, once both values are present.
SortThrows(l, r) ==
    ~IsUnset(l) /\ ~IsUnset(r) /\ (IsContainer(l) \/ IsContainer(r))

\* l sorts strictly before r.
SortsBefore(l, r) ==
    /\ ~IsUnset(r)
    /\ \/ IsUnset(l)
       \/ TypeRank(l) < TypeRank(r)
       \/ TypeRank(l) = TypeRank(r)
          /\ IF TypeRank(l) = 2 THEN Exceeds(r, l) ELSE l.ord < r.ord

=============================================================================
