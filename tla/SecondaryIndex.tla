--------------------------- MODULE SecondaryIndex ---------------------------
(***************************************************************************)
(* One index on a field, as a value: NumberIndex and StringIndex of        *)
(* indexes/number-index.ts and string-index.ts, one operator per method,   *)
(* and the scan of the primary index (primary-index.ts).                   *)
(*                                                                         *)
(* A bucket is a set: the order of its candidates is left out.  So is the  *)
(* order of sortedValues, an array without repetitions that valuesInRange  *)
(* reads from end to end.  Offsets are in PocketDatabase.                  *)
(***************************************************************************)
EXTENDS DocumentValues

CONSTANT NoScan   \* null: the index cannot answer the predicate

NewIndex(def) ==
    [def |-> def, values |-> << >>, valuesById |-> << >>, sortedValues |-> {}]

IsIndexed(def, v) ==
    IF def.type = "string" THEN IsString(v) ELSE IsFinite(v)

Bucket(idx, k) == IF k \in DOMAIN idx.values THEN idx.values[k] ELSE {}

With(f, x, y) == [z \in DOMAIN f \cup {x} |-> IF z = x THEN y ELSE f[z]]

Without(f, x) == [z \in DOMAIN f \ {x} |-> f[z]]

Add(idx, id, v) ==
    IF ~IsIndexed(idx.def, v) THEN idx
    ELSE [def |-> idx.def,
          values |-> With(idx.values, v.ord, Bucket(idx, v.ord) \cup {id}),
          valuesById |-> With(idx.valuesById, id, v.ord),
          sortedValues |-> idx.sortedValues \cup {v.ord}]

\* remove: the reverse map says which bucket the document is in.
Remove(idx, id) ==
    IF id \notin DOMAIN idx.valuesById THEN idx
    ELSE LET k    == idx.valuesById[id]
             rest == Bucket(idx, k) \ {id}
         IN [def |-> idx.def,
             values |-> IF rest = {} THEN Without(idx.values, k)
                        ELSE With(idx.values, k, rest),
             valuesById |-> Without(idx.valuesById, id),
             sortedValues |-> IF rest = {} THEN idx.sortedValues \ {k}
                              ELSE idx.sortedValues]

\* Mutant: a document the index does not hold yet is not added.
UpdateHeldOnly(idx, id, v) ==
    IF id \in DOMAIN idx.valuesById THEN Add(Remove(idx, id), id, v) ELSE idx

Update(idx, id, v) == Add(Remove(idx, id), id, v)

\* findOwner: a document other than id that holds the value.
Owned(idx, id, v) == IsIndexed(idx.def, v) /\ Bucket(idx, v.ord) \ {id} # {}

HasDuplicate(idx) ==
    \E k \in DOMAIN idx.values : \E d, e \in idx.values[k] : d # e

-----------------------------------------------------------------------------
(* scan: the operators are read in order, until one cannot be used.        *)

RangeTypes == {"gt", "gte", "lt", "lte"}

Usable(def) == {"eq", "in"} \cup (IF def.type = "number" THEN RangeTypes ELSE {})

\* An operand of another type ends the scan with no candidates at all ...
Misfit(def, op) ==
    op.type \in Usable(def) \ {"in"} /\ ~IsIndexed(def, op.value)

\* ... and an operator of another kind makes it give up.
Stops(def, operators) ==
    {i \in DOMAIN operators :
        operators[i].type \notin Usable(def) \/ Misfit(def, operators[i])}

EqualityKeys(def, op) ==
    IF op.type = "eq" THEN {op.value.ord}
    ELSE {op.values[i].ord : i \in {j \in DOMAIN op.values : IsIndexed(def, op.values[j])}}

Equalities(operators) == {i \in DOMAIN operators : operators[i].type \in {"eq", "in"}}

\* minExclusive, minInclusive, maxExclusive, maxInclusive: the strongest bounds.
InRange(operators, n) ==
    \A i \in DOMAIN operators :
        CASE operators[i].type = "gt"  -> n > operators[i].value.ord
          [] operators[i].type = "gte" -> n >= operators[i].value.ord
          [] operators[i].type = "lt"  -> n < operators[i].value.ord
          [] operators[i].type = "lte" -> n <= operators[i].value.ord
          [] OTHER                     -> TRUE

Last(S) == CHOOSE i \in S : \A j \in S : j <= i

\* A string index takes all equalities together, a number index the last one.
ScanKeys(idx, operators) ==
    LET eqs == Equalities(operators) IN
    IF idx.def.type = "string"
    THEN UNION {EqualityKeys(idx.def, operators[i]) : i \in eqs}
    ELSE {n \in (IF eqs = {} THEN idx.sortedValues
                 ELSE EqualityKeys(idx.def, operators[Last(eqs)])) :
             InRange(operators, n)}

Scan(idx, operators) ==
    LET stops == Stops(idx.def, operators) IN
    IF operators = << >> THEN NoScan
    ELSE IF \E i \in stops : (\A j \in stops : i <= j) /\ Misfit(idx.def, operators[i]) THEN {}
    ELSE IF stops # {} THEN NoScan
    ELSE UNION {Bucket(idx, k) : k \in ScanKeys(idx, operators)}

\* The primary index scans like a string index whose buckets hold one document;
\* an _id that the operators name twice counts once here, and twice in the code.
PrimaryScan(ids, operators) ==
    Scan([def |-> [type |-> "string", unique |-> TRUE],
          values |-> [d \in ids |-> {d}],
          valuesById |-> [d \in ids |-> d], sortedValues |-> ids], operators)

=============================================================================
