------------------------- MODULE IndexedCollection --------------------------
(***************************************************************************)
(* The documents of one collection and its secondary indexes, value by     *)
(* value: which documents a query finds when IndexManager.plan narrows it  *)
(* by an index, and what the write path and a rebuild make of the indexes. *)
(*                                                                         *)
(* Documents are those decoding gives back.  A call that writes, and a     *)
(* rebuild, leave a list of puts and removals in todo that reaches memory  *)
(* one document a step, as the loops of api/collection.ts do; the next     *)
(* call comes when the list is empty.  Log and offsets are in              *)
(* PocketDatabase, where the same calls are modelled over an abstract      *)
(* notion of index entry.                                                  *)
(***************************************************************************)
EXTENDS UpdateDocument, SecondaryIndex, FiniteSets

CONSTANTS
    Ids,          \* document ids, as strings in code unit order
    Fields,       \* top-level fields, "_id" among them
    Docs,         \* documents callers insert
    Queries,      \* queries callers make
    Updates,      \* updates callers make
    IndexDefs,    \* IndexDefs[f]: the definitions callers ask for on field f
    MaxItems,     \* bound: the longest array an update may produce
    MaxNumber,    \* bound: the largest number an update may produce
    ReadErrors,   \* whether reading the file may fail during a rebuild
    None, Keep    \* no document; nothing to do for a document

Scalars == [type : {"number", "string"}, ord : Int]
           \cup [type : {"boolean"}, ord : {0, 1}] \cup [type : {"infinity"}, ord : {-1, 1}]
           \cup [type : {"missing", "null", "nan"}, ord : {0}]

Values == Scalars \cup [type : {"array"}, items : Seq(Scalars)]
                  \cup [type : {"object"}, members : Seq(STRING \X Scalars)]

Documents == [Fields -> Values]

\* The operands an operator compares with are values.
Comparable(op) ==
    /\ op.type \in {"eq", "gt", "gte", "lt", "lte"} => op.value \in Values
    /\ op.type = "in" => op.values \in Seq(Values)

ASSUME CollectionAssumption ==
    /\ "_id" \in Fields
    /\ Ids \subseteq Nat
    /\ Docs \subseteq Documents
    /\ IndexDefs \in [Fields -> SUBSET [type : {"string", "number"}, unique : BOOLEAN]]

\* A string has a longest length: there are but so many ids.
ASSUME FiniteAssumption == IsFiniteSet(Ids)

\* A query that throws does so before anything is read or written.
Compiled == {CompileQuery(q) : q \in {x \in Queries : ~QueryThrows(x)}}

ASSUME QueriesAssumption ==
    \A c \in Compiled : \A p \in c.fields :
        /\ p.field \in Fields
        /\ DOMAIN p.operators = 1 .. Len(p.operators)
        /\ Len(p.operators) \in Nat
        /\ \A i \in DOMAIN p.operators : Comparable(p.operators[i])

Rebuilds == [field : Fields, kind : {"new", "again", "refresh"}]

ASSUME NoneAssumption ==
    /\ None \notin Documents /\ None \notin Rebuilds
    /\ Keep \notin Documents /\ Keep # None
    /\ \A S \in SUBSET Ids : NoScan # S

VARIABLES
    docs,      \* the current documents, None where there is none
    indexes,   \* indexesByField
    todo,      \* puts (a document) and removals (None) still to reach memory
    building,  \* a rebuild at work: [field, kind], or None
    filled     \* observer, per field: "whole", "cut" short by a failed rebuild,
               \* or "again" whole by a later one

vars == <<docs, indexes, todo, building, filled>>

Live == {d \in Ids : docs[d] # None}

Nothing == [d \in Ids |-> Keep]

Idle == building = None /\ todo = Nothing

Init ==
    /\ docs = [d \in Ids |-> None]
    /\ indexes = [f \in Fields |-> None]
    /\ todo = Nothing
    /\ building = None
    /\ filled = [f \in Fields |-> "whole"]

-----------------------------------------------------------------------------
(* IndexManager.plan: the smallest scan of any index that answers a field  *)
(* predicate of the and-node, or else every document.                      *)

HasIndex(f) == indexes[f] # None

ScansOf(p) ==
    (IF p.field = "_id" THEN {PrimaryScan(Live, p.operators)} ELSE {})
      \cup (IF HasIndex(p.field) THEN {Scan(indexes[p.field], p.operators)} ELSE {})

Scans(predicates) == (UNION {ScansOf(p) : p \in predicates}) \ {NoScan}

\* Mutant: the branches of an $or are planned like the rest.
PlanPredicatesOfBranches(compiled) ==
    compiled.fields \cup UNION UNION compiled.ors

\* fieldPredicates: only and-nodes are descended into.
PlanPredicates(compiled) == compiled.fields

\* The first of the smallest scans is taken; any of them here.
Plans(compiled) ==
    LET scans == Scans(PlanPredicates(compiled)) IN
    IF scans = {} THEN {Live}
    ELSE {s \in scans : \A t \in scans : Cardinality(s) <= Cardinality(t)}

\* find(): the candidates that pass the whole query.
Found(compiled) ==
    {{d \in candidates : Evaluate(compiled, docs[d])} : candidates \in Plans(compiled)}

\* What find() may give the call that comes next, for some query.
Results == IF Idle THEN UNION {Found(c) : c \in Compiled} ELSE {}

Matching(compiled) == {d \in Live : Evaluate(compiled, docs[d])}

-----------------------------------------------------------------------------
(* Writes.                                                                 *)

AssertUnique(d, doc) ==
    \A f \in Fields :
        HasIndex(f) /\ indexes[f].def.unique => ~Owned(indexes[f], d, doc[f])

\* Mutant: the batch is not checked against itself.
AssertUniqueBatchApart(batch) == \A d \in DOMAIN batch : AssertUnique(d, batch[d])

\* assertUniqueBatch: against the indexes, and then the batch against itself.
AssertUniqueBatch(batch) ==
    /\ \A d \in DOMAIN batch : AssertUnique(d, batch[d])
    /\ \A d, e \in DOMAIN batch, f \in Fields :
           d # e /\ HasIndex(f) /\ indexes[f].def.unique /\ IsIndexed(indexes[f].def, batch[d][f])
           => batch[d][f] # batch[e][f]

Write(batch) ==
    /\ todo' = [d \in Ids |-> IF d \in DOMAIN batch THEN batch[d] ELSE Keep]
    /\ UNCHANGED <<docs, indexes, building, filled>>

InBounds(doc) ==
    /\ doc \in Documents
    /\ \A f \in Fields :
        /\ doc[f].type = "array" => Len(doc[f].items) <= MaxItems
        /\ IsFinite(doc[f]) => doc[f].ord \in -MaxNumber .. MaxNumber

\* Mutant: the _id is stored as an ObjectId instead of its hexadecimal string.
StoredWithObjectId(d, doc) == [doc EXCEPT !["_id"] = Scalar("objectId", d)]

Stored(d, doc) == [doc EXCEPT !["_id"] = String(d)]

InsertOne(d, doc) ==
    /\ Idle
    /\ docs[d] = None
    /\ AssertUnique(d, Stored(d, doc))
    /\ Write([x \in {d} |-> Stored(d, doc)])

\* The batch passes the check as a whole before anything of it is written.
InsertMany(batch) ==
    /\ Idle
    /\ \A d \in DOMAIN batch : docs[d] = None
    /\ AssertUniqueBatch(batch)
    /\ Write(batch)

ReplaceOne(d, doc) ==
    /\ Idle
    /\ docs[d] # None
    /\ AssertUnique(d, Stored(d, doc))
    /\ Write([x \in {d} |-> Stored(d, doc)])

\* updateOne(query) and deleteOne(query) take a document findOne gives,
\* updateMany and deleteMany all that find gives.
UpdateOne(d, update) ==
    /\ Idle
    /\ LET doc == Updated(docs[d], update) IN
       /\ doc # Throws /\ InBounds(doc)
       /\ AssertUnique(d, doc)
       /\ Write([x \in {d} |-> doc])

\* One document for which the update throws, and nothing is written.
UpdateMany(found, update) ==
    /\ Idle
    /\ LET batch == [d \in found |-> Updated(docs[d], update)] IN
       /\ \A d \in found : batch[d] # Throws /\ InBounds(batch[d])
       /\ AssertUniqueBatch(batch)
       /\ Write(batch)

DeleteOne(d) == Idle /\ Write([x \in {d} |-> None])

DeleteMany(found) == Idle /\ Write([d \in found |-> None])

\* Mutant: a put adds to the indexes without removing the old value first.
ApplyAddOnly(d) ==
    /\ todo[d] # Keep
    /\ docs' = [docs EXCEPT ![d] = todo[d]]
    /\ indexes' = [f \in Fields |->
           IF ~HasIndex(f) THEN None
           ELSE IF todo[d] = None THEN Remove(indexes[f], d)
           ELSE Add(indexes[f], d, todo[d][f])]
    /\ todo' = [todo EXCEPT ![d] = Keep]
    /\ UNCHANGED <<building, filled>>

\* applyPutDocument and deletePrimaryIndexEntry; in a rebuild the put is of
\* the document that is there.
Apply(d) ==
    /\ todo[d] # Keep
    /\ docs' = [docs EXCEPT ![d] = todo[d]]
    /\ indexes' = [f \in Fields |->
           IF ~HasIndex(f) THEN None
           ELSE IF todo[d] = None THEN Remove(indexes[f], d)
           ELSE Update(indexes[f], d, todo[d][f])]
    /\ todo' = [todo EXCEPT ![d] = Keep]
    /\ UNCHANGED <<building, filled>>

-----------------------------------------------------------------------------
(* createIndex and dropIndex; compaction's refresh.                        *)

\* rebuildIndex reads every document back and updates all indexes with it.
Rebuild(f, kind) ==
    /\ todo' = [d \in Ids |-> IF docs[d] = None THEN Keep ELSE docs[d]]
    /\ building' = [field |-> f, kind |-> kind]
    /\ UNCHANGED <<docs, filled>>

CreateIndex(f, def) ==
    /\ Idle
    /\ ~HasIndex(f)
    /\ indexes' = [indexes EXCEPT ![f] = NewIndex(def)]
    /\ Rebuild(f, "new")

\* The same definition again; another type or uniqueness throws.
RecreateIndex(f) ==
    /\ Idle
    /\ HasIndex(f)
    /\ UNCHANGED indexes
    /\ Rebuild(f, "again")

\* refreshIndexesAfterCompaction: all indexes are cleared first.
RefreshIndexes ==
    /\ Idle
    /\ indexes' = [f \in Fields |->
           IF HasIndex(f) THEN NewIndex(indexes[f].def) ELSE None]
    /\ Rebuild("_id", "refresh")

\* A brand-new unique index with a duplicate is taken away again.
FinishIndex ==
    /\ building # None /\ todo = Nothing
    /\ LET f == building.field IN
       indexes' = IF building.kind = "new" /\ indexes[f].def.unique /\ HasDuplicate(indexes[f])
                  THEN [indexes EXCEPT ![f] = None] ELSE indexes
    /\ building' = None
    /\ filled' = [f \in Fields |-> IF filled[f] = "cut" THEN "again" ELSE filled[f]]
    /\ UNCHANGED <<docs, todo>>

\* Reading the file throws inside a rebuild: the call fails, the indexes stay.
ReadError ==
    /\ ReadErrors
    /\ building # None /\ todo # Nothing
    /\ todo' = Nothing
    /\ building' = None
    /\ filled' = [f \in Fields |->
           IF HasIndex(f) /\ (building.kind = "refresh" \/ building = [field |-> f, kind |-> "new"])
           THEN "cut" ELSE filled[f]]
    /\ UNCHANGED <<docs, indexes>>

DropIndex(f) ==
    /\ Idle
    /\ HasIndex(f)
    /\ indexes' = [indexes EXCEPT ![f] = None]
    /\ filled' = [filled EXCEPT ![f] = "whole"]
    /\ UNCHANGED <<docs, todo, building>>

-----------------------------------------------------------------------------

Next ==
    \/ \E d \in Ids, doc \in Docs : InsertOne(d, doc) \/ ReplaceOne(d, doc)
    \/ \E S \in SUBSET Ids : \E batch \in [S -> Docs] :
           InsertMany([d \in S |-> Stored(d, batch[d])])
    \/ \E d \in UNION Results, u \in Updates : UpdateOne(d, u)
    \/ \E found \in Results, u \in Updates : UpdateMany(found, u)
    \/ \E d \in UNION Results : DeleteOne(d)
    \/ \E found \in Results : DeleteMany(found)
    \/ \E d \in Ids : Apply(d)
    \/ \E f \in Fields : \E def \in IndexDefs[f] : CreateIndex(f, def)
    \/ \E f \in Fields : RecreateIndex(f) \/ DropIndex(f)
    \/ RefreshIndexes \/ FinishIndex \/ ReadError

Spec == Init /\ [][Next]_vars

-----------------------------------------------------------------------------
(* Types, and what the indexes hold.                                       *)

\* Every variable has the shape its comment says.
TypeOK ==
    /\ docs \in [Ids -> Documents \cup {None}]
    /\ todo \in [Ids -> Documents \cup {None, Keep}]
    /\ DOMAIN indexes = Fields
    /\ \A f \in Fields : HasIndex(f) => indexes[f].def \in IndexDefs[f]
    /\ building \in Rebuilds \cup {None}
    /\ filled \in [Fields -> {"whole", "cut", "again"}]

Holds(idx, d, k) == d \in DOMAIN idx.valuesById /\ idx.valuesById[d] = k

\* The three structures of an index never disagree: every bucket holds just the
\* documents the reverse map has under its value, no bucket is empty, and
\* sortedValues lists the buckets.  remove() and the range scan depend on it.
Inverted(idx) ==
    /\ \A k \in DOMAIN idx.values : idx.values[k] = {d \in Ids : Holds(idx, d, k)}
    /\ \A d \in DOMAIN idx.valuesById : idx.valuesById[d] \in DOMAIN idx.values
    /\ {} \notin {idx.values[k] : k \in DOMAIN idx.values}
    /\ idx.sortedValues = DOMAIN idx.values

\* An index never gives a document for a value it has no longer, or one that is
\* gone: also while it is rebuilt, and after a rebuild that failed half way.
IndexSound ==
    \A f \in Fields : HasIndex(f) =>
        /\ Inverted(indexes[f])
        /\ \A d \in DOMAIN indexes[f].valuesById :
              /\ d \in Live
              /\ IsIndexed(indexes[f].def, docs[d][f])
              /\ indexes[f].valuesById[d] = docs[d][f].ord

\* An index holds every current document with a value of its type, unless a
\* rebuild of it failed half way and none has been made to its end since.
IndexComplete ==
    building = None =>
        \A f \in Fields, d \in Live :
            HasIndex(f) /\ filled[f] # "cut" /\ IsIndexed(indexes[f].def, docs[d][f])
            => d \in DOMAIN indexes[f].valuesById

\* No two documents ever share a value of a unique index: after a failed
\* rebuild only those it let in do, and no rebuild finds them again.
UniqueValues ==
    building = None =>
        \A f \in Fields, d, e \in Live :
            /\ HasIndex(f) /\ filled[f] = "whole" /\ indexes[f].def.unique
            /\ d # e /\ IsIndexed(indexes[f].def, docs[d][f])
            => docs[d][f] # docs[e][f]

-----------------------------------------------------------------------------
(* Finding documents.                                                      *)

Settled == Idle /\ \A f \in Fields : filled[f] # "cut"

InfiniteBound(op) == op.type \in RangeTypes /\ op.value.type = "infinity"

\* The index on the predicate's field does not answer it, or it holds the
\* document and no bound is infinite.
Covered(p, d) ==
    HasIndex(p.field) /\ Scan(indexes[p.field], p.operators) # NoScan =>
        /\ IsIndexed(indexes[p.field].def, docs[d][p.field])
        /\ \A i \in DOMAIN p.operators : ~InfiniteBound(p.operators[i])

\* "Indexes narrow, documents filter": whichever index the planner takes, every
\* document that matches a query is among the candidates, provided that its
\* values are of the type of the indexes that answer, and no bound is infinite.
PlanComplete ==
    Settled => \A c \in Compiled : \A d \in Matching(c) :
        (\A p \in c.fields : Covered(p, d)) => \A candidates \in Plans(c) : d \in candidates

\* docs/indexes.md: indexes "only need to produce a conservative superset of
\* matching documents".
PlanConservative ==
    Settled => \A c \in Compiled : \A candidates \in Plans(c) : Matching(c) \subseteq candidates

\* Every document is stored under its own _id, whatever replaced or updated it.
IdKept == \A d \in Live : docs[d]["_id"] = String(d)

-----------------------------------------------------------------------------
(* What callers do with the documents found.                               *)

\* Mutant: the limit is checked before the value is looked up.
DistinctCountsFirst(order, f, limit) ==
    LET step(acc, v) ==
            IF acc.full \/ v = Missing THEN acc
            ELSE IF Len(acc.values) >= limit THEN [acc EXCEPT !.full = TRUE]
            ELSE IF Listed(acc.values, v) THEN acc
            ELSE [acc EXCEPT !.values = Append(@, v)]
        result[i \in 0 .. Len(order)] ==
            IF i = 0 THEN [values |-> << >>, full |-> FALSE]
            ELSE step(result[i - 1], docs[order[i]][f])
    IN result[Len(order)]

\* distinct(), over documents found in this order; it throws when it is full.
Distinct(order, f, limit) ==
    LET step(acc, v) ==
            IF acc.full \/ v = Missing \/ Listed(acc.values, v) THEN acc
            ELSE IF Len(acc.values) >= limit THEN [acc EXCEPT !.full = TRUE]
            ELSE [acc EXCEPT !.values = Append(@, v)]
        result[i \in 0 .. Len(order)] ==
            IF i = 0 THEN [values |-> << >>, full |-> FALSE]
            ELSE step(result[i - 1], docs[order[i]][f])
    IN result[Len(order)]

Orders == {s \in [1 .. Cardinality(Live) -> Live] :
              \A i, j \in DOMAIN s : s[i] = s[j] => i = j}

\* distinct() gives one value of each class of equal ones, in whatever order it
\* meets the documents, and throws just when there are more than the limit.  NaN
\* equals nothing, itself included, and counts anew for every document.
DistinctExact ==
    Idle => \A f \in Fields, limit \in 1 .. 2, order \in Orders :
        LET holders == {d \in Live : docs[d][f] # Missing}
            classes == {{d} \cup {e \in holders : ValuesEqual(docs[e][f], docs[d][f])} : d \in holders}
            result  == Distinct(order, f, limit)
        IN /\ result.full <=> Cardinality(classes) > limit
           /\ ~result.full => /\ Len(result.values) = Cardinality(classes)
                             /\ \A d \in holders : docs[d][f] = NaN \/ Listed(result.values, docs[d][f])

\* The sort order is one: the comparison never contradicts itself, so where a
\* document comes in a sort does not depend on what it is compared with.
SortIsOrder ==
    Idle => \A f \in Fields, a, b \in Live, c \in Docs :
        LET before(x, y) == SortsBefore(x[f], y[f])
            throws(x, y) == SortThrows(x[f], y[f])
        IN ~throws(docs[a], docs[b]) /\ ~throws(docs[b], c) /\ ~throws(docs[a], c) =>
              /\ before(docs[a], docs[b]) => ~before(docs[b], docs[a])
              /\ before(docs[a], docs[b]) => before(docs[a], c) \/ before(c, docs[b])

=============================================================================
