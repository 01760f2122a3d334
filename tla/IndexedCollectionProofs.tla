----------------------- MODULE IndexedCollectionProofs ------------------------
(***************************************************************************)
(* Theorems of IndexedCollection, for every set of documents, queries and  *)
(* updates.  The argument: each index is a function of the documents that  *)
(* are there (Inverted, SoundInv), a document it lacks is on the list of a *)
(* rebuild or the index was left cut short (LacksFor), and what a scan     *)
(* leaves out fails the predicate it was made for (ScanKeepsMatch).  Below *)
(* them, what sorting and distinct() make of any documents.                *)
(***************************************************************************)
EXTENDS IndexedCollection, RecursiveFunctions, SequenceTheorems, FiniteSetTheorems, TLAPS

-----------------------------------------------------------------------------
(* Sets of numbers.                                                        *)

\* The set Last is applied to has a last element.
LEMMA LastExists ==
    ASSUME NEW n \in Nat, NEW S, S \subseteq 1 .. n, S # {}
    PROVE  Last(S) \in S
<1> DEFINE B == {b \in Nat : \A j \in S : j <= b}
<1>1. n \in B
  OBVIOUS
<1>2. PICK m \in B : \A b \in B : m <= b
  BY <1>1, MinExists
<1>3. m \in S
  <2>1. SUFFICES ASSUME m \notin S PROVE FALSE
    OBVIOUS
  <2>2. PICK j \in S : TRUE
    OBVIOUS
  <2>3. m - 1 \in B
    BY <2>1, <2>2
  <2> QED BY <2>3, <1>2
<1>4. m \in S /\ \A j \in S : j <= m
  BY <1>3
<1> HIDE DEF B
<1> QED BY <1>4 DEF Last

-----------------------------------------------------------------------------
(* One index.                                                              *)

\* remove() takes the document out of the index and leaves the rest in place.
LEMMA RemoveEffect ==
    ASSUME NEW idx, NEW d \in Ids, Inverted(idx), DOMAIN idx.valuesById \subseteq Ids
    PROVE  LET r == Remove(idx, d) IN
           /\ Inverted(r) /\ r.def = idx.def
           /\ DOMAIN r.valuesById = DOMAIN idx.valuesById \ {d}
           /\ \A e \in DOMAIN r.valuesById : r.valuesById[e] = idx.valuesById[e]
<1> DEFINE r == Remove(idx, d)
           k == idx.valuesById[d]
           rest == Bucket(idx, k) \ {d}
<1>1. CASE d \notin DOMAIN idx.valuesById
  BY <1>1 DEF Remove
<1>2. CASE d \in DOMAIN idx.valuesById
  <2>1. /\ r.def = idx.def
        /\ r.valuesById = [z \in DOMAIN idx.valuesById \ {d} |-> idx.valuesById[z]]
        /\ r.values = IF rest = {} THEN [z \in DOMAIN idx.values \ {k} |-> idx.values[z]]
                      ELSE [z \in DOMAIN idx.values \cup {k} |->
                               IF z = k THEN rest ELSE idx.values[z]]
        /\ r.sortedValues = IF rest = {} THEN idx.sortedValues \ {k} ELSE idx.sortedValues
    BY <1>2 DEF Remove, With, Without
  <2>2. k \in DOMAIN idx.values
    BY <1>2 DEF Inverted
  <2>3. Bucket(idx, k) = {e \in Ids : Holds(idx, e, k)}
    BY <2>2 DEF Inverted, Bucket
  <2>4. rest = {e \in Ids : Holds(r, e, k)}
    BY <2>1, <2>3 DEF Holds
  <2> HIDE DEF r, rest
  <2>5. ASSUME NEW z \in DOMAIN r.values PROVE r.values[z] = {e \in Ids : Holds(r, e, z)}
    <3>1. CASE z = k
      BY <3>1, <2>1, <2>4
    <3>2. CASE z # k
      <4>1. z \in DOMAIN idx.values /\ r.values[z] = idx.values[z]
        BY <3>2, <2>1
      <4>2. idx.values[z] = {e \in Ids : Holds(idx, e, z)}
        BY <4>1 DEF Inverted
      <4>3. \A e \in Ids : Holds(r, e, z) <=> Holds(idx, e, z)
        BY <3>2, <2>1 DEF Holds
      <4> QED BY <4>1, <4>2, <4>3
    <3> QED BY <3>1, <3>2
  <2>6. ASSUME NEW e \in DOMAIN r.valuesById PROVE r.valuesById[e] \in DOMAIN r.values
    <3>1. e \in Ids /\ r.valuesById[e] = idx.valuesById[e] /\ r.valuesById[e] \in DOMAIN idx.values
      BY <2>1 DEF Inverted
    <3>2. r.valuesById[e] = k => e \in rest
      BY <2>4, <3>1 DEF Holds
    <3> QED BY <3>1, <3>2, <2>1
  <2>7. \A z \in DOMAIN r.values : r.values[z] # {}
    BY <2>1 DEF Inverted
  <2>8. r.sortedValues = DOMAIN r.values
    BY <2>1, <2>2 DEF Inverted
  <2>9. Inverted(r)
    BY <2>5, <2>6, <2>7, <2>8 DEF Inverted
  <2> QED BY <2>1, <2>9 DEF r
<1> QED BY <1>1, <1>2

\* add() of a document the index does not hold.
LEMMA AddEffect ==
    ASSUME NEW idx, NEW d \in Ids, NEW v, Inverted(idx), DOMAIN idx.valuesById \subseteq Ids,
           d \notin DOMAIN idx.valuesById
    PROVE  LET r == Add(idx, d, v) IN
           /\ Inverted(r) /\ r.def = idx.def
           /\ DOMAIN r.valuesById = IF IsIndexed(idx.def, v) THEN DOMAIN idx.valuesById \cup {d}
                                    ELSE DOMAIN idx.valuesById
           /\ IsIndexed(idx.def, v) => r.valuesById[d] = v.ord
           /\ \A e \in DOMAIN idx.valuesById : r.valuesById[e] = idx.valuesById[e]
<1> DEFINE r == Add(idx, d, v)
           k == v.ord
<1>1. CASE ~IsIndexed(idx.def, v)
  BY <1>1 DEF Add
<1>2. CASE IsIndexed(idx.def, v)
  <2>1. /\ r.def = idx.def
        /\ r.valuesById = [z \in DOMAIN idx.valuesById \cup {d} |->
                              IF z = d THEN k ELSE idx.valuesById[z]]
        /\ r.values = [z \in DOMAIN idx.values \cup {k} |->
                          IF z = k THEN Bucket(idx, k) \cup {d} ELSE idx.values[z]]
        /\ r.sortedValues = idx.sortedValues \cup {k}
    BY <1>2 DEF Add, With
  <2>2. Bucket(idx, k) = {e \in Ids : Holds(idx, e, k)}
    <3>1. CASE k \in DOMAIN idx.values
      BY <3>1 DEF Inverted, Bucket
    <3>2. CASE k \notin DOMAIN idx.values
      BY <3>2 DEF Inverted, Bucket, Holds
    <3> QED BY <3>1, <3>2
  <2> HIDE DEF r
  <2>3. ASSUME NEW z \in DOMAIN r.values PROVE r.values[z] = {e \in Ids : Holds(r, e, z)}
    <3>1. CASE z = k
      <4>1. \A e \in Ids : Holds(r, e, k) <=> e = d \/ Holds(idx, e, k)
        BY <2>1 DEF Holds
      <4> QED BY <3>1, <4>1, <2>1, <2>2
    <3>2. CASE z # k
      <4>1. z \in DOMAIN idx.values /\ r.values[z] = idx.values[z]
        BY <3>2, <2>1
      <4>2. idx.values[z] = {e \in Ids : Holds(idx, e, z)}
        BY <4>1 DEF Inverted
      <4>3. \A e \in Ids : Holds(r, e, z) <=> Holds(idx, e, z)
        BY <3>2, <2>1 DEF Holds
      <4> QED BY <4>1, <4>2, <4>3
    <3> QED BY <3>1, <3>2
  <2>4. \A e \in DOMAIN r.valuesById : r.valuesById[e] \in DOMAIN r.values
    BY <2>1 DEF Inverted
  <2>5. \A z \in DOMAIN r.values : r.values[z] # {}
    BY <2>1 DEF Inverted
  <2>6. r.sortedValues = DOMAIN r.values
    BY <2>1 DEF Inverted
  <2>7. Inverted(r)
    BY <2>3, <2>4, <2>5, <2>6 DEF Inverted
  <2> QED BY <1>2, <2>1, <2>7 DEF r
<1> QED BY <1>1, <1>2

\* update() makes the index hold the document under its value and no other.
LEMMA UpdateEffect ==
    ASSUME NEW idx, NEW d \in Ids, NEW v, Inverted(idx), DOMAIN idx.valuesById \subseteq Ids
    PROVE  LET r == Update(idx, d, v) IN
           /\ Inverted(r) /\ r.def = idx.def
           /\ DOMAIN r.valuesById = (DOMAIN idx.valuesById \ {d})
                                      \cup (IF IsIndexed(idx.def, v) THEN {d} ELSE {})
           /\ IsIndexed(idx.def, v) => r.valuesById[d] = v.ord
           /\ \A e \in DOMAIN idx.valuesById \ {d} : r.valuesById[e] = idx.valuesById[e]
<1> DEFINE s == Remove(idx, d)
<1>1. /\ Inverted(s) /\ s.def = idx.def
      /\ DOMAIN s.valuesById = DOMAIN idx.valuesById \ {d}
      /\ \A e \in DOMAIN s.valuesById : s.valuesById[e] = idx.valuesById[e]
  BY RemoveEffect
<1>2. Update(idx, d, v) = Add(s, d, v)
  BY DEF Update
<1> HIDE DEF s
<1>3. DOMAIN s.valuesById \subseteq Ids /\ d \notin DOMAIN s.valuesById
  BY <1>1
<1>4. LET r == Add(s, d, v) IN
      /\ Inverted(r) /\ r.def = s.def
      /\ DOMAIN r.valuesById = IF IsIndexed(s.def, v) THEN DOMAIN s.valuesById \cup {d}
                               ELSE DOMAIN s.valuesById
      /\ IsIndexed(s.def, v) => r.valuesById[d] = v.ord
      /\ \A e \in DOMAIN s.valuesById : r.valuesById[e] = s.valuesById[e]
  BY <1>1, <1>3, AddEffect
<1> QED BY <1>1, <1>2, <1>4

-----------------------------------------------------------------------------
(* Types.                                                                  *)

LEMMA StoredType ==
    ASSUME NEW d \in Ids, NEW doc \in Docs
    PROVE  Stored(d, doc) \in Documents /\ Stored(d, doc)["_id"] = String(d)
<1>1. doc \in Documents /\ d \in Nat /\ "_id" \in Fields
  BY CollectionAssumption
<1>2. String(d) \in Scalars
  BY <1>1 DEF String, Scalar, Scalars
<1>3. String(d) \in Values
  BY <1>2 DEF Values
<1> QED BY <1>1, <1>3 DEF Stored, Documents

\* No operation of an index changes its definition.
LEMMA DefKept ==
    ASSUME NEW idx, NEW d, NEW v
    PROVE  Remove(idx, d).def = idx.def /\ Update(idx, d, v).def = idx.def
<1>1. Remove(idx, d).def = idx.def
  BY DEF Remove
<1>2. \A s : Add(s, d, v).def = s.def
  BY DEF Add
<1> QED BY <1>1, <1>2 DEF Update

LEMMA TypeInit == Init => TypeOK
BY CollectionAssumption DEF Init, TypeOK, Nothing, HasIndex

LEMMA WriteType ==
    ASSUME NEW batch, TypeOK, Write(batch),
           \A d \in DOMAIN batch : batch[d] \in Documents \cup {None}
    PROVE  TypeOK'
BY DEF Write, TypeOK, HasIndex

\* A call that writes hands over documents and removals.
Writable(batch) == \A d \in DOMAIN batch : batch[d] \in Documents \cup {None}

Calls ==
    \/ \E d \in Ids, doc \in Docs : InsertOne(d, doc) \/ ReplaceOne(d, doc)
    \/ \E S \in SUBSET Ids : \E batch \in [S -> Docs] :
           InsertMany([d \in S |-> Stored(d, batch[d])])
    \/ \E d \in UNION Results, u \in Updates : UpdateOne(d, u)
    \/ \E found \in Results, u \in Updates : UpdateMany(found, u)
    \/ \E d \in UNION Results : DeleteOne(d)
    \/ \E found \in Results : DeleteMany(found)

LEMMA CallsWrite ==
    ASSUME Calls
    PROVE  \E batch : Idle /\ Write(batch) /\ Writable(batch)
<1>1. ASSUME NEW d \in Ids, NEW doc \in Docs, InsertOne(d, doc) \/ ReplaceOne(d, doc)
      PROVE \E b : Idle /\ Write(b) /\ Writable(b)
  <2> WITNESS [x \in {d} |-> Stored(d, doc)]
  <2> QED BY <1>1, StoredType DEF InsertOne, ReplaceOne, Writable
<1>2. ASSUME NEW S \in SUBSET Ids, NEW batch \in [S -> Docs],
             InsertMany([d \in S |-> Stored(d, batch[d])])
      PROVE \E b : Idle /\ Write(b) /\ Writable(b)
  <2> WITNESS [d \in S |-> Stored(d, batch[d])]
  <2> QED BY <1>2, StoredType DEF InsertMany, Writable
<1>3. ASSUME NEW d, NEW u, UpdateOne(d, u)
      PROVE \E b : Idle /\ Write(b) /\ Writable(b)
  <2> WITNESS [x \in {d} |-> Updated(docs[d], u)]
  <2> QED BY <1>3 DEF UpdateOne, InBounds, Writable
<1>4. ASSUME NEW found, NEW u, UpdateMany(found, u)
      PROVE \E b : Idle /\ Write(b) /\ Writable(b)
  <2> WITNESS [d \in found |-> Updated(docs[d], u)]
  <2> QED BY <1>4 DEF UpdateMany, InBounds, Writable
<1>5. ASSUME NEW d, DeleteOne(d)
      PROVE \E b : Idle /\ Write(b) /\ Writable(b)
  <2> WITNESS [x \in {d} |-> None]
  <2> QED BY <1>5 DEF DeleteOne, Writable
<1>6. ASSUME NEW found, DeleteMany(found)
      PROVE \E b : Idle /\ Write(b) /\ Writable(b)
  <2> WITNESS [d \in found |-> None]
  <2> QED BY <1>6 DEF DeleteMany, Writable
<1> QED BY <1>1, <1>2, <1>3, <1>4, <1>5, <1>6 DEF Calls

LEMMA TypeNext ==
    ASSUME TypeOK, [Next]_vars
    PROVE  TypeOK'
<1>1. ASSUME NEW batch, Write(batch), Writable(batch) PROVE TypeOK'
  BY <1>1, WriteType DEF Writable
<1>2. ASSUME NEW d \in Ids, Apply(d) PROVE TypeOK'
  <2>1. todo[d] \in Documents \cup {None}
    BY <1>2 DEF Apply, TypeOK
  <2>2. docs' \in [Ids -> Documents \cup {None}] /\ todo' \in [Ids -> Documents \cup {None, Keep}]
    BY <1>2, <2>1 DEF Apply, TypeOK
  <2>3. ASSUME NEW f \in Fields, HasIndex(f)' PROVE (indexes[f].def)' \in IndexDefs[f]
    <3>1. /\ HasIndex(f)
          /\ indexes'[f] \in {Remove(indexes[f], d), Update(indexes[f], d, todo[d][f])}
      BY <1>2, <2>3 DEF Apply, HasIndex
    <3>2. indexes[f].def \in IndexDefs[f]
      BY <3>1 DEF TypeOK
    <3>3. indexes'[f].def = indexes[f].def
      BY <3>1, DefKept
    <3> QED BY <3>2, <3>3
  <2>4. DOMAIN indexes' = Fields
    BY <1>2 DEF Apply
  <2> QED BY <1>2, <2>2, <2>3, <2>4 DEF TypeOK, Apply
<1>3. ASSUME NEW f \in Fields, NEW kind \in {"new", "again", "refresh"}, Rebuild(f, kind),
             DOMAIN indexes' = Fields,
             \A g \in Fields : HasIndex(g)' => (indexes[g].def)' \in IndexDefs[g]
      PROVE TypeOK'
  BY <1>3 DEF Rebuild, TypeOK, Rebuilds
<1>4. ASSUME NEW f \in Fields, NEW def \in IndexDefs[f], CreateIndex(f, def) PROVE TypeOK'
  BY <1>4, <1>3 DEF CreateIndex, TypeOK, HasIndex, NewIndex
<1>5. ASSUME NEW f \in Fields, RecreateIndex(f) PROVE TypeOK'
  BY <1>5, <1>3 DEF RecreateIndex, TypeOK, HasIndex
<1>6. CASE RefreshIndexes
  BY <1>6, <1>3, CollectionAssumption DEF RefreshIndexes, TypeOK, HasIndex, NewIndex
<1>7. CASE FinishIndex
  BY <1>7 DEF FinishIndex, TypeOK, HasIndex, Rebuilds
<1>8. CASE ReadError
  BY <1>8 DEF ReadError, TypeOK, HasIndex, Nothing
<1>9. ASSUME NEW f \in Fields, DropIndex(f) PROVE TypeOK'
  BY <1>9 DEF DropIndex, TypeOK, HasIndex
<1>10. CASE UNCHANGED vars
  BY <1>10 DEF vars, TypeOK, HasIndex
<1> QED BY <1>1, <1>2, <1>4, <1>5, <1>6, <1>7, <1>8, <1>9, <1>10, CallsWrite DEF Next, Calls

\* Every variable keeps its type, in every state of every collection.
THEOREM TypeCorrect == Spec => []TypeOK
<1>1. Init => TypeOK
  BY TypeInit
<1>2. TypeOK /\ [Next]_vars => TypeOK'
  BY TypeNext
<1> QED BY <1>1, <1>2, PTL DEF Spec

-----------------------------------------------------------------------------
(* Indexes hold nothing stale, and nothing they should hold is missing.    *)

\* A document an index should hold and does not: the index was cut short or is
\* being filled, and if a rebuild is at work the document is still on its list.
Refilled(f) == building.kind = "refresh" \/ building = [field |-> f, kind |-> "new"]

LacksFor(f, d) ==
    /\ HasIndex(f) /\ IsIndexed(indexes[f].def, docs[d][f])
    /\ d \notin DOMAIN indexes[f].valuesById

IndexFilled ==
    \A f \in Fields, d \in Live : LacksFor(f, d) =>
        /\ filled[f] = "cut" \/ (building # None /\ Refilled(f))
        /\ building # None => todo[d] # Keep

\* What Apply(d) does to the index on f: it now holds d under the value written.
LEMMA ApplyEffect ==
    ASSUME TypeOK, IndexSound, NEW d \in Ids, Apply(d), NEW f \in Fields, HasIndex(f)'
    PROVE  /\ HasIndex(f)
           /\ indexes'[f].def = indexes[f].def
           /\ Inverted(indexes'[f])
           /\ DOMAIN indexes'[f].valuesById =
                 (DOMAIN indexes[f].valuesById \ {d})
                   \cup (IF todo[d] # None /\ IsIndexed(indexes[f].def, todo[d][f])
                         THEN {d} ELSE {})
           /\ d \in DOMAIN indexes'[f].valuesById => indexes'[f].valuesById[d] = todo[d][f].ord
           /\ \A e \in DOMAIN indexes[f].valuesById \ {d} :
                 indexes'[f].valuesById[e] = indexes[f].valuesById[e]
<1>1. HasIndex(f)
  BY DEF Apply, HasIndex
<1>2. indexes'[f] = IF todo[d] = None THEN Remove(indexes[f], d)
                    ELSE Update(indexes[f], d, todo[d][f])
  BY <1>1 DEF Apply
<1>3. Inverted(indexes[f]) /\ DOMAIN indexes[f].valuesById \subseteq Ids
  BY <1>1 DEF IndexSound, Live
<1>4. CASE todo[d] = None
  <2>1. indexes'[f] = Remove(indexes[f], d)
    BY <1>2, <1>4
  <2>2. LET r == Remove(indexes[f], d) IN
        /\ Inverted(r) /\ r.def = indexes[f].def
        /\ DOMAIN r.valuesById = DOMAIN indexes[f].valuesById \ {d}
        /\ \A e \in DOMAIN r.valuesById : r.valuesById[e] = indexes[f].valuesById[e]
    BY <1>3, RemoveEffect
  <2> QED BY <1>1, <1>4, <2>1, <2>2
<1>5. CASE todo[d] # None
  <2>1. indexes'[f] = Update(indexes[f], d, todo[d][f])
    BY <1>2, <1>5
  <2>2. LET r == Update(indexes[f], d, todo[d][f]) IN
        /\ Inverted(r) /\ r.def = indexes[f].def
        /\ DOMAIN r.valuesById = (DOMAIN indexes[f].valuesById \ {d})
              \cup (IF IsIndexed(indexes[f].def, todo[d][f]) THEN {d} ELSE {})
        /\ IsIndexed(indexes[f].def, todo[d][f]) => r.valuesById[d] = todo[d][f].ord
        /\ \A e \in DOMAIN indexes[f].valuesById \ {d} :
              r.valuesById[e] = indexes[f].valuesById[e]
    BY <1>3, UpdateEffect, ZenonT(30)
  <2> QED BY <1>1, <1>5, <2>1, <2>2
<1> QED BY <1>4, <1>5

LEMMA NewIndexSound ==
    ASSUME NEW def
    PROVE  Inverted(NewIndex(def)) /\ NewIndex(def).def = def
           /\ DOMAIN NewIndex(def).valuesById = {}
BY DEF NewIndex, Inverted, Holds

LEMMA SoundApply ==
    ASSUME TypeOK, IndexSound, NEW d \in Ids, Apply(d)
    PROVE  IndexSound'
<1> SUFFICES ASSUME NEW f \in Fields, HasIndex(f)'
             PROVE  /\ Inverted(indexes'[f])
                    /\ \A e \in DOMAIN indexes'[f].valuesById :
                          /\ e \in Live'
                          /\ IsIndexed(indexes'[f].def, docs'[e][f])
                          /\ indexes'[f].valuesById[e] = docs'[e][f].ord
  BY DEF IndexSound
<1>1. docs' = [docs EXCEPT ![d] = todo[d]] /\ d \in DOMAIN docs
  BY DEF Apply, TypeOK
<1>2. HasIndex(f) /\ indexes'[f].def = indexes[f].def /\ Inverted(indexes'[f])
  BY ApplyEffect
<1>3. ASSUME NEW e \in DOMAIN indexes'[f].valuesById
      PROVE  /\ e \in Live' /\ IsIndexed(indexes'[f].def, docs'[e][f])
             /\ indexes'[f].valuesById[e] = docs'[e][f].ord
  <2>1. CASE e = d
    <3>1. todo[d] # None /\ IsIndexed(indexes[f].def, todo[d][f])
      BY <2>1, <1>3, ApplyEffect
    <3>2. indexes'[f].valuesById[d] = todo[d][f].ord
      BY <2>1, <1>3, ApplyEffect
    <3> QED BY <2>1, <3>1, <3>2, <1>1, <1>2 DEF Live
  <2>2. CASE e # d
    <3>1. e \in DOMAIN indexes[f].valuesById
          /\ indexes'[f].valuesById[e] = indexes[f].valuesById[e]
      BY <2>2, <1>3, ApplyEffect
    <3>2. /\ e \in Live /\ IsIndexed(indexes[f].def, docs[e][f])
          /\ indexes[f].valuesById[e] = docs[e][f].ord
      BY <3>1, <1>2 DEF IndexSound
    <3> QED BY <2>2, <3>1, <3>2, <1>1, <1>2 DEF Live
  <2> QED BY <2>1, <2>2
<1> QED BY <1>2, <1>3

LEMMA FilledApply ==
    ASSUME TypeOK, IndexSound, IndexFilled, NEW d \in Ids, Apply(d)
    PROVE  IndexFilled'
<1> SUFFICES ASSUME NEW f \in Fields, NEW e \in Live', LacksFor(f, e)'
             PROVE  /\ filled[f] = "cut" \/ (building # None /\ Refilled(f))
                    /\ building # None => todo'[e] # Keep
  BY DEF IndexFilled, Refilled, Apply
<1>1. docs' = [docs EXCEPT ![d] = todo[d]] /\ d \in DOMAIN docs /\ HasIndex(f)'
  BY DEF Apply, TypeOK, LacksFor
<1>2. HasIndex(f) /\ indexes'[f].def = indexes[f].def
  BY <1>1, ApplyEffect
<1>3. e # d
  <2> SUFFICES ASSUME e = d PROVE FALSE
    OBVIOUS
  <2>1. docs'[e] = todo[d] /\ todo[d] # None
    BY <1>1 DEF Live
  <2>2. IsIndexed(indexes[f].def, todo[d][f])
    BY <1>2, <2>1 DEF LacksFor
  <2>3. d \in DOMAIN indexes'[f].valuesById
    BY <1>1, <2>1, <2>2, ApplyEffect
  <2> QED BY <2>3 DEF LacksFor
<1>4. docs'[e] = docs[e] /\ todo'[e] = todo[e] /\ e \in Live
  BY <1>1, <1>3 DEF Live, Apply, TypeOK
<1>5. e \notin DOMAIN indexes[f].valuesById
  BY <1>1, <1>3, ApplyEffect DEF LacksFor
<1>6. LacksFor(f, e)
  BY <1>2, <1>4, <1>5 DEF LacksFor
<1> QED BY <1>4, <1>6 DEF IndexFilled

\* A step that leaves every index as it is, empties it or takes it away.
LEMMA SoundKept ==
    ASSUME IndexSound, UNCHANGED docs,
           \A f \in Fields : HasIndex(f)' =>
               \/ HasIndex(f) /\ indexes'[f] = indexes[f]
               \/ \E def : indexes'[f] = NewIndex(def)
    PROVE  IndexSound'
<1> SUFFICES ASSUME NEW f \in Fields, HasIndex(f)'
             PROVE  /\ Inverted(indexes'[f])
                    /\ \A e \in DOMAIN indexes'[f].valuesById :
                          /\ e \in Live'
                          /\ IsIndexed(indexes'[f].def, docs'[e][f])
                          /\ indexes'[f].valuesById[e] = docs'[e][f].ord
  BY DEF IndexSound
<1>1. CASE HasIndex(f) /\ indexes'[f] = indexes[f]
  BY <1>1 DEF IndexSound, Live
<1>2. ASSUME NEW def, indexes'[f] = NewIndex(def)
      PROVE  Inverted(indexes'[f]) /\ DOMAIN indexes'[f].valuesById = {}
  BY <1>2, NewIndexSound
<1> QED BY <1>1, <1>2

SoundInv == TypeOK /\ IndexSound /\ IndexFilled

LEMMA SoundInit == Init => SoundInv
BY TypeInit DEF Init, SoundInv, IndexSound, IndexFilled, Live, HasIndex, LacksFor

\* While a call waits for the next one, no document is on the list.
LEMMA SoundNext ==
    ASSUME SoundInv, [Next]_vars
    PROVE  SoundInv'
<1>0. TypeOK /\ TypeOK' /\ IndexSound /\ IndexFilled
  BY TypeNext DEF SoundInv
<1>1. ASSUME NEW batch, Idle, Write(batch)
      PROVE  IndexSound' /\ IndexFilled'
  BY <1>0, <1>1 DEF Write, IndexSound, IndexFilled, LacksFor, Refilled, Live, HasIndex, Idle
<1>2. ASSUME NEW d \in Ids, Apply(d)
      PROVE  IndexSound' /\ IndexFilled'
  BY <1>0, <1>2, SoundApply, FilledApply
<1>3. ASSUME NEW f \in Fields, NEW def \in IndexDefs[f], CreateIndex(f, def)
      PROVE  IndexSound' /\ IndexFilled'
  <2>1. IndexSound'
    BY <1>0, <1>3, SoundKept DEF CreateIndex, Rebuild, HasIndex
  <2>2. ASSUME NEW g \in Fields, NEW e \in Live', LacksFor(g, e)'
        PROVE  /\ filled'[g] = "cut" \/ (building' # None /\ Refilled(g)')
               /\ todo'[e] # Keep
    <3>1. e \in Live /\ todo'[e] = docs[e] /\ docs[e] # Keep
      BY <1>0, <1>3, <2>2, NoneAssumption DEF CreateIndex, Rebuild, Live, TypeOK
    <3>2. building' = [field |-> f, kind |-> "new"] /\ building' # None
      BY <1>3, NoneAssumption DEF CreateIndex, Rebuild, Rebuilds
    <3>3. CASE g = f
      BY <3>1, <3>2, <3>3 DEF Refilled
    <3>4. CASE g # f
      <4>1. LacksFor(g, e)
        BY <1>0, <1>3, <2>2, <3>4 DEF CreateIndex, Rebuild, LacksFor, HasIndex, TypeOK
      <4>2. filled[g] = "cut" /\ filled'[g] = filled[g]
        BY <1>0, <1>3, <3>1, <4>1 DEF CreateIndex, Rebuild, Idle, IndexFilled
      <4> QED BY <3>1, <4>2
    <3> QED BY <3>3, <3>4
  <2> QED BY <2>1, <2>2 DEF IndexFilled
<1>4. ASSUME NEW f \in Fields, RecreateIndex(f)
      PROVE  IndexSound' /\ IndexFilled'
  <2>1. IndexSound'
    BY <1>0, <1>4, SoundKept DEF RecreateIndex, Rebuild, HasIndex
  <2>2. ASSUME NEW g \in Fields, NEW e \in Live', LacksFor(g, e)'
        PROVE  filled'[g] = "cut" /\ todo'[e] # Keep
    <3>1. e \in Live /\ todo'[e] = docs[e] /\ docs[e] # Keep
      BY <1>0, <1>4, <2>2, NoneAssumption DEF RecreateIndex, Rebuild, Live, TypeOK
    <3>2. LacksFor(g, e)
      BY <1>4, <2>2 DEF RecreateIndex, Rebuild, LacksFor, HasIndex
    <3>3. filled[g] = "cut" /\ filled'[g] = filled[g]
      BY <1>0, <1>4, <3>1, <3>2 DEF RecreateIndex, Rebuild, Idle, IndexFilled
    <3> QED BY <3>1, <3>3
  <2> QED BY <2>1, <2>2 DEF IndexFilled
<1>5. ASSUME RefreshIndexes
      PROVE  IndexSound' /\ IndexFilled'
  <2>1. IndexSound'
    BY <1>0, <1>5, SoundKept DEF RefreshIndexes, Rebuild, HasIndex
  <2>2. ASSUME NEW g \in Fields, NEW e \in Live', LacksFor(g, e)'
        PROVE  building' # None /\ Refilled(g)' /\ todo'[e] # Keep
    <3>1. e \in Live /\ todo'[e] = docs[e] /\ docs[e] # Keep
      BY <1>0, <1>5, <2>2, NoneAssumption DEF RefreshIndexes, Rebuild, Live, TypeOK
    <3>2. building' = [field |-> "_id", kind |-> "refresh"] /\ building' # None
      BY <1>5, NoneAssumption, CollectionAssumption DEF RefreshIndexes, Rebuild, Rebuilds
    <3> QED BY <3>1, <3>2 DEF Refilled
  <2> QED BY <2>1, <2>2 DEF IndexFilled
<1>6. ASSUME FinishIndex
      PROVE  IndexSound' /\ IndexFilled'
  <2>1. \A f \in Fields : HasIndex(f)' => HasIndex(f) /\ indexes'[f] = indexes[f]
    BY <1>0, <1>6 DEF FinishIndex, HasIndex, TypeOK
  <2>2. IndexSound'
    BY <1>0, <1>6, <2>1, SoundKept DEF FinishIndex
  <2>3. \A g \in Fields, e \in Live' : ~LacksFor(g, e)'
    <3> SUFFICES ASSUME NEW g \in Fields, NEW e \in Live', LacksFor(g, e)' PROVE FALSE
      OBVIOUS
    <3>1. e \in Live /\ LacksFor(g, e)
      BY <1>6, <2>1 DEF FinishIndex, Live, LacksFor
    <3>2. building # None /\ todo[e] = Keep
      BY <1>6, <3>1 DEF FinishIndex, Nothing, Live
    <3> QED BY <1>0, <3>1, <3>2 DEF IndexFilled
  <2> QED BY <2>2, <2>3 DEF IndexFilled
<1>7. ASSUME ReadError
      PROVE  IndexSound' /\ IndexFilled'
  <2>1. IndexSound'
    BY <1>0, <1>7, SoundKept DEF ReadError, HasIndex
  <2>2. ASSUME NEW g \in Fields, NEW e \in Live', LacksFor(g, e)'
        PROVE  filled'[g] = "cut"
    <3>1. e \in Live /\ LacksFor(g, e) /\ HasIndex(g)
      BY <1>7, <2>2 DEF ReadError, Live, LacksFor, HasIndex
    <3>2. filled[g] = "cut" \/ Refilled(g)
      BY <1>0, <3>1 DEF IndexFilled
    <3> QED BY <1>7, <3>1, <3>2 DEF ReadError, Refilled
  <2>3. building' = None
    BY <1>7 DEF ReadError
  <2> QED BY <2>1, <2>2, <2>3 DEF IndexFilled
<1>8. ASSUME NEW f \in Fields, DropIndex(f)
      PROVE  IndexSound' /\ IndexFilled'
  <2>1. \A g \in Fields : HasIndex(g)' => g # f /\ HasIndex(g) /\ indexes'[g] = indexes[g]
    BY <1>0, <1>8 DEF DropIndex, HasIndex, TypeOK
  <2>2. IndexSound'
    BY <1>0, <1>8, <2>1, SoundKept DEF DropIndex
  <2>3. ASSUME NEW g \in Fields, NEW e \in Live', LacksFor(g, e)'
        PROVE  filled'[g] = "cut"
    <3>1. e \in Live /\ LacksFor(g, e) /\ g # f
      BY <1>8, <2>1, <2>3 DEF DropIndex, Live, LacksFor
    <3> QED BY <1>0, <1>8, <3>1 DEF IndexFilled, DropIndex, Idle, TypeOK
  <2>4. building' = None
    BY <1>8 DEF DropIndex, Idle
  <2> QED BY <2>2, <2>3, <2>4 DEF IndexFilled
<1>9. ASSUME UNCHANGED vars
      PROVE  IndexSound' /\ IndexFilled'
  BY <1>0, <1>9 DEF vars, IndexSound, IndexFilled, LacksFor, Refilled, Live, HasIndex
<1>10. IndexSound' /\ IndexFilled'
  BY <1>1, <1>2, <1>3, <1>4, <1>5, <1>6, <1>7, <1>8, <1>9, CallsWrite DEF Next, Calls
<1> QED BY <1>0, <1>10 DEF SoundInv

LEMMA SoundAlways == Spec => []SoundInv
<1>1. Init => SoundInv
  BY SoundInit
<1>2. SoundInv /\ [Next]_vars => SoundInv'
  BY SoundNext
<1> QED BY <1>1, <1>2, PTL DEF Spec

\* No index ever gives a document for a value it does not have.
THEOREM IndexesSound == Spec => []IndexSound
<1>1. SoundInv => IndexSound
  BY DEF SoundInv
<1> QED BY <1>1, SoundAlways, PTL

\* Between two calls an index misses no document it should hold, but for one
\* that a failed rebuild cut short.
THEOREM IndexesComplete == Spec => []IndexComplete
<1>1. SoundInv => IndexComplete
  BY DEF SoundInv, IndexFilled, IndexComplete, LacksFor
<1> QED BY <1>1, SoundAlways, PTL

-----------------------------------------------------------------------------
(* Unique indexes.                                                         *)

\* The documents that are, or are about to be, under an id.
Versions(d) == {docs[d], todo[d]} \ {None, Keep}

\* No two ids share an indexable value of f, whichever writes of a batch have
\* been applied so far.
Apart(f) ==
    \A d, e \in Ids : d # e =>
        \A v \in Versions(d), w \in Versions(e) :
            IsIndexed(indexes[f].def, v[f]) => v[f] # w[f]

NewAt(f) == building = [field |-> f, kind |-> "new"]

VersionsApart ==
    \A f \in Fields :
        HasIndex(f) /\ indexes[f].def.unique /\ filled[f] = "whole" /\ ~NewAt(f) => Apart(f)

\* A batch that passes the checks of the write path, removals aside.
Accepted(batch) ==
    /\ \A d \in DOMAIN batch : batch[d] # None => AssertUnique(d, batch[d])
    /\ \A d, e \in DOMAIN batch, f \in Fields :
          /\ d # e /\ batch[d] # None /\ batch[e] # None
          /\ HasIndex(f) /\ indexes[f].def.unique /\ IsIndexed(indexes[f].def, batch[d][f])
          => batch[d][f] # batch[e][f]

\* findOwner finds every other document that has the value, in an index that is
\* whole.
LEMMA OwnerFound ==
    ASSUME SoundInv, Idle, NEW f \in Fields, HasIndex(f), filled[f] # "cut",
           NEW d, NEW e \in Live, d # e, NEW v, v = docs[e][f],
           IsIndexed(indexes[f].def, v)
    PROVE  Owned(indexes[f], d, v)
<1>1. e \in DOMAIN indexes[f].valuesById
  BY DEF SoundInv, IndexFilled, LacksFor, Idle
<1>2. indexes[f].valuesById[e] = v.ord /\ Inverted(indexes[f]) /\ e \in Ids
  BY <1>1 DEF SoundInv, IndexSound, Live
<1>3. v.ord \in DOMAIN indexes[f].values /\ e \in indexes[f].values[v.ord]
  BY <1>1, <1>2 DEF Inverted, Holds
<1> QED BY <1>3 DEF Owned, Bucket

\* A call that passes the checks writes no value that another document has.
LEMMA WriteApart ==
    ASSUME SoundInv, VersionsApart, Idle, NEW batch, Write(batch), Accepted(batch)
    PROVE  VersionsApart'
<1> SUFFICES ASSUME NEW f \in Fields, HasIndex(f), indexes[f].def.unique, filled[f] = "whole",
                    NEW d \in Ids, NEW e \in Ids, d # e,
                    NEW v \in Versions(d)', NEW w \in Versions(e)',
                    IsIndexed(indexes[f].def, v[f]), v[f] = w[f]
             PROVE  FALSE
  BY DEF VersionsApart, Apart, Write, HasIndex
<1>1. \A x \in Ids : /\ todo[x] = Keep /\ docs'[x] = docs[x]
                     /\ todo'[x] = IF x \in DOMAIN batch THEN batch[x] ELSE Keep
  BY DEF Write, Idle, Nothing
<1>2. \A x \in Ids : Versions(x)' \subseteq
          {docs[x]} \cup (IF x \in DOMAIN batch THEN {batch[x]} ELSE {})
  BY <1>1 DEF Versions
<1>3. v \notin {None, Keep} /\ w \notin {None, Keep}
  BY DEF Versions
<1>4. \A x \in Ids : docs[x] \notin {None, Keep} => x \in Live /\ docs[x] \in Versions(x)
  BY DEF Live, Versions
<1>5. CASE v = docs[d] /\ w = docs[e]
  <2>1. ~NewAt(f)
    BY NoneAssumption DEF NewAt, Rebuilds, Idle
  <2>2. Apart(f)
    BY <2>1 DEF VersionsApart
  <2> QED BY <1>3, <1>4, <1>5, <2>2 DEF Apart
<1>6. CASE d \in DOMAIN batch /\ v = batch[d] /\ w = docs[e]
  <2>1. ~Owned(indexes[f], d, v[f])
    BY <1>3, <1>6 DEF Accepted, AssertUnique
  <2>2. e \in Live
    BY <1>3, <1>4, <1>6
  <2> QED BY <1>6, <2>1, <2>2, OwnerFound
<1>7. CASE e \in DOMAIN batch /\ w = batch[e] /\ v = docs[d]
  <2>1. ~Owned(indexes[f], e, w[f])
    BY <1>3, <1>7 DEF Accepted, AssertUnique
  <2>2. d \in Live
    BY <1>3, <1>4, <1>7
  <2> QED BY <1>7, <2>1, <2>2, OwnerFound
<1>8. CASE d \in DOMAIN batch /\ v = batch[d] /\ e \in DOMAIN batch /\ w = batch[e]
  BY <1>3, <1>8 DEF Accepted
<1> QED BY <1>2, <1>5, <1>6, <1>7, <1>8

\* A step that adds no version, and makes no index answerable for uniqueness.
LEMMA FewerApart ==
    ASSUME VersionsApart, \A d \in Ids : Versions(d)' \subseteq Versions(d),
           \A f \in Fields :
               HasIndex(f)' /\ (indexes[f].def.unique)' /\ filled'[f] = "whole" /\ ~NewAt(f)' =>
                   /\ HasIndex(f) /\ indexes'[f].def = indexes[f].def
                   /\ filled[f] = "whole" /\ ~NewAt(f)
    PROVE  VersionsApart'
<1> SUFFICES ASSUME NEW f \in Fields, HasIndex(f)', (indexes[f].def.unique)',
                    filled'[f] = "whole", ~NewAt(f)'
             PROVE  Apart(f)'
  BY DEF VersionsApart
<1>1. indexes'[f].def = indexes[f].def /\ Apart(f)
  BY DEF VersionsApart
<1> QED BY <1>1 DEF Apart

\* The calls that write pass the checks first.
LEMMA CallsAccepted ==
    ASSUME Calls
    PROVE  \E batch : Idle /\ Write(batch) /\ Accepted(batch)
<1>1. ASSUME NEW d \in Ids, NEW doc \in Docs, InsertOne(d, doc) \/ ReplaceOne(d, doc)
      PROVE \E b : Idle /\ Write(b) /\ Accepted(b)
  <2> WITNESS [x \in {d} |-> Stored(d, doc)]
  <2> QED BY <1>1 DEF InsertOne, ReplaceOne, Accepted
<1>2. ASSUME NEW batch, InsertMany(batch)
      PROVE \E b : Idle /\ Write(b) /\ Accepted(b)
  <2> WITNESS batch
  <2> QED BY <1>2 DEF InsertMany, Accepted, AssertUniqueBatch
<1>3. ASSUME NEW d, NEW u, UpdateOne(d, u)
      PROVE \E b : Idle /\ Write(b) /\ Accepted(b)
  <2> WITNESS [x \in {d} |-> Updated(docs[d], u)]
  <2> QED BY <1>3 DEF UpdateOne, Accepted
<1>4. ASSUME NEW found, NEW u, UpdateMany(found, u)
      PROVE \E b : Idle /\ Write(b) /\ Accepted(b)
  <2> WITNESS [d \in found |-> Updated(docs[d], u)]
  <2> QED BY <1>4 DEF UpdateMany, Accepted, AssertUniqueBatch
<1>5. ASSUME NEW d, DeleteOne(d)
      PROVE \E b : Idle /\ Write(b) /\ Accepted(b)
  <2> WITNESS [x \in {d} |-> None]
  <2> QED BY <1>5 DEF DeleteOne, Accepted
<1>6. ASSUME NEW found, DeleteMany(found)
      PROVE \E b : Idle /\ Write(b) /\ Accepted(b)
  <2> WITNESS [d \in found |-> None]
  <2> QED BY <1>6 DEF DeleteMany, Accepted
<1> QED BY <1>1, <1>2, <1>3, <1>4, <1>5, <1>6 DEF Calls

LEMMA ApartInit == Init => VersionsApart
BY DEF Init, VersionsApart, HasIndex

\* A rebuild puts the documents that are there.
LEMMA RebuildVersions ==
    ASSUME NEW f, NEW kind, Rebuild(f, kind)
    PROVE  \A d \in Ids : Versions(d)' \subseteq Versions(d)
BY DEF Rebuild, Versions

\* A new unique index is kept only if it has found the documents apart.
LEMMA FinishApart ==
    ASSUME SoundInv, VersionsApart, FinishIndex
    PROVE  VersionsApart'
<1> SUFFICES ASSUME NEW f \in Fields, HasIndex(f)', (indexes[f].def.unique)',
                    filled'[f] = "whole"
             PROVE  Apart(f)'
  BY DEF VersionsApart
<1>0. TypeOK /\ IndexSound /\ IndexFilled
  BY DEF SoundInv
<1>1. HasIndex(f) /\ indexes'[f] = indexes[f] /\ filled[f] = "whole"
  BY <1>0 DEF FinishIndex, HasIndex, TypeOK
<1>2. \A d \in Ids : Versions(d)' \subseteq Versions(d) \cap {docs[d]}
  BY <1>0 DEF FinishIndex, Versions, Nothing
<1>3. CASE ~NewAt(f)
  <2>1. Apart(f)
    BY <1>1, <1>3 DEF VersionsApart
  <2> QED BY <1>1, <1>2, <2>1 DEF Apart
<1>4. CASE NewAt(f)
  <2>1. ~HasDuplicate(indexes[f])
    BY <1>0, <1>1, <1>4 DEF FinishIndex, NewAt, HasIndex, TypeOK
  <2> SUFFICES ASSUME NEW d \in Ids, NEW e \in Ids, d # e,
                      NEW v \in Versions(d)', NEW w \in Versions(e)',
                      IsIndexed(indexes[f].def, v[f]), v[f] = w[f]
               PROVE  FALSE
    BY <1>1 DEF Apart
  <2>2. v = docs[d] /\ w = docs[e] /\ d \in Live /\ e \in Live
    BY <1>2 DEF Versions, Live
  <2>3. building # None /\ todo[d] = Keep /\ todo[e] = Keep
    BY DEF FinishIndex, Nothing
  <2>4. d \in DOMAIN indexes[f].valuesById /\ e \in DOMAIN indexes[f].valuesById
    BY <1>0, <1>1, <2>2, <2>3 DEF IndexFilled, LacksFor
  <2>5. /\ indexes[f].valuesById[d] = v[f].ord /\ indexes[f].valuesById[e] = v[f].ord
        /\ Inverted(indexes[f])
    BY <1>0, <1>1, <2>2, <2>4 DEF IndexSound
  <2>6. /\ v[f].ord \in DOMAIN indexes[f].values
        /\ d \in indexes[f].values[v[f].ord] /\ e \in indexes[f].values[v[f].ord]
    BY <2>4, <2>5 DEF Inverted, Holds
  <2> QED BY <2>1, <2>6 DEF HasDuplicate
<1> QED BY <1>3, <1>4

LEMMA ApartNext ==
    ASSUME SoundInv, VersionsApart, [Next]_vars
    PROVE  VersionsApart'
<1>0. TypeOK
  BY DEF SoundInv
<1>1. CASE Calls
  BY <1>1, CallsAccepted, WriteApart
<1>2. ASSUME NEW d \in Ids, Apply(d) PROVE VersionsApart'
  <2>1. \A e \in Ids : Versions(e)' \subseteq Versions(e)
    BY <1>0, <1>2 DEF Apply, Versions, TypeOK
  <2>2. \A f \in Fields : HasIndex(f)' => HasIndex(f) /\ indexes'[f].def = indexes[f].def
    BY <1>2, DefKept DEF Apply, HasIndex
  <2> QED BY <1>2, <2>1, <2>2, FewerApart DEF Apply, NewAt
<1>3. ASSUME NEW f \in Fields, NEW def \in IndexDefs[f], CreateIndex(f, def)
      PROVE  VersionsApart'
  <2>1. \A d \in Ids : Versions(d)' \subseteq Versions(d)
    BY <1>3, RebuildVersions DEF CreateIndex
  <2>2. NewAt(f)' /\ filled' = filled /\ \A g \in Fields : ~NewAt(g)
    BY <1>3, NoneAssumption DEF CreateIndex, Rebuild, NewAt, Idle, Rebuilds
  <2>3. \A g \in Fields : g # f => indexes'[g] = indexes[g]
    BY <1>0, <1>3 DEF CreateIndex, TypeOK
  <2> QED BY <2>1, <2>2, <2>3, FewerApart DEF HasIndex
<1>4. ASSUME NEW f \in Fields, RecreateIndex(f) PROVE VersionsApart'
  <2>1. \A d \in Ids : Versions(d)' \subseteq Versions(d)
    BY <1>4, RebuildVersions DEF RecreateIndex
  <2>2. \A g \in Fields : ~NewAt(g)
    BY <1>4, NoneAssumption DEF RecreateIndex, NewAt, Idle, Rebuilds
  <2> QED BY <1>4, <2>1, <2>2, FewerApart DEF RecreateIndex, Rebuild, HasIndex
<1>5. CASE RefreshIndexes
  <2>1. \A d \in Ids : Versions(d)' \subseteq Versions(d)
    BY <1>5, RebuildVersions DEF RefreshIndexes
  <2>2. \A g \in Fields : ~NewAt(g)
    BY <1>5, NoneAssumption DEF RefreshIndexes, NewAt, Idle, Rebuilds
  <2>3. \A g \in Fields : HasIndex(g)' => HasIndex(g) /\ indexes'[g].def = indexes[g].def
    BY <1>5 DEF RefreshIndexes, HasIndex, NewIndex
  <2>4. filled' = filled
    BY <1>5 DEF RefreshIndexes, Rebuild
  <2> QED BY <2>1, <2>2, <2>3, <2>4, FewerApart
<1>6. CASE FinishIndex
  BY <1>6, FinishApart
<1>7. CASE ReadError
  <2>1. \A d \in Ids : Versions(d)' \subseteq Versions(d)
    BY <1>7 DEF ReadError, Versions, Nothing
  <2>2. \A g \in Fields : HasIndex(g)' /\ filled'[g] = "whole" =>
            HasIndex(g) /\ indexes'[g] = indexes[g] /\ filled[g] = "whole" /\ ~NewAt(g)
    BY <1>0, <1>7 DEF ReadError, HasIndex, NewAt, TypeOK
  <2> QED BY <2>1, <2>2, FewerApart
<1>8. ASSUME NEW f \in Fields, DropIndex(f) PROVE VersionsApart'
  <2>1. \A d \in Ids : Versions(d)' \subseteq Versions(d)
    BY <1>8 DEF DropIndex, Versions
  <2>2. \A g \in Fields : HasIndex(g)' =>
            HasIndex(g) /\ indexes'[g] = indexes[g] /\ filled'[g] = filled[g]
    BY <1>0, <1>8 DEF DropIndex, HasIndex, TypeOK
  <2>3. building' = building
    BY <1>8 DEF DropIndex
  <2> QED BY <2>1, <2>2, <2>3, FewerApart DEF NewAt
<1>9. CASE UNCHANGED vars
  BY <1>9 DEF vars, VersionsApart, Apart, Versions, NewAt, HasIndex
<1> QED BY <1>1, <1>2, <1>3, <1>4, <1>5, <1>6, <1>7, <1>8, <1>9 DEF Next, Calls

\* Between two calls, and between any two writes of a batch, no two documents have
\* the same value of a unique index, unless a failed rebuild has let them in.
THEOREM UniqueValuesKept == Spec => []UniqueValues
<1>1. Init => SoundInv /\ VersionsApart
  BY SoundInit, ApartInit
<1>2. SoundInv /\ VersionsApart /\ [Next]_vars => (SoundInv /\ VersionsApart)'
  BY SoundNext, ApartNext
<1>3. SoundInv /\ VersionsApart => UniqueValues
  <2> SUFFICES ASSUME SoundInv, VersionsApart, building = None,
                      NEW f \in Fields, NEW d \in Live, NEW e \in Live,
                      HasIndex(f), filled[f] = "whole", indexes[f].def.unique,
                      d # e, IsIndexed(indexes[f].def, docs[d][f])
               PROVE  docs[d][f] # docs[e][f]
    BY DEF UniqueValues
  <2>1. ~NewAt(f)
    BY NoneAssumption DEF NewAt, Rebuilds
  <2>2. Apart(f)
    BY <2>1 DEF VersionsApart
  <2>3. docs[d] \in Versions(d) /\ docs[e] \in Versions(e) /\ d \in Ids /\ e \in Ids
    BY NoneAssumption DEF SoundInv, TypeOK, Live, Versions
  <2> QED BY <2>2, <2>3 DEF Apart
<1> QED BY <1>1, <1>2, <1>3, PTL DEF Spec

-----------------------------------------------------------------------------
(* What a scan leaves out.                                                 *)

\* A value satisfies one operator an index can use, and has the index's type:
\* then the operator's operand has it too, or it is an infinite bound.
LEMMA FitsOperator ==
    ASSUME NEW def, def.type \in {"string", "number"}, NEW v, IsIndexed(def, v),
           NEW op, op.type \in Usable(def) \ {"in"}, EvaluateFieldOperator(op, v),
           def.type = "number" => ~InfiniteBound(op)
    PROVE  IsIndexed(def, op.value)
<1>1. op.type # "not"
  BY DEF Usable, RangeTypes
<1>2. EvaluatePlain(op, v)
  BY <1>1 DEF EvaluateFieldOperator
<1>3. CASE op.type = "eq"
  BY <1>2, <1>3 DEF EvaluatePlain, ValuesEqual, IsIndexed, IsString, IsFinite
<1>4. CASE def.type = "number" /\ op.type \in RangeTypes
  <2>1. v.type = "number" /\ op.value.type # "infinity"
    BY <1>4 DEF IsIndexed, IsFinite, InfiniteBound
  <2>2. v # Infinity(1) /\ v # Infinity(-1) /\ op.value # Infinity(1) /\ op.value # Infinity(-1)
    BY <2>1 DEF Infinity, Scalar
  <2>3. Exceeds(v, op.value) \/ Exceeds(op.value, v) \/ Levels(v, op.value)
    BY <1>2, <1>4 DEF EvaluatePlain, RangeTypes
  <2>4. IsFinite(op.value)
    BY <2>1, <2>2, <2>3 DEF Exceeds, Levels, IsString
  <2> QED BY <1>4, <2>4 DEF IsIndexed
<1> QED BY <1>3, <1>4 DEF Usable

\* Such a value lies within the bounds a number index reads from operators.
LEMMA WithinBounds ==
    ASSUME NEW operators, NEW v, v.type = "number", v.ord \in Int,
           NEW i \in DOMAIN operators, SatisfiesAll(operators, v),
           \A j \in DOMAIN operators : Comparable(operators[j]),
           operators[i].type \in RangeTypes => IsFinite(operators[i].value)
    PROVE  CASE operators[i].type = "gt"  -> v.ord > operators[i].value.ord
             [] operators[i].type = "gte" -> v.ord >= operators[i].value.ord
             [] operators[i].type = "lt"  -> v.ord < operators[i].value.ord
             [] operators[i].type = "lte" -> v.ord <= operators[i].value.ord
             [] OTHER                     -> TRUE
<1> DEFINE op == operators[i]
<1>1. CASE op.type \in RangeTypes
  <2>1. EvaluatePlain(op, v)
    BY <1>1 DEF SatisfiesAll, EvaluateFieldOperator, RangeTypes
  <2>2. op.value \in Values /\ op.value.type = "number"
    BY <1>1 DEF Comparable, RangeTypes, IsFinite
  <2>3. op.value.ord \in Int
    BY <2>2 DEF Values, Scalars
  <2>4. v # Infinity(1) /\ v # Infinity(-1) /\ op.value # Infinity(1) /\ op.value # Infinity(-1)
    BY <2>2 DEF Infinity, Scalar
  <2>5. ~IsString(v) /\ ~IsString(op.value)
    BY <2>2 DEF IsString
  <2>6. /\ Exceeds(v, op.value) => v.ord > op.value.ord
        /\ Exceeds(op.value, v) => op.value.ord > v.ord
        /\ Levels(v, op.value) => v.ord = op.value.ord
    BY <2>4, <2>5 DEF Exceeds, Levels
  <2> HIDE DEF op
  <2>7. CASE op.type = "gt"
    BY <2>1, <2>3, <2>6, <2>7 DEF EvaluatePlain, op
  <2>8. CASE op.type = "gte"
    BY <2>1, <2>3, <2>6, <2>8 DEF EvaluatePlain, op
  <2>9. CASE op.type = "lt"
    BY <2>1, <2>3, <2>6, <2>9 DEF EvaluatePlain, op
  <2>10. CASE op.type = "lte"
    BY <2>1, <2>3, <2>6, <2>10 DEF EvaluatePlain, op
  <2> QED BY <1>1, <2>7, <2>8, <2>9, <2>10 DEF RangeTypes, op
<1>2. CASE op.type \notin RangeTypes
  BY <1>2 DEF RangeTypes
<1> QED BY <1>1, <1>2

\* An equality operator a value satisfies lists its key.
LEMMA KeyListed ==
    ASSUME NEW def, def.type \in {"string", "number"}, NEW v, IsIndexed(def, v),
           NEW op, op.type \in {"eq", "in"}, EvaluateFieldOperator(op, v)
    PROVE  v.ord \in EqualityKeys(def, op)
<1>1. EvaluatePlain(op, v)
  BY DEF EvaluateFieldOperator
<1>2. ~IsContainer(v)
  BY DEF IsIndexed, IsString, IsFinite, IsContainer
<1>3. CASE op.type = "eq"
  BY <1>1, <1>2, <1>3 DEF EvaluatePlain, ValuesEqual, EqualityKeys
<1>4. CASE op.type = "in"
  <2>1. PICK i \in DOMAIN op.values : ValuesEqual(v, op.values[i])
    BY <1>1, <1>4 DEF EvaluatePlain
  <2>2. op.values[i] = v
    BY <1>2, <2>1 DEF ValuesEqual
  <2> QED BY <1>4, <2>2 DEF EqualityKeys
<1> QED BY <1>3, <1>4

\* An index that answers a predicate gives every document it holds under a
\* value that satisfies it.
LEMMA ScanKeepsMatch ==
    ASSUME NEW idx, NEW operators, NEW v, NEW d,
           idx.def.type \in {"string", "number"}, IsIndexed(idx.def, v), v.ord \in Int,
           d \in Bucket(idx, v.ord),
           v.ord \in idx.sortedValues,
           DOMAIN operators = 1 .. Len(operators), Len(operators) \in Nat,
           \A i \in DOMAIN operators : Comparable(operators[i]),
           idx.def.type = "number" =>
               \A i \in DOMAIN operators : ~InfiniteBound(operators[i]),
           SatisfiesAll(operators, v), Scan(idx, operators) # NoScan
    PROVE  d \in Scan(idx, operators)
<1> DEFINE stops == Stops(idx.def, operators)
           eqs   == Equalities(operators)
<1>1. \A i \in DOMAIN operators : ~Misfit(idx.def, operators[i])
  BY FitsOperator DEF Misfit, SatisfiesAll
<1>2. operators # << >> /\ stops = {}
        /\ Scan(idx, operators) = UNION {Bucket(idx, k) : k \in ScanKeys(idx, operators)}
  BY <1>1 DEF Scan, Stops
<1>3. \A i \in DOMAIN operators : operators[i].type \in Usable(idx.def)
  BY <1>2 DEF Stops
<1>4. \A i \in eqs : v.ord \in EqualityKeys(idx.def, operators[i])
  BY KeyListed DEF Equalities, SatisfiesAll
<1>5. CASE idx.def.type = "string"
  <2>1. 1 \in DOMAIN operators
    BY <1>2
  <2>2. 1 \in eqs
    BY <1>3, <1>5, <2>1 DEF Usable, Equalities
  <2>3. v.ord \in ScanKeys(idx, operators)
    BY <1>4, <1>5, <2>2 DEF ScanKeys
  <2> QED BY <1>2, <2>3
<1>6. CASE idx.def.type = "number"
  <2>1. v.type = "number"
    BY <1>6 DEF IsIndexed, IsFinite
  <2>2. ASSUME NEW i \in DOMAIN operators, operators[i].type \in RangeTypes
        PROVE IsFinite(operators[i].value)
    <3>1. ~Misfit(idx.def, operators[i]) /\ operators[i].type \in Usable(idx.def) \ {"in"}
      BY <1>1, <1>6, <2>2 DEF Usable, RangeTypes
    <3> QED BY <1>6, <3>1 DEF Misfit, IsIndexed
  <2>3. InRange(operators, v.ord)
    BY <2>1, <2>2, WithinBounds DEF InRange
  <2>4. CASE eqs = {}
    BY <1>2, <1>6, <2>3, <2>4 DEF ScanKeys
  <2>5. CASE eqs # {}
    <3>1. eqs \subseteq 1 .. Len(operators)
      BY DEF Equalities
    <3>2. Last(eqs) \in eqs
      BY <2>5, <3>1, LastExists
    <3> HIDE DEF eqs
    <3>3. v.ord \in EqualityKeys(idx.def, operators[Last(eqs)])
      BY <1>4, <3>2
    <3>4. v.ord \in ScanKeys(idx, operators)
      BY <1>6, <2>3, <2>5, <3>3 DEF ScanKeys, eqs
    <3> QED BY <1>2, <3>4
  <2> QED BY <2>4, <2>5
<1> QED BY <1>5, <1>6

\* A scan gives documents of its buckets only.
LEMMA ScanInBuckets ==
    ASSUME NEW idx, NEW operators, Scan(idx, operators) # NoScan, NEW d \in Scan(idx, operators)
    PROVE  \E k \in DOMAIN idx.values : d \in idx.values[k]
BY DEF Scan, Bucket

-----------------------------------------------------------------------------
(* Found documents are live, and are stored under their own _id.           *)

LEMMA PlansLive ==
    ASSUME IndexSound, NEW c \in Compiled, NEW candidates \in Plans(c), NEW d \in candidates
    PROVE  d \in Live
<1> DEFINE scans == Scans(PlanPredicates(c))
<1>1. CASE scans = {}
  BY <1>1 DEF Plans
<1>2. CASE scans # {}
  <2>1. candidates \in scans
    BY <1>2 DEF Plans
  <2>2. PICK p \in c.fields : candidates \in ScansOf(p) /\ candidates # NoScan
    BY <2>1 DEF Scans, PlanPredicates
  <2>3. CASE candidates = PrimaryScan(Live, p.operators)
    BY <2>2, <2>3, ScanInBuckets DEF PrimaryScan
  <2>4. CASE HasIndex(p.field) /\ candidates = Scan(indexes[p.field], p.operators)
    <3>1. PICK k \in DOMAIN indexes[p.field].values : d \in indexes[p.field].values[k]
      BY <2>2, <2>4, ScanInBuckets
    <3>2. p.field \in Fields
      BY QueriesAssumption
    <3> QED BY <2>4, <3>1, <3>2 DEF IndexSound, Inverted, Holds
  <2> QED BY <2>2, <2>3, <2>4 DEF ScansOf
<1> QED BY <1>1, <1>2

IdsMatch ==
    /\ \A d \in Live : docs[d]["_id"] = String(d)
    /\ \A d \in Ids : todo[d] \notin {Keep, None} => todo[d]["_id"] = String(d)

LEMMA ResultsLive ==
    ASSUME IndexSound, NEW found \in Results
    PROVE  found \subseteq Live
<1>1. PICK c \in Compiled : found \in Found(c)
  BY DEF Results
<1>2. PICK candidates \in Plans(c) : found = {d \in candidates : Evaluate(c, docs[d])}
  BY <1>1 DEF Found
<1> QED BY <1>2, PlansLive

LEMMA UpdatedKeepsId ==
    ASSUME NEW d, NEW u, Updated(docs[d], u) # Throws, InBounds(Updated(docs[d], u))
    PROVE  Updated(docs[d], u)["_id"] = docs[d]["_id"]
<1> DEFINE doc == ApplyUpdate(docs[d], u)
<1>1. Updated(docs[d], u) = [doc EXCEPT !["_id"] = docs[d]["_id"]]
  BY DEF Updated
<1> HIDE DEF doc
<1>2. DOMAIN Updated(docs[d], u) = Fields /\ "_id" \in Fields
  BY CollectionAssumption DEF InBounds, Documents
<1>3. "_id" \in DOMAIN doc
  BY <1>1, <1>2
<1> QED BY <1>1, <1>3

LEMMA IdsInit == Init => IdsMatch
BY DEF Init, IdsMatch, Live, Nothing

LEMMA IdsNext ==
    ASSUME SoundInv, IdsMatch, [Next]_vars
    PROVE  IdsMatch'
<1>0. TypeOK /\ IndexSound
  BY DEF SoundInv
<1>1. ASSUME NEW batch, Write(batch),
             \A d \in DOMAIN batch \cap Ids : batch[d] # None => batch[d]["_id"] = String(d)
      PROVE  IdsMatch'
  BY <1>1 DEF Write, IdsMatch, Live
<1>2. ASSUME NEW d \in Ids, NEW doc \in Docs, InsertOne(d, doc) \/ ReplaceOne(d, doc)
      PROVE  IdsMatch'
  BY <1>1, <1>2, StoredType DEF InsertOne, ReplaceOne
<1>3. ASSUME NEW S \in SUBSET Ids, NEW batch \in [S -> Docs],
             InsertMany([d \in S |-> Stored(d, batch[d])])
      PROVE  IdsMatch'
  BY <1>1, <1>3, StoredType DEF InsertMany
<1>4. ASSUME NEW d \in UNION Results, NEW u, UpdateOne(d, u)
      PROVE  IdsMatch'
  <2>1. docs[d]["_id"] = String(d)
    BY <1>0, ResultsLive DEF IdsMatch
  <2>2. Updated(docs[d], u)["_id"] = String(d)
    BY <1>4, <2>1, UpdatedKeepsId DEF UpdateOne
  <2> QED BY <1>1, <1>4, <2>2 DEF UpdateOne
<1>5. ASSUME NEW found \in Results, NEW u, UpdateMany(found, u)
      PROVE  IdsMatch'
  <2> DEFINE batch == [d \in found |-> Updated(docs[d], u)]
  <2>1. ASSUME NEW d \in found PROVE batch[d]["_id"] = String(d)
    <3>1. docs[d]["_id"] = String(d)
      BY <1>0, ResultsLive DEF IdsMatch
    <3> QED BY <1>5, <3>1, UpdatedKeepsId DEF UpdateMany
  <2>2. Write(batch) /\ DOMAIN batch = found
    BY <1>5 DEF UpdateMany
  <2> HIDE DEF batch
  <2> QED BY <1>1, <2>1, <2>2
<1>6. ASSUME NEW d, DeleteOne(d) PROVE IdsMatch'
  BY <1>1, <1>6 DEF DeleteOne
<1>7. ASSUME NEW found, DeleteMany(found) PROVE IdsMatch'
  BY <1>1, <1>7 DEF DeleteMany
<1>8. ASSUME NEW d \in Ids, Apply(d) PROVE IdsMatch'
  BY <1>0, <1>8 DEF Apply, IdsMatch, Live, TypeOK
<1>9. ASSUME NEW f, NEW kind, Rebuild(f, kind) PROVE IdsMatch'
  BY <1>9 DEF Rebuild, IdsMatch, Live
<1>10. ASSUME \/ \E f \in Fields : \E def : CreateIndex(f, def)
              \/ \E f \in Fields : RecreateIndex(f) \/ DropIndex(f)
              \/ RefreshIndexes \/ FinishIndex \/ ReadError
       PROVE  IdsMatch'
  <2>1. ASSUME NEW f, DropIndex(f) PROVE IdsMatch'
    BY <2>1 DEF DropIndex, IdsMatch, Live
  <2>2. ASSUME FinishIndex \/ ReadError PROVE IdsMatch'
    BY <2>2 DEF FinishIndex, ReadError, IdsMatch, Live, Nothing
  <2> QED BY <1>9, <1>10, <2>1, <2>2 DEF CreateIndex, RecreateIndex, RefreshIndexes
<1>11. ASSUME UNCHANGED vars PROVE IdsMatch'
  BY <1>11 DEF vars, IdsMatch, Live
<1> QED BY <1>2, <1>3, <1>4, <1>5, <1>6, <1>7, <1>8, <1>10, <1>11 DEF Next

\* Whatever replaced or updated it, a document keeps its _id.
THEOREM IdsKept == Spec => []IdKept
<1>1. Init => SoundInv /\ IdsMatch
  BY SoundInit, IdsInit
<1>2. SoundInv /\ IdsMatch /\ [Next]_vars => (SoundInv /\ IdsMatch)'
  BY SoundNext, IdsNext
<1>3. IdsMatch => IdKept
  BY DEF IdsMatch, IdKept
<1> QED BY <1>1, <1>2, <1>3, PTL DEF Spec

-----------------------------------------------------------------------------
(* Indexes narrow, documents filter.                                       *)

LEMMA ScalarOrd ==
    ASSUME NEW v \in Values, NEW def, IsIndexed(def, v)
    PROVE  v.ord \in Int
BY DEF Values, Scalars, IsIndexed, IsString, IsFinite

LEMMA SecondaryKeepsMatch ==
    ASSUME SoundInv, Settled, NEW c \in Compiled, NEW d \in Matching(c), NEW p \in c.fields,
           Covered(p, d), HasIndex(p.field), Scan(indexes[p.field], p.operators) # NoScan
    PROVE  d \in Scan(indexes[p.field], p.operators)
<1> DEFINE f == p.field
           idx == indexes[f]
           v == docs[d][f]
<1>1. d \in Live /\ d \in Ids /\ SatisfiesAll(p.operators, v)
  BY DEF Matching, Evaluate, EvaluateConjunction, Live
<1>2. /\ f \in Fields /\ DOMAIN p.operators = 1 .. Len(p.operators) /\ Len(p.operators) \in Nat
      /\ \A i \in DOMAIN p.operators : Comparable(p.operators[i])
  BY QueriesAssumption
<1>3. IsIndexed(idx.def, v) /\ \A i \in DOMAIN p.operators : ~InfiniteBound(p.operators[i])
  BY DEF Covered
<1>4. v \in Values
  BY <1>1, <1>2 DEF SoundInv, TypeOK, Live, Documents
<1>5. v.ord \in Int
  BY <1>3, <1>4, ScalarOrd
<1>6. idx.def.type \in {"string", "number"}
  BY <1>2, CollectionAssumption DEF SoundInv, TypeOK
<1>7. d \in DOMAIN idx.valuesById
  BY <1>1, <1>2, <1>3 DEF SoundInv, IndexFilled, LacksFor, Settled, Idle
<1>8. Inverted(idx) /\ idx.valuesById[d] = v.ord
  BY <1>2, <1>7 DEF SoundInv, IndexSound
<1>9. d \in Bucket(idx, v.ord) /\ v.ord \in idx.sortedValues
  BY <1>1, <1>7, <1>8 DEF Inverted, Holds, Bucket
<1> HIDE DEF f, idx, v
<1>10. d \in Scan(idx, p.operators)
  BY <1>1, <1>2, <1>3, <1>5, <1>6, <1>9, ScanKeepsMatch DEF idx, f
<1> QED BY <1>10 DEF idx, f

LEMMA PrimaryKeepsMatch ==
    ASSUME IdsMatch, NEW c \in Compiled, NEW d \in Matching(c), NEW p \in c.fields,
           p.field = "_id", PrimaryScan(Live, p.operators) # NoScan
    PROVE  d \in PrimaryScan(Live, p.operators)
<1> DEFINE idx == [def |-> [type |-> "string", unique |-> TRUE],
                   values |-> [e \in Live |-> {e}],
                   valuesById |-> [e \in Live |-> e], sortedValues |-> Live]
           v == String(d)
<1>1. d \in Live /\ d \in Int /\ SatisfiesAll(p.operators, v)
  <2>1. d \in Live /\ d \in Ids /\ docs[d] # None
    BY DEF Matching, Live
  <2>2. docs[d]["_id"] = String(d)
    BY <2>1 DEF IdsMatch
  <2>3. SatisfiesAll(p.operators, docs[d][p.field])
    BY DEF Matching, Evaluate, EvaluateConjunction
  <2> QED BY <2>1, <2>2, <2>3, CollectionAssumption
<1>2. /\ DOMAIN p.operators = 1 .. Len(p.operators) /\ Len(p.operators) \in Nat
      /\ \A i \in DOMAIN p.operators : Comparable(p.operators[i])
  BY QueriesAssumption
<1>3. IsIndexed(idx.def, v) /\ v.ord = d
  BY DEF IsIndexed, IsString, String, Scalar
<1>4. d \in Bucket(idx, v.ord) /\ v.ord \in idx.sortedValues /\ idx.def.type = "string"
  BY <1>1, <1>3 DEF Bucket
<1>5. Scan(idx, p.operators) = PrimaryScan(Live, p.operators)
  BY DEF PrimaryScan
<1> HIDE DEF idx, v
<1> QED BY <1>1, <1>2, <1>3, <1>4, <1>5, ScanKeepsMatch

\* Whatever indexes there are and whichever the planner takes, no matching
\* document is lost whose values are of the types of the indexes that answer.
THEOREM PlansComplete == Spec => []PlanComplete
<1>1. SoundInv /\ IdsMatch => PlanComplete
  <2> SUFFICES ASSUME SoundInv, IdsMatch, Settled,
                      NEW c \in Compiled, NEW d \in Matching(c),
                      \A p \in c.fields : Covered(p, d),
                      NEW candidates \in Plans(c)
               PROVE  d \in candidates
    BY DEF PlanComplete
  <2>1. CASE Scans(PlanPredicates(c)) = {}
    BY <2>1 DEF Plans, Matching
  <2>2. CASE Scans(PlanPredicates(c)) # {}
    <3>1. candidates \in Scans(PlanPredicates(c))
      BY <2>2 DEF Plans
    <3>2. PICK p \in c.fields : candidates \in ScansOf(p) /\ candidates # NoScan
      BY <3>1 DEF Scans, PlanPredicates
    <3> QED BY <3>2, PrimaryKeepsMatch, SecondaryKeepsMatch DEF ScansOf
  <2> QED BY <2>1, <2>2
<1>2. Init => SoundInv /\ IdsMatch
  BY SoundInit, IdsInit
<1>3. SoundInv /\ IdsMatch /\ [Next]_vars => (SoundInv /\ IdsMatch)'
  BY SoundNext, IdsNext
<1> QED BY <1>1, <1>2, <1>3, PTL DEF Spec

-----------------------------------------------------------------------------
(* The sort order.                                                         *)

\* Numbers lie between the infinities.
Tier(v) == IF v.type = "infinity" THEN v.ord ELSE 0

\* Between numbers, > is the order by tier and then by value.
LEMMA NumberOrder ==
    ASSUME NEW l \in Scalars, NEW r \in Scalars, IsNumber(l), IsNumber(r),
           ~IsUnset(l), ~IsUnset(r)
    PROVE  Exceeds(r, l) <=> Tier(l) < Tier(r) \/ (Tier(l) = 0 /\ Tier(r) = 0 /\ l.ord < r.ord)
<1>1. ~IsString(l) /\ ~IsString(r) /\ l # NaN /\ r # NaN
  BY DEF IsNumber, IsString, IsUnset, NaN, Scalar
<1>2. /\ l = Infinity(1) <=> l.type = "infinity" /\ l.ord = 1
      /\ l = Infinity(-1) <=> l.type = "infinity" /\ l.ord = -1
      /\ r = Infinity(1) <=> r.type = "infinity" /\ r.ord = 1
      /\ r = Infinity(-1) <=> r.type = "infinity" /\ r.ord = -1
  BY DEF Infinity, Scalar, Scalars
<1>3. \A v \in {l, r} : \/ v.type = "number" /\ v.ord \in Int
                        \/ v.type = "infinity" /\ v.ord \in {-1, 1}
  BY DEF Scalars, IsNumber, IsUnset
<1> QED BY <1>1, <1>2, <1>3 DEF Exceeds, Tier, IsFinite, IsNumber

\* What decides between two scalars that are set.
LEMMA SetOrder ==
    ASSUME NEW l \in Scalars, NEW r \in Scalars, ~IsUnset(l), ~IsUnset(r)
    PROVE  SortsBefore(l, r) <=>
              \/ TypeRank(l) < TypeRank(r)
              \/ TypeRank(l) = TypeRank(r)
                 /\ \/ Tier(l) < Tier(r)
                    \/ Tier(l) = 0 /\ Tier(r) = 0 /\ l.ord < r.ord
<1>1. TypeRank(l) = 2 <=> IsNumber(l)
  BY DEF TypeRank, IsNumber
<1>2. TypeRank(r) = 2 <=> IsNumber(r)
  BY DEF TypeRank, IsNumber
<1>3. CASE TypeRank(l) = 2 /\ TypeRank(r) = 2
  BY <1>1, <1>2, <1>3, NumberOrder DEF SortsBefore
<1>4. CASE TypeRank(l) # TypeRank(r)
  BY <1>4 DEF SortsBefore, TypeRank
<1>5. CASE TypeRank(l) = TypeRank(r) /\ TypeRank(l) # 2
  BY <1>1, <1>2, <1>5 DEF SortsBefore, Tier, IsNumber
<1> QED BY <1>3, <1>4, <1>5

\* A value that sorts before another comes before or after any third in keeping.
LEMMA SortsInOrder ==
    ASSUME NEW x \in Values, NEW y \in Values, NEW z \in Values,
           ~SortThrows(x, y), ~SortThrows(y, z), ~SortThrows(x, z), SortsBefore(x, y)
    PROVE  ~SortsBefore(y, x) /\ (SortsBefore(x, z) \/ SortsBefore(z, y))
<1>1. \A v \in Values : IsContainer(v) \/ v \in Scalars
  BY DEF Values, IsContainer
<1>2. ~IsUnset(y)
  BY DEF SortsBefore
<1>3. CASE IsUnset(x)
  BY <1>2, <1>3 DEF SortsBefore
<1>4. CASE ~IsUnset(x)
  <2>1. x \in Scalars /\ y \in Scalars
    BY <1>1, <1>2, <1>4 DEF SortThrows
  <2>2. \A v \in Scalars : TypeRank(v) \in 1 .. 3 /\ Tier(v) \in -1 .. 1 /\ v.ord \in Int
    BY DEF TypeRank, Tier, Scalars
  <2>3. ~SortsBefore(y, x)
    BY <2>1, <2>2, <1>2, <1>4, SetOrder
  <2>4. CASE IsUnset(z)
    BY <1>2, <2>3, <2>4 DEF SortsBefore
  <2>5. CASE ~IsUnset(z)
    <3>1. z \in Scalars
      BY <1>1, <1>2, <2>5 DEF SortThrows
    <3>2. SortsBefore(x, z) \/ SortsBefore(z, y)
      BY <2>1, <2>2, <3>1, <1>2, <1>4, <2>5, SetOrder
    <3> QED BY <2>3, <3>2
  <2> QED BY <2>4, <2>5
<1> QED BY <1>3, <1>4

\* However documents came to be, sorting by a field is by an order.
THEOREM SortsAreOrdered == Spec => []SortIsOrder
<1>1. TypeOK => SortIsOrder
  <2> SUFFICES ASSUME TypeOK, NEW f \in Fields, NEW a \in Live, NEW b \in Live, NEW c \in Docs,
                      ~SortThrows(docs[a][f], docs[b][f]), ~SortThrows(docs[b][f], c[f]),
                      ~SortThrows(docs[a][f], c[f]), SortsBefore(docs[a][f], docs[b][f])
               PROVE  /\ ~SortsBefore(docs[b][f], docs[a][f])
                      /\ SortsBefore(docs[a][f], c[f]) \/ SortsBefore(c[f], docs[b][f])
    BY DEF SortIsOrder
  <2>1. docs[a] \in Documents /\ docs[b] \in Documents /\ c \in Documents
    BY CollectionAssumption DEF TypeOK, Live
  <2>2. docs[a][f] \in Values /\ docs[b][f] \in Values /\ c[f] \in Values
    BY <2>1 DEF Documents
  <2> QED BY <2>2, SortsInOrder
<1> QED BY <1>1, TypeCorrect, PTL

-----------------------------------------------------------------------------
(* distinct().                                                             *)

\* What the loop of distinct() carries, and one round of it.
Accumulators == [values : Seq(Values), full : BOOLEAN]

DistinctRound(acc, v, limit) ==
    IF acc.full \/ v = Missing \/ Listed(acc.values, v) THEN acc
    ELSE IF Len(acc.values) >= limit THEN [acc EXCEPT !.full = TRUE]
    ELSE [acc EXCEPT !.values = Append(@, v)]

\* A round leaves an accumulator.
LEMMA RoundType ==
    ASSUME NEW acc \in Accumulators, NEW v \in Values, NEW limit \in Nat
    PROVE  DistinctRound(acc, v, limit) \in Accumulators
<1>1. /\ acc = [values |-> acc.values, full |-> acc.full]
      /\ acc.values \in Seq(Values) /\ acc.full \in BOOLEAN
  BY DEF Accumulators
<1>2. Append(acc.values, v) \in Seq(Values)
  BY <1>1
<1>3. [acc EXCEPT !.full = TRUE] \in Accumulators
  BY DEF Accumulators
<1>4. [acc EXCEPT !.values = Append(@, v)] \in Accumulators
  BY <1>2 DEF Accumulators
<1> QED BY <1>3, <1>4 DEF DistinctRound

\* r[i] is the accumulator after i documents.
Collected(r, order, f, limit) ==
    /\ r[0] = [values |-> << >>, full |-> FALSE]
    /\ \A i \in 1 .. Len(order) : r[i] = DistinctRound(r[i - 1], docs[order[i]][f], limit)
    /\ Distinct(order, f, limit) = r[Len(order)]

\* Distinct is where its loop over the documents ends.
LEMMA DistinctUnfolds ==
    ASSUME NEW order \in Seq(Ids), NEW f, NEW limit \in Nat,
           \A i \in 1 .. Len(order) : docs[order[i]][f] \in Values
    PROVE  \E r \in [0 .. Len(order) -> Accumulators] : Collected(r, order, f, limit)
<1> DEFINE n == Len(order)
           base == [values |-> << >>, full |-> FALSE]
           step == [ia \in (1 .. n) \X Accumulators |-> DistinctRound(ia[2], docs[order[ia[1]]][f], limit)]
           body(g) == [i \in 0 .. Len(order) |->
                          IF i = 0 THEN base ELSE DistinctRound(g[i - 1], docs[order[i]][f], limit)]
           h == CHOOSE g : g = body(g)
<1>1. Distinct(order, f, limit) = h[Len(order)]
  BY DEF Distinct, DistinctRound
<1>2. n \in Nat /\ base \in Accumulators
  BY DEF Accumulators
<1>3. step \in [(1 .. n) \X Accumulators -> Accumulators]
  BY RoundType
<1>4. PICK r \in [0 .. n -> Accumulators] : Unfolds(r, n, base, step)
  <2> HIDE DEF step, base, n
  <2> QED BY <1>2, <1>3, RecursionExists
<1>5. ASSUME NEW i \in 1 .. n
      PROVE  r[i] = DistinctRound(r[i - 1], docs[order[i]][f], limit)
  <2>1. i \in 0 .. n /\ i # 0 /\ i - 1 \in 0 .. n
    BY <1>2
  <2>2. r[i] = step[<<i, r[i - 1]>>]
    <3> HIDE DEF step, base, n
    <3> QED BY <1>4, <2>1 DEF Unfolds
  <2>3. <<i, r[i - 1]>> \in (1 .. n) \X Accumulators
    <3> HIDE DEF n
    <3> QED BY <1>4, <2>1
  <2> HIDE DEF n
  <2> QED BY <2>2, <2>3
<1>6. r[0] = base
  <2> HIDE DEF step, base
  <2> QED BY <1>2, <1>4 DEF Unfolds
<1>7. r = body(r)
  <2>1. ASSUME NEW i \in 0 .. n
        PROVE  r[i] = body(r)[i]
    <3> HIDE DEF base
    <3>1. CASE i = 0
      BY <1>6, <3>1
    <3>2. CASE i # 0
      <4>1. i \in 1 .. n
        BY <3>2
      <4> QED BY <1>5, <3>2, <4>1
    <3> QED BY <3>1, <3>2
  <2>2. body(r) = [i \in 0 .. n |-> body(r)[i]]
    OBVIOUS
  <2>3. r = [i \in 0 .. n |-> r[i]]
    BY <1>4
  <2> HIDE DEF body
  <2> QED BY <2>1, <2>2, <2>3
<1>8. h = body(h)
  <2> HIDE DEF body
  <2> QED BY <1>7
<1>9. \A k \in 0 .. n : h[k] = r[k]
  <2> DEFINE T == {k \in 0 .. n : h[k] = r[k]}
  <2>1. 0 \in T
    <3>1. 0 \in 0 .. n
      BY <1>2
    <3>2. body(h)[0] = base
      BY <3>1
    <3> HIDE DEF body, h, base, n
    <3> QED BY <1>6, <1>8, <3>1, <3>2
  <2>2. ASSUME NEW k \in 0 .. n - 1, k \in T
        PROVE  k + 1 \in T
    <3>1. k + 1 \in 0 .. n /\ k + 1 \in 1 .. n /\ k + 1 # 0 /\ k + 1 - 1 = k
      BY <1>2
    <3>2. body(h)[k + 1] = DistinctRound(h[k], docs[order[k + 1]][f], limit)
      <4> HIDE DEF h, base
      <4> QED BY <3>1
    <3>3. h[k + 1] = DistinctRound(r[k], docs[order[k + 1]][f], limit)
      <4> HIDE DEF h, base, body
      <4> QED BY <1>8, <2>2, <3>2
    <3>4. r[k + 1] = DistinctRound(r[k], docs[order[k + 1]][f], limit)
      BY <1>5, <3>1
    <3> HIDE DEF h, base, body
    <3> QED BY <3>1, <3>3, <3>4
  <2>3. \A k \in 0 .. n : k \in T
    <3> HIDE DEF T, n
    <3> QED BY <1>2, <2>1, <2>2, InductionUpTo
  <2> QED BY <2>3
<1>10. Distinct(order, f, limit) = r[n]
  <2> HIDE DEF h, base, body
  <2> QED BY <1>1, <1>2, <1>9
<1> HIDE DEF step, body, h
<1> QED BY <1>4, <1>5, <1>6, <1>10 DEF Collected

\* === and equal JSON texts make an equivalence of the values that are not NaN.
LEMMA EqualityLaws ==
    ASSUME NEW u, NEW v, NEW w
    PROVE  /\ v # NaN => ValuesEqual(v, v)
           /\ ValuesEqual(u, v) => ValuesEqual(v, u)
           /\ ValuesEqual(u, v) /\ ValuesEqual(v, w) => ValuesEqual(u, w)
<1>1. u.type = v.type => (IsContainer(u) <=> IsContainer(v))
  BY DEF IsContainer
<1>2. IsContainer(v) \/ ~IsContainer(v)
  OBVIOUS
<1> QED BY <1>1 DEF ValuesEqual

\* The first k documents.
Seen(order, k) == {order[i] : i \in 1 .. k}

\* R holds one document for each value found, no two of them with equal values.
Represents(R, f) ==
    /\ \A d \in R : docs[d][f] # Missing
    /\ \A d, e \in R : d # e => ~ValuesEqual(docs[d][f], docs[e][f])

\* The values found are those of the documents R.
Collects(acc, R, f) ==
    /\ \A i \in DOMAIN acc.values : \E d \in R : acc.values[i] = docs[d][f]
    /\ \A d \in R : \E i \in DOMAIN acc.values : acc.values[i] = docs[d][f]

\* What the accumulator says of the documents S it has seen.
Tells(acc, S, f, limit) ==
    \E R \in SUBSET S :
        /\ IsFiniteSet(R) /\ Represents(R, f)
        /\ IF acc.full THEN Cardinality(R) > limit
           ELSE /\ Len(acc.values) = Cardinality(R) /\ Cardinality(R) <= limit
                /\ Collects(acc, R, f)
                /\ \A d \in S : docs[d][f] = Missing \/ d \in R \/ Listed(acc.values, docs[d][f])

\* A document more, and it still does.
LEMMA RoundTells ==
    ASSUME NEW acc \in Accumulators, NEW S, NEW d, d \notin S, NEW f, NEW limit \in Nat,
           docs[d][f] \in Values, Tells(acc, S, f, limit)
    PROVE  Tells(DistinctRound(acc, docs[d][f], limit), S \cup {d}, f, limit)
<1> DEFINE v == docs[d][f]
           T == S \cup {d}
           next == DistinctRound(acc, v, limit)
<1>1. PICK R \in SUBSET S :
         /\ IsFiniteSet(R) /\ Represents(R, f)
         /\ IF acc.full THEN Cardinality(R) > limit
            ELSE /\ Len(acc.values) = Cardinality(R) /\ Cardinality(R) <= limit
                 /\ Collects(acc, R, f)
                 /\ \A e \in S : docs[e][f] = Missing \/ e \in R \/ Listed(acc.values, docs[e][f])
  BY DEF Tells
<1>2. R \in SUBSET T /\ acc.full \in BOOLEAN /\ acc.values \in Seq(Values)
  BY DEF Accumulators
<1>3. CASE acc.full
  BY <1>1, <1>2, <1>3 DEF Tells, DistinctRound
<1>4. CASE ~acc.full /\ (v = Missing \/ Listed(acc.values, v))
  <2>1. next = acc
    BY <1>4 DEF DistinctRound
  <2>2. \A e \in T : docs[e][f] = Missing \/ e \in R \/ Listed(acc.values, docs[e][f])
    BY <1>1, <1>4
  <2>3. Tells(next, T, f, limit)
    <3> HIDE DEF next, v, T
    <3> QED BY <1>1, <1>2, <1>4, <2>1, <2>2 DEF Tells
  <2> QED BY <2>3
<1>5. CASE ~acc.full /\ v # Missing /\ ~Listed(acc.values, v)
  <2> DEFINE Q == R \cup {d}
  <2>1. IsFiniteSet(Q) /\ Cardinality(Q) = Cardinality(R) + 1 /\ Cardinality(R) \in Nat /\ Q \in SUBSET T
    BY <1>1, FS_AddElement, FS_CardinalityType
  <2>2. Represents(Q, f)
    <3>1. \A e \in R : ~ValuesEqual(docs[e][f], v)
      BY <1>1, <1>5 DEF Collects, Listed
    <3>2. \A e \in R : ~ValuesEqual(v, docs[e][f])
      BY <3>1, EqualityLaws
    <3>3. \A e \in R : docs[e][f] # Missing
      BY <1>1 DEF Represents
    <3>4. \A e, g \in R : e # g => ~ValuesEqual(docs[e][f], docs[g][f])
      BY <1>1 DEF Represents
    <3> QED BY <1>5, <3>1, <3>2, <3>3, <3>4 DEF Represents
  <2>3. CASE Len(acc.values) >= limit
    <3>1. next.full
      BY <1>5, <2>3 DEF DistinctRound, Accumulators
    <3>2. Cardinality(Q) > limit
      BY <1>1, <1>5, <2>1, <2>3
    <3>3. Tells(next, T, f, limit)
      <4> HIDE DEF next, v, T, Q
      <4> QED BY <2>1, <2>2, <3>1, <3>2 DEF Tells
    <3> QED BY <3>3
  <2>4. CASE ~(Len(acc.values) >= limit)
    <3>1. next.values = Append(acc.values, v) /\ ~next.full
      <4>1. next = [acc EXCEPT !.values = Append(@, v)]
        BY <1>5, <2>4 DEF DistinctRound
      <4>2. acc = [values |-> acc.values, full |-> acc.full]
        BY DEF Accumulators
      <4> HIDE DEF next, v
      <4> QED BY <1>5, <4>1, <4>2
    <3>2. /\ DOMAIN next.values = 1 .. Len(acc.values) + 1
          /\ Len(next.values) = Len(acc.values) + 1
          /\ next.values[Len(acc.values) + 1] = v
          /\ \A i \in DOMAIN acc.values : i \in DOMAIN next.values /\ next.values[i] = acc.values[i]
          /\ DOMAIN acc.values = 1 .. Len(acc.values) /\ Len(acc.values) \in Nat
      <4> HIDE DEF next
      <4> QED BY <3>1, <1>2
    <3>3. Len(next.values) = Cardinality(Q) /\ Cardinality(Q) <= limit
      BY <1>1, <1>5, <2>1, <2>4, <3>2
    <3>4. Collects(next, Q, f)
      <4> HIDE DEF next
      <4>1. ASSUME NEW i \in DOMAIN next.values PROVE \E e \in Q : next.values[i] = docs[e][f]
        <5>1. CASE i \in DOMAIN acc.values
          BY <1>1, <1>5, <3>2, <5>1 DEF Collects
        <5>2. CASE i \notin DOMAIN acc.values
          BY <3>2, <5>2
        <5> QED BY <5>1, <5>2
      <4>2. ASSUME NEW e \in Q PROVE \E i \in DOMAIN next.values : next.values[i] = docs[e][f]
        <5>1. CASE e \in R
          BY <1>1, <1>5, <3>2, <5>1 DEF Collects
        <5>2. CASE e = d
          BY <3>2, <5>2
        <5> QED BY <5>1, <5>2
      <4> QED BY <4>1, <4>2 DEF Collects
    <3>5. \A e \in T : docs[e][f] = Missing \/ e \in Q \/ Listed(next.values, docs[e][f])
      <4> HIDE DEF next
      <4>1. \A x : Listed(acc.values, x) => Listed(next.values, x)
        BY <3>2 DEF Listed
      <4> QED BY <1>1, <1>5, <4>1
    <3>6. Tells(next, T, f, limit)
      <4> HIDE DEF next, v, T, Q
      <4> QED BY <2>1, <2>2, <3>1, <3>3, <3>4, <3>5 DEF Tells
    <3> QED BY <3>6
  <2> QED BY <2>3, <2>4
<1> QED BY <1>3, <1>4, <1>5

\* At the end it tells of all documents.
LEMMA LoopTells ==
    ASSUME NEW order \in Seq(Ids), NEW f, NEW limit \in Nat,
           \A i, j \in 1 .. Len(order) : order[i] = order[j] => i = j,
           \A i \in 1 .. Len(order) : docs[order[i]][f] \in Values
    PROVE  Tells(Distinct(order, f, limit), Seen(order, Len(order)), f, limit)
<1>1. PICK r \in [0 .. Len(order) -> Accumulators] : Collected(r, order, f, limit)
  BY DistinctUnfolds
<1> DEFINE n == Len(order)
           P == {k \in 0 .. n : Tells(r[k], Seen(order, k), f, limit)}
<1>2. n \in Nat
  OBVIOUS
<1>3. 0 \in P
  <2>1. Seen(order, 0) = {}
    BY DEF Seen
  <2>2. IsFiniteSet({}) /\ Cardinality({}) = 0 /\ Represents({}, f)
    BY FS_EmptySet DEF Represents
  <2>3. ~r[0].full /\ r[0].values = << >> /\ Len(r[0].values) = 0 /\ Collects(r[0], {}, f)
    BY <1>1 DEF Collects, Collected
  <2>4. Tells(r[0], {}, f, limit)
    BY <2>2, <2>3 DEF Tells
  <2> QED BY <1>2, <2>1, <2>4
<1>4. ASSUME NEW k \in 0 .. n - 1, k \in P
      PROVE  k + 1 \in P
  <2>1. k + 1 \in 1 .. n /\ k + 1 \in 0 .. n /\ k \in 0 .. n /\ k + 1 - 1 = k
    BY <1>2
  <2>2. r[k + 1] = DistinctRound(r[k], docs[order[k + 1]][f], limit)
    BY <1>1, <2>1 DEF Collected
  <2>3. order[k + 1] \notin Seen(order, k)
    BY <2>1 DEF Seen
  <2>4. Seen(order, k + 1) = Seen(order, k) \cup {order[k + 1]}
    <3>1. 1 .. k + 1 = (1 .. k) \cup {k + 1}
      BY <2>1
    <3> QED BY <3>1 DEF Seen
  <2>5. r[k] \in Accumulators /\ docs[order[k + 1]][f] \in Values /\ Tells(r[k], Seen(order, k), f, limit)
    BY <1>4, <2>1
  <2>6. Tells(r[k + 1], Seen(order, k + 1), f, limit)
    <3> DEFINE acc == r[k]
               d   == order[k + 1]
               S   == Seen(order, k)
    <3>1. acc \in Accumulators /\ d \notin S /\ docs[d][f] \in Values /\ Tells(acc, S, f, limit)
      BY <2>3, <2>5
    <3>2. r[k + 1] = DistinctRound(acc, docs[d][f], limit) /\ Seen(order, k + 1) = S \cup {d}
      BY <2>2, <2>4
    <3> HIDE DEF acc, d, S
    <3>3. Tells(DistinctRound(acc, docs[d][f], limit), S \cup {d}, f, limit)
      BY <3>1, RoundTells
    <3> QED BY <3>2, <3>3
  <2> QED BY <2>1, <2>6
<1>5. n \in P
  <2> HIDE DEF P, n
  <2>1. \A k \in 0 .. n : k \in P
    BY <1>2, <1>3, <1>4, InductionUpTo
  <2> QED BY <1>2, <2>1
<1> QED BY <1>1, <1>5 DEF Collected

\* The classes distinct() makes of the documents that have the field.
HoldersOf(f) == {d \in Live : docs[d][f] # Missing}

ClassOf(d, f) == {d} \cup {e \in HoldersOf(f) : ValuesEqual(docs[e][f], docs[d][f])}

\* Representatives lie in classes of their own.
LEMMA ClassesApart ==
    ASSUME NEW f, NEW R \in SUBSET HoldersOf(f), Represents(R, f),
           NEW d \in R, NEW e \in R, ClassOf(d, f) = ClassOf(e, f)
    PROVE  d = e
<1>1. e \in ClassOf(d, f)
  BY DEF ClassOf
<1>2. d # e => ~ValuesEqual(docs[e][f], docs[d][f])
  BY DEF Represents
<1> QED BY <1>1, <1>2 DEF ClassOf

\* Documents with equal values are of one class.
LEMMA SameClass ==
    ASSUME NEW f, NEW d \in HoldersOf(f), NEW x \in HoldersOf(f),
           ValuesEqual(docs[d][f], docs[x][f])
    PROVE  ClassOf(x, f) = ClassOf(d, f)
<1>1. ValuesEqual(docs[x][f], docs[d][f])
  BY EqualityLaws
<1>2. \A e : ValuesEqual(docs[e][f], docs[d][f]) <=> ValuesEqual(docs[e][f], docs[x][f])
  BY <1>1, EqualityLaws
<1> QED BY <1>1, <1>2 DEF ClassOf

\* So the accumulator counts the classes, up to the limit.
LEMMA CountClasses ==
    ASSUME NEW f, NEW limit \in Nat, IsFiniteSet(Live), NEW acc \in Accumulators,
           NEW S, S = Live, Tells(acc, S, f, limit)
    PROVE  LET classes == {ClassOf(d, f) : d \in HoldersOf(f)} IN
           /\ acc.full <=> Cardinality(classes) > limit
           /\ ~acc.full => /\ Len(acc.values) = Cardinality(classes)
                           /\ \A d \in HoldersOf(f) : docs[d][f] = NaN \/ Listed(acc.values, docs[d][f])
<1> DEFINE holders == HoldersOf(f)
           classes == {ClassOf(d, f) : d \in holders}
           all == [d \in holders |-> ClassOf(d, f)]
<1>1. PICK R \in SUBSET Live :
         /\ IsFiniteSet(R) /\ Represents(R, f)
         /\ IF acc.full THEN Cardinality(R) > limit
            ELSE /\ Len(acc.values) = Cardinality(R) /\ Cardinality(R) <= limit
                 /\ Collects(acc, R, f)
                 /\ \A e \in Live : docs[e][f] = Missing \/ e \in R \/ Listed(acc.values, docs[e][f])
  BY DEF Tells
<1>2. R \in SUBSET holders
  BY <1>1 DEF Represents, HoldersOf
<1>3. IsFiniteSet(holders)
  BY FS_Subset DEF HoldersOf
<1>4. IsFiniteSet(classes)
  <2>1. all \in Surjection(holders, classes)
    BY DEF Surjection
  <2> HIDE DEF all, holders, classes
  <2> QED BY <1>3, <2>1, FS_Surjection
<1> DEFINE own == [d \in R |-> ClassOf(d, f)]
<1>5. own \in Injection(R, classes)
  <2>1. own \in [R -> classes]
    BY <1>2
  <2>2. \A d, e \in R : own[d] = own[e] => d = e
    BY <1>1, <1>2, ClassesApart
  <2>3. DOMAIN own = R
    OBVIOUS
  <2> HIDE DEF own, classes, holders
  <2> QED BY <2>1, <2>2, <2>3 DEF Injection, IsInjective
<1>6. /\ Cardinality(R) <= Cardinality(classes)
      /\ own \in Surjection(R, classes) => Cardinality(R) = Cardinality(classes)
  <2> HIDE DEF own, classes, holders
  <2> QED BY <1>4, <1>5, FS_Injection
<1>7. Cardinality(R) \in Nat /\ Cardinality(classes) \in Nat
  <2> HIDE DEF classes
  <2> QED BY <1>1, <1>4, FS_CardinalityType
<1>8. CASE acc.full
  <2> HIDE DEF classes
  <2>1. Cardinality(classes) > limit
    BY <1>1, <1>6, <1>7, <1>8
  <2> QED BY <1>8, <2>1 DEF classes
<1>9. CASE ~acc.full
  <2>1. ASSUME NEW x \in holders
        PROVE  \E d \in R : own[d] = ClassOf(x, f)
    <3>1. CASE x \in R
      BY <3>1
    <3>2. CASE x \notin R
      <4>1. Listed(acc.values, docs[x][f])
        BY <1>1, <1>9, <3>2 DEF HoldersOf
      <4>2. PICK i \in DOMAIN acc.values : ValuesEqual(acc.values[i], docs[x][f])
        BY <4>1 DEF Listed
      <4>3. PICK d \in R : acc.values[i] = docs[d][f]
        BY <1>1, <1>9 DEF Collects
      <4>4. ClassOf(x, f) = ClassOf(d, f)
        BY <1>2, <4>2, <4>3, SameClass
      <4> QED BY <4>4
    <3> QED BY <3>1, <3>2
  <2>2. own \in Surjection(R, classes)
    <3>1. own \in [R -> classes]
      BY <1>2
    <3>2. \A c \in classes : \E d \in R : own[d] = c
      <4> HIDE DEF own, holders
      <4> QED BY <2>1
    <3> HIDE DEF own, classes
    <3> QED BY <3>1, <3>2 DEF Surjection
  <2>3. Cardinality(classes) = Cardinality(R)
    <3> HIDE DEF own, classes
    <3> QED BY <1>6, <2>2
  <2>4. Len(acc.values) = Cardinality(classes) /\ ~(Cardinality(classes) > limit)
    <3> HIDE DEF classes
    <3> QED BY <1>1, <1>7, <1>9, <2>3
  <2>5. ASSUME NEW d \in holders PROVE docs[d][f] = NaN \/ Listed(acc.values, docs[d][f])
    <3>1. CASE d \in R
      <4>1. PICK i \in DOMAIN acc.values : acc.values[i] = docs[d][f]
        BY <1>1, <1>9, <3>1 DEF Collects
      <4>2. docs[d][f] # NaN => ValuesEqual(docs[d][f], docs[d][f])
        BY EqualityLaws
      <4> QED BY <4>1, <4>2 DEF Listed
    <3>2. CASE d \notin R
      BY <1>1, <1>9, <3>2 DEF HoldersOf
    <3> QED BY <3>1, <3>2
  <2> QED BY <1>9, <2>4, <2>5
<1> QED BY <1>8, <1>9

\* distinct() counts the classes of equal values, whatever order it meets them in.
THEOREM DistinctValuesExact == Spec => []DistinctExact
<1>1. TypeOK => DistinctExact
  <2> SUFFICES ASSUME TypeOK, NEW f \in Fields, NEW limit \in 1 .. 2, NEW order \in Orders
               PROVE  LET classes == {ClassOf(d, f) : d \in HoldersOf(f)}
                          result  == Distinct(order, f, limit)
                      IN /\ result.full <=> Cardinality(classes) > limit
                         /\ ~result.full =>
                               /\ Len(result.values) = Cardinality(classes)
                               /\ \A d \in HoldersOf(f) : docs[d][f] = NaN \/ Listed(result.values, docs[d][f])
    BY DEF DistinctExact, ClassOf, HoldersOf
  <2> DEFINE n == Cardinality(Live)
             result == Distinct(order, f, limit)
  <2>1. IsFiniteSet(Live) /\ n \in Nat
    BY FiniteAssumption, FS_Subset, FS_CardinalityType DEF Live
  <2>2. order \in [1 .. n -> Live] /\ \A i, j \in 1 .. n : order[i] = order[j] => i = j
    BY DEF Orders
  <2>3. order \in Seq(Ids) /\ Len(order) = n
    <3>1. order \in [1 .. n -> Ids]
      BY <2>2 DEF Live
    <3> HIDE DEF n
    <3> QED BY <2>1, <3>1
  <2>4. \A i \in 1 .. n : docs[order[i]][f] \in Values
    <3>1. \A d \in Live : docs[d][f] \in Values
      BY DEF TypeOK, Live, Documents
    <3> QED BY <2>2, <3>1
  <2>5. Seen(order, n) = Live
    <3> DEFINE I == 1 .. n
    <3>1. IsFiniteSet(I) /\ Cardinality(I) = n
      BY <2>1, FS_Interval
    <3>2. order \in Injection(I, Live)
      BY <2>2 DEF Injection, IsInjective
    <3>3. order \in Surjection(I, Live)
      <4> HIDE DEF I
      <4> QED BY <2>1, <3>1, <3>2, FS_Injection
    <3> QED BY <2>2, <3>3 DEF Seen, Surjection
  <2>6. Tells(result, Seen(order, n), f, limit)
    <3>1. \A i, j \in 1 .. Len(order) : order[i] = order[j] => i = j
      BY <2>2, <2>3
    <3>2. \A i \in 1 .. Len(order) : docs[order[i]][f] \in Values
      BY <2>3, <2>4
    <3>3. Tells(Distinct(order, f, limit), Seen(order, Len(order)), f, limit)
      BY <2>3, <3>1, <3>2, LoopTells
    <3> QED BY <2>3, <3>3
  <2>7. result \in Accumulators
    <3>1. \A i \in 1 .. Len(order) : docs[order[i]][f] \in Values
      BY <2>3, <2>4
    <3>2. limit \in Nat
      OBVIOUS
    <3>3. PICK r \in [0 .. Len(order) -> Accumulators] : Collected(r, order, f, limit)
      BY <2>3, <3>1, <3>2, DistinctUnfolds
    <3> QED BY <2>1, <2>3, <3>3 DEF Collected
  <2> HIDE DEF result, n
  <2>8. limit \in Nat
    OBVIOUS
  <2> QED BY <2>1, <2>5, <2>6, <2>7, <2>8, CountClasses DEF result
<1> QED BY <1>1, TypeCorrect, PTL

=============================================================================
