------------------------ MODULE PocketDatabaseProofs ------------------------
(***************************************************************************)
(* Proofs about PocketDatabase, for every value of its constants: types,   *)
(* offsets, what a compaction changes and keeps, and what the secondary    *)
(* indexes hold.  IInv is what every step preserves.                       *)
(***************************************************************************)
EXTENDS PocketDatabase, FiniteSetTheorems, TLAPS

USE ValuesAssumption, BoundsAssumption, FaultsAssumption, NoneAssumption

-----------------------------------------------------------------------------
(* The type of the engine's memory, the part of TypeOK its effects touch.  *)

MemType ==
    /\ byName \in [Names -> ColIds \cup {None}]
    /\ byId \in [ColIds -> Names \cup {None}]
    /\ primary \in [ColIds -> [DocIds -> Nat]]
    /\ defs \in [ColIds -> [Fields -> IndexDefs \cup {None}]]
    /\ entries \in [ColIds -> [Fields -> [DocIds -> Entries \cup {None}]]]

-----------------------------------------------------------------------------
(* Records and entries.                                                    *)

\* A record's op tells its other fields.
LEMMA RecordShapes ==
    ASSUME NEW r \in Records
    PROVE  /\ r.op = "ncl1" => r \in NclRecs
           /\ r.op = "dco1" => r \in DcoRecs
           /\ r.op = "put1" => r \in PutRecs
           /\ r.op = "del1" => r \in DelRecs
           /\ r.op = "idx1" => r \in IdxRecs
           /\ r.op = "dix1" => r \in DixRecs
  BY DEF Records, NclRecs, DcoRecs, PutRecs, DelRecs, IdxRecs, DixRecs, TxnRecs

\* Encoding a document gives a document.
LEMMA EncodeType == ASSUME NEW doc \in Docs PROVE Encode(doc) \in Docs
  BY DEF Encode, Docs

\* The record constructors give records.
LEMMA RecordTypes ==
    ASSUME NEW c \in ColIds
    PROVE  /\ \A n \in Names : NclRec(c, n) \in Records
           /\ DcoRec(c) \in Records
           /\ \A d \in DocIds, doc \in Docs : PutRec(c, d, doc) \in Records
           /\ \A d \in DocIds : DelRec(c, d) \in Records
           /\ \A f \in Fields, def \in IndexDefs : IdxRec(c, f, def) \in Records
           /\ \A f \in Fields : DixRec(c, f) \in Records
           /\ Txnb \in Records /\ Txnc \in Records
  <1>1. \A d \in DocIds, doc \in Docs : PutRec(c, d, doc) \in PutRecs
    BY EncodeType DEF PutRec, PutRecs
  <1>2. QED
    BY <1>1 DEF Records, NclRecs, DcoRecs, DelRecs, IdxRecs, DixRecs, TxnRecs,
                NclRec, DcoRec, DelRec, IdxRec, DixRec, Txnb, Txnc

\* What an index stores for a value is an entry or nothing.
LEMMA EntryType ==
    ASSUME NEW def \in IndexDefs \cup {None}, NEW v \in Values, NEW o \in Nat
    PROVE  Entry(def, v, o) \in Entries \cup {None}
  BY DEF Entry, Entries

\* The documents reached through sound offsets are documents.
LEMMA StoredDocType ==
    ASSUME log \in Seq(Records), PrimaryOffsets,
           NEW c \in ColIds, NEW d \in DocIds, primary[c][d] # 0
    PROVE  StoredDoc(c, d) \in Docs
  <1>1. log[primary[c][d]] \in PutRecs
    BY RecordShapes DEF PrimaryOffsets, IsPut
  <1>2. QED
    BY <1>1 DEF StoredDoc, PutRecs

\* What an index holds when it is filled from nothing is well formed.
LEMMA IndexedType ==
    ASSUME log \in Seq(Records), PrimaryOffsets, MemType,
           NEW c \in ColIds, NEW f \in Fields, NEW d \in DocIds
    PROVE  Indexed(c, f, d) \in Entries \cup {None}
  <1>1. CASE primary[c][d] = 0
    BY <1>1 DEF Indexed
  <1>2. CASE primary[c][d] # 0
    <2>1. StoredDoc(c, d)[f] \in Values
      BY <1>2, StoredDocType DEF Docs
    <2>2. defs[c][f] \in IndexDefs \cup {None} /\ primary[c][d] \in Nat
      BY DEF MemType
    <2>3. QED
      BY <1>2, <2>1, <2>2, EntryType DEF Indexed
  <1>3. QED
    BY <1>1, <1>2

\* Rebuilding the indexes of a collection gives well-formed contents.
LEMMA RebuildType ==
    ASSUME log \in Seq(Records), PrimaryOffsets, MemType,
           NEW c \in ColIds, NEW df \in [Fields -> IndexDefs \cup {None}]
    PROVE  Rebuild(c, df) \in [Fields -> [DocIds -> Entries \cup {None}]]
  <1>1. ASSUME NEW f \in Fields, NEW d \in DocIds, primary[c][d] # 0
        PROVE  Entry(df[f], StoredDoc(c, d)[f], primary[c][d]) \in Entries \cup {None}
    <2>1. StoredDoc(c, d)[f] \in Values
      BY <1>1, StoredDocType DEF Docs
    <2>2. primary[c][d] \in Nat
      BY DEF MemType
    <2>3. QED
      BY <2>1, <2>2, EntryType
  <1>2. \A f \in Fields, d \in DocIds : entries[c][f][d] \in Entries \cup {None}
    BY DEF MemType
  <1>3. QED
    BY <1>1, <1>2 DEF Rebuild

\* What callers read is a view.
LEMMA ViewType ==
    ASSUME log \in Seq(Records), PrimaryOffsets, MemType
    PROVE  View \in Views
  <1>1. ASSUME NEW n \in Names, byName[n] # None
        PROVE  [docs |-> [d \in DocIds |->
                             IF primary[byName[n]][d] = 0 THEN None
                             ELSE StoredDoc(byName[n], d)],
                defs |-> defs[byName[n]]]
                 \in [docs : [DocIds -> Docs \cup {None}],
                      defs : [Fields -> IndexDefs \cup {None}]]
    <2>1. byName[n] \in ColIds
      BY <1>1 DEF MemType
    <2>2. \A d \in DocIds : primary[byName[n]][d] # 0 => StoredDoc(byName[n], d) \in Docs
      BY <2>1, StoredDocType
    <2>3. defs[byName[n]] \in [Fields -> IndexDefs \cup {None}]
      BY <2>1 DEF MemType
    <2>4. QED
      BY <2>2, <2>3
  <1>2. QED
    BY <1>1 DEF View, Views

-----------------------------------------------------------------------------
(* Effects on memory keep its types.                                       *)

\* A new collection keeps the memory well typed.
LEMMA RegisterType ==
    ASSUME MemType, NEW c \in ColIds, NEW n \in Names, Register(c, n)
    PROVE  MemType'
  BY DEF MemType, Register, NoDocs, NoDefs, NoEntries

\* So does a new version of a document.
LEMMA ApplyPutType ==
    ASSUME MemType, NEW c \in ColIds, NEW d \in DocIds, NEW o \in Nat,
           NEW doc \in Docs, ApplyPut(c, d, o, doc)
    PROVE  MemType'
  <1>1. ASSUME NEW f \in Fields
        PROVE  Entry(defs[c][f], doc[f], o) \in Entries \cup {None}
    <2>1. defs[c][f] \in IndexDefs \cup {None} /\ doc[f] \in Values
      BY DEF MemType, Docs
    <2>2. QED
      BY <2>1, EntryType
  <1>2. WithDoc(entries[c], defs[c], d, doc, o)
            \in [Fields -> [DocIds -> Entries \cup {None}]]
    BY <1>1 DEF WithDoc, MemType
  <1>3. QED
    BY <1>2 DEF ApplyPut, MemType

\* So does the removal of a document.
LEMMA ApplyDeleteType ==
    ASSUME MemType, NEW c \in ColIds, NEW d \in DocIds, ApplyDelete(c, d)
    PROVE  MemType'
  <1>1. WithoutDoc(entries[c], d) \in [Fields -> [DocIds -> Entries \cup {None}]]
    BY DEF WithoutDoc, MemType
  <1>2. QED
    BY <1>1 DEF ApplyDelete, MemType

\* So does the removal of a registered collection.
LEMMA ApplyDropType ==
    ASSUME MemType, NEW c \in ColIds, ApplyDrop(c)
    PROVE  MemType'
  BY DEF MemType, ApplyDrop, NoDocs, NoDefs, NoEntries

\* So does a new or rebuilt index.
LEMMA ApplyCreateIndexType ==
    ASSUME log \in Seq(Records), PrimaryOffsets, MemType,
           NEW c \in ColIds, NEW f \in Fields, NEW def \in IndexDefs,
           ApplyCreateIndex(c, f, def)
    PROVE  MemType'
  <1> DEFINE df == [defs[c] EXCEPT ![f] = def]
  <1>1. df \in [Fields -> IndexDefs \cup {None}]
    BY DEF MemType
  <1>2. Rebuild(c, df) \in [Fields -> [DocIds -> Entries \cup {None}]]
    BY <1>1, RebuildType
  <1>3. QED
    BY <1>1, <1>2 DEF ApplyCreateIndex, MemType

\* So does the removal of an index.
LEMMA ApplyDropIndexType ==
    ASSUME MemType, NEW c \in ColIds, NEW f \in Fields, ApplyDropIndex(c, f)
    PROVE  MemType'
  BY DEF MemType, ApplyDropIndex, NoEntries

\* The memory of a process that starts is well typed and holds no offset.
LEMMA ForgetType == ASSUME Forget PROVE MemType' /\ PrimaryOffsets'
  BY DEF Forget, MemType, PrimaryOffsets, NoDocs, NoDefs, NoEntries

-----------------------------------------------------------------------------
(* Appending a record moves no other: offsets stay sound if each new one   *)
(* is absent, old, or that of a put1 record of its document.               *)

\* A put1 record stays one while records are appended after it.
LEMMA PutStays ==
    ASSUME log \in Seq(Records), NEW r \in Records, log' = Append(log, r),
           NEW o \in Nat, NEW c, NEW d, IsPut(o, c, d)
    PROVE  IsPut(o, c, d)'
  <1>1. o \in DOMAIN log' /\ log'[o] = log[o]
    BY DEF IsPut
  <1>2. QED
    BY <1>1 DEF IsPut

\* Offsets stay sound when records are appended and each offset of a document
\* is absent, old, or that of a put1 record of that document.
LEMMA OffsetsKept ==
    ASSUME PrimaryOffsets, MemType, log \in Seq(Records),
           log' = log \/ \E r \in Records : log' = Append(log, r),
           \A c \in ColIds, d \in DocIds :
               \/ primary'[c][d] = 0
               \/ primary'[c][d] = primary[c][d]
               \/ IsPut(primary[c][d], c, d)'
    PROVE  PrimaryOffsets'
  <1> SUFFICES ASSUME NEW c \in ColIds, NEW d \in DocIds, primary'[c][d] # 0
               PROVE  IsPut(primary[c][d], c, d)'
    BY DEF PrimaryOffsets
  <1>1. CASE primary'[c][d] = primary[c][d]
    <2>1. IsPut(primary[c][d], c, d) /\ primary[c][d] \in Nat
      BY <1>1 DEF PrimaryOffsets, MemType
    <2>2. CASE log' = log
      BY <1>1, <2>1, <2>2 DEF IsPut
    <2>3. CASE \E r \in Records : log' = Append(log, r)
      BY <1>1, <2>1, <2>3, PutStays
    <2>4. QED
      BY <2>2, <2>3
  <1>2. QED
    BY <1>1

\* The record just appended, when it is a put1.
LEMMA PutAppended ==
    ASSUME log \in Seq(Records), NEW c, NEW d, NEW doc,
           PutRec(c, d, doc) \in Records, log' = Append(log, PutRec(c, d, doc))
    PROVE  Len(log') = Len(log) + 1 /\ IsPut(Len(log), c, d)'
  <1>1. /\ Len(log') = Len(log) + 1
        /\ Len(log') \in DOMAIN log' /\ log'[Len(log')] = PutRec(c, d, doc)
    OBVIOUS
  <1>2. QED
    BY <1>1 DEF IsPut, PutRec

\* An API call that appends one record keeps the invariant if what it does to
\* memory keeps types and offsets.
LEMMA AppendStep ==
    ASSUME IInv, Idle, NEW r \in Records, AppendOperation(r),
           MemType', PrimaryOffsets', RegisteredDocs'
    PROVE  IInv'
  <1>1. log' \in Seq(Records)
    BY DEF AppendOperation, IInv, TypeOK
  <1>2. TypeOK'
    BY <1>1 DEF AppendOperation, IInv, TypeOK, MemType, loaderVars, compactVars
  <1>3. QED
    BY <1>2 DEF AppendOperation, IInv, Idle, CompactionHeads, BatchOffsets, LoaderInLog

-----------------------------------------------------------------------------
(* The API calls that write one record.                                    *)

\* Appending the new version of a document and pointing the indexes at it.
LEMMA PutStep ==
    ASSUME IInv, Idle, NEW c \in ColIds, NEW d \in DocIds, NEW doc \in Docs,
           byId[c] # None,
           AppendOperation(PutRec(c, d, doc)), ApplyPut(c, d, Len(log) + 1, doc)
    PROVE  IInv'
  <1> USE DEF IInv
  <1>1. PutRec(c, d, doc) \in Records
    BY RecordTypes
  <1>2. MemType /\ log \in Seq(Records) /\ Len(log) + 1 \in Nat
    BY DEF TypeOK, MemType
  <1>3. MemType'
    BY <1>2, ApplyPutType
  <1>4. log' = Append(log, PutRec(c, d, doc))
    BY DEF AppendOperation
  <1>5. Len(log') = Len(log) + 1 /\ IsPut(Len(log), c, d)'
    BY <1>1, <1>2, <1>4, PutAppended
  <1>6. primary' = [primary EXCEPT ![c][d] = Len(log)']
    BY <1>5 DEF ApplyPut
  <1>7. ASSUME NEW e \in ColIds, NEW g \in DocIds
        PROVE  \/ primary'[e][g] = primary[e][g]
               \/ IsPut(primary[e][g], e, g)'
    <2>1. CASE e = c /\ g = d
      <3>1. primary'[e][g] = Len(log)'
        BY <1>2, <1>6, <2>1 DEF MemType
      <3>2. QED
        BY <3>1, <2>1, <1>5
    <2>2. CASE ~(e = c /\ g = d)
      BY <1>2, <1>6, <2>2 DEF MemType
    <2>3. QED
      BY <2>1, <2>2
  <1>8. PrimaryOffsets'
    BY <1>1, <1>2, <1>4, <1>7, OffsetsKept
  <1>9. RegisteredDocs'
    BY <1>2, <1>6 DEF RegisteredDocs, ApplyPut, MemType
  <1>10. QED
    BY <1>1, <1>3, <1>8, <1>9, AppendStep

\* A record that leaves every offset alone or clears it.
LEMMA OtherStep ==
    ASSUME IInv, Idle, NEW r \in Records, AppendOperation(r), MemType', RegisteredDocs',
           \A c \in ColIds, d \in DocIds : primary'[c][d] \in {0, primary[c][d]}
    PROVE  IInv'
  <1>1. PrimaryOffsets'
    <2>1. MemType /\ log \in Seq(Records) /\ PrimaryOffsets
      BY DEF IInv, TypeOK, MemType
    <2>2. log' = Append(log, r)
      BY DEF AppendOperation
    <2>3. QED
      BY <2>1, <2>2, OffsetsKept
  <1>2. QED
    BY <1>1, AppendStep

\* A step that touches index definitions and contents only.
LEMMA IndexStep ==
    ASSUME IInv, MemType',
           UNCHANGED <<log, phase, loaderVars, batch, compactVars, acked, byId, primary>>
    PROVE  IInv'
  <1>1. TypeOK'
    BY DEF IInv, TypeOK, MemType, loaderVars, compactVars
  <1>2. PrimaryOffsets' /\ RegisteredDocs'
    BY DEF IInv, PrimaryOffsets, RegisteredDocs, IsPut
  <1>3. CompactionHeads'
    BY DEF IInv, CompactionHeads, compactVars
  <1>4. BatchOffsets'
    BY DEF IInv, BatchOffsets, IsPut
  <1>5. LoaderInLog'
    BY DEF IInv, LoaderInLog, loaderVars
  <1>6. QED
    BY <1>1, <1>2, <1>3, <1>4, <1>5 DEF IInv

\* Every API call that writes one record keeps the invariant.
LEMMA WriteOneStep == IInv /\ WriteOne => IInv'
  <1> SUFFICES ASSUME IInv, WriteOne PROVE IInv'
    OBVIOUS
  <1>0. /\ TypeOK /\ MemType /\ PrimaryOffsets /\ RegisteredDocs /\ log \in Seq(Records)
        /\ primary \in [ColIds -> [DocIds -> Nat]]
        /\ byId \in [ColIds -> Names \cup {None}]
    BY DEF IInv, TypeOK, MemType
  <1>1. ASSUME NEW n \in Names, NEW c \in ColIds, Collection(n, c)
        PROVE  IInv'
    <2>1. Idle /\ AppendOperation(NclRec(c, n)) /\ Register(c, n)
      BY <1>1 DEF Collection
    <2>2. MemType' /\ NclRec(c, n) \in Records
      BY <1>0, <2>1, RegisterType, RecordTypes
    <2>3. \A e \in ColIds, d \in DocIds : primary'[e][d] \in {0, primary[e][d]}
      BY <1>0, <2>1 DEF Register, NoDocs
    <2>4. RegisteredDocs'
      BY <1>0, <2>1 DEF Register, NoDocs, RegisteredDocs
    <2>5. QED
      BY <2>1, <2>2, <2>3, <2>4, OtherStep
  <1>2. ASSUME NEW c \in ColIds, NEW d \in DocIds, NEW doc \in Docs,
               InsertOne(c, d, doc) \/ ReplaceOne(c, d, doc)
        PROVE  IInv'
    <2>1. Idle /\ AppendOperation(PutRec(c, d, doc)) /\ ApplyPut(c, d, Len(log) + 1, doc)
            /\ byId[c] # None
      BY <1>2 DEF InsertOne, ReplaceOne, Live
    <2>2. QED
      BY <2>1, PutStep
  <1>3. ASSUME NEW c \in ColIds, NEW d \in DocIds, NEW f \in Fields, NEW v \in Values,
               UpdateOne(c, d, f, v)
        PROVE  IInv'
    <2> DEFINE doc == [StoredDoc(c, d) EXCEPT ![f] = v]
    <2>1. Idle /\ AppendOperation(PutRec(c, d, doc)) /\ ApplyPut(c, d, Len(log) + 1, doc)
            /\ byId[c] # None
      BY <1>3 DEF UpdateOne, Live
    <2>2. StoredDoc(c, d) \in Docs
      BY <1>0, <1>3, StoredDocType DEF UpdateOne
    <2>3. doc \in Docs
      BY <2>2 DEF Docs
    <2>4. QED
      BY <2>1, <2>3, PutStep
  <1>4. ASSUME NEW c \in ColIds, NEW d \in DocIds, DeleteOne(c, d)
        PROVE  IInv'
    <2>1. Idle /\ AppendOperation(DelRec(c, d)) /\ ApplyDelete(c, d)
      BY <1>4 DEF DeleteOne, Live
    <2>2. MemType' /\ DelRec(c, d) \in Records
      BY <1>0, <2>1, ApplyDeleteType, RecordTypes
    <2>3. \A e \in ColIds, g \in DocIds : primary'[e][g] \in {0, primary[e][g]}
      BY <1>0, <2>1 DEF ApplyDelete
    <2>4. RegisteredDocs'
      BY <1>0, <2>1 DEF ApplyDelete, RegisteredDocs
    <2>5. QED
      BY <2>1, <2>2, <2>3, <2>4, OtherStep
  <1>5. ASSUME NEW c \in ColIds, Drop(c)
        PROVE  IInv'
    <2>1. Idle /\ AppendOperation(DcoRec(c)) /\ ApplyDrop(c)
      BY <1>5 DEF Drop, Live
    <2>2. MemType' /\ DcoRec(c) \in Records
      BY <1>0, <2>1, ApplyDropType, RecordTypes
    <2>3. \A e \in ColIds, g \in DocIds : primary'[e][g] \in {0, primary[e][g]}
      BY <1>0, <2>1 DEF ApplyDrop, NoDocs
    <2>4. RegisteredDocs'
      BY <1>0, <2>1 DEF ApplyDrop, NoDocs, RegisteredDocs
    <2>5. QED
      BY <2>1, <2>2, <2>3, <2>4, OtherStep
  <1>6. ASSUME NEW c \in ColIds, NEW f \in Fields, DropIndex(c, f)
        PROVE  IInv'
    <2>1. Idle /\ AppendOperation(DixRec(c, f)) /\ ApplyDropIndex(c, f)
      BY <1>6 DEF DropIndex, Live
    <2>2. MemType' /\ DixRec(c, f) \in Records
      BY <1>0, <2>1, ApplyDropIndexType, RecordTypes
    <2>3. \A e \in ColIds, g \in DocIds : primary'[e][g] \in {0, primary[e][g]}
      BY <1>0, <2>1 DEF ApplyDropIndex
    <2>4. RegisteredDocs'
      BY <1>0, <2>1 DEF ApplyDropIndex, RegisteredDocs
    <2>5. QED
      BY <2>1, <2>2, <2>3, <2>4, OtherStep
  <1>7. ASSUME NEW c \in ColIds, NEW f \in Fields, NEW def \in IndexDefs,
               CreateIndex(c, f, def)
        PROVE  IInv'
    <2>1. Idle /\ AppendOperation(IdxRec(c, f, def)) /\ ApplyCreateIndex(c, f, def)
      BY <1>7 DEF CreateIndex, Live
    <2>2. MemType' /\ IdxRec(c, f, def) \in Records
      BY <1>0, <2>1, ApplyCreateIndexType, RecordTypes
    <2>3. \A e \in ColIds, g \in DocIds : primary'[e][g] \in {0, primary[e][g]}
      BY <1>0, <2>1 DEF ApplyCreateIndex
    <2>4. RegisteredDocs'
      BY <1>0, <2>1 DEF ApplyCreateIndex, RegisteredDocs
    <2>5. QED
      BY <2>1, <2>2, <2>3, <2>4, OtherStep
  <1>8. ASSUME NEW c \in ColIds, NEW f \in Fields, RecreateIndex(c, f)
        PROVE  IInv'
    <2>1. defs[c][f] \in IndexDefs /\ ApplyCreateIndex(c, f, defs[c][f])
      BY <1>0, <1>8 DEF RecreateIndex, MemType
    <2>2. MemType'
      BY <1>0, <2>1, ApplyCreateIndexType
    <2>3. QED
      BY <1>8, <2>1, <2>2, IndexStep DEF RecreateIndex, ApplyCreateIndex
  <1>9. ASSUME NEW c \in ColIds, NEW f \in Fields, NEW def \in IndexDefs,
               RejectIndex(c, f, def)
        PROVE  IInv'
    <2>1. Rebuild(c, defs[c]) \in [Fields -> [DocIds -> Entries \cup {None}]]
      BY <1>0, RebuildType DEF MemType
    <2>2. entries' \in [ColIds -> [Fields -> [DocIds -> Entries \cup {None}]]]
      BY <1>0, <1>9, <2>1 DEF RejectIndex, MemType
    <2>3. MemType'
      BY <1>0, <1>9, <2>2 DEF RejectIndex, MemType
    <2>4. QED
      BY <1>9, <2>3, IndexStep DEF RejectIndex
  <1>10. QED
    BY <1>1, <1>2, <1>3, <1>4, <1>5, <1>6, <1>7, <1>8, <1>9 DEF WriteOne

-----------------------------------------------------------------------------
(* Batches.                                                                *)

\* A step that appends a record and leaves memory alone.
LEMMA LogOnlyStep ==
    ASSUME IInv, phase = "open", NEW r \in Records, log' = Append(log, r),
           UNCHANGED <<phase, loaderVars, memoryVars, compactVars, acked>>,
           batch' \in Batches \cup {None}, BatchOffsets'
    PROVE  IInv'
  <1>1. MemType /\ log \in Seq(Records) /\ PrimaryOffsets /\ RegisteredDocs
    BY DEF IInv, TypeOK, MemType
  <1>2. PrimaryOffsets'
    <2>1. \A c \in ColIds, d \in DocIds : primary'[c][d] = primary[c][d]
      BY DEF memoryVars
    <2>2. QED
      BY <1>1, <2>1, OffsetsKept
  <1>3. log' \in Seq(Records)
    BY <1>1
  <1>4. TypeOK'
    BY <1>3 DEF IInv, TypeOK, loaderVars, memoryVars, compactVars
  <1>5. RegisteredDocs'
    BY <1>1 DEF RegisteredDocs, memoryVars
  <1>6. CompactionHeads' /\ LoaderInLog'
    BY DEF CompactionHeads, LoaderInLog
  <1>7. QED
    BY <1>2, <1>4, <1>5, <1>6 DEF IInv

\* A batch starts on a live collection with no offset noted.
LEMMA BeginBatchStep ==
    ASSUME IInv, NEW c \in ColIds, Live(c), NEW ids \in BatchIds,
           NEW docs \in [DocIds -> Docs \cup {None}], BeginBatch(c, ids, docs)
    PROVE  IInv'
  <1>1. batch' = [col |-> c, ids |-> ids, docs |-> docs, done |-> 0, offs |-> NoDocs]
    BY DEF BeginBatch
  <1>2. batch' \in Batches
    BY <1>1 DEF Batches, NoDocs
  <1>3. byId' = byId /\ phase' = phase /\ phase = "open" /\ byId[c] # None
    BY DEF BeginBatch, Live, Idle, memoryVars
  <1>4. BatchOffsets'
    BY <1>1, <1>3 DEF BatchOffsets, NoDocs
  <1>5. Txnb \in Records
    BY RecordTypes
  <1>6. QED
    BY <1>2, <1>3, <1>4, <1>5, LogOnlyStep DEF BeginBatch

\* Noting the offset of one more record.
LEMMA BatchAdvance ==
    ASSUME NEW b \in Batches, NEW d \in DocIds, NEW o \in Nat
    PROVE  /\ Noted(b, d, o) \in Batches
           /\ Noted(b, d, o).col = b.col
           /\ \A g \in DocIds :
                  Noted(b, d, o).offs[g] = IF g = d THEN o ELSE b.offs[g]
  BY DEF Batches, Noted

\* A batch notes the offset of the very record it has just appended.
LEMMA WriteBatchStep == ASSUME IInv, WriteBatch PROVE IInv'
  <1> DEFINE c == batch.col
             d == batch.ids[batch.done + 1]
             put == batch.docs[d] # None
             rec == IF put THEN PutRec(c, d, batch.docs[d]) ELSE DelRec(c, d)
  <1>1. /\ phase = "open" /\ batch # None /\ batch.done < Len(batch.ids)
        /\ log' = Append(log, rec)
        /\ batch' = Noted(batch, d, IF put THEN Len(log) + 1 ELSE 0)
        /\ UNCHANGED <<phase, loaderVars, memoryVars, compactVars, acked>>
    BY DEF WriteBatch, Pending
  <1>2. batch \in Batches /\ log \in Seq(Records)
    BY <1>1 DEF IInv, TypeOK
  <1>3. c \in ColIds /\ d \in DocIds /\ batch.docs[d] \in Docs \cup {None}
    <2>1. PICK n \in 1 .. MaxBatch : batch.ids \in [1 .. n -> DocIds]
      BY <1>2 DEF Batches, BatchIds
    <2>2. batch.done \in Nat /\ Len(batch.ids) = n
      BY <1>2, <2>1 DEF Batches
    <2>3. batch.done + 1 \in 1 .. n
      BY <1>1, <2>2
    <2>4. QED
      BY <1>2, <2>1, <2>3 DEF Batches
  <1>4. rec \in Records
    BY <1>3, RecordTypes
  <1> DEFINE o == IF put THEN Len(log) + 1 ELSE 0
  <1>5. /\ batch' \in Batches
        /\ batch'.col = c
        /\ \A g \in DocIds : batch'.offs[g] = IF g = d THEN o ELSE batch.offs[g]
    <2>1. o \in Nat
      BY <1>2
    <2>2. batch' = Noted(batch, d, o)
      BY <1>1
    <2> HIDE DEF o, d
    <2>3. /\ Noted(batch, d, o) \in Batches
          /\ Noted(batch, d, o).col = c
          /\ \A g \in DocIds :
                 Noted(batch, d, o).offs[g] = IF g = d THEN o ELSE batch.offs[g]
      <3>1. batch \in Batches /\ d \in DocIds /\ o \in Nat
        BY <1>2, <1>3, <2>1
      <3> HIDE DEF c
      <3>2. \A dd \in DocIds, oo \in Nat :
               /\ Noted(batch, dd, oo) \in Batches
               /\ Noted(batch, dd, oo).col = batch.col
               /\ \A g \in DocIds : Noted(batch, dd, oo).offs[g] =
                      IF g = dd THEN oo ELSE batch.offs[g]
        BY <3>1, BatchAdvance
      <3>3. QED
        BY <3>1, <3>2, Zenon DEF c
    <2>4. QED
      BY <2>2, <2>3, Zenon
  <1>6. ASSUME NEW g \in DocIds, batch'.offs[g] # 0
        PROVE  IsPut(batch.offs[g], batch.col, g)'
    <2>1. CASE g = d
      <3>1. put /\ batch'.offs[g] = Len(log) + 1
        BY <1>5, <1>6, <2>1
      <3>2. rec.op = "put1" /\ rec.col = c /\ rec.id = d
        BY <3>1 DEF PutRec
      <3>3. Len(log) + 1 \in DOMAIN log' /\ log'[Len(log) + 1] = rec
        <4> HIDE DEF rec
        <4> QED  BY <1>1, <1>2, <1>4
      <3>4. QED
        BY <1>5, <2>1, <3>1, <3>2, <3>3 DEF IsPut
    <2>2. CASE g # d
      <3>1. batch'.offs[g] = batch.offs[g] /\ batch.offs[g] \in Nat
        BY <1>2, <1>5, <2>2 DEF Batches
      <3>2. IsPut(batch.offs[g], c, g)
        BY <1>1, <1>6, <3>1 DEF IInv, BatchOffsets
      <3>3. batch.offs[g] \in DOMAIN log' /\ log'[batch.offs[g]] = log[batch.offs[g]]
        <4>1. batch.offs[g] \in DOMAIN log
          BY <3>2 DEF IsPut
        <4> HIDE DEF rec
        <4>2. QED
          BY <1>1, <1>2, <1>4, <3>1, <4>1
      <3>4. QED
        BY <1>5, <3>1, <3>2, <3>3 DEF IsPut
    <2>3. QED
      BY <2>1, <2>2
  <1>7. BatchOffsets'
    <2>1. phase' = "open" /\ byId' = byId /\ batch'.col = c /\ byId[c] # None
      BY <1>1, <1>5 DEF memoryVars, IInv, BatchOffsets
    <2>2. QED
      BY <1>6, <2>1 DEF BatchOffsets
  <1>8. QED
    BY <1>1, <1>4, <1>5, <1>7, LogOnlyStep

\* The offsets a commit gives to the primary index are those of the batch's
\* own put1 records.
LEMMA CommitBatchStep == ASSUME IInv, CommitBatch PROVE IInv'
  <1> DEFINE c == batch.col
             in(d) == d \in Members(batch.ids)
             entry(f, d) == IF batch.docs[d] = None THEN None
                            ELSE Entry(defs[c][f], batch.docs[d][f], batch.offs[d])
             offs == [d \in DocIds |-> IF in(d) THEN batch.offs[d] ELSE primary[c][d]]
             ents == [f \in Fields |-> [d \in DocIds |->
                         IF in(d) THEN entry(f, d) ELSE entries[c][f][d]]]
  <1>1. /\ phase = "open" /\ batch # None /\ log' = Append(log, Txnc)
        /\ primary' = [primary EXCEPT ![c] = offs]
        /\ entries' = [entries EXCEPT ![c] = ents]
        /\ batch' = None
        /\ UNCHANGED <<phase, loaderVars, byName, byId, defs, compactVars, acked>>
    BY DEF CommitBatch
  <1>2. /\ batch \in Batches /\ log \in Seq(Records) /\ MemType
        /\ PrimaryOffsets /\ RegisteredDocs
        /\ phase' = "open"
    BY <1>1 DEF IInv, TypeOK, MemType
  <1>3. /\ c \in ColIds /\ batch.offs \in [DocIds -> Nat]
        /\ batch.docs \in [DocIds -> Docs \cup {None}]
        /\ byId[c] # None
        /\ \A d \in DocIds : batch.offs[d] # 0 => IsPut(batch.offs[d], c, d)
    BY <1>1, <1>2 DEF Batches, IInv, BatchOffsets
  <1>4. offs \in [DocIds -> Nat]
    BY <1>2, <1>3 DEF MemType
  <1>5. ents \in [Fields -> [DocIds -> Entries \cup {None}]]
    <2>1. ASSUME NEW f \in Fields, NEW d \in DocIds
          PROVE  entry(f, d) \in Entries \cup {None}
      <3>1. CASE batch.docs[d] = None
        BY <3>1
      <3>2. CASE batch.docs[d] # None
        <4>1. batch.docs[d][f] \in Values /\ defs[c][f] \in IndexDefs \cup {None}
              /\ batch.offs[d] \in Nat
          BY <1>2, <1>3, <3>2 DEF Docs, MemType
        <4>2. QED
          BY <4>1, <3>2, EntryType
      <3>3. QED
        BY <3>1, <3>2
    <2>2. \A f \in Fields, d \in DocIds : entries[c][f][d] \in Entries \cup {None}
      BY <1>2, <1>3 DEF MemType
    <2>3. QED
      BY <2>1, <2>2
  <1>6. MemType'
    BY <1>1, <1>2, <1>3, <1>4, <1>5 DEF MemType
  <1>7. Txnc \in Records
    BY RecordTypes, <1>3
  <1>8. log' \in Seq(Records)
    BY <1>1, <1>2, <1>7
  <1>9. PrimaryOffsets'
    <2>1. ASSUME NEW e \in ColIds, NEW d \in DocIds
          PROVE  \/ primary'[e][d] = 0
                 \/ primary'[e][d] = primary[e][d]
                 \/ IsPut(primary[e][d], e, d)'
      <3>1. CASE e = c /\ in(d) /\ batch.offs[d] # 0
        <4>1. primary'[e][d] = batch.offs[d]
          BY <1>1, <1>2, <1>3, <3>1 DEF MemType
        <4>2. IsPut(batch.offs[d], c, d) /\ batch.offs[d] \in Nat
          BY <1>3, <3>1
        <4>3. QED
          BY <1>1, <1>2, <1>7, <3>1, <4>1, <4>2 DEF IsPut
      <3>2. CASE ~(e = c /\ in(d) /\ batch.offs[d] # 0)
        BY <1>1, <1>2, <1>3, <3>2 DEF MemType
      <3>3. QED
        BY <3>1, <3>2
    <2>2. QED
      BY <1>1, <1>2, <1>7, <2>1, OffsetsKept
  <1>10. RegisteredDocs'
    BY <1>1, <1>2, <1>3 DEF RegisteredDocs, MemType
  <1>11. TypeOK'
    BY <1>1, <1>6, <1>8 DEF IInv, TypeOK, MemType, loaderVars, compactVars
  <1>12. CompactionHeads' /\ BatchOffsets' /\ LoaderInLog'
    BY <1>1, <1>2 DEF CompactionHeads, BatchOffsets, LoaderInLog
  <1>13. QED
    BY <1>9, <1>10, <1>11, <1>12 DEF IInv

\* Every step of a batch keeps the invariant.
LEMMA WriteManyStep == IInv /\ WriteMany => IInv'
  <1> SUFFICES ASSUME IInv, WriteMany PROVE IInv'
    OBVIOUS
  <1>1. ASSUME NEW c \in ColIds, NEW ids \in BatchIds,
               NEW docs \in [DocIds -> Docs \cup {None}], InsertMany(c, ids, docs)
        PROVE  IInv'
    BY <1>1, BeginBatchStep DEF InsertMany
  <1>2. ASSUME NEW c \in ColIds, NEW ids \in BatchIds, NEW f \in Fields,
               NEW v \in Values, UpdateMany(c, ids, f, v)
        PROVE  IInv'
    <2> DEFINE docs == [d \in DocIds |-> IF d \in Members(ids)
                                         THEN [StoredDoc(c, d) EXCEPT ![f] = v]
                                         ELSE None]
    <2>1. Live(c) /\ BeginBatch(c, ids, docs)
          /\ \A d \in Members(ids) : primary[c][d] # 0
      BY <1>2 DEF UpdateMany
    <2>2. ASSUME NEW d \in DocIds, d \in Members(ids)
          PROVE  [StoredDoc(c, d) EXCEPT ![f] = v] \in Docs
      <3>1. StoredDoc(c, d) \in Docs
        BY <2>1, <2>2, StoredDocType DEF IInv, TypeOK
      <3>2. QED
        BY <3>1 DEF Docs
    <2>3. docs \in [DocIds -> Docs \cup {None}]
      BY <2>2
    <2>4. QED
      BY <2>1, <2>3, BeginBatchStep
  <1>3. ASSUME NEW c \in ColIds, NEW ids \in BatchIds, DeleteMany(c, ids)
        PROVE  IInv'
    <2>1. [d \in DocIds |-> None] \in [DocIds -> Docs \cup {None}]
      OBVIOUS
    <2>2. QED
      BY <1>3, <2>1, BeginBatchStep DEF DeleteMany
  <1>4. CASE WriteBatch
    BY <1>4, WriteBatchStep
  <1>5. CASE CommitBatch
    BY <1>5, CommitBatchStep
  <1>6. CASE ThrowInBatch
    BY <1>6 DEF ThrowInBatch, IInv, TypeOK, PrimaryOffsets, RegisteredDocs, IsPut,
       CompactionHeads, BatchOffsets, LoaderInLog, loaderVars, memoryVars, compactVars
  <1>7. QED
    BY <1>1, <1>2, <1>3, <1>4, <1>5, <1>6 DEF WriteMany

-----------------------------------------------------------------------------
(* Compaction.                                                             *)

\* When a compaction starts, its heads are before every live record.
LEMMA BeginCompactStep == ASSUME IInv, BeginCompact PROVE IInv'
  <1>1. live' \in Nat
    <2>1. log \in Seq(Records)
      BY DEF IInv, TypeOK
    <2>2. IsFiniteSet(1 .. Len(log))
      BY <2>1, FS_Interval
    <2>3. LiveRecords \subseteq 1 .. Len(log)
      BY <2>1 DEF LiveRecords
    <2>4. IsFiniteSet(LiveRecords)
      BY <2>2, <2>3, FS_Subset
    <2>5. QED
      BY <2>4, FS_CardinalityType DEF BeginCompact
  <1>2. TypeOK'
    BY <1>1 DEF BeginCompact, IInv, TypeOK, loaderVars, memoryVars
  <1>3. PrimaryOffsets' /\ RegisteredDocs'
    BY DEF BeginCompact, IInv, PrimaryOffsets, RegisteredDocs, IsPut, memoryVars
  <1>4. CompactionHeads'
    <2>1. log' = log /\ primary' = primary /\ scan' = 0 /\ write' = 0
      BY DEF BeginCompact, memoryVars
    <2>2. Len(log) >= 0 /\ \A c \in ColIds, d \in DocIds : primary[c][d] \in Nat
      BY DEF IInv, TypeOK
    <2>3. QED
      BY <2>1, <2>2 DEF CompactionHeads
  <1>5. BatchOffsets' /\ LoaderInLog'
    BY DEF BeginCompact, Idle, BatchOffsets, LoaderInLog
  <1>6. QED
    BY <1>2, <1>3, <1>4, <1>5 DEF IInv

\* The record under the scan head is a live put1 exactly when the primary index
\* points at it.
LEMMA ScanHead ==
    ASSUME IInv, phase = "compacting", scan < Len(log),
           NEW c \in ColIds, NEW d \in DocIds, primary[c][d] = scan + 1
    PROVE  /\ log[scan + 1].op = "put1"
           /\ log[scan + 1].col = c /\ log[scan + 1].id = d
           /\ ShouldKeep(log[scan + 1], scan + 1)
  <1>1. scan \in Nat /\ primary[c][d] # 0
    BY DEF IInv, TypeOK
  <1>2. IsPut(scan + 1, c, d) /\ byId[c] # None
    BY <1>1 DEF IInv, PrimaryOffsets, RegisteredDocs
  <1>3. QED
    BY <1>2 DEF IsPut, ShouldKeep

\* Skipping a dead record brings no live offset between the heads.
LEMMA CompactSkipStep == ASSUME IInv, CompactSkip PROVE IInv'
  <1>1. /\ phase = "compacting" /\ scan < Len(log) /\ scan' = scan + 1
        /\ ~ShouldKeep(log[scan + 1], scan + 1)
        /\ UNCHANGED <<log, phase, loaderVars, memoryVars, batch, write, live, acked>>
    BY DEF CompactSkip
  <1>2. scan \in Nat /\ write \in Nat /\ Len(log) \in Nat
        /\ primary \in [ColIds -> [DocIds -> Nat]]
    BY DEF IInv, TypeOK
  <1>3. TypeOK'
    BY <1>1, <1>2 DEF IInv, TypeOK, loaderVars, memoryVars
  <1>4. PrimaryOffsets' /\ RegisteredDocs'
    BY <1>1 DEF IInv, PrimaryOffsets, RegisteredDocs, IsPut, memoryVars
  <1>5. CompactionHeads'
    <2>1. write <= scan /\ scan <= Len(log)
          /\ \A c \in ColIds, d \in DocIds : primary[c][d] <= write \/ primary[c][d] > scan
      BY <1>1 DEF IInv, CompactionHeads
    <2>2. \A c \in ColIds, d \in DocIds : primary[c][d] # scan + 1
      BY <1>1, ScanHead
    <2>3. write <= scan + 1 /\ scan + 1 <= Len(log)
          /\ \A c \in ColIds, d \in DocIds : primary[c][d] <= write \/ primary[c][d] > scan + 1
      BY <1>1, <1>2, <2>1, <2>2
    <2>4. QED
      BY <1>1, <2>3 DEF CompactionHeads, memoryVars
  <1>6. BatchOffsets' /\ LoaderInLog'
    BY <1>1 DEF IInv, BatchOffsets, LoaderInLog
  <1>7. QED
    BY <1>3, <1>4, <1>5, <1>6 DEF IInv

\* Moving the record under the scan head changes one place of the log, and the
\* offset of one document at most: the one the record is the version of.
LEMMA CompactKeepEffect ==
    ASSUME IInv, CompactKeep
    PROVE  /\ phase = "compacting" /\ scan \in Nat /\ write \in Nat
           /\ scan < Len(log) /\ write <= scan
           /\ log[scan + 1] \in Records
           /\ Len(log') = Len(log)
           /\ \A k \in 1 .. Len(log) :
                 log'[k] = IF k = write + 1 THEN log[scan + 1] ELSE log[k]
           /\ \A c \in ColIds, d \in DocIds :
                 \/ /\ log[scan + 1].op = "put1"
                    /\ log[scan + 1].col = c /\ log[scan + 1].id = d
                    /\ primary[c][d] = scan + 1 /\ primary'[c][d] = write + 1
                 \/ /\ primary'[c][d] = primary[c][d]
                    /\ primary[c][d] <= write \/ primary[c][d] > scan + 1
  <1> DEFINE r == log[scan + 1]
  <1>1. /\ phase = "compacting" /\ scan < Len(log)
        /\ ShouldKeep(r, scan + 1)
        /\ log' = [log EXCEPT ![write + 1] = r]
        /\ primary' = IF r.op = "put1"
                      THEN [primary EXCEPT ![r.col][r.id] = write + 1] ELSE primary
    BY DEF CompactKeep
  <1>2. /\ scan \in Nat /\ write \in Nat /\ Len(log) \in Nat /\ log \in Seq(Records)
        /\ primary \in [ColIds -> [DocIds -> Nat]]
    BY DEF IInv, TypeOK
  <1>3. /\ write <= scan
        /\ \A c \in ColIds, d \in DocIds : primary[c][d] <= write \/ primary[c][d] > scan
    BY <1>1 DEF IInv, CompactionHeads
  <1>4. r \in Records
    BY <1>1, <1>2
  <1>5. /\ Len(log') = Len(log)
        /\ \A k \in 1 .. Len(log) : log'[k] = IF k = write + 1 THEN r ELSE log[k]
    <2> HIDE DEF r
    <2> QED  BY <1>1, <1>2, <1>3, <1>4
  <1>6. r.op = "put1" =>
           r.col \in ColIds /\ r.id \in DocIds /\ primary[r.col][r.id] = scan + 1
    BY <1>1, <1>4, RecordShapes DEF PutRecs, ShouldKeep
  <1>7. ASSUME NEW c \in ColIds, NEW d \in DocIds
        PROVE  \/ /\ r.op = "put1" /\ r.col = c /\ r.id = d
                  /\ primary[c][d] = scan + 1 /\ primary'[c][d] = write + 1
               \/ /\ primary'[c][d] = primary[c][d]
                  /\ primary[c][d] <= write \/ primary[c][d] > scan + 1
    <2>1. CASE r.op = "put1" /\ r.col = c /\ r.id = d
      BY <1>1, <1>2, <1>6, <2>1
    <2>2. CASE ~(r.op = "put1" /\ r.col = c /\ r.id = d)
      <3>1. primary'[c][d] = primary[c][d]
        BY <1>1, <1>2, <1>6, <2>2
      <3>2. primary[c][d] # scan + 1
        BY <1>1, <2>2, ScanHead
      <3>3. primary[c][d] \in Nat /\ (primary[c][d] <= write \/ primary[c][d] > scan)
        BY <1>2, <1>3
      <3>4. QED
        BY <1>2, <3>1, <3>2, <3>3
    <2>3. QED
      BY <2>1, <2>2
  <1>8. QED
    BY <1>1, <1>2, <1>3, <1>4, <1>5, <1>7

\* Moving a record overwrites dead records only, and a moved document's new
\* offset lies below the write head.
LEMMA CompactKeepStep == ASSUME IInv, CompactKeep PROVE IInv'
  <1> DEFINE r == log[scan + 1]
  <1>1. /\ phase = "compacting" /\ scan \in Nat /\ write \in Nat
        /\ scan < Len(log) /\ write <= scan /\ r \in Records
        /\ Len(log') = Len(log)
        /\ \A k \in 1 .. Len(log) : log'[k] = IF k = write + 1 THEN r ELSE log[k]
        /\ \A c \in ColIds, d \in DocIds :
              \/ /\ r.op = "put1" /\ r.col = c /\ r.id = d
                 /\ primary[c][d] = scan + 1 /\ primary'[c][d] = write + 1
              \/ /\ primary'[c][d] = primary[c][d]
                 /\ primary[c][d] <= write \/ primary[c][d] > scan + 1
    BY CompactKeepEffect
  <1>2. /\ ShouldKeep(r, scan + 1)
        /\ log' = [log EXCEPT ![write + 1] = r]
        /\ primary' = IF r.op = "put1"
                      THEN [primary EXCEPT ![r.col][r.id] = write + 1] ELSE primary
        /\ scan' = scan + 1 /\ write' = write + 1
        /\ UNCHANGED <<phase, loaderVars, byName, byId, defs, entries, batch, live, acked>>
    BY DEF CompactKeep
  <1>3. /\ log \in Seq(Records) /\ Len(log) \in Nat
        /\ primary \in [ColIds -> [DocIds -> Nat]]
    BY DEF IInv, TypeOK
  <1> HIDE DEF r
  <1>4. log' \in Seq(Records) /\ DOMAIN log' = 1 .. Len(log)
    BY <1>1, <1>2, <1>3
  <1>5. primary' \in [ColIds -> [DocIds -> Nat]]
    <2>1. CASE r.op = "put1"
      <3>1. r.col \in ColIds /\ r.id \in DocIds
        BY <1>1, <2>1, RecordShapes DEF PutRecs
      <3>2. QED
        BY <1>1, <1>2, <1>3, <2>1, <3>1
    <2>2. CASE r.op # "put1"
      BY <1>2, <1>3, <2>2
    <2>3. QED
      BY <2>1, <2>2
  <1>6. TypeOK'
    BY <1>1, <1>2, <1>4, <1>5 DEF IInv, TypeOK, loaderVars
  <1>7. PrimaryOffsets'
    <2> SUFFICES ASSUME NEW c \in ColIds, NEW d \in DocIds, primary'[c][d] # 0
                 PROVE  IsPut(primary[c][d], c, d)'
      BY DEF PrimaryOffsets
    <2>1. CASE r.op = "put1" /\ r.col = c /\ r.id = d /\ primary'[c][d] = write + 1
      BY <1>1, <1>4, <2>1 DEF IsPut
    <2>2. CASE /\ primary'[c][d] = primary[c][d]
               /\ primary[c][d] <= write \/ primary[c][d] > scan + 1
      <3>1. IsPut(primary[c][d], c, d) /\ primary[c][d] \in Nat
        BY <1>3, <2>2 DEF IInv, PrimaryOffsets
      <3>2. primary[c][d] \in 1 .. Len(log) /\ primary[c][d] # write + 1
        BY <1>1, <1>3, <2>2, <3>1 DEF IsPut
      <3>3. log'[primary[c][d]] = log[primary[c][d]]
        BY <1>1, <3>2
      <3>4. QED
        BY <1>4, <2>2, <3>1, <3>2, <3>3 DEF IsPut
    <2>3. QED
      BY <1>1, <2>1, <2>2
  <1>8. RegisteredDocs'
    <2> SUFFICES ASSUME NEW c \in ColIds, NEW d \in DocIds, byId[c] = None
                 PROVE  primary'[c][d] = 0
      BY <1>2 DEF RegisteredDocs
    <2>1. primary[c][d] = 0
      BY DEF IInv, RegisteredDocs
    <2>2. QED
      BY <1>1, <2>1
  <1>9. CompactionHeads'
    <2>1. ASSUME NEW c \in ColIds, NEW d \in DocIds
          PROVE  primary'[c][d] <= write + 1 \/ primary'[c][d] > scan + 1
      <3>1. primary[c][d] \in Nat
        BY <1>3
      <3>2. QED
        BY <1>1, <3>1
    <2>2. QED
      BY <1>1, <1>2, <1>3, <2>1 DEF CompactionHeads
  <1>10. BatchOffsets' /\ LoaderInLog'
    BY <1>1, <1>2 DEF IInv, BatchOffsets, LoaderInLog
  <1>11. QED
    BY <1>6, <1>7, <1>8, <1>9, <1>10 DEF IInv

\* Truncating at the write head keeps every record an offset points at.
LEMMA EndCompactEffect ==
    ASSUME IInv, EndCompact
    PROVE  /\ phase = "compacting" /\ phase' = "open" /\ scan = Len(log)
           /\ write \in Nat /\ write <= Len(log)
           /\ DOMAIN log' = 1 .. write
           /\ \A k \in 1 .. write : log'[k] = log[k]
           /\ primary' = primary /\ byId' = byId /\ byName' = byName /\ defs' = defs
           /\ batch' = batch /\ batch = None
           /\ \A c \in ColIds, d \in DocIds :
                 primary[c][d] # 0 => primary[c][d] \in 1 .. write
  <1>1. /\ phase = "compacting" /\ scan = Len(log) /\ phase' = "open"
        /\ log' = SubSeq(log, 1, write)
        /\ primary' = primary /\ byId' = byId /\ byName' = byName /\ defs' = defs
        /\ batch' = batch
    BY DEF EndCompact
  <1>2. /\ log \in Seq(Records) /\ write \in Nat /\ batch = None
        /\ primary \in [ColIds -> [DocIds -> Nat]]
    BY <1>1 DEF IInv, TypeOK, BatchOffsets
  <1>3. write <= Len(log)
        /\ \A c \in ColIds, d \in DocIds : primary[c][d] <= write \/ primary[c][d] > Len(log)
    BY <1>1 DEF IInv, CompactionHeads
  <1>4. DOMAIN log' = 1 .. write /\ \A k \in 1 .. write : log'[k] = log[k]
    BY <1>1, <1>2, <1>3
  <1>5. ASSUME NEW c \in ColIds, NEW d \in DocIds, primary[c][d] # 0
        PROVE  primary[c][d] \in 1 .. write
    <2>1. IsPut(primary[c][d], c, d) /\ primary[c][d] \in Nat
      BY <1>2, <1>5 DEF IInv, PrimaryOffsets
    <2>2. primary[c][d] \in 1 .. Len(log)
      BY <1>2, <2>1 DEF IsPut
    <2>3. QED
      BY <1>2, <1>3, <2>2
  <1>6. QED
    BY <1>1, <1>2, <1>3, <1>4, <1>5

\* Truncating at the write head cuts off no live record.
LEMMA EndCompactStep == ASSUME IInv, EndCompact PROVE IInv'
  <1>1. /\ phase = "compacting" /\ phase' = "open" /\ write \in Nat /\ write <= Len(log)
        /\ DOMAIN log' = 1 .. write
        /\ \A k \in 1 .. write : log'[k] = log[k]
        /\ primary' = primary /\ byId' = byId /\ batch' = batch /\ batch = None
        /\ \A c \in ColIds, d \in DocIds :
              primary[c][d] # 0 => primary[c][d] \in 1 .. write
    BY EndCompactEffect
  <1>2. log \in Seq(Records) /\ MemType /\ PrimaryOffsets
    BY DEF IInv, TypeOK, MemType
  <1>3. PrimaryOffsets'
    BY <1>1, <1>2 DEF PrimaryOffsets, IsPut
  <1>4. entries' \in [ColIds -> [Fields -> [DocIds -> Entries \cup {None}]]]
    <2>1. ASSUME NEW c \in ColIds, NEW f \in Fields, NEW d \in DocIds
          PROVE  Indexed(c, f, d) \in Entries \cup {None}
      BY <1>2, IndexedType
    <2>2. QED
      BY <2>1 DEF EndCompact
  <1>5. log' \in Seq(Records)
    BY <1>1, <1>2 DEF EndCompact
  <1>6. TypeOK'
    BY <1>4, <1>5 DEF EndCompact, IInv, TypeOK, loaderVars
  <1>7. RegisteredDocs' /\ CompactionHeads' /\ BatchOffsets' /\ LoaderInLog'
    BY <1>1 DEF IInv, RegisteredDocs, CompactionHeads, BatchOffsets, LoaderInLog
  <1>8. QED
    BY <1>3, <1>6, <1>7 DEF IInv

-----------------------------------------------------------------------------
(* The end of a session and the next open().                               *)

\* Losing all memory and nothing of the file.
LEMMA ForgetStep ==
    ASSUME IInv, Forget, log' = log, phase' \in {"down", "failed"}, acked' \in Views
    PROVE  IInv'
  <1>1. MemType' /\ PrimaryOffsets'
    BY ForgetType
  <1>2. TypeOK'
    BY <1>1 DEF Forget, IInv, TypeOK, MemType
  <1>3. RegisteredDocs' /\ CompactionHeads' /\ BatchOffsets' /\ LoaderInLog'
    BY DEF Forget, RegisteredDocs, CompactionHeads, BatchOffsets, LoaderInLog, NoDocs
  <1>4. QED
    BY <1>1, <1>2, <1>3 DEF IInv

\* Closing, crashing and failing to open leave nothing in memory.
LEMMA SessionEndStep == ASSUME IInv, Close \/ Crash \/ LoadFail PROVE IInv'
  <1>1. View \in Views /\ acked \in Views
    BY ViewType DEF IInv, TypeOK, MemType
  <1>2. QED
    BY <1>1, ForgetStep DEF Close, Crash, LoadFail

\* A replay step that changes the loader's position only.
LEMMA LoaderStep ==
    ASSUME IInv, phase \in {"down", "loading", "failed"}, phase' \in {"loading", "open"},
           UNCHANGED <<log, memoryVars, batch, compactVars, acked>>,
           pos' \in Nat, txn' \in Nat, redo' \in Nat, LoaderInLog'
    PROVE  IInv'
  <1>1. TypeOK'
    BY DEF IInv, TypeOK, memoryVars, compactVars
  <1>2. PrimaryOffsets' /\ RegisteredDocs'
    BY DEF IInv, PrimaryOffsets, RegisteredDocs, IsPut, memoryVars
  <1>3. CompactionHeads' /\ BatchOffsets'
    BY DEF IInv, CompactionHeads, BatchOffsets
  <1>4. QED
    BY <1>1, <1>2, <1>3 DEF IInv

\* Replaying the record at offset o.
LEMMA ReplayStep ==
    ASSUME IInv, phase = "loading", NEW o \in 1 .. Len(log),
           Applicable(log[o]), ApplyOperation(log[o], o),
           UNCHANGED <<log, phase, batch, compactVars, acked>>,
           pos' \in Nat, txn' \in Nat, redo' \in Nat, LoaderInLog'
    PROVE  IInv'
  <1> DEFINE r == log[o]
  <1>1. /\ log \in Seq(Records) /\ MemType /\ PrimaryOffsets /\ RegisteredDocs
        /\ r \in Records /\ batch = None
    BY DEF IInv, TypeOK, MemType, BatchOffsets
  <1>2. /\ r.op = "ncl1" => r.col \in ColIds /\ r.name \in Names
        /\ r.op = "dco1" => r.col \in ColIds
        /\ r.op = "put1" => r.col \in ColIds /\ r.id \in DocIds /\ r.doc \in Docs
        /\ r.op = "del1" => r.col \in ColIds /\ r.id \in DocIds
        /\ r.op = "idx1" => r.col \in ColIds /\ r.field \in Fields /\ r.def \in IndexDefs
        /\ r.op = "dix1" => r.col \in ColIds /\ r.field \in Fields
    BY <1>1, RecordShapes DEF NclRecs, DcoRecs, PutRecs, DelRecs, IdxRecs, DixRecs
  <1>3. MemType' /\ RegisteredDocs'
        /\ \A c \in ColIds, d \in DocIds :
              \/ primary'[c][d] = 0
              \/ primary'[c][d] = primary[c][d]
              \/ IsPut(primary[c][d], c, d)'
    <2>1. CASE r.op = "ncl1" /\ Register(r.col, r.name)
      <3>1. MemType'
        BY <1>1, <1>2, <2>1, RegisterType
      <3>2. QED
        BY <1>1, <1>2, <2>1, <3>1 DEF Register, RegisteredDocs, MemType, NoDocs
    <2>2. CASE r.op = "put1" /\ ApplyPut(r.col, r.id, o, r.doc)
      <3>1. MemType'
        BY <1>1, <1>2, <2>2, ApplyPutType
      <3>2. primary' = [primary EXCEPT ![r.col][r.id] = o]
        BY <2>2 DEF ApplyPut
      <3>3. byId[r.col] # None /\ byId' = byId
        BY <2>2 DEF Applicable, ApplyPut
      <3>4. RegisteredDocs'
        BY <1>1, <1>2, <2>2, <3>2, <3>3 DEF RegisteredDocs, MemType
      <3>5. ASSUME NEW c \in ColIds, NEW d \in DocIds
            PROVE  primary'[c][d] = primary[c][d] \/ IsPut(primary[c][d], c, d)'
        BY <1>1, <1>2, <2>2, <3>2, SMTT(30) DEF IsPut, MemType
      <3>6. QED
        BY <3>1, <3>4, <3>5
    <2>3. CASE r.op = "del1" /\ ApplyDelete(r.col, r.id)
      <3>1. MemType'
        BY <1>1, <1>2, <2>3, ApplyDeleteType
      <3>2. QED
        BY <1>1, <1>2, <2>3, <3>1 DEF ApplyDelete, RegisteredDocs, MemType
    <2>4. CASE r.op = "dco1" /\ ApplyDrop(r.col)
      <3>1. MemType'
        BY <1>1, <1>2, <2>4, ApplyDropType
      <3>2. QED
        BY <1>1, <1>2, <2>4, <3>1 DEF ApplyDrop, RegisteredDocs, MemType, NoDocs
    <2>5. CASE r.op = "idx1" /\ ApplyCreateIndex(r.col, r.field, r.def)
      <3>1. MemType'
        BY <1>1, <1>2, <2>5, ApplyCreateIndexType
      <3>2. QED
        BY <1>1, <2>5, <3>1 DEF ApplyCreateIndex, RegisteredDocs
    <2>6. CASE r.op = "dix1" /\ ApplyDropIndex(r.col, r.field)
      <3>1. MemType'
        BY <1>1, <1>2, <2>6, ApplyDropIndexType
      <3>2. QED
        BY <1>1, <2>6, <3>1 DEF ApplyDropIndex, RegisteredDocs
    <2>7. QED
      BY <2>1, <2>2, <2>3, <2>4, <2>5, <2>6 DEF ApplyOperation
  <1>4. PrimaryOffsets'
    BY <1>1, <1>3, OffsetsKept
  <1>5. TypeOK'
    BY <1>3 DEF IInv, TypeOK, MemType, compactVars
  <1>6. CompactionHeads' /\ BatchOffsets'
    BY <1>1 DEF CompactionHeads, BatchOffsets
  <1>7. QED
    BY <1>3, <1>4, <1>5, <1>6 DEF IInv

\* Every step of a replay keeps the invariant.
LEMMA LoadStep == ASSUME IInv, Load PROVE IInv'
  <1>1. /\ pos \in Nat /\ txn \in Nat /\ redo \in Nat /\ Len(log) \in Nat
        /\ phase = "loading" => pos >= 1 /\ (redo # 0 => pos <= Len(log))
    BY DEF IInv, TypeOK, LoaderInLog
  <1>2. CASE LoadApply
    <2>1. phase = "loading" /\ pos \in 1 .. Len(log) /\ pos' = pos + 1
          /\ UNCHANGED <<log, phase, txn, redo, batch, compactVars, acked>> /\ redo = 0
      BY <1>1, <1>2 DEF LoadApply, Reading
    <2>2. LoaderInLog'
      BY <1>1, <2>1 DEF LoaderInLog
    <2>3. QED
      BY <1>1, <1>2, <2>1, <2>2, ReplayStep DEF LoadApply
  <1>3. CASE LoadRedo
    <2>1. phase = "loading" /\ redo \in 1 .. Len(log) /\ redo' = redo + 1
          /\ UNCHANGED <<log, phase, pos, txn, batch, compactVars, acked>>
      BY <1>1, <1>3 DEF LoadRedo, Redoing
    <2>2. LoaderInLog'
      BY <1>1, <2>1 DEF LoaderInLog
    <2>3. QED
      BY <1>1, <1>3, <2>1, <2>2, ReplayStep DEF LoadRedo
  <1>4. CASE LoadBegin
    <2>1. LoaderInLog' /\ phase = "loading"
      BY <1>1, <1>4 DEF LoadBegin, Reading, LoaderInLog
    <2>2. QED
      BY <1>1, <1>4, <2>1, LoaderStep DEF LoadBegin
  <1>5. CASE LoadStage
    <2>1. LoaderInLog' /\ phase = "loading"
      BY <1>1, <1>5 DEF LoadStage, Reading, LoaderInLog
    <2>2. QED
      BY <1>1, <1>5, <2>1, LoaderStep DEF LoadStage
  <1>6. CASE LoadCommit
    <2>1. LoaderInLog' /\ phase = "loading"
      BY <1>1, <1>6 DEF LoadCommit, Reading, LoaderInLog
    <2>2. QED
      BY <1>1, <1>6, <2>1, LoaderStep DEF LoadCommit
  <1>7. CASE LoadCommitted
    <2>1. LoaderInLog' /\ phase = "loading"
      BY <1>1, <1>7 DEF LoadCommitted, Redoing, LoaderInLog
    <2>2. QED
      BY <1>1, <1>7, <2>1, LoaderStep DEF LoadCommitted
  <1>8. CASE LoadEnd
    <2>1. LoaderInLog' /\ phase = "loading"
      BY <1>1, <1>8 DEF LoadEnd, LoaderInLog
    <2>2. QED
      BY <1>1, <1>8, <2>1, LoaderStep DEF LoadEnd
  <1>9. CASE LoadFail
    BY <1>9, SessionEndStep
  <1>10. QED
    BY <1>2, <1>3, <1>4, <1>5, <1>6, <1>7, <1>8, <1>9 DEF Load

\* Opening starts a replay at the first record.
LEMMA OpenStep == ASSUME IInv, Open PROVE IInv'
  <1>1. LoaderInLog' /\ pos' \in Nat /\ txn' \in Nat /\ redo' \in Nat
    BY DEF Open, IInv, TypeOK, LoaderInLog, CompactionHeads
  <1>2. QED
    BY <1>1, LoaderStep DEF Open

-----------------------------------------------------------------------------
(* The theorems.                                                           *)

\* An empty file with no process satisfies the inductive invariant.
LEMMA InitIInv == Init => IInv
  <1> SUFFICES ASSUME Init PROVE IInv
    OBVIOUS
  <1>1. TypeOK
    BY DEF Init, TypeOK, NoDocs, NoDefs, NoEntries, NoView, Views
  <1>2. QED
    BY <1>1 DEF Init, IInv, PrimaryOffsets, RegisteredDocs, CompactionHeads,
                BatchOffsets, LoaderInLog, NoDocs

\* Every step keeps the inductive invariant: one case per action.
LEMMA NextIInv == IInv /\ [Next]_vars => IInv'
  <1> SUFFICES ASSUME IInv, [Next]_vars PROVE IInv'
    OBVIOUS
  <1>1. CASE WriteOne
    BY <1>1, WriteOneStep
  <1>2. CASE WriteMany
    BY <1>2, WriteManyStep
  <1>3. CASE Compact
    BY <1>3, BeginCompactStep, CompactKeepStep, CompactSkipStep, EndCompactStep DEF Compact
  <1>4. CASE Close \/ Crash
    BY <1>4, SessionEndStep
  <1>5. CASE Open
    BY <1>5, OpenStep
  <1>6. CASE Load
    BY <1>6, LoadStep
  <1>7. CASE UNCHANGED vars
    BY <1>7 DEF vars, loaderVars, memoryVars, compactVars, IInv, TypeOK, PrimaryOffsets,
       RegisteredDocs, IsPut, CompactionHeads, BatchOffsets, LoaderInLog
  <1>8. QED
    BY <1>1, <1>2, <1>3, <1>4, <1>5, <1>6, <1>7 DEF Next

\* Whatever the calls, faults and crashes, each variable keeps its type.
THEOREM TypeCorrect == Spec => []TypeOK
  <1>1. IInv => TypeOK
    BY DEF IInv
  <1>2. QED
    BY <1>1, InitIInv, NextIInv, PTL DEF Spec

\* The primary index always points at a put1 record of the very document, in
\* every phase: reads, index rebuilds and compaction never meet another record.
THEOREM PrimaryOffsetsCorrect == Spec => []PrimaryOffsets
  <1>1. IInv => PrimaryOffsets
    BY DEF IInv
  <1>2. QED
    BY <1>1, InitIInv, NextIInv, PTL DEF Spec

\* compact() never overwrites a live record it has not moved yet.
THEOREM CompactionNeverOverwritesLive == Spec => []CompactionHeads
  <1>1. IInv => CompactionHeads
    BY DEF IInv
  <1>2. QED
    BY <1>1, InitIInv, NextIInv, PTL DEF Spec

-----------------------------------------------------------------------------
(* Compaction and readers.                                                 *)

\* Callers read the same when every current document has the same contents.
LEMMA SameView ==
    ASSUME MemType, byName' = byName, defs' = defs,
           \A c \in ColIds, d \in DocIds :
              /\ primary'[c][d] = 0 <=> primary[c][d] = 0
              /\ primary[c][d] # 0 => StoredDoc(c, d)' = StoredDoc(c, d)
    PROVE  View' = View
  <1>1. ASSUME NEW n \in Names, byName[n] # None
        PROVE  [d \in DocIds |-> IF primary'[byName[n]][d] = 0 THEN None
                                 ELSE StoredDoc(byName[n], d)']
             = [d \in DocIds |-> IF primary[byName[n]][d] = 0 THEN None
                                 ELSE StoredDoc(byName[n], d)]
    <2>1. byName[n] \in ColIds
      BY <1>1 DEF MemType
    <2>2. QED
      BY <2>1
  <1>2. QED
    BY <1>1 DEF View, StoredDoc

\* No step of a compaction changes what callers read.
LEMMA CompactStepView ==
    ASSUME IInv, CompactKeep \/ CompactSkip \/ EndCompact
    PROVE  View' = View
  <1>1. /\ log \in Seq(Records) /\ MemType /\ PrimaryOffsets
        /\ primary \in [ColIds -> [DocIds -> Nat]]
    BY DEF IInv, TypeOK, MemType
  <1>2. ASSUME NEW c \in ColIds, NEW d \in DocIds, primary[c][d] # 0
        PROVE  primary[c][d] \in 1 .. Len(log)
    BY <1>1, <1>2 DEF PrimaryOffsets, IsPut
  <1>3. CASE CompactKeep
    <2>1. byName' = byName /\ defs' = defs
      BY <1>3 DEF CompactKeep
    <2>2. ASSUME NEW c \in ColIds, NEW d \in DocIds
          PROVE  /\ primary'[c][d] = 0 <=> primary[c][d] = 0
                 /\ primary[c][d] # 0 => StoredDoc(c, d)' = StoredDoc(c, d)
      <3>1. CASE primary[c][d] = scan + 1 /\ primary'[c][d] = write + 1
        BY <1>3, <3>1, CompactKeepEffect DEF StoredDoc
      <3>2. CASE /\ primary'[c][d] = primary[c][d]
                 /\ primary[c][d] <= write \/ primary[c][d] > scan + 1
        <4>1. primary[c][d] # write + 1
          BY <1>1, <1>3, <3>2, CompactKeepEffect
        <4>2. primary[c][d] # 0 => log'[primary[c][d]] = log[primary[c][d]]
          BY <1>2, <1>3, <4>1, CompactKeepEffect
        <4>3. QED
          BY <3>2, <4>2 DEF StoredDoc
      <3>3. QED
        BY <1>3, <3>1, <3>2, CompactKeepEffect
    <2>3. QED
      BY <1>1, <2>1, <2>2, SameView
  <1>4. CASE CompactSkip
    BY <1>1, <1>4, SameView DEF CompactSkip, memoryVars, StoredDoc
  <1>5. CASE EndCompact
    <2>1. ASSUME NEW c \in ColIds, NEW d \in DocIds, primary[c][d] # 0
          PROVE  StoredDoc(c, d)' = StoredDoc(c, d)
      BY <1>5, <2>1, EndCompactEffect DEF StoredDoc
    <2>2. primary' = primary /\ byName' = byName /\ defs' = defs
      BY <1>5, EndCompactEffect
    <2>3. QED
      BY <1>1, <2>1, <2>2, SameView
  <1>6. QED
    BY <1>3, <1>4, <1>5

\* While a compaction runs, its own steps and a crash are the only ones.
LEMMA CompactingSteps ==
    ASSUME IInv, Next, phase = "compacting"
    PROVE  CompactKeep \/ CompactSkip \/ EndCompact \/ Crash
  <1>1. ~Load
    BY DEF Load, LoadApply, LoadBegin, LoadStage, LoadCommit, LoadRedo, LoadCommitted,
           LoadFail, LoadEnd, Reading, Redoing
  <1>2. ~WriteOne
    BY DEF WriteOne, Collection, InsertOne, ReplaceOne, UpdateOne, DeleteOne, Drop,
           RecreateIndex, DropIndex, CreateIndex, RejectIndex, Live, Idle
  <1>3. ~WriteMany
    BY DEF WriteMany, InsertMany, UpdateMany, DeleteMany, WriteBatch, CommitBatch,
           ThrowInBatch, Pending, Live, Idle
  <1>4. ~BeginCompact /\ ~Close /\ ~Open
    BY DEF BeginCompact, Close, Open, Idle
  <1>5. QED
    BY <1>1, <1>2, <1>3, <1>4 DEF Next, Compact

\* Only compact() starts a compaction.
LEMMA CompactBegins ==
    ASSUME Next, phase # "compacting", phase' = "compacting"
    PROVE  BeginCompact
  <1>1. ~Load
    BY DEF Load, LoadApply, LoadBegin, LoadStage, LoadCommit, LoadRedo, LoadCommitted,
           LoadFail, LoadEnd, Reading, Redoing
  <1>2. ~WriteOne
    BY DEF WriteOne, Collection, InsertOne, ReplaceOne, UpdateOne, DeleteOne, Drop,
           RecreateIndex, DropIndex, CreateIndex, RejectIndex, AppendOperation
  <1>3. ~WriteMany
    BY DEF WriteMany, InsertMany, UpdateMany, DeleteMany, WriteBatch, CommitBatch,
           ThrowInBatch, BeginBatch
  <1>4. ~CompactKeep /\ ~CompactSkip /\ ~EndCompact /\ ~Close /\ ~Crash /\ ~Open
    BY DEF CompactKeep, CompactSkip, EndCompact, Close, Crash, Open
  <1>5. QED
    BY <1>1, <1>2, <1>3, <1>4 DEF Next, Compact

\* compact() changes nothing callers read: every document, index definition and
\* collection is the same after each record it moves, and after the truncation.
THEOREM CompactionKeepsView == Spec => CompactionPreservesView
  <1>1. IInv /\ [Next]_vars => [phase = "compacting" /\ phase' # "down" => View' = View]_vars
    <2> SUFFICES ASSUME IInv, Next, phase = "compacting", phase' # "down"
                 PROVE  View' = View
      OBVIOUS
    <2>1. CompactKeep \/ CompactSkip \/ EndCompact
      BY CompactingSteps DEF Crash
    <2>2. QED
      BY <2>1, CompactStepView
  <1>2. QED
    BY <1>1, InitIInv, NextIInv, PTL DEF Spec, CompactionPreservesView

-----------------------------------------------------------------------------
(* Compaction and what it keeps.                                           *)

\* Moving a live record leaves the verdict on every other record to come, or
\* already kept, as it was; the moved record is live where it is now.
LEMMA VerdictsStay ==
    ASSUME IInv, CompactKeep
    PROVE  /\ \A i \in 1 .. Len(log) :
                 i <= write \/ i > scan + 1 =>
                     (ShouldKeep(log[i], i)' <=> ShouldKeep(log[i], i))
           /\ \A i \in 1 .. Len(log) : i = write + 1 => ShouldKeep(log[i], i)'
           /\ ShouldKeep(log[scan + 1], scan + 1)
  <1> DEFINE r == log[scan + 1]
  <1>1. /\ scan \in Nat /\ write \in Nat /\ scan < Len(log) /\ write <= scan
        /\ r \in Records
        /\ \A k \in 1 .. Len(log) : log'[k] = IF k = write + 1 THEN r ELSE log[k]
        /\ \A c \in ColIds, d \in DocIds :
              \/ /\ r.op = "put1" /\ r.col = c /\ r.id = d
                 /\ primary[c][d] = scan + 1 /\ primary'[c][d] = write + 1
              \/ /\ primary'[c][d] = primary[c][d]
                 /\ primary[c][d] <= write \/ primary[c][d] > scan + 1
    BY CompactKeepEffect
  <1>2. ShouldKeep(r, scan + 1) /\ write' = write + 1 /\ byId' = byId /\ defs' = defs
    BY DEF CompactKeep
  <1>3. log \in Seq(Records) /\ primary \in [ColIds -> [DocIds -> Nat]]
    BY DEF IInv, TypeOK
  <1>4. ASSUME NEW i \in 1 .. Len(log), i <= write \/ i > scan + 1
        PROVE  ShouldKeep(log[i], i)' <=> ShouldKeep(log[i], i)
    <2>1. log'[i] = log[i] /\ log[i] \in Records
      BY <1>1, <1>3, <1>4
    <2>2. ASSUME log[i].op = "put1"
          PROVE  primary'[log[i].col][log[i].id] = i <=> primary[log[i].col][log[i].id] = i
      <3>1. log[i].col \in ColIds /\ log[i].id \in DocIds
        BY <2>1, <2>2, RecordShapes DEF PutRecs
      <3> DEFINE o == primary[log[i].col][log[i].id]
                 p == primary'[log[i].col][log[i].id]
      <3>2. (o = scan + 1 /\ p = write + 1) \/ p = o
        BY <1>1, <3>1
      <3>3. i # scan + 1 /\ i # write + 1
        BY <1>1, <1>4
      <3>4. QED
        BY <3>2, <3>3
    <2>3. QED
      BY <1>2, <2>1, <2>2 DEF ShouldKeep
  <1>5. ASSUME NEW i \in 1 .. Len(log), i = write + 1
        PROVE  ShouldKeep(log[i], i)'
    <2>1. log'[i] = r
      BY <1>1, <1>5
    <2>2. r.op = "put1" =>
             r.col \in ColIds /\ r.id \in DocIds /\ primary[r.col][r.id] = scan + 1
      BY <1>1, <1>2, RecordShapes DEF PutRecs, ShouldKeep
    <2> HIDE DEF r
    <2>3. r.op = "put1" => primary'[r.col][r.id] = i
      BY <1>1, <1>5, <2>2
    <2>4. QED
      BY <1>2, <2>1, <2>3 DEF ShouldKeep
  <1>6. QED
    BY <1>2, <1>4, <1>5

\* There are finitely many records ahead of the scan head.
LEMMA LiveAheadFinite ==
    ASSUME log \in Seq(Records), scan \in Nat
    PROVE  IsFiniteSet(LiveAhead)
  <1>1. IsFiniteSet(scan + 1 .. Len(log))
    BY FS_Interval
  <1>2. LiveAhead \subseteq scan + 1 .. Len(log)
    BY DEF LiveAhead
  <1>3. QED
    BY <1>1, <1>2, FS_Subset

\* A compaction starts with every live record ahead.
LEMMA BeginCompactCount == ASSUME IInv, BeginCompact PROVE KeptAreLive' /\ LiveCount'
  <1>1. log' = log /\ scan' = 0 /\ write' = 0 /\ live' = Cardinality(LiveRecords)
        /\ primary' = primary /\ byId' = byId /\ defs' = defs
    BY DEF BeginCompact, memoryVars
  <1>2. log \in Seq(Records)
    BY DEF IInv, TypeOK
  <1>3. LiveAhead' = LiveRecords
    <2>1. \A i \in 1 .. Len(log) : ShouldKeep(log[i], i)' <=> ShouldKeep(log[i], i)
      BY <1>1 DEF ShouldKeep
    <2>2. QED
      BY <1>1, <1>2, <2>1 DEF LiveAhead, LiveRecords
  <1>4. IsFiniteSet(LiveAhead')
    <2>1. IsFiniteSet(1 .. Len(log)) /\ LiveRecords \subseteq 1 .. Len(log)
      BY <1>2, FS_Interval DEF LiveRecords
    <2>2. QED
      BY <1>3, <2>1, FS_Subset
  <1>5. Cardinality(LiveAhead') \in Nat
    BY <1>4, FS_CardinalityType
  <1>6. live' = write' + Cardinality(LiveAhead')
    BY <1>1, <1>3, <1>5
  <1>7. LiveCount'
    BY <1>6 DEF LiveCount
  <1>8. KeptAreLive'
    BY <1>1 DEF KeptAreLive
  <1>9. QED
    BY <1>7, <1>8

\* A skipped record was not counted.
LEMMA CompactSkipCount ==
    ASSUME CompactIInv, CompactSkip
    PROVE  KeptAreLive' /\ LiveCount'
  <1>1. /\ phase = "compacting" /\ scan < Len(log) /\ scan' = scan + 1
        /\ ~ShouldKeep(log[scan + 1], scan + 1)
        /\ log' = log /\ write' = write /\ live' = live /\ phase' = phase
        /\ primary' = primary /\ byId' = byId /\ defs' = defs
    BY DEF CompactSkip, memoryVars
  <1>2. log \in Seq(Records) /\ scan \in Nat /\ KeptAreLive /\ LiveCount
    BY DEF CompactIInv, IInv, TypeOK
  <1>3. \A i : ShouldKeep(log[i], i)' <=> ShouldKeep(log[i], i)
    BY <1>1 DEF ShouldKeep
  <1>4. LiveAhead' = LiveAhead
    <2>1. ASSUME NEW i PROVE i \in LiveAhead' <=> i \in LiveAhead
      <3>1. i \in LiveAhead' <=> i \in scan + 2 .. Len(log) /\ ShouldKeep(log[i], i)
        BY <1>1, <1>2, <1>3 DEF LiveAhead
      <3>2. i \in LiveAhead <=> i \in scan + 1 .. Len(log) /\ ShouldKeep(log[i], i)
        BY DEF LiveAhead
      <3>3. i \in scan + 1 .. Len(log) <=> i = scan + 1 \/ i \in scan + 2 .. Len(log)
        BY <1>1, <1>2
      <3>4. QED
        BY <1>1, <3>1, <3>2, <3>3
    <2>2. QED
      BY <2>1
  <1>5. QED
    BY <1>1, <1>2, <1>3, <1>4 DEF KeptAreLive, LiveCount

\* A kept record was counted, and no verdict on another changes.
LEMMA CompactKeepCount ==
    ASSUME CompactIInv, CompactKeep
    PROVE  KeptAreLive' /\ LiveCount'
  <1>1. /\ phase = "compacting" /\ scan' = scan + 1 /\ write' = write + 1
        /\ live' = live /\ phase' = phase
    BY DEF CompactKeep
  <1>2. log \in Seq(Records) /\ scan \in Nat /\ write \in Nat /\ KeptAreLive /\ LiveCount
        /\ IInv
    BY DEF CompactIInv, IInv, TypeOK
  <1>3. scan < Len(log) /\ write <= scan /\ Len(log') = Len(log)
    BY <1>2, CompactKeepEffect
  <1>4. /\ \A i \in 1 .. Len(log) : i <= write \/ i > scan + 1 =>
              (ShouldKeep(log[i], i)' <=> ShouldKeep(log[i], i))
        /\ \A i \in 1 .. Len(log) : i = write + 1 => ShouldKeep(log[i], i)'
        /\ ShouldKeep(log[scan + 1], scan + 1)
    BY <1>2, VerdictsStay
  <1>5. LiveAhead' = LiveAhead \ {scan + 1} /\ scan + 1 \in LiveAhead
    <2>1. scan + 1 \in LiveAhead
      BY <1>2, <1>3, <1>4 DEF LiveAhead
    <2>2. ASSUME NEW i PROVE i \in LiveAhead' <=> i \in LiveAhead \ {scan + 1}
      <3>1. i \in LiveAhead' <=> i \in scan + 2 .. Len(log) /\ ShouldKeep(log[i], i)'
        BY <1>1, <1>2, <1>3 DEF LiveAhead
      <3>2. i \in LiveAhead \ {scan + 1}
               <=> i \in scan + 2 .. Len(log) /\ ShouldKeep(log[i], i)
        BY <1>2 DEF LiveAhead
      <3>3. i \in scan + 2 .. Len(log) => i \in 1 .. Len(log) /\ i > scan + 1
        BY <1>2
      <3>4. QED
        BY <1>4, <3>1, <3>2, <3>3
    <2>3. QED
      BY <2>1, <2>2
  <1>6. Cardinality(LiveAhead') = Cardinality(LiveAhead) - 1 /\ Cardinality(LiveAhead) \in Nat
    BY <1>2, <1>5, LiveAheadFinite, FS_RemoveElement, FS_CardinalityType
  <1>7. LiveCount'
    BY <1>1, <1>2, <1>6 DEF LiveCount
  <1>8. KeptAreLive'
    <2>1. ASSUME NEW i \in 1 .. write + 1 PROVE ShouldKeep(log[i], i)'
      <3>1. CASE i = write + 1
        BY <1>2, <1>3, <1>4, <3>1
      <3>2. CASE i <= write
        BY <1>1, <1>2, <1>3, <1>4, <3>2 DEF KeptAreLive
      <3>3. QED
        BY <1>2, <3>1, <3>2
    <2>2. QED
      BY <1>1, <2>1 DEF KeptAreLive
  <1>9. QED
    BY <1>7, <1>8

\* Every step keeps the count and the liveness of what compact() has kept.
LEMMA NextCompactIInv == CompactIInv /\ [Next]_vars => CompactIInv'
  <1> SUFFICES ASSUME CompactIInv, [Next]_vars PROVE CompactIInv'
    OBVIOUS
  <1>1. IInv /\ IInv'
    BY NextIInv DEF CompactIInv
  <1>2. CASE UNCHANGED vars
    BY <1>1, <1>2 DEF CompactIInv, KeptAreLive, LiveCount, LiveAhead, ShouldKeep,
                      vars, memoryVars, compactVars
  <1>3. CASE Next /\ phase' # "compacting"
    BY <1>1, <1>3 DEF CompactIInv, KeptAreLive, LiveCount
  <1>4. CASE Next /\ phase' = "compacting" /\ phase = "compacting"
    <2>1. CompactKeep \/ CompactSkip
      BY <1>1, <1>4, CompactingSteps DEF Crash, EndCompact
    <2>2. QED
      BY <1>1, <2>1, CompactKeepCount, CompactSkipCount DEF CompactIInv
  <1>5. CASE Next /\ phase' = "compacting" /\ phase # "compacting"
    <2>1. BeginCompact
      BY <1>5, CompactBegins
    <2>2. QED
      BY <1>1, <2>1, BeginCompactCount DEF CompactIInv
  <1>6. QED
    BY <1>2, <1>3, <1>4, <1>5

\* An empty file is not being compacted.
LEMMA InitCompactIInv == Init => CompactIInv
  BY InitIInv DEF Init, CompactIInv, KeptAreLive, LiveCount

\* After a compaction the log holds live records only: a second compaction
\* would reclaim nothing.
THEOREM CompactionIsMinimal == Spec => CompactedIsMinimal
  <1>1. CompactIInv /\ [Next]_vars =>
           [phase = "compacting" /\ phase' = "open" => LiveRecords' = DOMAIN log']_vars
    <2> SUFFICES ASSUME CompactIInv, Next, phase = "compacting", phase' = "open"
                 PROVE  LiveRecords' = DOMAIN log'
      OBVIOUS
    <2>1. IInv /\ KeptAreLive
      BY DEF CompactIInv
    <2>2. EndCompact
      BY <2>1, CompactingSteps DEF Crash, CompactKeep, CompactSkip
    <2>3. /\ DOMAIN log' = 1 .. write
          /\ \A k \in 1 .. write : log'[k] = log[k]
          /\ primary' = primary /\ byId' = byId /\ defs' = defs
      BY <2>1, <2>2, EndCompactEffect
    <2>4. \A k \in 1 .. write : ShouldKeep(log[k], k)'
      BY <2>1, <2>3 DEF KeptAreLive, ShouldKeep
    <2>5. QED
      BY <2>3, <2>4 DEF LiveRecords
  <1>2. QED
    BY <1>1, InitCompactIInv, NextCompactIInv, PTL DEF Spec, CompactedIsMinimal

\* The records stats() counts live when a compaction starts are exactly those it
\* keeps: deadBytes is what compact() reclaims.
THEOREM StatsAreExact == Spec => []StatsPredictCompaction
  <1>1. CompactIInv => StatsPredictCompaction
    <2> SUFFICES ASSUME CompactIInv, phase = "compacting", scan = Len(log)
                 PROVE  write = live
      BY DEF StatsPredictCompaction
    <2>1. log \in Seq(Records) /\ write \in Nat /\ live = write + Cardinality(LiveAhead)
      BY DEF CompactIInv, IInv, TypeOK, LiveCount
    <2>2. LiveAhead = {}
      BY <2>1 DEF LiveAhead
    <2>3. QED
      BY <2>1, <2>2, FS_EmptySet
  <1>2. QED
    BY <1>1, InitCompactIInv, NextCompactIInv, PTL DEF Spec

-----------------------------------------------------------------------------
(* The contents of the secondary indexes.  IndexContents, without the      *)
(* phase, and what each effect on memory does to it.                       *)

Agrees ==
    \A c \in ColIds, f \in Fields, d \in DocIds : entries[c][f][d] = Indexed(c, f, d)

\* The log is as it was, or one record longer.
LogGrows == log' = log \/ \E r \in Records : log' = Append(log, r)

\* Two documents an index cannot tell apart, whatever its definition.
IndexedAlike(doc, as) ==
    \A f \in Fields, def \in IndexDefs \cup {None}, o \in Nat :
        Entry(def, doc[f], o) = Entry(def, as[f], o)

\* An encoding that keeps what indexes hold gives back a document indexed alike.
LEMMA EncodedAlike ==
    ASSUME IndexablesKept, NEW doc \in Docs
    PROVE  IndexedAlike(Encode(doc), doc)
  <1> SUFFICES ASSUME NEW f \in Fields, NEW def \in IndexDefs \cup {None}, NEW o \in Nat
               PROVE  Entry(def, Encode(doc)[f], o) = Entry(def, doc[f], o)
    BY DEF IndexedAlike
  <1>1. doc[f] \in Values /\ Encode(doc)[f] = Stored[doc[f]]
    BY DEF Docs, Encode
  <1>2. def # None => def.type # "other"
    BY DEF IndexTypes
  <1>3. QED
    BY <1>1, <1>2 DEF IndexablesKept, Entry, Indexable

\* The document at an unchanged offset does not change while the log grows.
LEMMA StoredSame ==
    ASSUME IInv, LogGrows, NEW c \in ColIds, NEW d \in DocIds,
           primary'[c][d] = primary[c][d], primary[c][d] # 0
    PROVE  StoredDoc(c, d)' = StoredDoc(c, d)
  <1>1. log \in Seq(Records) /\ primary[c][d] \in 1 .. Len(log)
    BY DEF IInv, TypeOK, PrimaryOffsets, IsPut
  <1>2. QED
    BY <1>1 DEF LogGrows, StoredDoc

\* So what the index should hold for it is the same.
LEMMA IndexedSame ==
    ASSUME IInv, LogGrows, NEW c \in ColIds, NEW d \in DocIds, NEW f \in Fields,
           primary'[c][d] = primary[c][d], defs'[c][f] = defs[c][f]
    PROVE  Indexed(c, f, d)' = Indexed(c, f, d)
  <1>1. CASE primary[c][d] = 0
    BY <1>1 DEF Indexed
  <1>2. CASE primary[c][d] # 0
    BY <1>2, StoredSame DEF Indexed, Entry, Indexable
  <1>3. QED
    BY <1>1, <1>2

\* Memory that does not change stays in agreement.
LEMMA SameAgrees ==
    ASSUME IInv, Agrees, LogGrows, UNCHANGED <<primary, defs, entries>>
    PROVE  Agrees'
  BY IndexedSame DEF Agrees

\* A new version of a document, when its record holds the document indexed.
LEMMA PutAgrees ==
    ASSUME IInv, Agrees, LogGrows, NEW c \in ColIds, NEW d \in DocIds,
           NEW doc \in Docs, NEW o \in Nat, o # 0,
           ApplyPut(c, d, o, doc), IndexedAlike(log'[o].doc, doc)
    PROVE  Agrees'
  <1> SUFFICES ASSUME NEW e \in ColIds, NEW f \in Fields, NEW g \in DocIds
               PROVE  entries'[e][f][g] = Indexed(e, f, g)'
    BY DEF Agrees
  <1>1. /\ primary \in [ColIds -> [DocIds -> Nat]]
        /\ entries \in [ColIds -> [Fields -> [DocIds -> Entries \cup {None}]]]
    BY DEF IInv, TypeOK
  <1>2. /\ primary' = [primary EXCEPT ![c][d] = o]
        /\ entries' = [entries EXCEPT ![c] = WithDoc(@, defs[c], d, doc, o)]
        /\ defs' = defs
    BY DEF ApplyPut
  <1>3. CASE e = c /\ g = d
    <2>1. primary'[e][g] = o
      BY <1>1, <1>2, <1>3
    <2>2. entries'[e][f][g] = Entry(defs[c][f], doc[f], o)
      BY <1>1, <1>2, <1>3 DEF WithDoc
    <2>3. defs[c][f] \in IndexDefs \cup {None}
      BY DEF IInv, TypeOK
    <2>4. Entry(defs[c][f], log'[o].doc[f], o) = Entry(defs[c][f], doc[f], o)
      BY <2>3 DEF IndexedAlike
    <2>5. Indexed(e, f, g)' = Entry(defs[c][f], log'[o].doc[f], o)
      BY <1>2, <1>3, <2>1 DEF Indexed, StoredDoc, Entry, Indexable
    <2>6. QED
      BY <2>2, <2>4, <2>5
  <1>4. CASE ~(e = c /\ g = d)
    <2>1. primary'[e][g] = primary[e][g]
      BY <1>1, <1>2, <1>4
    <2>2. entries'[e][f][g] = entries[e][f][g]
      BY <1>1, <1>2, <1>4 DEF WithDoc
    <2>3. QED
      BY <1>2, <2>1, <2>2, IndexedSame DEF Agrees
  <1>5. QED
    BY <1>3, <1>4

\* The removal of a document.
LEMMA DeleteAgrees ==
    ASSUME IInv, Agrees, LogGrows, NEW c \in ColIds, NEW d \in DocIds, ApplyDelete(c, d)
    PROVE  Agrees'
  <1> SUFFICES ASSUME NEW e \in ColIds, NEW f \in Fields, NEW g \in DocIds
               PROVE  entries'[e][f][g] = Indexed(e, f, g)'
    BY DEF Agrees
  <1>1. /\ primary \in [ColIds -> [DocIds -> Nat]]
        /\ entries \in [ColIds -> [Fields -> [DocIds -> Entries \cup {None}]]]
    BY DEF IInv, TypeOK
  <1>2. /\ primary' = [primary EXCEPT ![c][d] = 0]
        /\ entries' = [entries EXCEPT ![c] = WithoutDoc(@, d)]
        /\ defs' = defs
    BY DEF ApplyDelete
  <1>3. CASE e = c /\ g = d
    BY <1>1, <1>2, <1>3 DEF Indexed, WithoutDoc
  <1>4. CASE ~(e = c /\ g = d)
    <2>1. primary'[e][g] = primary[e][g]
      BY <1>1, <1>2, <1>4
    <2>2. entries'[e][f][g] = entries[e][f][g]
      BY <1>1, <1>2, <1>4 DEF WithoutDoc
    <2>3. QED
      BY <1>2, <2>1, <2>2, IndexedSame DEF Agrees
  <1>5. QED
    BY <1>3, <1>4

\* A collection that starts empty or goes away.
LEMMA ResetAgrees ==
    ASSUME IInv, Agrees, LogGrows, NEW c \in ColIds,
           primary' = [primary EXCEPT ![c] = NoDocs],
           defs' = [defs EXCEPT ![c] = NoDefs],
           entries' = [entries EXCEPT ![c] = NoEntries]
    PROVE  Agrees'
  <1> SUFFICES ASSUME NEW e \in ColIds, NEW f \in Fields, NEW g \in DocIds
               PROVE  entries'[e][f][g] = Indexed(e, f, g)'
    BY DEF Agrees
  <1>1. /\ primary \in [ColIds -> [DocIds -> Nat]]
        /\ defs \in [ColIds -> [Fields -> IndexDefs \cup {None}]]
        /\ entries \in [ColIds -> [Fields -> [DocIds -> Entries \cup {None}]]]
    BY DEF IInv, TypeOK
  <1>2. CASE e = c
    BY <1>1, <1>2 DEF Indexed, NoDocs, NoEntries
  <1>3. CASE e # c
    <2>1. /\ primary'[e][g] = primary[e][g] /\ defs'[e][f] = defs[e][f]
          /\ entries'[e][f][g] = entries[e][f][g]
      BY <1>1, <1>3
    <2>2. QED
      BY <2>1, IndexedSame DEF Agrees
  <1>4. QED
    BY <1>2, <1>3

\* A rebuild of every index of a collection, under its new definitions.
LEMMA RebuildAgrees ==
    ASSUME IInv, Agrees, LogGrows, NEW c \in ColIds,
           NEW df \in [Fields -> IndexDefs \cup {None}],
           defs' = [defs EXCEPT ![c] = df], primary' = primary,
           entries' = [entries EXCEPT ![c] = Rebuild(c, df)]
    PROVE  Agrees'
  <1> SUFFICES ASSUME NEW e \in ColIds, NEW f \in Fields, NEW g \in DocIds
               PROVE  entries'[e][f][g] = Indexed(e, f, g)'
    BY DEF Agrees
  <1>1. /\ defs \in [ColIds -> [Fields -> IndexDefs \cup {None}]]
        /\ entries \in [ColIds -> [Fields -> [DocIds -> Entries \cup {None}]]]
    BY DEF IInv, TypeOK
  <1>2. CASE e = c
    <2>1. defs'[e][f] = df[f]
      BY <1>1, <1>2
    <2>2. entries'[e][f][g] = IF primary[c][g] = 0 THEN entries[c][f][g]
                              ELSE Entry(df[f], StoredDoc(c, g)[f], primary[c][g])
      BY <1>1, <1>2 DEF Rebuild
    <2>3. CASE primary[c][g] = 0
      BY <1>2, <2>2, <2>3 DEF Indexed, Agrees
    <2>4. CASE primary[c][g] # 0
      <3>1. StoredDoc(c, g)' = StoredDoc(c, g)
        BY <2>4, StoredSame
      <3>2. QED
        BY <1>2, <2>1, <2>2, <2>4, <3>1 DEF Indexed, Entry, Indexable
    <2>5. QED
      BY <2>3, <2>4
  <1>3. CASE e # c
    <2>1. defs'[e][f] = defs[e][f] /\ entries'[e][f][g] = entries[e][f][g]
      BY <1>1, <1>3
    <2>2. QED
      BY <2>1, IndexedSame DEF Agrees
  <1>4. QED
    BY <1>2, <1>3

\* The removal of an index.
LEMMA DropIndexAgrees ==
    ASSUME IInv, Agrees, LogGrows, NEW c \in ColIds, NEW f \in Fields, ApplyDropIndex(c, f)
    PROVE  Agrees'
  <1> SUFFICES ASSUME NEW e \in ColIds, NEW h \in Fields, NEW g \in DocIds
               PROVE  entries'[e][h][g] = Indexed(e, h, g)'
    BY DEF Agrees
  <1>1. /\ defs \in [ColIds -> [Fields -> IndexDefs \cup {None}]]
        /\ entries \in [ColIds -> [Fields -> [DocIds -> Entries \cup {None}]]]
    BY DEF IInv, TypeOK
  <1>2. /\ defs' = [defs EXCEPT ![c][f] = None]
        /\ entries' = [entries EXCEPT ![c][f] = NoEntries[f]]
        /\ primary' = primary
    BY DEF ApplyDropIndex
  <1>3. CASE e = c /\ h = f
    BY <1>1, <1>2, <1>3 DEF Indexed, Entry, Indexable, NoEntries
  <1>4. CASE ~(e = c /\ h = f)
    <2>1. defs'[e][h] = defs[e][h] /\ entries'[e][h][g] = entries[e][h][g]
      BY <1>1, <1>2, <1>4
    <2>2. QED
      BY <1>2, <2>1, IndexedSame DEF Agrees
  <1>5. QED
    BY <1>3, <1>4

\* A process that starts has empty indexes.
LEMMA ForgetAgrees == ASSUME Forget PROVE Agrees'
  BY DEF Forget, Agrees, Indexed, NoDocs, NoEntries

-----------------------------------------------------------------------------
(* Every action keeps the indexes in agreement with the documents.         *)

\* The API calls that write one record.
LEMMA WriteOneAgrees == ASSUME IndexablesKept, IInv, Agrees, WriteOne PROVE Agrees' /\ batch' = None
  <1>0. /\ log \in Seq(Records) /\ MemType /\ PrimaryOffsets
    BY DEF IInv, TypeOK, MemType
  <1>1. ASSUME NEW n \in Names, NEW c \in ColIds, Collection(n, c)
        PROVE  Agrees' /\ batch' = None
    <2>1. NclRec(c, n) \in Records
      BY RecordTypes
    <2>2. LogGrows /\ batch' = None
      BY <1>1, <2>1 DEF Collection, Idle, AppendOperation, LogGrows
    <2>3. QED
      BY <1>1, <2>2, ResetAgrees DEF Collection, Register
  <1>2. ASSUME NEW c \in ColIds, NEW d \in DocIds, NEW doc \in Docs, Idle,
               AppendOperation(PutRec(c, d, doc)), ApplyPut(c, d, Len(log) + 1, doc)
        PROVE  Agrees' /\ batch' = None
    <2>1. PutRec(c, d, doc) \in Records /\ PutRec(c, d, doc).doc = Encode(doc)
      BY RecordTypes DEF PutRec
    <2>2. log' = Append(log, PutRec(c, d, doc)) /\ batch' = None
      BY <1>2 DEF AppendOperation, Idle
    <2>3. LogGrows
      BY <2>1, <2>2 DEF LogGrows
    <2>4. /\ Len(log) + 1 \in Nat /\ Len(log) + 1 # 0
          /\ log'[Len(log) + 1].doc = Encode(doc)
      BY <1>0, <2>1, <2>2
    <2>5. QED
      BY <1>2, <2>2, <2>3, <2>4, EncodedAlike, PutAgrees
  <1>3. ASSUME NEW c \in ColIds, NEW d \in DocIds, NEW doc \in Docs,
               InsertOne(c, d, doc) \/ ReplaceOne(c, d, doc)
        PROVE  Agrees' /\ batch' = None
    BY <1>2, <1>3 DEF InsertOne, ReplaceOne, Live
  <1>4. ASSUME NEW c \in ColIds, NEW d \in DocIds, NEW f \in Fields, NEW v \in Values,
               UpdateOne(c, d, f, v)
        PROVE  Agrees' /\ batch' = None
    <2> DEFINE doc == [StoredDoc(c, d) EXCEPT ![f] = v]
    <2>1. StoredDoc(c, d) \in Docs
      BY <1>0, <1>4, StoredDocType DEF UpdateOne
    <2>2. doc \in Docs
      BY <2>1 DEF Docs
    <2>3. Idle /\ AppendOperation(PutRec(c, d, doc)) /\ ApplyPut(c, d, Len(log) + 1, doc)
      BY <1>4 DEF UpdateOne, Live
    <2> HIDE DEF doc
    <2>4. QED
      BY <1>2, <2>2, <2>3
  <1>5. ASSUME NEW c \in ColIds, NEW d \in DocIds, DeleteOne(c, d)
        PROVE  Agrees' /\ batch' = None
    <2>1. DelRec(c, d) \in Records
      BY RecordTypes
    <2>2. LogGrows /\ batch' = None /\ ApplyDelete(c, d)
      BY <1>5, <2>1 DEF DeleteOne, Live, Idle, AppendOperation, LogGrows
    <2>3. QED
      BY <2>2, DeleteAgrees
  <1>6. ASSUME NEW c \in ColIds, Drop(c)
        PROVE  Agrees' /\ batch' = None
    <2>1. DcoRec(c) \in Records
      BY RecordTypes
    <2>2. LogGrows /\ batch' = None
      BY <1>6, <2>1 DEF Drop, Live, Idle, AppendOperation, LogGrows
    <2>3. QED
      BY <1>6, <2>2, ResetAgrees DEF Drop, ApplyDrop
  <1>7. ASSUME NEW c \in ColIds, NEW f \in Fields, DropIndex(c, f)
        PROVE  Agrees' /\ batch' = None
    <2>1. DixRec(c, f) \in Records
      BY RecordTypes
    <2>2. LogGrows /\ batch' = None /\ ApplyDropIndex(c, f)
      BY <1>7, <2>1 DEF DropIndex, Live, Idle, AppendOperation, LogGrows
    <2>3. QED
      BY <2>2, DropIndexAgrees
  <1>8. ASSUME NEW c \in ColIds, NEW f \in Fields, NEW def \in IndexDefs, LogGrows,
               ApplyCreateIndex(c, f, def)
        PROVE  Agrees'
    <2> DEFINE df == [defs[c] EXCEPT ![f] = def]
    <2>1. df \in [Fields -> IndexDefs \cup {None}]
      BY <1>0 DEF MemType
    <2>2. /\ defs' = [defs EXCEPT ![c] = df] /\ primary' = primary
          /\ entries' = [entries EXCEPT ![c] = Rebuild(c, df)]
      BY <1>8 DEF ApplyCreateIndex
    <2> HIDE DEF df
    <2>3. QED
      BY <1>8, <2>1, <2>2, RebuildAgrees
  <1>9. ASSUME NEW c \in ColIds, NEW f \in Fields, NEW def \in IndexDefs,
               CreateIndex(c, f, def)
        PROVE  Agrees' /\ batch' = None
    <2>1. IdxRec(c, f, def) \in Records
      BY RecordTypes
    <2>2. LogGrows /\ batch' = None /\ ApplyCreateIndex(c, f, def)
      BY <1>9, <2>1 DEF CreateIndex, Live, Idle, AppendOperation, LogGrows
    <2>3. QED
      BY <1>8, <2>2
  <1>10. ASSUME NEW c \in ColIds, NEW f \in Fields, RecreateIndex(c, f)
         PROVE  Agrees' /\ batch' = None
    <2>1. defs[c][f] \in IndexDefs
      BY <1>0, <1>10 DEF RecreateIndex, MemType
    <2>2. LogGrows /\ batch' = None /\ ApplyCreateIndex(c, f, defs[c][f])
      BY <1>10 DEF RecreateIndex, Live, Idle, LogGrows
    <2>3. QED
      BY <1>8, <2>1, <2>2
  <1>11. ASSUME NEW c \in ColIds, NEW f \in Fields, NEW def \in IndexDefs,
                RejectIndex(c, f, def)
         PROVE  Agrees' /\ batch' = None
    <2>1. /\ LogGrows /\ batch' = None /\ primary' = primary
          /\ entries' = [entries EXCEPT ![c] = Rebuild(c, defs[c])]
          /\ defs' = defs
      BY <1>11 DEF RejectIndex, Live, Idle, LogGrows
    <2>2. defs[c] \in [Fields -> IndexDefs \cup {None}] /\ defs' = [defs EXCEPT ![c] = defs[c]]
      BY <1>0, <2>1 DEF MemType
    <2>3. QED
      BY <2>1, <2>2, RebuildAgrees
  <1>12. QED
    BY <1>1, <1>3, <1>4, <1>5, <1>6, <1>7, <1>9, <1>10, <1>11 DEF WriteOne

\* A batch starts with nothing noted.
LEMMA BeginBatchAgrees ==
    ASSUME IInv, Agrees, NEW c \in ColIds, NEW ids, NEW docs, BeginBatch(c, ids, docs)
    PROVE  Agrees' /\ BatchRecords'
  <1>1. LogGrows
    BY RecordTypes DEF BeginBatch, LogGrows
  <1>2. Agrees'
    BY <1>1, SameAgrees DEF BeginBatch, memoryVars
  <1>3. BatchRecords'
    BY DEF BeginBatch, BatchRecords, NoDocs
  <1>4. QED
    BY <1>2, <1>3

\* The record a batch has just appended is the one it notes.
LEMMA WriteBatchAgrees ==
    ASSUME IInv, Agrees, BatchRecords, WriteBatch
    PROVE  Agrees' /\ BatchRecords'
  <1> DEFINE c == batch.col
             d == batch.ids[batch.done + 1]
             put == batch.docs[d] # None
             rec == IF put THEN PutRec(c, d, batch.docs[d]) ELSE DelRec(c, d)
             o == IF put THEN Len(log) + 1 ELSE 0
  <1>1. /\ batch # None /\ batch.done < Len(batch.ids)
        /\ log' = Append(log, rec)
        /\ batch' = Noted(batch, d, o)
        /\ UNCHANGED memoryVars
    BY DEF WriteBatch, Pending
  <1>2. batch \in Batches /\ log \in Seq(Records)
    BY <1>1 DEF IInv, TypeOK
  <1>3. /\ c \in ColIds /\ d \in DocIds /\ batch.docs[d] \in Docs \cup {None}
        /\ batch.done \in Nat
    <2>0. batch.ids \in BatchIds
      BY <1>2 DEF Batches
    <2>1. PICK n \in 1 .. MaxBatch : batch.ids \in [1 .. n -> DocIds]
      BY <2>0 DEF BatchIds
    <2>2. batch.done \in Nat /\ Len(batch.ids) = n
      BY <1>2, <2>1 DEF Batches
    <2>3. batch.done + 1 \in 1 .. n
      BY <1>1, <2>2
    <2>4. QED
      BY <1>2, <2>1, <2>2, <2>3 DEF Batches
  <1>4. rec \in Records
    BY <1>3, RecordTypes
  <1>5. Agrees'
    <2>1. LogGrows
      <3> HIDE DEF rec
      <3> QED  BY <1>1, <1>4 DEF LogGrows
    <2>2. QED
      BY <1>1, <2>1, SameAgrees DEF memoryVars
  <1>6. /\ batch'.docs = batch.docs /\ batch'.ids = batch.ids
        /\ batch'.done = batch.done + 1
        /\ batch'.offs = [batch.offs EXCEPT ![d] = o]
    <2> HIDE DEF d, o
    <2> QED  BY <1>1 DEF Noted
  <1>7. batch.offs \in [DocIds -> Nat]
    BY <1>2 DEF Batches
  <1>8. /\ Len(log) + 1 \in DOMAIN log' /\ log'[Len(log) + 1] = rec
        /\ \A k \in 1 .. Len(log) : log'[k] = log[k]
    <2> HIDE DEF rec
    <2> QED  BY <1>1, <1>2, <1>4
  <1>9. ASSUME NEW g \in DocIds, batch'.offs[g] # 0
        PROVE  batch'.docs[g] # None /\ log'[batch'.offs[g]].doc = Encode(batch'.docs[g])
    <2>1. CASE g = d
      <3>1. put /\ batch'.offs[g] = Len(log) + 1
        BY <1>3, <1>6, <1>7, <1>9, <2>1
      <3>2. rec.doc = Encode(batch.docs[d])
        BY <3>1 DEF PutRec
      <3>3. QED
        BY <1>6, <1>8, <2>1, <3>1, <3>2
    <2>2. CASE g # d
      <3>1. batch'.offs[g] = batch.offs[g]
        BY <1>6, <1>7, <2>2
      <3>2. batch.offs[g] \in 1 .. Len(log)
        <4>1. IsPut(batch.offs[g], batch.col, g)
          BY <1>1, <1>9, <3>1 DEF IInv, BatchOffsets
        <4>2. batch.offs[g] \in DOMAIN log
          BY <4>1 DEF IsPut
        <4>3. QED
          BY <1>2, <4>2
      <3>3. batch.docs[g] # None /\ log[batch.offs[g]].doc = Encode(batch.docs[g])
        BY <1>1, <1>9, <3>1 DEF BatchRecords
      <3>4. QED
        BY <1>6, <1>8, <3>1, <3>2, <3>3
    <2>3. QED
      BY <2>1, <2>2
  <1>10. ASSUME NEW k \in 1 .. batch.done + 1, batch.docs[batch.ids[k]] # None
         PROVE  batch'.offs[batch.ids[k]] # 0
    <2>1. o # 0 <=> put
      BY <1>2
    <2>2. batch.ids[k] = d => batch'.offs[batch.ids[k]] = o
      BY <1>3, <1>6, <1>7
    <2>3. batch.ids[k] # d => batch'.offs[batch.ids[k]] = batch.offs[batch.ids[k]]
      BY <1>6, <1>7
    <2>4. k <= batch.done => batch.offs[batch.ids[k]] # 0
      BY <1>1, <1>3, <1>10, SMTT(30) DEF BatchRecords
    <2>5. k = batch.done + 1 => batch.ids[k] = d
      OBVIOUS
    <2>6. k <= batch.done \/ k = batch.done + 1
      BY <1>3
    <2>7. QED
      BY <1>10, <2>1, <2>2, <2>3, <2>4, <2>5, <2>6
  <1>11. BatchRecords'
    BY <1>6, <1>9, <1>10 DEF BatchRecords
  <1>12. QED
    BY <1>5, <1>11

\* A commit points primary and secondary indexes at the same records.
LEMMA CommitBatchAgrees ==
    ASSUME IndexablesKept, IInv, Agrees, BatchRecords, CommitBatch
    PROVE  Agrees'
  <1> DEFINE c == batch.col
             in(d) == d \in Members(batch.ids)
             entry(f, d) == IF batch.docs[d] = None THEN None
                            ELSE Entry(defs[c][f], batch.docs[d][f], batch.offs[d])
             offs == [d \in DocIds |-> IF in(d) THEN batch.offs[d] ELSE primary[c][d]]
             ents == [f \in Fields |-> [d \in DocIds |->
                         IF in(d) THEN entry(f, d) ELSE entries[c][f][d]]]
  <1>1. /\ batch # None /\ log' = Append(log, Txnc) /\ batch.done = Len(batch.ids)
        /\ primary' = [primary EXCEPT ![c] = offs]
        /\ entries' = [entries EXCEPT ![c] = ents]
        /\ defs' = defs
    BY DEF CommitBatch
  <1>2. /\ batch \in Batches /\ log \in Seq(Records)
        /\ primary \in [ColIds -> [DocIds -> Nat]]
        /\ entries \in [ColIds -> [Fields -> [DocIds -> Entries \cup {None}]]]
    BY <1>1 DEF IInv, TypeOK
  <1>3. c \in ColIds /\ batch.docs \in [DocIds -> Docs \cup {None}]
        /\ batch.offs \in [DocIds -> Nat]
    BY <1>2 DEF Batches
  <1>4. LogGrows
    BY <1>1, <1>3, RecordTypes DEF LogGrows
  <1>5. DOMAIN batch.ids = 1 .. batch.done
    <2>1. PICK n \in 1 .. MaxBatch : batch.ids \in [1 .. n -> DocIds]
      BY <1>2 DEF Batches, BatchIds
    <2>2. QED
      BY <1>1, <2>1
  <1>6. ASSUME NEW d \in DocIds, in(d)
        PROVE  /\ batch.offs[d] # 0 <=> batch.docs[d] # None
               /\ batch.offs[d] # 0 => IndexedAlike(log'[batch.offs[d]].doc, batch.docs[d])
    <2>1. PICK k \in 1 .. batch.done : batch.ids[k] = d
      BY <1>5, <1>6 DEF Members
    <2>2. batch.offs[d] # 0 <=> batch.docs[d] # None
      BY <1>1, <2>1 DEF BatchRecords
    <2>3. ASSUME batch.offs[d] # 0
          PROVE  IndexedAlike(log'[batch.offs[d]].doc, batch.docs[d])
      <3>1. batch.docs[d] \in Docs /\ log[batch.offs[d]].doc = Encode(batch.docs[d])
        BY <1>1, <1>3, <2>2, <2>3 DEF BatchRecords
      <3>2. IndexedAlike(log[batch.offs[d]].doc, batch.docs[d])
        BY <3>1, EncodedAlike
      <3>3. batch.offs[d] \in 1 .. Len(log)
        BY <1>1, <1>2, <1>3, <2>3 DEF IInv, BatchOffsets, IsPut
      <3>4. log'[batch.offs[d]] = log[batch.offs[d]]
        BY <1>1, <1>2, <3>3
      <3>5. QED
        BY <3>2, <3>4
    <2>4. QED
      BY <2>2, <2>3
  <1> SUFFICES ASSUME NEW e \in ColIds, NEW f \in Fields, NEW g \in DocIds
               PROVE  entries'[e][f][g] = Indexed(e, f, g)'
    BY DEF Agrees
  <1>7. CASE e = c /\ in(g)
    <2>1. primary'[e][g] = batch.offs[g]
      BY <1>1, <1>2, <1>3, <1>7
    <2>2. entries'[e][f][g] = entry(f, g)
      BY <1>1, <1>2, <1>3, <1>7
    <2>3. Indexed(e, f, g)' = IF batch.offs[g] = 0 THEN None
                              ELSE Entry(defs[c][f], log'[batch.offs[g]].doc[f], batch.offs[g])
      BY <1>1, <1>7, <2>1 DEF Indexed, StoredDoc, Entry, Indexable
    <2>4. defs[c][f] \in IndexDefs \cup {None} /\ batch.offs[g] \in Nat
      BY <1>3 DEF IInv, TypeOK
    <2>5. batch.offs[g] # 0 =>
             Entry(defs[c][f], log'[batch.offs[g]].doc[f], batch.offs[g]) =
             Entry(defs[c][f], batch.docs[g][f], batch.offs[g])
      BY <1>6, <1>7, <2>4 DEF IndexedAlike
    <2>6. QED
      BY <1>6, <1>7, <2>2, <2>3, <2>5
  <1>8. CASE ~(e = c /\ in(g))
    <2>1. primary'[e][g] = primary[e][g]
      BY <1>1, <1>2, <1>3, <1>8
    <2>2. entries'[e][f][g] = entries[e][f][g]
      BY <1>1, <1>2, <1>3, <1>8
    <2>3. QED
      BY <1>1, <1>4, <2>1, <2>2, IndexedSame DEF Agrees
  <1>9. QED
    BY <1>7, <1>8

\* The refresh that ends a compaction reads the documents where they are now.
LEMMA EndCompactAgrees == ASSUME IInv, EndCompact PROVE Agrees'
  <1> SUFFICES ASSUME NEW c \in ColIds, NEW f \in Fields, NEW d \in DocIds
               PROVE  entries'[c][f][d] = Indexed(c, f, d)'
    BY DEF Agrees
  <1>1. entries'[c][f][d] = Indexed(c, f, d)
    BY DEF EndCompact
  <1>2. /\ primary' = primary /\ defs' = defs
        /\ \A k \in 1 .. write : log'[k] = log[k]
        /\ primary[c][d] # 0 => primary[c][d] \in 1 .. write
    BY EndCompactEffect
  <1>3. QED
    BY <1>1, <1>2 DEF Indexed, StoredDoc, Entry, Indexable

\* Replay indexes the documents it decodes.
LEMMA ReplayAgrees ==
    ASSUME IInv, Agrees, log' = log, NEW o \in 1 .. Len(log),
           Applicable(log[o]), ApplyOperation(log[o], o)
    PROVE  Agrees'
  <1> DEFINE r == log[o]
  <1>1. log \in Seq(Records) /\ MemType /\ r \in Records /\ LogGrows
    BY DEF IInv, TypeOK, MemType, LogGrows
  <1>2. /\ r.op = "ncl1" => r.col \in ColIds /\ r.name \in Names
        /\ r.op = "dco1" => r.col \in ColIds
        /\ r.op = "put1" => r.col \in ColIds /\ r.id \in DocIds /\ r.doc \in Docs
        /\ r.op = "del1" => r.col \in ColIds /\ r.id \in DocIds
        /\ r.op = "idx1" => r.col \in ColIds /\ r.field \in Fields /\ r.def \in IndexDefs
        /\ r.op = "dix1" => r.col \in ColIds /\ r.field \in Fields
    BY <1>1, RecordShapes DEF NclRecs, DcoRecs, PutRecs, DelRecs, IdxRecs, DixRecs
  <1>3. CASE r.op = "ncl1" /\ Register(r.col, r.name)
    BY <1>1, <1>2, <1>3, ResetAgrees DEF Register
  <1>4. CASE r.op = "put1" /\ ApplyPut(r.col, r.id, o, r.doc)
    BY <1>1, <1>2, <1>4, PutAgrees DEF IndexedAlike
  <1>5. CASE r.op = "del1" /\ ApplyDelete(r.col, r.id)
    BY <1>1, <1>2, <1>5, DeleteAgrees
  <1>6. CASE r.op = "dco1" /\ ApplyDrop(r.col)
    BY <1>1, <1>2, <1>6, ResetAgrees DEF ApplyDrop
  <1>7. CASE r.op = "idx1" /\ ApplyCreateIndex(r.col, r.field, r.def)
    <2> DEFINE df == [defs[r.col] EXCEPT ![r.field] = r.def]
    <2>1. df \in [Fields -> IndexDefs \cup {None}]
      BY <1>1, <1>2, <1>7 DEF MemType
    <2>2. /\ defs' = [defs EXCEPT ![r.col] = df] /\ primary' = primary
          /\ entries' = [entries EXCEPT ![r.col] = Rebuild(r.col, df)]
      BY <1>7 DEF ApplyCreateIndex
    <2> HIDE DEF df
    <2>3. QED
      BY <1>1, <1>2, <1>7, <2>1, <2>2, RebuildAgrees
  <1>8. CASE r.op = "dix1" /\ ApplyDropIndex(r.col, r.field)
    BY <1>1, <1>2, <1>8, DropIndexAgrees
  <1>9. QED
    BY <1>3, <1>4, <1>5, <1>6, <1>7, <1>8 DEF ApplyOperation

\* Every step of a replay keeps the agreement.
LEMMA LoadAgrees == ASSUME IInv, Agrees, Load PROVE Agrees'
  <1>1. /\ pos \in Nat /\ redo \in Nat /\ Len(log) \in Nat
        /\ phase = "loading" => pos >= 1 /\ (redo # 0 => pos <= Len(log))
    BY DEF IInv, TypeOK, LoaderInLog
  <1>2. CASE LoadApply
    <2>1. pos \in 1 .. Len(log) /\ log' = log
      BY <1>1, <1>2 DEF LoadApply, Reading
    <2>2. QED
      BY <1>2, <2>1, ReplayAgrees DEF LoadApply
  <1>3. CASE LoadRedo
    <2>1. redo \in 1 .. Len(log) /\ log' = log
      BY <1>1, <1>3 DEF LoadRedo, Redoing
    <2>2. QED
      BY <1>3, <2>1, ReplayAgrees DEF LoadRedo
  <1>4. CASE LoadBegin \/ LoadStage \/ LoadCommit \/ LoadCommitted \/ LoadEnd
    BY <1>4, SameAgrees DEF LoadBegin, LoadStage, LoadCommit, LoadCommitted, LoadEnd,
                            memoryVars, LogGrows
  <1>5. CASE LoadFail
    BY <1>5, ForgetAgrees DEF LoadFail
  <1>6. QED
    BY <1>2, <1>3, <1>4, <1>5 DEF Load

\* Every step keeps what the indexes hold and what a batch has noted.
LEMMA NextIndexIInv == ASSUME IndexablesKept PROVE IndexIInv /\ [Next]_vars => IndexIInv'
  <1> SUFFICES ASSUME IndexIInv, [Next]_vars PROVE IndexIInv'
    OBVIOUS
  <1>1. IInv /\ IInv' /\ BatchRecords /\ (phase # "compacting" => Agrees)
    BY NextIInv DEF IndexIInv, IndexContents, Agrees
  <1>2. CASE UNCHANGED vars
    BY <1>1, <1>2, SMTT(30) DEF IndexIInv, IndexContents, BatchRecords, Indexed, StoredDoc, Entry,
                      Indexable, vars, memoryVars
  <1>3. CASE Agrees' /\ BatchRecords'
    BY <1>1, <1>3 DEF IndexIInv, IndexContents, Agrees
  <1>4. CASE WriteOne
    <2>1. phase = "open"
      BY <1>4 DEF WriteOne, Collection, InsertOne, ReplaceOne, UpdateOne, DeleteOne, Drop,
                  RecreateIndex, DropIndex, CreateIndex, RejectIndex, Live, Idle
    <2>2. Agrees' /\ batch' = None
      BY <1>1, <1>4, <2>1, WriteOneAgrees
    <2>3. QED
      BY <1>3, <2>2 DEF BatchRecords
  <1>5. CASE WriteMany
    <2>1. phase = "open"
      BY <1>5 DEF WriteMany, InsertMany, UpdateMany, DeleteMany, WriteBatch, CommitBatch,
                  ThrowInBatch, Pending, Live, Idle
    <2>2. CASE WriteBatch
      BY <1>1, <1>3, <2>1, <2>2, WriteBatchAgrees
    <2>3. CASE CommitBatch
      BY <1>1, <1>3, <2>1, <2>3, CommitBatchAgrees DEF CommitBatch, BatchRecords
    <2>4. CASE ThrowInBatch
      BY <1>1, <1>3, <2>1, <2>4, SameAgrees
         DEF ThrowInBatch, memoryVars, LogGrows, BatchRecords
    <2>5. CASE ~WriteBatch /\ ~CommitBatch /\ ~ThrowInBatch
      <3>1. \E c \in ColIds : \E ids, docs : BeginBatch(c, ids, docs)
        BY <1>5, <2>5 DEF WriteMany, InsertMany, UpdateMany, DeleteMany
      <3>2. QED
        BY <1>1, <1>3, <2>1, <3>1, BeginBatchAgrees
    <2>6. QED
      BY <2>2, <2>3, <2>4, <2>5
  <1>6. CASE EndCompact
    BY <1>1, <1>3, <1>6, EndCompactAgrees, EndCompactEffect DEF BatchRecords
  <1>7. CASE BeginCompact \/ CompactKeep \/ CompactSkip
    <2>1. phase' = "compacting"
      BY <1>7 DEF BeginCompact, CompactKeep, CompactSkip
    <2>2. batch' = None
      BY <1>1, <2>1 DEF IInv, BatchOffsets
    <2>3. QED
      BY <1>1, <2>1, <2>2 DEF IndexIInv, IndexContents, BatchRecords
  <1>8. CASE Close \/ Crash
    <2>1. Forget
      BY <1>8 DEF Close, Crash
    <2>2. QED
      BY <1>3, <2>1, ForgetAgrees DEF Forget, BatchRecords
  <1>9. CASE Open
    BY <1>1, <1>3, <1>9, SameAgrees DEF Open, memoryVars, LogGrows, IInv, BatchOffsets, BatchRecords
  <1>10. CASE Load
    <2>1. phase = "loading"
      BY <1>10 DEF Load, LoadApply, LoadBegin, LoadStage, LoadCommit, LoadRedo,
                   LoadCommitted, LoadFail, LoadEnd, Reading, Redoing
    <2>2. batch = None /\ batch' = batch
      BY <1>1, <1>10, <2>1 DEF IInv, BatchOffsets, Load, LoadApply, LoadBegin, LoadStage,
           LoadCommit, LoadRedo, LoadCommitted, LoadFail, LoadEnd, Forget
    <2>3. QED
      BY <1>1, <1>3, <1>10, <2>1, <2>2, LoadAgrees DEF BatchRecords
  <1>11. QED
    BY <1>2, <1>4, <1>5, <1>6, <1>7, <1>8, <1>9, <1>10 DEF Next, Compact

\* The empty indexes of a process that has not started agree with its documents.
LEMMA InitIndexIInv == Init => IndexIInv
  BY InitIInv DEF Init, IndexIInv, IndexContents, BatchRecords, Indexed, NoDocs, NoEntries

\* When encoding keeps the values an index holds, each secondary index holds
\* exactly the indexable values of the current documents, with the offsets
\* the primary index has: a query planned on one sees what a query planned on the
\* other does, during a replay and between any two calls.
THEOREM IndexesAgree == ASSUME IndexablesKept PROVE Spec => []IndexAgree
  <1>1. IndexIInv => IndexAgree
    BY DEF IndexIInv, IndexContents, IndexAgree
  <1>2. IndexIInv /\ [Next]_vars => IndexIInv'
    BY NextIndexIInv
  <1>3. QED
    BY <1>1, <1>2, InitIndexIInv, PTL DEF Spec

=============================================================================
