--------------------------- MODULE PocketDatabase ---------------------------
(***************************************************************************)
(* The database engine: PocketDatabase (api/database.ts), PocketCollection *)
(* (api/collection.ts) and the index contents kept by IndexManager         *)
(* (indexes/index-manager.ts), over an append-only operation log.          *)
(*                                                                         *)
(* The log is modelled at the level of records: a record's offset is its   *)
(* position, so offset 0 (the file header) never holds a record.  A record *)
(* torn by a crash is a crash before that record: FileStorage discards it. *)
(* The engine is synchronous and single threaded, so a call that writes    *)
(* one record is one step; a batch, a compaction and a replay are several  *)
(* steps, because the process can stop (or the encoder throw) inside them. *)
(***************************************************************************)
EXTENDS Integers, Sequences, FiniteSets

CONSTANTS
    Names,      \* collection names
    ColIds,     \* 4-byte collection identifiers
    DocIds,     \* 12-byte document identifiers
    Fields,     \* top-level document fields
    Values,     \* what a field may hold, "no such field" included
    Kind,       \* Kind[v]: "string", "number" (finite) or "other"
    Stored,     \* Stored[v]: what decoding the encoding of v gives back
    IndexDefs,  \* the index definitions callers ask for
    Faults,     \* what may go wrong: a subset of FaultKinds
    MaxLog,     \* bound: records in the log
    MaxBatch,   \* bound: documents in one insertMany/updateMany/deleteMany
    None        \* no value: an absent Map entry, undefined, null

FaultKinds == {"crash", "crash_in_compact", "throw_in_batch"}

IndexTypes == {"string", "number"}

Docs == [Fields -> Values]

ASSUME ValuesAssumption ==
    /\ Kind \in [Values -> IndexTypes \cup {"other"}]
    /\ Stored \in [Values -> Values]
    /\ IndexDefs \subseteq [type : IndexTypes, unique : BOOLEAN]

ASSUME BoundsAssumption == MaxLog \in Nat /\ MaxBatch \in Nat

ASSUME FaultsAssumption == Faults \subseteq FaultKinds

ASSUME NoneAssumption ==
    None \notin Names \cup ColIds \cup Values \cup Docs \cup IndexDefs

\* An index entry or the contents of a collection is not None either.
ASSUME AbsentAssumption ==
    None \notin [key : Values, off : Nat]
             \cup [docs : [DocIds -> Docs \cup {None}],
                   defs : [Fields -> IndexDefs \cup {None}]]

VARIABLES
    log,      \* the file: the sequence of complete operation records
    phase,    \* "down", "loading", "open", "compacting" or "failed"
    pos,      \* loadCollections: the record about to be read
    txn,      \* loadCollections: position of the open txnb, 0 when none
    redo,     \* loadCollections: staged record about to be applied, 0 when none
    byName,   \* collectionsByName
    byId,     \* collectionsById: the registered name of an id
    primary,  \* primaryIndex of a collection: document -> offset, 0 when absent
    defs,     \* indexesByField of a collection: field -> definition
    entries,  \* what each secondary index holds: document -> {key, offset}
    batch,    \* the transaction being written, or None
    scan,     \* compact: records scanned
    write,    \* compact: records kept so far (writeHead)
    live,     \* records stats() counted live when compact began
    acked     \* observer: what callers could read when the last session ended

loaderVars  == <<pos, txn, redo>>
memoryVars  == <<byName, byId, primary, defs, entries>>
compactVars == <<scan, write, live>>
vars == <<log, phase, loaderVars, memoryVars, batch, compactVars, acked>>

-----------------------------------------------------------------------------
(* Operation records (storage/constants.ts, *-operation.ts).               *)

NclRecs == [op : {"ncl1"}, col : ColIds, name : Names]
DcoRecs == [op : {"dco1"}, col : ColIds]
PutRecs == [op : {"put1"}, col : ColIds, id : DocIds, doc : Docs]
DelRecs == [op : {"del1"}, col : ColIds, id : DocIds]
IdxRecs == [op : {"idx1"}, col : ColIds, field : Fields, def : IndexDefs]
DixRecs == [op : {"dix1"}, col : ColIds, field : Fields]
TxnRecs == [op : {"txnb", "txnc"}]

Records == NclRecs \cup DcoRecs \cup PutRecs \cup DelRecs
             \cup IdxRecs \cup DixRecs \cup TxnRecs

\* Encoding a document keeps Stored[v] of each field, whatever the caller gave.
Encode(doc) == [f \in Fields |-> Stored[doc[f]]]

NclRec(c, n)      == [op |-> "ncl1", col |-> c, name |-> n]
DcoRec(c)         == [op |-> "dco1", col |-> c]
PutRec(c, d, doc) == [op |-> "put1", col |-> c, id |-> d, doc |-> Encode(doc)]
DelRec(c, d)      == [op |-> "del1", col |-> c, id |-> d]
IdxRec(c, f, def) == [op |-> "idx1", col |-> c, field |-> f, def |-> def]
DixRec(c, f)      == [op |-> "dix1", col |-> c, field |-> f]
Txnb              == [op |-> "txnb"]
Txnc              == [op |-> "txnc"]

-----------------------------------------------------------------------------
(* Secondary indexes.  An index holds, for each document whose field has   *)
(* the index's type, the value and the offset of the version it was read   *)
(* from; values of another type are skipped.                               *)

NoDocs    == [d \in DocIds |-> 0]
NoDefs    == [f \in Fields |-> None]
NoEntries == [f \in Fields |-> [d \in DocIds |-> None]]

Indexable(def, v) == def # None /\ Kind[v] = def.type

Entry(def, v, o) ==
    IF Indexable(def, v) THEN [key |-> v, off |-> o] ELSE None

\* updateDocument / removeDocument of every index of a collection.
WithDoc(ents, df, d, doc, o) ==
    [f \in Fields |-> [ents[f] EXCEPT ![d] = Entry(df[f], doc[f], o)]]

\* Mutant: remove() forgets valuesById, so the index keeps a husk of the entry.
WithoutDocHusk(ents, d) ==
    [f \in Fields |-> [ents[f] EXCEPT ![d] = [key |-> None, off |-> 0]]]

WithoutDoc(ents, d) == [f \in Fields |-> [ents[f] EXCEPT ![d] = None]]

StoredDoc(c, d) == log[primary[c][d]].doc

\* rebuildIndex: every current document is read back and re-indexed in every
\* index of the collection.
Rebuild(c, df) ==
    [f \in Fields |-> [d \in DocIds |->
        IF primary[c][d] = 0 THEN entries[c][f][d]
        ELSE Entry(df[f], StoredDoc(c, d)[f], primary[c][d])]]

\* What an index holds for a document when it is filled from nothing.
Indexed(c, f, d) ==
    IF primary[c][d] = 0 THEN None
    ELSE Entry(defs[c][f], StoredDoc(c, d)[f], primary[c][d])

Holds(ents, f, d, v) == ents[f][d] # None /\ ents[f][d].key = v

\* findOwner: some document outside excl already holds the value.
Owned(c, f, v, excl) == \E e \in DocIds \ excl : Holds(entries[c], f, e, v)

UniqueOn(c, f, v) ==
    defs[c][f] # None /\ defs[c][f].unique /\ Indexable(defs[c][f], v)

AssertUnique(c, doc, excl) ==
    \A f \in Fields : UniqueOn(c, f, doc[f]) => ~Owned(c, f, doc[f], excl)

\* Mutant: no seenInBatch map.
AssertUniqueBatchIndexOnly(c, ids, docs) ==
    \A i \in DOMAIN ids : AssertUnique(c, docs[ids[i]], {ids[i]})

\* The batch is checked against the index as it is, then against itself.
AssertUniqueBatch(c, ids, docs) ==
    \A i \in DOMAIN ids, f \in Fields :
        LET doc == docs[ids[i]] IN
        UniqueOn(c, f, doc[f]) =>
            /\ ~Owned(c, f, doc[f], {ids[i]})
            /\ \A j \in DOMAIN ids :
                   ids[j] # ids[i] => docs[ids[j]][f] # doc[f]

HasDuplicate(ents, f) ==
    \E d, e \in DocIds :
        d # e /\ ents[f][d] # None /\ Holds(ents, f, e, ents[f][d].key)

-----------------------------------------------------------------------------
(* What a caller can read: per collection name, the documents reached      *)
(* through the primary index and the index definitions.                    *)

View ==
    [n \in Names |->
        IF byName[n] = None THEN None
        ELSE [docs |-> [d \in DocIds |->
                           IF primary[byName[n]][d] = 0 THEN None
                           ELSE StoredDoc(byName[n], d)],
              defs |-> defs[byName[n]]]]

NoView == [n \in Names |-> None]

Init ==
    /\ log = << >>
    /\ phase = "down"
    /\ pos = 0 /\ txn = 0 /\ redo = 0
    /\ byName = [n \in Names |-> None]
    /\ byId = [c \in ColIds |-> None]
    /\ primary = [c \in ColIds |-> NoDocs]
    /\ defs = [c \in ColIds |-> NoDefs]
    /\ entries = [c \in ColIds |-> NoEntries]
    /\ batch = None
    /\ scan = 0 /\ write = 0 /\ live = 0
    /\ acked = NoView

\* The process is gone: nothing of its memory is left.
Forget ==
    /\ byName' = [n \in Names |-> None]
    /\ byId' = [c \in ColIds |-> None]
    /\ primary' = [c \in ColIds |-> NoDocs]
    /\ defs' = [c \in ColIds |-> NoDefs]
    /\ entries' = [c \in ColIds |-> NoEntries]
    /\ batch' = None
    /\ pos' = 0 /\ txn' = 0 /\ redo' = 0
    /\ scan' = 0 /\ write' = 0 /\ live' = 0

-----------------------------------------------------------------------------
(* Effects on memory shared by the API calls and by replay.                *)

Register(c, n) ==
    /\ byName' = [byName EXCEPT ![n] = c]
    /\ byId' = [byId EXCEPT ![c] = n]
    /\ primary' = [primary EXCEPT ![c] = NoDocs]
    /\ defs' = [defs EXCEPT ![c] = NoDefs]
    /\ entries' = [entries EXCEPT ![c] = NoEntries]

\* doc is what the index sees: the caller's document on a write, the decoded
\* one on replay.
ApplyPut(c, d, o, doc) ==
    /\ primary' = [primary EXCEPT ![c][d] = o]
    /\ entries' = [entries EXCEPT ![c] = WithDoc(@, defs[c], d, doc, o)]
    /\ UNCHANGED <<byName, byId, defs>>

ApplyDelete(c, d) ==
    /\ primary' = [primary EXCEPT ![c][d] = 0]
    /\ entries' = [entries EXCEPT ![c] = WithoutDoc(@, d)]
    /\ UNCHANGED <<byName, byId, defs>>

ApplyDrop(c) ==
    /\ byName' = [byName EXCEPT ![byId[c]] = None]
    /\ byId' = [byId EXCEPT ![c] = None]
    /\ primary' = [primary EXCEPT ![c] = NoDocs]
    /\ defs' = [defs EXCEPT ![c] = NoDefs]
    /\ entries' = [entries EXCEPT ![c] = NoEntries]

\* createIndexInMemory, for a definition that survives the duplicate check.
ApplyCreateIndex(c, f, def) ==
    LET df == [defs[c] EXCEPT ![f] = def] IN
    /\ defs' = [defs EXCEPT ![c] = df]
    /\ entries' = [entries EXCEPT ![c] = Rebuild(c, df)]
    /\ UNCHANGED <<byName, byId, primary>>

ApplyDropIndex(c, f) ==
    /\ defs' = [defs EXCEPT ![c][f] = None]
    /\ entries' = [entries EXCEPT ![c][f] = NoEntries[f]]
    /\ UNCHANGED <<byName, byId, primary>>

\* createIndexInMemory throws: a brand-new unique index over duplicates.
Conflicting(c, f, def) ==
    /\ defs[c][f] = None
    /\ def.unique
    /\ HasDuplicate(Rebuild(c, [defs[c] EXCEPT ![f] = def]), f)

-----------------------------------------------------------------------------
(* API calls that write one record.                                        *)

Idle == phase = "open" /\ batch = None

Live(c) == Idle /\ byId[c] # None      \* assertNotDropped

Room(n) == Len(log) + n <= MaxLog      \* bound

AppendOperation(r) ==
    /\ Room(1)
    /\ log' = Append(log, r)
    /\ UNCHANGED <<phase, loaderVars, batch, compactVars, acked>>

\* Random ids are redrawn while they name a live collection; a collision
\* with the id of a dropped one (2^-32) is left out.
Collection(n, c) ==
    /\ Idle
    /\ byName[n] = None
    /\ byId[c] = None
    /\ \A i \in DOMAIN log : log[i].op = "ncl1" => log[i].col # c
    /\ AppendOperation(NclRec(c, n))
    /\ Register(c, n)

\* Mutant: the primary index gets the end of the log before the append.
InsertOneOldEnd(c, d, doc) ==
    /\ Live(c)
    /\ primary[c][d] = 0
    /\ AssertUnique(c, doc, {})
    /\ AppendOperation(PutRec(c, d, doc))
    /\ ApplyPut(c, d, Len(log), doc)

InsertOne(c, d, doc) ==
    /\ Live(c)
    /\ primary[c][d] = 0
    /\ AssertUnique(c, doc, {})
    /\ AppendOperation(PutRec(c, d, doc))
    /\ ApplyPut(c, d, Len(log) + 1, doc)

ReplaceOne(c, d, doc) ==
    /\ Live(c)
    /\ primary[c][d] # 0
    /\ AssertUnique(c, doc, {d})
    /\ AppendOperation(PutRec(c, d, doc))
    /\ ApplyPut(c, d, Len(log) + 1, doc)

\* The stored document is read back, one field is changed, the whole document
\* is written again.
UpdateOne(c, d, f, v) ==
    /\ Live(c)
    /\ primary[c][d] # 0
    /\ LET doc == [StoredDoc(c, d) EXCEPT ![f] = v] IN
       /\ AssertUnique(c, doc, {d})
       /\ AppendOperation(PutRec(c, d, doc))
       /\ ApplyPut(c, d, Len(log) + 1, doc)

DeleteOne(c, d) ==
    /\ Live(c)
    /\ primary[c][d] # 0
    /\ AppendOperation(DelRec(c, d))
    /\ ApplyDelete(c, d)

Drop(c) ==
    /\ Live(c)
    /\ AppendOperation(DcoRec(c))
    /\ ApplyDrop(c)

CreateIndex(c, f, def) ==
    /\ Live(c)
    /\ defs[c][f] = None
    /\ ~Conflicting(c, f, def)
    /\ AppendOperation(IdxRec(c, f, def))
    /\ ApplyCreateIndex(c, f, def)

\* The same definition again: the index is rebuilt, nothing is logged.
RecreateIndex(c, f) ==
    /\ Live(c)
    /\ defs[c][f] # None
    /\ ApplyCreateIndex(c, f, defs[c][f])
    /\ UNCHANGED <<log, phase, loaderVars, batch, compactVars, acked>>

\* Rejected for duplicates: the new index is removed, but the rebuild has
\* already refreshed the collection's other indexes.
RejectIndex(c, f, def) ==
    /\ Live(c)
    /\ Conflicting(c, f, def)
    /\ entries' = [entries EXCEPT ![c] = Rebuild(c, defs[c])]
    /\ UNCHANGED <<log, phase, loaderVars, batch, compactVars, acked,
                   byName, byId, primary, defs>>

DropIndex(c, f) ==
    /\ Live(c)
    /\ defs[c][f] # None
    /\ AppendOperation(DixRec(c, f))
    /\ ApplyDropIndex(c, f)

-----------------------------------------------------------------------------
(* Batches: txnb, one record per document, txnc, then memory.              *)

BatchIds == UNION {[1 .. n -> DocIds] : n \in 1 .. MaxBatch}

Members(ids) == {ids[i] : i \in DOMAIN ids}

\* docs[d] is the document to write for d, None when d is to be deleted.
BeginBatch(c, ids, docs) ==
    /\ Room(Len(ids) + 2)
    /\ log' = Append(log, Txnb)
    /\ batch' = [col |-> c, ids |-> ids, docs |-> docs, done |-> 0, offs |-> NoDocs]
    /\ UNCHANGED <<phase, loaderVars, memoryVars, compactVars, acked>>

InsertMany(c, ids, docs) ==
    /\ Live(c)
    /\ \A i, j \in DOMAIN ids : ids[i] = ids[j] => i = j
    /\ \A d \in DocIds : docs[d] # None <=> d \in Members(ids)
    /\ \A d \in Members(ids) : primary[c][d] = 0
    /\ AssertUniqueBatch(c, ids, docs)
    /\ BeginBatch(c, ids, docs)

\* ids are the documents find() returned; an id listed twice in an _id $in
\* list is returned twice.
UpdateMany(c, ids, f, v) ==
    /\ Live(c)
    /\ \A d \in Members(ids) : primary[c][d] # 0
    /\ LET docs == [d \in DocIds |-> IF d \in Members(ids)
                                     THEN [StoredDoc(c, d) EXCEPT ![f] = v]
                                     ELSE None]
       IN /\ AssertUniqueBatch(c, ids, docs)
          /\ BeginBatch(c, ids, docs)

DeleteMany(c, ids) ==
    /\ Live(c)
    /\ \A d \in Members(ids) : primary[c][d] # 0
    /\ BeginBatch(c, ids, [d \in DocIds |-> None])

Pending == phase = "open" /\ batch # None /\ batch.done < Len(batch.ids)

\* offsets.push(offset): one more record of the batch is in the log.
Noted(b, d, o) ==
    [col |-> b.col, ids |-> b.ids, docs |-> b.docs,
     done |-> b.done + 1, offs |-> [b.offs EXCEPT ![d] = o]]

\* Mutant: each document becomes visible as soon as its record is appended.
WriteBatchAtOnce ==
    /\ Pending
    /\ LET c == batch.col
           d == batch.ids[batch.done + 1]
       IN IF batch.docs[d] # None
          THEN /\ log' = Append(log, PutRec(c, d, batch.docs[d]))
               /\ ApplyPut(c, d, Len(log) + 1, batch.docs[d])
               /\ batch' = Noted(batch, d, Len(log) + 1)
          ELSE /\ log' = Append(log, DelRec(c, d))
               /\ ApplyDelete(c, d)
               /\ batch' = Noted(batch, d, 0)
    /\ UNCHANGED <<phase, loaderVars, compactVars, acked>>

WriteBatch ==
    /\ Pending
    /\ LET d == batch.ids[batch.done + 1]
           put == batch.docs[d] # None
       IN /\ log' = Append(log, IF put THEN PutRec(batch.col, d, batch.docs[d])
                                ELSE DelRec(batch.col, d))
          /\ batch' = Noted(batch, d, IF put THEN Len(log) + 1 ELSE 0)
    /\ UNCHANGED <<phase, loaderVars, memoryVars, compactVars, acked>>

CommitBatch ==
    /\ phase = "open" /\ batch # None
    /\ batch.done = Len(batch.ids)
    /\ log' = Append(log, Txnc)
    /\ LET c == batch.col
           in(d) == d \in Members(batch.ids)
           entry(f, d) == IF batch.docs[d] = None THEN None
                          ELSE Entry(defs[c][f], batch.docs[d][f], batch.offs[d])
       IN /\ primary' = [primary EXCEPT ![c] =
                [d \in DocIds |-> IF in(d) THEN batch.offs[d] ELSE @[d]]]
          /\ entries' = [entries EXCEPT ![c] =
                [f \in Fields |-> [d \in DocIds |->
                    IF in(d) THEN entry(f, d) ELSE entries[c][f][d]]]]
    /\ batch' = None
    /\ UNCHANGED <<phase, loaderVars, byName, byId, defs, compactVars, acked>>

\* Encoding one of the documents throws: the call fails and its txnb stays.
ThrowInBatch ==
    /\ "throw_in_batch" \in Faults
    /\ Pending
    /\ batch.docs[batch.ids[batch.done + 1]] # None
    /\ batch' = None
    /\ UNCHANGED <<log, phase, loaderVars, memoryVars, compactVars, acked>>

-----------------------------------------------------------------------------
(* Compaction: one forward pass that moves kept records down the file.     *)

\* Mutant: drop records survive compaction.
ShouldKeepDrops(r, o) ==
    \/ r.op \in {"dco1", "dix1"}
    \/ r.op = "ncl1" /\ byId[r.col] # None
    \/ r.op = "idx1" /\ byId[r.col] # None /\ defs[r.col][r.field] # None
    \/ r.op = "put1" /\ byId[r.col] # None /\ primary[r.col][r.id] = o

\* Mutant: the offset is not compared with the primary index.
ShouldKeepAnyVersion(r, o) ==
    \/ r.op = "ncl1" /\ byId[r.col] # None
    \/ r.op = "idx1" /\ byId[r.col] # None /\ defs[r.col][r.field] # None
    \/ r.op = "put1" /\ byId[r.col] # None /\ primary[r.col][r.id] # 0

ShouldKeep(r, o) ==
    \/ r.op = "ncl1" /\ byId[r.col] # None
    \/ r.op = "idx1" /\ byId[r.col] # None /\ defs[r.col][r.field] # None
    \/ r.op = "put1" /\ byId[r.col] # None /\ primary[r.col][r.id] = o

LiveRecords == {i \in DOMAIN log : ShouldKeep(log[i], i)}

\* Mutant: stats() counts every version of a document as live.
BeginCompactAllVersions ==
    /\ Idle
    /\ phase' = "compacting"
    /\ scan' = 0 /\ write' = 0
    /\ live' = Cardinality({i \in DOMAIN log :
                   log[i].op = "put1" \/ ShouldKeep(log[i], i)})
    /\ UNCHANGED <<log, loaderVars, memoryVars, batch, acked>>

BeginCompact ==
    /\ Idle
    /\ phase' = "compacting"
    /\ scan' = 0 /\ write' = 0
    /\ live' = Cardinality(LiveRecords)
    /\ UNCHANGED <<log, loaderVars, memoryVars, batch, acked>>

\* Mutant: a moved document keeps its old offset.
CompactKeepOldOffset ==
    /\ phase = "compacting" /\ scan < Len(log)
    /\ ShouldKeep(log[scan + 1], scan + 1)
    /\ log' = [log EXCEPT ![write + 1] = log[scan + 1]]
    /\ scan' = scan + 1 /\ write' = write + 1
    /\ UNCHANGED <<phase, loaderVars, memoryVars, batch, live, acked>>

\* A record already in place (write = scan) is copied onto itself.
CompactKeep ==
    /\ phase = "compacting" /\ scan < Len(log)
    /\ LET r == log[scan + 1] IN
       /\ ShouldKeep(r, scan + 1)
       /\ log' = [log EXCEPT ![write + 1] = r]
       /\ primary' = IF r.op = "put1"
                     THEN [primary EXCEPT ![r.col][r.id] = write + 1]
                     ELSE primary
    /\ scan' = scan + 1 /\ write' = write + 1
    /\ UNCHANGED <<phase, loaderVars, byName, byId, defs, entries, batch, live, acked>>

CompactSkip ==
    /\ phase = "compacting" /\ scan < Len(log)
    /\ ~ShouldKeep(log[scan + 1], scan + 1)
    /\ scan' = scan + 1
    /\ UNCHANGED <<log, phase, loaderVars, memoryVars, batch, write, live, acked>>

\* Mutant: the secondary indexes are not refreshed.
EndCompactNoRefresh ==
    /\ phase = "compacting" /\ scan = Len(log)
    /\ log' = SubSeq(log, 1, write)
    /\ phase' = "open"
    /\ scan' = 0 /\ write' = 0 /\ live' = 0
    /\ UNCHANGED <<loaderVars, memoryVars, batch, acked>>

\* Mutant: the file is not truncated.
EndCompactNoTruncate ==
    /\ phase = "compacting" /\ scan = Len(log)
    /\ entries' = [c \in ColIds |-> Rebuild(c, defs[c])]
    /\ phase' = "open"
    /\ scan' = 0 /\ write' = 0 /\ live' = 0
    /\ UNCHANGED <<log, loaderVars, byName, byId, primary, defs, batch, acked>>

\* truncateTo, then refreshIndexesAfterCompaction of every collection.
EndCompact ==
    /\ phase = "compacting" /\ scan = Len(log)
    /\ log' = SubSeq(log, 1, write)
    /\ entries' = [c \in ColIds |-> [f \in Fields |-> [d \in DocIds |-> Indexed(c, f, d)]]]
    /\ phase' = "open"
    /\ scan' = 0 /\ write' = 0 /\ live' = 0
    /\ UNCHANGED <<loaderVars, byName, byId, primary, defs, batch, acked>>

-----------------------------------------------------------------------------
(* The end of a session, and the next open().                              *)

Close ==
    /\ Idle
    /\ phase' = "down"
    /\ acked' = View
    /\ Forget
    /\ UNCHANGED log

\* The process dies; the records already written stay in the file.
Crash ==
    /\ \/ phase \in {"open", "loading"} /\ "crash" \in Faults
       \/ phase = "compacting" /\ "crash_in_compact" \in Faults
    /\ phase' = "down"
    /\ acked' = IF phase = "loading" THEN acked ELSE View
    /\ Forget
    /\ UNCHANGED log

Open ==
    /\ phase \in {"down", "failed"}
    /\ phase' = "loading"
    /\ pos' = 1 /\ txn' = 0 /\ redo' = 0
    /\ UNCHANGED <<log, memoryVars, batch, compactVars, acked>>

\* applyOperation of the record at offset o ...
Applicable(r) ==
    \/ r.op = "ncl1"
    \/ r.op \in {"put1", "del1", "dco1"} /\ byId[r.col] # None
    \/ /\ r.op = "idx1" /\ byId[r.col] # None
       /\ defs[r.col][r.field] \in {None, r.def}
       /\ ~Conflicting(r.col, r.field, r.def)
    \/ r.op = "dix1" /\ byId[r.col] # None /\ defs[r.col][r.field] # None

ApplyOperation(r, o) ==
    \/ r.op = "ncl1" /\ Register(r.col, r.name)
    \/ r.op = "put1" /\ ApplyPut(r.col, r.id, o, r.doc)
    \/ r.op = "del1" /\ ApplyDelete(r.col, r.id)
    \/ r.op = "dco1" /\ ApplyDrop(r.col)
    \/ r.op = "idx1" /\ ApplyCreateIndex(r.col, r.field, r.def)
    \/ r.op = "dix1" /\ ApplyDropIndex(r.col, r.field)

\* ... at once outside a transaction; inside one, records are staged until
\* their txnc is read and then applied in order.
Reading == phase = "loading" /\ redo = 0 /\ pos <= Len(log)

Redoing == phase = "loading" /\ redo # 0

InData(r) == r.op \notin {"txnb", "txnc"}

LoadApply ==
    /\ Reading /\ txn = 0
    /\ InData(log[pos]) /\ Applicable(log[pos])
    /\ ApplyOperation(log[pos], pos)
    /\ pos' = pos + 1
    /\ UNCHANGED <<log, phase, txn, redo, batch, compactVars, acked>>

LoadBegin ==
    /\ Reading /\ txn = 0
    /\ log[pos].op = "txnb"
    /\ txn' = pos /\ pos' = pos + 1
    /\ UNCHANGED <<log, phase, redo, memoryVars, batch, compactVars, acked>>

\* Mutant: records inside a transaction are applied without waiting for txnc.
LoadStageAtOnce ==
    /\ Reading /\ txn # 0
    /\ InData(log[pos]) /\ Applicable(log[pos])
    /\ ApplyOperation(log[pos], pos)
    /\ pos' = pos + 1
    /\ UNCHANGED <<log, phase, txn, redo, batch, compactVars, acked>>

LoadStage ==
    /\ Reading /\ txn # 0
    /\ InData(log[pos])
    /\ pos' = pos + 1
    /\ UNCHANGED <<log, phase, txn, redo, memoryVars, batch, compactVars, acked>>

LoadCommit ==
    /\ Reading /\ txn # 0
    /\ log[pos].op = "txnc"
    /\ redo' = txn + 1
    /\ UNCHANGED <<log, phase, pos, txn, memoryVars, batch, compactVars, acked>>

LoadRedo ==
    /\ Redoing /\ redo < pos
    /\ Applicable(log[redo])
    /\ ApplyOperation(log[redo], redo)
    /\ redo' = redo + 1
    /\ UNCHANGED <<log, phase, pos, txn, batch, compactVars, acked>>

LoadCommitted ==
    /\ Redoing /\ redo = pos
    /\ pos' = pos + 1 /\ txn' = 0 /\ redo' = 0
    /\ UNCHANGED <<log, phase, memoryVars, batch, compactVars, acked>>

\* Nested begin, commit without begin, or a record that cannot be applied:
\* open() throws.
LoadFail ==
    /\ \/ Reading /\ log[pos].op = "txnb" /\ txn # 0
       \/ Reading /\ log[pos].op = "txnc" /\ txn = 0
       \/ Reading /\ txn = 0 /\ InData(log[pos]) /\ ~Applicable(log[pos])
       \/ Redoing /\ redo < pos /\ ~Applicable(log[redo])
    /\ phase' = "failed"
    /\ Forget
    /\ UNCHANGED <<log, acked>>

\* The end of the log: a transaction still open is dropped silently.
LoadEnd ==
    /\ phase = "loading" /\ redo = 0 /\ pos > Len(log)
    /\ phase' = "open"
    /\ pos' = 0 /\ txn' = 0
    /\ UNCHANGED <<log, redo, memoryVars, batch, compactVars, acked>>

-----------------------------------------------------------------------------

WriteOne ==
    \/ \E n \in Names, c \in ColIds : Collection(n, c)
    \/ \E c \in ColIds, d \in DocIds, doc \in Docs :
          InsertOne(c, d, doc) \/ ReplaceOne(c, d, doc)
    \/ \E c \in ColIds, d \in DocIds, f \in Fields, v \in Values : UpdateOne(c, d, f, v)
    \/ \E c \in ColIds, d \in DocIds : DeleteOne(c, d)
    \/ \E c \in ColIds : Drop(c)
    \/ \E c \in ColIds, f \in Fields : RecreateIndex(c, f) \/ DropIndex(c, f)
    \/ \E c \in ColIds, f \in Fields, def \in IndexDefs :
          CreateIndex(c, f, def) \/ RejectIndex(c, f, def)

WriteMany ==
    \/ \E c \in ColIds, ids \in BatchIds, docs \in [DocIds -> Docs \cup {None}] :
          InsertMany(c, ids, docs)
    \/ \E c \in ColIds, ids \in BatchIds, f \in Fields, v \in Values :
          UpdateMany(c, ids, f, v)
    \/ \E c \in ColIds, ids \in BatchIds : DeleteMany(c, ids)
    \/ WriteBatch \/ CommitBatch \/ ThrowInBatch

Compact == BeginCompact \/ CompactKeep \/ CompactSkip \/ EndCompact

Load ==
    \/ LoadApply \/ LoadBegin \/ LoadStage \/ LoadCommit
    \/ LoadRedo \/ LoadCommitted \/ LoadFail \/ LoadEnd

Next == WriteOne \/ WriteMany \/ Compact \/ Close \/ Crash \/ Open \/ Load

Spec == Init /\ [][Next]_vars

-----------------------------------------------------------------------------
(* Types.                                                                  *)

Views == [Names -> [docs : [DocIds -> Docs \cup {None}],
                    defs : [Fields -> IndexDefs \cup {None}]] \cup {None}]

Batches == [col : ColIds, ids : BatchIds, docs : [DocIds -> Docs \cup {None}],
            done : Nat, offs : [DocIds -> Nat]]

Entries == [key : Values, off : Nat]

\* Every variable has the shape its comment says.
TypeOK ==
    /\ log \in Seq(Records)
    /\ phase \in {"down", "loading", "open", "compacting", "failed"}
    /\ pos \in Nat /\ txn \in Nat /\ redo \in Nat
    /\ byName \in [Names -> ColIds \cup {None}]
    /\ byId \in [ColIds -> Names \cup {None}]
    /\ primary \in [ColIds -> [DocIds -> Nat]]
    /\ defs \in [ColIds -> [Fields -> IndexDefs \cup {None}]]
    /\ entries \in [ColIds -> [Fields -> [DocIds -> Entries \cup {None}]]]
    /\ batch \in Batches \cup {None}
    /\ scan \in Nat /\ write \in Nat /\ live \in Nat
    /\ acked \in Views

-----------------------------------------------------------------------------
(* Correctness of one session.                                             *)

IsPut(o, c, d) ==
    /\ o \in DOMAIN log
    /\ log[o].op = "put1" /\ log[o].col = c /\ log[o].id = d

\* Every primary index offset is the offset of a put1 record of that very
\* document: readCandidateDocument, rebuildIndex and the compaction refresh,
\* which throw or decode the wrong document otherwise, always find one, also
\* in the middle of a compaction that is overwriting the file.
PrimaryOffsets ==
    \A c \in ColIds, d \in DocIds : primary[c][d] # 0 => IsPut(primary[c][d], c, d)

\* The write head of a compaction never passes the scan head, and no live
\* offset lies in the part of the file between them, which it overwrites.
CompactionHeads ==
    phase = "compacting" =>
        /\ write <= scan /\ scan <= Len(log)
        /\ \A c \in ColIds, d \in DocIds :
              primary[c][d] <= write \/ primary[c][d] > scan

\* A query planned on a secondary index sees the same documents, at the same
\* versions, as one planned on the primary index: each index holds exactly the
\* indexable field values of the current documents with their offsets.
IndexAgree ==
    phase \in {"loading", "open"} =>
        \A c \in ColIds, f \in Fields, d \in DocIds :
            entries[c][f][d] = Indexed(c, f, d)

\* deadBytes of stats() "is precisely the space a compaction would reclaim":
\* moving records while deciding about later ones changes no decision.
StatsPredictCompaction ==
    phase = "compacting" /\ scan = Len(log) => write = live

\* No two current documents hold the same value under a unique index.
UniqueKeys ==
    phase = "open" =>
        \A c \in ColIds, f \in Fields, d, e \in DocIds :
            /\ defs[c][f] # None /\ defs[c][f].unique
            /\ d # e /\ primary[c][d] # 0 /\ primary[c][e] # 0
            /\ Indexable(defs[c][f], StoredDoc(c, d)[f])
            => StoredDoc(c, d)[f] # StoredDoc(c, e)[f]

\* Compaction never changes what callers read, at any point of the pass.
CompactionPreservesView ==
    [][phase = "compacting" /\ phase' # "down" => View' = View]_vars

\* A compacted log holds live records only: compacting again reclaims nothing.
CompactedIsMinimal ==
    [][phase = "compacting" /\ phase' = "open" => LiveRecords' = DOMAIN log']_vars

-----------------------------------------------------------------------------
(* Correctness across sessions.                                            *)

\* Reopening the file gives back exactly what callers could read when the last
\* session ended, by close() or by a crash at any point: acknowledged writes
\* are there, an unfinished batch has left no trace.
ReopenRestores ==
    [][phase = "loading" /\ phase' = "open" => View' = acked]_vars

\* open() never refuses a file the engine itself has written.
OpenSucceeds == phase # "failed"

-----------------------------------------------------------------------------
(* The inductive invariant behind TypeOK, PrimaryOffsets and               *)
(* CompactionHeads.                                                        *)

\* Only registered collections have documents.
RegisteredDocs ==
    \A c \in ColIds, d \in DocIds : byId[c] = None => primary[c][d] = 0

\* The offsets a batch has collected are those of its own put1 records; it is
\* written by an open session, to a live collection.
BatchOffsets ==
    batch # None =>
        /\ phase = "open" /\ byId[batch.col] # None
        /\ \A d \in DocIds : batch.offs[d] # 0 => IsPut(batch.offs[d], batch.col, d)

\* Replay reads inside the log.
LoaderInLog ==
    phase = "loading" => pos >= 1 /\ (redo # 0 => pos <= Len(log))

\* All of the above together: what every step preserves.
IInv ==
    /\ TypeOK /\ PrimaryOffsets /\ RegisteredDocs
    /\ CompactionHeads /\ BatchOffsets /\ LoaderInLog

-----------------------------------------------------------------------------
(* What CompactedIsMinimal, StatsPredictCompaction and IndexAgree need     *)
(* beside IInv.                                                            *)

\* The records below the write head are live where they have been moved to.
KeptAreLive ==
    phase = "compacting" => \A i \in 1 .. write : ShouldKeep(log[i], i)

\* The records compact() has yet to scan and will keep.
LiveAhead == {i \in scan + 1 .. Len(log) : ShouldKeep(log[i], i)}

\* What stats() counted live is what is kept so far and what is still ahead.
LiveCount == phase = "compacting" => live = write + Cardinality(LiveAhead)

\* IInv and the progress of the compaction.
CompactIInv == IInv /\ KeptAreLive /\ LiveCount

\* Outside a compaction each index holds what filling it from nothing would.
IndexContents ==
    phase # "compacting" =>
        \A c \in ColIds, f \in Fields, d \in DocIds :
            entries[c][f][d] = Indexed(c, f, d)

\* The offset a batch has noted is that of the document it indexes, and it has
\* noted one for each document written so far.
BatchRecords ==
    batch # None =>
        /\ \A d \in DocIds : batch.offs[d] # 0 =>
              /\ batch.docs[d] # None
              /\ log[batch.offs[d]].doc = Encode(batch.docs[d])
        /\ \A k \in 1 .. batch.done :
              batch.docs[batch.ids[k]] # None => batch.offs[batch.ids[k]] # 0

\* Encoding keeps the values an index holds and makes no other value one of
\* them.  JSON breaks it for a Date, which comes back as a string.
IndexablesKept ==
    \A v \in Values : IF Kind[v] = "other" THEN Kind[Stored[v]] = "other"
                                         ELSE Stored[v] = v

\* IInv and the contents of the secondary indexes; kept by every step when
\* IndexablesKept holds.
IndexIInv == IInv /\ IndexContents /\ BatchRecords

=============================================================================
