------------------------------ MODULE Reopening ------------------------------
(***************************************************************************)
(* One session of the engine and the next: what a log says to the replay   *)
(* that will read it, the caller contract under which nothing is ever lost *)
(* between sessions, and the abstract document store the engine implements *)
(* under that contract.                                                    *)
(***************************************************************************)
EXTENDS PocketDatabase

-----------------------------------------------------------------------------
(* The caller contract under which nothing is ever lost: a session that    *)
(* finds an unfinished transaction in the log compacts before it writes,   *)
(* and an index is not redefined while the log still holds its old idx1.   *)

DanglingTxn ==
    \E i \in DOMAIN log :
        /\ log[i].op = "txnb"
        /\ \A j \in i + 1 .. Len(log) : log[j].op # "txnc"

RedefinedIndex ==
    \E i, j \in DOMAIN log :
        /\ log[i].op = "idx1" /\ log[j].op = "idx1"
        /\ log[i].col = log[j].col /\ log[i].field = log[j].field
        /\ log[i].def # log[j].def

Contract ==
    /\ Idle /\ DanglingTxn => phase' # "open"
    /\ ~RedefinedIndex'

CarefulNext == Next /\ Contract

CarefulSpec == Init /\ [][CarefulNext]_vars

-----------------------------------------------------------------------------
(* The abstract document store.                                            *)

Up == phase \in {"open", "compacting"}

Store == IF Up THEN View ELSE acked

Promise == INSTANCE DocumentStore WITH store <- Store, up <- Up

\* Under the contract the engine implements the abstract document store: every
\* call takes effect at once and completely, and closing, crashing, reopening
\* and compacting change nothing.
ImplementsDocumentStore == Promise!Spec

-----------------------------------------------------------------------------
(* What a log L says at a position q: what its records 1 .. q - 1 do to a  *)
(* memory that starts empty, brackets aside.                               *)

Founds(r, c, n)       == r.op = "ncl1" /\ r.col = c /\ r.name = n
Closes(r, c)          == r.op = "dco1" /\ r.col = c
Writes(r, c, d)       == r.op = "put1" /\ r.col = c /\ r.id = d
Replaces(r, c, d)     == \/ Closes(r, c)
                         \/ r.op \in {"put1", "del1"} /\ r.col = c /\ r.id = d
Defines(r, c, f, def) == r.op = "idx1" /\ r.col = c /\ r.field = f /\ r.def = def
Undefines(r, c, f)    == \/ Closes(r, c)
                         \/ r.op = "dix1" /\ r.col = c /\ r.field = f

\* Collection c exists, under the name n.
Registered(L, c, n, q) ==
    \E i \in 1 .. q - 1 :
        Founds(L[i], c, n) /\ \A j \in i + 1 .. q - 1 : ~Closes(L[j], c)

\* The current version of document d is the one written at o.
Current(L, c, d, o, q) ==
    /\ o \in 1 .. q - 1
    /\ Writes(L[o], c, d)
    /\ \A j \in o + 1 .. q - 1 : ~Replaces(L[j], c, d)

\* Field f has the index def.
Defined(L, c, f, def, q) ==
    \E i \in 1 .. q - 1 :
        Defines(L[i], c, f, def) /\ \A j \in i + 1 .. q - 1 : ~Undefines(L[j], c, f)

\* The transaction that begins at t is open.
InTxn(L, t, q) ==
    /\ t \in 1 .. q - 1
    /\ L[t].op = "txnb"
    /\ \A j \in t + 1 .. q - 1 : L[j].op # "txnc"

\* No two documents hold the same value under the definition def.
Distinct(L, c, f, def, q) ==
    \A d, e \in DocIds, o, p \in 1 .. q - 1 :
        /\ d # e /\ Current(L, c, d, o, q) /\ Current(L, c, e, p, q)
        /\ Indexable(def, L[o].doc[f])
        => L[o].doc[f] # L[p].doc[f]

\* Replay takes the records before this position and drops the rest, which
\* belong to a transaction that was never committed.
Horizon(L) ==
    IF \E t \in DOMAIN L : InTxn(L, t, Len(L) + 1)
    THEN CHOOSE t \in DOMAIN L : InTxn(L, t, Len(L) + 1)
    ELSE Len(L) + 1

\* What callers can read once the records before q are applied.
Recorded(L, q) ==
    [n \in Names |->
        IF \A c \in ColIds : ~Registered(L, c, n, q) THEN None
        ELSE LET c == CHOOSE c \in ColIds : Registered(L, c, n, q) IN
             [docs |-> [d \in DocIds |->
                  IF \A o \in 1 .. q - 1 : ~Current(L, c, d, o, q) THEN None
                  ELSE L[CHOOSE o \in 1 .. q - 1 : Current(L, c, d, o, q)].doc],
              defs |-> [f \in Fields |->
                  IF \A def \in IndexDefs : ~Defined(L, c, f, def, q) THEN None
                  ELSE CHOOSE def \in IndexDefs : Defined(L, c, f, def, q)]]]

-----------------------------------------------------------------------------
(* The inductive invariant behind OpenSucceeds, ReopenRestores, UniqueKeys *)
(* and ImplementsDocumentStore.                                            *)

\* Replay can apply the record at q after those before it: an ncl1 registers a
\* new collection under a free name, the other records are about a registered
\* one, a dix1 removes an index there is, a unique index meets no duplicates,
\* and transactions do not nest.
Fits(L, q) ==
    /\ L[q].op = "ncl1" =>
          /\ \A j \in 1 .. q - 1 : L[j].op = "ncl1" => L[j].col # L[q].col
          /\ \A c \in ColIds : ~Registered(L, c, L[q].name, q)
    /\ L[q].op \in {"dco1", "put1", "del1", "idx1", "dix1"} =>
          \E n \in Names : Registered(L, L[q].col, n, q)
    /\ L[q].op = "idx1" /\ L[q].def.unique =>
          Distinct(L, L[q].col, L[q].field, L[q].def, q)
    /\ L[q].op = "dix1" =>
          \E def \in IndexDefs : Defined(L, L[q].col, L[q].field, def, q)
    /\ L[q].op = "txnb" => \A t \in 1 .. q - 1 : ~InTxn(L, t, q)
    /\ L[q].op = "txnc" => \E t \in 1 .. q - 1 : InTxn(L, t, q)

WellFormed(L) == \A q \in DOMAIN L : Fits(L, q)

\* Memory holds what the log L says at q: names of collections, offsets of
\* documents and index definitions.
KnowsNames(ids, L, q) ==
    \A c \in ColIds, n \in Names : ids[c] = n <=> Registered(L, c, n, q)

KnowsDocs(offs, L, q) ==
    \A c \in ColIds, d \in DocIds :
        /\ offs[c][d] < q
        /\ \A o \in 1 .. q - 1 : offs[c][d] = o <=> Current(L, c, d, o, q)

KnowsDefs(dfs, L, q) ==
    \A c \in ColIds, f \in Fields, def \in IndexDefs :
        dfs[c][f] = def <=> Defined(L, c, f, def, q)

Remembers(ids, offs, dfs, L, q) ==
    KnowsNames(ids, L, q) /\ KnowsDocs(offs, L, q) /\ KnowsDefs(dfs, L, q)

\* The two maps of collections agree.
NamesAgree == \A n \in Names, c \in ColIds : byName[n] = c <=> byId[c] = n

\* Only registered collections have indexes.
RegisteredDefs == \A c \in ColIds, f \in Fields : byId[c] = None => defs[c][f] = None

\* The log is fit for replay, except while a compaction rewrites it.
LogFits == phase # "compacting" => WellFormed(log)

\* The first record that memory does not reflect yet.
Applied ==
    IF phase = "open" THEN Horizon(log)
    ELSE IF phase # "loading" THEN 1
    ELSE IF redo # 0 THEN redo
    ELSE IF txn # 0 THEN txn ELSE pos

\* Memory is what the log says, during a replay up to where it has got to.
MemoryRecorded == phase # "compacting" => Remembers(byId, primary, defs, log, Applied)

\* The transaction the replay is in is the one open in the log.
ReplayTxn ==
    phase = "loading" =>
        /\ pos <= Len(log) + 1
        /\ txn = 0 => /\ redo = 0
                      /\ \A t \in 1 .. pos - 1 : ~InTxn(log, t, pos)
        /\ txn # 0 => InTxn(log, txn, pos)
        /\ redo # 0 => txn < redo /\ redo <= pos /\ log[pos].op = "txnc"

\* Between sessions, the log says what callers could read.
AckedRecorded == ~Up => acked = Recorded(log, Horizon(log))

\* The places of the log a compaction has not given up.
Unscanned == scan + 1 .. Len(log)
Kept == 1 .. write \cup Unscanned

\* The ncl1 record at i founds collection c, before anything else about it.
FoundedAt(c, i) ==
    /\ Founds(log[i], c, byId[c])
    /\ \A j \in Kept \ {i} : InData(log[j]) /\ log[j].col = c => i < j /\ log[j].op # "ncl1"

\* A compaction keeps the records of every collection and index there is.
CompactionKeeps ==
    phase = "compacting" =>
        /\ \A c \in ColIds : byId[c] # None => \E i \in Kept : FoundedAt(c, i)
        /\ \A c \in ColIds, f \in Fields : defs[c][f] # None =>
              \E i \in Kept : Defines(log[i], c, f, defs[c][f])

\* The records of the batch being written follow its txnb, and its offsets are
\* those of the last version of each document.
BatchTail ==
    batch # None =>
        LET head == Horizon(log) IN
        /\ Len(log) = head + batch.done
        /\ \A k \in 1 .. batch.done :
              LET d == batch.ids[k] IN
              /\ log[head + k].col = batch.col /\ log[head + k].id = d
              /\ log[head + k].op = IF batch.docs[d] = None THEN "del1" ELSE "put1"
        /\ \A d \in DocIds : batch.offs[d] = 0 \/ batch.offs[d] > head
        /\ \A d \in DocIds, o \in head + 1 .. Len(log) :
              batch.offs[d] = o <=> Current(log, batch.col, d, o, Len(log) + 1)

\* A batch writes documents that passed the unique indexes, or deletes
\* documents there are.
BatchChecked ==
    batch # None =>
        \/ /\ \A d \in Members(batch.ids) : batch.docs[d] # None
           /\ AssertUniqueBatch(batch.col, batch.ids, batch.docs)
        \/ \A d \in Members(batch.ids) :
              batch.docs[d] = None /\ primary[batch.col][d] # 0

\* What callers read, or will read, keeps to its unique indexes.
StoreConsistent == \A n \in Names : Store[n] # None => Promise!Consistent(Store[n])

\* The log and the memory of the engine, in every phase.
LogAndMemory ==
    /\ NamesAgree /\ RegisteredDefs /\ LogFits /\ MemoryRecorded /\ ReplayTxn
    /\ AckedRecorded /\ CompactionKeeps /\ BatchTail /\ BatchChecked

\* At every step of every call the file and memory hold the same facts: replay
\* could apply each record of the log after those before it, and would give
\* what callers read now, or read when the last session ended. (loadCollections
\* against every method that appends a record or changes an index.)
ReopenIInv ==
    /\ IndexIInv /\ CompactIInv /\ OpenSucceeds /\ ~RedefinedIndex
    /\ LogAndMemory /\ StoreConsistent

\* No crash interrupts a compaction.
NoCrashInCompact == "crash_in_compact" \notin Faults

=============================================================================
