# Pocket DB: verification

TLA+ specifications of Pocket DB, an embedded document database in TypeScript:
one file, an append-only log of operation records, indexes in memory rebuilt by
replaying the log, and a compaction that rewrites the log in place. TLC checks
the specifications on small instances; TLAPS proves some of the results for all
values of the constants. Paths below are relative to the repository's root (in
`PROJECT.json` they have `src/` in front of them); line numbers are those of
the commit modelled.

## 1. The system

| Component | Code | State | Operations |
|---|---|---|---|
| Engine | `src/api/database.ts`, `src/api/collection.ts` | the log; `collectionsByName`, `collectionsById`; per collection the primary index (id to offset) and its index definitions | `open` (replay), `collection`, `insertOne/Many`, `replaceOne`, `updateOne/Many`, `deleteOne/Many`, `drop`, `createIndex`, `dropIndex`, `stats`, `compact`, `close` |
| Secondary indexes | `src/indexes/*.ts` | per field: value to documents, with offsets of their own | add, remove, rebuild, uniqueness checks, candidates for a query |
| File storage | `src/storage/file-storage.ts`, `operation-record.ts` | the file, `currentOffset`, the read window of a generator | open and header, append, replay, torn-tail recovery, raw moves and truncation of compaction |
| File lock | `src/storage/file-lock.ts`, `src/api/open.ts` | the `.lock` file with the pid of its owner | acquire with stale-lock removal and retries, release |
| Cursor | `src/api/cursor.ts` | candidates captured by `find()`, position, skip and limit counters, bulk range, sort buffer | `next`, `count`, `sort`/`limit`/`skip` |
| Document cache | `src/api/document-cache.ts` | entries in LRU order, byte counter, budget | get, set, invalidate, clear, resize |
| Query language | `src/search/*.ts` | none | compile, evaluate, sort, update operators |
| Codecs | `src/storage/*-operation.ts`, `u29.ts`, `padding.ts`, `encoding/*` | none | payloads and documents to bytes and back |

How they interact. Everything in one process is synchronous and single
threaded: a caller's call runs to its end, except that a cursor is left between
two calls of `next()`. The engine appends through the storage, then changes
memory; collections call back into the database on `drop` (`onDrop`). Cursors
read through the storage by offset, and share the collection's cache with the
write path. `open()` takes the lock, replays the log through the engine, and
gives the lock back if that throws. Processes meet only at the lock file.

What is hard about it:

- **Crashes inside multi-step calls.** A batch is `txnb`, one record per
  document, `txnc`, then memory; a compaction moves records over dead ones in
  the live file; an append is one or more partial writes and perhaps an fsync.
- **Offsets as identity.** The primary index, every secondary index, the cache
  and every live cursor keep file offsets; compaction changes them all.
- **Exceptions in the middle.** A document that cannot be encoded, a `writeSync`
  that fails half way, an fsync that fails after `currentOffset` moved.
- **Two representations.** Uniqueness and indexes see the caller's document,
  the file holds the encoded one.
- **Processes** racing for the lock, dying anywhere, and pids given again.
- **Interleaved reads**: a cursor's snapshot against writes, drops, and a cache
  that is filled by old versions as well as new ones.

`PROJECT.json` lists these as hazards, each at the line where it bites, with the
properties that would catch it going wrong.

## 2. The modules

| Module | Models |
|---|---|
| `DocumentStore` | what a caller is promised: collections of documents and indexes, every call atomic, and each session finds what the last one left, however it ended |
| `PocketDatabase` | the engine over a log of whole records: every call, batches, compaction, crash, replay |
| `Reopening` | from one session of the engine to the next: what a log says to the replay that will read it, the caller contract, the refinement of `DocumentStore`, the invariant behind both |
| `MCPocketDatabase` | instances of both for TLC |
| `PocketDatabaseProofs` | TLAPS proofs about `PocketDatabase`: types, offsets, the compaction's heads, what compaction keeps, statistics, secondary indexes |
| `ReopenProofs` | TLAPS proofs about `Reopening`: `open()` succeeds and gives back everything, unique keys, the engine implements `DocumentStore` |
| `FileStorage` | the log as bytes: framing, torn-tail recovery, durability, the byte moves of compaction |
| `FileStorageProofs` | TLAPS proofs about `FileStorage`: what a session reads, however its writes fail, and what `open()` finds after crashes |
| `FileLock` | the lock file, one step per system call |
| `FileLockProofs` | TLAPS proofs about `FileLock` |
| `DocumentCache` | the cache as a value, one operator per method |
| `Reads` | cursors, cache, writes and compaction of one collection together |
| `MCReads` | its instances for TLC |
| `ReadsProofs` | TLAPS proofs about `Reads` and `DocumentCache` |
| `DocumentValues` | what a field may hold, equality, comparison, the sort order |
| `Query` | `compileQuery` and `evaluateCompiledQuery` |
| `UpdateDocument` | the thirteen update operators and the checks around them |
| `SecondaryIndex` | a number or string index as a value, one operator per method, and its scans |
| `IndexedCollection` | one collection's documents with their indexes: the planner, writes, rebuilds |
| `MCQuery` | its instances for TLC |
| `IndexedCollectionProofs` | TLAPS proofs about `IndexedCollection` |
| `RecursiveFunctions` | lemmas about recursive functions, for the two modules of proofs that meet loops |
| `U29`, `Payloads` | variable-length integers and the payloads of the operations, byte by byte |
| `PayloadProofs` | TLAPS proofs about `U29` and `Payloads` |
| `Encoders` | the JSON, BSON and AMF3 encoders and decoders |
| `Codec` | one operation written, read back and written again |
| `MCCodec` | its instances for TLC |

`PocketDatabase`, `FileStorage`, `IndexedCollection` and `Codec` look at the same
calls at four depths: records in a log, cells of a record, values of a
document, bytes of a payload. What one abstracts the next one details:
`PocketDatabase` calls an index entry a pair of value and document, and
`IndexedCollection` says what makes one; `FileStorage` gives a record a length,
and `Codec` says what is in it.

### PocketDatabase

The log is a sequence of records and a record's offset is its position, so 0
means "no offset" as the header does in the file. Records torn by a crash are
the business of `FileStorage`; here such a crash is a crash before the record.

| Variables | In the code |
|---|---|
| `log` | the file, through `storage.appendOperation` and `readOperations` |
| `phase`, `pos`, `txn`, `redo` | where `open()` and `loadCollections` are (`pendingTransaction` as the positions it covers) |
| `byName`, `byId` | `collectionsByName`, `collectionsById` |
| `primary`, `defs`, `entries` | the primary index, `indexesByField`, and what each secondary index holds |
| `batch` | the locals of `insertMany`, `updateMany`, `deleteMany` between `txnb` and `txnc` |
| `scan`, `write`, `live` | the locals of `compact()` (`live`: what `stats()` counted when it began) |
| `acked` | observer: what callers could read when the last session ended |

A call that writes one record is one action, because nothing can happen inside
it that is not also "before it" or "after it". Batches, compaction and replay
are several. Documents are functions from fields to values; `Kind` says which
index type a value has, `Stored` what is left of it after encoding, which is
where a Date becomes a string. An index created under a definition that some
documents violate is rejected with the effect the code has: other indexes of
the collection are refreshed.

### Reopening

Nothing of it is state. `Registered`, `Current`, `Defined` and `Distinct` say what
the records of a log before a position mean, `InTxn` where a transaction is
open, and `Horizon` how far a replay would get: up to a transaction that was
never committed, or to the end. `Fits` is what `loadCollections` and the methods it
calls demand of the record it applies next. `Recorded` is the store a log says, and
`Store` the one callers see: what they can read in a session, and between sessions
what they could read last. `Promise` is `DocumentStore` with that store.

### FileStorage

A record is at least three cells (identifier, length, checksum). A write puts
some of the remaining cells into the file; `file` is what the operating system
shows and `disk` what is on stable storage. `moved` says that a compaction has
moved records and the file has not been truncated since: a `compact()` may fail
with an I/O error between two moves or inside one (`compact_error`), the session
goes on, and what is then in the file is one of the hazards. A move is a step of
its own when it succeeds, since nobody sees it half done; when it fails
(`MoveError`) or the process dies in it (`CrashInMove`), any part of it may have
been written. A part longer than the gap before the record has overwritten the
record itself, which memory still looks for at its old offset: the observer `cut`
names it. `stats()` reads the log record by record (`Stats`, `StatsRecord`,
`EndStats`), as the replay does, and like it truncates what looks torn; the fault
kind `scan_again` lets it, and `compact()`, follow a failed compaction. The
reader's window is explicit, since `compact()` writes to the file while the
generator reads it. A length
field that is not that of a record may claim any length. A checksum holds
exactly when all cells are those of one record.

### FileLock

Each file system call of `tryAcquire` is a step of its own, and so is the
signal of `isProcessAlive`. A process that releases the lock and ends its call
does so in one step. Two observers: `orphan` (the creator of the lock file
died, which matters when its pid is given again) and `contended` (two
acquisitions have overlapped at some time).

### Reads and DocumentCache

`Reads` composes the cursors with the cache, the write path and compaction for
one collection. A call of a cursor that has begun runs alone to its end, one
candidate a step; between calls the caller may write, delete, drop, resize or
switch off the cache. `snap`, `out` and `done` of a cursor are observers, and
so is `late`: a version that is no longer current was read into the cache in
use. `find()` may plan a full scan, a secondary index or an `_id` list; which
one is a free choice, and every document a plan gives matches what the plan's
source says. `sort()`, `limit()` and `skip()` are chained before the first
`next()`. `Only` and `Total` are recursive functions, where a fold would do for
TLC, so that theorems can be stated about what cursors and caches hold.

### DocumentValues, Query and UpdateDocument

Pure operators, named after the functions they translate. A value is a type and
an order, an array or an object of such values; infinities and NaN are values
of their own, since the code treats them differently in equality, comparison,
JSON text and indexes. `QueryThrows` and `CompileQuery` are the two outcomes of
`compileQuery`; `Evaluate` is `evaluateCompiledQuery`; `Updated` is
`buildUpdatedDocument`, or `Throws`. Folds over entries are recursive functions,
so that theorems can be stated about the modules that use them.

### SecondaryIndex and IndexedCollection

An index is the record of its three structures: `values` (value to documents),
`valuesById` (the reverse map) and `sortedValues`. `Scan` translates `scan()` of
both kinds: operators are read in order until one is of the wrong type (no
candidates at all) or of a kind the index does not know (it gives up, `NoScan`).

| Variables of `IndexedCollection` | In the code |
|---|---|
| `docs` | the current documents, as reading the file gives them |
| `indexes` | `indexesByField` |
| `todo` | what the loops of `insertMany`, `updateMany`, `deleteMany` and `rebuildIndex` have still to apply to memory |
| `building` | the call of `createIndex` or of the refresh after a compaction that is at work |
| `filled` | observer: whether a rebuild of the index was cut short by a read error |

Callers find documents through `Plans`, so a query that an index answers wrongly
makes an update or a deletion miss its documents. In one process nobody sees
the steps of a loop one by one; they are steps because a rebuild may throw
between two of them, and because an index must be sound at each of them.

### U29, Payloads, Encoders and Codec

Bytes are numbers from 0 to 255, buffers are sequences of them, and a decoder
gives a value with the offset behind it, or fails. `U29` has both writers of the
code (`u29.ts` and the buffer of the encoders) and its reader. `Payloads` has
`encode...Payload` and `decode...Payload` of each operation, with the zero
padding and the guess between the two layouts of `idx1`. `Encoders` has AMF3
and BSON in both directions. JSON is the platform's: `Said` is what
`JSON.parse(JSON.stringify(v))` gives. `Codec` chooses a format, writes an
operation, reads it back, and writes the document that came back again.

## 3. The runs

Each line of this table is a TLC run. `MCSession`, `MCReopen` and `VDangling`
use the module `MCPocketDatabase`, `MCStorageSession`, `MCStorageRecovery` and
`VTornCompact` use `FileStorage`, `MCLock` and `VLock` use `FileLock`, `VIndex`
uses `MCQuery`; the others have a module of their name.

| Run | What it shows |
|---|---|
| `MCSession` | any interleaving of calls, batches, failing encoders, crashes, replays and compactions cut anywhere: offsets name the right records (`PrimaryOffsets`), compaction never overwrites a live record (`CompactionHeads`), secondary indexes agree with the primary one (`IndexAgree`), `stats()` predicts what compaction keeps, callers read the same throughout a compaction, and compacting again reclaims nothing |
| `MCReopen` | under the caller contract below, with collections dropped and created again: unique keys, `open()` never refuses the log, it gives back exactly what was acknowledged, and the engine implements `DocumentStore` |
| `MCStorageSession` | partial and failed writes, of appends and of moves, failed fsyncs, crashes, compactions that succeed or fail, scans of `stats()`: an acknowledged record stays readable at its offset, but for one whose own move failed half way (`AckedReadable`), the reader's window never shows stale bytes, no scan meets a torn record (`ScanMeetsNoTornRecord`; no scan follows a failed compaction, see section 6), a compacted file has no gaps |
| `MCStorageRecovery` | strict durability: after a crash or power loss in any append, or a crash in replay or recovery, `open()` finds the acknowledged records and at most the one in flight; it refuses only a file without header or with zeros where a record was. No write errors, and no power loss while something else than an append waits for an fsync |
| `MCLock` | three processes: the lock excludes unless acquisitions overlap; a living process leaves no file behind; an acquisition ends; a stale lock is reclaimed |
| `MCReads` | a cursor yields its snapshot, whatever is written between two `next()`, with sort, skip and limit; `count()` answers for the whole snapshot; the cache keeps its budget and never returns a wrong version |
| `MCQuery` | every way of filling, updating, rebuilding and dropping indexes, with rebuilds that fail: an index holds no document it should not (`IndexSound`) and all it should (`IndexComplete`), a unique index admits no duplicate, planning by an index loses no match (`PlanComplete`), documents keep their `_id`, `distinct()` is exact at its limit, and the sort order contradicts itself nowhere |
| `MCCodec` | documents come back as far as their format can say them (`DocumentsSurvive`), a second trip through the file changes nothing more (`RewriteSettles`), the other operations come back exactly, those of the old `idx1` layout included (`OperationsSurvive`) |
| `VDangling`, `VLock`, `VTornCompact`, `VIndex` | each refutes one statement of the documentation; see section 6 |

Each property of a passing run has a mutant, a plausible bug in the modelled
code under which the run finds the property violated (`PROJECT.json`,
`mutants`; the mutated operators stand next to the originals).

### Bounds

- `MCSession`: one collection id, two documents, one field, two values, plain
  and unique indexes, six records, batches of two. Six records are enough for
  a collection, an index, a batch of two with its brackets, and one more; or a
  dead record between live ones, before and after them.
- `MCReopen`: two collection ids under one name, so that a name is dropped and
  created again with records of both in the log. No crash inside a compaction
  there: what that does to bytes is a question for `FileStorage`, and on
  whole records it is in `MCSession`.
- `MCStorageSession`, `MCStorageRecovery`: records of three to five cells, so a
  record can be shorter or longer than the remains it overwrites, a window of
  two cells (less than any record), four and three records.
- `MCLock`: three processes (two that race and one that owned the lock before)
  and the code's three rounds. Two processes could not show a third taking the
  lock between the judgment and the removal of the other two.
- `MCReads`: two documents of sizes 1 and 3, budgets 2 and 3 (one size fits
  neither with the other, and one is too large for the smaller budget), one
  cursor next to the reads of `updateOne`, bulk reading after one single read,
  and chains with limit, skip and sort. Lists of ids are left to the theorems; they
  are candidates in another order, and may repeat one.

- `MCQuery`: two documents, `_id` and two fields; five documents to insert that
  bring numbers, an infinity, NaN, strings in an order that code units and
  `localeCompare` see differently, and an array; twenty queries, one for each
  way an operator meets an index (answered, of another type, given up, under
  `$or`); eleven updates that use all thirteen operators; number indexes both
  plain and unique, a unique string index. Arrays grow to one element and
  numbers to two, enough to pop, pull and add what is there already. Two
  documents are enough for a duplicate, for a bucket of two, and for a rebuild
  cut between two documents.
- `MCCodec`: every kind of value, alone, next to another, and inside an array
  and an object; integers on both sides of AMF3's limits (2^28) and at the
  32-bit ones; names of lengths on both sides of 64 (AMF3's lengths) and 128
  (those of the payloads); an array of eleven for a key of two digits; three trips.
  The borders at three and four bytes are left to `U29RoundTrip`, which holds
  for every number.

Bounds are guards of the actions (`MaxLog`, `MaxBatch`, `MaxRecs`, `MaxCells`,
`MaxFile`, `MaxCaches`, `MaxItems`, `MaxNumber`, `MaxTrips`) and are named constants. Symmetry is used in runs whose
properties are invariants, action properties and the refinement, which is a
safety property; `MCLock`, which checks liveness, has none. Deadlock is checked in every run but `VLock`, whose
processes really stop when all have died and no pid is given again.

### Fairness

Only `MCLock` needs any: weak fairness of `Advance(p)`, the next step of a call
already in progress. `acquire` is synchronous, so a process that lives goes on
with it; nothing makes a process start a call, close or stay alive. `Die(p)`
disables `Advance(p)`, so a dead process owes nothing.

`AcquireTerminates` holds because the rounds are counted, against processes that
create and remove the file for ever. `StaleLockReclaimed` excludes overlapping
acquisitions and a pid that is given again, in both of which the code may
legitimately report the lock as taken.

### What callers must keep to

Some properties hold only for careful callers. The contracts are part of the
model and named; section 6 says what happens without them.

- `CarefulSpec` (in `Reopening`, for `MCReopen`): a session that finds an unfinished transaction in
  the log compacts before it writes (a caller cannot see that it must), and an index is not dropped and created with
  another definition while the log still holds the old `idx1`.
- `Reads`: no cursor is alive when `compact()` is called, which
  `docs/compact.md:153-158` demands; with a cache on, no cursor has read an old
  version into it.
- `contended` (`FileLock`): exclusion is claimed while no two acquisitions have
  ever overlapped (see `VLock`).
- `IndexedCollection`: `PlanComplete` speaks of documents whose values are of the
  type of the index that answers (`Covered`); `docs/indexes.md` tells callers so.
  It also leaves out infinite bounds, which is not documented (see `VIndex`).

## 4. The proofs

### The lock

`FileLockProofs` proves, for any set of processes and any number of rounds,

- `LockTypeCorrect`: `Spec => []TypeOK`;
- `LockExcludes`: `Spec => []ExclusiveUnlessContended`;
- `LockNeverLeaks`: `Spec => []NoLeak`, contended or not.

The invariant is `IInv == TypeOK /\ RoundsLeft /\ (~contended => SerialIInv)`.
Mutual exclusion is not inductive: one must know that the holder's pid is in the
lock file (`OwnFile`), that an acquirer about to judge has read that pid, that no
acquirer is about to remove the file of a holder (`Judged`), and that the holder
is alive (`Running`), so that `isProcessAlive` says so. `RoundsLeft` keeps
`attempt` in its type.

### The engine

`PocketDatabaseProofs` proves, for any names, collections,
documents, fields, values, index definitions and bounds,

- `TypeCorrect`: `Spec => []TypeOK`;
- `PrimaryOffsetsCorrect`: every offset of the primary index is that of a `put1`
  record of that document, in a session, in replay, and at every point of a
  compaction;
- `CompactionNeverOverwritesLive`: `write <= scan`, and no live offset lies
  between them;
- `CompactionKeepsView`: no step of a compaction changes what callers can read;
- `CompactionIsMinimal`: what it leaves is live, every record of it;
- `StatsAreExact`: the records `stats()` counts live before a compaction are those
  the compaction keeps;
- `IndexesAgree`: `Spec => []IndexAgree`, if `IndexablesKept`.

The first three are one induction, with `IInv` (in `PocketDatabase`, with its
parts). `PrimaryOffsets` fails without `CompactionHeads`, since a move overwrites
the record at `write + 1`; `CompactionHeads` fails without `PrimaryOffsets`, since
the record at `scan + 1` is moved only if the primary index of its own document
points there. `RegisteredDocs` (an unregistered collection has no documents) is
needed because compaction drops the records of such a collection, `BatchOffsets`
because `txnc` copies the offsets of the batch into the primary index, and
`LoaderInLog` because replay applies the record it points at.

`CompactIInv` adds what a compaction in progress has done: every record below the
write head is live *where it now stands* (`KeptAreLive`), and the count of
`stats()` is the write head plus the live records ahead of the scan
(`LiveCount`). The second is a statement about cardinalities that each move and
each record skipped must keep.

`IndexIInv` adds that a secondary index is at every moment what filling it from
the file would give (`IndexContents`), and for a batch between `txnb` and `txnc`
that the offset noted for a document is that of the document to be indexed
(`BatchRecords`). Its hypothesis `IndexablesKept` says of the encoder that a
value an index holds is stored as it is. It is needed: writes index the caller's
document and replay indexes the stored one, and JSON makes a string of a Date
(section 6). `MCSession` is within it.

### The engine from session to session

`ReopenProofs` proves, for any names, collections, documents, fields, values, index
definitions and bounds, of callers who keep to the contract (`CarefulSpec`),

- `LogAndMemoryTogether`: `CarefulSpec => []ReopenIInv`;
- `OpenAlwaysSucceeds`: `CarefulSpec => []OpenSucceeds`;
- `ReopeningRestores`: `CarefulSpec => ReopenRestores`;
- `UniqueKeysCorrect`: `CarefulSpec => []UniqueKeys`;
- `EngineImplementsStore`: `CarefulSpec => ImplementsDocumentStore`.

None of these is inductive, since a replay can only give back what memory held if
the log says the same as memory all along. `ReopenIInv` says so, part by part:

- `LogFits`: every record can be applied after those before it (`WellFormed`):
  documents and indexes are those of registered collections, a `dix1` removes an
  index there is, a unique index meets no duplicates, transactions do not nest;
- `MemoryRecorded`: `byId`, `primary` and `defs` are what the log says at `Applied`,
  the first record memory does not reflect yet: in a session the open
  transaction or the end, in a replay the record it has come to;
- `ReplayTxn`: the transaction a replay is in is the one open in the log;
- `AckedRecorded`: between sessions the log says, up to its `Horizon`, what callers
  could read;
- `BatchTail` and `BatchChecked`: the records of a batch in progress lie behind its
  `txnb`, its offsets are those of the last version of each document, and what is
  still to be written has passed the unique indexes;
- `CompactionKeeps`: in a compaction the log says nothing (copies and originals
  overlap), but what is kept has the `ncl1` of every collection, before all else about
  it, and the definition of every index;
- `StoreConsistent`, `NamesAgree`, `RegisteredDefs`, and what single sessions need
  (`IndexIInv`, `CompactIInv`).

TLC finds `ReopenIInv` true in all 769,099 states of `MCReopen`, when it is added to
the invariants of that run.

The heart is one lemma, `EffectKnown`, by cases over the kinds of records:
applying a record that fits moves memory one record along the log. It serves twice,
since a call appends a record and then applies it to memory, and a replay applies
it later. A commit is the same for the records of the transaction one by
one, and a crash in a batch leaves a log whose `Horizon` is where the batch began.
For compaction the order of records has to be argued about again: the copies
keep their order, `ncl1` comes first (`FoundingFirst`), one `put1` is left of each
document, and so the log that remains says the same and fits (`CompactedRecords`).
`LoadFail` is never enabled under the invariant (`NeverRefused`). The refinement is
then step by step: each call that returns is one step of `DocumentStore`, the
commit of a batch is one, and every other action is a stutter.

They assume `IndexablesKept`, as above, and `NoCrashInCompact`, that a compaction
is not cut short (what a crash leaves of one is a question of bytes, see `FileStorage`
and section 6).

### The file

`FileStorageProofs` proves, for records of any length, a window of any size, and any
number of records,

- `FileInvariant`, `FileTypes`: `IInv` and `TypeOK`;
- `RecordsAreReadable`: `Spec => []AckedReadable`;
- `WindowsAreFresh`: `Spec => []WindowFresh`;
- `ScansMeetWholeRecords`: `Spec => []ScanMeetsNoTornRecord`;
- `CompactedFileIsPacked`: `Spec => CompactionPacks`;
- `RecoveryInvariant`, `OpenFindsAcked` (`Spec => RecoversAcked`) and
  `OpenRefusesOnlyDamage` (`Spec => []RefusesOnlyDamage`).

The invariant of the first five is the shape of the file. Up to `currentOffset` the
records memory refers to lie apart from each other, whole but for the one in `cut`
(`Laid`); as long as no compaction has failed after moving something, whole records
tile all of that part (`Tiled`); what lies behind is free to be anything. Only a
failed compaction sets `cut` (`CutByFailure`). That a part of a move damages no record
but its own is the heart of it: its target lies behind the packed copies, and its
end before the end of the record. In a compaction there are three
parts: copies packed up to the write head, a gap of which nothing is said, and
from the scan on the file as it was (`CompactScan`). `WindowFresh` is inductive
only because the write head never passes the scan and the window begins there.
They assume `OneCompaction`: in the session, neither `compact()` nor `stats()` follows
a `compact()` that failed when it had moved something. Without it
`ScanMeetsNoTornRecord` and `AckedReadable` are false (section 6).

The invariant of recovery, `RecoveryIInv`, speaks of the disk as well: outside a
compaction the acknowledged records are packed in `file`, and in `disk` when
nothing waits to be flushed and durability is strict, and behind them is only
what one write in flight has left, cells of that record or zeros (`Remnant`).
From that a replay yields the acknowledged records and perhaps the one in flight
(`YieldsAcked`). `OnlyCrashes` is assumed: crashes at any point outside a
compaction's moves, power losses if durability is strict and nothing but an append
waits to be flushed (no `power_loss_dirty`), no I/O errors. Under it `RefusesOnlyDamage`
still allows a refusal, of a file whose header was never written or in which a power
loss left zeros: it excludes every other. A failed
append leaves remains that a later one covers in part, and both conclusions are
then false (section 6).

### Reading while writing

`ReadsProofs` proves, for any documents, contents, filters, sizes, budgets, chains
and any number of cursors and caches,

- `ReadsInvariant`, `ReadsTypes`: `IInv` and `TypeOK`;
- `CachesKeepToBudget`: `Spec => []CacheWithinBudget`;
- `CachedReadsAreCurrent`: `Spec => []CacheIsCurrent`;
- `CursorsYieldSnapshot`: `Spec => []CursorYieldsSnapshot`;
- `CountsAreOfSnapshot`: `Spec => CountIsSnapshot`.

What cursors yield depends on what the cache answers, and that on the index, so it
is one induction again. `PrimaryInFile`: the index names each document once, by
a record that holds it. `CacheContents`: an entry of the cache in use whose offset
is current holds the current version; as long as no old version has been read
(`late`) every entry holds what its document is now, which is what survives a
compaction that changes all offsets and does not touch the cache. `HoldsSnapshot`
and `Serves`: for each cursor alive, the file, its bulk buffer and its cache (which
may be out of use by now) still have the versions `find()` saw; writes append, so
they can only add. `Stands` relates the counters to the documents passed: the
first `skip` of them are skipped and the others are in `out`, in order.
`CallInProgress` says what a sort or a `count()` has found so far.

`Stands` has a case that the proof forced and TLC then confirmed: the fast path for
`skip` on a query that matches all counts every skip as done at once, also when
there are fewer documents than that (`src/api/cursor.ts:183-209`), so "skipped" is
not the number of documents passed, but only at the end of the candidates.

The lemmas below it are about the operators: `Only` keeps order and elements
(`OnlyEmbeds`), `Total` of a sequence without one element (`TotalWithoutOne`), each
method of the cache (`SetEffect`, `EvictEffect`, ...), `Sorted` is a sequence of the
same length (`SortedEffect`), and the positions `compact()` gives are those of the
packed records (`RankEffect`, `CompactEffect`). Induction over `Nat` is done by
the least element of a set of counterexamples (`MinExists`, `InductionUpTo`, and
`RecursionExists` for loops, in `RecursiveFunctions`), since the library's
induction theorem is beyond the installed provers.

They assume `CarefulCallers`, that nobody compacts after an old version was read
into the cache in use (section 6 says what happens then), but for `ReadsTypes` and
`CachesKeepToBudget`. These hold of all callers, by an invariant of their own:
`Shaped` is what a stale cache leaves of `IInv`. It keeps the snapshot in the file and
in the buffer, from which a document is decoded on a miss, and gives up what
the cache, and so a cursor, answers. TLC finds it true in the 2,924,444 states of
`MCReads` with `Habits = {"compact_after_late_read"}`.

### Queries and indexes

`IndexedCollectionProofs` proves, for any documents, fields, queries, updates and
index definitions, and whatever finite set of ids,

- `TypeCorrect`: `Spec => []TypeOK`;
- `IndexesSound`: `Spec => []IndexSound`, also in the middle of a rebuild and
  after one that failed;
- `IndexesComplete`: `Spec => []IndexComplete`;
- `UniqueValuesKept`: `Spec => []UniqueValues`;
- `IdsKept`: `Spec => []IdKept`;
- `PlansComplete`: `Spec => []PlanComplete`;
- `SortsAreOrdered`: `Spec => []SortIsOrder`;
- `DistinctValuesExact`: `Spec => []DistinctExact`.

The heart of the first three is `Inverted`: `Add` and `Remove` keep the buckets,
the reverse map and `sortedValues` inverse to each other (lemmas of their own).
Without it `Remove` would look for the old value in the wrong bucket and
`IndexSound` would not be inductive. `IndexComplete` only speaks of times when no
rebuild is at work, so its invariant also says what a rebuild has still to do:
a document that is missing from an index is in `todo` (`IndexFilled`).
`UniqueValues` is not inductive, since a batch checks its documents before it applies
any: the invariant (`VersionsApart`) says that all versions of documents, current or
about to be applied, are apart, and that a new unique index is kept only when it was
filled whole without meeting a duplicate. `IdKept`
needs the same of documents on their way (`IdsMatch`), and that an update puts
`_id` back. `PlanComplete` follows from `IndexSound` and `IndexComplete` by an
argument about `Scan` alone: if a document matches every operator and the
index holds its value, the value is among the keys scanned (`ScanKeepsMatch`),
through every way a scan may stop early.

The last two need no invariant but the types: they hold of any documents there may
be. For the sort, numbers get a tier, below, between or above the infinities, and
`SetOrder` shows that the rank of a type, the tier and the value decide in that
order; it needs that an infinity is one of the two, which `Scalars` says. For
`distinct()`, equality is an equivalence but for NaN (`EqualityLaws`), and the loop
keeps a set of documents with one for each value found (`Tells`): the classes are as
many as those, because each lies in a class of its own (`ClassesApart`) and, unless
the limit was met, every class has one.

### Payloads

`PayloadProofs` proves, for bytes and numbers of any size the format allows,

- `WritersAgree`: `WriteU29` of the encoders and `EncodeU29` of the payloads give
  the same bytes;
- `U29RoundTrip`: a U29 anywhere in a buffer decodes to the number it was made
  of and to the offset behind it;
- `NewCollectionRead`, `DropIndexRead`, `PutDocumentRead`, `CreateIndexRead`: decoding
  a payload, padding included, gives back what was encoded; a new `idx1` is
  never taken for one of the old layout.

### What the proofs rest on

Assumed of the constants: `ValuesAssumption`, `BoundsAssumption`,
`FaultsAssumption`, `NoneAssumption` and `AbsentAssumption` of `PocketDatabase`; `RetriesAssumption` and
`NoneAssumption` of `FileLock`; `LengthsAssumption`, `ChunkAssumption`,
`FlagsAssumption`, `BoundsAssumption` and `NoneAssumption` of `FileStorage`;
`BudgetsAssumption` and `SizeAssumption` of `DocumentCache`; `ValuesAssumption`,
`ReadsAssumption` and `NoneAssumption` of `Reads`; `CollectionAssumption`,
`QueriesAssumption`, `FiniteAssumption` and `NoneAssumption` of `IndexedCollection`. They give the
shapes of the constants (for queries, of what compiling them gives) and say that
`None`, `Keep` and `NoScan` are none of the values. TLC evaluates them in each
run. `SizeAssumption`, that every document takes at least one byte of the budget,
is what `estimateDocumentBytes` gives (`src/api/document-cache.ts:43-46`);
`FiniteAssumption`, that there are finitely many ids, holds because a string has a
longest length, and only `DistinctValuesExact`, which counts, uses it.

Some theorems have a hypothesis besides, each a formula over constants
that the passing runs of their modules satisfy: `IndexablesKept`, `NoCrashInCompact`,
`OneCompaction`, `OnlyCrashes`, `CarefulCallers`; and those of `ReopenProofs` are
about `CarefulSpec`. Each is there because the code does not do what the theorem
says without it, and sections 3 and 6 give the counterexamples.

Only model-checked: everything in `Encoders` and `Codec`, where a nested value is
read by recursive operators, which the proof system does not take; and liveness
(`AcquireTerminates`, `StaleLockReclaimed`), which is beyond it, as is `ENABLED`.
That `Sorted` sorts is its definition; that the comparison of `sort.ts` is an order
is `SortsAreOrdered`.

## 5. What is not modelled

- Collisions of random ids: `createCollectionId` avoids only live ids, so a new
  collection may get the id of a dropped one with probability 2^-32.
- In `PocketDatabase` what encoding does to a document is `Stored`; the formats
  are in `Encoders` and `Codec`, apart from the log.
- Of the encoders: JSON's text, the bits of a double and of a 64-bit integer
  (eight bytes that say which number it is), lone surrogates, keys that look
  like integers (which JavaScript moves to the front) and `__proto__`, and AMF3
  strings of 2^28 bytes and more.
- Undetected corruption: a checksum is exact.
- What indexes hold after a `compact()` that failed (secondary indexes keep the
  offsets of before); I/O errors during `open()`; a failing append below a
  collection call, `createIndex` among them (`src/api/collection.ts:504`: the
  index works until the next open). Failing appends are in `FileStorage`, failing
  reads inside a rebuild in `IndexedCollection`.
- A pid write that fails because the disk is full, a lock file that cannot be removed
  (`unlinkSync` fails silently), and processes of several
  users: `isProcessAlive` also answers false for a live process it may not
  signal (`EPERM`, `src/storage/file-lock.ts:79-87`), so the lock of another
  user's process looks stale. In the model every process may signal every other.
- Of queries: logic inside logic, regular expressions beyond the set of strings
  they accept, values more than one level deep, the order of the candidates.
  `{_id: {$in: [a, a]}}` gives its document twice, counts it twice and deletes it
  twice in the code; `PrimaryScan` gives it once.
- A cursor that is given another limit, skip or sort after its first `next()`.
- Objects shared by reference. `applyPutDocument` puts the very object into the
  cache that was encoded (`src/api/collection.ts:715`), with a Date still a
  Date, so a read through the cache and one from the file may differ.
- Power loss while the file is dirty (`power_loss_dirty`, a fault kind of
  `FileStorage` that no run switches on). After a crash, a record found whole
  at the end of the file was never flushed; a power loss before the next fsync
  may take it away again after callers have seen it. After a compaction the
  same holds of every move. `RecoversAcked` is claimed without it.

## 6. Where code and documentation disagree

Shown by a run each (quotes and details in `PROJECT.json`, `findings`):

- `VDangling`: an encoder that throws inside a batch leaves a `txnb` in the log;
  writes acknowledged later in that session vanish at the next open.
- `VLock`: a lock file read between its creation and the pid write is taken for
  stale, and two processes hold the lock.
- `VTornCompact`: a crash in a compaction leaves the tail of an old record behind
  a copy; torn-tail recovery then truncates live records.
- `VIndex`: a number index answers a range with an infinite bound with nothing
  (`src/indexes/number-index.ts:181`): with an index on `n`,
  `{n: {$gt: 0, $lt: Infinity}}` finds no document, and without one it finds all
  positive ones. ADR 0006 and `docs/indexes.md:193` promise a superset.

Shown by the modules with these constants, and not kept as runs:

- Crash inside a batch, open, another batch: the next `open()` throws "nested
  transaction begin" (`src/api/database.ts:265`, against
  `docs/adr/0005-*.md:43-47`). `MCPocketDatabase`, `Spec`, `Values = {x}`,
  `IndexDefs <- UniqueOnly`, `Faults = {"crash"}`, `MaxLog = 5`, `MaxBatch = 1`,
  invariant `OpenSucceeds`.
- A Date and its JSON string pass a unique index as different values and are
  stored as the same one (`src/api/collection.ts:162`, against
  `docs/indexes.md:123-124`). `MCPocketDatabase`, `Spec`, `Values = {Date, Iso}`,
  `IndexDefs <- UniqueOnly`, `Faults = {}`, `MaxLog = 5`, `MaxBatch = 0`,
  invariant `UniqueKeys`.
- An old cursor puts an old version back into the cache, and after a compaction
  it answers for the new one (`src/api/cursor.ts:353`, against
  `docs/cache.md:142-145`). `MCReads`, `DocIds = {d1}`, `Budgets = {3}`, `Filters = {}`,
  `IdLists = {}`, `Chains <- OneFind`, `Habits = {"compact_after_late_read"}`,
  invariant `CursorYieldsSnapshot`.
- AMF3 ends an object by an empty key, so a document that has one does not come
  back (`src/storage/encoding/amf3-encoder.ts:149`, `:292`, against
  `document-encoder.ts:4-6`): `{"": 1}` loses it, `{a: {"": null}, b: 1}` loses `b`,
  and `{a: {"": 1}}` leaves a `put1` that makes the next `open()` throw. `MCCodec`,
  `Formats = {"amf3"}`, invariant `DeepEqual`.
- A `compact()` that failed when it had moved something leaves the tail of an old
  record behind a copy, and the next `stats()` or `compact()` of the session takes
  it for a torn tail and truncates live records (`docs/storage.md:97-98`: they
  "never see a torn tail"; ADR 0019:69-73; the comment at
  `src/storage/file-storage.ts:59-61`). `FileStorage`, constants of
  `MCStorageRecovery` but `Faults = {"compact_error", "scan_again"}`, invariant
  `ScanMeetsNoTornRecord` or `AckedReadable`.
- A failed append whose remains a shorter one covers in part, then a crash:
  `open()` refuses the file (ADR 0019 says that a crash leaves one incomplete
  record at the end). `FileStorage`, `Lengths = {3, 8}`,
  `Faults = {"write_error", "crash"}`, invariant `RefusesOnlyDamage`.

Met while reading or modelling:

- A rebuild that fails on reading a document leaves the new index registered and
  partly filled (`src/api/collection.ts:756-778`, `:572-597`); a unique index that
  came to be so may hold duplicates that no later rebuild reports, against
  `docs/indexes.md:124`. `IndexComplete` and `UniqueValues` say so (`filled`).
- `{n: {$gte: Infinity}}` never matches an infinite value, since two infinities
  do not compare (`src/search/evaluate-query.ts:79-89`); equality of objects
  depends on the order of their keys; strings compare by `localeCompare` in a
  query and by code units in a sort.
- `{a: {$not: {b: 1}}}` is compiled to the negation of an equality, as in `Query`
  (`CompileNegated`), where `docs/query.md:124-125` says that it throws.
- A failed `compact()` may damage the record it was moving, when a part of the move had
  reached into the record (`src/storage/file-storage.ts:184-186`, `:339-345`): it is
  acknowledged and then readable nowhere. `AckedReadable` excludes it by `cut`.
- BSON cuts a key at a NUL and makes null of undefined; AMF3 and BSON make an
  empty object of a Date; no format keeps the sign of -0. `Kept` of `Codec` lists
  what each format keeps.
- An old `idx1` whose name is the one character U+0000 or U+0001 may be read in
  the new layout.

- `src/api/database.ts:171-174` keeps every `idx1` of an indexed field, also those
  of an earlier definition, while the `dix1` between them goes: the compacted log
  has two `idx1` with different definitions and `open()` throws. `docs/compact.md:15`
  says "index still exists on the collection". The contract of `MCReopen` excludes it.
- A crash in a compaction may also leave bytes that `open()` refuses, or stale
  `del1`/`dco1` records that act on documents moved before them;
  `docs/compact.md:131-136` promises that the next open rebuilds "exactly as before".
- Moves and truncations of a compaction are not fsynced in strict mode
  (`src/storage/file-storage.ts:184-191`), and strict durability is described at
  `docs/storage.md:127-129` for appends only.
- After a failed fsync the record is in the log, memory does not know it, and the
  next open shows it (`src/storage/file-storage.ts:156`).
- A crash between the creation of the file and its header leaves a file that
  `open()` refuses for ever (`src/storage/file-storage.ts:91-107`), although the
  ADR says a crash costs at most the record in flight.

## 7. Plan

Done: the engine, the abstract store, the file, the lock, cursors and cache,
queries, updates and the contents of indexes, the payloads and encoders; proofs
about all of them but the encoders, and that the engine implements the abstract
store.

Left, in this order: processes that may not signal each other (`EPERM`) in `FileLock`;
a failing append in `PocketDatabase`; cursors given another chain after they have
begun.
