-------------------------------- MODULE Reads --------------------------------
(***************************************************************************)
(* Reading one collection while it is written: the cursors of              *)
(* api/cursor.ts over the snapshot find() takes, the document cache they   *)
(* share with the write path of api/collection.ts, and compact().          *)
(*                                                                         *)
(* A document is an id and a content, a number that sort() orders by.  The *)
(* file is the collection's put1, del1 and dco1 records, and an offset a   *)
(* position in it.  The program is single threaded: between two calls of a *)
(* cursor the caller may write, but a call that has begun (call # None)    *)
(* runs alone until it returns, one candidate a step.                      *)
(***************************************************************************)
EXTENDS DocumentCache, FiniteSets

CONSTANTS
    Cursors,        \* cursors the caller holds
    Filters,        \* the sets of contents a query may match
    IdLists,        \* the _id $in lists of queries
    Chains,         \* calls chained to find(): [sort, limit, skip]
    EscalateAfter,  \* MAX_PER_RECORD_READS_BEFORE_BULK_ESCALATION
    Habits,         \* what the caller does besides: a subset of AllHabits
    MaxFile,        \* bound: records written
    MaxCaches,      \* bound: times the cache is switched on
    None            \* no cursor, no call, no cache, no limit, not decided yet

AllHabits == {"compact_after_late_read"}

SCAN_PRELOAD_THRESHOLD == 2

ASSUME ValuesAssumption == Values \subseteq Nat /\ Filters \subseteq SUBSET Values

ASSUME ReadsAssumption ==
    /\ Chains \subseteq [sort : BOOLEAN, limit : Nat \cup {None}, skip : Nat]
    /\ IdLists \subseteq Seq(DocIds)
    /\ EscalateAfter \in Nat \ {0} /\ Habits \subseteq AllHabits
    /\ MaxFile \in Nat /\ MaxCaches \in Nat

VARIABLES
    file,     \* the records: [id, doc]; doc is None for a del1, both for a dco1
    primary,  \* the primary index in insertion order: [id, off]
    dropped,  \* the collection has been dropped
    caches,   \* every DocumentCache ever created
    cache,    \* the one in use, 0 when caching is off
    cursors,  \* what each cursor holds, or None
    call,     \* the next(), sort collection or count() running, or None
    late      \* observer: an old version was read into the cache in use

vars == <<file, primary, dropped, caches, cache, cursors, call, late>>

-----------------------------------------------------------------------------

Offsets == 1 .. MaxFile

Candidates == [id : DocIds, off : Offsets]

\* all is the empty query {}; otherwise the contents that match.
Queries ==
    [all : {FALSE}, accepts : Filters] \cup [all : {TRUE}, accepts : {Values}]

\* evaluateCompiledQuery
Evaluate(q, doc) == doc \in q.accepts

Found(id, doc) == [id |-> id, doc |-> doc]

\* Array.prototype.sort: ascending, and equal keys keep their order.
Sorted(s) ==
    LET before(i, j) == s[i].doc < s[j].doc \/ (s[i].doc = s[j].doc /\ i < j)
        at(k) == CHOOSE i \in DOMAIN s :
                     Cardinality({j \in DOMAIN s : before(j, i)}) = k - 1
    IN [k \in DOMAIN s |-> s[at(k)]]

OffsetOf(id) ==
    IF \E i \in DOMAIN primary : primary[i].id = id
    THEN primary[CHOOSE i \in DOMAIN primary : primary[i].id = id].off
    ELSE 0

Exists(id) == OffsetOf(id) # 0

\* primaryIndex.set: a Map keeps the place of a key it already has.
WithOffset(id, o) ==
    IF Exists(id)
    THEN [i \in DOMAIN primary |->
             IF primary[i].id = id THEN [id |-> id, off |-> o] ELSE primary[i]]
    ELSE Append(primary, [id |-> id, off |-> o])

UseCache(c) == IF cache = 0 THEN caches ELSE [caches EXCEPT ![cache] = c]

Init ==
    /\ file = << >> /\ primary = << >> /\ dropped = FALSE
    /\ caches = << >> /\ cache = 0
    /\ cursors = [c \in Cursors |-> None]
    /\ call = None
    /\ late = FALSE

Free == call = None

-----------------------------------------------------------------------------
(* Reading one candidate.                                                  *)

Loaded(cands) ==
    LET offs == {cands[i].off : i \in DOMAIN cands}
        lo == CHOOSE o \in offs : \A p \in offs : o <= p
        hi == CHOOSE o \in offs : \A p \in offs : o >= p
    IN [start |-> lo, recs |-> SubSeq(file, lo, hi)]

NoRange == [start |-> 0, recs |-> << >>]

\* resolveBulkRange: what this.bulkRange is afterwards; None is undefined.
ResolveBulkRange(cur, force) ==
    IF cur.range # None THEN cur.range
    ELSE IF Len(cur.cands) < SCAN_PRELOAD_THRESHOLD THEN NoRange
    ELSE IF ~force /\ cur.limit # None THEN None
    ELSE Loaded(cur.cands)

\* The document of a record, from the buffer or from the file.
Decoded(range, off) ==
    IF range \in {None, NoRange} THEN file[off].doc
    ELSE range.recs[off - range.start + 1].doc

\* readCandidateDocument: the document, and the cursor and its cache after it.
ReadCandidate(cur, cand, force) ==
    LET c == caches[cur.cache]
        range == ResolveBulkRange(cur, force)
        doc == Decoded(range, cand.off)
    IN IF cur.cache # 0 /\ Hit(c, cand.id, cand.off)
       THEN [doc |-> Lookup(c, cand.id).doc, cur |-> cur,
             caches |-> [caches EXCEPT ![cur.cache] = Touch(c, cand.id)]]
       ELSE [doc |-> doc, cur |-> [cur EXCEPT !.range = range],
             caches |-> IF cur.cache = 0 THEN caches
                        ELSE [caches EXCEPT ![cur.cache] = Set(c, cand.id, cand.off, doc)]]

\* A version that is no longer current goes through the cache in use.
LateRead(cur, cand) ==
    cur.cache # 0 /\ cur.cache = cache /\ OffsetOf(cand.id) # cand.off

-----------------------------------------------------------------------------
(* Writes.                                                                 *)

Writing == Free /\ ~dropped /\ Len(file) < MaxFile

Untouched == UNCHANGED <<dropped, cache, cursors, call, late>>

\* applyPutDocument, with the cache as the rest of the call has left it.
ApplyPut(id, doc, before) ==
    LET o == Len(file) + 1 IN
    /\ file' = Append(file, Found(id, doc))
    /\ primary' = WithOffset(id, o)
    /\ caches' = IF cache = 0 THEN caches
                 ELSE [before EXCEPT ![cache] = Set(@, id, o, doc)]

\* insertOne and replaceOne: nothing is read.  Batches count as their documents
\* one by one.
WriteOne(id, doc) ==
    /\ Writing
    /\ ApplyPut(id, doc, caches)
    /\ Untouched

\* updateOne: the document is read first, by a cursor of its own.
UpdateOne(id, doc) ==
    /\ Writing /\ Exists(id)
    /\ LET own == [cands |-> <<[id |-> id, off |-> OffsetOf(id)]>>,
                   cache |-> cache, limit |-> 1, range |-> None]
       IN ApplyPut(id, doc, ReadCandidate(own, own.cands[1], FALSE).caches)
    /\ Untouched

\* deletePrimaryIndexEntry
DeleteOne(id) ==
    /\ Writing /\ Exists(id)
    /\ file' = Append(file, Found(id, None))
    /\ primary' = Only(primary, {e \in Range(primary) : e.id # id})
    /\ caches' = UseCache(Invalidate(caches[cache], id))
    /\ Untouched

\* drop: the cache is emptied but stays in use.
Drop ==
    /\ Writing
    /\ dropped' = TRUE
    /\ file' = Append(file, Found(None, None))
    /\ primary' = << >>
    /\ caches' = UseCache(Clear(caches[cache]))
    /\ UNCHANGED <<cache, cursors, call, late>>

\* compact() keeps the current version of each document and moves it down; the
\* cache is not touched.  No cursor may be alive, and under the contract no
\* cursor has read an old version into the cache.
Compact ==
    /\ Free
    /\ \A c \in Cursors : cursors[c] = None
    /\ late => "compact_after_late_read" \in Habits
    /\ LET kept == {primary[i].off : i \in DOMAIN primary}
           rank(o) == Cardinality({p \in kept : p <= o})
       IN /\ file' = [k \in 1 .. Cardinality(kept) |->
                         file[CHOOSE o \in kept : rank(o) = k]]
          /\ primary' = [i \in DOMAIN primary |->
                            [primary[i] EXCEPT !.off = rank(@)]]
    /\ UNCHANGED <<dropped, caches, cache, cursors, call, late>>

EnableCache(max) ==
    /\ Free /\ ~dropped
    /\ IF cache = 0
       THEN /\ Len(caches) < MaxCaches
            /\ caches' = Append(caches, NewCache(max))
            /\ cache' = Len(caches) + 1
            /\ late' = FALSE
       ELSE /\ caches' = [caches EXCEPT ![cache] = SetMaxBytes(@, max)]
            /\ UNCHANGED <<cache, late>>
    /\ UNCHANGED <<file, primary, dropped, cursors, call>>

DisableCache ==
    /\ Free /\ cache # 0
    /\ cache' = 0
    /\ UNCHANGED <<file, primary, dropped, caches, cursors, call, late>>

-----------------------------------------------------------------------------
(* Cursors.                                                                *)

\* What the plan may choose as candidates: a full scan, the documents a
\* secondary index holds for the query, or the ids of an _id $in list, which
\* may name a document twice.
Plans(q) ==
    LET listed(ids) == [i \in DOMAIN ids |-> [id |-> ids[i], off |-> OffsetOf(ids[i])]]
    IN {primary} \cup
       IF q.all THEN {}
       ELSE {Only(primary, {e \in Range(primary) : Evaluate(q, file[e.off].doc)})} \cup
            {listed(Only(ids, {id \in DocIds : Exists(id)})) : ids \in IdLists}

\* find(q), and sort(), limit() and skip() chained to it before any next().
Find(c, q, cands, chain) ==
    /\ Free /\ cursors[c] = None
    /\ cursors' = [cursors EXCEPT ![c] =
          [query |-> q, cands |-> cands, cache |-> cache, sort |-> chain.sort,
           limit |-> chain.limit, skip |-> chain.skip, index |-> 0, skipped |-> 0,
           returned |-> 0, range |-> None, reads |-> 0, sorted |-> None,
           snap |-> [i \in DOMAIN cands |-> file[cands[i].off].doc],
           out |-> << >>, done |-> FALSE]]
    /\ UNCHANGED <<file, primary, dropped, caches, cache, call, late>>

\* The caller lets go of a cursor, exhausted or not.
Release(c) ==
    /\ Free /\ cursors[c] # None
    /\ cursors' = [cursors EXCEPT ![c] = None]
    /\ UNCHANGED <<file, primary, dropped, caches, cache, call, late>>

\* Mutant: every query takes the fast path.
SkippedFastAlways(cur) ==
    IF cur.index = 0 /\ cur.skipped = 0 /\ cur.skip > 0
    THEN [cur EXCEPT !.index = IF cur.skip < Len(cur.cands) THEN cur.skip
                               ELSE Len(cur.cands),
                     !.skipped = cur.skip]
    ELSE cur

\* Mutant: no Math.min.
SkippedFastTooFar(cur) ==
    IF cur.index = 0 /\ cur.skipped = 0 /\ cur.skip > 0 /\ cur.query.all
    THEN [cur EXCEPT !.index = cur.skip, !.skipped = cur.skip]
    ELSE cur

\* applyMatchAllSkipFastPath
SkippedFast(cur) ==
    IF cur.index = 0 /\ cur.skipped = 0 /\ cur.skip > 0 /\ cur.query.all
    THEN [cur EXCEPT !.index = IF cur.skip < Len(cur.cands) THEN cur.skip
                               ELSE Len(cur.cands),
                     !.skipped = cur.skip]
    ELSE cur

Started(c, op) == call' = [cur |-> c, op |-> op, at |-> 0, found |-> << >>]

\* next() of an unsorted cursor, or the first next() of a sorted one.
NextBegins(c) ==
    /\ Free /\ cursors[c] # None
    /\ IF cursors[c].sort /\ cursors[c].sorted = None
       THEN Started(c, "collect") /\ UNCHANGED cursors
       ELSE /\ Started(c, "next")
            /\ cursors' = [cursors EXCEPT ![c] = IF @.sort THEN @ ELSE SkippedFast(@)]
    /\ UNCHANGED <<file, primary, dropped, caches, cache, late>>

Running(c, op) == call # None /\ call.cur = c /\ call.op = op

\* The documents a next() chooses from: the sorted buffer or the candidates.
Length(cur) == IF cur.sort THEN Len(cur.sorted) ELSE Len(cur.cands)

AtLimit(cur) == cur.limit # None /\ cur.returned >= cur.limit

NextReturnsNull(c) ==
    /\ Running(c, "next")
    /\ cursors[c].index >= Length(cursors[c]) \/ AtLimit(cursors[c])
    /\ cursors' = [cursors EXCEPT ![c].done = TRUE]
    /\ call' = None
    /\ UNCHANGED <<file, primary, dropped, caches, cache, late>>

\* A matching document: skipped, or returned to the caller.
Matched(cur, d) ==
    IF cur.skipped < cur.skip
    THEN [cur EXCEPT !.skipped = @ + 1]
    ELSE [cur EXCEPT !.returned = @ + 1, !.out = Append(@, d)]

\* One round of the loop of nextSorted.
NextFromBuffer(c) ==
    LET cur == [cursors[c] EXCEPT !.index = @ + 1] IN
    /\ Running(c, "next") /\ cursors[c].sort
    /\ cursors[c].index < Length(cursors[c]) /\ ~AtLimit(cursors[c])
    /\ cursors' = [cursors EXCEPT ![c] = Matched(cur, cur.sorted[cur.index])]
    /\ call' = IF cur.skipped < cur.skip THEN call ELSE None
    /\ UNCHANGED <<file, primary, dropped, caches, cache, late>>

\* The read has been counted, and the rest is read in bulk if there were many.
Counted(cur) ==
    LET more == [cur EXCEPT !.reads = @ + 1] IN
    IF cur.range # None THEN cur
    ELSE IF more.reads < EscalateAfter THEN more
    ELSE [more EXCEPT !.range = ResolveBulkRange(cur, TRUE)]

\* One round of the loop of next: a candidate is read and judged.
NextReads(c) ==
    LET cand == cursors[c].cands[cursors[c].index + 1]
        read == ReadCandidate(cursors[c], cand, cursors[c].limit = None)
        cur == Counted([read.cur EXCEPT !.index = @ + 1])
        match == Evaluate(cur.query, read.doc)
    IN
    /\ Running(c, "next") /\ ~cursors[c].sort
    /\ cursors[c].index < Length(cursors[c]) /\ ~AtLimit(cursors[c])
    /\ cursors' = [cursors EXCEPT ![c] =
                      IF match THEN Matched(cur, Found(cand.id, read.doc)) ELSE cur]
    /\ call' = IF match /\ cur.skipped >= cur.skip THEN None ELSE call
    /\ caches' = read.caches
    /\ late' = (late \/ LateRead(cursors[c], cand))
    /\ UNCHANGED <<file, primary, dropped, cache>>

\* Mutant: count() goes on where next() has stopped.
CountBeginsAtIndex(c) ==
    /\ Free /\ cursors[c] # None /\ ~cursors[c].query.all
    /\ call' = [cur |-> c, op |-> "count", at |-> cursors[c].index, found |-> << >>]
    /\ UNCHANGED <<file, primary, dropped, caches, cache, cursors, late>>

\* count(); a match-all query is answered without reading.
CountBegins(c) ==
    /\ Free /\ cursors[c] # None /\ ~cursors[c].query.all
    /\ Started(c, "count")
    /\ UNCHANGED <<file, primary, dropped, caches, cache, cursors, late>>

Scanning(c) == Running(c, "collect") \/ Running(c, "count")

\* One round of the loops of collectAllMatching and count.
ScanReads(c) ==
    LET cand == cursors[c].cands[call.at + 1]
        read == ReadCandidate(cursors[c], cand, TRUE)
    IN
    /\ Scanning(c)
    /\ call.at < Len(cursors[c].cands)
    /\ cursors' = [cursors EXCEPT ![c] = read.cur]
    /\ call' = [call EXCEPT
                   !.at = @ + 1,
                   !.found = IF Evaluate(cursors[c].query, read.doc)
                             THEN Append(@, Found(cand.id, read.doc)) ELSE @]
    /\ caches' = read.caches
    /\ late' = (late \/ LateRead(cursors[c], cand))
    /\ UNCHANGED <<file, primary, dropped, cache>>

\* The buffer is sorted, and next() goes on with it.
CollectEnds(c) ==
    /\ Running(c, "collect") /\ call.at = Len(cursors[c].cands)
    /\ cursors' = [cursors EXCEPT ![c].sorted = Sorted(call.found)]
    /\ Started(c, "next")
    /\ UNCHANGED <<file, primary, dropped, caches, cache, late>>

CountReturns(c) ==
    /\ Running(c, "count") /\ call.at = Len(cursors[c].cands)
    /\ call' = None
    /\ UNCHANGED <<file, primary, dropped, caches, cache, cursors, late>>

-----------------------------------------------------------------------------

Next ==
    \/ \E id \in DocIds, doc \in Values : WriteOne(id, doc) \/ UpdateOne(id, doc)
    \/ \E id \in DocIds : DeleteOne(id)
    \/ Drop \/ Compact
    \/ \E max \in Budgets : EnableCache(max)
    \/ DisableCache
    \/ \E c \in Cursors, q \in Queries, chain \in Chains :
          \E cands \in Plans(q) : Find(c, q, cands, chain)
    \/ \E c \in Cursors :
          \/ Release(c)
          \/ NextBegins(c) \/ NextReads(c) \/ NextFromBuffer(c) \/ NextReturnsNull(c)
          \/ CountBegins(c) \/ ScanReads(c) \/ CollectEnds(c) \/ CountReturns(c)

Spec == Init /\ [][Next]_vars

-----------------------------------------------------------------------------

Docs == [id : DocIds, doc : Values]

Recs == Docs \cup [id : DocIds \cup {None}, doc : {None}]

Ranges == [start : Offsets \cup {0}, recs : Seq(Recs)]

CursorStates ==
    [query : Queries, cands : Seq(Candidates), cache : Nat,
     sort : BOOLEAN, limit : Nat \cup {None}, skip : Nat,
     index : Nat, skipped : Nat, returned : Nat,
     range : Ranges \cup {None}, reads : Nat, sorted : Seq(Docs) \cup {None},
     snap : Seq(Values), out : Seq(Docs), done : BOOLEAN]

Calls ==
    [cur : Cursors, op : {"next", "collect", "count"}, at : Nat, found : Seq(Docs)]

ASSUME NoneAssumption ==
    None \notin Ranges /\ None \notin Seq(Docs) /\ None \notin CursorStates
    /\ None \notin Calls

TypeOKCursor(cur) ==
    /\ cur \in CursorStates
    /\ cur.skipped \in 0 .. cur.skip
    /\ cur.reads \in 0 .. EscalateAfter
    /\ cur.index \in 0 .. (IF cur.sorted = None THEN Len(cur.cands) ELSE Len(cur.sorted))
    /\ cur.returned = Len(cur.out)

\* Every variable has the shape its comment says, and no cursor points past the
\* end of its candidates or of its sorted documents.
TypeOK ==
    /\ file \in Seq(Recs)
    /\ primary \in Seq(Candidates)
    /\ dropped \in BOOLEAN /\ late \in BOOLEAN
    /\ caches \in Seq(Caches(Offsets)) /\ cache \in 0 .. Len(caches)
    /\ cursors \in [Cursors -> CursorStates \cup {None}]
    /\ \A c \in Cursors : cursors[c] # None =>
          TypeOKCursor(cursors[c]) /\ cursors[c].cache <= Len(caches)
    /\ call \in Calls \cup {None}

\* The documents among the first n candidates that match, in their order, as
\* they were when find() was called.
MatchesAmong(cur, n) ==
    Only([i \in 1 .. n |-> Found(cur.cands[i].id, cur.snap[i])],
         {d \in Docs : Evaluate(cur.query, d.doc)})

SnapshotMatches(cur) == MatchesAmong(cur, Len(cur.cands))

\* What the caller of the cursor is promised.
Promised(cur) ==
    LET all == IF cur.sort THEN Sorted(SnapshotMatches(cur)) ELSE SnapshotMatches(cur)
        stop == IF cur.limit # None /\ cur.skip + cur.limit < Len(all)
                THEN cur.skip + cur.limit ELSE Len(all)
    IN SubSeq(all, cur.skip + 1, stop)

\* A cursor yields what matched when find() was called, in its old versions,
\* whatever is written, deleted, dropped or cached between two calls of next(),
\* and ends only when it has yielded all of it.
CursorYieldsSnapshot ==
    \A c \in Cursors : cursors[c] # None =>
        LET cur == cursors[c] IN
        /\ IsPrefix(cur.out, Promised(cur))
        /\ cur.done => cur.out = Promised(cur)

\* count() answers for the whole snapshot, wherever next() stands.
CountIsSnapshot ==
    [][\A c \in Cursors :
         Running(c, "count") /\ call' = None =>
             Len(call.found) = Len(SnapshotMatches(cursors[c]))]_vars

WithinBudget(c) ==
    /\ c.bytes = Total(c.entries) /\ c.bytes <= c.max
    /\ \A i, j \in DOMAIN c.entries : c.entries[i].id = c.entries[j].id => i = j

\* The byte counter is what the entries take, stays within the budget, and no
\* document is cached twice, through any mixture of reads, writes and resizing.
CacheWithinBudget == \A k \in DOMAIN caches : WithinBudget(caches[k])

\* A read of a current document never finds another version of it under its
\* offset in the cache, although compaction gives offsets again.
CacheIsCurrent ==
    cache # 0 =>
        \A i \in DOMAIN primary :
            LET e == primary[i] IN
            Hit(caches[cache], e.id, e.off) =>
                Lookup(caches[cache], e.id).doc = file[e.off].doc

-----------------------------------------------------------------------------
(* The inductive invariant behind the properties above, for callers who do *)
(* not compact after a late read.                                          *)

CarefulCallers == "compact_after_late_read" \notin Habits

\* The primary index names each document once, by a record that holds it.
PrimaryInFile ==
    /\ \A i \in DOMAIN primary :
          /\ primary[i].off \in DOMAIN file
          /\ file[primary[i].off] \in Docs /\ file[primary[i].off].id = primary[i].id
    /\ \A i, j \in DOMAIN primary : primary[i].id = primary[j].id => i = j

\* The candidates are still in the file as find() saw them, and in the buffer if
\* there is one.
HoldsSnapshot(records, cur) ==
    /\ Len(cur.snap) = Len(cur.cands)
    /\ \A i \in DOMAIN cur.cands :
          LET o == cur.cands[i].off IN
          /\ o \in DOMAIN records /\ records[o] = Found(cur.cands[i].id, cur.snap[i])
          /\ cur.range \notin {None, NoRange} =>
                /\ o - cur.range.start + 1 \in DOMAIN cur.range.recs
                /\ cur.range.recs[o - cur.range.start + 1] = records[o]

\* The cache holds no other version under the offsets of the candidates.
Serves(c, cur) ==
    \A e \in Range(c.entries), i \in DOMAIN cur.cands :
        e.id = cur.cands[i].id /\ e.off = cur.cands[i].off => e.doc = cur.snap[i]

\* What a cursor has chosen from so far.
Passed(cur) ==
    IF ~cur.sort THEN MatchesAmong(cur, cur.index)
    ELSE IF cur.sorted = None THEN << >> ELSE SubSeq(cur.sorted, 1, cur.index)

Exhausted(cur) ==
    (cur.sort => cur.sorted # None) /\ (cur.index = Length(cur) \/ AtLimit(cur))

\* The first skip documents of those are skipped, the others returned.
Stands(cur) ==
    /\ cur.sorted # None => cur.sort /\ cur.sorted = Sorted(SnapshotMatches(cur))
    /\ cur.sort /\ cur.sorted = None => cur.index = 0
    /\ IF cur.skipped < cur.skip
       THEN cur.skipped = Len(Passed(cur)) /\ cur.out = << >>
       ELSE /\ cur.out = SubSeq(Passed(cur), cur.skip + 1, Len(Passed(cur)))
            /\ \/ cur.skip <= Len(Passed(cur))
               \/ ~cur.sort /\ cur.index = Len(cur.cands)
    /\ cur.limit # None => Len(cur.out) <= cur.limit
    /\ cur.done => Exhausted(cur)
    /\ cur.range = None => cur.reads < EscalateAfter

CursorsStand ==
    \A c \in Cursors : cursors[c] # None =>
        LET cur == cursors[c] IN
        /\ HoldsSnapshot(file, cur) /\ Stands(cur)
        /\ cur.cache # 0 => Serves(caches[cur.cache], cur)

\* A scan has found what matches among the candidates it has read.
CallInProgress ==
    call # None =>
        LET cur == cursors[call.cur] IN
        /\ cur # None
        /\ call.op = "next" /\ cur.sort => cur.sorted # None
        /\ call.op = "collect" => cur.sort /\ cur.sorted = None
        /\ call.op # "next" =>
              /\ call.at \in 0 .. Len(cur.cands)
              /\ call.found = MatchesAmong(cur, call.at)

\* An entry of the cache in use is of no use or right; until a late read every
\* entry holds what its document is now, wherever compaction has moved it.
CacheContents ==
    cache # 0 =>
        \A e \in Range(caches[cache].entries) :
            /\ OffsetOf(e.id) = e.off => file[e.off].doc = e.doc
            /\ ~late => Exists(e.id) /\ file[OffsetOf(e.id)].doc = e.doc

\* All of the above together.
IInv ==
    /\ TypeOK /\ PrimaryInFile /\ CacheWithinBudget
    /\ CursorsStand /\ CallInProgress /\ CacheContents

=============================================================================
