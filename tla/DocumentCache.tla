---------------------------- MODULE DocumentCache ----------------------------
(***************************************************************************)
(* The hot-document cache (api/document-cache.ts) as a value: its entries  *)
(* from least to most recently used (the Map's insertion order), the byte  *)
(* counter and the budget.  An operator returns the cache that the method  *)
(* of the same name leaves behind.  Hit, miss and eviction counts are left *)
(* out: nothing reads them.                                                *)
(***************************************************************************)
EXTENDS Integers, Sequences, SequencesExt

CONSTANTS
    DocIds,      \* document identifiers
    Values,      \* contents a document may have
    SizeOf(_),   \* sizeOf: the bytes a content is estimated to take
    Budgets      \* the values given for maxBytes

ASSUME BudgetsAssumption == Budgets \subseteq Nat \ {0}

ASSUME SizeAssumption == \A v \in Values : SizeOf(v) \in Nat \ {0}

CacheEntries(offsets) == [id : DocIds, off : offsets, doc : Values, bytes : Nat]

Caches(offsets) ==
    [entries : Seq(CacheEntries(offsets)), bytes : Nat, max : Budgets]

NewCache(max) == [entries |-> << >>, bytes |-> 0, max |-> max]

\* The elements of s that are in S, in their order: SelectSeq as a recursive
\* function, which the provers can look into.
Only(s, S) ==
    LET kept[n \in 0 .. Len(s)] ==
            IF n = 0 THEN << >>
            ELSE IF s[n] \in S THEN Append(kept[n - 1], s[n]) ELSE kept[n - 1]
    IN kept[Len(s)]

Total(entries) ==
    LET sum[n \in 0 .. Len(entries)] ==
            IF n = 0 THEN 0 ELSE sum[n - 1] + entries[n].bytes
    IN sum[Len(entries)]

Has(c, id) == \E i \in DOMAIN c.entries : c.entries[i].id = id

Lookup(c, id) == c.entries[CHOOSE i \in DOMAIN c.entries : c.entries[i].id = id]

Others(c, id) == Only(c.entries, {e \in Range(c.entries) : e.id # id})

\* get finds the version the caller expects.
Hit(c, id, off) == Has(c, id) /\ Lookup(c, id).off = off

\* get, on a hit: the entry becomes the most recently used one.
Touch(c, id) == [c EXCEPT !.entries = Append(Others(c, id), Lookup(c, id))]

Invalidate(c, id) ==
    IF Has(c, id)
    THEN [c EXCEPT !.entries = Others(c, id), !.bytes = @ - Lookup(c, id).bytes]
    ELSE c

Clear(c) == [c EXCEPT !.entries = << >>, !.bytes = 0]

\* The n least recently used entries are gone.
Shrunk(c, n) ==
    [c EXCEPT !.entries = SubSeq(@, n + 1, Len(@)),
              !.bytes = @ - Total(SubSeq(c.entries, 1, n))]

\* The fewest evictions that make room, or all of them.
EvictToFit(c, incoming) ==
    LET enough(n) == n = Len(c.entries) \/ Shrunk(c, n).bytes + incoming <= c.max
    IN Shrunk(c, CHOOSE n \in 0 .. Len(c.entries) :
                     enough(n) /\ \A k \in 0 .. n - 1 : ~enough(k))

SetMaxBytes(c, max) == EvictToFit([c EXCEPT !.max = max], 0)

Put(c, id, off, doc) ==
    [c EXCEPT !.entries = Append(@, [id |-> id, off |-> off, doc |-> doc,
                                     bytes |-> SizeOf(doc)]),
              !.bytes = @ + SizeOf(doc)]

\* Mutant: the bytes of the version replaced stay counted.
SetUncounted(c, id, off, doc) ==
    LET rest == [c EXCEPT !.entries = Others(c, id)] IN
    IF SizeOf(doc) > c.max THEN rest
    ELSE Put(EvictToFit(rest, SizeOf(doc)), id, off, doc)

\* Mutant: a document that cannot fit is refused before the older version of
\* it is removed.
SetKeepsOld(c, id, off, doc) ==
    IF SizeOf(doc) > c.max THEN c
    ELSE Put(EvictToFit(Invalidate(c, id), SizeOf(doc)), id, off, doc)

\* The version cached before goes first, also when the new one cannot fit.
Set(c, id, off, doc) ==
    IF SizeOf(doc) > c.max THEN Invalidate(c, id)
    ELSE Put(EvictToFit(Invalidate(c, id), SizeOf(doc)), id, off, doc)

=============================================================================
