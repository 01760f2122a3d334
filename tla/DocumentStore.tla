---------------------------- MODULE DocumentStore ----------------------------
(***************************************************************************)
(* What the database promises its callers, without log, offsets, replay or *)
(* compaction: named collections of documents and index definitions, each  *)
(* call atomic, and nothing changed by closing, crashing or reopening.     *)
(* Compacting is a stuttering step here.                                   *)
(***************************************************************************)
CONSTANTS Names, DocIds, Fields, Values, Kind, IndexDefs, None

VARIABLES
    store,  \* name -> None or [docs, defs]
    up      \* a session is open

vars == <<store, up>>

Docs == [Fields -> Values]

Empty == [docs |-> [d \in DocIds |-> None], defs |-> [f \in Fields |-> None]]

\* The constraint of every unique index of a collection.
Consistent(col) ==
    \A f \in Fields, d, e \in DocIds :
        /\ col.defs[f] # None /\ col.defs[f].unique
        /\ d # e /\ col.docs[d] # None /\ col.docs[e] # None
        /\ Kind[col.docs[d][f]] = col.defs[f].type
        => col.docs[d][f] # col.docs[e][f]

Init == store = [n \in Names |-> None] /\ up = FALSE

Create(n) ==
    /\ store[n] = None
    /\ store' = [store EXCEPT ![n] = Empty]

\* One document or a whole batch: inserted, replaced or updated together.
Put(n, S) ==
    /\ store[n] # None /\ S # {}
    /\ \E new \in [S -> Docs] :
          store' = [store EXCEPT ![n].docs =
                       [d \in DocIds |-> IF d \in S THEN new[d] ELSE @[d]]]
    /\ Consistent(store'[n])

Delete(n, S) ==
    /\ store[n] # None /\ S # {}
    /\ \A d \in S : store[n].docs[d] # None
    /\ store' = [store EXCEPT ![n].docs =
                    [d \in DocIds |-> IF d \in S THEN None ELSE @[d]]]

DropCollection(n) ==
    /\ store[n] # None
    /\ store' = [store EXCEPT ![n] = None]

AddIndex(n, f, def) ==
    /\ store[n] # None /\ store[n].defs[f] = None
    /\ store' = [store EXCEPT ![n].defs[f] = def]
    /\ Consistent(store'[n])

RemoveIndex(n, f) ==
    /\ store[n] # None /\ store[n].defs[f] # None
    /\ store' = [store EXCEPT ![n].defs[f] = None]

Call ==
    \E n \in Names :
        \/ Create(n) \/ DropCollection(n)
        \/ \E S \in SUBSET DocIds : Put(n, S) \/ Delete(n, S)
        \/ \E f \in Fields : RemoveIndex(n, f)
        \/ \E f \in Fields, def \in IndexDefs : AddIndex(n, f, def)

\* Only calls change the store: a session that begins finds it as the last
\* one left it, however that one ended.
Next ==
    \/ up /\ Call /\ UNCHANGED up
    \/ up' = ~up /\ UNCHANGED store

Spec == Init /\ [][Next]_vars

=============================================================================
