---------------------------- MODULE ReopenProofs ----------------------------
(***************************************************************************)
(* Proofs about the engine across sessions, for every value of the         *)
(* constants: what a replay of the log gives back, and that the engine     *)
(* implements the abstract document store.                                 *)
(***************************************************************************)
EXTENDS PocketDatabaseProofs, Reopening

-----------------------------------------------------------------------------
(* What a log says, one record further.                                    *)

\* A collection exists after a record if it did and the record does not drop
\* it, or if the record registers it.
LEMMA RegisteredNext ==
    ASSUME NEW L, NEW c, NEW n, NEW q \in Nat, q # 0
    PROVE  Registered(L, c, n, q + 1) <=>
               \/ Registered(L, c, n, q) /\ ~Closes(L[q], c)
               \/ Founds(L[q], c, n)
  <1>1. ASSUME Registered(L, c, n, q + 1), ~Founds(L[q], c, n)
        PROVE  Registered(L, c, n, q) /\ ~Closes(L[q], c)
    <2>1. PICK i \in 1 .. q : /\ Founds(L[i], c, n)
                              /\ \A j \in i + 1 .. q : ~Closes(L[j], c)
      BY <1>1 DEF Registered
    <2>2. i # q
      BY <1>1, <2>1
    <2>3. i \in 1 .. q - 1 /\ q \in i + 1 .. q /\ \A j \in i + 1 .. q - 1 : j \in i + 1 .. q
      BY <2>1, <2>2
    <2>4. QED
      BY <2>1, <2>3 DEF Registered
  <1>2. ASSUME Registered(L, c, n, q), ~Closes(L[q], c)
        PROVE  Registered(L, c, n, q + 1)
    <2>1. PICK i \in 1 .. q - 1 : /\ Founds(L[i], c, n)
                                  /\ \A j \in i + 1 .. q - 1 : ~Closes(L[j], c)
      BY <1>2 DEF Registered
    <2>2. i \in 1 .. q /\ \A j \in i + 1 .. q : j \in i + 1 .. q - 1 \/ j = q
      BY <2>1
    <2>3. \A j \in i + 1 .. q : ~Closes(L[j], c)
      BY <1>2, <2>1, <2>2
    <2>4. (q + 1) - 1 = q
      OBVIOUS
    <2>5. QED
      BY <2>1, <2>2, <2>3, <2>4 DEF Registered
  <1>3. ASSUME Founds(L[q], c, n)
        PROVE  Registered(L, c, n, q + 1)
    <2>1. q \in 1 .. q /\ (q + 1) - 1 = q /\ q + 1 .. q = {}
      OBVIOUS
    <2>2. QED
      BY <1>3, <2>1 DEF Registered
  <1>4. QED
    BY <1>1, <1>2, <1>3

\* The current version of a document is the one of the record, or the former
\* one if the record does not replace it.
LEMMA CurrentNext ==
    ASSUME NEW L, NEW c, NEW d, NEW o, NEW q \in Nat, q # 0
    PROVE  Current(L, c, d, o, q + 1) <=>
               \/ Current(L, c, d, o, q) /\ ~Replaces(L[q], c, d)
               \/ o = q /\ Writes(L[q], c, d)
  <1>1. ASSUME Current(L, c, d, o, q + 1), o # q
        PROVE  Current(L, c, d, o, q) /\ ~Replaces(L[q], c, d)
    <2>1. /\ o \in 1 .. q /\ Writes(L[o], c, d)
          /\ \A j \in o + 1 .. q : ~Replaces(L[j], c, d)
      BY <1>1 DEF Current
    <2>2. o \in 1 .. q - 1 /\ q \in o + 1 .. q /\ \A j \in o + 1 .. q - 1 : j \in o + 1 .. q
      BY <1>1, <2>1
    <2>3. QED
      BY <2>1, <2>2 DEF Current
  <1>2. ASSUME Current(L, c, d, o, q), ~Replaces(L[q], c, d)
        PROVE  Current(L, c, d, o, q + 1)
    <2>1. /\ o \in 1 .. q - 1 /\ Writes(L[o], c, d)
          /\ \A j \in o + 1 .. q - 1 : ~Replaces(L[j], c, d)
      BY <1>2 DEF Current
    <2>2. o \in 1 .. q /\ \A j \in o + 1 .. q : j \in o + 1 .. q - 1 \/ j = q
      BY <2>1
    <2>3. \A j \in o + 1 .. q : ~Replaces(L[j], c, d)
      BY <1>2, <2>1, <2>2
    <2>4. (q + 1) - 1 = q
      OBVIOUS
    <2>5. QED
      BY <2>1, <2>2, <2>3, <2>4 DEF Current
  <1>3. ASSUME o = q, Writes(L[q], c, d)
        PROVE  Current(L, c, d, o, q + 1)
    <2>1. q \in 1 .. q /\ (q + 1) - 1 = q /\ q + 1 .. q = {}
      OBVIOUS
    <2>2. QED
      BY <1>3, <2>1 DEF Current
  <1>4. Current(L, c, d, o, q + 1) => Writes(L[o], c, d)
    BY DEF Current
  <1>5. QED
    BY <1>1, <1>2, <1>3, <1>4

\* An index is there after a record if it was and the record does not remove
\* it, or if the record creates it.
LEMMA DefinedNext ==
    ASSUME NEW L, NEW c, NEW f, NEW def, NEW q \in Nat, q # 0
    PROVE  Defined(L, c, f, def, q + 1) <=>
               \/ Defined(L, c, f, def, q) /\ ~Undefines(L[q], c, f)
               \/ Defines(L[q], c, f, def)
  <1>1. ASSUME Defined(L, c, f, def, q + 1), ~Defines(L[q], c, f, def)
        PROVE  Defined(L, c, f, def, q) /\ ~Undefines(L[q], c, f)
    <2>1. PICK i \in 1 .. q : /\ Defines(L[i], c, f, def)
                              /\ \A j \in i + 1 .. q : ~Undefines(L[j], c, f)
      BY <1>1 DEF Defined
    <2>2. i # q
      BY <1>1, <2>1
    <2>3. i \in 1 .. q - 1 /\ q \in i + 1 .. q /\ \A j \in i + 1 .. q - 1 : j \in i + 1 .. q
      BY <2>1, <2>2
    <2>4. QED
      BY <2>1, <2>3 DEF Defined
  <1>2. ASSUME Defined(L, c, f, def, q), ~Undefines(L[q], c, f)
        PROVE  Defined(L, c, f, def, q + 1)
    <2>1. PICK i \in 1 .. q - 1 : /\ Defines(L[i], c, f, def)
                                  /\ \A j \in i + 1 .. q - 1 : ~Undefines(L[j], c, f)
      BY <1>2 DEF Defined
    <2>2. i \in 1 .. q /\ \A j \in i + 1 .. q : j \in i + 1 .. q - 1 \/ j = q
      BY <2>1
    <2>3. \A j \in i + 1 .. q : ~Undefines(L[j], c, f)
      BY <1>2, <2>1, <2>2
    <2>4. (q + 1) - 1 = q
      OBVIOUS
    <2>5. QED
      BY <2>1, <2>2, <2>3, <2>4 DEF Defined
  <1>3. ASSUME Defines(L[q], c, f, def)
        PROVE  Defined(L, c, f, def, q + 1)
    <2>1. q \in 1 .. q /\ (q + 1) - 1 = q /\ q + 1 .. q = {}
      OBVIOUS
    <2>2. QED
      BY <1>3, <2>1 DEF Defined
  <1>4. QED
    BY <1>1, <1>2, <1>3

\* A transaction is open after a record if it was and the record does not
\* commit it, or if the record begins it.
LEMMA InTxnNext ==
    ASSUME NEW L, NEW t, NEW q \in Nat, q # 0
    PROVE  InTxn(L, t, q + 1) <=>
               \/ InTxn(L, t, q) /\ L[q].op # "txnc"
               \/ t = q /\ L[q].op = "txnb"
  <1>1. ASSUME InTxn(L, t, q + 1), t # q
        PROVE  InTxn(L, t, q) /\ L[q].op # "txnc"
    <2>1. /\ t \in 1 .. q /\ L[t].op = "txnb"
          /\ \A j \in t + 1 .. q : L[j].op # "txnc"
      BY <1>1 DEF InTxn
    <2>2. t \in 1 .. q - 1 /\ q \in t + 1 .. q /\ \A j \in t + 1 .. q - 1 : j \in t + 1 .. q
      BY <1>1, <2>1
    <2>3. QED
      BY <2>1, <2>2 DEF InTxn
  <1>2. ASSUME InTxn(L, t, q), L[q].op # "txnc"
        PROVE  InTxn(L, t, q + 1)
    <2>1. /\ t \in 1 .. q - 1 /\ L[t].op = "txnb"
          /\ \A j \in t + 1 .. q - 1 : L[j].op # "txnc"
      BY <1>2 DEF InTxn
    <2>2. t \in 1 .. q /\ \A j \in t + 1 .. q : j \in t + 1 .. q - 1 \/ j = q
      BY <2>1
    <2>3. \A j \in t + 1 .. q : L[j].op # "txnc"
      BY <1>2, <2>1, <2>2
    <2>4. (q + 1) - 1 = q
      OBVIOUS
    <2>5. QED
      BY <2>1, <2>2, <2>3, <2>4 DEF InTxn
  <1>3. ASSUME t = q, L[q].op = "txnb"
        PROVE  InTxn(L, t, q + 1)
    <2>1. q \in 1 .. q /\ (q + 1) - 1 = q /\ q + 1 .. q = {}
      OBVIOUS
    <2>2. QED
      BY <1>3, <2>1 DEF InTxn
  <1>4. InTxn(L, t, q + 1) => L[t].op = "txnb"
    BY DEF InTxn
  <1>5. QED
    BY <1>1, <1>2, <1>3, <1>4

-----------------------------------------------------------------------------
(* What a log says at a position depends on the records before it only.    *)

\* Which collections exist depends on the records so far only.
LEMMA RegisteredSame ==
    ASSUME NEW L, NEW M, NEW q \in Nat, \A i \in 1 .. q - 1 : M[i] = L[i], NEW c, NEW n
    PROVE  Registered(M, c, n, q) <=> Registered(L, c, n, q)
  <1>1. \A i \in 1 .. q - 1 : \A j \in i + 1 .. q - 1 : j \in 1 .. q - 1
    OBVIOUS
  <1>2. QED
    BY <1>1 DEF Registered

\* So do the current versions of documents ...
LEMMA CurrentSame ==
    ASSUME NEW L, NEW M, NEW q \in Nat, \A i \in 1 .. q - 1 : M[i] = L[i],
           NEW c, NEW d, NEW o
    PROVE  Current(M, c, d, o, q) <=> Current(L, c, d, o, q)
  <1>1. \A i \in 1 .. q - 1 : \A j \in i + 1 .. q - 1 : j \in 1 .. q - 1
    OBVIOUS
  <1>2. QED
    BY <1>1 DEF Current

\* ... the indexes ...
LEMMA DefinedSame ==
    ASSUME NEW L, NEW M, NEW q \in Nat, \A i \in 1 .. q - 1 : M[i] = L[i],
           NEW c, NEW f, NEW def
    PROVE  Defined(M, c, f, def, q) <=> Defined(L, c, f, def, q)
  <1>1. \A i \in 1 .. q - 1 : \A j \in i + 1 .. q - 1 : j \in 1 .. q - 1
    OBVIOUS
  <1>2. QED
    BY <1>1 DEF Defined

\* ... the open transaction ...
LEMMA InTxnSame ==
    ASSUME NEW L, NEW M, NEW q \in Nat, \A i \in 1 .. q - 1 : M[i] = L[i], NEW t
    PROVE  InTxn(M, t, q) <=> InTxn(L, t, q)
  <1>1. \A i \in 1 .. q - 1 : \A j \in i + 1 .. q - 1 : j \in 1 .. q - 1
    OBVIOUS
  <1>2. QED
    BY <1>1 DEF InTxn

\* ... and whether the current documents are distinct.
LEMMA DistinctSame ==
    ASSUME NEW L, NEW M, NEW q \in Nat, \A i \in 1 .. q - 1 : M[i] = L[i],
           NEW c, NEW f, NEW def, Distinct(L, c, f, def, q)
    PROVE  Distinct(M, c, f, def, q)
  <1>1. \A d \in DocIds, o \in 1 .. q - 1 : Current(M, c, d, o, q) <=> Current(L, c, d, o, q)
    BY CurrentSame
  <1>2. QED
    BY <1>1 DEF Distinct

\* So does whether a record fits.
LEMMA FitsSame ==
    ASSUME NEW L, NEW M, NEW q \in Nat, q # 0, \A i \in 1 .. q : M[i] = L[i], Fits(L, q)
    PROVE  Fits(M, q)
  <1>1. M[q] = L[q] /\ \A i \in 1 .. q - 1 : i \in 1 .. q /\ M[i] = L[i]
    OBVIOUS
  <1>2. \A c, n : Registered(M, c, n, q) <=> Registered(L, c, n, q)
    BY <1>1, RegisteredSame
  <1>3. \A c, f, def : Defined(M, c, f, def, q) <=> Defined(L, c, f, def, q)
    BY <1>1, DefinedSame
  <1>4. \A t : InTxn(M, t, q) <=> InTxn(L, t, q)
    BY <1>1, InTxnSame
  <1>5. \A c, f, def : Distinct(L, c, f, def, q) => Distinct(M, c, f, def, q)
    BY <1>1, DistinctSame
  <1>6. QED
    BY <1>1, <1>2, <1>3, <1>4, <1>5 DEF Fits

\* And whether memory holds what the log says.
LEMMA RemembersSame ==
    ASSUME NEW L, NEW M, NEW q \in Nat, \A i \in 1 .. q - 1 : M[i] = L[i],
           NEW ids, NEW offs, NEW dfs, Remembers(ids, offs, dfs, L, q)
    PROVE  Remembers(ids, offs, dfs, M, q)
  <1>1. KnowsNames(ids, M, q)
    <2>1. \A c, n : Registered(M, c, n, q) <=> Registered(L, c, n, q)
      BY RegisteredSame
    <2>2. QED
      BY <2>1 DEF Remembers, KnowsNames
  <1>2. KnowsDocs(offs, M, q)
    <2>1. \A c, d, o : Current(M, c, d, o, q) <=> Current(L, c, d, o, q)
      BY CurrentSame
    <2>2. QED
      BY <2>1 DEF Remembers, KnowsDocs
  <1>3. KnowsDefs(dfs, M, q)
    <2>1. \A c, f, def : Defined(M, c, f, def, q) <=> Defined(L, c, f, def, q)
      BY DefinedSame
    <2>2. QED
      BY <2>1 DEF Remembers, KnowsDefs
  <1>4. QED
    BY <1>1, <1>2, <1>3 DEF Remembers

-----------------------------------------------------------------------------
(* Memory keeps up with the log when it applies the next record.  ids,     *)
(* offs and dfs stand for byId, primary and defs.                          *)

\* A record that neither registers nor drops a collection.
LEMMA NamesKept ==
    ASSUME NEW L, NEW q \in Nat, q # 0, NEW ids, KnowsNames(ids, L, q),
           L[q].op \notin {"ncl1", "dco1"}
    PROVE  KnowsNames(ids, L, q + 1)
  <1>1. \A c, n : ~Founds(L[q], c, n) /\ ~Closes(L[q], c)
    BY DEF Founds, Closes
  <1>2. \A c, n : Registered(L, c, n, q + 1) <=> Registered(L, c, n, q)
    BY <1>1, RegisteredNext
  <1>3. QED
    BY <1>2 DEF KnowsNames

\* A record that neither writes nor deletes a document nor drops a collection.
LEMMA DocsKept ==
    ASSUME NEW L, NEW q \in Nat, q # 0, NEW offs \in [ColIds -> [DocIds -> Nat]],
           KnowsDocs(offs, L, q), L[q].op \notin {"put1", "del1", "dco1"}
    PROVE  KnowsDocs(offs, L, q + 1)
  <1>1. \A c, d : ~Writes(L[q], c, d) /\ ~Replaces(L[q], c, d)
    BY DEF Writes, Replaces, Closes
  <1>2. \A c, d, o : Current(L, c, d, o, q + 1) <=> Current(L, c, d, o, q)
    BY <1>1, CurrentNext
  <1> SUFFICES ASSUME NEW c \in ColIds, NEW d \in DocIds
               PROVE  /\ offs[c][d] < q + 1
                      /\ \A o \in 1 .. (q + 1) - 1 :
                            offs[c][d] = o <=> Current(L, c, d, o, q + 1)
    BY DEF KnowsDocs
  <1>3. /\ offs[c][d] < q /\ offs[c][d] \in Nat
        /\ \A o \in 1 .. q - 1 : offs[c][d] = o <=> Current(L, c, d, o, q)
    BY DEF KnowsDocs
  <1>4. \A o : Current(L, c, d, o, q) => o \in 1 .. q - 1
    BY DEF Current
  <1>5. QED
    BY <1>2, <1>3, <1>4

\* A record that neither creates nor removes an index nor drops a collection.
LEMMA DefsKept ==
    ASSUME NEW L, NEW q \in Nat, q # 0, NEW dfs, KnowsDefs(dfs, L, q),
           L[q].op \notin {"idx1", "dix1", "dco1"}
    PROVE  KnowsDefs(dfs, L, q + 1)
  <1>1. \A c, f, def : ~Defines(L[q], c, f, def) /\ ~Undefines(L[q], c, f)
    BY DEF Defines, Undefines, Closes
  <1>2. \A c, f, def : Defined(L, c, f, def, q + 1) <=> Defined(L, c, f, def, q)
    BY <1>1, DefinedNext
  <1>3. QED
    BY <1>2 DEF KnowsDefs

\* A put1 record.
LEMMA PutKnown ==
    ASSUME NEW L, NEW q \in Nat, q # 0, NEW offs \in [ColIds -> [DocIds -> Nat]],
           KnowsDocs(offs, L, q), NEW c \in ColIds, NEW d \in DocIds, Writes(L[q], c, d)
    PROVE  KnowsDocs([offs EXCEPT ![c][d] = q], L, q + 1)
  <1> DEFINE new == [offs EXCEPT ![c][d] = q]
  <1> SUFFICES ASSUME NEW e \in ColIds, NEW g \in DocIds
               PROVE  /\ new[e][g] < q + 1
                      /\ \A o \in 1 .. (q + 1) - 1 :
                            new[e][g] = o <=> Current(L, e, g, o, q + 1)
    BY DEF KnowsDocs
  <1>1. /\ offs[e][g] < q /\ offs[e][g] \in Nat
        /\ \A o \in 1 .. q - 1 : offs[e][g] = o <=> Current(L, e, g, o, q)
    BY DEF KnowsDocs
  <1>2. \A o : Current(L, e, g, o, q) => o \in 1 .. q - 1
    BY DEF Current
  <1>3. \A o : Current(L, e, g, o, q + 1) <=>
                  \/ Current(L, e, g, o, q) /\ ~Replaces(L[q], e, g)
                  \/ o = q /\ Writes(L[q], e, g)
    BY CurrentNext
  <1>4. CASE e = c /\ g = d
    <2>1. new[e][g] = q
      BY <1>4
    <2>2. Replaces(L[q], e, g) /\ Writes(L[q], e, g)
      BY <1>4 DEF Replaces, Writes
    <2> HIDE DEF new
    <2>3. QED
      BY <1>3, <2>1, <2>2
  <1>5. CASE ~(e = c /\ g = d)
    <2>1. new[e][g] = offs[e][g]
      BY <1>5
    <2>2. ~Replaces(L[q], e, g) /\ ~Writes(L[q], e, g)
      BY <1>5 DEF Replaces, Writes, Closes
    <2> HIDE DEF new
    <2>3. QED
      BY <1>1, <1>2, <1>3, <2>1, <2>2
  <1>6. QED
    BY <1>4, <1>5

\* A del1 record.
LEMMA DeleteKnown ==
    ASSUME NEW L, NEW q \in Nat, q # 0, NEW offs \in [ColIds -> [DocIds -> Nat]],
           KnowsDocs(offs, L, q), NEW c \in ColIds, NEW d \in DocIds,
           L[q].op = "del1", L[q].col = c, L[q].id = d
    PROVE  KnowsDocs([offs EXCEPT ![c][d] = 0], L, q + 1)
  <1> DEFINE new == [offs EXCEPT ![c][d] = 0]
  <1> SUFFICES ASSUME NEW e \in ColIds, NEW g \in DocIds
               PROVE  /\ new[e][g] < q + 1
                      /\ \A o \in 1 .. (q + 1) - 1 :
                            new[e][g] = o <=> Current(L, e, g, o, q + 1)
    BY DEF KnowsDocs
  <1>1. /\ offs[e][g] < q /\ offs[e][g] \in Nat
        /\ \A o \in 1 .. q - 1 : offs[e][g] = o <=> Current(L, e, g, o, q)
    BY DEF KnowsDocs
  <1>2. \A o : Current(L, e, g, o, q) => o \in 1 .. q - 1
    BY DEF Current
  <1>3. \A o : Current(L, e, g, o, q + 1) <=>
                  Current(L, e, g, o, q) /\ ~Replaces(L[q], e, g)
    <2>1. ~Writes(L[q], e, g)
      BY DEF Writes
    <2>2. QED
      BY <2>1, CurrentNext
  <1>4. CASE e = c /\ g = d
    <2>1. new[e][g] = 0
      BY <1>4
    <2>2. Replaces(L[q], e, g)
      BY <1>4 DEF Replaces
    <2> HIDE DEF new
    <2>3. QED
      BY <1>3, <2>1, <2>2
  <1>5. CASE ~(e = c /\ g = d)
    <2>1. new[e][g] = offs[e][g]
      BY <1>5
    <2>2. ~Replaces(L[q], e, g)
      BY <1>5 DEF Replaces, Closes
    <2> HIDE DEF new
    <2>3. QED
      BY <1>1, <1>2, <1>3, <2>1, <2>2
  <1>6. QED
    BY <1>4, <1>5

\* A record that drops a collection, or registers one that has no documents.
LEMMA EmptyKnown ==
    ASSUME NEW L, NEW q \in Nat, q # 0, NEW offs \in [ColIds -> [DocIds -> Nat]],
           KnowsDocs(offs, L, q), NEW c \in ColIds,
           \/ Closes(L[q], c)
           \/ L[q].op = "ncl1" /\ \A d \in DocIds : offs[c][d] = 0
    PROVE  KnowsDocs([offs EXCEPT ![c] = NoDocs], L, q + 1)
  <1> DEFINE new == [offs EXCEPT ![c] = NoDocs]
  <1> SUFFICES ASSUME NEW e \in ColIds, NEW g \in DocIds
               PROVE  /\ new[e][g] < q + 1
                      /\ \A o \in 1 .. (q + 1) - 1 :
                            new[e][g] = o <=> Current(L, e, g, o, q + 1)
    BY DEF KnowsDocs
  <1>1. /\ offs[e][g] < q /\ offs[e][g] \in Nat
        /\ \A o \in 1 .. q - 1 : offs[e][g] = o <=> Current(L, e, g, o, q)
    BY DEF KnowsDocs
  <1>2. \A o : Current(L, e, g, o, q) => o \in 1 .. q - 1
    BY DEF Current
  <1>3. \A o : Current(L, e, g, o, q + 1) <=>
                  Current(L, e, g, o, q) /\ ~Replaces(L[q], e, g)
    <2>1. ~Writes(L[q], e, g)
      BY DEF Writes, Closes
    <2>2. QED
      BY <2>1, CurrentNext
  <1>4. CASE e = c
    <2>1. new[e][g] = 0
      BY <1>4 DEF NoDocs
    <2>2. Replaces(L[q], e, g) \/ offs[e][g] = 0
      BY <1>4 DEF Replaces
    <2> HIDE DEF new
    <2>3. QED
      BY <1>1, <1>2, <1>3, <2>1, <2>2
  <1>5. CASE e # c
    <2>1. new[e][g] = offs[e][g]
      BY <1>5
    <2>2. ~Replaces(L[q], e, g)
      BY <1>5 DEF Replaces, Closes
    <2> HIDE DEF new
    <2>3. QED
      BY <1>1, <1>2, <1>3, <2>1, <2>2
  <1>6. QED
    BY <1>4, <1>5

\* An ncl1 record.
LEMMA RegisterKnown ==
    ASSUME NEW L, NEW q \in Nat, q # 0, NEW ids \in [ColIds -> Names \cup {None}],
           KnowsNames(ids, L, q), NEW c \in ColIds, NEW n \in Names, Founds(L[q], c, n),
           ids[c] = None
    PROVE  KnowsNames([ids EXCEPT ![c] = n], L, q + 1)
  <1> SUFFICES ASSUME NEW e \in ColIds, NEW m \in Names
               PROVE  [ids EXCEPT ![c] = n][e] = m <=> Registered(L, e, m, q + 1)
    BY DEF KnowsNames
  <1>1. /\ Founds(L[q], e, m) <=> e = c /\ m = n
        /\ ~Closes(L[q], e)
    BY DEF Founds, Closes
  <1>2. Registered(L, e, m, q + 1) <=> Registered(L, e, m, q) \/ (e = c /\ m = n)
    BY <1>1, RegisteredNext
  <1>3. Registered(L, e, m, q) <=> ids[e] = m
    BY DEF KnowsNames
  <1>4. QED
    BY <1>2, <1>3, NoneAssumption

\* A dco1 record.
LEMMA DropKnown ==
    ASSUME NEW L, NEW q \in Nat, q # 0, NEW ids \in [ColIds -> Names \cup {None}],
           KnowsNames(ids, L, q), NEW c \in ColIds, Closes(L[q], c)
    PROVE  KnowsNames([ids EXCEPT ![c] = None], L, q + 1)
  <1> SUFFICES ASSUME NEW e \in ColIds, NEW m \in Names
               PROVE  [ids EXCEPT ![c] = None][e] = m <=> Registered(L, e, m, q + 1)
    BY DEF KnowsNames
  <1>1. /\ ~Founds(L[q], e, m)
        /\ Closes(L[q], e) <=> e = c
    BY DEF Founds, Closes
  <1>2. Registered(L, e, m, q + 1) <=> Registered(L, e, m, q) /\ e # c
    BY <1>1, RegisteredNext
  <1>3. Registered(L, e, m, q) <=> ids[e] = m
    BY DEF KnowsNames
  <1>4. QED
    BY <1>2, <1>3, NoneAssumption

\* An idx1 record.
LEMMA DefineKnown ==
    ASSUME NEW L, NEW q \in Nat, q # 0,
           NEW dfs \in [ColIds -> [Fields -> IndexDefs \cup {None}]],
           KnowsDefs(dfs, L, q), NEW c \in ColIds, NEW f \in Fields,
           NEW def \in IndexDefs, Defines(L[q], c, f, def), dfs[c][f] \in {None, def}
    PROVE  KnowsDefs([dfs EXCEPT ![c] = [dfs[c] EXCEPT ![f] = def]], L, q + 1)
  <1> DEFINE new == [dfs EXCEPT ![c] = [dfs[c] EXCEPT ![f] = def]]
  <1> SUFFICES ASSUME NEW e \in ColIds, NEW g \in Fields, NEW df \in IndexDefs
               PROVE  new[e][g] = df <=> Defined(L, e, g, df, q + 1)
    BY DEF KnowsDefs
  <1>1. /\ Defines(L[q], e, g, df) <=> e = c /\ g = f /\ df = def
        /\ ~Undefines(L[q], e, g)
    BY DEF Defines, Undefines, Closes
  <1>2. Defined(L, e, g, df, q + 1) <=>
            Defined(L, e, g, df, q) \/ (e = c /\ g = f /\ df = def)
    BY <1>1, DefinedNext
  <1>3. Defined(L, e, g, df, q) <=> dfs[e][g] = df
    BY DEF KnowsDefs
  <1>4. new[e][g] = IF e = c /\ g = f THEN def ELSE dfs[e][g]
    OBVIOUS
  <1> HIDE DEF new
  <1>5. QED
    BY <1>2, <1>3, <1>4, NoneAssumption

\* A dix1 record.
LEMMA UndefineKnown ==
    ASSUME NEW L, NEW q \in Nat, q # 0,
           NEW dfs \in [ColIds -> [Fields -> IndexDefs \cup {None}]],
           KnowsDefs(dfs, L, q), NEW c \in ColIds, NEW f \in Fields,
           L[q].op = "dix1", L[q].col = c, L[q].field = f
    PROVE  KnowsDefs([dfs EXCEPT ![c][f] = None], L, q + 1)
  <1> DEFINE new == [dfs EXCEPT ![c][f] = None]
  <1> SUFFICES ASSUME NEW e \in ColIds, NEW g \in Fields, NEW df \in IndexDefs
               PROVE  new[e][g] = df <=> Defined(L, e, g, df, q + 1)
    BY DEF KnowsDefs
  <1>1. /\ ~Defines(L[q], e, g, df)
        /\ Undefines(L[q], e, g) <=> e = c /\ g = f
    BY DEF Defines, Undefines, Closes
  <1>2. Defined(L, e, g, df, q + 1) <=> Defined(L, e, g, df, q) /\ ~(e = c /\ g = f)
    BY <1>1, DefinedNext
  <1>3. Defined(L, e, g, df, q) <=> dfs[e][g] = df
    BY DEF KnowsDefs
  <1>4. new[e][g] = IF e = c /\ g = f THEN None ELSE dfs[e][g]
    OBVIOUS
  <1> HIDE DEF new
  <1>5. QED
    BY <1>2, <1>3, <1>4, NoneAssumption

\* A record that drops a collection, or registers one that has no indexes.
LEMMA NoDefsKnown ==
    ASSUME NEW L, NEW q \in Nat, q # 0,
           NEW dfs \in [ColIds -> [Fields -> IndexDefs \cup {None}]],
           KnowsDefs(dfs, L, q), NEW c \in ColIds,
           \/ Closes(L[q], c)
           \/ L[q].op = "ncl1" /\ \A f \in Fields : dfs[c][f] = None
    PROVE  KnowsDefs([dfs EXCEPT ![c] = NoDefs], L, q + 1)
  <1> DEFINE new == [dfs EXCEPT ![c] = NoDefs]
  <1> SUFFICES ASSUME NEW e \in ColIds, NEW g \in Fields, NEW df \in IndexDefs
               PROVE  new[e][g] = df <=> Defined(L, e, g, df, q + 1)
    BY DEF KnowsDefs
  <1>1. ~Defines(L[q], e, g, df)
    BY DEF Defines, Closes
  <1>2. Undefines(L[q], e, g) => e = c
    BY DEF Undefines, Closes
  <1>3. e = c => Undefines(L[q], e, g) \/ dfs[e][g] = None
    BY DEF Undefines
  <1>4. Defined(L, e, g, df, q + 1) <=> Defined(L, e, g, df, q) /\ ~Undefines(L[q], e, g)
    BY <1>1, DefinedNext
  <1>5. Defined(L, e, g, df, q) <=> dfs[e][g] = df
    BY DEF KnowsDefs
  <1>6. new[e][g] = IF e = c THEN None ELSE dfs[e][g]
    BY DEF NoDefs
  <1> HIDE DEF new
  <1>7. QED
    BY <1>2, <1>3, <1>4, <1>5, <1>6, NoneAssumption

-----------------------------------------------------------------------------
(* Every record that fits is one that replay can apply, and memory then    *)
(* holds what the log says one record further.                             *)

\* What a record does to the collections, documents and index definitions in
\* memory, whether an API call or replay applies it.
Effect(r, o) ==
    \/ /\ r.op = "ncl1"
       /\ byName' = [byName EXCEPT ![r.name] = r.col]
       /\ byId' = [byId EXCEPT ![r.col] = r.name]
       /\ primary' = [primary EXCEPT ![r.col] = NoDocs]
       /\ defs' = [defs EXCEPT ![r.col] = NoDefs]
    \/ /\ r.op = "put1"
       /\ primary' = [primary EXCEPT ![r.col][r.id] = o]
       /\ UNCHANGED <<byName, byId, defs>>
    \/ /\ r.op = "del1"
       /\ primary' = [primary EXCEPT ![r.col][r.id] = 0]
       /\ UNCHANGED <<byName, byId, defs>>
    \/ /\ r.op = "dco1"
       /\ byName' = [byName EXCEPT ![byId[r.col]] = None]
       /\ byId' = [byId EXCEPT ![r.col] = None]
       /\ primary' = [primary EXCEPT ![r.col] = NoDocs]
       /\ defs' = [defs EXCEPT ![r.col] = NoDefs]
    \/ /\ r.op = "idx1"
       /\ defs[r.col][r.field] \in {None, r.def}
       /\ defs' = [defs EXCEPT ![r.col] = [defs[r.col] EXCEPT ![r.field] = r.def]]
       /\ UNCHANGED <<byName, byId, primary>>
    \/ /\ r.op = "dix1"
       /\ defs' = [defs EXCEPT ![r.col][r.field] = None]
       /\ UNCHANGED <<byName, byId, primary>>
    \/ r.op \in {"txnb", "txnc"} /\ UNCHANGED <<byName, byId, primary, defs>>

\* The fields of a record, by its op.
LEMMA RecordFields ==
    ASSUME NEW r \in Records
    PROVE  /\ r.op \in {"ncl1", "dco1", "put1", "del1", "idx1", "dix1", "txnb", "txnc"}
           /\ r.op \notin {"txnb", "txnc"} => r.col \in ColIds
           /\ r.op = "ncl1" => r.name \in Names
           /\ r.op \in {"put1", "del1"} => r.id \in DocIds
           /\ r.op = "put1" => r.doc \in Docs
           /\ r.op \in {"idx1", "dix1"} => r.field \in Fields
           /\ r.op = "idx1" => r.def \in IndexDefs
  BY DEF Records, NclRecs, DcoRecs, PutRecs, DelRecs, IdxRecs, DixRecs, TxnRecs

\* A record that fits is about a collection memory knows, and an ncl1 about one
\* it does not.
LEMMA FitsMemory ==
    ASSUME MemType, NamesAgree, NEW L, NEW q \in Nat, q # 0, L[q] \in Records, Fits(L, q),
           Remembers(byId, primary, defs, L, q)
    PROVE  /\ L[q].op = "ncl1" => byId[L[q].col] = None /\ byName[L[q].name] = None
           /\ L[q].op \in {"dco1", "put1", "del1", "idx1", "dix1"} => byId[L[q].col] \in Names
           /\ L[q].op = "dix1" => defs[L[q].col][L[q].field] \in IndexDefs
  <1>1. KnowsNames(byId, L, q) /\ KnowsDefs(defs, L, q)
    BY DEF Remembers
  <1>2. ASSUME L[q].op = "ncl1"
        PROVE  byId[L[q].col] = None /\ byName[L[q].name] = None
    <2>1. L[q].col \in ColIds /\ L[q].name \in Names
      BY <1>2, RecordFields
    <2>2. byId[L[q].col] \in Names => Registered(L, L[q].col, byId[L[q].col], q)
      BY <1>1, <2>1 DEF KnowsNames
    <2>3. \A n : ~Registered(L, L[q].col, n, q)
      BY <1>2 DEF Fits, Registered, Founds
    <2>4. \A c \in ColIds : byId[c] # L[q].name
      BY <1>1, <1>2, <2>1 DEF Fits, KnowsNames
    <2>5. byName[L[q].name] \notin ColIds
      BY <2>1, <2>4 DEF NamesAgree
    <2>6. QED
      BY <2>1, <2>2, <2>3, <2>5 DEF MemType
  <1>3. ASSUME L[q].op \in {"dco1", "put1", "del1", "idx1", "dix1"}
        PROVE  byId[L[q].col] \in Names
    <2>1. L[q].col \in ColIds
      BY <1>3, RecordFields
    <2>2. PICK n \in Names : Registered(L, L[q].col, n, q)
      BY <1>3 DEF Fits
    <2>3. QED
      BY <1>1, <2>1, <2>2 DEF KnowsNames
  <1>4. ASSUME L[q].op = "dix1"
        PROVE  defs[L[q].col][L[q].field] \in IndexDefs
    <2>1. L[q].col \in ColIds /\ L[q].field \in Fields
      BY <1>4, RecordFields
    <2>2. PICK def \in IndexDefs : Defined(L, L[q].col, L[q].field, def, q)
      BY <1>4 DEF Fits
    <2>3. QED
      BY <1>1, <2>1, <2>2 DEF KnowsDefs
  <1>5. QED
    BY <1>2, <1>3, <1>4

\* Applying a record that fits.
LEMMA EffectKnown ==
    ASSUME MemType, RegisteredDocs, RegisteredDefs, NamesAgree,
           NEW L, NEW q \in Nat, q # 0, L[q] \in Records, Fits(L, q),
           Remembers(byId, primary, defs, L, q), Effect(L[q], q)
    PROVE  Remembers(byId', primary', defs', L, q + 1) /\ NamesAgree' /\ RegisteredDefs'
  <1> DEFINE r == L[q]
  <1>1. /\ KnowsNames(byId, L, q) /\ KnowsDocs(primary, L, q) /\ KnowsDefs(defs, L, q)
        /\ byName \in [Names -> ColIds \cup {None}]
        /\ byId \in [ColIds -> Names \cup {None}]
        /\ primary \in [ColIds -> [DocIds -> Nat]]
        /\ defs \in [ColIds -> [Fields -> IndexDefs \cup {None}]]
    BY DEF Remembers, MemType
  <1>2. /\ r.op \notin {"txnb", "txnc"} => r.col \in ColIds
        /\ r.op = "ncl1" => r.name \in Names
        /\ r.op \in {"put1", "del1"} => r.id \in DocIds
        /\ r.op \in {"idx1", "dix1"} => r.field \in Fields
        /\ r.op = "idx1" => r.def \in IndexDefs
    BY RecordFields
  <1>3. /\ r.op = "ncl1" => byId[r.col] = None /\ byName[r.name] = None
        /\ r.op \in {"dco1", "put1", "del1", "idx1", "dix1"} => byId[r.col] \in Names
    BY FitsMemory
  <1>4. CASE r.op = "ncl1"
    <2>1. /\ byName' = [byName EXCEPT ![r.name] = r.col]
          /\ byId' = [byId EXCEPT ![r.col] = r.name]
          /\ primary' = [primary EXCEPT ![r.col] = NoDocs]
          /\ defs' = [defs EXCEPT ![r.col] = NoDefs]
      BY <1>4 DEF Effect
    <2>2. /\ \A d \in DocIds : primary[r.col][d] = 0
          /\ \A f \in Fields : defs[r.col][f] = None
      BY <1>2, <1>3, <1>4 DEF RegisteredDocs, RegisteredDefs
    <2>3. Founds(r, r.col, r.name)
      BY <1>4 DEF Founds
    <2>4. KnowsNames(byId', L, q + 1)
      BY <1>1, <1>2, <1>3, <1>4, <2>1, <2>3, RegisterKnown
    <2>5. KnowsDocs(primary', L, q + 1)
      BY <1>1, <1>2, <1>4, <2>1, <2>2, EmptyKnown
    <2>6. KnowsDefs(defs', L, q + 1)
      BY <1>1, <1>2, <1>4, <2>1, <2>2, NoDefsKnown
    <2>7. NamesAgree'
      BY <1>1, <1>2, <1>3, <1>4, <2>1, NoneAssumption DEF NamesAgree
    <2>8. RegisteredDefs'
      BY <1>1, <1>2, <1>4, <2>1 DEF RegisteredDefs, NoDefs
    <2>9. QED
      BY <2>4, <2>5, <2>6, <2>7, <2>8 DEF Remembers
  <1>5. CASE r.op = "put1"
    <2>1. /\ primary' = [primary EXCEPT ![r.col][r.id] = q]
          /\ UNCHANGED <<byName, byId, defs>>
      BY <1>5 DEF Effect
    <2>2. Writes(r, r.col, r.id)
      BY <1>5 DEF Writes
    <2>3. KnowsDocs(primary', L, q + 1)
      BY <1>1, <1>2, <1>5, <2>1, <2>2, PutKnown
    <2>4. KnowsNames(byId', L, q + 1) /\ KnowsDefs(defs', L, q + 1)
      BY <1>1, <1>5, <2>1, NamesKept, DefsKept
    <2>5. QED
      BY <2>1, <2>3, <2>4 DEF Remembers, NamesAgree, RegisteredDefs
  <1>6. CASE r.op = "del1"
    <2>1. /\ primary' = [primary EXCEPT ![r.col][r.id] = 0]
          /\ UNCHANGED <<byName, byId, defs>>
      BY <1>6 DEF Effect
    <2>2. KnowsDocs(primary', L, q + 1)
      BY <1>1, <1>2, <1>6, <2>1, DeleteKnown
    <2>3. KnowsNames(byId', L, q + 1) /\ KnowsDefs(defs', L, q + 1)
      BY <1>1, <1>6, <2>1, NamesKept, DefsKept
    <2>4. QED
      BY <2>1, <2>2, <2>3 DEF Remembers, NamesAgree, RegisteredDefs
  <1>7. CASE r.op = "dco1"
    <2>1. /\ byName' = [byName EXCEPT ![byId[r.col]] = None]
          /\ byId' = [byId EXCEPT ![r.col] = None]
          /\ primary' = [primary EXCEPT ![r.col] = NoDocs]
          /\ defs' = [defs EXCEPT ![r.col] = NoDefs]
      BY <1>7 DEF Effect
    <2>2. Closes(r, r.col)
      BY <1>7 DEF Closes
    <2>3. KnowsNames(byId', L, q + 1)
      BY <1>1, <1>2, <1>7, <2>1, <2>2, DropKnown
    <2>4. KnowsDocs(primary', L, q + 1)
      BY <1>1, <1>2, <1>7, <2>1, <2>2, EmptyKnown
    <2>5. KnowsDefs(defs', L, q + 1)
      BY <1>1, <1>2, <1>7, <2>1, <2>2, NoDefsKnown
    <2>6. NamesAgree'
      BY <1>1, <1>2, <1>3, <1>7, <2>1, NoneAssumption DEF NamesAgree
    <2>7. RegisteredDefs'
      BY <1>1, <1>2, <1>7, <2>1 DEF RegisteredDefs, NoDefs
    <2>8. QED
      BY <2>3, <2>4, <2>5, <2>6, <2>7 DEF Remembers
  <1>8. CASE r.op = "idx1"
    <2>1. /\ defs[r.col][r.field] \in {None, r.def}
          /\ defs' = [defs EXCEPT ![r.col] = [defs[r.col] EXCEPT ![r.field] = r.def]]
          /\ UNCHANGED <<byName, byId, primary>>
      BY <1>8 DEF Effect
    <2>2. Defines(r, r.col, r.field, r.def)
      BY <1>8 DEF Defines
    <2>3. KnowsDefs(defs', L, q + 1)
      BY <1>1, <1>2, <1>8, <2>1, <2>2, DefineKnown
    <2>4. KnowsNames(byId', L, q + 1) /\ KnowsDocs(primary', L, q + 1)
      BY <1>1, <1>8, <2>1, NamesKept, DocsKept
    <2>5. RegisteredDefs'
      <3>1. \A e \in ColIds, f \in Fields : e # r.col => defs'[e][f] = defs[e][f]
        BY <1>1, <2>1
      <3>2. QED
        BY <1>2, <1>3, <1>8, <2>1, <3>1, NoneAssumption DEF RegisteredDefs
    <2>6. QED
      BY <2>1, <2>3, <2>4, <2>5 DEF Remembers, NamesAgree
  <1>9. CASE r.op = "dix1"
    <2>1. /\ defs' = [defs EXCEPT ![r.col][r.field] = None]
          /\ UNCHANGED <<byName, byId, primary>>
      BY <1>9 DEF Effect
    <2>2. KnowsDefs(defs', L, q + 1)
      BY <1>1, <1>2, <1>9, <2>1, UndefineKnown
    <2>3. KnowsNames(byId', L, q + 1) /\ KnowsDocs(primary', L, q + 1)
      BY <1>1, <1>9, <2>1, NamesKept, DocsKept
    <2>4. RegisteredDefs'
      <3>1. \A e \in ColIds, f \in Fields : defs'[e][f] \in {None, defs[e][f]}
        BY <1>1, <1>2, <1>9, <2>1
      <3>2. QED
        BY <2>1, <3>1 DEF RegisteredDefs
    <2>5. QED
      BY <2>1, <2>2, <2>3, <2>4 DEF Remembers, NamesAgree
  <1>10. CASE r.op \in {"txnb", "txnc"}
    <2>1. UNCHANGED <<byName, byId, primary, defs>>
      BY <1>10 DEF Effect
    <2>2. KnowsNames(byId', L, q + 1) /\ KnowsDocs(primary', L, q + 1)
            /\ KnowsDefs(defs', L, q + 1)
      BY <1>1, <1>10, <2>1, NamesKept, DocsKept, DefsKept
    <2>3. QED
      BY <2>1, <2>2 DEF Remembers, NamesAgree, RegisteredDefs
  <1>11. QED
    BY <1>4, <1>5, <1>6, <1>7, <1>8, <1>9, <1>10, RecordFields

-----------------------------------------------------------------------------
(* Unique indexes.                                                         *)

\* No two current documents of c hold the same value of f under def.
DistinctNow(c, f, def) ==
    \A d, e \in DocIds :
        /\ d # e /\ primary[c][d] # 0 /\ primary[c][e] # 0
        /\ Indexable(def, StoredDoc(c, d)[f])
        => StoredDoc(c, d)[f] # StoredDoc(c, e)[f]

\* The log says so when memory does.
LEMMA NowDistinct ==
    ASSUME MemType, NEW q \in Nat, KnowsDocs(primary, log, q),
           NEW c \in ColIds, NEW f \in Fields, NEW def
    PROVE  DistinctNow(c, f, def) <=> Distinct(log, c, f, def, q)
  <1>1. ASSUME NEW d \in DocIds
        PROVE  /\ primary[c][d] # 0 => primary[c][d] \in 1 .. q - 1
               /\ \A o \in 1 .. q - 1 : primary[c][d] = o <=> Current(log, c, d, o, q)
    <2>1. primary[c][d] \in Nat /\ primary[c][d] < q
      BY DEF MemType, KnowsDocs
    <2>2. QED
      BY <2>1 DEF KnowsDocs
  <1>2. ASSUME DistinctNow(c, f, def) PROVE Distinct(log, c, f, def, q)
    <2> SUFFICES ASSUME NEW d \in DocIds, NEW e \in DocIds, NEW o \in 1 .. q - 1,
                        NEW p \in 1 .. q - 1, d # e,
                        Current(log, c, d, o, q), Current(log, c, e, p, q),
                        Indexable(def, log[o].doc[f])
                 PROVE  log[o].doc[f] # log[p].doc[f]
      BY DEF Distinct
    <2>1. primary[c][d] = o /\ primary[c][e] = p /\ o # 0 /\ p # 0
      BY <1>1
    <2>2. QED
      BY <1>2, <2>1 DEF DistinctNow, StoredDoc
  <1>3. ASSUME Distinct(log, c, f, def, q) PROVE DistinctNow(c, f, def)
    <2> SUFFICES ASSUME NEW d \in DocIds, NEW e \in DocIds, d # e,
                        primary[c][d] # 0, primary[c][e] # 0,
                        Indexable(def, StoredDoc(c, d)[f])
                 PROVE  StoredDoc(c, d)[f] # StoredDoc(c, e)[f]
      BY DEF DistinctNow
    <2>1. /\ primary[c][d] \in 1 .. q - 1 /\ Current(log, c, d, primary[c][d], q)
          /\ primary[c][e] \in 1 .. q - 1 /\ Current(log, c, e, primary[c][e], q)
      BY <1>1
    <2>2. QED
      BY <1>3, <2>1 DEF Distinct, StoredDoc
  <1>4. QED
    BY <1>2, <1>3

\* The duplicate check of createIndexInMemory sees exactly that.
LEMMA DuplicatesNow ==
    ASSUME IInv, Agrees, NEW c \in ColIds, NEW f \in Fields, NEW def \in IndexDefs
    PROVE  HasDuplicate(Rebuild(c, [defs[c] EXCEPT ![f] = def]), f) <=> ~DistinctNow(c, f, def)
  <1> DEFINE ents == Rebuild(c, [defs[c] EXCEPT ![f] = def])
  <1>1. /\ primary \in [ColIds -> [DocIds -> Nat]] /\ log \in Seq(Records) /\ PrimaryOffsets
        /\ defs[c] \in [Fields -> IndexDefs \cup {None}]
    BY DEF IInv, TypeOK
  <1>2. ASSUME NEW d \in DocIds, primary[c][d] # 0
        PROVE  StoredDoc(c, d) \in Docs /\ StoredDoc(c, d)[f] \in Values
    BY <1>1, <1>2, StoredDocType DEF Docs
  <1>3. ASSUME NEW d \in DocIds
        PROVE  ents[f][d] = IF primary[c][d] = 0 THEN None
                            ELSE Entry(def, StoredDoc(c, d)[f], primary[c][d])
    <2>1. [defs[c] EXCEPT ![f] = def][f] = def
      BY <1>1
    <2>2. primary[c][d] = 0 => entries[c][f][d] = None
      BY DEF Agrees, Indexed
    <2>3. QED
      BY <2>1, <2>2 DEF Rebuild
  <1> HIDE DEF ents
  <1>4. ASSUME NEW d \in DocIds
        PROVE  /\ ents[f][d] # None <=> /\ primary[c][d] # 0
                                        /\ Indexable(def, StoredDoc(c, d)[f])
               /\ ents[f][d] # None => ents[f][d].key = StoredDoc(c, d)[f]
    <2>1. CASE primary[c][d] = 0
      BY <1>3, <2>1
    <2>2. CASE primary[c][d] # 0
      <3>1. StoredDoc(c, d)[f] \in Values /\ primary[c][d] \in Nat
        BY <1>1, <1>2, <2>2
      <3>2. [key |-> StoredDoc(c, d)[f], off |-> primary[c][d]] \in [key : Values, off : Nat]
        BY <3>1
      <3>3. [key |-> StoredDoc(c, d)[f], off |-> primary[c][d]] # None
        BY <3>2, AbsentAssumption
      <3>4. ents[f][d] = IF Indexable(def, StoredDoc(c, d)[f])
                         THEN [key |-> StoredDoc(c, d)[f], off |-> primary[c][d]] ELSE None
        BY <1>3, <2>2 DEF Entry
      <3> DEFINE entry == [key |-> StoredDoc(c, d)[f], off |-> primary[c][d]]
      <3>5. entry.key = StoredDoc(c, d)[f] /\ entry # None
        BY <3>3
      <3> HIDE DEF entry
      <3>6. ents[f][d] = IF Indexable(def, StoredDoc(c, d)[f]) THEN entry ELSE None
        BY <3>4 DEF entry
      <3>7. QED
        BY <2>2, <3>5, <3>6
    <2>3. QED
      BY <2>1, <2>2
  <1>5. HasDuplicate(ents, f) <=>
            \E d, e \in DocIds : d # e /\ ents[f][d] # None /\ ents[f][e] # None
                                 /\ ents[f][e].key = ents[f][d].key
    BY DEF HasDuplicate, Holds
  <1>6. ~DistinctNow(c, f, def) <=>
            \E d, e \in DocIds : d # e /\ primary[c][d] # 0 /\ primary[c][e] # 0
                                 /\ Indexable(def, StoredDoc(c, d)[f])
                                 /\ StoredDoc(c, d)[f] = StoredDoc(c, e)[f]
    BY DEF DistinctNow
  <1>7. QED
    BY <1>4, <1>5, <1>6 DEF ents

\* What callers read of a collection.
Contents(c) ==
    [docs |-> [d \in DocIds |-> IF primary[c][d] = 0 THEN None ELSE StoredDoc(c, d)],
     defs |-> defs[c]]

\* It is a collection of the abstract store, with the documents that are present.
LEMMA ContentsType ==
    ASSUME MemType, log \in Seq(Records), PrimaryOffsets, NEW c \in ColIds
    PROVE  /\ Contents(c) \in [docs : [DocIds -> Docs \cup {None}],
                               defs : [Fields -> IndexDefs \cup {None}]]
           /\ Contents(c) # None
           /\ \A d \in DocIds : Contents(c).docs[d] # None <=> primary[c][d] # 0
  <1>1. \A d \in DocIds : primary[c][d] # 0 => StoredDoc(c, d) \in Docs
    BY StoredDocType
  <1>2. defs[c] \in [Fields -> IndexDefs \cup {None}]
    BY DEF MemType
  <1>3. Contents(c) \in [docs : [DocIds -> Docs \cup {None}],
                         defs : [Fields -> IndexDefs \cup {None}]]
    BY <1>1, <1>2 DEF Contents
  <1>4. \A d \in DocIds : Contents(c).docs[d] # None <=> primary[c][d] # 0
    BY <1>1, NoneAssumption DEF Contents
  <1>5. QED
    BY <1>3, <1>4, AbsentAssumption

\* What callers read under a name.
LEMMA ViewAt ==
    ASSUME NEW n \in Names
    PROVE  View[n] = IF byName[n] = None THEN None ELSE Contents(byName[n])
  BY DEF View, Contents

\* The constraint of the abstract store on what callers read of a collection.
LEMMA ConsistentNow ==
    ASSUME MemType, log \in Seq(Records), PrimaryOffsets, NEW c \in ColIds
    PROVE  Promise!Consistent(Contents(c)) <=>
               \A f \in Fields : defs[c][f] # None /\ defs[c][f].unique =>
                   DistinctNow(c, f, defs[c][f])
  <1>1. \A d \in DocIds : Contents(c).docs[d] # None <=> primary[c][d] # 0
    BY ContentsType
  <1>2. \A d \in DocIds : primary[c][d] # 0 => Contents(c).docs[d] = StoredDoc(c, d)
    BY DEF Contents
  <1>3. Contents(c).defs = defs[c]
    BY DEF Contents
  <1>4. QED
    BY <1>1, <1>2, <1>3 DEF Promise!Consistent, DistinctNow, Indexable

-----------------------------------------------------------------------------
(* What callers read is what the log says.                                 *)

\* When memory is what the log says at q, callers read what is recorded there.
LEMMA ViewRecorded ==
    ASSUME MemType, NamesAgree, NEW q \in Nat, Remembers(byId, primary, defs, log, q)
    PROVE  View = Recorded(log, q)
  <1>1. /\ KnowsNames(byId, log, q) /\ KnowsDocs(primary, log, q) /\ KnowsDefs(defs, log, q)
        /\ byName \in [Names -> ColIds \cup {None}]
        /\ primary \in [ColIds -> [DocIds -> Nat]]
        /\ defs \in [ColIds -> [Fields -> IndexDefs \cup {None}]]
    BY DEF Remembers, MemType
  <1>2. ASSUME NEW c \in ColIds, NEW d \in DocIds
        PROVE  (IF primary[c][d] = 0 THEN None ELSE StoredDoc(c, d))
                 = IF \A o \in 1 .. q - 1 : ~Current(log, c, d, o, q) THEN None
                   ELSE log[CHOOSE o \in 1 .. q - 1 : Current(log, c, d, o, q)].doc
    <2>1. /\ primary[c][d] \in Nat /\ primary[c][d] < q
          /\ \A o \in 1 .. q - 1 : primary[c][d] = o <=> Current(log, c, d, o, q)
      BY <1>1 DEF KnowsDocs
    <2>2. CASE primary[c][d] = 0
      BY <2>1, <2>2
    <2>3. CASE primary[c][d] # 0
      <3>1. primary[c][d] \in 1 .. q - 1 /\ Current(log, c, d, primary[c][d], q)
        BY <2>1, <2>3
      <3>2. (CHOOSE o \in 1 .. q - 1 : Current(log, c, d, o, q)) = primary[c][d]
        BY <2>1, <3>1
      <3>3. QED
        BY <2>3, <3>1, <3>2 DEF StoredDoc
    <2>4. QED
      BY <2>2, <2>3
  <1>3. ASSUME NEW c \in ColIds, NEW f \in Fields
        PROVE  defs[c][f] = IF \A def \in IndexDefs : ~Defined(log, c, f, def, q) THEN None
                            ELSE CHOOSE def \in IndexDefs : Defined(log, c, f, def, q)
    <2>1. /\ defs[c][f] \in IndexDefs \cup {None}
          /\ \A def \in IndexDefs : defs[c][f] = def <=> Defined(log, c, f, def, q)
      BY <1>1 DEF KnowsDefs
    <2>2. CASE defs[c][f] = None
      BY <2>1, <2>2, NoneAssumption
    <2>3. CASE defs[c][f] \in IndexDefs
      <3>1. (CHOOSE def \in IndexDefs : Defined(log, c, f, def, q)) = defs[c][f]
        BY <2>1, <2>3
      <3>2. QED
        BY <2>1, <2>3, <3>1
    <2>4. QED
      BY <2>1, <2>2, <2>3
  <1> DEFINE Of(c) == [docs |-> [d \in DocIds |->
                          IF \A o \in 1 .. q - 1 : ~Current(log, c, d, o, q) THEN None
                          ELSE log[CHOOSE o \in 1 .. q - 1 : Current(log, c, d, o, q)].doc],
                       defs |-> [f \in Fields |->
                          IF \A def \in IndexDefs : ~Defined(log, c, f, def, q) THEN None
                          ELSE CHOOSE def \in IndexDefs : Defined(log, c, f, def, q)]]
  <1>4. ASSUME NEW c \in ColIds
        PROVE  Contents(c) = Of(c)
    <2>1. defs[c] = [f \in Fields |-> defs[c][f]]
      BY <1>1
    <2>2. QED
      BY <1>2, <1>3, <2>1 DEF Contents
  <1> HIDE DEF Of
  <1>5. ASSUME NEW n \in Names
        PROVE  View[n] = IF \A c \in ColIds : ~Registered(log, c, n, q) THEN None
                         ELSE Of(CHOOSE c \in ColIds : Registered(log, c, n, q))
    <2>1. \A c \in ColIds : byName[n] = c <=> Registered(log, c, n, q)
      BY <1>1 DEF NamesAgree, KnowsNames
    <2>2. CASE byName[n] = None
      BY <2>1, <2>2, ViewAt, NoneAssumption
    <2>3. CASE byName[n] \in ColIds
      <3>1. (CHOOSE c \in ColIds : Registered(log, c, n, q)) = byName[n]
        BY <2>1, <2>3
      <3>2. QED
        BY <1>4, <2>1, <2>3, <3>1, ViewAt, NoneAssumption
    <2>4. QED
      BY <1>1, <2>2, <2>3
  <1>6. View = [n \in Names |-> View[n]]
    BY DEF View
  <1>7. Recorded(log, q) = [n \in Names |->
                              IF \A c \in ColIds : ~Registered(log, c, n, q) THEN None
                              ELSE Of(CHOOSE c \in ColIds : Registered(log, c, n, q))]
    BY DEF Recorded, Of
  <1>8. QED
    BY <1>5, <1>6, <1>7

-----------------------------------------------------------------------------
(* Transactions.                                                           *)

\* At most one transaction is open at a position of a log that fits.
LEMMA OneTxn ==
    ASSUME NEW L, NEW q \in Nat, \A i \in 1 .. q - 1 : Fits(L, i), NEW t, NEW u,
           InTxn(L, t, q), InTxn(L, u, q)
    PROVE  t = u
  <1>1. ASSUME NEW a, NEW b, InTxn(L, a, q), InTxn(L, b, q), a < b
        PROVE  FALSE
    <2>1. /\ a \in 1 .. b - 1 /\ b \in 1 .. q - 1 /\ L[b].op = "txnb" /\ L[a].op = "txnb"
          /\ \A j \in a + 1 .. b - 1 : L[j].op # "txnc"
      BY <1>1 DEF InTxn
    <2>2. InTxn(L, a, b)
      BY <2>1 DEF InTxn
    <2>3. QED
      BY <2>1, <2>2 DEF Fits
  <1>2. t \in 1 .. q - 1 /\ u \in 1 .. q - 1
    BY DEF InTxn
  <1>3. ~(t < u) /\ ~(u < t)
    BY <1>1
  <1>4. QED
    BY <1>2, <1>3

\* So replay drops what follows the transaction open at the end, if there is one.
LEMMA HorizonOpen ==
    ASSUME NEW L \in Seq(Records), WellFormed(L), NEW t, InTxn(L, t, Len(L) + 1)
    PROVE  Horizon(L) = t /\ t \in 1 .. Len(L)
  <1>1. /\ \A i \in 1 .. (Len(L) + 1) - 1 : Fits(L, i)
        /\ (Len(L) + 1) - 1 = Len(L) /\ DOMAIN L = 1 .. Len(L) /\ Len(L) + 1 \in Nat
    BY DEF WellFormed
  <1>2. t \in DOMAIN L
    BY <1>1 DEF InTxn
  <1>3. \A u \in DOMAIN L : InTxn(L, u, Len(L) + 1) => u = t
    BY <1>1, OneTxn
  <1>4. QED
    BY <1>1, <1>2, <1>3 DEF Horizon

\* Without an open transaction at the end, replay takes the whole log.
LEMMA HorizonEnd ==
    ASSUME NEW L \in Seq(Records), \A t \in 1 .. Len(L) : ~InTxn(L, t, Len(L) + 1)
    PROVE  Horizon(L) = Len(L) + 1
  BY DEF Horizon

\* The position replay gets to, with and without an open transaction at the end.
LEMMA HorizonType ==
    ASSUME NEW L \in Seq(Records), WellFormed(L)
    PROVE  /\ Horizon(L) \in 1 .. Len(L) + 1
           /\ \/ Horizon(L) = Len(L) + 1 /\ \A t : ~InTxn(L, t, Len(L) + 1)
              \/ Horizon(L) \in 1 .. Len(L) /\ InTxn(L, Horizon(L), Len(L) + 1)
  <1>1. CASE \E t \in 1 .. Len(L) : InTxn(L, t, Len(L) + 1)
    BY <1>1, HorizonOpen
  <1>2. CASE \A t \in 1 .. Len(L) : ~InTxn(L, t, Len(L) + 1)
    <2>1. \A t : InTxn(L, t, Len(L) + 1) => t \in 1 .. (Len(L) + 1) - 1
      BY DEF InTxn
    <2>2. Len(L) \in Nat /\ (Len(L) + 1) - 1 = Len(L)
      OBVIOUS
    <2>3. QED
      BY <1>2, <2>1, <2>2, HorizonEnd
  <1>3. QED
    BY <1>1, <1>2

-----------------------------------------------------------------------------
(* The API calls that write one record.                                    *)

\* An unfinished transaction in the log is one that is open at its end.
LEMMA DanglingIs ==
    ASSUME log \in Seq(Records)
    PROVE  DanglingTxn <=> \E t \in 1 .. Len(log) : InTxn(log, t, Len(log) + 1)
  <1>1. DOMAIN log = 1 .. Len(log) /\ (Len(log) + 1) - 1 = Len(log)
    OBVIOUS
  <1>2. QED
    BY <1>1 DEF DanglingTxn, InTxn

\* What an idle session with no unfinished transaction knows.
LEMMA IdleFacts ==
    ASSUME ReopenIInv, Idle, ~DanglingTxn
    PROVE  /\ IInv /\ Agrees /\ MemType /\ RegisteredDocs /\ PrimaryOffsets
           /\ NamesAgree /\ RegisteredDefs /\ WellFormed(log)
           /\ log \in Seq(Records) /\ Len(log) \in Nat /\ DOMAIN log = 1 .. Len(log)
           /\ \A t : ~InTxn(log, t, Len(log) + 1)
           /\ Remembers(byId, primary, defs, log, Len(log) + 1)
           /\ phase = "open" /\ batch = None
  <1>1. /\ IInv /\ IndexContents /\ NamesAgree /\ RegisteredDefs /\ LogFits /\ MemoryRecorded
        /\ phase = "open" /\ batch = None
    BY DEF ReopenIInv, IndexIInv, LogAndMemory, Idle
  <1>2. /\ log \in Seq(Records) /\ MemType /\ RegisteredDocs /\ PrimaryOffsets /\ Agrees
        /\ WellFormed(log)
    BY <1>1 DEF IInv, TypeOK, MemType, IndexContents, Agrees, LogFits
  <1>3. \A t \in 1 .. Len(log) : ~InTxn(log, t, Len(log) + 1)
    BY <1>2, DanglingIs
  <1>4. Horizon(log) = Len(log) + 1
    BY <1>2, <1>3, HorizonEnd
  <1>5. Remembers(byId, primary, defs, log, Len(log) + 1)
    BY <1>1, <1>4 DEF MemoryRecorded, Applied
  <1>6. \A t : InTxn(log, t, Len(log) + 1) => t \in 1 .. Len(log)
    BY <1>2, HorizonType, <1>3
  <1>7. QED
    BY <1>1, <1>2, <1>3, <1>5, <1>6

\* What the engine checks before it appends a record to the log.
Acceptable(r) ==
    /\ r.op = "ncl1" => /\ byName[r.name] = None
                        /\ \A j \in DOMAIN log : log[j].op = "ncl1" => log[j].col # r.col
    /\ r.op \in {"dco1", "put1", "del1", "idx1", "dix1"} => byId[r.col] # None
    /\ r.op = "idx1" /\ r.def.unique => DistinctNow(r.col, r.field, r.def)
    /\ r.op = "dix1" => defs[r.col][r.field] # None

\* An acceptable record fits where it is appended.
LEMMA AcceptableFits ==
    ASSUME ReopenIInv, Idle, ~DanglingTxn, NEW r \in Records, Acceptable(r),
           r.op \notin {"txnb", "txnc"}
    PROVE  Fits(Append(log, r), Len(log) + 1)
  <1> DEFINE q == Len(log) + 1
             M == Append(log, r)
  <1>1. /\ MemType /\ NamesAgree /\ log \in Seq(Records) /\ Len(log) \in Nat
        /\ DOMAIN log = 1 .. Len(log)
        /\ KnowsNames(byId, log, q) /\ KnowsDocs(primary, log, q) /\ KnowsDefs(defs, log, q)
    BY IdleFacts DEF Remembers
  <1>2. M[q] = r /\ q \in Nat /\ q - 1 = Len(log) /\ \A i \in 1 .. q - 1 : M[i] = log[i]
    BY <1>1
  <1> HIDE DEF q, M
  <1>3. /\ \A c, n : Registered(M, c, n, q) <=> Registered(log, c, n, q)
        /\ \A c, f, def : Defined(M, c, f, def, q) <=> Defined(log, c, f, def, q)
    BY <1>2, RegisteredSame, DefinedSame
  <1>4. ASSUME r.op = "ncl1"
        PROVE  /\ \A j \in 1 .. q - 1 : M[j].op = "ncl1" => M[j].col # r.col
               /\ \A c \in ColIds : ~Registered(M, c, r.name, q)
    <2>1. r.name \in Names /\ byName[r.name] = None
      BY <1>4, RecordFields DEF Acceptable
    <2>2. \A c \in ColIds : byId[c] # r.name
      BY <1>1, <2>1, NoneAssumption DEF NamesAgree
    <2>3. QED
      BY <1>1, <1>2, <1>3, <1>4, <2>1, <2>2 DEF Acceptable, KnowsNames
  <1>5. ASSUME r.op \in {"dco1", "put1", "del1", "idx1", "dix1"}
        PROVE  \E n \in Names : Registered(M, r.col, n, q)
    <2>1. r.col \in ColIds /\ byId[r.col] \in Names
      BY <1>1, <1>5, RecordFields DEF Acceptable, MemType
    <2>2. QED
      BY <1>1, <1>3, <2>1 DEF KnowsNames
  <1>6. ASSUME r.op = "idx1", r.def.unique
        PROVE  Distinct(M, r.col, r.field, r.def, q)
    <2>1. r.col \in ColIds /\ r.field \in Fields /\ DistinctNow(r.col, r.field, r.def)
      BY <1>6, RecordFields DEF Acceptable
    <2>2. Distinct(log, r.col, r.field, r.def, q)
      BY <1>1, <1>2, <2>1, NowDistinct
    <2>3. QED
      BY <1>2, <2>2, DistinctSame
  <1>7. ASSUME r.op = "dix1"
        PROVE  \E def \in IndexDefs : Defined(M, r.col, r.field, def, q)
    <2>1. r.col \in ColIds /\ r.field \in Fields
      BY <1>7, RecordFields
    <2>2. defs[r.col][r.field] \in IndexDefs
      BY <1>1, <1>7, <2>1 DEF Acceptable, MemType
    <2>3. QED
      BY <1>1, <1>3, <2>1, <2>2 DEF KnowsDefs
  <1>8. Fits(M, q)
    BY <1>2, <1>4, <1>5, <1>6, <1>7 DEF Fits
  <1>9. QED
    BY <1>8 DEF M, q

\* A log stays fit when a record that fits is appended.
LEMMA AppendFits ==
    ASSUME NEW L \in Seq(Records), WellFormed(L), NEW r \in Records,
           Fits(Append(L, r), Len(L) + 1)
    PROVE  WellFormed(Append(L, r))
  <1> DEFINE M == Append(L, r)
  <1>1. /\ Len(L) \in Nat /\ DOMAIN M = 1 .. Len(L) + 1 /\ DOMAIN L = 1 .. Len(L)
        /\ \A i \in 1 .. Len(L) : M[i] = L[i]
    OBVIOUS
  <1> HIDE DEF M
  <1>2. ASSUME NEW q \in 1 .. Len(L) + 1
        PROVE  Fits(M, q)
    <2>1. CASE q = Len(L) + 1
      BY <2>1 DEF M
    <2>2. CASE q # Len(L) + 1
      <3>1. q \in 1 .. Len(L) /\ q \in Nat /\ q # 0 /\ \A i \in 1 .. q : i \in 1 .. Len(L)
        BY <1>1, <2>2
      <3>2. \A i \in 1 .. q : M[i] = L[i]
        BY <1>1, <3>1
      <3>3. Fits(L, q)
        BY <1>1, <3>1 DEF WellFormed
      <3>4. QED
        BY <3>1, <3>2, <3>3, FitsSame
    <2>3. QED
      BY <2>1, <2>2
  <1>3. QED
    BY <1>1, <1>2 DEF WellFormed, M

\* A session stays idle and complete when it appends an acceptable record and
\* does to memory what the record says.
LEMMA AcceptedStep ==
    ASSUME ReopenIInv, Idle, ~DanglingTxn, NEW r \in Records, Acceptable(r),
           r.op \notin {"txnb", "txnc"}, AppendOperation(r), Effect(r, Len(log) + 1)
    PROVE  LogAndMemory'
  <1> DEFINE q == Len(log) + 1
  <1>1. /\ MemType /\ NamesAgree /\ RegisteredDocs /\ RegisteredDefs /\ WellFormed(log)
        /\ log \in Seq(Records) /\ Len(log) \in Nat
        /\ Remembers(byId, primary, defs, log, q)
        /\ \A t : ~InTxn(log, t, q)
        /\ phase = "open" /\ batch = None
    BY IdleFacts
  <1>2. /\ log' = Append(log, r) /\ phase' = "open" /\ batch' = None
    BY <1>1 DEF AppendOperation
  <1>3. /\ log' \in Seq(Records) /\ Len(log') = q /\ log'[q] = r
        /\ \A i \in 1 .. q - 1 : log'[i] = log[i]
        /\ q \in Nat /\ q # 0
    BY <1>1, <1>2
  <1>4. Fits(log', q) /\ WellFormed(log')
    BY <1>1, <1>2, AcceptableFits, AppendFits
  <1> HIDE DEF q
  <1>5. Remembers(byId, primary, defs, log', q)
    BY <1>1, <1>3, RemembersSame
  <1>6. Effect(log'[q], q)
    BY <1>3 DEF q
  <1>7. Remembers(byId', primary', defs', log', q + 1) /\ NamesAgree' /\ RegisteredDefs'
    BY <1>1, <1>3, <1>4, <1>5, <1>6, EffectKnown
  <1>8. \A t : ~InTxn(log', t, q + 1)
    <2>1. \A t : ~InTxn(log', t, q)
      BY <1>1, <1>3, InTxnSame
    <2>2. QED
      BY <1>3, <2>1, InTxnNext
  <1>9. Horizon(log') = q + 1
    BY <1>3, <1>8, HorizonEnd
  <1>10. LogFits' /\ MemoryRecorded'
    BY <1>2, <1>4, <1>7, <1>9 DEF LogFits, MemoryRecorded, Applied
  <1>11. ReplayTxn' /\ AckedRecorded' /\ CompactionKeeps' /\ BatchTail' /\ BatchChecked'
    BY <1>2 DEF ReplayTxn, AckedRecorded, Up, CompactionKeeps, BatchTail, BatchChecked
  <1>12. QED
    BY <1>7, <1>10, <1>11 DEF LogAndMemory

\* The API calls that write one record, and those that only rebuild indexes.
LEMMA WriteOneLog ==
    ASSUME ReopenIInv, WriteOne, ~DanglingTxn
    PROVE  LogAndMemory' /\ phase = "open" /\ phase' = "open" /\ Idle
  <1>0. Idle
    BY DEF WriteOne, Collection, InsertOne, ReplaceOne, UpdateOne, DeleteOne, Drop,
           RecreateIndex, DropIndex, CreateIndex, RejectIndex, Live
  <1>1. /\ IInv /\ Agrees /\ MemType /\ log \in Seq(Records) /\ PrimaryOffsets
        /\ DOMAIN log = 1 .. Len(log) /\ phase = "open"
    BY <1>0, IdleFacts
  <1> DEFINE q == Len(log) + 1
  <1>2. ASSUME NEW n \in Names, NEW c \in ColIds, Collection(n, c)
        PROVE  LogAndMemory' /\ phase' = "open"
    <2> DEFINE r == NclRec(c, n)
    <2>1. r \in Records /\ r.op = "ncl1" /\ r.col = c /\ r.name = n
      BY RecordTypes DEF NclRec
    <2>2. Acceptable(r) /\ AppendOperation(r)
      BY <1>1, <1>2, <2>1 DEF Collection, Acceptable
    <2>3. Effect(r, q)
      BY <1>2, <2>1 DEF Collection, Register, Effect
    <2> HIDE DEF r
    <2>4. QED
      BY <1>0, <1>1, <2>1, <2>2, <2>3, AcceptedStep DEF AppendOperation
  <1>3. ASSUME NEW c \in ColIds, NEW d \in DocIds, NEW doc \in Docs, byId[c] # None,
               AppendOperation(PutRec(c, d, doc)), ApplyPut(c, d, q, doc)
        PROVE  LogAndMemory' /\ phase' = "open"
    <2> DEFINE r == PutRec(c, d, doc)
    <2>1. r \in Records /\ r.op = "put1" /\ r.col = c /\ r.id = d
      BY RecordTypes DEF PutRec
    <2>2. Acceptable(r) /\ AppendOperation(r)
      BY <1>3, <2>1 DEF Acceptable
    <2>3. Effect(r, q)
      BY <1>3, <2>1 DEF ApplyPut, Effect
    <2> HIDE DEF r
    <2>4. QED
      BY <1>0, <1>1, <2>1, <2>2, <2>3, AcceptedStep DEF AppendOperation
  <1>4. ASSUME NEW c \in ColIds, NEW d \in DocIds, DeleteOne(c, d)
        PROVE  LogAndMemory' /\ phase' = "open"
    <2> DEFINE r == DelRec(c, d)
    <2>1. r \in Records /\ r.op = "del1" /\ r.col = c /\ r.id = d
      BY RecordTypes DEF DelRec
    <2>2. Acceptable(r) /\ AppendOperation(r)
      BY <1>4, <2>1 DEF DeleteOne, Live, Acceptable
    <2>3. Effect(r, q)
      BY <1>4, <2>1 DEF DeleteOne, ApplyDelete, Effect
    <2> HIDE DEF r
    <2>4. QED
      BY <1>0, <1>1, <2>1, <2>2, <2>3, AcceptedStep DEF AppendOperation
  <1>5. ASSUME NEW c \in ColIds, Drop(c)
        PROVE  LogAndMemory' /\ phase' = "open"
    <2> DEFINE r == DcoRec(c)
    <2>1. r \in Records /\ r.op = "dco1" /\ r.col = c
      BY RecordTypes DEF DcoRec
    <2>2. Acceptable(r) /\ AppendOperation(r)
      BY <1>5, <2>1 DEF Drop, Live, Acceptable
    <2>3. Effect(r, q)
      BY <1>5, <2>1 DEF Drop, ApplyDrop, Effect
    <2> HIDE DEF r
    <2>4. QED
      BY <1>0, <1>1, <2>1, <2>2, <2>3, AcceptedStep DEF AppendOperation
  <1>6. ASSUME NEW c \in ColIds, NEW f \in Fields, NEW def \in IndexDefs, CreateIndex(c, f, def)
        PROVE  LogAndMemory' /\ phase' = "open"
    <2> DEFINE r == IdxRec(c, f, def)
    <2>1. r \in Records /\ r.op = "idx1" /\ r.col = c /\ r.field = f /\ r.def = def
      BY RecordTypes DEF IdxRec
    <2>2. def.unique => DistinctNow(c, f, def)
      BY <1>1, <1>6, DuplicatesNow DEF CreateIndex, Conflicting
    <2>3. Acceptable(r) /\ AppendOperation(r)
      BY <1>6, <2>1, <2>2 DEF CreateIndex, Live, Acceptable
    <2>4. Effect(r, q)
      BY <1>6, <2>1 DEF CreateIndex, ApplyCreateIndex, Effect
    <2> HIDE DEF r
    <2>5. QED
      BY <1>0, <1>1, <2>1, <2>3, <2>4, AcceptedStep DEF AppendOperation
  <1>7. ASSUME NEW c \in ColIds, NEW f \in Fields, DropIndex(c, f)
        PROVE  LogAndMemory' /\ phase' = "open"
    <2> DEFINE r == DixRec(c, f)
    <2>1. r \in Records /\ r.op = "dix1" /\ r.col = c /\ r.field = f
      BY RecordTypes DEF DixRec
    <2>2. Acceptable(r) /\ AppendOperation(r)
      BY <1>7, <2>1 DEF DropIndex, Live, Acceptable
    <2>3. Effect(r, q)
      BY <1>7, <2>1 DEF DropIndex, ApplyDropIndex, Effect
    <2> HIDE DEF r
    <2>4. QED
      BY <1>0, <1>1, <2>1, <2>2, <2>3, AcceptedStep DEF AppendOperation
  <1>8. ASSUME UNCHANGED <<log, phase, loaderVars, batch, compactVars, acked,
                           byName, byId, primary, defs>>
        PROVE  LogAndMemory' /\ phase' = "open"
    <2>1. NamesAgree' /\ RegisteredDefs' /\ LogFits'
      BY <1>8 DEF ReopenIInv, LogAndMemory, NamesAgree, RegisteredDefs, LogFits
    <2>2. MemoryRecorded'
      BY <1>1, <1>8 DEF ReopenIInv, LogAndMemory, MemoryRecorded, Applied
    <2>3. ReplayTxn' /\ AckedRecorded' /\ CompactionKeeps' /\ BatchTail' /\ BatchChecked'
      BY <1>0, <1>1, <1>8 DEF Idle, ReplayTxn, AckedRecorded, Up, CompactionKeeps,
                              BatchTail, BatchChecked
    <2>4. QED
      BY <1>1, <1>8, <2>1, <2>2, <2>3 DEF LogAndMemory
  <1>9. ASSUME NEW c \in ColIds, NEW d \in DocIds, NEW f \in Fields, NEW v \in Values,
               UpdateOne(c, d, f, v)
        PROVE  LogAndMemory' /\ phase' = "open"
    <2> DEFINE doc == [StoredDoc(c, d) EXCEPT ![f] = v]
    <2>1. AppendOperation(PutRec(c, d, doc)) /\ ApplyPut(c, d, q, doc) /\ byId[c] # None
      BY <1>9 DEF UpdateOne, Live
    <2>2. StoredDoc(c, d) \in Docs
      BY <1>1, <1>9, StoredDocType DEF UpdateOne
    <2>3. doc \in Docs
      BY <2>2 DEF Docs
    <2>4. QED
      BY <1>3, <2>1, <2>3
  <1>10. ASSUME NEW c \in ColIds, NEW f \in Fields, RecreateIndex(c, f)
         PROVE  LogAndMemory' /\ phase' = "open"
    <2>1. defs' = [defs EXCEPT ![c] = [defs[c] EXCEPT ![f] = defs[c][f]]]
      BY <1>10 DEF RecreateIndex, ApplyCreateIndex
    <2>2. defs' = defs
      <3>1. defs \in [ColIds -> [Fields -> IndexDefs \cup {None}]]
        BY <1>1 DEF MemType
      <3>2. [defs[c] EXCEPT ![f] = defs[c][f]] = defs[c]
        BY <3>1
      <3>3. QED
        BY <2>1, <3>1, <3>2
    <2>3. QED
      BY <1>8, <1>10, <2>2 DEF RecreateIndex, ApplyCreateIndex
  <1>11. ASSUME NEW c \in ColIds, NEW f \in Fields, NEW def \in IndexDefs,
                RejectIndex(c, f, def)
         PROVE  LogAndMemory' /\ phase' = "open"
    BY <1>8, <1>11 DEF RejectIndex
  <1>12. ASSUME NEW c \in ColIds, NEW d \in DocIds, NEW doc \in Docs,
                InsertOne(c, d, doc) \/ ReplaceOne(c, d, doc)
         PROVE  LogAndMemory' /\ phase' = "open"
    BY <1>3, <1>12 DEF InsertOne, ReplaceOne, Live
  <1>13. QED
    BY <1>0, <1>1, <1>2, <1>4, <1>5, <1>6, <1>7, <1>9, <1>10, <1>11, <1>12 DEF WriteOne

-----------------------------------------------------------------------------
(* Each call is one step of the abstract store.                            *)

\* A call that touches one registered collection changes what callers read of
\* it and of no other.
LEMMA ViewChanged ==
    ASSUME IInv, NamesAgree, LogGrows, byName' = byName, NEW c \in ColIds, byId[c] \in Names,
           \A e \in ColIds \ {c} : primary'[e] = primary[e] /\ defs'[e] = defs[e]
    PROVE  /\ View' = [View EXCEPT ![byId[c]] = Contents(c)']
           /\ View[byId[c]] = Contents(c)
  <1>1. /\ byName \in [Names -> ColIds \cup {None}] /\ c # None
        /\ byName[byId[c]] = c
    BY NoneAssumption DEF IInv, TypeOK, NamesAgree
  <1>2. ASSUME NEW e \in ColIds, e # c
        PROVE  Contents(e)' = Contents(e)
    <2>1. primary'[e] = primary[e] /\ defs'[e] = defs[e]
      BY <1>2
    <2>2. \A d \in DocIds : primary[e][d] # 0 => StoredDoc(e, d)' = StoredDoc(e, d)
      BY <2>1, StoredSame
    <2>3. QED
      BY <2>1, <2>2 DEF Contents
  <1>3. ASSUME NEW n \in Names
        PROVE  View'[n] = IF n = byId[c] THEN Contents(c)' ELSE View[n]
    <2>1. View'[n] = IF byName[n] = None THEN None ELSE Contents(byName[n])'
      BY DEF View, Contents, StoredDoc
    <2>2. CASE n = byId[c]
      BY <1>1, <2>1, <2>2
    <2>3. CASE n # byId[c]
      <3>1. byName[n] # c
        BY <2>3 DEF NamesAgree
      <3>2. QED
        BY <1>1, <1>2, <2>1, <2>3, <3>1, ViewAt
    <2>4. QED
      BY <2>2, <2>3
  <1>4. DOMAIN View = Names /\ View' = [n \in Names |-> View'[n]] /\ View = [n \in Names |-> View[n]]
    BY DEF View
  <1>5. View' = [View EXCEPT ![byId[c]] = Contents(c)']
    BY <1>3, <1>4
  <1>6. QED
    BY <1>1, <1>5, ViewAt

\* A current document whose field an index takes is in that index.
LEMMA StoredHeld ==
    ASSUME IInv, Agrees, NEW c \in ColIds, NEW f \in Fields, NEW d \in DocIds,
           primary[c][d] # 0, Indexable(defs[c][f], StoredDoc(c, d)[f])
    PROVE  Holds(entries[c], f, d, StoredDoc(c, d)[f])
  <1> DEFINE entry == [key |-> StoredDoc(c, d)[f], off |-> primary[c][d]]
  <1>1. StoredDoc(c, d) \in Docs /\ primary[c][d] \in Nat
    BY StoredDocType DEF IInv, TypeOK
  <1>2. StoredDoc(c, d)[f] \in Values
    BY <1>1 DEF Docs
  <1>3. entry \in [key : Values, off : Nat]
    BY <1>1, <1>2
  <1>4. entry # None /\ entry.key = StoredDoc(c, d)[f]
    BY <1>3, AbsentAssumption
  <1>5. entries[c][f][d] = entry
    BY DEF Agrees, Indexed, Entry
  <1> HIDE DEF entry
  <1>6. QED
    BY <1>4, <1>5 DEF Holds

\* Documents that pass the check of the unique indexes, together, keep the
\* collection consistent once they are encoded.
LEMMA PutsConsistent ==
    ASSUME IndexablesKept, IInv, Agrees, NEW c \in ColIds, Promise!Consistent(Contents(c)),
           NEW S \in SUBSET DocIds, NEW new \in [S -> Docs],
           \A d \in S, f \in Fields :
               UniqueOn(c, f, new[d][f]) => ~Owned(c, f, new[d][f], {d}),
           \A d, e \in S, f \in Fields :
               d # e /\ UniqueOn(c, f, new[d][f]) => new[e][f] # new[d][f]
    PROVE  Promise!Consistent(
               [docs |-> [d \in DocIds |-> IF d \in S THEN Encode(new[d])
                                           ELSE Contents(c).docs[d]],
                defs |-> defs[c]])
  <1> DEFINE docs == [d \in DocIds |-> IF d \in S THEN Encode(new[d]) ELSE Contents(c).docs[d]]
             col == [docs |-> docs, defs |-> defs[c]]
  <1>1. MemType /\ log \in Seq(Records) /\ PrimaryOffsets
    BY DEF IInv, TypeOK, MemType
  <1>2. defs[c] \in [Fields -> IndexDefs \cup {None}] /\ Contents(c).defs = defs[c]
    BY <1>1 DEF MemType, Contents
  <1>3. ASSUME NEW d \in S
        PROVE  docs[d] = Encode(new[d]) /\ d \in DocIds
    OBVIOUS
  <1>4. ASSUME NEW d \in DocIds, d \notin S
        PROVE  /\ docs[d] = Contents(c).docs[d]
               /\ docs[d] # None => primary[c][d] # 0 /\ docs[d] = StoredDoc(c, d)
    BY <1>4 DEF Contents
  <1>5. ASSUME NEW d \in S, NEW f \in Fields, defs[c][f] # None,
               Kind[docs[d][f]] = defs[c][f].type
        PROVE  docs[d][f] = new[d][f] /\ (defs[c][f].unique => UniqueOn(c, f, new[d][f]))
    <2>1. new[d] \in Docs /\ new[d][f] \in Values
      BY DEF Docs
    <2>2. docs[d][f] = Stored[new[d][f]]
      BY <1>3 DEF Encode
    <2>3. defs[c][f].type # "other"
      <3>1. defs[c][f] \in IndexDefs
        BY <1>2, <1>5
      <3>2. QED
        BY <3>1, ValuesAssumption DEF IndexTypes
    <2>4. Stored[new[d][f]] = new[d][f]
      BY <1>5, <2>1, <2>2, <2>3 DEF IndexablesKept
    <2> HIDE DEF docs
    <2>5. QED
      BY <1>5, <2>2, <2>4 DEF UniqueOn, Indexable
  <1>6. ASSUME NEW d \in S, NEW e \in DocIds, e \notin S, NEW f \in Fields, docs[e] # None,
               defs[c][f] # None, defs[c][f].unique, Kind[docs[d][f]] = defs[c][f].type,
               docs[d][f] = docs[e][f]
        PROVE  FALSE
    <2>1. docs[d][f] = new[d][f] /\ UniqueOn(c, f, new[d][f])
      BY <1>5, <1>6
    <2>2. primary[c][e] # 0 /\ docs[e] = StoredDoc(c, e)
      BY <1>4, <1>6
    <2> HIDE DEF docs
    <2>3. Holds(entries[c], f, e, new[d][f])
      <3>1. StoredDoc(c, e)[f] = new[d][f] /\ Kind[StoredDoc(c, e)[f]] = defs[c][f].type
        BY <1>6, <2>1, <2>2
      <3>2. Indexable(defs[c][f], StoredDoc(c, e)[f])
        BY <1>6, <3>1 DEF Indexable
      <3>3. Holds(entries[c], f, e, StoredDoc(c, e)[f])
        BY <2>2, <3>2, StoredHeld
      <3>4. QED
        BY <3>1, <3>3
    <2>4. e \in DocIds \ {d}
      BY <1>6
    <2>5. QED
      BY <2>1, <2>3, <2>4 DEF Owned
  <1> HIDE DEF docs
  <1> SUFFICES ASSUME NEW f \in Fields, NEW d \in DocIds, NEW e \in DocIds,
                      defs[c][f] # None, defs[c][f].unique, d # e,
                      docs[d] # None, docs[e] # None,
                      Kind[docs[d][f]] = defs[c][f].type, docs[d][f] = docs[e][f]
               PROVE  FALSE
    BY DEF Promise!Consistent, docs
  <1>7. CASE d \in S /\ e \in S
    BY <1>5, <1>7
  <1>8. CASE d \in S /\ e \notin S
    BY <1>6, <1>8
  <1>9. CASE d \notin S /\ e \in S
    BY <1>6, <1>9
  <1>10. CASE d \notin S /\ e \notin S
    <2>1. docs[d] = Contents(c).docs[d] /\ docs[e] = Contents(c).docs[e]
      BY <1>4, <1>10
    <2>2. QED
      BY <1>2, <2>1 DEF Promise!Consistent
  <1>11. QED
    BY <1>7, <1>8, <1>9, <1>10

\* What the abstract store holds while a session is up.
LEMMA StoreUp == ASSUME Up, Up' PROVE Store = View /\ Store' = View'
  BY DEF Store

\* A change of the view of one collection is a call of the abstract store.
LEMMA PutPromise ==
    ASSUME Up, Up', View \in Views, NEW n \in Names, View[n] # None,
           NEW S \in SUBSET DocIds, S # {}, NEW new \in [S -> Docs], NEW col,
           View' = [View EXCEPT ![n] = col], Promise!Consistent(col),
           col = [docs |-> [d \in DocIds |-> IF d \in S THEN new[d] ELSE View[n].docs[d]],
                  defs |-> View[n].defs]
    PROVE  Promise!Put(n, S)
  <1>1. View[n] \in [docs : [DocIds -> Docs \cup {None}], defs : [Fields -> IndexDefs \cup {None}]]
    BY DEF Views
  <1>2. col = [View[n] EXCEPT !.docs = [d \in DocIds |-> IF d \in S THEN new[d] ELSE @[d]]]
    BY <1>1
  <1>3. Store = View /\ Store' = View'
    BY StoreUp
  <1>4. Store' = [Store EXCEPT ![n].docs = [d \in DocIds |-> IF d \in S THEN new[d] ELSE @[d]]]
    <2>1. Store' = [Store EXCEPT ![n] = col] /\ Store[n] = View[n]
      BY <1>3
    <2>2. col = [Store[n] EXCEPT !.docs = [d \in DocIds |-> IF d \in S THEN new[d] ELSE @[d]]]
      BY <1>1, <2>1
    <2>3. QED
      BY <2>1, <2>2
  <1>5. Promise!Consistent(Store'[n])
    <2>1. Store'[n] = col
      BY <1>3 DEF Views
    <2>2. QED
      BY <2>1
  <1>6. new \in [S -> Promise!Docs]
    BY DEF Promise!Docs, Docs
  <1>7. QED
    BY <1>3, <1>4, <1>5, <1>6 DEF Promise!Put

\* A step that removes documents of a collection is a Delete of the store.
LEMMA DeletePromise ==
    ASSUME Up, Up', View \in Views, NEW n \in Names, View[n] # None,
           NEW S \in SUBSET DocIds, S # {}, \A d \in S : View[n].docs[d] # None, NEW col,
           View' = [View EXCEPT ![n] = col],
           col = [docs |-> [d \in DocIds |-> IF d \in S THEN None ELSE View[n].docs[d]],
                  defs |-> View[n].defs]
    PROVE  Promise!Delete(n, S)
  <1>1. View[n] \in [docs : [DocIds -> Docs \cup {None}], defs : [Fields -> IndexDefs \cup {None}]]
    BY DEF Views
  <1>2. col = [View[n] EXCEPT !.docs = [d \in DocIds |-> IF d \in S THEN None ELSE @[d]]]
    BY <1>1
  <1>3. View' = [View EXCEPT ![n].docs = [d \in DocIds |-> IF d \in S THEN None ELSE @[d]]]
    BY <1>2
  <1>4. QED
    BY <1>3, StoreUp DEF Promise!Delete

\* A step that changes the definition of one field is an AddIndex or a RemoveIndex.
LEMMA IndexPromise ==
    ASSUME Up, Up', View \in Views, NEW n \in Names, View[n] # None, NEW f \in Fields,
           NEW def, NEW col, View' = [View EXCEPT ![n] = col],
           col = [docs |-> View[n].docs, defs |-> [View[n].defs EXCEPT ![f] = def]]
    PROVE  /\ View[n].defs[f] = None /\ Promise!Consistent(col) => Promise!AddIndex(n, f, def)
           /\ View[n].defs[f] # None /\ def = None => Promise!RemoveIndex(n, f)
  <1>1. View[n] \in [docs : [DocIds -> Docs \cup {None}], defs : [Fields -> IndexDefs \cup {None}]]
    BY DEF Views
  <1>2. col = [View[n] EXCEPT !.defs[f] = def]
    BY <1>1
  <1>3. View' = [View EXCEPT ![n].defs[f] = def]
    BY <1>2
  <1>4. View'[n] = col
    BY DEF Views
  <1>5. QED
    BY <1>3, <1>4, StoreUp DEF Promise!AddIndex, Promise!RemoveIndex

\* A collection whose memory does not change reads the same while the log grows.
LEMMA ContentsSame ==
    ASSUME IInv, LogGrows, NEW c \in ColIds, primary'[c] = primary[c], defs'[c] = defs[c]
    PROVE  Contents(c)' = Contents(c)
  <1>1. \A d \in DocIds : primary[c][d] # 0 => StoredDoc(c, d)' = StoredDoc(c, d)
    BY StoredSame
  <1>2. QED
    BY <1>1 DEF Contents

\* What callers read next under a name.
LEMMA NextViewAt ==
    ASSUME NEW n \in Names, NEW c, byName'[n] = c
    PROVE  View'[n] = IF c = None THEN None ELSE Contents(c)'
  BY DEF View, Contents, StoredDoc

\* collection() of a free name is Create.
LEMMA CreateRefines ==
    ASSUME ReopenIInv, Idle, ~DanglingTxn, NEW n \in Names, NEW c \in ColIds, Collection(n, c)
    PROVE  Promise!Create(n)
  <1>1. /\ IInv /\ NamesAgree /\ log \in Seq(Records)
        /\ byName \in [Names -> ColIds \cup {None}] /\ primary \in [ColIds -> [DocIds -> Nat]]
        /\ defs \in [ColIds -> [Fields -> IndexDefs \cup {None}]]
        /\ Up
    BY IdleFacts DEF MemType, Up
  <1>2. /\ log' = Append(log, NclRec(c, n)) /\ phase' = phase
        /\ byName[n] = None /\ byId[c] = None
        /\ byName' = [byName EXCEPT ![n] = c]
        /\ primary' = [primary EXCEPT ![c] = NoDocs]
        /\ defs' = [defs EXCEPT ![c] = NoDefs]
    BY DEF Collection, AppendOperation, Register
  <1>3. LogGrows
    BY <1>2, RecordTypes DEF LogGrows
  <1>4. Up' /\ Store = View /\ Store' = View'
    BY <1>1, <1>2, StoreUp DEF Up
  <1>5. Contents(c)' = Promise!Empty
    BY <1>1, <1>2 DEF Contents, NoDocs, NoDefs, Promise!Empty
  <1>6. ASSUME NEW m \in Names
        PROVE  View'[m] = IF m = n THEN Promise!Empty ELSE View[m]
    <2>1. CASE m = n
      <3>1. byName'[m] = c
        BY <1>1, <1>2, <2>1
      <3>2. View'[m] = Contents(c)'
        BY <3>1, NextViewAt, NoneAssumption
      <3>3. QED
        BY <1>5, <2>1, <3>2
    <2>2. CASE m # n
      <3>1. PICK e \in ColIds \cup {None} : byName[m] = e
        BY <1>1
      <3>2. byName'[m] = e /\ e # c
        BY <1>1, <1>2, <2>2, <3>1, NoneAssumption DEF NamesAgree
      <3>3. e # None => Contents(e)' = Contents(e)
        <4>1. e # None => primary'[e] = primary[e] /\ defs'[e] = defs[e]
          BY <1>1, <1>2, <3>2
        <4>2. QED
          BY <1>1, <1>3, <4>1, ContentsSame
      <3>4. View'[m] = IF e = None THEN None ELSE Contents(e)'
        BY <3>2, NextViewAt
      <3>5. View[m] = IF e = None THEN None ELSE Contents(e)
        BY <3>1, ViewAt
      <3>6. QED
        BY <2>2, <3>3, <3>4, <3>5
    <2>3. QED
      BY <2>1, <2>2
  <1>7. /\ View = [m \in Names |-> View[m]] /\ View' = [m \in Names |-> View'[m]]
        /\ View[n] = None
    BY <1>2 DEF View
  <1>8. View' = [View EXCEPT ![n] = Promise!Empty]
    BY <1>6, <1>7
  <1>9. QED
    BY <1>4, <1>7, <1>8 DEF Promise!Create

\* drop() is DropCollection.
LEMMA DropRefines ==
    ASSUME ReopenIInv, Idle, ~DanglingTxn, NEW c \in ColIds, Drop(c)
    PROVE  byId[c] \in Names /\ Promise!DropCollection(byId[c])
  <1>1. /\ IInv /\ NamesAgree /\ MemType /\ log \in Seq(Records) /\ PrimaryOffsets
        /\ byName \in [Names -> ColIds \cup {None}] /\ byId \in [ColIds -> Names \cup {None}]
        /\ primary \in [ColIds -> [DocIds -> Nat]]
        /\ defs \in [ColIds -> [Fields -> IndexDefs \cup {None}]]
        /\ Up
    BY IdleFacts DEF MemType, Up
  <1> DEFINE n == byId[c]
  <1>2. /\ log' = Append(log, DcoRec(c)) /\ phase' = phase /\ n # None
        /\ byName' = [byName EXCEPT ![n] = None]
        /\ primary' = [primary EXCEPT ![c] = NoDocs]
        /\ defs' = [defs EXCEPT ![c] = NoDefs]
    BY DEF Drop, Live, AppendOperation, ApplyDrop
  <1>3. LogGrows /\ n \in Names /\ byName[n] = c
    BY <1>1, <1>2, RecordTypes DEF LogGrows, NamesAgree
  <1>4. Up' /\ Store = View /\ Store' = View'
    BY <1>1, <1>2, StoreUp DEF Up
  <1>5. ASSUME NEW m \in Names
        PROVE  View'[m] = IF m = n THEN None ELSE View[m]
    <2>1. CASE m = n
      <3>1. byName'[m] = None
        BY <1>1, <1>2, <2>1
      <3>2. QED
        BY <2>1, <3>1, NextViewAt
    <2>2. CASE m # n
      <3>1. PICK e \in ColIds \cup {None} : byName[m] = e
        BY <1>1
      <3>2. byName'[m] = e /\ e # c
        BY <1>1, <1>2, <2>2, <3>1, NoneAssumption DEF NamesAgree
      <3>3. e # None => Contents(e)' = Contents(e)
        <4>1. e # None => primary'[e] = primary[e] /\ defs'[e] = defs[e]
          BY <1>1, <1>2, <3>2
        <4>2. QED
          BY <1>1, <1>3, <4>1, ContentsSame
      <3>4. View'[m] = IF e = None THEN None ELSE Contents(e)'
        BY <3>2, NextViewAt
      <3>5. View[m] = IF e = None THEN None ELSE Contents(e)
        BY <3>1, ViewAt
      <3>6. QED
        BY <2>2, <3>3, <3>4, <3>5
    <2>3. QED
      BY <2>1, <2>2
  <1>6. /\ View = [m \in Names |-> View[m]] /\ View' = [m \in Names |-> View'[m]]
    BY DEF View
  <1> HIDE DEF n
  <1>7. View' = [View EXCEPT ![n] = None]
    BY <1>5, <1>6
  <1>8. View[n] # None
    <2>1. View[n] = Contents(c)
      BY <1>3, ViewAt, NoneAssumption
    <2>2. QED
      BY <1>1, <2>1, ContentsType
  <1>9. n \in Names /\ Promise!DropCollection(n)
    BY <1>3, <1>4, <1>7, <1>8 DEF Promise!DropCollection
  <1>10. QED
    BY <1>9 DEF n

\* What a call that keeps the names may use about its collection.
LEMMA CallFacts ==
    ASSUME IInv, NamesAgree, StoreConsistent, Up, NEW c \in ColIds, byId[c] # None
    PROVE  /\ byId[c] \in Names /\ View \in Views
           /\ View[byId[c]] = Contents(c) /\ View[byId[c]] # None
           /\ Promise!Consistent(Contents(c))
  <1>1. MemType /\ log \in Seq(Records) /\ PrimaryOffsets
    BY DEF IInv, TypeOK, MemType
  <1>2. byId[c] \in Names
    BY <1>1 DEF MemType
  <1>3. byName[byId[c]] = c
    BY <1>2 DEF NamesAgree
  <1>4. View[byId[c]] = Contents(c)
    BY <1>2, <1>3, ViewAt, NoneAssumption
  <1>5. View[byId[c]] # None
    BY <1>1, <1>4, ContentsType
  <1>6. Store = View
    BY DEF Store
  <1>7. QED
    BY <1>1, <1>2, <1>4, <1>5, <1>6, ViewType DEF StoreConsistent

\* insertOne, replaceOne and updateOne are Put of one document.
LEMMA PutRefines ==
    ASSUME IndexablesKept, ReopenIInv, Idle, ~DanglingTxn,
           NEW c \in ColIds, NEW d \in DocIds, NEW doc \in Docs, byId[c] # None,
           AssertUnique(c, doc, {d}), AppendOperation(PutRec(c, d, doc)),
           ApplyPut(c, d, Len(log) + 1, doc)
    PROVE  byId[c] \in Names /\ Promise!Put(byId[c], {d})
  <1> DEFINE n == byId[c]
             new == [g \in {d} |-> doc]
             stored == [g \in {d} |-> Encode(doc)]
             col == [docs |-> [g \in DocIds |-> IF g \in {d} THEN Encode(new[g])
                                                ELSE Contents(c).docs[g]],
                     defs |-> defs[c]]
  <1>1. /\ IInv /\ Agrees /\ NamesAgree /\ StoreConsistent /\ log \in Seq(Records)
        /\ primary \in [ColIds -> [DocIds -> Nat]] /\ Len(log) \in Nat /\ phase = "open"
    BY IdleFacts DEF MemType, ReopenIInv
  <1>2. Up
    BY <1>1 DEF Up
  <1>3. /\ n \in Names /\ View \in Views /\ View[n] = Contents(c) /\ View[n] # None
        /\ Promise!Consistent(Contents(c))
    BY <1>1, <1>2, CallFacts
  <1>4. /\ log' = Append(log, PutRec(c, d, doc)) /\ phase' = phase
        /\ primary' = [primary EXCEPT ![c][d] = Len(log) + 1]
        /\ byName' = byName /\ defs' = defs
    BY DEF AppendOperation, ApplyPut
  <1>5. LogGrows /\ log'[Len(log) + 1].doc = Encode(doc) /\ Up'
    BY <1>1, <1>4, RecordTypes DEF LogGrows, PutRec, Up
  <1>6. View' = [View EXCEPT ![n] = Contents(c)']
    BY <1>1, <1>3, <1>4, <1>5, ViewChanged
  <1>7. Contents(c)' = col
    <2>1. primary'[c][d] = Len(log) + 1 /\ StoredDoc(c, d)' = Encode(doc)
      BY <1>1, <1>4, <1>5 DEF StoredDoc
    <2>2. ASSUME NEW g \in DocIds, g # d
          PROVE  /\ primary'[c][g] = primary[c][g]
                 /\ primary[c][g] # 0 => StoredDoc(c, g)' = StoredDoc(c, g)
      <3>1. primary'[c][g] = primary[c][g]
        BY <1>1, <1>4, <2>2
      <3>2. QED
        BY <1>1, <1>5, <3>1, StoredSame
    <2>3. Len(log) + 1 # 0
      BY <1>1
    <2>4. QED
      BY <1>4, <2>1, <2>2, <2>3 DEF Contents
  <1>8. Promise!Consistent(col)
    <2>1. new \in [{d} -> Docs] /\ {d} \in SUBSET DocIds
      OBVIOUS
    <2>2. \A g \in {d}, f \in Fields :
              UniqueOn(c, f, new[g][f]) => ~Owned(c, f, new[g][f], {g})
      BY DEF AssertUnique
    <2>3. \A g, e \in {d}, f \in Fields :
              g # e /\ UniqueOn(c, f, new[g][f]) => new[e][f] # new[g][f]
      OBVIOUS
    <2> HIDE DEF new
    <2>4. QED
      BY <1>1, <1>3, <2>1, <2>2, <2>3, PutsConsistent
  <1>9. col = [docs |-> [g \in DocIds |-> IF g \in {d} THEN stored[g] ELSE View[n].docs[g]],
               defs |-> View[n].defs]
    BY <1>3 DEF Contents
  <1>10. stored \in [{d} -> Docs] /\ {d} \in SUBSET DocIds /\ {d} # {}
    BY EncodeType
  <1> HIDE DEF stored, col, n
  <1>11. Promise!Put(n, {d})
    BY <1>2, <1>3, <1>5, <1>6, <1>7, <1>8, <1>9, <1>10, PutPromise
  <1>12. QED
    BY <1>3, <1>11 DEF n

\* deleteOne is Delete of one document.
LEMMA DeleteRefines ==
    ASSUME ReopenIInv, Idle, ~DanglingTxn, NEW c \in ColIds, NEW d \in DocIds, DeleteOne(c, d)
    PROVE  byId[c] \in Names /\ Promise!Delete(byId[c], {d})
  <1> DEFINE n == byId[c]
             col == [docs |-> [g \in DocIds |-> IF g \in {d} THEN None
                                                ELSE Contents(c).docs[g]],
                     defs |-> defs[c]]
  <1>1. /\ IInv /\ Agrees /\ NamesAgree /\ StoreConsistent /\ log \in Seq(Records) /\ MemType
        /\ primary \in [ColIds -> [DocIds -> Nat]] /\ phase = "open" /\ PrimaryOffsets
    BY IdleFacts DEF MemType, ReopenIInv
  <1>2. /\ log' = Append(log, DelRec(c, d)) /\ phase' = phase
        /\ primary' = [primary EXCEPT ![c][d] = 0]
        /\ byName' = byName /\ defs' = defs
        /\ byId[c] # None /\ primary[c][d] # 0
    BY DEF DeleteOne, Live, AppendOperation, ApplyDelete
  <1>3. Up /\ Up' /\ LogGrows
    BY <1>1, <1>2, RecordTypes DEF Up, LogGrows
  <1>4. n \in Names /\ View \in Views /\ View[n] = Contents(c) /\ View[n] # None
    BY <1>1, <1>2, <1>3, CallFacts
  <1>5. View' = [View EXCEPT ![n] = Contents(c)']
    BY <1>1, <1>2, <1>3, <1>4, ViewChanged
  <1>6. Contents(c)' = col
    <2>1. primary'[c][d] = 0
      BY <1>1, <1>2
    <2>2. ASSUME NEW g \in DocIds, g # d
          PROVE  /\ primary'[c][g] = primary[c][g]
                 /\ primary[c][g] # 0 => StoredDoc(c, g)' = StoredDoc(c, g)
      <3>1. primary'[c][g] = primary[c][g]
        BY <1>1, <1>2, <2>2
      <3>2. QED
        BY <1>1, <1>3, <3>1, StoredSame
    <2>3. QED
      BY <1>2, <2>1, <2>2 DEF Contents
  <1>7. col = [docs |-> [g \in DocIds |-> IF g \in {d} THEN None ELSE View[n].docs[g]],
               defs |-> View[n].defs]
    BY <1>4 DEF Contents
  <1>8. \A g \in {d} : View[n].docs[g] # None
    BY <1>1, <1>2, <1>4, ContentsType
  <1>9. {d} \in SUBSET DocIds /\ {d} # {}
    OBVIOUS
  <1> HIDE DEF col, n
  <1>10. Promise!Delete(n, {d})
    BY <1>3, <1>4, <1>5, <1>6, <1>7, <1>8, <1>9, DeletePromise
  <1>11. QED
    BY <1>4, <1>10 DEF n

\* A new index that the documents satisfy keeps the collection consistent.
LEMMA IndexConsistent ==
    ASSUME MemType, log \in Seq(Records), PrimaryOffsets,
           NEW c \in ColIds, NEW f \in Fields, NEW def \in IndexDefs,
           Promise!Consistent(Contents(c)), def.unique => DistinctNow(c, f, def)
    PROVE  Promise!Consistent([docs |-> Contents(c).docs, defs |-> [defs[c] EXCEPT ![f] = def]])
  <1> DEFINE col == [docs |-> Contents(c).docs, defs |-> [defs[c] EXCEPT ![f] = def]]
  <1>1. /\ col.docs = Contents(c).docs
        /\ \A g \in Fields : col.defs[g] = IF g = f THEN def ELSE Contents(c).defs[g]
    BY DEF Contents, MemType
  <1>2. \A d \in DocIds : Contents(c).docs[d] # None <=> primary[c][d] # 0
    BY ContentsType
  <1>3. \A d \in DocIds : primary[c][d] # 0 => Contents(c).docs[d] = StoredDoc(c, d)
    BY DEF Contents
  <1> HIDE DEF col
  <1>4. def # None
    BY NoneAssumption
  <1> SUFFICES ASSUME NEW g \in Fields, NEW d \in DocIds, NEW e \in DocIds,
                      col.defs[g] # None, col.defs[g].unique, d # e,
                      col.docs[d] # None, col.docs[e] # None,
                      Kind[col.docs[d][g]] = col.defs[g].type
               PROVE  col.docs[d][g] # col.docs[e][g]
    BY DEF Promise!Consistent, col
  <1>5. CASE g = f
    <2>1. /\ primary[c][d] # 0 /\ col.docs[d] = StoredDoc(c, d)
          /\ primary[c][e] # 0 /\ col.docs[e] = StoredDoc(c, e)
          /\ col.defs[g] = def
      BY <1>1, <1>2, <1>3, <1>5
    <2>2. QED
      BY <1>4, <1>5, <2>1 DEF DistinctNow, Indexable
  <1>6. CASE g # f
    BY <1>1, <1>6 DEF Promise!Consistent
  <1>7. QED
    BY <1>5, <1>6

\* createIndex and dropIndex are AddIndex and RemoveIndex.
LEMMA IndexRefines ==
    ASSUME ReopenIInv, Idle, ~DanglingTxn, NEW c \in ColIds, NEW f \in Fields
    PROVE  /\ \A def \in IndexDefs : CreateIndex(c, f, def) =>
                  byId[c] \in Names /\ Promise!AddIndex(byId[c], f, def)
           /\ DropIndex(c, f) => byId[c] \in Names /\ Promise!RemoveIndex(byId[c], f)
  <1> DEFINE n == byId[c]
  <1>1. /\ IInv /\ Agrees /\ NamesAgree /\ StoreConsistent /\ log \in Seq(Records) /\ MemType
        /\ defs \in [ColIds -> [Fields -> IndexDefs \cup {None}]] /\ PrimaryOffsets
        /\ phase = "open"
    BY IdleFacts DEF MemType, ReopenIInv
  <1>2. ASSUME NEW r \in Records, NEW def \in IndexDefs \cup {None}, AppendOperation(r),
               byId[c] # None, byName' = byName, primary' = primary,
               defs' = [defs EXCEPT ![c] = [defs[c] EXCEPT ![f] = def]]
        PROVE  /\ n \in Names
               /\ defs[c][f] = None /\ Promise!Consistent(Contents(c)') => Promise!AddIndex(n, f, def)
               /\ defs[c][f] # None /\ def = None => Promise!RemoveIndex(n, f)
    <2>1. log' = Append(log, r) /\ phase' = phase
      BY <1>2 DEF AppendOperation
    <2>2. Up /\ Up' /\ LogGrows
      BY <1>1, <2>1 DEF Up, LogGrows
    <2>3. n \in Names /\ View \in Views /\ View[n] = Contents(c) /\ View[n] # None
      BY <1>1, <1>2, <2>2, CallFacts
    <2>4. \A e \in ColIds \ {c} : primary'[e] = primary[e] /\ defs'[e] = defs[e]
      BY <1>1, <1>2
    <2>5. View' = [View EXCEPT ![n] = Contents(c)']
      BY <1>1, <1>2, <2>2, <2>3, <2>4, ViewChanged
    <2>6. Contents(c)' = [docs |-> View[n].docs, defs |-> [View[n].defs EXCEPT ![f] = def]]
      <3>1. \A d \in DocIds : primary[c][d] # 0 => StoredDoc(c, d)' = StoredDoc(c, d)
        BY <1>1, <1>2, <2>2, StoredSame
      <3>2. defs'[c] = [defs[c] EXCEPT ![f] = def]
        BY <1>1, <1>2
      <3>3. QED
        BY <1>2, <2>3, <3>1, <3>2 DEF Contents
    <2>7. PICK col : col = Contents(c)'
      OBVIOUS
    <2>8. View[n].defs[f] = defs[c][f]
      BY <2>3 DEF Contents
    <2> HIDE DEF n
    <2>9. /\ View[n].defs[f] = None /\ Promise!Consistent(col) => Promise!AddIndex(n, f, def)
          /\ View[n].defs[f] # None /\ def = None => Promise!RemoveIndex(n, f)
      BY <2>2, <2>3, <2>5, <2>6, <2>7, IndexPromise
    <2>10. QED
      BY <2>3, <2>7, <2>8, <2>9
  <1>3. ASSUME NEW def \in IndexDefs, CreateIndex(c, f, def)
        PROVE  n \in Names /\ Promise!AddIndex(n, f, def)
    <2>1. /\ AppendOperation(IdxRec(c, f, def)) /\ IdxRec(c, f, def) \in Records
          /\ byId[c] # None /\ byName' = byName /\ primary' = primary
          /\ defs' = [defs EXCEPT ![c] = [defs[c] EXCEPT ![f] = def]]
          /\ defs[c][f] = None /\ ~Conflicting(c, f, def)
      BY <1>3, RecordTypes DEF CreateIndex, Live, ApplyCreateIndex
    <2>2. log' = Append(log, IdxRec(c, f, def)) /\ log' \in Seq(Records) /\ LogGrows
      BY <1>1, <2>1 DEF AppendOperation, LogGrows
    <2>3. \A d \in DocIds : primary[c][d] # 0 => StoredDoc(c, d)' = StoredDoc(c, d)
      BY <1>1, <2>1, <2>2, StoredSame
    <2>4. def.unique => DistinctNow(c, f, def)
      BY <1>1, <2>1, DuplicatesNow DEF Conflicting
    <2>5. Promise!Consistent(Contents(c))
      BY <1>1, <2>1, CallFacts DEF Up
    <2>6. Contents(c)' = [docs |-> Contents(c).docs, defs |-> [defs[c] EXCEPT ![f] = def]]
      BY <1>1, <2>1, <2>3 DEF Contents
    <2>7. Promise!Consistent(Contents(c)')
      BY <1>1, <2>4, <2>5, <2>6, IndexConsistent
    <2>8. QED
      BY <1>2, <2>1, <2>7
  <1>4. ASSUME DropIndex(c, f)
        PROVE  n \in Names /\ Promise!RemoveIndex(n, f)
    <2>1. /\ AppendOperation(DixRec(c, f)) /\ DixRec(c, f) \in Records
          /\ byId[c] # None /\ byName' = byName /\ primary' = primary
          /\ defs' = [defs EXCEPT ![c][f] = None] /\ defs[c][f] # None
      BY <1>4, RecordTypes DEF DropIndex, Live, ApplyDropIndex
    <2>2. defs' = [defs EXCEPT ![c] = [defs[c] EXCEPT ![f] = None]]
      BY <2>1
    <2>3. QED
      BY <1>2, <2>1, <2>2
  <1>5. QED
    BY <1>3, <1>4

\* Every call that writes one record is a call of the abstract store, and one
\* that only rebuilds indexes changes nothing callers read.
LEMMA WriteOneRefines ==
    ASSUME IndexablesKept, ReopenIInv, WriteOne, ~DanglingTxn
    PROVE  Promise!Call \/ View' = View
  <1>1. Idle
    BY DEF WriteOne, Collection, InsertOne, ReplaceOne, UpdateOne, DeleteOne, Drop,
           RecreateIndex, DropIndex, CreateIndex, RejectIndex, Live
  <1>2. /\ IInv /\ MemType /\ log \in Seq(Records) /\ PrimaryOffsets
        /\ defs \in [ColIds -> [Fields -> IndexDefs \cup {None}]]
    BY <1>1, IdleFacts DEF MemType
  <1>3. ASSUME NEW n \in Names, NEW c \in ColIds, Collection(n, c)
        PROVE  Promise!Call
    BY <1>1, <1>3, CreateRefines DEF Promise!Call
  <1>4. ASSUME NEW c \in ColIds, NEW d \in DocIds, NEW doc \in Docs, byId[c] # None,
               AssertUnique(c, doc, {d}), AppendOperation(PutRec(c, d, doc)),
               ApplyPut(c, d, Len(log) + 1, doc)
        PROVE  Promise!Call
    <2>1. byId[c] \in Names /\ Promise!Put(byId[c], {d}) /\ {d} \in SUBSET DocIds
      BY <1>1, <1>4, PutRefines
    <2>2. QED
      BY <2>1 DEF Promise!Call
  <1>5. ASSUME NEW c \in ColIds, NEW d \in DocIds, NEW doc \in Docs, InsertOne(c, d, doc)
        PROVE  Promise!Call
    <2>1. AssertUnique(c, doc, {d})
      BY <1>5 DEF InsertOne, AssertUnique, Owned
    <2>2. QED
      BY <1>4, <1>5, <2>1 DEF InsertOne, Live
  <1>6. ASSUME NEW c \in ColIds, NEW d \in DocIds, NEW doc \in Docs, ReplaceOne(c, d, doc)
        PROVE  Promise!Call
    BY <1>4, <1>6 DEF ReplaceOne, Live
  <1>7. ASSUME NEW c \in ColIds, NEW d \in DocIds, NEW f \in Fields, NEW v \in Values,
               UpdateOne(c, d, f, v)
        PROVE  Promise!Call
    <2> DEFINE doc == [StoredDoc(c, d) EXCEPT ![f] = v]
    <2>1. /\ AppendOperation(PutRec(c, d, doc)) /\ ApplyPut(c, d, Len(log) + 1, doc)
          /\ byId[c] # None /\ AssertUnique(c, doc, {d})
      BY <1>7 DEF UpdateOne, Live
    <2>2. StoredDoc(c, d) \in Docs
      BY <1>2, <1>7, StoredDocType DEF UpdateOne
    <2>3. doc \in Docs
      BY <2>2 DEF Docs
    <2>4. QED
      BY <1>4, <2>1, <2>3
  <1>8. ASSUME NEW c \in ColIds, NEW d \in DocIds, DeleteOne(c, d)
        PROVE  Promise!Call
    <2>1. byId[c] \in Names /\ Promise!Delete(byId[c], {d}) /\ {d} \in SUBSET DocIds
      BY <1>1, <1>8, DeleteRefines
    <2>2. QED
      BY <2>1 DEF Promise!Call
  <1>9. ASSUME NEW c \in ColIds, Drop(c)
        PROVE  Promise!Call
    BY <1>1, <1>9, DropRefines DEF Promise!Call
  <1>10. ASSUME NEW c \in ColIds, NEW f \in Fields, NEW def \in IndexDefs, CreateIndex(c, f, def)
         PROVE  Promise!Call
    BY <1>1, <1>10, IndexRefines DEF Promise!Call
  <1>11. ASSUME NEW c \in ColIds, NEW f \in Fields, DropIndex(c, f)
         PROVE  Promise!Call
    BY <1>1, <1>11, IndexRefines DEF Promise!Call
  <1>12. ASSUME UNCHANGED <<log, byName, primary, defs>>
         PROVE  View' = View
    BY <1>2, <1>12, SameView DEF StoredDoc
  <1>13. ASSUME NEW c \in ColIds, NEW f \in Fields, RecreateIndex(c, f)
         PROVE  View' = View
    <2>1. defs' = [defs EXCEPT ![c] = [defs[c] EXCEPT ![f] = defs[c][f]]]
      BY <1>13 DEF RecreateIndex, ApplyCreateIndex
    <2>2. [defs[c] EXCEPT ![f] = defs[c][f]] = defs[c]
      BY <1>2
    <2>3. defs' = defs
      BY <1>2, <2>1, <2>2
    <2>4. QED
      BY <1>12, <1>13, <2>3 DEF RecreateIndex, ApplyCreateIndex
  <1>14. ASSUME NEW c \in ColIds, NEW f \in Fields, NEW def \in IndexDefs,
                RejectIndex(c, f, def)
         PROVE  View' = View
    BY <1>12, <1>14 DEF RejectIndex
  <1>15. QED
    BY <1>3, <1>5, <1>6, <1>7, <1>8, <1>9, <1>10, <1>11, <1>13, <1>14 DEF WriteOne

-----------------------------------------------------------------------------
(* Batches.                                                                *)

\* What a batch may hold when it begins.
Checked(c, ids, docs) ==
    \/ /\ \A d \in Members(ids) : docs[d] # None
       /\ AssertUniqueBatch(c, ids, docs)
    \/ \A d \in Members(ids) : docs[d] = None /\ primary[c][d] # 0

\* The calls that begin a batch have checked it.
LEMMA BatchBegins ==
    ASSUME IInv,
           \/ \E c \in ColIds, ids \in BatchIds, docs \in [DocIds -> Docs \cup {None}] :
                 InsertMany(c, ids, docs)
           \/ \E c \in ColIds, ids \in BatchIds, f \in Fields, v \in Values :
                 UpdateMany(c, ids, f, v)
           \/ \E c \in ColIds, ids \in BatchIds : DeleteMany(c, ids)
    PROVE  \E c \in ColIds, ids \in BatchIds, docs \in [DocIds -> Docs \cup {None}] :
              Live(c) /\ BeginBatch(c, ids, docs) /\ Checked(c, ids, docs)
  <1>1. ASSUME NEW c \in ColIds, NEW ids \in BatchIds,
               NEW docs \in [DocIds -> Docs \cup {None}], InsertMany(c, ids, docs)
        PROVE  Live(c) /\ BeginBatch(c, ids, docs) /\ Checked(c, ids, docs)
    <2>1. \A d \in Members(ids) : d \in DocIds
      BY DEF Members, BatchIds
    <2>2. QED
      BY <1>1, <2>1 DEF InsertMany, Checked
  <1>2. ASSUME NEW c \in ColIds, NEW ids \in BatchIds, NEW f \in Fields, NEW v \in Values,
               UpdateMany(c, ids, f, v)
        PROVE  \E docs \in [DocIds -> Docs \cup {None}] :
                  Live(c) /\ BeginBatch(c, ids, docs) /\ Checked(c, ids, docs)
    <2> DEFINE docs == [d \in DocIds |-> IF d \in Members(ids)
                                         THEN [StoredDoc(c, d) EXCEPT ![f] = v]
                                         ELSE None]
    <2>1. /\ \A d \in Members(ids) : primary[c][d] # 0
          /\ Live(c) /\ AssertUniqueBatch(c, ids, docs) /\ BeginBatch(c, ids, docs)
      BY <1>2 DEF UpdateMany
    <2>2. ASSUME NEW d \in DocIds, d \in Members(ids)
          PROVE  [StoredDoc(c, d) EXCEPT ![f] = v] \in Docs
      <3>1. StoredDoc(c, d) \in Docs
        BY <2>1, <2>2, StoredDocType DEF IInv, TypeOK
      <3>2. QED
        BY <3>1 DEF Docs
    <2>3. docs \in [DocIds -> Docs \cup {None}]
      BY <2>2
    <2>4. \A d \in Members(ids) : d \in DocIds /\ docs[d] # None
      <3>1. \A d \in Members(ids) : d \in DocIds
        BY DEF Members, BatchIds
      <3>2. QED
        BY <2>2, <3>1, NoneAssumption
    <2> HIDE DEF docs
    <2>5. Checked(c, ids, docs)
      BY <2>1, <2>4 DEF Checked
    <2>6. QED
      BY <2>1, <2>3, <2>5
  <1>3. ASSUME NEW c \in ColIds, NEW ids \in BatchIds, DeleteMany(c, ids)
        PROVE  \E docs \in [DocIds -> Docs \cup {None}] :
                  Live(c) /\ BeginBatch(c, ids, docs) /\ Checked(c, ids, docs)
    <2> DEFINE docs == [d \in DocIds |-> None]
    <2>1. /\ \A d \in Members(ids) : primary[c][d] # 0
          /\ Live(c) /\ BeginBatch(c, ids, docs)
      BY <1>3 DEF DeleteMany
    <2>2. docs \in [DocIds -> Docs \cup {None}] /\ \A d \in Members(ids) : docs[d] = None
      BY DEF Members, BatchIds
    <2> HIDE DEF docs
    <2>3. Checked(c, ids, docs)
      BY <2>1, <2>2 DEF Checked
    <2>4. QED
      BY <2>1, <2>2, <2>3
  <1>4. QED
    BY <1>1, <1>2, <1>3

\* A batch that begins opens a transaction: replay stops before it.
LEMMA BeginBatchLog ==
    ASSUME ReopenIInv, ~DanglingTxn, NEW c \in ColIds, NEW ids \in BatchIds,
           NEW docs \in [DocIds -> Docs \cup {None}],
           Live(c), BeginBatch(c, ids, docs), Checked(c, ids, docs)
    PROVE  LogAndMemory' /\ View' = View /\ phase = "open" /\ phase' = "open"
  <1> DEFINE q == Len(log) + 1
  <1>1. /\ IInv /\ MemType /\ NamesAgree /\ RegisteredDefs /\ WellFormed(log)
        /\ log \in Seq(Records) /\ Len(log) \in Nat
        /\ Remembers(byId, primary, defs, log, q)
        /\ \A t : ~InTxn(log, t, q)
        /\ phase = "open" /\ batch = None
    BY IdleFacts DEF Live
  <1>2. /\ log' = Append(log, Txnb) /\ phase' = "open"
        /\ batch' = [col |-> c, ids |-> ids, docs |-> docs, done |-> 0, offs |-> NoDocs]
        /\ UNCHANGED <<byName, byId, primary, defs, entries>>
    BY <1>1 DEF BeginBatch, memoryVars
  <1>3. /\ log' \in Seq(Records) /\ Len(log') = q /\ log'[q] = Txnb
        /\ \A i \in 1 .. q - 1 : log'[i] = log[i]
        /\ q \in Nat /\ q # 0 /\ Txnb \in Records
    BY <1>1, <1>2, RecordTypes
  <1>4. \A t : ~InTxn(log', t, q)
    BY <1>1, <1>3, InTxnSame
  <1>5. Fits(log', q)
    BY <1>3, <1>4 DEF Fits, Txnb
  <1>6. WellFormed(log')
    BY <1>1, <1>2, <1>3, <1>5, AppendFits
  <1> HIDE DEF q
  <1>7. InTxn(log', q, q + 1)
    BY <1>3, InTxnNext DEF Txnb
  <1>8. Horizon(log') = q
    BY <1>3, <1>6, <1>7, HorizonOpen
  <1>9. Remembers(byId, primary, defs, log', q)
    BY <1>1, <1>3, RemembersSame
  <1>10. NamesAgree' /\ RegisteredDefs' /\ LogFits' /\ MemoryRecorded'
    BY <1>1, <1>2, <1>6, <1>8, <1>9 DEF NamesAgree, RegisteredDefs, LogFits, MemoryRecorded,
                                        Applied
  <1>11. ReplayTxn' /\ AckedRecorded' /\ CompactionKeeps'
    BY <1>2 DEF ReplayTxn, AckedRecorded, Up, CompactionKeeps
  <1>12. BatchTail'
    BY <1>2, <1>3, <1>8 DEF BatchTail, NoDocs
  <1>13. BatchChecked'
    <2>1. batch'.col = c /\ batch'.ids = ids /\ batch'.docs = docs
      BY <1>2
    <2>2. QED
      BY <1>2, <2>1 DEF BatchChecked, Checked, AssertUniqueBatch, UniqueOn, Owned, Holds,
                        Indexable
  <1>14. View' = View
    <2>1. \A e \in ColIds, d \in DocIds : primary[e][d] # 0 => StoredDoc(e, d)' = StoredDoc(e, d)
      BY <1>1, <1>2, <1>3, StoredSame DEF LogGrows
    <2>2. QED
      BY <1>1, <1>2, <2>1, SameView
  <1>15. QED
    BY <1>1, <1>2, <1>10, <1>11, <1>12, <1>13, <1>14 DEF LogAndMemory

\* Records that neither register nor drop a collection leave the collections as
\* they were.
LEMMA RegisteredLater ==
    ASSUME NEW L, NEW p \in Nat, NEW q \in Nat, p <= q, NEW c, NEW n,
           \A j \in p .. q - 1 : L[j].op \notin {"ncl1", "dco1"}
    PROVE  Registered(L, c, n, q) <=> Registered(L, c, n, p)
  <1>1. ASSUME Registered(L, c, n, p) PROVE Registered(L, c, n, q)
    <2>1. PICK i \in 1 .. p - 1 : /\ Founds(L[i], c, n)
                                  /\ \A j \in i + 1 .. p - 1 : ~Closes(L[j], c)
      BY <1>1 DEF Registered
    <2>2. i \in 1 .. q - 1 /\ \A j \in i + 1 .. q - 1 : j \in i + 1 .. p - 1 \/ j \in p .. q - 1
      BY <2>1
    <2>3. \A j \in i + 1 .. q - 1 : ~Closes(L[j], c)
      BY <2>1, <2>2 DEF Closes
    <2>4. QED
      BY <2>1, <2>2, <2>3 DEF Registered
  <1>2. ASSUME Registered(L, c, n, q) PROVE Registered(L, c, n, p)
    <2>1. PICK i \in 1 .. q - 1 : /\ Founds(L[i], c, n)
                                  /\ \A j \in i + 1 .. q - 1 : ~Closes(L[j], c)
      BY <1>2 DEF Registered
    <2>2. i \notin p .. q - 1
      BY <2>1 DEF Founds
    <2>3. i \in 1 .. p - 1 /\ \A j \in i + 1 .. p - 1 : j \in i + 1 .. q - 1
      BY <2>2
    <2>4. QED
      BY <2>1, <2>3 DEF Registered
  <1>3. QED
    BY <1>1, <1>2

\* Records that neither define nor drop an index leave the indexes as they were.
LEMMA DefinedLater ==
    ASSUME NEW L, NEW p \in Nat, NEW q \in Nat, p <= q, NEW c, NEW f, NEW def,
           \A j \in p .. q - 1 : L[j].op \notin {"idx1", "dix1", "dco1"}
    PROVE  Defined(L, c, f, def, q) <=> Defined(L, c, f, def, p)
  <1>1. ASSUME Defined(L, c, f, def, p) PROVE Defined(L, c, f, def, q)
    <2>1. PICK i \in 1 .. p - 1 : /\ Defines(L[i], c, f, def)
                                  /\ \A j \in i + 1 .. p - 1 : ~Undefines(L[j], c, f)
      BY <1>1 DEF Defined
    <2>2. i \in 1 .. q - 1 /\ \A j \in i + 1 .. q - 1 : j \in i + 1 .. p - 1 \/ j \in p .. q - 1
      BY <2>1
    <2>3. \A j \in i + 1 .. q - 1 : ~Undefines(L[j], c, f)
      BY <2>1, <2>2 DEF Undefines, Closes
    <2>4. QED
      BY <2>1, <2>2, <2>3 DEF Defined
  <1>2. ASSUME Defined(L, c, f, def, q) PROVE Defined(L, c, f, def, p)
    <2>1. PICK i \in 1 .. q - 1 : /\ Defines(L[i], c, f, def)
                                  /\ \A j \in i + 1 .. q - 1 : ~Undefines(L[j], c, f)
      BY <1>2 DEF Defined
    <2>2. i \notin p .. q - 1
      BY <2>1 DEF Defines
    <2>3. i \in 1 .. p - 1 /\ \A j \in i + 1 .. p - 1 : j \in i + 1 .. q - 1
      BY <2>2
    <2>4. QED
      BY <2>1, <2>3 DEF Defined
  <1>3. QED
    BY <1>1, <1>2

\* Records that do not replace a document leave its current version as it was.
LEMMA CurrentLater ==
    ASSUME NEW L, NEW p \in Nat, NEW q \in Nat, p <= q, NEW c, NEW d, NEW o,
           \A j \in p .. q - 1 : ~Replaces(L[j], c, d)
    PROVE  Current(L, c, d, o, q) <=> Current(L, c, d, o, p)
  <1>1. ASSUME Current(L, c, d, o, p) PROVE Current(L, c, d, o, q)
    <2>1. /\ o \in 1 .. p - 1 /\ Writes(L[o], c, d)
          /\ \A j \in o + 1 .. p - 1 : ~Replaces(L[j], c, d)
      BY <1>1 DEF Current
    <2>2. o \in 1 .. q - 1 /\ \A j \in o + 1 .. q - 1 : j \in o + 1 .. p - 1 \/ j \in p .. q - 1
      BY <2>1
    <2>3. \A j \in o + 1 .. q - 1 : ~Replaces(L[j], c, d)
      BY <2>1, <2>2
    <2>4. QED
      BY <2>1, <2>2, <2>3 DEF Current
  <1>2. ASSUME Current(L, c, d, o, q) PROVE Current(L, c, d, o, p)
    <2>1. /\ o \in 1 .. q - 1 /\ Writes(L[o], c, d)
          /\ \A j \in o + 1 .. q - 1 : ~Replaces(L[j], c, d)
      BY <1>2 DEF Current
    <2>2. Replaces(L[o], c, d)
      BY <2>1 DEF Writes, Replaces
    <2>3. o \notin p .. q - 1
      BY <2>2
    <2>4. o \in 1 .. p - 1 /\ \A j \in o + 1 .. p - 1 : j \in o + 1 .. q - 1
      BY <2>1, <2>3
    <2>5. QED
      BY <2>1, <2>4 DEF Current
  <1>3. QED
    BY <1>1, <1>2

\* The k-th place after a lies between a and a + n.
LEMMA InInterval ==
    ASSUME NEW a \in Nat, NEW b \in Nat, NEW n \in Nat, b = a + n
    PROVE  /\ \A k \in 1 .. n : a + k \in a + 1 .. b /\ a + k \in 1 .. b
           /\ \A j \in a + 1 .. b : j - a \in 1 .. n /\ a + (j - a) = j
  OBVIOUS

\* The transaction of the batch being written is the one open in the log, and
\* its records say nothing but puts and deletes of the batch's collection.
LEMMA BatchFacts ==
    ASSUME ReopenIInv, batch # None
    PROVE  /\ IInv /\ MemType /\ NamesAgree /\ RegisteredDefs /\ WellFormed(log)
           /\ log \in Seq(Records) /\ Len(log) \in Nat /\ batch \in Batches
           /\ phase = "open" /\ batch.col \in ColIds /\ byId[batch.col] \in Names
           /\ Horizon(log) \in 1 .. Len(log) /\ InTxn(log, Horizon(log), Len(log) + 1)
           /\ Remembers(byId, primary, defs, log, Horizon(log))
           /\ log[Horizon(log)].op = "txnb"
           /\ \A j \in Horizon(log) + 1 .. Len(log) :
                  log[j].op \in {"put1", "del1"} /\ log[j].col = batch.col
  <1>1. /\ IInv /\ NamesAgree /\ RegisteredDefs /\ LogFits /\ MemoryRecorded /\ BatchTail
        /\ BatchOffsets /\ TypeOK
    BY DEF ReopenIInv, IndexIInv, LogAndMemory, IInv
  <1>2. /\ phase = "open" /\ byId[batch.col] # None /\ log \in Seq(Records) /\ Len(log) \in Nat
        /\ MemType /\ batch \in Batches /\ WellFormed(log)
    BY <1>1 DEF BatchOffsets, TypeOK, MemType, LogFits
  <1>3. batch.col \in ColIds /\ byId[batch.col] \in Names /\ batch.done \in Nat
    BY <1>2 DEF Batches, MemType
  <1> DEFINE head == Horizon(log)
  <1>4. /\ Len(log) = head + batch.done
        /\ \A k \in 1 .. batch.done :
              /\ log[head + k].col = batch.col
              /\ log[head + k].op \in {"put1", "del1"}
    BY <1>1 DEF BatchTail
  <1>5. /\ head \in 1 .. Len(log) + 1
        /\ \/ head = Len(log) + 1
           \/ head \in 1 .. Len(log) /\ InTxn(log, head, Len(log) + 1)
    BY <1>2, HorizonType
  <1> HIDE DEF head
  <1>6. head \in 1 .. Len(log) /\ InTxn(log, head, Len(log) + 1)
    BY <1>2, <1>3, <1>4, <1>5
  <1>7. log[head].op = "txnb"
    BY <1>6 DEF InTxn
  <1>8. ASSUME NEW j \in head + 1 .. Len(log)
        PROVE  log[j].op \in {"put1", "del1"} /\ log[j].col = batch.col
    <2>1. j - head \in 1 .. batch.done /\ head + (j - head) = j
      BY <1>2, <1>3, <1>4, <1>6
    <2>2. QED
      BY <1>4, <2>1
  <1>9. Remembers(byId, primary, defs, log, head)
    BY <1>1, <1>2 DEF MemoryRecorded, Applied, head
  <1>10. QED
    BY <1>1, <1>2, <1>3, <1>6, <1>7, <1>8, <1>9 DEF head

\* Each record of a batch fits, and its offset is noted as the current one.
LEMMA WriteBatchLog ==
    ASSUME ReopenIInv, WriteBatch
    PROVE  LogAndMemory' /\ View' = View /\ phase = "open" /\ phase' = "open"
  <1> DEFINE q == Len(log) + 1
             head == Horizon(log)
             c == batch.col
             d == batch.ids[batch.done + 1]
             put == batch.docs[d] # None
             r == IF put THEN PutRec(c, d, batch.docs[d]) ELSE DelRec(c, d)
             noted == IF put THEN q ELSE 0
  <1>1. /\ batch # None /\ batch.done < Len(batch.ids)
        /\ log' = Append(log, r) /\ batch' = Noted(batch, d, noted)
        /\ UNCHANGED <<phase, byName, byId, primary, defs, entries>>
    BY DEF WriteBatch, Pending, memoryVars
  <1>2. /\ IInv /\ MemType /\ NamesAgree /\ RegisteredDefs /\ WellFormed(log)
        /\ log \in Seq(Records) /\ Len(log) \in Nat /\ batch \in Batches
        /\ phase = "open" /\ c \in ColIds /\ byId[c] \in Names
        /\ head \in 1 .. Len(log) /\ InTxn(log, head, q)
        /\ Remembers(byId, primary, defs, log, head)
        /\ log[head].op = "txnb"
        /\ \A j \in head + 1 .. Len(log) : log[j].op \in {"put1", "del1"} /\ log[j].col = c
    BY <1>1, BatchFacts
  <1>3. /\ d \in DocIds /\ batch.done \in Nat /\ batch.docs[d] \in Docs \cup {None}
        /\ batch.offs \in [DocIds -> Nat]
    BY <1>1, <1>2 DEF Batches, BatchIds
  <1>4. /\ r \in Records /\ r.op = (IF put THEN "put1" ELSE "del1") /\ r.col = c /\ r.id = d
    BY <1>2, <1>3, RecordTypes DEF PutRec, DelRec
  <1>5. BatchTail /\ BatchChecked /\ BatchOffsets
    BY DEF ReopenIInv, LogAndMemory, IndexIInv, IInv
  <1>6. /\ batch'.col = c /\ batch'.ids = batch.ids /\ batch'.docs = batch.docs
        /\ batch'.done = batch.done + 1 /\ batch'.offs = [batch.offs EXCEPT ![d] = noted]
    BY <1>1 DEF Noted
  <1>7. /\ Len(log) = head + batch.done
        /\ \A k \in 1 .. batch.done :
              /\ log[head + k].col = c /\ log[head + k].id = batch.ids[k]
              /\ log[head + k].op = IF batch.docs[batch.ids[k]] = None THEN "del1" ELSE "put1"
        /\ \A e \in DocIds : batch.offs[e] = 0 \/ batch.offs[e] > head
        /\ \A e \in DocIds, o \in head + 1 .. Len(log) :
              batch.offs[e] = o <=> Current(log, c, e, o, Len(log) + 1)
    BY <1>1, <1>5 DEF BatchTail
  <1>8. \A e \in DocIds : batch.offs[e] < q
    <2>1. \A e \in DocIds : batch.offs[e] # 0 => batch.offs[e] \in 1 .. Len(log)
      BY <1>1, <1>2, <1>5 DEF BatchOffsets, IsPut
    <2>2. QED
      BY <1>2, <2>1
  <1>9. put <=> batch.docs[d] # None
    OBVIOUS
  <1>10. noted = IF put THEN q ELSE 0
    OBVIOUS
  <1>11. d = batch.ids[batch.done + 1] /\ c = batch.col
    OBVIOUS
  <1> HIDE DEF r, noted, d, put, c
  <1>12. /\ log' \in Seq(Records) /\ Len(log') = q /\ log'[q] = r
         /\ \A i \in 1 .. q - 1 : log'[i] = log[i]
         /\ q \in Nat /\ q # 0 /\ q - 1 = Len(log) /\ q = Len(log) + 1
         /\ head \in Nat /\ head <= q
    <2>1. log' \in Seq(Records) /\ Len(log') = q /\ log'[q] = r
      BY <1>1, <1>2, <1>4
    <2>2. \A i \in 1 .. q - 1 : log'[i] = log[i]
      BY <1>1, <1>2, <1>4
    <2>3. QED
      BY <1>2, <2>1, <2>2
  <1> HIDE DEF q, head
  <1>13. Fits(log', q)
    <2>1. \A j \in head .. q - 1 : log'[j].op \notin {"ncl1", "dco1"}
      <3> SUFFICES ASSUME NEW j \in head .. q - 1 PROVE log'[j].op \notin {"ncl1", "dco1"}
        OBVIOUS
      <3>1. j \in 1 .. q - 1 /\ (j = head \/ j \in head + 1 .. Len(log))
        BY <1>2, <1>12
      <3>2. log'[j] = log[j]
        BY <1>12, <3>1
      <3>3. QED
        BY <1>2, <3>1, <3>2
    <2>2. Registered(log, c, byId[c], head)
      BY <1>2 DEF Remembers, KnowsNames
    <2>3. \A i \in 1 .. head - 1 : log'[i] = log[i]
      BY <1>2, <1>12
    <2>4. Registered(log', c, byId[c], head)
      BY <1>12, <2>2, <2>3, RegisteredSame
    <2>5. Registered(log', c, byId[c], q)
      BY <1>12, <2>1, <2>4, RegisteredLater
    <2>6. r.op \in {"put1", "del1"} /\ r.col = c
      BY <1>4
    <2>7. QED
      BY <1>2, <1>12, <2>5, <2>6 DEF Fits
  <1>14. WellFormed(log')
    BY <1>1, <1>2, <1>4, <1>13, AppendFits DEF q
  <1>15. Horizon(log') = head
    <2>1. InTxn(log', head, q)
      BY <1>2, <1>12, InTxnSame
    <2>2. InTxn(log', head, q + 1)
      BY <1>4, <1>12, <2>1, InTxnNext
    <2>3. QED
      BY <1>12, <1>14, <2>2, HorizonOpen
  <1>16. Remembers(byId, primary, defs, log', head)
    <2>1. \A i \in 1 .. head - 1 : log'[i] = log[i]
      BY <1>2, <1>12
    <2>2. QED
      BY <1>2, <1>12, <2>1, RemembersSame
  <1>17. NamesAgree' /\ RegisteredDefs' /\ LogFits' /\ MemoryRecorded'
    BY <1>1, <1>2, <1>14, <1>15, <1>16 DEF NamesAgree, RegisteredDefs, LogFits,
                                           MemoryRecorded, Applied
  <1>18. ReplayTxn' /\ AckedRecorded' /\ CompactionKeeps'
    BY <1>1, <1>2 DEF ReplayTxn, AckedRecorded, Up, CompactionKeeps
  <1>19. ASSUME NEW k \in 1 .. batch.done + 1
         PROVE  /\ log'[head + k].col = c /\ log'[head + k].id = batch.ids[k]
                /\ log'[head + k].op = IF batch.docs[batch.ids[k]] = None THEN "del1" ELSE "put1"
    <2>1. CASE k = batch.done + 1
      <3>1. head + k = q
        <4>1. Len(log) = head + batch.done
          BY <1>7
        <4>2. QED
          BY <1>2, <1>3, <1>12, <2>1, <4>1
      <3>2. QED
        BY <1>4, <1>12, <1>9, <1>11, <2>1, <3>1
    <2>2. CASE k # batch.done + 1
      <3>1. k \in 1 .. batch.done /\ head + k \in 1 .. q - 1
        <4>1. q - 1 = Len(log) /\ Len(log) = head + batch.done
          BY <1>7, <1>12
        <4>2. head \in Nat /\ Len(log) \in Nat
          BY <1>2
        <4>3. k \in 1 .. batch.done
          BY <1>3, <2>2
        <4>4. head + k \in 1 .. Len(log)
          BY <1>3, <4>1, <4>2, <4>3, InInterval
        <4>5. QED
          BY <4>1, <4>3, <4>4
      <3>2. QED
        BY <1>7, <1>12, <3>1
    <2>3. QED
      BY <2>1, <2>2
  <1>20. ASSUME NEW e \in DocIds, NEW o \in head + 1 .. q
         PROVE  batch'.offs[e] = o <=> Current(log', c, e, o, q + 1)
    <2>1. Current(log', c, e, o, q + 1) <=>
              \/ Current(log', c, e, o, q) /\ ~Replaces(r, c, e)
              \/ o = q /\ Writes(r, c, e)
      <3>1. Current(log', c, e, o, q + 1) <=>
                \/ Current(log', c, e, o, q) /\ ~Replaces(log'[q], c, e)
                \/ o = q /\ Writes(log'[q], c, e)
        BY <1>12, CurrentNext
      <3>2. QED
        BY <1>12, <3>1
    <2>2. Current(log', c, e, o, q) <=> Current(log, c, e, o, q)
      BY <1>12, CurrentSame
    <2>3. Current(log, c, e, o, q) => o <= q - 1
      BY <1>12 DEF Current
    <2>4. o <= q - 1 => (batch.offs[e] = o <=> Current(log, c, e, o, q))
      BY <1>2, <1>7, <1>12
    <2>5. CASE e = d
      <3>1. batch'.offs[e] = noted
        BY <1>3, <1>6, <2>5
      <3>2. Replaces(r, c, e) /\ (Writes(r, c, e) <=> put)
        BY <1>4, <2>5 DEF Replaces, Writes
      <3>3. o # 0
        BY <1>2
      <3>4. QED
        BY <1>10, <2>1, <3>1, <3>2, <3>3
    <2>6. CASE e # d
      <3>1. batch'.offs[e] = batch.offs[e] /\ batch.offs[e] < q /\ batch.offs[e] \in Nat
        BY <1>3, <1>6, <1>8, <2>6
      <3>2. ~Replaces(r, c, e) /\ ~Writes(r, c, e)
        BY <1>4, <2>6 DEF Replaces, Writes, Closes
      <3>3. QED
        BY <1>2, <1>12, <2>1, <2>2, <2>3, <2>4, <3>1, <3>2
    <2>7. QED
      BY <2>5, <2>6
  <1>21. BatchTail'
    <2>1. Len(log') = head + batch'.done
      BY <1>2, <1>3, <1>6, <1>7, <1>12 DEF q
    <2>2. \A e \in DocIds : batch'.offs[e] = 0 \/ batch'.offs[e] > head
      <3>1. ASSUME NEW e \in DocIds
            PROVE  batch'.offs[e] = 0 \/ batch'.offs[e] > head
        <4>1. batch'.offs[e] = IF e = d THEN noted ELSE batch.offs[e]
          BY <1>3, <1>6
        <4>2. noted = 0 \/ noted > head
          BY <1>2, <1>10, <1>12
        <4>3. batch.offs[e] = 0 \/ batch.offs[e] > head
          BY <1>7
        <4>4. QED
          BY <4>1, <4>2, <4>3
      <3>2. QED
        BY <3>1
    <2>3. QED
      BY <1>6, <1>12, <1>15, <1>19, <1>20, <2>1, <2>2 DEF BatchTail
  <1>22. BatchChecked'
    <2>1. PICK c0, ids0, docs0 : batch.col = c0 /\ batch.ids = ids0 /\ batch.docs = docs0
      OBVIOUS
    <2>2. batch'.col = c0 /\ batch'.ids = ids0 /\ batch'.docs = docs0
      BY <1>6, <1>11, <2>1
    <2>3. Checked(c0, ids0, docs0)
      BY <1>1, <1>5, <2>1 DEF BatchChecked, Checked
    <2>4. QED
      BY <1>1, <2>2, <2>3 DEF BatchChecked, Checked, AssertUniqueBatch, UniqueOn, Owned, Holds,
                              Indexable
  <1>23. View' = View
    <2>1. \A e \in ColIds, g \in DocIds : primary[e][g] # 0 => StoredDoc(e, g)' = StoredDoc(e, g)
      BY <1>1, <1>2, <1>4, StoredSame DEF LogGrows
    <2>2. QED
      BY <1>1, <1>2, <2>1, SameView
  <1>24. QED
    BY <1>1, <1>2, <1>17, <1>18, <1>21, <1>22, <1>23 DEF LogAndMemory

\* An encoding that throws leaves a transaction nobody commits: nothing else.
LEMMA ThrowInBatchLog ==
    ASSUME ReopenIInv, ThrowInBatch
    PROVE  LogAndMemory' /\ View' = View /\ phase = "open" /\ phase' = "open"
  <1>1. /\ batch # None /\ batch' = None
        /\ UNCHANGED <<log, phase, byName, byId, primary, defs>>
    BY DEF ThrowInBatch, Pending, memoryVars
  <1>2. MemType /\ phase = "open"
    BY <1>1, BatchFacts
  <1>3. NamesAgree' /\ RegisteredDefs' /\ LogFits' /\ MemoryRecorded'
    BY <1>1, <1>2 DEF ReopenIInv, LogAndMemory, NamesAgree, RegisteredDefs, LogFits,
                      MemoryRecorded, Applied
  <1>4. ReplayTxn' /\ AckedRecorded' /\ CompactionKeeps' /\ BatchTail' /\ BatchChecked'
    BY <1>1, <1>2 DEF ReplayTxn, AckedRecorded, Up, CompactionKeeps, BatchTail, BatchChecked
  <1>5. View' = View
    BY <1>1, <1>2, SameView DEF StoredDoc
  <1>6. QED
    BY <1>1, <1>2, <1>3, <1>4, <1>5 DEF LogAndMemory

\* A batch that is committed makes memory what the whole log says.
LEMMA CommitBatchLog ==
    ASSUME ReopenIInv, CommitBatch
    PROVE  LogAndMemory' /\ phase = "open" /\ phase' = "open"
  <1> DEFINE q == Len(log) + 1
             head == Horizon(log)
             c == batch.col
             offs == batch.offs
  <1>1. /\ batch # None /\ batch.done = Len(batch.ids) /\ batch' = None
        /\ log' = Append(log, Txnc)
        /\ primary' = [primary EXCEPT ![c] =
               [d \in DocIds |-> IF d \in Members(batch.ids) THEN offs[d] ELSE @[d]]]
        /\ UNCHANGED <<phase, byName, byId, defs>>
    BY DEF CommitBatch
  <1>2. /\ IInv /\ MemType /\ NamesAgree /\ RegisteredDefs /\ WellFormed(log)
        /\ log \in Seq(Records) /\ Len(log) \in Nat /\ batch \in Batches
        /\ phase = "open" /\ c \in ColIds
        /\ head \in 1 .. Len(log) /\ InTxn(log, head, q)
        /\ KnowsNames(byId, log, head) /\ KnowsDocs(primary, log, head)
        /\ KnowsDefs(defs, log, head)
        /\ log[head].op = "txnb"
        /\ \A j \in head + 1 .. Len(log) : log[j].op \in {"put1", "del1"} /\ log[j].col = c
    BY <1>1, BatchFacts DEF Remembers
  <1>3. offs \in [DocIds -> Nat] /\ batch.done \in Nat /\ batch.ids \in BatchIds
        /\ primary \in [ColIds -> [DocIds -> Nat]]
    BY <1>2 DEF Batches, MemType
  <1>4. /\ Len(log) = head + batch.done
        /\ \A k \in 1 .. batch.done :
              /\ log[head + k].col = c /\ log[head + k].id = batch.ids[k]
              /\ log[head + k].op = IF batch.docs[batch.ids[k]] = None THEN "del1" ELSE "put1"
        /\ \A e \in DocIds : offs[e] = 0 \/ offs[e] > head
        /\ \A e \in DocIds, o \in head + 1 .. Len(log) :
              offs[e] = o <=> Current(log, c, e, o, q)
    BY <1>1 DEF BatchTail, ReopenIInv, LogAndMemory
  <1>5. \A e \in DocIds : offs[e] < q
    <2>1. \A e \in DocIds : offs[e] # 0 => offs[e] \in 1 .. Len(log)
      BY <1>1, <1>2 DEF BatchOffsets, IsPut, IInv
    <2>2. QED
      BY <1>2, <2>1
  <1>6. /\ log' \in Seq(Records) /\ Len(log') = q /\ log'[q] = Txnc /\ Txnc \in Records
        /\ \A i \in 1 .. q - 1 : log'[i] = log[i]
        /\ q \in Nat /\ q # 0 /\ q - 1 = Len(log) /\ q = Len(log) + 1
        /\ head \in Nat /\ head <= q /\ (q + 1) - 1 = q /\ q + 1 \in Nat
    BY <1>1, <1>2, RecordTypes
  <1>7. \A e \in Members(batch.ids) : e \in DocIds /\ \E k \in 1 .. batch.done : batch.ids[k] = e
    <2>1. PICK n \in 1 .. MaxBatch : batch.ids \in [1 .. n -> DocIds]
      BY <1>3 DEF BatchIds
    <2>2. DOMAIN batch.ids = 1 .. batch.done
      BY <1>1, <2>1, BoundsAssumption
    <2>3. QED
      BY <2>1, <2>2 DEF Members
  <1>8. \A k \in 1 .. batch.done : batch.ids[k] \in Members(batch.ids)
    <2>1. PICK n \in 1 .. MaxBatch : batch.ids \in [1 .. n -> DocIds]
      BY <1>3 DEF BatchIds
    <2>2. DOMAIN batch.ids = 1 .. batch.done
      BY <1>1, <2>1, BoundsAssumption
    <2>3. QED
      BY <2>2 DEF Members
  <1> HIDE DEF q, head, c, offs
  <1>9. InTxn(log', head, q)
    BY <1>2, <1>6, InTxnSame
  <1>10. Fits(log', q)
    BY <1>2, <1>6, <1>9 DEF Fits, Txnc
  <1>11. WellFormed(log')
    BY <1>1, <1>2, <1>6, <1>10, AppendFits
  <1>12. Horizon(log') = q + 1
    <2>1. ASSUME NEW t PROVE ~InTxn(log', t, q + 1)
      <3>1. log'[q].op = "txnc"
        BY <1>6 DEF Txnc
      <3>2. QED
        BY <1>6, <3>1, InTxnNext
    <2>2. QED
      BY <1>6, <2>1, HorizonEnd
  <1>13. ASSUME NEW j \in head .. (q + 1) - 1
         PROVE  /\ log'[j].op \in {"txnb", "txnc", "put1", "del1"}
                /\ log'[j].op \in {"put1", "del1"} =>
                      \E k \in 1 .. batch.done : log'[j].col = c /\ log'[j].id = batch.ids[k]
    <2>1. j = q \/ j = head \/ j \in head + 1 .. Len(log)
      BY <1>2, <1>6
    <2>2. j # q => log'[j] = log[j]
      BY <1>2, <1>6
    <2>3. CASE j = q
      BY <1>6, <2>3 DEF Txnc
    <2>4. CASE j # q /\ j = head
      BY <1>2, <2>2, <2>4
    <2>5. CASE j # q /\ j \in head + 1 .. Len(log)
      <3>1. PICK k \in 1 .. batch.done : head + k = j
        <4>1. Len(log) \in Nat /\ Len(log) = head + batch.done
          BY <1>2, <1>4
        <4>2. j - head \in 1 .. batch.done /\ head + (j - head) = j
          BY <1>3, <1>6, <2>5, <4>1, InInterval
        <4>3. QED
          BY <4>2
      <3>2. log[head + k].col = c /\ log[head + k].id = batch.ids[k]
        BY <1>4, <3>1
      <3>3. log[j].op \in {"put1", "del1"}
        BY <1>2, <2>5
      <3>4. QED
        BY <2>2, <2>5, <3>1, <3>2, <3>3
    <2>6. QED
      BY <2>1, <2>3, <2>4, <2>5
  <1>14. \A i \in 1 .. head - 1 : log'[i] = log[i]
    BY <1>2, <1>6
  <1>15. KnowsNames(byId, log', q + 1)
    <2>1. \A e, n : Registered(log', e, n, head) <=> Registered(log, e, n, head)
      BY <1>6, <1>14, RegisteredSame
    <2>2. \A e, n : Registered(log', e, n, q + 1) <=> Registered(log', e, n, head)
      <3>1. \A j \in head .. (q + 1) - 1 : log'[j].op \notin {"ncl1", "dco1"}
        BY <1>13
      <3>2. head <= q + 1
        BY <1>6
      <3>3. QED
        BY <1>6, <3>1, <3>2, RegisteredLater
    <2>3. QED
      BY <1>2, <2>1, <2>2 DEF KnowsNames
  <1>16. KnowsDefs(defs, log', q + 1)
    <2>1. \A e, f, def : Defined(log', e, f, def, head) <=> Defined(log, e, f, def, head)
      BY <1>6, <1>14, DefinedSame
    <2>2. \A e, f, def : Defined(log', e, f, def, q + 1) <=> Defined(log', e, f, def, head)
      <3>1. \A j \in head .. (q + 1) - 1 : log'[j].op \notin {"idx1", "dix1", "dco1"}
        BY <1>13
      <3>2. head <= q + 1
        BY <1>6
      <3>3. QED
        BY <1>6, <3>1, <3>2, DefinedLater
    <2>3. QED
      BY <1>2, <2>1, <2>2 DEF KnowsDefs
  <1>17. KnowsDocs(primary', log', q + 1)
    <2> SUFFICES ASSUME NEW e \in ColIds, NEW d \in DocIds
                 PROVE  /\ primary'[e][d] < q + 1
                        /\ \A o \in 1 .. (q + 1) - 1 :
                              primary'[e][d] = o <=> Current(log', e, d, o, q + 1)
      BY DEF KnowsDocs
    <2>1. /\ primary[e][d] < head /\ primary[e][d] \in Nat
          /\ \A o \in 1 .. head - 1 : primary[e][d] = o <=> Current(log, e, d, o, head)
      BY <1>2, <1>3 DEF KnowsDocs
    <2>2. \A o : Current(log', e, d, o, head) <=> Current(log, e, d, o, head)
      BY <1>6, <1>14, CurrentSame
    <2>3. \A o : Current(log, e, d, o, head) => o \in 1 .. head - 1
      BY DEF Current
    <2>4. CASE ~(e = c /\ d \in Members(batch.ids))
      <3>1. primary'[e][d] = primary[e][d]
        BY <1>1, <1>3, <2>4
      <3>2. \A j \in head .. (q + 1) - 1 : ~Replaces(log'[j], e, d)
        <4> SUFFICES ASSUME NEW j \in head .. (q + 1) - 1, Replaces(log'[j], e, d) PROVE FALSE
          OBVIOUS
        <4>1. log'[j].op \in {"put1", "del1"} /\ log'[j].col = e /\ log'[j].id = d
          BY <1>13 DEF Replaces, Closes
        <4>2. QED
          BY <1>8, <1>13, <2>4, <4>1
      <3>3. head <= q + 1
        BY <1>6
      <3>4. \A o : Current(log', e, d, o, q + 1) <=> Current(log', e, d, o, head)
        BY <1>6, <3>2, <3>3, CurrentLater
      <3>5. QED
        BY <1>6, <2>1, <2>2, <2>3, <3>1, <3>4
    <2>5. CASE e = c /\ d \in Members(batch.ids)
      <3>1. primary'[e][d] = offs[d]
        BY <1>1, <1>2, <1>3, <2>5
      <3>2. offs[d] \in Nat /\ offs[d] < q /\ (offs[d] = 0 \/ offs[d] > head)
        BY <1>3, <1>4, <1>5
      <3>3. \A o : Current(log', e, d, o, q + 1) <=> Current(log, e, d, o, q)
        <4>1. \A o : Current(log', e, d, o, q + 1) <=> Current(log', e, d, o, q)
          <5>1. ~Replaces(log'[q], e, d) /\ ~Writes(log'[q], e, d)
            BY <1>6 DEF Replaces, Writes, Closes, Txnc
          <5>2. QED
            BY <1>6, <5>1, CurrentNext
        <4>2. QED
          BY <1>6, <4>1, CurrentSame
      <3>4. ASSUME NEW o, Current(log, e, d, o, q)
            PROVE  o \in head + 1 .. Len(log)
        <4>1. PICK k \in 1 .. batch.done : batch.ids[k] = d
          BY <1>7, <2>5
        <4>2. Replaces(log[head + k], e, d)
          BY <1>4, <2>5, <4>1 DEF Replaces
        <4>3. head + k \in head + 1 .. q - 1
          <5>1. q - 1 \in Nat /\ q - 1 = head + batch.done
            BY <1>2, <1>4, <1>6
          <5>2. QED
            BY <1>3, <1>6, <5>1, InInterval
        <4>4. /\ o \in 1 .. q - 1
              /\ \A j \in o + 1 .. q - 1 : ~Replaces(log[j], e, d)
          BY <3>4 DEF Current
        <4>5. ~(head + k \in o + 1 .. q - 1)
          BY <4>2, <4>4
        <4>6. QED
          BY <1>6, <4>3, <4>4, <4>5
      <3>5. ASSUME NEW o \in 1 .. q, offs[d] = o PROVE Current(log, e, d, o, q)
        <4>1. o # 0 /\ o > head /\ o < q
          BY <3>2, <3>5
        <4>2. o \in head + 1 .. Len(log)
          BY <1>6, <4>1
        <4>3. QED
          BY <1>4, <2>5, <3>5, <4>2
      <3>6. \A o : Current(log, e, d, o, q) => offs[d] = o
        BY <1>4, <2>5, <3>4
      <3>7. QED
        BY <1>6, <3>1, <3>2, <3>3, <3>5, <3>6
    <2>6. QED
      BY <2>4, <2>5
  <1>18. NamesAgree' /\ RegisteredDefs' /\ LogFits'
    BY <1>1, <1>2, <1>11 DEF NamesAgree, RegisteredDefs, LogFits
  <1>19. MemoryRecorded'
    BY <1>1, <1>2, <1>12, <1>15, <1>16, <1>17 DEF MemoryRecorded, Applied, Remembers
  <1>20. ReplayTxn' /\ AckedRecorded' /\ CompactionKeeps' /\ BatchTail' /\ BatchChecked'
    BY <1>1, <1>2 DEF ReplayTxn, AckedRecorded, Up, CompactionKeeps, BatchTail, BatchChecked
  <1>21. QED
    BY <1>1, <1>2, <1>18, <1>19, <1>20 DEF LogAndMemory

\* The commit of a batch is Put or Delete of all its documents together.
LEMMA CommitBatchRefines ==
    ASSUME IndexablesKept, ReopenIInv, CommitBatch
    PROVE  Promise!Call
  <1>0. PICK c, S, offs, docs, n :
            /\ c = batch.col /\ S = Members(batch.ids) /\ offs = batch.offs
            /\ docs = batch.docs /\ n = byId[batch.col]
    OBVIOUS
  <1>1. /\ batch # None /\ batch.done = Len(batch.ids)
        /\ log' = Append(log, Txnc)
        /\ primary' = [primary EXCEPT ![c] =
               [d \in DocIds |-> IF d \in S THEN offs[d] ELSE @[d]]]
        /\ UNCHANGED <<phase, byName, byId, defs>>
    BY <1>0 DEF CommitBatch
  <1>2. /\ IInv /\ MemType /\ NamesAgree /\ log \in Seq(Records) /\ Len(log) \in Nat
        /\ batch \in Batches /\ phase = "open" /\ c \in ColIds /\ byId[c] # None
        /\ n = byId[c] /\ PrimaryOffsets /\ BatchOffsets
        /\ primary \in [ColIds -> [DocIds -> Nat]]
    BY <1>0, <1>1, BatchFacts, NoneAssumption DEF IInv, MemType
  <1>3. /\ Agrees /\ StoreConsistent /\ BatchChecked /\ BatchRecords
    BY <1>2 DEF ReopenIInv, IndexIInv, IndexContents, Agrees, LogAndMemory
  <1>4. /\ offs \in [DocIds -> Nat] /\ docs \in [DocIds -> Docs \cup {None}]
        /\ batch.ids \in BatchIds
    BY <1>0, <1>2 DEF Batches
  <1>5. S \in SUBSET DocIds /\ S # {} /\ \A d \in S : \E k \in 1 .. batch.done : batch.ids[k] = d
    <2>1. PICK m \in 1 .. MaxBatch : batch.ids \in [1 .. m -> DocIds]
      BY <1>4 DEF BatchIds
    <2>2. DOMAIN batch.ids = 1 .. batch.done /\ m \in Nat /\ 1 \in 1 .. m /\ DOMAIN batch.ids = 1 .. m
      BY <1>1, <2>1, BoundsAssumption
    <2>3. QED
      BY <1>0, <2>1, <2>2 DEF Members
  <1>6. \A i \in DOMAIN batch.ids : batch.ids[i] \in S
    BY <1>0 DEF Members
  <1>7. \A d \in S : \E i \in DOMAIN batch.ids : batch.ids[i] = d
    BY <1>0 DEF Members
  <1>8. Up /\ Up' /\ LogGrows
    BY <1>1, <1>2, RecordTypes DEF Up, LogGrows
  <1>9. /\ n \in Names /\ View \in Views /\ View[n] = Contents(c) /\ View[n] # None
        /\ Promise!Consistent(Contents(c))
    BY <1>2, <1>3, <1>8, CallFacts
  <1>10. \A e \in ColIds \ {c} : primary'[e] = primary[e] /\ defs'[e] = defs[e]
    BY <1>1, <1>2
  <1>11. View' = [View EXCEPT ![n] = Contents(c)']
    BY <1>1, <1>2, <1>8, <1>9, <1>10, ViewChanged
  <1>12. \A d \in DocIds : offs[d] # 0 => /\ docs[d] # None
                                         /\ log[offs[d]].doc = Encode(docs[d])
                                         /\ offs[d] \in 1 .. Len(log)
    BY <1>0, <1>1, <1>2, <1>3 DEF BatchRecords, BatchOffsets, IsPut
  <1>13. \A d \in S : docs[d] # None => offs[d] # 0
    BY <1>0, <1>1, <1>3, <1>5 DEF BatchRecords
  <1>14. ASSUME NEW d \in DocIds
         PROVE  /\ d \in S => primary'[c][d] = offs[d]
                /\ d \notin S => /\ primary'[c][d] = primary[c][d]
                                 /\ primary[c][d] # 0 => StoredDoc(c, d)' = StoredDoc(c, d)
    <2>1. primary'[c][d] = IF d \in S THEN offs[d] ELSE primary[c][d]
      BY <1>1, <1>2
    <2>2. d \notin S /\ primary[c][d] # 0 => StoredDoc(c, d)' = StoredDoc(c, d)
      BY <1>2, <1>8, <2>1, StoredSame
    <2>3. QED
      BY <2>1, <2>2
  <1>15. CASE (\A d \in S : docs[d] # None) /\ AssertUniqueBatch(c, batch.ids, docs)
    <2> DEFINE new == [d \in S |-> docs[d]]
               stored == [d \in S |-> Encode(docs[d])]
               col == [docs |-> [d \in DocIds |-> IF d \in S THEN Encode(new[d])
                                                  ELSE Contents(c).docs[d]],
                       defs |-> defs[c]]
    <2>1. new \in [S -> Docs] /\ stored \in [S -> Docs]
      BY <1>4, <1>5, <1>15, EncodeType
    <2>2. ASSUME NEW d \in S, NEW f \in Fields, UniqueOn(c, f, new[d][f])
          PROVE  /\ ~Owned(c, f, new[d][f], {d})
                 /\ \A e \in S : d # e => new[e][f] # new[d][f]
      <3>1. PICK i \in DOMAIN batch.ids : batch.ids[i] = d
        BY <1>7
      <3>2. new[d] = docs[d] /\ \A e \in S : new[e] = docs[e]
        OBVIOUS
      <3> HIDE DEF new
      <3>3. /\ ~Owned(c, f, docs[d][f], {d})
            /\ \A j \in DOMAIN batch.ids :
                  batch.ids[j] # d => docs[batch.ids[j]][f] # docs[d][f]
        BY <1>15, <2>2, <3>1, <3>2 DEF AssertUniqueBatch
      <3>4. QED
        BY <1>7, <3>2, <3>3
    <2>3. Promise!Consistent(col)
      <3> HIDE DEF new
      <3>1. \A d \in S, f \in Fields : UniqueOn(c, f, new[d][f]) => ~Owned(c, f, new[d][f], {d})
        BY <2>2
      <3>2. \A d, e \in S, f \in Fields :
                d # e /\ UniqueOn(c, f, new[d][f]) => new[e][f] # new[d][f]
        BY <2>2
      <3>3. IInv /\ Agrees /\ Promise!Consistent(Contents(c)) /\ c \in ColIds
        BY <1>2, <1>3, <1>9
      <3>4. QED
        BY <1>5, <2>1, <3>1, <3>2, <3>3, PutsConsistent
    <2>4. Contents(c)' = col
      <3>1. ASSUME NEW d \in S
            PROVE  primary'[c][d] # 0 /\ StoredDoc(c, d)' = Encode(docs[d])
        <4>1. /\ d \in DocIds /\ primary'[c][d] = offs[d] /\ offs[d] # 0
              /\ log[offs[d]].doc = Encode(docs[d]) /\ offs[d] \in 1 .. Len(log)
          BY <1>5, <1>12, <1>13, <1>14, <1>15
        <4>2. log'[offs[d]] = log[offs[d]]
          BY <1>1, <1>2, <4>1
        <4>3. QED
          BY <4>1, <4>2 DEF StoredDoc
      <3>2. QED
        BY <1>1, <1>14, <3>1 DEF Contents
    <2>5. col = [docs |-> [d \in DocIds |-> IF d \in S THEN stored[d] ELSE View[n].docs[d]],
                 defs |-> View[n].defs]
      BY <1>9 DEF Contents
    <2> HIDE DEF stored, col, new
    <2>6. Promise!Put(n, S)
      BY <1>5, <1>8, <1>9, <1>11, <2>1, <2>3, <2>4, <2>5, PutPromise
    <2>7. QED
      BY <1>5, <1>9, <2>6 DEF Promise!Call
  <1>16. CASE \A d \in S : docs[d] = None /\ primary[c][d] # 0
    <2> DEFINE col == [docs |-> [d \in DocIds |-> IF d \in S THEN None
                                                  ELSE Contents(c).docs[d]],
                       defs |-> defs[c]]
    <2>1. Contents(c)' = col
      <3>1. \A d \in S : d \in DocIds /\ primary'[c][d] = 0
        BY <1>5, <1>12, <1>14, <1>16
      <3>2. QED
        BY <1>1, <1>14, <3>1 DEF Contents
    <2>2. col = [docs |-> [d \in DocIds |-> IF d \in S THEN None ELSE View[n].docs[d]],
                 defs |-> View[n].defs]
      BY <1>9 DEF Contents
    <2>3. \A d \in S : View[n].docs[d] # None
      BY <1>2, <1>5, <1>9, <1>16, ContentsType
    <2> HIDE DEF col
    <2>4. Promise!Delete(n, S)
      BY <1>5, <1>8, <1>9, <1>11, <2>1, <2>2, <2>3, DeletePromise
    <2>5. QED
      BY <1>5, <1>9, <2>4 DEF Promise!Call
  <1>17. QED
    BY <1>0, <1>1, <1>3, <1>15, <1>16 DEF BatchChecked

\* The batches together.
LEMMA WriteManyLog ==
    ASSUME IndexablesKept, ReopenIInv, WriteMany, Idle => ~DanglingTxn
    PROVE  LogAndMemory' /\ phase = "open" /\ phase' = "open" /\ (Promise!Call \/ View' = View)
  <1>1. CASE WriteBatch
    BY <1>1, WriteBatchLog
  <1>2. CASE CommitBatch
    BY <1>2, CommitBatchLog, CommitBatchRefines
  <1>3. CASE ThrowInBatch
    BY <1>3, ThrowInBatchLog
  <1>4. CASE \/ \E c \in ColIds, ids \in BatchIds, docs \in [DocIds -> Docs \cup {None}] :
                   InsertMany(c, ids, docs)
             \/ \E c \in ColIds, ids \in BatchIds, f \in Fields, v \in Values :
                   UpdateMany(c, ids, f, v)
             \/ \E c \in ColIds, ids \in BatchIds : DeleteMany(c, ids)
    <2>1. IInv
      BY DEF ReopenIInv, IndexIInv
    <2>2. PICK c \in ColIds, ids \in BatchIds, docs \in [DocIds -> Docs \cup {None}] :
              Live(c) /\ BeginBatch(c, ids, docs) /\ Checked(c, ids, docs)
      BY <1>4, <2>1, BatchBegins
    <2>3. ~DanglingTxn
      BY <2>2 DEF Live
    <2>4. QED
      BY <2>2, <2>3, BeginBatchLog
  <1>5. QED
    BY <1>1, <1>2, <1>3, <1>4 DEF WriteMany

-----------------------------------------------------------------------------
(* Compaction.                                                             *)

\* In a log that fits, the ncl1 of a collection comes before every other record
\* about it.
LEMMA FoundingFirst ==
    ASSUME NEW L \in Seq(Records), WellFormed(L), NEW i \in 1 .. Len(L), L[i].op = "ncl1",
           NEW j \in 1 .. Len(L), j # i, InData(L[j]), L[j].col = L[i].col
    PROVE  i < j /\ L[j].op # "ncl1"
  <1>1. DOMAIN L = 1 .. Len(L) /\ Len(L) \in Nat
    OBVIOUS
  <1>2. ASSUME NEW a \in 1 .. Len(L), NEW b \in 1 .. Len(L), a < b,
               L[a].op = "ncl1", L[b].op = "ncl1"
        PROVE  L[a].col # L[b].col
    <2>1. Fits(L, b) /\ a \in 1 .. b - 1
      BY <1>1, <1>2 DEF WellFormed
    <2>2. QED
      BY <1>2, <2>1 DEF Fits
  <1>3. \A a, b \in 1 .. Len(L) :
            a # b /\ L[a].op = "ncl1" /\ L[b].op = "ncl1" => L[a].col # L[b].col
    <2>1. \A a, b \in 1 .. Len(L) : a # b => a < b \/ b < a
      BY <1>1
    <2>2. QED
      BY <1>2, <2>1
  <1>4. L[j].op # "ncl1"
    BY <1>3
  <1>5. L[j].op \in {"dco1", "put1", "del1", "idx1", "dix1"}
    <2>1. L[j] \in Records
      BY <1>1
    <2>2. QED
      BY <1>4, <2>1, RecordFields DEF InData
  <1>6. PICK n \in Names : Registered(L, L[j].col, n, j)
    BY <1>1, <1>5 DEF WellFormed, Fits
  <1>7. PICK k \in 1 .. j - 1 : L[k].op = "ncl1" /\ L[k].col = L[j].col
    BY <1>6 DEF Registered, Founds
  <1>8. k \in 1 .. Len(L) /\ k < j
    BY <1>1, <1>7
  <1>9. k = i
    BY <1>3, <1>7, <1>8
  <1>10. QED
    BY <1>4, <1>8, <1>9

\* What the steps of a compaction leave alone.
LEMMA CompactionFrame ==
    ASSUME ReopenIInv, phase' = "compacting", batch' = None,
           UNCHANGED <<byName, byId, defs>>, CompactionKeeps'
    PROVE  LogAndMemory'
  <1>1. NamesAgree' /\ RegisteredDefs'
    BY DEF ReopenIInv, LogAndMemory, NamesAgree, RegisteredDefs
  <1>2. LogFits' /\ MemoryRecorded' /\ ReplayTxn' /\ AckedRecorded' /\ BatchTail' /\ BatchChecked'
    BY DEF LogFits, MemoryRecorded, ReplayTxn, AckedRecorded, Up, BatchTail, BatchChecked
  <1>3. QED
    BY <1>1, <1>2 DEF LogAndMemory

\* When a compaction begins, nothing has been given up yet.
LEMMA BeginCompactLog ==
    ASSUME ReopenIInv, BeginCompact
    PROVE  LogAndMemory' /\ View' = View /\ phase = "open" /\ phase' = "compacting"
  <1> DEFINE H == Horizon(log)
  <1>1. /\ IInv /\ phase = "open" /\ batch = None /\ phase' = "compacting" /\ batch' = None
        /\ log' = log /\ scan' = 0 /\ write' = 0
        /\ UNCHANGED <<byName, byId, primary, defs, entries>>
    BY DEF ReopenIInv, IndexIInv, BeginCompact, Idle, memoryVars
  <1>2. /\ log \in Seq(Records) /\ Len(log) \in Nat /\ DOMAIN log = 1 .. Len(log)
        /\ WellFormed(log) /\ MemType
    BY <1>1 DEF ReopenIInv, LogAndMemory, LogFits, IInv, TypeOK, MemType
  <1>3. KnowsNames(byId, log, H) /\ KnowsDefs(defs, log, H)
    BY <1>1 DEF ReopenIInv, LogAndMemory, MemoryRecorded, Applied, Remembers
  <1>4. H \in 1 .. Len(log) + 1
    BY <1>2, HorizonType
  <1> HIDE DEF H
  <1>5. \A i \in 1 .. H - 1 : i \in 1 .. Len(log)
    BY <1>2, <1>4
  <1>6. Kept' = 1 .. Len(log)
    BY <1>1, <1>2 DEF Kept, Unscanned
  <1>7. ASSUME NEW c \in ColIds, byId[c] # None
        PROVE  \E i \in Kept' : FoundedAt(c, i)'
    <2>1. byId[c] \in Names
      BY <1>2, <1>7 DEF MemType
    <2>2. Registered(log, c, byId[c], H)
      BY <1>3, <2>1 DEF KnowsNames
    <2>3. PICK i \in 1 .. H - 1 : Founds(log[i], c, byId[c])
      BY <2>2 DEF Registered
    <2>4. i \in 1 .. Len(log) /\ log[i].op = "ncl1" /\ log[i].col = c
      BY <1>5, <2>3 DEF Founds
    <2>5. \A j \in 1 .. Len(log) : j # i /\ InData(log[j]) /\ log[j].col = c
              => i < j /\ log[j].op # "ncl1"
      BY <1>2, <2>4, FoundingFirst
    <2>6. FoundedAt(c, i)'
      BY <1>1, <1>6, <2>3, <2>5 DEF FoundedAt
    <2>7. QED
      BY <1>6, <2>4, <2>6
  <1>8. ASSUME NEW c \in ColIds, NEW f \in Fields, defs[c][f] # None
        PROVE  \E i \in Kept' : Defines(log[i], c, f, defs[c][f])
    <2>1. defs[c][f] \in IndexDefs
      BY <1>2, <1>8 DEF MemType
    <2>2. Defined(log, c, f, defs[c][f], H)
      BY <1>3, <2>1 DEF KnowsDefs
    <2>3. QED
      BY <1>5, <1>6, <2>2 DEF Defined
  <1>9. CompactionKeeps'
    BY <1>1, <1>7, <1>8 DEF CompactionKeeps
  <1>10. LogAndMemory'
    BY <1>1, <1>9, CompactionFrame
  <1>11. View' = View
    BY <1>1 DEF View, StoredDoc
  <1>12. QED
    BY <1>1, <1>10, <1>11

\* A record that compaction skips is not one it has to keep.
LEMMA CompactSkipLog ==
    ASSUME ReopenIInv, CompactSkip
    PROVE  LogAndMemory' /\ View' = View /\ phase = "compacting" /\ phase' = "compacting"
  <1>1. /\ IInv /\ phase = "compacting" /\ phase' = "compacting" /\ batch' = batch
        /\ log' = log /\ scan' = scan + 1 /\ write' = write /\ scan < Len(log)
        /\ ~ShouldKeep(log[scan + 1], scan + 1)
        /\ UNCHANGED <<byName, byId, primary, defs, entries>>
    BY DEF ReopenIInv, IndexIInv, CompactSkip, memoryVars
  <1>2. /\ log \in Seq(Records) /\ Len(log) \in Nat /\ MemType /\ scan \in Nat /\ write \in Nat
        /\ write <= scan /\ batch = None
    BY <1>1 DEF IInv, TypeOK, MemType, CompactionHeads, BatchOffsets
  <1>3. \A i : i \in Kept' <=> i \in Kept /\ i # scan + 1
    <2>1. Kept' = 1 .. write \cup (scan + 1) + 1 .. Len(log)
      BY <1>1 DEF Kept, Unscanned
    <2>2. QED
      BY <1>1, <1>2, <2>1 DEF Kept, Unscanned
  <1>4. CompactionKeeps
    BY DEF ReopenIInv, LogAndMemory
  <1>5. ASSUME NEW c \in ColIds, byId[c] # None
        PROVE  \E i \in Kept' : FoundedAt(c, i)'
    <2>1. PICK i \in Kept : FoundedAt(c, i)
      BY <1>1, <1>4, <1>5 DEF CompactionKeeps
    <2>2. i # scan + 1
      BY <1>1, <1>5, <2>1 DEF FoundedAt, Founds, ShouldKeep
    <2>3. FoundedAt(c, i)'
      BY <1>1, <1>3, <2>1 DEF FoundedAt
    <2>4. QED
      BY <1>3, <2>1, <2>2, <2>3
  <1>6. ASSUME NEW c \in ColIds, NEW f \in Fields, defs[c][f] # None
        PROVE  \E i \in Kept' : Defines(log[i], c, f, defs[c][f])
    <2>1. PICK i \in Kept : Defines(log[i], c, f, defs[c][f])
      BY <1>1, <1>4, <1>6 DEF CompactionKeeps
    <2>2. byId[c] # None
      BY <1>6 DEF ReopenIInv, LogAndMemory, RegisteredDefs
    <2>3. i # scan + 1
      BY <1>1, <1>6, <2>1, <2>2 DEF Defines, ShouldKeep
    <2>4. QED
      BY <1>3, <2>1, <2>3
  <1>7. CompactionKeeps'
    BY <1>1, <1>5, <1>6 DEF CompactionKeeps
  <1>8. LogAndMemory'
    BY <1>1, <1>2, <1>7, CompactionFrame
  <1>9. View' = View
    BY <1>1, CompactStepView
  <1>10. QED
    BY <1>1, <1>8, <1>9

\* A record that compaction moves keeps its place among the others.
LEMMA CompactKeepLog ==
    ASSUME ReopenIInv, CompactKeep
    PROVE  LogAndMemory' /\ View' = View /\ phase = "compacting" /\ phase' = "compacting"
  <1> DEFINE Moved(k) == IF k = scan + 1 THEN write + 1 ELSE k
             Came(k)  == IF k = write + 1 THEN scan + 1 ELSE k
  <1>1. /\ IInv /\ phase = "compacting" /\ phase' = "compacting" /\ batch' = batch
        /\ scan' = scan + 1 /\ write' = write + 1
        /\ UNCHANGED <<byName, byId, defs>>
    BY DEF ReopenIInv, IndexIInv, CompactKeep
  <1>2. /\ scan \in Nat /\ write \in Nat /\ scan < Len(log) /\ write <= scan
        /\ Len(log') = Len(log) /\ Len(log) \in Nat /\ batch = None
        /\ \A k \in 1 .. Len(log) : log'[k] = IF k = write + 1 THEN log[scan + 1] ELSE log[k]
    BY <1>1, CompactKeepEffect DEF IInv, TypeOK, BatchOffsets
  <1>3. Kept' = 1 .. write + 1 \cup (scan + 1) + 1 .. Len(log)
    BY <1>1, <1>2 DEF Kept, Unscanned
  <1>4. ASSUME NEW k \in Kept
        PROVE  Moved(k) \in Kept' /\ log'[Moved(k)] = log[k]
    <2>1. k \in 1 .. write \/ k \in scan + 1 .. Len(log)
      BY DEF Kept, Unscanned
    <2>2. CASE k = scan + 1
      <3>1. Moved(k) = write + 1 /\ write + 1 \in Kept' /\ write + 1 \in 1 .. Len(log)
        BY <1>2, <1>3, <2>2
      <3>2. QED
        BY <1>2, <2>2, <3>1
    <2>3. CASE k # scan + 1
      <3>1. Moved(k) = k /\ k \in Kept' /\ k \in 1 .. Len(log) /\ k # write + 1
        BY <1>2, <1>3, <2>1, <2>3
      <3>2. QED
        BY <1>2, <3>1
    <2>4. QED
      BY <2>2, <2>3
  <1>5. ASSUME NEW k \in Kept'
        PROVE  Came(k) \in Kept /\ Moved(Came(k)) = k
    <2>1. k \in 1 .. write + 1 \/ k \in (scan + 1) + 1 .. Len(log)
      BY <1>3
    <2>2. CASE k = write + 1
      <3>1. Came(k) = scan + 1 /\ scan + 1 \in scan + 1 .. Len(log)
        BY <1>2, <2>2
      <3>2. QED
        BY <2>2, <3>1 DEF Kept, Unscanned
    <2>3. CASE k # write + 1
      <3>1. (k \in 1 .. write \/ k \in scan + 1 .. Len(log)) /\ k # scan + 1
        BY <1>2, <2>1, <2>3
      <3>2. Came(k) = k /\ Moved(k) = k
        BY <2>3, <3>1
      <3>3. QED
        BY <3>1, <3>2 DEF Kept, Unscanned
    <2>4. QED
      BY <2>2, <2>3
  <1>6. ASSUME NEW i \in Kept, NEW j \in Kept, i < j
        PROVE  Moved(i) < Moved(j)
    <2>1. i \in 1 .. write \/ i \in scan + 1 .. Len(log)
      BY DEF Kept, Unscanned
    <2>2. j \in 1 .. write \/ j \in scan + 1 .. Len(log)
      BY DEF Kept, Unscanned
    <2>3. /\ i \in Nat /\ j \in Nat /\ (i <= write \/ i > scan)
          /\ (j <= write \/ j > scan)
      BY <1>2, <2>1, <2>2
    <2>4. /\ i = scan + 1 => Moved(i) = write + 1
          /\ i # scan + 1 => Moved(i) = i
          /\ j = scan + 1 => Moved(j) = write + 1
          /\ j # scan + 1 => Moved(j) = j
      OBVIOUS
    <2> HIDE DEF Moved
    <2>5. QED
      BY <1>2, <1>6, <2>3, <2>4
  <1> HIDE DEF Moved, Came
  <1>7. CompactionKeeps
    BY DEF ReopenIInv, LogAndMemory
  <1>8. ASSUME NEW c \in ColIds, byId[c] # None
        PROVE  \E i \in Kept' : FoundedAt(c, i)'
    <2>1. PICK i \in Kept : FoundedAt(c, i)
      BY <1>1, <1>7, <1>8 DEF CompactionKeeps
    <2>2. Founds(log'[Moved(i)], c, byId[c])
      BY <1>4, <2>1 DEF FoundedAt
    <2>3. ASSUME NEW j \in Kept', j # Moved(i), InData(log'[j]), log'[j].col = c
          PROVE  Moved(i) < j /\ log'[j].op # "ncl1"
      <3>1. Came(j) \in Kept /\ Moved(Came(j)) = j /\ Came(j) # i
        BY <1>5, <2>3
      <3>2. log'[j] = log[Came(j)]
        BY <1>4, <3>1
      <3>3. i < Came(j) /\ log[Came(j)].op # "ncl1"
        BY <2>1, <2>3, <3>1, <3>2 DEF FoundedAt
      <3>4. Moved(i) < Moved(Came(j))
        BY <1>6, <3>1, <3>3
      <3>5. QED
        BY <3>1, <3>2, <3>3, <3>4
    <2>4. \A k : k = Moved(i) => FoundedAt(c, k)'
      BY <1>1, <2>2, <2>3 DEF FoundedAt
    <2>5. QED
      BY <1>4, <2>4
  <1>9. ASSUME NEW c \in ColIds, NEW f \in Fields, defs[c][f] # None
        PROVE  \E i \in Kept' : Defines(log'[i], c, f, defs[c][f])
    BY <1>1, <1>4, <1>7, <1>9 DEF CompactionKeeps
  <1>10. CompactionKeeps'
    BY <1>1, <1>8, <1>9 DEF CompactionKeeps
  <1>11. LogAndMemory'
    BY <1>1, <1>2, <1>10, CompactionFrame
  <1>12. View' = View
    BY <1>1, CompactStepView
  <1>13. QED
    BY <1>1, <1>11, <1>12

\* What is left when a compaction ends: the ncl1 of every collection before its
\* other records, the definition of every index, the current documents.
LEMMA CompactedRecords ==
    ASSUME ReopenIInv, EndCompact
    PROVE  /\ DOMAIN log' = 1 .. write /\ Len(log') = write /\ write \in Nat
           /\ log' \in Seq(Records)
           /\ \A i \in 1 .. write :
                 /\ log'[i] = log[i]
                 /\ log'[i].op \in {"ncl1", "put1", "idx1"}
                 /\ log'[i].col \in ColIds /\ byId[log'[i].col] \in Names
                 /\ log'[i].op = "put1" => primary[log'[i].col][log'[i].id] = i
                 /\ log'[i].op = "idx1" =>
                       log'[i].def = defs[log'[i].col][log'[i].field]
           /\ \A c \in ColIds : byId[c] # None =>
                 \E i \in 1 .. write :
                    /\ Founds(log'[i], c, byId[c])
                    /\ \A j \in 1 .. write : j # i /\ log'[j].col = c =>
                          i < j /\ log'[j].op # "ncl1"
           /\ \A c \in ColIds, f \in Fields : defs[c][f] # None =>
                 \E i \in 1 .. write : Defines(log'[i], c, f, defs[c][f])
           /\ \A c \in ColIds, d \in DocIds : primary[c][d] # 0 =>
                 primary[c][d] \in 1 .. write /\ Writes(log'[primary[c][d]], c, d)
  <1>1. /\ IInv /\ phase = "compacting" /\ scan = Len(log) /\ write \in Nat /\ write <= Len(log)
        /\ DOMAIN log' = 1 .. write /\ \A k \in 1 .. write : log'[k] = log[k]
        /\ \A c \in ColIds, d \in DocIds : primary[c][d] # 0 => primary[c][d] \in 1 .. write
    BY EndCompactEffect DEF ReopenIInv, IndexIInv
  <1>2. /\ log \in Seq(Records) /\ MemType /\ Len(log) \in Nat /\ DOMAIN log = 1 .. Len(log)
    BY <1>1 DEF IInv, TypeOK, MemType
  <1>3. log' \in Seq(Records) /\ Len(log') = write
    <2>1. log' = SubSeq(log, 1, write)
      BY DEF EndCompact
    <2>2. QED
      BY <1>1, <1>2, <2>1
  <1>4. Kept = 1 .. write
    BY <1>1, <1>2 DEF Kept, Unscanned
  <1>5. KeptAreLive /\ CompactionKeeps /\ RegisteredDefs /\ ~RedefinedIndex
    BY DEF ReopenIInv, CompactIInv, LogAndMemory
  <1>6. ASSUME NEW i \in 1 .. write
        PROVE  /\ i \in DOMAIN log /\ log[i] \in Records /\ ShouldKeep(log[i], i)
               /\ log[i].op \in {"ncl1", "put1", "idx1"}
               /\ log[i].col \in ColIds /\ byId[log[i].col] \in Names
    <2>1. i \in DOMAIN log /\ log[i] \in Records /\ ShouldKeep(log[i], i)
      BY <1>1, <1>2, <1>5 DEF KeptAreLive
    <2>2. log[i].op \in {"ncl1", "put1", "idx1"} /\ byId[log[i].col] # None
      BY <2>1 DEF ShouldKeep
    <2>3. log[i].col \in ColIds
      BY <2>1, <2>2, RecordFields
    <2>4. QED
      BY <1>2, <2>1, <2>2, <2>3 DEF MemType
  <1>7. ASSUME NEW i \in 1 .. write, log[i].op = "idx1"
        PROVE  log[i].def = defs[log[i].col][log[i].field]
    <2>1. log[i].col \in ColIds /\ log[i].field \in Fields
      BY <1>6, <1>7, RecordFields
    <2>2. defs[log[i].col][log[i].field] # None
      BY <1>6, <1>7 DEF ShouldKeep
    <2>3. PICK j \in 1 .. write :
                 Defines(log[j], log[i].col, log[i].field, defs[log[i].col][log[i].field])
      BY <1>1, <1>4, <1>5, <2>1, <2>2 DEF CompactionKeeps
    <2>4. QED
      BY <1>5, <1>6, <1>7, <2>3 DEF RedefinedIndex, Defines
  <1>8. ASSUME NEW c \in ColIds, byId[c] # None
        PROVE  \E i \in 1 .. write :
                  /\ Founds(log[i], c, byId[c])
                  /\ \A j \in 1 .. write : j # i /\ log[j].col = c =>
                        i < j /\ log[j].op # "ncl1"
    <2>1. PICK i \in 1 .. write : FoundedAt(c, i)
      BY <1>1, <1>4, <1>5, <1>8 DEF CompactionKeeps
    <2>2. \A j \in 1 .. write : InData(log[j])
      BY <1>6 DEF InData
    <2>3. QED
      BY <1>4, <2>1, <2>2 DEF FoundedAt
  <1>9. ASSUME NEW c \in ColIds, NEW f \in Fields, defs[c][f] # None
        PROVE  \E i \in 1 .. write : Defines(log[i], c, f, defs[c][f])
    BY <1>1, <1>4, <1>5, <1>9 DEF CompactionKeeps
  <1>10. ASSUME NEW c \in ColIds, NEW d \in DocIds, primary[c][d] # 0
         PROVE  primary[c][d] \in 1 .. write /\ Writes(log[primary[c][d]], c, d)
    BY <1>1, <1>10 DEF IInv, PrimaryOffsets, IsPut, Writes
  <1>11. ASSUME NEW i \in 1 .. write
         PROVE  /\ log'[i] = log[i]
                /\ log'[i].op \in {"ncl1", "put1", "idx1"}
                /\ log'[i].col \in ColIds /\ byId[log'[i].col] \in Names
                /\ log'[i].op = "put1" => primary[log'[i].col][log'[i].id] = i
                /\ log'[i].op = "idx1" => log'[i].def = defs[log'[i].col][log'[i].field]
    BY <1>1, <1>6, <1>7 DEF ShouldKeep
  <1>12. ASSUME NEW c \in ColIds, byId[c] # None
         PROVE  \E i \in 1 .. write :
                    /\ Founds(log'[i], c, byId[c])
                    /\ \A j \in 1 .. write : j # i /\ log'[j].col = c =>
                          i < j /\ log'[j].op # "ncl1"
    BY <1>1, <1>8, <1>12
  <1>13. ASSUME NEW c \in ColIds, NEW f \in Fields, defs[c][f] # None
         PROVE  \E i \in 1 .. write : Defines(log'[i], c, f, defs[c][f])
    BY <1>1, <1>9, <1>13
  <1>14. ASSUME NEW c \in ColIds, NEW d \in DocIds, primary[c][d] # 0
         PROVE  primary[c][d] \in 1 .. write /\ Writes(log'[primary[c][d]], c, d)
    BY <1>1, <1>10, <1>14
  <1>15. QED
    BY <1>1, <1>3, <1>11, <1>12, <1>13, <1>14

\* A compacted log fits, and says what memory holds.
LEMMA EndCompactLog ==
    ASSUME ReopenIInv, EndCompact
    PROVE  LogAndMemory' /\ View' = View /\ phase = "compacting" /\ phase' = "open"
  <1> DEFINE q == write + 1
  <1>1. /\ IInv /\ phase = "compacting" /\ phase' = "open" /\ batch' = None
        /\ primary' = primary /\ byId' = byId /\ byName' = byName /\ defs' = defs
        /\ MemType /\ log \in Seq(Records) /\ PrimaryOffsets /\ NamesAgree /\ StoreConsistent
        /\ RegisteredDefs
    BY EndCompactEffect DEF ReopenIInv, IndexIInv, LogAndMemory, IInv, TypeOK, MemType
  <1>2. PICK M : M = log'
    OBVIOUS
  <1>3. /\ DOMAIN M = 1 .. write /\ Len(M) = write /\ write \in Nat /\ M \in Seq(Records)
        /\ \A i \in 1 .. write :
              /\ M[i] = log[i]
              /\ M[i].op \in {"ncl1", "put1", "idx1"}
              /\ M[i].col \in ColIds /\ byId[M[i].col] \in Names
              /\ M[i].op = "put1" => primary[M[i].col][M[i].id] = i
              /\ M[i].op = "idx1" => M[i].def = defs[M[i].col][M[i].field]
        /\ \A c \in ColIds : byId[c] # None =>
              \E i \in 1 .. write :
                 /\ Founds(M[i], c, byId[c])
                 /\ \A j \in 1 .. write : j # i /\ M[j].col = c => i < j /\ M[j].op # "ncl1"
        /\ \A c \in ColIds, f \in Fields : defs[c][f] # None =>
              \E i \in 1 .. write : Defines(M[i], c, f, defs[c][f])
        /\ \A c \in ColIds, d \in DocIds : primary[c][d] # 0 =>
              primary[c][d] \in 1 .. write /\ Writes(M[primary[c][d]], c, d)
    BY <1>2, CompactedRecords
  <1>4. q \in Nat /\ q # 0 /\ q - 1 = write
    BY <1>3
  <1> HIDE DEF q
  <1>5. \A i \in 1 .. write : \A c, f : ~Closes(M[i], c) /\ ~Undefines(M[i], c, f)
    BY <1>3 DEF Closes, Undefines
  <1>6. ASSUME NEW i \in 1 .. write, NEW c \in ColIds, NEW n, Founds(M[i], c, n)
        PROVE  n = byId[c]
    <2>1. byId[c] # None /\ M[i].col = c /\ M[i].op = "ncl1" /\ M[i].name = n
      BY <1>3, <1>6, NoneAssumption DEF Founds
    <2>2. PICK k \in 1 .. write :
              /\ Founds(M[k], c, byId[c])
              /\ \A j \in 1 .. write : j # k /\ M[j].col = c => k < j /\ M[j].op # "ncl1"
      BY <1>3, <2>1
    <2>3. k = i
      BY <2>1, <2>2
    <2>4. QED
      BY <2>1, <2>2, <2>3 DEF Founds
  <1>7. ASSUME NEW p \in 1 .. q, NEW c \in ColIds, NEW n, Registered(M, c, n, p)
        PROVE  n = byId[c] /\ \E i \in 1 .. p - 1 : Founds(M[i], c, n)
    <2>1. PICK i \in 1 .. p - 1 : Founds(M[i], c, n)
      BY <1>7 DEF Registered
    <2>2. i \in 1 .. write
      BY <1>4
    <2>3. QED
      BY <1>6, <2>1, <2>2
  <1>8. ASSUME NEW p \in 1 .. q, NEW c \in ColIds, NEW i \in 1 .. p - 1, Founds(M[i], c, byId[c])
        PROVE  Registered(M, c, byId[c], p)
    <2>1. \A j \in i + 1 .. p - 1 : j \in 1 .. write
      BY <1>3, <1>4
    <2>2. QED
      BY <1>5, <1>8, <2>1 DEF Registered
  <1>9. KnowsNames(byId, M, q)
    <2> SUFFICES ASSUME NEW c \in ColIds, NEW n \in Names
                 PROVE  byId[c] = n <=> Registered(M, c, n, q)
      BY DEF KnowsNames
    <2>1. ASSUME byId[c] = n PROVE Registered(M, c, n, q)
      <3>1. byId[c] # None
        BY <2>1, NoneAssumption
      <3>2. PICK i \in 1 .. write : Founds(M[i], c, byId[c])
        BY <1>3, <3>1
      <3>3. q \in 1 .. q /\ i \in 1 .. q - 1
        BY <1>4
      <3>4. QED
        BY <1>8, <2>1, <3>2, <3>3
    <2>2. q \in 1 .. q
      BY <1>4
    <2>3. QED
      BY <1>7, <2>1, <2>2
  <1>10. ASSUME NEW c \in ColIds, NEW d \in DocIds, NEW p \in 1 .. q, NEW o,
                Current(M, c, d, o, p)
         PROVE  primary[c][d] = o /\ o \in 1 .. write
    <2>1. o \in 1 .. write /\ Writes(M[o], c, d)
      BY <1>4, <1>10 DEF Current
    <2>2. QED
      BY <1>3, <2>1 DEF Writes
  <1>11. ASSUME NEW c \in ColIds, NEW d \in DocIds, primary[c][d] # 0
         PROVE  Current(M, c, d, primary[c][d], q)
    <2>1. primary[c][d] \in 1 .. write /\ Writes(M[primary[c][d]], c, d)
      BY <1>3, <1>11
    <2>2. ASSUME NEW j \in primary[c][d] + 1 .. write
          PROVE  ~Replaces(M[j], c, d)
      <3>1. j \in 1 .. write /\ j # primary[c][d]
        BY <1>3, <2>1
      <3>2. QED
        BY <1>3, <1>5, <3>1 DEF Replaces
    <2>3. QED
      BY <1>4, <2>1, <2>2 DEF Current
  <1>12. KnowsDocs(primary, M, q)
    <2> SUFFICES ASSUME NEW c \in ColIds, NEW d \in DocIds
                 PROVE  /\ primary[c][d] < q
                        /\ \A o \in 1 .. q - 1 : primary[c][d] = o <=> Current(M, c, d, o, q)
      BY DEF KnowsDocs
    <2>1. primary[c][d] = 0 \/ primary[c][d] \in 1 .. write
      BY <1>3
    <2>2. primary[c][d] < q
      BY <1>3, <1>4, <2>1
    <2>3. q \in 1 .. q /\ \A o \in 1 .. q - 1 : o # 0
      BY <1>4
    <2>4. QED
      BY <1>10, <1>11, <2>2, <2>3
  <1>13. KnowsDefs(defs, M, q)
    <2> SUFFICES ASSUME NEW c \in ColIds, NEW f \in Fields, NEW def \in IndexDefs
                 PROVE  defs[c][f] = def <=> Defined(M, c, f, def, q)
      BY DEF KnowsDefs
    <2>1. ASSUME defs[c][f] = def PROVE Defined(M, c, f, def, q)
      <3>1. PICK i \in 1 .. write : Defines(M[i], c, f, def)
        BY <1>3, <2>1, NoneAssumption
      <3>2. \A j \in i + 1 .. q - 1 : j \in 1 .. write
        BY <1>3, <1>4
      <3>3. QED
        BY <1>4, <1>5, <3>1, <3>2 DEF Defined
    <2>2. ASSUME Defined(M, c, f, def, q) PROVE defs[c][f] = def
      BY <1>3, <1>4, <2>2 DEF Defined, Defines
    <2>3. QED
      BY <2>1, <2>2
  <1>14. Remembers(byId, primary, defs, M, q)
    BY <1>9, <1>12, <1>13 DEF Remembers
  <1>15. ASSUME NEW p \in 1 .. write
         PROVE  Fits(M, p)
    <2>1. p \in 1 .. q /\ \A i \in 1 .. p - 1 : i \in 1 .. write /\ i # p /\ i < p /\ ~(p < i)
      BY <1>3, <1>4
    <2>2. M[p].col \in ColIds /\ byId[M[p].col] # None
      BY <1>3, NoneAssumption
    <2>3. PICK k \in 1 .. write :
              /\ Founds(M[k], M[p].col, byId[M[p].col])
              /\ \A j \in 1 .. write : j # k /\ M[j].col = M[p].col => k < j /\ M[j].op # "ncl1"
      BY <1>3, <2>2
    <2>4. ASSUME M[p].op = "ncl1"
          PROVE  /\ \A j \in 1 .. p - 1 : M[j].op = "ncl1" => M[j].col # M[p].col
                 /\ \A c \in ColIds : ~Registered(M, c, M[p].name, p)
      <3>1. k = p
        BY <2>3, <2>4
      <3>2. \A j \in 1 .. p - 1 : M[j].op = "ncl1" => M[j].col # M[p].col
        BY <2>1, <2>3, <3>1
      <3>3. ASSUME NEW c \in ColIds, Registered(M, c, M[p].name, p) PROVE FALSE
        <4>1. PICK i \in 1 .. p - 1 : Founds(M[i], c, M[p].name)
          BY <1>7, <2>1, <3>3
        <4>2. M[p].name = byId[c] /\ M[p].name = byId[M[p].col]
          BY <1>7, <2>1, <2>3, <3>1, <3>3 DEF Founds
        <4>3. c = M[p].col
          <5>1. byId[c] \in Names
            BY <1>3, <4>2
          <5>2. \A n \in Names, e \in ColIds : byId[e] = n => byName[n] = e
            BY <1>1 DEF NamesAgree
          <5>3. byName[byId[c]] = c /\ byName[byId[c]] = M[p].col
            BY <2>2, <4>2, <5>1, <5>2
          <5>4. QED
            BY <5>3
        <4>4. QED
          BY <3>2, <4>1, <4>3 DEF Founds
      <3>4. QED
        BY <3>2, <3>3
    <2>5. ASSUME M[p].op # "ncl1"
          PROVE  \E n \in Names : Registered(M, M[p].col, n, p)
      <3>1. k # p
        BY <2>3, <2>5 DEF Founds
      <3>2. k < p
        BY <2>3, <3>1
      <3>3. k \in 1 .. p - 1
        BY <3>2, <1>3
      <3>4. QED
        BY <1>3, <1>8, <2>1, <2>2, <2>3, <3>3
    <2>6. ASSUME M[p].op = "idx1", M[p].def.unique
          PROVE  Distinct(M, M[p].col, M[p].field, M[p].def, p)
      <3>1. PICK c \in ColIds : c = M[p].col
        BY <2>2
      <3>2. PICK f \in Fields : f = M[p].field
        <4>1. M[p] \in Records
          BY <1>3
        <4>2. QED
          BY <2>6, <4>1, RecordFields
      <3>3. M[p].def = defs[c][f] /\ M[p].def # None
        <4>1. M[p] \in Records
          BY <1>3
        <4>2. M[p].def \in IndexDefs
          BY <2>6, <4>1, RecordFields
        <4>3. QED
          BY <1>3, <2>6, <3>1, <3>2, <4>2, NoneAssumption
      <3>4. Promise!Consistent(Contents(c))
        BY <1>1, <2>2, <3>1, CallFacts DEF Up
      <3>5. DistinctNow(c, f, M[p].def)
        BY <1>1, <2>6, <3>3, <3>4, ConsistentNow
      <3>6. ASSUME NEW d \in DocIds, NEW e \in DocIds, NEW o \in 1 .. p - 1, NEW s \in 1 .. p - 1,
                   d # e, Current(M, c, d, o, p), Current(M, c, e, s, p),
                   Indexable(M[p].def, M[o].doc[f])
            PROVE  M[o].doc[f] # M[s].doc[f]
        <4>1. primary[c][d] = o /\ primary[c][e] = s /\ o \in 1 .. write /\ s \in 1 .. write
          BY <1>10, <2>1, <3>6
        <4>2. M[o].doc = StoredDoc(c, d) /\ M[s].doc = StoredDoc(c, e) /\ o # 0 /\ s # 0
          BY <1>3, <4>1 DEF StoredDoc
        <4>3. QED
          BY <3>5, <3>6, <4>1, <4>2 DEF DistinctNow
      <3>7. QED
        BY <3>1, <3>2, <3>6 DEF Distinct
    <2>7. M[p].op \in {"ncl1", "put1", "idx1"}
      BY <1>3
    <2>8. QED
      BY <2>4, <2>5, <2>6, <2>7 DEF Fits
  <1>16. WellFormed(M)
    BY <1>3, <1>15 DEF WellFormed
  <1>17. Horizon(M) = q
    <2>1. \A t \in 1 .. Len(M) : ~InTxn(M, t, Len(M) + 1)
      BY <1>3 DEF InTxn
    <2>2. q = Len(M) + 1
      BY <1>3 DEF q
    <2>3. QED
      BY <1>3, <2>1, <2>2, HorizonEnd
  <1>18. LogFits' /\ MemoryRecorded'
    BY <1>1, <1>2, <1>14, <1>16, <1>17 DEF LogFits, MemoryRecorded, Applied
  <1>19. NamesAgree' /\ RegisteredDefs'
    BY <1>1 DEF NamesAgree, RegisteredDefs
  <1>20. ReplayTxn' /\ AckedRecorded' /\ CompactionKeeps' /\ BatchTail' /\ BatchChecked'
    BY <1>1 DEF ReplayTxn, AckedRecorded, Up, CompactionKeeps, BatchTail, BatchChecked
  <1>21. LogAndMemory'
    BY <1>18, <1>19, <1>20 DEF LogAndMemory
  <1>22. View' = View
    BY <1>1, CompactStepView
  <1>23. QED
    BY <1>1, <1>21, <1>22

-----------------------------------------------------------------------------
(* The end of a session, and the replay of the next.                       *)

\* A process that has just started remembers what the log says at its start.
LEMMA ForgottenKnown ==
    ASSUME Forget, NEW L
    PROVE  Remembers(byId', primary', defs', L, 1) /\ NamesAgree' /\ RegisteredDefs'
  <1>1. /\ \A n \in Names : byName'[n] = None
        /\ \A c \in ColIds : byId'[c] = None
        /\ \A c \in ColIds, d \in DocIds : primary'[c][d] = 0
        /\ \A c \in ColIds, f \in Fields : defs'[c][f] = None
    BY DEF Forget, NoDocs, NoDefs
  <1>2. 1 .. 1 - 1 = {}
    OBVIOUS
  <1>3. KnowsNames(byId', L, 1)
    BY <1>1, <1>2, NoneAssumption DEF KnowsNames, Registered
  <1>4. KnowsDocs(primary', L, 1)
    BY <1>1, <1>2 DEF KnowsDocs
  <1>5. KnowsDefs(defs', L, 1)
    BY <1>1, <1>2, NoneAssumption DEF KnowsDefs, Defined
  <1>6. NamesAgree' /\ RegisteredDefs'
    BY <1>1, NoneAssumption DEF NamesAgree, RegisteredDefs
  <1>7. QED
    BY <1>3, <1>4, <1>5, <1>6 DEF Remembers

\* What an open session has written down is what its callers read.
LEMMA OpenRecorded ==
    ASSUME ReopenIInv, phase = "open"
    PROVE  View = Recorded(log, Horizon(log))
  <1>1. /\ MemType /\ NamesAgree /\ log \in Seq(Records) /\ WellFormed(log)
        /\ Remembers(byId, primary, defs, log, Horizon(log))
    BY DEF ReopenIInv, LogAndMemory, LogFits, MemoryRecorded, Applied, IndexIInv, IInv, TypeOK,
           MemType
  <1>2. Horizon(log) \in Nat
    <2>1. Horizon(log) \in 1 .. Len(log) + 1 /\ Len(log) \in Nat
      BY <1>1, HorizonType
    <2>2. QED
      BY <2>1
  <1>3. QED
    BY <1>1, <1>2, ViewRecorded

\* A session that ends outside a compaction leaves in the log what its callers
\* read; a replay that is cut short changes nothing.
LEMMA SessionEndLog ==
    ASSUME NoCrashInCompact, ReopenIInv, Close \/ Crash
    PROVE  LogAndMemory' /\ Store' = Store /\ phase # "compacting" /\ phase' = "down"
  <1>1. /\ phase \in {"open", "loading"} /\ phase' = "down" /\ log' = log /\ Forget
        /\ acked' = IF phase = "loading" THEN acked ELSE View
    BY DEF NoCrashInCompact, Close, Crash, Idle
  <1>2. acked' = Recorded(log, Horizon(log)) /\ Store = acked'
    <2>1. CASE phase = "open"
      BY <1>1, <2>1, OpenRecorded DEF Store, Up
    <2>2. CASE phase = "loading"
      BY <1>1, <2>2 DEF ReopenIInv, LogAndMemory, AckedRecorded, Store, Up
    <2>3. QED
      BY <1>1, <2>1, <2>2
  <1>3. LogFits' /\ AckedRecorded'
    BY <1>1, <1>2 DEF ReopenIInv, LogAndMemory, LogFits, AckedRecorded
  <1>4. MemoryRecorded' /\ NamesAgree' /\ RegisteredDefs'
    BY <1>1, ForgottenKnown DEF MemoryRecorded, Applied
  <1>5. ReplayTxn' /\ CompactionKeeps' /\ BatchTail' /\ BatchChecked'
    BY <1>1 DEF Forget, ReplayTxn, CompactionKeeps, BatchTail, BatchChecked
  <1>6. Store' = Store
    BY <1>1, <1>2 DEF Store, Up
  <1>7. QED
    BY <1>1, <1>3, <1>4, <1>5, <1>6 DEF LogAndMemory

\* open() starts reading with an empty memory.
LEMMA OpenLog ==
    ASSUME ReopenIInv, Open
    PROVE  LogAndMemory' /\ Store' = Store /\ ~Up /\ phase # "compacting" /\ phase' = "loading"
  <1>1. /\ phase = "down" /\ phase' = "loading" /\ pos' = 1 /\ txn' = 0 /\ redo' = 0
        /\ UNCHANGED <<log, byName, byId, primary, defs, batch, acked>>
    BY DEF ReopenIInv, OpenSucceeds, Open, memoryVars
  <1>2. batch = None
    BY <1>1 DEF ReopenIInv, IndexIInv, IInv, BatchOffsets
  <1>3. /\ NamesAgree /\ RegisteredDefs /\ LogFits /\ AckedRecorded
        /\ Remembers(byId, primary, defs, log, 1) /\ log \in Seq(Records)
    BY <1>1 DEF ReopenIInv, LogAndMemory, MemoryRecorded, Applied, IndexIInv, IInv, TypeOK
  <1>4. NamesAgree' /\ RegisteredDefs' /\ LogFits'
    BY <1>1, <1>3 DEF NamesAgree, RegisteredDefs, LogFits
  <1>5. MemoryRecorded'
    BY <1>1, <1>3 DEF MemoryRecorded, Applied
  <1>6. ReplayTxn'
    <2>1. 1 <= Len(log) + 1 /\ 1 .. 1 - 1 = {}
      BY <1>3
    <2>2. QED
      BY <1>1, <2>1 DEF ReplayTxn
  <1>7. AckedRecorded' /\ CompactionKeeps' /\ BatchTail' /\ BatchChecked'
    BY <1>1, <1>2, <1>3 DEF AckedRecorded, Up, CompactionKeeps, BatchTail, BatchChecked
  <1>8. Store' = Store
    BY <1>1 DEF Store, Up
  <1>9. QED
    BY <1>1, <1>4, <1>5, <1>6, <1>7, <1>8 DEF LogAndMemory, Up

\* What a replay knows.
LEMMA LoadFacts ==
    ASSUME ReopenIInv, phase = "loading"
    PROVE  /\ IInv /\ Agrees /\ MemType /\ RegisteredDocs /\ NamesAgree /\ RegisteredDefs
           /\ WellFormed(log) /\ log \in Seq(Records) /\ Len(log) \in Nat
           /\ DOMAIN log = 1 .. Len(log) /\ ~RedefinedIndex /\ batch = None
           /\ pos \in Nat /\ txn \in Nat /\ redo \in Nat
           /\ pos >= 1 /\ pos <= Len(log) + 1 /\ (redo # 0 => pos <= Len(log))
           /\ Remembers(byId, primary, defs, log, Applied) /\ ReplayTxn
           /\ acked = Recorded(log, Horizon(log)) /\ ~Up
  <1>1. /\ IInv /\ IndexContents /\ NamesAgree /\ RegisteredDefs /\ LogFits /\ MemoryRecorded
        /\ ~RedefinedIndex /\ ReplayTxn /\ AckedRecorded
    BY DEF ReopenIInv, IndexIInv, LogAndMemory
  <1>2. /\ log \in Seq(Records) /\ MemType /\ RegisteredDocs /\ Agrees /\ WellFormed(log)
        /\ pos \in Nat /\ txn \in Nat /\ redo \in Nat
    BY <1>1 DEF IInv, TypeOK, MemType, IndexContents, Agrees, LogFits
  <1>3. batch = None /\ pos >= 1 /\ pos <= Len(log) + 1 /\ (redo # 0 => pos <= Len(log))
    BY <1>1 DEF IInv, BatchOffsets, LoaderInLog, ReplayTxn
  <1>4. Remembers(byId, primary, defs, log, Applied)
    BY <1>1 DEF MemoryRecorded
  <1>5. acked = Recorded(log, Horizon(log)) /\ ~Up
    BY <1>1 DEF AckedRecorded, Up
  <1>6. QED
    BY <1>1, <1>2, <1>3, <1>4, <1>5

\* What a step of a replay has to show.
LEMMA LoadFrame ==
    ASSUME ReopenIInv, phase = "loading", phase' = "loading", UNCHANGED <<log, batch, acked>>,
           NamesAgree', RegisteredDefs', Remembers(byId', primary', defs', log, Applied'),
           ReplayTxn'
    PROVE  LogAndMemory' /\ Store' = Store
  <1>1. WellFormed(log) /\ batch = None /\ acked = Recorded(log, Horizon(log))
    BY LoadFacts
  <1>2. LogFits' /\ MemoryRecorded' /\ AckedRecorded'
    BY <1>1 DEF LogFits, MemoryRecorded, AckedRecorded
  <1>3. CompactionKeeps' /\ BatchTail' /\ BatchChecked'
    BY <1>1 DEF CompactionKeeps, BatchTail, BatchChecked
  <1>4. Store' = Store
    BY DEF Store, Up
  <1>5. QED
    BY <1>2, <1>3, <1>4 DEF LogAndMemory

\* Replay can apply every record that fits.
LEMMA FitsApplicable ==
    ASSUME IInv, Agrees, MemType, NamesAgree, ~RedefinedIndex, log \in Seq(Records),
           NEW q \in 1 .. Len(log), Fits(log, q), Remembers(byId, primary, defs, log, q),
           InData(log[q])
    PROVE  Applicable(log[q])
  <1> DEFINE r == log[q]
  <1>1. /\ q \in Nat /\ q # 0 /\ q \in DOMAIN log /\ r \in Records
        /\ \A i \in 1 .. q - 1 : i \in DOMAIN log
    OBVIOUS
  <1>2. /\ r.op \in {"dco1", "put1", "del1", "idx1", "dix1"} => byId[r.col] \in Names
        /\ r.op = "dix1" => defs[r.col][r.field] \in IndexDefs
    BY <1>1, FitsMemory
  <1>3. /\ r.op \in {"ncl1", "dco1", "put1", "del1", "idx1", "dix1"}
        /\ r.col \in ColIds
        /\ r.op \in {"idx1", "dix1"} => r.field \in Fields
        /\ r.op = "idx1" => r.def \in IndexDefs
    BY <1>1, RecordFields DEF InData
  <1>4. ASSUME r.op = "idx1"
        PROVE  defs[r.col][r.field] \in {None, r.def} /\ ~Conflicting(r.col, r.field, r.def)
    <2>1. PICK c \in ColIds, f \in Fields, def \in IndexDefs :
              c = r.col /\ f = r.field /\ def = r.def
      BY <1>3, <1>4
    <2>2. defs[c][f] \in {None, def}
      <3>1. SUFFICES ASSUME defs[c][f] \in IndexDefs PROVE defs[c][f] = def
        BY DEF MemType
      <3>2. Defined(log, c, f, defs[c][f], q)
        BY <3>1 DEF Remembers, KnowsDefs
      <3>3. PICK i \in 1 .. q - 1 : Defines(log[i], c, f, defs[c][f])
        BY <3>2 DEF Defined
      <3>4. QED
        BY <1>1, <1>4, <2>1, <3>3 DEF RedefinedIndex, Defines
    <2>3. ASSUME Conflicting(c, f, def) PROVE FALSE
      <3>1. def.unique /\ ~DistinctNow(c, f, def)
        BY <2>3, DuplicatesNow DEF Conflicting
      <3>2. Distinct(log, c, f, def, q)
        BY <1>4, <2>1, <3>1 DEF Fits
      <3>3. KnowsDocs(primary, log, q)
        BY DEF Remembers
      <3>4. QED
        BY <1>1, <3>1, <3>2, <3>3, NowDistinct
    <2>4. QED
      BY <2>1, <2>2, <2>3
  <1> HIDE DEF r
  <1>5. Applicable(r)
    <2>1. byId[r.col] \in Names => byId[r.col] # None
      BY NoneAssumption
    <2>2. r.op = "dix1" => defs[r.col][r.field] # None
      BY <1>2, NoneAssumption
    <2>3. QED
      BY <1>2, <1>3, <1>4, <2>1, <2>2 DEF Applicable
  <1>6. QED
    BY <1>5 DEF r

\* Applying a record takes memory one record further.
LEMMA Replayed ==
    ASSUME ReopenIInv, phase = "loading", NEW q \in 1 .. Len(log), log' = log,
           Remembers(byId, primary, defs, log, q),
           \/ Applicable(log[q]) /\ ApplyOperation(log[q], q)
           \/ ~InData(log[q]) /\ UNCHANGED memoryVars
    PROVE  Remembers(byId', primary', defs', log, q + 1) /\ NamesAgree' /\ RegisteredDefs'
  <1>1. /\ MemType /\ RegisteredDocs /\ RegisteredDefs /\ NamesAgree /\ log[q] \in Records
        /\ Fits(log, q) /\ q \in Nat /\ q # 0
    BY LoadFacts DEF WellFormed
  <1>2. CASE Applicable(log[q]) /\ ApplyOperation(log[q], q)
    <2>1. log[q].op = "idx1" => defs[log[q].col][log[q].field] \in {None, log[q].def}
      BY <1>2 DEF Applicable
    <2>2. Effect(log[q], q)
      BY <1>2, <2>1 DEF ApplyOperation, Effect, Register, ApplyPut, ApplyDelete, ApplyDrop,
                        ApplyCreateIndex, ApplyDropIndex
    <2>3. QED
      BY <1>1, <2>2, EffectKnown
  <1>3. CASE ~InData(log[q]) /\ UNCHANGED memoryVars
    <2>1. Effect(log[q], q)
      BY <1>3 DEF InData, Effect, memoryVars
    <2>2. QED
      BY <1>1, <2>1, EffectKnown
  <1>4. QED
    BY <1>2, <1>3

\* The records between the brackets of a transaction are not brackets.
LEMMA InsideTxn ==
    ASSUME NEW L \in Seq(Records), WellFormed(L), NEW t, NEW q \in 1 .. Len(L) + 1,
           InTxn(L, t, q), NEW j \in t + 1 .. q - 1
    PROVE  InData(L[j])
  <1>1. /\ t \in 1 .. q - 1 /\ L[t].op = "txnb" /\ \A i \in t + 1 .. q - 1 : L[i].op # "txnc"
    BY DEF InTxn
  <1>2. t \in 1 .. j - 1 /\ j \in DOMAIN L /\ \A i \in t + 1 .. j - 1 : i \in t + 1 .. q - 1
    BY <1>1
  <1>3. InTxn(L, t, j)
    BY <1>1, <1>2 DEF InTxn
  <1>4. Fits(L, j)
    BY <1>2 DEF WellFormed
  <1>5. L[j].op # "txnb"
    BY <1>2, <1>3, <1>4 DEF Fits
  <1>6. QED
    BY <1>1, <1>5 DEF InData

\* open() never refuses a log that fits.
LEMMA NeverRefused ==
    ASSUME ReopenIInv, LoadFail
    PROVE  FALSE
  <1>1. phase = "loading"
    BY DEF LoadFail, Reading, Redoing
  <1>2. /\ IInv /\ Agrees /\ MemType /\ NamesAgree /\ ~RedefinedIndex /\ log \in Seq(Records)
        /\ WellFormed(log) /\ Len(log) \in Nat /\ DOMAIN log = 1 .. Len(log)
        /\ pos \in Nat /\ txn \in Nat /\ redo \in Nat /\ pos >= 1 /\ pos <= Len(log) + 1
        /\ Remembers(byId, primary, defs, log, Applied) /\ ReplayTxn
    BY <1>1, LoadFacts
  <1>3. /\ txn = 0 => redo = 0 /\ \A t \in 1 .. pos - 1 : ~InTxn(log, t, pos)
        /\ txn # 0 => InTxn(log, txn, pos)
        /\ redo # 0 => txn < redo /\ redo <= pos /\ log[pos].op = "txnc"
    BY <1>1, <1>2 DEF ReplayTxn
  <1>4. Reading => pos \in 1 .. Len(log) /\ Fits(log, pos)
    BY <1>2 DEF Reading, WellFormed
  <1>5. ~(Reading /\ log[pos].op = "txnb" /\ txn # 0)
    BY <1>3, <1>4 DEF Fits, InTxn
  <1>6. ~(Reading /\ log[pos].op = "txnc" /\ txn = 0)
    BY <1>3, <1>4 DEF Fits
  <1>7. ~(Reading /\ txn = 0 /\ InData(log[pos]) /\ ~Applicable(log[pos]))
    <2>1. Reading /\ txn = 0 => Applied = pos
      BY <1>1 DEF Reading, Applied
    <2>2. QED
      BY <1>2, <1>4, <2>1, FitsApplicable
  <1>8. ~(Redoing /\ redo < pos /\ ~Applicable(log[redo]))
    <2> SUFFICES ASSUME Redoing, redo < pos PROVE Applicable(log[redo])
      OBVIOUS
    <2>1. redo # 0 /\ txn # 0 /\ InTxn(log, txn, pos) /\ Applied = redo
      BY <1>1, <1>3 DEF Redoing, Applied
    <2>2. redo \in txn + 1 .. pos - 1 /\ redo \in 1 .. Len(log) /\ pos \in 1 .. Len(log) + 1
      BY <1>2, <1>3, <2>1
    <2>3. InData(log[redo])
      BY <1>2, <2>1, <2>2, InsideTxn
    <2>4. Fits(log, redo)
      BY <1>2, <2>2 DEF WellFormed
    <2>5. QED
      BY <1>2, <2>1, <2>2, <2>3, <2>4, FitsApplicable
  <1>9. QED
    BY <1>5, <1>6, <1>7, <1>8 DEF LoadFail

\* Every step of a replay but the last.
LEMMA LoadLog ==
    ASSUME ReopenIInv, Load, ~LoadEnd
    PROVE  LogAndMemory' /\ Store' = Store /\ phase = "loading" /\ phase' = "loading"
  <1>1. phase = "loading" /\ ~LoadFail
    BY NeverRefused DEF Load, LoadApply, LoadBegin, LoadStage, LoadCommit, LoadRedo,
                        LoadCommitted, Reading, Redoing
  <1>2. /\ NamesAgree /\ RegisteredDefs /\ WellFormed(log) /\ log \in Seq(Records)
        /\ Len(log) \in Nat /\ DOMAIN log = 1 .. Len(log)
        /\ pos \in Nat /\ txn \in Nat /\ redo \in Nat
        /\ pos >= 1 /\ pos <= Len(log) + 1 /\ (redo # 0 => pos <= Len(log))
        /\ Remembers(byId, primary, defs, log, Applied)
    BY <1>1, LoadFacts
  <1>3. /\ txn = 0 => redo = 0 /\ \A t \in 1 .. pos - 1 : ~InTxn(log, t, pos)
        /\ txn # 0 => InTxn(log, txn, pos)
        /\ redo # 0 => txn < redo /\ redo <= pos /\ log[pos].op = "txnc"
    BY <1>1, LoadFacts DEF ReplayTxn
  <1>4. txn # 0 => txn \in 1 .. pos - 1 /\ log[txn].op = "txnb" /\ txn < pos
    BY <1>2, <1>3 DEF InTxn
  <1>5. /\ redo # 0 => Applied = redo
        /\ redo = 0 /\ txn # 0 => Applied = txn
        /\ redo = 0 /\ txn = 0 => Applied = pos
    BY <1>1 DEF Applied
  <1>6. ASSUME UNCHANGED memoryVars PROVE NamesAgree' /\ RegisteredDefs'
    BY <1>2, <1>6 DEF memoryVars, NamesAgree, RegisteredDefs
  <1>7. pos # 0 /\ pos - 1 \in Nat /\ (pos + 1) - 1 = pos
    BY <1>2
  <1>8. \A t : InTxn(log, t, pos + 1) <=> \/ InTxn(log, t, pos) /\ log[pos].op # "txnc"
                                          \/ t = pos /\ log[pos].op = "txnb"
    BY <1>2, <1>7, InTxnNext
  <1>9. \A t : InTxn(log, t, pos) => t \in 1 .. pos - 1
    BY DEF InTxn
  <1>10. CASE LoadApply
    <2>1. /\ redo = 0 /\ txn = 0 /\ pos \in 1 .. Len(log) /\ InData(log[pos])
          /\ Applicable(log[pos]) /\ ApplyOperation(log[pos], pos)
          /\ phase' = "loading" /\ pos' = pos + 1 /\ txn' = 0 /\ redo' = 0
          /\ UNCHANGED <<log, batch, acked>>
      BY <1>1, <1>2, <1>10 DEF LoadApply, Reading
    <2>2. Applied' = pos + 1
      BY <2>1 DEF Applied
    <2>3. Remembers(byId', primary', defs', log, pos + 1) /\ NamesAgree' /\ RegisteredDefs'
      BY <1>1, <1>2, <1>5, <2>1, Replayed
    <2>4. \A t \in 1 .. pos : ~InTxn(log, t, pos + 1)
      BY <1>3, <1>8, <1>9, <2>1 DEF InData
    <2>5. pos + 1 <= Len(log) + 1
      BY <1>2, <2>1
    <2>6. ReplayTxn'
      BY <1>7, <2>1, <2>4, <2>5 DEF ReplayTxn
    <2>7. QED
      BY <1>1, <2>1, <2>2, <2>3, <2>6, LoadFrame
  <1>11. CASE LoadBegin
    <2>1. /\ redo = 0 /\ txn = 0 /\ pos \in 1 .. Len(log) /\ log[pos].op = "txnb"
          /\ phase' = "loading" /\ pos' = pos + 1 /\ txn' = pos /\ redo' = 0
          /\ UNCHANGED <<log, batch, acked>> /\ UNCHANGED memoryVars
      BY <1>1, <1>2, <1>11 DEF LoadBegin, Reading
    <2>2. Applied' = pos
      BY <1>7, <2>1 DEF Applied
    <2>3. Remembers(byId', primary', defs', log, pos)
      BY <1>2, <1>5, <2>1 DEF memoryVars
    <2>4. InTxn(log, pos, pos + 1)
      BY <1>8, <2>1
    <2>5. pos + 1 <= Len(log) + 1
      BY <1>2, <2>1
    <2>6. ReplayTxn'
      BY <1>7, <2>1, <2>4, <2>5 DEF ReplayTxn
    <2>7. QED
      BY <1>1, <1>6, <2>1, <2>2, <2>3, <2>6, LoadFrame
  <1>12. CASE LoadStage
    <2>1. /\ redo = 0 /\ txn # 0 /\ pos \in 1 .. Len(log) /\ InData(log[pos])
          /\ phase' = "loading" /\ pos' = pos + 1 /\ txn' = txn /\ redo' = 0
          /\ UNCHANGED <<log, batch, acked>> /\ UNCHANGED memoryVars
      BY <1>1, <1>2, <1>12 DEF LoadStage, Reading
    <2>2. Applied' = txn
      BY <2>1 DEF Applied
    <2>3. Remembers(byId', primary', defs', log, txn)
      BY <1>2, <1>5, <2>1 DEF memoryVars
    <2>4. InTxn(log, txn, pos + 1)
      BY <1>3, <1>8, <2>1 DEF InData
    <2>5. pos + 1 <= Len(log) + 1
      BY <1>2, <2>1
    <2>6. ReplayTxn'
      BY <2>1, <2>4, <2>5 DEF ReplayTxn
    <2>7. QED
      BY <1>1, <1>6, <2>1, <2>2, <2>3, <2>6, LoadFrame
  <1>13. CASE LoadCommit
    <2>1. /\ redo = 0 /\ txn # 0 /\ pos \in 1 .. Len(log) /\ log[pos].op = "txnc"
          /\ phase' = "loading" /\ pos' = pos /\ txn' = txn /\ redo' = txn + 1
          /\ UNCHANGED <<log, batch, acked>> /\ UNCHANGED memoryVars
      BY <1>1, <1>2, <1>13 DEF LoadCommit, Reading
    <2>2. txn + 1 # 0 /\ txn < txn + 1 /\ txn + 1 <= pos /\ txn \in 1 .. Len(log)
      BY <1>2, <1>4, <2>1
    <2>3. Applied' = txn + 1
      BY <2>1, <2>2 DEF Applied
    <2>4. ~InData(log[txn])
      BY <1>4, <2>1 DEF InData
    <2>5. Remembers(byId', primary', defs', log, txn + 1)
      BY <1>1, <1>2, <1>5, <2>1, <2>2, <2>4, Replayed
    <2>6. ReplayTxn'
      BY <1>2, <1>3, <2>1, <2>2 DEF ReplayTxn
    <2>7. QED
      BY <1>1, <1>6, <2>1, <2>3, <2>5, <2>6, LoadFrame
  <1>14. CASE LoadRedo
    <2>1. /\ redo # 0 /\ txn # 0 /\ redo < pos /\ pos <= Len(log)
          /\ Applicable(log[redo]) /\ ApplyOperation(log[redo], redo)
          /\ phase' = "loading" /\ pos' = pos /\ txn' = txn /\ redo' = redo + 1
          /\ UNCHANGED <<log, batch, acked>>
      BY <1>1, <1>2, <1>3, <1>14 DEF LoadRedo, Redoing
    <2>2. redo + 1 # 0 /\ txn < redo + 1 /\ redo + 1 <= pos /\ redo \in 1 .. Len(log)
      BY <1>2, <1>3, <2>1
    <2>3. Applied' = redo + 1
      BY <2>1, <2>2 DEF Applied
    <2>4. Remembers(byId', primary', defs', log, redo + 1) /\ NamesAgree' /\ RegisteredDefs'
      BY <1>1, <1>2, <1>5, <2>1, <2>2, Replayed
    <2>5. ReplayTxn'
      BY <1>2, <1>3, <2>1, <2>2 DEF ReplayTxn
    <2>6. QED
      BY <1>1, <2>1, <2>3, <2>4, <2>5, LoadFrame
  <1>15. CASE LoadCommitted
    <2>1. /\ redo # 0 /\ redo = pos /\ pos <= Len(log) /\ log[pos].op = "txnc"
          /\ phase' = "loading" /\ pos' = pos + 1 /\ txn' = 0 /\ redo' = 0
          /\ UNCHANGED <<log, batch, acked>> /\ UNCHANGED memoryVars
      BY <1>1, <1>2, <1>3, <1>15 DEF LoadCommitted, Redoing
    <2>2. Applied' = pos + 1
      BY <2>1 DEF Applied
    <2>3. pos \in 1 .. Len(log) /\ ~InData(log[pos]) /\ pos + 1 <= Len(log) + 1
      BY <1>2, <2>1 DEF InData
    <2>4. Remembers(byId', primary', defs', log, pos + 1)
      BY <1>1, <1>2, <1>5, <2>1, <2>3, Replayed
    <2>5. \A t \in 1 .. pos : ~InTxn(log, t, pos + 1)
      BY <1>8, <2>1
    <2>6. ReplayTxn'
      BY <1>7, <2>1, <2>3, <2>5 DEF ReplayTxn
    <2>7. QED
      BY <1>1, <1>6, <2>1, <2>2, <2>4, <2>6, LoadFrame
  <1>16. QED
    BY <1>1, <1>10, <1>11, <1>12, <1>13, <1>14, <1>15 DEF Load

\* When a replay ends, callers read what they read when the last session did.
LEMMA LoadEndLog ==
    ASSUME ReopenIInv, LoadEnd
    PROVE  LogAndMemory' /\ Store' = Store /\ View' = acked /\ ~Up
           /\ phase = "loading" /\ phase' = "open"
  <1>1. /\ phase = "loading" /\ redo = 0 /\ pos > Len(log) /\ phase' = "open"
        /\ UNCHANGED <<log, batch, acked, byName, byId, primary, defs>>
    BY DEF LoadEnd, memoryVars
  <1>2. /\ NamesAgree /\ RegisteredDefs /\ WellFormed(log) /\ log \in Seq(Records) /\ MemType
        /\ Len(log) \in Nat /\ pos \in Nat /\ pos <= Len(log) + 1 /\ batch = None
        /\ Remembers(byId, primary, defs, log, Applied) /\ ReplayTxn
        /\ acked = Recorded(log, Horizon(log)) /\ ~Up
    BY <1>1, LoadFacts
  <1>3. pos = Len(log) + 1 /\ pos - 1 = Len(log)
    BY <1>1, <1>2
  <1>4. Applied = Horizon(log)
    <2>1. CASE txn = 0
      <3>1. \A t \in 1 .. Len(log) : ~InTxn(log, t, Len(log) + 1)
        BY <1>1, <1>2, <1>3, <2>1 DEF ReplayTxn
      <3>2. QED
        BY <1>1, <1>2, <1>3, <2>1, <3>1, HorizonEnd DEF Applied
    <2>2. CASE txn # 0
      <3>1. InTxn(log, txn, Len(log) + 1)
        BY <1>1, <1>2, <1>3, <2>2 DEF ReplayTxn
      <3>2. QED
        BY <1>1, <1>2, <2>2, <3>1, HorizonOpen DEF Applied
    <2>3. QED
      BY <2>1, <2>2
  <1>5. Horizon(log) \in Nat
    <2>1. Horizon(log) \in 1 .. Len(log) + 1
      BY <1>2, HorizonType
    <2>2. QED
      BY <1>2, <2>1
  <1>6. View' = View /\ View = Recorded(log, Horizon(log))
    BY <1>1, <1>2, <1>4, <1>5, ViewRecorded DEF View, StoredDoc
  <1>7. Store' = Store
    BY <1>1, <1>2, <1>6 DEF Store, Up
  <1>8. NamesAgree' /\ RegisteredDefs' /\ LogFits'
    BY <1>1, <1>2 DEF NamesAgree, RegisteredDefs, LogFits
  <1>9. MemoryRecorded'
    <2>1. Applied' = Horizon(log)
      BY <1>1 DEF Applied
    <2>2. QED
      BY <1>1, <1>2, <1>4, <2>1 DEF MemoryRecorded
  <1>10. ReplayTxn' /\ AckedRecorded' /\ CompactionKeeps' /\ BatchTail' /\ BatchChecked'
    BY <1>1, <1>2 DEF ReplayTxn, AckedRecorded, Up, CompactionKeeps, BatchTail, BatchChecked
  <1>11. QED
    BY <1>1, <1>2, <1>6, <1>7, <1>8, <1>9, <1>10 DEF LogAndMemory

-----------------------------------------------------------------------------
(* Every step keeps the inductive invariant and is one of the abstract     *)
(* store, or none.                                                         *)

\* What a session writes, it writes while it is open and stays open.
LEMMA WritesStayOpen ==
    /\ WriteOne => Idle /\ phase' = "open"
    /\ WriteMany => phase' = "open"
  <1>1. ASSUME WriteOne PROVE Idle /\ phase' = "open"
    BY <1>1 DEF WriteOne, Collection, InsertOne, ReplaceOne, UpdateOne, DeleteOne, Drop,
           RecreateIndex, DropIndex, CreateIndex, RejectIndex, Live, Idle, AppendOperation
  <1>2. ASSUME WriteMany PROVE phase' = "open"
    BY <1>2 DEF WriteMany, InsertMany, UpdateMany, DeleteMany, BeginBatch, WriteBatch,
           CommitBatch, ThrowInBatch, Pending, Live, Idle
  <1>3. QED
    BY <1>1, <1>2

\* A careful step keeps log and memory together, and is what the abstract store
\* allows.
LEMMA CarefulStep ==
    ASSUME IndexablesKept, NoCrashInCompact, ReopenIInv, CarefulNext
    PROVE  /\ LogAndMemory' /\ phase' # "failed"
           /\ \/ Up /\ Up' /\ (Promise!Call \/ Store' = Store)
              \/ Store' = Store
           /\ phase = "loading" /\ phase' = "open" => View' = acked
  <1>1. Next /\ Contract
    BY DEF CarefulNext
  <1>2. CASE WriteOne
    <2>1. ~DanglingTxn
      BY <1>1, <1>2, WritesStayOpen DEF Contract
    <2>2. LogAndMemory' /\ phase = "open" /\ phase' = "open" /\ (Promise!Call \/ View' = View)
      BY <1>2, <2>1, WriteOneLog, WriteOneRefines
    <2>3. Up /\ Up'
      BY <2>2 DEF Up
    <2>4. QED
      BY <2>2, <2>3, StoreUp
  <1>3. CASE WriteMany
    <2>1. Idle => ~DanglingTxn
      BY <1>1, <1>3, WritesStayOpen DEF Contract
    <2>2. LogAndMemory' /\ phase = "open" /\ phase' = "open" /\ (Promise!Call \/ View' = View)
      BY <1>3, <2>1, WriteManyLog
    <2>3. Up /\ Up'
      BY <2>2 DEF Up
    <2>4. QED
      BY <2>2, <2>3, StoreUp
  <1>4. CASE Compact
    <2>1. /\ LogAndMemory' /\ View' = View /\ phase \in {"open", "compacting"}
          /\ phase' \in {"open", "compacting"}
      BY <1>4, BeginCompactLog, CompactKeepLog, CompactSkipLog, EndCompactLog DEF Compact
    <2>2. Up /\ Up'
      BY <2>1 DEF Up
    <2>3. QED
      BY <2>1, <2>2, StoreUp
  <1>5. CASE Close \/ Crash
    BY <1>5, SessionEndLog
  <1>6. CASE Open
    BY <1>6, OpenLog
  <1>7. CASE Load
    BY <1>7, LoadLog, LoadEndLog
  <1>8. QED
    BY <1>1, <1>2, <1>3, <1>4, <1>5, <1>6, <1>7 DEF Next

\* A step that changes nothing.
LEMMA StutterKeeps ==
    ASSUME ReopenIInv, UNCHANGED vars
    PROVE  LogAndMemory' /\ Store' = Store /\ Up' = Up /\ phase' = phase /\ ~RedefinedIndex'
  <1>1. UNCHANGED <<log, phase, pos, txn, redo, byName, byId, primary, defs, entries, batch,
                    scan, write, live, acked>>
    BY DEF vars, loaderVars, memoryVars, compactVars
  <1>2. NamesAgree' /\ RegisteredDefs' /\ LogFits'
    BY <1>1 DEF ReopenIInv, LogAndMemory, NamesAgree, RegisteredDefs, LogFits
  <1>3. MemoryRecorded' /\ ReplayTxn' /\ AckedRecorded'
    BY <1>1 DEF ReopenIInv, LogAndMemory, MemoryRecorded, Applied, ReplayTxn, AckedRecorded, Up
  <1>4. CompactionKeeps'
    BY <1>1 DEF ReopenIInv, LogAndMemory, CompactionKeeps, Kept, Unscanned, FoundedAt
  <1>5. BatchTail'
    BY <1>1 DEF ReopenIInv, LogAndMemory, BatchTail
  <1>6. BatchChecked'
    <2>1. PICK c, ids, docs : c = batch.col /\ ids = batch.ids /\ docs = batch.docs
      OBVIOUS
    <2>2. AssertUniqueBatch(c, ids, docs)' <=> AssertUniqueBatch(c, ids, docs)
      <3>1. \A f, v, excl : Owned(c, f, v, excl)' <=> Owned(c, f, v, excl)
        BY <1>1 DEF Owned
      <3>2. \A f, v : UniqueOn(c, f, v)' <=> UniqueOn(c, f, v)
        BY <1>1 DEF UniqueOn
      <3>3. QED
        BY <3>1, <3>2 DEF AssertUniqueBatch
    <2>3. c = batch'.col /\ ids = batch'.ids /\ docs = batch'.docs
      BY <1>1, <2>1
    <2>4. BatchChecked
      BY DEF ReopenIInv, LogAndMemory
    <2>5. QED
      BY <1>1, <2>1, <2>2, <2>3, <2>4 DEF BatchChecked
  <1>7. Store' = Store /\ Up' = Up
    BY <1>1 DEF Store, Up, View, StoredDoc
  <1>8. ~RedefinedIndex'
    BY <1>1 DEF ReopenIInv, RedefinedIndex
  <1>9. QED
    BY <1>1, <1>2, <1>3, <1>4, <1>5, <1>6, <1>7, <1>8 DEF LogAndMemory

\* What callers read is a store.
LEMMA StoreType == ASSUME IInv PROVE Store \in Views
  <1>1. View \in Views
    BY ViewType DEF IInv, TypeOK, MemType
  <1>2. QED
    BY <1>1 DEF Store, IInv, TypeOK

\* The calls of the abstract store keep to the unique indexes.
LEMMA CallConsistent ==
    ASSUME Store \in Views, StoreConsistent, Promise!Call
    PROVE  StoreConsistent'
  <1> DEFINE ok(col) == col # None => Promise!Consistent(col)
  <1>1. \A n \in Names : ok(Store[n])
    BY DEF StoreConsistent
  <1>2. PICK n \in Names :
            \/ Promise!Create(n) \/ Promise!DropCollection(n)
            \/ \E S \in SUBSET DocIds : Promise!Put(n, S) \/ Promise!Delete(n, S)
            \/ \E f \in Fields : Promise!RemoveIndex(n, f)
            \/ \E f \in Fields, def \in IndexDefs : Promise!AddIndex(n, f, def)
    BY DEF Promise!Call
  <1> HIDE DEF ok
  <1>3. ASSUME NEW col, Store' = [Store EXCEPT ![n] = col], ok(col)
        PROVE  StoreConsistent'
    <2>1. \A m \in Names : Store'[m] = IF m = n THEN col ELSE Store[m]
      BY <1>3 DEF Views
    <2>2. \A m \in Names : ok(Store'[m])
      BY <1>1, <1>3, <2>1
    <2>3. QED
      BY <2>2 DEF StoreConsistent, ok
  <1>4. CASE Promise!Create(n)
    <2>1. ok(Promise!Empty)
      BY DEF ok, Promise!Empty, Promise!Consistent
    <2>2. QED
      BY <1>3, <1>4, <2>1 DEF Promise!Create
  <1>5. CASE Promise!DropCollection(n)
    <2>1. ok(None)
      BY DEF ok
    <2>2. QED
      BY <1>3, <1>5, <2>1 DEF Promise!DropCollection
  <1>6. ASSUME NEW S \in SUBSET DocIds, Promise!Put(n, S)
        PROVE  StoreConsistent'
    <2>1. PICK new \in [S -> Promise!Docs] :
              Store' = [Store EXCEPT ![n].docs =
                           [d \in DocIds |-> IF d \in S THEN new[d] ELSE @[d]]]
      BY <1>6 DEF Promise!Put
    <2>2. \E col : Store' = [Store EXCEPT ![n] = col]
      BY <2>1
    <2>3. PICK col : Store' = [Store EXCEPT ![n] = col]
      BY <2>2
    <2>4. Store'[n] = col
      BY <2>3 DEF Views
    <2>5. ok(col)
      BY <1>6, <2>4 DEF Promise!Put, ok
    <2>6. QED
      BY <1>3, <2>3, <2>5
  <1>7. ASSUME NEW S \in SUBSET DocIds, Promise!Delete(n, S)
        PROVE  StoreConsistent'
    <2> DEFINE left == [d \in DocIds |-> IF d \in S THEN None ELSE Store[n].docs[d]]
               col == [Store[n] EXCEPT !.docs = left]
    <2>1. Store' = [Store EXCEPT ![n] = col] /\ Store[n] # None
      BY <1>7 DEF Promise!Delete
    <2>2. Store[n] \in [docs : [DocIds -> Docs \cup {None}],
                        defs : [Fields -> IndexDefs \cup {None}]]
      BY <2>1 DEF Views
    <2>3. col.docs = left /\ col.defs = Store[n].defs
      BY <2>2
    <2>4. \A d \in DocIds : left[d] # None => left[d] = Store[n].docs[d]
      OBVIOUS
    <2>5. Promise!Consistent(Store[n])
      BY <1>1, <2>1 DEF ok
    <2> HIDE DEF left, col
    <2>6. Promise!Consistent(col)
      BY <2>3, <2>4, <2>5 DEF Promise!Consistent
    <2>7. ok(col)
      BY <2>6 DEF ok
    <2>8. QED
      BY <1>3, <2>1, <2>7
  <1>8. ASSUME NEW f \in Fields, Promise!RemoveIndex(n, f)
        PROVE  StoreConsistent'
    <2> DEFINE left == [Store[n].defs EXCEPT ![f] = None]
               col == [Store[n] EXCEPT !.defs = left]
    <2>1. Store' = [Store EXCEPT ![n] = col] /\ Store[n] # None
      BY <1>8 DEF Promise!RemoveIndex
    <2>2. Store[n] \in [docs : [DocIds -> Docs \cup {None}],
                        defs : [Fields -> IndexDefs \cup {None}]]
      BY <2>1 DEF Views
    <2>3. col.docs = Store[n].docs /\ col.defs = left
      BY <2>2
    <2>4. \A g \in Fields : left[g] # None => left[g] = Store[n].defs[g]
      BY <2>2
    <2>5. Promise!Consistent(Store[n])
      BY <1>1, <2>1 DEF ok
    <2> HIDE DEF left, col
    <2>6. Promise!Consistent(col)
      BY <2>3, <2>4, <2>5 DEF Promise!Consistent
    <2>7. ok(col)
      BY <2>6 DEF ok
    <2>8. QED
      BY <1>3, <2>1, <2>7
  <1>9. ASSUME NEW f \in Fields, NEW def \in IndexDefs, Promise!AddIndex(n, f, def)
        PROVE  StoreConsistent'
    <2>1. PICK col : Store' = [Store EXCEPT ![n] = col]
      BY <1>9 DEF Promise!AddIndex
    <2>2. Store'[n] = col
      BY <2>1 DEF Views
    <2>3. ok(col)
      BY <1>9, <2>2 DEF Promise!AddIndex, ok
    <2>4. QED
      BY <1>3, <2>1, <2>3
  <1>10. QED
    BY <1>2, <1>4, <1>5, <1>6, <1>7, <1>8, <1>9

\* The inductive invariant is one, and every careful step is one of the store.
LEMMA NextReopen ==
    ASSUME IndexablesKept, NoCrashInCompact, ReopenIInv, [CarefulNext]_vars
    PROVE  /\ ReopenIInv'
           /\ [Promise!Next]_(Promise!vars)
           /\ phase = "loading" /\ phase' = "open" => View' = acked
  <1>1. [Next]_vars
    BY DEF CarefulNext
  <1>2. IndexIInv' /\ CompactIInv'
    BY <1>1, NextIndexIInv, NextCompactIInv DEF ReopenIInv
  <1>3. CASE CarefulNext
    <2>1. /\ LogAndMemory' /\ phase' # "failed"
          /\ (Up /\ Up' /\ (Promise!Call \/ Store' = Store)) \/ Store' = Store
          /\ phase = "loading" /\ phase' = "open" => View' = acked
      BY <1>3, CarefulStep
    <2>2. ~RedefinedIndex' /\ OpenSucceeds'
      BY <1>3, <2>1 DEF CarefulNext, Contract, OpenSucceeds
    <2>3. StoreConsistent'
      <3>1. CASE Store' = Store
        BY <3>1 DEF ReopenIInv, StoreConsistent
      <3>2. CASE Promise!Call
        BY <3>2, StoreType, CallConsistent DEF ReopenIInv, IndexIInv
      <3>3. QED
        BY <2>1, <3>1, <3>2
    <2>4. [Promise!Next]_(Promise!vars)
      <3>1. Up \in BOOLEAN /\ Up' \in BOOLEAN
        BY DEF Up
      <3>2. QED
        BY <2>1, <3>1 DEF Promise!Next, Promise!vars
    <2>5. QED
      BY <1>2, <2>1, <2>2, <2>3, <2>4 DEF ReopenIInv
  <1>4. CASE UNCHANGED vars
    <2>1. LogAndMemory' /\ Store' = Store /\ Up' = Up /\ phase' = phase /\ ~RedefinedIndex'
      BY <1>4, StutterKeeps
    <2>2. StoreConsistent' /\ OpenSucceeds'
      BY <2>1 DEF ReopenIInv, StoreConsistent, OpenSucceeds
    <2>3. QED
      BY <1>2, <2>1, <2>2 DEF ReopenIInv, Promise!vars
  <1>5. QED
    BY <1>3, <1>4

\* It holds of an empty file, which is an empty store.
LEMMA InitReopen == Init => ReopenIInv /\ Promise!Init
  <1> SUFFICES ASSUME Init PROVE ReopenIInv /\ Promise!Init
    OBVIOUS
  <1>1. IndexIInv /\ CompactIInv
    BY InitIndexIInv, InitCompactIInv
  <1>2. /\ log = << >> /\ phase = "down" /\ batch = None /\ acked = NoView
        /\ byName = [n \in Names |-> None] /\ byId = [c \in ColIds |-> None]
        /\ primary = [c \in ColIds |-> NoDocs] /\ defs = [c \in ColIds |-> NoDefs]
    BY DEF Init
  <1>3. Len(log) = 0 /\ DOMAIN log = {} /\ 1 .. 1 - 1 = {} /\ log \in Seq(Records)
    BY <1>2
  <1>4. MemType
    BY <1>1 DEF IndexIInv, IInv, TypeOK, MemType
  <1>5. NamesAgree /\ RegisteredDefs
    BY <1>2, NoneAssumption DEF NamesAgree, RegisteredDefs, NoDefs
  <1>6. Remembers(byId, primary, defs, log, 1)
    <2>1. KnowsNames(byId, log, 1)
      BY <1>2, <1>3, NoneAssumption DEF KnowsNames, Registered
    <2>2. KnowsDocs(primary, log, 1)
      BY <1>2, <1>3 DEF KnowsDocs, NoDocs
    <2>3. KnowsDefs(defs, log, 1)
      BY <1>2, <1>3, NoneAssumption DEF KnowsDefs, Defined, NoDefs
    <2>4. QED
      BY <2>1, <2>2, <2>3 DEF Remembers
  <1>7. Horizon(log) = 1
    BY <1>3 DEF Horizon
  <1>8. View = NoView
    BY <1>2 DEF View, NoView
  <1>9. LogFits /\ MemoryRecorded /\ ReplayTxn
    BY <1>2, <1>3, <1>6 DEF LogFits, WellFormed, MemoryRecorded, Applied, ReplayTxn
  <1>10. AckedRecorded
    BY <1>2, <1>4, <1>5, <1>6, <1>7, <1>8, ViewRecorded DEF AckedRecorded
  <1>11. CompactionKeeps /\ BatchTail /\ BatchChecked
    BY <1>2 DEF CompactionKeeps, BatchTail, BatchChecked
  <1>12. OpenSucceeds /\ ~RedefinedIndex
    BY <1>2, <1>3 DEF OpenSucceeds, RedefinedIndex
  <1>13. Store = [n \in Names |-> None] /\ Up = FALSE
    BY <1>2 DEF Store, Up, NoView
  <1>14. StoreConsistent /\ Promise!Init
    BY <1>13 DEF StoreConsistent, Promise!Init
  <1>15. QED
    BY <1>1, <1>5, <1>9, <1>10, <1>11, <1>12, <1>14 DEF ReopenIInv, LogAndMemory

\* Whatever the log and the memory hold, they hold together: the inductive
\* invariant of careful callers, from which the other theorems follow.
THEOREM LogAndMemoryTogether ==
    ASSUME IndexablesKept, NoCrashInCompact
    PROVE  CarefulSpec => []ReopenIInv
  <1>1. ReopenIInv /\ [CarefulNext]_vars => ReopenIInv'
    BY NextReopen
  <1>2. QED
    BY <1>1, InitReopen, PTL DEF CarefulSpec

\* open() never refuses a file that careful callers have written: each record
\* can be applied after those before it, no transaction nests, and a unique
\* index meets no duplicates.
THEOREM OpenAlwaysSucceeds ==
    ASSUME IndexablesKept, NoCrashInCompact
    PROVE  CarefulSpec => []OpenSucceeds
  <1>1. ReopenIInv => OpenSucceeds
    BY DEF ReopenIInv
  <1>2. QED
    BY <1>1, LogAndMemoryTogether, PTL

\* Reopening gives back what callers could read when the last session ended, by
\* close() or by a crash at any point outside a compaction.
THEOREM ReopeningRestores ==
    ASSUME IndexablesKept, NoCrashInCompact
    PROVE  CarefulSpec => ReopenRestores
  <1>1. ReopenIInv /\ [CarefulNext]_vars =>
            [phase = "loading" /\ phase' = "open" => View' = acked]_vars
    BY NextReopen
  <1>2. QED
    BY <1>1, LogAndMemoryTogether, PTL DEF CarefulSpec, ReopenRestores

\* No two documents an open session holds have the same value under a unique
\* index: inserts, updates, batches, new indexes, compaction and replay keep it.
THEOREM UniqueKeysCorrect ==
    ASSUME IndexablesKept, NoCrashInCompact
    PROVE  CarefulSpec => []UniqueKeys
  <1>1. ASSUME ReopenIInv PROVE UniqueKeys
    <2> SUFFICES ASSUME phase = "open", NEW c \in ColIds, NEW f \in Fields,
                        NEW d \in DocIds, NEW e \in DocIds,
                        defs[c][f] # None, defs[c][f].unique,
                        d # e, primary[c][d] # 0, primary[c][e] # 0,
                        Indexable(defs[c][f], StoredDoc(c, d)[f])
                 PROVE  StoredDoc(c, d)[f] # StoredDoc(c, e)[f]
      BY DEF UniqueKeys
    <2>1. /\ IInv /\ NamesAgree /\ RegisteredDefs /\ StoreConsistent /\ Up
          /\ MemType /\ log \in Seq(Records) /\ PrimaryOffsets
      BY <1>1 DEF ReopenIInv, IndexIInv, LogAndMemory, Up, IInv, TypeOK, MemType
    <2>2. byId[c] # None
      BY <2>1 DEF RegisteredDefs
    <2>3. Promise!Consistent(Contents(c))
      BY <2>1, <2>2, CallFacts
    <2>4. DistinctNow(c, f, defs[c][f])
      BY <2>1, <2>3, ConsistentNow
    <2>5. QED
      BY <2>4 DEF DistinctNow
  <1>2. QED
    BY <1>1, LogAndMemoryTogether, PTL

\* Under the contract the engine implements the abstract document store: a call
\* is one atomic step of it, and appending the records of a batch, compacting,
\* closing, crashing and replaying change nothing that callers read.
THEOREM EngineImplementsStore ==
    ASSUME IndexablesKept, NoCrashInCompact
    PROVE  CarefulSpec => ImplementsDocumentStore
  <1>1. Init => Promise!Init
    BY InitReopen
  <1>2. ReopenIInv /\ [CarefulNext]_vars => [Promise!Next]_(Promise!vars)
    BY NextReopen
  <1>3. QED
    BY <1>1, <1>2, LogAndMemoryTogether, PTL DEF CarefulSpec, ImplementsDocumentStore, Promise!Spec

=============================================================================
