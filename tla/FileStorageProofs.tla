-------------------------- MODULE FileStorageProofs --------------------------
(***************************************************************************)
(* Proofs about FileStorage, for every set of record lengths, every chunk  *)
(* size, both durabilities and every combination of faults in which a      *)
(* session does not scan its log again after a compact() that failed when  *)
(* it had moved something; and, in the second half, about opening the file *)
(* that a crash has left.                                                  *)
(***************************************************************************)
EXTENDS FileStorage, SequenceTheorems, TLAPS

USE LengthsAssumption, ChunkAssumption, FlagsAssumption, BoundsAssumption

\* Once a compact() that has moved something fails, its session calls neither
\* compact() nor stats() any more.
OneCompaction == "scan_again" \notin Faults

-----------------------------------------------------------------------------
(* Cells, records and stretches of the file.                               *)

\* A cell is part of a record of a proper length, or zeros.
LEMMA CellShape ==
    ASSUME NEW c \in RecordCells
    PROVE  /\ c.rec \in Nat /\ c.part \in Nat /\ c.len \in Nat
           /\ \/ c = Zero /\ c.part = 0
              \/ /\ c.rec \in 1 .. MaxRecs /\ c.len \in Lengths
                 /\ c.len >= MinLen /\ c.part \in 1 .. c.len
  <1>1. CASE c = Zero
    BY <1>1 DEF Zero, Cell
  <1>2. CASE c # Zero
    <2>1. PICK n \in Lengths : c \in {Cell(r, i, n) : r \in 1 .. MaxRecs, i \in 1 .. n}
      BY <1>2 DEF RecordCells
    <2>2. PICK r \in 1 .. MaxRecs, i \in 1 .. n : c = Cell(r, i, n)
      BY <2>1
    <2>3. n \in Nat /\ n >= MinLen
      OBVIOUS
    <2>4. QED
      BY <2>2, <2>3 DEF Cell
  <1>3. QED
    BY <1>1, <1>2

\* The cells of a record are cells.
LEMMA CellType ==
    ASSUME NEW r \in 1 .. MaxRecs, NEW n \in Lengths, NEW i \in 1 .. n
    PROVE  Cell(r, i, n) \in RecordCells
  BY DEF RecordCells

\* An entry says where a record of a proper length starts and ends.
LEMMA EntryShape ==
    ASSUME NEW e \in Entries
    PROVE  e.rec \in 1 .. MaxRecs /\ e.len \in Lengths /\ e.len \in Nat
           /\ e.len >= MinLen /\ e.off \in Nat
  BY DEF Entries

\* An append knows the record it writes and how much of it is written.
LEMMA JobShape ==
    ASSUME NEW j \in Jobs
    PROVE  j.rec \in 1 .. MaxRecs /\ j.len \in Lengths /\ j.len \in Nat
           /\ j.len >= MinLen /\ j.done \in Nat
  BY DEF Jobs

\* The cells of a record, one after the other.
LEMMA CellsSeq ==
    ASSUME NEW r \in 1 .. MaxRecs, NEW n \in Lengths
    PROVE  /\ Cells(r, n) \in Seq(RecordCells) /\ Len(Cells(r, n)) = n /\ n \in Nat
           /\ \A i \in 1 .. n : Cells(r, n)[i] = Cell(r, i, n)
  <1> DEFINE all == Cells(r, n)
  <1>1. all = [i \in 1 .. n |-> Cell(r, i, n)] /\ n \in Nat
    BY DEF Cells
  <1>2. \A i \in 1 .. n : Cell(r, i, n) \in RecordCells
    BY CellType
  <1> HIDE DEF all
  <1>3. all \in [1 .. n -> RecordCells]
    BY <1>1, <1>2
  <1>4. all \in Seq(RecordCells)
    BY <1>1, <1>3
  <1>5. DOMAIN all = 1 .. n
    BY <1>1
  <1>6. Len(all) = n
    BY <1>1, <1>4, <1>5
  <1>7. QED
    BY <1>1, <1>4, <1>6 DEF all

\* A record is where it was in a file that is the same up to its end.
LEMMA ReadableSame ==
    ASSUME NEW f \in Seq(RecordCells), NEW g \in Seq(RecordCells), NEW e,
           e.off \in Nat, e.len \in Nat, ReadableIn(f, e),
           e.off + e.len <= Len(g),
           \A i \in e.off + 1 .. e.off + e.len : g[i] = f[i]
    PROVE  ReadableIn(g, e)
  <1>1. ASSUME NEW i \in 1 .. e.len
        PROVE  g[e.off + i] = Cell(e.rec, i, e.len)
    <2>1. e.off + i \in e.off + 1 .. e.off + e.len
      OBVIOUS
    <2>2. QED
      BY <2>1 DEF ReadableIn
  <1>2. QED
    BY <1>1 DEF ReadableIn

\* So are the records of a sequence of entries.
LEMMA LaidSame ==
    ASSUME NEW f \in Seq(RecordCells), NEW g \in Seq(RecordCells),
           NEW s \in Seq(Entries), NEW b \in Nat, NEW x,
           Laid(f, s, b, x), b <= Len(g), \A i \in 1 .. b : g[i] = f[i]
    PROVE  Laid(g, s, b, x)
  <1>1. ASSUME NEW k \in DOMAIN s, s[k] # x
        PROVE  s[k].off + s[k].len <= b /\ ReadableIn(g, s[k])
    <2>1. s[k].off \in Nat /\ s[k].len \in Nat
      <3>1. s[k] \in Entries
        OBVIOUS
      <3>2. QED
        BY <3>1, EntryShape
    <2>2. s[k].off + s[k].len <= b /\ ReadableIn(f, s[k])
      BY <1>1 DEF Laid
    <2>3. s[k].off + s[k].len <= Len(g)
          /\ \A i \in s[k].off + 1 .. s[k].off + s[k].len : g[i] = f[i]
      BY <2>1, <2>2
    <2>4. QED
      BY <2>1, <2>2, <2>3, ReadableSame
  <1>2. QED
    BY <1>1 DEF Laid

\* One more record after the others.
LEMMA LaidAppend ==
    ASSUME NEW f \in Seq(RecordCells), NEW s \in Seq(Entries), NEW b \in Nat,
           NEW e \in Entries, NEW x, Laid(f, s, b, x), e.off = b, ReadableIn(f, e)
    PROVE  Laid(f, Append(s, e), b + e.len, x)
  <1> DEFINE t == Append(s, e)
  <1>1. /\ DOMAIN t = 1 .. Len(s) + 1
        /\ \A k \in DOMAIN s : t[k] = s[k]
        /\ t[Len(s) + 1] = e
        /\ DOMAIN s = 1 .. Len(s) /\ Len(s) \in Nat
    OBVIOUS
  <1>2. e.len \in Nat /\ \A k \in DOMAIN s : s[k].off \in Nat /\ s[k].len \in Nat
    <2>1. \A k \in DOMAIN s : s[k] \in Entries
      OBVIOUS
    <2>2. QED
      BY <2>1, EntryShape
  <1> HIDE DEF t
  <1>3. \A k \in DOMAIN t : k \in DOMAIN s \/ k = Len(s) + 1
    BY <1>1
  <1>4. \A k \in DOMAIN t :
           t[k].off + t[k].len <= b + e.len /\ (t[k] # x => ReadableIn(f, t[k]))
    BY <1>1, <1>2, <1>3 DEF Laid
  <1>5. ASSUME NEW i \in DOMAIN t, NEW j \in DOMAIN t, i < j
        PROVE  t[i].off + t[i].len <= t[j].off
    <2>1. i \in DOMAIN s
      BY <1>1, <1>3, <1>5
    <2>2. QED
      BY <1>1, <1>3, <1>5, <2>1 DEF Laid
  <1>6. Laid(f, t, b + e.len, x)
    BY <1>4, <1>5 DEF Laid
  <1>7. QED
    BY <1>6 DEF t

\* Where nothing is damaged every record is whole.
LEMMA LaidReadable ==
    ASSUME NEW f, NEW s \in Seq(Entries), NEW b, Laid(f, s, b, None)
    PROVE  \A i \in DOMAIN s : ReadableIn(f, s[i])
  <1>1. \A i \in DOMAIN s : s[i] # None
    <2>1. \A i \in DOMAIN s : s[i] \in Entries
      OBVIOUS
    <2>2. QED
      BY <2>1, NoneAssumption
  <1>2. QED
    BY <1>1 DEF Laid

\* A stretch of whole records stays one in a file that is the same there.
LEMMA TiledSame ==
    ASSUME NEW f \in Seq(RecordCells), NEW g \in Seq(RecordCells),
           NEW a \in Nat, NEW b \in Nat, Tiled(f, a, b), b <= Len(f), b <= Len(g),
           \A i \in a + 1 .. b : g[i] = f[i]
    PROVE  Tiled(g, a, b)
  <1>1. a < b => g[a + 1].part = 1
    BY DEF Tiled
  <1>2. ASSUME NEW p \in a .. b - 1, g[p + 1].part = 1
        PROVE  /\ p + g[p + 1].len <= b
               /\ ReadableIn(g, Entry(g[p + 1].rec, g[p + 1].len, p))
               /\ p + g[p + 1].len < b => g[p + g[p + 1].len + 1].part = 1
    <2> DEFINE n == f[p + 1].len
               e == Entry(f[p + 1].rec, n, p)
    <2>1. g[p + 1] = f[p + 1] /\ f[p + 1] \in RecordCells
      OBVIOUS
    <2>2. n \in Nat
      BY <2>1, CellShape
    <2>3. p + n <= b /\ ReadableIn(f, e) /\ (p + n < b => f[p + n + 1].part = 1)
      BY <1>2, <2>1 DEF Tiled
    <2>4. e.off = p /\ e.len = n
      BY DEF Entry
    <2>5. ReadableIn(g, e)
      BY <2>2, <2>3, <2>4, ReadableSame, SMTT(30)
    <2>6. ASSUME p + n < b PROVE g[p + n + 1] = f[p + n + 1]
      <3> HIDE DEF n
      <3>1. p + n + 1 \in a + 1 .. b
        BY <2>2, <2>6
      <3>2. QED
        BY <3>1
    <2>7. QED
      BY <2>1, <2>3, <2>5, <2>6
  <1>3. QED
    BY <1>1, <1>2 DEF Tiled

\* A stretch of whole records followed by one more.
LEMMA TiledExtend ==
    ASSUME NEW f \in Seq(RecordCells), NEW a \in Nat, NEW b \in Nat, a <= b,
           NEW r, NEW n \in Nat, n > 0,
           Tiled(f, a, b), ReadableIn(f, Entry(r, n, b))
    PROVE  Tiled(f, a, b + n)
  <1>1. b + n <= Len(f) /\ \A i \in 1 .. n : f[b + i] = Cell(r, i, n)
    BY DEF ReadableIn, Entry
  <1>2. f[b + 1] = Cell(r, 1, n)
    BY <1>1
  <1>3. f[b + 1].part = 1 /\ f[b + 1].len = n /\ f[b + 1].rec = r
    BY <1>2 DEF Cell
  <1>4. a < b + n => f[a + 1].part = 1
    BY <1>3 DEF Tiled
  <1>5. ASSUME NEW p \in a .. b + n - 1, f[p + 1].part = 1
        PROVE  /\ p + f[p + 1].len <= b + n
               /\ ReadableIn(f, Entry(f[p + 1].rec, f[p + 1].len, p))
               /\ p + f[p + 1].len < b + n => f[p + f[p + 1].len + 1].part = 1
    <2>1. CASE p < b
      <3>1. /\ p + f[p + 1].len <= b
            /\ ReadableIn(f, Entry(f[p + 1].rec, f[p + 1].len, p))
            /\ p + f[p + 1].len < b => f[p + f[p + 1].len + 1].part = 1
        BY <1>5, <2>1 DEF Tiled
      <3>2. f[p + 1] \in RecordCells
        BY <1>1, <2>1
      <3>3. f[p + 1].len \in Nat
        BY <3>2, CellShape
      <3>4. p + f[p + 1].len = b => f[p + f[p + 1].len + 1].part = 1
        BY <1>3
      <3>5. QED
        BY <3>1, <3>3, <3>4, SMTT(30)
    <2>2. CASE p = b
      BY <1>3, <2>2
    <2>3. CASE p > b
      <3>1. f[b + (p - b + 1)] = Cell(r, p - b + 1, n)
        BY <1>1, <2>3
      <3>2. f[p + 1].part = p - b + 1
        BY <2>3, <3>1, SMTT(30) DEF Cell
      <3>3. QED
        BY <1>5, <2>3, <3>2
    <2>4. QED
      BY <2>1, <2>2, <2>3
  <1>6. QED
    BY <1>4, <1>5 DEF Tiled

\* The rest of a stretch after its first record.
LEMMA TiledTail ==
    ASSUME NEW f \in Seq(RecordCells), NEW a \in Nat, NEW b \in Nat, a < b, b <= Len(f),
           Tiled(f, a, b)
    PROVE  Tiled(f, a + f[a + 1].len, b)
  <1> DEFINE n == f[a + 1].len
  <1>1. f[a + 1].part = 1
    BY DEF Tiled
  <1>2. n \in Nat
    <2>1. f[a + 1] \in RecordCells
      OBVIOUS
    <2>2. QED
      BY <2>1, CellShape
  <1>3. a + n <= b /\ (a + n < b => f[a + n + 1].part = 1)
    <2>1. a \in a .. b - 1
      OBVIOUS
    <2>2. QED
      BY <1>1, <2>1 DEF Tiled
  <1>4. \A p \in a + n .. b - 1 : p \in a .. b - 1
    BY <1>2
  <1>5. QED
    BY <1>2, <1>3, <1>4 DEF Tiled

-----------------------------------------------------------------------------
(* The window of readOperations.                                           *)

\* A scan in progress: its window shows the part of the file it is on.
Scan ==
    /\ file \in Seq(RecordCells)
    /\ gen.pos \in Nat /\ gen.win \in Seq(RecordCells) /\ gen.stop \in Nat
    /\ gen.stop <= Len(file) /\ gen.pos <= gen.stop
    /\ Fresh(gen.win)

\* Refilling keeps the window fresh, and leaves it short of what was asked for
\* only when the scan has read all it may.
LEMMA FilledFresh ==
    ASSUME Scan, NEW w \in Seq(RecordCells), Fresh(w), NEW need \in Nat
    PROVE  /\ Filled(w, need) \in Seq(RecordCells)
           /\ Fresh(Filled(w, need))
           /\ Len(w) <= Len(Filled(w, need))
           /\ Len(Filled(w, need)) >= need \/ gen.pos + Len(Filled(w, need)) = gen.stop
  <1> DEFINE at == gen.pos + Len(w)
             more == IF Chunk > need - Len(w) THEN Chunk ELSE need - Len(w)
             to == IF at + more < gen.stop THEN at + more ELSE gen.stop
             tail == SubSeq(file, at + 1, to)
  <1>0. /\ file \in Seq(RecordCells) /\ gen.pos \in Nat /\ gen.stop \in Nat
        /\ gen.stop <= Len(file) /\ at <= gen.stop /\ Len(w) \in Nat
        /\ \A i \in 1 .. Len(w) : w[i] = file[gen.pos + i]
    BY DEF Scan, Fresh
  <1>1. CASE Len(w) >= need
    BY <1>1 DEF Filled
  <1>2. CASE Len(w) < need
    <2>0. ~(Len(w) >= need)
      BY <1>0, <1>2
    <2>1. Filled(w, need) = w \o tail
      BY <2>0, Zenon DEF Filled
    <2>2. at \in Nat /\ more \in Nat /\ more >= need - Len(w) /\ more > 0
      BY <1>0, <1>2
    <2>3. to \in Nat /\ at <= to /\ to <= gen.stop /\ (to = gen.stop \/ to = at + more)
      BY <1>0, <2>2, SMTT(30)
    <2> HIDE DEF more, to
    <2>4. /\ tail \in Seq(RecordCells) /\ Len(tail) = to - at
          /\ \A i \in 1 .. to - at : tail[i] = file[at + i]
      <3>1. \A i \in at + 1 .. to : file[i] \in RecordCells
        BY <1>0, <2>2, <2>3, SMTT(30)
      <3>2. /\ SubSeq(file, at + 1, to) \in Seq(RecordCells)
            /\ Len(SubSeq(file, at + 1, to)) = IF at + 1 <= to THEN to - (at + 1) + 1 ELSE 0
            /\ \A i \in 1 .. to - (at + 1) + 1 :
                  SubSeq(file, at + 1, to)[i] = file[at + 1 + i - 1]
        <4> HIDE DEF at
        <4> QED  BY <2>2, <2>3, <3>1, SubSeqProperties
      <3>3. /\ Len(SubSeq(file, at + 1, to)) = to - at
            /\ \A i \in 1 .. to - at : SubSeq(file, at + 1, to)[i] = file[at + i]
        <4> HIDE DEF at
        <4>1. to - (at + 1) + 1 = to - at /\ (to < at + 1 => to - at = 0)
          BY <2>2, <2>3
        <4>2. \A i \in 1 .. to - at : at + 1 + i - 1 = at + i
          BY <2>2, <2>3
        <4>3. Len(SubSeq(file, at + 1, to)) = to - at
          BY <2>2, <2>3, <3>2
        <4>4. QED
          BY <3>2, <4>1, <4>2, <4>3
      <3>4. QED
        BY <3>2, <3>3, Zenon
    <2> HIDE DEF tail
    <2>5. /\ w \o tail \in Seq(RecordCells)
          /\ Len(w \o tail) = Len(w) + Len(tail)
          /\ \A i \in 1 .. Len(w) + Len(tail) :
                (w \o tail)[i] = IF i <= Len(w) THEN w[i] ELSE tail[i - Len(w)]
      BY <2>4, ConcatProperties
    <2>6. gen.pos + Len(w \o tail) = to
      BY <1>0, <2>3, <2>4, <2>5
    <2>7. ASSUME NEW i \in 1 .. Len(w \o tail)
          PROVE  (w \o tail)[i] = file[gen.pos + i]
      <3>1. CASE i <= Len(w)
        BY <1>0, <2>4, <2>5, <3>1
      <3>2. CASE i > Len(w)
        <4>1. i - Len(w) \in 1 .. to - at
          BY <1>0, <2>3, <2>4, <2>5, <3>2, SMTT(30)
        <4>2. tail[i - Len(w)] = file[at + (i - Len(w))]
          BY <2>4, <4>1
        <4>3. at + (i - Len(w)) = gen.pos + i
          BY <1>0
        <4>4. (w \o tail)[i] = tail[i - Len(w)]
          BY <1>0, <2>3, <2>4, <2>5, <3>2
        <4>5. QED
          BY <4>2, <4>3, <4>4
      <3>3. QED
        BY <1>0, <3>1, <3>2
    <2>8. Fresh(w \o tail)
      BY <2>3, <2>6, <2>7 DEF Fresh
    <2>9. Len(w) <= Len(w \o tail)
          /\ (Len(w \o tail) >= need \/ gen.pos + Len(w \o tail) = gen.stop)
      <3>1. Len(w \o tail) = Len(w) + (to - at)
        BY <2>4, <2>5
      <3>2. CASE to = gen.stop
        BY <1>0, <2>3, <2>6, <3>1, <3>2
      <3>3. CASE to = at + more
        <4> HIDE DEF at
        <4> QED  BY <1>0, <2>2, <2>3, <3>1, <3>3
      <3>4. QED
        BY <2>3, <3>2, <3>3
    <2>10. QED
      BY <2>1, <2>5, <2>8, <2>9
  <1>3. QED
    BY <1>0, <1>1, <1>2

\* The two windows the scan judges a record by.
LEMMA Windows ==
    ASSUME Scan, NEW n \in Nat
    PROVE  /\ HeaderWin \in Seq(RecordCells) /\ Fresh(HeaderWin)
           /\ Len(HeaderWin) >= HeaderCells \/ gen.pos + Len(HeaderWin) = gen.stop
           /\ RecordWin(n) \in Seq(RecordCells) /\ Fresh(RecordWin(n))
           /\ Len(RecordWin(n)) >= n \/ gen.pos + Len(RecordWin(n)) = gen.stop
  <1>1. gen.win \in Seq(RecordCells) /\ Fresh(gen.win) /\ HeaderCells \in Nat
    BY DEF Scan, HeaderCells
  <1>2. /\ HeaderWin \in Seq(RecordCells) /\ Fresh(HeaderWin)
        /\ Len(HeaderWin) >= HeaderCells \/ gen.pos + Len(HeaderWin) = gen.stop
    BY <1>1, FilledFresh DEF HeaderWin
  <1>3. /\ RecordWin(n) \in Seq(RecordCells) /\ Fresh(RecordWin(n))
        /\ Len(RecordWin(n)) >= n \/ gen.pos + Len(RecordWin(n)) = gen.stop
    BY <1>2, FilledFresh DEF RecordWin
  <1>4. QED
    BY <1>2, <1>3

\* A record is whole in the window exactly when it is whole in the file, below
\* the end of the scan.
LEMMA WholeInFile ==
    ASSUME Scan, HasHeader, NEW n \in Nat
    PROVE  Whole(n) <=> /\ gen.pos + n <= gen.stop
                        /\ \A i \in 1 .. n : file[gen.pos + i] = Cell(HeaderWin[1].rec, i, n)
  <1> DEFINE w == RecordWin(n)
             r == HeaderWin[1].rec
  <1>1. /\ w \in Seq(RecordCells) /\ Len(w) \in Nat
        /\ gen.pos + Len(w) <= gen.stop
        /\ \A i \in 1 .. Len(w) : w[i] = file[gen.pos + i]
        /\ Len(w) >= n \/ gen.pos + Len(w) = gen.stop
        /\ gen.pos \in Nat /\ gen.stop \in Nat
    <2>1. /\ RecordWin(n) \in Seq(RecordCells) /\ Fresh(RecordWin(n))
          /\ Len(RecordWin(n)) >= n \/ gen.pos + Len(RecordWin(n)) = gen.stop
      BY Windows
    <2> HIDE DEF w
    <2>2. w = RecordWin(n)
      BY DEF w
    <2>3. Len(w) \in Nat
      BY <2>1, <2>2
    <2>4. QED
      BY <2>1, <2>2, <2>3 DEF Fresh, Scan
  <1> HIDE DEF w, r
  <1>2. ASSUME Len(w) >= n
        PROVE  SubSeq(w, 1, n) = Cells(r, n)
                 <=> \A i \in 1 .. n : file[gen.pos + i] = Cell(r, i, n)
    <2>1. SubSeq(w, 1, n) = [i \in 1 .. n |-> w[i]]
      BY <1>1, <1>2
    <2>2. \A i \in 1 .. n : w[i] = file[gen.pos + i]
      BY <1>1, <1>2
    <2>3. QED
      BY <2>1, <2>2 DEF Cells
  <1>3. Whole(n) <=> Len(w) >= n /\ SubSeq(w, 1, n) = Cells(r, n)
    BY DEF Whole, w, r
  <1>4. gen.pos + n <= gen.stop <=> Len(w) >= n
    BY <1>1
  <1>5. QED
    BY <1>2, <1>3, <1>4 DEF r

\* A record the scan yields is in the file, and what is left of the window
\* shows the file behind it.
LEMMA YieldsRecord ==
    ASSUME Scan, NEW n \in MinLen .. MaxCells, Yields(n)
    PROVE  LET r == HeaderWin[1].rec IN
           /\ gen.pos + n <= gen.stop
           /\ file[gen.pos + 1].part = 1 /\ file[gen.pos + 1].len = n
           /\ file[gen.pos + 1].rec = r
           /\ ReadableIn(file, Entry(r, n, gen.pos))
           /\ Entry(r, n, gen.pos) \in Entries
           /\ Advanced(n).pos = gen.pos + n /\ Advanced(n).stop = gen.stop
           /\ DOMAIN Advanced(n) = DOMAIN gen
           /\ Advanced(n).win \in Seq(RecordCells)
           /\ gen.pos + n + Len(Advanced(n).win) <= gen.stop
           /\ \A i \in 1 .. Len(Advanced(n).win) :
                 Advanced(n).win[i] = file[gen.pos + n + i]
  <1> DEFINE r == HeaderWin[1].rec
             w == RecordWin(n)
             rest == SubSeq(w, n + 1, Len(w))
  <1>0. n \in Nat /\ n >= 3 /\ gen.pos \in Nat /\ gen.stop \in Nat
        /\ gen.stop <= Len(file) /\ file \in Seq(RecordCells)
    BY DEF MinLen, Scan
  <1>1. /\ gen.pos + n <= gen.stop
        /\ \A i \in 1 .. n : file[gen.pos + i] = Cell(r, i, n)
    BY <1>0, WholeInFile DEF Yields
  <1>2. file[gen.pos + 1] = Cell(r, 1, n) /\ file[gen.pos + 1] \in RecordCells
    BY <1>0, <1>1
  <1>3. /\ file[gen.pos + 1].part = 1 /\ file[gen.pos + 1].len = n
        /\ file[gen.pos + 1].rec = r
    BY <1>2 DEF Cell
  <1>4. r \in 1 .. MaxRecs /\ n \in Lengths
    BY <1>2, <1>3, CellShape
  <1>5. ReadableIn(file, Entry(r, n, gen.pos)) /\ Entry(r, n, gen.pos) \in Entries
    BY <1>0, <1>1, <1>4 DEF ReadableIn, Entry, Entries
  <1>6. /\ w \in Seq(RecordCells) /\ Len(w) \in Nat /\ gen.pos + Len(w) <= gen.stop
        /\ \A i \in 1 .. Len(w) : w[i] = file[gen.pos + i]
        /\ Len(w) >= n
    <2>1. /\ RecordWin(n) \in Seq(RecordCells) /\ Fresh(RecordWin(n))
      BY <1>0, Windows
    <2>2. Len(RecordWin(n)) >= n
      BY DEF Yields, Whole
    <2>3. QED
      BY <2>1, <2>2 DEF Fresh
  <1>7. /\ Advanced(n).pos = gen.pos + n /\ Advanced(n).stop = gen.stop
        /\ DOMAIN Advanced(n) = DOMAIN gen
        /\ Advanced(n).win = rest
    BY SMTT(30) DEF Advanced
  <1> HIDE DEF w
  <1>8. /\ rest \in Seq(RecordCells) /\ Len(rest) = Len(w) - n
        /\ \A i \in 1 .. Len(rest) : rest[i] = w[n + i]
    <2>1. \A i \in n + 1 .. Len(w) : w[i] \in RecordCells
      BY <1>0, <1>6
    <2>2. /\ SubSeq(w, n + 1, Len(w)) \in Seq(RecordCells)
          /\ Len(SubSeq(w, n + 1, Len(w)))
                = IF n + 1 <= Len(w) THEN Len(w) - (n + 1) + 1 ELSE 0
          /\ \A i \in 1 .. Len(w) - (n + 1) + 1 :
                SubSeq(w, n + 1, Len(w))[i] = w[n + 1 + i - 1]
      BY <1>0, <1>6, <2>1, SubSeqProperties
    <2>3. Len(rest) = Len(w) - n
      BY <1>0, <1>6, <2>2
    <2>4. \A i \in 1 .. Len(w) - n : n + 1 + i - 1 = n + i
      BY <1>0, <1>6
    <2>5. Len(w) - (n + 1) + 1 = Len(w) - n
      BY <1>0, <1>6
    <2>6. QED
      BY <2>2, <2>3, <2>4, <2>5
  <1> HIDE DEF rest
  <1>9. /\ gen.pos + n + Len(rest) <= gen.stop
        /\ \A i \in 1 .. Len(rest) : rest[i] = file[gen.pos + n + i]
    <2>1. ASSUME NEW i \in 1 .. Len(rest)
          PROVE  rest[i] = file[gen.pos + n + i]
      <3>1. n + i \in 1 .. Len(w) /\ gen.pos + (n + i) = gen.pos + n + i
        BY <1>0, <1>6, <1>8
      <3>2. QED
        BY <1>6, <1>8, <3>1
    <2>2. QED
      BY <1>0, <1>6, <1>8, <2>1
  <1>10. QED
    BY <1>1, <1>3, <1>5, <1>7, <1>8, <1>9

\* A scan that is on a whole record sees it as such.
LEMMA WholeHead ==
    ASSUME Scan, NEW r, NEW n \in Nat, n >= 3, gen.pos + n <= gen.stop,
           ReadableIn(file, Entry(r, n, gen.pos))
    PROVE  ~Torn /\ ~Broken /\ ~AtEnd
  <1>0. gen.pos \in Nat /\ gen.stop \in Nat /\ gen.pos <= gen.stop
    BY DEF Scan
  <1>1. /\ HeaderWin \in Seq(RecordCells) /\ Len(HeaderWin) \in Nat
        /\ gen.pos + Len(HeaderWin) <= gen.stop
        /\ \A i \in 1 .. Len(HeaderWin) : HeaderWin[i] = file[gen.pos + i]
        /\ Len(HeaderWin) >= 2 \/ gen.pos + Len(HeaderWin) = gen.stop
    <2>1. /\ HeaderWin \in Seq(RecordCells) /\ Fresh(HeaderWin)
          /\ Len(HeaderWin) >= HeaderCells \/ gen.pos + Len(HeaderWin) = gen.stop
      BY Windows
    <2>2. QED
      BY <2>1 DEF Fresh, HeaderCells
  <1>2. \A i \in 1 .. n : file[gen.pos + i] = Cell(r, i, n)
    BY DEF ReadableIn, Entry
  <1>3. HasHeader /\ ~AtEnd
    BY <1>0, <1>1 DEF HasHeader, AtEnd, HeaderCells
  <1>4. HeaderWin[1] = Cell(r, 1, n) /\ HeaderWin[2] = Cell(r, 2, n)
    <2>1. 1 \in 1 .. Len(HeaderWin) /\ 2 \in 1 .. Len(HeaderWin) /\ 1 \in 1 .. n /\ 2 \in 1 .. n
      BY <1>1, <1>3 DEF HasHeader, HeaderCells
    <2>2. QED
      BY <1>1, <1>2, <2>1
  <1>5. Claims = {n}
    <2>1. Cell(r, 2, n).part = 2 /\ Cell(r, 2, n).len = n /\ Zero.part = 0
      BY DEF Cell, Zero
    <2>2. HeaderWin[2] # Zero /\ HeaderWin[2].part = 2 /\ HeaderWin[2].len = n
      BY <1>4, <2>1
    <2>3. QED
      BY <2>2 DEF Claims
  <1>6. Whole(n)
    <2>1. HeaderWin[1].rec = r
      BY <1>4 DEF Cell
    <2>2. QED
      BY <1>2, <1>3, <2>1, WholeInFile
  <1>7. QED
    BY <1>3, <1>5, <1>6 DEF Torn, Broken

\* A scan that is on whole records sees no torn and no bad one, and ends at the
\* end of the part it was started on.
LEMMA TiledHead ==
    ASSUME Scan, Tiled(file, gen.pos, gen.stop)
    PROVE  ~Torn /\ ~Broken /\ (AtEnd => gen.pos = gen.stop)
  <1>0. gen.pos \in Nat /\ gen.stop \in Nat /\ gen.pos <= gen.stop
        /\ gen.stop <= Len(file) /\ file \in Seq(RecordCells)
    BY DEF Scan
  <1>1. CASE gen.pos = gen.stop
    <2>1. HeaderWin \in Seq(RecordCells) /\ gen.pos + Len(HeaderWin) <= gen.stop
      <3>1. 0 \in Nat
        OBVIOUS
      <3>2. QED
        BY <3>1, Windows DEF Fresh
    <2>2. Len(HeaderWin) = 0
      BY <1>0, <1>1, <2>1
    <2>3. QED
      BY <1>1, <2>2 DEF Torn, Broken, HasHeader, AtEnd, HeaderCells
  <1>2. CASE gen.pos < gen.stop
    <2> DEFINE c == file[gen.pos + 1]
               n == c.len
    <2>1. c \in RecordCells /\ c.part = 1
      BY <1>0, <1>2 DEF Tiled
    <2>2. n \in Nat /\ n >= 3
      BY <2>1, CellShape DEF MinLen
    <2>3. gen.pos + n <= gen.stop /\ ReadableIn(file, Entry(c.rec, n, gen.pos))
      <3>1. gen.pos \in gen.pos .. gen.stop - 1
        BY <1>0, <1>2
      <3>2. QED
        BY <2>1, <3>1 DEF Tiled
    <2> HIDE DEF n, c
    <2>4. QED
      BY <2>2, <2>3, WholeHead
  <1>3. QED
    BY <1>0, <1>1, <1>2

\* What writeSync changes of the file, and what it leaves.
LEMMA WrittenCells ==
    ASSUME NEW f \in Seq(RecordCells), NEW o \in Nat, o <= Len(f),
           NEW cells \in Seq(RecordCells)
    PROVE  LET g == Written(f, o, cells) IN
           /\ g \in Seq(RecordCells)
           /\ Len(g) = IF o + Len(cells) > Len(f) THEN o + Len(cells) ELSE Len(f)
           /\ \A i \in 1 .. o : g[i] = f[i]
           /\ \A i \in 1 .. Len(cells) : g[o + i] = cells[i]
           /\ \A i \in o + Len(cells) + 1 .. Len(f) : g[i] = f[i]
  <1> DEFINE k == IF o + Len(cells) > Len(f) THEN o + Len(cells) ELSE Len(f)
             g == Written(f, o, cells)
  <1>1. k \in Nat /\ Len(cells) \in Nat /\ Len(f) \in Nat /\ Len(f) <= k
        /\ o + Len(cells) <= k
        /\ \A i \in 1 .. k : i > Len(f) => i <= o + Len(cells)
    OBVIOUS
  <1>2. g = [i \in 1 .. k |-> IF i > o /\ i <= o + Len(cells) THEN cells[i - o] ELSE f[i]]
    BY DEF Written
  <1> HIDE DEF g, k
  <1>3. \A i \in 1 .. k : g[i] \in RecordCells
    <2>1. TAKE i \in 1 .. k
    <2>2. CASE i > o /\ i <= o + Len(cells)
      <3>1. i - o \in 1 .. Len(cells)
        BY <1>1, <2>2
      <3>2. QED
        BY <1>2, <2>2, <3>1
    <2>3. CASE ~(i > o /\ i <= o + Len(cells))
      <3>1. i \in 1 .. Len(f)
        BY <1>1, <2>3
      <3>2. QED
        BY <1>2, <2>3, <3>1
    <2>4. QED
      BY <2>2, <2>3
  <1>4. g \in Seq(RecordCells) /\ Len(g) = k
    <2>1. g \in [1 .. k -> RecordCells]
      BY <1>2, <1>3
    <2>2. QED
      BY <1>1, <2>1
  <1>5. ASSUME NEW i \in 1 .. Len(cells)
        PROVE  g[o + i] = cells[i]
    <2>1. o + i \in 1 .. k /\ o + i > o /\ o + i <= o + Len(cells) /\ (o + i) - o = i
      BY <1>1
    <2>2. QED
      BY <1>2, <2>1
  <1>6. \A i \in 1 .. o : g[i] = f[i]
    BY <1>1, <1>2
  <1>7. \A i \in o + Len(cells) + 1 .. Len(f) : g[i] = f[i]
    BY <1>1, <1>2
  <1>8. QED
    BY <1>4, <1>5, <1>6, <1>7 DEF g, k

\* A part of the file, or of a record.
LEMMA PartCells ==
    ASSUME NEW f \in Seq(RecordCells), NEW a \in Nat, NEW n \in Nat, a + n <= Len(f)
    PROVE  /\ SubSeq(f, a + 1, a + n) \in Seq(RecordCells)
           /\ Len(SubSeq(f, a + 1, a + n)) = n
           /\ \A i \in 1 .. n : SubSeq(f, a + 1, a + n)[i] = f[a + i]
  <1>1. \A i \in a + 1 .. a + n : f[i] \in RecordCells
    OBVIOUS
  <1>2. /\ SubSeq(f, a + 1, a + n) \in Seq(RecordCells)
        /\ Len(SubSeq(f, a + 1, a + n)) = IF a + 1 <= a + n THEN a + n - (a + 1) + 1 ELSE 0
        /\ \A i \in 1 .. a + n - (a + 1) + 1 : SubSeq(f, a + 1, a + n)[i] = f[a + 1 + i - 1]
    BY <1>1, SubSeqProperties
  <1>3. a + n - (a + 1) + 1 = n /\ \A i \in 1 .. n : a + 1 + i - 1 = a + i
    OBVIOUS
  <1>4. Len(SubSeq(f, a + 1, a + n)) = n
    BY <1>2, <1>3
  <1>5. QED
    BY <1>2, <1>3, <1>4

-----------------------------------------------------------------------------
(* The invariant holds in every state.                                     *)

\* No scan, and a scan that starts.
LEMMA GenType ==
    ASSUME NEW b \in Nat
    PROVE  /\ NoGen \in [pos : Nat, win : Seq(RecordCells), stop : Nat]
           /\ GenFrom(b) \in [pos : Nat, win : Seq(RecordCells), stop : Nat]
  <1>1. << >> \in Seq(RecordCells)
    OBVIOUS
  <1>2. QED
    BY <1>1 DEF NoGen, GenFrom

\* Nothing is written yet.
LEMMA InitIInv == Init => IInv
  <1> SUFFICES ASSUME Init PROVE IInv
    OBVIOUS
  <1>1. << >> \in Seq(RecordCells) /\ << >> \in Seq(Entries)
    OBVIOUS
  <1>2. TypeOK
    <2>1. NoGen \in [pos : Nat, win : Seq(RecordCells), stop : Nat]
      <3>1. 0 \in Nat
        OBVIOUS
      <3>2. QED
        BY <3>1, GenType
    <2>2. 0 \in 0 .. MaxCells /\ 0 \in 0 .. MaxRecs
      OBVIOUS
    <2>3. QED
      BY <1>1, <2>1, <2>2 DEF Init, TypeOK
  <1>3. BeforeFirstOpen /\ FilesInBounds
    BY DEF Init, BeforeFirstOpen, FilesInBounds
  <1>4. /\ SessionFile /\ CutByFailure /\ AppendInProgress
        /\ ScanInFile /\ ReplayScan /\ StatsScan /\ CompactScan
    BY DEF Init, SessionFile, CutByFailure, AppendInProgress, ScanInFile, ReplayScan,
           StatsScan, CompactScan
  <1>5. QED
    BY <1>2, <1>3, <1>4 DEF IInv

\* A scan in progress is within the file.
LEMMA InvScan ==
    ASSUME IInv, phase \in {"reading", "scanning", "compacting"}
    PROVE  Scan /\ gen.stop = end /\ end <= Len(file)
  BY DEF IInv, TypeOK, ScanInFile, Scan

\* The window of a scan that has moved on by one record.
LEMMA AdvancedFresh ==
    ASSUME TypeOK, Scan, NEW n \in MinLen .. MaxCells, Yields(n),
           gen' = Advanced(n),
           file' \in Seq(RecordCells), gen.stop <= Len(file'),
           \A i \in gen.pos + n + 1 .. gen.stop : file'[i] = file[i]
    PROVE  /\ gen' \in [pos : Nat, win : Seq(RecordCells), stop : Nat]
           /\ gen'.pos = gen.pos + n /\ gen'.stop = gen.stop
           /\ gen'.pos <= gen'.stop
           /\ Fresh(gen.win)'
  <1>1. /\ gen.pos + n <= gen.stop
        /\ Advanced(n).pos = gen.pos + n /\ Advanced(n).stop = gen.stop
        /\ Advanced(n).win \in Seq(RecordCells)
        /\ gen.pos + n + Len(Advanced(n).win) <= gen.stop
        /\ \A i \in 1 .. Len(Advanced(n).win) :
              Advanced(n).win[i] = file[gen.pos + n + i]
    BY YieldsRecord
  <1>2. gen.pos \in Nat /\ gen.stop \in Nat /\ n \in Nat
    BY DEF Scan, MinLen
  <1>3. gen' \in [pos : Nat, win : Seq(RecordCells), stop : Nat]
    <2>1. gen.pos + n \in Nat
      BY <1>2
    <2>2. gen \in [pos : Nat, win : Seq(RecordCells), stop : Nat]
      BY DEF TypeOK
    <2>3. SubSeq(RecordWin(n), n + 1, Len(RecordWin(n))) \in Seq(RecordCells)
      BY <1>1 DEF Advanced, TypeOK
    <2>4. QED
      BY <2>1, <2>2, <2>3 DEF Advanced
  <1>4. \A i \in 1 .. Len(gen'.win) : gen'.win[i] = file'[gen'.pos + i]
    <2>1. TAKE i \in 1 .. Len(gen'.win)
    <2>2. gen.pos + n + i \in gen.pos + n + 1 .. gen.stop
      <3>1. gen'.win \in Seq(RecordCells)
        BY <1>1
      <3>2. Len(gen'.win) \in Nat
        BY <3>1, LenProperties
      <3>3. gen.pos + n + Len(gen'.win) <= gen.stop
        BY <1>1
      <3>4. i \in Nat /\ 1 <= i /\ i <= Len(gen'.win)
        BY <3>2
      <3>5. gen.pos + n \in Nat
        BY <1>2
      <3>6. DEFINE p == gen.pos + n
      <3>7. DEFINE l == Len(gen'.win)
      <3>8. p \in Nat /\ l \in Nat /\ gen.stop \in Nat /\ i \in Nat /\ 1 <= i /\ i <= l
             /\ p + l <= gen.stop
        BY <1>2, <3>2, <3>3, <3>4, <3>5
      <3>9. p + i \in p + 1 .. gen.stop
        <4>1. HIDE DEF p, l
        <4>2. QED
          BY <3>8
      <3>10. QED
        BY <3>9
    <2>3. QED
      BY <1>1, <2>2
  <1>5. QED
    BY <1>1, <1>3, <1>4 DEF Fresh

\* An empty stretch of an empty file.
LEMMA NothingLaid ==
    ASSUME NEW f, NEW x
    PROVE  Tiled(f, 0, 0) /\ Laid(f, << >>, 0, x)
  BY DEF Tiled, Laid

\* FileStorage.open creates the file and writes its header.
LEMMA CreateSteps ==
    ASSUME IInv, OpenNew \/ WriteHeader
    PROVE  IInv'
  <1>0. TypeOK /\ BeforeFirstOpen /\ FilesInBounds /\ SessionFile /\ CutByFailure
        /\ AppendInProgress
    BY DEF IInv
  <1>1. CASE OpenNew
    <2>1. TypeOK'
      BY <1>0, <1>1 DEF OpenNew, TypeOK
    <2>2. BeforeFirstOpen' /\ FilesInBounds'
      BY <1>0, <1>1 DEF OpenNew, BeforeFirstOpen, FilesInBounds
    <2>3. /\ SessionFile' /\ CutByFailure' /\ AppendInProgress'
          /\ ScanInFile' /\ ReplayScan' /\ StatsScan' /\ CompactScan'
      BY <1>0, <1>1 DEF OpenNew, SessionFile, AppendInProgress, ScanInFile, ReplayScan,
                        StatsScan, CompactScan, CutByFailure
    <2>4. QED
      BY <2>1, <2>2, <2>3 DEF IInv
  <1>2. CASE WriteHeader
    <2>1. TypeOK'
      BY <1>0, <1>2 DEF WriteHeader, TypeOK
    <2>2. BeforeFirstOpen' /\ FilesInBounds'
      BY <1>0, <1>2 DEF WriteHeader, BeforeFirstOpen, FilesInBounds
    <2>3. file' = << >> /\ log' = << >> /\ end' = 0
      BY <1>0, <1>2 DEF WriteHeader, BeforeFirstOpen
    <2>4. SessionFile'
      BY <2>3, NothingLaid DEF SessionFile
    <2>5. AppendInProgress' /\ ScanInFile' /\ ReplayScan' /\ StatsScan' /\ CompactScan'
          /\ CutByFailure'
      BY <1>0, <1>2 DEF WriteHeader, AppendInProgress, ScanInFile, ReplayScan, StatsScan,
                        CompactScan, CutByFailure
    <2>6. QED
      BY <2>1, <2>2, <2>4, <2>5 DEF IInv
  <1>3. QED
    BY <1>1, <1>2

\* FileStorage.open starts the replay, or refuses a file without a header.
LEMMA OpenExistingStep ==
    ASSUME IInv, OpenExisting
    PROVE  IInv'
  <1>0. TypeOK /\ BeforeFirstOpen /\ CutByFailure /\ FilesInBounds /\ AppendInProgress
    BY DEF IInv
  <1>1. Len(file) \in Nat /\ Len(file) <= MaxCells /\ << >> \in Seq(Entries)
    BY <1>0 DEF TypeOK, FilesInBounds
  <1>2. TypeOK'
    <2>1. GenFrom(Len(file)) \in [pos : Nat, win : Seq(RecordCells), stop : Nat]
      BY <1>1, GenType
    <2>2. QED
      BY <1>0, <1>1, <2>1 DEF OpenExisting, TypeOK
  <1>3. BeforeFirstOpen' /\ FilesInBounds'
    BY <1>0 DEF OpenExisting, BeforeFirstOpen, FilesInBounds, TypeOK
  <1>4. SessionFile' /\ CutByFailure' /\ AppendInProgress' /\ StatsScan' /\ CompactScan'
    BY <1>0 DEF OpenExisting, SessionFile, CutByFailure, AppendInProgress, StatsScan,
                CompactScan
  <1>5. CASE hdr = "empty"
    BY <1>2, <1>3, <1>4, <1>5 DEF OpenExisting, IInv, ScanInFile, ReplayScan
  <1>6. CASE hdr # "empty"
    <2>1. /\ end' = Len(file) /\ file' = file /\ out' = << >>
          /\ gen'.pos = 0 /\ gen'.win = << >> /\ gen'.stop = Len(file)
      BY <1>6 DEF OpenExisting, GenFrom
    <2>2. ScanInFile'
      BY <1>1, <2>1 DEF ScanInFile, Fresh
    <2>3. ReplayScan'
      BY <2>1, NothingLaid DEF ReplayScan
    <2>4. QED
      BY <1>2, <1>3, <1>4, <2>2, <2>3 DEF IInv
  <1>7. QED
    BY <1>5, <1>6

\* The replay yields a record.
LEMMA ReplayRecordStep ==
    ASSUME IInv, ReplayRecord
    PROVE  IInv'
  <1>0. TypeOK /\ BeforeFirstOpen /\ CutByFailure /\ FilesInBounds /\ AppendInProgress
        /\ ScanInFile /\ ReplayScan
    BY DEF IInv
  <1>1. phase = "reading" /\ Scan /\ gen.stop = end /\ end <= Len(file)
    BY InvScan DEF ReplayRecord
  <1>2. PICK n \in MinLen .. MaxCells :
          /\ Yields(n)
          /\ out' = Append(out, Entry(HeaderWin[1].rec, n, gen.pos))
          /\ gen' = Advanced(n)
    BY DEF ReplayRecord
  <1> DEFINE e == Entry(HeaderWin[1].rec, n, gen.pos)
  <1>3. /\ gen.pos + n <= gen.stop /\ ReadableIn(file, e) /\ e \in Entries
    BY <1>1, <1>2, YieldsRecord
  <1>4. n \in Nat /\ n > 0 /\ gen.pos \in Nat /\ gen.stop \in Nat
        /\ e.off = gen.pos /\ e.len = n
    BY <1>1 DEF MinLen, Scan, Entry
  <1>5. /\ gen' \in [pos : Nat, win : Seq(RecordCells), stop : Nat]
        /\ gen'.pos = gen.pos + n /\ gen'.stop = gen.stop
        /\ gen'.pos <= gen'.stop
        /\ Fresh(gen.win)'
    <2>1. file' = file /\ file \in Seq(RecordCells) /\ gen.stop <= Len(file)
      BY <1>1 DEF ReplayRecord, Scan
    <2>2. QED
      BY <1>0, <1>1, <1>2, <2>1, AdvancedFresh
  <1> HIDE DEF e
  <1>6. out' \in Seq(Entries) /\ out' = Append(out, e)
    BY <1>0, <1>2, <1>3 DEF TypeOK, e
  <1>7. TypeOK'
    BY <1>0, <1>5, <1>6 DEF ReplayRecord, TypeOK
  <1>8. BeforeFirstOpen' /\ FilesInBounds'
    BY <1>0 DEF ReplayRecord, BeforeFirstOpen, FilesInBounds
  <1>9. SessionFile' /\ CutByFailure' /\ AppendInProgress' /\ StatsScan' /\ CompactScan'
    BY <1>0 DEF ReplayRecord, SessionFile, CutByFailure, AppendInProgress, StatsScan,
                CompactScan
  <1>10. ScanInFile'
    BY <1>1, <1>5 DEF ReplayRecord, ScanInFile
  <1>11. ReplayScan'
    <2>1. Tiled(file, 0, gen.pos) /\ Laid(file, out, gen.pos, None)
      BY <1>0, <1>1 DEF ReplayScan
    <2>2. file \in Seq(RecordCells) /\ out \in Seq(Entries)
      BY <1>0 DEF TypeOK
    <2>3. Tiled(file, 0, gen.pos + n)
      BY <1>3, <1>4, <2>1, <2>2, TiledExtend DEF e
    <2>4. Laid(file, out', gen.pos + n, None)
      BY <1>3, <1>4, <1>6, <2>1, <2>2, LaidAppend
    <2>5. QED
      BY <1>0, <1>5, <2>3, <2>4 DEF ReplayRecord, ReplayScan
  <1>12. QED
    BY <1>7, <1>8, <1>9, <1>10, <1>11 DEF IInv

\* The replay is over, on a file cut at or after what the replay has passed.
LEMMA OpenedWithStep ==
    ASSUME IInv, NEW f \in Seq(RecordCells), OpenedWith(f), dirty' \in BOOLEAN,
           Len(f) = gen.pos, \A i \in 1 .. gen.pos : f[i] = file[i]
    PROVE  IInv'
  <1>0. TypeOK /\ BeforeFirstOpen /\ CutByFailure /\ FilesInBounds /\ AppendInProgress
        /\ ScanInFile /\ ReplayScan
    BY DEF IInv
  <1>1. phase = "reading" /\ Scan /\ gen.stop = end /\ end <= Len(file)
    BY InvScan DEF OpenedWith
  <1>2. gen.pos \in Nat /\ gen.pos <= Len(file) /\ gen.pos <= MaxCells
        /\ file \in Seq(RecordCells) /\ Len(file) \in Nat
    BY <1>0, <1>1 DEF Scan, FilesInBounds
  <1>3. NoGen \in [pos : Nat, win : Seq(RecordCells), stop : Nat]
    BY <1>2, GenType
  <1>4. << >> \in Seq(Entries) /\ gen.pos \in 0 .. MaxCells
    BY <1>2
  <1>5. TypeOK'
    BY <1>0, <1>3, <1>4 DEF OpenedWith, TypeOK
  <1>6. BeforeFirstOpen' /\ FilesInBounds'
    BY <1>0, <1>1, <1>2 DEF OpenedWith, BeforeFirstOpen, FilesInBounds
  <1>7. SessionFile'
    <2>1. Tiled(file, 0, gen.pos) /\ Laid(file, out, gen.pos, None) /\ out \in Seq(Entries)
      BY <1>0, <1>1 DEF ReplayScan, TypeOK
    <2>2. Tiled(f, 0, gen.pos)
      BY <1>2, <2>1, TiledSame
    <2>3. Laid(f, out, gen.pos, None)
      BY <1>2, <2>1, LaidSame
    <2>4. file' = f /\ end' = gen.pos /\ log' = out /\ cut' = None /\ gen.pos <= Len(f)
      BY <1>0, <1>1, <1>2 DEF OpenedWith, CutByFailure
    <2>5. QED
      BY <2>2, <2>3, <2>4 DEF SessionFile
  <1>8. AppendInProgress' /\ ScanInFile' /\ ReplayScan' /\ StatsScan' /\ CompactScan'
         /\ CutByFailure'
    BY <1>0, <1>1 DEF OpenedWith, AppendInProgress, ScanInFile, ReplayScan, StatsScan,
                      CompactScan, CutByFailure
  <1>9. QED
    BY <1>5, <1>6, <1>7, <1>8 DEF IInv

\* The replay ends, at the end of the file or at a torn last record, or the
\* file is refused.
LEMMA ReplayEnds ==
    ASSUME IInv, ReplayEnd \/ RecoverTornTail \/ ReplayFails
    PROVE  IInv'
  <1>0. TypeOK /\ BeforeFirstOpen /\ CutByFailure /\ FilesInBounds /\ AppendInProgress
        /\ ScanInFile /\ ReplayScan
    BY DEF IInv
  <1>1. phase = "reading" /\ Scan /\ gen.stop = end /\ end <= Len(file)
    BY InvScan DEF ReplayEnd, RecoverTornTail, ReplayFails, OpenedWith
  <1>2. gen.pos \in Nat /\ gen.stop \in Nat /\ gen.pos <= gen.stop
        /\ file \in Seq(RecordCells) /\ Len(file) \in Nat
        /\ dirty \in BOOLEAN /\ end = Len(file)
    BY <1>0, <1>1 DEF Scan, TypeOK, ReplayScan
  <1>3. CASE ReplayEnd
    <2>1. OpenedWith(file) /\ dirty' = (dirty \/ inflight # None) /\ AtEnd
      BY <1>3 DEF ReplayEnd
    <2>2. gen.pos = gen.stop
      <3>1. HeaderWin \in Seq(RecordCells)
            /\ (Len(HeaderWin) >= HeaderCells \/ gen.pos + Len(HeaderWin) = gen.stop)
        BY <1>1, <1>2, Windows
      <3>2. Len(HeaderWin) = 0
        BY <2>1 DEF AtEnd
      <3>3. QED
        BY <1>2, <3>1, <3>2 DEF HeaderCells
    <2>3. QED
      BY <1>1, <1>2, <2>1, <2>2, OpenedWithStep
  <1>4. CASE RecoverTornTail
    <2> DEFINE f == SubSeq(file, 1, gen.pos)
    <2>1. OpenedWith(f) /\ dirty' = TRUE
      BY <1>4 DEF RecoverTornTail
    <2>2. /\ f \in Seq(RecordCells) /\ Len(f) = gen.pos
          /\ \A i \in 1 .. gen.pos : f[i] = file[i]
      <3>1. gen.pos <= Len(file)
        BY <1>1, <1>2
      <3>2. QED
        BY <1>2, <3>1
    <2> HIDE DEF f
    <2>3. QED
      BY <1>1, <1>2, <2>1, <2>2, OpenedWithStep
  <1>5. CASE ReplayFails
    <2>1. NoGen \in [pos : Nat, win : Seq(RecordCells), stop : Nat]
          /\ << >> \in Seq(Entries)
      BY <1>2, GenType
    <2>2. TypeOK'
      BY <1>0, <1>5, <2>1 DEF ReplayFails, TypeOK
    <2>3. BeforeFirstOpen' /\ FilesInBounds'
      BY <1>0, <1>5 DEF ReplayFails, BeforeFirstOpen, FilesInBounds
    <2>4. /\ SessionFile' /\ CutByFailure' /\ AppendInProgress'
          /\ ScanInFile' /\ ReplayScan' /\ StatsScan' /\ CompactScan'
      BY <1>0, <1>5 DEF ReplayFails, SessionFile, AppendInProgress, ScanInFile, ReplayScan,
                        StatsScan, CompactScan, CutByFailure
    <2>5. QED
      BY <2>2, <2>3, <2>4 DEF IInv
  <1>6. QED
    BY <1>3, <1>4, <1>5

\* appendOperation starts.
LEMMA AppendOperationStep ==
    ASSUME IInv, NEW n \in Lengths, AppendOperation(n)
    PROVE  IInv'
  <1>0. TypeOK /\ BeforeFirstOpen /\ CutByFailure /\ FilesInBounds /\ SessionFile
    BY DEF IInv
  <1>1. /\ job' = [rec |-> last + 1, len |-> n, done |-> 0] /\ n \in Nat
        /\ last + 1 \in 1 .. MaxRecs /\ last + 1 \in 0 .. MaxRecs /\ end \in Nat
        /\ end + n <= MaxCells /\ end' = end /\ file' = file
        /\ phase = "open" /\ phase' = "appending" /\ last' = last + 1
    BY <1>0 DEF AppendOperation, TypeOK
  <1>2. job' \in Jobs /\ job'.done = 0 /\ job'.len = n
    BY <1>1 DEF Jobs
  <1>3. TypeOK'
    BY <1>0, <1>1, <1>2 DEF AppendOperation, TypeOK
  <1>4. BeforeFirstOpen' /\ FilesInBounds'
    BY <1>0, <1>1 DEF AppendOperation, BeforeFirstOpen, FilesInBounds
  <1>5. SessionFile'
    BY <1>0, <1>1 DEF AppendOperation, SessionFile
  <1>6. AppendInProgress'
    <2>1. end <= Len(file) /\ end + 0 = end
      BY <1>0, <1>1 DEF SessionFile
    <2>2. QED
      BY <1>1, <1>2, <2>1 DEF AppendInProgress
  <1>7. ScanInFile' /\ ReplayScan' /\ StatsScan' /\ CompactScan'
        /\ CutByFailure'
    BY <1>0, <1>1 DEF AppendOperation, ScanInFile, ReplayScan, StatsScan, CompactScan,
                      CutByFailure
  <1>8. QED
    BY <1>3, <1>4, <1>5, <1>6, <1>7 DEF IInv

\* A writeSync takes some of the bytes of the record: they follow those already
\* written, and the file up to the record is as it was.
LEMMA WriteSomeEffect ==
    ASSUME IInv, WriteSome
    PROVE  \E k \in 1 .. job.len - job.done :
              /\ job' \in Jobs /\ job'.done = job.done + k
              /\ job'.len = job.len /\ job'.rec = job.rec
              /\ file' \in Seq(RecordCells)
              /\ Len(file') = IF end + job.done + k > Len(file) THEN end + job.done + k
                             ELSE Len(file)
              /\ \A i \in 1 .. end : file'[i] = file[i]
              /\ \A i \in 1 .. job.done + k : file'[end + i] = Cell(job.rec, i, job.len)
  <1>0. TypeOK /\ AppendInProgress
    BY DEF IInv
  <1>1. /\ phase = "appending" /\ job \in Jobs /\ job.done < job.len
        /\ end + job.done <= Len(file) /\ end + job.len <= MaxCells
        /\ \A i \in 1 .. job.done : file[end + i] = Cell(job.rec, i, job.len)
    BY <1>0 DEF WriteSome, AppendInProgress
  <1>2. /\ job.rec \in 1 .. MaxRecs /\ job.len \in Lengths /\ job.len \in Nat
        /\ job.done \in Nat /\ end \in Nat /\ end \in 0 .. MaxCells
        /\ file \in Seq(RecordCells) /\ Len(file) \in Nat
    <2>1. /\ job.rec \in 1 .. MaxRecs /\ job.len \in Lengths /\ job.len \in Nat
          /\ job.done \in Nat
      BY <1>1, JobShape
    <2>2. QED
      BY <1>0, <2>1 DEF TypeOK
  <1>3. PICK k \in 1 .. job.len - job.done :
          /\ file' = Written(file, end + job.done,
                             SubSeq(Cells(job.rec, job.len), job.done + 1, job.done + k))
          /\ job' = [job EXCEPT !.done = @ + k]
    BY DEF WriteSome
  <1> DEFINE all == Cells(job.rec, job.len)
             now == SubSeq(all, job.done + 1, job.done + k)
             o == end + job.done
  <1>4. /\ all \in Seq(RecordCells) /\ Len(all) = job.len
        /\ \A i \in 1 .. job.len : all[i] = Cell(job.rec, i, job.len)
    BY <1>2, CellsSeq
  <1>5. k \in Nat /\ k > 0 /\ job.done + k <= job.len
    BY <1>2
  <1> HIDE DEF all
  <1>6. /\ now \in Seq(RecordCells) /\ Len(now) = k
        /\ \A i \in 1 .. k : now[i] = all[job.done + i]
    <2>1. job.done + k <= Len(all)
      BY <1>4, <1>5
    <2>2. \A a \in Nat, m \in Nat : a + m <= Len(all) =>
             /\ SubSeq(all, a + 1, a + m) \in Seq(RecordCells)
             /\ Len(SubSeq(all, a + 1, a + m)) = m
             /\ \A i \in 1 .. m : SubSeq(all, a + 1, a + m)[i] = all[a + i]
      BY <1>4, PartCells
    <2>3. /\ SubSeq(all, job.done + 1, job.done + k) \in Seq(RecordCells)
          /\ Len(SubSeq(all, job.done + 1, job.done + k)) = k
          /\ \A i \in 1 .. k : SubSeq(all, job.done + 1, job.done + k)[i] = all[job.done + i]
      BY <1>2, <1>5, <2>1, <2>2, ZenonT(30)
    <2>4. QED
      BY <2>3, Zenon DEF now
  <1> HIDE DEF now
  <1>7. o \in Nat /\ o <= Len(file) /\ file' = Written(file, o, now)
    <2>1. file' = Written(file, o, now)
      BY <1>3 DEF now, all
    <2>2. o \in Nat /\ o <= Len(file)
      BY <1>1, <1>2
    <2>3. QED
      BY <2>1, <2>2
  <1>8. /\ file' \in Seq(RecordCells)
        /\ Len(file') = IF o + k > Len(file) THEN o + k ELSE Len(file)
        /\ \A i \in 1 .. o : file'[i] = file[i]
        /\ \A i \in 1 .. k : file'[o + i] = now[i]
    <2> HIDE DEF o, now
    <2>1. LET g == Written(file, o, now) IN
          /\ g \in Seq(RecordCells)
          /\ Len(g) = IF o + Len(now) > Len(file) THEN o + Len(now) ELSE Len(file)
          /\ \A i \in 1 .. o : g[i] = file[i]
          /\ \A i \in 1 .. Len(now) : g[o + i] = now[i]
          /\ \A i \in o + Len(now) + 1 .. Len(file) : g[i] = file[i]
      <3>1. file \in Seq(RecordCells) /\ now \in Seq(RecordCells) /\ o \in Nat
            /\ o <= Len(file)
        BY <1>2, <1>6, <1>7
      <3>2. QED
        BY <3>1, WrittenCells
    <2>2. Len(now) = k /\ file' = Written(file, o, now)
      BY <1>6, <1>7
    <2>3. QED
      BY <2>1, <2>2
  <1>9. job' \in Jobs /\ job'.done = job.done + k /\ job'.len = job.len /\ job'.rec = job.rec
    <2>1. job.done + k \in Nat
      BY <1>2, <1>5
    <2>2. job \in [rec : 1 .. MaxRecs, len : Lengths, done : Nat]
      BY <1>1 DEF Jobs
    <2>3. QED
      BY <1>3, <2>1, <2>2 DEF Jobs
  <1>10. ASSUME NEW i \in 1 .. job.done + k
        PROVE  file'[end + i] = Cell(job.rec, i, job.len)
    <2>1. CASE i <= job.done
      <3>1. end + i \in 1 .. o /\ i \in 1 .. job.done
        BY <1>2, <1>5, <2>1
      <3>2. QED
        BY <1>1, <1>8, <3>1
    <2>2. CASE i > job.done
      <3>1. /\ i - job.done \in 1 .. k /\ o + (i - job.done) = end + i
            /\ job.done + (i - job.done) = i /\ i \in 1 .. job.len
        <4> DEFINE d == job.done
                   l == job.len
        <4>1. d \in Nat /\ l \in Nat /\ end \in Nat /\ k \in Nat /\ d + k <= l
              /\ i \in Nat /\ i > d /\ i <= d + k
          BY <1>2, <1>5, <2>2
        <4> HIDE DEF d, l
        <4>2. /\ i - d \in 1 .. k /\ (end + d) + (i - d) = end + i
              /\ d + (i - d) = i /\ i \in 1 .. l
          BY <4>1
        <4>3. QED
          BY <4>2 DEF d, l
      <3>2. QED
        BY <1>4, <1>6, <1>8, <3>1
    <2>3. QED
      BY <1>2, <1>5, <2>1, <2>2
  <1>11. \A i \in 1 .. end : i \in 1 .. o
    BY <1>2
  <1>12. QED
    BY <1>8, <1>9, <1>10, <1>11

\* The invariant holds while a record is being written.
LEMMA WriteSomeStep ==
    ASSUME IInv, WriteSome
    PROVE  IInv'
  <1>0. TypeOK /\ BeforeFirstOpen /\ FilesInBounds /\ SessionFile /\ CutByFailure
        /\ AppendInProgress
    BY DEF IInv
  <1>1. /\ phase = "appending" /\ job \in Jobs /\ job.done < job.len
        /\ end + job.done <= Len(file) /\ end + job.len <= MaxCells
    BY <1>0 DEF WriteSome, AppendInProgress
  <1>2. /\ job.rec \in 1 .. MaxRecs /\ job.len \in Lengths /\ job.len \in Nat
        /\ job.done \in Nat /\ end \in Nat /\ end \in 0 .. MaxCells
        /\ file \in Seq(RecordCells) /\ Len(file) \in Nat
    <2>1. /\ job.rec \in 1 .. MaxRecs /\ job.len \in Lengths /\ job.len \in Nat
          /\ job.done \in Nat
      BY <1>1, JobShape
    <2>2. QED
      BY <1>0, <2>1 DEF TypeOK
  <1>3. PICK k \in 1 .. job.len - job.done :
          /\ job' \in Jobs /\ job'.done = job.done + k
          /\ job'.len = job.len /\ job'.rec = job.rec
          /\ file' \in Seq(RecordCells)
          /\ Len(file') = IF end + job.done + k > Len(file) THEN end + job.done + k
                         ELSE Len(file)
          /\ \A i \in 1 .. end : file'[i] = file[i]
          /\ \A i \in 1 .. job.done + k : file'[end + i] = Cell(job.rec, i, job.len)
    BY WriteSomeEffect
  <1>4. k \in Nat /\ k > 0 /\ job.done + k <= job.len
    BY <1>2
  <1>5. /\ end' = end /\ log' = log /\ phase' = phase /\ moved' = moved /\ hdr' = hdr
        /\ disk' = disk /\ cut' = cut
    BY DEF WriteSome
  <1>6. TypeOK'
    BY <1>0, <1>3 DEF WriteSome, TypeOK
  <1>7. BeforeFirstOpen' /\ FilesInBounds'
    <2>1. Len(file') <= MaxCells
      BY <1>0, <1>1, <1>2, <1>3, <1>4, SMTT(30) DEF FilesInBounds
    <2>2. QED
      BY <1>0, <1>1, <1>5, <2>1 DEF BeforeFirstOpen, FilesInBounds
  <1>8. SessionFile'
    <2>1. end <= Len(file) /\ Laid(file, log, end, cut)
          /\ (~moved => Tiled(file, 0, end)) /\ log \in Seq(Entries)
      BY <1>0, <1>1 DEF SessionFile, TypeOK
    <2>2. end <= Len(file')
      <3>1. Len(file) <= Len(file')
        <4>1. Len(file) \in Nat /\ Len(file') \in Nat
          BY <1>2, <1>3
        <4>2. \/ Len(file') = Len(file)
              \/ Len(file') = end + job.done + k /\ end + job.done + k > Len(file)
          BY <1>3, Zenon
        <4>3. QED
          BY <1>2, <1>4, <4>1, <4>2
      <3>2. Len(file') \in Nat
        BY <1>3
      <3>3. QED
        BY <1>2, <2>1, <3>1, <3>2
    <2>3. Laid(file', log, end, cut)
      BY <1>2, <1>3, <2>1, <2>2, LaidSame
    <2>4. ~moved => Tiled(file', 0, end)
      BY <1>2, <1>3, <2>1, <2>2, TiledSame
    <2>5. QED
      BY <1>5, <2>2, <2>3, <2>4 DEF SessionFile
  <1>9. AppendInProgress'
    <2>1. end + (job.done + k) <= Len(file') /\ job.done + k <= job.len
      BY <1>1, <1>2, <1>4, <1>3
    <2>2. QED
      BY <1>1, <1>3, <1>5, <2>1 DEF AppendInProgress
  <1>10. ScanInFile' /\ ReplayScan' /\ StatsScan' /\ CompactScan'
         /\ CutByFailure'
    BY <1>0, <1>1, <1>5 DEF ScanInFile, ReplayScan, StatsScan, CompactScan, CutByFailure
  <1>11. QED
    BY <1>6, <1>7, <1>8, <1>9, <1>10 DEF IInv

\* A writeSync fails: what is written of the record stays behind the log.
LEMMA WriteErrorStep ==
    ASSUME IInv, WriteError
    PROVE  IInv'
  <1>0. TypeOK /\ BeforeFirstOpen /\ CutByFailure /\ FilesInBounds /\ SessionFile
    BY DEF IInv
  <1>1. TypeOK'
    BY <1>0 DEF WriteError, TypeOK
  <1>2. BeforeFirstOpen' /\ FilesInBounds' /\ SessionFile' /\ AppendInProgress'
    BY <1>0 DEF WriteError, BeforeFirstOpen, FilesInBounds, SessionFile, AppendInProgress
  <1>3. ScanInFile' /\ ReplayScan' /\ StatsScan' /\ CompactScan'
         /\ CutByFailure'
    BY <1>0 DEF WriteError, ScanInFile, ReplayScan, StatsScan, CompactScan, CutByFailure
  <1>4. QED
    BY <1>1, <1>2, <1>3 DEF IInv

\* The record is written: the append returns, or only its fsync fails, and then
\* the record is in the file without being acknowledged.
LEMMA AppendEnds ==
    ASSUME IInv, AppendReturns \/ FsyncError
    PROVE  IInv'
  <1>0. TypeOK /\ BeforeFirstOpen /\ FilesInBounds /\ SessionFile /\ CutByFailure
        /\ AppendInProgress
    BY DEF IInv
  <1>1. /\ phase = "appending" /\ phase' = "open" /\ job' = None /\ job.done = job.len
        /\ end' = end + job.len /\ file' = file /\ hdr' = hdr /\ moved' = moved
        /\ cut' = cut
    BY DEF AppendReturns, FsyncError
  <1>2. /\ job \in Jobs /\ end + job.len <= Len(file) /\ end + job.len <= MaxCells
        /\ \A i \in 1 .. job.len : file[end + i] = Cell(job.rec, i, job.len)
        /\ file \in Seq(RecordCells) /\ log \in Seq(Entries) /\ end \in Nat
        /\ end <= Len(file) /\ Laid(file, log, end, cut) /\ (~moved => Tiled(file, 0, end))
    BY <1>0, <1>1 DEF AppendInProgress, TypeOK, SessionFile
  <1>3. /\ job.rec \in 1 .. MaxRecs /\ job.len \in Lengths /\ job.len \in Nat /\ job.len >= 3
    BY <1>2, JobShape DEF MinLen
  <1> DEFINE e == Entry(job.rec, job.len, end)
  <1>4. e \in Entries /\ e.off = end /\ e.len = job.len
    BY <1>2, <1>3 DEF Entry, Entries
  <1>5. ReadableIn(file, e)
    BY <1>2 DEF ReadableIn, Entry
  <1>6. ~moved => Tiled(file, 0, end + job.len)
    BY <1>2, <1>3, <1>5, TiledExtend
  <1> HIDE DEF e
  <1>7. log' \in Seq(Entries) /\ Laid(file, log', end + job.len, cut)
    <2>1. CASE AppendReturns
      <3>1. log' = Append(log, e)
        BY <2>1 DEF AppendReturns, e
      <3>2. Laid(file, Append(log, e), end + job.len, cut)
        BY <1>2, <1>4, <1>5, LaidAppend
      <3>3. QED
        BY <1>2, <1>4, <3>1, <3>2
    <2>2. CASE FsyncError
      <3>1. log' = log
        BY <2>2 DEF FsyncError
      <3>2. ASSUME NEW i \in DOMAIN log PROVE log[i].off + log[i].len <= end + job.len
        <4>1. log[i] \in Entries
          BY <1>2
        <4>2. log[i].off + log[i].len <= end
          BY <1>2 DEF Laid
        <4>3. QED
          BY <1>2, <1>3, <4>1, <4>2, EntryShape, SMTT(30)
      <3>3. QED
        BY <1>2, <3>1, <3>2 DEF Laid
    <2>3. QED
      BY <2>1, <2>2
  <1>8. TypeOK'
    <2>1. end' \in 0 .. MaxCells
      BY <1>1, <1>2, <1>3
    <2>2. disk' \in Seq(RecordCells) /\ dirty' \in BOOLEAN
      BY <1>0 DEF AppendReturns, FsyncError, TypeOK
    <2>3. /\ hdr' = hdr /\ file' = file /\ gen' = gen /\ write' = write /\ moved' = moved
          /\ cut' = cut
          /\ out' = out /\ inflight' = inflight /\ last' = last
      BY DEF AppendReturns, FsyncError
    <2>4. QED
      BY <1>0, <1>1, <1>7, <2>1, <2>2, <2>3 DEF TypeOK
  <1>9. BeforeFirstOpen' /\ FilesInBounds'
    <2>1. hdr = "written"
      BY <1>0, <1>1 DEF BeforeFirstOpen
    <2>2. disk' = file \/ disk' = disk
      BY DEF AppendReturns, FsyncError
    <2>3. QED
      BY <1>0, <1>1, <2>1, <2>2 DEF BeforeFirstOpen, FilesInBounds
  <1>10. SessionFile'
    BY <1>1, <1>2, <1>6, <1>7 DEF SessionFile
  <1>11. AppendInProgress' /\ ScanInFile' /\ ReplayScan' /\ StatsScan' /\ CompactScan'
         /\ CutByFailure'
    BY <1>0, <1>1 DEF AppendInProgress, ScanInFile, ReplayScan, StatsScan, CompactScan,
                      CutByFailure
  <1>12. QED
    BY <1>8, <1>9, <1>10, <1>11 DEF IInv

\* compact() fails: the session goes on.
LEMMA CompactErrorStep ==
    ASSUME IInv, CompactError
    PROVE  IInv'
  <1>0. TypeOK /\ BeforeFirstOpen /\ FilesInBounds /\ SessionFile /\ CutByFailure
        /\ AppendInProgress
    BY DEF IInv
  <1>1. NoGen \in [pos : Nat, win : Seq(RecordCells), stop : Nat] /\ 0 \in 0 .. MaxCells
    <2>1. 0 \in Nat
      OBVIOUS
    <2>2. QED
      BY <2>1, GenType
  <1>2. TypeOK'
    BY <1>0, <1>1 DEF CompactError, TypeOK
  <1>3. BeforeFirstOpen' /\ FilesInBounds'
    BY <1>0 DEF CompactError, BeforeFirstOpen, FilesInBounds
  <1>4. SessionFile' /\ CutByFailure' /\ AppendInProgress'
        /\ ScanInFile' /\ ReplayScan' /\ StatsScan' /\ CompactScan'
    BY <1>0 DEF CompactError, SessionFile, CutByFailure, AppendInProgress, ScanInFile,
                ReplayScan, StatsScan, CompactScan
  <1>5. QED
    BY <1>2, <1>3, <1>4 DEF IInv

\* The session ends, in whatever state the file is left.
LEMMA DownStep ==
    ASSUME IInv, Down, file' \in Seq(RecordCells), disk' \in Seq(RecordCells),
           Len(file') <= MaxCells, Len(disk') <= MaxCells, dirty' \in BOOLEAN,
           inflight' \in Entries \cup {None}, moved' \in BOOLEAN,
           hdr # "written" => file' = << >> /\ disk' = << >> /\ ~moved'
    PROVE  IInv'
  <1>0. TypeOK /\ BeforeFirstOpen /\ CutByFailure
    BY DEF IInv
  <1>1. /\ NoGen \in [pos : Nat, win : Seq(RecordCells), stop : Nat]
        /\ 0 \in 0 .. MaxCells /\ << >> \in Seq(Entries)
    <2>1. 0 \in Nat
      OBVIOUS
    <2>2. QED
      BY <2>1, GenType
  <1>2. TypeOK'
    BY <1>0, <1>1 DEF Down, TypeOK
  <1>3. BeforeFirstOpen' /\ FilesInBounds'
    BY <1>0 DEF Down, BeforeFirstOpen, FilesInBounds
  <1>4. /\ SessionFile' /\ CutByFailure' /\ AppendInProgress'
        /\ ScanInFile' /\ ReplayScan' /\ StatsScan' /\ CompactScan'
    BY DEF Down, SessionFile, AppendInProgress, ScanInFile, ReplayScan, StatsScan,
           CompactScan, CutByFailure
  <1>5. QED
    BY <1>2, <1>3, <1>4 DEF IInv

\* What a session that dies leaves in flight is a record, or nothing.
LEMMA InFlightType ==
    ASSUME IInv
    PROVE  InFlight \in Entries \cup {None}
  <1>1. inflight \in Entries \cup {None} /\ end \in Nat
    BY DEF IInv, TypeOK
  <1>2. CASE job = None
    BY <1>1, <1>2 DEF InFlight
  <1>3. CASE job # None
    <2>1. job \in Jobs
      BY <1>3 DEF IInv, AppendInProgress
    <2>2. job.rec \in 1 .. MaxRecs /\ job.len \in Lengths
      BY <2>1, JobShape
    <2>3. QED
      BY <1>1, <1>3, <2>2 DEF InFlight, Entry, Entries
  <1>4. QED
    BY <1>2, <1>3

\* close(), a crash of the process, a power loss.
LEMMA SessionEnds ==
    ASSUME IInv, Close \/ Crash \/ PowerLoss
    PROVE  IInv'
  <1>0. TypeOK /\ BeforeFirstOpen /\ CutByFailure /\ FilesInBounds /\ AppendInProgress
    BY DEF IInv
  <1>1. /\ file \in Seq(RecordCells) /\ disk \in Seq(RecordCells)
        /\ Len(file) \in Nat /\ Len(disk) \in Nat
        /\ Len(file) <= MaxCells /\ Len(disk) <= MaxCells
        /\ dirty \in BOOLEAN /\ moved \in BOOLEAN /\ inflight \in Entries \cup {None}
        /\ hdr # "written" => file = << >> /\ disk = << >> /\ ~moved
    BY <1>0 DEF TypeOK, BeforeFirstOpen, FilesInBounds
  <1>2. InFlight \in Entries \cup {None}
    BY InFlightType
  <1>3. CASE Close
    BY <1>1, <1>3, DownStep DEF Close
  <1>4. CASE Crash
    BY <1>1, <1>2, <1>4, DownStep DEF Crash
  <1>5. CASE PowerLoss
    <2>1. PICK n \in Len(disk) .. Len(file) \cup Len(file) .. Len(disk),
               lost \in SUBSET Unflushed :
                 file' = Survives(n, lost) /\ disk' = Survives(n, lost)
      BY <1>5 DEF PowerLoss
    <2>2. n \in Nat /\ n <= MaxCells /\ (n <= Len(file) \/ n <= Len(disk))
      BY <1>1
    <2>3. /\ Survives(n, lost) \in Seq(RecordCells)
          /\ Len(Survives(n, lost)) = n
      <3> DEFINE g == Survives(n, lost)
      <3>1. g = [i \in 1 .. n |-> IF i \notin lost /\ i <= Len(file) THEN file[i]
                                  ELSE IF i <= Len(disk) THEN disk[i] ELSE Zero]
        BY DEF Survives
      <3> HIDE DEF g
      <3>2. Zero \in RecordCells
        BY DEF RecordCells
      <3>3. \A i \in 1 .. n : /\ i <= Len(file) => file[i] \in RecordCells
                              /\ i <= Len(disk) => disk[i] \in RecordCells
        BY <1>1
      <3>4. g \in [1 .. n -> RecordCells]
        BY <3>1, <3>2, <3>3
      <3>5. g \in Seq(RecordCells) /\ DOMAIN g = 1 .. n
        BY <2>2, <3>4
      <3>6. Len(g) = n
        BY <2>2, <3>5
      <3>7. QED
        BY <3>5, <3>6 DEF g
    <2>4. hdr # "written" => Survives(n, lost) = << >>
      <3>1. SUFFICES ASSUME hdr # "written" PROVE Survives(n, lost) = << >>
        OBVIOUS
      <3>2. n = 0
        BY <1>1, <2>2, <3>1
      <3>3. QED
        BY <2>3, <3>2
    <2>5. Down /\ dirty' = FALSE /\ inflight' = InFlight /\ moved' = moved
      BY <1>5 DEF PowerLoss
    <2>6. QED
      BY <1>1, <1>2, <2>1, <2>2, <2>3, <2>4, <2>5, DownStep
  <1>6. QED
    BY <1>3, <1>4, <1>5

\* Of records laid out in order, any selection is.
LEMMA LaidSelection ==
    ASSUME NEW b, NEW x, Laid(file, log, b, x), log \in Seq(Entries), NEW kept \in Selections
    PROVE  LET s == [k \in DOMAIN kept |-> log[kept[k]]] IN
           s \in Seq(Entries) /\ Laid(file, s, b, x)
  <1> DEFINE s == [k \in DOMAIN kept |-> log[kept[k]]]
  <1>1. PICK n \in 0 .. Len(log) : kept \in [1 .. n -> DOMAIN log]
    <2>1. PICK F \in {[1 .. m -> DOMAIN log] : m \in 0 .. Len(log)} : kept \in F
      BY DEF Selections
    <2>2. QED
      BY <2>1
  <1>2. \A j, k \in DOMAIN kept : j < k => kept[j] < kept[k]
    BY DEF Selections
  <1>3. DOMAIN s = 1 .. n /\ DOMAIN kept = 1 .. n /\ n \in Nat
        /\ \A k \in 1 .. n : kept[k] \in DOMAIN log /\ s[k] = log[kept[k]]
    BY <1>1
  <1> HIDE DEF s
  <1>4. s \in Seq(Entries)
    <2>1. s = [k \in 1 .. n |-> log[kept[k]]]
      BY <1>3 DEF s
    <2>2. \A k \in 1 .. n : log[kept[k]] \in Entries
      BY <1>3
    <2>3. s \in [1 .. n -> Entries]
      BY <2>1, <2>2
    <2>4. QED
      BY <1>3, <2>3
  <1>5. Laid(file, s, b, x)
    BY <1>2, <1>3 DEF Laid
  <1>6. QED
    BY <1>4, <1>5 DEF s

\* compact() starts, on a file that holds whole records only.
LEMMA CompactStarts ==
    ASSUME IInv, OneCompaction, NEW kept \in Selections, Compact(kept)
    PROVE  IInv'
  <1>0. TypeOK /\ BeforeFirstOpen /\ FilesInBounds /\ SessionFile /\ CutByFailure
        /\ AppendInProgress
    BY DEF IInv
  <1>1. /\ phase = "open" /\ phase' = "compacting" /\ ~moved /\ moved' = moved
        /\ end' = end /\ file' = file /\ hdr' = hdr
        /\ gen' = GenFrom(end) /\ write' = 0 /\ job' = job /\ cut' = cut
        /\ log' = [k \in DOMAIN kept |-> log[kept[k]]]
    BY DEF Compact, OneCompaction
  <1>2. /\ end \in Nat /\ end \in 0 .. MaxCells /\ end <= Len(file) /\ log \in Seq(Entries)
        /\ Laid(file, log, end, cut) /\ Tiled(file, 0, end) /\ file \in Seq(RecordCells)
    BY <1>0, <1>1 DEF TypeOK, SessionFile
  <1>3. log' \in Seq(Entries) /\ Laid(file, log', end, cut)
    BY <1>1, <1>2, LaidSelection
  <1>4. /\ gen' \in [pos : Nat, win : Seq(RecordCells), stop : Nat]
        /\ gen'.pos = 0 /\ gen'.win = << >> /\ gen'.stop = end
    BY <1>1, <1>2, GenType DEF GenFrom
  <1>5. TypeOK'
    <2>1. write' \in 0 .. MaxCells
      BY <1>1
    <2>2. QED
      BY <1>0, <1>3, <1>4, <2>1 DEF Compact, TypeOK
  <1>6. BeforeFirstOpen' /\ FilesInBounds'
    BY <1>0, <1>1 DEF Compact, BeforeFirstOpen, FilesInBounds
  <1>7. SessionFile' /\ CutByFailure' /\ AppendInProgress' /\ ReplayScan' /\ StatsScan'
    BY <1>0, <1>1, <1>2, <1>3
       DEF SessionFile, CutByFailure, AppendInProgress, ReplayScan, StatsScan
  <1>8. ScanInFile'
    BY <1>1, <1>2, <1>4 DEF ScanInFile, Fresh
  <1>9. CompactScan'
    <2>0. Tiled(file', 0, 0)
      BY NothingLaid
    <2>1. Tiled(file', 0, write') /\ Tiled(file', gen'.pos, end') /\ write' <= gen'.pos
      BY <1>1, <1>2, <1>4, <2>0
    <2>2. \A i \in 1 .. Len(log') : log'[i].off >= 0
      <3>1. \A i \in 1 .. Len(log') : log'[i] \in Entries
        BY <1>3
      <3>2. QED
        BY <3>1, EntryShape
    <2>3. Len(log') \in Nat /\ EndOf(0)' = 0
      BY <1>3 DEF EndOf
    <2>4. \E m \in 0 .. Len(log') :
              /\ EndOf(m)' = write'
              /\ \A i \in 1 .. m : log'[i].off = EndOf(i - 1)' /\ EndOf(i)' <= write'
              /\ \A i \in m + 1 .. Len(log') : log'[i].off >= gen'.pos
      <3>1. 0 \in 0 .. Len(log') /\ EndOf(0)' = write'
        BY <1>1, <2>3
      <3>2. \A i \in 1 .. 0 : log'[i].off = EndOf(i - 1)' /\ EndOf(i)' <= write'
        OBVIOUS
      <3>3. \A i \in 0 + 1 .. Len(log') : log'[i].off >= gen'.pos
        BY <1>4, <2>2
      <3>4. QED
        BY <3>1, <3>2, <3>3, Zenon
    <2>5. QED
      BY <2>1, <2>4 DEF CompactScan
  <1>10. QED
    BY <1>5, <1>6, <1>7, <1>8, <1>9 DEF IInv

\* What a compaction knows of the record it is at: it is whole, and it is that
\* of an entry of the log exactly when the entry is at the same place.
LEMMA CompactHead ==
    ASSUME IInv, phase = "compacting", NEW n \in MinLen .. MaxCells, Yields(n)
    PROVE  LET e == Entry(HeaderWin[1].rec, n, gen.pos) IN
           /\ Scan /\ gen.stop = end /\ end <= Len(file)
           /\ gen.pos \in Nat /\ n \in Nat /\ n >= 3 /\ write \in Nat /\ end \in Nat
           /\ gen.pos + n <= end /\ write <= gen.pos
           /\ e \in Entries /\ e.off = gen.pos /\ e.len = n /\ ReadableIn(file, e)
           /\ Tiled(file, gen.pos + n, end)
           /\ \A i \in DOMAIN log :
                 log[i].off >= gen.pos => log[i] = e \/ log[i].off >= gen.pos + n
  <1> DEFINE e == Entry(HeaderWin[1].rec, n, gen.pos)
  <1>0. TypeOK /\ SessionFile /\ CutByFailure /\ CompactScan
    BY DEF IInv
  <1>1. Scan /\ gen.stop = end /\ end <= Len(file)
    BY InvScan
  <1>2. /\ gen.pos \in Nat /\ end \in Nat /\ write \in Nat /\ file \in Seq(RecordCells)
        /\ log \in Seq(Entries) /\ Laid(file, log, end, None)
        /\ write <= gen.pos /\ Tiled(file, gen.pos, end)
    BY <1>0, <1>1 DEF TypeOK, Scan, SessionFile, CutByFailure, CompactScan
  <1>3. /\ gen.pos + n <= gen.stop
        /\ file[gen.pos + 1].part = 1 /\ file[gen.pos + 1].len = n
        /\ file[gen.pos + 1].rec = HeaderWin[1].rec
        /\ ReadableIn(file, e) /\ e \in Entries
    BY <1>1, YieldsRecord
  <1>4. n \in Nat /\ n >= 3 /\ e.off = gen.pos /\ e.len = n /\ e.rec = HeaderWin[1].rec
    BY DEF MinLen, Entry
  <1>5. Tiled(file, gen.pos + n, end)
    <2>1. gen.pos < end
      BY <1>1, <1>2, <1>3, <1>4
    <2>2. QED
      BY <1>1, <1>2, <1>3, <2>1, TiledTail
  <1>6. ASSUME NEW i \in DOMAIN log, log[i].off >= gen.pos
        PROVE  log[i] = e \/ log[i].off >= gen.pos + n
    <2> DEFINE o == log[i].off
               r == log[i].rec
               l == log[i].len
    <2>1. o \in Nat /\ r \in Nat /\ l \in Nat /\ l >= 3
          /\ log[i] \in [rec : 1 .. MaxRecs, len : Lengths, off : Nat]
      <3>1. log[i] \in Entries
        BY <1>2
      <3>2. QED
        BY <3>1, EntryShape DEF MinLen, Entries
    <2>2. \A j \in 1 .. l : file[o + j] = Cell(r, j, l)
      <3>1. log[i] # None
        BY <1>2, NoneAssumption
      <3>2. QED
        BY <1>2, <3>1 DEF Laid, ReadableIn
    <2>3. file[o + 1] = Cell(r, 1, l)
      BY <2>1, <2>2
    <2>4. file[o + 1].part = 1 /\ file[o + 1].len = l /\ file[o + 1].rec = r
      BY <2>3 DEF Cell
    <2>5. CASE o = gen.pos
      <3>1. l = n /\ r = HeaderWin[1].rec
        BY <1>3, <2>4, <2>5
      <3>2. log[i] = [rec |-> r, len |-> l, off |-> o]
        BY <2>1
      <3>3. QED
        BY <2>5, <3>1, <3>2 DEF Entry
    <2>6. CASE o > gen.pos /\ o < gen.pos + n
      <3>1. \A j \in 1 .. n : file[gen.pos + j] = Cell(e.rec, j, n)
        BY <1>3, <1>4 DEF ReadableIn
      <3>2. o - gen.pos + 1 \in 1 .. n /\ gen.pos + (o - gen.pos + 1) = o + 1
            /\ o - gen.pos + 1 # 1
        <4>1. o \in Nat /\ gen.pos \in Nat /\ n \in Nat
          BY <1>2, <1>4, <2>1
        <4> HIDE DEF o
        <4>2. QED
          BY <2>6, <4>1
      <3>3. file[o + 1] = Cell(e.rec, o - gen.pos + 1, n)
        BY <3>1, <3>2
      <3>4. file[o + 1].part = o - gen.pos + 1
        BY <3>3 DEF Cell
      <3>5. QED
        BY <2>4, <3>2, <3>4
    <2>7. QED
      BY <1>2, <1>4, <1>6, <2>1, <2>5, <2>6
  <1>7. QED
    BY <1>1, <1>2, <1>3, <1>4, <1>5, <1>6

\* compact() passes a record that is not live.
LEMMA CompactSkipStep ==
    ASSUME IInv, CompactSkip
    PROVE  IInv'
  <1>0. TypeOK /\ BeforeFirstOpen /\ FilesInBounds /\ SessionFile /\ CutByFailure
        /\ AppendInProgress
        /\ CompactScan
    BY DEF IInv
  <1>1. PICK n \in MinLen .. MaxCells :
          /\ Yields(n)
          /\ \A i \in DOMAIN log : log[i] # Entry(HeaderWin[1].rec, n, gen.pos)
          /\ gen' = Advanced(n)
    BY DEF CompactSkip
  <1>2. /\ phase = "compacting" /\ phase' = phase /\ file' = file /\ log' = log
        /\ end' = end /\ write' = write /\ moved' = moved /\ job' = job /\ hdr' = hdr
        /\ disk' = disk /\ cut' = cut
    BY DEF CompactSkip
  <1>3. /\ Scan /\ gen.stop = end /\ end <= Len(file)
        /\ gen.pos \in Nat /\ n \in Nat /\ n >= 3 /\ write \in Nat /\ end \in Nat
        /\ gen.pos + n <= end /\ write <= gen.pos
        /\ Tiled(file, gen.pos + n, end)
        /\ \A i \in DOMAIN log : log[i].off >= gen.pos => log[i].off >= gen.pos + n
    BY <1>1, <1>2, CompactHead
  <1>4. /\ gen' \in [pos : Nat, win : Seq(RecordCells), stop : Nat]
        /\ gen'.pos = gen.pos + n /\ gen'.stop = gen.stop
        /\ gen'.pos <= gen'.stop
        /\ Fresh(gen.win)'
    <2>1. file' \in Seq(RecordCells) /\ gen.stop <= Len(file')
          /\ \A i \in gen.pos + n + 1 .. gen.stop : file'[i] = file[i]
      BY <1>0, <1>2, <1>3 DEF TypeOK
    <2>2. QED
      BY <1>0, <1>1, <1>3, <2>1, AdvancedFresh
  <1>5. TypeOK'
    BY <1>0, <1>4 DEF CompactSkip, TypeOK
  <1>6. /\ BeforeFirstOpen' /\ FilesInBounds' /\ SessionFile' /\ CutByFailure'
        /\ AppendInProgress' /\ ReplayScan' /\ StatsScan'
    BY <1>0, <1>2 DEF BeforeFirstOpen, FilesInBounds, SessionFile, CutByFailure,
                      AppendInProgress, ReplayScan, StatsScan
  <1>7. ScanInFile'
    BY <1>2, <1>3, <1>4 DEF ScanInFile
  <1>8. CompactScan'
    <2>1. PICK m \in 0 .. Len(log) :
              /\ EndOf(m) = write
              /\ \A i \in 1 .. m : log[i].off = EndOf(i - 1) /\ EndOf(i) <= write
              /\ \A i \in m + 1 .. Len(log) : log[i].off >= gen.pos
      BY <1>0, <1>2 DEF CompactScan
    <2>2. \A i : EndOf(i)' = EndOf(i)
      BY <1>2 DEF EndOf
    <2>3. \A i \in m + 1 .. Len(log) : log[i].off >= gen.pos + n
      <3>1. Len(log) \in Nat /\ DOMAIN log = 1 .. Len(log)
        BY <1>0 DEF TypeOK
      <3>2. QED
        BY <1>3, <2>1, <3>1
    <2>4. Tiled(file, 0, write)
      BY <1>0, <1>2 DEF CompactScan
    <2>5. /\ EndOf(m)' = write'
          /\ \A i \in 1 .. m : log'[i].off = EndOf(i - 1)' /\ EndOf(i)' <= write'
          /\ \A i \in m + 1 .. Len(log') : log'[i].off >= gen'.pos
      BY <1>2, <1>4, <2>1, <2>2, <2>3
    <2>6. \E k \in 0 .. Len(log') :
              /\ EndOf(k)' = write'
              /\ \A i \in 1 .. k : log'[i].off = EndOf(i - 1)' /\ EndOf(i)' <= write'
              /\ \A i \in k + 1 .. Len(log') : log'[i].off >= gen'.pos
      <3>1. m \in 0 .. Len(log')
        BY <1>2
      <3>2. QED
        BY <2>5, <3>1
    <2>7. write' <= gen'.pos /\ Tiled(file', 0, write') /\ Tiled(file', gen'.pos, end')
      BY <1>2, <1>3, <1>4, <2>4
    <2>8. QED
      BY <2>6, <2>7 DEF CompactScan
  <1>9. QED
    BY <1>5, <1>6, <1>7, <1>8 DEF IInv

\* The record at the scan is the first live one that has not been packed.
LEMMA NextToPack ==
    ASSUME IInv, phase = "compacting", NEW n \in MinLen .. MaxCells, Yields(n),
           NEW i \in DOMAIN log, log[i] = Entry(HeaderWin[1].rec, n, gen.pos)
    PROVE  /\ EndOf(i - 1) = write
           /\ \A j \in 1 .. i - 1 : log[j].off = EndOf(j - 1) /\ EndOf(j) <= write
           /\ \A j \in i + 1 .. Len(log) : log[j].off >= gen.pos + n
  <1>0. TypeOK /\ SessionFile /\ CompactScan
    BY DEF IInv
  <1>1. /\ gen.pos \in Nat /\ n \in Nat /\ n >= 3 /\ write \in Nat /\ write <= gen.pos
        /\ log[i].off = gen.pos /\ log[i].len = n
    BY CompactHead
  <1>2. /\ log \in Seq(Entries) /\ Len(log) \in Nat /\ DOMAIN log = 1 .. Len(log)
        /\ \A j, k \in DOMAIN log : j < k => log[j].off + log[j].len <= log[k].off
    BY <1>0 DEF TypeOK, SessionFile, Laid
  <1>3. \A j \in DOMAIN log : log[j].off \in Nat /\ log[j].len \in Nat /\ log[j].len >= 3
    <2>1. \A j \in DOMAIN log : log[j] \in Entries
      BY <1>2
    <2>2. QED
      BY <2>1, EntryShape DEF MinLen
  <1>4. PICK m \in 0 .. Len(log) :
          /\ EndOf(m) = write
          /\ \A j \in 1 .. m : log[j].off = EndOf(j - 1) /\ EndOf(j) <= write
          /\ \A j \in m + 1 .. Len(log) : log[j].off >= gen.pos
    BY <1>0 DEF CompactScan
  <1>5. i > m
    <2>1. SUFFICES ASSUME i <= m PROVE FALSE
      BY <1>2
    <2>2. EndOf(i) <= write /\ EndOf(i) = gen.pos + n
      BY <1>1, <1>2, <1>4, <2>1 DEF EndOf
    <2>3. QED
      BY <1>1, <2>2
  <1>6. i = m + 1
    <2>1. SUFFICES ASSUME i > m + 1 PROVE FALSE
      BY <1>2, <1>5
    <2>2. m + 1 \in DOMAIN log /\ m + 1 \in m + 1 .. Len(log)
      BY <1>2, <2>1
    <2>3. log[m + 1].off >= gen.pos
      BY <1>4, <2>2
    <2>4. log[m + 1].off + log[m + 1].len <= gen.pos
      BY <1>1, <1>2, <2>1, <2>2
    <2>5. QED
      BY <1>1, <1>3, <2>2, <2>3, <2>4
  <1>7. i - 1 = m
    BY <1>6
  <1>8. \A j \in i + 1 .. Len(log) : log[j].off >= gen.pos + n
    BY <1>1, <1>2
  <1>9. QED
    BY <1>4, <1>7, <1>8

\* compact() copies a live record down to writeHead: the copy is whole, and
\* what is still ahead of the scan is as it was.
LEMMA CompactKeepStep ==
    ASSUME IInv, CompactKeep
    PROVE  IInv'
  <1>0. TypeOK /\ BeforeFirstOpen /\ FilesInBounds /\ SessionFile /\ CutByFailure
        /\ AppendInProgress
        /\ CompactScan
    BY DEF IInv
  <1>1. PICK n \in MinLen .. MaxCells :
          LET e == Entry(HeaderWin[1].rec, n, gen.pos) IN
          /\ Yields(n)
          /\ \E i \in DOMAIN log :
                /\ log[i] = e
                /\ file' = IF write < gen.pos
                           THEN Written(file, write, SubSeq(file, gen.pos + 1, gen.pos + n))
                           ELSE file
                /\ log' = [log EXCEPT ![i].off = write]
          /\ moved' = (moved \/ write < gen.pos)
          /\ write' = write + n
          /\ gen' = Advanced(n)
    BY DEF CompactKeep
  <1> DEFINE e == Entry(HeaderWin[1].rec, n, gen.pos)
  <1>2. PICK i \in DOMAIN log :
          /\ log[i] = e
          /\ file' = IF write < gen.pos
                     THEN Written(file, write, SubSeq(file, gen.pos + 1, gen.pos + n))
                     ELSE file
          /\ log' = [log EXCEPT ![i].off = write]
    BY <1>1
  <1>3. /\ phase = "compacting" /\ phase' = phase /\ end' = end /\ job' = job
        /\ hdr' = hdr /\ disk' = disk /\ cut' = None /\ cut = None
    BY <1>0 DEF CompactKeep, CutByFailure
  <1>4. /\ Scan /\ gen.stop = end /\ end <= Len(file)
        /\ gen.pos \in Nat /\ n \in Nat /\ n >= 3 /\ write \in Nat /\ end \in Nat
        /\ gen.pos + n <= end /\ write <= gen.pos
        /\ e \in Entries /\ e.off = gen.pos /\ e.len = n /\ ReadableIn(file, e)
        /\ Tiled(file, gen.pos + n, end)
    BY <1>1, <1>3, CompactHead
  <1>5. /\ EndOf(i - 1) = write
        /\ \A j \in 1 .. i - 1 : log[j].off = EndOf(j - 1) /\ EndOf(j) <= write
        /\ \A j \in i + 1 .. Len(log) : log[j].off >= gen.pos + n
    BY <1>1, <1>2, <1>3, NextToPack
  <1>6. /\ log \in Seq(Entries) /\ Len(log) \in Nat /\ DOMAIN log = 1 .. Len(log)
        /\ Laid(file, log, end, None) /\ (~moved => Tiled(file, 0, end))
        /\ file \in Seq(RecordCells) /\ Len(file) \in Nat
        /\ Tiled(file, 0, write) /\ end \in 0 .. MaxCells
    BY <1>0, <1>3 DEF TypeOK, SessionFile, CompactScan
  <1>7. \A j \in DOMAIN log : log[j].off \in Nat /\ log[j].len \in Nat /\ log[j].len >= 3
    <2>1. \A j \in DOMAIN log : log[j] \in Entries
      BY <1>6
    <2>2. QED
      BY <2>1, EntryShape DEF MinLen
  <1>8. \A j \in 1 .. n : file[gen.pos + j] = Cell(e.rec, j, n)
    BY <1>4 DEF ReadableIn
  <1> DEFINE c == Entry(e.rec, n, write)
  <1>9. c \in Entries /\ c.off = write /\ c.len = n /\ c.rec = e.rec
    BY <1>4 DEF Entry, Entries
  <1>10. /\ log' \in Seq(Entries) /\ Len(log') = Len(log) /\ DOMAIN log' = DOMAIN log
         /\ log'[i] = c
         /\ \A j \in DOMAIN log : j # i => log'[j] = log[j]
    <2>1. [log[i] EXCEPT !.off = write] = c
      BY <1>2, <1>4 DEF Entry
    <2>2. log' = [log EXCEPT ![i] = c]
      BY <1>2, <2>1
    <2> HIDE DEF c, e
    <2>3. QED
      BY <1>6, <1>9, <2>2
  <1>11. /\ file' \in Seq(RecordCells) /\ Len(file') = Len(file)
         /\ \A j \in 1 .. write : file'[j] = file[j]
         /\ \A j \in 1 .. n : file'[write + j] = Cell(e.rec, j, n)
         /\ \A j \in gen.pos + n + 1 .. Len(file) : file'[j] = file[j]
    <2>1. CASE write < gen.pos
      <3> DEFINE cells == SubSeq(file, gen.pos + 1, gen.pos + n)
      <3>1. gen.pos + n <= Len(file)
        BY <1>4, <1>6
      <3>2. /\ cells \in Seq(RecordCells) /\ Len(cells) = n
            /\ \A j \in 1 .. n : cells[j] = file[gen.pos + j]
        <4>1. \A a \in Nat, m \in Nat : a + m <= Len(file) =>
                /\ SubSeq(file, a + 1, a + m) \in Seq(RecordCells)
                /\ Len(SubSeq(file, a + 1, a + m)) = m
                /\ \A j \in 1 .. m : SubSeq(file, a + 1, a + m)[j] = file[a + j]
          BY <1>6, PartCells
        <4>2. QED
          BY <1>4, <3>1, <4>1, Zenon
      <3> HIDE DEF cells, e
      <3>3. file' = Written(file, write, cells)
        BY <1>2, <2>1 DEF cells
      <3>4. write <= Len(file)
        BY <1>4, <1>6
      <3>5. /\ file' \in Seq(RecordCells)
            /\ Len(file') = IF write + n > Len(file) THEN write + n ELSE Len(file)
            /\ \A j \in 1 .. write : file'[j] = file[j]
            /\ \A j \in 1 .. n : file'[write + j] = cells[j]
            /\ \A j \in write + n + 1 .. Len(file) : file'[j] = file[j]
        <4>1. \A o \in Nat : o <= Len(file) =>
                LET g == Written(file, o, cells) IN
                /\ g \in Seq(RecordCells)
                /\ Len(g) = IF o + Len(cells) > Len(file) THEN o + Len(cells) ELSE Len(file)
                /\ \A j \in 1 .. o : g[j] = file[j]
                /\ \A j \in 1 .. Len(cells) : g[o + j] = cells[j]
                /\ \A j \in o + Len(cells) + 1 .. Len(file) : g[j] = file[j]
          BY <1>6, <3>2, WrittenCells
        <4>2. write \in Nat
          BY <1>4
        <4>3. /\ file' \in Seq(RecordCells)
              /\ Len(file') = IF write + Len(cells) > Len(file)
                              THEN write + Len(cells) ELSE Len(file)
              /\ \A j \in 1 .. write : file'[j] = file[j]
              /\ \A j \in 1 .. Len(cells) : file'[write + j] = cells[j]
              /\ \A j \in write + Len(cells) + 1 .. Len(file) : file'[j] = file[j]
          BY <3>3, <3>4, <4>1, <4>2, Zenon
        <4>4. QED
          BY <3>2, <4>3
      <3>6. Len(file') = Len(file)
        BY <1>4, <1>6, <3>5
      <3>7. \A j \in gen.pos + n + 1 .. Len(file) : j \in write + n + 1 .. Len(file)
        BY <1>4, <1>6
      <3>8. QED
        BY <1>8, <3>2, <3>5, <3>6, <3>7
    <2>2. CASE write = gen.pos
      <3>1. file' = file
        BY <1>2, <1>4, <2>2
      <3>2. QED
        BY <1>6, <1>8, <2>2, <3>1
    <2>3. QED
      BY <1>4, <2>1, <2>2
  <1> HIDE DEF e, c
  <1>12. write + n <= end /\ write + n <= gen.pos + n /\ write + n \in 0 .. MaxCells
    BY <1>4, <1>6
  <1>13. ReadableIn(file', c)
    <2>1. write + n <= Len(file')
      BY <1>4, <1>6, <1>11, <1>12
    <2>2. QED
      BY <1>9, <1>11, <2>1 DEF ReadableIn
  <1>14. /\ gen' \in [pos : Nat, win : Seq(RecordCells), stop : Nat]
         /\ gen'.pos = gen.pos + n /\ gen'.stop = gen.stop
         /\ gen'.pos <= gen'.stop
         /\ Fresh(gen.win)'
    <2>1. gen.stop <= Len(file')
          /\ \A j \in gen.pos + n + 1 .. gen.stop : file'[j] = file[j]
      BY <1>4, <1>6, <1>11
    <2>2. QED
      BY <1>0, <1>1, <1>4, <1>11, <2>1, AdvancedFresh
  <1>15. Laid(file', log', end, None)
    <2>1. ASSUME NEW j \in DOMAIN log, j # i
          PROVE  log[j].off + log[j].len <= end /\ ReadableIn(file', log[j])
      <3>0. log[j] # None
        BY <1>6, NoneAssumption
      <3>1. log[j].off + log[j].len <= end /\ ReadableIn(file, log[j])
        BY <1>6, <3>0 DEF Laid
      <3>2. \A k \in log[j].off + 1 .. log[j].off + log[j].len : file'[k] = file[k]
        <4>1. CASE j < i
          <5>1. EndOf(j) <= write /\ EndOf(j) = log[j].off + log[j].len
            BY <1>5, <1>6, <2>1, <4>1 DEF EndOf
          <5>2. QED
            BY <1>4, <1>7, <1>11, <5>1, SMTT(30)
        <4>2. CASE j > i
          <5>1. log[j].off >= gen.pos + n
            BY <1>5, <1>6, <4>2
          <5>2. \A k \in log[j].off + 1 .. log[j].off + log[j].len :
                   k \in gen.pos + n + 1 .. Len(file)
            <6> DEFINE o == log[j].off
                       l == log[j].len
                       b == gen.pos + n
            <6>1. o \in Nat /\ l \in Nat /\ b \in Nat /\ o >= b /\ o + l <= end
              BY <1>4, <1>7, <3>1, <5>1
            <6>2. end \in Nat /\ end <= Len(file) /\ Len(file) \in Nat
              BY <1>4, <1>6
            <6> HIDE DEF o, l, b
            <6>3. \A k \in o + 1 .. o + l : k \in b + 1 .. Len(file)
              BY <6>1, <6>2
            <6>4. QED
              BY <6>3, Zenon DEF o, l, b
          <5>3. QED
            BY <1>11, <5>2
        <4>3. QED
          BY <1>6, <2>1, <4>1, <4>2
      <3>3. log[j].off + log[j].len <= Len(file')
        BY <1>4, <1>6, <1>7, <1>11, <3>1, SMTT(30)
      <3>4. QED
        BY <1>6, <1>7, <1>11, <3>1, <3>2, <3>3, ReadableSame
    <2>2. ASSUME NEW j \in DOMAIN log', NEW k \in DOMAIN log', j < k
          PROVE  log'[j].off + log'[j].len <= log'[k].off
      <3>1. CASE j # i /\ k # i
        BY <1>6, <1>10, <2>2, <3>1 DEF Laid
      <3>2. CASE k = i
        <4>0. j \in 1 .. i - 1 /\ j # 0
          BY <1>6, <1>10, <2>2, <3>2
        <4>1. EndOf(j) <= write /\ EndOf(j) = log[j].off + log[j].len
          BY <1>5, <4>0 DEF EndOf
        <4>2. QED
          BY <1>9, <1>10, <2>2, <3>2, <4>1
      <3>3. CASE j = i
        <4>1. log[k].off >= gen.pos + n
          BY <1>5, <1>6, <1>10, <2>2, <3>3
        <4>2. log'[k] = log[k] /\ log[k].off \in Nat
          BY <1>6, <1>7, <1>10, <2>2, <3>3
        <4>3. QED
          BY <1>4, <1>9, <1>10, <1>12, <3>3, <4>1, <4>2
      <3>4. QED
        BY <3>1, <3>2, <3>3
    <2>3. \A j \in DOMAIN log' : log'[j].off + log'[j].len <= end /\ ReadableIn(file', log'[j])
      BY <1>9, <1>10, <1>12, <1>13, <2>1
    <2>4. QED
      BY <2>2, <2>3 DEF Laid
  <1>16. TypeOK'
    <2>1. write' \in 0 .. MaxCells /\ moved' \in BOOLEAN
      BY <1>1, <1>12
    <2>2. QED
      BY <1>0, <1>10, <1>11, <1>14, <2>1 DEF CompactKeep, TypeOK
  <1>17. BeforeFirstOpen' /\ FilesInBounds'
    BY <1>0, <1>3, <1>11 DEF BeforeFirstOpen, FilesInBounds
  <1>18. SessionFile'
    <2>1. ASSUME ~moved' PROVE Tiled(file', 0, end)
      <3>0. ~moved /\ ~(write < gen.pos)
        BY <1>1, <2>1, Zenon
      <3>1. ~moved /\ write = gen.pos
        BY <1>4, <3>0
      <3>2. file' = file
        BY <1>2, <1>4, <3>1
      <3>3. QED
        BY <1>6, <3>1, <3>2
    <2>2. end <= Len(file')
      BY <1>4, <1>11
    <2>3. QED
      BY <1>3, <1>15, <2>1, <2>2 DEF SessionFile
  <1>19. CutByFailure' /\ AppendInProgress' /\ ReplayScan' /\ StatsScan'
    BY <1>0, <1>3 DEF CutByFailure, AppendInProgress, ReplayScan, StatsScan
  <1>20. ScanInFile'
    BY <1>3, <1>4, <1>11, <1>14 DEF ScanInFile
  <1>21. CompactScan'
    <2>1. Tiled(file', 0, write + n)
      <3>1. /\ write <= Len(file) /\ write <= Len(file')
            /\ \A j \in 0 + 1 .. write : file'[j] = file[j]
        BY <1>4, <1>6, <1>11
      <3>2. Tiled(file', 0, write)
        BY <1>4, <1>6, <1>11, <3>1, TiledSame
      <3>3. QED
        BY <1>4, <1>11, <1>13, <3>2, TiledExtend DEF c
    <2>2. Tiled(file', gen.pos + n, end)
      <3> DEFINE a == gen.pos + n
      <3>1. \A j \in a + 1 .. end : file'[j] = file[j]
        BY <1>4, <1>6, <1>11
      <3>2. a \in Nat /\ end \in Nat /\ end <= Len(file) /\ end <= Len(file')
            /\ Tiled(file, a, end)
        BY <1>4, <1>11
      <3> HIDE DEF a
      <3>3. Tiled(file', a, end)
        BY <1>6, <1>11, <3>1, <3>2, TiledSame
      <3>4. QED
        BY <3>3 DEF a
    <2>3. \A j \in 0 .. i - 1 : EndOf(j)' = EndOf(j)
      BY <1>6, <1>10, SMTT(30) DEF EndOf
    <2>4. EndOf(i)' = write + n
      BY <1>6, <1>9, <1>10 DEF EndOf
    <2>5. ASSUME NEW j \in 1 .. i
          PROVE  log'[j].off = EndOf(j - 1)' /\ EndOf(j)' <= write + n
      <3>1. CASE j = i
        <4>1. EndOf(i - 1)' = write
          BY <1>5, <1>6, <2>3
        <4>2. QED
          BY <1>4, <1>9, <1>10, <2>4, <3>1, <4>1
      <3>2. CASE j < i
        <4>1. j \in 1 .. i - 1 /\ j \in 0 .. i - 1 /\ j - 1 \in 0 .. i - 1 /\ j \in DOMAIN log
          BY <1>6, <3>2
        <4>2. log[j].off = EndOf(j - 1) /\ EndOf(j) <= write /\ log'[j] = log[j]
          BY <1>5, <1>10, <3>2, <4>1
        <4>3. EndOf(j) \in Nat
          BY <1>7, <4>1 DEF EndOf
        <4>4. QED
          BY <1>4, <2>3, <4>1, <4>2, <4>3
      <3>3. QED
        BY <1>6, <3>1, <3>2
    <2>6. \A j \in i + 1 .. Len(log') : log'[j].off >= gen.pos + n
      BY <1>5, <1>6, <1>10, SMTT(30)
    <2>7. \E m \in 0 .. Len(log') :
              /\ EndOf(m)' = write'
              /\ \A j \in 1 .. m : log'[j].off = EndOf(j - 1)' /\ EndOf(j)' <= write'
              /\ \A j \in m + 1 .. Len(log') : log'[j].off >= gen'.pos
      <3>1. i \in 0 .. Len(log') /\ write' = write + n /\ gen'.pos = gen.pos + n
        BY <1>1, <1>6, <1>10, <1>14
      <3>2. QED
        BY <2>4, <2>5, <2>6, <3>1
    <2>8. write' <= gen'.pos /\ Tiled(file', 0, write') /\ Tiled(file', gen'.pos, end')
      BY <1>1, <1>3, <1>12, <1>14, <2>1, <2>2
    <2>9. QED
      BY <2>7, <2>8 DEF CompactScan
  <1>22. QED
    BY <1>16, <1>17, <1>18, <1>19, <1>20, <1>21 DEF IInv

\* The scan of a compaction is at its end: all the live records are packed.
LEMMA AllPacked ==
    ASSUME IInv, EndCompact
    PROVE  /\ EndOf(Len(log)) = write
           /\ \A i \in 1 .. Len(log) : log[i].off = EndOf(i - 1) /\ EndOf(i) <= write
  <1>0. TypeOK /\ SessionFile /\ CompactScan
    BY DEF IInv
  <1>1. phase = "compacting" /\ Scan /\ gen.stop = end
    BY InvScan DEF EndCompact
  <1>2. /\ log \in Seq(Entries) /\ Len(log) \in Nat /\ DOMAIN log = 1 .. Len(log)
        /\ end \in Nat /\ \A i \in DOMAIN log : log[i].off + log[i].len <= end
        /\ Tiled(file, gen.pos, end)
    BY <1>0, <1>1 DEF TypeOK, SessionFile, Laid, CompactScan
  <1>3. gen.pos = end
    BY <1>1, <1>2, TiledHead DEF EndCompact
  <1>4. PICK m \in 0 .. Len(log) :
          /\ EndOf(m) = write
          /\ \A j \in 1 .. m : log[j].off = EndOf(j - 1) /\ EndOf(j) <= write
          /\ \A j \in m + 1 .. Len(log) : log[j].off >= gen.pos
    BY <1>0, <1>1 DEF CompactScan
  <1>5. m = Len(log)
    <2> SUFFICES ASSUME m # Len(log) PROVE FALSE
      OBVIOUS
    <2>0. m \in Nat /\ Len(log) \in Nat
      <3>1. Len(log) \in Nat
        BY <1>2
      <3>2. m \in 0 .. Len(log)
        OBVIOUS
      <3>3. QED
        BY <3>1, <3>2
    <2>1. m < Len(log)
      BY <1>4, <2>0
    <2>2. m + 1 \in m + 1 .. Len(log) /\ m + 1 \in 1 .. Len(log)
      BY <2>0, <2>1
    <2>3. log[m + 1] \in Entries
      BY <1>2, <2>2
    <2>4. log[m + 1].off \in Nat /\ log[m + 1].len \in Nat /\ log[m + 1].len >= 3
      BY <2>3, EntryShape DEF MinLen
    <2>5. log[m + 1].off >= end /\ log[m + 1].off + log[m + 1].len <= end
      BY <1>2, <1>3, <1>4, <2>2
    <2>6. end \in Nat
      BY <1>2
    <2>7. QED
      BY <2>4, <2>5, <2>6
  <1>6. QED
    BY <1>4, <1>5

\* compact() truncates the file behind the records it has packed.
LEMMA EndCompactStep ==
    ASSUME IInv, EndCompact
    PROVE  IInv'
  <1>0. TypeOK /\ BeforeFirstOpen /\ FilesInBounds /\ SessionFile /\ CutByFailure
        /\ AppendInProgress
        /\ CompactScan
    BY DEF IInv
  <1>1. /\ phase = "compacting" /\ phase' = "open" /\ file' = SubSeq(file, 1, write)
        /\ end' = write /\ write' = 0 /\ gen' = NoGen /\ moved' = FALSE
        /\ log' = log /\ job' = job /\ hdr' = hdr /\ disk' = disk
        /\ cut = None /\ cut' = None
    BY <1>0 DEF EndCompact, CutByFailure
  <1>2. /\ file \in Seq(RecordCells) /\ log \in Seq(Entries) /\ Len(log) \in Nat
        /\ write \in 0 .. MaxCells /\ write \in Nat /\ Len(file) \in Nat
        /\ Laid(file, log, end, None) /\ Tiled(file, 0, write)
    BY <1>0, <1>1 DEF TypeOK, SessionFile, CompactScan
  <1>3. write <= Len(file)
    <2>1. Scan /\ gen.stop = end /\ end <= Len(file) /\ write <= gen.pos
      BY <1>0, <1>1, InvScan DEF CompactScan
    <2>2. gen.pos \in Nat /\ gen.pos <= gen.stop /\ gen.stop \in Nat
      BY <2>1 DEF Scan
    <2>3. QED
      BY <1>2, <2>1, <2>2
  <1>4. /\ file' \in Seq(RecordCells) /\ Len(file') = write
        /\ \A i \in 1 .. write : file'[i] = file[i]
    BY <1>1, <1>2, <1>3
  <1>5. Laid(file, log, write, None)
    <2>1. \A i \in DOMAIN log : log[i].off + log[i].len <= write
      BY <1>2, AllPacked DEF EndOf
    <2>2. QED
      BY <1>2, <2>1 DEF Laid
  <1>6. SessionFile'
    <2>1. Laid(file', log, write, None)
      BY <1>2, <1>4, <1>5, LaidSame
    <2>2. Tiled(file', 0, write)
      BY <1>2, <1>3, <1>4, TiledSame
    <2>3. write <= Len(file')
      BY <1>2, <1>4
    <2>4. QED
      BY <1>1, <2>1, <2>2, <2>3 DEF SessionFile
  <1>7. TypeOK'
    <2>1. NoGen \in [pos : Nat, win : Seq(RecordCells), stop : Nat] /\ 0 \in 0 .. MaxCells
      BY <1>2, GenType
    <2>2. QED
      BY <1>0, <1>1, <1>2, <1>4, <2>1 DEF EndCompact, TypeOK
  <1>8. BeforeFirstOpen' /\ FilesInBounds'
    BY <1>0, <1>1, <1>2, <1>4 DEF BeforeFirstOpen, FilesInBounds
  <1>9. AppendInProgress' /\ ScanInFile' /\ ReplayScan' /\ StatsScan' /\ CompactScan'
         /\ CutByFailure'
    BY <1>0, <1>1 DEF AppendInProgress, ScanInFile, ReplayScan, StatsScan, CompactScan,
                      CutByFailure
  <1>10. QED
    BY <1>6, <1>7, <1>8, <1>9 DEF IInv

\* A part of a move changes nothing but the cells it is written to.
LEMMA MovedInPartEffect ==
    ASSUME IInv, phase = "compacting", NEW n \in MinLen .. MaxCells, NEW k \in 1 .. n,
           MovedInPart(n, k)
    PROVE  /\ file' \in Seq(RecordCells) /\ Len(file') = Len(file)
           /\ \A j \in 1 .. write : file'[j] = file[j]
           /\ \A j \in write + k + 1 .. Len(file) : file'[j] = file[j]
  <1>1. Yields(n) /\ write < gen.pos
        /\ file' = Written(file, write, SubSeq(file, gen.pos + 1, gen.pos + k))
    BY DEF MovedInPart
  <1>2. /\ gen.pos \in Nat /\ n \in Nat /\ write \in Nat /\ end \in Nat
        /\ gen.pos + n <= end /\ end <= Len(file)
    BY <1>1, CompactHead
  <1>3. file \in Seq(RecordCells) /\ Len(file) \in Nat /\ k \in Nat /\ k <= n
    BY <1>2 DEF IInv, TypeOK
  <1> DEFINE cells == SubSeq(file, gen.pos + 1, gen.pos + k)
  <1>4. cells \in Seq(RecordCells) /\ Len(cells) = k
    <2>1. gen.pos + k <= Len(file)
      BY <1>2, <1>3
    <2>2. \A a \in Nat, m \in Nat : a + m <= Len(file) =>
             /\ SubSeq(file, a + 1, a + m) \in Seq(RecordCells)
             /\ Len(SubSeq(file, a + 1, a + m)) = m
      BY <1>3, PartCells
    <2>3. QED
      BY <1>2, <1>3, <2>1, <2>2, Zenon
  <1> HIDE DEF cells
  <1>5. /\ file' \in Seq(RecordCells)
        /\ Len(file') = IF write + Len(cells) > Len(file) THEN write + Len(cells) ELSE Len(file)
        /\ \A j \in 1 .. write : file'[j] = file[j]
        /\ \A j \in write + Len(cells) + 1 .. Len(file) : file'[j] = file[j]
    <2>1. file' = Written(file, write, cells)
      BY <1>1 DEF cells
    <2>2. \A o \in Nat : o <= Len(file) =>
             LET g == Written(file, o, cells) IN
             /\ g \in Seq(RecordCells)
             /\ Len(g) = IF o + Len(cells) > Len(file) THEN o + Len(cells) ELSE Len(file)
             /\ \A j \in 1 .. o : g[j] = file[j]
             /\ \A j \in o + Len(cells) + 1 .. Len(file) : g[j] = file[j]
      BY <1>3, <1>4, WrittenCells
    <2>3. write <= Len(file)
      BY <1>1, <1>2, <1>3
    <2>4. QED
      BY <1>2, <2>1, <2>2, <2>3, Zenon
  <1>6. Len(file') = Len(file)
    BY <1>1, <1>2, <1>3, <1>4, <1>5
  <1>7. QED
    BY <1>4, <1>5, <1>6

\* A move fails half way: of the records memory refers to only the one it was
\* moving can be damaged, and only when the part written reaches into it.
LEMMA MoveErrorStep ==
    ASSUME IInv, MoveError
    PROVE  IInv'
  <1>0. TypeOK /\ BeforeFirstOpen /\ FilesInBounds /\ SessionFile /\ CutByFailure
        /\ AppendInProgress
    BY DEF IInv
  <1>1. PICK n \in MinLen .. MaxCells : \E k \in 1 .. n - 1 :
          /\ MovedInPart(n, k)
          /\ cut' = IF write + k > gen.pos THEN Entry(HeaderWin[1].rec, n, gen.pos) ELSE None
    BY DEF MoveError
  <1>2. PICK k \in 1 .. n - 1 :
          /\ MovedInPart(n, k)
          /\ cut' = IF write + k > gen.pos THEN Entry(HeaderWin[1].rec, n, gen.pos) ELSE None
    BY <1>1
  <1> DEFINE e == Entry(HeaderWin[1].rec, n, gen.pos)
  <1>3. /\ phase = "compacting" /\ phase' = "open" /\ write' = 0 /\ gen' = NoGen
        /\ hdr' = hdr /\ disk' = disk /\ dirty' = dirty /\ end' = end /\ job' = job
        /\ log' = log /\ out' = out /\ inflight' = inflight /\ last' = last
    BY DEF MoveError
  <1>4. PICK i \in DOMAIN log : log[i] = e
    BY <1>2 DEF MovedInPart
  <1>5. Yields(n) /\ write < gen.pos /\ moved' = TRUE
    BY <1>2 DEF MovedInPart
  <1>6. /\ gen.pos \in Nat /\ n \in Nat /\ n >= 3 /\ write \in Nat /\ end \in Nat
        /\ gen.pos + n <= end /\ end <= Len(file)
        /\ e \in Entries /\ e.off = gen.pos /\ e.len = n
    BY <1>3, <1>5, CompactHead
  <1>7. k \in Nat /\ k < n /\ k \in 1 .. n
    BY <1>6
  <1>8. /\ file' \in Seq(RecordCells) /\ Len(file') = Len(file)
        /\ \A j \in 1 .. write : file'[j] = file[j]
        /\ \A j \in write + k + 1 .. Len(file) : file'[j] = file[j]
    BY <1>2, <1>3, <1>7, MovedInPartEffect
  <1>9. /\ EndOf(i - 1) = write
        /\ \A j \in 1 .. i - 1 : log[j].off = EndOf(j - 1) /\ EndOf(j) <= write
        /\ \A j \in i + 1 .. Len(log) : log[j].off >= gen.pos + n
    BY <1>3, <1>4, <1>5, NextToPack
  <1>10. /\ log \in Seq(Entries) /\ Len(log) \in Nat /\ DOMAIN log = 1 .. Len(log)
         /\ Laid(file, log, end, None) /\ file \in Seq(RecordCells) /\ Len(file) \in Nat
    BY <1>0, <1>3 DEF TypeOK, SessionFile, CutByFailure
  <1>11. \A j \in DOMAIN log : log[j] # None /\ log[j].off \in Nat /\ log[j].len \in Nat
    <2>1. \A j \in DOMAIN log : log[j] \in Entries
      BY <1>10
    <2>2. QED
      BY <2>1, EntryShape, NoneAssumption
  <1> HIDE DEF e
  <1>12. ASSUME NEW j \in DOMAIN log, log[j] # cut'
         PROVE  ReadableIn(file', log[j])
    <2> DEFINE o == log[j].off
               l == log[j].len
    <2>1. o \in Nat /\ l \in Nat /\ o + l <= end /\ ReadableIn(file, log[j])
      BY <1>10, <1>11 DEF Laid
    <2>2. o + l <= write \/ o >= write + k
      <3>1. CASE j < i
        <4>1. j \in 1 .. i - 1 /\ j # 0
          BY <1>10, <3>1
        <4>2. EndOf(j) <= write /\ EndOf(j) = log[j].off + log[j].len
          BY <1>9, <4>1 DEF EndOf
        <4>3. QED
          BY <4>2
      <3>2. CASE j = i
        <4>1. o = gen.pos /\ ~(write + k > gen.pos)
          BY <1>2, <1>4, <1>6, <1>12, <3>2 DEF e
        <4>2. QED
          BY <1>6, <1>7, <4>1
      <3>3. CASE j > i
        <4>1. o >= gen.pos + n
          BY <1>9, <1>10, <3>3
        <4> HIDE DEF o, l
        <4>2. QED
          BY <1>5, <1>6, <1>7, <2>1, <4>1
      <3>4. QED
        BY <1>10, <3>1, <3>2, <3>3
    <2> HIDE DEF o, l
    <2>3. \A p \in o + 1 .. o + l : file'[p] = file[p]
      <3>1. TAKE p \in o + 1 .. o + l
      <3>2. p \in 1 .. write \/ p \in write + k + 1 .. Len(file)
        BY <1>6, <1>7, <1>10, <2>1, <2>2
      <3>3. QED
        BY <1>8, <3>2
    <2>4. o + l <= Len(file')
      BY <1>6, <1>8, <1>10, <2>1
    <2>5. QED
      BY <1>8, <1>10, <2>1, <2>3, <2>4, ReadableSame DEF o, l
  <1>13. Laid(file', log, end, cut')
    BY <1>10, <1>12 DEF Laid
  <1>14. SessionFile' /\ CutByFailure'
    BY <1>3, <1>5, <1>6, <1>8, <1>13 DEF SessionFile, CutByFailure
  <1>15. TypeOK'
    <2>1. NoGen \in [pos : Nat, win : Seq(RecordCells), stop : Nat] /\ 0 \in 0 .. MaxCells
      BY <1>6, GenType
    <2>2. cut' \in Entries \cup {None}
      BY <1>2, <1>6 DEF e
    <2>3. QED
      BY <1>0, <1>3, <1>5, <1>8, <2>1, <2>2 DEF TypeOK
  <1>16. BeforeFirstOpen' /\ FilesInBounds'
    BY <1>0, <1>3, <1>8 DEF BeforeFirstOpen, FilesInBounds
  <1>17. AppendInProgress' /\ ScanInFile' /\ ReplayScan' /\ StatsScan' /\ CompactScan'
    BY <1>0, <1>3 DEF AppendInProgress, ScanInFile, ReplayScan, StatsScan, CompactScan
  <1>18. QED
    BY <1>14, <1>15, <1>16, <1>17 DEF IInv

\* The process dies inside a move.
LEMMA CrashInMoveStep ==
    ASSUME IInv, CrashInMove
    PROVE  IInv'
  <1>0. TypeOK /\ BeforeFirstOpen /\ FilesInBounds
    BY DEF IInv
  <1>1. PICK n \in MinLen .. MaxCells : \E k \in 1 .. n : MovedInPart(n, k)
    BY DEF CrashInMove
  <1>2. /\ phase = "compacting" /\ Down /\ disk' = disk /\ dirty' = dirty
        /\ inflight' = inflight
    BY DEF CrashInMove
  <1>3. file' \in Seq(RecordCells) /\ Len(file') = Len(file) /\ moved' = TRUE
    <2>1. PICK k \in 1 .. n : MovedInPart(n, k)
      BY <1>1
    <2>2. QED
      BY <1>2, <2>1, MovedInPartEffect DEF MovedInPart
  <1>4. hdr = "written"
    BY <1>0, <1>2 DEF BeforeFirstOpen
  <1>5. /\ disk \in Seq(RecordCells) /\ Len(file) <= MaxCells /\ Len(disk) <= MaxCells
        /\ dirty \in BOOLEAN /\ inflight \in Entries \cup {None}
    BY <1>0 DEF TypeOK, FilesInBounds
  <1>6. QED
    BY <1>2, <1>3, <1>4, <1>5, DownStep

\* stats() starts, on a file that holds whole records only.
LEMMA StatsStarts ==
    ASSUME IInv, OneCompaction, Stats
    PROVE  IInv'
  <1>0. TypeOK /\ BeforeFirstOpen /\ FilesInBounds /\ SessionFile /\ CutByFailure
        /\ AppendInProgress
    BY DEF IInv
  <1>1. /\ phase = "open" /\ phase' = "scanning" /\ gen' = GenFrom(end) /\ ~moved
        /\ end' = end /\ file' = file /\ hdr' = hdr /\ log' = log /\ job' = job
        /\ moved' = moved /\ cut' = cut
    BY DEF Stats, OneCompaction
  <1>2. end \in Nat /\ end <= Len(file) /\ Tiled(file, 0, end)
    BY <1>0, <1>1 DEF TypeOK, SessionFile
  <1>3. /\ gen' \in [pos : Nat, win : Seq(RecordCells), stop : Nat]
        /\ gen'.pos = 0 /\ gen'.win = << >> /\ gen'.stop = end
    BY <1>1, <1>2, GenType DEF GenFrom
  <1>4. TypeOK'
    BY <1>0, <1>3 DEF Stats, TypeOK
  <1>5. BeforeFirstOpen' /\ FilesInBounds' /\ SessionFile' /\ CutByFailure' /\ AppendInProgress'
    BY <1>0, <1>1 DEF Stats, BeforeFirstOpen, FilesInBounds, SessionFile, CutByFailure,
                      AppendInProgress
  <1>6. ScanInFile'
    BY <1>1, <1>2, <1>3 DEF ScanInFile, Fresh
  <1>7. ReplayScan' /\ StatsScan' /\ CompactScan'
    BY <1>1, <1>2, <1>3 DEF ReplayScan, StatsScan, CompactScan
  <1>8. QED
    BY <1>4, <1>5, <1>6, <1>7 DEF IInv

\* stats() passes a record.
LEMMA StatsRecordStep ==
    ASSUME IInv, StatsRecord
    PROVE  IInv'
  <1>0. TypeOK /\ BeforeFirstOpen /\ FilesInBounds /\ SessionFile /\ CutByFailure
        /\ AppendInProgress /\ StatsScan
    BY DEF IInv
  <1>1. PICK n \in MinLen .. MaxCells : Yields(n) /\ gen' = Advanced(n)
    BY DEF StatsRecord
  <1>2. /\ phase = "scanning" /\ phase' = phase /\ file' = file /\ end' = end
        /\ moved' = moved /\ cut' = cut
    BY DEF StatsRecord
  <1>3. Scan /\ gen.stop = end /\ end <= Len(file)
    BY <1>2, InvScan
  <1>4. /\ gen.pos + n <= gen.stop /\ file[gen.pos + 1].len = n
        /\ n \in Nat /\ n > 0 /\ gen.pos \in Nat /\ end \in Nat /\ file \in Seq(RecordCells)
    BY <1>1, <1>3, YieldsRecord DEF Scan, MinLen
  <1>5. /\ gen' \in [pos : Nat, win : Seq(RecordCells), stop : Nat]
        /\ gen'.pos = gen.pos + n /\ gen'.stop = gen.stop
        /\ gen'.pos <= gen'.stop
        /\ Fresh(gen.win)'
    BY <1>0, <1>1, <1>2, <1>3, <1>4, AdvancedFresh
  <1>6. TypeOK'
    BY <1>0, <1>5 DEF StatsRecord, TypeOK
  <1>7. BeforeFirstOpen' /\ FilesInBounds' /\ SessionFile' /\ CutByFailure' /\ AppendInProgress'
    BY <1>0 DEF StatsRecord, BeforeFirstOpen, FilesInBounds, SessionFile, CutByFailure,
                AppendInProgress
  <1>8. ScanInFile'
    BY <1>2, <1>3, <1>5 DEF ScanInFile
  <1>9. StatsScan'
    <2>1. Tiled(file, gen.pos, end) /\ ~moved
      BY <1>0, <1>2 DEF StatsScan
    <2>2. Tiled(file, gen.pos + n, end)
      <3>1. gen.pos < end
        BY <1>3, <1>4
      <3>2. QED
        BY <1>3, <1>4, <2>1, <3>1, TiledTail
    <2>3. QED
      BY <1>2, <1>5, <2>1, <2>2 DEF StatsScan
  <1>10. ReplayScan' /\ CompactScan'
    BY <1>2 DEF ReplayScan, CompactScan
  <1>11. QED
    BY <1>6, <1>7, <1>8, <1>9, <1>10 DEF IInv

\* stats() reaches the end of the log: it meets nothing it would truncate.
LEMMA StatsEnds ==
    ASSUME IInv, EndStats
    PROVE  file' = file /\ end' = end /\ dirty' = dirty
  <1>1. phase = "scanning"
    BY DEF EndStats
  <1>2. Scan /\ Tiled(file, gen.pos, gen.stop) /\ dirty \in BOOLEAN
    BY <1>1, InvScan DEF IInv, StatsScan, TypeOK
  <1>3. ~Torn
    BY <1>2, TiledHead
  <1>4. QED
    BY <1>2, <1>3 DEF EndStats

\* The session goes on as it was.
LEMMA EndStatsStep ==
    ASSUME IInv, EndStats
    PROVE  IInv'
  <1>0. TypeOK /\ BeforeFirstOpen /\ FilesInBounds /\ SessionFile /\ CutByFailure
        /\ AppendInProgress
    BY DEF IInv
  <1>1. /\ phase = "scanning" /\ phase' = "open" /\ gen' = NoGen
        /\ hdr' = hdr /\ disk' = disk /\ job' = job /\ write' = write /\ moved' = moved
        /\ cut' = cut /\ log' = log /\ out' = out /\ inflight' = inflight /\ last' = last
    BY DEF EndStats
  <1>2. file' = file /\ end' = end /\ dirty' = dirty
    BY StatsEnds
  <1>3. TypeOK'
    <2>1. NoGen \in [pos : Nat, win : Seq(RecordCells), stop : Nat]
      <3>1. 0 \in Nat
        OBVIOUS
      <3>2. QED
        BY <3>1, GenType
    <2>2. QED
      BY <1>0, <1>1, <1>2, <2>1 DEF TypeOK
  <1>4. BeforeFirstOpen' /\ FilesInBounds' /\ SessionFile' /\ CutByFailure' /\ AppendInProgress'
    BY <1>0, <1>1, <1>2 DEF BeforeFirstOpen, FilesInBounds, SessionFile, CutByFailure,
                            AppendInProgress
  <1>5. ScanInFile' /\ ReplayScan' /\ StatsScan' /\ CompactScan'
    BY <1>1 DEF ScanInFile, ReplayScan, StatsScan, CompactScan
  <1>6. QED
    BY <1>3, <1>4, <1>5 DEF IInv

\* Every step keeps the invariant.
LEMMA StepIInv ==
    ASSUME OneCompaction
    PROVE  IInv /\ [Next]_vars => IInv'
  <1> SUFFICES ASSUME IInv, [Next]_vars PROVE IInv'
    OBVIOUS
  <1>1. CASE Next
    BY <1>1, CreateSteps, OpenExistingStep, ReplayRecordStep, ReplayEnds, AppendOperationStep,
       WriteSomeStep, WriteErrorStep, AppendEnds, CompactStarts, CompactKeepStep,
       CompactSkipStep, EndCompactStep, CompactErrorStep, MoveErrorStep, StatsStarts,
       StatsRecordStep, EndStatsStep, SessionEnds, CrashInMoveStep DEF Next
  <1>2. CASE UNCHANGED vars
    BY <1>2, ZenonT(30) DEF vars, IInv, TypeOK, BeforeFirstOpen, FilesInBounds, SessionFile,
                CutByFailure, AppendInProgress, ScanInFile, ReplayScan, StatsScan, CompactScan,
                Fresh, EndOf
  <1>3. QED
    BY <1>1, <1>2

\* The invariant of sessions that do not scan the log again after a compact()
\* that failed when it had moved something: with partial writes of appends and of
\* moves, wherever either fails.
THEOREM FileInvariant ==
    ASSUME OneCompaction
    PROVE  Spec => []IInv
  <1>1. Init => IInv
    BY InitIInv
  <1>2. IInv /\ [Next]_vars => IInv'
    BY StepIInv
  <1>3. QED
    BY <1>1, <1>2, PTL DEF Spec

-----------------------------------------------------------------------------
(* What follows from it.                                                   *)

\* Every variable has the shape its comment says.
THEOREM FileTypes ==
    ASSUME OneCompaction
    PROVE  Spec => []TypeOK
  <1>1. IInv => TypeOK
    BY DEF IInv
  <1>2. QED
    BY <1>1, FileInvariant, PTL

\* What a session refers to can be read whole at its offset, between any two
\* writes of appendOperation and between any two moves of compact(), and after
\* either has failed; but for the record whose own move failed half way.
THEOREM RecordsAreReadable ==
    ASSUME OneCompaction
    PROVE  Spec => []AckedReadable
  <1>1. IInv => AckedReadable
    BY DEF IInv, SessionFile, Laid, AckedReadable
  <1>2. QED
    BY <1>1, FileInvariant, PTL

\* readOperations never judges a record by bytes compact() has overwritten.
THEOREM WindowsAreFresh ==
    ASSUME OneCompaction
    PROVE  Spec => []WindowFresh
  <1>1. IInv => WindowFresh
    <2> SUFFICES ASSUME IInv, phase \in {"reading", "scanning", "compacting"}
                 PROVE  /\ gen.pos + Len(gen.win) <= Len(file)
                        /\ gen.win = SubSeq(file, gen.pos + 1, gen.pos + Len(gen.win))
      BY DEF WindowFresh
    <2>1. Scan /\ gen.stop = end /\ end <= Len(file)
      BY InvScan
    <2>2. /\ gen.pos \in Nat /\ gen.stop \in Nat /\ gen.win \in Seq(RecordCells)
          /\ file \in Seq(RecordCells) /\ gen.pos + Len(gen.win) <= gen.stop
          /\ \A i \in 1 .. Len(gen.win) : gen.win[i] = file[gen.pos + i]
      BY <2>1 DEF Scan, Fresh
    <2> DEFINE p == gen.pos
               w == gen.win
               part == SubSeq(file, p + 1, p + Len(w))
    <2>3. p \in Nat /\ Len(w) \in Nat /\ p + Len(w) <= Len(file)
      BY <2>1, <2>2
    <2>4. /\ part \in Seq(RecordCells) /\ Len(part) = Len(w)
          /\ \A i \in 1 .. Len(w) : part[i] = file[p + i]
      <3>1. \A a \in Nat, m \in Nat : a + m <= Len(file) =>
              /\ SubSeq(file, a + 1, a + m) \in Seq(RecordCells)
              /\ Len(SubSeq(file, a + 1, a + m)) = m
              /\ \A j \in 1 .. m : SubSeq(file, a + 1, a + m)[j] = file[a + j]
        BY <2>2, PartCells
      <3>2. QED
        BY <2>3, <3>1, Zenon
    <2> HIDE DEF part
    <2>5. w = part
      <3>1. w \in Seq(RecordCells) /\ \A i \in 1 .. Len(w) : w[i] = part[i]
        BY <2>2, <2>4
      <3>2. QED
        BY <2>4, <3>1, SeqEqual
    <2>6. QED
      BY <2>3, <2>5 DEF part
  <1>2. QED
    BY <1>1, FileInvariant, PTL

\* compact() and stats() meet whole records only, from the first to the last,
\* unless a compact() of the session has failed when it had moved something.
THEOREM ScansMeetWholeRecords ==
    ASSUME OneCompaction
    PROVE  Spec => []ScanMeetsNoTornRecord
  <1>1. IInv => ScanMeetsNoTornRecord
    <2> SUFFICES ASSUME IInv, phase \in {"scanning", "compacting"} PROVE ~Torn /\ ~Broken
      BY DEF ScanMeetsNoTornRecord
    <2>1. Scan /\ gen.stop = end /\ Tiled(file, gen.pos, end)
      BY InvScan DEF IInv, StatsScan, CompactScan
    <2>2. QED
      BY <2>1, TiledHead
  <1>2. QED
    BY <1>1, FileInvariant, PTL

\* A compacted file is the live records, in order, and not a byte more.
THEOREM CompactedFileIsPacked ==
    ASSUME OneCompaction
    PROVE  Spec => CompactionPacks
  <1> DEFINE Packs ==
               \A i \in 0 .. Len(log') :
                 LET stop == IF i = 0 THEN 0 ELSE log'[i].off + log'[i].len IN
                 stop = IF i = Len(log') THEN Len(file') ELSE log'[i + 1].off
  <1>1. ASSUME IInv, EndCompact PROVE Packs
    <2>1. log' = log /\ file' = SubSeq(file, 1, write) /\ write \in Nat
          /\ log \in Seq(Entries) /\ Len(log) \in Nat /\ file \in Seq(RecordCells)
      BY <1>1 DEF EndCompact, IInv, TypeOK
    <2>2. Len(file') = write
      <3>1. IInv'
        BY <1>1, EndCompactStep
      <3>2. end' <= Len(file') /\ end' = write
        BY <1>1, <3>1 DEF EndCompact, IInv, SessionFile
      <3>3. Scan /\ gen.stop = end /\ end <= Len(file) /\ write <= gen.pos
        BY <1>1, InvScan DEF EndCompact, IInv, CompactScan
      <3>4. write <= Len(file) /\ Len(file) \in Nat
        BY <2>1, <3>3 DEF Scan
      <3>5. QED
        BY <2>1, <3>4
    <2>3. /\ EndOf(Len(log)) = write
          /\ \A i \in 1 .. Len(log) : log[i].off = EndOf(i - 1)
      BY <1>1, AllPacked
    <2>4. ASSUME NEW i \in 0 .. Len(log)
          PROVE  EndOf(i) = IF i = Len(log) THEN Len(file') ELSE log[i + 1].off
      <3>1. CASE i = Len(log)
        BY <2>2, <2>3, <3>1
      <3>2. CASE i # Len(log)
        <4>1. i + 1 \in 1 .. Len(log) /\ (i + 1) - 1 = i
          BY <2>1, <3>2
        <4>2. log[i + 1].off = EndOf((i + 1) - 1)
          BY <2>3, <4>1
        <4>3. QED
          BY <3>2, <4>1, <4>2
      <3>3. QED
        BY <3>1, <3>2
    <2>5. QED
      BY <2>1, <2>4 DEF EndOf
  <1>2. IInv => [EndCompact => Packs]_vars
    BY <1>1
  <1>3. QED
    BY <1>2, FileInvariant, PTL DEF CompactionPacks

-----------------------------------------------------------------------------
(***************************************************************************)
(* Opening a log again: what every acknowledged append leaves in the file  *)
(* is what the next open() finds, whatever the record lengths and the      *)
(* chunk size, wherever a process dies and, with durability strict,        *)
(* whatever part of the unflushed bytes a power loss takes.                *)
(***************************************************************************)

USE NoneAssumption

-----------------------------------------------------------------------------
(* The acknowledged records and what is behind them.                       *)

\* The same log ends at the same place.
LEMMA SameLog ==
    ASSUME log' = log
    PROVE  Acked' = Acked /\ \A i : EndOf(i)' = EndOf(i)
  BY DEF Acked, EndOf

\* Where a record of the log starts and ends, and where they all end.
LEMMA LogShape ==
    ASSUME TypeOK
    PROVE  /\ Len(log) \in Nat /\ DOMAIN log = 1 .. Len(log) /\ log \in Seq(Entries)
           /\ \A i \in DOMAIN log : log[i].off \in Nat /\ log[i].len \in Nat /\ log[i].len >= 3
           /\ \A i \in 0 .. Len(log) : EndOf(i) \in Nat
           /\ Acked \in Nat
  <1>1. Len(log) \in Nat /\ DOMAIN log = 1 .. Len(log) /\ log \in Seq(Entries)
    BY DEF TypeOK
  <1>2. \A i \in DOMAIN log : log[i].off \in Nat /\ log[i].len \in Nat /\ log[i].len >= 3
    <2>1. \A i \in DOMAIN log : log[i] \in Entries
      BY <1>1
    <2>2. QED
      BY <2>1, EntryShape DEF MinLen
  <1>3. \A i \in 0 .. Len(log) : EndOf(i) \in Nat
    BY <1>1, <1>2 DEF EndOf
  <1>4. QED
    BY <1>1, <1>2, <1>3 DEF Acked

\* A file that ends with the acknowledged records has no remnant.
LEMMA NoRemnant ==
    ASSUME NEW f, Len(f) = Acked, TypeOK
    PROVE  Remnant(f)
  BY LogShape DEF Remnant

\* Nothing is written yet.
LEMMA InitRecovery == Init => NothingBehind /\ Recoverable /\ YieldsAcked
  BY DEF Init, NothingBehind, Recoverable, YieldsAcked, Packed, Remnant, Acked, EndOf

\* A step that leaves the log, the file and the stable storage alone.
LEMMA QuietRecoverable ==
    ASSUME Recoverable, log' = log, file' = file, disk' = disk, dirty' = dirty,
           inflight' = inflight, phase # "compacting", phase' # "compacting",
           phase' \notin {"open", "appending", "scanning"} => Remnant(file)
    PROVE  Recoverable'
  <1>1. Packed(file) /\ (Strict /\ ~dirty => Packed(disk) /\ Remnant(disk))
    BY DEF Recoverable
  <1>2. /\ Packed(file)' /\ (Packed(disk) => Packed(disk)')
        /\ (Remnant(file) => Remnant(file)') /\ (Remnant(disk) => Remnant(disk)')
    BY <1>1, SameLog DEF Packed, Remnant
  <1>3. QED
    BY <1>1, <1>2 DEF Recoverable

-----------------------------------------------------------------------------
(* Opening.                                                                *)

\* FileStorage.open creates the file, writes its header, starts the replay or
\* refuses the file.
LEMMA OpeningSteps ==
    ASSUME RecoveryIInv, OpenNew \/ WriteHeader \/ OpenExisting \/ ReplayFails
    PROVE  NothingBehind' /\ Recoverable' /\ YieldsAcked'
  <1>0. TypeOK /\ BeforeFirstOpen /\ NothingBehind /\ Recoverable
    BY DEF RecoveryIInv, IInv
  <1>1. /\ phase \in {"down", "creating", "reading", "failed"}
        /\ log' = log /\ file' = file /\ disk' = disk /\ inflight' = inflight
        /\ phase' \in {"creating", "open", "reading", "failed"} /\ cut' = None
    BY <1>0 DEF OpenNew, WriteHeader, OpenExisting, ReplayFails, NothingBehind
  <1>2. Remnant(file)
    BY <1>0, <1>1 DEF Recoverable
  <1>3. Recoverable'
    <2>1. CASE OpenNew
      <3>1. file = << >> /\ disk = << >> /\ log = << >> /\ hdr # "written"
        BY <1>0, <2>1 DEF OpenNew, BeforeFirstOpen
      <3>2. phase' = "creating" /\ dirty' = TRUE
        BY <2>1 DEF OpenNew
      <3>3. Packed(file)' /\ Remnant(file)'
        BY <1>0, <1>1, <1>2, <3>1 DEF Packed, Remnant, Acked, EndOf
      <3>4. QED
        BY <3>2, <3>3 DEF Recoverable
    <2>2. CASE WriteHeader \/ OpenExisting \/ ReplayFails
      <3>1. dirty' = dirty
        BY <2>2 DEF WriteHeader, OpenExisting, ReplayFails
      <3>2. QED
        BY <1>0, <1>1, <1>2, <3>1, QuietRecoverable
    <2>3. QED
      BY <2>1, <2>2
  <1>4. NothingBehind'
    <2>1. CASE WriteHeader
      <3>1. file' = << >> /\ log' = << >> /\ end' = 0 /\ inflight' = None /\ phase' = "open"
        BY <1>0, <2>1 DEF WriteHeader, BeforeFirstOpen, NothingBehind
      <3>2. Acked' = 0
        BY <3>1 DEF Acked, EndOf
      <3>3. QED
        BY <1>1, <3>1, <3>2 DEF NothingBehind
    <2>2. CASE OpenNew \/ OpenExisting \/ ReplayFails
      <3>1. phase' \notin {"open", "appending", "scanning", "compacting"}
        BY <2>2 DEF OpenNew, OpenExisting, ReplayFails
      <3>2. hdr' # "written" => inflight' = None
        BY <1>0, <1>1, <2>2 DEF OpenNew, OpenExisting, ReplayFails, NothingBehind
      <3>3. QED
        BY <1>1, <3>1, <3>2 DEF NothingBehind
    <2>3. QED
      BY <2>1, <2>2
  <1>5. YieldsAcked'
    <2>1. CASE phase' = "reading"
      <3>1. OpenExisting /\ hdr # "empty"
        BY <2>1 DEF OpenNew, WriteHeader, OpenExisting, ReplayFails
      <3>2. out' = << >> /\ gen'.pos = 0
        BY <3>1 DEF OpenExisting, GenFrom
      <3>3. Len(log') \in Nat /\ Len(out') = 0 /\ DOMAIN out' = {}
        BY <1>0, <1>1, <3>2, LogShape
      <3>4. EndOf(0)' = 0
        BY DEF EndOf
      <3>5. QED
        BY <3>2, <3>3, <3>4 DEF YieldsAcked
    <2>2. CASE phase' # "reading"
      BY <2>2 DEF YieldsAcked
    <2>3. QED
      BY <2>1, <2>2
  <1>6. QED
    BY <1>3, <1>4, <1>5

\* While acknowledged records are left, the scan is on the next one.
LEMMA OnNextRecord ==
    ASSUME RecoveryIInv, phase = "reading", Len(out) < Len(log)
    PROVE  LET e == log[Len(out) + 1] IN
           /\ e \in Entries /\ e.off = gen.pos /\ e.len \in Nat /\ e.len >= 3
           /\ gen.pos + e.len <= gen.stop
           /\ e = Entry(e.rec, e.len, gen.pos) /\ ReadableIn(file, e)
  <1> DEFINE k == Len(out)
             e == log[k + 1]
  <1>0. TypeOK /\ Recoverable /\ YieldsAcked /\ ReplayScan
    BY DEF RecoveryIInv, IInv
  <1>1. gen.stop = end /\ end = Len(file)
    BY <1>0, InvScan DEF RecoveryIInv, ReplayScan
  <1>2. k \in Nat /\ k + 1 \in DOMAIN log /\ log \in Seq(Entries)
    BY <1>0, LogShape DEF TypeOK
  <1>3. e \in Entries
    BY <1>2
  <1>4. e.off = gen.pos /\ ReadableIn(file, e)
    <2>1. e.off = EndOf((k + 1) - 1) /\ ReadableIn(file, e)
      BY <1>0, <1>2 DEF Recoverable, Packed
    <2>2. (k + 1) - 1 = k /\ k <= Len(log)
      BY <1>2
    <2>3. gen.pos = EndOf(k)
      BY <1>0, <2>2 DEF YieldsAcked
    <2>4. QED
      BY <2>1, <2>2, <2>3
  <1> HIDE DEF e
  <1>5. e.len \in Nat /\ e.len >= 3
    BY <1>3, EntryShape DEF MinLen
  <1>6. e = Entry(e.rec, e.len, gen.pos)
    BY <1>3, <1>4 DEF Entry, Entries
  <1>7. gen.pos + e.len <= gen.stop
    BY <1>1, <1>4 DEF ReadableIn
  <1>8. QED
    BY <1>3, <1>4, <1>5, <1>6, <1>7 DEF e

\* A record the replay yields is the next acknowledged one or, behind them all,
\* the one in flight.
LEMMA YieldIsNext ==
    ASSUME RecoveryIInv, phase = "reading", NEW n \in MinLen .. MaxCells, Yields(n)
    PROVE  LET e == Entry(HeaderWin[1].rec, n, gen.pos) IN
           \/ Len(out) < Len(log) /\ e = log[Len(out) + 1]
           \/ /\ Len(out) = Len(log) /\ inflight # None /\ e = inflight
              /\ inflight.off = Acked /\ inflight.len = n
              /\ gen.pos = Acked /\ Len(file) <= Acked + n
  <1> DEFINE r == HeaderWin[1].rec
  <1>0. TypeOK /\ Recoverable /\ YieldsAcked /\ ReplayScan
    BY DEF RecoveryIInv, IInv
  <1>1. Scan /\ gen.stop = end /\ end = Len(file)
    BY <1>0, InvScan DEF RecoveryIInv, ReplayScan
  <1>2. /\ gen.pos + n <= gen.stop
        /\ ReadableIn(file, Entry(r, n, gen.pos))
        /\ file[gen.pos + 1].part = 1 /\ file[gen.pos + 1].len = n
        /\ file[gen.pos + 1].rec = r
    BY <1>1, YieldsRecord
  <1>3. n \in Nat /\ n >= 3 /\ gen.pos \in Nat /\ gen.stop \in Nat
    BY <1>1 DEF MinLen, Scan
  <1>4. Len(out) \in Nat /\ Len(log) \in Nat /\ Len(out) <= Len(log) + 1 /\ Acked \in Nat
    BY <1>0, LogShape DEF TypeOK, YieldsAcked
  <1> HIDE DEF r
  <1>5. CASE Len(out) < Len(log)
    <2> DEFINE e == log[Len(out) + 1]
    <2>1. /\ e.off = gen.pos /\ e.len \in Nat /\ e.len >= 3
          /\ e = Entry(e.rec, e.len, gen.pos) /\ ReadableIn(file, e)
      BY <1>5, OnNextRecord
    <2> HIDE DEF e
    <2>2. file[gen.pos + 1] = Cell(e.rec, 1, e.len)
      <3>1. 1 \in 1 .. e.len
        BY <2>1
      <3>2. QED
        BY <2>1, <3>1 DEF ReadableIn
    <2>3. e.len = n /\ e.rec = r
      BY <1>2, <2>2 DEF Cell
    <2>4. QED
      BY <1>5, <2>1, <2>3 DEF e, r
  <1>6. CASE Len(out) = Len(log)
    <2>1. gen.pos = Acked
      BY <1>0, <1>4, <1>6 DEF YieldsAcked, Acked
    <2>2. Len(file) > Acked
      BY <1>1, <1>2, <1>3, <2>1
    <2>3. /\ inflight # None
          /\ inflight.off = Acked /\ Len(file) <= Acked + inflight.len
          /\ \A i \in Acked + 1 .. Len(file) :
                file[i] \in {Zero, Cell(inflight.rec, i - Acked, inflight.len)}
      BY <1>0, <2>2 DEF Recoverable, Remnant
    <2>4. file[Acked + 1] \in {Zero, Cell(inflight.rec, 1, inflight.len)}
      <3>1. Acked + 1 \in Acked + 1 .. Len(file) /\ (Acked + 1) - Acked = 1
        BY <1>1, <1>4, <2>2, <1>3
      <3>2. file[Acked + 1] \in {Zero, Cell(inflight.rec, (Acked + 1) - Acked, inflight.len)}
        BY <2>3, <3>1
      <3>3. QED
        BY <3>1, <3>2
    <2>5. inflight.len = n /\ inflight.rec = r
      BY <1>2, <2>1, <2>4 DEF Cell, Zero
    <2>6. inflight = Entry(r, n, gen.pos)
      <3>1. inflight \in Entries
        BY <1>0, <2>3 DEF TypeOK
      <3>2. inflight = [rec |-> inflight.rec, len |-> inflight.len, off |-> inflight.off]
        BY <3>1 DEF Entries
      <3>3. QED
        BY <2>1, <2>3, <2>5, <3>2 DEF Entry
    <2>7. QED
      BY <1>6, <2>1, <2>3, <2>5, <2>6 DEF r
  <1>7. CASE Len(out) > Len(log)
    <2>1. Len(file) <= gen.pos
      BY <1>0, <1>7 DEF YieldsAcked
    <2>2. QED
      BY <1>1, <1>2, <1>3, <2>1
  <1>8. QED
    BY <1>4, <1>5, <1>6, <1>7

\* The replay yields a record.
LEMMA ReplayRecordRecovery ==
    ASSUME RecoveryIInv, ReplayRecord
    PROVE  NothingBehind' /\ Recoverable' /\ YieldsAcked'
  <1>0. TypeOK /\ Recoverable /\ YieldsAcked /\ NothingBehind
    BY DEF RecoveryIInv, IInv
  <1>1. /\ phase = "reading" /\ phase' = phase /\ log' = log /\ file' = file /\ disk' = disk
        /\ dirty' = dirty /\ inflight' = inflight /\ hdr' = hdr /\ cut' = cut
    BY DEF ReplayRecord
  <1>2. PICK n \in MinLen .. MaxCells :
          /\ Yields(n)
          /\ out' = Append(out, Entry(HeaderWin[1].rec, n, gen.pos))
          /\ gen' = Advanced(n)
    BY DEF ReplayRecord
  <1> DEFINE e == Entry(HeaderWin[1].rec, n, gen.pos)
             k == Len(out)
  <1>3. \/ k < Len(log) /\ e = log[k + 1]
        \/ /\ k = Len(log) /\ inflight # None /\ e = inflight
           /\ inflight.off = Acked /\ inflight.len = n
           /\ gen.pos = Acked /\ Len(file) <= Acked + n
    BY <1>1, <1>2, YieldIsNext
  <1>4. gen'.pos = gen.pos + n /\ e.off = gen.pos /\ e.len = n
    BY <1>2 DEF Advanced, Entry
  <1>5. Recoverable' /\ NothingBehind'
    <2>1. Remnant(file)
      BY <1>0, <1>1 DEF Recoverable
    <2>2. Recoverable'
      BY <1>0, <1>1, <2>1, QuietRecoverable
    <2>3. QED
      BY <1>0, <1>1, <2>2 DEF NothingBehind
  <1> HIDE DEF e
  <1>6. /\ Len(out') = k + 1 /\ DOMAIN out' = 1 .. k + 1 /\ out'[k + 1] = e
        /\ \A i \in 1 .. k : out'[i] = out[i]
        /\ k \in Nat /\ DOMAIN out = 1 .. k
    BY <1>0, <1>2 DEF TypeOK, e
  <1>7. Len(log) \in Nat /\ Acked' = Acked /\ (\A i : EndOf(i)' = EndOf(i))
    BY <1>0, <1>1, LogShape, SameLog
  <1>8. YieldsAcked'
    <2>1. \A i \in DOMAIN out' : out'[i] = IF i <= Len(log) THEN log[i] ELSE inflight
      <3>1. TAKE i \in DOMAIN out'
      <3>2. CASE i \in 1 .. k
        BY <1>0, <1>1, <1>6, <3>2 DEF YieldsAcked
      <3>3. CASE i = k + 1
        BY <1>3, <1>6, <1>7, <3>3
      <3>4. QED
        BY <1>6, <3>2, <3>3
    <2>2. Len(out') <= Len(log) + 1
      BY <1>3, <1>6, <1>7
    <2>3. CASE k < Len(log)
      <3>1. e = log[k + 1]
        BY <1>3, <2>3
      <3>2. EndOf(k + 1) = gen.pos + n
        BY <1>4, <1>6, <3>1 DEF EndOf
      <3>3. ~(k + 1 > Len(log))
        BY <1>6, <1>7, <2>3
      <3>4. QED
        BY <1>1, <1>4, <1>6, <1>7, <2>1, <2>2, <3>2, <3>3 DEF YieldsAcked
    <2>4. CASE k = Len(log)
      <3>1. ~(k + 1 <= Len(log))
        BY <1>6, <1>7, <2>4
      <3>2. inflight # None /\ inflight.off = Acked /\ inflight.len = n /\ gen.pos = Acked
            /\ Len(file) <= Acked + n
        BY <1>3, <2>4, <1>7
      <3>3. QED
        BY <1>1, <1>4, <1>6, <1>7, <2>1, <2>2, <3>1, <3>2 DEF YieldsAcked
    <2>5. QED
      BY <1>3, <2>3, <2>4
  <1>9. QED
    BY <1>5, <1>8

\* When the replay is over it has yielded every acknowledged record, in order,
\* and besides them at most the one in flight.
LEMMA ReplayComplete ==
    ASSUME RecoveryIInv, ReplayEnd \/ RecoverTornTail
    PROVE  out = log \/ (inflight # None /\ out = Append(log, inflight))
  <1>0. TypeOK /\ YieldsAcked
    BY DEF RecoveryIInv, IInv
  <1>1. phase = "reading" /\ Scan /\ gen.stop = end
    BY InvScan DEF RecoveryIInv, ReplayEnd, RecoverTornTail, OpenedWith
  <1>2. /\ Len(out) \in Nat /\ Len(log) \in Nat /\ Len(out) <= Len(log) + 1
        /\ out \in Seq(Entries) /\ log \in Seq(Entries)
        /\ DOMAIN out = 1 .. Len(out) /\ DOMAIN log = 1 .. Len(log)
        /\ \A i \in DOMAIN out : out[i] = IF i <= Len(log) THEN log[i] ELSE inflight
    BY <1>0, <1>1 DEF TypeOK, YieldsAcked
  <1>3. ~(Len(out) < Len(log))
    <2>1. SUFFICES ASSUME Len(out) < Len(log) PROVE FALSE
      OBVIOUS
    <2> DEFINE e == log[Len(out) + 1]
    <2>2. /\ e.len \in Nat /\ e.len >= 3 /\ gen.pos + e.len <= gen.stop
          /\ ReadableIn(file, Entry(e.rec, e.len, gen.pos))
      BY <1>1, <2>1, OnNextRecord
    <2> HIDE DEF e
    <2>3. ~Torn /\ ~AtEnd
      BY <1>1, <2>2, WholeHead
    <2>4. QED
      BY <2>3 DEF ReplayEnd, RecoverTornTail
  <1>4. CASE Len(out) = Len(log)
    <2>1. \A i \in 1 .. Len(out) : out[i] = log[i]
      BY <1>2, <1>4
    <2>2. out = log
      BY <1>2, <1>4, <2>1, SeqEqual
    <2>3. QED
      BY <2>2
  <1>5. CASE Len(out) = Len(log) + 1
    <2>1. inflight # None
      BY <1>0, <1>1, <1>2, <1>5 DEF YieldsAcked
    <2>2. inflight \in Entries
      BY <1>0, <2>1 DEF TypeOK
    <2> DEFINE t == Append(log, inflight)
    <2>3. /\ t \in Seq(Entries) /\ Len(t) = Len(log) + 1
          /\ \A i \in 1 .. Len(log) : t[i] = log[i]
          /\ t[Len(log) + 1] = inflight
      BY <1>2, <2>2
    <2> HIDE DEF t
    <2>4. \A i \in 1 .. Len(out) : out[i] = t[i]
      BY <1>2, <1>5, <2>3
    <2>5. out = t
      BY <1>2, <1>5, <2>3, <2>4, SeqEqual
    <2>6. QED
      BY <2>1, <2>5 DEF t
  <1>6. Len(out) = Len(log) \/ Len(out) = Len(log) + 1
    <2>1. Len(out) \in Nat /\ Len(log) \in Nat /\ Len(out) <= Len(log) + 1
      BY <1>2
    <2>2. QED
      BY <1>3, <2>1
  <1>7. QED
    BY <1>4, <1>5, <1>6, Zenon

\* What was replayed is what the session has acknowledged.
LEMMA ReplayEndsRecovery ==
    ASSUME RecoveryIInv, ReplayEnd \/ RecoverTornTail
    PROVE  NothingBehind' /\ Recoverable' /\ YieldsAcked'
  <1>0. TypeOK /\ Recoverable /\ YieldsAcked /\ NothingBehind /\ BeforeFirstOpen
    BY DEF RecoveryIInv, IInv
  <1>1. /\ phase = "reading" /\ phase' = "open" /\ log' = out /\ inflight' = None
        /\ hdr' = hdr /\ disk' = disk /\ end' = Len(file') /\ cut' = None
    BY <1>0 DEF ReplayEnd, RecoverTornTail, OpenedWith, NothingBehind
  <1>2. IInv'
    BY ReplayEnds DEF RecoveryIInv
  <1>3. Scan /\ gen.stop = end /\ end = Len(file)
    BY <1>1, InvScan DEF RecoveryIInv, IInv, ReplayScan
  <1>4. Len(file') = gen.pos
    <2>1. CASE ReplayEnd
      <3>1. HeaderWin \in Seq(RecordCells) /\ gen.pos \in Nat
            /\ (Len(HeaderWin) >= HeaderCells \/ gen.pos + Len(HeaderWin) = gen.stop)
        <4>1. 0 \in Nat
          OBVIOUS
        <4>2. QED
          BY <1>3, <4>1, Windows DEF Scan
      <3>2. Len(HeaderWin) = 0 /\ file' = file
        BY <2>1 DEF ReplayEnd, AtEnd, OpenedWith
      <3>3. QED
        BY <1>3, <3>1, <3>2 DEF HeaderCells
    <2>2. CASE RecoverTornTail
      <3>1. file' = SubSeq(file, 1, gen.pos)
        BY <2>2 DEF RecoverTornTail, OpenedWith
      <3>2. gen.pos \in Nat /\ gen.pos <= Len(file) /\ file \in Seq(RecordCells)
        BY <1>3 DEF Scan
      <3>3. QED
        BY <3>1, <3>2
    <2>3. QED
      BY <2>1, <2>2
  <1>5. /\ Len(log) \in Nat /\ DOMAIN log = 1 .. Len(log)
        /\ Len(out) \in Nat /\ DOMAIN out = 1 .. Len(out) /\ Len(out) <= Len(log) + 1
        /\ \A i \in DOMAIN out : out[i] = IF i <= Len(log) THEN log[i] ELSE inflight
        /\ Len(out) <= Len(log) => gen.pos = EndOf(Len(out))
        /\ Len(out) > Len(log) =>
              inflight # None /\ inflight.off = Acked /\ gen.pos = Acked + inflight.len
    BY <1>0, <1>1, LogShape DEF YieldsAcked, TypeOK
  <1>6. \A i \in DOMAIN out : out[i].off = EndOf(i - 1)'
    <2>1. TAKE i \in DOMAIN out
    <2>2. \A j \in 0 .. Len(log) : j <= Len(out) => EndOf(j)' = EndOf(j)
      BY <1>1, <1>5 DEF EndOf
    <2>3. CASE i <= Len(log)
      <3>1. i \in DOMAIN log /\ i - 1 \in 0 .. Len(log) /\ i - 1 <= Len(out)
        BY <1>5, <2>3
      <3>2. log[i].off = EndOf(i - 1)
        BY <1>0, <1>1, <3>1 DEF Recoverable, Packed
      <3>3. QED
        BY <1>5, <2>2, <2>3, <3>1, <3>2
    <2>4. CASE i > Len(log)
      <3>1. i - 1 = Len(log) /\ i - 1 \in 0 .. Len(log) /\ i - 1 <= Len(out)
            /\ Len(out) > Len(log) /\ ~(i <= Len(log))
        BY <1>5, <2>4
      <3>2. out[i] = inflight /\ inflight.off = EndOf(i - 1)
        BY <1>5, <3>1 DEF Acked
      <3>3. QED
        BY <2>2, <3>1, <3>2
    <2>5. QED
      BY <1>5, <2>3, <2>4
  <1>7. Acked' = gen.pos
    <2>1. Acked' = IF Len(out) = 0 THEN 0 ELSE out[Len(out)].off + out[Len(out)].len
      BY <1>1 DEF Acked, EndOf
    <2>2. CASE Len(out) <= Len(log)
      <3>1. Len(out) # 0 => out[Len(out)] = log[Len(out)]
        BY <1>5, <2>2
      <3>2. QED
        BY <1>5, <2>1, <2>2, <3>1 DEF EndOf
    <2>3. CASE Len(out) > Len(log)
      <3>1. Len(out) # 0 /\ out[Len(out)] = inflight
        BY <1>5, <2>3
      <3>2. QED
        BY <1>5, <2>1, <2>3, <3>1
    <2>4. QED
      BY <1>5, <2>2, <2>3
  <1>8. NothingBehind' /\ YieldsAcked'
    <2>1. hdr' = "written"
      BY <1>0, <1>1 DEF BeforeFirstOpen
    <2>2. QED
      BY <1>1, <1>4, <1>7, <2>1 DEF NothingBehind, YieldsAcked
  <1>9. Recoverable'
    <2>1. Packed(file)'
      <3>1. \A i \in DOMAIN log' : ReadableIn(file', log'[i])
        BY <1>1, <1>2, LaidReadable DEF IInv, SessionFile, TypeOK
      <3>2. QED
        BY <1>1, <1>6, <3>1 DEF Packed
    <2>2. ASSUME Strict, ~dirty' PROVE Packed(disk)' /\ Remnant(disk)'
      <3>1. ~dirty /\ inflight = None
        BY <2>2 DEF ReplayEnd, RecoverTornTail
      <3>2. Packed(disk) /\ Remnant(disk)
        BY <1>0, <1>1, <2>2, <3>1 DEF Recoverable
      <3>3. log' = log /\ inflight' = inflight
        BY <1>1, <3>1, ReplayComplete
      <3>4. QED
        BY <1>1, <3>2, <3>3, SameLog DEF Packed, Remnant
    <2>3. QED
      BY <1>1, <2>1, <2>2 DEF Recoverable
  <1>10. QED
    BY <1>8, <1>9

-----------------------------------------------------------------------------
(* Appending and compacting.                                               *)

\* What a session refers to stays readable in the file, whatever it writes.
LEMMA PackedWhileWriting ==
    ASSUME RecoveryIInv, phase \in {"open", "appending"}, IInv',
           phase' \in {"open", "appending"}, log' = log, cut' = None
    PROVE  Packed(file)'
  <1>1. \A i \in DOMAIN log : log[i].off = EndOf(i - 1)
    BY DEF RecoveryIInv, Recoverable, Packed
  <1>2. \A i \in DOMAIN log' : ReadableIn(file', log'[i])
    BY LaidReadable DEF IInv, SessionFile, TypeOK
  <1>3. QED
    BY <1>1, <1>2, SameLog DEF Packed

\* An append starts, or writes some of its record.
LEMMA AppendingRecovery ==
    ASSUME RecoveryIInv, IInv', (\E n \in Lengths : AppendOperation(n)) \/ WriteSome
    PROVE  NothingBehind' /\ Recoverable' /\ YieldsAcked'
  <1>0. TypeOK /\ Recoverable /\ NothingBehind /\ BeforeFirstOpen /\ IInv
    BY DEF RecoveryIInv, IInv
  <1>1. /\ phase \in {"open", "appending"} /\ phase' = "appending" /\ log' = log
        /\ disk' = disk /\ dirty' = dirty /\ inflight' = inflight /\ end' = end /\ hdr' = hdr
        /\ cut' = None
    BY <1>0 DEF AppendOperation, WriteSome, NothingBehind
  <1>2. Packed(file)'
    BY <1>1, PackedWhileWriting
  <1>3. Recoverable'
    <2>1. Strict /\ ~dirty => Packed(disk) /\ Remnant(disk)
      BY <1>0, <1>1 DEF Recoverable
    <2>2. (Packed(disk) => Packed(disk)') /\ (Remnant(disk) => Remnant(disk)')
      BY <1>1, SameLog DEF Packed, Remnant
    <2>3. QED
      BY <1>1, <1>2, <2>1, <2>2 DEF Recoverable
  <1>4. end = Acked /\ inflight = None /\ end \in Nat /\ Acked' = Acked
    BY <1>0, <1>1, SameLog DEF NothingBehind, TypeOK
  <1>5. Len(file') = end + job'.done
    <2>1. CASE \E n \in Lengths : AppendOperation(n)
      <3>1. job'.done = 0 /\ file' = file /\ phase = "open"
        BY <2>1 DEF AppendOperation
      <3>2. Len(file) = end /\ end + 0 = end
        BY <1>0, <1>4, <3>1 DEF NothingBehind
      <3>3. QED
        BY <3>1, <3>2
    <2>2. CASE WriteSome
      <3>1. PICK k \in 1 .. job.len - job.done :
              /\ job'.done = job.done + k
              /\ Len(file') = IF end + job.done + k > Len(file) THEN end + job.done + k
                             ELSE Len(file)
        BY <1>0, <2>2, WriteSomeEffect
      <3>2. phase = "appending" /\ job \in Jobs
        BY <1>0, <2>2 DEF WriteSome, IInv, AppendInProgress
      <3>3. job.done \in Nat /\ job.len \in Nat
        BY <3>2, JobShape
      <3>4. Len(file) = end + job.done
        BY <1>0, <3>2 DEF NothingBehind
      <3> DEFINE d == job.done
      <3>5. k \in Nat /\ k > 0 /\ d \in Nat
        BY <3>3
      <3> HIDE DEF d
      <3>6. end + d + k > end + d /\ end + d + k = end + (d + k)
        BY <1>4, <3>5
      <3>7. QED
        BY <3>1, <3>4, <3>6 DEF d
    <2>3. QED
      BY <2>1, <2>2
  <1>6. hdr' = "written"
    BY <1>0, <1>1 DEF BeforeFirstOpen
  <1>7. QED
    BY <1>1, <1>3, <1>4, <1>5, <1>6 DEF NothingBehind, YieldsAcked

\* An append returns: its record is the last of the file, and of the stable
\* storage when durability is strict.
LEMMA AppendReturnsRecovery ==
    ASSUME RecoveryIInv, IInv', AppendReturns
    PROVE  NothingBehind' /\ Recoverable' /\ YieldsAcked'
  <1>0. TypeOK /\ Recoverable /\ NothingBehind /\ BeforeFirstOpen /\ AppendInProgress
    BY DEF RecoveryIInv, IInv
  <1>1. /\ phase = "appending" /\ phase' = "open" /\ job.done = job.len
        /\ log' = Append(log, Entry(job.rec, job.len, end))
        /\ end' = end + job.len /\ file' = file /\ hdr' = hdr /\ inflight' = inflight
        /\ cut' = None
    BY <1>0 DEF AppendReturns, NothingBehind
  <1>2. end = Acked /\ inflight = None /\ Len(file) = end + job.len /\ hdr' = "written"
    BY <1>0, <1>1 DEF NothingBehind, BeforeFirstOpen
  <1> DEFINE e == Entry(job.rec, job.len, end)
  <1>3. e.off = end /\ e.len = job.len /\ e \in Entries
    <2>1. job \in Jobs /\ end \in Nat
      BY <1>0, <1>1 DEF AppendInProgress, TypeOK
    <2>2. job.rec \in 1 .. MaxRecs /\ job.len \in Lengths
      BY <2>1, JobShape
    <2>3. QED
      BY <2>1, <2>2 DEF Entry, Entries
  <1> HIDE DEF e
  <1>4. /\ Len(log') = Len(log) + 1 /\ DOMAIN log' = 1 .. Len(log) + 1
        /\ log'[Len(log) + 1] = e
        /\ \A i \in 1 .. Len(log) : log'[i] = log[i]
        /\ Len(log) \in Nat /\ DOMAIN log = 1 .. Len(log)
    BY <1>0, <1>1, <1>3 DEF TypeOK, e
  <1>5. Acked' = end + job.len
    <2>1. Len(log) + 1 # 0
      BY <1>4
    <2>2. QED
      BY <1>3, <1>4, <2>1 DEF Acked, EndOf
  <1>6. Packed(file)'
    <2>1. \A i \in DOMAIN log' : ReadableIn(file', log'[i])
      BY <1>1, LaidReadable DEF IInv, SessionFile, TypeOK
    <2>2. \A j \in 0 .. Len(log) : EndOf(j)' = EndOf(j)
      BY <1>4 DEF EndOf
    <2>3. ASSUME NEW i \in DOMAIN log' PROVE log'[i].off = EndOf(i - 1)'
      <3>1. CASE i <= Len(log)
        <4>1. i \in DOMAIN log /\ i - 1 \in 0 .. Len(log)
          BY <1>4, <3>1
        <4>2. log[i].off = EndOf(i - 1)
          BY <1>0, <1>1, <4>1 DEF Recoverable, Packed
        <4>3. QED
          BY <1>4, <2>2, <4>1, <4>2
      <3>2. CASE i = Len(log) + 1
        <4>1. i - 1 = Len(log) /\ i - 1 \in 0 .. Len(log)
          BY <1>4, <3>2
        <4>2. QED
          BY <1>2, <1>3, <1>4, <2>2, <3>2, <4>1 DEF Acked
      <3>3. QED
        BY <1>4, <3>1, <3>2
    <2>4. QED
      BY <2>1, <2>3 DEF Packed
  <1>7. Recoverable'
    <2>1. ASSUME Strict PROVE Packed(disk)' /\ Remnant(disk)'
      <3>1. disk' = file'
        BY <1>1, <2>1 DEF AppendReturns
      <3>2. Packed(disk)'
        BY <1>6, <3>1 DEF Packed
      <3>3. Len(disk') = Acked'
        BY <1>1, <1>2, <1>5, <3>1
      <3>4. Acked' \in Nat
        BY <1>5, <3>1, <3>3, <1>1, <1>0 DEF TypeOK
      <3>5. ~(Len(disk') > Acked')
        BY <3>3, <3>4
      <3>6. QED
        BY <3>2, <3>5 DEF Remnant
    <2>2. QED
      BY <1>1, <1>6, <2>1 DEF Recoverable
  <1>8. QED
    BY <1>1, <1>2, <1>5, <1>7 DEF NothingBehind, YieldsAcked

\* A compaction: nothing is promised while it runs; when it ends the file holds
\* the live records, and those only.
LEMMA CompactingRecovery ==
    ASSUME OnlyCrashes, RecoveryIInv, IInv',
           \/ \E kept \in Selections : Compact(kept)
           \/ CompactKeep \/ CompactSkip \/ EndCompact
    PROVE  NothingBehind' /\ Recoverable' /\ YieldsAcked'
  <1>0. TypeOK /\ Recoverable /\ NothingBehind /\ BeforeFirstOpen /\ IInv
    BY DEF RecoveryIInv, IInv
  <1>1. /\ phase \in {"open", "compacting"} /\ phase' \in {"open", "compacting"}
        /\ inflight' = inflight /\ hdr' = hdr /\ cut' = None
    BY <1>0 DEF Compact, CompactKeep, CompactSkip, EndCompact, NothingBehind
  <1>2. inflight' = None /\ hdr' = "written"
    BY <1>0, <1>1 DEF NothingBehind, BeforeFirstOpen
  <1>3. dirty' = TRUE
    <2>1. CASE \E kept \in Selections : Compact(kept)
      BY <2>1 DEF Compact
    <2>2. CASE CompactKeep \/ CompactSkip \/ EndCompact
      <3>1. phase = "compacting" /\ dirty' = dirty
        BY <2>2 DEF CompactKeep, CompactSkip, EndCompact
      <3>2. QED
        BY <1>0, <3>1 DEF Recoverable, TypeOK
    <2>3. QED
      BY <2>1, <2>2
  <1>4. CASE phase' = "compacting"
    BY <1>1, <1>2, <1>3, <1>4 DEF NothingBehind, Recoverable, YieldsAcked
  <1>5. CASE phase' = "open"
    <2>1. EndCompact
      BY <1>5 DEF Compact, CompactKeep, CompactSkip, EndCompact
    <2>2. /\ log' = log /\ file' = SubSeq(file, 1, write) /\ end' = write
      BY <2>1 DEF EndCompact
    <2>3. /\ EndOf(Len(log)) = write
          /\ \A i \in 1 .. Len(log) : log[i].off = EndOf(i - 1)
      BY <1>0, <2>1, AllPacked
    <2>4. Len(file') = write
      <3>1. Scan /\ gen.stop = end /\ end <= Len(file) /\ write <= gen.pos
        BY <1>0, <2>1, InvScan DEF EndCompact, IInv, CompactScan
      <3>2. write \in Nat /\ write <= Len(file) /\ file \in Seq(RecordCells)
        BY <1>0, <3>1 DEF Scan, TypeOK
      <3>3. QED
        BY <2>2, <3>2
    <2>5. Acked' = write
      BY <2>2, <2>3, SameLog DEF Acked
    <2>6. Packed(file)'
      <3>1. \A i \in DOMAIN log' : ReadableIn(file', log'[i])
        BY <1>1, <1>5, LaidReadable DEF IInv, SessionFile, TypeOK
      <3>2. DOMAIN log = 1 .. Len(log)
        BY <1>0, LogShape
      <3>3. QED
        BY <2>2, <2>3, <3>1, <3>2, SameLog DEF Packed
    <2>7. QED
      BY <1>1, <1>2, <1>3, <1>5, <2>2, <2>4, <2>5, <2>6
         DEF NothingBehind, Recoverable, YieldsAcked
  <1>6. QED
    BY <1>1, <1>4, <1>5

\* stats() reads what is there and changes nothing.
LEMMA StatsRecovery ==
    ASSUME RecoveryIInv, Stats \/ StatsRecord \/ EndStats
    PROVE  NothingBehind' /\ Recoverable' /\ YieldsAcked'
  <1>0. Recoverable /\ NothingBehind /\ IInv
    BY DEF RecoveryIInv
  <1>1. /\ phase \in {"open", "scanning"} /\ phase' \in {"open", "scanning"}
        /\ log' = log /\ disk' = disk /\ inflight' = inflight /\ hdr' = hdr /\ cut' = cut
    BY DEF Stats, StatsRecord, EndStats
  <1>2. file' = file /\ end' = end /\ dirty' = dirty
    <2>1. CASE Stats \/ StatsRecord
      BY <2>1 DEF Stats, StatsRecord
    <2>2. CASE EndStats
      BY <1>0, <2>2, StatsEnds
    <2>3. QED
      BY <2>1, <2>2
  <1>3. Recoverable'
    BY <1>0, <1>1, <1>2, QuietRecoverable
  <1>4. NothingBehind' /\ YieldsAcked'
    BY <1>0, <1>1, <1>2, SameLog DEF NothingBehind, YieldsAcked
  <1>5. QED
    BY <1>3, <1>4

-----------------------------------------------------------------------------
(* The end of a session.                                                   *)

\* Behind the acknowledged records f holds some of the record of e, or zeros.
LeftBy(f, e) ==
    Len(f) > Acked =>
        /\ e # None /\ e.off = Acked /\ Len(f) <= Acked + e.len
        /\ \A i \in Acked + 1 .. Len(f) : f[i] \in {Zero, Cell(e.rec, i - Acked, e.len)}

\* When a session dies, what is in the file and on stable storage behind the
\* acknowledged records is of the record being appended.
LEMMA LeftInFlight ==
    ASSUME RecoveryIInv, phase \notin {"creating", "compacting"}
    PROVE  /\ Packed(file) /\ LeftBy(file, InFlight)
           /\ Strict /\ ~dirty => Packed(disk) /\ LeftBy(disk, InFlight)
  <1>0. TypeOK /\ Recoverable /\ NothingBehind /\ AppendInProgress
    BY DEF RecoveryIInv, IInv
  <1>1. Packed(file) /\ (Strict /\ ~dirty => Packed(disk) /\ Remnant(disk))
    BY <1>0 DEF Recoverable
  <1>2. CASE phase # "appending"
    <2>1. InFlight = inflight
      BY <1>0, <1>2 DEF AppendInProgress, InFlight
    <2>2. Remnant(file)
      <3>1. CASE phase \in {"open", "scanning"}
        BY <1>0, <3>1, NoRemnant DEF NothingBehind
      <3>2. CASE phase \notin {"open", "scanning"}
        BY <1>0, <1>2, <3>2 DEF Recoverable
      <3>3. QED
        BY <3>1, <3>2
    <2>3. QED
      BY <1>1, <2>1, <2>2 DEF Remnant, LeftBy
  <1>3. CASE phase = "appending"
    <2>1. /\ job \in Jobs /\ job.done <= job.len
          /\ \A i \in 1 .. job.done : file[end + i] = Cell(job.rec, i, job.len)
      BY <1>0, <1>3 DEF AppendInProgress
    <2>2. /\ end = Acked /\ Len(file) = end + job.done /\ inflight = None /\ end \in Nat
      BY <1>0, <1>3 DEF NothingBehind, TypeOK
    <2>3. job.rec \in 1 .. MaxRecs /\ job.len \in Lengths /\ job.len \in Nat /\ job.done \in Nat
      BY <2>1, JobShape
    <2> DEFINE e == Entry(job.rec, job.len, end)
    <2>4. e \in Entries /\ e.off = end /\ e.len = job.len /\ e.rec = job.rec
      BY <2>2, <2>3 DEF Entry, Entries
    <2>5. InFlight = e /\ e # None
      <3>1. job # None
        BY <2>1
      <3>2. QED
        BY <2>4, <3>1 DEF InFlight
    <2> HIDE DEF e
    <2>6. LeftBy(file, e)
      <3>1. ASSUME NEW i \in Acked + 1 .. Len(file)
            PROVE  file[i] = Cell(e.rec, i - Acked, e.len)
        <4> DEFINE d == job.done
        <4>1. d \in Nat /\ Acked = end /\ Len(file) = end + d
          BY <2>2, <2>3
        <4> HIDE DEF d
        <4>2. i - Acked \in 1 .. d /\ end + (i - Acked) = i
          BY <2>2, <4>1
        <4>3. file[end + (i - Acked)] = Cell(job.rec, i - Acked, job.len)
          BY <2>1, <4>2 DEF d
        <4>4. QED
          BY <2>4, <4>2, <4>3
      <3>2. Len(file) <= Acked + e.len
        BY <2>1, <2>2, <2>3, <2>4
      <3>3. QED
        BY <2>2, <2>4, <2>5, <3>1, <3>2 DEF LeftBy
    <2>7. Remnant(disk) => LeftBy(disk, e)
      BY <2>2 DEF Remnant, LeftBy
    <2>8. QED
      BY <1>1, <2>5, <2>6, <2>7
  <1>4. QED
    BY <1>2, <1>3

\* The process ends, or dies, and leaves the files as they are.
LEMMA ProcessEndsRecovery ==
    ASSUME OnlyCrashes, RecoveryIInv, Close \/ Crash
    PROVE  NothingBehind' /\ Recoverable' /\ YieldsAcked'
  <1>0. TypeOK /\ Recoverable /\ NothingBehind /\ BeforeFirstOpen /\ AppendInProgress
    BY DEF RecoveryIInv, IInv
  <1>1. /\ phase \in {"open", "appending", "scanning", "reading", "creating"} /\ phase' = "down"
        /\ log' = log /\ file' = file /\ disk' = disk /\ dirty' = dirty /\ hdr' = hdr
        /\ cut' = None
    <2>1. "crash_in_compact" \notin Faults
      BY DEF OnlyCrashes
    <2>2. QED
      BY <2>1 DEF Close, Crash, Down
  <1>2. inflight' = InFlight
    <2>1. CASE Close
      <3>1. job = None /\ inflight' = inflight
        BY <1>0, <2>1 DEF Close, AppendInProgress
      <3>2. QED
        BY <3>1 DEF InFlight
    <2>2. CASE Crash
      BY <2>2 DEF Crash
    <2>3. QED
      BY <2>1, <2>2
  <1>3. Packed(file) /\ LeftBy(file, InFlight)
        /\ (Strict /\ ~dirty => Packed(disk) /\ LeftBy(disk, InFlight))
    <2>1. CASE phase # "creating"
      BY <1>1, <2>1, LeftInFlight
    <2>2. CASE phase = "creating"
      <3>1. InFlight = inflight
        BY <1>0, <2>2 DEF AppendInProgress, InFlight
      <3>2. QED
        BY <1>0, <2>2, <3>1 DEF Recoverable, Remnant, LeftBy
    <2>3. QED
      BY <2>1, <2>2
  <1>4. Recoverable'
    <2>1. Acked' = Acked /\ (Packed(file) => Packed(file)') /\ (Packed(disk) => Packed(disk)')
      BY <1>1, SameLog DEF Packed
    <2>2. LeftBy(file, InFlight) => Remnant(file)'
      BY <1>1, <1>2, <2>1 DEF LeftBy, Remnant
    <2>3. LeftBy(disk, InFlight) => Remnant(disk)'
      BY <1>1, <1>2, <2>1 DEF LeftBy, Remnant
    <2>4. QED
      BY <1>1, <1>3, <2>1, <2>2, <2>3 DEF Recoverable
  <1>5. NothingBehind'
    <2>1. hdr # "written" => InFlight = None
      <3>1. hdr # "written" => job = None /\ inflight = None
        BY <1>0 DEF BeforeFirstOpen, NothingBehind, AppendInProgress
      <3>2. QED
        BY <3>1 DEF InFlight
    <2>2. QED
      BY <1>1, <1>2, <2>1 DEF NothingBehind
  <1>6. QED
    BY <1>1, <1>4, <1>5 DEF YieldsAcked

\* A power loss keeps what was flushed: of the rest, any part.
LEMMA SurvivesPowerLoss ==
    ASSUME TypeOK, NEW e \in Entries \cup {None}, NEW lost,
           NEW n \in Len(disk) .. Len(file) \cup Len(file) .. Len(disk),
           Packed(file), Packed(disk), LeftBy(file, e), LeftBy(disk, e)
    PROVE  Packed(Survives(n, lost)) /\ LeftBy(Survives(n, lost), e)
  <1> DEFINE g == Survives(n, lost)
  <1>1. /\ n \in Nat /\ Len(file) \in Nat /\ Len(disk) \in Nat
        /\ n >= Len(file) \/ n >= Len(disk)
        /\ n <= Len(file) \/ n <= Len(disk)
    BY DEF TypeOK
  <1>2. /\ DOMAIN g = 1 .. n /\ Len(g) = n
        /\ \A i \in 1 .. n : \/ i <= Len(file) /\ g[i] = file[i]
                             \/ i <= Len(disk) /\ g[i] = disk[i]
                             \/ i > Len(disk) /\ g[i] = Zero
    <2>1. g = [i \in 1 .. n |-> IF i \notin lost /\ i <= Len(file) THEN file[i]
                                ELSE IF i <= Len(disk) THEN disk[i] ELSE Zero]
      BY DEF Survives
    <2> HIDE DEF g
    <2>2. DOMAIN g = 1 .. n
      BY <2>1
    <2>3. \A i \in 1 .. n : \/ i <= Len(file) /\ g[i] = file[i]
                            \/ i <= Len(disk) /\ g[i] = disk[i]
                            \/ i > Len(disk) /\ g[i] = Zero
      BY <1>1, <2>1
    <2>4. Len(g) = n
      BY <1>1, <2>1
    <2>5. QED
      BY <2>2, <2>3, <2>4
  <1> HIDE DEF g
  <1>3. Packed(g)
    <2>1. ASSUME NEW i \in DOMAIN log
          PROVE  log[i].off = EndOf(i - 1) /\ ReadableIn(g, log[i])
      <3> DEFINE o == log[i].off
                 l == log[i].len
      <3>1. o \in Nat /\ l \in Nat
        BY LogShape
      <3>2. /\ o = EndOf(i - 1)
            /\ o + l <= Len(file) /\ \A j \in 1 .. l : file[o + j] = Cell(log[i].rec, j, l)
            /\ o + l <= Len(disk) /\ \A j \in 1 .. l : disk[o + j] = Cell(log[i].rec, j, l)
        BY DEF Packed, ReadableIn
      <3> HIDE DEF o, l
      <3>3. o + l <= n
        BY <1>1, <3>1, <3>2
      <3>4. ASSUME NEW j \in 1 .. l PROVE g[o + j] = Cell(log[i].rec, j, l)
        <4>1. o + j \in 1 .. n /\ ~(o + j > Len(disk))
          BY <1>1, <3>1, <3>2, <3>3
        <4>2. g[o + j] = file[o + j] \/ g[o + j] = disk[o + j]
          BY <1>2, <4>1
        <4>3. QED
          BY <3>2, <4>2
      <3>5. QED
        BY <1>2, <3>2, <3>3, <3>4 DEF ReadableIn, o, l
    <2>2. QED
      BY <2>1 DEF Packed
  <1>4. LeftBy(g, e)
    <2> SUFFICES ASSUME n > Acked
                 PROVE  /\ e # None /\ e.off = Acked /\ n <= Acked + e.len
                        /\ \A i \in Acked + 1 .. n :
                              g[i] \in {Zero, Cell(e.rec, i - Acked, e.len)}
      BY <1>2 DEF LeftBy
    <2>1. Acked \in Nat
      BY LogShape
    <2>2. \/ Len(file) > Acked /\ n <= Len(file)
          \/ Len(disk) > Acked /\ n <= Len(disk)
      BY <1>1, <2>1
    <2>3. /\ e # None /\ e.off = Acked
          /\ \/ Len(file) <= Acked + e.len /\ n <= Len(file)
             \/ Len(disk) <= Acked + e.len /\ n <= Len(disk)
      BY <2>2 DEF LeftBy
    <2>4. ASSUME NEW i \in Acked + 1 .. n
          PROVE  g[i] \in {Zero, Cell(e.rec, i - Acked, e.len)}
      <3>1. i \in 1 .. n /\ i > Acked /\ i \in Nat
        BY <1>1, <2>1
      <3>2. CASE i <= Len(file) /\ g[i] = file[i]
        <4>1. i \in Acked + 1 .. Len(file) /\ Len(file) > Acked
          BY <1>1, <2>1, <3>1, <3>2
        <4>2. QED
          BY <3>2, <4>1 DEF LeftBy
      <3>3. CASE i <= Len(disk) /\ g[i] = disk[i]
        <4>1. i \in Acked + 1 .. Len(disk) /\ Len(disk) > Acked
          BY <1>1, <2>1, <3>1, <3>3
        <4>2. QED
          BY <3>3, <4>1 DEF LeftBy
      <3>4. CASE g[i] = Zero
        BY <3>4
      <3>5. QED
        BY <1>2, <3>1, <3>2, <3>3, <3>4
    <2>5. n <= Acked + e.len
      <3>1. e \in Entries
        BY <2>3
      <3>2. e.len \in Nat
        BY <3>1, EntryShape
      <3>3. QED
        BY <1>1, <2>1, <2>3, <3>2
    <2>6. QED
      BY <2>3, <2>4, <2>5
  <1>5. QED
    BY <1>3, <1>4 DEF g

\* The machine loses power, with nothing to flush but the record in flight.
LEMMA PowerLossRecovery ==
    ASSUME OnlyCrashes, RecoveryIInv, PowerLoss
    PROVE  NothingBehind' /\ Recoverable' /\ YieldsAcked'
  <1>0. TypeOK /\ NothingBehind /\ BeforeFirstOpen /\ AppendInProgress
    BY DEF RecoveryIInv, IInv
  <1>1. ~dirty /\ Strict /\ phase \notin {"creating", "compacting"}
    BY <1>0 DEF PowerLoss, OnlyCrashes, TypeOK
  <1>2. PICK n \in Len(disk) .. Len(file) \cup Len(file) .. Len(disk),
             lost \in SUBSET Unflushed :
               file' = Survives(n, lost) /\ disk' = Survives(n, lost)
    BY DEF PowerLoss
  <1>3. phase' = "down" /\ inflight' = InFlight /\ log' = log /\ hdr' = hdr /\ cut' = None
    BY DEF PowerLoss, Down
  <1> DEFINE g == Survives(n, lost)
  <1>4. Packed(g) /\ LeftBy(g, InFlight)
    <2>1. Packed(file) /\ LeftBy(file, InFlight) /\ Packed(disk) /\ LeftBy(disk, InFlight)
      BY <1>1, LeftInFlight
    <2>2. InFlight \in Entries \cup {None}
      <3>1. IInv
        BY DEF RecoveryIInv
      <3>2. QED
        BY <3>1, InFlightType
    <2>3. QED
      BY <1>0, <2>1, <2>2, SurvivesPowerLoss
  <1> HIDE DEF g
  <1>5. file' = g /\ disk' = g
    BY <1>2 DEF g
  <1>6. Packed(file)' /\ Packed(disk)' /\ Remnant(file)' /\ Remnant(disk)'
    <2>1. Packed(file)' /\ Packed(disk)'
      BY <1>3, <1>4, <1>5, SameLog DEF Packed
    <2>2. Acked' = Acked
      BY <1>3, SameLog
    <2>3. QED
      BY <1>3, <1>4, <1>5, <2>1, <2>2 DEF LeftBy, Remnant
  <1>7. NothingBehind'
    <2>1. hdr # "written" => job = None /\ inflight = None
      BY <1>0 DEF BeforeFirstOpen, NothingBehind, AppendInProgress
    <2>2. hdr # "written" => InFlight = None
      BY <2>1 DEF InFlight
    <2>3. QED
      BY <1>3, <2>2 DEF NothingBehind
  <1>8. QED
    BY <1>3, <1>6, <1>7 DEF Recoverable, YieldsAcked

-----------------------------------------------------------------------------

\* Every step keeps the invariant.
LEMMA StepRecovery ==
    ASSUME OnlyCrashes
    PROVE  RecoveryIInv /\ [Next]_vars => RecoveryIInv'
  <1> SUFFICES ASSUME RecoveryIInv, [Next]_vars PROVE RecoveryIInv'
    OBVIOUS
  <1>0. IInv /\ Recoverable /\ NothingBehind /\ YieldsAcked
    BY DEF RecoveryIInv
  <1>1. OneCompaction
    BY DEF OnlyCrashes, OneCompaction
  <1>2. IInv'
    BY <1>0, <1>1, StepIInv
  <1>3. ~WriteError /\ ~FsyncError /\ ~MoveError /\ ~CrashInMove
    BY DEF OnlyCrashes, WriteError, FsyncError, MoveError, CrashInMove
  <1>4. ~CompactError
    <2>1. SUFFICES ASSUME CompactError PROVE FALSE
      OBVIOUS
    <2>2. phase = "compacting" /\ "compact_error" \notin Faults
      BY <2>1 DEF CompactError, OnlyCrashes
    <2>3. Scan /\ gen.stop = end /\ Tiled(file, gen.pos, end)
      BY <1>0, <2>2, InvScan DEF IInv, CompactScan
    <2>4. ~Broken
      BY <2>3, TiledHead
    <2>5. QED
      BY <2>1, <2>2, <2>4 DEF CompactError
  <1>5. CASE Next
    <2>1. NothingBehind' /\ Recoverable' /\ YieldsAcked'
      BY <1>2, <1>3, <1>4, <1>5, OpeningSteps, ReplayRecordRecovery, ReplayEndsRecovery,
         AppendingRecovery, AppendReturnsRecovery, CompactingRecovery, StatsRecovery,
         ProcessEndsRecovery, PowerLossRecovery DEF Next
    <2>2. QED
      BY <1>2, <2>1 DEF RecoveryIInv
  <1>6. CASE UNCHANGED vars
    <2>1. Recoverable' /\ NothingBehind' /\ YieldsAcked'
      BY <1>0, <1>6 DEF vars, Recoverable, NothingBehind, YieldsAcked, Packed, Remnant, Acked,
                        EndOf
    <2>2. QED
      BY <1>2, <2>1 DEF RecoveryIInv
  <1>7. QED
    BY <1>5, <1>6

\* What the file and the stable storage hold between any two steps.
THEOREM RecoveryInvariant ==
    ASSUME OnlyCrashes
    PROVE  Spec => []RecoveryIInv
  <1>1. Init => RecoveryIInv
    BY InitIInv, InitRecovery DEF RecoveryIInv
  <1>2. RecoveryIInv /\ [Next]_vars => RecoveryIInv'
    BY StepRecovery
  <1>3. QED
    BY <1>1, <1>2, PTL DEF Spec

\* open() finds every acknowledged record, in order, and besides them at most
\* the one whose append was cut short.
THEOREM OpenFindsAcked ==
    ASSUME OnlyCrashes
    PROVE  Spec => RecoversAcked
  <1> DEFINE Found == out = log \/ (inflight # None /\ out = Append(log, inflight))
  <1>1. ASSUME RecoveryIInv, Next, phase = "reading", phase' = "open"
        PROVE  Found
    <2>1. ReplayEnd \/ RecoverTornTail
      <3>1. IInv
        BY <1>1 DEF RecoveryIInv
      <3>2. QED
        BY <1>1 DEF Next, OpenNew, WriteHeader, OpenExisting, ReplayRecord, ReplayFails,
                    AppendOperation, WriteSome, WriteError, AppendReturns, FsyncError, Compact,
                    CompactKeep, CompactSkip, EndCompact, CompactError, MoveError, Stats,
                    StatsRecord, EndStats, Close, Crash, CrashInMove, PowerLoss, Down
    <2>2. QED
      BY <1>1, <2>1, ReplayComplete
  <1>2. RecoveryIInv /\ [Next]_vars
          => [phase = "reading" /\ phase' = "open" /\ ~moved => Found]_vars
    BY <1>1
  <1>3. QED
    BY <1>2, RecoveryInvariant, PTL DEF Spec, RecoversAcked

\* A replay that meets a bad record before the end is behind the acknowledged
\* ones, on zeros.
LEMMA BrokenIsZeroed ==
    ASSUME RecoveryIInv, phase = "reading", Broken
    PROVE  \E i \in DOMAIN file : file[i] = Zero
  <1>0. TypeOK /\ Recoverable /\ YieldsAcked
    BY DEF RecoveryIInv, IInv
  <1>1. Scan /\ gen.stop = end /\ end = Len(file)
    BY InvScan DEF RecoveryIInv, IInv, ReplayScan
  <1>2. /\ gen.pos \in Nat /\ Len(file) \in Nat /\ file \in Seq(RecordCells)
        /\ DOMAIN file = 1 .. Len(file) /\ Acked \in Nat
        /\ Len(out) \in Nat /\ Len(log) \in Nat /\ Len(out) <= Len(log) + 1
    BY <1>0, <1>1, LogShape DEF Scan, TypeOK, YieldsAcked
  <1>3. /\ HeaderWin \in Seq(RecordCells) /\ Len(HeaderWin) >= 2
        /\ gen.pos + Len(HeaderWin) <= Len(file)
        /\ HeaderWin[2] = file[gen.pos + 2]
    <2>1. HeaderWin \in Seq(RecordCells) /\ Fresh(HeaderWin)
      <3>1. 0 \in Nat
        OBVIOUS
      <3>2. QED
        BY <1>1, <3>1, Windows
    <2>2. Len(HeaderWin) >= 2
      BY DEF Broken, HasHeader, HeaderCells
    <2>3. 2 \in 1 .. Len(HeaderWin)
      BY <2>1, <2>2
    <2>4. QED
      BY <1>1, <2>1, <2>2, <2>3 DEF Fresh
  <1>4. gen.pos + 2 <= Len(file)
    BY <1>2, <1>3
  <1>5. Len(out) = Len(log)
    <2>1. ~(Len(out) < Len(log))
      <3>1. SUFFICES ASSUME Len(out) < Len(log) PROVE FALSE
        OBVIOUS
      <3> DEFINE e == log[Len(out) + 1]
      <3>2. /\ e.len \in Nat /\ e.len >= 3 /\ gen.pos + e.len <= gen.stop
            /\ ReadableIn(file, Entry(e.rec, e.len, gen.pos))
        BY <3>1, OnNextRecord
      <3> HIDE DEF e
      <3>3. ~Broken
        BY <1>1, <3>2, WholeHead
      <3>4. QED
        BY <3>3
    <2>2. ~(Len(out) > Len(log))
      <3>1. Len(out) > Len(log) => Len(file) <= gen.pos
        BY <1>0 DEF YieldsAcked
      <3>2. QED
        BY <1>2, <1>4, <3>1
    <2>3. QED
      BY <1>2, <2>1, <2>2
  <1>6. gen.pos = Acked
    BY <1>0, <1>2, <1>5 DEF YieldsAcked, Acked
  <1>7. /\ inflight # None /\ Len(file) <= Acked + inflight.len
        /\ file[gen.pos + 2] \in {Zero, Cell(inflight.rec, 2, inflight.len)}
    <2>1. Len(file) > Acked
      BY <1>2, <1>4, <1>6
    <2>2. /\ inflight # None /\ Len(file) <= Acked + inflight.len
          /\ \A i \in Acked + 1 .. Len(file) :
                file[i] \in {Zero, Cell(inflight.rec, i - Acked, inflight.len)}
      BY <1>0, <2>1 DEF Recoverable, Remnant
    <2>3. Acked + 2 \in Acked + 1 .. Len(file) /\ (Acked + 2) - Acked = 2
      BY <1>2, <1>4, <1>6
    <2>4. file[Acked + 2] \in {Zero, Cell(inflight.rec, (Acked + 2) - Acked, inflight.len)}
      BY <2>2, <2>3
    <2>5. QED
      BY <1>6, <2>2, <2>3, <2>4
  <1>8. CASE file[gen.pos + 2] = Zero
    <2>1. gen.pos + 2 \in DOMAIN file
      BY <1>2, <1>4
    <2>2. QED
      BY <1>8, <2>1
  <1>9. CASE file[gen.pos + 2] # Zero
    <2>1. file[gen.pos + 2] = Cell(inflight.rec, 2, inflight.len)
      BY <1>7, <1>9
    <2>2. HeaderWin[2].part = 2 /\ HeaderWin[2].len = inflight.len /\ HeaderWin[2] # Zero
      BY <1>3, <1>9, <2>1 DEF Cell
    <2>3. Claims = {inflight.len}
      BY <2>2 DEF Claims
    <2>4. gen.pos + inflight.len < Len(file)
      BY <1>1, <2>3 DEF Broken
    <2>5. inflight.len \in Nat
      <3>1. inflight \in Entries
        BY <1>0, <1>7 DEF TypeOK
      <3>2. QED
        BY <3>1, EntryShape
    <2>6. QED
      BY <1>2, <1>6, <1>7, <2>4, <2>5
  <1>10. QED
    BY <1>8, <1>9

\* A crash never costs the database: open() refuses a file only when its
\* creation was cut short or a power loss left zeros in it.
THEOREM OpenRefusesOnlyDamage ==
    ASSUME OnlyCrashes
    PROVE  Spec => []RefusesOnlyDamage
  <1>1. Init => RefusesOnlyDamage
    BY DEF Init, RefusesOnlyDamage
  <1>2. ASSUME RecoveryIInv, RefusesOnlyDamage, [Next]_vars
        PROVE  RefusesOnlyDamage'
    <2> SUFFICES ASSUME phase' = "failed"
                 PROVE  hdr' = "empty" \/ moved' \/ \E i \in DOMAIN file' : file'[i] = Zero
      BY DEF RefusesOnlyDamage
    <2>1. CASE UNCHANGED vars
      BY <1>2, <2>1 DEF vars, RefusesOnlyDamage
    <2>2. CASE Next
      <3>1. OpenExisting \/ ReplayFails
        BY <2>2 DEF Next, OpenNew, WriteHeader, OpenExisting, ReplayRecord, ReplayFails,
                    ReplayEnd, RecoverTornTail, OpenedWith,
                    AppendOperation, WriteSome, WriteError, AppendReturns, FsyncError, Compact,
                    CompactKeep, CompactSkip, EndCompact, CompactError, MoveError, Stats,
                    StatsRecord, EndStats, Close, Crash, CrashInMove, PowerLoss, Down
      <3>2. CASE OpenExisting
        BY <3>2 DEF OpenExisting
      <3>3. CASE ReplayFails
        <4>1. phase = "reading" /\ Broken /\ file' = file
          BY <3>3 DEF ReplayFails
        <4>2. QED
          BY <1>2, <4>1, BrokenIsZeroed
      <3>4. QED
        BY <3>1, <3>2, <3>3
    <2>3. QED
      BY <1>2, <2>1, <2>2
  <1>3. QED
    BY <1>1, <1>2, RecoveryInvariant, PTL DEF Spec

=============================================================================
