----------------------------- MODULE FileStorage -----------------------------
(***************************************************************************)
(* The operation log as bytes: storage/file-storage.ts, the framing of     *)
(* storage/operation-record.ts, and the byte moves of compact()            *)
(* (api/database.ts).  The file after its header is a sequence of cells; a *)
(* record takes 3 cells or more: identifier, length, payload and checksum. *)
(* Offsets are cells after the header, so a record at offset o starts at   *)
(* file[o + 1].  What a record means is left to PocketDatabase: here it is *)
(* a number, and a checksum holds when all cells are those of one record.  *)
(***************************************************************************)
EXTENDS Integers, Sequences

CONSTANTS
    Lengths,   \* cells a record may take
    Chunk,     \* chunkBytes of readOperations, in cells
    Strict,    \* durability: fsync after every appendOperation
    Faults,    \* what may go wrong: a subset of FaultKinds
    MaxRecs,   \* bound: records ever appended
    MaxCells,  \* bound: cells in the file
    None       \* no append in progress, no record in flight

FaultKinds == {"crash", "crash_in_create", "crash_in_compact", "power_loss",
               "power_loss_dirty", "write_error", "fsync_error", "compact_error",
               "scan_again"}

MinLen == 3    \* identifier, length, checksum

HeaderCells == 2

ASSUME LengthsAssumption == Lengths \subseteq {n \in Nat : n >= MinLen}

ASSUME ChunkAssumption == Chunk \in Nat \ {0}

ASSUME FlagsAssumption == Strict \in BOOLEAN /\ Faults \subseteq FaultKinds

ASSUME BoundsAssumption == MaxRecs \in Nat /\ MaxCells \in Nat

VARIABLES
    hdr,       \* the file header: "absent" (no file), "empty" or "written"
    file,      \* what the operating system shows: cells after the header
    disk,      \* what is on stable storage (kept up to date when Strict)
    dirty,     \* created, compacted, truncated or taken over from a crashed
               \* session since the last fsync
    phase,     \* "down", "creating", "reading", "open", "appending",
               \* "scanning", "compacting" or "failed"
    end,       \* currentOffset
    job,       \* appendOperation in progress: [rec, len, done], or None
    gen,       \* readOperations: fileOffset, window and end
    write,     \* compact: writeHead
    moved,     \* compact moved records and has not truncated the file since
    cut,       \* observer: the record whose move failed when part of it had been
               \* written over itself, or None
    log,       \* what memory refers to: acknowledged records with offsets
    out,       \* loadCollections: records replayed so far
    inflight,  \* observer: the record being appended when a session died
    last       \* number of the last record appended

vars == <<hdr, file, disk, dirty, phase, end, job, gen, write, moved, cut, log, out,
          inflight, last>>

-----------------------------------------------------------------------------
(* Cells.                                                                  *)

Cell(r, i, n) == [rec |-> r, part |-> i, len |-> n]

Zero == Cell(0, 0, 0)

Cells(r, n) == [i \in 1 .. n |-> Cell(r, i, n)]

\* writeSync(fd, cells, position)
Written(f, o, cells) ==
    [i \in 1 .. (IF o + Len(cells) > Len(f) THEN o + Len(cells) ELSE Len(f)) |->
        IF i > o /\ i <= o + Len(cells) THEN cells[i - o] ELSE f[i]]

Entry(r, n, o) == [rec |-> r, len |-> n, off |-> o]

\* The record of the entry is in the file, whole, where the entry says.
ReadableIn(f, e) ==
    /\ e.off + e.len <= Len(f)
    /\ \A i \in 1 .. e.len : f[e.off + i] = Cell(e.rec, i, e.len)

NoGen == [pos |-> 0, win |-> << >>, stop |-> 0]

GenFrom(stop) == [pos |-> 0, win |-> << >>, stop |-> stop]

-----------------------------------------------------------------------------
(* readOperations: a window over the file, refilled when a record does not *)
(* fit in what is buffered.                                                *)

Filled(w, need) ==
    LET at == gen.pos + Len(w)
        more == IF Chunk > need - Len(w) THEN Chunk ELSE need - Len(w)
    IN IF Len(w) >= need THEN w
       ELSE w \o SubSeq(file, at + 1, IF at + more < gen.stop THEN at + more ELSE gen.stop)

HeaderWin == Filled(gen.win, HeaderCells)

RecordWin(n) == Filled(HeaderWin, n)

\* The length the four bytes of the length field say: those of a record its
\* length, zeros nothing, any other four bytes anything.
Claims ==
    LET c == HeaderWin[2] IN
    IF c = Zero THEN {MinLen}
    ELSE IF c.part = 2 THEN {c.len}
    ELSE MinLen .. MaxCells + 1

\* decodeOperationRecord: all the bytes are there and the checksum matches.
Whole(n) ==
    Len(RecordWin(n)) >= n /\ SubSeq(RecordWin(n), 1, n) = Cells(HeaderWin[1].rec, n)

HasHeader == Len(HeaderWin) >= HeaderCells

AtEnd == Len(HeaderWin) = 0

Yields(n) == HasHeader /\ n \in Claims /\ Whole(n)

\* The last record of the file is incomplete or fails its checksum.
Torn ==
    \/ ~HasHeader /\ ~AtEnd
    \/ HasHeader /\ \E n \in Claims : ~Whole(n) /\ gen.pos + n >= gen.stop

\* Mutant: as before torn-tail recovery, any bad record is an error.
BrokenAnyBad == HasHeader /\ \E n \in Claims : ~Whole(n)

\* A bad record is followed by more bytes.
Broken ==
    HasHeader /\ \E n \in Claims : ~Whole(n) /\ gen.pos + n < gen.stop

\* Mutant: the window is not moved along with fileOffset.
AdvancedStuck(n) == [gen EXCEPT !.pos = @ + n, !.win = RecordWin(n)]

Advanced(n) ==
    [gen EXCEPT !.pos = @ + n, !.win = SubSeq(RecordWin(n), n + 1, Len(RecordWin(n)))]

-----------------------------------------------------------------------------

Init ==
    /\ hdr = "absent" /\ file = << >> /\ disk = << >> /\ dirty = FALSE
    /\ phase = "down"
    /\ end = 0 /\ job = None /\ gen = NoGen /\ write = 0 /\ moved = FALSE
    /\ cut = None
    /\ log = << >> /\ out = << >> /\ inflight = None /\ last = 0

(* FileStorage.open, then the replay of loadCollections.                   *)

OpenNew ==
    /\ phase = "down" /\ hdr = "absent"
    /\ hdr' = "empty" /\ dirty' = TRUE
    /\ phase' = "creating"
    /\ UNCHANGED <<file, disk, end, job, gen, write, moved, cut,
                   log, out, inflight, last>>

WriteHeader ==
    /\ phase = "creating"
    /\ hdr' = "written"
    /\ phase' = "open"
    /\ UNCHANGED <<file, disk, dirty, end, job, gen, write, moved, cut,
                   log, out, inflight, last>>

\* Mutant: the file size already counts the header, it is added again.
OpenExistingHeaderTwice ==
    /\ phase \in {"down", "failed"} /\ hdr # "absent"
    /\ IF hdr = "empty"
       THEN phase' = "failed" /\ UNCHANGED <<end, gen>>
       ELSE /\ phase' = "reading" /\ end' = Len(file) + HeaderCells
            /\ gen' = GenFrom(Len(file))
    /\ out' = << >>
    /\ UNCHANGED <<hdr, file, disk, dirty, job, write, moved, cut, log, inflight, last>>

OpenExisting ==
    /\ phase \in {"down", "failed"} /\ hdr # "absent"
    /\ IF hdr = "empty"
       THEN phase' = "failed" /\ UNCHANGED <<end, gen>>
       ELSE phase' = "reading" /\ end' = Len(file) /\ gen' = GenFrom(Len(file))
    /\ out' = << >>
    /\ UNCHANGED <<hdr, file, disk, dirty, job, write, moved, cut, log, inflight, last>>

ReplayRecord ==
    /\ phase = "reading"
    /\ \E n \in MinLen .. MaxCells :
          /\ Yields(n)
          /\ out' = Append(out, Entry(HeaderWin[1].rec, n, gen.pos))
          /\ gen' = Advanced(n)
    /\ UNCHANGED <<hdr, file, disk, dirty, phase, end, job, write, moved, cut, log,
                   inflight, last>>

\* The replay is over: what it yielded is what this session knows of.
OpenedWith(f) ==
    /\ phase = "reading"
    /\ file' = f /\ end' = Len(f)
    /\ phase' = "open" /\ gen' = NoGen /\ moved' = FALSE
    /\ log' = out /\ out' = << >> /\ inflight' = None
    /\ UNCHANGED <<hdr, disk, job, write, cut, last>>

\* A record found whole although its append never returned is not flushed.
ReplayEnd == AtEnd /\ OpenedWith(file) /\ dirty' = (dirty \/ inflight # None)

\* Mutant: recovery drops the last good record as well.
RecoverTornTailTooFar ==
    /\ Torn
    /\ OpenedWith(SubSeq(file, 1, IF out = << >> THEN 0 ELSE out[Len(out)].off))
    /\ dirty' = TRUE

\* recoverTornTail
RecoverTornTail ==
    /\ Torn
    /\ OpenedWith(SubSeq(file, 1, gen.pos))
    /\ dirty' = TRUE

ReplayFails ==
    /\ phase = "reading" /\ Broken
    /\ phase' = "failed" /\ gen' = NoGen /\ out' = << >>
    /\ UNCHANGED <<hdr, file, disk, dirty, end, job, write, moved, cut,
                   log, inflight, last>>

-----------------------------------------------------------------------------
(* appendOperation.                                                        *)

AppendOperation(n) ==
    /\ phase = "open"
    /\ last < MaxRecs /\ end + n <= MaxCells
    /\ phase' = "appending"
    /\ last' = last + 1
    /\ job' = [rec |-> last + 1, len |-> n, done |-> 0]
    /\ UNCHANGED <<hdr, file, disk, dirty, end, gen, write, moved, cut, log, out, inflight>>

\* writeAll: one writeSync, which takes some of the remaining bytes.
WriteSome ==
    /\ phase = "appending" /\ job.done < job.len
    /\ \E k \in 1 .. job.len - job.done :
          /\ file' = Written(file, end + job.done,
                             SubSeq(Cells(job.rec, job.len), job.done + 1, job.done + k))
          /\ job' = [job EXCEPT !.done = @ + k]
    /\ UNCHANGED <<hdr, disk, dirty, phase, end, gen, write, moved, cut,
                   log, out, inflight, last>>

\* Mutant: currentOffset follows the bytes as they are written.
WriteErrorMovesEnd ==
    /\ "write_error" \in Faults
    /\ phase = "appending" /\ job.done < job.len
    /\ phase' = "open" /\ job' = None /\ end' = end + job.done
    /\ UNCHANGED <<hdr, file, disk, dirty, gen, write, moved, cut,
                   log, out, inflight, last>>

\* writeSync throws: currentOffset stays, so do the bytes already written.
WriteError ==
    /\ "write_error" \in Faults
    /\ phase = "appending" /\ job.done < job.len
    /\ phase' = "open" /\ job' = None
    /\ UNCHANGED <<hdr, file, disk, dirty, end, gen, write, moved, cut,
                   log, out, inflight, last>>

AppendReturns ==
    /\ phase = "appending" /\ job.done = job.len
    /\ end' = end + job.len
    /\ IF Strict THEN disk' = file /\ dirty' = FALSE ELSE UNCHANGED <<disk, dirty>>
    /\ log' = Append(log, Entry(job.rec, job.len, end))
    /\ phase' = "open" /\ job' = None
    /\ UNCHANGED <<hdr, file, gen, write, moved, cut, out, inflight, last>>

\* fsyncSync throws after currentOffset has moved: the caller sees a failure.
FsyncError ==
    /\ "fsync_error" \in Faults /\ Strict
    /\ phase = "appending" /\ job.done = job.len
    /\ end' = end + job.len
    /\ phase' = "open" /\ job' = None
    /\ UNCHANGED <<hdr, file, disk, dirty, gen, write, moved, cut,
                   log, out, inflight, last>>

-----------------------------------------------------------------------------
(* compact(): kept are the positions in log of the records                 *)
(* shouldKeepOperation accepts.                                            *)

\* Any of the records, in order.
Selections ==
    {at \in UNION {[1 .. n -> DOMAIN log] : n \in 0 .. Len(log)} :
        \A j, k \in DOMAIN at : j < k => at[j] < at[k]}

Compact(kept) ==
    /\ phase = "open"
    /\ moved => "scan_again" \in Faults
    /\ phase' = "compacting"
    /\ gen' = GenFrom(end) /\ write' = 0
    /\ log' = [k \in DOMAIN kept |-> log[kept[k]]]
    /\ dirty' = TRUE
    /\ UNCHANGED <<hdr, file, disk, end, job, moved, cut, out, inflight, last>>

\* Mutant: the checksum is not counted in byteLength.
CompactKeepShort ==
    /\ phase = "compacting"
    /\ \E n \in MinLen .. MaxCells :
          LET e == Entry(HeaderWin[1].rec, n, gen.pos) IN
          /\ Yields(n)
          /\ \E i \in DOMAIN log :
                /\ log[i] = e
                /\ file' = IF write < gen.pos
                           THEN Written(file, write, SubSeq(file, gen.pos + 1, gen.pos + n - 1))
                           ELSE file
                /\ log' = [log EXCEPT ![i].off = write]
          /\ moved' = (moved \/ write < gen.pos)
          /\ write' = write + n - 1
          /\ gen' = Advanced(n)
    /\ UNCHANGED <<hdr, disk, dirty, phase, end, job, cut, out, inflight, last>>

CompactKeep ==
    /\ phase = "compacting"
    /\ \E n \in MinLen .. MaxCells :
          LET e == Entry(HeaderWin[1].rec, n, gen.pos) IN
          /\ Yields(n)
          /\ \E i \in DOMAIN log :
                /\ log[i] = e
                /\ file' = IF write < gen.pos
                           THEN Written(file, write, SubSeq(file, gen.pos + 1, gen.pos + n))
                           ELSE file
                /\ log' = [log EXCEPT ![i].off = write]
          /\ moved' = (moved \/ write < gen.pos)
          /\ write' = write + n
          /\ gen' = Advanced(n)
    /\ UNCHANGED <<hdr, disk, dirty, phase, end, job, cut, out, inflight, last>>

CompactSkip ==
    /\ phase = "compacting"
    /\ \E n \in MinLen .. MaxCells :
          /\ Yields(n)
          /\ \A i \in DOMAIN log : log[i] # Entry(HeaderWin[1].rec, n, gen.pos)
          /\ gen' = Advanced(n)
    /\ UNCHANGED <<hdr, file, disk, dirty, phase, end, job, write, moved, cut, log, out,
                   inflight, last>>

\* truncateTo(writeHead).  A record that looks torn ends the scan as well: the
\* generator truncates the file there and compact() carries on.
EndCompact ==
    /\ phase = "compacting" /\ (AtEnd \/ Torn)
    /\ file' = SubSeq(file, 1, write)
    /\ end' = write /\ write' = 0 /\ gen' = NoGen /\ moved' = FALSE
    /\ phase' = "open"
    /\ UNCHANGED <<hdr, disk, dirty, job, cut, log, out, inflight, last>>

\* compact() throws between two moves: readOperations finds a bad record, or a
\* read or the truncation fails.  The session goes on, on the file as it is.
CompactError ==
    /\ phase = "compacting"
    /\ Broken \/ "compact_error" \in Faults
    /\ phase' = "open" /\ write' = 0 /\ gen' = NoGen
    /\ UNCHANGED <<hdr, file, disk, dirty, end, job, moved, cut,
                   log, out, inflight, last>>

\* writeRawAt has written k cells of the record the scan is at, which memory
\* still knows by its old offset.
MovedInPart(n, k) ==
    /\ Yields(n) /\ write < gen.pos
    /\ \E i \in DOMAIN log : log[i] = Entry(HeaderWin[1].rec, n, gen.pos)
    /\ file' = Written(file, write, SubSeq(file, gen.pos + 1, gen.pos + k))
    /\ moved' = TRUE

\* Mutant: memory learns of the move before it is written.
MoveErrorUpdatesFirst ==
    /\ "compact_error" \in Faults
    /\ phase = "compacting"
    /\ \E n \in MinLen .. MaxCells : \E k \in 1 .. n - 1 :
          LET e == Entry(HeaderWin[1].rec, n, gen.pos) IN
          /\ MovedInPart(n, k)
          /\ cut' = IF write + k > gen.pos THEN e ELSE None
          /\ log' = [i \in DOMAIN log |->
                        IF log[i] = e THEN [e EXCEPT !.off = write] ELSE log[i]]
    /\ phase' = "open" /\ write' = 0 /\ gen' = NoGen
    /\ UNCHANGED <<hdr, disk, dirty, end, job, out, inflight, last>>

\* compact() throws inside a move.  A part that is longer than the gap before
\* the record has overwritten the beginning of the record itself.
MoveError ==
    /\ "compact_error" \in Faults
    /\ phase = "compacting"
    /\ \E n \in MinLen .. MaxCells : \E k \in 1 .. n - 1 :
          /\ MovedInPart(n, k)
          /\ cut' = IF write + k > gen.pos THEN Entry(HeaderWin[1].rec, n, gen.pos) ELSE None
    /\ phase' = "open" /\ write' = 0 /\ gen' = NoGen
    /\ UNCHANGED <<hdr, disk, dirty, end, job, log, out, inflight, last>>

-----------------------------------------------------------------------------
(* stats(): computeStorageStats reads the whole log.                       *)

Stats ==
    /\ phase = "open"
    /\ moved => "scan_again" \in Faults
    /\ phase' = "scanning" /\ gen' = GenFrom(end)
    /\ UNCHANGED <<hdr, file, disk, dirty, end, job, write, moved, cut,
                   log, out, inflight, last>>

StatsRecord ==
    /\ phase = "scanning"
    /\ \E n \in MinLen .. MaxCells : Yields(n) /\ gen' = Advanced(n)
    /\ UNCHANGED <<hdr, file, disk, dirty, phase, end, job, write, moved, cut, log, out,
                   inflight, last>>

\* It returns, or throws at a bad record; one that looks torn it truncates, as
\* the replay does.
EndStats ==
    /\ phase = "scanning"
    /\ \E torn \in BOOLEAN :
          /\ IF torn THEN Torn ELSE AtEnd \/ Broken
          /\ file' = IF torn THEN SubSeq(file, 1, gen.pos) ELSE file
          /\ end' = IF torn THEN gen.pos ELSE end
          /\ dirty' = (dirty \/ torn)
    /\ phase' = "open" /\ gen' = NoGen
    /\ UNCHANGED <<hdr, disk, job, write, moved, cut, log, out, inflight, last>>

-----------------------------------------------------------------------------
(* The end of a session.                                                   *)

Down ==
    /\ phase' = "down"
    /\ end' = 0 /\ job' = None /\ gen' = NoGen /\ write' = 0 /\ cut' = None /\ out' = << >>
    /\ UNCHANGED <<hdr, log, last>>

Close ==
    /\ phase = "open"
    /\ Down
    /\ UNCHANGED <<file, disk, dirty, moved, inflight>>

InFlight ==
    IF job = None THEN inflight ELSE Entry(job.rec, job.len, end)

\* The process dies, the operating system does not.
Crash ==
    /\ \/ phase \in {"open", "appending", "scanning", "reading"} /\ "crash" \in Faults
       \/ phase = "compacting" /\ "crash_in_compact" \in Faults
       \/ phase = "creating" /\ "crash_in_create" \in Faults
    /\ Down
    /\ inflight' = InFlight
    /\ UNCHANGED <<file, disk, dirty, moved>>

\* It dies inside a move, or between a move and the update of memory.
CrashInMove ==
    /\ phase = "compacting" /\ "crash_in_compact" \in Faults
    /\ \E n \in MinLen .. MaxCells : \E k \in 1 .. n : MovedInPart(n, k)
    /\ Down
    /\ UNCHANGED <<disk, dirty, inflight>>

\* The cells that differ between the operating system and stable storage.
Unflushed ==
    {i \in 1 .. Len(file) : i > Len(disk) \/ disk[i] # file[i]}
        \cup Len(file) + 1 .. Len(disk)

\* A flushed size, and of the cells not flushed any subset; a cell that was
\* never flushed reads as zeros.
Survives(n, lost) ==
    [i \in 1 .. n |->
        IF i \notin lost /\ i <= Len(file) THEN file[i]
        ELSE IF i <= Len(disk) THEN disk[i]
        ELSE Zero]

\* The machine dies, with the file under any of the sizes it has had.
PowerLoss ==
    /\ (IF dirty THEN "power_loss_dirty" ELSE "power_loss") \in Faults
    /\ phase \notin {"creating", "compacting"}
    /\ \E n \in Len(disk) .. Len(file) \cup Len(file) .. Len(disk),
          lost \in SUBSET Unflushed :
             /\ file' = Survives(n, lost)
             /\ disk' = Survives(n, lost)
    /\ dirty' = FALSE
    /\ Down
    /\ inflight' = InFlight
    /\ UNCHANGED moved

-----------------------------------------------------------------------------

Next ==
    \/ OpenNew \/ WriteHeader \/ OpenExisting
    \/ ReplayRecord \/ ReplayEnd \/ RecoverTornTail \/ ReplayFails
    \/ \E n \in Lengths : AppendOperation(n)
    \/ WriteSome \/ WriteError \/ AppendReturns \/ FsyncError
    \/ \E kept \in Selections : Compact(kept)
    \/ CompactKeep \/ CompactSkip \/ EndCompact \/ CompactError \/ MoveError
    \/ Stats \/ StatsRecord \/ EndStats
    \/ Close \/ Crash \/ CrashInMove \/ PowerLoss

Spec == Init /\ [][Next]_vars

-----------------------------------------------------------------------------

RecordCells ==
    {Zero} \cup UNION {{Cell(r, i, n) : r \in 1 .. MaxRecs, i \in 1 .. n} : n \in Lengths}

Entries == [rec : 1 .. MaxRecs, len : Lengths, off : Nat]

Jobs == [rec : 1 .. MaxRecs, len : Lengths, done : Nat]

ASSUME NoneAssumption == None \notin Entries /\ None \notin Jobs

\* Every variable has the shape its comment says.
TypeOK ==
    /\ hdr \in {"absent", "empty", "written"}
    /\ file \in Seq(RecordCells) /\ disk \in Seq(RecordCells)
    /\ dirty \in BOOLEAN /\ moved \in BOOLEAN
    /\ phase \in {"down", "creating", "reading", "open", "appending", "scanning",
                  "compacting", "failed"}
    /\ end \in 0 .. MaxCells /\ write \in 0 .. MaxCells /\ last \in 0 .. MaxRecs
    /\ job \in Jobs \cup {None}
    /\ gen \in [pos : Nat, win : Seq(RecordCells), stop : Nat]
    /\ log \in Seq(Entries) /\ out \in Seq(Entries)
    /\ inflight \in Entries \cup {None} /\ cut \in Entries \cup {None}

\* Every record a session refers to can be read whole at its offset, while it
\* appends, after appends that failed half way, while a compaction is overwriting
\* the file between its moves, and after a compact() that threw: but for the one
\* record whose move failed when it had reached into the record itself.
AckedReadable ==
    phase \in {"open", "appending", "scanning", "compacting"} =>
        \A i \in DOMAIN log : log[i] # cut => ReadableIn(file, log[i])

\* The window of readOperations shows what the file holds, although compact()
\* writes to the file while it reads: what it judges is what it copies.
WindowFresh ==
    phase \in {"reading", "scanning", "compacting"} =>
        /\ gen.pos + Len(gen.win) <= Len(file)
        /\ gen.win = SubSeq(file, gen.pos + 1, gen.pos + Len(gen.win))

\* A scan of the log by compact() or stats() meets no torn and no bad record,
\* whatever appends have left behind currentOffset, as long as no compact() has
\* failed in this session after it moved something.
ScanMeetsNoTornRecord ==
    phase \in {"scanning", "compacting"} => ~Torn /\ ~Broken

\* A compacted file holds the live records, in order, without gaps.
CompactionPacks ==
    [][EndCompact =>
         \A i \in 0 .. Len(log') :
             LET stop == IF i = 0 THEN 0 ELSE log'[i].off + log'[i].len IN
             stop = IF i = Len(log') THEN Len(file') ELSE log'[i + 1].off]_vars

\* open() finds every acknowledged record, in order, and nothing else but the
\* record whose append the crash cut short, if all of it was written; unless a
\* compaction was cut short.
RecoversAcked ==
    [][phase = "reading" /\ phase' = "open" /\ ~moved =>
         \/ out = log
         \/ inflight # None /\ out = Append(log, inflight)]_vars

\* open() finds every record that was live when the last session ended.
NothingLost ==
    [][phase = "reading" /\ phase' = "open" =>
         \A i \in DOMAIN log : \E j \in DOMAIN out : out[j].rec = log[i].rec]_vars

\* Without write errors, open() refuses a file only when its creation or a compaction
\* was cut short, or when a power loss left zeros in it: a crash inside any number of
\* appends, recoveries and replays never costs the database.
RefusesOnlyDamage ==
    phase = "failed" => hdr = "empty" \/ moved \/ \E i \in DOMAIN file : file[i] = Zero

-----------------------------------------------------------------------------
(* The inductive invariant behind AckedReadable, WindowFresh,              *)
(* ScanMeetsNoTornRecord and CompactionPacks, for a session that does not  *)
(* scan the log again after a compact() that failed.                       *)

\* From a to b the file holds whole records, each followed by the next.
Tiled(f, a, b) ==
    /\ a < b => f[a + 1].part = 1
    /\ \A p \in a .. b - 1 : f[p + 1].part = 1 =>
          LET n == f[p + 1].len IN
          /\ p + n <= b /\ ReadableIn(f, Entry(f[p + 1].rec, n, p))
          /\ p + n < b => f[p + n + 1].part = 1

\* The records of s, but for a damaged one, are whole, and all are below b, in
\* order and apart from each other.
Laid(f, s, b, damaged) ==
    /\ \A i \in DOMAIN s :
          s[i].off + s[i].len <= b /\ (s[i] # damaged => ReadableIn(f, s[i]))
    /\ \A i, j \in DOMAIN s : i < j => s[i].off + s[i].len <= s[j].off

\* The window shows the file from fileOffset on.
Fresh(w) ==
    /\ gen.pos + Len(w) <= gen.stop
    /\ \A i \in 1 .. Len(w) : w[i] = file[gen.pos + i]

EndOf(i) == IF i = 0 THEN 0 ELSE log[i].off + log[i].len

\* Nothing is known of a file whose header has not been written.
BeforeFirstOpen ==
    /\ phase = "creating" => hdr = "empty"
    /\ hdr # "written" =>
          /\ file = << >> /\ disk = << >> /\ log = << >> /\ end = 0 /\ ~moved
          /\ phase \in {"down", "creating", "failed"}

FilesInBounds == Len(file) <= MaxCells /\ Len(disk) <= MaxCells

\* Up to currentOffset the file holds what memory refers to, and whole records
\* only unless a compaction has left it half moved.
SessionFile ==
    phase \in {"open", "appending", "scanning", "compacting"} =>
        /\ end <= Len(file) /\ Laid(file, log, end, cut)
        /\ ~moved => Tiled(file, 0, end)

\* Only a compact() that has failed leaves a record damaged.
CutByFailure == cut # None => moved /\ phase \in {"open", "appending"}

\* The bytes written so far are the first of the record.
AppendInProgress ==
    /\ phase # "appending" => job = None
    /\ phase = "appending" =>
          /\ job \in Jobs
          /\ job.done <= job.len /\ end + job.done <= Len(file)
          /\ end + job.len <= MaxCells
          /\ \A i \in 1 .. job.done : file[end + i] = Cell(job.rec, i, job.len)

\* A scan stays within the part of the file it was started on.
ScanInFile ==
    phase \in {"reading", "scanning", "compacting"} =>
        /\ gen.stop = end /\ end <= Len(file) /\ gen.pos <= end
        /\ Fresh(gen.win)

\* What the replay has passed is whole records, those it has yielded.
ReplayScan ==
    phase = "reading" =>
        /\ end = Len(file)
        /\ Tiled(file, 0, gen.pos) /\ Laid(file, out, gen.pos, None)

\* stats() has whole records ahead of it.
StatsScan == phase = "scanning" => ~moved /\ Tiled(file, gen.pos, end)

\* The first m live records are packed up to writeHead, the others are still
\* ahead of the scan.
CompactScan ==
    phase = "compacting" =>
        /\ write <= gen.pos
        /\ Tiled(file, 0, write) /\ Tiled(file, gen.pos, end)
        /\ \E m \in 0 .. Len(log) :
              /\ EndOf(m) = write
              /\ \A i \in 1 .. m : log[i].off = EndOf(i - 1) /\ EndOf(i) <= write
              /\ \A i \in m + 1 .. Len(log) : log[i].off >= gen.pos

\* All of the above together.
IInv ==
    /\ TypeOK /\ BeforeFirstOpen /\ FilesInBounds /\ SessionFile /\ CutByFailure
    /\ AppendInProgress /\ ScanInFile /\ ReplayScan /\ StatsScan /\ CompactScan

-----------------------------------------------------------------------------
(* The invariant behind RecoversAcked, for sessions that crash and machines *)
(* that lose power, with durability strict if they do.                     *)

OnlyCrashes ==
    /\ Faults \subseteq {"crash", "crash_in_create", "power_loss"}
    /\ "power_loss" \in Faults => Strict

\* Where the acknowledged records end.
Acked == EndOf(Len(log))

\* The acknowledged records are in f, one after the other.
Packed(f) ==
    \A i \in DOMAIN log : log[i].off = EndOf(i - 1) /\ ReadableIn(f, log[i])

\* What f holds behind them is what a write of the record in flight has left.
Remnant(f) ==
    Len(f) > Acked =>
        /\ inflight # None
        /\ inflight.off = Acked /\ Len(f) <= Acked + inflight.len
        /\ \A i \in Acked + 1 .. Len(f) :
              f[i] \in {Zero, Cell(inflight.rec, i - Acked, inflight.len)}

\* A session that is not compacting has acknowledged all that its file holds.
NothingBehind ==
    /\ cut = None
    /\ hdr # "written" => inflight = None
    /\ phase \in {"open", "appending", "scanning", "compacting"} => inflight = None
    /\ phase \in {"open", "scanning"} => end = Acked /\ Len(file) = end
    /\ phase = "appending" => end = Acked /\ Len(file) = end + job.done

\* So do the file and, unless there is something to flush, the stable storage.
Recoverable ==
    /\ phase = "compacting" => dirty
    /\ phase # "compacting" =>
          /\ Packed(file)
          /\ phase \notin {"open", "appending", "scanning"} => Remnant(file)
          /\ Strict /\ ~dirty => Packed(disk) /\ Remnant(disk)

\* The replay yields the acknowledged records, then the one in flight.
YieldsAcked ==
    phase = "reading" =>
        /\ Len(out) <= Len(log) + 1
        /\ \A i \in DOMAIN out : out[i] = IF i <= Len(log) THEN log[i] ELSE inflight
        /\ Len(out) <= Len(log) => gen.pos = EndOf(Len(out))
        /\ Len(out) > Len(log) =>
              /\ inflight # None /\ inflight.off = Acked
              /\ gen.pos = Acked + inflight.len /\ Len(file) <= gen.pos

RecoveryIInv == IInv /\ NothingBehind /\ Recoverable /\ YieldsAcked

=============================================================================
