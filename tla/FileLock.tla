------------------------------- MODULE FileLock -------------------------------
(***************************************************************************)
(* The lock file of storage/file-lock.ts and its use by open() and close() *)
(* (api/open.ts, api/database.ts).  Every file system call and the signal  *)
(* sent by isProcessAlive is a step of its own: processes interleave       *)
(* between them, and may die there.                                        *)
(***************************************************************************)
EXTENDS Integers

CONSTANTS
    Procs,       \* processes, named by their pid
    MaxRetries,  \* MAX_RETRIES of tryAcquire
    PidReuse,    \* whether the system gives the pid of a dead process again
    None         \* no file, no pid

ASSUME RetriesAssumption == MaxRetries \in Nat \ {0}

Files == [by : Procs, pid : BOOLEAN, orphan : BOOLEAN]

ASSUME NoneAssumption == None \notin Procs \cup Files

VARIABLES
    file,     \* the lock file: who created it, whether its pid is in it yet,
              \* and (observer) whether its creator has died
    alive,    \* the processes that run
    pc,       \* what each process does next
    attempt,  \* failed rounds of tryAcquire
    seen,     \* holdingPid
    contended \* observer: two acquisitions have overlapped

vars == <<file, alive, pc, attempt, seen, contended>>

Acquiring == {"create", "write", "read", "judge", "unlink"}

Holding == {"locked", "open"}

\* Every variable has the shape its comment says.
TypeOK ==
    /\ file \in Files \cup {None}
    /\ alive \in [Procs -> BOOLEAN]
    /\ pc \in [Procs -> Acquiring \cup Holding \cup {"idle"}]
    /\ attempt \in [Procs -> 0 .. MaxRetries]
    /\ seen \in [Procs -> Procs \cup {None}]
    /\ contended \in BOOLEAN

Init ==
    /\ file = None
    /\ alive = [p \in Procs |-> TRUE]
    /\ pc = [p \in Procs |-> "idle"]
    /\ attempt = [p \in Procs |-> 0]
    /\ seen = [p \in Procs |-> None]
    /\ contended = FALSE

\* The lock file is the one this run of p has created.
Owns(p) == file # None /\ file.by = p /\ ~file.orphan

Goto(p, label) == pc' = [pc EXCEPT ![p] = label]

-----------------------------------------------------------------------------
(* FileLock.acquire                                                        *)

Acquire(p) ==
    /\ alive[p] /\ pc[p] = "idle"
    /\ Goto(p, "create")
    /\ attempt' = [attempt EXCEPT ![p] = 0]
    /\ UNCHANGED <<file, alive, seen>>

\* openSync(lockPath, "wx"): exclusive create, or EEXIST.
Create(p) ==
    /\ pc[p] = "create"
    /\ \/ /\ file = None /\ Goto(p, "write")
          /\ file' = [by |-> p, pid |-> FALSE, orphan |-> FALSE]
       \/ file # None /\ UNCHANGED file /\ Goto(p, "read")
    /\ UNCHANGED <<alive, attempt, seen>>

\* The pid goes to the file this process created, even when that file is no
\* longer the one at lockPath.
WritePid(p) ==
    /\ pc[p] = "write"
    /\ file' = IF Owns(p) THEN [file EXCEPT !.pid = TRUE] ELSE file
    /\ Goto(p, "locked")
    /\ UNCHANGED <<alive, attempt, seen>>

\* A missing or still empty file gives no pid.
ReadHolder(p) ==
    /\ pc[p] = "read"
    /\ seen' = [seen EXCEPT ![p] =
                   IF file # None /\ file.pid THEN file.by ELSE None]
    /\ Goto(p, "judge")
    /\ UNCHANGED <<file, alive, attempt>>

\* Mutant: isProcessAlive answers false.
JudgeDead(p) ==
    /\ pc[p] = "judge"
    /\ Goto(p, "unlink")
    /\ seen' = [seen EXCEPT ![p] = None]
    /\ UNCHANGED <<file, alive, attempt>>

\* Mutant: no liveness check, whoever wrote a pid holds the lock.
JudgeAnyPid(p) ==
    /\ pc[p] = "judge"
    /\ Goto(p, IF seen[p] # None THEN "idle" ELSE "unlink")
    /\ seen' = [seen EXCEPT ![p] = None]
    /\ UNCHANGED <<file, alive, attempt>>

\* The holder lives: acquire throws.
Judge(p) ==
    /\ pc[p] = "judge"
    /\ Goto(p, IF seen[p] # None /\ alive[seen[p]] THEN "idle" ELSE "unlink")
    /\ seen' = [seen EXCEPT ![p] = None]
    /\ UNCHANGED <<file, alive, attempt>>

\* Mutant: attempts are not counted.
UnlinkUncounted(p) ==
    /\ pc[p] = "unlink"
    /\ file' = None
    /\ Goto(p, "create")
    /\ UNCHANGED <<alive, attempt, seen>>

\* Mutant: one round too many.
UnlinkOneRoundMore(p) ==
    /\ pc[p] = "unlink"
    /\ file' = None
    /\ attempt' = [attempt EXCEPT ![p] = @ + 1]
    /\ Goto(p, IF attempt[p] + 1 <= MaxRetries THEN "create" ELSE "idle")
    /\ UNCHANGED <<alive, seen>>

\* Whatever file is there now is removed, then the next round or a throw.
UnlinkStale(p) ==
    /\ pc[p] = "unlink"
    /\ file' = None
    /\ attempt' = [attempt EXCEPT ![p] = @ + 1]
    /\ Goto(p, IF attempt[p] + 1 < MaxRetries THEN "create" ELSE "idle")
    /\ UNCHANGED <<alive, seen>>

-----------------------------------------------------------------------------
(* The rest of open(), and close().                                        *)

Opened(p) ==
    /\ pc[p] = "locked"
    /\ Goto(p, "open")
    /\ UNCHANGED <<file, alive, attempt, seen>>

\* Mutant: open() rethrows without releasing the lock.
OpenFailsLocked(p) ==
    /\ pc[p] = "locked"
    /\ Goto(p, "idle")
    /\ UNCHANGED <<file, alive, attempt, seen>>

\* FileStorage.open or the replay throws; the lock is released.
OpenFails(p) ==
    /\ pc[p] = "locked"
    /\ file' = None
    /\ Goto(p, "idle")
    /\ UNCHANGED <<alive, attempt, seen>>

Close(p) ==
    /\ pc[p] = "open"
    /\ file' = None
    /\ Goto(p, "idle")
    /\ UNCHANGED <<alive, attempt, seen>>

-----------------------------------------------------------------------------
(* Processes die anywhere, leaving the lock file where it is.              *)

Die(p) ==
    /\ alive[p]
    /\ alive' = [alive EXCEPT ![p] = FALSE]
    /\ Goto(p, "idle")
    /\ attempt' = [attempt EXCEPT ![p] = 0]
    /\ seen' = [seen EXCEPT ![p] = None]
    /\ file' = IF Owns(p) THEN [file EXCEPT !.orphan = TRUE] ELSE file

Start(p) ==
    /\ PidReuse /\ ~alive[p]
    /\ alive' = [alive EXCEPT ![p] = TRUE]
    /\ UNCHANGED <<file, pc, attempt, seen>>

-----------------------------------------------------------------------------

\* Steps of a call in progress: it is synchronous, so it goes on by itself.
Step(p) ==
    \/ Create(p) \/ WritePid(p) \/ ReadHolder(p) \/ Judge(p) \/ UnlinkStale(p)
    \/ Opened(p) \/ OpenFails(p)

\* No two acquisitions overlap; sessions, crashes and restarts are free.
Serial == \A p, q \in Procs : pc[p] \in Acquiring /\ pc[q] \in Acquiring => p = q

Next ==
    /\ \E p \in Procs : Acquire(p) \/ Step(p) \/ Close(p) \/ Die(p) \/ Start(p)
    /\ contended' = (contended \/ ~Serial')

Spec == Init /\ [][Next]_vars

Advance(p) == Step(p) /\ contended' = (contended \/ ~Serial')

Fairness == \A p \in Procs : WF_vars(Advance(p))

FairSpec == Spec /\ Fairness

-----------------------------------------------------------------------------

\* At most one process has the database open.
MutualExclusion ==
    \A p, q \in Procs : pc[p] \in Holding /\ pc[q] \in Holding => p = q

\* At most one process has the database open, whatever crashes and whichever
\* pids are given again, as long as no two acquisitions have overlapped.
ExclusiveUnlessContended == ~contended => MutualExclusion

\* A process that lives leaves no lock file behind: the file at lockPath
\* belongs to a process that died, or to one that holds or is taking the lock.
NoLeak ==
    file # None /\ ~file.orphan => pc[file.by] \in Holding \cup {"write"}

\* tryAcquire ends: it never retries for ever, whatever the others do.
AcquireTerminates ==
    \A p \in Procs : pc[p] = "create" ~> pc[p] \in Holding \cup {"idle"}

\* An acquisition that finds no live process named in the lock file succeeds,
\* unless another acquisition overlaps it or the pid of the dead owner is
\* given to a new process meanwhile.
StaleLockReclaimed ==
    \A p \in Procs :
        /\ pc[p] = "create" /\ attempt[p] = 0 /\ ~contended
        /\ file = None \/ ~file.pid \/ ~alive[file.by]
        ~> \/ pc[p] = "locked" \/ ~alive[p] \/ contended
           \/ file # None /\ file.by # p /\ alive[file.by]

-----------------------------------------------------------------------------
(* The inductive invariant behind ExclusiveUnlessContended.  SerialIInv    *)
(* lasts until two acquisitions overlap; the rest always holds.            *)

\* Only running processes are inside a call or a session.
Running == \A p \in Procs : pc[p] # "idle" => alive[p]

\* The lock file is that of the process that took or is taking the lock.
OwnFile ==
    \A p \in Procs :
        /\ pc[p] \in Holding => file = [by |-> p, pid |-> TRUE, orphan |-> FALSE]
        /\ pc[p] = "write" => file = [by |-> p, pid |-> FALSE, orphan |-> FALSE]

\* An acquisition about to remove the lock file has seen that nobody holds
\* the lock: it read the holder's pid if there was one.
Judged ==
    \A p, q \in Procs :
        pc[q] \in Holding =>
            /\ pc[p] = "judge" => seen[p] = q
            /\ pc[p] # "unlink"

\* A call in progress has rounds left.
RoundsLeft == \A p \in Procs : pc[p] \in Acquiring => attempt[p] < MaxRetries

SerialIInv == Serial /\ Running /\ OwnFile /\ Judged

IInv == TypeOK /\ RoundsLeft /\ (~contended => SerialIInv)

=============================================================================
