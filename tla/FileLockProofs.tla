---------------------------- MODULE FileLockProofs ----------------------------
(* Proof that the lock file excludes two holders for any set of processes, *)
(* with crashes at every point and reused pids, until two acquisitions     *)
(* overlap.                                                                *)
EXTENDS FileLock, TLAPS

\* An idle system satisfies the inductive invariant.
LEMMA InitIInv == Init => IInv
<1> SUFFICES ASSUME Init PROVE IInv
  OBVIOUS
<1>1. TypeOK /\ RoundsLeft
  <2>1. attempt \in [Procs -> 0 .. MaxRetries]
    BY RetriesAssumption DEF Init
  <2>2. alive \in [Procs -> BOOLEAN] /\ contended \in BOOLEAN
    BY DEF Init
  <2>3. RoundsLeft
    BY DEF Init, RoundsLeft, Acquiring
  <2> QED
    BY <2>1, <2>2, <2>3 DEF Init, TypeOK
<1>2. SerialIInv
  BY DEF Init, SerialIInv, Serial, Running, OwnFile, Judged, Acquiring, Holding
<1> QED
  BY <1>1, <1>2 DEF IInv

\* A lock file is there, whatever it holds.
LEMMA FileNotNone ==
  ASSUME NEW p \in Procs, NEW b \in BOOLEAN
  PROVE  [by |-> p, pid |-> b, orphan |-> FALSE] \in Files /\ [by |-> p, pid |-> b, orphan |-> FALSE] # None
<1>1. [by |-> p, pid |-> b, orphan |-> FALSE] \in Files
  BY DEF Files
<1> QED
  BY <1>1, NoneAssumption

\* A step of a process keeps the shape of the state and its rounds in bounds,
\* whatever the other processes are doing.
LEMMA StepTypeOK ==
  ASSUME TypeOK, RoundsLeft, contended' \in BOOLEAN, NEW p \in Procs,
         Acquire(p) \/ Step(p) \/ Close(p) \/ Die(p) \/ Start(p)
  PROVE  TypeOK' /\ RoundsLeft'
<1> USE NoneAssumption, RetriesAssumption
        DEF TypeOK, RoundsLeft, Goto, Acquiring, Holding
<1>1. CASE Acquire(p)
  BY <1>1 DEF Acquire
<1>2. CASE Create(p)
  <2>1. [by |-> p, pid |-> FALSE, orphan |-> FALSE] \in Files
    BY DEF Files
  <2>2. file' \in Files \cup {None}
    BY <1>2, <2>1 DEF Create
  <2> QED
    BY <1>2, <2>2 DEF Create
<1>3. CASE WritePid(p)
  <2>1. file # None => [file EXCEPT !.pid = TRUE] \in Files
    BY DEF Files
  <2>2. file' \in Files \cup {None}
    BY <1>3, <2>1 DEF Owns, WritePid
  <2> QED
    BY <1>3, <2>2 DEF WritePid
<1>4. CASE ReadHolder(p)
  <2>1. file # None => file.by \in Procs
    BY DEF Files
  <2> DEFINE holder == IF file # None /\ file.pid THEN file.by ELSE None
  <2>2. holder \in Procs \cup {None}
    BY <2>1
  <2>3. seen' = [seen EXCEPT ![p] = holder]
    BY <1>4 DEF ReadHolder
  <2> HIDE DEF holder
  <2>4. seen' \in [Procs -> Procs \cup {None}]
    BY <2>2, <2>3
  <2> QED
    BY <1>4, <2>4 DEF ReadHolder
<1>5. CASE Judge(p)
  BY <1>5 DEF Judge
<1>6. CASE UnlinkStale(p)
  BY <1>6 DEF UnlinkStale
<1>7. CASE Opened(p)
  BY <1>7 DEF Opened
<1>8. CASE OpenFails(p)
  BY <1>8 DEF OpenFails
<1>9. CASE Close(p)
  BY <1>9 DEF Close
<1>10. CASE Die(p)
  <2>1. file # None => [file EXCEPT !.orphan = TRUE] \in Files
    BY DEF Files
  <2>2. file' \in Files \cup {None}
    BY <1>10, <2>1 DEF Owns, Die
  <2> QED
    BY <1>10, <2>2 DEF Die
<1>11. CASE Start(p)
  BY <1>11 DEF Start
<1> QED
  BY <1>1, <1>2, <1>3, <1>4, <1>5, <1>6, <1>7, <1>8, <1>9, <1>10, <1>11 DEF Step

\* A step after which acquisitions still do not overlap keeps SerialIInv.
LEMMA StepSerialIInv ==
  ASSUME TypeOK, SerialIInv, Serial', NEW p \in Procs,
         Acquire(p) \/ Step(p) \/ Close(p) \/ Die(p) \/ Start(p)
  PROVE  SerialIInv'
<1> USE NoneAssumption
        DEF SerialIInv, TypeOK, Serial, Running, OwnFile, Judged, Goto,
            Acquiring, Holding
<1>0. \A q \in Procs, b \in BOOLEAN : [by |-> q, pid |-> b, orphan |-> FALSE] # None
  BY FileNotNone
<1>1. CASE Acquire(p)
  <2>1. Running'
    BY <1>1 DEF Acquire
  <2>2. OwnFile'
    BY <1>1 DEF Acquire
  <2>3. Judged'
    BY <1>1 DEF Acquire
  <2> QED
    BY <2>1, <2>2, <2>3
<1>2. CASE Create(p)
  <2>1. Running'
    BY <1>2 DEF Create
  <2>2. OwnFile'
    <3>1. file = None => \A q \in Procs : pc[q] \notin Holding \cup {"write"}
      BY <1>0
    <3> QED
      BY <1>2, <3>1 DEF Create
  <2>3. Judged'
    BY <1>2 DEF Create
  <2> QED
    BY <2>1, <2>2, <2>3
<1>3. CASE WritePid(p)
  <2>1. Running'
    BY <1>3 DEF WritePid
  <2>2. file = [by |-> p, pid |-> FALSE, orphan |-> FALSE]
    BY <1>3 DEF WritePid
  <2>3. Owns(p)
    BY <1>0, <2>2 DEF Owns
  <2>4. file' = [by |-> p, pid |-> TRUE, orphan |-> FALSE]
    BY <1>3, <2>2, <2>3 DEF WritePid
  <2>5. \A q \in Procs : q # p => pc[q] \notin Holding \cup {"write"}
    BY <2>2
  <2>6. OwnFile'
    BY <1>3, <2>4, <2>5 DEF WritePid
  <2>7. Judged'
    BY <1>3, <2>5 DEF WritePid
  <2> QED
    BY <2>1, <2>6, <2>7
<1>4. CASE ReadHolder(p)
  <2>1. Running'
    BY <1>4 DEF ReadHolder
  <2>2. OwnFile'
    BY <1>4 DEF ReadHolder
  <2>3. \A q \in Procs : pc[q] \in Holding => file # None /\ file.pid /\ file.by = q
    <3> SUFFICES ASSUME NEW q \in Procs, pc[q] \in Holding
                 PROVE  file # None /\ file.pid /\ file.by = q
      OBVIOUS
    <3>1. file = [by |-> q, pid |-> TRUE, orphan |-> FALSE]
      OBVIOUS
    <3> HIDE DEF SerialIInv, TypeOK, Serial, Running, OwnFile, Judged
    <3> QED
      BY <1>0, <3>1
  <2>4. Judged'
    BY <1>4, <2>3 DEF ReadHolder
  <2> QED
    BY <2>1, <2>2, <2>4
<1>5. CASE Judge(p)
  <2>1. Running'
    BY <1>5 DEF Judge
  <2>2. OwnFile'
    BY <1>5 DEF Judge
  <2>3. Judged'
    BY <1>5 DEF Judge
  <2> QED
    BY <2>1, <2>2, <2>3
<1>6. CASE UnlinkStale(p)
  <2>1. Running'
    BY <1>6 DEF UnlinkStale
  <2>2. OwnFile'
    BY <1>6 DEF UnlinkStale
  <2>3. Judged'
    BY <1>6 DEF UnlinkStale
  <2> QED
    BY <2>1, <2>2, <2>3
<1>7. CASE Opened(p)
  <2>1. Running'
    BY <1>7 DEF Opened
  <2>2. OwnFile'
    BY <1>7 DEF Opened
  <2>3. Judged'
    BY <1>7 DEF Opened
  <2> QED
    BY <2>1, <2>2, <2>3
<1>8. CASE OpenFails(p)
  <2>1. Running'
    BY <1>8 DEF OpenFails
  <2>2. OwnFile'
    BY <1>8 DEF OpenFails
  <2>3. Judged'
    BY <1>8 DEF OpenFails
  <2> QED
    BY <2>1, <2>2, <2>3
<1>9. CASE Close(p)
  <2>1. Running'
    BY <1>9 DEF Close
  <2>2. OwnFile'
    BY <1>9 DEF Close
  <2>3. Judged'
    BY <1>9 DEF Close
  <2> QED
    BY <2>1, <2>2, <2>3
<1>10. CASE Die(p)
  <2>1. Running'
    BY <1>10 DEF Die
  <2>2. OwnFile'
    <3>1. \A q \in Procs : pc[q] \in Holding \cup {"write"} /\ q # p => ~Owns(p)
      BY DEF Owns
    <3> QED
      BY <1>10, <3>1 DEF Die
  <2>3. Judged'
    BY <1>10 DEF Die
  <2> QED
    BY <2>1, <2>2, <2>3
<1>11. CASE Start(p)
  <2>1. Running'
    BY <1>11 DEF Start
  <2>2. OwnFile'
    BY <1>11 DEF Start
  <2>3. Judged'
    BY <1>11 DEF Start
  <2> QED
    BY <2>1, <2>2, <2>3
<1> QED
  BY <1>1, <1>2, <1>3, <1>4, <1>5, <1>6, <1>7, <1>8, <1>9, <1>10, <1>11 DEF Step

\* The invariant is inductive: contended records when SerialIInv may break.
LEMMA StepIInv == IInv /\ [Next]_vars => IInv'
<1> SUFFICES ASSUME IInv, [Next]_vars PROVE IInv'
  OBVIOUS
<1>1. CASE UNCHANGED vars
  BY <1>1 DEF vars, IInv, SerialIInv, TypeOK, RoundsLeft, Serial, Running,
              OwnFile, Judged
<1>2. CASE Next
  <2>1. PICK p \in Procs : Acquire(p) \/ Step(p) \/ Close(p) \/ Die(p) \/ Start(p)
    BY <1>2 DEF Next
  <2>2. contended' = (contended \/ ~Serial')
    BY <1>2 DEF Next
  <2>3. contended' \in BOOLEAN
    BY <2>2 DEF IInv, TypeOK
  <2>4. TypeOK' /\ RoundsLeft'
    BY <2>1, <2>3, StepTypeOK DEF IInv
  <2>5. ASSUME ~contended' PROVE SerialIInv'
    <3>1. ~contended /\ Serial'
      BY <2>2, <2>5
    <3> QED
      BY <2>1, <3>1, StepSerialIInv DEF IInv
  <2> QED
    BY <2>4, <2>5 DEF IInv
<1> QED
  BY <1>1, <1>2

\* Two processes that both hold the lock would both own the one lock file.
LEMMA IInvExcludes == IInv => ExclusiveUnlessContended
  BY DEF IInv, SerialIInv, OwnFile, ExclusiveUnlessContended, MutualExclusion

\* The variables keep their shape; no acquisition counts past MaxRetries.
THEOREM LockTypeCorrect == Spec => []TypeOK
<1>1. IInv => TypeOK
  BY DEF IInv
<1> QED
  BY <1>1, InitIInv, StepIInv, PTL DEF Spec

\* At most one process has the database open, whatever the number of processes,
\* wherever they die and whichever pids are given again, as long as no two
\* calls of FileLock.acquire have overlapped.
THEOREM LockExcludes == Spec => []ExclusiveUnlessContended
  BY InitIInv, StepIInv, IInvExcludes, PTL DEF Spec

\* Every step that takes the creator of the lock file out of its call or session
\* removes the file or leaves it to a dead process, contended or not.
LEMMA StepNoLeak ==
  ASSUME TypeOK, NoLeak, NEW p \in Procs,
         Acquire(p) \/ Step(p) \/ Close(p) \/ Die(p) \/ Start(p)
  PROVE  NoLeak'
<1> USE NoneAssumption DEF NoLeak, TypeOK, Goto, Holding
<1>0. file # None => file \in Files /\ file.by \in Procs
  BY DEF Files
<1>1. CASE Acquire(p)
  BY <1>0, <1>1 DEF Acquire
<1>2. CASE Create(p)
  BY <1>0, <1>2 DEF Create
<1>3. CASE WritePid(p)
  <2>1. file # None => file' # None /\ file'.by = file.by /\ file'.orphan = file.orphan
    <3>1. file # None => [file EXCEPT !.pid = TRUE] \in Files
      BY DEF Files
    <3>2. file # None => [file EXCEPT !.pid = TRUE].by = file.by
                      /\ [file EXCEPT !.pid = TRUE].orphan = file.orphan
      BY <1>0 DEF Files
    <3> QED
      BY <1>3, <3>1, <3>2 DEF WritePid
  <2>2. file = None => file' = None
    BY <1>3 DEF WritePid, Owns
  <2>3. pc' = [pc EXCEPT ![p] = "locked"]
    BY <1>3 DEF WritePid
  <2> QED
    BY <1>0, <2>1, <2>2, <2>3
<1>4. CASE ReadHolder(p)
  BY <1>0, <1>4 DEF ReadHolder
<1>5. CASE Judge(p)
  BY <1>0, <1>5 DEF Judge
<1>6. CASE UnlinkStale(p)
  BY <1>6 DEF UnlinkStale
<1>7. CASE Opened(p)
  BY <1>0, <1>7 DEF Opened
<1>8. CASE OpenFails(p)
  BY <1>8 DEF OpenFails
<1>9. CASE Close(p)
  BY <1>9 DEF Close
<1>10. CASE Die(p)
  <2>1. CASE Owns(p)
    BY <1>0, <1>10, <2>1 DEF Die, Files
  <2>2. CASE ~Owns(p)
    BY <1>0, <1>10, <2>2 DEF Die, Owns
  <2> QED
    BY <2>1, <2>2
<1>11. CASE Start(p)
  BY <1>0, <1>11 DEF Start
<1> QED
  BY <1>1, <1>2, <1>3, <1>4, <1>5, <1>6, <1>7, <1>8, <1>9, <1>10, <1>11 DEF Step

\* A process that lives leaves no lock file behind, whatever the number of
\* processes and however their acquisitions overlap: a failed open() and a
\* close() both release the lock.
THEOREM LockNeverLeaks == Spec => []NoLeak
<1>1. Init => NoLeak
  BY DEF Init, NoLeak
<1>2. IInv /\ NoLeak /\ [Next]_vars => NoLeak'
  <2>1. CASE Next
    BY <2>1, StepNoLeak DEF Next, IInv
  <2>2. CASE UNCHANGED vars
    BY <2>2 DEF vars, NoLeak
  <2> QED
    BY <2>1, <2>2
<1> QED
  BY <1>1, <1>2, InitIInv, StepIInv, PTL DEF Spec

=============================================================================
