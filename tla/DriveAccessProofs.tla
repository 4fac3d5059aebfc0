------------------------- MODULE DriveAccessProofs --------------------------
(***************************************************************************)
(* The safety properties of DriveAccess, for any number of tries, of other *)
(* programs and of calls of Install.                                       *)
(***************************************************************************)
EXTENDS DriveAccess, TLAPS

R == DRIVE_ACCESS_RETRIES

\* The handle on the disk has been locked and is kept while the volume is
\* looked for, opened and locked.
DiskHeld ==
  \/ pc \in {"lookup", "write"}
  \/ pc \in {"open", "lock"} /\ call = "logical"

\* Which call each step belongs to.
ControlInv ==
  /\ pc = "lock" => bLockDrive(call)
  /\ pc = "ask" => ~bLockDrive(call)
  /\ pc = "clear" => call = "driveSize"
  /\ pc = "lookup" => call = "physical"
  /\ pc = "write" => bLockDrive(call)

\* Where a handle may be open: nowhere else, and from the locking on only
\* with the lock.
HandleInv ==
  /\ own["disk"].open =>
       DiskHeld \/ pc = "ask" \/ (pc = "lock" /\ call = "physical")
  /\ own["volume"].open =>
       pc = "write" \/ (pc = "lock" /\ call = "logical")
  /\ DiskHeld /\ own["disk"].open => "disk" \in locked
  /\ pc = "write" /\ own["volume"].open => "volume" \in locked
  /\ pc = "lock" => own[Object(call)].open

\* A lock belongs to an open handle, shuts the others out, and is held only
\* until the end of the write.
LockInv ==
  /\ \A o \in locked : own[o].open /\ Alone(o)
  /\ "disk" \in locked => DiskHeld
  /\ "volume" \in locked => pc = "write"

\* What a call may have slept before it began.
Before(c) ==
  IF c = "sectorSize" THEN 0
  ELSE IF c = "driveSize" THEN R
  ELSE IF c = "physical" THEN 2 * R
  ELSE 4 * R - 1

\* How much has been slept at most, step by step.
NapInv ==
  /\ naps >= 0
  /\ pc = "open" => i < R /\ naps <= Before(call) + i
  /\ pc = "lock" => i < R /\ naps <= Before(call) + (R - 1) + i
  /\ pc = "ask" => naps <= Before(call) + R
  /\ pc = "clear" => naps <= 2 * R
  /\ pc = "lookup" => naps <= 4 * R - 1
  /\ naps <= 6 * R - 2

\* The error in FormatStatus comes from an Install that has returned.
StatusInv ==
  /\ pc # "idle" => installs >= 1
  /\ FormatStatus => installs >= 1
  /\ FormatStatus /\ pc # "idle" => installs > 1
  /\ FirstInstallPatient

\* The two parts of TypeOK: what is Boolean, and the rest.
FlagsOK ==
  bWriteShare \in BOOLEAN /\ FormatStatus \in BOOLEAN /\ hasty \in BOOLEAN

StateOK ==
  /\ theirs \in [Programs -> [on : Objects, h : Handles]]
  /\ own \in [Objects -> Handles]
  /\ locked \subseteq Objects
  /\ pc \in {"idle", "open", "lock", "ask", "clear", "lookup", "write"}
  /\ call \in Calls
  /\ i \in 0 .. R
  /\ installs \in 0 .. MaxInstalls
  /\ naps \in Nat

IInv ==
  /\ StateOK /\ ControlInv /\ HandleInv /\ LockInv /\ NapInv /\ StatusInv

USE AccessAssumption DEF R

\* The fields of a handle are Boolean.
LEMMA HandleFields ==
  /\ Invalid \in Handles
  /\ ~Invalid.open
  /\ \A w, s \in BOOLEAN : /\ Handle(w, s) \in Handles
                           /\ Handle(w, s).open
<1>1. Invalid \in Handles /\ ~Invalid.open
  BY DEF Handles, Invalid
<1>2. ASSUME NEW w \in BOOLEAN, NEW s \in BOOLEAN
      PROVE  Handle(w, s) \in Handles /\ Handle(w, s).open
  BY DEF Handles, Handle
<1> QED
  BY <1>1, <1>2

\* The initial state satisfies the invariant.
LEMMA InitIInv == Init => IInv
<1> SUFFICES ASSUME Init PROVE IInv
  OBVIOUS
<1>1. StateOK
  BY HandleFields DEF Init, StateOK, Objects, Calls
<1>2. ControlInv /\ HandleInv /\ LockInv
  BY HandleFields DEF Init, ControlInv, HandleInv, LockInv, DiskHeld, Objects
<1>3. NapInv /\ StatusInv
  BY DEF Init, NapInv, StatusInv, FirstInstallPatient
<1> QED
  BY <1>1, <1>2, <1>3 DEF IInv

\* Another program opens something: not what is locked.
LEMMA OpensIInv ==
  ASSUME IInv, NEW p \in Programs, ProgramOpens(p)
  PROVE  IInv'
<1> USE DEF ProgramOpens, handleVars, loopVars, historyVars
<1>1. PICK o \in Objects, h \in Handles \ {Invalid} :
        /\ o \notin locked
        /\ theirs' = [theirs EXCEPT ![p] = [on |-> o, h |-> h]]
  BY DEF Grants
<1>2. StateOK'
  BY <1>1 DEF IInv, StateOK
<1>3. LockInv'
  BY <1>1 DEF IInv, StateOK, LockInv, DiskHeld, Alone
<1>4. ControlInv' /\ HandleInv'
  BY DEF IInv, ControlInv, HandleInv, DiskHeld
<1>5. NapInv' /\ StatusInv'
  BY DEF IInv, NapInv, StatusInv, FirstInstallPatient
<1> QED
  BY <1>2, <1>3, <1>4, <1>5 DEF IInv

\* Another program closes something.
LEMMA ClosesIInv ==
  ASSUME IInv, NEW p \in Programs, ProgramCloses(p)
  PROVE  IInv'
<1> USE DEF ProgramCloses, handleVars, loopVars, historyVars
<1>2. StateOK'
  BY HandleFields DEF IInv, StateOK, Objects
<1>3. LockInv'
  BY HandleFields DEF IInv, StateOK, LockInv, DiskHeld, Alone
<1>4. ControlInv' /\ HandleInv'
  BY DEF IInv, ControlInv, HandleInv, DiskHeld
<1>5. NapInv' /\ StatusInv'
  BY DEF IInv, NapInv, StatusInv, FirstInstallPatient
<1> QED
  BY <1>2, <1>3, <1>4, <1>5 DEF IInv

\* The steps of Install outside the two loops.
LEMMA InstallIInv ==
  ASSUME IInv,
         StartInstall \/ AskGeometry \/ FormatShared \/ GetLogicalHandle
           \/ Write
  PROVE  IInv'
<1> USE DEF Enter, handleVars, loopVars, historyVars, worldVars
<1>1. CASE StartInstall
  <2>1. StateOK'
    BY <1>1 DEF IInv, StateOK, StartInstall, Calls
  <2>2. ControlInv' /\ HandleInv' /\ LockInv'
    BY <1>1 DEF IInv, ControlInv, HandleInv, LockInv, DiskHeld, Alone,
                StartInstall, bLockDrive
  <2>3. NapInv' /\ StatusInv'
    BY <1>1 DEF IInv, StateOK, NapInv, StatusInv, FirstInstallPatient,
                StartInstall, Before
  <2> QED
    BY <2>1, <2>2, <2>3 DEF IInv
<1>2. CASE AskGeometry
  <2>1. own' = [o \in Objects |-> IF o = "disk" THEN Invalid ELSE own[o]]
    BY <1>2 DEF AskGeometry, Closed
  <2>2. StateOK'
    BY <1>2, <2>1, HandleFields DEF IInv, StateOK, AskGeometry, Calls
  <2>3. locked = {} /\ ~own["volume"].open
    BY <1>2 DEF IInv, StateOK, Objects, AskGeometry, HandleInv, LockInv,
                DiskHeld, ControlInv, bLockDrive
  <2>4. HandleInv' /\ LockInv'
    BY <1>2, <2>1, <2>3, HandleFields DEF HandleInv, LockInv, Objects,
                                          AskGeometry
  <2>5. ControlInv'
    BY <1>2 DEF IInv, StateOK, Calls, ControlInv, AskGeometry, bLockDrive
  <2>6. NapInv'
    BY <1>2 DEF IInv, StateOK, Calls, ControlInv, bLockDrive, NapInv,
                AskGeometry, Before
  <2>7. StatusInv'
    BY <1>2 DEF IInv, StatusInv, FirstInstallPatient, AskGeometry
  <2> QED
    BY <2>2, <2>4, <2>5, <2>6, <2>7 DEF IInv
<1>3. CASE FormatShared
  <2>1. StateOK'
    BY <1>3 DEF IInv, StateOK, FormatShared, Calls
  <2>2. ControlInv' /\ HandleInv' /\ LockInv'
    BY <1>3 DEF IInv, ControlInv, HandleInv, LockInv, DiskHeld, Alone,
                FormatShared, bLockDrive
  <2>3. NapInv' /\ StatusInv'
    BY <1>3 DEF IInv, StateOK, NapInv, StatusInv, FirstInstallPatient,
                FormatShared, Before
  <2> QED
    BY <2>1, <2>2, <2>3 DEF IInv
<1>4. CASE GetLogicalHandle
  <2>1. StateOK'
    BY <1>4 DEF IInv, StateOK, GetLogicalHandle, Calls
  <2>2. ControlInv' /\ HandleInv' /\ LockInv'
    BY <1>4 DEF IInv, ControlInv, HandleInv, LockInv, DiskHeld, Alone,
                GetLogicalHandle, bLockDrive
  <2>3. NapInv' /\ StatusInv'
    BY <1>4 DEF IInv, StateOK, NapInv, StatusInv, FirstInstallPatient,
                GetLogicalHandle, Before
  <2> QED
    BY <2>1, <2>2, <2>3 DEF IInv
<1>5. CASE Write
  <2>1. own' = [o \in Objects |-> Invalid] /\ locked' = {}
    BY <1>5 DEF Write, CloseAll, Closed
  <2>2. StateOK'
    BY <1>5, <2>1, HandleFields DEF IInv, StateOK, Write
  <2>3. HandleInv' /\ LockInv'
    BY <1>5, <2>1, HandleFields DEF HandleInv, LockInv, Objects, Write
  <2>4. ControlInv'
    BY <1>5 DEF ControlInv, Write
  <2>5. NapInv'
    BY <1>5 DEF IInv, StateOK, NapInv, Write
  <2>6. FormatStatus => FormatStatus'
    BY <1>5, Zenon DEF Write
  <2>7. StatusInv'
    <3>1. installs >= 1
      BY <1>5 DEF IInv, StatusInv, Write
    <3>2. pc' = "idle" /\ installs' = installs /\ hasty' = hasty
      BY <1>5 DEF Write
    <3> QED
      BY <2>6, <3>1, <3>2 DEF IInv, StatusInv, FirstInstallPatient
  <2> QED
    BY <2>2, <2>3, <2>4, <2>5, <2>7 DEF IInv
<1> QED
  BY <1>1, <1>2, <1>3, <1>4, <1>5

\* The loop that opens: a handle is only ever opened where none of Install's
\* own is, and every try counts.
LEMMA TryOpenIInv ==
  ASSUME FlagsOK, IInv, NEW c \in Calls, TryOpen(c)
  PROVE  IInv'
<1> DEFINE o == Object(c)
           Opened == /\ own' = [own EXCEPT ![o] = Wanted]
                     /\ pc' = IF bLockDrive(c) THEN "lock" ELSE After(c)
                     /\ i' = 0 /\ naps' = naps
           Slept ==  /\ own' = own
                     /\ pc' = IF i + 1 = R THEN After(c) ELSE "open"
                     /\ i' = i + 1 /\ naps' = naps + 1
           Ended ==  /\ own' = own
                     /\ pc' = After(c)
                     /\ i' = i /\ naps' = naps
<1>0. /\ Opened \/ Slept \/ Ended
      /\ pc = "open" /\ call = c /\ call' = c
      /\ UNCHANGED <<theirs, locked, hasty, FormatStatus, installs>>
  BY DEF TryOpen, Refused, worldVars
<1>1. /\ o \in Objects /\ ~own[o].open /\ o \notin locked
      /\ c = "logical" => (own["disk"].open => "disk" \in locked)
      /\ c # "logical" => ~own["disk"].open /\ "disk" \notin locked
      /\ ~own["volume"].open /\ "volume" \notin locked
  BY <1>0 DEF IInv, StateOK, Calls, Object, Objects, HandleInv, LockInv,
              DiskHeld
<1>2. Wanted \in Handles /\ Wanted.open
  BY HandleFields DEF Wanted, FlagsOK, bWriteAccess
<1> HIDE DEF o
<1>3. StateOK'
  <2>1. own' \in [Objects -> Handles]
    BY <1>0, <1>1, <1>2 DEF IInv, StateOK
  <2>2. i \in 0 .. R - 1
    BY <1>0 DEF IInv, StateOK, NapInv
  <2>3. i' \in 0 .. R /\ naps' \in Nat
    BY <1>0, <2>2 DEF IInv, StateOK
  <2>4. pc' \in {"open", "lock", "ask", "lookup", "write"}
    BY <1>0 DEF After
  <2> QED
    BY <1>0, <2>1, <2>3, <2>4 DEF IInv, StateOK
<1>4. ControlInv'
  BY <1>0 DEF ControlInv, After, bLockDrive, bWriteAccess, Calls
<1>5. HandleInv'
  <2>1. CASE Opened
    <3>1. CASE c = "logical"
      BY <2>1, <3>1, <1>0, <1>1, <1>2
         DEF IInv, StateOK, HandleInv, DiskHeld, bLockDrive, o, Object,
             Objects
    <3>2. CASE c # "logical"
      BY <2>1, <3>2, <1>0, <1>1, <1>2
         DEF IInv, StateOK, HandleInv, DiskHeld, After, bLockDrive, o, Object,
             Objects, Calls
    <3> QED
      BY <3>1, <3>2
  <2>2. CASE Slept \/ Ended
    BY <2>2, <1>0, <1>1
       DEF IInv, StateOK, HandleInv, DiskHeld, After, bLockDrive,
           bWriteAccess, Calls, Object
  <2> QED
    BY <2>1, <2>2, <1>0
<1>6. LockInv'
  <2>1. \A x \in locked : x \in Objects /\ own'[x] = own[x]
    BY <1>0, <1>1 DEF IInv, StateOK
  <2>2. \A x \in locked : Alone(x)'
    BY <1>0 DEF IInv, LockInv, Alone
  <2>3. "disk" \in locked => c = "logical" /\ DiskHeld'
    BY <1>0, <1>1 DEF DiskHeld, After, bLockDrive, bWriteAccess
  <2> QED
    BY <1>0, <1>1, <2>1, <2>2, <2>3 DEF IInv, LockInv
<1>7. NapInv'
  BY <1>0 DEF IInv, StateOK, NapInv, After, bLockDrive, bWriteAccess, Calls,
              Before
<1>8. StatusInv'
  BY <1>0 DEF IInv, StatusInv, FirstInstallPatient
<1> QED
  BY <1>3, <1>4, <1>5, <1>6, <1>7, <1>8 DEF IInv

\* The loop that locks: a lock is had alone, and a handle without one closed.
LEMMA TryLockIInv ==
  ASSUME IInv, NEW c \in Calls, TryLock(c)
  PROVE  IInv'
<1> USE DEF TryLock, worldVars, historyVars, LockFailed
<1>1. bLockDrive(c) /\ i \in 0 .. R - 1
  BY DEF IInv, StateOK, ControlInv, NapInv
<1>2. Object(c) \in Objects
  BY DEF Object, Objects
<1>3. \/ own' = own
      \/ own' = [x \in Objects |->
                   IF x = Object(c) THEN Invalid ELSE own[x]]
         /\ locked' = locked
  BY DEF Closed
<1>4. StateOK'
  <2>1. own' \in [Objects -> Handles]
    BY <1>3, HandleFields DEF IInv, StateOK
  <2>2. i' \in 0 .. R /\ naps' \in Nat
    BY <1>1 DEF IInv, StateOK
  <2>3. pc' \in {"lock", "ask", "lookup", "write"}
    BY DEF After
  <2>4. locked' \subseteq Objects
    BY <1>2 DEF IInv, StateOK
  <2> QED
    BY <2>1, <2>2, <2>3, <2>4 DEF IInv, StateOK
<1>5. ControlInv'
  BY <1>1 DEF IInv, ControlInv, After, bLockDrive, bWriteAccess, Calls
<1>6. /\ Object(c) \notin locked /\ own[Object(c)].open
      /\ "volume" \notin locked
      /\ "disk" \in locked => c = "logical"
      /\ pc = "lock" /\ call = c /\ call' = c
  BY DEF IInv, LockInv, HandleInv, DiskHeld, Object, Calls, ControlInv,
         bLockDrive
<1> DEFINE Got ==   /\ locked' = locked \union {Object(c)} /\ Alone(Object(c))
                    /\ own' = own /\ pc' = After(c)
           Lost ==  /\ locked' = locked
                    /\ own' = [x \in Objects |->
                                 IF x = Object(c) THEN Invalid ELSE own[x]]
                    /\ pc' = After(c)
           Again == locked' = locked /\ own' = own /\ pc' = pc
<1>7. (Got \/ Lost \/ Again) /\ theirs' = theirs
  BY DEF Closed
<1>8. LockInv'
  <2>1. \A x \in locked' : own'[x].open
    BY <1>6, <1>7 DEF IInv, StateOK, LockInv
  <2>2. \A x \in locked' : Alone(x)'
    <3>1. \A x \in locked' : Alone(x)
      BY <1>7 DEF IInv, LockInv
    <3> QED
      BY <1>7, <3>1 DEF Alone
  <2>3. "disk" \in locked' => DiskHeld'
    BY <1>1, <1>6, <1>7
       DEF DiskHeld, Object, After, bLockDrive, bWriteAccess, Calls
  <2>4. "volume" \in locked' => pc' = "write"
    BY <1>1, <1>6, <1>7
       DEF Object, After, bLockDrive, bWriteAccess, Calls
  <2> QED
    BY <2>1, <2>2, <2>3, <2>4 DEF LockInv
<1>11. HandleInv'
  <2> USE DEF Objects, HandleInv, DiskHeld, Object, After, bLockDrive,
              bWriteAccess, Calls
  <2>1. CASE Got
    BY <2>1, <1>1, <1>6 DEF IInv
  <2>2. CASE Lost
    BY <2>2, <1>1, <1>6, HandleFields DEF IInv
  <2>3. CASE Again
    BY <2>3, <1>6 DEF IInv
  <2> QED
    BY <1>7, <2>1, <2>2, <2>3
<1>9. NapInv'
  BY <1>1 DEF IInv, StateOK, NapInv, After, bLockDrive, bWriteAccess, Calls,
              Before
<1>10. StatusInv'
  BY DEF IInv, StateOK, StatusInv, FirstInstallPatient, GivesUp
<1> QED
  BY <1>4, <1>5, <1>8, <1>9, <1>10, <1>11 DEF IInv

\* Every step keeps the flags Boolean ...
LEMMA NextFlagsOK == FlagsOK /\ [Next]_vars => FlagsOK'
<1> SUFFICES ASSUME FlagsOK, [Next]_vars PROVE FlagsOK'
  OBVIOUS
<1> USE DEF FlagsOK, loopVars, historyVars, Enter
<1>1. CASE UNCHANGED vars
  BY <1>1 DEF vars
<1>2. ASSUME NEW p \in Programs, ProgramOpens(p) \/ ProgramCloses(p)
      PROVE  FlagsOK'
  BY <1>2 DEF ProgramOpens, ProgramCloses
<1>3. CASE StartInstall
  BY <1>3 DEF StartInstall
<1>4. ASSUME NEW c \in Calls, TryOpen(c) PROVE FlagsOK'
  BY <1>4 DEF TryOpen, Refused
<1>5. ASSUME NEW c \in Calls, TryLock(c) PROVE FlagsOK'
  BY <1>5 DEF TryLock
<1>6. CASE AskGeometry
  BY <1>6 DEF AskGeometry
<1>7. CASE FormatShared \/ GetLogicalHandle
  BY <1>7 DEF FormatShared, GetLogicalHandle
<1>8. CASE Write
  BY <1>8 DEF Write
<1> QED
  BY <1>1, <1>2, <1>3, <1>4, <1>5, <1>6, <1>7, <1>8
     DEF Next, Thread, GetHandle, OldGetHandle, Calls

\* ... and keeps the invariant.
LEMMA NextIInv == FlagsOK /\ IInv /\ [Next]_vars => IInv'
<1> SUFFICES ASSUME FlagsOK, IInv, [Next]_vars PROVE IInv'
  OBVIOUS
<1>1. CASE UNCHANGED vars
  BY <1>1 DEF vars, worldVars, handleVars, loopVars, historyVars, IInv,
              StateOK, ControlInv, HandleInv, LockInv, NapInv, StatusInv,
              DiskHeld, Alone, FirstInstallPatient
<1>2. CASE Next
  BY <1>2, OpensIInv, ClosesIInv, InstallIInv, TryOpenIInv, TryLockIInv
     DEF Next, Thread, GetHandle, OldGetHandle, Calls
<1> QED
  BY <1>1, <1>2

\* The flags are Boolean at first.
LEMMA InitFlagsOK == Init => FlagsOK
BY DEF Init, FlagsOK

\* The invariant is inductive.
LEMMA Always == Spec => [](FlagsOK /\ IInv)
BY InitFlagsOK, InitIInv, NextFlagsOK, NextIInv, PTL DEF Spec

\* Type correctness of the model of Install's handles.
THEOREM TypeCorrect == Spec => []TypeOK
<1>1. FlagsOK /\ IInv => TypeOK
  BY DEF FlagsOK, IInv, StateOK, TypeOK
<1> QED
  BY <1>1, Always, PTL

\* WriteDrive has the disk, and the volume when it could be locked, to
\* itself, whatever the other programs do and although write sharing may have
\* been turned on to open it.
THEOREM WritesAloneAlways == Spec => []WritesAlone
<1>1. IInv => WritesAlone
  BY DEF IInv, WritesAlone, HandleInv, LockInv, DiskHeld, Objects
<1> QED
  BY <1>1, Always, PTL

\* No handle or lock of an earlier Install, or of an earlier step of this
\* one, is in the way of an open.
THEOREM NeverInOwnWayAlways == Spec => []NeverInOwnWay
<1>1. IInv => NeverInOwnWay
  BY DEF IInv, StateOK, NeverInOwnWay, HandleInv, LockInv, DiskHeld, Object,
         Calls
<1> QED
  BY <1>1, Always, PTL

\* One Install sleeps at most 6 * DRIVE_ACCESS_RETRIES - 2 times.
THEOREM NapsBoundedAlways == Spec => []NapsBounded
<1>1. IInv => NapsBounded
  BY DEF IInv, NapInv, NapsBounded
<1> QED
  BY <1>1, Always, PTL

\* Only the failed write of an earlier Install cuts the tries for a lock
\* short.
THEOREM FirstInstallPatientAlways == Spec => []FirstInstallPatient
<1>1. IInv => FirstInstallPatient
  BY DEF IInv, StatusInv
<1> QED
  BY <1>1, Always, PTL

=============================================================================
