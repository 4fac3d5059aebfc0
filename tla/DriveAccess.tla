---------------------------- MODULE DriveAccess -----------------------------
(***************************************************************************)
(* How Install (gondar.cc) gets hold of a disk that other programs use:    *)
(* GetHandle and OldGetHandle with their retries, the write sharing they   *)
(* turn on after a third of the tries, the locks, and the handles Install  *)
(* closes so that it may be called again within the same run.              *)
(*                                                                         *)
(* What interleaves with the thread is the other programs (Explorer, a     *)
(* virus scanner, the indexer), which open and close the disk and its      *)
(* volume at any time.  Windows grants an open when the access asked for   *)
(* is shared by every handle on the object and the other way round, and a  *)
(* lock when no other handle on the object is open; a locked object is     *)
(* opened by nobody.  Everybody shares reading.  (DeviceScan needs no rule *)
(* for its own two handles on a disk: there every open by number may be    *)
(* granted or refused.)                                                    *)
(***************************************************************************)
EXTENDS Integers

CONSTANTS
  Programs,                \* the other programs
  DRIVE_ACCESS_RETRIES,    \* 150 in gondar.cc
  MaxInstalls              \* bound: calls of Install in one run

ASSUME AccessAssumption ==
  /\ DRIVE_ACCESS_RETRIES \in Nat \ {0}
  /\ MaxInstalls \in Nat

VARIABLES
  theirs,        \* theirs[p]: the handle of program p
  own,           \* own[o]: the handle of Install on object o
  locked,        \* objects Install has locked
  pc,            \* next step of the thread
  call,          \* the call of GetHandle or OldGetHandle under way
  i,             \* its loop counter
  bWriteShare,   \* its parameter, turned on by the loop
  FormatStatus,  \* the global holds an error
  installs,      \* calls of Install so far
  naps,          \* Sleep calls of this Install (history variable)
  hasty          \* a lock was given up before the last try (history variable)

worldVars == <<theirs>>
handleVars == <<own, locked>>
loopVars == <<call, i, bWriteShare>>
historyVars == <<naps, hasty>>
vars == <<worldVars, handleVars, loopVars, historyVars, pc, FormatStatus,
          installs>>

Objects == {"disk", "volume"}

\* The calls: GetSectorSize and GetDriveSize open the disk for reading and
\* lock nothing, Install locks the disk to write it, GetLogicalHandle locks
\* the volume and only reads it.
Calls == {"sectorSize", "driveSize", "physical", "logical"}
Object(c) == IF c = "logical" THEN "volume" ELSE "disk"
bWriteAccess(c) == c = "physical"
bLockDrive(c) == c \in {"physical", "logical"}

\* INVALID_HANDLE_VALUE, or NULL when the disk has no volume.
Invalid == [open |-> FALSE, write |-> FALSE, share |-> FALSE]
Handle(w, s) == [open |-> TRUE, write |-> w, share |-> s]
Handles ==
  {Invalid} \union [open : {TRUE}, write : BOOLEAN, share : BOOLEAN]

Init ==
  /\ theirs = [p \in Programs |-> [on |-> "disk", h |-> Invalid]]
  /\ own = [o \in Objects |-> Invalid]
  /\ locked = {}
  /\ pc = "idle" /\ call = "sectorSize" /\ i = 0 /\ bWriteShare = FALSE
  /\ FormatStatus = FALSE /\ installs = 0
  /\ naps = 0 /\ hasty = FALSE

-----------------------------------------------------------------------------
(* The other programs and the rules of Windows                             *)

Compatible(h, g) ==
  h.open /\ g.open => (h.write => g.share) /\ (g.write => h.share)

\* An open of object o with access and sharing h is granted.
Grants(o, h) ==
  /\ o \notin locked
  /\ Compatible(h, own[o])
  /\ \A p \in Programs : theirs[p].on = o => Compatible(h, theirs[p].h)

Alone(o) == \A p \in Programs : theirs[p].on = o => ~theirs[p].h.open

ProgramOpens(p) ==
  /\ ~theirs[p].h.open
  /\ \E o \in Objects, h \in Handles \ {Invalid} :
        /\ Grants(o, h)
        /\ theirs' = [theirs EXCEPT ![p] = [on |-> o, h |-> h]]
  /\ UNCHANGED <<handleVars, loopVars, historyVars, pc, FormatStatus,
                 installs>>

ProgramCloses(p) ==
  /\ theirs[p].h.open
  /\ theirs' = [theirs EXCEPT ![p] = [on |-> "disk", h |-> Invalid]]
  /\ UNCHANGED <<handleVars, loopVars, historyVars, pc, FormatStatus,
                 installs>>

-----------------------------------------------------------------------------
(* GetHandle and OldGetHandle                                              *)

\* A call begins: GetPhysicalHandle, Install and GetLogicalHandle all pass
\* bWriteShare = false.
Enter(c) ==
  /\ call' = c /\ pc' = "open" /\ i' = 0 /\ bWriteShare' = FALSE

\* safe_closehandle.
Closed(os) == [o \in Objects |-> IF o \in os THEN Invalid ELSE own[o]]

\* What follows a call: the geometry is asked for, the volume looked up, the
\* disk written, whether or not the handle is valid.
After(c) ==
  IF ~bLockDrive(c) THEN "ask"
  ELSE IF bWriteAccess(c) THEN "lookup" ELSE "write"

\* Mutant of Refused: the tries have no end.
RefusedForEver ==
  /\ bWriteShare' = bWriteShare /\ naps' = naps
  /\ i' = (i + 1) % DRIVE_ACCESS_RETRIES
  /\ pc' = "open"

\* CreateFileA says ERROR_SHARING_VIOLATION or ERROR_ACCESS_DENIED: sleep and
\* try again, with write sharing after more than a third of the tries.
Refused ==
  /\ bWriteShare' =
       \/ bWriteShare
       \/ bWriteAccess(call) /\ i > DRIVE_ACCESS_RETRIES \div 3
  /\ naps' = naps + 1
  /\ i' = i + 1
  /\ pc' = IF i + 1 = DRIVE_ACCESS_RETRIES THEN After(call) ELSE "open"

\* The handle CreateFileA is asked for.
Wanted == Handle(bWriteAccess(call), bWriteAccess(call) /\ bWriteShare)

\* The loop that opens: success, a refusal, or an error that ends it.
TryOpen(c) ==
  /\ pc = "open" /\ call = c
  /\ \/ /\ Grants(Object(c), Wanted)
        /\ own' = [own EXCEPT ![Object(c)] = Wanted]
        /\ pc' = IF bLockDrive(c) THEN "lock" ELSE After(c)
        /\ i' = 0
        /\ UNCHANGED <<bWriteShare, naps>>
     \/ Refused /\ UNCHANGED own
     \/ pc' = After(c) /\ UNCHANGED <<own, i, bWriteShare, naps>>
  /\ UNCHANGED <<worldVars, locked, call, hasty, FormatStatus, installs>>

\* OldGetHandle gives up at once when FormatStatus holds an error.
GivesUp(c) == c = "logical" /\ FormatStatus

\* Mutant of LockFailed: the handle without a lock is returned.
LockFailedKeeps(c) == UNCHANGED own /\ pc' = After(c)

\* No lock: the handle is closed.
LockFailed(c) ==
  /\ own' = Closed({Object(c)})
  /\ pc' = After(c)

\* The loop that locks.
TryLock(c) ==
  /\ pc = "lock" /\ call = c
  /\ \/ /\ Alone(Object(c))
        /\ locked' = locked \union {Object(c)}
        /\ pc' = After(c)
        /\ UNCHANGED <<own, i, historyVars>>
     \/ /\ GivesUp(c)
        /\ LockFailed(c)
        /\ hasty' = (hasty \/ i + 1 < DRIVE_ACCESS_RETRIES)
        /\ UNCHANGED <<locked, i, naps>>
     \/ /\ ~GivesUp(c)
        /\ naps' = naps + 1
        /\ i' = i + 1
        /\ IF i + 1 = DRIVE_ACCESS_RETRIES
             THEN LockFailed(c)
             ELSE pc' = pc /\ UNCHANGED own
        /\ UNCHANGED <<locked, hasty>>
  /\ UNCHANGED <<worldVars, call, bWriteShare, FormatStatus, installs>>

GetHandle == \E c \in Calls \ {"logical"} : TryOpen(c) \/ TryLock(c)

OldGetHandle == TryOpen("logical") \/ TryLock("logical")

-----------------------------------------------------------------------------
(* Install                                                                 *)

\* Install is called; GetSectorSize comes first.
StartInstall ==
  /\ pc = "idle" /\ installs < MaxInstalls
  /\ installs' = installs + 1
  /\ naps' = 0
  /\ Enter("sectorSize")
  /\ UNCHANGED <<worldVars, handleVars, hasty, FormatStatus>>

\* GetSectorSize and GetDriveSize ask for the geometry and close the disk.
AskGeometry ==
  /\ pc = "ask"
  /\ own' = Closed({"disk"})
  /\ IF call = "sectorSize"
       THEN Enter("driveSize")
       ELSE pc' = "clear" /\ UNCHANGED loopVars
  /\ UNCHANGED <<worldVars, locked, historyVars, FormatStatus, installs>>

\* formatShared, whose failure Install passes up.
FormatShared ==
  /\ pc = "clear"
  /\ \/ Enter("physical")
     \/ pc' = "idle" /\ UNCHANGED loopVars
  /\ UNCHANGED <<worldVars, handleVars, historyVars, FormatStatus, installs>>

\* The image is opened, and GetLogicalHandle looks for a volume of the disk;
\* without one it returns NULL.
GetLogicalHandle ==
  /\ pc = "lookup"
  /\ \/ Enter("logical")
     \/ pc' = "write" /\ UNCHANGED loopVars
  /\ UNCHANGED <<worldVars, handleVars, historyVars, FormatStatus, installs>>

\* Mutant of CloseAll: the handle of the volume is forgotten.
CloseAllButVolume == own' = Closed({"disk"}) /\ locked' = locked \ {"disk"}

\* The handles are closed, and with a handle its lock goes.
CloseAll == own' = Closed(Objects) /\ locked' = {}

\* UnmountVolume, WriteDrive, and the handles closed.  A failing WriteDrive
\* mostly leaves an error in FormatStatus, and nothing ever clears it.
Write ==
  /\ pc = "write"
  /\ CloseAll
  /\ FormatStatus' \in {FormatStatus, TRUE}
  /\ pc' = "idle"
  /\ UNCHANGED <<worldVars, loopVars, historyVars, installs>>

-----------------------------------------------------------------------------

Thread ==
  GetHandle \/ OldGetHandle \/ AskGeometry \/ FormatShared
  \/ GetLogicalHandle \/ Write

Next ==
  \/ \E p \in Programs : ProgramOpens(p) \/ ProgramCloses(p)
  \/ StartInstall
  \/ Thread

\* The write thread is scheduled; the other programs need not do anything.
Spec == Init /\ [][Next]_vars /\ WF_vars(Thread)

-----------------------------------------------------------------------------
(* Properties                                                              *)

TypeOK ==
  /\ theirs \in [Programs -> [on : Objects, h : Handles]]
  /\ own \in [Objects -> Handles]
  /\ locked \subseteq Objects
  /\ pc \in {"idle", "open", "lock", "ask", "clear", "lookup", "write"}
  /\ call \in Calls
  /\ i \in 0 .. DRIVE_ACCESS_RETRIES
  /\ bWriteShare \in BOOLEAN /\ FormatStatus \in BOOLEAN
  /\ installs \in 0 .. MaxInstalls
  /\ naps \in Nat /\ hasty \in BOOLEAN

\* While WriteDrive holds the disk nobody else has it open, although the
\* handle may have been opened with write sharing; the same for the volume
\* when its handle is valid.
WritesAlone ==
  pc = "write" => \A o \in Objects : own[o].open => Alone(o)

\* Install never waits for itself: when it opens an object no handle or lock
\* of its own, of this or of an earlier call, is left on it ("close the
\* handles we created so that Install() may be called again within this same
\* run").
NeverInOwnWay ==
  pc = "open" =>
    ~own[Object(call)].open /\ Object(call) \notin locked

\* The sleeps of one Install are bounded: one round of tries for each of the
\* two sizes, and less than two for each of the two handles it locks.
NapsBounded == naps <= 6 * DRIVE_ACCESS_RETRIES - 2

\* The lock of the volume is given up early only on account of an earlier
\* Install whose write failed; the first Install always tries to the end.
FirstInstallPatient == hasty => installs > 1 /\ FormatStatus

\* Whatever the other programs hold on to, Install returns.
InstallReturns == pc # "idle" ~> pc = "idle"

=============================================================================
