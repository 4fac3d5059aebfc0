----------------------------- MODULE DiskWrite ------------------------------
(***************************************************************************)
(* One run of DiskWriteThread (diskwritethread.cc) with everything it      *)
(* calls: Install, Format, formatShared and WriteDrive (gondar.cc),        *)
(* clearMbrGpt and makeEmptyPartition (gpt_pal.cc), makeFilesystem         *)
(* (mkfs.cc).                                                              *)
(*                                                                         *)
(* The thread is sequential; what interleaves with it is the world: the    *)
(* user unplugs the disk or plugs another one, which then answers to the   *)
(* same PhysicalDrive number; another copy of the program rewrites the     *)
(* image file; any system call fails; a write stops short.                 *)
(*                                                                         *)
(* Data.  Sizes are scaled down (see the constants).  Byte k of the image  *)
(* file is the number k, so that a misplaced byte shows; negative numbers  *)
(* are the contents that do not come from the image.                       *)
(***************************************************************************)
EXTENDS Integers

CONSTANTS
  Disks,            \* the disks that may answer to the selected device number
  NoDisk,           \* no disk answers / a handle no operation succeeds on
  Capacity,         \* Capacity[d]: size of disk d in bytes
  DiskSector,       \* DiskSector[d]: bytes per sector of disk d
  FileLens,         \* lengths the image file may have
  MIN_SECTOR,       \* WriteDrive's lower bound for the sector size (512)
  DD_BUFFER_SIZE,   \* 65536 in gondar.cc
  WRITE_RETRIES,    \* 3 in gondar.cc
  DWORD             \* number of values of a DWORD (2^32)

\* Contents of a byte that do not come from the image.
OLD == -1           \* what was on the disk before
TABLE == -2         \* partition table
JUNK == -3          \* uninitialised memory

\* getFileSize's answer for a file that does not exist.
Missing == -1

\* The least multiple of s that is >= n.
RoundUp(n, s) == ((n + s - 1) \div s) * s

ASSUME DiskAssumption ==
  /\ NoDisk \notin Disks
  /\ MIN_SECTOR \in Nat \ {0}
  /\ DiskSector \in [Disks -> Nat \ {0}]
  /\ Capacity \in [Disks -> Nat \ {0}]
  /\ \A d \in Disks : /\ DiskSector[d] >= MIN_SECTOR
                      /\ Capacity[d] % DiskSector[d] = 0

ASSUME SizeAssumption ==
  /\ FileLens \subseteq Nat
  /\ DD_BUFFER_SIZE \in Nat \ {0}
  /\ WRITE_RETRIES \in Nat \ {0}

\* A DWORD is a multiple of every sector size, and the buffer fits in it.
ASSUME WidthAssumption ==
  /\ DWORD \in Nat \ {0}
  /\ \A s \in {DiskSector[d] : d \in Disks} \union {MIN_SECTOR} :
        /\ DWORD % s = 0
        /\ RoundUp(DD_BUFFER_SIZE, s) < DWORD

VARIABLES
  \* the world
  attached,     \* the disk answering to the device number, or NoDisk
  media,        \* media[d][k]: byte k of disk d
  fat,          \* disks on which FormatEx completed
  fileLen,      \* length of the image file, or Missing
  \* the job
  selected,     \* the disk the user picked
  hasImage,     \* image_path is not empty
  state,        \* DiskWriteThread::state_
  pc,           \* next step of the thread
  image_size,   \* result of getFileSize
  sector_size,  \* Install's and WriteDrive's local
  drive_size,   \* Install's local
  ret,          \* what formatShared or makeEmptyPartition returned
  \* WriteDrive
  phys,         \* disk behind phys_handle; NoDisk when no operation succeeds
  victim,       \* disk phys_handle was opened on (history variable)
  source,       \* source_img is a valid handle
  pos,          \* file pointer of phys_handle
  rpos,         \* file pointer of source_img
  buffer,       \* the write buffer
  wb,           \* bytes written so far
  rSize,        \* size of the current write
  i             \* retry counter

worldVars == <<attached, media, fat, fileLen>>
jobVars == <<selected, hasImage, state>>
sizeVars == <<image_size, sector_size, drive_size, ret>>
handleVars == <<phys, victim, source>>
loopVars == <<pos, rpos, buffer, wb, rSize, i>>
vars == <<worldVars, jobVars, sizeVars, handleVars, loopVars, pc>>

\* WriteDrive's BufSize, for the sector size it has settled on.
BufSize == RoundUp(DD_BUFFER_SIZE, sector_size)

Outcomes == {"GetFileSizeFailed", "InstallFailed", "Success"}

Offsets(d) == 0 .. Capacity[d] - 1

SectorSizes == {DiskSector[d] : d \in Disks} \union {MIN_SECTOR}

-----------------------------------------------------------------------------
(* The page constructs the thread for the disk the user picked.  The thread *)
(* may be long in starting: the world moves from the first state on.        *)

Init ==
  /\ selected \in Disks
  /\ attached = selected
  /\ media = [d \in Disks |-> [k \in Offsets(d) |-> OLD]]
  /\ fat = {}
  /\ fileLen \in FileLens \union {Missing}
  /\ hasImage \in BOOLEAN
  /\ state = "Initial"
  /\ pc = "run"
  /\ image_size = 0 /\ sector_size = 0 /\ drive_size = 0 /\ ret = FALSE
  /\ phys = NoDisk /\ victim = NoDisk /\ source = FALSE
  /\ pos = 0 /\ rpos = 0 /\ buffer = <<>> /\ wb = 0 /\ rSize = 0 /\ i = 0

-----------------------------------------------------------------------------
(* DiskWriteThread                                                         *)

Running(label) == state = "Running" /\ pc = label

\* Install or Format has returned: the thread records its outcome and ends.
Return(outcome) ==
  /\ state' = outcome
  /\ pc' = "done"
  /\ phys' = NoDisk
  /\ source' = FALSE

\* run(): an empty image path means "format".
Run ==
  /\ pc = "run"
  /\ state' = "Running"
  /\ pc' = IF hasImage THEN "fileSize" ELSE "clear"
  /\ UNCHANGED <<worldVars, selected, hasImage, sizeVars, handleVars, loopVars>>

\* writeImage(): getFileSize, then Install.
WriteImage ==
  /\ Running("fileSize")
  /\ image_size' = fileLen
  /\ IF fileLen = Missing
       THEN state' = "GetFileSizeFailed" /\ pc' = "done"
       ELSE state' = state /\ pc' = "sectorSize"
  /\ UNCHANGED <<worldVars, selected, hasImage, sector_size, drive_size, ret,
                 handleVars, loopVars>>

-----------------------------------------------------------------------------
(* Install, Format                                                         *)

\* GetSectorSize opens the disk by number and asks for its geometry; 0 when
\* either fails.  WriteDrive replaces anything below 512 by 512.
GetSectorSize ==
  /\ Running("sectorSize")
  /\ \E asked \in {0} \union {DiskSector[d] : d \in Disks \intersect {attached}} :
        sector_size' = IF asked < MIN_SECTOR THEN MIN_SECTOR ELSE asked
  /\ pc' = "driveSize"
  /\ UNCHANGED <<worldVars, jobVars, image_size, drive_size, ret, handleVars,
                 loopVars>>

\* GetDriveSize does the same for the size, on whatever disk answers now.
GetDriveSize ==
  /\ Running("driveSize")
  /\ drive_size' \in {0} \union {Capacity[d] : d \in Disks \intersect {attached}}
  /\ pc' = "clear"
  /\ UNCHANGED <<worldVars, jobVars, image_size, sector_size, ret, handleVars,
                 loopVars>>

\* The sectors SaveGPTData may have written on disk d: those of the main table
\* and of the backup, of either any or none, as a write that fails goes
\* unnoticed.  The backup is where the size it was told puts it, which is made
\* up when the drive could not be asked: anywhere.
TableEnds(d) ==
  UNION {SUBSET {0, backup} :
           backup \in 0 .. Capacity[d] \div DiskSector[d] - 1}

TableWritten(d, ends) ==
  [media EXCEPT ![d] = [k \in Offsets(d) |->
     IF k \div DiskSector[d] \in ends THEN TABLE ELSE media[d][k]]]

\* What SaveGPTData returns is ignored.  The verdict is Verify's, which looks
\* at the table in memory: either verdict may come with any of the writes, but
\* without a disk it is no.
SaveTable(verified) ==
  \/ /\ attached \in Disks
     /\ \E ends \in TableEnds(attached) :
           media' = TableWritten(attached, ends)
  \/ /\ ~verified
     /\ UNCHANGED media

\* formatShared: clearMbrGpt, on the way to WriteDrive or to a new partition.
FormatShared ==
  /\ Running("clear")
  /\ ret' \in BOOLEAN
  /\ SaveTable(ret')
  /\ pc' = "cleared"
  /\ UNCHANGED <<attached, fat, fileLen, jobVars, image_size, sector_size,
                 drive_size, handleVars, loopVars>>

\* Its result is passed up, or Install and Format go on.
FormatSharedReturns ==
  /\ Running("cleared")
  /\ \/ /\ ret
        /\ pc' = IF hasImage THEN "open" ELSE "partition"
        /\ UNCHANGED <<state, phys, source>>
     \/ /\ ~ret
        /\ Return("InstallFailed")
  /\ UNCHANGED <<worldVars, selected, hasImage, sizeVars, victim, loopVars>>

\* Mutant of MakeEmptyPartition: the outcome is recorded too early.
MakeEmptyPartitionReportsEarly ==
  /\ Running("partition")
  /\ ret' \in BOOLEAN
  /\ SaveTable(ret')
  /\ Return(IF ret' THEN "Success" ELSE "InstallFailed")
  /\ UNCHANGED <<attached, fat, fileLen, selected, hasImage, image_size,
                 sector_size, drive_size, victim, loopVars>>

\* Format: makeEmptyPartition decides what Format will return ...
MakeEmptyPartition ==
  /\ Running("partition")
  /\ ret' \in BOOLEAN
  /\ SaveTable(ret')
  /\ pc' = "filesystem"
  /\ UNCHANGED <<attached, fat, fileLen, jobVars, image_size, sector_size,
                 drive_size, handleVars, loopVars>>

\* ... and makeFilesystem, whose outcome nobody asks for, is called anyway.
MakeFilesystem ==
  /\ Running("filesystem")
  /\ fat' \in {fat, fat \union (Disks \intersect {attached})}
  /\ pc' = "formatted"
  /\ UNCHANGED <<attached, media, fileLen, jobVars, sizeVars, handleVars, loopVars>>

\* formatDrive() records what Format returned.
FormatDrive ==
  /\ Running("formatted")
  /\ Return(IF ret THEN "Success" ELSE "InstallFailed")
  /\ UNCHANGED <<worldVars, selected, hasImage, sizeVars, victim, loopVars>>

\* Install opens the disk and the image and enters WriteDrive whether or not
\* that worked; WriteDrive rewinds (a fresh handle is at 0 either way) and
\* allocates its buffer.
OpenHandles ==
  /\ Running("open")
  /\ phys' \in {attached, NoDisk}
  /\ victim' = phys'
  /\ source' \in {FALSE, fileLen # Missing}
  /\ pos' = 0 /\ rpos' = 0 /\ wb' = 0 /\ rSize' = BufSize /\ i' = 0
  /\ buffer' = [k \in 0 .. BufSize - 1 |-> JUNK]
  /\ pc' = "loop"
  /\ UNCHANGED <<worldVars, jobVars, sizeVars>>

\* The buffer cannot be allocated.
AllocFails ==
  /\ Running("open")
  /\ Return("InstallFailed")
  /\ UNCHANGED <<worldVars, selected, hasImage, sizeVars, victim, loopVars>>

-----------------------------------------------------------------------------
(* WriteDrive                                                              *)

\* Bytes the next ReadFile returns: local files are read in full up to EOF.
Readable == IF fileLen - rpos < BufSize THEN fileLen - rpos ELSE BufSize

\* Mutant of Clip: the projected size is not enforced.
ClipMissing(n) == n

\* "Don't overflow our projected size": n bytes read, clipped to image_size.
\* The difference is unsigned and is cut to a DWORD.
Clip(n) == IF wb + n > image_size THEN (image_size - wb) % DWORD ELSE n

\* "WriteFile fails unless the size is a multiple of sector size".
WholeSectors(n) == RoundUp(n, sector_size) % DWORD

\* Head of the loop, ReadFile, and the size of the write that follows.
ReadChunk ==
  /\ Running("loop")
  /\ wb < drive_size
  /\ source /\ Readable > 0
  /\ buffer' = [k \in 0 .. BufSize - 1 |->
                  IF k < Readable THEN rpos + k ELSE buffer[k]]
  /\ rpos' = rpos + Readable
  /\ rSize' = WholeSectors(Clip(Readable))
  /\ i' = 0
  /\ pc' = "write"
  /\ UNCHANGED <<worldVars, jobVars, sizeVars, handleVars, pos, wb>>

\* ReadFile fails, as it always does on an invalid handle.
ReadFails ==
  /\ Running("loop")
  /\ wb < drive_size
  /\ Return("InstallFailed")
  /\ UNCHANGED <<worldVars, selected, hasImage, sizeVars, victim, loopVars>>

\* The drive is full or the file is at its end: the loop ends, WriteDrive
\* refreshes the layout and returns true, Install closes its handles.
LoopEnds ==
  /\ Running("loop")
  /\ wb >= drive_size \/ (source /\ Readable = 0)
  /\ Return("Success")
  /\ UNCHANGED <<worldVars, selected, hasImage, sizeVars, victim, loopVars>>

\* The first n bytes of the buffer reach disk d at the file pointer.
Written(d, n) ==
  [media EXCEPT ![d] = [k \in Offsets(d) |->
     IF pos <= k /\ k < pos + n THEN buffer[k - pos] ELSE media[d][k]]]

\* The sizes and places a disk accepts a write of.
Accepts(d, n) ==
  /\ n % DiskSector[d] = 0
  /\ pos % DiskSector[d] = 0
  /\ pos + n <= Capacity[d]

\* WriteFile writes everything.
WriteChunk ==
  /\ Running("write")
  /\ phys # NoDisk /\ Accepts(phys, rSize)
  /\ media' = Written(phys, rSize)
  /\ pos' = pos + rSize
  /\ wb' = wb + rSize
  /\ pc' = "loop"
  /\ UNCHANGED <<attached, fat, fileLen, jobVars, sizeVars, handleVars, rpos,
                 buffer, rSize, i>>

\* WriteFile reports failure or a short count; whole sectors of the chunk may
\* have reached the disk and the file pointer may have moved past them.
WriteFails ==
  /\ Running("write")
  /\ \/ /\ phys # NoDisk /\ Accepts(phys, rSize)
        /\ \E n \in {k \in 0 .. rSize - 1 : k % DiskSector[phys] = 0} :
              /\ media' = Written(phys, n)
              /\ pos' \in {pos, pos + n}
     \/ UNCHANGED <<media, pos>>
  /\ pc' = "retry"
  /\ UNCHANGED <<attached, fat, fileLen, jobVars, sizeVars, handleVars, rpos,
                 buffer, wb, rSize, i>>

\* The handle is moved to an offset and the write is tried again.
RetryWith(limit, from, counter) ==
  /\ Running("retry")
  /\ i < limit
  /\ victim # NoDisk
  /\ pos' = from
  /\ i' = counter
  /\ pc' = "write"
  /\ UNCHANGED <<worldVars, jobVars, sizeVars, handleVars, rpos, buffer, wb,
                 rSize>>

\* Mutants of Retry: no seek back; tries not counted.
RetryNoSeek == RetryWith(WRITE_RETRIES - 1, pos, i + 1)
RetryForever == RetryWith(WRITE_RETRIES - 1, wb, i)

\* Another try, from where the chunk started.
Retry == RetryWith(WRITE_RETRIES - 1, wb, i + 1)

\* Mutant of GiveUp: the loop goes on after the last failure.
GiveUpGoesOn ==
  /\ Running("retry")
  /\ pc' = "loop"
  /\ UNCHANGED <<worldVars, jobVars, sizeVars, handleVars, loopVars>>

\* The tries are used up, or the file pointer cannot be reset.
GiveUp ==
  /\ Running("retry")
  /\ Return("InstallFailed")
  /\ UNCHANGED <<worldVars, selected, hasImage, sizeVars, victim, loopVars>>

-----------------------------------------------------------------------------
(* The world                                                               *)

\* The disk is pulled out: open handles to it are of no use any more.
Unplug ==
  /\ attached # NoDisk
  /\ attached' = NoDisk
  /\ phys' = NoDisk
  /\ UNCHANGED <<media, fat, fileLen, jobVars, sizeVars, victim, source,
                 loopVars, pc>>

\* A disk is plugged in and gets the free device number.
Plug(d) ==
  /\ attached = NoDisk
  /\ attached' = d
  /\ UNCHANGED <<media, fat, fileLen, jobVars, sizeVars, handleVars, loopVars,
                 pc>>

\* Another copy of the program unpacks or removes the same file, which it
\* cannot do while Install has it open.
ReplaceFile(n) ==
  /\ ~source /\ state = "Running"
  /\ fileLen' = n
  /\ UNCHANGED <<attached, media, fat, jobVars, sizeVars, handleVars, loopVars,
                 pc>>

-----------------------------------------------------------------------------
InstallStep ==
  \/ WriteImage \/ GetSectorSize \/ GetDriveSize \/ OpenHandles \/ AllocFails
  \/ ReadChunk \/ ReadFails \/ LoopEnds
  \/ WriteChunk \/ WriteFails \/ Retry \/ GiveUp

FormatStep == MakeEmptyPartition \/ MakeFilesystem \/ FormatDrive

Thread ==
  Run \/ FormatShared \/ FormatSharedReturns \/ InstallStep \/ FormatStep

World ==
  \/ Unplug
  \/ \E d \in Disks : Plug(d)
  \/ \E n \in FileLens \union {Missing} : ReplaceFile(n)

Next == Thread \/ World

Spec == Init /\ [][Next]_vars

\* The operating system keeps scheduling the thread and every call returns.
FairSpec == Spec /\ WF_vars(Thread)

-----------------------------------------------------------------------------
(* Properties                                                              *)

Labels == {"run", "fileSize", "sectorSize", "driveSize", "clear", "cleared",
           "partition", "filesystem", "formatted", "open", "loop", "write",
           "retry", "done"}

\* Type invariant: every variable has the values its C++ counterpart takes;
\* the retry counter stays below WRITE_RETRIES.
TypeOK ==
  /\ attached \in Disks \union {NoDisk}
  /\ DOMAIN media = Disks
  /\ \A d \in Disks : media[d] \in [Offsets(d) -> Int]
  /\ fat \subseteq Disks
  /\ fileLen \in FileLens \union {Missing}
  /\ selected \in Disks
  /\ hasImage \in BOOLEAN
  /\ state \in {"Initial", "Running"} \union Outcomes
  /\ pc \in Labels
  /\ image_size \in FileLens \union {Missing, 0}
  /\ sector_size \in SectorSizes \union {0}
  /\ drive_size \in Nat
  /\ ret \in BOOLEAN
  /\ phys \in Disks \union {NoDisk}
  /\ victim \in Disks \union {NoDisk}
  /\ source \in BOOLEAN
  /\ pos \in Nat /\ rpos \in Nat /\ wb \in Nat /\ rSize \in Nat
  /\ i \in 0 .. WRITE_RETRIES - 1

\* No byte of the image ever lands in the wrong place: whatever was retried,
\* cut short or given up, an offset the file covers holds that byte of the
\* file, or what was there before, or the cleared table (WriteDrive's retry
\* seeks back to wb, gondar.cc:2255).
BytesInPlace ==
  \A d \in Disks : \A k \in Offsets(d) :
     k < fileLen => media[d][k] \in {OLD, TABLE, k}

\* The first n bytes of the image are on disk d.
ImageOn(d, n) ==
  \A k \in 0 .. n - 1 : k \in Offsets(d) /\ media[d][k] = k

\* When the drive reported room for the image and the file did not change
\* after its size was taken, Success means the whole image is on the disk
\* Install opened.
ImageWritten ==
  (/\ state = "Success" /\ hasImage
   /\ drive_size >= image_size
   /\ fileLen = image_size
   /\ image_size > 0)
  => victim \in Disks /\ ImageOn(victim, image_size)

\* WriteDrive never writes past the sector the projected size ends in, even
\* when the file has grown and target_size - wb wraps (gondar.cc:2238-2244).
NoOverrun ==
  \A d \in Disks : \A k \in Offsets(d) :
     media[d][k] \notin {OLD, TABLE} => k < RoundUp(image_size, sector_size)

\* WriteFile is never asked to read beyond the allocated buffer.
BufferBound ==
  pc \in {"write", "retry"} => rSize <= BufSize

\* A DiskWriteThread implements the job the wizard relies on.
Job == INSTANCE WriteJob WITH
  touched <- fat # {} \/ \E d \in Disks : \E k \in Offsets(d) : media[d][k] # OLD

ImplementsJob == Job!JobSpec

\* Every job ends, whatever fails and whatever the user unplugs: each round
\* of WriteDrive's loop reads on, and each chunk has finitely many tries.
Terminates == <>(pc = "done")

\* gondar.h:24 says Install "Returns true on success".
InstallReturnsTrueOnSuccess ==
  state = "Success" /\ hasImage /\ image_size > 0
  => victim \in Disks /\ ImageOn(victim, image_size)
=============================================================================
