------------------------------ MODULE GptData ------------------------------
(***************************************************************************)
(* The partition table step of Install and Format: clearMbrGpt() and       *)
(* makeEmptyPartition() of gpt_pal.cc with the part of the bundled gdisk   *)
(* they run (GPTData, MBRData, DiskIO on Windows).                         *)
(*                                                                         *)
(* The drive is a function from sectors to what was last written there;    *)
(* every call that reaches the drive is a step of its own and may fail, so *)
(* a run may stop, or go wrong, between any two writes.  A CRC is perfect: *)
(* it is the value it was computed from.  GUIDs, names, boot code and CHS  *)
(* addresses are left out; the table has the entries PartNums, of which    *)
(* the code ever uses entry 0.  Sectors have SECTOR_SIZE bytes, which is   *)
(* also what GetBlockSize answers where the drive does not.                *)
(***************************************************************************)
EXTENDS Integers, Sequences

CONSTANTS
  Word,          \* modulus of the uint64_t sector numbers
  TableSectors,  \* GetTableSizeInSectors() for NUM_GPT_ENTRIES entries
  Alignment,     \* DEFAULT_ALIGNMENT * SECTOR_SIZE / blockSize
  MinAlignment,  \* MIN_AF_ALIGNMENT, the alignment of a new object
  SeekLimit,     \* sectors from here on have a negative LARGE_INTEGER offset
  Sizes,         \* sizes in sectors the drive may have, 0 without a medium
  MadeUp,        \* what DiskSize makes of a length it could not ask for
  Images,        \* table sizes an image written before may have left
  Garbage        \* values an uninitialised header field may hold

ASSUME GptConstants ==
  /\ Word \in Nat /\ TableSectors \in Nat \ {0}
  /\ Alignment \in Nat \ {0} /\ MinAlignment \in Nat \ {0}
  /\ Sizes \subseteq Nat
  /\ SeekLimit \in Nat /\ SeekLimit <= Word \div 2
  /\ \A n \in Sizes : n + Alignment + TableSectors < SeekLimit
  /\ MadeUp \subseteq Nat
  /\ \A n \in MadeUp : /\ n > TableSectors + 2
                        /\ n + Alignment + TableSectors < Word \div 2
  /\ Images \subseteq Nat \ {0}
  /\ Garbage \subseteq 0 .. Word - 1 /\ Garbage # {}
  /\ \A x \in Garbage : (x + TableSectors) % Word # 1

U64(x) == x % Word

PartNums == 0 .. 1

(* GPTPart: an entry without a type is not used, its sectors are 0. *)
BlankPartition == [type |-> "none", firstLBA |-> 0, lastLBA |-> 0]
BlankPartitions == [i \in PartNums |-> BlankPartition]
IsUsed(p) == p.type # "none"

(* GPTHeader, headerCRC apart. *)
Fields(cur, bak, first, last, pte, tsz, tab) ==
  [currentLBA |-> cur, backupLBA |-> bak, firstUsableLBA |-> first,
   lastUsableLBA |-> last, partitionEntriesLBA |-> pte, tableSize |-> tsz,
   entriesCRC |-> tab]
NoFields(g) == Fields(g, g, g, g, g, TableSectors, BlankPartitions)

(* A sector of the drive. *)
Unknown == [kind |-> "unknown"]
HeaderSector(h, crc) == [kind |-> "header", header |-> h, crc |-> crc]
TableSector(tab, i) == [kind |-> "table", tab |-> tab, i |-> i]
MbrSector(r) == [kind |-> "mbr", mbr |-> r]

VARIABLES
  size,    \* sectors of the drive
  disk,    \* the drive: sector -> what it holds
  io,      \* DiskIO myDisk: is a name on record, is it open and how
  gpt,     \* the GPTData object
  job,     \* what the program called: "install" or "format"
  pc,      \* the next step of the call
  call,    \* the call in progress: "clear" or "make"
  ret,     \* what the last call returned
  saved,   \* what the last SaveGPTData returned
  fault,   \* has a call to the drive failed since the call began
  mainWas  \* was the main copy intact when the saving began

vars == <<size, disk, io, gpt, job, pc, call, ret, saved, fault, mainWas>>
-----------------------------------------------------------------------------
(***************************************************************************)
(* MBRData: the partition of type 0xEE and whether there are others.       *)
(***************************************************************************)

EmptyMBR == [state |-> "mbr", lastLBA |-> 0, others |-> FALSE]

(* SetLocation(1, diskSize - 1), the length truncated to its width. *)
MakeProtectiveMBR(g) ==
  [g EXCEPT !.mbr = [state |-> "gpt", lastLBA |-> U64(g.mbrSize - 1),
                     others |-> FALSE]]

DoTheyFit(g) == g.mbr.lastLBA <= g.mbrSize
-----------------------------------------------------------------------------
(***************************************************************************)
(* GPTData: sizes and headers.                                             *)
(***************************************************************************)

MoveSecondHeaderToEnd(g) ==
  LET last == U64(g.diskSize - g.main.firstUsableLBA)
      moved == IF g.main.lastUsableLBA # last /\ g.mbr.state = "gpt"
               THEN MakeProtectiveMBR(g) ELSE g
  IN [moved EXCEPT !.main.backupLBA = U64(g.diskSize - 1),
                   !.second.currentLBA = U64(g.diskSize - 1),
                   !.main.lastUsableLBA = last,
                   !.second.lastUsableLBA = last,
                   !.second.partitionEntriesLBA = U64(last + 1)]

(* SetGPTSize for a number of entries that fills tsz sectors; "none" says  *)
(* that there is no array of entries yet (partitions == NULL).             *)
SetGPTSize(g, tsz, none) ==
  LET first == U64(tsz + g.main.partitionEntriesLBA)
      resized == IF tsz # g.tsz \/ none
                 THEN MoveSecondHeaderToEnd(
                        [g EXCEPT !.tsz = tsz,
                                  !.main.firstUsableLBA = first,
                                  !.second.firstUsableLBA = first])
                 ELSE g
  IN [resized EXCEPT !.main.tableSize = tsz, !.second.tableSize = tsz]

RebuildSecondHeader(g) ==
  [g EXCEPT
     !.second = [g.main EXCEPT
                   !.currentLBA = g.main.backupLBA,
                   !.backupLBA = g.main.currentLBA,
                   !.partitionEntriesLBA = U64(g.main.lastUsableLBA + 1)],
     !.secondCrcOk = g.mainCrcOk]

RebuildMainHeader(g) ==
  LET s == g.second
  IN [g EXCEPT
        !.main = [s EXCEPT
                    !.currentLBA = s.backupLBA,
                    !.backupLBA = s.currentLBA,
                    !.partitionEntriesLBA = U64(s.firstUsableLBA - g.tsz)],
        !.mainCrcOk = g.secondCrcOk]

(* Mutant: the first usable sector stays as SetGPTSize left it, from the   *)
(* place of the table that was loaded.                                     *)
MutClearStaleFirst(g) ==
  LET g1 == SetGPTSize(g, TableSectors, TRUE)
      g2 == [g1 EXCEPT
               !.main.currentLBA = 1,
               !.main.partitionEntriesLBA = 2,
               !.main.backupLBA = U64(g.diskSize - 1),
               !.main.lastUsableLBA =
                  U64(g.diskSize - g1.main.firstUsableLBA),
               !.align = Alignment]
  IN [RebuildSecondHeader(g2) EXCEPT
        !.parts = BlankPartitions,
        !.mainCrcOk = TRUE, !.secondCrcOk = TRUE,
        !.mainPartsCrcOk = TRUE, !.secondPartsCrcOk = TRUE]

ClearGPTData(g) ==
  LET g1 == SetGPTSize(g, TableSectors, TRUE)
      first == TableSectors + 2
      g2 == [g1 EXCEPT
               !.main.currentLBA = 1,
               !.main.partitionEntriesLBA = 2,
               !.main.firstUsableLBA = first,
               !.main.backupLBA = U64(g.diskSize - 1),
               !.main.lastUsableLBA = U64(g.diskSize - first),
               !.align = Alignment]
  IN [RebuildSecondHeader(g2) EXCEPT
        !.parts = BlankPartitions,
        !.mainCrcOk = TRUE, !.secondCrcOk = TRUE,
        !.mainPartsCrcOk = TRUE, !.secondPartsCrcOk = TRUE]

(* The constructor leaves the header fields as it finds them. *)
Constructed(x) ==
  SetGPTSize(
    [diskSize |-> 0, mbrSize |-> 0, mbr |-> EmptyMBR,
     main |-> NoFields(x), second |-> NoFields(x), tsz |-> 0,
     mainCRC |-> NoFields(x), secondCRC |-> NoFields(x),
     parts |-> BlankPartitions, align |-> MinAlignment,
     allOK |-> TRUE, mainCrcOk |-> FALSE, secondCrcOk |-> FALSE,
     mainPartsCrcOk |-> FALSE, secondPartsCrcOk |-> FALSE],
    TableSectors, TRUE)

(* RecomputeCRCs: of the entries into both headers, then of the headers. *)
RecomputeCRCs(g) ==
  LET m == [g.main EXCEPT !.entriesCRC = g.parts]
      s == [g.second EXCEPT !.entriesCRC = g.parts]
  IN [g EXCEPT !.main = m, !.second = s, !.mainCRC = m, !.secondCRC = s]
-----------------------------------------------------------------------------
(***************************************************************************)
(* Loading: LoadPartitions reads what is there although PalData makes it   *)
(* start over; "ok" says whether the drive could be read.                  *)
(***************************************************************************)

(* Seek fails for an offset that is negative as a LARGE_INTEGER. *)
CanSeek(lba) == lba < SeekLimit

(* DiskSize: a length that cannot be had is taken from GetFileSize, which  *)
(* fails for a drive and leaves the high half as it was.                   *)
DiskSize(ok) == IF ok THEN {size} ELSE MadeUp

(* Does the read or write stay on the drive, and succeed? *)
Reaches(lba, len, ok) == ok /\ lba + len <= size

HeaderAt(lba) ==
  IF lba < size THEN disk[lba].kind = "header" ELSE FALSE

(* A table whose sectors do not belong together is some other table. *)
TornTable == [i \in PartNums |->
                [type |-> "torn", firstLBA |-> 0, lastLBA |-> 0]]

TableAt(lba, tsz) ==
  IF lba + tsz > size THEN TornTable
  ELSE IF \A i \in 0 .. tsz - 1 :
            /\ disk[lba + i].kind = "table"
            /\ disk[lba + i] = TableSector(disk[lba].tab, i)
       THEN disk[lba].tab ELSE TornTable

(* A failed read leaves a buffer with what the heap held, which may be the *)
(* sector or the table read before: something, or one of `before'.  A      *)
(* sector that is no header has something in the place of one.             *)
ReadHeader(lba, read, before) ==
  IF read /\ HeaderAt(lba)
  THEN {[header |-> disk[lba].header,
         good |-> disk[lba].crc = disk[lba].header]}
  ELSE {[header |-> NoFields(x), good |-> FALSE] : x \in Garbage}
       \cup (IF read THEN {} ELSE before)

ReadTable(h, read) ==
  IF read THEN {TableAt(h.partitionEntriesLBA, h.tableSize)}
  ELSE {TornTable, h.entriesCRC}

(* LoadHeader: a good header with another number of entries resizes the    *)
(* table before the header is replaced.                                    *)
Resized(g, r, read) ==
  IF read /\ r.good THEN SetGPTSize(g, r.header.tableSize, FALSE) ELSE g

(* LoadPartitionTable, when it could seek: `tab' was read for header h. *)
LoadPartitionTable(g, h, tab) ==
  [SetGPTSize(g, h.tableSize, FALSE) EXCEPT
     !.parts = tab,
     !.mainPartsCrcOk = (tab = h.entriesCRC),
     !.secondPartsCrcOk = (tab = h.entriesCRC)]

CheckTable(h, other, ok) ==
  /\ CanSeek(h.partitionEntriesLBA)
  /\ Reaches(h.partitionEntriesLBA, h.tableSize, ok)
  /\ LET tab == TableAt(h.partitionEntriesLBA, h.tableSize)
     IN tab = h.entriesCRC /\ tab = other.entriesCRC

(* Mutant: the MBR is not told the size of the drive. *)
MutReadMBRNoSize(g, ok, n) ==
  [g EXCEPT !.mbr = IF ~ok THEN EmptyMBR
                    ELSE IF disk[0].kind = "mbr" THEN disk[0].mbr
                    ELSE [EmptyMBR EXCEPT !.state = "invalid"]]

(* ReadMBRData: a sector that cannot be read leaves the MBR emptied, and   *)
(* its own idea of the size of the drive as it was.  Otherwise that is     *)
(* asked for again: n.                                                     *)
ReadMBRData(g, ok, n) ==
  IF ~ok THEN [g EXCEPT !.mbr = EmptyMBR]
  ELSE [g EXCEPT !.mbr = IF disk[0].kind = "mbr" THEN disk[0].mbr
                         ELSE [EmptyMBR EXCEPT !.state = "invalid"],
                 !.mbrSize = n]

(* ComputeAlignment finds no partition in use in the new table. *)
ComputeAlignment(g) == [g EXCEPT !.align = Alignment]
-----------------------------------------------------------------------------
(***************************************************************************)
(* Free space and checks.                                                  *)
(***************************************************************************)

In(sector, p) == p.firstLBA <= sector /\ sector <= p.lastLBA

IsFree(g, sector) ==
  /\ \A i \in PartNums : ~In(sector, g.parts[i])
  /\ g.main.firstUsableLBA <= sector /\ sector <= g.main.lastUsableLBA

(* The loop leaves every used partition it is in by its end: the first     *)
(* sector from start on that no used partition holds.                      *)
FindFirstAvailable(g, start) ==
  LET from == IF start < g.main.firstUsableLBA THEN g.main.firstUsableLBA
              ELSE start
      Out(s) == \A i \in PartNums : IsUsed(g.parts[i]) => ~In(s, g.parts[i])
      ends == {from} \cup {g.parts[i].lastLBA + 1 : i \in PartNums}
      first == CHOOSE s \in ends : /\ s >= from /\ Out(s)
                                   /\ \A t \in ends :
                                        t >= from /\ Out(t) => s <= t
  IN IF first > g.main.lastUsableLBA THEN 0 ELSE first

(* The entries are looked at in their order; one that starts beyond start  *)
(* ends the free space before it.                                          *)
FindLastInFree(g, start) ==
  LET Nearer(n, p) == IF n > p.firstLBA /\ p.firstLBA > start
                      THEN p.firstLBA - 1 ELSE n
  IN Nearer(Nearer(g.main.lastUsableLBA, g.parts[0]), g.parts[1])

(* FindFirstInLargest, for the empty table it is called with: there is one *)
(* run of free sectors, the one the first sector found is in.              *)
FindFirstInLargest(g) == FindFirstAvailable(g, 0)

Align(g, sector) ==
  LET earlier == (sector \div g.align) * g.align
      later == earlier + g.align
      back == /\ earlier >= g.main.firstUsableLBA
              /\ \A s \in earlier .. sector - 1 : IsFree(g, s)
      ahead == /\ later <= g.main.lastUsableLBA
               /\ \A s \in sector + 1 .. later : IsFree(g, s)
  IN IF sector % g.align = 0 THEN sector
     ELSE IF back THEN earlier ELSE IF ahead THEN later ELSE sector

DoTheyOverlap(p, q) ==
  /\ p.firstLBA # 0 /\ q.firstLBA # 0
  /\ (p.firstLBA <= q.lastLBA) # (p.lastLBA < q.firstLBA)

FindOverlaps(g) ==
  \E i, j \in PartNums :
    /\ j < i /\ IsUsed(g.parts[i]) /\ IsUsed(g.parts[j])
    /\ DoTheyOverlap(g.parts[i], g.parts[j])

FindInsanePartitions(g) ==
  \E i \in PartNums :
    /\ IsUsed(g.parts[i])
    /\ \/ g.parts[i].firstLBA > g.parts[i].lastLBA
       \/ g.parts[i].lastLBA >= g.diskSize

(* Does a partition in use run into the tables? *)
CheckGPTSize(g) ==
  /\ g.diskSize # 0
  /\ \E i \in PartNums :
       /\ IsUsed(g.parts[i])
       /\ \/ g.main.firstUsableLBA > g.parts[i].firstLBA
          \/ g.main.lastUsableLBA < g.parts[i].lastLBA

(* Verify: does it count a problem?  It looks at the object, not at the    *)
(* drive.  (An MBR partition of another type never matches a table that    *)
(* was started over.)                                                      *)
Verify(g) ==
  LET m == g.main
      s == g.second
  IN \/ ~g.mainCrcOk \/ ~g.mainPartsCrcOk
     \/ ~g.secondCrcOk \/ ~g.secondPartsCrcOk
     \/ m.currentLBA # 1 \/ s.currentLBA # U64(g.diskSize - 1)
     \/ m.currentLBA # s.backupLBA \/ m.backupLBA # s.currentLBA
     \/ m.firstUsableLBA # s.firstUsableLBA
     \/ m.lastUsableLBA # s.lastUsableLBA
     \/ m.tableSize # s.tableSize
     \/ m.backupLBA >= g.diskSize
     \/ U64(m.partitionEntriesLBA + g.tsz) > m.firstUsableLBA
     \/ m.partitionEntriesLBA < 2
     \/ U64(s.partitionEntriesLBA + g.tsz) > s.currentLBA
     \/ m.lastUsableLBA >= g.diskSize \/ m.lastUsableLBA > m.backupLBA
     \/ FindOverlaps(g) \/ FindInsanePartitions(g) \/ g.mbr.others
     \/ CheckGPTSize(g) \/ ~DoTheyFit(g)
-----------------------------------------------------------------------------
(***************************************************************************)
(* PalData::ClearDisk: one partition over the free space.  What            *)
(* CreatePartition says is not looked at, its entry is set again.          *)
(***************************************************************************)

CreatePartition(g, first, last) ==
  LET start == Align(g, first)
      fits == /\ ~IsUsed(g.parts[0])
              /\ IsFree(g, start) /\ start <= last
              /\ FindLastInFree(g, start) >= last
  IN IF fits THEN [g EXCEPT !.parts[0] = [type |-> "default",
                                          firstLBA |-> start,
                                          lastLBA |-> last]]
     ELSE g

WholeDisk(g) ==
  LET low == Align(g, FindFirstInLargest(g))
      high == FindLastInFree(g, low)
  IN [CreatePartition(g, low, high) EXCEPT
        !.parts[0] = [type |-> "fat32", firstLBA |-> low, lastLBA |-> high]]

(* The corrections SaveGPTData makes when it may not ask, and its checks,  *)
(* the first of which comes before the later corrections.                  *)
OnDisk(g) ==
  IF g.main.backupLBA >= g.diskSize THEN MoveSecondHeaderToEnd(g) ELSE g

Corrected(g) ==
  LET g1 == OnDisk(g)
      g2 == IF g1.main.backupLBA < U64(g1.diskSize - 1)
            THEN MoveSecondHeaderToEnd(g1) ELSE g1
  IN IF \/ g2.main.lastUsableLBA >= g2.diskSize
        \/ g2.main.lastUsableLBA > g2.main.backupLBA
     THEN MoveSecondHeaderToEnd(g2) ELSE g2

(* Mutant: the tables' room is not checked. *)
MutMaySaveNoRoomCheck(g) ==
  ~FindOverlaps(Corrected(g)) /\ ~FindInsanePartitions(Corrected(g))

MaySave(g) ==
  /\ ~CheckGPTSize(OnDisk(g))
  /\ ~FindOverlaps(Corrected(g)) /\ ~FindInsanePartitions(Corrected(g))
-----------------------------------------------------------------------------
(***************************************************************************)
(* The drive.                                                              *)
(***************************************************************************)

(* An image of n - 1 sectors with a table of t sectors was written before. *)
ImageDisk(n, t) ==
  LET first == t + 2
      last == n - 1 - first
      tab == [BlankPartitions EXCEPT
                ![0] = [type |-> "image", firstLBA |-> first,
                        lastLBA |-> last]]
      m == Fields(1, n - 2, first, last, 2, t, tab)
      s == Fields(n - 2, 1, first, last, last + 1, t, tab)
  IN [i \in 0 .. n - 1 |->
        CASE i = 0 -> MbrSector([state |-> "gpt", lastLBA |-> n - 2,
                                 others |-> FALSE])
          [] i = 1 -> HeaderSector(m, m)
          [] i \in 2 .. first - 1 -> TableSector(tab, i - 2)
          [] i \in last + 1 .. last + t -> TableSector(tab, i - last - 1)
          [] i = n - 2 -> HeaderSector(s, s)
          [] OTHER -> Unknown]

(* The sectors of `buffer' go to lba and after it. *)
Write(lba, buffer) ==
  disk' = [i \in DOMAIN disk |->
             IF i - lba + 1 \in DOMAIN buffer THEN buffer[i - lba + 1]
                                              ELSE disk[i]]

Closed(name) == [name |-> name, mode |-> "closed"]

(* Mutant: the name is kept. *)
MutOpenKeepsName(ok) ==
  io' = [name |-> TRUE, mode |-> IF ok THEN "read" ELSE "closed"]

(* OpenForRead: a failure forgets the name. *)
OpenForRead(ok) ==
  io' = [name |-> ok, mode |-> IF ok THEN "read" ELSE "closed"]

(* OpenForWrite without a name fails. *)
CanWrite(ok) == ok /\ io.name

Init ==
  /\ size \in Sizes
  /\ disk \in {[i \in 0 .. size - 1 |-> Unknown]} \cup
             {ImageDisk(size, t) : t \in {t \in Images : 2 * t + 5 <= size}}
  /\ io = Closed(FALSE)
  /\ gpt \in {Constructed(x) : x \in Garbage}
  /\ job \in {"install", "format"}
  /\ pc = "idle" /\ call = "clear"
  /\ ret = FALSE /\ saved = FALSE /\ fault = FALSE /\ mainWas = FALSE

-----------------------------------------------------------------------------
(***************************************************************************)
(* The steps of the two calls.                                             *)
(***************************************************************************)

At(p) == pc = p
Goto(p) == pc' = p

(* A new object for the next call; the drive keeps what it has. *)
Construct(c) ==
  /\ call' = c /\ Goto("open") /\ io' = Closed(FALSE)
  /\ \E x \in Garbage : gpt' = Constructed(x)
  /\ saved' = FALSE /\ fault' = FALSE /\ mainWas' = FALSE

(* formatShared: Install and Format both begin with clearMbrGpt. *)
Begin ==
  /\ At("idle") /\ Construct("clear")
  /\ job' \in {"install", "format"}
  /\ UNCHANGED <<size, disk, ret>>

(* What LoadPartitions returns is not looked at. *)
AfterLoad == IF call = "clear" THEN "mbr" ELSE "clearDisk"

LoadOpen ==
  /\ At("open")
  /\ \E ok \in BOOLEAN :
       /\ OpenForRead(ok)
       /\ fault' = (fault \/ ~ok)
       /\ Goto(IF ok THEN "test" ELSE AfterLoad)
  /\ UNCHANGED <<size, disk, gpt, job, call, ret, saved, mainWas>>

(* The write test, closed again whatever it said. *)
LoadTest ==
  /\ At("test")
  /\ \E ok \in BOOLEAN : io' = Closed(ok) /\ fault' = (fault \/ ~ok)
  /\ Goto("reopen")
  /\ UNCHANGED <<size, disk, gpt, job, call, ret, saved, mainWas>>

LoadReopen ==
  /\ At("reopen")
  /\ \E ok \in BOOLEAN :
       /\ OpenForRead(ok)
       /\ fault' = (fault \/ ~ok)
       /\ Goto(IF ok THEN "size" ELSE AfterLoad)
  /\ UNCHANGED <<size, disk, gpt, job, call, ret, saved, mainWas>>

(* Without a medium the length cannot be asked for.  The error number of   *)
(* DiskSize is not looked at, and says nothing of it.                      *)
LoadSize ==
  /\ At("size")
  /\ \E ok \in BOOLEAN :
       /\ ok => size > 0
       /\ \E n \in DiskSize(ok) : gpt' = [gpt EXCEPT !.diskSize = n]
       /\ fault' = (fault \/ ~ok)
  /\ Goto("scan")
  /\ UNCHANGED <<size, disk, io, job, call, ret, saved, mainWas>>

(* PartitionScan. *)
ReadMBR ==
  /\ At("scan")
  /\ \E ok, asked \in BOOLEAN :
       /\ ok \/ asked => size > 0
       /\ \E n \in DiskSize(asked) : gpt' = ReadMBRData(gpt, ok, n)
       /\ fault' = (fault \/ ~ok \/ ~asked)
  /\ Goto("readMain")
  /\ UNCHANGED <<size, disk, io, job, call, ret, saved, mainWas>>

(* ForceLoadGPTData, a step for each read; allOK is its local. *)
LoadMainHeader ==
  /\ At("readMain")
  /\ \E ok \in BOOLEAN :
       LET read == Reaches(1, 1, ok)
       IN /\ \E r \in ReadHeader(1, read, {}) :
               gpt' = [Resized(gpt, r, read) EXCEPT
                         !.main = r.header, !.mainCrcOk = r.good,
                         !.allOK = read]
          /\ fault' = (fault \/ ~ok)
  /\ Goto("readSecond")
  /\ UNCHANGED <<size, disk, io, job, call, ret, saved, mainWas>>

SecondLBA ==
  IF gpt.mainCrcOk /\ gpt.main.backupLBA < gpt.diskSize
  THEN gpt.main.backupLBA ELSE U64(gpt.diskSize - 1)

(* Of two headers the good one replaces the bad one. *)
LoadSecondHeader ==
  /\ At("readSecond")
  /\ \E ok \in BOOLEAN :
       LET read == Reaches(SecondLBA, 1, ok)
           main == [header |-> gpt.main, good |-> gpt.mainCrcOk]
       IN /\ \E r \in ReadHeader(SecondLBA, read, {main}) :
            \E g \in {[Resized(gpt, r, read) EXCEPT
                        !.second = r.header, !.secondCrcOk = r.good,
                        !.allOK = gpt.allOK /\ read]} :
               \/ /\ g.mainCrcOk /\ Goto("readMainTable")
                  /\ gpt' = IF g.secondCrcOk THEN g
                            ELSE RebuildSecondHeader(g)
               \/ /\ ~g.mainCrcOk /\ g.secondCrcOk /\ Goto("readSecondTable")
                  /\ gpt' = RebuildMainHeader(g)
               \/ /\ ~g.mainCrcOk /\ ~g.secondCrcOk /\ Goto("startOver")
                  /\ gpt' = g
          /\ fault' = (fault \/ ~ok)
  /\ UNCHANGED <<size, disk, io, job, call, ret, saved, mainWas>>

(* LoadPartitionTable for header h, on to `then' if it returns 1.  The     *)
(* drive is open for reading and stays so.  allOK is not about the backup  *)
(* table read first.                                                       *)
LoadTable(h, then, else) ==
  /\ \E ok \in BOOLEAN :
       LET seeks == CanSeek(h.partitionEntriesLBA)
           read == Reaches(h.partitionEntriesLBA, h.tableSize, ok)
           loaded == seeks /\ read
       IN /\ \E tab \in ReadTable(h, read) :
               gpt' = [(IF seeks THEN LoadPartitionTable(gpt, h, tab)
                        ELSE gpt)
                       EXCEPT !.allOK = gpt.allOK /\
                                        (loaded \/ At("readSecondTable"))]
          /\ Goto(IF loaded THEN then ELSE else)
          /\ fault' = (fault \/ ~ok)
  /\ UNCHANGED <<size, disk, io, job, call, ret, saved, mainWas>>

LoadMainTable ==
  \/ At("readMainTable") /\ LoadTable(gpt.main, "checkSecond", "checkSecond")
  \/ At("readMainAfterAll") /\ LoadTable(gpt.main, "checkSecond", "neither")

LoadSecondTableAsMain ==
  At("readSecondTable")
  /\ LoadTable(gpt.second, "checkMain", "readMainAfterAll")

(* The table that was not loaded is compared with the one that was; a good *)
(* backup is preferred to a bad main table.                                *)
Checked(g) ==
  /\ gpt' = g
  /\ Goto(IF g.secondPartsCrcOk /\ g.secondCrcOk /\ ~g.mainPartsCrcOk
          THEN "readBackup" ELSE "startOver")

CheckOtherTable ==
  /\ \E ok \in BOOLEAN :
       \/ /\ At("checkSecond") /\ fault' = (fault \/ ~ok)
          /\ Checked([gpt EXCEPT !.secondPartsCrcOk =
                         CheckTable(gpt.second, gpt.main, ok)])
       \/ /\ At("checkMain") /\ fault' = (fault \/ ~ok)
          /\ Checked([gpt EXCEPT !.mainPartsCrcOk =
                         CheckTable(gpt.main, gpt.second, ok)])
       \/ /\ At("neither") /\ UNCHANGED fault
          /\ Checked([gpt EXCEPT !.mainPartsCrcOk = FALSE,
                                 !.secondPartsCrcOk = FALSE])
  /\ UNCHANGED <<size, disk, io, job, call, ret, saved, mainWas>>

LoadBackupTable ==
  /\ At("readBackup")
  /\ IF gpt.allOK THEN LoadTable(gpt.second, "startOver", "startOver")
     ELSE /\ Goto("startOver")
          /\ UNCHANGED <<size, disk, gpt, io, job, call, ret, saved, fault,
                         mainWas>>

(* use_new: whatever was loaded, the table is started over. *)
StartOver ==
  /\ At("startOver")
  /\ gpt' = ComputeAlignment(MakeProtectiveMBR(
              ClearGPTData([gpt EXCEPT !.allOK = TRUE])))
  /\ io' = Closed(TRUE)
  /\ Goto(AfterLoad)
  /\ UNCHANGED <<size, disk, job, call, ret, saved, fault, mainWas>>

(* WriteMBRData opens the drive itself and closes it. *)
WriteMBR(ok) ==
  /\ IF CanWrite(ok) /\ Reaches(0, 1, ok)
     THEN Write(0, <<MbrSector(gpt.mbr)>>)
     ELSE UNCHANGED disk
  /\ fault' = (fault \/ ~(CanWrite(ok) /\ Reaches(0, 1, ok)))
  /\ io' = Closed(io.name)

WriteProtectiveMBR ==
  /\ At("mbr")
  /\ \E ok \in BOOLEAN : WriteMBR(ok)
  /\ Goto("clear")
  /\ UNCHANGED <<size, gpt, job, call, ret, saved, mainWas>>

ClearTable ==
  /\ At("clear")
  /\ gpt' = ClearGPTData(gpt)
  /\ Goto("save")
  /\ UNCHANGED <<size, disk, io, job, call, ret, saved, fault, mainWas>>

ClearDisk ==
  /\ At("clearDisk")
  /\ gpt' = WholeDisk(gpt)
  /\ Goto("save")
  /\ UNCHANGED <<size, disk, io, job, call, ret, saved, fault, mainWas>>

(* A header whose CRC is right and that says where it is, and the entries  *)
(* its CRC was computed from where it says they are.                       *)
Intact(lba) ==
  IF HeaderAt(lba)
  THEN LET h == disk[lba].header
       IN /\ disk[lba].crc = h /\ h.currentLBA = lba
          /\ TableAt(h.partitionEntriesLBA, h.tableSize) = h.entriesCRC
  ELSE FALSE

SaveChecks ==
  /\ At("save")
  /\ gpt' = RecomputeCRCs(Corrected(gpt))
  /\ Goto(IF MaySave(gpt) THEN "saveOpen" ELSE "verify")
  /\ mainWas' = Intact(1)
  /\ UNCHANGED <<size, disk, io, job, call, ret, saved, fault>>

SaveOpen ==
  /\ At("saveOpen")
  /\ \E ok \in BOOLEAN :
       /\ io' = [io EXCEPT !.mode = IF CanWrite(ok) THEN "write" ELSE "closed"]
       /\ fault' = (fault \/ ~CanWrite(ok))
       /\ Goto(IF CanWrite(ok) THEN "backupTable" ELSE "verify")
  /\ UNCHANGED <<size, disk, gpt, job, call, ret, saved, mainWas>>

(* SavePartitionTable and SaveHeader: a failed Write returns 0 and is      *)
(* taken for a success, only -1 would be a failure; a failed Seek ends it. *)
SaveAt(lba, buffer, next) ==
  /\ \E ok \in BOOLEAN :
       IF CanSeek(lba)
       THEN /\ IF Reaches(lba, Len(buffer), ok) THEN Write(lba, buffer)
                                                ELSE UNCHANGED disk
            /\ fault' = (fault \/ ~Reaches(lba, Len(buffer), ok))
            /\ Goto(next) /\ UNCHANGED io
       ELSE /\ Goto("verify") /\ io' = Closed(io.name)
            /\ UNCHANGED <<disk, fault>>
  /\ UNCHANGED <<size, gpt, job, call, ret, saved, mainWas>>

EntryBuffer == [i \in 1 .. gpt.tsz |-> TableSector(gpt.parts, i - 1)]

(* Mutant: the main table is written first. *)
MutSaveMainFirst ==
  /\ At("backupTable")
  /\ SaveAt(gpt.main.partitionEntriesLBA, EntryBuffer, "backupHeader")

SaveBackupTable ==
  /\ At("backupTable")
  /\ SaveAt(gpt.second.partitionEntriesLBA, EntryBuffer, "backupHeader")

SaveBackupHeader ==
  /\ At("backupHeader")
  /\ SaveAt(gpt.main.backupLBA, <<HeaderSector(gpt.second, gpt.secondCRC)>>,
            "mainTable")

SaveMainTable ==
  /\ At("mainTable")
  /\ SaveAt(gpt.main.partitionEntriesLBA, EntryBuffer, "mainHeader")

SaveMainHeader ==
  /\ At("mainHeader")
  /\ SaveAt(1, <<HeaderSector(gpt.main, gpt.mainCRC)>>, "saveMbr")

(* The MBR write does tell; DiskSync follows and the drive is closed. *)
SaveMBR ==
  /\ At("saveMbr")
  /\ \E ok \in BOOLEAN :
       /\ WriteMBR(ok)
       /\ saved' = (CanWrite(ok) /\ Reaches(0, 1, ok))
  /\ Goto("verify")
  /\ UNCHANGED <<size, gpt, job, call, ret, mainWas>>

(* What SaveGPTData returned is not looked at. *)
VerifyTable ==
  /\ At("verify")
  /\ ret' = ~Verify(gpt)
  /\ Goto("returned")
  /\ UNCHANGED <<size, disk, io, gpt, job, call, saved, fault, mainWas>>

(* Format goes on with makeEmptyPartition if clearMbrGpt said so. *)
Return ==
  /\ At("returned")
  /\ IF job = "format" /\ call = "clear" /\ ret THEN Construct("make")
     ELSE /\ Goto("idle")
          /\ UNCHANGED <<io, gpt, call, saved, fault, mainWas>>
  /\ UNCHANGED <<size, disk, job, ret>>

Next ==
  \/ Begin \/ LoadOpen \/ LoadTest \/ LoadReopen \/ LoadSize
  \/ ReadMBR \/ LoadMainHeader \/ LoadSecondHeader
  \/ LoadMainTable \/ LoadSecondTableAsMain
  \/ CheckOtherTable \/ LoadBackupTable \/ StartOver
  \/ WriteProtectiveMBR \/ ClearTable \/ ClearDisk
  \/ SaveChecks \/ SaveOpen
  \/ SaveBackupTable \/ SaveBackupHeader \/ SaveMainTable \/ SaveMainHeader
  \/ SaveMBR \/ VerifyTable \/ Return

Spec == Init /\ [][Next]_vars
-----------------------------------------------------------------------------
Saving == {"saveOpen", "backupTable", "backupHeader", "mainTable",
           "mainHeader", "saveMbr"}

(* Room for both tables and an aligned partition between them. *)
RoomFor(n) == n >= 2 * (TableSectors + 2) + Alignment
Roomy == RoomFor(size)

(* The table the last save was to leave on the drive. *)
Holds(lba) == Intact(lba) /\ disk[lba].header.entriesCRC = gpt.parts

(* The object both calls go on with after LoadPartitions, unless the drive *)
(* could not be opened, is the one for an empty drive of the size that     *)
(* DiskSize gave: the headers that were read, of whatever table size, or   *)
(* that could not be read, leave no trace (use_new, ClearGPTData).  That   *)
(* is the size of the drive if no call to it failed.                       *)
StartedOver ==
  pc \in {"mbr", "clearDisk"} /\ gpt.diskSize # 0 =>
    LET n == gpt.diskSize
    IN /\ gpt.main = Fields(1, n - 1, TableSectors + 2,
                            U64(n - TableSectors - 2), 2, TableSectors,
                            gpt.main.entriesCRC)
       /\ gpt.second.partitionEntriesLBA = U64(n - TableSectors - 1)
       /\ gpt.tsz = TableSectors /\ gpt.align = Alignment
       /\ gpt.parts = BlankPartitions
       /\ ~fault => n = size

(* A save that began with a good main copy never leaves the drive without  *)
(* one good copy, wherever it is cut short, as long as no write failed.    *)
OneCopyIntact ==
  pc \in Saving /\ mainWas /\ ~fault /\ Roomy =>
    Intact(1) \/ Intact(size - 1)

(* ClearDisk sets its partition even when CreatePartition refuses it, and  *)
(* on a drive too small there is no room: no such table is ever saved, a   *)
(* partition that is lies between the two tables.  Where there is room for *)
(* it, it begins at a multiple of the alignment and leaves less than that  *)
(* unused before it.  The tables are where the size that DiskSize gave     *)
(* puts them, which is the drive's if that call did not fail.              *)
SavedPartitionSane ==
  pc \in Saving =>
    /\ \A i \in PartNums :
         LET p == gpt.parts[i]
         IN IsUsed(p) => /\ 2 + TableSectors <= p.firstLBA
                         /\ p.firstLBA <= p.lastLBA
                         /\ p.lastLBA < gpt.second.partitionEntriesLBA
    /\ call = "make" /\ RoomFor(gpt.diskSize) =>
         LET first == gpt.parts[0].firstLBA
         IN first % Alignment = 0 /\ first < 2 + TableSectors + Alignment

(* When no call to the drive fails and it is large enough, the two calls   *)
(* say yes, and then both copies hold the table that was built, and each   *)
(* header says where the other is.                                         *)
VerdictExact ==
  At("returned") /\ ~fault /\ Roomy =>
    /\ ret /\ saved /\ Holds(1) /\ Holds(size - 1)
    /\ disk[1].header.backupLBA = size - 1
    /\ disk[size - 1].header.backupLBA = 1

(* A call that could not open the drive for loading goes on with a size of *)
(* 0 and headers nothing was read into. It writes nothing: the name was    *)
(* forgotten with the failed open, so none of the writes it still tries    *)
(* finds a drive; and in the end it says no.                               *)
FailedLoadHarmless ==
  [][gpt.diskSize = 0 =>
       UNCHANGED disk /\ (pc' = "returned" => ~ret')]_vars

(* What SaveGPTData is said to return: success only after everything was   *)
(* written.                                                                *)
SaveReportsFailure ==
  saved /\ At("verify") => Holds(1) /\ Holds(size - 1)
=============================================================================
