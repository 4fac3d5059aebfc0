--------------------------- MODULE DiskWriteProofs ---------------------------
(***************************************************************************)
(* Proofs about DiskWrite for any number of disks of any size and sector   *)
(* size, any image length, buffer size, number of tries and DWORD width    *)
(* that meet the module's assumptions, and the proof that a                *)
(* DiskWriteThread keeps the promises of WriteJob the wizard relies on.    *)
(***************************************************************************)
EXTENDS DiskWrite, TLAPS

-----------------------------------------------------------------------------
(* The inductive invariant                                                 *)

InWriteDrive == pc \in {"loop", "write", "retry"}

\* Image bytes are on no disk.
Clean ==
  \A d \in Disks : \A k \in Offsets(d) : media[d][k] \in {OLD, TABLE}

\* Which locals of Install are set where, and what the state says of pc.
ControlInv ==
  /\ state = "Initial" => pc = "run"
  /\ state \in Outcomes <=> pc = "done"
  /\ pc \in {"fileSize", "sectorSize", "driveSize", "open"} => hasImage
  /\ pc \in {"partition", "filesystem", "formatted"} => ~hasImage
  /\ pc = "sectorSize" => image_size \in FileLens
  /\ \/ pc \in {"driveSize", "open"} \/ InWriteDrive
     \/ pc \in {"clear", "cleared"} /\ hasImage
     => image_size \in FileLens /\ sector_size \in SectorSizes
  /\ InWriteDrive => hasImage /\ buffer \in [0 .. BufSize - 1 -> Int]
  /\ source => InWriteDrive /\ fileLen \in FileLens
  /\ pc \in {"write", "retry"} => source
  /\ pc = "loop" /\ ~source => wb = 0
  /\ pc \in {"loop", "write"} => pos = wb
  /\ phys \in {victim, NoDisk}

\* Nothing of the image is on a disk until the image file is open.
CleanInv == pc # "done" /\ ~source => Clean

\* Between two chunks: whole sectors are written, at most up to the sector
\* the projected size ends in, and what was read beyond what is written does
\* not matter any more.
LoopInv ==
  InWriteDrive /\ source =>
    /\ wb % sector_size = 0
    /\ wb < image_size + sector_size
    /\ rpos <= fileLen
    /\ pc = "loop" => \/ wb = rpos
                      \/ rpos = fileLen /\ wb >= fileLen
                      \/ wb >= image_size

\* The buffer holds the bytes of the file from wb on.
Loaded ==
  /\ wb < rpos
  /\ rpos = wb + BufSize \/ rpos = fileLen
  /\ \A k \in 0 .. BufSize - 1 : k < rpos - wb => buffer[k] = wb + k

\* The chunk about to be written: nothing once the projected size is
\* reached, else the bytes that follow those already written.
ChunkInv ==
  pc \in {"write", "retry"} =>
    /\ rSize <= BufSize
    /\ rSize % sector_size = 0
    /\ wb + rSize < image_size + sector_size
    /\ \/ rSize = 0 /\ wb >= image_size
       \/ /\ Loaded
          /\ \/ wb + rSize = rpos
             \/ rpos = fileLen /\ wb + rSize >= fileLen
             \/ wb + rSize >= image_size

\* What was written is on the disk Install opened.
CoveredInv ==
  InWriteDrive =>
    \A k \in 0 .. wb - 1 :
       k < fileLen /\ k < image_size
       => victim \in Disks /\ k \in Offsets(victim) /\ media[victim][k] = k

IInv ==
  /\ TypeOK
  /\ ControlInv
  /\ CleanInv
  /\ LoopInv
  /\ ChunkInv
  /\ CoveredInv
  /\ BytesInPlace
  /\ NoOverrun
  /\ ImageWritten

-----------------------------------------------------------------------------
(* Rounding to whole sectors                                               *)

\* Division with remainder, for the sizes of WriteDrive.
LEMMA DivFacts ==
  ASSUME NEW a \in Nat, NEW s \in Nat \ {0}
  PROVE  /\ a \div s \in Nat
         /\ a % s \in 0 .. s - 1
         /\ a = (a \div s) * s + (a % s)
  OBVIOUS

\* A multiple of s below the successor of another is not above that one.
LEMMA MultipleOrder ==
  ASSUME NEW p \in Nat, NEW q \in Nat, NEW s \in Nat \ {0}, p * s < q * s + s
  PROVE  p * s <= q * s
<1>1. p <= q
  <2>1. SUFFICES ASSUME p >= q + 1 PROVE FALSE
    OBVIOUS
  <2>2. p - q - 1 \in Nat
    BY <2>1
  <2>3. (p - q - 1) * s >= 0
    BY <2>2
  <2>4. p * s = (p - q - 1) * s + q * s + s
    BY <2>2
  <2> QED
    BY <2>3, <2>4
<1>2. q - p \in Nat
  BY <1>1
<1>3. (q - p) * s >= 0
  BY <1>2
<1>4. q * s = (q - p) * s + p * s
  BY <1>2
<1> QED
  BY <1>3, <1>4

\* RoundUp(n, s) is a multiple of s, at least n and less than n + s
\* (the rounding of BufSize and of rSize in WriteDrive).
LEMMA RoundUpFacts ==
  ASSUME NEW n \in Nat, NEW s \in Nat \ {0}
  PROVE  /\ RoundUp(n, s) \in Nat
         /\ n <= RoundUp(n, s)
         /\ RoundUp(n, s) < n + s
         /\ RoundUp(n, s) % s = 0
<1> DEFINE a == n + s - 1
           q == a \div s
<1>1. a \in Nat
  OBVIOUS
<1>2. q \in Nat /\ a % s \in 0 .. s - 1 /\ a = q * s + (a % s)
  BY <1>1, DivFacts
<1>3. RoundUp(n, s) = q * s
  BY DEF RoundUp
<1>4. q * s \in Nat
  BY <1>2
<1>5. (q * s) % s = 0
  BY <1>2
<1> HIDE DEF q
<1> QED
  BY <1>2, <1>3, <1>4, <1>5

\* Two multiples of s that differ by less than s.
LEMMA MultiplesApart ==
  ASSUME NEW s \in Nat \ {0}, NEW m \in Nat, NEW n \in Nat,
         m % s = 0, n % s = 0, m < n + s
  PROVE  m <= n
<1> DEFINE p == m \div s
           q == n \div s
<1>1. p \in Nat /\ m = p * s
  BY DivFacts
<1>2. q \in Nat /\ n = q * s
  BY DivFacts
<1> HIDE DEF p, q
<1> QED
  BY <1>1, <1>2, MultipleOrder

\* RoundUp(n, s) is the greatest multiple of s below n + s ...
LEMMA RoundUpGreatest ==
  ASSUME NEW n \in Nat, NEW s \in Nat \ {0}, NEW m \in Nat,
         m % s = 0, m < n + s
  PROVE  m <= RoundUp(n, s)
  BY RoundUpFacts, MultiplesApart

\* ... and the least one that is at least n.
LEMMA RoundUpLeast ==
  ASSUME NEW n \in Nat, NEW s \in Nat \ {0}, NEW m \in Nat,
         m % s = 0, n <= m
  PROVE  RoundUp(n, s) <= m
<1>1. RoundUp(n, s) \in Nat /\ RoundUp(n, s) < n + s /\ RoundUp(n, s) % s = 0
  BY RoundUpFacts
<1>2. RoundUp(n, s) < m + s
  BY <1>1
<1> QED
  BY <1>1, <1>2, MultiplesApart

\* Whole sectors after whole sectors are whole sectors.
LEMMA MultipleSum ==
  ASSUME NEW s \in Nat \ {0}, NEW m \in Nat, NEW n \in Nat,
         m % s = 0, n % s = 0
  PROVE  (m + n) % s = 0
<1> DEFINE p == m \div s
           q == n \div s
<1>1. p \in Nat /\ m = p * s
  BY DivFacts
<1>2. q \in Nat /\ n = q * s
  BY DivFacts
<1> HIDE DEF p, q
<1>3. m + n = (p + q) * s
  BY <1>1, <1>2
<1>4. p + q \in Nat /\ ((p + q) * s) % s = 0
  BY <1>1, <1>2
<1> QED
  BY <1>3, <1>4

\* Cutting to a DWORD leaves small numbers alone ...
LEMMA CutSmall ==
  ASSUME NEW D \in Nat \ {0}, NEW x \in Nat, x < D
  PROVE  x % D = x
  OBVIOUS

\* ... and wraps small negative ones.
LEMMA CutNegative ==
  ASSUME NEW D \in Nat \ {0}, NEW x \in Nat \ {0}, x < D
  PROVE  (-x) % D = D - x
  OBVIOUS

-----------------------------------------------------------------------------
(* Sector and buffer size                                                  *)

\* What the assumptions say of any sector size WriteDrive settles on.
LEMMA SectorFacts ==
  ASSUME NEW s \in SectorSizes
  PROVE  /\ s \in Nat \ {0}
         /\ DWORD \in Nat \ {0}
         /\ DWORD % s = 0
         /\ s <= DWORD
         /\ RoundUp(DD_BUFFER_SIZE, s) \in Nat \ {0}
         /\ RoundUp(DD_BUFFER_SIZE, s) % s = 0
         /\ RoundUp(DD_BUFFER_SIZE, s) < DWORD
<1>1. s \in Nat \ {0}
  BY DiskAssumption DEF SectorSizes
<1>2. DWORD \in Nat \ {0} /\ DWORD % s = 0 /\ RoundUp(DD_BUFFER_SIZE, s) < DWORD
  BY WidthAssumption DEF SectorSizes
<1>3. /\ RoundUp(DD_BUFFER_SIZE, s) \in Nat \ {0}
      /\ RoundUp(DD_BUFFER_SIZE, s) % s = 0
  <2>1. DD_BUFFER_SIZE \in Nat /\ DD_BUFFER_SIZE > 0
    BY SizeAssumption
  <2>2. /\ RoundUp(DD_BUFFER_SIZE, s) \in Nat
        /\ DD_BUFFER_SIZE <= RoundUp(DD_BUFFER_SIZE, s)
        /\ RoundUp(DD_BUFFER_SIZE, s) % s = 0
    BY <1>1, <2>1, RoundUpFacts
  <2> QED
    BY <2>1, <2>2
<1>4. s <= DWORD
  <2>1. SUFFICES ASSUME DWORD < s PROVE FALSE
    BY <1>1, <1>2
  <2>2. DWORD % s = DWORD
    BY <1>1, <1>2, <2>1, CutSmall
  <2> QED
    BY <1>2, <2>2
<1> QED
  BY <1>1, <1>2, <1>3, <1>4

\* The size WriteDrive computes for the write that follows a read of r bytes:
\* zero once the projected size is reached, else the clipped size rounded up.
LEMMA ChunkSize ==
  ASSUME sector_size \in SectorSizes, image_size \in Nat, wb \in Nat,
         wb % sector_size = 0, wb < image_size + sector_size,
         NEW r \in Nat, 0 < r, r <= BufSize,
         NEW n, n = WholeSectors(Clip(r))
  PROVE  /\ n \in Nat
         /\ n <= BufSize
         /\ n % sector_size = 0
         /\ wb + n < image_size + sector_size
         /\ wb >= image_size => n = 0
         /\ wb + r <= image_size => n >= r
         /\ wb < image_size /\ wb + r > image_size => wb + n >= image_size
<1> DEFINE s == sector_size
<1>1. /\ s \in Nat \ {0} /\ DWORD \in Nat \ {0} /\ DWORD % s = 0 /\ s <= DWORD
      /\ BufSize \in Nat \ {0} /\ BufSize % s = 0 /\ BufSize < DWORD
  BY SectorFacts DEF BufSize
<1>2. ASSUME NEW m \in Nat, m <= BufSize, wb + m <= image_size, Clip(r) = m
      PROVE  /\ n \in Nat /\ m <= n /\ n <= BufSize /\ n % s = 0
             /\ wb + n < image_size + s
  <2>1. /\ RoundUp(m, s) \in Nat /\ m <= RoundUp(m, s) /\ RoundUp(m, s) < m + s
        /\ RoundUp(m, s) % s = 0
    BY <1>1, RoundUpFacts
  <2>2. RoundUp(m, s) <= BufSize
    BY <1>1, <1>2, RoundUpLeast
  <2>3. n = RoundUp(m, s)
    BY <1>1, <1>2, <2>1, <2>2, CutSmall DEF WholeSectors
  <2> QED
    BY <1>1, <1>2, <2>1, <2>2, <2>3
<1>3. CASE wb + r <= image_size
  <2>1. Clip(r) = r
    BY <1>3, <1>1 DEF Clip
  <2>2. n \in Nat /\ r <= n /\ n <= BufSize /\ n % s = 0 /\ wb + n < image_size + s
    BY <1>2, <1>3, <2>1
  <2>3. QED
    BY <1>1, <1>3, <2>2
<1>4. CASE wb + r > image_size /\ wb <= image_size
  <2>1. image_size - wb \in Nat /\ image_size - wb < r
    BY <1>4
  <2>2. (image_size - wb) % DWORD = image_size - wb
    BY <1>1, <2>1, CutSmall
  <2>3. Clip(r) = image_size - wb
    BY <1>4, <2>2 DEF Clip
  <2>4. /\ n \in Nat /\ image_size - wb <= n /\ n <= BufSize /\ n % s = 0
        /\ wb + n < image_size + s
    BY <1>1, <1>2, <2>1, <2>3
  <2>5. wb = image_size => n = 0
    <3>1. SUFFICES ASSUME wb = image_size PROVE n = 0
      OBVIOUS
    <3>2. n < 0 + s
      BY <1>1, <2>4, <3>1
    <3>3. n <= 0
      <4>1. 0 % s = 0
        BY <1>1
      <4> QED
        BY <1>1, <2>4, <3>2, <4>1, MultiplesApart
    <3> QED
      BY <2>4, <3>3
  <2> QED
    BY <1>1, <1>4, <2>4, <2>5
<1>5. CASE wb > image_size
  <2> DEFINE x == wb - image_size
  <2>1. x \in Nat \ {0} /\ x < s /\ x < DWORD
    BY <1>1, <1>5
  <2>2. (image_size - wb) % DWORD = DWORD - x
    <3>1. image_size - wb = -x
      OBVIOUS
    <3> HIDE DEF x
    <3> QED
      BY <1>1, <2>1, <3>1, CutNegative
  <2>3. Clip(r) = DWORD - x
    BY <1>5, <2>2 DEF Clip
  <2>4. DWORD - x \in Nat
    BY <1>1, <2>1
  <2>5. RoundUp(DWORD - x, s) = DWORD
    <3>1. RoundUp(DWORD - x, s) \in Nat /\ RoundUp(DWORD - x, s) <= DWORD
      <4>1. DWORD - x <= DWORD
        BY <1>1, <2>1
      <4>2. RoundUp(DWORD - x, s) \in Nat
        BY <1>1, <2>4, RoundUpFacts
      <4>3. RoundUp(DWORD - x, s) <= DWORD
        BY <1>1, <2>4, <4>1, RoundUpLeast
      <4> QED
        BY <4>2, <4>3
    <3>2. DWORD <= RoundUp(DWORD - x, s)
      <4>1. DWORD < (DWORD - x) + s
        BY <1>1, <2>1
      <4> QED
        BY <1>1, <2>4, <4>1, RoundUpGreatest
    <3> QED
      BY <1>1, <3>1, <3>2
  <2>6. n = 0
    BY <1>1, <2>3, <2>5 DEF WholeSectors
  <2>7. 0 % s = 0
    BY <1>1
  <2> QED
    BY <1>1, <1>5, <2>6, <2>7
<1> QED
  BY <1>3, <1>4, <1>5

-----------------------------------------------------------------------------
(* Effects of the steps on the disks                                       *)

\* While no image byte is on a disk, writing a table (gpt_pal.cc) leaves it so.
LEMMA TableKeepsClean ==
  ASSUME TypeOK, Clean, NEW v \in BOOLEAN, SaveTable(v)
  PROVE  /\ DOMAIN media' = Disks
         /\ \A d \in Disks : media'[d] \in [Offsets(d) -> Int]
         /\ Clean'
<1>1. CASE media' = media
  BY <1>1 DEF TypeOK, Clean
<1>2. ASSUME attached \in Disks,
             NEW ends \in TableEnds(attached), media' = TableWritten(attached, ends)
      PROVE  /\ DOMAIN media' = Disks
             /\ \A d \in Disks : media'[d] \in [Offsets(d) -> Int]
             /\ Clean'
  <2>1. DOMAIN media' = Disks
    BY <1>2 DEF TypeOK, TableWritten
  <2>2. \A d \in Disks \ {attached} : media'[d] = media[d]
    BY <1>2 DEF TypeOK, TableWritten
  <2>3. media'[attached] = [k \in Offsets(attached) |->
          IF k \div DiskSector[attached] \in ends
            THEN TABLE ELSE media[attached][k]]
    BY <1>2 DEF TypeOK, TableWritten
  <2>4. media'[attached] \in [Offsets(attached) -> Int]
    BY <1>2, <2>3 DEF TypeOK, TABLE
  <2>5. \A k \in Offsets(attached) : media'[attached][k] \in {OLD, TABLE}
    BY <1>2, <2>3 DEF Clean
  <2> QED
    BY <2>1, <2>2, <2>4, <2>5 DEF TypeOK, Clean
<1> QED
  BY <1>1, <1>2 DEF SaveTable

\* A clean disk breaks no promise about image bytes.
LEMMA CleanIsSafe == Clean' => BytesInPlace' /\ NoOverrun'
  BY DEF Clean, BytesInPlace, NoOverrun

\* The first n bytes of a chunk reach the disk: they land where they belong,
\* within the sectors the projected size covers.
LEMMA ChunkPlaced ==
  ASSUME IInv, pc = "write", phys # NoDisk, Accepts(phys, rSize),
         NEW n \in Nat, n <= rSize, media' = Written(phys, n),
         UNCHANGED <<fileLen, image_size, sector_size>>
  PROVE  /\ phys \in Disks /\ victim = phys
         /\ DOMAIN media' = Disks
         /\ \A d \in Disks : media'[d] \in [Offsets(d) -> Int]
         /\ BytesInPlace'
         /\ NoOverrun'
         /\ \A k \in 0 .. wb + n - 1 :
              k < fileLen /\ k < image_size
              => k \in Offsets(phys) /\ media'[phys][k] = k
<1> DEFINE s == sector_size
<1>1. /\ phys \in Disks /\ victim = phys /\ source /\ pos = wb
      /\ fileLen \in Nat /\ wb \in Nat /\ rSize \in Nat /\ rpos \in Nat
      /\ Capacity[phys] \in Nat
      /\ image_size \in Nat /\ s \in SectorSizes
      /\ buffer \in [0 .. BufSize - 1 -> Int]
  BY DiskAssumption, SizeAssumption DEF IInv, TypeOK, ControlInv, InWriteDrive
<1>2. s \in Nat \ {0} /\ BufSize \in Nat
  BY <1>1, SectorFacts DEF BufSize
<1>3. /\ wb % s = 0 /\ rSize % s = 0 /\ rSize <= BufSize
      /\ wb + rSize < image_size + s
      /\ rSize # 0 => Loaded
  BY <1>1 DEF IInv, LoopInv, ChunkInv, InWriteDrive
<1>4. wb + rSize <= RoundUp(image_size, s)
  <2>1. (wb + rSize) % s = 0
    BY <1>1, <1>2, <1>3, MultipleSum
  <2> QED
    BY <1>1, <1>2, <1>3, <2>1, RoundUpGreatest
<1>5. wb + rSize <= Capacity[phys]
  BY <1>1 DEF Accepts
<1>6. ASSUME NEW k \in Nat, wb <= k, k < wb + n
      PROVE  /\ k \in Offsets(phys)
             /\ k < RoundUp(image_size, s)
             /\ buffer[k - wb] \in Int
             /\ k < fileLen => buffer[k - wb] = k
  <2>1. k - wb \in 0 .. BufSize - 1 /\ k < wb + rSize /\ rSize # 0
    BY <1>1, <1>2, <1>3, <1>6
  <2>2. k \in Offsets(phys)
    BY <1>1, <1>5, <1>6, <2>1 DEF Offsets
  <2>3. k < RoundUp(image_size, s)
    <3>1. RoundUp(image_size, s) \in Nat
      BY <1>1, <1>2, RoundUpFacts
    <3> QED
      BY <1>1, <1>4, <1>6, <2>1, <3>1
  <2>4. k < fileLen => buffer[k - wb] = k
    <3>1. SUFFICES ASSUME k < fileLen PROVE buffer[k - wb] = k
      OBVIOUS
    <3>2. k - wb < rpos - wb
      BY <1>1, <1>2, <1>3, <2>1, <3>1 DEF Loaded
    <3>3. buffer[k - wb] = wb + (k - wb)
      BY <1>3, <2>1, <3>2 DEF Loaded
    <3> QED
      BY <1>1, <3>3
  <2> QED
    BY <1>1, <2>1, <2>2, <2>3, <2>4
<1>7. DOMAIN media' = Disks /\ \A d \in Disks \ {phys} : media'[d] = media[d]
  BY <1>1 DEF IInv, TypeOK, Written
<1>8. media'[phys] = [k \in Offsets(phys) |->
         IF wb <= k /\ k < wb + n THEN buffer[k - wb] ELSE media[phys][k]]
  BY <1>1 DEF IInv, TypeOK, Written
<1>9. \A k \in Offsets(phys) : k \in Nat
  BY DEF Offsets
<1>10. \A d \in Disks : media'[d] \in [Offsets(d) -> Int]
  <2>1. media'[phys] \in [Offsets(phys) -> Int]
    BY <1>1, <1>6, <1>8, <1>9 DEF IInv, TypeOK
  <2> QED
    BY <1>7, <2>1 DEF IInv, TypeOK
<1>11. BytesInPlace'
  <2>1. \A k \in Offsets(phys) : k < fileLen => media'[phys][k] \in {OLD, TABLE, k}
    BY <1>1, <1>6, <1>8, <1>9 DEF IInv, BytesInPlace
  <2> QED
    BY <1>7, <2>1 DEF IInv, BytesInPlace
<1>12. NoOverrun'
  <2>1. \A k \in Offsets(phys) :
          media'[phys][k] \notin {OLD, TABLE} => k < RoundUp(image_size, s)
    BY <1>1, <1>6, <1>8, <1>9 DEF IInv, NoOverrun
  <2> QED
    BY <1>7, <2>1 DEF IInv, NoOverrun
<1>13. ASSUME NEW k \in 0 .. wb + n - 1, k < fileLen, k < image_size
       PROVE  k \in Offsets(phys) /\ media'[phys][k] = k
  <2>1. CASE k < wb
    <3>1. k \in Offsets(phys) /\ media[phys][k] = k
      BY <1>1, <1>13, <2>1 DEF IInv, CoveredInv, InWriteDrive
    <3> QED
      BY <1>1, <1>8, <2>1, <3>1
  <2>2. CASE k >= wb
    BY <1>1, <1>6, <1>8, <1>13, <2>2
  <2> QED
    BY <1>1, <2>1, <2>2
<1> QED
  BY <1>1, <1>7, <1>10, <1>11, <1>12, <1>13

-----------------------------------------------------------------------------
(* The invariant is inductive                                              *)

\* The invariant holds before the thread has run.
LEMMA InitIInv == Init => IInv
<1> SUFFICES ASSUME Init PROVE IInv
  OBVIOUS
<1>1. TypeOK
  <2>1. DOMAIN media = Disks /\ \A d \in Disks : media[d] \in [Offsets(d) -> Int]
    BY DEF Init, OLD
  <2>2. 0 \in 0 .. WRITE_RETRIES - 1
    BY SizeAssumption
  <2> QED
    BY <2>1, <2>2 DEF Init, TypeOK, Labels
<1>2. Clean
  BY DEF Init, Clean
<1>3. BytesInPlace /\ NoOverrun
  BY <1>2 DEF Clean, BytesInPlace, NoOverrun
<1> QED
  BY <1>1, <1>2, <1>3
  DEF Init, IInv, ControlInv, CleanInv, LoopInv, ChunkInv, CoveredInv,
      ImageWritten, InWriteDrive, Outcomes

\* Steps that end the job without success, or that touch neither the disks
\* nor what Install and WriteDrive know about them.
LEMMA QuietStep ==
  ASSUME IInv,
         \/ Run \/ FormatSharedReturns \/ MakeFilesystem \/ FormatDrive
         \/ AllocFails \/ ReadFails
         \/ Retry \/ GiveUp \/ Unplug \/ \E d \in Disks : Plug(d)
  PROVE  IInv'
<1> USE DEF Running, Return, worldVars, jobVars, sizeVars, handleVars, loopVars
<1>1. TypeOK'
  <2>1. CASE Retry
    BY <2>1, SizeAssumption DEF IInv, TypeOK, Labels, Retry, RetryWith
  <2>2. CASE ~Retry
    BY <2>2, ZenonT(40)
    DEF IInv, TypeOK, ControlInv, Labels, Outcomes, Run, FormatSharedReturns, MakeFilesystem,
        FormatDrive, AllocFails, ReadFails, GiveUp, Unplug, Plug
  <2> QED
    BY <2>1, <2>2
<1>2. ControlInv'
  BY DEF IInv, TypeOK, ControlInv, InWriteDrive, BufSize, Outcomes, Run, FormatSharedReturns,
      MakeFilesystem, FormatDrive, AllocFails, ReadFails, Retry, RetryWith,
      GiveUp, Unplug, Plug
<1>3. CleanInv' /\ LoopInv' /\ ChunkInv' /\ CoveredInv'
  BY DEF IInv, ControlInv, CleanInv, Clean, LoopInv, ChunkInv, Loaded,
      CoveredInv, InWriteDrive, BufSize, Run, FormatSharedReturns, MakeFilesystem, FormatDrive,
      AllocFails, ReadFails, Retry, RetryWith, GiveUp, Unplug, Plug
<1>4. BytesInPlace' /\ NoOverrun' /\ ImageWritten'
  BY DEF IInv, ControlInv, BytesInPlace, NoOverrun, ImageWritten, ImageOn,
      Outcomes, Run, FormatSharedReturns, MakeFilesystem, FormatDrive, AllocFails, ReadFails,
      Retry, RetryWith, GiveUp, Unplug, Plug
<1> QED
  BY <1>1, <1>2, <1>3, <1>4 DEF IInv

\* Install before it opens the disk, and Format: no image byte is on a disk.
LEMMA PrepareStep ==
  ASSUME IInv,
         \/ WriteImage \/ GetSectorSize \/ GetDriveSize \/ FormatShared
         \/ MakeEmptyPartition \/ OpenHandles
         \/ \E n \in FileLens \union {Missing} : ReplaceFile(n)
  PROVE  IInv'
<1> USE DEF Running, Return, worldVars, jobVars, sizeVars, handleVars, loopVars
<1>1. ASSUME TypeOK', ControlInv', Clean', wb' = 0 \/ ~InWriteDrive',
             pc' \notin {"write", "retry"}, state' # "Success",
             InWriteDrive' => rpos' = 0
      PROVE  IInv'
  <2>1. BytesInPlace' /\ NoOverrun'
    BY <1>1, CleanIsSafe
  <2>2. CleanInv' /\ ChunkInv' /\ ImageWritten'
    BY <1>1 DEF CleanInv, ChunkInv, ImageWritten
  <2>3. CoveredInv'
    BY <1>1 DEF CoveredInv
  <2>4. LoopInv'
    <3>1. SUFFICES ASSUME InWriteDrive', source' PROVE LoopInv'
      BY DEF LoopInv
    <3>2. /\ wb' = 0 /\ rpos' = 0 /\ fileLen' \in Nat /\ image_size' \in Nat
          /\ sector_size' \in SectorSizes
      BY <1>1, <3>1, SizeAssumption DEF ControlInv
    <3>3. sector_size' \in Nat \ {0}
      BY <3>2, SectorFacts
    <3>4. \A a \in Nat, s \in Nat \ {0} : 0 % s = 0 /\ 0 < a + s
      OBVIOUS
    <3>5. 0 % sector_size' = 0 /\ 0 < image_size' + sector_size'
      BY <3>2, <3>3, <3>4, Zenon
    <3>6. 0 <= fileLen'
      BY <3>2
    <3> QED
      BY <3>2, <3>5, <3>6, Zenon DEF LoopInv
  <2> QED
    BY <1>1, <2>1, <2>2, <2>3, <2>4 DEF IInv
<1>2. CASE WriteImage
  <2>1. TypeOK' /\ ControlInv'
    BY <1>2 DEF IInv, TypeOK, ControlInv, InWriteDrive, Labels, Outcomes, WriteImage
  <2>2. Clean'
    BY <1>2 DEF IInv, ControlInv, InWriteDrive, CleanInv, Clean, WriteImage
  <2> QED
    BY <1>1, <1>2, <2>1, <2>2 DEF IInv, ControlInv, InWriteDrive, WriteImage
<1>3. CASE GetSectorSize
  <2>1. sector_size' \in SectorSizes
    BY <1>3, DiskAssumption DEF SectorSizes, GetSectorSize
  <2>2. TypeOK' /\ ControlInv'
    BY <1>3, <2>1 DEF IInv, TypeOK, ControlInv, InWriteDrive, Labels, Outcomes, GetSectorSize
  <2>3. Clean'
    BY <1>3 DEF IInv, ControlInv, InWriteDrive, CleanInv, Clean, GetSectorSize
  <2> QED
    BY <1>1, <1>3, <2>2, <2>3 DEF IInv, ControlInv, InWriteDrive, GetSectorSize
<1>4. CASE GetDriveSize
  <2>1. drive_size' \in Nat
    BY <1>4, DiskAssumption DEF GetDriveSize
  <2>2. TypeOK' /\ ControlInv'
    BY <1>4, <2>1 DEF IInv, TypeOK, ControlInv, InWriteDrive, BufSize, Labels, Outcomes, GetDriveSize
  <2>3. Clean'
    BY <1>4 DEF IInv, ControlInv, InWriteDrive, CleanInv, Clean, GetDriveSize
  <2> QED
    BY <1>1, <1>4, <2>2, <2>3 DEF IInv, ControlInv, InWriteDrive, GetDriveSize
<1>5. CASE FormatShared
  <2>1. TypeOK /\ Clean /\ \E v \in BOOLEAN : SaveTable(v)
    BY <1>5 DEF IInv, ControlInv, InWriteDrive, CleanInv, FormatShared
  <2>2. /\ DOMAIN media' = Disks
        /\ \A d \in Disks : media'[d] \in [Offsets(d) -> Int]
        /\ Clean'
    BY <2>1, TableKeepsClean
  <2>3. TypeOK' /\ ControlInv'
    BY <1>5, <2>2 DEF IInv, TypeOK, ControlInv, InWriteDrive, Labels, Outcomes, FormatShared
  <2> QED
    BY <1>1, <1>5, <2>2, <2>3 DEF IInv, ControlInv, InWriteDrive, FormatShared
<1>6. CASE MakeEmptyPartition
  <2>1. TypeOK /\ Clean /\ \E v \in BOOLEAN : SaveTable(v)
    BY <1>6 DEF IInv, ControlInv, InWriteDrive, CleanInv, MakeEmptyPartition
  <2>2. /\ DOMAIN media' = Disks
        /\ \A d \in Disks : media'[d] \in [Offsets(d) -> Int]
        /\ Clean'
    BY <2>1, TableKeepsClean
  <2>3. TypeOK' /\ ControlInv'
    BY <1>6, <2>2 DEF IInv, TypeOK, ControlInv, InWriteDrive, Labels, Outcomes, MakeEmptyPartition
  <2> QED
    BY <1>1, <1>6, <2>2, <2>3 DEF IInv, ControlInv, InWriteDrive, MakeEmptyPartition
<1>7. CASE OpenHandles
  <2>1. sector_size \in SectorSizes /\ BufSize \in Nat
    BY <1>7, SectorFacts DEF IInv, ControlInv, BufSize, OpenHandles
  <2>2. TypeOK'
    <3>1. i' \in 0 .. WRITE_RETRIES - 1
      BY <1>7, SizeAssumption DEF OpenHandles
    <3> QED
      BY <1>7, <2>1, <3>1 DEF IInv, TypeOK, Labels, OpenHandles
  <2>3. buffer' \in [0 .. BufSize - 1 -> Int]
    BY <1>7 DEF OpenHandles, JUNK
  <2>4. ControlInv'
    BY <1>7, <2>3 DEF IInv, TypeOK, ControlInv, InWriteDrive, BufSize, Outcomes, OpenHandles
  <2>5. Clean'
    BY <1>7 DEF IInv, ControlInv, InWriteDrive, CleanInv, Clean, OpenHandles
  <2> QED
    BY <1>1, <1>7, <2>2, <2>4, <2>5 DEF OpenHandles
<1>8. CASE \E n \in FileLens \union {Missing} : ReplaceFile(n)
  <2>1. TypeOK' /\ ControlInv'
    BY <1>8 DEF IInv, TypeOK, ControlInv, InWriteDrive, BufSize, Outcomes, ReplaceFile
  <2>2. Clean'
    BY <1>8 DEF IInv, ControlInv, InWriteDrive, CleanInv, Clean, ReplaceFile, Outcomes
  <2>3. BytesInPlace' /\ NoOverrun'
    BY <2>2, CleanIsSafe
  <2>4. CleanInv' /\ LoopInv' /\ ChunkInv' /\ ImageWritten'
    BY <1>8, <2>2 DEF IInv, ControlInv, CleanInv, LoopInv, ChunkInv, ImageWritten, ReplaceFile
  <2>5. CoveredInv'
    BY <1>8 DEF IInv, ControlInv, InWriteDrive, CoveredInv, ReplaceFile
  <2> QED
    BY <2>1, <2>2, <2>3, <2>4, <2>5 DEF IInv
<1> QED
  BY <1>2, <1>3, <1>4, <1>5, <1>6, <1>7, <1>8

\* ReadFile fills the buffer with the bytes that follow those written.
LEMMA ReadStep ==
  ASSUME IInv, ReadChunk
  PROVE  IInv'
<1> USE DEF Running, worldVars, jobVars, sizeVars, handleVars, loopVars
<1>1. /\ source /\ pc = "loop" /\ pc' = "write" /\ pos = wb /\ state = "Running"
      /\ fileLen \in Nat /\ wb \in Nat /\ rpos \in Nat /\ image_size \in Nat
      /\ sector_size \in SectorSizes /\ buffer \in [0 .. BufSize - 1 -> Int]
      /\ image_size \in FileLens /\ fileLen \in FileLens /\ hasImage
      /\ phys \in {victim, NoDisk}
  BY SizeAssumption DEF IInv, TypeOK, ControlInv, InWriteDrive, ReadChunk
<1>2. BufSize \in Nat /\ BufSize' = BufSize
  BY <1>1, SectorFacts DEF BufSize, ReadChunk
<1>3. /\ wb % sector_size = 0 /\ wb < image_size + sector_size /\ rpos <= fileLen
      /\ wb = rpos \/ (rpos = fileLen /\ wb >= fileLen) \/ wb >= image_size
  BY <1>1 DEF IInv, LoopInv, InWriteDrive
<1> DEFINE r == Readable
<1>4. /\ r \in Nat /\ 0 < r /\ r <= BufSize /\ r <= fileLen - rpos
      /\ r = BufSize \/ r = fileLen - rpos
  BY <1>1, <1>2 DEF Readable, ReadChunk
<1>5. /\ buffer' = [k \in 0 .. BufSize - 1 |-> IF k < r THEN rpos + k ELSE buffer[k]]
      /\ rpos' = rpos + r /\ rSize' = WholeSectors(Clip(r)) /\ i' = 0
  BY DEF ReadChunk
<1> HIDE DEF r
<1>6. /\ rSize' \in Nat /\ rSize' <= BufSize /\ rSize' % sector_size = 0
      /\ wb + rSize' < image_size + sector_size
      /\ wb >= image_size => rSize' = 0
      /\ wb + r <= image_size => rSize' >= r
      /\ wb < image_size /\ wb + r > image_size => wb + rSize' >= image_size
  BY <1>1, <1>3, <1>4, <1>5, ChunkSize
<1>7. TypeOK'
  <2>1. 0 \in 0 .. WRITE_RETRIES - 1
    BY SizeAssumption
  <2>2. rpos' \in Nat
    BY <1>1, <1>4, <1>5
  <2> QED
    BY <1>1, <1>5, <1>6, <2>1, <2>2 DEF IInv, TypeOK, Labels, ReadChunk
<1>8. ControlInv'
  <2>1. buffer' \in [0 .. BufSize - 1 -> Int]
    BY <1>1, <1>4, <1>5
  <2> QED
    BY <1>1, <1>2, <2>1 DEF ControlInv, InWriteDrive, Outcomes, ReadChunk
<1>9. LoopInv'
  <2>1. rpos' <= fileLen
    BY <1>1, <1>4, <1>5
  <2> QED
    BY <1>1, <1>3, <2>1 DEF LoopInv, ReadChunk
<1>10. ChunkInv'
  <2>1. CASE wb >= image_size
    BY <1>1, <1>2, <1>6, <2>1 DEF ChunkInv, ReadChunk
  <2>2. CASE wb < image_size
    <3>1. wb = rpos
      BY <1>1, <1>3, <1>4, <2>2
    <3>2. /\ wb < rpos'
          /\ rpos' = wb + BufSize \/ rpos' = fileLen
          /\ \A k \in 0 .. BufSize - 1 : k < rpos' - wb => buffer'[k] = wb + k
      BY <1>1, <1>2, <1>4, <1>5, <3>1
    <3>3. \/ wb + rSize' = rpos'
          \/ rpos' = fileLen /\ wb + rSize' >= fileLen
          \/ wb + rSize' >= image_size
      <4>1. rpos' = wb + r
        BY <1>5, <3>1
      <4>2. CASE wb + r > image_size
        BY <1>6, <2>2, <4>2
      <4>3. CASE wb + r <= image_size /\ r = BufSize
        <5>1. rSize' \in Nat /\ rSize' <= BufSize /\ rSize' >= r
          BY <1>6, <4>3
        <5> QED
          BY <1>2, <4>1, <4>3, <5>1
      <4>4. CASE wb + r <= image_size /\ r = fileLen - rpos
        <5>1. rSize' \in Nat /\ rSize' >= r
          BY <1>6, <4>4
        <5>2. rpos' = fileLen /\ wb + r = fileLen
          BY <1>1, <1>4, <3>1, <4>1, <4>4
        <5>3. wb \in Nat /\ r \in Nat
          BY <1>1, <1>4
        <5>4. \A a, b, c \in Nat : b >= c => a + b >= a + c
          OBVIOUS
        <5>5. wb + rSize' >= wb + r
          BY <5>1, <5>3, <5>4, Zenon
        <5> QED
          BY <5>2, <5>5
      <4> QED
        BY <1>1, <1>4, <4>2, <4>3, <4>4
    <3>4. Loaded'
      BY <1>2, <3>2 DEF Loaded, ReadChunk
    <3> QED
      BY <1>1, <1>2, <1>6, <3>3, <3>4 DEF ChunkInv, ReadChunk
  <2> QED
    BY <1>1, <2>1, <2>2
<1>11. CleanInv' /\ CoveredInv' /\ BytesInPlace' /\ NoOverrun' /\ ImageWritten'
  BY <1>1 DEF IInv, CleanInv, CoveredInv, InWriteDrive, BytesInPlace, NoOverrun,
      ImageWritten, ReadChunk
<1> QED
  BY <1>7, <1>8, <1>9, <1>10, <1>11 DEF IInv

\* WriteFile reports a full, a short or a failed write.
LEMMA WriteStep ==
  ASSUME IInv, WriteChunk \/ WriteFails
  PROVE  IInv'
<1> USE DEF Running, worldVars, jobVars, sizeVars, handleVars, loopVars
<1>1. /\ source /\ pc = "write" /\ pc' \in {"loop", "retry"} /\ pos = wb
      /\ state = "Running" /\ hasImage /\ image_size \in FileLens
      /\ fileLen \in Nat /\ wb \in Nat /\ rSize \in Nat /\ image_size \in Nat
      /\ sector_size \in SectorSizes /\ phys \in {victim, NoDisk}
  BY SizeAssumption DEF IInv, TypeOK, ControlInv, InWriteDrive, WriteChunk, WriteFails
<1>2. BufSize' = BufSize
  BY DEF BufSize, WriteChunk, WriteFails
<1>3. CleanInv' /\ ImageWritten'
  BY <1>1 DEF CleanInv, ImageWritten, WriteChunk, WriteFails
<1>4. CASE WriteChunk
  <2>1. /\ phys \in Disks /\ victim = phys
        /\ DOMAIN media' = Disks
        /\ \A d \in Disks : media'[d] \in [Offsets(d) -> Int]
        /\ BytesInPlace'
        /\ NoOverrun'
        /\ \A k \in 0 .. wb + rSize - 1 :
             k < fileLen /\ k < image_size
             => k \in Offsets(phys) /\ media'[phys][k] = k
    BY <1>1, <1>4, ChunkPlaced DEF WriteChunk
  <2>2. TypeOK'
    BY <1>1, <1>4, <2>1 DEF IInv, TypeOK, Labels, WriteChunk
  <2>3. ControlInv'
    BY <1>1, <1>2, <1>4 DEF IInv, ControlInv, InWriteDrive, Outcomes, WriteChunk
  <2>4. LoopInv'
    <3>1. sector_size \in Nat \ {0}
      BY <1>1, SectorFacts
    <3>2. (wb + rSize) % sector_size = 0
      BY <1>1, <3>1, MultipleSum DEF IInv, LoopInv, ChunkInv, InWriteDrive
    <3> QED
      BY <1>1, <1>4, <3>2
      DEF IInv, LoopInv, ChunkInv, Loaded, InWriteDrive, WriteChunk
  <2>5. ChunkInv'
    BY <1>4 DEF ChunkInv, WriteChunk
  <2>6. CoveredInv'
    BY <1>1, <1>4, <2>1 DEF CoveredInv, WriteChunk
  <2> QED
    BY <1>3, <2>1, <2>2, <2>3, <2>4, <2>5, <2>6 DEF IInv
<1>5. CASE WriteFails
  <2>1. ControlInv' /\ LoopInv' /\ ChunkInv'
    BY <1>1, <1>2, <1>5
    DEF IInv, ControlInv, LoopInv, ChunkInv, Loaded, InWriteDrive, Outcomes,
        WriteFails
  <2>2. CASE media' = media /\ pos' = pos
    BY <1>1, <1>3, <1>5, <2>1, <2>2
    DEF IInv, TypeOK, Labels, CoveredInv, InWriteDrive, BytesInPlace,
        NoOverrun, WriteFails
  <2>3. ASSUME phys # NoDisk, Accepts(phys, rSize), NEW n \in 0 .. rSize - 1,
               media' = Written(phys, n), pos' \in {pos, pos + n}
        PROVE  IInv'
    <3>1. /\ phys \in Disks /\ victim = phys
          /\ DOMAIN media' = Disks
          /\ \A d \in Disks : media'[d] \in [Offsets(d) -> Int]
          /\ BytesInPlace'
          /\ NoOverrun'
          /\ \A k \in 0 .. wb + n - 1 :
               k < fileLen /\ k < image_size
               => k \in Offsets(phys) /\ media'[phys][k] = k
      BY <1>1, <1>5, <2>3, ChunkPlaced DEF WriteFails
    <3>2. TypeOK'
      BY <1>1, <1>5, <2>3, <3>1 DEF IInv, TypeOK, Labels, WriteFails
    <3>3. CoveredInv'
      BY <1>1, <1>5, <3>1 DEF CoveredInv, WriteFails
    <3> QED
      BY <1>3, <2>1, <3>1, <3>2, <3>3 DEF IInv
  <2> QED
    BY <1>5, <2>2, <2>3 DEF WriteFails
<1> QED
  BY <1>4, <1>5

\* The loop ends: Success is only reported with the image on the disk.
LEMMA EndStep ==
  ASSUME IInv, LoopEnds
  PROVE  IInv'
<1> USE DEF Running, Return, worldVars, jobVars, sizeVars, handleVars, loopVars
<1>1. /\ pc = "loop" /\ pc' = "done" /\ state' = "Success" /\ hasImage
      /\ ~source' /\ phys' = NoDisk
      /\ wb \in Nat /\ rpos \in Nat /\ image_size \in Nat /\ drive_size \in Nat
      /\ sector_size \in SectorSizes /\ fileLen \in Int
  <2>1. pc = "loop" /\ pc' = "done" /\ state' = "Success" /\ ~source' /\ phys' = NoDisk
    BY DEF LoopEnds
  <2>2. hasImage /\ image_size \in Nat /\ sector_size \in SectorSizes
    BY <2>1, SizeAssumption DEF IInv, ControlInv, InWriteDrive
  <2>3. /\ wb \in Nat /\ rpos \in Nat /\ drive_size \in Nat /\ fileLen \in Int
    BY SizeAssumption DEF IInv, TypeOK, Missing
  <2> QED
    BY <2>1, <2>2, <2>3
<1>2. BufSize \in Nat \ {0}
  BY <1>1, SectorFacts DEF BufSize
<1>3. TypeOK' /\ ControlInv'
  BY <1>1 DEF IInv, TypeOK, ControlInv, InWriteDrive, Labels, Outcomes, LoopEnds
<1>4. CleanInv' /\ LoopInv' /\ ChunkInv' /\ CoveredInv'
  BY <1>1 DEF CleanInv, LoopInv, ChunkInv, CoveredInv, InWriteDrive
<1>5. BytesInPlace' /\ NoOverrun'
  BY DEF IInv, BytesInPlace, NoOverrun, LoopEnds
<1>6. ImageWritten'
  <2>1. SUFFICES ASSUME drive_size >= image_size, fileLen = image_size, image_size > 0
                 PROVE  victim \in Disks /\ ImageOn(victim, image_size)
    BY <1>1 DEF ImageWritten, ImageOn, LoopEnds
  <2>2. wb >= image_size
    <3>1. CASE wb >= drive_size
      BY <1>1, <2>1, <3>1
    <3>2. CASE source /\ Readable = 0
      <4>1. rpos = fileLen
        <5>1. rpos <= fileLen
          BY <1>1, <3>2 DEF IInv, LoopInv, InWriteDrive
        <5> QED
          BY <1>1, <1>2, <3>2, <5>1 DEF Readable
      <4> QED
        BY <1>1, <2>1, <3>2, <4>1 DEF IInv, LoopInv, InWriteDrive
    <3> QED
      BY <3>1, <3>2 DEF LoopEnds
  <2>3. \A k \in 0 .. image_size - 1 :
           victim \in Disks /\ k \in Offsets(victim) /\ media[victim][k] = k
    BY <1>1, <2>1, <2>2 DEF IInv, CoveredInv, InWriteDrive
  <2>4. 0 \in 0 .. image_size - 1
    BY <1>1, <2>1
  <2> QED
    BY <2>3, <2>4 DEF ImageOn
<1> QED
  BY <1>3, <1>4, <1>5, <1>6 DEF IInv

\* Every step of the thread and of the world preserves the invariant.
LEMMA StepIInv == IInv /\ [Next]_vars => IInv'
<1> SUFFICES ASSUME IInv, [Next]_vars PROVE IInv'
  OBVIOUS
<1>1. CASE Next
  BY <1>1, QuietStep, PrepareStep, ReadStep, WriteStep, EndStep
  DEF Next, Thread, World, InstallStep, FormatStep
<1>2. CASE UNCHANGED vars
  BY <1>2
  DEF vars, worldVars, jobVars, sizeVars, handleVars, loopVars, IInv, TypeOK,
      ControlInv, CleanInv, Clean, LoopInv, ChunkInv, Loaded, CoveredInv,
      InWriteDrive, BufSize, BytesInPlace, NoOverrun, ImageWritten, ImageOn
<1> QED
  BY <1>1, <1>2

\* The inductive invariant holds in every reachable state.
THEOREM Invariance == Spec => []IInv
  BY InitIInv, StepIInv, PTL DEF Spec

-----------------------------------------------------------------------------
(* The results                                                             *)

\* Every variable keeps its type and a chunk has at most WRITE_RETRIES tries.
THEOREM TypeCorrect == Spec => []TypeOK
<1>1. IInv => TypeOK
  BY DEF IInv
<1> QED
  BY <1>1, Invariance, PTL

\* Whatever fails, is cut short, retried or swapped, no byte of the image is
\* ever at an offset that is not its own.
THEOREM NeverMisplaced == Spec => []BytesInPlace
<1>1. IInv => BytesInPlace
  BY DEF IInv
<1> QED
  BY <1>1, Invariance, PTL

\* If the drive reported room for the image and the file kept its size,
\* Success means that the whole image is on the disk.
THEOREM SuccessMeansWritten == Spec => []ImageWritten
<1>1. IInv => ImageWritten
  BY DEF IInv
<1> QED
  BY <1>1, Invariance, PTL

\* Nothing is written past the sector in which the projected size ends.
THEOREM NeverOverruns == Spec => []NoOverrun
<1>1. IInv => NoOverrun
  BY DEF IInv
<1> QED
  BY <1>1, Invariance, PTL

\* No write takes more bytes than the buffer has, wrapping included.
THEOREM WithinBuffer == Spec => []BufferBound
<1>1. IInv => BufferBound
  BY DEF IInv, ChunkInv, BufferBound
<1> QED
  BY <1>1, Invariance, PTL

-----------------------------------------------------------------------------
(* DiskWrite implements WriteJob                                           *)

\* What WriteJob calls touched.
Touched == fat # {} \/ \E d \in Disks : \E k \in Offsets(d) : media[d][k] # OLD

\* The thread has not begun at "run", no disk is touched before the image's
\* size is known, and nothing in the buffer can pass for what was on a disk before.
JobInv ==
  /\ pc = "run" => state = "Initial"
  /\ pc \in {"run", "fileSize"} => ~Touched
  /\ InWriteDrive => \A k \in 0 .. BufSize - 1 : buffer[k] # OLD

\* Writing a table makes no disk look untouched again.
LEMMA TableTouches ==
  ASSUME TypeOK, NEW v \in BOOLEAN, SaveTable(v), fat' = fat, Touched
  PROVE  Touched'
<1>1. CASE media' = media
  BY <1>1 DEF Touched
<1>2. ASSUME attached \in Disks,
             NEW ends \in TableEnds(attached), media' = TableWritten(attached, ends)
      PROVE  Touched'
  <2>1. ASSUME NEW d \in Disks, NEW k \in Offsets(d), media[d][k] # OLD
        PROVE  media'[d][k] # OLD
    <3>1. CASE d = attached
      BY <1>2, <2>1, <3>1 DEF TypeOK, TableWritten, TABLE, OLD
    <3>2. CASE d # attached
      BY <1>2, <2>1, <3>2 DEF TypeOK, TableWritten
    <3> QED
      BY <3>1, <3>2
  <2> QED
    BY <2>1 DEF Touched
<1> QED
  BY <1>1, <1>2 DEF SaveTable

\* Nor does writing a part of the buffer.
LEMMA ChunkTouches ==
  ASSUME IInv, JobInv, pc = "write", phys \in Disks, NEW n \in Nat, n <= rSize,
         media' = Written(phys, n), fat' = fat, Touched
  PROVE  Touched'
<1>1. /\ rSize \in Nat /\ rSize <= BufSize /\ pos \in Nat
      /\ sector_size \in SectorSizes
      /\ \A k \in 0 .. BufSize - 1 : buffer[k] # OLD
  BY DEF IInv, TypeOK, ControlInv, ChunkInv, InWriteDrive, JobInv
<1>2. BufSize \in Nat
  BY <1>1, SectorFacts DEF BufSize
<1>3. ASSUME NEW d \in Disks, NEW k \in Offsets(d), media[d][k] # OLD
      PROVE  media'[d][k] # OLD
  <2>1. CASE d # phys
    BY <1>3, <2>1 DEF IInv, TypeOK, Written
  <2>2. CASE d = phys
    <3>1. media'[d][k] = IF pos <= k /\ k < pos + n THEN buffer[k - pos]
                                                    ELSE media[d][k]
      BY <1>3, <2>2 DEF IInv, TypeOK, Written
    <3>2. pos <= k /\ k < pos + n => k - pos \in 0 .. BufSize - 1
      BY <1>1, <1>2, <1>3 DEF Offsets
    <3> QED
      BY <1>1, <1>3, <3>1, <3>2
  <2> QED
    BY <2>1, <2>2
<1> QED
  BY <1>3 DEF Touched

-----------------------------------------------------------------------------
\* The additional invariant holds initially ...
LEMMA InitJobInv == Init => JobInv
  BY DEF Init, JobInv, Touched, InWriteDrive

\* ... and is preserved.
LEMMA StepJobInv == IInv /\ JobInv /\ [Next]_vars => JobInv'
<1> SUFFICES ASSUME IInv, JobInv, [Next]_vars PROVE JobInv'
  OBVIOUS
<1> USE DEF Running, Return, worldVars, jobVars, sizeVars, handleVars, loopVars
<1>1. /\ pc' = "run" => state' = "Initial"
      /\ pc' \in {"run", "fileSize"} => ~Touched'
  BY DEF JobInv, Touched, vars, Next, Thread, World, InstallStep, FormatStep, Run,
      WriteImage, GetSectorSize, GetDriveSize, FormatShared, FormatSharedReturns,
      MakeEmptyPartition, MakeFilesystem, FormatDrive, OpenHandles, AllocFails, ReadChunk, ReadFails,
      LoopEnds, WriteChunk, WriteFails, Retry, RetryWith, GiveUp, Unplug, Plug,
      ReplaceFile
<1>2. InWriteDrive' => \A k \in (0 .. BufSize - 1)' : buffer'[k] # OLD
  <2>1. CASE OpenHandles
    BY <2>1 DEF OpenHandles, BufSize, JUNK, OLD
  <2>2. CASE ReadChunk
    <3>1. rpos \in Nat /\ sector_size \in SectorSizes
      BY <2>2 DEF IInv, TypeOK, ControlInv, InWriteDrive, ReadChunk
    <3>2. BufSize' = BufSize
      BY <2>2 DEF BufSize, ReadChunk
    <3>3. \A k \in 0 .. BufSize - 1 : buffer[k] # OLD /\ rpos + k # OLD
      BY <2>2, <3>1 DEF JobInv, InWriteDrive, ReadChunk, OLD
    <3> QED
      BY <2>2, <3>2, <3>3 DEF ReadChunk
  <2>3. CASE ~OpenHandles /\ ~ReadChunk
    BY <2>3 DEF JobInv, InWriteDrive, BufSize, vars, Next, Thread, World,
      InstallStep, FormatStep, Run, WriteImage, GetSectorSize, GetDriveSize,
      FormatShared, FormatSharedReturns, MakeEmptyPartition, MakeFilesystem,
      FormatDrive, AllocFails, ReadFails, LoopEnds, WriteChunk, WriteFails, Retry, RetryWith, GiveUp,
      Unplug, Plug, ReplaceFile
  <2> QED
    BY <2>1, <2>2, <2>3
<1> QED
  BY <1>1, <1>2 DEF JobInv

\* The thread's first state is the job's.
LEMMA InitRefines == Init => Job!JobInit
  BY DEF Init, Job!JobInit

\* Every step is a step of the job or leaves it alone.
LEMMA StepRefines == IInv /\ JobInv /\ [Next]_vars => [Job!JobNext]_Job!jobVars
<1> SUFFICES ASSUME IInv, JobInv, [Next]_vars
             PROVE  [Job!JobNext]_Job!jobVars
  OBVIOUS
<1> USE DEF Running, Return, worldVars, jobVars, sizeVars, handleVars, loopVars
<1>1. ASSUME state' = state, Touched' = Touched
      PROVE  UNCHANGED Job!jobVars
  BY <1>1 DEF Job!jobVars, Touched
<1>2. ASSUME state = "Running", state' = state, Touched => Touched'
      PROVE  [Job!JobNext]_Job!jobVars
  <2>1. CASE Touched'
    BY <1>2, <2>1 DEF Job!JobNext, Job!Touch, Touched
  <2>2. CASE ~Touched'
    BY <1>1, <1>2, <2>2 DEF Touched
  <2> QED
    BY <2>1, <2>2
<1>3. ASSUME state = "Running", NEW o \in Outcomes, state' = o,
             o = "GetFileSizeFailed" => ~Touched, Touched' = Touched
      PROVE  [Job!JobNext]_Job!jobVars
  BY <1>3 DEF Job!JobNext, Job!Report, Job!Outcomes, Outcomes, Touched
<1>4. media' = media /\ fat' = fat => Touched' = Touched
  BY DEF Touched
<1>5. CASE Run
  <2>1. state = "Initial"
    BY <1>5 DEF JobInv, Run
  <2> QED
    BY <1>4, <1>5, <2>1 DEF Job!JobNext, Job!Begin, Run, Touched
<1>6. CASE FormatShared
  BY <1>2, <1>6, TableTouches DEF IInv, FormatShared
<1>7. CASE MakeEmptyPartition
  BY <1>2, <1>7, TableTouches DEF IInv, MakeEmptyPartition
<1>8. CASE MakeFilesystem
  <2>1. Touched => Touched'
    BY <1>8 DEF Touched, MakeFilesystem
  <2> QED
    BY <1>2, <1>8, <2>1 DEF MakeFilesystem
<1>9. CASE WriteChunk
  <2>1. phys \in Disks /\ rSize \in Nat
    BY <1>9 DEF IInv, TypeOK, WriteChunk
  <2> QED
    BY <1>2, <1>9, <2>1, ChunkTouches DEF WriteChunk
<1>10. CASE WriteFails
  <2>1. CASE media' = media
    BY <1>2, <1>4, <1>10, <2>1 DEF WriteFails
  <2>2. ASSUME phys # NoDisk, NEW n \in 0 .. rSize - 1, media' = Written(phys, n)
        PROVE  Touched => Touched'
    <3>1. phys \in Disks /\ rSize \in Nat
      BY <2>2 DEF IInv, TypeOK
    <3> QED
      BY <1>10, <2>2, <3>1, ChunkTouches DEF WriteFails
  <2> QED
    BY <1>2, <1>10, <2>1, <2>2 DEF WriteFails
<1>11. CASE WriteImage
  <2>1. media' = media /\ fat' = fat /\ ~Touched
    BY <1>11 DEF WriteImage, JobInv
  <2> QED
    BY <1>1, <1>3, <1>4, <1>11, <2>1 DEF WriteImage, Outcomes
<1>12. CASE FormatDrive \/ AllocFails \/ ReadFails \/ LoopEnds \/ GiveUp
  <2>1. /\ media' = media /\ fat' = fat /\ state = "Running"
        /\ state' \in {"Success", "InstallFailed"}
    BY <1>12 DEF FormatDrive, AllocFails, ReadFails, LoopEnds, GiveUp
  <2> QED
    BY <1>3, <1>4, <2>1 DEF Outcomes
<1>13. CASE \/ GetSectorSize \/ GetDriveSize \/ OpenHandles \/ ReadChunk \/ Retry
            \/ World \/ UNCHANGED vars
  <2>1. media' = media /\ fat' = fat /\ state' = state
    BY <1>13 DEF GetSectorSize, GetDriveSize, OpenHandles, ReadChunk, Retry,
        RetryWith, World, Unplug, Plug, ReplaceFile, vars
  <2> QED
    BY <1>1, <1>4, <2>1
<1>14. CASE FormatSharedReturns
  <2>1. /\ media' = media /\ fat' = fat /\ state = "Running"
        /\ state' \in {state, "InstallFailed"}
    BY <1>14 DEF FormatSharedReturns
  <2> QED
    BY <1>1, <1>3, <1>4, <2>1 DEF Outcomes
<1> QED
  BY <1>5, <1>6, <1>7, <1>8, <1>9, <1>10, <1>11, <1>12, <1>13, <1>14
  DEF Next, Thread, InstallStep, FormatStep

\* A DiskWriteThread with all it calls implements WriteJob: one outcome, disks
\* written only while Running, and none written if the image was not found.
THEOREM DiskWriteImplementsJob == Spec => ImplementsJob
<1>1. Spec => []IInv
  BY Invariance
<1>2. Spec => []JobInv
  BY InitJobInv, StepJobInv, <1>1, PTL DEF Spec
<1> QED
  BY <1>1, <1>2, InitRefines, StepRefines, PTL DEF Spec, ImplementsJob, Job!JobSpec
=============================================================================
