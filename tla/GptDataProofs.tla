---------------------------- MODULE GptDataProofs ----------------------------
(***************************************************************************)
(* The properties of the partition table step, GptData: for a drive of any *)
(* size, tables of any size, any alignment, and anything an image written  *)
(* before may have left on the drive.                                      *)
(***************************************************************************)
EXTENDS GptData, TLAPS

Words == 0 .. Word - 1

Part ==
  [type : {"none", "default", "fat32", "image", "torn"},
   firstLBA : Nat, lastLBA : Nat]

Tables == [PartNums -> Part]

Header ==
  [currentLBA : Words, backupLBA : Words, firstUsableLBA : Words,
   lastUsableLBA : Words, partitionEntriesLBA : Words, tableSize : Nat \ {0},
   entriesCRC : Tables]

Mbr == [state : {"mbr", "gpt", "invalid"}, lastLBA : Words, others : BOOLEAN]

Object ==
  [diskSize : Nat, mbrSize : Nat, mbr : Mbr, main : Header, second : Header,
   tsz : Nat, mainCRC : Header, secondCRC : Header, parts : Tables,
   align : Nat \ {0}, allOK : BOOLEAN, mainCrcOk : BOOLEAN,
   secondCrcOk : BOOLEAN, mainPartsCrcOk : BOOLEAN,
   secondPartsCrcOk : BOOLEAN]

Sector ==
  {Unknown} \cup [kind : {"header"}, header : Header, crc : Header]
    \cup [kind : {"table"}, tab : Tables, i : Nat]
    \cup [kind : {"mbr"}, mbr : Mbr]

\* The fields no operation on sizes and headers touches.
SameRest(g, h) ==
  /\ h.diskSize = g.diskSize /\ h.mbrSize = g.mbrSize /\ h.parts = g.parts
  /\ h.align = g.align

-----------------------------------------------------------------------------
(* Words, headers and tables                                               *)

\* Sector numbers, and how they wrap.
LEMMA WordFacts ==
  /\ Word \in Nat \ {0}
  /\ \A x \in Int : U64(x) \in Words
  /\ \A x \in Words : U64(x) = x
  /\ \A x \in Int : U64(U64(x) + 1) = U64(x + 1)
<1>1. Word \in Nat \ {0}
  <2>1. PICK x \in Garbage : x \in 0 .. Word - 1
    BY GptConstants
  <2> QED
    BY <2>1, GptConstants
<1>2. ASSUME NEW x \in Int PROVE U64(x) \in Words
  BY <1>1 DEF U64, Words
<1>3. ASSUME NEW x \in Words PROVE U64(x) = x
  BY <1>1 DEF U64, Words
<1>4. ASSUME NEW x \in Int PROVE U64(U64(x) + 1) = U64(x + 1)
  <2> DEFINE q == x \div Word
             r == x % Word
  <2>1. q \in Int /\ r \in 0 .. Word - 1 /\ x = q * Word + r
    BY <1>1
  <2> HIDE DEF q, r
  <2>2. CASE r + 1 < Word
    <3>1. (r + 1) % Word = r + 1
      BY <1>1, <2>1, <2>2
    <3>2. (q * Word + (r + 1)) % Word = r + 1
      BY <1>1, <2>1, <2>2
    <3>3. x + 1 = q * Word + (r + 1)
      BY <1>1, <2>1
    <3>4. (x + 1) % Word = r + 1
      BY <3>2, <3>3
    <3> QED
      BY <3>1, <3>4 DEF U64, r
  <2>3. CASE r + 1 = Word
    <3>1. (r + 1) % Word = 0
      BY <1>1, <2>1, <2>3
    <3>2. x + 1 = (q + 1) * Word
      BY <1>1, <2>1, <2>3
    <3>3. ((q + 1) * Word) % Word = 0
      BY <1>1, <2>1
    <3> QED
      BY <2>1, <3>1, <3>2, <3>3 DEF U64, r
  <2> QED
    BY <1>1, <2>1, <2>2, <2>3
<1> QED
  BY <1>1, <1>2, <1>3, <1>4

\* For a size that is allowed, or made up, every sector number is a word, with
\* room to spare.
LEMMA SizeFacts ==
  ASSUME NEW n \in Sizes \cup MadeUp
  PROVE  /\ n \in Nat /\ n \in Words /\ n + Alignment + TableSectors < Word \div 2
         /\ TableSectors + 2 \in Words /\ 2 * (Word \div 2) <= Word
         /\ TableSectors \in Nat \ {0} /\ Alignment \in Nat \ {0}
         /\ Word \div 2 \in Nat /\ 1 \in Words /\ 2 \in Words
  BY GptConstants DEF Words

\* An empty table, and one whose sectors do not belong together.
LEMMA TableFacts ==
  /\ BlankPartitions \in Tables /\ TornTable \in Tables
  /\ \A i \in PartNums : ~IsUsed(BlankPartitions[i])
  BY DEF BlankPartitions, BlankPartition, TornTable, Tables, Part, IsUsed

\* A header of a new object.
LEMMA NoFieldsFacts ==
  ASSUME NEW x \in Words PROVE NoFields(x) \in Header
  BY TableFacts, GptConstants DEF NoFields, Fields, Header

\* The end of the drive: the place of the second header follows from the size
\* of the drive and the first usable sector.
LEMMA MoveFacts ==
  ASSUME NEW g \in Object
  PROVE  LET h == MoveSecondHeaderToEnd(g)
             last == U64(g.diskSize - g.main.firstUsableLBA)
         IN  /\ h \in Object /\ SameRest(g, h) /\ h.tsz = g.tsz
             /\ h.main = [g.main EXCEPT !.backupLBA = U64(g.diskSize - 1),
                                        !.lastUsableLBA = last]
             /\ h.second = [g.second EXCEPT
                              !.currentLBA = U64(g.diskSize - 1),
                              !.lastUsableLBA = last,
                              !.partitionEntriesLBA = U64(last + 1)]
             /\ h.mbr = g.mbr \/ h.mbr = MakeProtectiveMBR(g).mbr
<1> DEFINE h == MoveSecondHeaderToEnd(g)
           last == U64(g.diskSize - g.main.firstUsableLBA)
           moved == IF g.main.lastUsableLBA # last /\ g.mbr.state = "gpt"
                    THEN MakeProtectiveMBR(g) ELSE g
           m == [g.main EXCEPT !.backupLBA = U64(g.diskSize - 1),
                               !.lastUsableLBA = last]
           s == [g.second EXCEPT !.currentLBA = U64(g.diskSize - 1),
                                 !.lastUsableLBA = last,
                                 !.partitionEntriesLBA = U64(last + 1)]
<1>1. /\ last \in Words /\ U64(g.diskSize - 1) \in Words /\ U64(last + 1) \in Words
      /\ U64(g.mbrSize - 1) \in Words
  BY WordFacts DEF Object, Header, Words
<1>2. m \in Header /\ s \in Header
  <2> HIDE DEF last
  <2> QED
    BY <1>1 DEF Object, Header
<1>3. MakeProtectiveMBR(g).mbr \in Mbr /\ MakeProtectiveMBR(g) = [g EXCEPT !.mbr = MakeProtectiveMBR(g).mbr]
  BY <1>1 DEF MakeProtectiveMBR, Object, Mbr
<1>4. /\ moved \in Object /\ moved.main = g.main /\ moved.second = g.second
      /\ SameRest(g, moved) /\ moved.tsz = g.tsz
      /\ moved.mbr = g.mbr \/ moved.mbr = MakeProtectiveMBR(g).mbr
  BY <1>3 DEF Object, SameRest
<1>5. h = [moved EXCEPT !.main = m, !.second = s]
  BY <1>4, ZenonT(60) DEF MoveSecondHeaderToEnd, Object, Header
<1> HIDE DEF moved, m, s, h
<1>6. h \in Object /\ SameRest(g, h) /\ h.tsz = g.tsz /\ h.mbr = moved.mbr
  BY <1>2, <1>4, <1>5 DEF Object, SameRest
<1>7. h.main = m /\ h.second = s
  BY <1>4, <1>5 DEF Object
<1> QED
  BY <1>4, <1>6, <1>7 DEF h, m, s

\* Another number of entries.
LEMMA SetSizeFacts ==
  ASSUME NEW g \in Object, NEW t \in Nat \ {0}, NEW none \in BOOLEAN
  PROVE  LET h == SetGPTSize(g, t, none)
         IN  /\ h \in Object /\ SameRest(g, h) /\ h.tsz = t
             /\ h.main.tableSize = t /\ h.second.tableSize = t
             /\ h.mbr = g.mbr \/ h.mbr = MakeProtectiveMBR(g).mbr
             /\ h.main.entriesCRC = g.main.entriesCRC
             /\ none => h.main.backupLBA = U64(g.diskSize - 1)
<1> DEFINE first == U64(t + g.main.partitionEntriesLBA)
           g1 == [g EXCEPT !.tsz = t, !.main.firstUsableLBA = first,
                           !.second.firstUsableLBA = first]
           g2 == MoveSecondHeaderToEnd(g1)
           r == IF t # g.tsz \/ none THEN g2 ELSE g
           h == [r EXCEPT !.main.tableSize = t, !.second.tableSize = t]
<1>1. first \in Words
  BY WordFacts DEF Object, Header, Words
<1>2. /\ g1 \in Object /\ SameRest(g, g1) /\ g1.tsz = t /\ g1.mbr = g.mbr
      /\ g1.main = [g.main EXCEPT !.firstUsableLBA = first]
  <2> HIDE DEF first
  <2>1. /\ [g.main EXCEPT !.firstUsableLBA = first] \in Header
        /\ [g.second EXCEPT !.firstUsableLBA = first] \in Header
    BY <1>1 DEF Object, Header
  <2> QED
    BY <2>1 DEF Object, SameRest
<1>3. MakeProtectiveMBR(g1).mbr = MakeProtectiveMBR(g).mbr
  BY <1>2 DEF MakeProtectiveMBR, Object, SameRest
<1> HIDE DEF g1
<1>4. /\ g2 \in Object /\ SameRest(g, g2) /\ g2.tsz = t
      /\ g2.mbr = g.mbr \/ g2.mbr = MakeProtectiveMBR(g).mbr
      /\ g2.main.entriesCRC = g.main.entriesCRC
      /\ g2.main.backupLBA = U64(g.diskSize - 1)
  <2>1. /\ g2 \in Object /\ SameRest(g1, g2) /\ g2.tsz = g1.tsz
        /\ g2.mbr = g1.mbr \/ g2.mbr = MakeProtectiveMBR(g1).mbr
        /\ g2.main = [g1.main EXCEPT
                        !.backupLBA = U64(g1.diskSize - 1),
                        !.lastUsableLBA = U64(g1.diskSize - g1.main.firstUsableLBA)]
    BY <1>2, MoveFacts
  <2>2. /\ g2.main.entriesCRC = g1.main.entriesCRC
        /\ g2.main.backupLBA = U64(g1.diskSize - 1)
    BY <1>2, <2>1 DEF Object, Header
  <2>3. g1.main.entriesCRC = g.main.entriesCRC
    BY <1>2 DEF Object, Header
  <2> QED
    BY <1>2, <1>3, <2>1, <2>2, <2>3 DEF SameRest
<1> HIDE DEF g2
<1>5. /\ r \in Object /\ SameRest(g, r) /\ r.tsz = t
      /\ r.mbr = g.mbr \/ r.mbr = MakeProtectiveMBR(g).mbr
      /\ r.main.entriesCRC = g.main.entriesCRC
      /\ none => r.main.backupLBA = U64(g.diskSize - 1)
  BY <1>4 DEF SameRest, Object
<1> HIDE DEF r
<1>6. /\ [r.main EXCEPT !.tableSize = t] \in Header
      /\ [r.second EXCEPT !.tableSize = t] \in Header
  BY <1>5 DEF Object, Header
<1>7. /\ h \in Object /\ SameRest(g, h) /\ h.tsz = t /\ h.mbr = r.mbr
      /\ h.main = [r.main EXCEPT !.tableSize = t]
      /\ h.second = [r.second EXCEPT !.tableSize = t]
  BY <1>5, <1>6 DEF Object, SameRest
<1>8. SetGPTSize(g, t, none) = h
  BY DEF SetGPTSize, r, g2, g1
<1> HIDE DEF h
<1> QED
  BY <1>5, <1>7, <1>8 DEF Object, Header

\* A header from the other one.
LEMMA RebuildFacts ==
  ASSUME NEW g \in Object
  PROVE  /\ RebuildSecondHeader(g) \in Object /\ RebuildMainHeader(g) \in Object
         /\ SameRest(g, RebuildSecondHeader(g)) /\ SameRest(g, RebuildMainHeader(g))
         /\ RebuildSecondHeader(g).mbr = g.mbr /\ RebuildMainHeader(g).mbr = g.mbr
         /\ RebuildSecondHeader(g).tsz = g.tsz
         /\ RebuildSecondHeader(g).main = g.main
         /\ RebuildSecondHeader(g).second =
              [g.main EXCEPT
                 !.currentLBA = g.main.backupLBA, !.backupLBA = g.main.currentLBA,
                 !.partitionEntriesLBA = U64(g.main.lastUsableLBA + 1)]
<1> DEFINE s == [g.main EXCEPT
                   !.currentLBA = g.main.backupLBA,
                   !.backupLBA = g.main.currentLBA,
                   !.partitionEntriesLBA = U64(g.main.lastUsableLBA + 1)]
           m == [g.second EXCEPT
                   !.currentLBA = g.second.backupLBA,
                   !.backupLBA = g.second.currentLBA,
                   !.partitionEntriesLBA = U64(g.second.firstUsableLBA - g.tsz)]
<1>1. /\ U64(g.main.lastUsableLBA + 1) \in Words
      /\ U64(g.second.firstUsableLBA - g.tsz) \in Words
  BY WordFacts DEF Object, Header, Words
<1>2. s \in Header /\ m \in Header
  BY <1>1 DEF Object, Header
<1>3. /\ RebuildSecondHeader(g) = [g EXCEPT !.second = s, !.secondCrcOk = g.mainCrcOk]
      /\ RebuildMainHeader(g) = [g EXCEPT !.main = m, !.mainCrcOk = g.secondCrcOk]
  BY DEF RebuildSecondHeader, RebuildMainHeader
<1>4. RebuildSecondHeader(g).second = s
  BY <1>3 DEF Object
<1> HIDE DEF s, m
<1>5. RebuildSecondHeader(g) \in Object /\ RebuildMainHeader(g) \in Object
  BY <1>2, <1>3 DEF Object
<1>6. /\ SameRest(g, RebuildSecondHeader(g)) /\ SameRest(g, RebuildMainHeader(g))
      /\ RebuildSecondHeader(g).mbr = g.mbr /\ RebuildMainHeader(g).mbr = g.mbr
      /\ RebuildSecondHeader(g).tsz = g.tsz
      /\ RebuildSecondHeader(g).main = g.main
  BY <1>3 DEF Object, SameRest
<1> QED
  BY <1>4, <1>5, <1>6 DEF s

\* The object for an empty drive of n sectors, entries and alignment apart.
Started(g, n) ==
  /\ g.diskSize = n
  /\ g.main = Fields(1, U64(n - 1), TableSectors + 2, U64(n - TableSectors - 2),
                     2, TableSectors, g.main.entriesCRC)
  /\ g.second = Fields(U64(n - 1), 1, TableSectors + 2, U64(n - TableSectors - 2),
                       U64(n - TableSectors - 1), TableSectors, g.second.entriesCRC)
  /\ g.tsz = TableSectors
  /\ g.mainCrcOk /\ g.secondCrcOk /\ g.mainPartsCrcOk /\ g.secondPartsCrcOk

\* The MBR that says that the drive has a GPT.
Protective(g) == MakeProtectiveMBR(g).mbr

\* The table is started over: nothing of what was loaded is left but the size.
LEMMA ClearFacts ==
  ASSUME NEW g \in Object, NEW n \in Sizes \cup MadeUp
  PROVE  LET h == ClearGPTData(g)
         IN  /\ h \in Object /\ Started(h, g.diskSize)
             /\ h.diskSize = g.diskSize /\ h.mbrSize = g.mbrSize
             /\ h.mbr = g.mbr \/ h.mbr = Protective(g)
             /\ h.parts = BlankPartitions /\ h.align = Alignment
<1> DEFINE first == TableSectors + 2
           d == g.diskSize
           g1 == SetGPTSize(g, TableSectors, TRUE)
           m == Fields(1, U64(d - 1), first, U64(d - first), 2, TableSectors,
                       g1.main.entriesCRC)
           g2 == [g1 EXCEPT !.main = m, !.align = Alignment]
           g3 == RebuildSecondHeader(g2)
           h == [g3 EXCEPT
                   !.parts = BlankPartitions,
                   !.mainCrcOk = TRUE, !.secondCrcOk = TRUE,
                   !.mainPartsCrcOk = TRUE, !.secondPartsCrcOk = TRUE]
<1>1. /\ first \in Words /\ d \in Nat /\ U64(d - 1) \in Words /\ U64(d - first) \in Words
      /\ TableSectors \in Nat \ {0} /\ 1 \in Words /\ 2 \in Words
      /\ U64(U64(d - first) + 1) = U64(d - TableSectors - 1)
      /\ d - first = d - TableSectors - 2
      /\ Alignment \in Nat \ {0}
  <2>1. TableSectors \in Nat /\ d \in Nat /\ first \in Words
    BY SizeFacts DEF Object
  <2>2. d - first + 1 = d - TableSectors - 1 /\ d - first = d - TableSectors - 2
    BY <2>1
  <2>3. U64(U64(d - first) + 1) = U64(d - first + 1)
    BY <2>1, WordFacts
  <2> QED
    BY <2>1, <2>2, <2>3, WordFacts, SizeFacts
<1> HIDE DEF first, d
<1>2. /\ g1 \in Object /\ SameRest(g, g1) /\ g1.tsz = TableSectors
      /\ g1.main.tableSize = TableSectors
      /\ g1.mbr = g.mbr \/ g1.mbr = Protective(g)
  BY <1>1, SetSizeFacts DEF Protective
<1> HIDE DEF g1
<1>3. m \in Header
  BY <1>1, <1>2 DEF Fields, Header, Object
<1>4. [g1 EXCEPT
         !.main.currentLBA = 1,
         !.main.partitionEntriesLBA = 2,
         !.main.firstUsableLBA = first,
         !.main.backupLBA = U64(d - 1),
         !.main.lastUsableLBA = U64(d - first),
         !.align = Alignment] = g2
  <2>1. [[[[[g1.main EXCEPT !.currentLBA = 1] EXCEPT !.partitionEntriesLBA = 2]
            EXCEPT !.firstUsableLBA = first] EXCEPT !.backupLBA = U64(d - 1)]
            EXCEPT !.lastUsableLBA = U64(d - first)] = m
    <3> DEFINE a == [g1.main EXCEPT !.currentLBA = 1]
               b == [a EXCEPT !.partitionEntriesLBA = 2]
               c == [b EXCEPT !.firstUsableLBA = first]
               e == [c EXCEPT !.backupLBA = U64(d - 1)]
               f == [e EXCEPT !.lastUsableLBA = U64(d - first)]
    <3>1. g1.main \in Header /\ g1.main.tableSize = TableSectors
      BY <1>2 DEF Object
    <3>2. f \in Header
      BY <1>1, <3>1 DEF Header
    <3>3. /\ f.currentLBA = 1 /\ f.partitionEntriesLBA = 2
          /\ f.firstUsableLBA = first /\ f.backupLBA = U64(d - 1)
          /\ f.lastUsableLBA = U64(d - first) /\ f.tableSize = TableSectors
          /\ f.entriesCRC = g1.main.entriesCRC
      BY <3>1 DEF Header
    <3> HIDE DEF f
    <3>4. f = m
      BY <3>2, <3>3 DEF Fields, Header
    <3> QED
      BY <3>4 DEF f
  <2> HIDE DEF m
  <2> QED
    BY <1>2, <2>1 DEF Object
<1>5. ClearGPTData(g) = h
  BY <1>4 DEF ClearGPTData, g1, first, d
<1>6. /\ g2 \in Object /\ g2.main = m /\ g2.tsz = TableSectors /\ g2.align = Alignment
      /\ g2.diskSize = d /\ g2.mbrSize = g.mbrSize /\ g2.mbr = g1.mbr
  <2> HIDE DEF m
  <2> QED
    BY <1>1, <1>2, <1>3 DEF Object, SameRest, d
<1> HIDE DEF g2
<1>7. /\ g3 \in Object /\ g3.main = m /\ g3.tsz = TableSectors /\ g3.align = Alignment
      /\ g3.diskSize = d /\ g3.mbrSize = g.mbrSize /\ g3.mbr = g1.mbr
      /\ g3.second = [m EXCEPT
                        !.currentLBA = m.backupLBA, !.backupLBA = m.currentLBA,
                        !.partitionEntriesLBA = U64(m.lastUsableLBA + 1)]
  <2> HIDE DEF m
  <2> QED
    BY <1>6, RebuildFacts DEF SameRest
<1>8. g3.second = Fields(U64(d - 1), 1, first, U64(d - first),
                         U64(d - TableSectors - 1), TableSectors,
                         g1.main.entriesCRC)
  BY <1>1, <1>7 DEF Fields
<1> HIDE DEF g3
<1>9. /\ h \in Object /\ h.main = m /\ h.second = g3.second /\ h.tsz = TableSectors
      /\ h.diskSize = d /\ h.mbrSize = g.mbrSize /\ h.mbr = g1.mbr
      /\ h.parts = BlankPartitions /\ h.align = Alignment
      /\ h.mainCrcOk /\ h.secondCrcOk /\ h.mainPartsCrcOk /\ h.secondPartsCrcOk
  <2> HIDE DEF m
  <2> QED
    BY <1>7, TableFacts DEF Object
<1> HIDE DEF h
<1>10. Started(h, d)
  BY <1>1, <1>8, <1>9 DEF Started, Fields, first
<1> QED
  BY <1>2, <1>5, <1>9, <1>10 DEF d

\* A new object, whatever its header fields hold.
LEMMA ConstructedFacts ==
  ASSUME NEW x \in Garbage
  PROVE  /\ Constructed(x) \in Object /\ Constructed(x).diskSize = 0
         /\ Constructed(x).parts = BlankPartitions
<1> DEFINE g == [diskSize |-> 0, mbrSize |-> 0, mbr |-> EmptyMBR,
                 main |-> NoFields(x), second |-> NoFields(x), tsz |-> 0,
                 mainCRC |-> NoFields(x), secondCRC |-> NoFields(x),
                 parts |-> BlankPartitions, align |-> MinAlignment,
                 allOK |-> TRUE, mainCrcOk |-> FALSE, secondCrcOk |-> FALSE,
                 mainPartsCrcOk |-> FALSE, secondPartsCrcOk |-> FALSE]
<1>1. NoFields(x) \in Header
  BY GptConstants, NoFieldsFacts DEF Words
<1>2. EmptyMBR \in Mbr
  BY WordFacts DEF EmptyMBR, Mbr, Words
<1>3. g \in Object
  BY <1>1, <1>2, TableFacts, GptConstants DEF Object
<1>4. g.diskSize = 0 /\ g.parts = BlankPartitions
  OBVIOUS
<1>5. Constructed(x) = SetGPTSize(g, TableSectors, TRUE)
  BY DEF Constructed
<1> HIDE DEF g
<1>6. TableSectors \in Nat \ {0}
  BY GptConstants
<1>7. Constructed(x) \in Object /\ SameRest(g, Constructed(x))
  BY <1>3, <1>5, <1>6, SetSizeFacts
<1> QED
  BY <1>4, <1>7 DEF SameRest

\* The CRCs are those of what is going to be written.
LEMMA RecomputeFacts ==
  ASSUME NEW g \in Object
  PROVE  LET h == RecomputeCRCs(g)
         IN  /\ h \in Object /\ SameRest(g, h) /\ h.mbr = g.mbr
             /\ h.main = [g.main EXCEPT !.entriesCRC = g.parts]
             /\ h.second = [g.second EXCEPT !.entriesCRC = g.parts]
             /\ h.mainCRC = h.main /\ h.secondCRC = h.second
             /\ \A n \in Sizes \cup MadeUp : Started(g, n) => Started(h, n)
<1> DEFINE m == [g.main EXCEPT !.entriesCRC = g.parts]
           s == [g.second EXCEPT !.entriesCRC = g.parts]
           h == [g EXCEPT !.main = m, !.second = s, !.mainCRC = m, !.secondCRC = s]
<1>1. m \in Header /\ s \in Header
  BY DEF Object, Header
<1>2. /\ \A n \in Sizes \cup MadeUp : Started(g, n) =>
           /\ m = Fields(1, U64(n - 1), TableSectors + 2,
                         U64(n - TableSectors - 2), 2, TableSectors, m.entriesCRC)
           /\ s = Fields(U64(n - 1), 1, TableSectors + 2,
                         U64(n - TableSectors - 2), U64(n - TableSectors - 1),
                         TableSectors, s.entriesCRC)
  BY DEF Started, Fields
<1>3. RecomputeCRCs(g) = h
  BY DEF RecomputeCRCs
<1>4. m = [g.main EXCEPT !.entriesCRC = g.parts] /\ s = [g.second EXCEPT !.entriesCRC = g.parts]
  OBVIOUS
<1> HIDE DEF m, s
<1>5. /\ h \in Object /\ SameRest(g, h) /\ h.mbr = g.mbr /\ h.main = m /\ h.second = s
      /\ h.mainCRC = m /\ h.secondCRC = s /\ h.tsz = g.tsz
      /\ h.mainCrcOk = g.mainCrcOk /\ h.secondCrcOk = g.secondCrcOk
      /\ h.mainPartsCrcOk = g.mainPartsCrcOk /\ h.secondPartsCrcOk = g.secondPartsCrcOk
  BY <1>1 DEF Object, SameRest
<1> HIDE DEF h
<1>6. \A n \in Sizes \cup MadeUp : Started(g, n) => Started(h, n)
  BY <1>2, <1>5 DEF Started, SameRest
<1> QED
  BY <1>3, <1>4, <1>5, <1>6

\* The corrections before saving change nothing of a table that was started over.
LEMMA MoveStarted ==
  ASSUME NEW g \in Object, NEW n \in Sizes \cup MadeUp, Started(g, n)
  PROVE  MoveSecondHeaderToEnd(g) = g
<1> DEFINE h == MoveSecondHeaderToEnd(g)
           last == U64(n - TableSectors - 2)
<1>1. /\ n \in Nat /\ TableSectors \in Nat /\ g.main.firstUsableLBA = TableSectors + 2
      /\ g.diskSize = n /\ g.main.lastUsableLBA = last
      /\ g.main.backupLBA = U64(n - 1) /\ g.second.currentLBA = U64(n - 1)
      /\ g.second.lastUsableLBA = last
      /\ g.second.partitionEntriesLBA = U64(n - TableSectors - 1)
  BY SizeFacts DEF Started, Fields
<1>2. g.diskSize - g.main.firstUsableLBA = n - TableSectors - 2
  BY <1>1
<1>3. U64(last + 1) = U64(n - TableSectors - 1)
  <2>1. n - TableSectors - 2 + 1 = n - TableSectors - 1 /\ n - TableSectors - 2 \in Int
    BY <1>1
  <2> QED
    BY <2>1, WordFacts
<1> HIDE DEF last
<1>4. h = [g EXCEPT !.main = [[g.main EXCEPT !.backupLBA = U64(n - 1)]
                                EXCEPT !.lastUsableLBA = last],
                    !.second = [[[g.second EXCEPT !.currentLBA = U64(n - 1)]
                                 EXCEPT !.lastUsableLBA = last]
                                 EXCEPT !.partitionEntriesLBA = U64(last + 1)]]
  BY <1>1, <1>2, ZenonT(60) DEF MoveSecondHeaderToEnd, last, Object
<1>5. /\ [[g.main EXCEPT !.backupLBA = U64(n - 1)]
            EXCEPT !.lastUsableLBA = last] = g.main
      /\ [[[g.second EXCEPT !.currentLBA = U64(n - 1)]
             EXCEPT !.lastUsableLBA = last]
             EXCEPT !.partitionEntriesLBA = U64(last + 1)] = g.second
  BY <1>1, <1>3 DEF Object, Header
<1>6. h = [g EXCEPT !.main = g.main, !.second = g.second]
  BY <1>4, <1>5
<1> QED
  BY <1>6 DEF Object

\* Nor do all of them.
LEMMA CorrectedStarted ==
  ASSUME NEW g \in Object, NEW n \in Sizes \cup MadeUp, Started(g, n)
  PROVE  OnDisk(g) = g /\ Corrected(g) = g
  BY MoveStarted DEF OnDisk, Corrected

\* Whatever they find, they leave the size and the entries alone, and the
\* second header is where the size puts it.
LEMMA CorrectedFacts ==
  ASSUME NEW g \in Object
  PROVE  /\ Corrected(g) \in Object /\ SameRest(g, Corrected(g))
<1>1. ASSUME NEW h \in Object, SameRest(g, h)
      PROVE  MoveSecondHeaderToEnd(h) \in Object /\ SameRest(g, MoveSecondHeaderToEnd(h))
  BY <1>1, MoveFacts DEF SameRest
<1>2. OnDisk(g) \in Object /\ SameRest(g, OnDisk(g))
  BY <1>1 DEF OnDisk, SameRest
<1> DEFINE g2 == IF OnDisk(g).main.backupLBA < U64(OnDisk(g).diskSize - 1)
                 THEN MoveSecondHeaderToEnd(OnDisk(g)) ELSE OnDisk(g)
<1>3. g2 \in Object /\ SameRest(g, g2)
  BY <1>1, <1>2
<1>4. Corrected(g) = IF \/ g2.main.lastUsableLBA >= g2.diskSize
                        \/ g2.main.lastUsableLBA > g2.main.backupLBA
                     THEN MoveSecondHeaderToEnd(g2) ELSE g2
  BY DEF Corrected
<1> HIDE DEF g2
<1> QED
  BY <1>1, <1>3, <1>4

-----------------------------------------------------------------------------
(* One partition over the whole drive                                      *)

\* The free space of an empty table begins with the first usable sector.
LEMMA FirstAvailable ==
  ASSUME NEW g \in Object, g.parts = BlankPartitions
  PROVE  FindFirstInLargest(g) =
           IF g.main.firstUsableLBA > g.main.lastUsableLBA THEN 0
           ELSE g.main.firstUsableLBA
<1> DEFINE from == IF 0 < g.main.firstUsableLBA THEN g.main.firstUsableLBA ELSE 0
           Out(s) == \A i \in PartNums : IsUsed(g.parts[i]) => ~In(s, g.parts[i])
           ends == {from} \cup {g.parts[i].lastLBA + 1 : i \in PartNums}
           P(s) == /\ s >= from /\ Out(s)
                   /\ \A t \in ends : t >= from /\ Out(t) => s <= t
           first == CHOOSE s \in ends : P(s)
<1>1. from = g.main.firstUsableLBA /\ from \in Nat
  BY DEF Object, Header, Words
<1>2. ends \subseteq Nat /\ from \in ends
  BY <1>1 DEF Object, Tables, Part
<1>3. \A s : Out(s)
  BY TableFacts
<1> HIDE DEF from, ends, Out
<1>4. P(from) /\ \A s \in ends : P(s) => s = from
  BY <1>1, <1>2, <1>3
<1> HIDE DEF P
<1>5. first = from
  BY <1>2, <1>4
<1>6. FindFirstInLargest(g) = IF first > g.main.lastUsableLBA THEN 0 ELSE first
  BY DEF FindFirstInLargest, FindFirstAvailable, first, P, ends, Out, from
<1> QED
  BY <1>1, <1>5, <1>6

\* It ends with the last usable one.
LEMMA LastInFree ==
  ASSUME NEW g \in Object, g.parts = BlankPartitions, NEW start \in Nat
  PROVE  FindLastInFree(g, start) = g.main.lastUsableLBA
<1>1. /\ g.parts[0].firstLBA = 0 /\ g.parts[1].firstLBA = 0
      /\ g.main.lastUsableLBA \in Nat
  BY DEF BlankPartitions, BlankPartition, PartNums, Object, Header, Words
<1> QED
  BY <1>1 DEF FindLastInFree

\* A multiple.
LEMMA Multiples ==
  ASSUME NEW a \in Nat \ {0}, NEW q \in Nat PROVE (q * a) % a = 0
  OBVIOUS

\* A sector is aligned to one that is a multiple, or left.
LEMMA AlignFacts ==
  ASSUME NEW g \in Object, NEW s \in Nat
  PROVE  Align(g, s) \in Nat
<1>1. g.align \in Nat \ {0}
  BY DEF Object
<1>2. (s \div g.align) * g.align \in Nat
  BY <1>1
<1> QED
  BY <1>1, <1>2 DEF Align

\* With room for it the first usable sector is aligned upwards, by less than
\* the alignment.
LEMMA AlignFirst ==
  ASSUME NEW g \in Object, g.parts = BlankPartitions,
         NEW first \in Nat \ {0}, g.main.firstUsableLBA = first,
         first + g.align <= g.main.lastUsableLBA
  PROVE  /\ first <= Align(g, first) /\ Align(g, first) < first + g.align
         /\ Align(g, first) % g.align = 0
<1> DEFINE a == g.align
           earlier == (first \div a) * a
           later == earlier + a
           last == g.main.lastUsableLBA
<1>1. a \in Nat \ {0} /\ last \in Nat
  BY DEF Object, Header, Words
<1>2. CASE first % a = 0
  BY <1>1, <1>2 DEF Align
<1>3. CASE first % a # 0
  <2>1. /\ earlier \in Nat /\ earlier < first /\ first < later
        /\ later % a = 0 /\ later \in Nat
    <3>1. earlier \in Nat /\ earlier <= first /\ first < earlier + a
      BY <1>1
    <3> DEFINE q == first \div a
    <3>2. q \in Nat /\ earlier = q * a
      BY <1>1
    <3> HIDE DEF q, earlier
    <3>3. (q * a) % a = 0 /\ ((q + 1) * a) % a = 0 /\ (q + 1) * a = q * a + a
      <4> HIDE DEF a
      <4>1. q + 1 \in Nat /\ (q + 1) * a = q * a + a
        BY <1>1, <3>2
      <4> QED
        BY <1>1, <3>2, <4>1, Multiples
    <3>4. earlier % a = 0 /\ (earlier + a) % a = 0
      BY <3>2, <3>3
    <3> QED
      BY <1>1, <1>3, <3>1, <3>4
  <2> HIDE DEF earlier
  <2>2. later <= last
    BY <1>1, <2>1
  <2>3. ASSUME NEW x \in first + 1 .. later PROVE IsFree(g, x)
    <3>1. \A i \in PartNums : g.parts[i].firstLBA = 0 /\ g.parts[i].lastLBA = 0
      BY DEF BlankPartitions, BlankPartition
    <3> QED
      BY <1>1, <2>1, <2>2, <3>1 DEF IsFree, In
  <2>4. Align(g, first) = later
    BY <1>3, <2>1, <2>2, <2>3 DEF Align, earlier
  <2> QED
    BY <1>1, <2>1, <2>4
<1> QED
  BY <1>2, <1>3

\* The partition ClearDisk makes of a drive of n sectors.
Whole(p, n) ==
  /\ p.lastLBA = U64(n - TableSectors - 2)
  /\ n >= 2 * (TableSectors + 2) + Alignment =>
       /\ p.firstLBA % Alignment = 0 /\ TableSectors + 2 <= p.firstLBA
       /\ p.firstLBA < TableSectors + 2 + Alignment

\* ClearDisk on an empty table.
LEMMA WholeFacts ==
  ASSUME NEW g \in Object, g.parts = BlankPartitions
  PROVE  LET h == WholeDisk(g)
         IN  /\ h \in Object
             /\ h = [g EXCEPT !.parts = h.parts]
             /\ h.parts[0].type = "fat32" /\ h.parts[1] = BlankPartition
             /\ \A n \in Sizes \cup MadeUp : Started(g, n) /\ g.align = Alignment =>
                                   Whole(h.parts[0], n)
<1> DEFINE F == FindFirstInLargest(g)
           low == Align(g, F)
           high == FindLastInFree(g, low)
           p == [type |-> "fat32", firstLBA |-> low, lastLBA |-> high]
           tab == [g.parts EXCEPT ![0] = p]
           h == [g EXCEPT !.parts = tab]
<1>1. F \in Nat
  BY FirstAvailable DEF Object, Header, Words
<1>2. low \in Nat
  <2> HIDE DEF F
  <2> QED
    BY <1>1, AlignFacts
<1>3. high = g.main.lastUsableLBA /\ high \in Nat
  <2> HIDE DEF low
  <2> QED
    BY <1>2, LastInFree DEF Object, Header, Words
<1>4. p \in Part /\ p.type = "fat32" /\ p.firstLBA = low /\ p.lastLBA = high
  <2> HIDE DEF low, high
  <2> QED
    BY <1>2, <1>3 DEF Part
<1>5. WholeDisk(g) = h
  <2>1. CreatePartition(g, low, high) = g \/
        \E q : CreatePartition(g, low, high) = [g EXCEPT !.parts[0] = q]
    BY DEF CreatePartition
  <2>2. WholeDisk(g) = [CreatePartition(g, low, high) EXCEPT !.parts[0] = p]
    BY DEF WholeDisk
  <2> HIDE DEF low, high, p
  <2>3. CASE CreatePartition(g, low, high) = g
    BY <2>2, <2>3 DEF Object
  <2>4. ASSUME NEW q, CreatePartition(g, low, high) = [g EXCEPT !.parts[0] = q]
        PROVE  WholeDisk(g) = h
    BY <2>2, <2>4 DEF Object, Tables, PartNums
  <2> QED
    BY <2>1, <2>3, <2>4
<1>6. h \in Object /\ h.parts = tab
  <2> HIDE DEF p
  <2>1. tab \in Tables
    BY <1>4 DEF Object, Tables, PartNums
  <2> QED
    BY <2>1 DEF Object
<1>7. tab[0] = p /\ tab[1] = BlankPartition
  BY DEF BlankPartitions, PartNums
<1>8. ASSUME NEW n \in Sizes \cup MadeUp, Started(g, n), g.align = Alignment
      PROVE  Whole(p, n)
  <2>1. /\ n \in Nat /\ TableSectors \in Nat \ {0} /\ Alignment \in Nat \ {0}
        /\ g.main.lastUsableLBA = U64(n - TableSectors - 2)
        /\ g.main.firstUsableLBA = TableSectors + 2
    BY <1>8, SizeFacts DEF Started, Fields
  <2>2. ASSUME n >= 2 * (TableSectors + 2) + Alignment
        PROVE  /\ low % Alignment = 0 /\ TableSectors + 2 <= low
               /\ low < TableSectors + 2 + Alignment
    <3>0. n \in Words
      BY SizeFacts
    <3>1. n - TableSectors - 2 \in Words
      BY <2>1, <2>2, <3>0, WordFacts DEF Words
    <3>2. g.main.lastUsableLBA = n - TableSectors - 2
      BY <2>1, <3>1, WordFacts
    <3>3. /\ TableSectors + 2 + g.align <= g.main.lastUsableLBA
          /\ TableSectors + 2 \in Nat \ {0}
      BY <1>8, <2>1, <2>2, <3>2
    <3>4. F = TableSectors + 2
      BY <2>1, <3>2, <3>3, <1>8, FirstAvailable
    <3> HIDE DEF F
    <3> QED
      BY <1>8, <2>1, <3>3, <3>4, AlignFirst
  <2> HIDE DEF low, high, p
  <2> QED
    BY <1>3, <1>4, <2>1, <2>2 DEF Whole
<1> HIDE DEF h, p, tab
<1>9. h = [g EXCEPT !.parts = h.parts]
  BY <1>6 DEF h
<1> QED
  BY <1>4, <1>5, <1>6, <1>7, <1>8, <1>9

-----------------------------------------------------------------------------
(* What is read                                                            *)

\* A table that is read, whole or torn.
LEMMA TableAtFacts ==
  ASSUME size \in Nat, disk \in [0 .. size - 1 -> Sector],
         NEW lba \in Nat, NEW t \in Nat \ {0}
  PROVE  TableAt(lba, t) \in Tables
<1>1. CASE lba + t <= size /\ disk[lba].kind = "table"
  <2>1. disk[lba] \in Sector
    BY <1>1
  <2>2. disk[lba].tab \in Tables
    BY <1>1, <2>1 DEF Sector, Unknown
  <2> QED
    BY <2>2, TableFacts DEF TableAt
<1>2. CASE ~(lba + t <= size /\ disk[lba].kind = "table")
  <2>1. TableAt(lba, t) = TornTable
    BY <1>2 DEF TableAt
  <2> QED
    BY <2>1, TableFacts
<1> QED
  BY <1>1, <1>2

\* A header that is read: one of the drive, or something in its place.
LEMMA ReadHeaderFacts ==
  ASSUME size \in Nat, disk \in [0 .. size - 1 -> Sector],
         NEW lba \in Nat, NEW read \in BOOLEAN,
         NEW before \in SUBSET [header : Header, good : BOOLEAN],
         NEW r \in ReadHeader(lba, read, before)
  PROVE  r.header \in Header /\ r.good \in BOOLEAN
<1>1. CASE read /\ HeaderAt(lba)
  <2>1. lba \in 0 .. size - 1 /\ disk[lba].kind = "header"
    BY <1>1 DEF HeaderAt
  <2>2. disk[lba] \in Sector
    BY <2>1
  <2>3. disk[lba].header \in Header
    BY <2>1, <2>2 DEF Sector, Unknown
  <2>4. r = [header |-> disk[lba].header, good |-> disk[lba].crc = disk[lba].header]
    BY <1>1 DEF ReadHeader
  <2> QED
    BY <2>3, <2>4
<1>2. CASE ~(read /\ HeaderAt(lba))
  <2>1. \/ \E x \in Garbage : r = [header |-> NoFields(x), good |-> FALSE]
        \/ r \in before
    BY <1>2 DEF ReadHeader
  <2>2. CASE r \in before
    BY <2>2
  <2>3. ASSUME NEW x \in Garbage, r = [header |-> NoFields(x), good |-> FALSE]
        PROVE  r.header \in Header /\ r.good \in BOOLEAN
    BY <2>3, GptConstants, NoFieldsFacts DEF Words
  <2> QED
    BY <2>1, <2>2, <2>3
<1> QED
  BY <1>1, <1>2

\* The fields of a loaded object that matter later.
Kept(g, h) == h.diskSize = g.diskSize /\ h.mbrSize = g.mbrSize

\* A header that was read, and its number of entries.
LEMMA ResizedFacts ==
  ASSUME NEW g \in Object, NEW r, r.header \in Header, r.good \in BOOLEAN,
         NEW read \in BOOLEAN
  PROVE  Resized(g, r, read) \in Object /\ Kept(g, Resized(g, r, read))
<1>1. r.header.tableSize \in Nat \ {0}
  BY DEF Header
<1>2. /\ SetGPTSize(g, r.header.tableSize, FALSE) \in Object
      /\ SameRest(g, SetGPTSize(g, r.header.tableSize, FALSE))
  BY <1>1, SetSizeFacts
<1> QED
  BY <1>2 DEF Resized, Kept, SameRest

\* A table that was read for a header.
LEMMA LoadTableFacts ==
  ASSUME NEW g \in Object, NEW h \in Header, NEW tab \in Tables
  PROVE  LoadPartitionTable(g, h, tab) \in Object /\ Kept(g, LoadPartitionTable(g, h, tab))
<1> DEFINE g1 == SetGPTSize(g, h.tableSize, FALSE)
<1>1. h.tableSize \in Nat \ {0}
  BY DEF Header
<1>2. g1 \in Object /\ SameRest(g, g1)
  BY <1>1, SetSizeFacts
<1>3. LoadPartitionTable(g, h, tab) =
        [g1 EXCEPT !.parts = tab, !.mainPartsCrcOk = (tab = h.entriesCRC),
                   !.secondPartsCrcOk = (tab = h.entriesCRC)]
  BY DEF LoadPartitionTable
<1> HIDE DEF g1
<1> QED
  BY <1>2, <1>3 DEF Object, Kept, SameRest

\* The MBR that was read.
LEMMA ReadMBRFacts ==
  ASSUME size \in Nat, disk \in [0 .. size - 1 -> Sector],
         NEW g \in Object, NEW ok \in BOOLEAN, NEW n \in Nat, ok => size > 0
  PROVE  /\ ReadMBRData(g, ok, n) \in Object
         /\ ReadMBRData(g, ok, n).diskSize = g.diskSize
         /\ ok => ReadMBRData(g, ok, n).mbrSize = n
<1>0. 0 \in Words
  BY WordFacts DEF Words
<1>1. EmptyMBR \in Mbr /\ [EmptyMBR EXCEPT !.state = "invalid"] \in Mbr
  BY <1>0 DEF EmptyMBR, Mbr
<1>2. ok /\ disk[0].kind = "mbr" => disk[0].mbr \in Mbr
  <2>1. ok => disk[0] \in Sector
    OBVIOUS
  <2> QED
    BY <2>1 DEF Sector, Unknown
<1>3. CASE ok
  BY <1>1, <1>2, <1>3 DEF ReadMBRData, Object
<1>4. CASE ~ok
  BY <1>1, <1>4 DEF ReadMBRData, Object
<1> QED
  BY <1>3, <1>4

-----------------------------------------------------------------------------
(* The inductive invariant                                                 *)

Opening == {"open", "test", "reopen", "size"}

Loading ==
  {"scan", "readMain", "readSecond", "readMainTable", "readSecondTable",
   "readMainAfterAll", "checkSecond", "checkMain", "neither", "readBackup",
   "startOver"}

Built == {"save", "verify", "returned"} \cup Saving

Loaded == {"mbr", "clear", "clearDisk"} \cup Built

\* The types of the variables the proofs are about.
TypeInv ==
  /\ size \in Sizes /\ disk \in [0 .. size - 1 -> Sector]
  /\ io \in [name : BOOLEAN, mode : {"closed", "read", "write"}]
  /\ gpt \in Object
  /\ call \in {"clear", "make"}
  /\ saved \in BOOLEAN /\ fault \in BOOLEAN /\ ret \in BOOLEAN
  /\ pc \in {"idle"} \cup Opening \cup Loading \cup Loaded

\* The drive could not be opened for loading, and will not be found again.
Failed == gpt.diskSize = 0 /\ ~io.name /\ fault

\* The drive was opened and its length asked for: the object has the size of
\* the drive, or a made-up one when that failed.
Sized ==
  /\ gpt.diskSize # 0
  /\ gpt.diskSize = size \/ (fault /\ gpt.diskSize \in MadeUp)

\* The object was started over for that size.
Ready == Sized /\ Started(gpt, gpt.diskSize)

\* What is known of the object while it is loaded and afterwards.
LoadInv ==
  /\ pc \in Opening => gpt.diskSize = 0 /\ gpt.parts = BlankPartitions
  /\ pc \in Loading => Sized
  /\ pc \in Loading \ {"scan"} /\ ~fault => gpt.mbrSize = size
  /\ pc \in Loaded => Ready \/ Failed
  /\ pc \in Loaded /\ ~fault => gpt.mbr = Protective(gpt) /\ gpt.mbrSize = size
  /\ pc \in {"mbr", "clear"} => call = "clear"
  /\ pc = "clearDisk" => call = "make"
  /\ pc \in {"mbr", "clearDisk"} => /\ gpt.parts = BlankPartitions
                                    /\ gpt.align = Alignment \/ Failed
  /\ pc \in Saving \ {"saveOpen"} => io.name

\* The entries that are saved: none, or the one of ClearDisk.
PartInv ==
  pc \in Built =>
    /\ call = "clear" => gpt.parts = BlankPartitions
    /\ call = "make" => /\ gpt.parts[0].type = "fat32"
                        /\ gpt.parts[1] = BlankPartition
                        /\ Whole(gpt.parts[0], gpt.diskSize) \/ Failed

\* What is to be written has the CRC of what it is.
CrcInv ==
  pc \in Built \ {"save"} =>
    /\ gpt.mainCRC = gpt.main /\ gpt.secondCRC = gpt.second
    /\ gpt.main.entriesCRC = gpt.parts /\ gpt.second.entriesCRC = gpt.parts

\* The table tab is on the drive from lba on.
TableIs(lba, tab) ==
  \A i \in 0 .. TableSectors - 1 : disk[lba + i] = TableSector(tab, i)

\* A main header on a drive large enough never says that its table is where
\* the backup is going to be.
MainFits ==
  disk[1].kind = "header" =>
    /\ disk[1].header.partitionEntriesLBA = 2
    /\ 2 * disk[1].header.tableSize + 4 <= size

\* How far the saving has come, when nothing failed.
CopyInv ==
  Roomy =>
    /\ MainFits
    /\ ~fault =>
        /\ pc \in {"saveOpen", "backupTable", "backupHeader"} /\ mainWas => Intact(1)
        /\ pc \in {"backupHeader", "mainTable", "mainHeader", "saveMbr",
                   "verify", "returned"} =>
             TableIs(size - TableSectors - 1, gpt.parts)
        /\ pc \in {"mainTable", "mainHeader", "saveMbr", "verify", "returned"} =>
             disk[size - 1] = HeaderSector(gpt.second, gpt.second)
        /\ pc \in {"mainHeader", "saveMbr", "verify", "returned"} =>
             TableIs(2, gpt.parts)
        /\ pc \in {"saveMbr", "verify", "returned"} =>
             disk[1] = HeaderSector(gpt.main, gpt.main)
        /\ pc \in {"verify", "returned"} => saved
        /\ pc = "returned" => ret

Inv ==
  TypeInv /\ LoadInv /\ PartInv /\ CrcInv /\ SavedPartitionSane /\ CopyInv

-----------------------------------------------------------------------------
(* The beginning                                                           *)

\* What an image written before may have left.
LEMMA ImageFacts ==
  ASSUME NEW n \in Sizes, NEW t \in Images, 2 * t + 5 <= n
  PROVE  /\ ImageDisk(n, t) \in [0 .. n - 1 -> Sector]
         /\ ImageDisk(n, t)[1].header.partitionEntriesLBA = 2
         /\ ImageDisk(n, t)[1].header.tableSize = t
<1> DEFINE first == t + 2
           last == n - 1 - first
           p == [type |-> "image", firstLBA |-> first, lastLBA |-> last]
           tab == [BlankPartitions EXCEPT ![0] = p]
           m == Fields(1, n - 2, first, last, 2, t, tab)
           s == Fields(n - 2, 1, first, last, last + 1, t, tab)
           b == [state |-> "gpt", lastLBA |-> n - 2, others |-> FALSE]
           sector(i) == CASE i = 0 -> MbrSector(b)
                          [] i = 1 -> HeaderSector(m, m)
                          [] i \in 2 .. first - 1 -> TableSector(tab, i - 2)
                          [] i \in last + 1 .. last + t -> TableSector(tab, i - last - 1)
                          [] i = n - 2 -> HeaderSector(s, s)
                          [] OTHER -> Unknown
<1>1. t \in Nat \ {0} /\ n \in Nat /\ n \in Words /\ Word \in Nat \ {0}
  BY GptConstants, SizeFacts, WordFacts
<1>2. /\ first \in Words /\ last \in Words /\ last + 1 \in Words /\ n - 2 \in Words
      /\ 1 \in Words /\ 2 \in Words
  BY <1>1 DEF Words
<1>3. first \in Nat /\ last \in Nat /\ last > 1 /\ n - 2 > 1
  BY <1>1
<1> HIDE DEF first, last
<1>4. p \in Part
  BY <1>3 DEF Part
<1> HIDE DEF p
<1>5. tab \in Tables
  BY <1>4, TableFacts DEF Tables, PartNums
<1> HIDE DEF tab
<1>6. m \in Header /\ s \in Header /\ b \in Mbr
  BY <1>1, <1>2, <1>5 DEF Fields, Header, Mbr
<1>7. m.partitionEntriesLBA = 2 /\ m.tableSize = t
  BY DEF Fields
<1> HIDE DEF m, s, b
<1>8. /\ HeaderSector(m, m) \in Sector /\ HeaderSector(s, s) \in Sector
      /\ MbrSector(b) \in Sector /\ Unknown \in Sector
      /\ \A i \in Nat : TableSector(tab, i) \in Sector
  BY <1>5, <1>6 DEF HeaderSector, MbrSector, TableSector, Sector
<1>9. ASSUME NEW i \in 0 .. n - 1 PROVE sector(i) \in Sector
  <2>1. i \in 2 .. first - 1 => i - 2 \in Nat
    BY <1>3
  <2>2. i \in last + 1 .. last + t => i - last - 1 \in Nat
    BY <1>1, <1>3
  <2> QED
    BY <1>8, <2>1, <2>2
<1>10. sector(1) = HeaderSector(m, m)
  <2>1. /\ 1 \notin 2 .. first - 1 /\ 1 \notin last + 1 .. last + t /\ 1 # n - 2
        /\ 1 # 0
    BY <1>1, <1>3
  <2> QED
    BY <2>1
<1>11. ImageDisk(n, t) = [i \in 0 .. n - 1 |-> sector(i)]
  BY DEF ImageDisk, first, last, p, tab, m, s, b
<1> HIDE DEF sector
<1>12. 1 \in 0 .. n - 1
  BY <1>1
<1>13. HeaderSector(m, m).header = m
  BY DEF HeaderSector
<1> QED
  BY <1>7, <1>9, <1>10, <1>11, <1>12, <1>13

\* The initial states satisfy the invariant.
LEMMA InitInv ==
  ASSUME Init PROVE Inv
<1>1. size \in Sizes /\ size \in Nat /\ pc = "idle" /\ io = Closed(FALSE)
  BY SizeFacts DEF Init
<1>2. PICK x \in Garbage : gpt = Constructed(x)
  BY DEF Init
<1>3. gpt \in Object
  BY <1>2, ConstructedFacts
<1>4. /\ disk \in [0 .. size - 1 -> Sector]
      /\ (Roomy => MainFits)
  <2>1. CASE disk = [i \in 0 .. size - 1 |-> Unknown]
    <3>1. Unknown \in Sector /\ Unknown.kind # "header"
      BY DEF Sector, Unknown
    <3>2. Roomy => 1 \in 0 .. size - 1
      BY <1>1, SizeFacts DEF Roomy, RoomFor
    <3> QED
      BY <2>1, <3>1, <3>2 DEF MainFits
  <2>2. ASSUME NEW t \in Images, 2 * t + 5 <= size, disk = ImageDisk(size, t)
        PROVE  /\ disk \in [0 .. size - 1 -> Sector]
               /\ (Roomy => MainFits)
    <3>1. t \in Nat
      BY GptConstants
    <3> QED
      BY <1>1, <2>2, <3>1, ImageFacts DEF MainFits
  <2> QED
    BY <2>1, <2>2 DEF Init
<1>5. TypeInv
  <2>1. call = "clear" /\ ret = FALSE /\ saved = FALSE /\ fault = FALSE
    BY DEF Init
  <2>2. io \in [name : BOOLEAN, mode : {"closed", "read", "write"}]
    BY <1>1 DEF Closed
  <2> QED
    BY <1>1, <1>3, <1>4, <2>1, <2>2 DEF TypeInv
<1> QED
  BY <1>1, <1>4, <1>5 DEF Inv, LoadInv, PartInv, CrcInv, SavedPartitionSane, CopyInv,
     Opening, Loading, Loaded, Built, Saving

-----------------------------------------------------------------------------
(* Steps before anything is saved                                          *)

\* A step that leaves the main header alone and does not lead to the saving
\* needs no more than what is said of the object.
LEMMA BeforeSaving ==
  ASSUME Inv, UNCHANGED size, disk' = disk \/ (Roomy => disk'[1] = disk[1]),
         TypeInv', LoadInv', pc' \notin Built
  PROVE  Inv'
<1>1. PartInv' /\ CrcInv' /\ SavedPartitionSane'
  BY DEF PartInv, CrcInv, SavedPartitionSane, Built
<1>2. CopyInv'
  BY DEF Inv, CopyInv, MainFits, Roomy, Built, Saving
<1> QED
  BY <1>1, <1>2 DEF Inv

\* A new object for the next call.
LEMMA ConstructKeeps ==
  ASSUME Inv, NEW c \in {"clear", "make"}, Construct(c), UNCHANGED <<size, disk, ret>>
  PROVE  Inv'
<1> USE DEF Construct, Goto
<1>1. PICK x \in Garbage : gpt' = Constructed(x)
  OBVIOUS
<1>2. gpt' \in Object /\ gpt'.diskSize = 0 /\ gpt'.parts = BlankPartitions
  BY <1>1, ConstructedFacts
<1>3. TypeInv'
  BY <1>2 DEF Inv, TypeInv, Closed, Opening
<1>4. LoadInv'
  BY <1>2 DEF LoadInv, Opening, Loading, Loaded, Built, Saving
<1> QED
  BY <1>3, <1>4, BeforeSaving DEF Built, Saving

\* formatShared, and the end of a call.
LEMMA BeginKeeps ==
  ASSUME Inv, Begin \/ Return PROVE Inv'
<1>1. CASE Begin
  BY <1>1, ConstructKeeps DEF Begin
<1>2. CASE Return /\ Construct("make")
  BY <1>2, ConstructKeeps DEF Return
<1>3. CASE Return /\ ~Construct("make")
  <2>1. pc' = "idle" /\ UNCHANGED <<size, disk, io, gpt, call, saved, fault, ret>>
    BY <1>3 DEF Return, Goto
  <2>2. TypeInv'
    BY <2>1 DEF Inv, TypeInv
  <2>3. LoadInv'
    BY <2>1 DEF LoadInv, Opening, Loading, Loaded, Built, Saving
  <2> QED
    BY <2>1, <2>2, <2>3, BeforeSaving DEF Built, Saving
<1> QED
  BY <1>1, <1>2, <1>3

\* The drive is opened, tested and opened again, and asked for its length.
LEMMA OpenKeeps ==
  ASSUME Inv, LoadOpen \/ LoadTest \/ LoadReopen \/ LoadSize PROVE Inv'
<1> USE DEF At, Goto, AfterLoad, OpenForRead, Closed, Opening, Loading, Loaded, Built, Saving
<1>1. /\ UNCHANGED <<size, disk, call, saved, ret>>
      /\ pc' \in {"test", "reopen", "size", "scan", "mbr", "clearDisk"}
      /\ pc \in Opening /\ gpt.diskSize = 0 /\ gpt.parts = BlankPartitions
      /\ pc' = "mbr" => call = "clear"
      /\ pc' = "clearDisk" => call = "make"
      /\ fault' \in BOOLEAN
      /\ pc' \in {"mbr", "clearDisk"} => io'.name = FALSE /\ fault' = TRUE
      /\ io' \in [name : BOOLEAN, mode : {"closed", "read", "write"}]
  <2>0. pc \in Opening /\ call \in {"clear", "make"} /\ fault \in BOOLEAN
    BY DEF LoadOpen, LoadTest, LoadReopen, LoadSize, Inv, TypeInv
  <2>1. gpt.diskSize = 0 /\ gpt.parts = BlankPartitions
    BY <2>0 DEF Inv, LoadInv
  <2>2. CASE LoadOpen
    <3>1. PICK ok \in BOOLEAN :
            /\ io' = [name |-> ok, mode |-> IF ok THEN "read" ELSE "closed"]
            /\ fault' = (fault \/ ~ok)
            /\ pc' = IF ok THEN "test" ELSE IF call = "clear" THEN "mbr" ELSE "clearDisk"
      BY <2>2 DEF LoadOpen
    <3> QED
      BY <2>0, <2>1, <2>2, <3>1 DEF LoadOpen
  <2>3. CASE LoadTest
    BY <2>0, <2>1, <2>3 DEF LoadTest
  <2>4. CASE LoadReopen
    <3>1. PICK ok \in BOOLEAN :
            /\ io' = [name |-> ok, mode |-> IF ok THEN "read" ELSE "closed"]
            /\ fault' = (fault \/ ~ok)
            /\ pc' = IF ok THEN "size" ELSE IF call = "clear" THEN "mbr" ELSE "clearDisk"
      BY <2>4 DEF LoadReopen
    <3> QED
      BY <2>0, <2>1, <2>4, <3>1 DEF LoadReopen
  <2>5. CASE LoadSize
    <3>1. PICK ok \in BOOLEAN : fault' = (fault \/ ~ok)
      BY <2>5 DEF LoadSize
    <3> QED
      BY <2>0, <2>1, <2>5, <3>1 DEF LoadSize, Inv, TypeInv
  <2> QED
    BY <2>2, <2>3, <2>4, <2>5
<1>2. size \in Sizes /\ size \in Nat /\ gpt \in Object /\ MadeUp \subseteq Nat \ {0}
  BY SizeFacts, GptConstants DEF Inv, TypeInv
<1>3. \/ gpt' = gpt /\ pc' # "scan"
      \/ /\ pc' = "scan"
         /\ \E n \in Nat \ {0} : /\ gpt' = [gpt EXCEPT !.diskSize = n]
                                 /\ n = size \/ (fault' /\ n \in MadeUp)
  <2>1. CASE LoadOpen \/ LoadTest \/ LoadReopen
    BY <1>1, <2>1 DEF LoadOpen, LoadTest, LoadReopen
  <2>2. CASE LoadSize
    <3>1. PICK ok \in BOOLEAN : /\ ok => size > 0
                                /\ \E n \in DiskSize(ok) : gpt' = [gpt EXCEPT !.diskSize = n]
                                /\ fault' = (fault \/ ~ok)
      BY <2>2 DEF LoadSize
    <3>2. PICK n \in DiskSize(ok) : gpt' = [gpt EXCEPT !.diskSize = n]
      BY <3>1
    <3>3. n \in Nat \ {0} /\ (n = size \/ (~ok /\ n \in MadeUp))
      BY <1>2, <3>1 DEF DiskSize
    <3>4. ~ok => fault'
      BY <3>1
    <3>5. pc' = "scan"
      BY <2>2 DEF LoadSize
    <3> QED
      BY <3>2, <3>3, <3>4, <3>5
  <2> QED
    BY <2>1, <2>2
<1>4. /\ gpt' \in Object /\ gpt'.parts = gpt.parts
      /\ pc' # "scan" => gpt'.diskSize = 0
      /\ pc' = "scan" => Sized'
  BY <1>1, <1>2, <1>3 DEF Object, Sized
<1>5. TypeInv'
  BY <1>1, <1>4 DEF Inv, TypeInv
<1>6. LoadInv'
  BY <1>1, <1>4 DEF LoadInv, Failed
<1> QED
  BY <1>1, <1>5, <1>6, BeforeSaving

\* A step of the loading.
Loads ==
  /\ pc \in Loading /\ pc' \in Loading \ {"scan"}
  /\ UNCHANGED <<size, disk, io, call, saved, ret>>
  /\ gpt' \in Object /\ gpt'.diskSize = gpt.diskSize
  /\ fault' \in BOOLEAN /\ (fault => fault')
  /\ pc # "scan" => gpt'.mbrSize = gpt.mbrSize
  /\ pc = "scan" /\ ~fault' => gpt'.mbrSize = size

\* Such a step keeps what is known.
LEMMA LoadsKeeps ==
  ASSUME Inv, Loads PROVE Inv'
<1> USE DEF Loading, Opening, Loaded, Built, Saving
<1>1. TypeInv'
  BY DEF Loads, Inv, TypeInv
<1>2. LoadInv'
  BY DEF Loads, Inv, LoadInv, Sized
<1> QED
  BY <1>1, <1>2, BeforeSaving DEF Loads

\* What the steps of the loading start from.
LEMMA LoadingFacts ==
  ASSUME Inv, pc \in Loading
  PROVE  /\ size \in Sizes /\ size \in Nat /\ disk \in [0 .. size - 1 -> Sector]
         /\ gpt \in Object /\ Sized /\ fault \in BOOLEAN
         /\ gpt.main \in Header /\ gpt.second \in Header
  BY SizeFacts DEF Inv, TypeInv, LoadInv, Object

\* PartitionScan.
LEMMA ReadMBRLoads ==
  ASSUME Inv, ReadMBR PROVE Loads
<1> USE DEF ReadMBR, At, Goto
<1>1. pc = "scan" /\ pc \in Loading
  BY DEF Loading
<1>2. PICK ok \in BOOLEAN, asked \in BOOLEAN :
        /\ ok \/ asked => size > 0
        /\ \E n \in DiskSize(asked) : gpt' = ReadMBRData(gpt, ok, n)
        /\ fault' = (fault \/ ~ok \/ ~asked)
  OBVIOUS
<1>3. PICK n \in DiskSize(asked) : gpt' = ReadMBRData(gpt, ok, n)
  BY <1>2
<1>4. n \in Nat /\ (asked => n = size)
  BY <1>1, LoadingFacts, GptConstants DEF DiskSize
<1>5. /\ gpt' \in Object /\ gpt'.diskSize = gpt.diskSize
      /\ ok /\ asked => gpt'.mbrSize = size
  BY <1>1, <1>2, <1>3, <1>4, LoadingFacts, ReadMBRFacts
<1>6. fault' \in BOOLEAN /\ (fault => fault') /\ (~fault' => ok /\ asked)
  BY <1>1, <1>2, LoadingFacts
<1> QED
  BY <1>1, <1>5, <1>6 DEF Loads, Loading

\* The main header.
LEMMA MainHeaderLoads ==
  ASSUME Inv, LoadMainHeader PROVE Loads
<1> USE DEF LoadMainHeader, At, Goto
<1>1. pc = "readMain" /\ pc \in Loading
  BY DEF Loading
<1>2. PICK ok \in BOOLEAN :
        /\ \E r \in ReadHeader(1, Reaches(1, 1, ok), {}) :
             gpt' = [Resized(gpt, r, Reaches(1, 1, ok)) EXCEPT
                       !.main = r.header, !.mainCrcOk = r.good,
                       !.allOK = Reaches(1, 1, ok)]
        /\ fault' = (fault \/ ~ok)
  OBVIOUS
<1> DEFINE read == Reaches(1, 1, ok)
<1>3. PICK r \in ReadHeader(1, read, {}) :
        gpt' = [Resized(gpt, r, read) EXCEPT !.main = r.header, !.mainCrcOk = r.good,
                                             !.allOK = read]
  BY <1>2
<1>4. read \in BOOLEAN
  BY DEF Reaches
<1> HIDE DEF read
<1>5. r.header \in Header /\ r.good \in BOOLEAN
  BY <1>1, <1>4, LoadingFacts, ReadHeaderFacts
<1> DEFINE g == Resized(gpt, r, read)
<1>6. g \in Object /\ Kept(gpt, g)
  BY <1>1, <1>4, <1>5, LoadingFacts, ResizedFacts
<1> HIDE DEF g
<1>7. gpt' \in Object /\ Kept(gpt, gpt')
  <2>1. gpt' = [g EXCEPT !.main = r.header, !.mainCrcOk = r.good, !.allOK = read]
    BY <1>3 DEF g
  <2> QED
    BY <1>4, <1>5, <1>6, <2>1 DEF Object, Kept
<1> QED
  BY <1>1, <1>2, <1>7, LoadingFacts DEF Loads, Loading, Kept

\* The second header, and the one that replaces the other.
LEMMA SecondHeaderLoads ==
  ASSUME Inv, LoadSecondHeader PROVE Loads
<1> USE DEF LoadSecondHeader, At, Goto
<1>1. pc = "readSecond" /\ pc \in Loading
  BY DEF Loading
<1> DEFINE main == [header |-> gpt.main, good |-> gpt.mainCrcOk]
<1>2. PICK ok \in BOOLEAN :
        /\ \E r \in ReadHeader(SecondLBA, Reaches(SecondLBA, 1, ok), {main}) :
           \E g \in {[Resized(gpt, r, Reaches(SecondLBA, 1, ok)) EXCEPT
                        !.second = r.header, !.secondCrcOk = r.good,
                        !.allOK = gpt.allOK /\ Reaches(SecondLBA, 1, ok)]} :
             /\ gpt' \in {g, RebuildSecondHeader(g), RebuildMainHeader(g)}
             /\ pc' \in {"readMainTable", "readSecondTable", "startOver"}
        /\ fault' = (fault \/ ~ok)
  BY ZenonT(60)
<1> DEFINE read == Reaches(SecondLBA, 1, ok)
<1>3. PICK r \in ReadHeader(SecondLBA, read, {main}) :
        LET g == [Resized(gpt, r, read) EXCEPT
                    !.second = r.header, !.secondCrcOk = r.good,
                    !.allOK = gpt.allOK /\ read]
        IN  /\ gpt' \in {g, RebuildSecondHeader(g), RebuildMainHeader(g)}
            /\ pc' \in {"readMainTable", "readSecondTable", "startOver"}
  BY <1>2
<1>4. /\ read \in BOOLEAN /\ SecondLBA \in Nat
      /\ {main} \in SUBSET [header : Header, good : BOOLEAN]
      /\ gpt.allOK \in BOOLEAN
  <2>1. /\ gpt.main \in Header /\ gpt.mainCrcOk \in BOOLEAN /\ gpt.allOK \in BOOLEAN
        /\ gpt.diskSize \in Nat
    BY <1>1, LoadingFacts DEF Object
  <2>2. gpt.main.backupLBA \in Nat /\ U64(gpt.diskSize - 1) \in Nat
    BY <2>1, WordFacts DEF Header, Words
  <2> QED
    BY <2>1, <2>2 DEF Reaches, SecondLBA
<1> HIDE DEF read, main
<1>5. r.header \in Header /\ r.good \in BOOLEAN
  BY <1>1, <1>4, LoadingFacts, ReadHeaderFacts
<1> DEFINE g0 == Resized(gpt, r, read)
           g == [g0 EXCEPT !.second = r.header, !.secondCrcOk = r.good,
                           !.allOK = gpt.allOK /\ read]
<1>6. g0 \in Object /\ Kept(gpt, g0)
  BY <1>1, <1>4, <1>5, LoadingFacts, ResizedFacts
<1>7. gpt' \in {g, RebuildSecondHeader(g), RebuildMainHeader(g)}
  BY <1>3
<1> HIDE DEF g0
<1>8. g \in Object /\ Kept(gpt, g)
  BY <1>4, <1>5, <1>6 DEF Object, Kept
<1> HIDE DEF g
<1>9. gpt' \in Object /\ Kept(gpt, gpt')
  BY <1>7, <1>8, RebuildFacts DEF Kept, SameRest
<1> QED
  BY <1>1, <1>2, <1>3, <1>9, LoadingFacts DEF Loads, Loading, Kept

\* A table.
LEMMA TableLoads ==
  ASSUME Inv, pc \in Loading \ {"scan"}, NEW h \in Header,
         NEW then \in Loading \ {"scan"}, NEW else \in Loading \ {"scan"},
         LoadTable(h, then, else)
  PROVE  Loads
<1> USE DEF LoadTable, Goto
<1>1. gpt \in Object /\ size \in Nat /\ disk \in [0 .. size - 1 -> Sector]
  BY LoadingFacts
<1>2. PICK ok \in BOOLEAN :
        /\ \E tab \in ReadTable(h, Reaches(h.partitionEntriesLBA, h.tableSize, ok)) :
           \E b \in BOOLEAN :
             \/ gpt' = [LoadPartitionTable(gpt, h, tab) EXCEPT !.allOK = b]
             \/ gpt' = [gpt EXCEPT !.allOK = b]
        /\ fault' = (fault \/ ~ok)
  BY <1>1 DEF Object
<1>3. PICK tab \in ReadTable(h, Reaches(h.partitionEntriesLBA, h.tableSize, ok)) :
        \E b \in BOOLEAN :
          \/ gpt' = [LoadPartitionTable(gpt, h, tab) EXCEPT !.allOK = b]
          \/ gpt' = [gpt EXCEPT !.allOK = b]
  BY <1>2
<1>4. PICK b \in BOOLEAN :
        \/ gpt' = [LoadPartitionTable(gpt, h, tab) EXCEPT !.allOK = b]
        \/ gpt' = [gpt EXCEPT !.allOK = b]
  BY <1>3
<1>5. tab \in Tables
  <2>1. /\ h.partitionEntriesLBA \in Nat /\ h.tableSize \in Nat \ {0}
        /\ h.entriesCRC \in Tables
    BY DEF Header, Words
  <2> QED
    BY <1>1, <2>1, TableAtFacts, TableFacts DEF ReadTable
<1> DEFINE g == LoadPartitionTable(gpt, h, tab)
<1>6. g \in Object /\ Kept(gpt, g)
  BY <1>1, <1>5, LoadTableFacts
<1> HIDE DEF g
<1>7. gpt' \in Object /\ Kept(gpt, gpt')
  BY <1>1, <1>4, <1>6 DEF Object, Kept, g
<1>8. pc' \in {then, else}
  OBVIOUS
<1> QED
  BY <1>2, <1>7, <1>8, LoadingFacts DEF Loads, Kept

\* All steps of the loading.
LEMMA LoadSteps ==
  ASSUME Inv,
         \/ ReadMBR \/ LoadMainHeader \/ LoadSecondHeader \/ LoadMainTable
         \/ LoadSecondTableAsMain \/ CheckOtherTable \/ LoadBackupTable
  PROVE  Loads
<1>1. CASE LoadMainTable
  <2>1. pc \in Loading \ {"scan"}
    BY <1>1 DEF LoadMainTable, At, Loading
  <2>2. gpt.main \in Header
    BY <2>1, LoadingFacts
  <2>3. "checkSecond" \in Loading \ {"scan"} /\ "neither" \in Loading \ {"scan"}
    BY DEF Loading
  <2> QED
    BY <1>1, <2>1, <2>2, <2>3, TableLoads DEF LoadMainTable
<1>2. CASE LoadSecondTableAsMain
  <2>1. pc \in Loading \ {"scan"}
    BY <1>2 DEF LoadSecondTableAsMain, At, Loading
  <2>2. gpt.second \in Header
    BY <2>1, LoadingFacts
  <2>3. "checkMain" \in Loading \ {"scan"} /\ "readMainAfterAll" \in Loading \ {"scan"}
    BY DEF Loading
  <2> QED
    BY <1>2, <2>1, <2>2, <2>3, TableLoads DEF LoadSecondTableAsMain
<1>3. CASE LoadBackupTable
  <2>1. pc \in Loading \ {"scan"}
    BY <1>3 DEF LoadBackupTable, At, Loading
  <2>2. gpt.second \in Header
    BY <2>1, LoadingFacts
  <2>3. "startOver" \in Loading \ {"scan"}
    BY DEF Loading
  <2>4. CASE gpt.allOK
    BY <1>3, <2>1, <2>2, <2>3, <2>4, TableLoads DEF LoadBackupTable
  <2>5. CASE ~gpt.allOK
    BY <1>3, <2>1, <2>3, <2>5, LoadingFacts DEF LoadBackupTable, Goto, Loads
  <2> QED
    BY <2>4, <2>5
<1>4. CASE CheckOtherTable
  <2> USE DEF At, Goto, Checked
  <2>1. pc \in Loading \ {"scan"}
    BY <1>4 DEF CheckOtherTable, Loading
  <2>2. PICK a \in BOOLEAN, b \in BOOLEAN :
          gpt' = [gpt EXCEPT !.mainPartsCrcOk = a, !.secondPartsCrcOk = b]
    <3>1. \A h, o, ok : CheckTable(h, o, ok) \in BOOLEAN
      BY DEF CheckTable, CanSeek, Reaches
    <3>2. gpt \in Object /\ gpt.mainPartsCrcOk \in BOOLEAN /\ gpt.secondPartsCrcOk \in BOOLEAN
      BY <2>1, LoadingFacts DEF Object
    <3>4. CASE At("checkSecond")
      <4>1. PICK ok \in BOOLEAN : gpt' = [gpt EXCEPT !.secondPartsCrcOk =
                                            CheckTable(gpt.second, gpt.main, ok)]
        BY <1>4, <3>4 DEF CheckOtherTable
      <4>2. gpt' = [gpt EXCEPT !.mainPartsCrcOk = gpt.mainPartsCrcOk,
                               !.secondPartsCrcOk = CheckTable(gpt.second, gpt.main, ok)]
        BY <3>2, <4>1 DEF Object
      <4> QED
        BY <3>1, <3>2, <4>2
    <3>5. CASE At("checkMain")
      <4>1. PICK ok \in BOOLEAN : gpt' = [gpt EXCEPT !.mainPartsCrcOk =
                                            CheckTable(gpt.main, gpt.second, ok)]
        BY <1>4, <3>5 DEF CheckOtherTable
      <4>2. gpt' = [gpt EXCEPT !.mainPartsCrcOk = CheckTable(gpt.main, gpt.second, ok),
                               !.secondPartsCrcOk = gpt.secondPartsCrcOk]
        BY <3>2, <4>1 DEF Object
      <4> QED
        BY <3>1, <3>2, <4>2
    <3>6. CASE At("neither")
      BY <1>4, <3>6 DEF CheckOtherTable
    <3> QED
      BY <1>4, <3>4, <3>5, <3>6 DEF CheckOtherTable
  <2>3. gpt' \in Object /\ Kept(gpt, gpt')
    BY <2>1, <2>2, LoadingFacts DEF Object, Kept
  <2>4. /\ pc' \in {"readBackup", "startOver"} /\ fault' \in BOOLEAN /\ (fault => fault')
        /\ UNCHANGED <<size, disk, io, call, saved, ret>>
    <3>1. fault \in BOOLEAN /\ UNCHANGED <<size, disk, io, call, saved, ret>>
      BY <1>4, <2>1, LoadingFacts DEF CheckOtherTable
    <3>2. fault' \in BOOLEAN /\ (fault => fault')
      <4>1. CASE pc = "neither"
        BY <1>4, <3>1, <4>1 DEF CheckOtherTable
      <4>2. CASE pc # "neither"
        <5>1. PICK ok \in BOOLEAN : fault' = (fault \/ ~ok)
          BY <1>4, <4>2 DEF CheckOtherTable
        <5> QED
          BY <3>1, <5>1
      <4> QED
        BY <4>1, <4>2
    <3>3. pc' \in {"readBackup", "startOver"}
      BY <1>4 DEF CheckOtherTable
    <3> QED
      BY <3>1, <3>2, <3>3
  <2> QED
    BY <2>1, <2>3, <2>4 DEF Loads, Loading, Kept
<1> QED
  BY <1>1, <1>2, <1>3, <1>4, ReadMBRLoads, MainHeaderLoads, SecondHeaderLoads

\* Whatever was loaded, the table is started over.
LEMMA StartOverKeeps ==
  ASSUME Inv, StartOver PROVE Inv'
<1> USE DEF StartOver, At, Goto
<1>1. pc = "startOver" /\ pc \in Loading
  BY DEF Loading
<1>2. /\ gpt \in Object /\ size \in Sizes /\ Sized
      /\ ~fault => gpt.mbrSize = size
  BY <1>1, LoadingFacts DEF Inv, LoadInv
<1>n. PICK n \in Sizes \cup MadeUp : n = gpt.diskSize
  BY <1>2 DEF Sized
<1> DEFINE g == [gpt EXCEPT !.allOK = TRUE]
           h == ClearGPTData(g)
           k == MakeProtectiveMBR(h)
<1>3. g \in Object /\ g.diskSize = n /\ g.mbrSize = gpt.mbrSize
  BY <1>2, <1>n DEF Object
<1> HIDE DEF g
<1>4. /\ h \in Object /\ Started(h, n) /\ h.diskSize = n
      /\ h.mbrSize = gpt.mbrSize /\ h.parts = BlankPartitions
  BY <1>2, <1>3, ClearFacts
<1> HIDE DEF h
<1>5. /\ gpt' = [k EXCEPT !.align = Alignment] /\ io' = Closed(TRUE)
      /\ k = [h EXCEPT !.mbr = [state |-> "gpt", lastLBA |-> U64(h.mbrSize - 1),
                                others |-> FALSE]]
  BY DEF ComputeAlignment, h, g, MakeProtectiveMBR
<1> HIDE DEF k
<1>6. U64(h.mbrSize - 1) \in Words /\ Alignment \in Nat \ {0}
  BY <1>4, WordFacts, GptConstants DEF Object
<1>7. [state |-> "gpt", lastLBA |-> U64(h.mbrSize - 1), others |-> FALSE] \in Mbr
  BY <1>6 DEF Mbr
<1>8. /\ gpt' \in Object /\ gpt'.main = h.main /\ gpt'.second = h.second
      /\ gpt'.tsz = h.tsz /\ gpt'.diskSize = h.diskSize /\ gpt'.mbrSize = h.mbrSize
      /\ gpt'.parts = h.parts /\ gpt'.align = Alignment
      /\ gpt'.mainCrcOk = h.mainCrcOk /\ gpt'.secondCrcOk = h.secondCrcOk
      /\ gpt'.mainPartsCrcOk = h.mainPartsCrcOk
      /\ gpt'.secondPartsCrcOk = h.secondPartsCrcOk
      /\ gpt'.mbr = [state |-> "gpt", lastLBA |-> U64(h.mbrSize - 1), others |-> FALSE]
  BY <1>4, <1>5, <1>6, <1>7 DEF Object
<1>9. Started(gpt', n) /\ gpt'.diskSize = n
  BY <1>4, <1>8 DEF Started
<1>10. gpt'.mbr = Protective(gpt)'
  BY <1>8 DEF Protective, MakeProtectiveMBR, Object
<1>11. /\ UNCHANGED <<size, disk, call, ret, saved, fault>>
       /\ pc' = IF call = "clear" THEN "mbr" ELSE "clearDisk"
       /\ call \in {"clear", "make"}
  BY DEF AfterLoad, Inv, TypeInv
<1>12. TypeInv'
  BY <1>5, <1>8, <1>11 DEF Inv, TypeInv, Loaded, Closed
<1>13. Ready'
  BY <1>2, <1>n, <1>9, <1>11 DEF Ready, Sized
<1>14. LoadInv'
  BY <1>2, <1>4, <1>8, <1>10, <1>11, <1>13
     DEF LoadInv, Opening, Loading, Loaded, Built, Saving
<1> QED
  BY <1>11, <1>12, <1>14, BeforeSaving DEF Built, Saving

-----------------------------------------------------------------------------
(* What is built and saved                                                 *)

\* Where things are on a drive of n sectors, with room for them.
LEMMA RoomFacts ==
  ASSUME NEW n \in Sizes \cup MadeUp, RoomFor(n), NEW g, Started(g, n)
  PROVE  /\ n \in Nat /\ TableSectors \in Nat \ {0} /\ Alignment \in Nat \ {0}
         /\ n >= 2 * (TableSectors + 2) + Alignment
         /\ g.diskSize = n /\ g.tsz = TableSectors
         /\ g.main.currentLBA = 1 /\ g.main.backupLBA = n - 1
         /\ g.main.firstUsableLBA = TableSectors + 2
         /\ g.main.lastUsableLBA = n - TableSectors - 2
         /\ g.main.partitionEntriesLBA = 2 /\ g.main.tableSize = TableSectors
         /\ g.second.currentLBA = n - 1 /\ g.second.backupLBA = 1
         /\ g.second.firstUsableLBA = TableSectors + 2
         /\ g.second.lastUsableLBA = n - TableSectors - 2
         /\ g.second.partitionEntriesLBA = n - TableSectors - 1
         /\ g.second.tableSize = TableSectors
         /\ \A x \in 0 .. n : U64(x) = x
<1>1. /\ n \in Nat /\ TableSectors \in Nat \ {0} /\ Alignment \in Nat \ {0}
      /\ n \in Words /\ n < Word \div 2 /\ Word \div 2 \in Nat
      /\ n >= 2 * (TableSectors + 2) + Alignment
  BY SizeFacts DEF RoomFor
<1>2. /\ n - 1 \in Words /\ n - TableSectors - 2 \in Words
      /\ n - TableSectors - 1 \in Words
  BY <1>1, WordFacts DEF Words
<1>3. /\ U64(n - 1) = n - 1
      /\ U64(n - TableSectors - 2) = n - TableSectors - 2
      /\ U64(n - TableSectors - 1) = n - TableSectors - 1
  BY <1>2, WordFacts
<1>4. \A x \in 0 .. n : U64(x) = x
  <2>1. \A x \in 0 .. n : x \in Words
    BY <1>1, WordFacts DEF Words
  <2> QED
    BY <2>1, WordFacts
<1> QED
  BY <1>1, <1>3, <1>4 DEF Started, Fields

\* On the drive every sector can be reached.
LEMMA RoomyFacts ==
  ASSUME size \in Sizes, Roomy, NEW g, Started(g, size)
  PROVE  /\ size \in Nat /\ TableSectors \in Nat \ {0} /\ Alignment \in Nat \ {0}
         /\ size >= 2 * (TableSectors + 2) + Alignment
         /\ g.diskSize = size /\ g.tsz = TableSectors
         /\ g.main.currentLBA = 1 /\ g.main.backupLBA = size - 1
         /\ g.main.firstUsableLBA = TableSectors + 2
         /\ g.main.lastUsableLBA = size - TableSectors - 2
         /\ g.main.partitionEntriesLBA = 2 /\ g.main.tableSize = TableSectors
         /\ g.second.currentLBA = size - 1 /\ g.second.backupLBA = 1
         /\ g.second.firstUsableLBA = TableSectors + 2
         /\ g.second.lastUsableLBA = size - TableSectors - 2
         /\ g.second.partitionEntriesLBA = size - TableSectors - 1
         /\ g.second.tableSize = TableSectors
         /\ \A x \in 0 .. size : CanSeek(x) /\ U64(x) = x
<1>1. size \in Nat /\ size < SeekLimit /\ SeekLimit \in Nat
  BY SizeFacts, GptConstants
<1>2. \A x \in 0 .. size : CanSeek(x)
  BY <1>1 DEF CanSeek
<1> QED
  BY <1>2, RoomFacts DEF Roomy

\* An entry of the table that is built is not used, or is the one of ClearDisk.
LEMMA BuiltParts ==
  ASSUME Inv, pc \in Built, NEW i \in PartNums, IsUsed(gpt.parts[i])
  PROVE  /\ i = 0 /\ call = "make" /\ gpt.parts[0] \in Part
         /\ Whole(gpt.parts[0], gpt.diskSize) \/ Failed
<1>1. call = "make"
  BY TableFacts DEF Inv, TypeInv, PartInv
<1>2. ~IsUsed(BlankPartition)
  BY DEF IsUsed, BlankPartition
<1> QED
  BY <1>1, <1>2 DEF Inv, TypeInv, PartInv, Object, Tables, PartNums

\* Only one entry is in use.
LEMMA NoOverlaps ==
  ASSUME Inv, pc \in Built, NEW g, g.parts = gpt.parts
  PROVE  ~FindOverlaps(g)
<1>1. ASSUME NEW i \in PartNums, NEW j \in PartNums, j < i,
             IsUsed(g.parts[i]), IsUsed(g.parts[j])
      PROVE  FALSE
  <2>1. i = 0 /\ j = 0
    BY <1>1, BuiltParts
  <2> QED
    BY <1>1, <2>1
<1> QED
  BY <1>1 DEF FindOverlaps

\* The partition of a drive with room for it.
LEMMA RoomyPart ==
  ASSUME Inv, pc \in Built, Roomy, Started(gpt, size), ~Failed,
         NEW i \in PartNums, IsUsed(gpt.parts[i])
  PROVE  /\ TableSectors + 2 <= gpt.parts[i].firstLBA
         /\ gpt.parts[i].firstLBA <= gpt.parts[i].lastLBA
         /\ gpt.parts[i].lastLBA = size - TableSectors - 2
<1>1. i = 0 /\ gpt.parts[0] \in Part /\ Whole(gpt.parts[0], size)
  BY BuiltParts DEF Started
<1>2. /\ size \in Nat /\ TableSectors \in Nat \ {0} /\ Alignment \in Nat \ {0}
      /\ size >= 2 * (TableSectors + 2) + Alignment
      /\ U64(size - TableSectors - 2) = size - TableSectors - 2
  BY RoomyFacts DEF Inv, TypeInv, Started, Fields
<1> QED
  BY <1>1, <1>2 DEF Whole, Part

\* Then nothing keeps it from being saved.
LEMMA RoomySaves ==
  ASSUME Inv, pc = "save", Roomy, Started(gpt, size), ~Failed
  PROVE  MaySave(gpt)
<1>1. pc \in Built /\ gpt \in Object /\ size \in Sizes
  BY DEF Built, Inv, TypeInv
<1>2. OnDisk(gpt) = gpt /\ Corrected(gpt) = gpt
  BY <1>1, CorrectedStarted
<1>3. ~CheckGPTSize(gpt) /\ ~FindInsanePartitions(gpt)
  <2>1. ASSUME NEW i \in PartNums, IsUsed(gpt.parts[i])
        PROVE  /\ gpt.main.firstUsableLBA <= gpt.parts[i].firstLBA
               /\ gpt.parts[i].lastLBA <= gpt.main.lastUsableLBA
               /\ gpt.parts[i].firstLBA <= gpt.parts[i].lastLBA
               /\ gpt.parts[i].lastLBA < gpt.diskSize
    BY <1>1, <2>1, RoomyPart, RoomyFacts
  <2>2. /\ gpt.main.firstUsableLBA \in Int /\ gpt.main.lastUsableLBA \in Int
        /\ gpt.diskSize \in Int
        /\ \A i \in PartNums : gpt.parts[i].firstLBA \in Int /\ gpt.parts[i].lastLBA \in Int
    BY <1>1 DEF Object, Header, Words, Tables, Part
  <2> QED
    BY <2>1, <2>2 DEF CheckGPTSize, FindInsanePartitions
<1> QED
  BY <1>1, <1>2, <1>3, NoOverlaps DEF MaySave

\* A table that may be saved is sane on a drive of any size.
LEMMA MaySaveSane ==
  ASSUME Inv, pc = "save", MaySave(gpt), NEW h,
         h.parts = gpt.parts,
         Ready => h.second.partitionEntriesLBA = gpt.second.partitionEntriesLBA
  PROVE  /\ \A i \in PartNums :
              LET p == h.parts[i]
              IN IsUsed(p) => /\ 2 + TableSectors <= p.firstLBA
                              /\ p.firstLBA <= p.lastLBA
                              /\ p.lastLBA < h.second.partitionEntriesLBA
         /\ call = "make" /\ RoomFor(gpt.diskSize) =>
              LET first == h.parts[0].firstLBA
              IN first % Alignment = 0 /\ first < 2 + TableSectors + Alignment
<1>1. /\ pc \in Built /\ gpt \in Object /\ size \in Sizes
      /\ TableSectors \in Nat /\ Alignment \in Nat
      /\ Ready \/ Failed
  BY SizeFacts DEF Built, Loaded, Inv, TypeInv, LoadInv
<1>2. Corrected(gpt).parts = gpt.parts /\ Corrected(gpt).diskSize = gpt.diskSize
  BY <1>1, CorrectedFacts DEF SameRest
<1>3. ASSUME NEW i \in PartNums, IsUsed(gpt.parts[i])
      PROVE  /\ gpt.parts[i].firstLBA \in Nat /\ gpt.parts[i].lastLBA \in Nat
             /\ gpt.parts[i].firstLBA <= gpt.parts[i].lastLBA
             /\ gpt.parts[i].lastLBA < gpt.diskSize
  <2>1. gpt.parts[i].firstLBA \in Nat /\ gpt.parts[i].lastLBA \in Nat /\ gpt.diskSize \in Nat
    BY <1>1, <1>3 DEF Object, Tables, Part
  <2> QED
    BY <1>2, <1>3, <2>1 DEF MaySave, FindInsanePartitions
<1>4. ASSUME NEW i \in PartNums, IsUsed(gpt.parts[i])
      PROVE  /\ 2 + TableSectors <= gpt.parts[i].firstLBA
             /\ gpt.parts[i].lastLBA < gpt.second.partitionEntriesLBA
             /\ Ready
  <2>0. gpt.diskSize # 0 /\ Ready /\ ~Failed
    BY <1>1, <1>3, <1>4 DEF Failed
  <2>n. PICK n \in Sizes \cup MadeUp : n = gpt.diskSize /\ n \in Nat
    BY <1>1, <2>0, SizeFacts DEF Ready, Sized
  <2>1. gpt.diskSize # 0 /\ Started(gpt, n)
    BY <2>0, <2>n DEF Ready
  <2>2. ~CheckGPTSize(gpt)
    BY <1>1, <2>1, CorrectedStarted DEF MaySave
  <2>3. /\ gpt.main.firstUsableLBA = TableSectors + 2
        /\ gpt.main.lastUsableLBA = U64(n - TableSectors - 2)
        /\ gpt.second.partitionEntriesLBA = U64(n - TableSectors - 1)
        /\ gpt.diskSize = n
    BY <2>1 DEF Started, Fields
  <2>4. /\ ~(TableSectors + 2 > gpt.parts[i].firstLBA)
        /\ ~(U64(n - TableSectors - 2) < gpt.parts[i].lastLBA)
    BY <1>4, <2>1, <2>2, <2>3 DEF CheckGPTSize
  <2>5. TableSectors + 2 <= gpt.parts[i].firstLBA /\ n > TableSectors + 2
    BY <1>1, <1>3, <1>4, <2>n, <2>3, <2>4
  <2>6. n - TableSectors - 2 \in Words /\ n - TableSectors - 1 \in Words
    <3>1. n \in Words
      BY SizeFacts
    <3> QED
      BY <1>1, <2>n, <2>5, <3>1, WordFacts DEF Words
  <2>7. gpt.parts[i].lastLBA <= n - TableSectors - 2
    BY <1>1, <1>3, <1>4, <2>n, <2>4, <2>6, WordFacts
  <2>8. gpt.second.partitionEntriesLBA = n - TableSectors - 1
    BY <2>3, <2>6, WordFacts
  <2> QED
    BY <1>1, <1>3, <1>4, <2>0, <2>n, <2>5, <2>7, <2>8
<1>5. ASSUME call = "make", RoomFor(gpt.diskSize)
      PROVE  /\ gpt.parts[0].firstLBA % Alignment = 0
             /\ gpt.parts[0].firstLBA < 2 + TableSectors + Alignment
  <2>1. IsUsed(gpt.parts[0]) /\ 0 \in PartNums
    BY <1>1, <1>5 DEF Inv, PartInv, IsUsed, PartNums
  <2>2. gpt.diskSize # 0
    BY <1>3, <2>1
  <2>3. Whole(gpt.parts[0], gpt.diskSize)
    BY <1>1, <2>1, <2>2, BuiltParts DEF Failed
  <2> QED
    BY <1>1, <1>5, <2>3 DEF Whole, RoomFor
<1> QED
  BY <1>3, <1>4, <1>5

\* A write of one sector.
LEMMA WriteOne ==
  ASSUME size \in Nat, disk \in [0 .. size - 1 -> Sector],
         NEW lba \in Nat, NEW s \in Sector, Write(lba, <<s>>)
  PROVE  /\ disk' \in [0 .. size - 1 -> Sector]
         /\ \A i \in 0 .. size - 1 :
              /\ i # lba => disk'[i] = disk[i]
              /\ i = lba => disk'[i] = s
<1>1. DOMAIN <<s>> = {1} /\ <<s>>[1] = s /\ DOMAIN disk = 0 .. size - 1
  OBVIOUS
<1>2. disk' = [i \in 0 .. size - 1 |->
                 IF i - lba + 1 \in {1} THEN <<s>>[i - lba + 1] ELSE disk[i]]
  BY <1>1 DEF Write
<1>3. ASSUME NEW i \in 0 .. size - 1
      PROVE  /\ i # lba => disk'[i] = disk[i]
             /\ i = lba => disk'[i] = s
  BY <1>1, <1>2, <1>3
<1>4. DOMAIN disk' = 0 .. size - 1 /\ disk' = [i \in 0 .. size - 1 |-> disk'[i]]
  BY <1>2
<1> QED
  BY <1>3, <1>4

\* A write of a table of n sectors.
LEMMA WriteTable ==
  ASSUME size \in Nat, disk \in [0 .. size - 1 -> Sector],
         NEW lba \in Nat, NEW n \in Nat, NEW tab \in Tables,
         Write(lba, [i \in 1 .. n |-> TableSector(tab, i - 1)])
  PROVE  /\ disk' \in [0 .. size - 1 -> Sector]
         /\ \A i \in 0 .. size - 1 :
              /\ i \notin lba .. lba + n - 1 => disk'[i] = disk[i]
              /\ i \in lba .. lba + n - 1 => disk'[i] = TableSector(tab, i - lba)
<1> DEFINE b == [i \in 1 .. n |-> TableSector(tab, i - 1)]
<1>1. /\ DOMAIN b = 1 .. n /\ DOMAIN disk = 0 .. size - 1
      /\ \A i \in 1 .. n : b[i] = TableSector(tab, i - 1)
  OBVIOUS
<1>2. disk' = [i \in 0 .. size - 1 |->
                 IF i - lba + 1 \in 1 .. n THEN b[i - lba + 1] ELSE disk[i]]
  BY <1>1 DEF Write
<1> HIDE DEF b
<1>3. \A i \in Nat : TableSector(tab, i) \in Sector
  BY DEF TableSector, Sector
<1>4. ASSUME NEW i \in 0 .. size - 1
      PROVE  /\ i \notin lba .. lba + n - 1 => disk'[i] = disk[i]
             /\ i \in lba .. lba + n - 1 => disk'[i] = TableSector(tab, i - lba)
  <2>1. /\ i - lba + 1 \in 1 .. n <=> i \in lba .. lba + n - 1
        /\ (i - lba + 1) - 1 = i - lba
    OBVIOUS
  <2> QED
    BY <1>1, <1>2, <2>1
<1>5. \A i \in 0 .. size - 1 : disk'[i] \in Sector
  <2> SUFFICES ASSUME NEW i \in 0 .. size - 1 PROVE disk'[i] \in Sector
    OBVIOUS
  <2>1. i \in lba .. lba + n - 1 => i - lba \in Nat
    OBVIOUS
  <2> QED
    BY <1>3, <1>4, <2>1
<1>6. disk' = [i \in 0 .. size - 1 |-> disk'[i]]
  BY <1>2
<1> QED
  BY <1>4, <1>5, <1>6

\* The MBR is written, or is not: the rest of the drive is left alone.
LEMMA WriteMBRFacts ==
  ASSUME TypeInv, NEW ok \in BOOLEAN, WriteMBR(ok)
  PROVE  /\ disk' \in [0 .. size - 1 -> Sector]
         /\ \A i \in 1 .. size - 1 : disk'[i] = disk[i]
         /\ ~io.name => disk' = disk
         /\ io' = Closed(io.name)
         /\ fault' = (fault \/ ~(CanWrite(ok) /\ Reaches(0, 1, ok)))
<1>1. size \in Nat
  BY SizeFacts DEF TypeInv
<1>2. MbrSector(gpt.mbr) \in Sector
  BY DEF TypeInv, Object, MbrSector, Sector
<1>3. CASE Write(0, <<MbrSector(gpt.mbr)>>) /\ io.name
  <2>1. /\ disk' \in [0 .. size - 1 -> Sector]
        /\ \A i \in 0 .. size - 1 : i # 0 => disk'[i] = disk[i]
    BY <1>1, <1>2, <1>3, WriteOne DEF TypeInv
  <2> QED
    BY <1>1, <1>3, <2>1 DEF WriteMBR
<1>4. CASE disk' = disk
  BY <1>4 DEF WriteMBR, TypeInv
<1> QED
  BY <1>3, <1>4 DEF WriteMBR, CanWrite

\* The MBR that says so is written before anything else.
LEMMA ProtectiveKeeps ==
  ASSUME Inv, WriteProtectiveMBR PROVE Inv'
<1> USE DEF WriteProtectiveMBR, At, Goto
<1>1. PICK ok \in BOOLEAN : WriteMBR(ok)
  OBVIOUS
<1>2. /\ disk' \in [0 .. size - 1 -> Sector]
      /\ \A i \in 1 .. size - 1 : disk'[i] = disk[i]
      /\ io' = Closed(io.name)
      /\ fault' = (fault \/ ~(CanWrite(ok) /\ Reaches(0, 1, ok)))
  BY <1>1, WriteMBRFacts DEF Inv
<1>3. /\ io' \in [name : BOOLEAN, mode : {"closed", "read", "write"}]
      /\ io'.name = io.name /\ fault' \in BOOLEAN /\ (fault => fault')
  BY <1>2 DEF Closed, Inv, TypeInv
<1>4. Roomy => 1 \in 1 .. size - 1
  BY SizeFacts DEF Inv, TypeInv, Roomy, RoomFor
<1>5. TypeInv'
  BY <1>2, <1>3 DEF Inv, TypeInv, Loaded
<1>6. LoadInv'
  <2>1. Protective(gpt)' = Protective(gpt)
    BY DEF Protective, MakeProtectiveMBR
  <2> QED
    BY <1>3, <2>1
       DEF Inv, LoadInv, Ready, Sized, Failed, Opening, Loading, Loaded, Built, Saving
<1> QED
  BY <1>2, <1>4, <1>5, <1>6, BeforeSaving DEF Built, Saving

\* A table that is to be saved, with no entry or the one of ClearDisk.
LEMMA ToSave ==
  ASSUME Inv, UNCHANGED <<size, disk, io, call, ret, saved, fault>>,
         pc \in {"clear", "clearDisk"}, pc' = "save",
         gpt' \in Object, gpt'.diskSize = gpt.diskSize, gpt'.mbrSize = gpt.mbrSize,
         Started(gpt, gpt.diskSize) => Started(gpt', gpt.diskSize),
         gpt'.mbr = gpt.mbr \/ gpt'.mbr = Protective(gpt),
         PartInv'
  PROVE  Inv'
<1>1. TypeInv'
  BY DEF Inv, TypeInv, Loaded, Built
<1>2. Protective(gpt)' = Protective(gpt)
  BY DEF Protective, MakeProtectiveMBR, Inv, TypeInv, Object
<1>3. LoadInv'
  BY <1>2 DEF Inv, LoadInv, Ready, Sized, Failed, Opening, Loading, Loaded, Built, Saving
<1>4. CrcInv' /\ SavedPartitionSane' /\ CopyInv'
  BY DEF Inv, CrcInv, SavedPartitionSane, CopyInv, MainFits, Roomy, Saving
<1> QED
  BY <1>1, <1>3, <1>4 DEF Inv

\* clearMbrGpt saves an empty table, makeEmptyPartition one partition.
LEMMA BuildKeeps ==
  ASSUME Inv, ClearTable \/ ClearDisk PROVE Inv'
<1> USE DEF At, Goto
<1>1. gpt \in Object /\ size \in Sizes
  BY DEF Inv, TypeInv
<1>2. CASE ClearTable
  <2>1. /\ gpt' \in Object /\ Started(gpt', gpt.diskSize)
        /\ gpt'.diskSize = gpt.diskSize /\ gpt'.mbrSize = gpt.mbrSize
        /\ gpt'.mbr = gpt.mbr \/ gpt'.mbr = Protective(gpt)
        /\ gpt'.parts = BlankPartitions
    BY <1>1, <1>2, ClearFacts DEF ClearTable
  <2>2. pc = "clear" /\ pc' = "save" /\ call = "clear"
        /\ UNCHANGED <<size, disk, io, call, ret, saved, fault>>
    BY <1>2 DEF ClearTable, Inv, LoadInv
  <2>3. Started(gpt, gpt.diskSize) => Started(gpt', gpt.diskSize)
    BY <2>1
  <2>4. PartInv'
    BY <2>1, <2>2 DEF PartInv
  <2> QED
    BY <2>1, <2>2, <2>3, <2>4, ToSave
<1>3. CASE ClearDisk
  <2>1. /\ pc = "clearDisk" /\ pc' = "save" /\ call = "make"
        /\ UNCHANGED <<size, disk, io, call, ret, saved, fault>>
        /\ gpt' = WholeDisk(gpt) /\ gpt.parts = BlankPartitions
        /\ gpt.align = Alignment \/ Failed
    BY <1>3 DEF ClearDisk, Inv, LoadInv
  <2>2. /\ gpt' \in Object /\ gpt' = [gpt EXCEPT !.parts = gpt'.parts]
        /\ gpt'.parts[0].type = "fat32" /\ gpt'.parts[1] = BlankPartition
        /\ \A n \in Sizes \cup MadeUp : Started(gpt, n) /\ gpt.align = Alignment =>
                              Whole(gpt'.parts[0], n)
    BY <1>1, <2>1, WholeFacts
  <2>3. /\ gpt'.diskSize = gpt.diskSize /\ gpt'.mbrSize = gpt.mbrSize
        /\ gpt'.mbr = gpt.mbr /\ gpt'.main = gpt.main /\ gpt'.second = gpt.second
        /\ gpt'.tsz = gpt.tsz /\ gpt'.mainCrcOk = gpt.mainCrcOk
        /\ gpt'.secondCrcOk = gpt.secondCrcOk
        /\ gpt'.mainPartsCrcOk = gpt.mainPartsCrcOk
        /\ gpt'.secondPartsCrcOk = gpt.secondPartsCrcOk
    BY <1>1, <2>2 DEF Object
  <2>4. Started(gpt, gpt.diskSize) => Started(gpt', gpt.diskSize)
    BY <2>3 DEF Started
  <2>5. Ready \/ Failed
    BY <2>1 DEF Inv, LoadInv, Loaded
  <2>6. PartInv'
    <3>1. Whole(gpt'.parts[0], gpt'.diskSize) \/ Failed
      BY <1>1, <2>1, <2>2, <2>3, <2>5 DEF Ready, Sized
    <3>2. Failed => Failed'
      BY <2>1, <2>3 DEF Failed
    <3> QED
      BY <2>1, <2>2, <3>1, <3>2 DEF PartInv
  <2> QED
    BY <1>1, <2>1, <2>2, <2>3, <2>4, <2>6, ToSave
<1> QED
  BY <1>2, <1>3

\* The entries are written somewhere, or are not.
LEMMA TableSaved ==
  ASSUME TypeInv, NEW lba \in Words, NEW next,
         \/ /\ SaveBackupTable /\ next = "backupHeader"
            /\ lba = gpt.second.partitionEntriesLBA
         \/ /\ SaveMainTable /\ next = "mainHeader"
            /\ lba = gpt.main.partitionEntriesLBA
  PROVE  /\ disk' \in [0 .. size - 1 -> Sector]
         /\ \A i \in 0 .. size - 1 :
              i \notin lba .. lba + gpt.tsz - 1 => disk'[i] = disk[i]
         /\ ~fault' /\ CanSeek(lba) =>
              /\ lba + gpt.tsz <= size
              /\ \A i \in 0 .. gpt.tsz - 1 : disk'[lba + i] = TableSector(gpt.parts, i)
         /\ fault' \in BOOLEAN /\ (fault => fault')
         /\ io' = io \/ io' = Closed(io.name)
         /\ pc' \in {next, "verify"} /\ (CanSeek(lba) => pc' = next)
         /\ UNCHANGED <<size, gpt, call, ret, saved, mainWas>>
<1>1. /\ size \in Nat /\ disk \in [0 .. size - 1 -> Sector] /\ lba \in Nat
      /\ gpt.tsz \in Nat /\ gpt.parts \in Tables /\ fault \in BOOLEAN
  BY SizeFacts, WordFacts DEF TypeInv, Object, Words
<1>2. Len(EntryBuffer) = gpt.tsz
  BY <1>1 DEF EntryBuffer
<1>3. PICK ok \in BOOLEAN :
        IF CanSeek(lba)
        THEN /\ IF Reaches(lba, gpt.tsz, ok) THEN Write(lba, EntryBuffer)
                                             ELSE disk' = disk
             /\ fault' = (fault \/ ~Reaches(lba, gpt.tsz, ok))
             /\ pc' = next /\ io' = io
        ELSE pc' = "verify" /\ io' = Closed(io.name) /\ disk' = disk /\ fault' = fault
  BY <1>2 DEF SaveBackupTable, SaveMainTable, SaveAt, Goto
<1>4. UNCHANGED <<size, gpt, call, ret, saved, mainWas>>
  BY DEF SaveBackupTable, SaveMainTable, SaveAt
<1>5. CASE CanSeek(lba) /\ Reaches(lba, gpt.tsz, ok)
  <2>1. /\ disk' \in [0 .. size - 1 -> Sector]
        /\ \A i \in 0 .. size - 1 :
             /\ i \notin lba .. lba + gpt.tsz - 1 => disk'[i] = disk[i]
             /\ i \in lba .. lba + gpt.tsz - 1 =>
                  disk'[i] = TableSector(gpt.parts, i - lba)
    BY <1>1, <1>3, <1>5, WriteTable DEF EntryBuffer
  <2>2. lba + gpt.tsz <= size /\ fault' = fault
    BY <1>1, <1>3, <1>5 DEF Reaches
  <2>3. \A i \in 0 .. gpt.tsz - 1 :
          /\ lba + i \in 0 .. size - 1 /\ lba + i \in lba .. lba + gpt.tsz - 1
          /\ (lba + i) - lba = i
    BY <1>1, <2>2
  <2>4. \A i \in 0 .. gpt.tsz - 1 : disk'[lba + i] = TableSector(gpt.parts, i)
    BY <2>1, <2>3
  <2> QED
    BY <1>1, <1>3, <1>4, <1>5, <2>1, <2>2, <2>4
<1>6. CASE CanSeek(lba) /\ ~Reaches(lba, gpt.tsz, ok)
  BY <1>1, <1>3, <1>4, <1>6
<1>7. CASE ~CanSeek(lba)
  BY <1>1, <1>3, <1>4, <1>7
<1> QED
  BY <1>5, <1>6, <1>7

\* A header is written somewhere, or is not.
LEMMA HeaderSaved ==
  ASSUME TypeInv, NEW lba \in Words, NEW s, NEW next,
         \/ /\ SaveBackupHeader /\ next = "mainTable" /\ lba = gpt.main.backupLBA
            /\ s = HeaderSector(gpt.second, gpt.secondCRC)
         \/ /\ SaveMainHeader /\ next = "saveMbr" /\ lba = 1
            /\ s = HeaderSector(gpt.main, gpt.mainCRC)
  PROVE  /\ disk' \in [0 .. size - 1 -> Sector]
         /\ \A i \in 0 .. size - 1 : disk'[i] = disk[i] \/ (i = lba /\ disk'[i] = s)
         /\ ~fault' /\ CanSeek(lba) => lba < size /\ disk'[lba] = s
         /\ fault' \in BOOLEAN /\ (fault => fault')
         /\ io' = io \/ io' = Closed(io.name)
         /\ pc' \in {next, "verify"} /\ (CanSeek(lba) => pc' = next)
         /\ UNCHANGED <<size, gpt, call, ret, saved, mainWas>>
<1>1. /\ size \in Nat /\ disk \in [0 .. size - 1 -> Sector] /\ lba \in Nat
      /\ fault \in BOOLEAN /\ s \in Sector
  <2>1. /\ gpt.main \in Header /\ gpt.second \in Header
        /\ gpt.mainCRC \in Header /\ gpt.secondCRC \in Header
    BY DEF TypeInv, Object
  <2>2. \A h, c \in Header : HeaderSector(h, c) \in Sector
    BY DEF HeaderSector, Sector
  <2>3. s \in Sector
    BY <2>1, <2>2
  <2> QED
    BY <2>3, SizeFacts, WordFacts DEF TypeInv, Words
<1>2. Len(<<s>>) = 1
  OBVIOUS
<1>3. PICK ok \in BOOLEAN :
        IF CanSeek(lba)
        THEN /\ IF Reaches(lba, 1, ok) THEN Write(lba, <<s>>) ELSE disk' = disk
             /\ fault' = (fault \/ ~Reaches(lba, 1, ok))
             /\ pc' = next /\ io' = io
        ELSE pc' = "verify" /\ io' = Closed(io.name) /\ disk' = disk /\ fault' = fault
  BY <1>2 DEF SaveBackupHeader, SaveMainHeader, SaveAt, Goto
<1>4. UNCHANGED <<size, gpt, call, ret, saved, mainWas>>
  BY DEF SaveBackupHeader, SaveMainHeader, SaveAt
<1>5. CASE CanSeek(lba) /\ Reaches(lba, 1, ok)
  <2>1. /\ disk' \in [0 .. size - 1 -> Sector]
        /\ \A i \in 0 .. size - 1 :
             /\ i # lba => disk'[i] = disk[i]
             /\ i = lba => disk'[i] = s
    BY <1>1, <1>3, <1>5, WriteOne
  <2>2. lba \in 0 .. size - 1
    BY <1>1, <1>5 DEF Reaches
  <2> QED
    BY <1>1, <1>3, <1>4, <1>5, <2>1, <2>2
<1>6. CASE CanSeek(lba) /\ ~Reaches(lba, 1, ok)
  BY <1>1, <1>3, <1>4, <1>6
<1>7. CASE ~CanSeek(lba)
  BY <1>1, <1>3, <1>4, <1>7
<1> QED
  BY <1>5, <1>6, <1>7

\* A step of the saving that leaves the object alone.
LEMMA QuietSave ==
  ASSUME Inv, UNCHANGED <<size, gpt, call>>,
         pc \in Built \ {"save"}, pc' \in Built \ {"save"},
         pc' \in Saving => pc \in Saving,
         pc' \in Saving \ {"saveOpen"} => io.name,
         io' \in [name : BOOLEAN, mode : {"closed", "read", "write"}],
         io'.name = io.name, fault' \in BOOLEAN, fault => fault',
         saved' \in BOOLEAN, ret' \in BOOLEAN, disk' \in [0 .. size - 1 -> Sector]
  PROVE  TypeInv' /\ LoadInv' /\ PartInv' /\ CrcInv' /\ SavedPartitionSane'
<1> USE DEF Inv
<1>1. TypeInv'
  BY DEF TypeInv, Loaded
<1>2. LoadInv'
  <2>1. /\ Protective(gpt)' = Protective(gpt) /\ (Failed => Failed')
        /\ Ready => Ready'
    BY DEF Protective, MakeProtectiveMBR, Failed, Ready, Sized
  <2>2. /\ pc' \notin Opening \cup Loading \cup {"mbr", "clear", "clearDisk"}
        /\ pc \in Loaded
    BY DEF Opening, Loading, Loaded, Built, Saving
  <2> QED
    BY <2>1, <2>2 DEF LoadInv
<1>3. PartInv'
  <2>1. Failed => Failed'
    BY DEF Failed
  <2> QED
    BY <2>1 DEF PartInv
<1>4. CrcInv'
  BY DEF CrcInv
<1>5. SavedPartitionSane'
  BY DEF SavedPartitionSane
<1> QED
  BY <1>1, <1>2, <1>3, <1>4, <1>5

\* The corrections, the CRCs and the checks.
LEMMA SaveChecksKeeps ==
  ASSUME Inv, SaveChecks PROVE Inv'
<1> USE DEF SaveChecks, At, Goto
<1>1. /\ gpt \in Object /\ size \in Sizes /\ pc = "save" /\ pc \in Built /\ pc \in Loaded
      /\ Ready \/ Failed
      /\ UNCHANGED <<size, disk, io, call, ret, saved, fault>>
      /\ pc' = IF MaySave(gpt) THEN "saveOpen" ELSE "verify"
  BY DEF Inv, TypeInv, LoadInv, Loaded, Built
<1> DEFINE g == Corrected(gpt)
<1>2. /\ g \in Object /\ SameRest(gpt, g)
      /\ Ready => g = gpt
  BY <1>1, CorrectedFacts, CorrectedStarted DEF Ready, Sized
<1>3. gpt' = RecomputeCRCs(g)
  OBVIOUS
<1> HIDE DEF g
<1>4. /\ gpt' \in Object /\ SameRest(g, gpt') /\ gpt'.mbr = g.mbr
      /\ gpt'.main = [g.main EXCEPT !.entriesCRC = g.parts]
      /\ gpt'.second = [g.second EXCEPT !.entriesCRC = g.parts]
      /\ gpt'.mainCRC = gpt'.main /\ gpt'.secondCRC = gpt'.second
      /\ Ready => Started(gpt', gpt.diskSize)
  BY <1>1, <1>2, <1>3, RecomputeFacts DEF Ready, Sized
<1>5. /\ gpt'.parts = gpt.parts /\ gpt'.diskSize = gpt.diskSize
      /\ gpt'.mbrSize = gpt.mbrSize
      /\ Ready => Started(gpt', gpt.diskSize) /\ gpt'.mbr = gpt.mbr
      /\ gpt'.main.entriesCRC = gpt'.parts /\ gpt'.second.entriesCRC = gpt'.parts
  BY <1>2, <1>4 DEF SameRest, Object, Header
<1>6. (Failed => Failed') /\ (Ready => Ready')
  BY <1>1, <1>5 DEF Failed, Ready, Sized
<1>7. TypeInv'
  BY <1>1, <1>4 DEF Inv, TypeInv, Loaded, Built, Saving
<1>8. LoadInv'
  <2>1. Protective(gpt)' = Protective(gpt)
    BY <1>1, <1>4, <1>5 DEF Protective, MakeProtectiveMBR, Object
  <2>2. ~fault => Ready /\ gpt.mbr = Protective(gpt) /\ gpt.mbrSize = size
    BY <1>1 DEF Inv, LoadInv, Failed
  <2>3. /\ pc' \notin Opening \cup Loading \cup {"mbr", "clear", "clearDisk"}
        /\ pc' \notin Saving \ {"saveOpen"}
    BY <1>1 DEF Opening, Loading, Saving
  <2> QED
    BY <1>1, <1>5, <1>6, <2>1, <2>2, <2>3 DEF LoadInv
<1>9. PartInv'
  BY <1>1, <1>5, <1>6 DEF Inv, PartInv
<1>10. CrcInv'
  BY <1>4, <1>5 DEF CrcInv
<1>11. SavedPartitionSane'
  <2>1. Ready => gpt'.second.partitionEntriesLBA = gpt.second.partitionEntriesLBA
    BY <1>1, <1>2, <1>4 DEF Object, Header
  <2>2. PICK h : h = gpt'
    OBVIOUS
  <2>3. CASE MaySave(gpt)
    <3>1. /\ \A i \in PartNums :
              LET p == h.parts[i]
              IN IsUsed(p) => /\ 2 + TableSectors <= p.firstLBA
                              /\ p.firstLBA <= p.lastLBA
                              /\ p.lastLBA < h.second.partitionEntriesLBA
          /\ call = "make" /\ RoomFor(gpt.diskSize) =>
              LET first == h.parts[0].firstLBA
              IN first % Alignment = 0 /\ first < 2 + TableSectors + Alignment
      BY <1>1, <1>5, <2>1, <2>2, <2>3, MaySaveSane
    <3>2. RoomFor(gpt.diskSize)' = RoomFor(gpt.diskSize) /\ call' = call
      BY <1>1, <1>5 DEF RoomFor
    <3> QED
      BY <2>2, <3>1, <3>2 DEF SavedPartitionSane, IsUsed
  <2>4. CASE ~MaySave(gpt)
    BY <1>1, <2>4 DEF SavedPartitionSane, Saving
  <2> QED
    BY <2>3, <2>4
<1>12. CopyInv'
  <2> SUFFICES ASSUME Roomy PROVE CopyInv'
    BY <1>1 DEF CopyInv, Roomy, RoomFor
  <2>1. MainFits'
    BY <1>1 DEF Inv, CopyInv, MainFits
  <2>2. ~fault => pc' = "saveOpen"
    BY <1>1, RoomySaves DEF Failed, Ready, Sized
  <2>3. mainWas' = Intact(1) /\ Intact(1)' = Intact(1)
    BY <1>1 DEF Intact, HeaderAt, TableAt
  <2> QED
    BY <1>1, <2>1, <2>2, <2>3 DEF CopyInv
<1> QED
  BY <1>7, <1>8, <1>9, <1>10, <1>11, <1>12 DEF Inv

\* The drive is opened for writing.
LEMMA SaveOpenKeeps ==
  ASSUME Inv, SaveOpen PROVE Inv'
<1> USE DEF SaveOpen, At, Goto
<1>1. PICK ok \in BOOLEAN :
        /\ io' = [io EXCEPT !.mode = IF CanWrite(ok) THEN "write" ELSE "closed"]
        /\ fault' = (fault \/ ~CanWrite(ok))
        /\ pc' = IF CanWrite(ok) THEN "backupTable" ELSE "verify"
  OBVIOUS
<1>2. /\ pc = "saveOpen" /\ UNCHANGED <<size, disk, gpt, call, ret, saved, mainWas>>
      /\ pc' \in {"backupTable", "verify"}
      /\ pc' = "backupTable" => io.name /\ fault' = fault
      /\ pc' = "verify" => fault'
      /\ fault' \in BOOLEAN /\ (fault => fault')
      /\ io' \in [name : BOOLEAN, mode : {"closed", "read", "write"}]
      /\ io'.name = io.name
  BY <1>1 DEF Inv, TypeInv, CanWrite
<1>3. TypeInv' /\ LoadInv' /\ PartInv' /\ CrcInv' /\ SavedPartitionSane'
  BY <1>2, QuietSave DEF Built, Saving, Inv, TypeInv
<1>4. CopyInv'
  <2>1. Intact(1)' = Intact(1) /\ Roomy' = Roomy /\ MainFits' = MainFits
    BY <1>2 DEF Intact, HeaderAt, TableAt, Roomy, MainFits
  <2> QED
    BY <1>2, <2>1 DEF Inv, CopyInv
<1> QED
  BY <1>3, <1>4 DEF Inv

\* While the drive is written, the object is one that was started over, for this
\* drive if nothing failed.
LEMMA SavingFacts ==
  ASSUME Inv, pc \in Saving \ {"saveOpen"}
  PROVE  /\ gpt \in Object /\ size \in Sizes /\ Ready /\ io.name
         /\ ~fault => Started(gpt, size)
         /\ pc \in Built \ {"save"} /\ pc \in Saving
         /\ gpt.second.partitionEntriesLBA \in Words /\ gpt.main.backupLBA \in Words
         /\ gpt.main.partitionEntriesLBA \in Words /\ 1 \in Words
<1>1. gpt \in Object /\ size \in Sizes /\ io.name /\ pc \in Loaded
  BY DEF Inv, TypeInv, LoadInv, Loaded, Built
<1>2. Ready /\ (~fault => Started(gpt, size))
  BY <1>1 DEF Inv, LoadInv, Failed, Ready, Sized
<1>3. /\ gpt.second.partitionEntriesLBA \in Words /\ gpt.main.backupLBA \in Words
      /\ gpt.main.partitionEntriesLBA \in Words
  BY <1>1 DEF Object, Header
<1> QED
  BY <1>1, <1>2, <1>3, SizeFacts DEF Built, Saving

\* What is written at the other end of the drive, for whatever size, is not
\* written over the main header, or before it.
LEMMA BackupBehind ==
  ASSUME Inv, Roomy, pc \in Saving \ {"saveOpen"}
  PROVE  /\ gpt.second.partitionEntriesLBA >= 2 /\ gpt.main.backupLBA >= 2
         /\ gpt.main.partitionEntriesLBA = 2 /\ gpt.main.tableSize = TableSectors
         /\ gpt.tsz = TableSectors
         /\ size \in Nat /\ TableSectors \in Nat \ {0} /\ Alignment \in Nat \ {0}
         /\ size >= 2 * (TableSectors + 2) + Alignment
<1>1. size \in Sizes /\ Ready
  BY SavingFacts
<1>2. PICK n \in Sizes \cup MadeUp : n = gpt.diskSize /\ (n = size \/ n \in MadeUp)
  BY <1>1 DEF Ready, Sized
<1>3. /\ size \in Nat /\ TableSectors \in Nat \ {0} /\ Alignment \in Nat \ {0}
      /\ size >= 2 * (TableSectors + 2) + Alignment /\ n \in Nat /\ n \in Words
  BY <1>1, SizeFacts DEF Roomy, RoomFor
<1>4. n > TableSectors + 2
  BY <1>2, <1>3, GptConstants
<1>5. n - 1 \in Words /\ n - TableSectors - 1 \in Words
  BY <1>3, <1>4, WordFacts DEF Words
<1>6. U64(n - 1) = n - 1 /\ U64(n - TableSectors - 1) = n - TableSectors - 1
  BY <1>5, WordFacts
<1>7. Started(gpt, n)
  BY <1>1, <1>2 DEF Ready
<1> QED
  BY <1>3, <1>4, <1>6, <1>7 DEF Started, Fields

\* The main copy does not depend on the sectors of the backup.
LEMMA MainKept ==
  ASSUME TypeInv, Roomy, MainFits, size' = size,
         \A i \in 1 .. size - TableSectors - 2 : disk'[i] = disk[i]
  PROVE  Intact(1) => Intact(1)'
<1>1. /\ size \in Nat /\ TableSectors \in Nat \ {0} /\ Alignment \in Nat
      /\ size >= 2 * (TableSectors + 2) + Alignment
  BY SizeFacts DEF TypeInv, Roomy, RoomFor
<1>2. disk'[1] = disk[1] /\ 1 < size
  BY <1>1
<1> SUFFICES ASSUME Intact(1) PROVE Intact(1)'
  OBVIOUS
<1> DEFINE h == disk[1].header
<1>3. /\ disk[1].kind = "header" /\ disk[1].crc = h /\ h.currentLBA = 1
      /\ TableAt(h.partitionEntriesLBA, h.tableSize) = h.entriesCRC
  BY <1>2 DEF Intact, HeaderAt
<1>4. h.partitionEntriesLBA = 2 /\ 2 * h.tableSize + 4 <= size /\ h.tableSize \in Nat \ {0}
  <2>1. disk[1] \in Sector
    BY <1>1, <1>2 DEF TypeInv
  <2>2. h \in Header
    BY <1>3, <2>1 DEF Sector, Unknown
  <2> QED
    BY <1>3, <2>2 DEF MainFits, Header
<1>5. PICK t \in Nat \ {0} : t = h.tableSize
  BY <1>4
<1>6. \A i \in 0 .. t - 1 : 2 + i \in 1 .. size - TableSectors - 2
  BY <1>1, <1>4, <1>5
<1>7. \A i \in 0 .. t - 1 : disk'[2 + i] = disk[2 + i]
  BY <1>6
<1>8. disk'[2] = disk[2]
  <2>1. 2 \in 1 .. size - TableSectors - 2
    BY <1>1
  <2> QED
    BY <2>1
<1>9. TableAt(2, t)' = TableAt(2, t)
  BY <1>1, <1>7, <1>8 DEF TableAt, TornTable
<1> QED
  BY <1>2, <1>3, <1>4, <1>5, <1>9 DEF Intact, HeaderAt

\* A table stays where it is when nothing is written there.
LEMMA TableKept ==
  ASSUME TableSectors \in Nat, NEW lba \in Nat, NEW tab,
         \A i \in lba .. lba + TableSectors - 1 : disk'[i] = disk[i],
         TableIs(lba, tab)
  PROVE  TableIs(lba, tab)'
<1>1. \A i \in 0 .. TableSectors - 1 : lba + i \in lba .. lba + TableSectors - 1
  OBVIOUS
<1> QED
  BY <1>1 DEF TableIs

\* First the entries of the backup,
LEMMA BackupTableKeeps ==
  ASSUME Inv, SaveBackupTable PROVE Inv'
<1>1. pc = "backupTable" /\ pc \in Saving \ {"saveOpen"}
  BY DEF SaveBackupTable, At, Saving
<1>2. PICK lba \in Words : lba = gpt.second.partitionEntriesLBA
  BY <1>1, SavingFacts
<1>3. /\ disk' \in [0 .. size - 1 -> Sector]
      /\ \A i \in 0 .. size - 1 :
           i \notin lba .. lba + gpt.tsz - 1 => disk'[i] = disk[i]
      /\ ~fault' /\ CanSeek(lba) =>
           /\ lba + gpt.tsz <= size
           /\ \A i \in 0 .. gpt.tsz - 1 : disk'[lba + i] = TableSector(gpt.parts, i)
      /\ fault' \in BOOLEAN /\ (fault => fault')
      /\ io' = io \/ io' = Closed(io.name)
      /\ pc' \in {"backupHeader", "verify"} /\ (CanSeek(lba) => pc' = "backupHeader")
      /\ UNCHANGED <<size, gpt, call, ret, saved, mainWas>>
  BY <1>2, TableSaved DEF Inv
<1>4. TypeInv' /\ LoadInv' /\ PartInv' /\ CrcInv' /\ SavedPartitionSane'
  <2>1. /\ io' \in [name : BOOLEAN, mode : {"closed", "read", "write"}]
        /\ io'.name = io.name
    BY <1>3 DEF Inv, TypeInv, Closed
  <2> QED
    BY <1>1, <1>3, <2>1, SavingFacts, QuietSave DEF Built, Saving, Inv, TypeInv
<1>5. CopyInv'
  <2> SUFFICES ASSUME Roomy PROVE CopyInv'
    BY <1>3 DEF CopyInv, Roomy, RoomFor
  <2>m. MainFits'
    <3>1. lba >= 2 /\ lba \in Nat /\ gpt.tsz \in Nat /\ 1 \in 0 .. size - 1
      BY <1>1, <1>2, BackupBehind, WordFacts DEF Words
    <3>2. disk'[1] = disk[1]
      BY <1>3, <3>1
    <3> QED
      BY <1>3, <3>2 DEF Inv, CopyInv, MainFits
  <2> SUFFICES ASSUME ~fault' PROVE CopyInv'
    BY <1>3, <2>m DEF CopyInv
  <2>1. Started(gpt, size) /\ size \in Sizes /\ gpt \in Object
    BY <1>1, <1>3, SavingFacts
  <2>2. /\ size \in Nat /\ TableSectors \in Nat \ {0} /\ Alignment \in Nat \ {0}
        /\ size >= 2 * (TableSectors + 2) + Alignment
        /\ gpt.tsz = TableSectors /\ lba = size - TableSectors - 1 /\ CanSeek(lba)
    BY <1>2, <2>1, RoomyFacts
  <2>3. \A i \in 1 .. size - TableSectors - 2 : disk'[i] = disk[i]
    <3>1. \A i \in 1 .. size - TableSectors - 2 :
            i \in 0 .. size - 1 /\ i \notin lba .. lba + gpt.tsz - 1
      BY <2>2
    <3> QED
      BY <1>3, <3>1
  <2>5. ~fault' => (mainWas' => Intact(1)')
    BY <1>1, <1>3, <2>3, MainKept DEF Inv, CopyInv
  <2>6. ~fault' => TableIs(size - TableSectors - 1, gpt.parts)'
    BY <1>3, <2>2 DEF TableIs
  <2>7. pc' = "backupHeader"
    BY <1>3, <2>2
  <2> QED
    BY <2>m, <2>5, <2>6, <2>7 DEF CopyInv
<1> QED
  BY <1>4, <1>5 DEF Inv

\* then its header, after which the backup is good,
LEMMA BackupHeaderKeeps ==
  ASSUME Inv, SaveBackupHeader PROVE Inv'
<1>1. pc = "backupHeader" /\ pc \in Saving \ {"saveOpen"}
  BY DEF SaveBackupHeader, At, Saving
<1>2. PICK lba \in Words : lba = gpt.main.backupLBA
  BY <1>1, SavingFacts
<1>s. PICK s : s = HeaderSector(gpt.second, gpt.secondCRC)
  OBVIOUS
<1>3. /\ disk' \in [0 .. size - 1 -> Sector]
      /\ \A i \in 0 .. size - 1 : disk'[i] = disk[i] \/ (i = lba /\ disk'[i] = s)
      /\ ~fault' /\ CanSeek(lba) => lba < size /\ disk'[lba] = s
      /\ fault' \in BOOLEAN /\ (fault => fault')
      /\ io' = io \/ io' = Closed(io.name)
      /\ pc' \in {"mainTable", "verify"} /\ (CanSeek(lba) => pc' = "mainTable")
      /\ UNCHANGED <<size, gpt, call, ret, saved, mainWas>>
  <2>1. PICK next : next = "mainTable"
    OBVIOUS
  <2>2. \/ /\ SaveBackupHeader /\ next = "mainTable" /\ lba = gpt.main.backupLBA
           /\ s = HeaderSector(gpt.second, gpt.secondCRC)
        \/ /\ SaveMainHeader /\ next = "saveMbr" /\ lba = 1
           /\ s = HeaderSector(gpt.main, gpt.mainCRC)
    BY <1>2, <1>s, <2>1
  <2> QED
    BY <2>1, <2>2, HeaderSaved DEF Inv
<1>4. TypeInv' /\ LoadInv' /\ PartInv' /\ CrcInv' /\ SavedPartitionSane'
  <2>1. /\ io' \in [name : BOOLEAN, mode : {"closed", "read", "write"}]
        /\ io'.name = io.name
    BY <1>3 DEF Inv, TypeInv, Closed
  <2> QED
    BY <1>1, <1>3, <2>1, SavingFacts, QuietSave DEF Built, Saving, Inv, TypeInv
<1>5. CopyInv'
  <2> SUFFICES ASSUME Roomy PROVE CopyInv'
    BY <1>3 DEF CopyInv, Roomy, RoomFor
  <2>m. MainFits'
    <3>1. lba >= 2 /\ lba \in Nat /\ gpt.tsz \in Nat /\ 1 \in 0 .. size - 1
      BY <1>1, <1>2, BackupBehind, WordFacts DEF Words
    <3>2. disk'[1] = disk[1]
      BY <1>3, <3>1
    <3> QED
      BY <1>3, <3>2 DEF Inv, CopyInv, MainFits
  <2> SUFFICES ASSUME ~fault' PROVE CopyInv'
    BY <1>3, <2>m DEF CopyInv
  <2>1. Started(gpt, size) /\ size \in Sizes /\ gpt \in Object
    BY <1>1, <1>3, SavingFacts
  <2>2. /\ size \in Nat /\ TableSectors \in Nat \ {0} /\ Alignment \in Nat \ {0}
        /\ size >= 2 * (TableSectors + 2) + Alignment
        /\ lba = size - 1 /\ CanSeek(lba)
    BY <1>2, <2>1, RoomyFacts
  <2>3. \A i \in 0 .. size - 2 : disk'[i] = disk[i]
    BY <1>3, <2>2
  <2>5. ~fault' => TableIs(size - TableSectors - 1, gpt.parts)'
    <3>1. \A i \in size - TableSectors - 1 .. size - TableSectors - 1 + TableSectors - 1 :
            disk'[i] = disk[i]
      BY <2>2, <2>3
    <3>2. ~fault' => TableIs(size - TableSectors - 1, gpt.parts)
      BY <1>1, <1>3 DEF Inv, CopyInv
    <3>3. PICK x \in Nat : x = size - TableSectors - 1
      BY <2>2
    <3>4. PICK tab : tab = gpt.parts
      OBVIOUS
    <3>5. ~fault' => TableIs(x, tab)'
      BY <2>2, <3>1, <3>2, <3>3, <3>4, TableKept
    <3> QED
      BY <1>3, <3>3, <3>4, <3>5 DEF TableIs
  <2>6. ~fault' => disk'[size - 1] = HeaderSector(gpt.second, gpt.second)
    BY <1>1, <1>s, <1>3, <2>2 DEF Inv, CrcInv, Built, Saving
  <2>7. pc' = "mainTable"
    BY <1>3, <2>2
  <2> QED
    BY <1>3, <2>m, <2>5, <2>6, <2>7 DEF CopyInv, HeaderSector
<1> QED
  BY <1>4, <1>5 DEF Inv

\* What is known of the drive while it is large enough and nothing failed.
LEMMA StageFacts ==
  ASSUME Inv, Roomy, ~fault
  PROVE  /\ pc \in {"backupHeader", "mainTable", "mainHeader", "saveMbr", "verify"} =>
              TableIs(size - TableSectors - 1, gpt.parts)
         /\ pc \in {"mainTable", "mainHeader", "saveMbr", "verify"} =>
              disk[size - 1] = HeaderSector(gpt.second, gpt.second)
         /\ pc \in {"mainHeader", "saveMbr", "verify"} => TableIs(2, gpt.parts)
         /\ pc \in {"saveMbr", "verify"} => disk[1] = HeaderSector(gpt.main, gpt.main)
         /\ pc = "verify" => saved
  BY DEF Inv, CopyInv

\* A table stays when the step leaves its sectors and the entries alone.
LEMMA StageKept ==
  ASSUME Inv, Roomy, NEW lba \in Nat, UNCHANGED <<gpt, size>>, NEW tab, tab = gpt.parts,
         \A i \in lba .. lba + TableSectors - 1 : disk'[i] = disk[i],
         TableIs(lba, tab)
  PROVE  TableIs(lba, gpt.parts)'
<1>1. TableSectors \in Nat
  BY SizeFacts DEF Inv, TypeInv
<1>2. TableIs(lba, tab)'
  BY <1>1, TableKept
<1> QED
  BY <1>2 DEF TableIs

\* then the main entries,
LEMMA MainTableKeeps ==
  ASSUME Inv, SaveMainTable PROVE Inv'
<1>1. pc = "mainTable" /\ pc \in Saving \ {"saveOpen"}
  BY DEF SaveMainTable, At, Saving
<1>2. PICK lba \in Words : lba = gpt.main.partitionEntriesLBA
  BY <1>1, SavingFacts
<1>3. /\ disk' \in [0 .. size - 1 -> Sector]
      /\ \A i \in 0 .. size - 1 :
           i \notin lba .. lba + gpt.tsz - 1 => disk'[i] = disk[i]
      /\ ~fault' /\ CanSeek(lba) =>
           /\ lba + gpt.tsz <= size
           /\ \A i \in 0 .. gpt.tsz - 1 : disk'[lba + i] = TableSector(gpt.parts, i)
      /\ fault' \in BOOLEAN /\ (fault => fault')
      /\ io' = io \/ io' = Closed(io.name)
      /\ pc' \in {"mainHeader", "verify"} /\ (CanSeek(lba) => pc' = "mainHeader")
      /\ UNCHANGED <<size, gpt, call, ret, saved, mainWas>>
  BY <1>2, TableSaved DEF Inv
<1>4. TypeInv' /\ LoadInv' /\ PartInv' /\ CrcInv' /\ SavedPartitionSane'
  <2>1. /\ io' \in [name : BOOLEAN, mode : {"closed", "read", "write"}]
        /\ io'.name = io.name
    BY <1>3 DEF Inv, TypeInv, Closed
  <2> QED
    BY <1>1, <1>3, <2>1, SavingFacts, QuietSave DEF Built, Saving, Inv, TypeInv
<1>5. CopyInv'
  <2> SUFFICES ASSUME Roomy PROVE CopyInv'
    BY <1>3 DEF CopyInv, Roomy, RoomFor
  <2>m. MainFits'
    <3>1. lba >= 2 /\ lba \in Nat /\ gpt.tsz \in Nat /\ 1 \in 0 .. size - 1
      BY <1>1, <1>2, BackupBehind, WordFacts DEF Words
    <3>2. disk'[1] = disk[1]
      BY <1>3, <3>1
    <3> QED
      BY <1>3, <3>2 DEF Inv, CopyInv, MainFits
  <2> SUFFICES ASSUME ~fault' PROVE CopyInv'
    BY <1>3, <2>m DEF CopyInv
  <2>1. Started(gpt, size) /\ size \in Sizes /\ gpt \in Object
    BY <1>1, <1>3, SavingFacts
  <2>2. /\ size \in Nat /\ TableSectors \in Nat \ {0} /\ Alignment \in Nat \ {0}
        /\ size >= 2 * (TableSectors + 2) + Alignment
        /\ gpt.tsz = TableSectors /\ lba = 2 /\ CanSeek(lba)
    <3>1. 2 \in 0 .. size
      BY <2>1, SizeFacts DEF Roomy, RoomFor
    <3> QED
      BY <1>2, <2>1, <3>1, RoomyFacts
  <2>3. /\ \A i \in TableSectors + 2 .. size - 1 : disk'[i] = disk[i]
        /\ disk'[1] = disk[1]
    <3>1. \A i \in TableSectors + 2 .. size - 1 :
            i \in 0 .. size - 1 /\ i \notin lba .. lba + gpt.tsz - 1
      BY <2>2
    <3>2. 1 \in 0 .. size - 1 /\ 1 \notin lba .. lba + gpt.tsz - 1
      BY <2>2
    <3> QED
      BY <1>3, <3>1, <3>2
  <2>5. ~fault' => TableIs(size - TableSectors - 1, gpt.parts)'
    <3>1. PICK x \in Nat : x = size - TableSectors - 1
      BY <2>2
    <3>2. \A i \in x .. x + TableSectors - 1 : disk'[i] = disk[i]
      BY <2>2, <2>3, <3>1
    <3>3. PICK tab : tab = gpt.parts
      OBVIOUS
    <3>4. ~fault' => TableIs(x, tab)
      BY <1>1, <1>3, <3>1, <3>3, StageFacts
    <3>5. ~fault' => TableIs(x, gpt.parts)'
      BY <1>3, <3>2, <3>3, <3>4, StageKept
    <3> QED
      BY <1>3, <3>1, <3>5 DEF TableIs
  <2>6. ~fault' => disk'[size - 1] = HeaderSector(gpt.second, gpt.second)
    <3>1. disk'[size - 1] = disk[size - 1]
      BY <2>2, <2>3
    <3> QED
      BY <1>1, <1>3, <3>1, StageFacts
  <2>7. ~fault' => TableIs(2, gpt.parts)'
    BY <1>3, <2>2 DEF TableIs
  <2>8. pc' = "mainHeader"
    BY <1>3, <2>2
  <2> QED
    BY <1>3, <2>m, <2>5, <2>6, <2>7, <2>8 DEF CopyInv, HeaderSector
<1> QED
  BY <1>4, <1>5 DEF Inv

\* and the main header last.
LEMMA MainHeaderKeeps ==
  ASSUME Inv, SaveMainHeader PROVE Inv'
<1>1. pc = "mainHeader" /\ pc \in Saving \ {"saveOpen"}
  BY DEF SaveMainHeader, At, Saving
<1>2. PICK lba \in Words : lba = 1
  BY <1>1, SavingFacts
<1>s. PICK s : s = HeaderSector(gpt.main, gpt.mainCRC)
  OBVIOUS
<1>3. /\ disk' \in [0 .. size - 1 -> Sector]
      /\ \A i \in 0 .. size - 1 : disk'[i] = disk[i] \/ (i = lba /\ disk'[i] = s)
      /\ ~fault' /\ CanSeek(lba) => lba < size /\ disk'[lba] = s
      /\ fault' \in BOOLEAN /\ (fault => fault')
      /\ io' = io \/ io' = Closed(io.name)
      /\ pc' \in {"saveMbr", "verify"} /\ (CanSeek(lba) => pc' = "saveMbr")
      /\ UNCHANGED <<size, gpt, call, ret, saved, mainWas>>
  <2>1. PICK next : next = "saveMbr"
    OBVIOUS
  <2>2. \/ /\ SaveBackupHeader /\ next = "mainTable" /\ lba = gpt.main.backupLBA
           /\ s = HeaderSector(gpt.second, gpt.secondCRC)
        \/ /\ SaveMainHeader /\ next = "saveMbr" /\ lba = 1
           /\ s = HeaderSector(gpt.main, gpt.mainCRC)
    BY <1>2, <1>s, <2>1
  <2> QED
    BY <2>1, <2>2, HeaderSaved DEF Inv
<1>4. TypeInv' /\ LoadInv' /\ PartInv' /\ CrcInv' /\ SavedPartitionSane'
  <2>1. /\ io' \in [name : BOOLEAN, mode : {"closed", "read", "write"}]
        /\ io'.name = io.name
    BY <1>3 DEF Inv, TypeInv, Closed
  <2> QED
    BY <1>1, <1>3, <2>1, SavingFacts, QuietSave DEF Built, Saving, Inv, TypeInv
<1>5. CopyInv'
  <2> SUFFICES ASSUME Roomy PROVE CopyInv'
    BY <1>3 DEF CopyInv, Roomy, RoomFor
  <2>m. MainFits'
    <3>1. /\ 1 \in 0 .. size - 1 /\ gpt.main.partitionEntriesLBA = 2
          /\ gpt.main.tableSize = TableSectors /\ 2 * TableSectors + 4 <= size
      BY <1>1, BackupBehind
    <3>2. disk'[1] = disk[1] \/ disk'[1] = s
      BY <1>3, <3>1
    <3>3. s.header = gpt.main
      BY <1>s DEF HeaderSector
    <3> QED
      BY <1>3, <3>1, <3>2, <3>3 DEF Inv, CopyInv, MainFits
  <2> SUFFICES ASSUME ~fault' PROVE CopyInv'
    BY <1>3, <2>m DEF CopyInv
  <2>1. Started(gpt, size) /\ size \in Sizes /\ gpt \in Object
    BY <1>1, <1>3, SavingFacts
  <2>2. /\ size \in Nat /\ TableSectors \in Nat \ {0} /\ Alignment \in Nat \ {0}
        /\ size >= 2 * (TableSectors + 2) + Alignment
        /\ gpt.main.partitionEntriesLBA = 2 /\ gpt.main.tableSize = TableSectors
        /\ CanSeek(lba)
    <3>1. 1 \in 0 .. size
      BY <2>1, SizeFacts DEF Roomy, RoomFor
    <3> QED
      BY <1>2, <2>1, <3>1, RoomyFacts
  <2>3. \A i \in 2 .. size - 1 : disk'[i] = disk[i]
    BY <1>2, <1>3, <2>2
  <2>4. gpt.mainCRC = gpt.main
    BY <1>1 DEF Inv, CrcInv, Built, Saving
  <2>6. ASSUME NEW x \in Nat, x \in {2, size - TableSectors - 1}, ~fault'
        PROVE  TableIs(x, gpt.parts)'
    <3>1. \A i \in x .. x + TableSectors - 1 : disk'[i] = disk[i]
      BY <2>2, <2>3, <2>6
    <3>2. PICK tab : tab = gpt.parts
      OBVIOUS
    <3>3. TableIs(x, tab)
      BY <1>1, <1>3, <2>6, <3>2, StageFacts
    <3> QED
      BY <1>3, <3>1, <3>2, <3>3, StageKept
  <2>7. ~fault' => TableIs(size - TableSectors - 1, gpt.parts)' /\ TableIs(2, gpt.parts)'
    <3>1. PICK x \in Nat : x = size - TableSectors - 1
      BY <2>2
    <3>2. ~fault' => TableIs(x, gpt.parts)'
      BY <2>6, <3>1
    <3>3. ~fault' => TableIs(2, gpt.parts)'
      BY <2>6
    <3> QED
      BY <1>3, <3>1, <3>2, <3>3 DEF TableIs
  <2>8. ~fault' => /\ disk'[size - 1] = HeaderSector(gpt.second, gpt.second)
                   /\ disk'[1] = HeaderSector(gpt.main, gpt.main)
    <3>1. disk'[size - 1] = disk[size - 1]
      BY <2>2, <2>3
    <3> QED
      BY <1>1, <1>2, <1>s, <1>3, <2>2, <2>4, <3>1, StageFacts
  <2>9. pc' = "saveMbr"
    BY <1>3, <2>2
  <2> QED
    BY <1>3, <2>m, <2>7, <2>8, <2>9 DEF CopyInv, HeaderSector
<1> QED
  BY <1>4, <1>5 DEF Inv

\* The MBR ends it, and what it says is what SaveGPTData returns.
LEMMA SaveMBRKeeps ==
  ASSUME Inv, SaveMBR PROVE Inv'
<1>1. pc = "saveMbr" /\ pc \in Saving \ {"saveOpen"}
  BY DEF SaveMBR, At, Saving
<1>2. PICK ok \in BOOLEAN :
        /\ WriteMBR(ok) /\ saved' = (CanWrite(ok) /\ Reaches(0, 1, ok))
  BY DEF SaveMBR
<1>3. /\ disk' \in [0 .. size - 1 -> Sector]
      /\ \A i \in 1 .. size - 1 : disk'[i] = disk[i]
      /\ io' = Closed(io.name)
      /\ fault' = (fault \/ ~(CanWrite(ok) /\ Reaches(0, 1, ok)))
  BY <1>2, WriteMBRFacts DEF Inv
<1>4. /\ fault' \in BOOLEAN /\ (fault => fault') /\ saved' \in BOOLEAN
      /\ ~fault' => saved'
      /\ pc' = "verify" /\ UNCHANGED <<size, gpt, call, ret, mainWas>>
  BY <1>2, <1>3 DEF SaveMBR, Goto, Inv, TypeInv
<1>5. TypeInv' /\ LoadInv' /\ PartInv' /\ CrcInv' /\ SavedPartitionSane'
  <2>1. /\ io' \in [name : BOOLEAN, mode : {"closed", "read", "write"}]
        /\ io'.name = io.name
    BY <1>3 DEF Inv, TypeInv, Closed
  <2> QED
    BY <1>1, <1>3, <1>4, <2>1, SavingFacts, QuietSave DEF Built, Saving, Inv, TypeInv
<1>6. CopyInv'
  <2> SUFFICES ASSUME Roomy PROVE CopyInv'
    BY <1>4 DEF CopyInv, Roomy, RoomFor
  <2>1. /\ size \in Nat /\ TableSectors \in Nat \ {0} /\ Alignment \in Nat \ {0}
        /\ size >= 2 * (TableSectors + 2) + Alignment
    BY <1>1, SavingFacts, SizeFacts DEF Roomy, RoomFor
  <2>2. disk'[1] = disk[1] /\ disk'[size - 1] = disk[size - 1]
    BY <1>3, <2>1
  <2>3. MainFits'
    BY <1>4, <2>2 DEF Inv, CopyInv, MainFits
  <2>4. ASSUME NEW x \in Nat, x \in {2, size - TableSectors - 1}, ~fault'
        PROVE  TableIs(x, gpt.parts)'
    <3>1. \A i \in x .. x + TableSectors - 1 : disk'[i] = disk[i]
      BY <1>3, <2>1, <2>4
    <3>2. PICK tab : tab = gpt.parts
      OBVIOUS
    <3>3. TableIs(x, tab)
      BY <1>1, <1>4, <2>4, <3>2, StageFacts
    <3> QED
      BY <1>4, <3>1, <3>2, <3>3, StageKept
  <2>5. ~fault' => TableIs(size - TableSectors - 1, gpt.parts)' /\ TableIs(2, gpt.parts)'
    <3>1. PICK x \in Nat : x = size - TableSectors - 1
      BY <2>1
    <3>2. ~fault' => TableIs(x, gpt.parts)'
      BY <2>4, <3>1
    <3>3. ~fault' => TableIs(2, gpt.parts)'
      BY <2>4
    <3> QED
      BY <1>4, <3>1, <3>2, <3>3 DEF TableIs
  <2>6. ~fault' => /\ disk'[size - 1] = HeaderSector(gpt.second, gpt.second)
                   /\ disk'[1] = HeaderSector(gpt.main, gpt.main)
    BY <1>1, <1>4, <2>2, StageFacts
  <2> QED
    BY <1>4, <2>3, <2>5, <2>6 DEF CopyInv, HeaderSector
<1> QED
  BY <1>5, <1>6 DEF Inv

\* Verify finds no problem with the table of a drive with room for it.
LEMMA RoomyVerifies ==
  ASSUME Inv, pc = "verify", Roomy, ~fault
  PROVE  ~Verify(gpt)
<1>1. /\ gpt \in Object /\ size \in Sizes /\ pc \in Built /\ pc \in Loaded /\ ~Failed
      /\ Started(gpt, size) /\ gpt.mbr = Protective(gpt) /\ gpt.mbrSize = size
  BY DEF Inv, TypeInv, LoadInv, Loaded, Built, Failed, Ready, Sized
<1>2. /\ size \in Nat /\ TableSectors \in Nat \ {0} /\ Alignment \in Nat \ {0}
      /\ size >= 2 * (TableSectors + 2) + Alignment
      /\ gpt.diskSize = size /\ gpt.tsz = TableSectors
      /\ gpt.main.currentLBA = 1 /\ gpt.main.backupLBA = size - 1
      /\ gpt.main.firstUsableLBA = TableSectors + 2
      /\ gpt.main.lastUsableLBA = size - TableSectors - 2
      /\ gpt.main.partitionEntriesLBA = 2 /\ gpt.main.tableSize = TableSectors
      /\ gpt.second.currentLBA = size - 1 /\ gpt.second.backupLBA = 1
      /\ gpt.second.firstUsableLBA = TableSectors + 2
      /\ gpt.second.lastUsableLBA = size - TableSectors - 2
      /\ gpt.second.partitionEntriesLBA = size - TableSectors - 1
      /\ gpt.second.tableSize = TableSectors
      /\ \A x \in 0 .. size : U64(x) = x
  BY <1>1, RoomyFacts
<1>3. /\ U64(size - 1) = size - 1 /\ U64(2 + TableSectors) = 2 + TableSectors
      /\ U64((size - TableSectors - 1) + TableSectors) = size - 1
  <2>1. /\ size - 1 \in 0 .. size /\ 2 + TableSectors \in 0 .. size
        /\ (size - TableSectors - 1) + TableSectors = size - 1
    BY <1>2
  <2> QED
    BY <1>2, <2>1
<1>4. /\ gpt.mainCrcOk /\ gpt.mainPartsCrcOk /\ gpt.secondCrcOk /\ gpt.secondPartsCrcOk
  BY <1>1 DEF Started
<1>5. ~gpt.mbr.others /\ DoTheyFit(gpt)
  <2>1. gpt.mbr = [state |-> "gpt", lastLBA |-> U64(gpt.mbrSize - 1), others |-> FALSE]
    BY <1>1 DEF Protective, MakeProtectiveMBR, Object
  <2> QED
    BY <1>1, <1>2, <1>3, <2>1 DEF DoTheyFit
<1>6. ~CheckGPTSize(gpt) /\ ~FindInsanePartitions(gpt)
  <2>1. ASSUME NEW i \in PartNums, IsUsed(gpt.parts[i])
        PROVE  /\ gpt.main.firstUsableLBA <= gpt.parts[i].firstLBA
               /\ gpt.parts[i].lastLBA <= gpt.main.lastUsableLBA
               /\ gpt.parts[i].firstLBA <= gpt.parts[i].lastLBA
               /\ gpt.parts[i].lastLBA < gpt.diskSize
    BY <1>1, <1>2, <2>1, RoomyPart
  <2>2. /\ gpt.main.firstUsableLBA \in Int /\ gpt.main.lastUsableLBA \in Int
        /\ gpt.diskSize \in Int
        /\ \A i \in PartNums : gpt.parts[i].firstLBA \in Int /\ gpt.parts[i].lastLBA \in Int
    BY <1>1 DEF Object, Header, Words, Tables, Part
  <2> QED
    BY <2>1, <2>2 DEF CheckGPTSize, FindInsanePartitions
<1>7. ~FindOverlaps(gpt)
  BY <1>1, NoOverlaps
<1> QED
  BY <1>2, <1>3, <1>4, <1>5, <1>6, <1>7 DEF Verify

\* On a drive of no size it always finds one.
LEMMA NoSizeFails ==
  ASSUME TypeInv, gpt.diskSize = 0 PROVE Verify(gpt)
<1>1. gpt.main.backupLBA \in Nat
  BY WordFacts DEF TypeInv, Object, Header, Words
<1> QED
  BY <1>1 DEF Verify

\* What SaveGPTData returned is not looked at: Verify looks at the object.
LEMMA VerifyKeeps ==
  ASSUME Inv, VerifyTable PROVE Inv'
<1>1. /\ pc = "verify" /\ pc' = "returned" /\ ret' = ~Verify(gpt)
      /\ UNCHANGED <<size, disk, io, gpt, call, saved, fault, mainWas>>
  BY DEF VerifyTable, At, Goto
<1>2. ret' \in BOOLEAN
  BY <1>1
<1>3. TypeInv' /\ LoadInv' /\ PartInv' /\ CrcInv' /\ SavedPartitionSane'
  BY <1>1, <1>2, QuietSave DEF Built, Saving, Inv, TypeInv
<1>4. CopyInv'
  <2> SUFFICES ASSUME Roomy PROVE CopyInv'
    BY <1>1 DEF CopyInv, Roomy, RoomFor
  <2>1. MainFits'
    BY <1>1 DEF Inv, CopyInv, MainFits
  <2>2. ~fault => ret'
    BY <1>1, RoomyVerifies
  <2>3. ~fault => /\ TableIs(size - TableSectors - 1, gpt.parts)'
                  /\ TableIs(2, gpt.parts)'
    BY <1>1, StageFacts DEF TableIs
  <2> QED
    BY <1>1, <2>1, <2>2, <2>3, StageFacts DEF CopyInv, HeaderSector
<1> QED
  BY <1>3, <1>4 DEF Inv

-----------------------------------------------------------------------------
(* The theorems                                                            *)

\* Every step keeps the invariant.
LEMMA StepKeeps ==
  ASSUME Inv, [Next]_vars PROVE Inv'
<1>1. CASE UNCHANGED vars
  <2>1. /\ UNCHANGED <<size, disk, io, gpt, pc, call, ret, saved, fault, mainWas>>
    BY <1>1 DEF vars
  <2>2. TypeInv'
    BY <2>1 DEF Inv, TypeInv
  <2>3. LoadInv' /\ PartInv' /\ CrcInv' /\ SavedPartitionSane'
    BY <2>1 DEF Inv, LoadInv, PartInv, CrcInv, SavedPartitionSane, Failed, Ready, Sized,
       Protective, MakeProtectiveMBR
  <2>4. CopyInv'
    <3>1. Intact(1)' = Intact(1) /\ Roomy' = Roomy /\ MainFits' = MainFits
      BY <2>1 DEF Intact, HeaderAt, TableAt, Roomy, MainFits
    <3>2. /\ TableIs(size - TableSectors - 1, gpt.parts)' =
               TableIs(size - TableSectors - 1, gpt.parts)
          /\ TableIs(2, gpt.parts)' = TableIs(2, gpt.parts)
      BY <2>1 DEF TableIs
    <3> QED
      BY <2>1, <3>1, <3>2 DEF Inv, CopyInv, HeaderSector
  <2> QED
    BY <2>2, <2>3, <2>4 DEF Inv
<1>2. CASE ReadMBR \/ LoadMainHeader \/ LoadSecondHeader \/ LoadMainTable
           \/ LoadSecondTableAsMain \/ CheckOtherTable \/ LoadBackupTable
  BY <1>2, LoadSteps, LoadsKeeps
<1>3. CASE Begin \/ Return \/ LoadOpen \/ LoadTest \/ LoadReopen \/ LoadSize
           \/ StartOver
  BY <1>3, BeginKeeps, OpenKeeps, StartOverKeeps
<1>4. CASE WriteProtectiveMBR \/ ClearTable \/ ClearDisk \/ SaveChecks \/ SaveOpen
  BY <1>4, ProtectiveKeeps, BuildKeeps, SaveChecksKeeps, SaveOpenKeeps
<1>5. CASE \/ SaveBackupTable \/ SaveBackupHeader \/ SaveMainTable \/ SaveMainHeader
           \/ SaveMBR \/ VerifyTable
  BY <1>5, BackupTableKeeps, BackupHeaderKeeps, MainTableKeeps, MainHeaderKeeps,
     SaveMBRKeeps, VerifyKeeps
<1> QED
  BY <1>1, <1>2, <1>3, <1>4, <1>5 DEF Next

\* The invariant holds throughout: what the object is at every step of the two
\* calls, and how much of it is on the drive.
THEOREM TableInvariant == Spec => []Inv
<1>1. Init => Inv
  BY InitInv
<1>2. Inv /\ [Next]_vars => Inv'
  BY StepKeeps
<1> QED
  BY <1>1, <1>2, PTL DEF Spec

\* Whatever was on the drive, of whatever size its table was, and whatever could
\* not be read, the object LoadPartitions leaves to both calls is the one for an
\* empty drive of the size DiskSize gave; that is the drive's if nothing failed.
THEOREM LeavesNoTrace == Spec => []StartedOver
<1>1. Inv => StartedOver
  <2> SUFFICES ASSUME Inv, pc \in {"mbr", "clearDisk"}, gpt.diskSize # 0
               PROVE  LET n == gpt.diskSize
                      IN /\ gpt.main = Fields(1, n - 1, TableSectors + 2,
                                              U64(n - TableSectors - 2), 2,
                                              TableSectors, gpt.main.entriesCRC)
                         /\ gpt.second.partitionEntriesLBA = U64(n - TableSectors - 1)
                         /\ gpt.tsz = TableSectors /\ gpt.align = Alignment
                         /\ gpt.parts = BlankPartitions
                         /\ ~fault => n = size
    BY DEF StartedOver
  <2>1. /\ Ready /\ gpt.align = Alignment /\ gpt.parts = BlankPartitions
        /\ size \in Sizes
    BY DEF Inv, TypeInv, LoadInv, Loaded, Failed
  <2>2. PICK n \in Sizes \cup MadeUp : n = gpt.diskSize /\ Started(gpt, n)
    BY <2>1 DEF Ready, Sized
  <2>3. U64(n - 1) = n - 1
    <3>1. n - 1 \in Words
      BY <2>2, SizeFacts, WordFacts DEF Words
    <3> QED
      BY <3>1, WordFacts
  <2> QED
    BY <2>1, <2>2, <2>3 DEF Started, Fields, Ready, Sized
<1> QED
  BY <1>1, TableInvariant, PTL

\* A partition that is saved lies between the two tables, where the size that
\* DiskSize gave puts them; when there is room for it, it begins at a multiple of
\* the alignment and leaves less than that unused.
THEOREM SavedSane == Spec => []SavedPartitionSane
<1>1. Inv => SavedPartitionSane
  BY DEF Inv
<1> QED
  BY <1>1, TableInvariant, PTL

\* A table that is on the drive is read back as it was written.
LEMMA TableRead ==
  ASSUME size \in Nat, TableSectors \in Nat \ {0}, NEW lba \in Nat, NEW tab,
         lba + TableSectors <= size, TableIs(lba, tab)
  PROVE  TableAt(lba, TableSectors) = tab
<1>1. \A i \in 0 .. TableSectors - 1 : disk[lba + i] = TableSector(tab, i)
  BY DEF TableIs
<1>2. \A i \in Nat : TableSector(tab, i).kind = "table" /\ TableSector(tab, i).tab = tab
  BY DEF TableSector
<1>3. disk[lba].tab = tab
  <2>1. 0 \in 0 .. TableSectors - 1 /\ lba + 0 = lba
    OBVIOUS
  <2>2. disk[lba] = TableSector(tab, 0)
    BY <1>1, <2>1
  <2> QED
    BY <1>2, <2>2
<1>4. \A i \in 0 .. TableSectors - 1 :
        /\ disk[lba + i].kind = "table"
        /\ disk[lba + i] = TableSector(disk[lba].tab, i)
  BY <1>1, <1>2, <1>3
<1>5. ~(lba + TableSectors > size)
  OBVIOUS
<1> QED
  BY <1>3, <1>4, <1>5 DEF TableAt

\* When both are written, a copy is intact, and is of the table that was built.
LEMMA CopyHolds ==
  ASSUME Inv, Roomy, Started(gpt, size), pc \in Built \ {"save"}
  PROVE  /\ TableIs(2, gpt.parts) /\ disk[1] = HeaderSector(gpt.main, gpt.main) =>
              Holds(1) /\ disk[1].header.backupLBA = size - 1
         /\ /\ TableIs(size - TableSectors - 1, gpt.parts)
            /\ disk[size - 1] = HeaderSector(gpt.second, gpt.second)
            => Holds(size - 1) /\ disk[size - 1].header.backupLBA = 1
<1>1. /\ size \in Nat /\ TableSectors \in Nat \ {0} /\ Alignment \in Nat \ {0}
      /\ size >= 2 * (TableSectors + 2) + Alignment
      /\ gpt.main.currentLBA = 1 /\ gpt.main.backupLBA = size - 1
      /\ gpt.main.partitionEntriesLBA = 2 /\ gpt.main.tableSize = TableSectors
      /\ gpt.second.currentLBA = size - 1 /\ gpt.second.backupLBA = 1
      /\ gpt.second.partitionEntriesLBA = size - TableSectors - 1
      /\ gpt.second.tableSize = TableSectors
  BY RoomyFacts DEF Inv, TypeInv
<1>2. gpt.main.entriesCRC = gpt.parts /\ gpt.second.entriesCRC = gpt.parts
  BY DEF Inv, CrcInv
<1>3. \A h : /\ HeaderSector(h, h).kind = "header" /\ HeaderSector(h, h).header = h
             /\ HeaderSector(h, h).crc = h
  BY DEF HeaderSector
<1>4. ASSUME TableIs(2, gpt.parts), disk[1] = HeaderSector(gpt.main, gpt.main)
      PROVE  Holds(1) /\ disk[1].header.backupLBA = size - 1
  <2>1. TableAt(2, TableSectors) = gpt.parts
    <3>1. 2 + TableSectors <= size
      BY <1>1
    <3> QED
      BY <1>1, <1>4, <3>1, TableRead
  <2>2. 1 < size
    BY <1>1
  <2> QED
    BY <1>1, <1>2, <1>3, <1>4, <2>1, <2>2 DEF Holds, Intact, HeaderAt
<1>5. ASSUME TableIs(size - TableSectors - 1, gpt.parts),
             disk[size - 1] = HeaderSector(gpt.second, gpt.second)
      PROVE  Holds(size - 1) /\ disk[size - 1].header.backupLBA = 1
  <2>1. TableAt(size - TableSectors - 1, TableSectors) = gpt.parts
    <3>1. /\ (size - TableSectors - 1) + TableSectors <= size
          /\ size - TableSectors - 1 \in Nat
      BY <1>1
    <3> QED
      BY <1>1, <1>5, <3>1, TableRead
  <2>2. size - 1 < size
    BY <1>1
  <2> QED
    BY <1>1, <1>2, <1>3, <1>5, <2>1, <2>2 DEF Holds, Intact, HeaderAt
<1> QED
  BY <1>4, <1>5

\* A save that begins with a good main copy has a good copy on the drive
\* wherever it is cut short: the backup is whole before the main copy is touched.
THEOREM NeverWithoutACopy == Spec => []OneCopyIntact
<1>1. Inv => OneCopyIntact
  <2> SUFFICES ASSUME Inv, pc \in Saving, mainWas, ~fault, Roomy
               PROVE  Intact(1) \/ Intact(size - 1)
    BY DEF OneCopyIntact
  <2>1. CASE pc \in {"saveOpen", "backupTable", "backupHeader"}
    BY <2>1 DEF Inv, CopyInv
  <2>2. CASE pc \in {"mainTable", "mainHeader", "saveMbr"}
    <3>1. Started(gpt, size) /\ pc \in Built \ {"save"}
      BY <2>2, SavingFacts DEF Saving
    <3>2. /\ TableIs(size - TableSectors - 1, gpt.parts)
          /\ disk[size - 1] = HeaderSector(gpt.second, gpt.second)
      BY <2>2, StageFacts
    <3> QED
      BY <3>1, <3>2, CopyHolds DEF Holds
  <2> QED
    BY <2>1, <2>2 DEF Saving
<1> QED
  BY <1>1, TableInvariant, PTL

\* When no call to the drive failed and there is room, the calls say yes, and
\* both copies are on the drive and name each other.
THEOREM VerdictIsExact == Spec => []VerdictExact
<1>1. Inv => VerdictExact
  <2> SUFFICES ASSUME Inv, pc = "returned", ~fault, Roomy
               PROVE  /\ ret /\ saved /\ Holds(1) /\ Holds(size - 1)
                      /\ disk[1].header.backupLBA = size - 1
                      /\ disk[size - 1].header.backupLBA = 1
    BY DEF VerdictExact, At
  <2>1. Started(gpt, size) /\ pc \in Built \ {"save"}
    BY DEF Inv, LoadInv, Loaded, Built, Failed, Ready, Sized
  <2>2. /\ TableIs(size - TableSectors - 1, gpt.parts) /\ TableIs(2, gpt.parts)
        /\ disk[size - 1] = HeaderSector(gpt.second, gpt.second)
        /\ disk[1] = HeaderSector(gpt.main, gpt.main)
        /\ saved /\ ret
    BY DEF Inv, CopyInv
  <2> QED
    BY <2>1, <2>2, CopyHolds
<1> QED
  BY <1>1, TableInvariant, PTL

\* A step that writes has the name of the drive.
LEMMA WriteNeedsName ==
  ASSUME Inv, Next, gpt.diskSize = 0 PROVE disk' = disk
<1>2. CASE WriteProtectiveMBR \/ SaveMBR
  <2>1. pc \in Loaded /\ (\E ok \in BOOLEAN : WriteMBR(ok))
    BY <1>2 DEF WriteProtectiveMBR, SaveMBR, At, Loaded, Built, Saving
  <2>2. PICK ok \in BOOLEAN : WriteMBR(ok)
    BY <2>1
  <2>3. ~io.name
    BY <2>1 DEF Inv, LoadInv, Ready, Sized, Failed
  <2> QED
    BY <2>2, <2>3 DEF WriteMBR, CanWrite
<1>3. CASE SaveBackupTable \/ SaveBackupHeader \/ SaveMainTable \/ SaveMainHeader
  <2>1. pc \in Saving \ {"saveOpen"}
    BY <1>3 DEF SaveBackupTable, SaveBackupHeader, SaveMainTable, SaveMainHeader,
       At, Saving
  <2> QED
    BY <2>1, SavingFacts DEF Ready, Sized
<1>4. CASE /\ ~(WriteProtectiveMBR \/ SaveMBR)
           /\ ~(SaveBackupTable \/ SaveBackupHeader \/ SaveMainTable \/ SaveMainHeader)
  BY <1>4 DEF Next, Begin, LoadOpen, LoadTest, LoadReopen, LoadSize, ReadMBR, LoadMainHeader,
     LoadSecondHeader, LoadMainTable, LoadSecondTableAsMain, LoadTable,
     CheckOtherTable, LoadBackupTable, StartOver, ClearTable,
     ClearDisk, SaveChecks, SaveOpen, VerifyTable, Return
<1> QED
  BY <1>2, <1>3, <1>4

\* Only Verify ends a call.
LEMMA OnlyVerifyReturns ==
  ASSUME Inv, Next, pc' = "returned" PROVE VerifyTable
<1> USE DEF At, Goto
<1>1. /\ ~Begin /\ ~LoadOpen /\ ~LoadTest /\ ~LoadReopen /\ ~LoadSize /\ ~StartOver
      /\ ~WriteProtectiveMBR /\ ~ClearTable /\ ~ClearDisk /\ ~SaveChecks
      /\ ~SaveOpen /\ ~SaveMBR /\ ~Return
  BY DEF Begin, Construct, LoadOpen, LoadTest, LoadReopen, LoadSize, StartOver, AfterLoad,
     WriteProtectiveMBR, ClearTable, ClearDisk, SaveChecks, SaveOpen, SaveMBR, Return
<1>2. /\ ~SaveBackupTable /\ ~SaveBackupHeader /\ ~SaveMainTable /\ ~SaveMainHeader
  BY DEF SaveBackupTable, SaveBackupHeader, SaveMainTable, SaveMainHeader, SaveAt
<1>3. ~Loads
  BY DEF Loads, Loading
<1> QED
  BY <1>1, <1>2, <1>3, LoadSteps DEF Next

\* A call that could not open the drive for loading writes nothing, whatever it
\* tries, and in the end says no.
THEOREM FailedLoadIsHarmless == Spec => FailedLoadHarmless
<1>1. Inv /\ [Next]_vars =>
        [gpt.diskSize = 0 => UNCHANGED disk /\ (pc' = "returned" => ~ret')]_vars
  <2> SUFFICES ASSUME Inv, Next, gpt.diskSize = 0
               PROVE  disk' = disk /\ (pc' = "returned" => ~ret')
    OBVIOUS
  <2>1. disk' = disk
    BY WriteNeedsName
  <2>2. ASSUME pc' = "returned" PROVE ~ret'
    <3>1. ret' = ~Verify(gpt)
      BY <2>2, OnlyVerifyReturns DEF VerifyTable
    <3> QED
      BY <3>1, NoSizeFails DEF Inv
  <2> QED
    BY <2>1, <2>2
<1> QED
  BY <1>1, TableInvariant, PTL DEF Spec, FailedLoadHarmless
=============================================================================
