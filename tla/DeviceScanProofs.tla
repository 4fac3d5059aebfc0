-------------------------- MODULE DeviceScanProofs --------------------------
(***************************************************************************)
(* Proofs about DeviceScan for any number of disks of any kinds, any       *)
(* scores and sizes, and however often disks are moved during a scan.      *)
(***************************************************************************)
EXTENDS DeviceScan, TLAPS

-----------------------------------------------------------------------------
(* The inductive invariant                                                 *)

\* In the loop over the interfaces.
Checking == pc \in {"media", "size", "label", "score"}
Looping == Checking \/ pc \in {"open", "list", "listUnlabelled"}

\* Only ids of USB storage drivers are in the id list.
IdInv ==
  /\ ids # NoSet => \A d \in ids : dev[d].driver # "none"
  /\ pc = "match" => ids # NoSet

\* What the flags say of a disk that is built in: nothing that would let it
\* pass the filters.
FlagInv ==
  pc \in {"identify", "match", "filter"} /\ BuiltIn(dev[i]) =>
    /\ ~props.usb /\ ~props.card /\ ~props.uasp /\ props.vid = 0
    /\ pc # "identify" => ~props.vhd

\* Nothing built in gets as far as the interfaces, or into the list.
FilterInv ==
  /\ Looping => ~BuiltIn(dev[i])
  /\ NoBuiltInDisk

\* Where a disk is open, and that its number is then its own.
HandleInv ==
  /\ hDrive # None => at[hDrive] # None
  /\ ~Checking /\ pc \notin {"open", "listUnlabelled"} => hDrive = None
  /\ Checking => hDrive = drive /\ at[drive].disk = i
  /\ Looping /\ pc # "open" => drive \in Numbers

\* The disk looked at, and how far its interfaces have been tried.
IndexInv ==
  /\ pc \in {"classify", "identify", "match", "filter"} \/ Looping =>
       i \in Disks
  /\ Looping => j <= dev[i].interfaces

IInv == TypeOK /\ IdInv /\ FlagInv /\ FilterInv /\ HandleInv /\ IndexInv

\* The facts about the constants that the steps below use.
LEMMA DevTyped == ASSUME dev \in Fleets
                  PROVE  dev \in [Disks -> Kinds]
  BY ScanAssumption

LEMMA KindTyped == ASSUME NEW k \in Kinds
                   PROVE  /\ k.name \in Int /\ k.size \in Nat
                          /\ k.interfaces \in Nat
                          /\ k.policy \in BOOLEAN /\ k.vid \in Vids
  BY DEF Kinds

LEMMA Constants ==
  /\ N \in Nat /\ MaxMoves \in Nat
  /\ None \notin Numbers /\ None \notin Disks
  /\ None \notin [disk : Disks, live : BOOLEAN]
  /\ 0 \notin Vids /\ VidScore \in [Vids -> Int]
  BY ScanAssumption

\* The flags an enumerator sets are flags.
LEMMA EnumeratorTyped == \A e : ByEnumerator(e) \in Props
<1> TAKE e
<1>1. /\ (e = "USBSTOR") \in BOOLEAN /\ (e \in {"SCSI", "CARD"}) \in BOOLEAN
      /\ (e = "CARD") \in BOOLEAN
  OBVIOUS
<1> QED
  BY <1>1 DEF Props, ByEnumerator

\* The enumerator of a built-in disk sets neither of the flags that matter.
LEMMA BuiltInFlags ==
  ASSUME NEW k, BuiltIn(k)
  PROVE  LET p == ByEnumerator(k.enumerator)
         IN  ~p.usb /\ ~p.card /\ ~p.uasp /\ p.vid = 0
<1>1. k.enumerator # "USBSTOR" /\ k.enumerator # "CARD"
  BY DEF BuiltIn
<1> QED
  BY <1>1, Zenon DEF ByEnumerator

\* The first state: nothing is open, nothing is listed.
LEMMA InitInv == Init => IInv
<1> SUFFICES ASSUME Init PROVE IInv
  OBVIOUS
<1>1. TypeOK
  <2>1. at \in [Numbers -> [disk : Disks, live : BOOLEAN] \cup {None}]
    BY DEF Init
  <2>2. props \in Props
    BY DEF Init, NoProps, Props
  <2>3. list \in Seq(Entries)
    BY DEF Init
  <2>4. /\ moves \in 0..MaxMoves /\ i \in 0..N /\ j \in Nat /\ j = 0
        /\ name \in Int
    BY Constants DEF Init
  <2>5. /\ dev \in Fleets /\ pc = "hubs"
        /\ complete \in BOOLEAN /\ sized \in BOOLEAN
        /\ hubs \in (SUBSET Disks) \cup {NoSet}
        /\ ids \in (SUBSET Disks) \cup {NoSet}
        /\ hDrive \in Numbers \cup {None} /\ drive \in Numbers \cup {None}
    BY DEF Init
  <2> QED
    BY <2>1, <2>2, <2>3, <2>4, <2>5 DEF TypeOK
<1>2. IdInv /\ FlagInv /\ HandleInv /\ IndexInv
  BY DEF Init, IdInv, FlagInv, HandleInv, IndexInv, Looping, Checking
<1>3. FilterInv
  BY DEF Init, FilterInv, NoBuiltInDisk, Listed, Looping, Checking
<1> QED
  BY <1>1, <1>2, <1>3 DEF IInv

\* A disk that is moved: only at changes, and never where the scan has a disk
\* open.
LEMMA MoveInv == ASSUME IInv, Unplug \/ Plug
                 PROVE  IInv'
<1> USE DEF IInv
<1>1. /\ UNCHANGED <<dev, pc, hubs, ids, i, props, name, j, hDrive, drive,
                   list, complete, sized>>
      /\ moves' \in 0..MaxMoves
  <2>1. UNCHANGED <<dev, pc, hubs, ids, i, props, name, j, hDrive, drive, list,
                    complete, sized>>
    BY DEF Unplug, Plug, found, loop, checked
  <2>2. moves < MaxMoves /\ moves' = moves + 1
    BY DEF Unplug, Plug
  <2>3. moves' \in 0..MaxMoves
    BY <2>2, Constants DEF TypeOK
  <2> QED
    BY <2>1, <2>3
<1>2. /\ at' \in [Numbers -> [disk : Disks, live : BOOLEAN] \cup {None}]
      /\ hDrive # None =>
           at'[hDrive] # None /\ at'[hDrive].disk = at[hDrive].disk
  <2>1. CASE Unplug
    <3>1. PICK n \in Numbers :
            /\ at[n] # None /\ at[n].live
            /\ at' = [at EXCEPT ![n] = IF hDrive = n
                                         THEN [@ EXCEPT !.live = FALSE]
                                         ELSE None]
      BY <2>1 DEF Unplug
    <3>2. [at[n] EXCEPT !.live = FALSE] \in [disk : Disks, live : BOOLEAN]
      BY <3>1 DEF TypeOK
    <3> QED
      BY <3>1, <3>2, Constants DEF TypeOK, HandleInv
  <2>2. CASE Plug
    <3>1. PICK n \in Numbers, d \in Disks :
            at[n] = None /\ at' = [at EXCEPT ![n] = [disk |-> d, live |-> TRUE]]
      BY <2>2 DEF Plug
    <3>2. [disk |-> d, live |-> TRUE] \in [disk : Disks, live : BOOLEAN]
      OBVIOUS
    <3> QED
      BY <3>1, <3>2, Constants DEF TypeOK, HandleInv
  <2> QED
    BY <2>1, <2>2
<1>3. TypeOK'
  BY <1>1, <1>2 DEF TypeOK
<1>4. IdInv' /\ FlagInv' /\ FilterInv' /\ IndexInv'
  BY <1>1 DEF IdInv, FlagInv, FilterInv, IndexInv, NoBuiltInDisk, Listed,
              Looping, Checking
<1>5. HandleInv'
  BY <1>1, <1>2, Constants DEF HandleInv, Looping, Checking, TypeOK
<1> QED
  BY <1>3, <1>4, <1>5

\* The steps before the interfaces: no disk is open, and the flags are set so
\* that what is built in is eliminated.
LEMMA ClassifyInv ==
  ASSUME IInv, BuildHubTable \/ BuildIdList \/ NextDisk \/ Classify \/ Identify
                 \/ Match \/ Filter
  PROVE  IInv'
<1> USE DEF IInv
<1>1. UNCHANGED <<dev, at, moves, hDrive, drive, list, complete, sized>>
  BY DEF BuildHubTable, BuildIdList, NextDisk, Classify, Identify, Match,
         Filter, world, loop, checked
<1>2. dev \in [Disks -> Kinds] /\ i \in 0..N /\ N \in Nat
  BY DevTyped, Constants DEF TypeOK
<1>3. CASE BuildHubTable
  <2>1. /\ pc = "hubs" /\ pc' \in {"ids", "done"}
        /\ hubs' \in (SUBSET Disks) \cup {NoSet}
        /\ UNCHANGED <<ids, i, props, name, j>>
    BY <1>3 DEF BuildHubTable, found, loop
  <2>2. TypeOK'
    BY <1>1, <2>1 DEF TypeOK
  <2> QED
    BY <1>1, <2>1, <2>2
    DEF IdInv, FlagInv, FilterInv, HandleInv, IndexInv, NoBuiltInDisk, Listed,
        Looping, Checking
<1>4. CASE BuildIdList
  <2>1. /\ pc = "ids" /\ pc' \in {"next", "done"}
        /\ ids' \in (SUBSET Disks) \cup {NoSet}
        /\ ids' # NoSet => \A d \in ids' : dev[d].driver # "none"
        /\ UNCHANGED <<hubs, i, props, name, j>>
    BY <1>4 DEF BuildIdList, found, loop
  <2>2. TypeOK'
    BY <1>1, <2>1 DEF TypeOK
  <2> QED
    BY <1>1, <2>1, <2>2
    DEF IdInv, FlagInv, FilterInv, HandleInv, IndexInv, NoBuiltInDisk, Listed,
        Looping, Checking
<1>5. CASE NextDisk
  <2>1. /\ pc = "next" /\ pc' \in {"classify", "done"}
        /\ i' \in 0..N /\ (pc' = "classify" => i' \in Disks)
        /\ props' = NoProps /\ name' = 0
        /\ UNCHANGED <<hubs, ids, j>>
    BY <1>5, <1>2 DEF NextDisk, loop, Disks
  <2>2. props' \in Props /\ name' \in Int
    BY <2>1 DEF NoProps, Props
  <2>3. TypeOK'
    BY <1>1, <2>1, <2>2 DEF TypeOK
  <2> QED
    BY <1>1, <2>1, <2>3
    DEF IdInv, FlagInv, FilterInv, HandleInv, IndexInv, NoBuiltInDisk, Listed,
        Looping, Checking
<1>6. CASE Classify
  <2>1. /\ pc = "classify" /\ pc' \in {"identify", "next"}
        /\ UNCHANGED <<hubs, ids, i, name, j>>
    BY <1>6 DEF Classify, loop
  <2>2. \/ props' = ByEnumerator(dev[i].enumerator)
        \/ props' = props /\ pc' = "next"
    BY <1>6 DEF Classify
  <2>3. i \in Disks
    BY <2>1 DEF IndexInv
  <2>4. props' \in Props
    <3>1. ByEnumerator(dev[i].enumerator) \in Props
      BY EnumeratorTyped
    <3> QED
      BY <2>2, <3>1 DEF TypeOK
  <2>5. pc' = "identify" /\ BuiltIn(dev[i]) =>
          ~props'.usb /\ ~props'.card /\ ~props'.uasp /\ props'.vid = 0
    BY <2>2, BuiltInFlags, Zenon
  <2>6. TypeOK'
    BY <1>1, <2>1, <2>4 DEF TypeOK
  <2>7. FlagInv'
    BY <1>1, <2>1, <2>5 DEF FlagInv, BuiltIn
  <2> QED
    BY <1>1, <2>1, <2>3, <2>6, <2>7
    DEF IdInv, FilterInv, HandleInv, IndexInv, NoBuiltInDisk, Listed, Looping,
        Checking
<1>7. CASE Identify
  <2>1. /\ pc = "identify" /\ pc' \in {"match", "filter"}
        /\ pc' = "match" => ids # NoSet
        /\ UNCHANGED <<hubs, ids, i, j>>
    BY <1>7 DEF Identify, loop
  <2>2. PICK hw, pol, fn \in BOOLEAN :
          /\ props' = [props EXCEPT
                         !.vhd = hw /\ IsVHD(dev[i].hwid),
                         !.card = @ \/ (hw /\ dev[i].hwid = "scsiCard"),
                         !.removable = pol /\ dev[i].policy]
          /\ name' = IF fn THEN dev[i].name ELSE 0
    BY <1>7 DEF Identify
  <2>3. i \in Disks /\ dev[i] \in Kinds
    BY <1>2, <2>1 DEF IndexInv
  <2>4. name' \in Int
    BY <2>2, <2>3 DEF Kinds
  <2>5. props' \in Props
    <3>1. PICK vhd \in BOOLEAN, card \in BOOLEAN, removable \in BOOLEAN :
            props' = [props EXCEPT !.vhd = vhd, !.card = card,
                                   !.removable = removable]
      BY <2>2, Zenon
    <3> QED
      BY <3>1 DEF TypeOK, Props
  <2>6. BuiltIn(dev[i]) =>
          /\ ~props'.usb /\ ~props'.card /\ ~props'.uasp /\ props'.vid = 0
          /\ ~props'.vhd
    BY <2>1, <2>2 DEF FlagInv, BuiltIn, IsVHD, TypeOK, Props
  <2>7. TypeOK'
    BY <1>1, <2>1, <2>4, <2>5 DEF TypeOK
  <2>8. FlagInv'
    BY <1>1, <2>1, <2>6 DEF FlagInv, BuiltIn
  <2> QED
    BY <1>1, <2>1, <2>3, <2>7, <2>8
    DEF IdInv, FilterInv, HandleInv, IndexInv, NoBuiltInDisk, Listed, Looping,
        Checking
<1>8. CASE Match
  <2>1. /\ pc = "match" /\ pc' \in {"crashed", "filter"}
        /\ UNCHANGED <<hubs, ids, i, name, j>>
    BY <1>8 DEF Match, loop
  <2>2. i \in Disks /\ dev[i] \in Kinds
    BY <1>2, <2>1 DEF IndexInv
  <2>3. \/ UNCHANGED props
        \/ /\ i \in ids
           /\ \E v \in Vids \cup {0} :
                props' = [props EXCEPT !.uasp = (dev[i].driver = "uasp"),
                                       !.vid = v]
    BY <1>8, <2>2 DEF Match, Kinds, IdVid, GetUSBProperties
  <2>4. props' \in Props
    BY <2>3 DEF TypeOK, Props
  <2>5. BuiltIn(dev[i]) => UNCHANGED props
    BY <2>1, <2>3 DEF BuiltIn, IdInv
  <2>6. TypeOK'
    BY <1>1, <2>1, <2>4 DEF TypeOK
  <2>7. FlagInv'
    BY <1>1, <2>1, <2>5 DEF FlagInv, BuiltIn
  <2> QED
    BY <1>1, <2>1, <2>2, <2>6, <2>7
    DEF IdInv, FilterInv, HandleInv, IndexInv, NoBuiltInDisk, Listed, Looping,
        Checking
<1>9. CASE Filter
  <2>1. /\ pc = "filter" /\ pc' = IF Eliminated(props) THEN "next" ELSE "open"
        /\ j' = 0
        /\ UNCHANGED <<hubs, ids, i, props, name>>
    BY <1>9 DEF Filter, found
  <2>2. i \in Disks /\ dev[i] \in Kinds
    BY <1>2, <2>1 DEF IndexInv
  <2>3. BuiltIn(dev[i]) => pc' = "next"
    BY <2>1 DEF FlagInv, Eliminated
  <2>4. TypeOK'
    BY <1>1, <2>1 DEF TypeOK
  <2>5. 0 <= dev[i].interfaces
    BY <2>2 DEF Kinds
  <2>6. FilterInv'
    BY <1>1, <2>1, <2>3
    DEF FilterInv, NoBuiltInDisk, Listed, Looping, Checking, BuiltIn
  <2> QED
    BY <1>1, <2>1, <2>2, <2>4, <2>5, <2>6
    DEF IdInv, FlagInv, HandleInv, IndexInv, Looping, Checking
<1> QED
  BY <1>3, <1>4, <1>5, <1>6, <1>7, <1>8, <1>9

\* Closing the handle leaves a map from numbers to disks.
LEMMA ReleasedTyped ==
  ASSUME TypeOK
  PROVE  Released \in [Numbers -> [disk : Disks, live : BOOLEAN] \cup {None}]
  BY DEF TypeOK, Released

\* A filter that rejects a disk closes it.
LEMMA BreakInv == ASSUME IInv, Checking, Break
                  PROVE  IInv'
<1> USE DEF IInv
<1>1. /\ hDrive' = None /\ at' = Released /\ pc' = "next"
      /\ UNCHANGED <<dev, moves, hubs, ids, i, props, name, j, drive, list,
                     complete, sized>>
  BY DEF Break, Close, found, checked
<1>2. TypeOK'
  BY <1>1, ReleasedTyped DEF TypeOK
<1> QED
  BY <1>1, <1>2
  DEF IdInv, FlagInv, FilterInv, HandleInv, IndexInv, NoBuiltInDisk, Listed,
      Looping, Checking

\* A filter that lets a disk pass keeps it open, unless it is the last one.
LEMMA PassInv ==
  ASSUME IInv, Checking, NEW to, Pass(to),
         complete' \in BOOLEAN, sized' \in BOOLEAN,
         \/ /\ to \in {"size", "label", "score", "listUnlabelled"}
            /\ UNCHANGED <<at, hDrive>>
         \/ to = "list" /\ Close
  PROVE  IInv'
<1> USE DEF IInv
<1>1. /\ pc' = to
      /\ UNCHANGED <<dev, moves, hubs, ids, i, props, name, j, drive, list>>
  BY DEF Pass, found
<1>2. complete' \in BOOLEAN /\ sized' \in BOOLEAN
  OBVIOUS
<1>3. \/ /\ to \in {"size", "label", "score", "listUnlabelled"}
         /\ UNCHANGED <<at, hDrive>>
      \/ to = "list" /\ hDrive' = None /\ at' = Released
  BY DEF Close
<1>4. TypeOK'
  BY <1>1, <1>2, <1>3, ReleasedTyped DEF TypeOK
<1> QED
  BY <1>1, <1>3, <1>4
  DEF IdInv, FlagInv, FilterInv, HandleInv, IndexInv, NoBuiltInDisk, Listed,
      Looping, Checking

\* The loop over the interfaces: a disk is opened, checked and listed, and its
\* number is its own as long as it is checked.
LEMMA InterfacesInv ==
  ASSUME IInv, OpenInterface \/ CheckMedia \/ CheckSize \/ ReadLabel \/ Score
                 \/ List
  PROVE  IInv'
<1>1. CASE OpenInterface
  <2> USE DEF IInv
  <2>0. j' = j \/ (j' = j + 1 /\ j < dev[i].interfaces)
    BY <1>1 DEF OpenInterface
  <2>1. /\ pc = "open" /\ at' = Released
        /\ UNCHANGED <<dev, moves, hubs, ids, i, props, name, list>>
    BY <1>1 DEF OpenInterface, found
  <2>2. i \in Disks /\ j \in Nat /\ dev[i].interfaces \in Nat
          /\ j <= dev[i].interfaces
    BY <2>1, DevTyped, KindTyped DEF IndexInv, TypeOK, Looping
  <2>3. j' \in Nat /\ j' <= dev[i].interfaces
    BY <2>0, <2>2
  <2>4. \/ /\ pc' \in {"next", "open"} /\ hDrive' = None
           /\ UNCHANGED <<drive, complete, sized>>
        \/ /\ pc' = "media" /\ complete' = FALSE /\ sized' = FALSE
           /\ hDrive' \in Numbers /\ drive' = hDrive' /\ IsAt(hDrive', i)
    BY <1>1 DEF OpenInterface, GetDriveNumber, checked
  <2>5. complete' \in BOOLEAN /\ sized' \in BOOLEAN
    BY <2>4, Zenon DEF TypeOK
  <2>6. hDrive' \in Numbers \cup {None} /\ drive' \in Numbers \cup {None}
          /\ pc' \in {"next", "open", "media"}
    BY <2>4 DEF TypeOK
  <2>7. TypeOK'
    BY <2>1, <2>2, <2>3, <2>5, <2>6, ReleasedTyped DEF TypeOK
  <2>8. hDrive' # None => at'[hDrive'] # None /\ at'[hDrive'].disk = i
    BY <2>1, <2>4, Constants DEF Released, IsAt
  <2>9. HandleInv'
    BY <2>1, <2>4, <2>8, Constants DEF HandleInv, Looping, Checking, TypeOK
  <2>10. IndexInv'
    BY <2>1, <2>2, <2>3, <2>6 DEF IndexInv, Looping, Checking
  <2> QED
    BY <2>1, <2>6, <2>7, <2>9, <2>10
    DEF IdInv, FlagInv, FilterInv, NoBuiltInDisk, Listed, Looping, Checking
<1>2. CASE CheckMedia \/ CheckSize
  <2>1. Checking
    BY <1>2 DEF CheckMedia, CheckSize, Checking
  <2>2. PICK to \in {"size", "label"} :
          Break \/ (Pass(to) /\ UNCHANGED <<at, hDrive, complete, sized>>)
    BY <1>2 DEF CheckMedia, CheckSize, checked
  <2>3. complete \in BOOLEAN /\ sized \in BOOLEAN
    BY DEF IInv, TypeOK
  <2> QED
    BY <2>1, <2>2, <2>3, BreakInv, PassInv
<1>3. CASE ReadLabel
  <2>1. Checking
    BY <1>3 DEF ReadLabel, Checking
  <2>2. PICK letters :
          \/ Pass("listUnlabelled") /\ UNCHANGED <<at, hDrive, complete, sized>>
          \/ Break
          \/ /\ complete' = (letters = DOMAIN dev[i].volumes) /\ sized' = sized
             /\ \/ Pass("list") /\ Close
                \/ Pass("score") /\ UNCHANGED <<at, hDrive>>
    BY <1>3 DEF ReadLabel, checked
  <2>3. /\ complete \in BOOLEAN /\ sized \in BOOLEAN
        /\ (letters = DOMAIN dev[i].volumes) \in BOOLEAN
    BY DEF IInv, TypeOK
  <2> QED
    BY <2>1, <2>2, <2>3, BreakInv, PassInv
<1>4. CASE Score
  <2>1. Checking
    BY <1>4 DEF Score, Checking
  <2>2. PICK d :
          \/ Break
          \/ /\ Pass("list") /\ Close
             /\ sized' = (d # None) /\ complete' = complete
    BY <1>4 DEF Score
  <2>3. complete \in BOOLEAN /\ (d # None) \in BOOLEAN
    BY DEF IInv, TypeOK
  <2> QED
    BY <2>1, <2>2, <2>3, BreakInv, PassInv
<1>5. CASE List
  <2> USE DEF IInv
  <2>1. /\ pc \in {"list", "listUnlabelled"} /\ pc' = "open"
        /\ UNCHANGED <<dev, at, moves, hubs, ids, i, props, name, j, hDrive,
                       drive, complete, sized>>
    BY <1>5 DEF List, world, found, loop, checked
  <2>2. i \in Disks /\ drive \in Numbers /\ ~BuiltIn(dev[i])
    BY <2>1 DEF IndexInv, HandleInv, FilterInv, Looping, Checking
  <2>3. PICK d \in Opens(drive) :
          list' = Append(list,
            [disk |-> i, num |-> drive, bytes |-> Size(d), props |-> props,
             name |-> name, labelled |-> pc = "list",
             complete |-> complete, sized |-> sized])
    BY <1>5 DEF List
  <2>4. d = None \/ d \in Disks
    BY <2>2 DEF Opens, TypeOK
  <2>5. Size(d) \in Nat
    BY <2>4, DevTyped, KindTyped DEF Size, TypeOK
  <2>6. (pc = "list") \in BOOLEAN
    OBVIOUS
  <2> DEFINE e == [disk |-> i, num |-> drive, bytes |-> Size(d),
                   props |-> props, name |-> name, labelled |-> pc = "list",
                   complete |-> complete, sized |-> sized]
  <2>7. e \in Entries /\ e.disk = i
    BY <2>2, <2>5, <2>6 DEF Entries, TypeOK
  <2>8. list' = Append(list, e) /\ list \in Seq(Entries)
    BY <2>3 DEF TypeOK
  <2> HIDE DEF e
  <2>9. list' \in Seq(Entries)
    BY <2>7, <2>8
  <2>10. \A x \in Listed' : x \in Listed \/ x = e
    BY <2>7, <2>8 DEF Listed
  <2>11. TypeOK'
    BY <2>1, <2>9 DEF TypeOK
  <2>12. FilterInv'
    BY <2>1, <2>2, <2>7, <2>10 DEF FilterInv, NoBuiltInDisk, Looping, Checking
  <2> QED
    BY <2>1, <2>11, <2>12
    DEF IdInv, FlagInv, HandleInv, IndexInv, Looping, Checking
<1> QED
  BY <1>1, <1>2, <1>3, <1>4, <1>5

\* Every step of the scan and of the world keeps the invariant.
LEMMA NextInv == IInv /\ [Next]_vars => IInv'
<1> SUFFICES ASSUME IInv, [Next]_vars PROVE IInv'
  OBVIOUS
<1>1. CASE Next
  BY <1>1, MoveInv, ClassifyInv, InterfacesInv DEF Next, Scan
<1>2. CASE UNCHANGED vars
  BY <1>2
  DEF vars, world, found, loop, checked, IInv, TypeOK, IdInv, FlagInv, FilterInv,
      HandleInv, IndexInv, NoBuiltInDisk, Listed, Looping, Checking
<1> QED
  BY <1>1, <1>2

\* The invariant holds throughout every scan.
THEOREM Invariance == Spec => []IInv
  BY InitInv, NextInv, PTL DEF Spec

-----------------------------------------------------------------------------
(* What follows from it                                                    *)

\* Types, and no interface is asked for past the last one.
THEOREM TypeCorrect == Spec => []TypeOK
<1>1. IInv => TypeOK
  BY DEF IInv
<1> QED
  BY Invariance, <1>1, PTL

\* GetDevices never offers a disk that is built into the computer, whatever
\* its calls return and however disks are moved meanwhile.
THEOREM BuiltInNeverListed == Spec => []NoBuiltInDisk
<1>1. IInv => NoBuiltInDisk
  BY DEF IInv, FilterInv
<1> QED
  BY Invariance, <1>1, PTL

\* The filters that look a disk up by number look at the disk in question.
THEOREM ChecksOwnDisk == Spec => []AsksAboutItself
<1>1. IInv => AsksAboutItself
  BY Constants DEF IInv, HandleInv, Looping, Checking, AsksAboutItself
<1> QED
  BY Invariance, <1>1, PTL

\* GetDevices leaves no disk open.
THEOREM NothingLeftOpen == Spec => []HandleClosed
<1>1. IInv => HandleClosed
  BY DEF IInv, HandleInv, Checking, HandleClosed
<1> QED
  BY Invariance, <1>1, PTL

-----------------------------------------------------------------------------
(* Hard disks                                                              *)

\* What is known of the disk looked at comes from that disk or is missing.
SourceInv ==
  /\ pc \in {"identify", "match", "filter"} \/ Looping =>
       props.vid \in {0, dev[i].vid}
  /\ pc \in {"match", "filter"} \/ Looping =>
       name \in {0, dev[i].name} /\ (props.removable => dev[i].policy)

\* A disk that may be removed, as may all its volumes if all were read.
Removable(k, all) ==
  k.policy /\ (all => \A v \in DOMAIN k.volumes : k.volumes[v] = "removable")

\* Name or vendor of a disk speak for flash.
Flash(k) == k.name < 0 \/ VidScore[k.vid] < 0

\* What a disk has shown by passing the filters one after the other.
PassedInv ==
  /\ Checking \/ pc = "listUnlabelled" => ~sized
  /\ pc \in {"score", "list"} /\ ~props.vhd /\ props.scsi /\ ~props.uasp =>
       Removable(dev[i], complete)
  /\ pc = "list" /\ sized /\ dev[i].size > LARGE => Flash(dev[i])

HardInv == SourceInv /\ PassedInv /\ NoHardDisk

\* The first state.
LEMMA HardInit == Init => HardInv
  BY DEF Init, HardInv, SourceInv, PassedInv, NoHardDisk, Listed, Looping,
         Checking

\* A step that leaves the list alone and has nothing to say of the filters.
LEMMA HardQuiet ==
  ASSUME HardInv, UNCHANGED <<dev, list>>, SourceInv',
         ~Checking', pc' \notin {"list", "listUnlabelled"}
  PROVE  HardInv'
<1>1. PassedInv'
  BY DEF PassedInv, Checking
<1>2. NoHardDisk'
  BY DEF HardInv, NoHardDisk, Listed
<1> QED
  BY <1>1, <1>2 DEF HardInv

\* A disk that is moved.
LEMMA HardMove == ASSUME HardInv, Unplug \/ Plug PROVE HardInv'
<1>1. UNCHANGED <<dev, pc, i, props, name, list, complete, sized>>
  BY DEF Unplug, Plug, found, loop, checked
<1> QED
  BY <1>1
  DEF HardInv, SourceInv, PassedInv, NoHardDisk, Listed, Looping, Checking,
      Removable, Flash

\* The steps before the interfaces.
LEMMA HardClassify ==
  ASSUME IInv, HardInv,
         BuildHubTable \/ BuildIdList \/ NextDisk \/ Classify \/ Identify
           \/ Match \/ Filter
  PROVE  HardInv'
<1>1. UNCHANGED <<dev, list>>
  BY DEF BuildHubTable, BuildIdList, NextDisk, Classify, Identify, Match, Filter
<1>2. CASE BuildHubTable \/ BuildIdList \/ NextDisk
  <2>1. pc' \in {"ids", "next", "classify", "done"}
    BY <1>2 DEF BuildHubTable, BuildIdList, NextDisk
  <2>2. SourceInv'
    BY <2>1 DEF SourceInv, Looping, Checking
  <2> QED
    BY <1>1, <2>1, <2>2, HardQuiet DEF Checking
<1>3. CASE Classify
  <2>1. /\ pc' \in {"identify", "next"} /\ UNCHANGED i
        /\ pc' = "identify" => props' = ByEnumerator(dev[i].enumerator)
    BY <1>3 DEF Classify
  <2>2. pc' = "identify" => props'.vid = 0
    BY <2>1 DEF ByEnumerator
  <2>3. SourceInv'
    BY <1>1, <2>1, <2>2 DEF SourceInv, Looping, Checking
  <2> QED
    BY <1>1, <2>1, <2>3, HardQuiet DEF Checking
<1>4. CASE Identify
  <2>1. pc = "identify" /\ pc' \in {"match", "filter"} /\ UNCHANGED i
    BY <1>4 DEF Identify
  <2>2. PICK hw, pol, fn \in BOOLEAN :
          /\ props' = [props EXCEPT
                         !.vhd = hw /\ IsVHD(dev[i].hwid),
                         !.card = @ \/ (hw /\ dev[i].hwid = "scsiCard"),
                         !.removable = pol /\ dev[i].policy]
          /\ name' = IF fn THEN dev[i].name ELSE 0
    BY <1>4 DEF Identify
  <2>3. props'.vid = props.vid /\ (props'.removable => dev[i].policy)
    BY <2>2 DEF IInv, TypeOK, Props
  <2>4. name' \in {0, dev[i].name}
    BY <2>2
  <2>5. SourceInv'
    BY <1>1, <2>1, <2>3, <2>4 DEF HardInv, SourceInv, Looping, Checking
  <2> QED
    BY <1>1, <2>1, <2>5, HardQuiet DEF Checking
<1>5. CASE Match
  <2>1. pc = "match" /\ pc' \in {"crashed", "filter"} /\ UNCHANGED <<i, name>>
    BY <1>5 DEF Match
  <2>2. i \in Disks /\ dev[i] \in Kinds
    BY <2>1, DevTyped DEF IInv, IndexInv, TypeOK
  <2>3. \/ UNCHANGED props
        \/ \E v \in {0, dev[i].vid} :
             props' = [props EXCEPT !.uasp = (dev[i].driver = "uasp"), !.vid = v]
    BY <1>5 DEF Match, IdVid, GetUSBProperties
  <2>4. props'.vid \in {0, dev[i].vid} /\ props'.removable = props.removable
    BY <2>1, <2>3 DEF HardInv, SourceInv, IInv, TypeOK, Props
  <2>5. SourceInv'
    BY <1>1, <2>1, <2>4 DEF HardInv, SourceInv, Looping, Checking
  <2> QED
    BY <1>1, <2>1, <2>5, HardQuiet DEF Checking
<1>6. CASE Filter
  <2>1. pc = "filter" /\ pc' \in {"next", "open"} /\ UNCHANGED <<i, props, name>>
    BY <1>6 DEF Filter, found
  <2>2. SourceInv'
    BY <1>1, <2>1 DEF HardInv, SourceInv, Looping, Checking
  <2> QED
    BY <1>1, <2>1, <2>2, HardQuiet DEF Checking
<1> QED
  BY <1>2, <1>3, <1>4, <1>5, <1>6

\* A filter that rejects a disk.
LEMMA HardBreak == ASSUME HardInv, Break PROVE HardInv'
<1>1. UNCHANGED <<dev, list>> /\ pc' = "next"
  BY DEF Break
<1>2. SourceInv'
  BY <1>1 DEF SourceInv, Looping, Checking
<1> QED
  BY <1>1, <1>2, HardQuiet DEF Checking

\* A filter that lets a disk pass: what it has shown is PassedInv'.
LEMMA HardPass ==
  ASSUME HardInv, Checking, NEW to, Pass(to), PassedInv',
         to \in {"size", "label", "score", "listUnlabelled", "list"}
  PROVE  HardInv'
<1>1. pc' = to /\ UNCHANGED <<dev, i, props, name, list>>
  BY DEF Pass, found
<1>2. SourceInv'
  BY <1>1 DEF HardInv, SourceInv, Looping
<1>3. NoHardDisk'
  BY <1>1 DEF HardInv, NoHardDisk, Listed
<1> QED
  BY <1>2, <1>3 DEF HardInv

\* What the number of a disk leads to: the disk itself or nothing.
LEMMA OwnNumber ==
  ASSUME IInv, Checking
  PROVE  /\ drive \in Numbers /\ i \in Disks /\ dev[i] \in Kinds
         /\ Volumes(drive) \in {dev[i].volumes, <<>>}
         /\ \A d \in Opens(drive) : d # None => d = i
<1>1. drive \in Numbers /\ i \in Disks /\ at[drive] # None /\ at[drive].disk = i
  BY Constants DEF IInv, HandleInv, IndexInv, Looping, Checking
<1>2. dev[i] \in Kinds
  BY <1>1, DevTyped DEF IInv, TypeOK
<1> QED
  BY <1>1, <1>2 DEF Volumes, Opens

\* The filters on the letters: a SCSI disk that passes is removable, and where
\* all its volumes were read so are they.
LEMMA HardLabel == ASSUME IInv, HardInv, ReadLabel PROVE HardInv'
<1>1. Checking /\ pc = "label" /\ ~sized
  BY DEF ReadLabel, Checking, HardInv, PassedInv
<1>2. PICK letters \in GetDriveLabel(drive) :
        \/ Pass("listUnlabelled") /\ UNCHANGED <<complete, sized>>
        \/ Break
        \/ /\ letters # NoSet /\ ~FixedScsi(drive, letters)
           /\ complete' = (letters = DOMAIN dev[i].volumes) /\ sized' = sized
           /\ \/ (props.vhd \/ props.card) /\ Pass("list")
              \/ Pass("score")
  BY DEF ReadLabel, checked
<1>3. CASE Break
  BY <1>3, HardBreak
<1>4. CASE Pass("listUnlabelled") /\ UNCHANGED <<complete, sized>>
  <2>1. PassedInv'
    BY <1>1, <1>4 DEF Pass, PassedInv
  <2> QED
    BY <1>1, <1>4, <2>1, HardPass
<1>5. ASSUME letters # NoSet, ~FixedScsi(drive, letters), ~props.vhd, props.scsi,
             ~props.uasp
      PROVE  Removable(dev[i], letters = DOMAIN dev[i].volumes)
  <2>1. props.removable /\ \A v \in letters : Volumes(drive)[v] = "removable"
    BY <1>5 DEF FixedScsi
  <2>2. dev[i].policy
    BY <1>1, <2>1 DEF HardInv, SourceInv, Looping
  <2>3. ASSUME letters = DOMAIN dev[i].volumes, NEW v \in DOMAIN dev[i].volumes
        PROVE  dev[i].volumes[v] = "removable"
    <3>1. CASE Volumes(drive) = dev[i].volumes
      BY <2>1, <2>3, <3>1
    <3>2. CASE Volumes(drive) = <<>>
      <4>1. letters \subseteq DOMAIN <<>>
        BY <1>5, <3>2 DEF GetDriveLabel, Letters
      <4>2. letters = {}
        BY <4>1
      <4> QED
        BY <2>3, <4>2
    <3> QED
      BY <1>1, <3>1, <3>2, OwnNumber
  <2> QED
    BY <2>2, <2>3 DEF Removable
<1>6. CASE /\ letters # NoSet /\ ~FixedScsi(drive, letters)
           /\ complete' = (letters = DOMAIN dev[i].volumes) /\ sized' = sized
           /\ \/ (props.vhd \/ props.card) /\ Pass("list")
              \/ Pass("score")
  <2>1. PICK to \in {"list", "score"} : Pass(to)
    BY <1>6
  <2>2. pc' = to /\ UNCHANGED <<dev, i, props>>
    BY <2>1 DEF Pass, found
  <2>3. ~props.vhd /\ props.scsi /\ ~props.uasp => Removable(dev[i], complete')
    BY <1>5, <1>6
  <2>4. PassedInv'
    BY <1>1, <1>6, <2>2, <2>3 DEF PassedInv, Removable, Checking
  <2> QED
    BY <1>1, <2>1, <2>4, HardPass
<1> QED
  BY <1>2, <1>3, <1>4, <1>6

\* The points: a disk of more than 512 GB whose size is known passes only if its
\* name or its vendor speaks for flash.
LEMMA HardScore == ASSUME IInv, HardInv, Score PROVE HardInv'
<1>1. Checking /\ pc = "score"
  BY DEF Score, Checking
<1>2. PICK letters \in Letters(drive), d \in Opens(drive) :
        \/ Break
        \/ /\ ~(IsHDD(DriveType(drive, letters), Size(d)) > 0)
           /\ Pass("list") /\ sized' = (d # None) /\ complete' = complete
  BY DEF Score
<1>3. CASE Break
  BY <1>3, HardBreak
<1>4. ASSUME ~(IsHDD(DriveType(drive, letters), Size(d)) > 0), d # None,
             dev[i].size > LARGE
      PROVE  Flash(dev[i])
  <2>1. d = i /\ dev[i] \in Kinds
    BY <1>1, <1>4, OwnNumber
  <2>2. Size(d) = dev[i].size
    BY <1>4, <2>1 DEF Size
  <2>3. SizeScore(Size(d)) = 10
    BY <1>4, <2>2 DEF SizeScore
  <2>4. /\ dev[i].name \in Int /\ dev[i].vid \in Vids /\ dev[i].vid # 0
        /\ VidScore[dev[i].vid] \in Int
    BY <2>1, KindTyped, Constants
  <2>5. name \in {0, dev[i].name} /\ props.vid \in {0, dev[i].vid}
    BY <1>1 DEF HardInv, SourceInv, Looping
  <2>6. ~((IF DriveType(drive, letters) = "fixed" THEN 3 ELSE 0) + 10
            + name + (IF props.vid = 0 THEN 0 ELSE VidScore[props.vid]) > 0)
    BY <1>4, <2>3 DEF IsHDD
  <2> QED
    BY <2>4, <2>5, <2>6 DEF Flash
<1>5. CASE /\ ~(IsHDD(DriveType(drive, letters), Size(d)) > 0)
           /\ Pass("list") /\ sized' = (d # None) /\ complete' = complete
  <2>1. pc' = "list" /\ UNCHANGED <<dev, i, props>>
    BY <1>5 DEF Pass, found
  <2>2. sized' /\ dev[i].size > LARGE => Flash(dev[i])
    BY <1>4, <1>5
  <2>3. ~props.vhd /\ props.scsi /\ ~props.uasp => Removable(dev[i], complete')
    BY <1>1, <1>5 DEF HardInv, PassedInv
  <2>4. PassedInv'
    BY <2>1, <2>2, <2>3 DEF PassedInv, Removable, Flash, Checking
  <2> QED
    BY <1>1, <1>5, <2>4, HardPass
<1> QED
  BY <1>2, <1>3, <1>5

\* The loop over the interfaces.
LEMMA HardInterfaces ==
  ASSUME IInv, HardInv, OpenInterface \/ CheckMedia \/ CheckSize \/ List
  PROVE  HardInv'
<1>1. CASE OpenInterface
  <2>1. /\ pc = "open" /\ UNCHANGED <<dev, i, props, name, list>>
        /\ pc' \in {"next", "open"} \/ (pc' = "media" /\ sized' = FALSE)
    BY <1>1 DEF OpenInterface, found
  <2>2. SourceInv'
    BY <2>1 DEF HardInv, SourceInv, Looping, Checking
  <2>3. CASE pc' \in {"next", "open"}
    BY <2>1, <2>2, <2>3, HardQuiet DEF Checking
  <2>4. CASE pc' = "media" /\ sized' = FALSE
    BY <2>1, <2>2, <2>4 DEF HardInv, PassedInv, NoHardDisk, Listed, Checking
  <2> QED
    BY <2>1, <2>3, <2>4
<1>2. CASE CheckMedia \/ CheckSize
  <2>1. Checking /\ ~sized
    BY <1>2 DEF CheckMedia, CheckSize, Checking, HardInv, PassedInv
  <2>2. PICK to \in {"size", "label"} :
          Break \/ (Pass(to) /\ UNCHANGED sized)
    BY <1>2 DEF CheckMedia, CheckSize, checked
  <2>3. CASE Pass(to) /\ UNCHANGED sized
    <3>1. PassedInv'
      BY <2>1, <2>3 DEF Pass, PassedInv
    <3> QED
      BY <2>1, <2>3, <3>1, HardPass
  <2> QED
    BY <2>2, <2>3, HardBreak
<1>3. CASE List
  <2>1. /\ pc \in {"list", "listUnlabelled"} /\ pc' = "open"
        /\ UNCHANGED <<dev, i, props, name>>
    BY <1>3 DEF List, found
  <2>2. PICK d \in Opens(drive) :
          list' = Append(list,
            [disk |-> i, num |-> drive, bytes |-> Size(d), props |-> props,
             name |-> name, labelled |-> pc = "list",
             complete |-> complete, sized |-> sized])
    BY <1>3 DEF List
  <2> DEFINE e == [disk |-> i, num |-> drive, bytes |-> Size(d),
                   props |-> props, name |-> name, labelled |-> pc = "list",
                   complete |-> complete, sized |-> sized]
  <2>3. /\ e.disk = i /\ e.props = props /\ e.labelled = (pc = "list")
        /\ e.complete = complete /\ e.sized = sized
        /\ list' = Append(list, e) /\ list \in Seq(Entries)
    BY <2>2 DEF IInv, TypeOK
  <2> HIDE DEF e
  <2>4. \A x \in Listed' : x \in Listed \/ x = e
    BY <2>3 DEF Listed
  <2> DEFINE Sound(x) ==
        /\ x.sized /\ dev[x.disk].size > LARGE => Flash(dev[x.disk])
        /\ x.labelled /\ x.props.scsi /\ ~x.props.uasp /\ ~x.props.vhd =>
             Removable(dev[x.disk], x.complete)
  <2>5. Sound(e)
    BY <2>1, <2>3 DEF HardInv, PassedInv
  <2>6. NoHardDisk'
    <3> SUFFICES ASSUME NEW x \in Listed' PROVE Sound(x)
      BY <2>1 DEF NoHardDisk, Removable, Flash
    <3>1. CASE x = e
      BY <2>5, <3>1
    <3>2. CASE x \in Listed
      BY <3>2 DEF HardInv, NoHardDisk, Removable, Flash
    <3> QED
      BY <2>4, <3>1, <3>2
  <2>7. SourceInv'
    BY <2>1 DEF HardInv, SourceInv, Looping, Checking
  <2> QED
    BY <2>1, <2>6, <2>7 DEF HardInv, PassedInv, Checking
<1> QED
  BY <1>1, <1>2, <1>3

\* Whatever disks are moved and whatever else cannot be read: a disk whose size
\* IsHDD could read is not larger than 512 GB without a name or a vendor that
\* speaks for flash; and one on the SCSI bus whose letters could be listed may
\* be removed, as may all its volumes if all were read.
THEOREM HardDisksOut == Spec => []NoHardDisk
<1>1. Init => HardInv
  BY HardInit
<1>2. IInv /\ HardInv /\ [Next]_vars => HardInv'
  <2> SUFFICES ASSUME IInv, HardInv, [Next]_vars PROVE HardInv'
    OBVIOUS
  <2>1. CASE Next
    BY <2>1, HardMove, HardClassify, HardLabel, HardScore, HardInterfaces
    DEF Next, Scan
  <2>2. CASE UNCHANGED vars
    BY <2>2
    DEF vars, world, found, loop, checked, HardInv, SourceInv, PassedInv,
        NoHardDisk, Listed, Looping, Checking, Removable, Flash
  <2> QED
    BY <2>1, <2>2
<1>3. HardInv => NoHardDisk
  BY DEF HardInv
<1> QED
  BY <1>1, <1>2, <1>3, Invariance, PTL DEF Spec
=============================================================================
