----------------------------- MODULE DeviceScan -----------------------------
(***************************************************************************)
(* GetDevices (gondar.cc): which disks the program offers for erasing.     *)
(*                                                                         *)
(* The scan notes which devices hang on a USB hub, asks for the ids the    *)
(* USB storage drivers handle, and then takes the disks one by one: what   *)
(* kind of device is it, can it be matched with one of the ids, does it    *)
(* survive the filters, and - through a number looked up anew at every     *)
(* call - what is on it.  Every call may fail, and disks may be pulled out *)
(* and put in between any two of them.                                     *)
(*                                                                         *)
(* What the tables of names hold is abstract: a disk is a record of what   *)
(* the system would say of it.  Sizes are numbers compared with MIN_SIZE,  *)
(* SMALL and LARGE, which stand for 8 MB, 8 GB and 512 GB.                 *)
(***************************************************************************)
EXTENDS Integers, FiniteSetsExt, Sequences

CONSTANTS
  N,                     \* disks 1..N, in the order they are enumerated
  Numbers,               \* physical drive numbers, all below MAX_DRIVES
  Fleets,                \* sets of disks there may be: functions from 1..N
  Vids, VidScore,        \* known vendors and their score
  MIN_SIZE, SMALL, LARGE,
  None,
  MaxMoves               \* bound: disks pulled out or put in during a scan

Disks == 1..N

\* What the system says of a disk.
Kinds ==
  [enumerator : {"USBSTOR",      \* Microsoft's driver
                 "USBCARD",      \* RTSUER, CMIUCR, EUCR
                 "UASP",         \* UASPSTOR and the drivers after it
                 "SCSI",
                 "CARD",         \* SD, PCISTOR and the drivers after it
                 "other"},
   hwid : {"disk", "vhd", "vmware", "scsiCard"},
   policy : BOOLEAN,             \* removal policy: may be removed
   driver : {"none", "usb", "uasp"},
                                 \* the part of the id list its parent is in
   idvid : BOOLEAN,              \* the parent's id tells the vendor
   hub : BOOLEAN,                \* its parent or grandparent is a hub's child
   vid : Vids,
   name : Int,                   \* score of the friendly name
   volumes : Seq({"fixed", "removable"}),
   size : Nat,
   interfaces : Nat]

ASSUME ScanAssumption ==
  /\ N \in Nat
  /\ Fleets \subseteq [Disks -> Kinds]
  /\ 0 \notin Vids /\ VidScore \in [Vids -> Int]
  /\ MIN_SIZE \in Nat /\ SMALL \in Nat /\ LARGE \in Nat
  /\ MIN_SIZE < SMALL /\ SMALL < LARGE
  /\ None \notin Numbers \cup Disks
  /\ None \notin [disk : Disks, live : BOOLEAN]
  /\ MaxMoves \in Nat

VARIABLES
  dev,        \* dev[d]: the kind of disk d
  at,         \* at[n]: the disk PHYSICALDRIVEn is, alive or pulled out
  moves,
  pc,         \* the call the scan makes next
  hubs,       \* htab_devid: the ids found under hubs, or NoSet: no table
  ids,        \* devid_list: the disks whose parent's id is in it, or NoSet
  i,          \* the disk looked at
  props, name,
  j,          \* the interface looked at
  hDrive,     \* number of the disk the handle is open on, or None
  drive,      \* drive_number
  list,       \* device_list; of an entry num and bytes are the program's, the
              \*   rest is history
  complete,   \* history: GetDriveLabel has named every volume of the disk
  sized       \* history: IsHDD was asked about the disk and got its size

world == <<at, moves>>
found == <<props, name>>
loop == <<j, hDrive, drive>>
checked == <<complete, sized>>
vars == <<dev, world, pc, hubs, ids, i, found, loop, list, checked>>

NoSet == {None}      \* a NULL pointer in place of a set

NoProps == [vid |-> 0, usb |-> FALSE, scsi |-> FALSE, card |-> FALSE,
            uasp |-> FALSE, vhd |-> FALSE, removable |-> FALSE]

Init ==
  /\ dev \in Fleets
  /\ at \in [Numbers -> [disk : Disks, live : {TRUE}] \cup {None}]
  /\ \A d \in Disks :
       Cardinality({n \in Numbers : at[n] # None /\ at[n].disk = d}) <= 1
  /\ moves = 0
  /\ pc = "hubs" /\ hubs = NoSet /\ ids = NoSet
  /\ i = 0 /\ props = NoProps /\ name = 0
  /\ j = 0 /\ hDrive = None /\ drive = None
  /\ list = <<>> /\ complete = FALSE /\ sized = FALSE

-----------------------------------------------------------------------------
(* Disks that come and go                                                  *)

IsAt(n, d) == at[n] # None /\ at[n].disk = d /\ at[n].live

\* A disk is pulled out.  Its number stays taken while a handle is open on it.
Unplug ==
  \E n \in Numbers :
    /\ moves < MaxMoves /\ moves' = moves + 1
    /\ at[n] # None /\ at[n].live
    /\ at' = [at EXCEPT ![n] = IF hDrive = n THEN [@ EXCEPT !.live = FALSE]
                                             ELSE None]
    /\ UNCHANGED <<dev, pc, hubs, ids, i, found, loop, list, checked>>

\* A disk that is not there is put in and gets a free number.
Plug ==
  \E n \in Numbers, d \in Disks :
    /\ moves < MaxMoves /\ moves' = moves + 1
    /\ at[n] = None /\ \A m \in Numbers : ~IsAt(m, d)
    /\ at' = [at EXCEPT ![n] = [disk |-> d, live |-> TRUE]]
    /\ UNCHANGED <<dev, pc, hubs, ids, i, found, loop, list, checked>>

\* safe_closehandle(hDrive): the number of a disk that is gone becomes free.
Released ==
  [n \in Numbers |-> IF n = hDrive /\ ~at[n].live THEN None ELSE at[n]]
Close == hDrive' = None /\ at' = Released

\* What GetPhysicalHandle(n) opens, if it can be opened.  The scan's own handle
\* on the disk was opened for reading and writing and is shared for reading;
\* whether the system lets the disk be opened by number next to it is left open
\* here, at every call anew.
Opens(n) == IF at[n] # None /\ at[n].live THEN {None, at[n].disk} ELSE {None}

-----------------------------------------------------------------------------
(* Before the disks                                                        *)

\* The table of the ids found below hubs; any of the calls may fail, and
\* without a list of hubs or without memory there is no table.
BuildHubTable ==
  /\ pc = "hubs"
  /\ LET children == {d \in Disks : dev[d].hub}
     IN  \/ hubs' \in (SUBSET children) \cup {NoSet} /\ pc' = "ids"
         \/ hubs' = NoSet /\ pc' = "done"        \* malloc failed: goto out
  /\ UNCHANGED <<dev, world, ids, i, found, loop, list, checked>>

\* The ids the USB storage drivers handle, in one list.  The sizes of the
\* drivers' lists, and then the lists, may not be had: there is no list when
\* all sizes are 0, and one without contents when no driver's list follows.
BuildIdList ==
  /\ pc = "ids"
  /\ LET driven == {d \in Disks : dev[d].driver # "none"}
     IN  \/ /\ ids' \in {NoSet} \cup (IF driven = {} THEN {} ELSE SUBSET driven)
            /\ pc' = "next"
         \/ ids' = NoSet /\ pc' = "done"         \* malloc failed: goto out
  /\ UNCHANGED <<dev, world, hubs, i, found, loop, list, checked>>

\* SetupDiGetClassDevs and SetupDiEnumDeviceInfo
NextDisk ==
  /\ pc = "next"
  /\ IF i < N THEN i' = i + 1 /\ pc' \in {"classify", "done"}
              ELSE i' = i /\ pc' = "done"
  /\ props' = NoProps /\ name' = 0
  /\ UNCHANGED <<dev, world, hubs, ids, loop, list, checked>>

-----------------------------------------------------------------------------
(* What kind of disk it is                                                 *)

\* The loops over usbstor_name and genstor_name.  The first compares with
\* usbstor_name[0] in every round.
ByEnumerator(e) ==
  [vid |-> 0, usb |-> e = "USBSTOR", scsi |-> e \in {"SCSI", "CARD"},
   card |-> e = "CARD", uasp |-> FALSE, vhd |-> FALSE, removable |-> FALSE]

\* A disk of neither kind is "disabled by policy".
Classify ==
  /\ pc = "classify"
  /\ \/ /\ props' = ByEnumerator(dev[i].enumerator)
        /\ pc' = IF props'.usb \/ props'.scsi THEN "identify" ELSE "next"
     \/ props' = props /\ pc' = "next"           \* no enumerator name
  /\ UNCHANGED <<dev, world, hubs, ids, i, name, loop, list, checked>>

\* IsVHD: the VMware entry counts only in a cheat mode that is off.
IsVHD(hwid) == hwid = "vhd"

\* Hardware id, removal policy and friendly name; a property that cannot be
\* read counts as empty.
Identify ==
  /\ pc = "identify"
  /\ \E hw, pol, fn \in BOOLEAN :
       /\ props' = [props EXCEPT
            !.vhd = hw /\ IsVHD(dev[i].hwid),
            !.card = @ \/ (hw /\ dev[i].hwid = "scsiCard"),
            !.removable = pol /\ dev[i].policy]
       /\ name' = IF fn THEN dev[i].name ELSE 0
       /\ pc' = IF fn /\ ~props'.vhd /\ ids # NoSet THEN "match" ELSE "filter"
  /\ UNCHANGED <<dev, world, hubs, ids, i, loop, list, checked>>

\* The vendor the parent's id tells.
IdVid(k) == IF k.idvid THEN k.vid ELSE 0

\* GetUSBProperties: the hub tells the vendor, or leaves what was there.
GetUSBProperties(k, vid) == {k.vid, vid}

\* The disk's parent is looked for in the id list.  What matches decides
\* whether it is a UASP disk; the vendor comes from the id or, where the hub
\* is known, from the hub.  Without a table the index 0 is read all the same,
\* and a list without contents is whatever malloc returned.
Match ==
  /\ pc = "match"
  /\ \/ /\ (i \in ids /\ hubs = NoSet) \/ ids = {}
        /\ pc' = "crashed" /\ UNCHANGED props
     \/ /\ i \in ids /\ hubs # NoSet
        /\ LET vid == IdVid(dev[i])
           IN  \E v \in IF i \in hubs THEN GetUSBProperties(dev[i], vid)
                                      ELSE {vid} :
                 props' = [props EXCEPT !.uasp = (dev[i].driver = "uasp"),
                                        !.vid = v]
        /\ pc' = "filter"
     \/ pc' = "filter" /\ UNCHANGED props      \* no id matches
  /\ UNCHANGED <<dev, world, hubs, ids, i, name, loop, list, checked>>

\* Mutant of Eliminated: removable disks pass.
EliminatedFixedOnly(p) ==
  /\ ~p.vhd
  /\ ~(p.card /\ (~p.usb \/ p.vid = 0))
  /\ ~p.usb /\ ~p.removable /\ p.vid = 0

\* The chain of conditions before the interfaces: neither USB nor UASP but
\* removable, or none of these and without a vendor.
Eliminated(p) ==
  /\ ~p.vhd
  /\ ~(p.card /\ (~p.usb \/ p.vid = 0))
  /\ ~p.usb
  /\ \/ ~p.uasp /\ p.removable
     \/ p.vid = 0

\* The disk goes on to its interfaces unless it was eliminated.
Filter ==
  /\ pc = "filter"
  /\ pc' = IF Eliminated(props) THEN "next" ELSE "open"
  /\ j' = 0
  /\ UNCHANGED <<dev, world, hubs, ids, i, found, hDrive, drive, list, checked>>

-----------------------------------------------------------------------------
(* The loop over the interfaces of a disk                                  *)

\* GetDriveNumber, where it can be had.
GetDriveNumber(d) == {n \in Numbers : IsAt(n, d)}

\* The head of the loop: the handle of the round before is closed.  When there
\* is no interface j the loop ends; otherwise the disk is opened and its number
\* asked for, and where one of the calls fails the next interface is tried.
OpenInterface ==
  /\ pc = "open"
  /\ at' = Released
  /\ \/ pc' = "next" /\ hDrive' = None /\ UNCHANGED <<j, drive, checked>>
     \/ /\ j < dev[i].interfaces /\ j' = j + 1
        /\ hDrive' = None
        /\ UNCHANGED <<pc, drive, checked>>
     \/ \E n \in GetDriveNumber(i) :
          /\ j < dev[i].interfaces /\ j' = j + 1
          /\ hDrive' = n /\ drive' = n
          /\ pc' = "media" /\ complete' = FALSE /\ sized' = FALSE
  /\ UNCHANGED <<dev, moves, hubs, ids, i, found, list>>

\* A filter rejects the disk: the handle is closed and the loop left.
Break ==
  /\ Close /\ pc' = "next"
  /\ UNCHANGED <<dev, moves, hubs, ids, i, found, j, drive, list, checked>>

\* The disk passes a filter.
Pass(to) ==
  /\ pc' = to
  /\ UNCHANGED <<dev, moves, hubs, ids, i, found, j, drive, list>>

\* IsMediaPresent: only when the number can be opened.
IsMediaPresent(n) == {FALSE} \cup {d # None : d \in Opens(n)}

\* Mutant of CheckMedia: the handle is closed once the number is known.
CheckMediaClosed ==
  /\ pc = "media"
  /\ \/ Break
     \/ /\ TRUE \in IsMediaPresent(drive)
        /\ Pass("size") /\ Close /\ UNCHANGED checked

\* Mutant of CheckMedia: the disk is left open when it has no media.
CheckMediaLeak ==
  /\ pc = "media"
  /\ \/ /\ pc' = "next"
        /\ UNCHANGED <<dev, world, hubs, ids, i, found, loop, list, checked>>
     \/ /\ TRUE \in IsMediaPresent(drive)
        /\ Pass("size") /\ UNCHANGED <<at, hDrive, checked>>

\* A disk without media is rejected.
CheckMedia ==
  /\ pc = "media"
  /\ \E present \in IsMediaPresent(drive) :
       IF present THEN Pass("size") /\ UNCHANGED <<at, hDrive, checked>>
                  ELSE Break

\* GetDriveSize, where d is what could be opened.
Size(d) == IF d = None THEN 0 ELSE dev[d].size

\* The size must be at least MIN_DRIVE_SIZE.
CheckSize ==
  /\ pc = "size"
  /\ \E d \in Opens(drive) :
       IF Size(d) < MIN_SIZE
         THEN Break
         ELSE Pass("label") /\ UNCHANGED <<at, hDrive, checked>>

\* Volumes(n): the types of the volumes on a number.
Volumes(n) == IF at[n] # None /\ at[n].live THEN dev[at[n].disk].volumes
                                            ELSE <<>>

\* _GetDriveLettersAndType: which of these volumes get a letter in the answer;
\* one that cannot be opened is left out.
Letters(n) == SUBSET DOMAIN Volumes(n)

\* GetDriveType of the number: that of the last volume.
DriveType(n, letters) ==
  IF letters = {} THEN "unknown" ELSE Volumes(n)[Max(letters)]

\* A SCSI disk that is not removable, or that has a volume which is not.
FixedScsi(n, letters) ==
  /\ props.scsi /\ ~props.uasp /\ ~props.vhd
  /\ ~props.removable \/ \E v \in letters : Volumes(n)[v] # "removable"

\* GetDriveLabel: the letters, or NoSet when the drives cannot be listed.  The
\* label is not used.
GetDriveLabel(n) == {NoSet} \cup Letters(n)

\* The filters on the letters.  Without letters these are skipped, and the disk
\* is listed with its handle open.
ReadLabel ==
  /\ pc = "label"
  /\ \E letters \in GetDriveLabel(drive) :
       \/ /\ letters = NoSet
          /\ Pass("listUnlabelled") /\ UNCHANGED <<at, hDrive, checked>>
       \/ letters # NoSet /\ FixedScsi(drive, letters) /\ Break
       \/ /\ letters # NoSet /\ ~FixedScsi(drive, letters)
          /\ complete' = (letters = DOMAIN dev[i].volumes) /\ UNCHANGED sized
          /\ IF props.vhd \/ props.card
               THEN Pass("list") /\ Close
               ELSE Pass("score") /\ UNCHANGED <<at, hDrive>>

\* Mutant of SizeScore: the bounds are taken in the wrong order.
SizeScoreSwapped(size) ==
  IF size > SMALL THEN 0 ELSE IF size < LARGE THEN -10 ELSE 10

\* IsHDD's points for the size.
SizeScore(size) ==
  IF size > LARGE THEN 10 ELSE IF size < SMALL THEN -10 ELSE 0

\* IsHDD: points for the type, the size, the name and the vendor.
IsHDD(type, size) ==
  (IF type = "fixed" THEN 3 ELSE 0) + SizeScore(size)
    + name + (IF props.vid = 0 THEN 0 ELSE VidScore[props.vid])

\* IsHDD asks for the drive letters and for the size once more; a size that
\* cannot be had counts as 0.
Score ==
  /\ pc = "score"
  /\ \E letters \in Letters(drive), d \in Opens(drive) :
       IF IsHDD(DriveType(drive, letters), Size(d)) > 0
         THEN Break
         ELSE /\ Pass("list") /\ Close
              /\ sized' = (d # None) /\ UNCHANGED complete

\* The size is asked for once more and the disk listed; the loop goes on.
List ==
  /\ pc \in {"list", "listUnlabelled"} /\ pc' = "open"
  /\ \E d \in Opens(drive) :
       list' = Append(list,
         [disk |-> i, num |-> drive, bytes |-> Size(d), props |-> props,
          name |-> name, labelled |-> pc = "list",
          complete |-> complete, sized |-> sized])
  /\ UNCHANGED <<dev, world, hubs, ids, i, found, loop, checked>>

Scan ==
  \/ BuildHubTable \/ BuildIdList \/ NextDisk
  \/ Classify \/ Identify \/ Match \/ Filter
  \/ OpenInterface \/ CheckMedia \/ CheckSize \/ ReadLabel \/ Score \/ List

Next == Scan \/ Unplug \/ Plug

Spec == Init /\ [][Next]_vars /\ WF_vars(Scan)

-----------------------------------------------------------------------------
(* Properties                                                              *)

Listed == {list[k] : k \in DOMAIN list}

Props == [vid : Vids \cup {0}, usb : BOOLEAN, scsi : BOOLEAN, card : BOOLEAN,
          uasp : BOOLEAN, vhd : BOOLEAN, removable : BOOLEAN]
Entries == [disk : Disks, num : Numbers, bytes : Nat, props : Props,
            name : Int, labelled : BOOLEAN, complete : BOOLEAN,
            sized : BOOLEAN]

\* Types; no interface is asked for past the last one.
TypeOK ==
  /\ dev \in Fleets
  /\ at \in [Numbers -> [disk : Disks, live : BOOLEAN] \cup {None}]
  /\ moves \in 0..MaxMoves
  /\ pc \in {"hubs", "ids", "next", "classify", "identify", "match", "filter",
            "open", "media", "size", "label", "score", "list",
            "listUnlabelled", "done", "crashed"}
  /\ hubs \in (SUBSET Disks) \cup {NoSet}
  /\ ids \in (SUBSET Disks) \cup {NoSet}
  /\ i \in 0..N /\ j \in Nat
  /\ j = 0 \/ \E d \in Disks : j <= dev[d].interfaces
  /\ props \in Props /\ name \in Int /\ list \in Seq(Entries)
  /\ hDrive \in Numbers \cup {None} /\ drive \in Numbers \cup {None}
  /\ complete \in BOOLEAN /\ sized \in BOOLEAN

\* A disk that is built into the computer - not driven by a USB storage driver,
\* not a card reader and not a virtual disk - is never offered for erasing,
\* whether it counts as removable or not, and whatever could not be read.
BuiltIn(k) ==
  k.enumerator \in {"SCSI", "other"} /\ k.driver = "none"
    /\ k.hwid \in {"disk", "vmware"}
NoBuiltInDisk == \A e \in Listed : ~BuiltIn(dev[e.disk])

\* Which hard disks are kept out.  A disk of more than 512 GB is not offered
\* where IsHDD was asked and got its size, unless its name or its vendor speaks
\* for flash: neither the type of the volumes nor a vendor or a name that could
\* not be found out changes that, nor a disk that is moved.  IsHDD is asked
\* about a disk whose letters GetDriveLabel could list and that is neither a
\* card reader nor virtual; a size it cannot read counts as 0, 10 points for
\* flash, and then a large hard disk may be offered (gondar.cc:731).  A disk on
\* the SCSI bus that is neither UASP nor virtual and whose letters could be
\* listed is removable, and where every volume was read so are all its volumes
\* ("If they are not removable, don't allow the drive to be listed").
NoHardDisk ==
  \A e \in Listed :
    LET d == dev[e.disk]
    IN  /\ e.sized /\ d.size > LARGE => d.name < 0 \/ VidScore[d.vid] < 0
        /\ e.labelled /\ e.props.scsi /\ ~e.props.uasp /\ ~e.props.vhd =>
             /\ d.policy
             /\ e.complete => \A v \in DOMAIN d.volumes :
                                d.volumes[v] = "removable"

\* While the filters ask for media, size, volumes and type by number, that
\* number belongs to the disk in question or to nobody: the handle that is
\* still open keeps it from being given to another disk.
AsksAboutItself ==
  pc \in {"media", "size", "label", "score"} =>
    at[drive] # None /\ at[drive].disk = i

\* No disk stays open when the scan turns to the next one or ends, also where a
\* disk was listed with its handle open: that handle is shared for reading only
\* and would keep the disk from being opened for writing later.
HandleClosed == pc \in {"next", "classify", "done"} => hDrive = None

=============================================================================
