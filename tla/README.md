# ThOS USB Maker: TLA+ models, checks and proofs

ThOS USB Maker ("Gondar" in the source) is a Qt wizard for Windows that downloads an
operating-system image, unpacks it and writes it to a USB device. The code under
verification is `src/src/`, and of the bundled libraries `gdisk` and `libmicrohttpd` the part
the program runs: the one writes the partition table of the user's disk, the other answers the
browser on a thread of its own. `minizip` and `plog` appear only through what the program's own
code asks of them.

## 1. The system

| Component | State it keeps | Operations | Interacts with |
|---|---|---|---|
| Disk writer (`diskwritethread.*`, `gondar.cc` `Install`, `Format`, `WriteDrive`; `gpt_pal.cc`, `mkfs.cc`) | `state_`, the two handles and their file pointers, buffer, bytes written, retry counter; the disk itself | start, clear the partition table, partition and format, copy loop with retries | started by the write page; shares disk and image file with the rest of the world |
| Wizard (`gondarwizard.*`, the pages, `wizard_page.cc`, `error_page.cc`) | current page and history, button layout, error text, `formatOnly`, every page's flags | `next`, `nextId`, `restart`, `postError`, `catchError`, custom button | everything |
| Image URL (`newest_image_url.*`, `admin_check_page.*`) | URL, error flag | fetch, handle reply | first page |
| Device choice (`usb_insert_page.*`, `device_picker.*`, `device_select_page.*`) | drive list, poll timer, checked button | poll, refresh, select, validate | device enumeration, write page |
| Downloader and download page | queue, current download, output file, completion flag | append, start next, finish, mark complete | unzip thread |
| Unzip thread (`unzipthread.*`, `neverware_unzipper.*`) | file name | run | download page, write page |
| Meepo client (`meepo.*`, login page) | token, sites, error, `sites_remaining_`, the page's `started`/`finished` | start, dispatch of the five kinds of reply, fail | wizard, network |
| Google sign-in (`googleflow.*`, `oauth_server.*`) | `http_server_started`, the daemon, token requests | start, stop, answer a request, exchange the code, fail | login page; the polling thread signals into the main thread, which stops and joins it |
| Web server (`libmicrohttpd`, internal polling thread with `select`) | shutdown flag, wake-up channel, list of connections; per connection a state, a request, a response and a memory pool | accept, read, parse, call the handler, send, reset, close, stop | OAuth server |
| Partition table (`gdisk`, through `gpt_pal.cc`) | two headers, table, protective MBR, CRC flags, the open drive | load, start over, create the partition, check, save, verify | disk writer |
| Device enumeration (`gondar.cc` `GetDevices` and helpers, `hdd_vs_ufd.h`) | hash table of device ids | enumerate, score, filter | device choice |
| Drive access (`gondar.cc` `GetHandle`, `OldGetHandle`, `GetLogicalName`) | handle | open with retries, lock, unmount | disk writer |
| Metrics, update check, dialogs, logging, prompt dismisser | little or none | one request or one display each | |

Two kinds of concurrency exist. Everything except three threads (unzip, disk write, OAuth
server) runs in Qt's event loop, where handlers are atomic and only their order is free:
clicks, zero-length and one-second timers, network replies, and the `finished()` signals of
threads. The threads run against the world: the user pulls out or swaps disks, a second copy
of the program rewrites the image file, every system call may fail or do half its work.

What is hard here, and where the properties aim (the full list with line numbers is
`hazards` in `PROJECT.json`):

* partial writes and the retry that follows them; unsigned arithmetic at the end of the image;
* a physical drive number that is remembered and looked up again later;
* sizes read at one moment and used at another;
* errors that are posted through a timer while input is already queued;
* handlers that call `next()` on whatever page is current;
* flags that survive a refused navigation or a restart;
* replies overtaking each other, and replies of an attempt already given up;
* an empty string used as the order to format;
* a system disk that gets past the filters because something could not be read;
* a hash table that is full, or that has a slot it could not fill;
* a partition table written in four writes, any of which may fail or be the last one;
* unsigned sector numbers on a drive smaller than the table;
* another program that holds the disk, and retries that turn on write sharing to get past it;
* a server stopped from another thread between any two steps of a request;
* requests split anywhere by the network, in one fixed block of memory that also holds
  the reply and the pointers into the request.

## 2. Modules

| Module | Models | Composition |
|---|---|---|
| `WriteJob` | what a disk write promises the page that started it | abstract specification |
| `DiskWrite` | `DiskWriteThread`, `Install`, `Format`, `formatShared`, `WriteDrive`, table writers | implements `WriteJob` (`ImplementsJob`) |
| `DiskWriteProofs` | invariance proofs about `DiskWrite`, and that it implements `WriteJob` | extends `DiskWrite` |
| `WizardFlow` | wizard, pages, downloader, unzip thread; write threads as `WriteJob` | uses the steps of `WriteJob` for its threads |
| `WizardFlowProofs` | invariance proofs about `WizardFlow` | extends `WizardFlow` |
| `Meepo` | `Meepo` and the login page's handlers | its `finished()`/`failed()` are the `MeepoFinished`/`MeepoFailed` of `WizardFlow` and of `OauthFlow`, which let them come at any time |
| `DevidTable` | the hash table of device ids (`htab_create`, `htab_hash`, `htab_destroy`) | what a lookup finds is the set `hubs` of `DeviceScan` |
| `DevidTableProofs` | invariance proofs about `DevidTable`, and the number theory of its probes | extends `DevidTable` |
| `DeviceScan` | `GetDevices` and the queries it makes, disks coming and going | its list is what `WizardFlow`'s scan chooses from |
| `DeviceScanProofs` | invariance proofs about `DeviceScan` | extends `DeviceScan` |
| `GptData` | `clearMbrGpt`, `makeEmptyPartition` and what they run of gdisk's `GPTData`, `MBRData`, `DiskIO` | the inside of `FormatShared` and `MakeEmptyPartition` of `DiskWrite` |
| `GptDataProofs` | invariance proofs about `GptData` | extends `GptData` |
| `DriveAccess` | `GetHandle`, `OldGetHandle`, and how `Install` opens, locks and closes | the inside of the opens of `DiskWrite` |
| `DriveAccessProofs` | invariance proofs about `DriveAccess` | extends `DriveAccess` |
| `RequestLife` | what the web server promises the program that starts it | abstract specification |
| `OauthServer` | `oauth_server.cc` and the polling thread of libmicrohttpd; clients | |
| `OauthFlow` | `googleflow.cc` and the login page's handlers in the main thread | extends `OauthServer`; implements `RequestLife` (`KeepsPromise`) |
| `OauthFlowProofs` | invariance proofs about `OauthFlow`, and that it implements `RequestLife` | extends `OauthFlow` |
| `RequestBuffers` | the memory pool of a connection, reading, parsing and answering in it | refines one connection of `OauthServer` in the data it keeps there |
| `RequestBuffersProofs` | invariance proofs about `RequestBuffers`, with a lemma for each operation of pool and parser | extends `RequestBuffers` |
| `MC_...` | constants for TLC | extend the modules above |

### DiskWrite

One action per call that can fail or that reads something which may have changed since: `Run`,
`WriteImage` (file size), `GetSectorSize`, `GetDriveSize`, `FormatShared` (clear the table) and
`FormatSharedReturns`, `OpenHandles`, `ReadChunk`, `WriteChunk`/`WriteFails`, `Retry`/`GiveUp`,
`LoopEnds`, and for formatting `MakeEmptyPartition`, `MakeFilesystem`, `FormatDrive`. The world is
`Unplug`, `Plug` (any disk can take the free number) and `ReplaceFile`. `pc` names the call the
thread makes next. Byte k of the image is the number k, so misplaced bytes are visible; contents
that do not come from the image (`OLD`, `TABLE`, `JUNK`) are negative. `Clip` and `WholeSectors`
keep the unsigned arithmetic and the cut to a `DWORD`. The history variable `victim` is the disk the
handle was opened on.

A read returns everything up to the end of the file or the buffer, as it does for local
files. A failing write may still have put whole sectors on the disk and moved the file
pointer. Of the table writers the model keeps what `GptData` shows of them: any of the
sectors of the two tables may be written or not, a backup whose size was made up may be
anywhere, and the verdict is about the table in memory, so that either may go with any
of these (`SaveTable`). Closing and re-reading the layout have no effect on the contents and
are part of `Return`. The retry loops inside `GetHandle` appear as one open that works or not.

### WizardFlow

One action per slot or overridden method that Qt calls. `Advance` is `QWizard::next()` with the
page's `validatePage()` and `nextId()`; as in Qt it does not look at `isComplete()`, which only
enables the Next button (`UpdateButtons`). `SwitchTo` includes the `initializePage()` of the page
entered. `chromeover` is the build's product flag. The download manager keeps its queue, its timers
and how often `markComplete` is connected, since the download page can be entered a second time
while a download runs; `strays` counts the unzip threads that were replaced before their end was
seen. Meepo's signals come at any time once a login has begun, more than once, and also after the
page was re-armed (`MeepoFinished`, `MeepoFailed`, `GoogleSigninFinished`). Any number of clicks may
be handled before the zero-length timer of `postError`; `err` counts the timers. `asked` (how the
user left the first page) and `hurried` (a `finished()` of Meepo has moved the wizard from the
download page to the write page) are history variables. A program that destroys a running `QThread`,
or that terminates on an exception, leaves `alive`.

### Meepo

`net` is the bag of requests without a reply; each request carries the attempt it was sent
in, because replies are not cancelled when an attempt is given up. `DispatchReply` has one
disjunct per handler plus `NetworkError`. `SitesReply` keeps the code's way of asking again
for the sites of all earlier pages. `hasty` is a history variable: the page was re-armed by a
failed request while others were out.

### DevidTable

`Create`, `AddChild` (a child of a hub is entered with its hub), `EndHubs`, `Lookup` (a disk's
parent or grandparent, entered when it is not found) and `Destroy`. `Search` is the probe
sequence of `htab_hash` and `HtabHash` the outcomes of a call, a failed allocation included: the
slot is then marked as used, but not counted in `filled`. The value of the sdbm hash is a
function chosen at the start, so that the collisions are an input. The data of a slot is the id
its hub was stored for rather than the hub's index, so that a wrong hub is visible.

### DeviceScan

`pc` names the next call of `GetDevices`: `BuildHubTable`, `BuildIdList`, then for each disk
`Classify` (enumerator), `Identify` (hardware id, removal policy, name), `Match` (parent in the
id list, vendor), `Filter`, and for each interface `OpenInterface`, `CheckMedia`, `CheckSize`,
`ReadLabel`, `Score` (`IsHDD`), `List`. Every read may fail. A disk is a record of what Windows
says of it (`Kinds`); the name, vendor and product tables appear as scores. `at` maps a drive
number to a disk; `Unplug` and `Plug` change it between any two calls. As in Windows, the number
of a disk that was pulled out stays taken while a handle is open on it. `complete` and
`sized` are history variables of the disk being checked: every volume of it was read, and `IsHDD`
was asked and got its size. Whether a disk can be opened by its number next to the handle
the scan holds is left open at every call. The
switches `enable_HDDs`, `enable_vmdk` and `list_non_usb_removable_drives` are never set and have
their value `false`.

### GptData

The drive maps sectors to what was last written there. `LoadOpen`, `LoadTest`, `LoadReopen`,
`LoadSize`, `ReadMBR` and `StartOver` are `LoadPartitions`; between the last two come the reads of
`ForceLoadGPTData` (two headers, the table of one, the comparison with the other, the backup instead
of a bad main table), which leave a buffer with any value of `Garbage`, or with what was read
before, when they fail; `WriteProtectiveMBR`, `ClearTable` and `ClearDisk` build the new table;
`SaveChecks`, `SaveOpen`, the four writes of tables and headers and `SaveMBR` are `SaveGPTData`;
`VerifyTable` and `Return` give the verdict. Each of them makes one call to the drive (`ReadMBR`
asks for the size a second time), may fail, and may be the last thing that happens. A size that
cannot be asked for is not reported: `DiskSize` makes one up from what `GetFileSize` leaves behind
(`MadeUp`), and the drive without a medium always gets such a one. What gdisk computes in memory is
in operators with gdisk's names (`SetGPTSize`, `Align`, `CreatePartition`, `Verify`, ...), in
unsigned arithmetic modulo `Word`. A CRC is the value it was computed from. The drive starts empty,
with a table of this program, or with one of another size that an image left (`ImageDisk`); header
fields the constructor does not set have any value of `Garbage`.

### DriveAccess

`TryOpen` and `TryLock` are one round of the two retry loops, for the four calls `Install` makes
(sector size, drive size, physical and logical handle); `AskGeometry`, `FormatShared`,
`GetLogicalHandle` and `Write` are what happens between and after them. Other programs open and
close disk and volume at any time with any access and sharing. Windows' rules for granting an open
or a lock are external (`Grants`, `Alone`); they are about handles of different programs and steps,
while the two handles the scan of `DeviceScan` has on one disk are not covered by them. `naps` and
`hasty` are history variables.

### OauthServer and OauthFlow

`pc` is where the polling thread is: deciding about the shutdown (`loop`), in `select`, accepting,
going round the connections (`CallHandlers`, `FastTrack`, one action per case of
`MHD_connection_handle_idle`), queueing a response, refusing, closing all at the end. The main
thread's `stop()` is three steps, flag, wake-up and join, which fall between any two of them. On
Windows `HAVE_LISTEN_SHUTDOWN` is not defined, so the wake-up is the inter-thread channel.
Signals of the server's thread are queued and delivered in batches (`Delivers`). Of Meepo
only the signals are here, at any time and any number of times once a login has begun
(`MeepoEmits`). A connection closed inside `transmit_error_response` is in no set of `select` and is
freed when something else wakes the thread (`Wants`). A request is
what it will make the handler do (`Kinds`): with a code, with an error, with a body, malformed.
`calls` counts the handler's calls for the current request; through it `RequestLife` sees the
server.

### RequestBuffers

One connection over its whole life. `con.mem` is the pool, and a byte of it is the number of the
byte of the client's stream it came from: a byte that was overwritten, lost or read twice is visible
as such. The operators have libmicrohttpd's names; each takes a connection and returns it changed.
`MHD_connection_handle_read` gets any number of the bytes that are there,
`MHD_connection_handle_write` sends any number. An empty line in front of a request is skipped, one
for each call of the handlers; what follows it is looked at when something else wakes the thread
(`skipped`, `Woken`). A reset that keeps more than half the pool leaves lengths that do not agree
with the pool, and the model of the connection ends there (`pc` is `"overrun"`). `Shown` is what the
handler can look at at its final call; the definitions behind it (`UrlSaid`, `ArgsSaid`,
`FieldSaid`) say what the client sent from the stream alone, without the parser.

## 3. Runs

| Run | Checks | Result |
|---|---|---|
| `DiskWrite` | `BytesInPlace`, `ImageWritten`, `NoOverrun`, `ImplementsJob`, `Terminates` | holds |
| `DiskWrite_install` | `InstallReturnsTrueOnSuccess` (`gondar.h:24`) | violated: drive size 0 or below the image size ends the loop with `true` |
| `WizardFlow` | `TypeOK`, `SingleWriter`, `ImageBeforeWrite`, `DeviceOfThisRound`, `NoWriteAfterError`, `ErrorShown`, `Settles` | holds |
| `WizardFlow_stuckformat` | `NextMeansInstaller` (`usb_insert_page.cc:26`) | violated: the format flag survives a refused navigation |
| `Meepo` | `CounterExact`, `OnePageLogin`, `OneLogin`, `Answered` | holds |
| `DevidTable` | `FoundAgain`, `NoSlotMissed` | holds |
| `DeviceScan` | `NoBuiltInDisk`, `NoHardDisk`, `AsksAboutItself`, `HandleClosed` | holds |
| `GptData` | `StartedOver`, `OneCopyIntact`, `SavedPartitionSane`, `VerdictExact`, `FailedLoadHarmless` | holds |
| `GptData_savefails` | `SaveReportsFailure` (`gpt.cc:1138`) | violated: a failed write on Windows returns 0, the code looks for -1 |
| `OauthFlow` | `AcceptResumes`, `SendsAResponse`, `KeepsPromise`, `NoStaleError`, `StopReturns` | holds |
| `DriveAccess` | `WritesAlone`, `NeverInOwnWay`, `InstallReturns` | holds |
| `RequestBuffers` | `BlocksApart`, `BytesInOrder`, `HandlerSeesRequest`, `SmallIsServed`, `AllAnswered` | holds |

Every property of a passing run has a mutant of the modelled code, an operator that stands just
before the definition it varies, under which TLC finds it violated; `mutants` in `PROJECT.json`
lists them. The type invariants of `DiskWrite`, `DeviceScan` and `DriveAccess`, and `BufferBound`,
`NapsBounded` and `FirstInstallPatient`, are proved (section 4) and are in no run.

Bounds.

* `DiskWrite`: 512, 65536 and 2^32 are scaled to sectors of 2 and 4 bytes, a buffer of 4
  and a `DWORD` of 16 values, keeping the relations the code relies on (sector sizes divide
  the `DWORD`, the buffer is smaller than it). The files have 0, 3, 8, 9 and 13 bytes: empty,
  below a sector, exactly the smaller disk, not a multiple of a sector and larger than either
  disk. Two disks of 8 and 12 bytes with different sector sizes make swapping observable.
  `WRITE_RETRIES` is the code's 3. Nothing else is bounded: every copy is finite.
* `WizardFlow`: three devices, one below 6 GB, so that a scan can list devices of which some
  cannot be chosen. `MaxSignals` is 2: the second `finished()`, or a "no sites" after a
  `finished()`, is the one that finds a page it was not meant for. Nothing else is bounded;
  the clicks before a timer are as many as the pages allow.
* `Meepo`: accounts without sites, with one page of two or three and with two pages; two
  attempts, which suffices for replies to arrive in an attempt they do not belong to; one
  metric.
* `DevidTable`: six ids, one more than the smallest table has slots, so that it fills up and
  overflows; sizes 4 and 8, of which the second passes 9, an odd number that is not a prime;
  hashes that all collide, or that collide in part with 0 and multiples of the size among them.
  `MaxFailures` is 1: one failed allocation is enough for `filled` to lag behind.
  `DevidTableProofs` removes these bounds.
* `DeviceScan`: the system disk and one disk of each of fourteen kinds (sticks and disks on USB
  and UASP, card readers, virtual, VMware and hot-swap disks), two drive numbers and `MaxMoves`
  3: a disk is pulled out, another gets its number, and one more change follows.
* `GptData`: a table of 2 sectors and an alignment of 3; drives of 0, 3, 6 and 11 sectors: no
  medium, too small for the two tables, room for no aligned partition, and for both. The made-up
  sizes 5 and 24 lie within a drive, behind its end, or so far behind it that no offset leads there
  (`SeekLimit` is 20); the code's is at least 0xFFFFFFFF bytes, with any high half. An image left a
  table of 3 sectors, larger than the program's own. 61 as an uninitialised value wraps around the
  modulus of 64. `GptDataProofs` removes these bounds.
* `OauthFlow`: two connections, which is also the limit, and two requests in all: enough for one
  request to be stopped in the middle of another, for a redirect sent twice and for a server
  started again. No limit is put on starts and stops.
* `DriveAccess`: two other programs, so that one may hold what another has just let go; 4 tries,
  where a third of them (integer division) is passed before the last; two calls of `Install`,
  the second with what the first left behind. `DriveAccessProofs` removes these bounds.
* `RequestBuffers`: the pool of 32 K is 40 bytes, 1 K of growth 8, an alignment 2, a record 3 (so
  that rounding matters), a reply's head 5. The twenty-five streams have requests in the pipeline,
  both ends of line, arguments, cookies that fit, that do not fit and that need too many records,
  headers continued once and twice, heads shorter than half the pool, exactly that long, longer, and
  longer than the pool, too many arguments or headers, lines that are malformed, empty lines in
  front of and after requests, and a pipeline that leaves more than half the pool unread behind one;
  every way of splitting each is explored. The buffer grows in place, moves, asks for half the pool
  and is refused in some of them. `RequestBuffersProofs` removes these bounds for the layout of the
  pool and the order of the bytes.

Fairness. `DiskWrite`: weak fairness of the thread's steps, the operating system schedules it and
system calls return. `WizardFlow`: weak fairness of the timer of `postError`, and of what is already
queued, the threads and the download; none for the user, for the polling or for the servers.
`Meepo`: every request ends in a reply or an error (`QNetworkAccessManager`). `OauthFlow`: weak
fairness of the polling thread, of the main thread inside `stop()` and of the delivery of queued
signals; none for the user, the browser or the network. `DriveAccess`: weak fairness of the write
thread, whatever the other programs do. `RequestBuffers`: the client sends its whole stream and
takes what is sent to it, and the thread goes round; nothing is assumed of other connections that
would wake it (`Woken`). This is weak fairness of `Next`, with the state predicate `Ready` (there is
something to do in `call_handlers`, or the socket `select` waits for is ready) written out where
`WF` has `ENABLED`, because evaluating that for the parser's steps is slow; in the states of the run
the two agree. Deadlock is checked in `GptData` and `DriveAccess`; in the other runs jobs end,
windows close, attempts and requests are bounded, and a connection that is gone does nothing more.

## 4. Proofs

### DiskWrite

All constants are arbitrary within the assumptions of `DiskWrite`: `DiskAssumption`,
`SizeAssumption` and `WidthAssumption` (sector sizes are at least `MIN_SECTOR`, divide the
`DWORD`, and the rounded buffer is smaller than it).

| Theorem | Statement |
|---|---|
| `TypeCorrect` | `Spec => []TypeOK` |
| `NeverMisplaced` | `Spec => []BytesInPlace` |
| `SuccessMeansWritten` | `Spec => []ImageWritten` |
| `NeverOverruns` | `Spec => []NoOverrun` |
| `WithinBuffer` | `Spec => []BufferBound` |
| `DiskWriteImplementsJob` | `Spec => ImplementsJob` |

None of these is inductive alone; not even the types, because a byte on a disk is a number
only if the write stays inside the buffer. The inductive invariant `IInv` adds: which locals
are set at which `pc` (`ControlInv`); no image byte is on any disk before the image file is
open, and the file cannot be replaced after that (`CleanInv`); between chunks `wb` is a
multiple of the sector size below `image_size + sector_size`, and equals the read position
unless everything that matters has been written (`LoopInv`); the buffer holds the bytes that
follow `wb` (`ChunkInv`); everything below `wb` is on the disk (`CoveredInv`). `IInv` holds in
every state of the `DiskWrite` run as well.

The arithmetic is in `ChunkSize`: while `wb < image_size` the size of a write is the clipped
size rounded up and fits the buffer, and once `wb` has passed `image_size` by less than a
sector the wrapped difference rounds to exactly the width of a `DWORD`, which is cut to 0.
The refinement adds `JobInv`: nothing is touched before the image's size is known, and the
buffer never holds the value that stands for old contents, so that a touched disk stays
touched.

### DeviceScan

The constants satisfy `ScanAssumption`: any number of disks of any kind, any drive numbers,
`MIN_SIZE < SMALL < LARGE`, and any bound on the moves.

| Theorem | Statement |
|---|---|
| `TypeCorrect` | `Spec => []TypeOK` |
| `BuiltInNeverListed` | `Spec => []NoBuiltInDisk` |
| `ChecksOwnDisk` | `Spec => []AsksAboutItself` |
| `NothingLeftOpen` | `Spec => []HandleClosed` |
| `HardDisksOut` | `Spec => []NoHardDisk` |

The inductive invariant adds: the id list holds only disks a USB storage driver handles (`IdInv`);
for a built-in disk none of the flags that let it pass is set, from `Classify` on (`FlagInv`), so
`Filter` eliminates it and no disk whose interfaces are looked at is built in (`FilterInv`); while a
disk is checked the handle is open on it, under its number, and outside the loop none is open
(`HandleInv`), which is why `Unplug` leaves the number taken and `Plug` cannot give it away; the
indices are in range (`IndexInv`). `BuiltInNeverListed` does not need the filters after
`OpenInterface`, which is why it also covers disks whose drive letters could not be read.

`HardDisksOut` rests on these and on `HardInv`. The filters decide from what was read earlier, so
it says where that came from: what is known of the disk is its own or is missing, and
`removable` is set only for a disk whose policy says so (`SourceInv`); and passing a filter
leaves behind what it tested, removable volumes for a disk on the SCSI bus and, for a large one, a
name or vendor that speaks for flash (`PassedInv`). A missing name or vendor scores 0, which never
speaks for flash, and a disk that is moved while it is checked is followed by its handle
(`HandleInv`). Two reads that fail do let a hard disk through, and the property says so: a size
`IsHDD` cannot read counts as 0 and speaks for flash (`sized`), and a volume that is not read does
not count as fixed (`complete`).

### DriveAccess

`AccessAssumption` asks for at least one try; the other programs are any set, and there is any
number of calls of `Install`.

| Theorem | Statement |
|---|---|
| `TypeCorrect` | `Spec => []TypeOK` |
| `WritesAloneAlways` | `Spec => []WritesAlone` |
| `NeverInOwnWayAlways` | `Spec => []NeverInOwnWay` |
| `NapsBoundedAlways` | `Spec => []NapsBounded` |
| `FirstInstallPatientAlways` | `Spec => []FirstInstallPatient` |

`WritesAlone` cannot stand by itself: that nobody else has the disk during the write follows from
the lock taken steps before, during which the other programs go on opening things. The inductive
invariant says which call each step belongs to (`ControlInv`), where a handle may be open and from
when on only with its lock (`HandleInv`), that a lock belongs to an open handle and shuts the
others out (`LockInv`), how much may have been slept at each step of each call (`NapInv`; the bound
`6 * DRIVE_ACCESS_RETRIES - 2` is the sum over the calls), and that an error in `FormatStatus`
comes from an earlier `Install` (`StatusInv`). The Boolean variables are kept in an invariant of
their own (`FlagsOK`).

### WizardFlow

`WizardAssumption`: any set of devices of which any are large enough, either product, and any
number of signals from Meepo.

| Theorem | Statement |
|---|---|
| `TypeCorrect` | `Spec => []TypeOK` |
| `OneWriter` | `Spec => []SingleWriter` |
| `RightDevice` | `Spec => []DeviceOfThisRound` |
| `ImageReady` | `Spec => []ImageBeforeWrite` |
| `ErrorStopsWrites` | `Spec => NoWriteAfterError` |

All hold of every session, whatever Meepo signals and when. A write thread lives only while its page
is shown, the page is not left before the signal of its end is handled, and "Make Another USB" is
offered only after that (`WriterInv`); the drive list is replaced only while it is empty or when a
round begins, so that what was selected from it stays in it (`DeviceInv`).

`ImageInv` says that the download is asked for once, that one unzip thread at most is started, and
that the download page is left only for an error or when the signal of that thread has been
handled, so that nothing reads the name it writes. A late `finished()` of Meepo that finds the
download page makes all of this false, for the rest of the session; `hurried` marks such sessions,
and the property names the exception. `TypeCorrect` needs that a download that ends has been
connected to `markComplete` (`CountInv`). For `ErrorStopsWrites` it suffices that `errorText`, once
`catchError` has set it, is never cleared and diverts `nextId()` on every page; it does not hold
from `postError` on, since clicks can come first.

### GptData

`GptConstants`: drives and tables of any size and any alignment; sector numbers have room for the
drive, or the made-up size, the table and the alignment in half of their width, and a made-up size
is larger than one table; an uninitialised header field has any
value but the one for which the code does not end (section 5).

| Theorem | Statement |
|---|---|
| `TableInvariant` | `Spec => []Inv` |
| `LeavesNoTrace` | `Spec => []StartedOver` |
| `SavedSane` | `Spec => []SavedPartitionSane` |
| `NeverWithoutACopy` | `Spec => []OneCopyIntact` |
| `VerdictIsExact` | `Spec => []VerdictExact` |
| `FailedLoadIsHarmless` | `Spec => FailedLoadHarmless` |

There is a lemma for each operation of gdisk on the object (`SetGPTSize`, `MoveSecondHeaderToEnd`,
`ClearGPTData`, `Align`, `CreatePartition`, ...) and one for each step. The object is either that of
an empty drive of the size `DiskSize` gave, whatever was loaded before (`Ready`), or that of a drive
that could not be opened, which has no name left to be opened by (`Failed`), and nothing in between
(`LoadInv`). The size is the drive's unless a call failed (`Sized`): from the first follow
`LeavesNoTrace` and the place of the partition (`PartInv`), from the second that a failed load
cannot write. `Started` also gives where the four areas are; on a drive with room (`Roomy`) whose
size is known they do not meet, so that each write leaves the others alone, and what is written
carries the CRC of what it is (`CrcInv`). `CopyInv` follows the save: the backup is whole before the
main copy is touched. It needs one fact about what other programs left, `MainFits`: the table of a
main header that is on the drive ends before the place of the new backup. On drives without room the
sector numbers wrap; `SavedSane` covers those as well. `Inv` holds in every state of the `GptData`
run.

### OauthServer and OauthFlow

`LimitAssumption` and `RequestsAssumption`: any connections, any limit but 0 and any number of
requests.

| Theorem | Statement |
|---|---|
| `ServerSafe` | `Spec => []ServerInv` |
| `AlwaysAResponse` | `Spec => []SendsAResponse` |
| `AcceptGoesOn` | `Spec => []AcceptResumes` |

| `ErrorsAreOfThisServer` | `Spec => NoStaleError` |
| `PromiseKept` | `Spec => KeepsPromise` |

`ServerInv` says that a socket is in one list at most and there once, and that the connections
still to be visited are in the list of connections (`ListInv`); where the thread is and what that
says of its lists and of the connection it is at (`ThreadInv`); and how often the handler has been
called in each state of a connection (`CallsInv`). The last has one exception, which the proof
attempt showed to be real: a request that is answered while the server is being stopped gets no
response, since `MHD_queue_response` then returns `MHD_YES` without queueing, and stays in its
state although the handler has answered. Such a connection (`Stranded`) is not visited again before
everything is closed, which is what keeps the handler from being called a third time and makes the
refinement hold. For `PromiseKept` every step of the thread that calls the program is a step of
`RequestLife`, and every other one leaves its variables alone.

The main thread adds `FlowInv`: a signal still queued when the server has ended is delivered in the
batch that is going on, or the page is left, so that no error outlives its server.

### DevidTable

`TableAssumption`: any device ids, any hash values for them, any sizes asked for from 2 on and any
number of failed allocations. `PrimeAssumption` is the one fact of mathematics that is assumed and
not proved: there is a prime between a number and its double, so that the search of `htab_create`
for one ends. TLC evaluates both on the instance of the run.

| Theorem | Statement |
|---|---|
| `TableInvariant` | `Spec => []TableInv` |
| `FoundAtItsPlace` | `Spec => []FoundAgain` |
| `EverySlotVisited` | `Spec => []NoSlotMissed` |

`isprime` tries odd dividers up to the root; the lemmas show that what it accepts has no divider at
all, that a product of two numbers below such a size is not a multiple of it, and hence that the
`size` probes of an id, which step by a second hash below the size, are all different: they visit
every slot from 1 to `size`, and slot 0 never. The table needs more than `FoundAgain` to stay as it
is. `PathsKept` says that on the way of its probes to the slot of an id there is neither a free
slot nor the id itself; `SlotsKept` that a free slot is empty, slot 0 among them, and an id is
stored under its own hash; `CountKept` that `filled` is the number of slots in use and a hub is
stored for the id of its slot, unless an allocation has failed. A failed allocation leaves a slot
in use without an id: paths that go through it still hold, which is why `FoundAgain` does not
depend on it.

### RequestBuffers

`PoolAssumption` (the pool is a multiple of twice the alignment and at least four increments of the
read buffer, and the head of a reply is no smaller than a record) and `StreamAssumption` (what a
client sends is made of lines, and a `\r` stands only in front of a `\n`); sizes, number and
contents of the requests are arbitrary, and empty lines may stand anywhere in front of them.

| Theorem | Statement |
|---|---|
| `BufferInvariant` | `Spec => []BufferInv` |
| `BlocksAreApart` | `Spec => []BlocksApart` |
| `BytesStayInOrder` | `Spec => []BytesInOrder` |

Read buffer, reply and free space are apart (`Layout`), and the read buffer holds the end of what
was received (`Reading`); these two are kept by everything the pool does. For the strings the
invariant does not speak of lengths: a cell is `Clean` when it is allocated, in neither buffer and
holds a byte of the client or a zero, and an address is a string (`Good`) when clean cells lead from
it to a zero. An operation then only has to keep clean cells clean and zeros zero (`Keeps`), which
is true of all but two. The reset of the pool forgets the strings. The other is the continued header
line, joined in place where the block of the line before is the newest one of the pool: it
overwrites the zero that ends that line, and the strings that ended there go on to the next zero
(`JoinInPlace`). What is cut out of a line, the places of blanks, marks and colons, are addresses
within the line, which is followed by a zero (`Run`).

The reset for the next request keeps what was read beyond the request, and gives the new read
buffer half the pool. Whether the kept bytes fit is not a matter of the pool, and nothing in the
code looks at it. In a stream without empty lines in front of a request (`PlainStream`) it holds
since bytes are read only when no line is at hand, into at most half a pool of room, so that what
lies behind the first line end is never more than that. `Place` carries this argument, and with it
where in the stream the buffer begins: a request that has been read ends with an empty line, and
the next begins behind it. An empty line breaks the argument, because the parser stops at it and
the buffer is read into again with lines still in it. `Held`, all of the invariant but the place,
holds for every stream all the same until a reset keeps more than half the pool; there the
properties end too, and `BufferInv` says that this takes such an empty line (`Overrun`).
`Control` says that
there is a line to be continued when one is, and that the block of the reply is gone when the
request is over. `BufferInv` holds in every state of the `RequestBuffers` run, and of runs with
other sizes of pool, alignment, record and reply.

### Only model-checked

* Liveness (`Terminates`, `Settles`, `ErrorShown`, `Answered`, `StopReturns`, `InstallReturns`,
  `AllAnswered`): out of the prover's reach.
* `Meepo` (`CounterExact`, `OnePageLogin`, `OneLogin`): the number of requests in a bag is a
  recursive sum over it. Where the proofs above need an induction, they take a least counterexample
  (`LeastNat`), which serves for statements about numbers and finite sets; what a recursive function
  computes would first have to be shown to exist.
* `RequestBuffers` (`HandlerSeesRequest`, `SmallIsServed`): what the client said is defined by
  flattening and filtering its requests, again recursive functions, here over sequences.

## 5. Observations without a run

* `Format` drops the result of `makeFilesystem` (`gondar.cc:2358`), and the table writers
  report problems of the table in memory, not failed writes; a format can be reported as
  successful without a file system.
* A download whose output file cannot be opened is skipped and counts as finished
  (`downloader.cc:77-84`); whatever file has that name is then unzipped.
* `ZipError` inherits privately from `std::exception`, so the handler in `UnzipThread::run`
  does not catch it and the program ends.
* The window can be closed while a thread writes; the destructor of a running `QThread` ends
  the program with the disk half written.
* The loop over `usbstor_name` compares with `usbstor_name[0]` in every round
  (`gondar.cc:1566`), so only `USBSTOR` counts as USB: disks of the other drivers in the table
  are "disabled by policy" unless they are enumerated as SCSI.
* When no list of hubs can be had, `htab_devid.table` is `NULL` and is read at the first disk
  that matches (`gondar.cc:1692`): the program ends.
* When the sizes of the id lists can be had but none of the lists, `devid_list` is read without
  having been written (`gondar.cc:1634`).
* When `GetLogicalDriveStrings` fails, the filters for fixed and hard disks are skipped and the
  disk is offered (`gondar.cc:1837`).
* A size that `IsHDD` cannot read counts as 0, which is 10 points for flash (`gondar.cc:731`), and a
  hard disk of more than 512 GB may then be offered.
* The loop over the interfaces goes on after a disk was listed; a disk with two interfaces is
  listed twice.
* After a failed allocation in `htab_hash` the table can overwrite a stored id whose hub is then
  taken for that of the new one; only the speed and the vendor id depend on it.
* `isprime` takes 3 for composite; the table is created with 257.

Disagreements with a comment that the models show, without a run of their own:

* A disk is identified by its number alone, resolved anew at every open (`gondar.cc:2299`). In
  `DiskWrite` a disk that took the number after the selection is erased, where
  `usb_insert_page.cc:26` says "the selected device will be permanently erased".
* An exception in the unzip thread that is caught leaves an empty name, and the write thread built
  with the constructor "used to write the specified image to disk" (`diskwritethread.h:31`) then
  formats the device (`diskwritethread.cc:85`).
* A second `finished()` of Meepo moves the wizard on from whatever page it is on
  (`chromeover_login_page.cc:142`), also from the download page before the image is unpacked: the
  write thread then gets a name that is not there or that another thread is writing, and "Make
  Another USB" after it can enter the download page again, connect `markComplete` a second time and
  run two unzip threads on one file. It takes an account with two pages of sites, or one page and a
  request that failed and was tried again, since late replies count in the new attempt.
* With two pages of sites `finished()` can come before the second page is in (`meepo.cc:285`);
  `meepo.cc:233` says "this logic should still work for the multi-page case".
* The first failed request re-arms the login page while others are still out
  (`chromeover_login_page.cc:154`), so that requests of two logins can be out together; line 71
  says "don't allow another launch of server interaction while another is running". `OneLogin`
  states this as its exception (`hasty`).
* `postError` goes through a timer (`gondarwizard.cc:167`), and clicks that were queued are handled
  first. They can start a write after an error was posted; and they can lead to the device page
  without a selection, or to the write page, whose `validatePage()` refuses without looking at the
  session error. `catchError` then does not get to the error page, and the write page may even show
  its success text. `ErrorShown` names these pages (`Refusing`).
* `MHD_queue_response` returns `MHD_YES` without queueing once the daemon is shutting down
  (`connection.c:4032`). `transmit_error_response` takes that for a queued response and asserts
  "mhd_assert (NULL != connection->response);" (`connection.c:1815`) before the pointer is
  followed: a malformed request read while the main thread is in `stop()` ends the program. This
  is the state `crashed` of `OauthServer`, which `StopReturns` has to except.

Partition table and drive access:

* Of an uninitialised `firstUsableLBA` one value makes `FindFirstInLargest` loop for ever
  (`GptConstants` excludes it); the constructor of `GPTData` leaves the header fields unset.
* A length that cannot be asked for is taken from `GetFileSize`, which fails for a drive, and the
  failure is not looked at (`diskio-windows.cc:332-335`): the backup table is then written where a
  drive of about 0xFFFFFFFF bytes, or more, would have it, and the partition reaches that far.
* `CheckTable` compares a table with the CRC of the other header.
* `FormatStatus` is never cleared; its test is commented "User cancel" (`gondar.cc:2087`), though
  there is no way to cancel. After a failed write later locks are given up at the first refusal.
* `Install` writes when the lock of the volume could not be had.
* One `Install` can sleep 6 * 150 - 2 times, about a minute and a half, where
  `DRIVE_ACCESS_TIMEOUT` is 15 seconds.
* The geometry is read through a handle without write sharing: while another program holds the
  disk for writing the open fails and the size is taken to be 0, which `DiskWrite_install` shows
  the effect of.

Sign-in:

* `http_server_started` is set before the server is started: when `MHD_start_daemon` fails, it is
  not tried again.
* A request for anything but `/`, such as a browser's for the icon, is answered as an error and
  stops the server.
* The reply to the token request is used without looking for an error.
* Closing the window destroys the server object without stopping its thread.
* An empty line before a request makes `MHD_connection_handle_idle` return with lines still
  waiting in the buffer (`connection.c:3353`). The request behind it waits until the client sends
  more or another connection wakes the thread.
* Since the buffer is read into again with lines still in it, it can come to hold more than half
  the pool behind a request, and `MHD_pool_reset` then keeps more bytes than `read_buffer_size` says
  (`connection.c:3756-3762`); with the code's sizes one empty line is enough.
* A refusal inside `parse_initial_message_line` (too many arguments) does not keep the state from
  moving on (`connection.c:3366`). If there was no memory for the error page either, the request is
  shown to the handler with the last arguments missing, where the comment on recording one says "If
  this fails, transmit an error response (request too big)" (`connection.c:2056`).
* A connection that `transmit_error_response` closes after its turn is in the state `CLEANUP`, which
  `select` does not look at (`connection.c:1978`, `daemon.c:973`): it is freed when another event
  wakes the thread.
* A continued header line is joined to the header's name, not to its value
  (`connection.c:2703`), since `last` is cut at the colon.
* A read buffer that is used up exactly asks for half the pool (`connection.c:1379`), so that
  whether a long head is refused can depend on how the network split it.

Elsewhere:

* `neverware_unzipper` changes the working directory of the whole process from the unzip thread.
* `GetUuid` writes its file in place and does not look at the outcome (`metric.cc:82`); a file cut
  short is replaced by a new identity.
* `dismissprompt.cc` uses `system_dir` uninitialised when asking for it fails.
* The update check compares with `getGondarVersion()`, which is empty in this build.

## 6. Not modelled, and the plan

Not modelled of the program itself: dialogs, logging, formatting of sizes and texts, update check,
prompt dismisser (display or one-shot I/O without state); `metric.cc`'s endpoint and the UUID; the
unzipping itself (minizip); the entries of the tables in `hdd_vs_ufd.h`; the parser of device
description files and the conversions between UTF-8 and UTF-16.

Not modelled of the bundled libraries, because the program never runs it: of libmicrohttpd the
experimental second library (`src/lib`, `microhttpd2.h`), its tests and examples, TLS, digest and
basic authentication, the post processor, `poll` and `epoll`, one thread per connection, the
external event loop, suspending, upgrading, chunked uploads, `100 Continue` and HTTP/0.9; of gdisk
the text interface, the conversion of MBR and BSD labels, hybrid MBRs, GUIDs, names, sorting and
backups to a file. These are most of the lines of the repository (the program's own code is about
a tenth of it). A model of them would have no state the program can be in and no property of the
program to check, so the share of all lines that is modelled stays small; of the two libraries the
models cover the functions the program reaches.

Plan, in order:

1. For `Meepo`, an invariant that counts the requests of one attempt without the bag.
2. What the parser shows to the handler for one line of any length, the part of
   `HandlerSeesRequest` that needs no induction over the requests.
3. `siteIdFromUrl`, the site filter and the UUID of the metrics.
