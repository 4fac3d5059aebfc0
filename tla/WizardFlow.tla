----------------------------- MODULE WizardFlow -----------------------------
(***************************************************************************)
(* The wizard: GondarWizard, its pages, the DownloadManager, the           *)
(* UnzipThread and the DiskWriteThread as the pages see them.              *)
(*                                                                         *)
(* Everything but the two threads runs in Qt's event loop, one handler at  *)
(* a time; a handler is one action.  What may interleave is the order in   *)
(* which clicks, timers, network replies and the threads' finished()       *)
(* signals reach the loop.  QWizard itself is external: next() asks the    *)
(* page to validate, asks for nextId() and switches, without looking at    *)
(* isComplete(), which only governs the Next button.                       *)
(***************************************************************************)
EXTENDS Naturals

CONSTANTS
  Devices,        \* USB devices a scan may list
  Big,            \* the ones of at least 6 GB
  NoDevice,
  Products,       \* values of isChromeover() in the builds considered
  MaxSignals      \* bound: finished() and "no sites" signals Meepo sends in a session

ASSUME WizardAssumption ==
  /\ Big \subseteq Devices
  /\ NoDevice \notin Devices
  /\ Products \subseteq BOOLEAN
  /\ MaxSignals \in Nat

VARIABLES
  chromeover,         \* gondar::isChromeover(), fixed when the program is built
  alive,              \* "up", "closed" by the user or "crashed"
  \* QWizard
  page, visited,      \* currentId() and the history
  nextEnabled,        \* the Next button, as last refreshed
  makeAnother,        \* the layout has the "Make Another USB" button
  \* GondarWizard, ErrorPage
  session_error,
  errorText,          \* the error page's label is not empty
  err,                \* zero-length timers of postError that have not fired yet
  formatOnly,
  asked,              \* how the user left the first page (history variable)
  \* AdminCheckPage, NewestImageUrl
  is_admin, url,
  \* ChromeoverLoginPage, SiteSelectPage, ImageSelectPage
  started, finished,
  begun,              \* Meepo has been started at least once
  sites,              \* number of sites the wizard knows (2: several)
  signals,            \* signals received from Meepo that MaxSignals counts
  picked,             \* list pages on which an entry is selected
  \* UsbInsertPage, DevicePicker
  drivelist, poll,    \* poll: the one-second timer is running
  listed,             \* devices that have a button in the picker
  selection,
  \* DownloadProgressPage, DownloadManager, UnzipThread
  queue,              \* length of downloadQueue
  starts,             \* zero-length timers of startNextDownload
  active,             \* currentDownload is running
  connected,          \* times finished is connected to markComplete
  download_finished,
  zip,                \* the file at the download's path
  dlError,            \* DownloadManager::error
  unzip,              \* unzipThread: "none", "running", "ended" (signal queued), "done"
  filename,           \* UnzipThread::filename
  strays,             \* unzip threads replaced by another before their end was seen
  hurried,            \* history: a finished() of Meepo left the download page for
                      \* the write page
  \* WriteOperationPage, DiskWriteThread
  device,             \* the page's copy of the selected device
  job,                \* DiskWriteThread::state_, "none" before the first
  jobKind,            \* which constructor: "format" or "image"
  jobPath,            \* image_path the thread was given
  jobSignal,          \* the thread's finished() is queued
  writers,            \* write threads that are running
  writeFinished,
  created             \* the page shows its success text

navVars == <<page, visited, nextEnabled>>
errVars == <<session_error, errorText, err>>
adminVars == <<formatOnly, asked, is_admin, url>>
loginVars == <<started, finished, begun, sites, signals, picked>>
usbVars == <<drivelist, poll>>
pickVars == <<listed, selection>>
managerVars == <<queue, starts, active, connected>>
dlVars == <<download_finished, zip, dlError>>
unzipVars == <<unzip, filename, strays>>
writeVars == <<job, jobKind, jobPath, jobSignal, writers, writeFinished, created>>
vars == <<chromeover, alive, navVars, makeAnother, errVars, adminVars, loginVars, usbVars,
          pickVars, managerVars, dlVars, unzipVars, hurried, device, writeVars>>

None == "none"

Init ==
  /\ chromeover \in Products
  /\ alive = "up"
  /\ page = "adminCheck" /\ visited = {"adminCheck"}
  /\ is_admin \in BOOLEAN /\ nextEnabled = is_admin
  /\ makeAnother = FALSE
  /\ session_error = FALSE /\ errorText = FALSE /\ err = 0
  /\ formatOnly = FALSE /\ asked = None
  /\ url = IF chromeover THEN None ELSE "fetching"
  /\ started = FALSE /\ finished = FALSE /\ begun = FALSE
  /\ sites = 0 /\ signals = 0
  /\ picked = {}
  /\ drivelist = {} /\ poll = FALSE /\ listed = {} /\ selection = NoDevice
  /\ queue = 0 /\ starts = 0 /\ active = FALSE /\ connected = 0
  /\ download_finished = FALSE /\ dlError = FALSE
  /\ zip \in {None, "stale"}
  /\ unzip = None /\ filename = "empty" /\ strays = 0 /\ hurried = FALSE
  /\ device = NoDevice
  /\ job = None /\ jobKind = None /\ jobPath = None /\ jobSignal = FALSE
  /\ writers = 0 /\ writeFinished = FALSE /\ created = FALSE

-----------------------------------------------------------------------------
(* QWizard                                                                 *)

\* Mutant of Complete: the download page does not override isComplete().
CompleteByDefault ==
  CASE page = "adminCheck"       -> is_admin
    [] page = "usbInsert"        -> drivelist # {}
    [] page = "deviceSelect"     -> selection # NoDevice
    [] page = "writeOperation"   -> writeFinished
    [] OTHER                     -> TRUE

\* isComplete() of the current page.
Complete ==
  CASE page = "adminCheck"       -> is_admin
    [] page = "usbInsert"        -> drivelist # {}
    [] page = "deviceSelect"     -> selection # NoDevice
    [] page = "downloadProgress" -> download_finished
    [] page = "writeOperation"   -> writeFinished
    [] OTHER                     -> TRUE

\* The button is live when the page is complete and has a successor.
UpdateButtons ==
  nextEnabled' = (page \notin {"writeOperation", "error"} /\ Complete)'

\* Mutant of Validate: the first page does not look at the session error.
ValidateWithoutError ==
  CASE page = "adminCheck"      -> chromeover \/ url = "ready"
    [] page = "chromeoverLogin" -> finished'
    [] page \in {"siteSelect", "imageSelect"} -> page \in picked
    [] page = "deviceSelect"    -> selection # NoDevice
    [] page = "writeOperation"  -> writeFinished
    [] OTHER                    -> TRUE

\* validatePage() of the current page, after what the handler has assigned.
Validate ==
  CASE page = "adminCheck"      -> session_error' \/ chromeover \/ url = "ready"
    [] page = "chromeoverLogin" -> finished'
    [] page \in {"siteSelect", "imageSelect"} -> page \in picked
    [] page = "deviceSelect"    -> selection # NoDevice
    [] page = "writeOperation"  -> writeFinished
    [] OTHER                    -> TRUE

\* nextId() of the current page, after what the handler has assigned.
PageNextId ==
  CASE page = "adminCheck" ->
         (IF chromeover /\ ~formatOnly' THEN "chromeoverLogin" ELSE "usbInsert")
    [] page = "chromeoverLogin" ->
         (IF sites' = 0 THEN "error"
          ELSE IF sites' > 1 THEN "siteSelect" ELSE "imageSelect")
    [] page = "siteSelect"       -> "imageSelect"
    [] page = "imageSelect"      -> "usbInsert"
    [] page = "usbInsert"        -> "deviceSelect"
    [] page = "deviceSelect"     ->
         (IF formatOnly' \/ download_finished THEN "writeOperation"
          ELSE "downloadProgress")
    [] page = "downloadProgress" -> "writeOperation"
    [] OTHER                     -> None

\* Mutant of NextId: errors do not divert.
NextIdIgnoresError == PageNextId

\* GondarWizard::nextId(): any error text diverts to the error page.
NextId ==
  IF ~errorText' THEN PageNextId
  ELSE IF page = "error" THEN None ELSE "error"

\* UsbInsertPage::getDriveList(): scan; look again in a second if nothing.
GetDriveList ==
  /\ drivelist' \in SUBSET Devices
  /\ poll' = (drivelist' = {})

\* getImageFileName(): reading the name of a thread that does not exist or
\* that is still writing it is undefined.
ImageFileName ==
  CASE unzip = None      -> {"empty", "garbage"}
    [] unzip = "running" -> {"empty", "garbage"}
    [] OTHER             -> {filename}

\* WriteOperationPage::initializePage() and writeToDrive().
WriteToDrive ==
  /\ writeFinished' = FALSE /\ created' = FALSE
  /\ \/ /\ job' = "Initial" /\ jobSignal' = FALSE /\ writers' = writers + 1
        /\ \/ formatOnly' /\ jobKind' = "format" /\ jobPath' = "empty"
           \/ ~formatOnly' /\ jobKind' = "image" /\ jobPath' \in ImageFileName
        /\ UNCHANGED alive
     \/ /\ ~formatOnly' /\ unzip = None    \* there is no thread to ask
        /\ alive' = "crashed"
        /\ UNCHANGED <<job, jobKind, jobPath, jobSignal, writers>>

\* Mutant of Refresh: the selection survives.
RefreshKeepsSelection == listed' = drivelist /\ selection' = selection

\* DevicePicker::refresh(): the old buttons leave the group, one per device
\* of the list takes their place.
Refresh == listed' = drivelist /\ selection' = NoDevice

\* DownloadProgressPage::initializePage(): every visit connects markComplete
\* once more and appends the URL; append() starts a timer when the queue was
\* empty.
AppendDownload ==
  /\ connected' = connected + 1
  /\ starts' = IF queue = 0 THEN starts + 1 ELSE starts
  /\ queue' = queue + 1
  /\ UNCHANGED active

\* initializePage() of the page being entered; a page is entered once per
\* (re)start.
InitializePage(p) ==
  /\ IF p = "usbInsert" THEN GetDriveList ELSE UNCHANGED usbVars
  /\ IF p = "deviceSelect" THEN Refresh ELSE UNCHANGED pickVars
  /\ IF p = "downloadProgress" THEN AppendDownload ELSE UNCHANGED managerVars
  /\ IF p = "writeOperation" THEN WriteToDrive ELSE UNCHANGED <<alive, writeVars>>

\* QWizard::switchToPage()
SwitchTo(p, history) ==
  /\ page' = p
  /\ visited' = history \union {p}
  /\ InitializePage(p)
  /\ UpdateButtons

\* QWizard::next(), with validatePage()'s side effects: the login page
\* launches the server interaction, the device page hands over the device.
Advance ==
  /\ started' = (started \/ (page = "chromeoverLogin" /\ ~finished'))
  /\ begun' = (begun \/ started')
  /\ device' = IF page = "deviceSelect" THEN selection ELSE device
  /\ IF Validate /\ NextId # None /\ NextId \notin visited
       THEN SwitchTo(NextId, visited)
       ELSE UNCHANGED <<alive, navVars, usbVars, pickVars, managerVars, writeVars>>

\* postError(), n times in a row
PostErrors(n) ==
  /\ session_error' = TRUE
  /\ err' = err + n
  /\ UNCHANGED errorText

PostError == PostErrors(1)

-----------------------------------------------------------------------------
(* What the user does.  Any number of input events may be handled before a *)
(* zero-length timer that is already running.                              *)

User == alive = "up" /\ UNCHANGED <<errVars, hurried>>

ClickNext ==
  /\ User /\ nextEnabled
  /\ UNCHANGED <<makeAnother, formatOnly, is_admin, url, finished, sites, signals,
                 picked, dlVars, unzipVars>>
  /\ asked' = IF page = "adminCheck" /\ Validate THEN "next" ELSE asked
  /\ Advance

\* handleFormatOnly(): the flag stays set when next() is refused.
ClickFormat ==
  /\ User /\ page = "adminCheck" /\ is_admin
  /\ formatOnly' = TRUE
  /\ UNCHANGED <<makeAnother, is_admin, url, finished, sites, signals, picked,
                 dlVars, unzipVars>>
  /\ asked' = IF Validate THEN "format" ELSE asked
  /\ Advance

\* Mutant of ClickMakeAnother: the button stays.
ClickMakeAnotherKeepsButton ==
  /\ User /\ makeAnother
  /\ UNCHANGED <<makeAnother, adminVars, loginVars, dlVars, unzipVars, device>>
  /\ SwitchTo("usbInsert", {})

\* handleCustomButton(): back to the page before deviceSelect.
ClickMakeAnother ==
  /\ User /\ makeAnother
  /\ makeAnother' = FALSE
  /\ UNCHANGED <<adminVars, loginVars, dlVars, unzipVars, device>>
  /\ SwitchTo("usbInsert", {})

\* The user selects an entry of the site or image list.
Pick ==
  /\ User /\ page \in {"siteSelect", "imageSelect"}
  /\ picked' = picked \union {page}
  /\ UNCHANGED <<alive, navVars, makeAnother, adminVars, started, finished, begun,
                 sites, signals, usbVars, pickVars, managerVars, dlVars, unzipVars,
                 device, writeVars>>

\* Only the buttons of devices of at least 6 GB are enabled.
SelectDevice(d) ==
  /\ User /\ page = "deviceSelect"
  /\ d \in listed \intersect Big
  /\ selection' = d
  /\ UNCHANGED <<alive, page, visited, makeAnother, adminVars, loginVars, usbVars,
                 listed, managerVars, dlVars, unzipVars, device, writeVars>>
  /\ UpdateButtons

\* Closing the window ends the program whatever is running.
CloseWindow ==
  /\ alive = "up"
  /\ alive' = "closed"
  /\ UNCHANGED <<navVars, makeAnother, errVars, adminVars, loginVars, usbVars,
                 pickVars, managerVars, dlVars, unzipVars, hurried, device, writeVars>>

-----------------------------------------------------------------------------
(* What the event loop delivers                                            *)

\* catchError()
CatchError ==
  /\ alive = "up" /\ err > 0
  /\ err' = err - 1
  /\ errorText' = TRUE
  /\ UNCHANGED <<session_error, hurried, makeAnother, adminVars, finished, sites, signals,
                 picked, dlVars, unzipVars>>
  /\ Advance

\* NewestImageUrl::handleReply() and handleNewestImageUrlError()
UrlReply ==
  /\ alive = "up" /\ url = "fetching"
  /\ \/ url' = "ready" /\ UNCHANGED errVars
     \/ url' = "failed" /\ PostError
  /\ UNCHANGED <<alive, navVars, makeAnother, formatOnly, asked, is_admin, loginVars,
                 usbVars, pickVars, managerVars, dlVars, unzipVars, hurried, device, writeVars>>

\* handleGoogleSigninFinished(): a token that was on its way starts Meepo
\* whatever page is shown by now.
GoogleSigninFinished ==
  /\ alive = "up" /\ ~started
  /\ begun \/ "chromeoverLogin" \in visited
  /\ started' = TRUE /\ begun' = TRUE
  /\ UNCHANGED <<alive, navVars, makeAnother, errVars, adminVars, finished, sites,
                 signals, picked, usbVars, pickVars, managerVars, dlVars, unzipVars,
                 hurried, device, writeVars>>

\* handleMeepoFinished(): next(), whatever page is shown by now.  A session
\* sees several of them: Meepo reports the sites of the first page before the
\* second is in, and requests of an attempt that failed are still counted.
MeepoFinished ==
  /\ alive = "up" /\ begun
  /\ signals < MaxSignals
  /\ signals' = signals + 1
  /\ sites' \in 1 .. 2
  /\ finished' = TRUE
  /\ UNCHANGED <<makeAnother, errVars, adminVars, picked, dlVars, unzipVars>>
  /\ Advance
  /\ hurried' = (hurried \/ (page = "downloadProgress" /\ page' = "writeOperation"))

\* handleMeepoFailed(): a user without sites, or "Try again", which re-arms
\* the page while other requests may still be out.
MeepoFailed ==
  /\ alive = "up" /\ begun
  /\ \/ /\ signals < MaxSignals
        /\ signals' = signals + 1
        /\ finished' = TRUE /\ UNCHANGED started
        /\ PostError
     \/ /\ started' = FALSE
        /\ UNCHANGED <<finished, signals, errVars>>
  /\ UNCHANGED <<alive, navVars, makeAnother, adminVars, begun, sites, picked,
                 usbVars, pickVars, managerVars, dlVars, unzipVars, hurried, device,
                 writeVars>>

\* UsbInsertPage's timer
PollDrives ==
  /\ alive = "up" /\ poll
  /\ GetDriveList
  /\ UNCHANGED <<alive, page, visited, makeAnother, errVars, adminVars, loginVars,
                 pickVars, managerVars, dlVars, unzipVars, hurried, device, writeVars>>
  /\ IF drivelist' # {} THEN UpdateButtons ELSE UNCHANGED nextEnabled

\* DownloadProgressPage::markComplete(), once per connection to
\* DownloadManager::finished; a second unzip thread replaces the first.
MarkComplete(error) ==
  /\ download_finished' = TRUE
  /\ IF error
       THEN PostErrors(connected) /\ UNCHANGED unzipVars
       ELSE /\ unzip' = "running" /\ filename' = "empty"
            /\ strays' = (strays + (connected - 1))
                         + (IF unzip \in {"running", "ended"} THEN 1 ELSE 0)
            /\ UNCHANGED errVars

\* startNextDownload(), with the output file left as "file": a download whose
\* output cannot be opened is skipped (an open file is never opened twice);
\* finished is emitted when the queue is empty, error or not.
StartNext(busy, file) ==
  \/ /\ ~busy /\ \E left \in 0 .. queue - 1 : queue' = left
     /\ active' = TRUE /\ zip' = "partial"
     /\ UNCHANGED <<download_finished, unzipVars, errVars>>
  \/ /\ queue' = 0 /\ active' = busy /\ zip' = file
     /\ MarkComplete(dlError')

\* startNextDownload() called by append()'s timer
StartNextDownload ==
  /\ alive = "up" /\ starts > 0
  /\ starts' = starts - 1
  /\ UNCHANGED dlError
  /\ StartNext(active, zip)
  /\ UNCHANGED <<alive, navVars, makeAnother, adminVars, loginVars, usbVars,
                 pickVars, connected, hurried, device, writeVars>>

\* downloadFinished(), then startNextDownload().  What downloadReadyRead could
\* not write is missing from the file; an error is remembered for good.
DownloadFinished ==
  /\ alive = "up" /\ active
  /\ \/ UNCHANGED dlError /\ StartNext(FALSE, "fresh")
     \/ UNCHANGED dlError /\ StartNext(FALSE, "partial")
     \/ dlError' = TRUE /\ StartNext(FALSE, "partial")
  /\ UNCHANGED <<alive, navVars, makeAnother, adminVars, loginVars, usbVars,
                 pickVars, starts, connected, hurried, device, writeVars>>

\* Mutant of OnUnzipFinished: it waits for a click that has nowhere to land.
OnUnzipFinishedWaits ==
  /\ alive = "up" /\ unzip = "ended"
  /\ unzip' = "done"
  /\ UNCHANGED <<alive, navVars, filename, strays, makeAnother, errVars, adminVars,
                 loginVars, usbVars, pickVars, managerVars, dlVars, hurried, device, writeVars>>

\* onUnzipFinished()
OnUnzipFinished ==
  /\ alive = "up" /\ unzip = "ended"
  /\ unzip' = "done"
  /\ UNCHANGED <<filename, strays, makeAnother, errVars, adminVars, finished, sites,
                 signals, picked, dlVars, hurried>>
  /\ Advance

\* A replaced unzip thread ends: onUnzipFinished() is connected to it too, and
\* an archive it cannot read ends the program.
StrayUnzipFinished ==
  /\ alive = "up" /\ strays > 0
  /\ strays' = strays - 1
  /\ UNCHANGED <<unzip, filename, makeAnother, errVars, adminVars, finished, sites,
                 signals, picked, dlVars, hurried>>
  /\ \/ Advance
     \/ /\ alive' = "crashed"
        /\ UNCHANGED <<navVars, started, begun, usbVars, pickVars, managerVars,
                       device, writeVars>>

\* onDoneWriting() and writeFailed()
OnDoneWriting ==
  /\ alive = "up" /\ jobSignal
  /\ jobSignal' = FALSE
  /\ writeFinished' = TRUE
  /\ IF job = "Success"
       THEN /\ created' = TRUE
            /\ makeAnother' = (makeAnother \/ ~formatOnly)
            /\ UNCHANGED errVars
       ELSE PostError /\ UNCHANGED <<created, makeAnother>>
  /\ UNCHANGED <<alive, page, visited, adminVars, loginVars, usbVars, pickVars,
                 managerVars, dlVars, unzipVars, hurried, device, job, jobKind, jobPath, writers>>
  /\ UpdateButtons

-----------------------------------------------------------------------------
(* What the two threads do                                                 *)

\* Mutant of UnzipRun: the extraction's result is not looked at.
UnzipRunUnchecked ==
  /\ alive = "up" /\ unzip = "running"
  /\ filename' = zip
  /\ unzip' = "ended"
  /\ UNCHANGED <<alive, navVars, strays, makeAnother, errVars, adminVars, loginVars, usbVars,
                 pickVars, managerVars, dlVars, hurried, device, writeVars>>

\* UnzipThread::run().  A ZipError is not a std::exception to the handler
\* (it inherits privately) and ends the program; any other exception leaves
\* an empty file name.
UnzipRun ==
  /\ alive = "up" /\ unzip = "running"
  /\ \/ /\ zip \in {"fresh", "stale"}
        /\ filename' \in {zip, "empty"}
        /\ unzip' = "ended" /\ UNCHANGED alive
     \/ alive' = "crashed" /\ UNCHANGED <<unzip, filename>>
  /\ UNCHANGED <<navVars, strays, makeAnother, errVars, adminVars, loginVars, usbVars,
                 pickVars, managerVars, dlVars, hurried, device, writeVars>>

\* DiskWriteThread: the steps of WriteJob.
JobBegin ==
  /\ alive = "up" /\ job = "Initial"
  /\ job' = "Running"
  /\ UNCHANGED <<alive, navVars, makeAnother, errVars, adminVars, loginVars, usbVars,
                 pickVars, managerVars, dlVars, unzipVars, hurried, device, jobKind, jobPath,
                 jobSignal, writers, writeFinished, created>>

\* An empty path formats, and formatting never asks for a file's size.
JobReport ==
  /\ alive = "up" /\ job = "Running"
  /\ job' \in {"InstallFailed", "Success"}
                \union (IF jobPath = "empty" THEN {} ELSE {"GetFileSizeFailed"})
  /\ jobSignal' = TRUE
  /\ writers' = writers - 1
  /\ UNCHANGED <<alive, navVars, makeAnother, errVars, adminVars, loginVars, usbVars,
                 pickVars, managerVars, dlVars, unzipVars, hurried, device, jobKind, jobPath,
                 writeFinished, created>>

-----------------------------------------------------------------------------
UserStep ==
  \/ ClickNext \/ ClickFormat \/ ClickMakeAnother \/ Pick \/ CloseWindow
  \/ \E d \in Devices : SelectDevice(d)

\* Timers and signals already in the queue, and the replies and threads that
\* are certain to end.
Delivery ==
  \/ CatchError \/ StartNextDownload \/ DownloadFinished \/ OnUnzipFinished
  \/ StrayUnzipFinished \/ OnDoneWriting \/ UnzipRun \/ JobBegin \/ JobReport

Server == UrlReply \/ GoogleSigninFinished \/ MeepoFinished \/ MeepoFailed

Next ==
  /\ UserStep \/ Delivery \/ Server \/ PollDrives
  /\ UNCHANGED chromeover

Spec == Init /\ [][Next]_vars

\* The event loop runs, threads are scheduled and a network request ends in a
\* reply or an error; nothing is assumed of the user.
FairSpec ==
  /\ Spec
  /\ WF_vars(CatchError /\ UNCHANGED chromeover)
  /\ WF_vars(Delivery /\ UNCHANGED chromeover)

-----------------------------------------------------------------------------
(* Properties                                                              *)

Pages == {"adminCheck", "chromeoverLogin", "siteSelect", "imageSelect",
          "usbInsert", "deviceSelect", "downloadProgress", "writeOperation",
          "error"}

\* Type invariant: every variable has the values its C++ counterpart takes.
TypeOK ==
  /\ chromeover \in BOOLEAN
  /\ alive \in {"up", "closed", "crashed"}
  /\ page \in Pages /\ visited \subseteq Pages
  /\ {nextEnabled, makeAnother, session_error, errorText, formatOnly, is_admin,
      started, finished, begun, poll, active, download_finished, dlError, hurried,
      jobSignal, writeFinished, created} \subseteq BOOLEAN
  /\ {err, queue, starts, connected, strays, writers} \subseteq Nat
  /\ asked \in {None, "next", "format"}
  /\ url \in {None, "fetching", "ready", "failed"}
  /\ sites \in 0 .. 2 /\ signals \in 0 .. MaxSignals
  /\ picked \subseteq {"siteSelect", "imageSelect"}
  /\ drivelist \subseteq Devices /\ listed \subseteq Devices
  /\ {selection, device} \subseteq Devices \union {NoDevice}
  /\ zip \in {None, "stale", "partial", "fresh"}
  /\ unzip \in {None, "running", "ended", "done"}
  /\ filename \in {"empty", "stale", "fresh"}
  /\ job \in {None, "Initial", "Running", "GetFileSizeFailed", "InstallFailed",
              "Success"}
  /\ jobKind \in {None, "format", "image"}
  /\ jobPath \in {None, "empty", "garbage", "stale", "fresh"}

\* Two threads never write at once, however often "Make Another USB" restarts
\* the wizard (handleCustomButton takes the button away again).
SingleWriter == writers <= 1

\* A thread that is to write an image is only built once the unzip thread's
\* finished() signal has been handled, so that getImageFileName reads a name no
\* other thread is writing.  There is one exception and no other: a finished()
\* of Meepo that comes late finds the download page, and handleMeepoFinished
\* calls next() there as it would on the login page.
ImageBeforeWrite == jobKind = "image" => unzip = "done" \/ hurried

\* The device a running job erases was in the scan made for this round and is
\* large enough; a selection of an earlier round is never reused.
DeviceOfThisRound ==
  job \in {"Initial", "Running"} => device \in drivelist \intersect Big

\* Once catchError has run no write thread is started for the rest of the
\* session, whoever calls next() and however often the wizard is restarted.
\* (Between postError and catchError one may be: clicks go first.)
NoWriteAfterError ==
  [][errorText => errorText' /\ writers' <= writers]_vars

\* Pages whose validatePage() refuses for now; only AdminCheckPage's looks at
\* the session error.
Refusing ==
  \/ page = "deviceSelect" /\ selection = NoDevice
  \/ page \in {"siteSelect", "imageSelect"} /\ page \notin picked
  \/ page = "writeOperation" /\ ~writeFinished

\* Every posted error is caught, and unless the clicks handled before its
\* timer have led to a page that refuses next() for now, it is on the screen:
\* a login that waits for Meepo and a download never hold it back.
ErrorShown ==
  err > 0 ~> alive # "up" \/ (errorText /\ (page = "error" \/ Refusing))

\* Once the download page is reached the session settles without further
\* clicks: a success text, the error page, or the program has ended.
Settles ==
  page = "downloadProgress" ~> created \/ page = "error" \/ alive # "up"

\* usb_insert_page.cc:26 says the device is "turned into a ThoriumOS
\* installer"; a user who left the first page with Next is not formatting.
NextMeansInstaller ==
  asked = "next" /\ job # None => jobKind = "image"
=============================================================================
