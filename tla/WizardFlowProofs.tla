-------------------------- MODULE WizardFlowProofs --------------------------
(***************************************************************************)
(* The safety properties of WizardFlow, for any set of devices.            *)
(***************************************************************************)
EXTENDS WizardFlow, TLAPS

\* A write thread exists and has not ended.
Active == job \in {"Initial", "Running"}

\* One thread at most: it runs only while its page is shown, which is not left
\* before the signal of its end has been handled, and "Make Another USB" is
\* offered only after that.
WriterInv ==
  /\ writers = IF Active THEN 1 ELSE 0
  /\ Active => page = "writeOperation" /\ ~writeFinished /\ ~makeAnother
  /\ jobSignal => /\ ~Active
                  /\ page = "writeOperation" /\ ~writeFinished /\ ~makeAnother
  /\ makeAnother => page \in {"writeOperation", "error"}

\* The drive list is replaced only while it is empty or when a new round
\* begins, so that what was selected from it stays in it.
DeviceInv ==
  /\ poll => drivelist = {}
  /\ page = "deviceSelect" => listed \subseteq drivelist
  /\ page = "deviceSelect" /\ selection # NoDevice => selection \in listed \intersect Big
  /\ page \in {"downloadProgress", "writeOperation"} =>
       device \in drivelist \intersect Big

\* markComplete is connected before the first download is started.
CountInv == starts > 0 \/ active => connected > 0

RoundInv == WriterInv /\ DeviceInv /\ CountInv

\* A download is queued or running.
Pending == queue > 0 \/ starts > 0 \/ active

\* Unless a late finished() has left the download page: one download, asked for
\* once, and one unzip thread; the page is left when its signal has been handled
\* or for the error page, and only what has been unpacked is written.
ImageInv ==
  /\ Pending => /\ page \in {"downloadProgress", "error"}
                /\ ~download_finished /\ unzip = None /\ connected = 1
  /\ ~Pending /\ ~download_finished => connected = 0 /\ unzip = None
  /\ queue = starts /\ queue <= 1 /\ (active => queue = 0)
  /\ unzip \in {"running", "ended"} =>
       page \in {"downloadProgress", "error"} /\ download_finished
  /\ download_finished /\ unzip = None => page \in {"downloadProgress", "error"}
  /\ page = "downloadProgress" => ~nextEnabled
  /\ page = "writeOperation" /\ ~formatOnly => unzip = "done"
  /\ makeAnother \/ jobKind = "image" => unzip = "done"
  /\ strays = 0

DownloadInv == hurried \/ ImageInv

\* next() is refused, or switches to a page not yet visited.
Stays == UNCHANGED <<alive, navVars, usbVars, pickVars, managerVars, writeVars>>

Moves ==
  /\ Validate
  /\ page' = NextId /\ page' # None /\ page' \notin visited
  /\ visited' = visited \union {page'}
  /\ InitializePage(page')
  /\ UpdateButtons

USE WizardAssumption

-----------------------------------------------------------------------------
(* next()                                                                  *)

\* What next() comes to.
LEMMA AdvanceCases ==
  ASSUME Advance
  PROVE  /\ Stays \/ Moves
         /\ device' = IF page = "deviceSelect" THEN selection ELSE device
         /\ started' = (started \/ (page = "chromeoverLogin" /\ ~finished'))
         /\ begun' = (begun \/ started')
<1>1. CASE Validate /\ NextId # None /\ NextId \notin visited
  BY <1>1, Zenon DEF Advance, SwitchTo, Moves
<1>2. CASE ~(Validate /\ NextId # None /\ NextId \notin visited)
  BY <1>2, Zenon DEF Advance, Stays
<1> QED
  BY <1>1, <1>2, Zenon DEF Advance

\* Which page each page is reached from.
LEMMA MoveFrom ==
  ASSUME Moves, page \in Pages
  PROVE  /\ page' \in Pages \ {"adminCheck"}
         /\ page' = "usbInsert" => page \in {"adminCheck", "imageSelect"}
         /\ page' = "deviceSelect" => page = "usbInsert"
         /\ page' = "downloadProgress" =>
              page = "deviceSelect" /\ ~formatOnly' /\ ~download_finished
         /\ page' = "writeOperation" =>
              \/ page = "deviceSelect" /\ (formatOnly' \/ download_finished)
              \/ page = "downloadProgress"
         /\ page' # "error" => ~errorText'
         /\ page = "adminCheck" => session_error' \/ chromeover \/ url = "ready"
         /\ page = "adminCheck" /\ ~chromeover => page' \in {"usbInsert", "error"}
         /\ page = "chromeoverLogin" => finished' /\ (sites' = 0 => page' = "error")
         /\ page = "deviceSelect" => selection # NoDevice
         /\ page = "writeOperation" => writeFinished /\ errorText' /\ page' = "error"
         /\ page # "error"
  BY DEF Moves, Pages, NextId, PageNextId, Validate, None

-----------------------------------------------------------------------------
(* Types                                                                   *)

\* The two parts of TypeOK: what is Boolean, and the rest.
FlagsOK ==
  /\ chromeover \in BOOLEAN /\ nextEnabled \in BOOLEAN /\ makeAnother \in BOOLEAN
  /\ session_error \in BOOLEAN /\ errorText \in BOOLEAN /\ formatOnly \in BOOLEAN
  /\ is_admin \in BOOLEAN /\ started \in BOOLEAN /\ finished \in BOOLEAN
  /\ poll \in BOOLEAN /\ download_finished \in BOOLEAN /\ jobSignal \in BOOLEAN
  /\ begun \in BOOLEAN /\ active \in BOOLEAN /\ dlError \in BOOLEAN
  /\ hurried \in BOOLEAN
  /\ writeFinished \in BOOLEAN /\ created \in BOOLEAN

StateOK ==
  /\ alive \in {"up", "closed", "crashed"}
  /\ page \in Pages /\ visited \subseteq Pages
  /\ err \in Nat /\ queue \in Nat /\ starts \in Nat /\ connected \in Nat
  /\ strays \in Nat
  /\ asked \in {None, "next", "format"}
  /\ url \in {None, "fetching", "ready", "failed"}
  /\ sites \in 0 .. 2 /\ signals \in 0 .. MaxSignals
  /\ picked \subseteq {"siteSelect", "imageSelect"}
  /\ drivelist \subseteq Devices /\ listed \subseteq Devices
  /\ selection \in Devices \union {NoDevice}
  /\ device \in Devices \union {NoDevice}
  /\ zip \in {None, "stale", "partial", "fresh"}
  /\ unzip \in {None, "running", "ended", "done"}
  /\ filename \in {"empty", "stale", "fresh"}
  /\ job \in {None, "Initial", "Running", "GetFileSizeFailed", "InstallFailed",
              "Success"}
  /\ jobKind \in {None, "format", "image"}
  /\ jobPath \in {None, "empty", "garbage", "stale", "fresh"}
  /\ writers \in Nat

\* The typing invariant is its two parts.
LEMMA TypeParts == TypeOK <=> FlagsOK /\ StateOK
  BY DEF TypeOK, FlagsOK, StateOK

\* next() preserves the type of what it may assign.
LEMMA AdvanceFlags ==
  ASSUME FlagsOK, Advance
  PROVE  /\ nextEnabled' \in BOOLEAN /\ started' \in BOOLEAN /\ poll' \in BOOLEAN
         /\ begun' \in BOOLEAN /\ active' \in BOOLEAN
         /\ jobSignal' \in BOOLEAN /\ writeFinished' \in BOOLEAN
         /\ created' \in BOOLEAN
<1>1. started' \in BOOLEAN /\ begun' \in BOOLEAN
  BY AdvanceCases, Zenon
<1>2. CASE Stays
  BY <1>1, <1>2 DEF Stays, FlagsOK, navVars, usbVars, managerVars, writeVars
<1>3. CASE Moves
  <2>1. nextEnabled' \in BOOLEAN
    BY <1>3, Zenon DEF Moves, UpdateButtons
  <2>2. poll' \in BOOLEAN
    BY <1>3 DEF Moves, InitializePage, GetDriveList, FlagsOK, usbVars
  <2>3. jobSignal' \in BOOLEAN /\ writeFinished' \in BOOLEAN /\ created' \in BOOLEAN
    BY <1>3 DEF Moves, InitializePage, WriteToDrive, FlagsOK, writeVars
  <2>4. active' \in BOOLEAN
    BY <1>3 DEF Moves, InitializePage, AppendDownload, FlagsOK, managerVars
  <2> QED
    BY <1>1, <2>1, <2>2, <2>3, <2>4
<1> QED
  BY <1>2, <1>3, AdvanceCases

\* The same for what is not Boolean.
LEMMA AdvanceState ==
  ASSUME StateOK, Advance, alive = "up"
  PROVE  /\ alive' \in {"up", "closed", "crashed"}
         /\ page' \in Pages /\ visited' \subseteq Pages
         /\ drivelist' \subseteq Devices
         /\ selection' \in Devices \union {NoDevice}
         /\ device' \in Devices \union {NoDevice}
         /\ listed' \subseteq Devices
         /\ queue' \in Nat /\ starts' \in Nat /\ connected' \in Nat
         /\ job' \in {None, "Initial", "Running", "GetFileSizeFailed",
                      "InstallFailed", "Success"}
         /\ jobKind' \in {None, "format", "image"}
         /\ jobPath' \in {None, "empty", "garbage", "stale", "fresh"}
         /\ writers' \in Nat
<1>1. device' \in Devices \union {NoDevice}
  BY AdvanceCases DEF StateOK
<1>2. CASE Stays
  BY <1>1, <1>2 DEF Stays, StateOK, navVars, usbVars, pickVars, managerVars, writeVars
<1>3. CASE Moves
  <2>1. page' \in Pages /\ visited' \subseteq Pages
    BY <1>3, MoveFrom DEF Moves, StateOK
  <2>2. /\ drivelist' \subseteq Devices
        /\ selection' \in Devices \union {NoDevice}
        /\ listed' \subseteq Devices
        /\ queue' \in Nat /\ starts' \in Nat /\ connected' \in Nat
    BY <1>3
    DEF Moves, InitializePage, GetDriveList, Refresh, AppendDownload, StateOK,
        usbVars, pickVars, managerVars
  <2>3. CASE page' # "writeOperation"
    BY <1>1, <1>3, <2>1, <2>2, <2>3 DEF Moves, InitializePage, StateOK, writeVars
  <2>4. CASE page' = "writeOperation"
    BY <1>1, <1>3, <2>1, <2>2, <2>4
    DEF Moves, InitializePage, WriteToDrive, ImageFileName, StateOK, writeVars, None
  <2> QED
    BY <2>3, <2>4
<1> QED
  BY <1>2, <1>3, AdvanceCases

\* No step gives a flag another value than TRUE or FALSE.
LEMMA FlagsStep ==
  ASSUME FlagsOK, Next
  PROVE  FlagsOK'
<1> USE DEF navVars, errVars, adminVars, loginVars, usbVars, pickVars,
            managerVars, dlVars, unzipVars, writeVars
<1>0. chromeover' = chromeover
  BY DEF Next
<1>1. CASE ClickNext
  BY <1>0, <1>1, AdvanceFlags DEF ClickNext, User, FlagsOK
<1>2. CASE ClickFormat
  BY <1>0, <1>2, AdvanceFlags DEF ClickFormat, User, FlagsOK
<1>3. CASE ClickMakeAnother
  <2>1. nextEnabled' \in BOOLEAN
    BY <1>3, Zenon DEF ClickMakeAnother, SwitchTo, UpdateButtons
  <2>2. poll' \in BOOLEAN
    BY <1>3 DEF ClickMakeAnother, SwitchTo, InitializePage, GetDriveList
  <2>3. UNCHANGED <<managerVars, writeVars>>
    BY <1>3 DEF ClickMakeAnother, SwitchTo, InitializePage
  <2>4. UNCHANGED <<errVars, hurried, adminVars, loginVars, dlVars>>
    BY <1>3 DEF ClickMakeAnother, User
  <2>5. makeAnother' \in BOOLEAN
    BY <1>3, Zenon DEF ClickMakeAnother
  <2> QED
    BY <1>0, <2>1, <2>2, <2>3, <2>4, <2>5 DEF FlagsOK
<1>4. CASE Pick
  BY <1>0, <1>4 DEF Pick, User, FlagsOK
<1>5. CASE CloseWindow
  BY <1>0, <1>5 DEF CloseWindow, FlagsOK
<1>6. CASE CatchError
  BY <1>0, <1>6, AdvanceFlags DEF CatchError, FlagsOK
<1>7. CASE StartNextDownload
  <2>1. /\ session_error' \in BOOLEAN /\ errorText' \in BOOLEAN
        /\ download_finished' \in BOOLEAN
    BY <1>7 DEF StartNextDownload, StartNext, MarkComplete, PostErrors, FlagsOK
  <2>2. active' \in BOOLEAN
    BY <1>7 DEF StartNextDownload, StartNext, FlagsOK
  <2> QED
    BY <1>0, <1>7, <2>1, <2>2 DEF StartNextDownload, FlagsOK
<1>8. CASE DownloadFinished
  <2>1. /\ session_error' \in BOOLEAN /\ errorText' \in BOOLEAN
        /\ download_finished' \in BOOLEAN
    BY <1>8 DEF DownloadFinished, StartNext, MarkComplete, PostErrors, FlagsOK
  <2>2. active' \in BOOLEAN /\ dlError' \in BOOLEAN
    BY <1>8 DEF DownloadFinished, StartNext, FlagsOK
  <2> QED
    BY <1>0, <1>8, <2>1, <2>2 DEF DownloadFinished, FlagsOK
<1>9. CASE OnUnzipFinished
  BY <1>0, <1>9, AdvanceFlags DEF OnUnzipFinished, FlagsOK
<1>10. CASE OnDoneWriting
  <2>1. nextEnabled' \in BOOLEAN
    BY <1>10, Zenon DEF OnDoneWriting, UpdateButtons
  <2>2. /\ session_error' \in BOOLEAN /\ errorText' \in BOOLEAN
        /\ created' \in BOOLEAN
    BY <1>10 DEF OnDoneWriting, PostError, PostErrors, FlagsOK
  <2>3. makeAnother' \in BOOLEAN
    BY <1>10, Zenon DEF OnDoneWriting, FlagsOK
  <2> QED
    BY <1>0, <1>10, <2>1, <2>2, <2>3 DEF OnDoneWriting, FlagsOK
<1>11. CASE UnzipRun
  BY <1>0, <1>11 DEF UnzipRun, FlagsOK
<1>12. CASE JobBegin
  BY <1>0, <1>12 DEF JobBegin, FlagsOK
<1>13. CASE JobReport
  BY <1>0, <1>13 DEF JobReport, FlagsOK
<1>14. CASE UrlReply
  <2>1. session_error' \in BOOLEAN /\ errorText' \in BOOLEAN
    BY <1>14 DEF UrlReply, PostError, PostErrors, FlagsOK
  <2> QED
    BY <1>0, <1>14, <2>1 DEF UrlReply, FlagsOK
<1>15. CASE MeepoFinished
  <2>1. hurried' \in BOOLEAN
    BY <1>15, Zenon DEF MeepoFinished
  <2> QED
    BY <1>0, <1>15, <2>1, AdvanceFlags DEF MeepoFinished, FlagsOK
<1>16. CASE MeepoFailed
  <2>1. /\ started' \in BOOLEAN /\ finished' \in BOOLEAN
        /\ session_error' \in BOOLEAN /\ errorText' \in BOOLEAN
    BY <1>16 DEF MeepoFailed, PostError, PostErrors, FlagsOK
  <2> QED
    BY <1>0, <1>16, <2>1 DEF MeepoFailed, FlagsOK
<1>17. CASE PollDrives
  <2>1. nextEnabled' \in BOOLEAN
    BY <1>17 DEF PollDrives, UpdateButtons, FlagsOK
  <2>2. poll' \in BOOLEAN
    BY <1>17 DEF PollDrives, GetDriveList, FlagsOK
  <2> QED
    BY <1>0, <1>17, <2>1, <2>2 DEF PollDrives, FlagsOK
<1>18. CASE \E d \in Devices : SelectDevice(d)
  BY <1>0, <1>18 DEF SelectDevice, User, UpdateButtons, FlagsOK
<1>19. CASE StrayUnzipFinished
  <2>1. CASE Advance
    BY <1>0, <1>19, <2>1, AdvanceFlags DEF StrayUnzipFinished, FlagsOK
  <2>2. CASE ~Advance
    BY <1>0, <1>19, <2>2 DEF StrayUnzipFinished, FlagsOK
  <2> QED
    BY <2>1, <2>2
<1>20. CASE GoogleSigninFinished
  BY <1>0, <1>20 DEF GoogleSigninFinished, FlagsOK
<1> QED
  BY <1>1, <1>2, <1>3, <1>4, <1>5, <1>6, <1>7, <1>8, <1>9,
     <1>10, <1>11, <1>12, <1>13, <1>14, <1>15, <1>16, <1>17, <1>18,
     <1>19, <1>20
  DEF Next, UserStep, Delivery, Server

\* No step takes another variable out of its type; a thread that ends was
\* counted.
LEMMA StateStep ==
  ASSUME StateOK, WriterInv, CountInv, Next
  PROVE  StateOK'
<1> USE DEF navVars, errVars, adminVars, loginVars, usbVars, pickVars,
            managerVars, dlVars, unzipVars, writeVars
<1>0. chromeover' = chromeover
  BY DEF Next
<1>1. CASE ClickNext
  BY <1>0, <1>1, AdvanceState DEF ClickNext, User, StateOK
<1>2. CASE ClickFormat
  BY <1>0, <1>2, AdvanceState DEF ClickFormat, User, StateOK
<1>3. CASE ClickMakeAnother
  BY <1>0, <1>3
  DEF ClickMakeAnother, User, SwitchTo, InitializePage, GetDriveList, StateOK, Pages
<1>4. CASE Pick
  BY <1>0, <1>4 DEF Pick, User, StateOK
<1>5. CASE CloseWindow
  BY <1>0, <1>5 DEF CloseWindow, StateOK
<1>6. CASE CatchError
  BY <1>0, <1>6, AdvanceState DEF CatchError, StateOK
<1>7. CASE StartNextDownload
  <2>1. connected > 0
    BY <1>7 DEF StartNextDownload, CountInv
  <2>2. queue' \in Nat /\ starts' \in Nat /\ zip' \in {None, "stale", "partial", "fresh"}
    BY <1>7 DEF StartNextDownload, StartNext, StateOK
  <2>3. /\ err' \in Nat /\ strays' \in Nat /\ filename' \in {"empty", "stale", "fresh"}
        /\ unzip' \in {None, "running", "ended", "done"}
    BY <1>7, <2>1 DEF StartNextDownload, StartNext, MarkComplete, PostErrors, StateOK
  <2> QED
    BY <1>0, <1>7, <2>2, <2>3 DEF StartNextDownload, StateOK
<1>8. CASE DownloadFinished
  <2>1. connected > 0
    BY <1>8 DEF DownloadFinished, CountInv
  <2>2. queue' \in Nat /\ zip' \in {None, "stale", "partial", "fresh"}
    BY <1>8 DEF DownloadFinished, StartNext, StateOK
  <2>3. /\ err' \in Nat /\ strays' \in Nat /\ filename' \in {"empty", "stale", "fresh"}
        /\ unzip' \in {None, "running", "ended", "done"}
    BY <1>8, <2>1 DEF DownloadFinished, StartNext, MarkComplete, PostErrors, StateOK
  <2> QED
    BY <1>0, <1>8, <2>2, <2>3 DEF DownloadFinished, StateOK
<1>9. CASE OnUnzipFinished
  BY <1>0, <1>9, AdvanceState DEF OnUnzipFinished, StateOK
<1>10. CASE OnDoneWriting
  BY <1>0, <1>10 DEF OnDoneWriting, PostError, PostErrors, UpdateButtons, StateOK
<1>11. CASE UnzipRun
  BY <1>0, <1>11 DEF UnzipRun, StateOK
<1>12. CASE JobBegin
  BY <1>0, <1>12 DEF JobBegin, StateOK
<1>13. CASE JobReport
  BY <1>0, <1>13 DEF JobReport, StateOK, WriterInv, Active
<1>14. CASE UrlReply
  BY <1>0, <1>14 DEF UrlReply, PostError, PostErrors, StateOK
<1>15. CASE MeepoFinished
  BY <1>0, <1>15, AdvanceState DEF MeepoFinished, StateOK
<1>16. CASE MeepoFailed
  <2>1. err' \in Nat /\ signals' \in 0 .. MaxSignals
    BY <1>16 DEF MeepoFailed, PostError, PostErrors, StateOK
  <2> QED
    BY <1>16, <2>1 DEF MeepoFailed, StateOK
<1>17. CASE PollDrives
  BY <1>0, <1>17 DEF PollDrives, GetDriveList, UpdateButtons, StateOK
<1>18. CASE \E d \in Devices : SelectDevice(d)
  BY <1>0, <1>18 DEF SelectDevice, User, UpdateButtons, StateOK
<1>19. CASE StrayUnzipFinished
  <2>1. CASE Advance
    BY <1>0, <1>19, <2>1, AdvanceState DEF StrayUnzipFinished, StateOK
  <2>2. CASE ~Advance
    BY <1>0, <1>19, <2>2 DEF StrayUnzipFinished, StateOK
  <2> QED
    BY <2>1, <2>2
<1>20. CASE GoogleSigninFinished
  BY <1>0, <1>20 DEF GoogleSigninFinished, StateOK
<1> QED
  BY <1>1, <1>2, <1>3, <1>4, <1>5, <1>6, <1>7, <1>8, <1>9,
     <1>10, <1>11, <1>12, <1>13, <1>14, <1>15, <1>16, <1>17, <1>18,
     <1>19, <1>20
  DEF Next, UserStep, Delivery, Server

-----------------------------------------------------------------------------
(* One writer, and the device of this round                                *)

\* next() starts a thread only where none runs and no restart is offered, on
\* the device just chosen from the list.
LEMMA AdvanceRound ==
  ASSUME StateOK, RoundInv, Advance, UNCHANGED makeAnother
  PROVE  RoundInv'
<1> USE DEF RoundInv, navVars, usbVars, pickVars, managerVars, writeVars
<1>1. CASE Stays
  <2>1. WriterInv'
    BY <1>1 DEF Stays, WriterInv, Active
  <2>2. DeviceInv'
    BY <1>1, AdvanceCases DEF Stays, DeviceInv
  <2>3. CountInv'
    BY <1>1 DEF Stays, CountInv
  <2> QED
    BY <2>1, <2>2, <2>3
<1>2. CASE Moves
  <2>1. ~Active /\ ~jobSignal /\ writers = 0
    BY <1>2, MoveFrom DEF WriterInv, StateOK
  <2>2. makeAnother => page' = "error"
    BY <1>2, MoveFrom DEF WriterInv, StateOK
  <2>3. WriterInv'
    <3>1. CASE page' # "writeOperation"
      BY <1>2, <2>1, <2>2, <3>1 DEF Moves, InitializePage, WriterInv, Active
    <3>2. CASE page' = "writeOperation"
      <4>1. ~makeAnother'
        BY <2>2, <3>2
      <4> QED
        BY <1>2, <2>1, <2>2, <3>2, <4>1
        DEF Moves, InitializePage, WriteToDrive, WriterInv, Active
    <3> QED
      BY <3>1, <3>2
  <2>4. DeviceInv'
    <3>1. poll' => drivelist' = {}
      BY <1>2 DEF Moves, InitializePage, GetDriveList, DeviceInv
    <3>2. page' = "deviceSelect" =>
            selection' = NoDevice /\ listed' \subseteq drivelist'
      BY <1>2 DEF Moves, InitializePage, Refresh
    <3>3. ASSUME page' \in {"downloadProgress", "writeOperation"}
          PROVE  device' \in drivelist' \intersect Big
      BY <1>2, <3>3, MoveFrom, AdvanceCases
      DEF Moves, InitializePage, DeviceInv, StateOK
    <3> QED
      BY <3>1, <3>2, <3>3 DEF DeviceInv
  <2>5. CountInv'
    BY <1>2 DEF Moves, InitializePage, AppendDownload, CountInv, StateOK
  <2> QED
    BY <2>3, <2>4, <2>5
<1> QED
  BY <1>1, <1>2, AdvanceCases

\* Every step preserves the invariant of the round.
LEMMA RoundStep ==
  ASSUME StateOK, RoundInv, Next
  PROVE  RoundInv'
<1> USE DEF navVars, errVars, adminVars, loginVars, usbVars, pickVars,
            managerVars, dlVars, unzipVars, writeVars
<1>0. chromeover' = chromeover
  BY DEF Next
<1>1. CASE ClickNext
  BY <1>0, <1>1, AdvanceRound DEF ClickNext
<1>2. CASE ClickFormat
  BY <1>0, <1>2, AdvanceRound DEF ClickFormat
<1>3. CASE ClickMakeAnother
  BY <1>0, <1>3
  DEF ClickMakeAnother, SwitchTo, InitializePage, GetDriveList, RoundInv,
      WriterInv, DeviceInv, CountInv, Active, StateOK
<1>4. CASE Pick
  BY <1>0, <1>4 DEF Pick, RoundInv, WriterInv, DeviceInv, CountInv, Active, StateOK
<1>5. CASE CloseWindow
  BY <1>0, <1>5 DEF CloseWindow, RoundInv, WriterInv, DeviceInv, CountInv, Active, StateOK
<1>6. CASE CatchError
  BY <1>0, <1>6, AdvanceRound DEF CatchError
<1>7. CASE StartNextDownload
  BY <1>0, <1>7
  DEF StartNextDownload, StartNext, RoundInv, WriterInv, DeviceInv, CountInv, Active, StateOK
<1>8. CASE DownloadFinished
  BY <1>0, <1>8
  DEF DownloadFinished, StartNext, RoundInv, WriterInv, DeviceInv, CountInv, Active, StateOK
<1>9. CASE OnUnzipFinished
  BY <1>0, <1>9, AdvanceRound DEF OnUnzipFinished
<1>10. CASE OnDoneWriting
  BY <1>0, <1>10
  DEF OnDoneWriting, RoundInv, WriterInv, DeviceInv, CountInv, Active, StateOK
<1>11. CASE UnzipRun
  BY <1>0, <1>11 DEF UnzipRun, RoundInv, WriterInv, DeviceInv, CountInv, Active, StateOK
<1>12. CASE JobBegin
  BY <1>0, <1>12 DEF JobBegin, RoundInv, WriterInv, DeviceInv, CountInv, Active, StateOK
<1>13. CASE JobReport
  BY <1>0, <1>13 DEF JobReport, RoundInv, WriterInv, DeviceInv, CountInv, Active, StateOK
<1>14. CASE UrlReply
  BY <1>0, <1>14 DEF UrlReply, RoundInv, WriterInv, DeviceInv, CountInv, Active, StateOK
<1>15. CASE MeepoFinished
  BY <1>0, <1>15, AdvanceRound DEF MeepoFinished
<1>16. CASE MeepoFailed
  BY <1>0, <1>16 DEF MeepoFailed, RoundInv, WriterInv, DeviceInv, CountInv, Active, StateOK
<1>17. CASE PollDrives
  BY <1>0, <1>17
  DEF PollDrives, GetDriveList, RoundInv, WriterInv, DeviceInv, CountInv, Active, StateOK
<1>18. CASE \E d \in Devices : SelectDevice(d)
  BY <1>0, <1>18 DEF SelectDevice, RoundInv, WriterInv, DeviceInv, CountInv, Active, StateOK
<1>19. CASE StrayUnzipFinished
  <2>1. CASE Advance
    BY <1>0, <1>19, <2>1, AdvanceRound DEF StrayUnzipFinished
  <2>2. CASE ~Advance
    BY <1>0, <1>19, <2>2
    DEF StrayUnzipFinished, RoundInv, WriterInv, DeviceInv, CountInv, Active, StateOK
  <2> QED
    BY <2>1, <2>2
<1>20. CASE GoogleSigninFinished
  BY <1>0, <1>20
  DEF GoogleSigninFinished, RoundInv, WriterInv, DeviceInv, CountInv, Active, StateOK
<1> QED
  BY <1>1, <1>2, <1>3, <1>4, <1>5, <1>6, <1>7, <1>8, <1>9,
     <1>10, <1>11, <1>12, <1>13, <1>14, <1>15, <1>16, <1>17, <1>18,
     <1>19, <1>20
  DEF Next, UserStep, Delivery, Server

-----------------------------------------------------------------------------
(* What is written has been unpacked                                       *)

\* next() reaches the write page from the device page only when it is to
\* format or the image is unpacked, and the download page only once.
LEMMA AdvanceImage ==
  ASSUME StateOK, RoundInv, ImageInv, Advance,
         UNCHANGED <<download_finished, makeAnother, strays>>,
         formatOnly' = formatOnly \/ (formatOnly' /\ page = "adminCheck"),
         \/ unzip' = unzip
         \/ unzip = "ended" /\ unzip' = "done",
         page = "downloadProgress" =>
           page' # "writeOperation" \/ (unzip = "ended" /\ unzip' = "done")
  PROVE  ImageInv'
<1> USE DEF navVars, managerVars, writeVars
<1>1. CASE Stays
  BY <1>1 DEF Stays, ImageInv, Pending, StateOK, None
<1>2. CASE Moves
  <2>0. page' \in Pages /\ page # "error"
    BY <1>2, MoveFrom DEF StateOK
  <2>1. page # "downloadProgress" => ~Pending /\ unzip' = unzip /\ unzip \in {None, "done"}
    BY <2>0 DEF ImageInv, StateOK
  <2>2. CASE page' = "downloadProgress"
    <3>1. page = "deviceSelect" /\ ~download_finished
      BY <1>2, <2>2, MoveFrom DEF StateOK
    <3>2. connected = 0 /\ unzip' = None /\ queue = 0 /\ starts = 0 /\ ~active
      BY <2>1, <3>1 DEF ImageInv, Pending, StateOK
    <3>3. connected' = 1 /\ queue' = 1 /\ starts' = 1 /\ active' = active
      BY <1>2, <2>2, <3>2 DEF Moves, InitializePage, AppendDownload
    <3>4. ~nextEnabled'
      BY <1>2, <2>2, <3>1 DEF Moves, UpdateButtons, Complete
    <3>5. jobKind' = jobKind
      BY <1>2, <2>2 DEF Moves, InitializePage
    <3> QED
      BY <2>2, <3>1, <3>2, <3>3, <3>4, <3>5 DEF ImageInv, Pending, None
  <2>3. CASE page' # "downloadProgress"
    <3>1. UNCHANGED managerVars
      BY <1>2, <2>3 DEF Moves, InitializePage
    <3>2. CASE page' = "writeOperation"
      <4>1. formatOnly' \/ unzip' = "done"
        BY <1>2, <2>1, <3>2, MoveFrom DEF ImageInv, StateOK, None
      <4>2. ~Pending /\ unzip' \in {None, "done"}
        BY <1>2, <2>1, <3>2, MoveFrom DEF ImageInv, StateOK, None
      <4>3. download_finished /\ unzip' = None => page = "error"
        BY <1>2, <2>1, <3>2, <4>2, MoveFrom DEF ImageInv, StateOK, None
      <4>4. jobKind' = jobKind \/ jobKind' = "format" \/ ~formatOnly'
        BY <1>2, <3>2 DEF Moves, InitializePage, WriteToDrive
      <4> QED
        BY <2>0, <3>1, <3>2, <4>1, <4>2, <4>3, <4>4 DEF ImageInv, Pending, None
    <3>3. CASE page' # "writeOperation"
      <4>1. jobKind' = jobKind
        BY <1>2, <3>3 DEF Moves, InitializePage
      <4>2. page = "downloadProgress" => page' = "error"
        BY <1>2, <2>3, <3>3, MoveFrom DEF Moves, NextId, PageNextId, StateOK
      <4>3. page # "downloadProgress" /\ download_finished => unzip = "done"
        BY <2>0, <2>1 DEF ImageInv
      <4> QED
        BY <2>1, <2>3, <3>1, <3>3, <4>1, <4>2, <4>3 DEF ImageInv, Pending, StateOK, None
    <3> QED
      BY <3>2, <3>3
  <2> QED
    BY <2>2, <2>3
<1> QED
  BY <1>1, <1>2, AdvanceCases

\* What is asked for is asked for once, so that startNextDownload leaves one
\* download or one unzip thread behind.
LEMMA StartImage ==
  ASSUME StateOK, ImageInv, NEW busy \in BOOLEAN, NEW file, StartNext(busy, file),
         Pending, ~busy, ~active \/ queue = 0, starts' = 0,
         UNCHANGED <<page, connected, nextEnabled, formatOnly, makeAnother, jobKind>>
  PROVE  ImageInv'
<1>1. /\ page \in {"downloadProgress", "error"} /\ ~download_finished /\ unzip = None
      /\ connected = 1 /\ queue <= 1 /\ strays = 0 /\ queue \in Nat
  BY DEF ImageInv, StateOK
<1>2. CASE queue' = 0 /\ active' = busy /\ MarkComplete(dlError')
  <2>1. ~Pending' /\ download_finished'
    BY <1>2 DEF Pending, MarkComplete
  <2>2. unzip' \in {None, "running"} /\ strays' = 0
    BY <1>1, <1>2 DEF MarkComplete, unzipVars, None
  <2> QED
    BY <1>1, <1>2, <2>1, <2>2 DEF ImageInv, None
<1>3. CASE /\ ~busy /\ \E left \in 0 .. queue - 1 : queue' = left
           /\ active' = TRUE
           /\ UNCHANGED <<download_finished, unzipVars, errVars>>
  <2>1. queue' = 0
    BY <1>1, <1>3
  <2> QED
    BY <1>1, <1>3, <2>1 DEF ImageInv, Pending, unzipVars, None
<1> QED
  BY <1>2, <1>3 DEF StartNext

\* Every step preserves what is known of the image.
LEMMA ImageStep ==
  ASSUME FlagsOK, StateOK, RoundInv, DownloadInv, Next
  PROVE  DownloadInv'
<1> USE DEF navVars, errVars, adminVars, loginVars, usbVars, pickVars,
            managerVars, dlVars, unzipVars, writeVars
<1>b. hurried => hurried'
  BY DEF Next, UserStep, Delivery, Server, User, ClickNext, ClickFormat,
         ClickMakeAnother, Pick, CloseWindow, SelectDevice, CatchError,
         StartNextDownload, DownloadFinished, OnUnzipFinished, StrayUnzipFinished,
         OnDoneWriting, UnzipRun, JobBegin, JobReport, UrlReply,
         GoogleSigninFinished, MeepoFinished, MeepoFailed, PollDrives
<1>0. SUFFICES ASSUME ~hurried, ~hurried'
               PROVE  ImageInv'
  BY <1>b, Zenon DEF DownloadInv
<1>a. ImageInv
  BY <1>0 DEF DownloadInv
<1> HIDE DEF DownloadInv
<1>1. CASE ClickNext
  BY <1>a, <1>1, AdvanceImage DEF ClickNext, User, ImageInv
<1>2. CASE ClickFormat
  BY <1>a, <1>2, AdvanceImage DEF ClickFormat, User, ImageInv
<1>3. CASE ClickMakeAnother
  <2>1. unzip = "done" /\ ~Pending /\ download_finished
    BY <1>a, <1>3 DEF ClickMakeAnother, ImageInv, None
  <2> QED
    BY <1>a, <1>3, <2>1
    DEF ClickMakeAnother, SwitchTo, InitializePage, ImageInv, Pending, None
<1>4. CASE Pick
  BY <1>a, <1>4 DEF Pick, ImageInv, Pending
<1>5. CASE CloseWindow
  BY <1>a, <1>5 DEF CloseWindow, ImageInv, Pending
<1>6. CASE CatchError
  <2>1. page' # "writeOperation" \/ page = "writeOperation"
    <3>1. Advance /\ errorText'
      BY <1>6 DEF CatchError
    <3>2. CASE Stays
      BY <3>2 DEF Stays
    <3>3. CASE Moves
      BY <3>1, <3>3, MoveFrom DEF StateOK
    <3> QED
      BY <3>1, <3>2, <3>3, AdvanceCases
  <2> QED
    BY <1>a, <1>6, <2>1, AdvanceImage DEF CatchError
<1>7. CASE StartNextDownload
  <2>1. starts = 1 /\ queue = 1 /\ ~active /\ Pending
    BY <1>a, <1>7 DEF StartNextDownload, ImageInv, Pending, StateOK
  <2>2. StartNext(active, zip) /\ active \in BOOLEAN /\ starts' = 0
    BY <1>7, <2>1 DEF StartNextDownload, FlagsOK
  <2> QED
    BY <1>a, <1>7, <2>1, <2>2, StartImage DEF StartNextDownload
<1>8. CASE DownloadFinished
  <2>1. starts' = 0 /\ queue = 0 /\ Pending
    BY <1>a, <1>8 DEF DownloadFinished, ImageInv, Pending
  <2>2. StartNext(FALSE, "fresh") \/ StartNext(FALSE, "partial")
    BY <1>8 DEF DownloadFinished
  <2>3. UNCHANGED <<page, connected, nextEnabled, formatOnly, makeAnother, jobKind>>
    BY <1>8 DEF DownloadFinished
  <2> QED
    BY <1>a, <2>1, <2>2, <2>3, StartImage
<1>9. CASE OnUnzipFinished
  BY <1>a, <1>9, AdvanceImage DEF OnUnzipFinished
<1>10. CASE OnDoneWriting
  <2>1. page = "writeOperation"
    BY <1>10 DEF OnDoneWriting, RoundInv, WriterInv
  <2>2. makeAnother' => makeAnother \/ ~formatOnly
    BY <1>10 DEF OnDoneWriting
  <2> QED
    BY <1>a, <1>10, <2>1, <2>2 DEF OnDoneWriting, ImageInv, Pending
<1>11. CASE UnzipRun
  BY <1>a, <1>11 DEF UnzipRun, ImageInv, Pending, None
<1>12. CASE JobBegin
  BY <1>a, <1>12 DEF JobBegin, ImageInv, Pending
<1>13. CASE JobReport
  BY <1>a, <1>13 DEF JobReport, ImageInv, Pending
<1>14. CASE UrlReply
  BY <1>a, <1>14 DEF UrlReply, ImageInv, Pending
<1>15. CASE MeepoFinished
  BY <1>0, <1>a, <1>15, AdvanceImage DEF MeepoFinished
<1>16. CASE MeepoFailed
  BY <1>a, <1>16 DEF MeepoFailed, ImageInv, Pending
<1>17. CASE PollDrives
  <2>1. page # "downloadProgress"
    BY <1>17 DEF PollDrives, RoundInv, DeviceInv
  <2> QED
    BY <1>a, <1>17, <2>1 DEF PollDrives, ImageInv, Pending
<1>18. CASE \E d \in Devices : SelectDevice(d)
  BY <1>a, <1>18 DEF SelectDevice, ImageInv, Pending
<1>19. CASE StrayUnzipFinished
  BY <1>a, <1>19 DEF StrayUnzipFinished, ImageInv
<1>20. CASE GoogleSigninFinished
  BY <1>a, <1>20 DEF GoogleSigninFinished, ImageInv, Pending
<1> QED
  BY <1>1, <1>2, <1>3, <1>4, <1>5, <1>6, <1>7, <1>8, <1>9,
     <1>10, <1>11, <1>12, <1>13, <1>14, <1>15, <1>16, <1>17, <1>18,
     <1>19, <1>20
  DEF Next, UserStep, Delivery, Server

-----------------------------------------------------------------------------
(* Errors                                                                  *)

\* Where an error is shown next() starts no thread.
LEMMA AdvanceError ==
  ASSUME StateOK, Advance, errorText'
  PROVE  writers' = writers
<1> USE DEF writeVars
<1>1. CASE Stays
  BY <1>1 DEF Stays
<1>2. CASE Moves
  <2>1. page' # "writeOperation"
    BY <1>2, MoveFrom DEF StateOK
  <2> QED
    BY <1>2, <2>1 DEF Moves, InitializePage
<1> QED
  BY <1>1, <1>2, AdvanceCases

\* No step takes the text back or starts a thread after it.
LEMMA ErrorStep ==
  ASSUME StateOK, RoundInv, Next, errorText
  PROVE  errorText' /\ writers' <= writers
<1> USE DEF navVars, errVars, adminVars, loginVars, usbVars, pickVars,
            managerVars, dlVars, unzipVars, writeVars
<1>0. writers \in Nat /\ (writers' = writers => writers' <= writers)
  BY DEF StateOK
<1>1. CASE ClickNext
  BY <1>0, <1>1, AdvanceError DEF ClickNext, User
<1>2. CASE ClickFormat
  BY <1>0, <1>2, AdvanceError DEF ClickFormat, User
<1>3. CASE ClickMakeAnother
  BY <1>0, <1>3 DEF ClickMakeAnother, User, SwitchTo, InitializePage
<1>4. CASE Pick
  BY <1>0, <1>4 DEF Pick, User
<1>5. CASE CloseWindow
  BY <1>0, <1>5 DEF CloseWindow
<1>6. CASE CatchError
  BY <1>0, <1>6, AdvanceError DEF CatchError
<1>7. CASE StartNextDownload
  BY <1>0, <1>7 DEF StartNextDownload, StartNext, MarkComplete, PostErrors
<1>8. CASE DownloadFinished
  BY <1>0, <1>8 DEF DownloadFinished, StartNext, MarkComplete, PostErrors
<1>9. CASE OnUnzipFinished
  BY <1>0, <1>9, AdvanceError DEF OnUnzipFinished
<1>10. CASE OnDoneWriting
  BY <1>0, <1>10 DEF OnDoneWriting, PostError, PostErrors
<1>11. CASE UnzipRun
  BY <1>0, <1>11 DEF UnzipRun
<1>12. CASE JobBegin
  BY <1>0, <1>12 DEF JobBegin
<1>13. CASE JobReport
  BY <1>0, <1>13 DEF JobReport
<1>14. CASE UrlReply
  BY <1>0, <1>14 DEF UrlReply, PostError, PostErrors
<1>15. CASE MeepoFinished
  BY <1>0, <1>15, AdvanceError DEF MeepoFinished
<1>16. CASE MeepoFailed
  BY <1>0, <1>16 DEF MeepoFailed, PostError, PostErrors
<1>17. CASE PollDrives
  BY <1>0, <1>17 DEF PollDrives
<1>18. CASE \E d \in Devices : SelectDevice(d)
  BY <1>0, <1>18 DEF SelectDevice, User
<1>19. CASE StrayUnzipFinished
  BY <1>0, <1>19, AdvanceError DEF StrayUnzipFinished
<1>20. CASE GoogleSigninFinished
  BY <1>0, <1>20 DEF GoogleSigninFinished
<1> QED
  BY <1>1, <1>2, <1>3, <1>4, <1>5, <1>6, <1>7, <1>8, <1>9,
     <1>10, <1>11, <1>12, <1>13, <1>14, <1>15, <1>16, <1>17, <1>18,
     <1>19, <1>20
  DEF Next, UserStep, Delivery, Server

-----------------------------------------------------------------------------
(* The theorems                                                            *)

\* The inductive invariant.
SessionInv == FlagsOK /\ StateOK /\ RoundInv /\ DownloadInv

\* The first state of the program.
LEMMA InitSession == Init => SessionInv
<1> SUFFICES ASSUME Init PROVE SessionInv
  OBVIOUS
<1>1. FlagsOK
  BY DEF Init, FlagsOK
<1>2. StateOK
  BY DEF Init, StateOK, Pages, None
<1>3. RoundInv
  BY DEF Init, RoundInv, WriterInv, DeviceInv, CountInv, Active, None
<1>4. DownloadInv
  BY DEF Init, DownloadInv, ImageInv, Pending, None
<1> QED
  BY <1>1, <1>2, <1>3, <1>4 DEF SessionInv

\* A step that changes nothing.
LEMMA StutterSession ==
  ASSUME SessionInv, UNCHANGED vars
  PROVE  SessionInv'
<1> USE DEF vars, navVars, errVars, adminVars, loginVars, usbVars, pickVars,
            managerVars, dlVars, unzipVars, writeVars, SessionInv
<1>1. FlagsOK'
  BY DEF FlagsOK
<1>2. StateOK'
  BY DEF StateOK
<1>3. RoundInv'
  BY DEF RoundInv, WriterInv, DeviceInv, CountInv, Active
<1>4. DownloadInv'
  BY DEF DownloadInv, ImageInv, Pending
<1> QED
  BY <1>1, <1>2, <1>3, <1>4

\* The invariant of every session.
LEMMA AlwaysSession == Spec => []SessionInv
<1>1. Init => SessionInv
  BY InitSession
<1>2. SessionInv /\ [Next]_vars => SessionInv'
  BY FlagsStep, StateStep, RoundStep, ImageStep, StutterSession
  DEF SessionInv, RoundInv
<1> QED
  BY <1>1, <1>2, PTL DEF Spec

\* Every variable of the wizard keeps its type, whatever is clicked and
\* delivered, for any set of devices.
THEOREM TypeCorrect == Spec => []TypeOK
<1>1. SessionInv => TypeOK
  BY TypeParts DEF SessionInv
<1> QED
  BY <1>1, AlwaysSession, PTL

\* Two write threads never run at once: writeToDrive replaces the thread only
\* after onDoneWriting, however often handleCustomButton restarts the wizard
\* and however often Meepo reports finished().
THEOREM OneWriter == Spec => []SingleWriter
<1>1. SessionInv => SingleWriter
  BY DEF SessionInv, RoundInv, WriterInv, SingleWriter
<1> QED
  BY <1>1, AlwaysSession, PTL

\* The device a thread is erasing was listed by the scan of this round and is
\* of at least 6 GB: showing the picker clears the selection, and the list is
\* not scanned again once there is something to select.
THEOREM RightDevice == Spec => []DeviceOfThisRound
<1>1. SessionInv => DeviceOfThisRound
  BY DEF SessionInv, RoundInv, WriterInv, DeviceInv, Active, DeviceOfThisRound
<1> QED
  BY <1>1, AlwaysSession, PTL

\* A thread that writes an image is built only when the unzip thread's signal
\* has been handled, however many errors are posted, clicks are queued and
\* finished() signals come: only a finished() that moves the wizard from the
\* download page to the write page makes getImageFileName ask too early.
THEOREM ImageReady == Spec => []ImageBeforeWrite
<1>1. SessionInv => ImageBeforeWrite
  BY DEF SessionInv, DownloadInv, ImageInv, ImageBeforeWrite
<1> QED
  BY <1>1, AlwaysSession, PTL

\* Once catchError has run, no step takes the error back or starts a write
\* thread: not a click, a restart, an unzip thread or a late finished().
THEOREM ErrorStopsWrites == Spec => NoWriteAfterError
<1>1. SessionInv /\ [Next]_vars =>
        [errorText => errorText' /\ writers' <= writers]_vars
  BY ErrorStep DEF SessionInv
<1> QED
  BY <1>1, AlwaysSession, PTL DEF Spec, NoWriteAfterError
=============================================================================
