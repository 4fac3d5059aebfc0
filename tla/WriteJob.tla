------------------------------ MODULE WriteJob ------------------------------
(***************************************************************************)
(* What a DiskWriteThread promises to the page that started it: it runs    *)
(* once, it reports exactly one outcome, it changes the contents of disks  *)
(* only while it reports Running, and a job that could not even find its   *)
(* image has not touched any disk.                                         *)
(*                                                                         *)
(* DiskWrite implements this specification; WizardFlow relies on it.       *)
(***************************************************************************)

VARIABLES
  state,      \* DiskWriteThread::State, as state() returns it
  touched     \* has any disk been written to?

jobVars == <<state, touched>>

\* The outcomes a job may report (diskwritethread.h, enum class State).
Outcomes == {"GetFileSizeFailed", "InstallFailed", "Success"}

States == {"Initial", "Running"} \union Outcomes

JobTypeOK ==
  /\ state \in States
  /\ touched \in BOOLEAN

JobInit ==
  /\ state = "Initial"
  /\ touched = FALSE

\* run() begins: setState(State::Running).
Begin ==
  /\ state = "Initial"
  /\ state' = "Running"
  /\ UNCHANGED touched

\* A write reaches a disk.
Touch ==
  /\ state = "Running"
  /\ touched' = TRUE
  /\ UNCHANGED state

\* The job ends; the image's size is asked for before any disk is opened.
Report(outcome) ==
  /\ state = "Running"
  /\ outcome = "GetFileSizeFailed" => ~touched
  /\ state' = outcome
  /\ UNCHANGED touched

JobNext == Begin \/ Touch \/ \E outcome \in Outcomes : Report(outcome)

JobSpec == JobInit /\ [][JobNext]_jobVars
=============================================================================
