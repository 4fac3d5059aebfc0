---------------------------- MODULE MC_WizardFlow ----------------------------
(***************************************************************************)
(* WizardFlow on three devices, one of them too small to be selected.      *)
(***************************************************************************)
EXTENDS WizardFlow

CONSTANTS d1, d2, d3

MCDevices == {d1, d2, d3}
MCBig == {d1, d2}
=============================================================================
