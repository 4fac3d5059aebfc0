--------------------------- MODULE MC_DriveAccess ---------------------------
(***************************************************************************)
(* Two other programs, four tries instead of 150 (write sharing is turned  *)
(* on before the last one), two calls of Install.                          *)
(***************************************************************************)
EXTENDS DriveAccess

=============================================================================
