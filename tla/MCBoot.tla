------------------------------- MODULE MCBoot -------------------------------
(***************************************************************************)
(* Boot for TLC, with one cause besides the watchdog and the reset pin.    *)
(***************************************************************************)

EXTENDS Boot

=============================================================================
