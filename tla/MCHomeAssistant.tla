--------------------------- MODULE MCHomeAssistant ---------------------------
(***************************************************************************)
(* HomeAssistant for TLC: the watchdog sensor and two others, and at most  *)
(* three messages on their way.                                            *)
(***************************************************************************)

EXTENDS HomeAssistant

=============================================================================
