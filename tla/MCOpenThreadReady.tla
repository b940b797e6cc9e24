-------------------------- MODULE MCOpenThreadReady --------------------------
(***************************************************************************)
(* OpenThreadReady has no constants: TLC checks all of it.                 *)
(***************************************************************************)

EXTENDS OpenThreadReady

=============================================================================
