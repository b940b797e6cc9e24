----------------------------- MODULE MCUniqueId -----------------------------
(***************************************************************************)
(* UniqueId for TLC. Whether a disturbance is found does not depend on the *)
(* word it disturbs, so that a few words do.                               *)
(***************************************************************************)

EXTENDS UniqueId

\* 0 and 0xBEEF.
MCWords == {{}, (0 .. 15) \ {4, 8, 14}}

=============================================================================
