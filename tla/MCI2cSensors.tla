---------------------------- MODULE MCI2cSensors ----------------------------
(***************************************************************************)
(* The constant TLC checks I2cSensors with: three failing turns until the  *)
(* watchdog resets (22 in the code).                                       *)
(***************************************************************************)

EXTENDS I2cSensors

=============================================================================
