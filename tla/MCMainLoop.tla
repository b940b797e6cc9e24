----------------------------- MODULE MCMainLoop -----------------------------
(***************************************************************************)
(* The constants TLC checks MainLoop with: three sensors, two of them read *)
(* from one device as temperature and humidity are, an average of two      *)
(* turns and a watchdog window of three (6 and 22 in the code).            *)
(***************************************************************************)

EXTENDS MainLoop

MCDeviceOf == <<1, 1, 2>>

=============================================================================
