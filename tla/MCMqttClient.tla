---------------------------- MODULE MCMqttClient ----------------------------
(***************************************************************************)
(* The constants TLC checks MqttClient with. For the calls (MCMqttClient)  *)
(* ticks are 20 s: the keepalive of 60 s and the watchdog window of 220 s  *)
(* have their real values, and so have the three attempts of each loop.    *)
(* For the clock (MCMqttClientClock) ticks are 30 s, two for the keepalive *)
(* and seven for the window, and a call makes one attempt to resolve and   *)
(* two to connect.                                                         *)
(***************************************************************************)

EXTENDS MqttClient

=============================================================================
