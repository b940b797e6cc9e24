---------------------------- MODULE MCMqttUptime ----------------------------
(***************************************************************************)
(* The constants TLC checks MqttUptime with: 60 s of keepalive and a       *)
(* window of 220 s in ticks of 20 s, an answer within two ticks and a      *)
(* first session within five, the largest values the assumption allows.    *)
(***************************************************************************)

EXTENDS MqttUptime

=============================================================================
