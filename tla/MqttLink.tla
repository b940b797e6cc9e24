------------------------------ MODULE MqttLink ------------------------------
(***************************************************************************)
(* What src/app/src/mqtt.c promises the code that publishes through it:    *)
(*                                                                         *)
(*  - a transport to the broker is opened only inside a call, and never    *)
(*    while there is one already;                                          *)
(*  - a call that returns success returns it over a link that is up;       *)
(*  - a call that returns an error does not return it over a link that is  *)
(*    up: the payload was not silently left behind on a good link;         *)
(*  - the link may come up and go down at any moment, a call in progress   *)
(*    or not, and neither ever ends, starts or answers a call.             *)
(*                                                                         *)
(* It does not promise that an error leaves no transport behind: a call    *)
(* that a late event handler misleads may return while the link is opening.*)
(*                                                                         *)
(* MqttClient, the client with its threads, handlers, timer and socket,    *)
(* implements this specification (MqttClient!Link).                        *)
(***************************************************************************)

VARIABLES
  link,   \* the transport to the broker: "idle", "connecting" or "connected"
  busy,   \* is a publish call in progress?
  ret     \* what the last finished call returned; "none" while one runs

vars == <<link, busy, ret>>

Init ==
  /\ link = "idle"
  /\ busy = FALSE
  /\ ret = "none"

Call ==
  /\ ~busy
  /\ busy' = TRUE
  /\ ret' = "none"
  /\ UNCHANGED link

Open ==
  /\ busy
  /\ link = "idle"
  /\ link' = "connecting"
  /\ UNCHANGED <<busy, ret>>

Up ==
  /\ link = "connecting"
  /\ link' = "connected"
  /\ UNCHANGED <<busy, ret>>

Down ==
  /\ link' = "idle"
  /\ UNCHANGED <<busy, ret>>

ReturnOk ==
  /\ busy
  /\ link = "connected"
  /\ busy' = FALSE
  /\ ret' = "ok"
  /\ UNCHANGED link

\* The call may end with the very step that takes the link down.
ReturnError ==
  /\ busy
  /\ link' # "connected"
  /\ link' \in {link, "idle"}
  /\ busy' = FALSE
  /\ ret' = "error"

\* A restart of the station, whatever its cause.
Reboot ==
  /\ link' = "idle"
  /\ busy' = FALSE
  /\ ret' = "none"

Next == Call \/ Open \/ Up \/ Down \/ ReturnOk \/ ReturnError \/ Reboot

Spec == Init /\ [][Next]_vars

=============================================================================
