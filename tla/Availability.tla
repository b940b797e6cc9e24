---------------------------- MODULE Availability ----------------------------
(***************************************************************************)
(* What Home Assistant may conclude from the availability of the station:  *)
(* it is a lease on the session with the broker.                           *)
(*                                                                         *)
(*  - the device is shown online only if the station has said so in the    *)
(*    session that is open now, over its own side of it;                   *)
(*  - what an earlier session, or an earlier boot, has said counts for     *)
(*    nothing once that session has ended: its end shows the device        *)
(*    offline at once;                                                     *)
(*  - nothing but the end of a session shows the device offline.           *)
(*                                                                         *)
(* HomeAssistant, with its topics, retained messages and the messages on   *)
(* their way, implements this specification (HomeAssistant!Lease).         *)
(***************************************************************************)

VARIABLES
  link,      \* does the station have its side of a session?
  session,   \* the broker's side: "none" or "open"
  said,      \* has the station said "online" in this session?
  shown      \* is the device shown online?

vars == <<link, session, said, shown>>

Init ==
  /\ link = FALSE
  /\ session = "none"
  /\ ~said
  /\ ~shown

\* A session begins with nothing said; one that is still open ends first.
Begins ==
  /\ session' = "open"
  /\ ~said'
  /\ ~shown'

Connect == ~link /\ link' = TRUE /\ Begins

\* The broker has accepted, and the station does not wait for it any more.
Attempt == ~link /\ Begins /\ UNCHANGED link

Say ==
  /\ link
  /\ session = "open"
  /\ said' = TRUE
  /\ UNCHANGED <<link, session, shown>>

Show ==
  /\ said
  /\ shown' = TRUE
  /\ UNCHANGED <<link, session, said>>

\* The station loses its side, by a failure or by a reset.
Lose ==
  /\ link' = FALSE
  /\ UNCHANGED <<session, said, shown>>

Close ==
  /\ session' = "none"
  /\ ~said'
  /\ ~shown'
  /\ UNCHANGED link

Next == Connect \/ Attempt \/ Say \/ Show \/ Lose \/ Close

Spec == Init /\ [][Next]_vars

=============================================================================
