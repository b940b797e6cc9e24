--------------------------- MODULE OpenThreadReady ---------------------------
(***************************************************************************)
(* How main learns that the Thread network is usable,                      *)
(* src/app/src/openthread.c: the OpenThread thread runs                    *)
(* on_thread_state_changed whenever the stack's state changes, which posts *)
(* or clears OPENTHREAD_READY_EVENT, and main waits for the event before   *)
(* it publishes anything.                                                  *)
(*                                                                         *)
(* The stack collects the flags of the changes it has not signalled yet,   *)
(* so one callback may stand for several of them. It signals changes of    *)
(* the role, of the network data (the routes), added addresses and many    *)
(* others; a neighbour may come or go without any signal.                  *)
(***************************************************************************)

EXTENDS Naturals

VARIABLES
  main,        \* "start", "init", "waiting" or "up"
  attached,    \* does the device have a role?
  neighbors,   \* the neighbour table is not empty
  route,       \* the network data holds an on-mesh prefix
  flags,       \* changes that have not been signalled yet
  has_role,    \* the callback's static
  ready,       \* OPENTHREAD_READY_EVENT
  usable       \* history: announced ready, and the network is good ever since

mesh == <<attached, neighbors, route>>
vars == <<main, mesh, flags, has_role, ready, usable>>

Flags == {"role", "address", "netdata", "other"}

TypeOK ==
  /\ main \in {"start", "init", "waiting", "up"}
  /\ attached \in BOOLEAN /\ neighbors \in BOOLEAN /\ route \in BOOLEAN
  /\ flags \subseteq Flags
  /\ has_role \in BOOLEAN
  /\ ready \in BOOLEAN
  /\ usable \in BOOLEAN

Init ==
  /\ main = "start"
  /\ attached = FALSE /\ neighbors = FALSE /\ route = FALSE
  /\ flags = {}
  /\ has_role = FALSE
  /\ ready = FALSE
  /\ usable = FALSE

Good == attached /\ neighbors /\ route

-----------------------------------------------------------------------------
(* Main. *)

\* openthread_my_start registers the callback and starts the stack.
openthread_my_start ==
  /\ main = "start"
  /\ main' = "init"
  /\ UNCHANGED <<mesh, flags, has_role, ready, usable>>

\* The sensors are set up; then k_event_wait returns at once if the event is
\* there, without consuming it.
openthread_wait_for_ready ==
  /\ main = "init"
  /\ main' = IF ready THEN "up" ELSE "waiting"
  /\ UNCHANGED <<mesh, flags, has_role, ready, usable>>

-----------------------------------------------------------------------------
(* The callback, on the thread of OpenThread. *)

\* Mutant: a lost role is not taken back.
HasRoleForever == has_role \/ ("role" \in flags /\ attached)

\* Mutant: has_role is not static, a callback knows only its own flags.
HasRoleNow == "role" \in flags /\ attached

\* The static follows the role only when the role is what changed.
HasRole == IF "role" \in flags THEN attached ELSE has_role

\* has_address means an address was added since the last callback, not that
\* the device has one.
IsReady == HasRole /\ neighbors /\ route /\ "address" \in flags

\* k_event_post wakes a waiting main with the event it waits for.
Post ==
  /\ IsReady
  /\ ready' = TRUE
  /\ main' = IF main = "waiting" THEN "up" ELSE main
  /\ usable' = Good

\* Mutant: the event is never cleared.
KeepEvent ==
  /\ ~IsReady
  /\ UNCHANGED <<ready, main, usable>>

\* k_event_set(&events, 0).
Withdraw ==
  /\ ~IsReady
  /\ ready' = FALSE
  /\ UNCHANGED <<main, usable>>

on_thread_state_changed ==
  /\ main # "start"
  /\ flags # {}
  /\ flags' = {}
  /\ has_role' = HasRole
  /\ Post \/ Withdraw
  /\ UNCHANGED mesh

-----------------------------------------------------------------------------
(* The stack and the network. *)

\* The network changes and raises what it raises; history forgets a network
\* that is not good any more.
Changes(raised) ==
  /\ main # "start"
  /\ flags' = flags \cup raised
  /\ usable' = (usable /\ Good')
  /\ UNCHANGED <<main, has_role, ready>>

RoleChanges ==
  /\ attached' = ~attached
  /\ UNCHANGED <<neighbors, route>>
  /\ Changes({"role"})

NeighborsChange ==
  /\ neighbors' = ~neighbors
  /\ UNCHANGED <<attached, route>>
  /\ Changes({}) \/ Changes({"other"})

RouteChanges ==
  /\ route' = ~route
  /\ UNCHANGED <<attached, neighbors>>
  /\ Changes({"netdata"})

AddressAdded ==
  /\ UNCHANGED mesh
  /\ Changes({"address"})

OtherChange ==
  /\ UNCHANGED mesh
  /\ Changes({"other"})

\* The watchdog, or any other reset.
Reset ==
  /\ main' = "start"
  /\ attached' = FALSE /\ neighbors' = FALSE /\ route' = FALSE
  /\ flags' = {}
  /\ has_role' = FALSE
  /\ ready' = FALSE
  /\ usable' = FALSE

Main == openthread_my_start \/ openthread_wait_for_ready

Next ==
  \/ Main \/ on_thread_state_changed
  \/ RoleChanges \/ NeighborsChange \/ RouteChanges \/ AddressAdded
  \/ OtherChange \/ Reset

Spec == Init /\ [][Next]_vars

\* Main gets through its set-up, and the stack signals what has changed.
FairSpec == Spec /\ WF_vars(Main) /\ WF_vars(on_thread_state_changed)

-----------------------------------------------------------------------------
(* Properties. *)

\* The static of the callback is the role of the device, whatever changes were
\* signalled together or overtook each other, but for a change of the role that
\* is not signalled yet.
RoleIsKnown == "role" \notin flags => (has_role <=> attached)

\* The event is up only over a network with a role and a route; it can be stale
\* only by the changes that are waiting to be signalled.
ReadyIsCurrent ==
  ready /\ "role" \notin flags /\ "netdata" \notin flags => attached /\ route

\* A network that stays good and goes on adding addresses lets main through:
\* an address that came too early is made up for by a later one.
GoodNetworkEndsWait ==
  <>[]Good /\ []<><<AddressAdded>>_vars => <>[](main = "up")

\* What the boot log of README.md shows: "openthread ready!" is logged long
\* before main comes to "waiting for openthread to be ready", and main goes on
\* at once. The announcement of a network that stays good is remembered.
ReadyIsRemembered == main = "waiting" => ~usable

=============================================================================
