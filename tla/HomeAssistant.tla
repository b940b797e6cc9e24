---------------------------- MODULE HomeAssistant ----------------------------
(***************************************************************************)
(* What Home Assistant sees of the station: the messages the broker        *)
(* retains, published by ha.c on behalf of main() in main.c, and the will  *)
(* that mqtt_init and client_init of mqtt.c hand to the broker.            *)
(*                                                                         *)
(* The station's side of the connection, link, is the session of MqttLink: *)
(* only over it does a publish return success. The broker's side, session, *)
(* may end before or after it. Every publish is QoS 0: one that succeeds   *)
(* is only on its way (wire), in order, and is lost when the broker's side *)
(* ends first.                                                             *)
(*                                                                         *)
(* The broker is MQTT's: it publishes the retained will of every session   *)
(* that ends without a DISCONNECT packet, which the station never sends,   *)
(* and ends the old session of a client that connects again.               *)
(***************************************************************************)

EXTENDS Naturals, Sequences

CONSTANTS
  NumSensors,    \* sensors besides the watchdog sensor, which is number 0
  MaxWire        \* bound: messages on their way

ASSUME NumSensorsAssumption == NumSensors \in Nat
ASSUME MaxWireAssumption == MaxWire \in Nat \ {0}

Sensors == 0 .. NumSensors

\* The topics that matter: the discovery topic of each sensor, the topic of
\* the availability, which is the will's, and the watchdog sensor's state.
ConfigTopic(s) == s
AvailableTopic == NumSensors + 1
StateTopic == NumSensors + 2
Topics == 0 .. NumSensors + 2

Payloads == {"config", "online", "offline", "ON", "OFF"}

VARIABLES
  pc,            \* where main is
  index,         \* the sensor to register next
  binary_state,  \* of the watchdog sensor
  by_watchdog,   \* was the last reset a watchdog reset?
  link,          \* the station's side: the library's session is connected
  poll_thread,   \* "prestart", "polling" or "dead"
  session,       \* the broker's side: "none" or "open"
  wire,          \* what the broker has not read of this session
  retained,      \* what the broker retains on each topic
  calm           \* nothing disturbs the connection or resets the station

station == <<pc, index, binary_state, by_watchdog>>
connection == <<link, poll_thread, session>>
broker == <<session, wire, retained>>
vars == <<station, link, poll_thread, broker, calm>>

TypeOK ==
  /\ pc \in {"register", "online", "show", "loop"}
  /\ index \in Sensors
  /\ binary_state \in BOOLEAN
  /\ by_watchdog \in BOOLEAN
  /\ link \in BOOLEAN
  /\ poll_thread \in {"prestart", "polling", "dead"}
  /\ session \in {"none", "open"}
  /\ wire \in Seq([topic : Topics, payload : Payloads])
  /\ Len(wire) <= MaxWire
  /\ retained \in [Topics -> Payloads \cup {"none"}]
  /\ calm \in BOOLEAN

\* A station that is switched on for the first time: the broker knows nothing.
Init ==
  /\ pc = "register"
  /\ index = 0
  /\ binary_state = FALSE
  /\ by_watchdog = FALSE
  /\ link = FALSE
  /\ poll_thread = "prestart"
  /\ session = "none"
  /\ wire = <<>>
  /\ retained = [t \in Topics |-> "none"]
  /\ calm \in BOOLEAN

-----------------------------------------------------------------------------
(* Publishing. *)

\* mqtt_publish_to_topic that returns success. A message written to a session
\* the broker has ended goes nowhere.
mqtt_publish_to_topic(topic, payload) ==
  /\ link
  /\ \/ /\ session = "open"
        /\ Len(wire) < MaxWire
        /\ wire' = Append(wire, [topic |-> topic, payload |-> payload])
     \/ /\ session = "none"
        /\ UNCHANGED wire

\* Mutant: mqtt_init is given another topic than ha_set_online uses.
WillElsewhere == [retained EXCEPT ![StateTopic] = "offline"]

\* Mutant: the will is published and not retained (will_retain is 0).
WillNotRetained == retained

\* The broker publishes the will, and retains it.
Will == [retained EXCEPT ![AvailableTopic] = "offline"]

\* The broker's side of a connect: a session left open is ended first.
Accept ==
  /\ session' = "open"
  /\ wire' = <<>>
  /\ retained' = IF session = "open" THEN Will ELSE retained

\* A publish while the link is down connects first. k_thread_start starts
\* poll_thread once.
ConnectSucceeds ==
  /\ ~link
  /\ link' = TRUE
  /\ poll_thread' = IF poll_thread = "prestart" THEN "polling" ELSE poll_thread
  /\ Accept
  /\ UNCHANGED <<station, calm>>

\* The broker accepts and the CONNACK comes too late: mqtt_abort.
ConnectGivenUp ==
  /\ ~link
  /\ ~calm
  /\ Accept
  /\ UNCHANGED <<station, link, poll_thread, calm>>

-----------------------------------------------------------------------------
(* Main. A step that fails is retried, and changes nothing. *)

\* Mutant: the last sensor is not registered.
RegisterButLast ==
  /\ pc = "register"
  /\ mqtt_publish_to_topic(ConfigTopic(index), "config")
  /\ IF index + 1 < NumSensors
       THEN index' = index + 1 /\ pc' = pc
       ELSE index' = 0 /\ pc' = "online"
  /\ UNCHANGED <<binary_state, by_watchdog, connection, retained, calm>>

\* register_sensor_retry of each sensor: ha_register_sensor sends its
\* discovery message.
ha_register_sensor ==
  /\ pc = "register"
  /\ mqtt_publish_to_topic(ConfigTopic(index), "config")
  /\ IF index < NumSensors
       THEN index' = index + 1 /\ pc' = pc
       ELSE index' = 0 /\ pc' = "online"
  /\ UNCHANGED <<binary_state, by_watchdog, connection, retained, calm>>

\* set_online_retry, then ha_set_binary_sensor_state with the reset cause.
ha_set_online ==
  /\ pc = "online"
  /\ mqtt_publish_to_topic(AvailableTopic, "online")
  /\ binary_state' = by_watchdog
  /\ pc' = "show"
  /\ UNCHANGED <<index, by_watchdog, connection, retained, calm>>

State == IF binary_state THEN "ON" ELSE "OFF"

\* send_binary_sensor_retry, at the end of the set-up and in the loop.
ha_send_binary_sensor_state ==
  /\ pc = "show"
  /\ mqtt_publish_to_topic(StateTopic, State)
  /\ pc' = "loop"
  /\ UNCHANGED <<index, binary_state, by_watchdog, connection, retained, calm>>

\* After NUMBER_OF_LOOP_RESET_WATCHDOG_SENSOR turns the state is cleared.
ClearTrigger ==
  /\ pc = "loop"
  /\ binary_state
  /\ binary_state' = FALSE
  /\ pc' = "show"
  /\ UNCHANGED <<index, by_watchdog, link, poll_thread, broker, calm>>

\* In the loop the values are sent, which connects and retains nothing.
Main ==
  \/ ConnectSucceeds
  \/ ha_register_sensor
  \/ ha_set_online
  \/ ha_send_binary_sensor_state
  \/ ClearTrigger

-----------------------------------------------------------------------------
(* The connection and the broker. *)

\* Mutant: poll_thread carries on and reads the next session.
ReaderCarriesOn == poll_thread

\* Closing the socket wakes poll_thread, which finds no session and returns.
\* It has the time: main sleeps before it retries, or waits for the resolver.
ReaderReturns == "dead"

\* The station learns that the session is gone.
LoseLink ==
  /\ link
  /\ ~calm \/ session = "none"
  /\ link' = FALSE
  /\ poll_thread' = ReaderReturns
  /\ UNCHANGED <<station, broker, calm>>

Deliver ==
  /\ session = "open"
  /\ wire # <<>>
  /\ retained' = [retained EXCEPT ![Head(wire).topic] = Head(wire).payload]
  /\ wire' = Tail(wire)
  /\ UNCHANGED <<station, connection, calm>>

\* The broker learns that the station is gone, or believes it.
BrokerCloses ==
  /\ session = "open"
  /\ ~link \/ ~calm
  /\ session' = "none"
  /\ wire' = <<>>
  /\ retained' = Will
  /\ UNCHANGED <<station, link, poll_thread, calm>>

-----------------------------------------------------------------------------
(* Resets. *)

\* The broker does not notice.
Restart ==
  /\ pc' = "register"
  /\ index' = 0
  /\ binary_state' = FALSE
  /\ link' = FALSE
  /\ poll_thread' = "prestart"
  /\ UNCHANGED <<broker, calm>>

\* The mqtt channel: MqttClient shows that it resets a station whose
\* poll_thread has returned.
WatchdogReset ==
  /\ poll_thread = "dead"
  /\ by_watchdog' = TRUE
  /\ Restart

\* Power, the button, or the main channel.
OtherReset ==
  /\ ~calm
  /\ by_watchdog' \in BOOLEAN
  /\ Restart

\* Disturbances come and go.
Disturb ==
  /\ calm' = ~calm
  /\ UNCHANGED <<station, link, poll_thread, broker>>

Next ==
  \/ Main
  \/ ConnectGivenUp \/ LoseLink \/ Deliver \/ BrokerCloses
  \/ WatchdogReset \/ OtherReset \/ Disturb

Spec == Init /\ [][Next]_vars

\* Only in calm does an attempt of main have to succeed. Either side learns of
\* the other's end by its keepalive or by a write that fails.
Fairness ==
  /\ WF_vars(calm /\ Main)
  /\ WF_vars(session = "none" /\ LoseLink)
  /\ WF_vars(Deliver)
  /\ WF_vars(~link /\ BrokerCloses)
  /\ WF_vars(WatchdogReset)

FairSpec == Spec /\ Fairness

-----------------------------------------------------------------------------
(* Properties. *)

Seen(s) == retained[ConfigTopic(s)] = "config"
Online == retained[AvailableTopic] = "online"

\* The first connection since the reset, and both sides still have it.
FirstConnection == link /\ poll_thread = "polling" /\ session = "open"

\* Over a connection that lasts, Home Assistant sees a booting station in the
\* order main says things: never online before every sensor has been seen, and
\* never online because of what an earlier boot or session left behind; and when
\* nothing is on its way in the loop, it sees what main thinks it shows.
SeenInOrder == FirstConnection =>
  /\ Online => pc \in {"show", "loop"} /\ \A s \in Sensors : Seen(s)
  /\ pc = "loop" /\ wire = <<>> => Online /\ retained[StateTopic] = State

\* A station that is gone is not shown as available: the retained will, handed
\* over with every connect, has the last word, whatever was still on its way.
OfflineWhenGone == <>[]~link => <>[]~Online

\* "online" is on its way to the availability.
OnTheWay == \E i \in 1 .. Len(wire) : wire[i].topic = AvailableTopic

Lease == INSTANCE Availability WITH
  link <- link, session <- session, said <- Online \/ OnTheWay, shown <- Online

\* The availability is a lease: whatever is retained, on its way, lost or left
\* behind by an earlier boot, the device is shown online only because the station
\* said so in the session that is open, and the end of that session shows it
\* offline in the same step.
ImplementsAvailability == Lease!Spec

\* Once the disturbances end, the station is seen again, with all its sensors
\* and without a watchdog alarm. The program announces itself once per boot only,
\* so this takes the reset that a lost connection ends in.
ComesBack == <>[]calm =>
  <>[](Online /\ retained[StateTopic] = "OFF" /\ \A s \in Sensors : Seen(s))

\* "We set the device online a little after sensor registrations so HA gets time
\* to process the sensor registrations first": who sees the device online has
\* seen its sensors.
RegisteredFirst == Online => \A s \in Sensors : Seen(s)

=============================================================================
