------------------------ MODULE HomeAssistant_proofs ------------------------
(***************************************************************************)
(* Proofs about HomeAssistant: type correctness, and that Home Assistant   *)
(* sees a booting station in order, for any number of sensors and any      *)
(* number of messages on their way. SeenInOrder speaks of what arrived; it *)
(* is inductive together with what is still on its way (InOrder).          *)
(***************************************************************************)

EXTENDS HomeAssistant, TLAPS

Message(t, p) == [topic |-> t, payload |-> p]
Messages == [topic : Topics, payload : Payloads]

\* The discovery message of a sensor arrived, or is one of the next n messages.
Announced(s, n) ==
  Seen(s) \/ \E j \in 1 .. n : wire[j] = Message(ConfigTopic(s), "config")

\* Nothing but "online" is on its way to the availability, main is past the
\* registrations when it is, and every sensor is announced before it.
OnlineLast == \A i \in 1 .. Len(wire) : wire[i].topic = AvailableTopic =>
  /\ wire[i].payload = "online"
  /\ pc \in {"show", "loop"}
  /\ \A s \in Sensors : Announced(s, i - 1)

\* What goes to the discovery topic of a sensor is its discovery message.
ConfigsOnly == \A i \in 1 .. Len(wire) :
  wire[i].topic \in Sensors => wire[i].payload = "config"

\* What main has said since the reset arrived or is on its way.
Registered == \A s \in Sensors :
  pc # "register" \/ s < index => Announced(s, Len(wire))

SaidOnline == pc \in {"show", "loop"} =>
  Online \/ \E j \in 1 .. Len(wire) : wire[j] = Message(AvailableTopic, "online")

\* The state main shows is the last one on its way, or what has arrived.
SaidState == pc = "loop" =>
  \/ /\ retained[StateTopic] = State
     /\ \A j \in 1 .. Len(wire) : wire[j].topic # StateTopic
  \/ \E i \in 1 .. Len(wire) :
       /\ wire[i] = Message(StateTopic, State)
       /\ \A j \in i + 1 .. Len(wire) : wire[j].topic # StateTopic

OnlineIsSeen == Online => pc \in {"show", "loop"} /\ \A s \in Sensors : Seen(s)

InOrder == FirstConnection =>
  OnlineIsSeen /\ OnlineLast /\ ConfigsOnly /\ Registered /\ SaidOnline /\ SaidState

\* Main says nothing before it has connected, and poll_thread polls only over
\* a link that is up.
Fresh == /\ poll_thread = "prestart" => ~link /\ pc = "register" /\ index = 0
         /\ poll_thread = "polling" => link

\* A session that ended has left nothing on its way, and its will.
Ended == session = "none" => wire = <<>> /\ ~Online

Inv == TypeOK /\ Fresh /\ Ended /\ InOrder

-----------------------------------------------------------------------------
(* Sequences, topics and what a step does to them. *)

\* What Append does to the length and the elements of a sequence.
LEMMA AppendElements ==
  ASSUME NEW S, NEW q \in Seq(S), NEW m \in S
  PROVE  /\ Append(q, m) \in Seq(S)
         /\ Len(Append(q, m)) = Len(q) + 1
         /\ \A i \in 1 .. Len(q) : Append(q, m)[i] = q[i]
         /\ Append(q, m)[Len(q) + 1] = m
  OBVIOUS

\* What Tail does to the length and the elements of a sequence.
LEMMA TailElements ==
  ASSUME NEW S, NEW q \in Seq(S), q # <<>>
  PROVE  /\ Tail(q) \in Seq(S)
         /\ Len(q) \in Nat \ {0}
         /\ Len(Tail(q)) = Len(q) - 1
         /\ \A i \in 1 .. Len(q) - 1 : Tail(q)[i] = q[i + 1]
         /\ Head(q) = q[1] /\ Head(q) \in S
  OBVIOUS

\* The topics are different ones.
LEMMA TopicsDiffer ==
  /\ Sensors \subseteq Topics /\ AvailableTopic \in Topics /\ StateTopic \in Topics
  /\ AvailableTopic \notin Sensors /\ StateTopic \notin Sensors
  /\ AvailableTopic # StateTopic
  /\ \A s \in Sensors : ConfigTopic(s) = s
BY NumSensorsAssumption
   DEF Sensors, Topics, AvailableTopic, StateTopic, ConfigTopic

\* The will and an accepted connect leave the types alone and nobody online.
LEMMA AcceptFacts ==
  ASSUME TypeOK, Ended, Accept
  PROVE  /\ session' = "open" /\ wire' = <<>>
         /\ retained' \in [Topics -> Payloads \cup {"none"}]
         /\ ~Online'
<1>1. /\ Will \in [Topics -> Payloads \cup {"none"}]
      /\ Will[AvailableTopic] = "offline"
  BY TopicsDiffer DEF Will, TypeOK, Payloads
<1> QED BY <1>1 DEF Accept, TypeOK, Ended, Online

\* A publish over an open session puts its message behind the others.
LEMMA PublishFacts ==
  ASSUME TypeOK, NEW t \in Topics, NEW p \in Payloads,
         mqtt_publish_to_topic(t, p)
  PROVE  /\ wire' \in Seq(Messages) /\ Len(wire') <= MaxWire
         /\ session = "none" => wire' = wire
         /\ session = "open" =>
              /\ Len(wire') = Len(wire) + 1
              /\ \A i \in 1 .. Len(wire) : wire'[i] = wire[i]
              /\ wire'[Len(wire) + 1] = Message(t, p)
<1> DEFINE m == Message(t, p)
<1>1. m \in Messages
  BY DEF Message, Messages
<1>2. wire \in Seq(Messages) /\ Len(wire) \in Nat /\ Len(wire) <= MaxWire
  BY DEF TypeOK, Messages
<1>3. CASE session = "open" /\ Len(wire) < MaxWire /\ wire' = Append(wire, m)
  <2> HIDE DEF m
  <2>1. /\ Append(wire, m) \in Seq(Messages)
        /\ Len(Append(wire, m)) = Len(wire) + 1
        /\ \A i \in 1 .. Len(wire) : Append(wire, m)[i] = wire[i]
        /\ Append(wire, m)[Len(wire) + 1] = m
    BY <1>1, <1>2, AppendElements
  <2> QED BY <1>2, <1>3, <2>1, MaxWireAssumption DEF m
<1>4. CASE session = "none" /\ wire' = wire
  BY <1>2, <1>4
<1> QED BY <1>3, <1>4 DEF mqtt_publish_to_topic, Message

-----------------------------------------------------------------------------
(* Types. *)

\* Type correctness of the initial state.
LEMMA TypeInit == Init => TypeOK
<1> SUFFICES ASSUME Init PROVE TypeOK
  OBVIOUS
<1>1. binary_state \in BOOLEAN /\ by_watchdog \in BOOLEAN /\ link \in BOOLEAN
        /\ calm \in BOOLEAN
  BY Zenon DEF Init
<1>2. wire \in Seq(Messages) /\ Len(wire) <= MaxWire
  BY MaxWireAssumption DEF Init
<1> QED BY <1>1, <1>2, NumSensorsAssumption DEF Init, TypeOK, Sensors, Messages

\* Every step keeps the types.
LEMMA TypeStep == ASSUME TypeOK, Ended, [Next]_vars PROVE TypeOK'
<1>1. /\ NumSensors \in Nat
      /\ Sensors \subseteq Topics /\ AvailableTopic \in Topics /\ StateTopic \in Topics
  BY TopicsDiffer, NumSensorsAssumption
<1>2. CASE ConnectSucceeds \/ ConnectGivenUp
  <2>1. wire' \in Seq(Messages) /\ Len(wire') <= MaxWire
    <3>1. wire' = <<>>
      BY <1>2, AcceptFacts DEF ConnectSucceeds, ConnectGivenUp
    <3> QED BY <3>1, MaxWireAssumption
  <2>2. retained' \in [Topics -> Payloads \cup {"none"}] /\ session' = "open"
    BY <1>2, AcceptFacts DEF ConnectSucceeds, ConnectGivenUp
  <2>3. /\ link' \in BOOLEAN /\ binary_state' \in BOOLEAN
        /\ by_watchdog' \in BOOLEAN /\ calm' \in BOOLEAN
    BY <1>2, Zenon DEF ConnectSucceeds, ConnectGivenUp, TypeOK, station
  <2> QED BY <1>2, <2>1, <2>2, <2>3
             DEF ConnectSucceeds, ConnectGivenUp, TypeOK, station, Messages
<1>3. CASE ha_register_sensor
  <2>1. /\ index \in Topics /\ ConfigTopic(index) = index /\ "config" \in Payloads
        /\ index < NumSensors => index + 1 \in Sensors
        /\ 0 \in Sensors
    BY <1>1, NumSensorsAssumption DEF TypeOK, ConfigTopic, Payloads, Sensors
  <2>2. wire' \in Seq(Messages) /\ Len(wire') <= MaxWire
    BY <1>3, <2>1, PublishFacts DEF ha_register_sensor
  <2> QED BY <1>3, <2>1, <2>2
             DEF ha_register_sensor, TypeOK, Messages, connection
<1>4. CASE ha_set_online
  <2>1. wire' \in Seq(Messages) /\ Len(wire') <= MaxWire
    BY <1>1, <1>4, PublishFacts DEF ha_set_online, Payloads
  <2> QED BY <1>4, <2>1 DEF ha_set_online, TypeOK, Messages, connection
<1>5. CASE ha_send_binary_sensor_state
  <2>1. State \in Payloads
    BY DEF State, Payloads
  <2>2. wire' \in Seq(Messages) /\ Len(wire') <= MaxWire
    BY <1>1, <1>5, <2>1, PublishFacts DEF ha_send_binary_sensor_state
  <2> QED BY <1>5, <2>2
             DEF ha_send_binary_sensor_state, TypeOK, Messages, connection
<1>6. CASE ClearTrigger
  BY <1>6 DEF ClearTrigger, TypeOK, broker
<1>7. CASE LoseLink
  BY <1>7 DEF LoseLink, ReaderReturns, TypeOK, station, broker
<1>8. CASE Deliver
  <2>1. /\ Tail(wire) \in Seq(Messages)
        /\ Len(Tail(wire)) <= MaxWire
        /\ Head(wire) \in Messages
    <3>1. wire \in Seq(Messages) /\ wire # <<>> /\ Len(wire) <= MaxWire
      BY <1>8 DEF Deliver, TypeOK, Messages
    <3> QED BY <3>1, TailElements, MaxWireAssumption
  <2>2. retained' \in [Topics -> Payloads \cup {"none"}]
    BY <1>8, <2>1 DEF Deliver, TypeOK, Messages
  <2> QED BY <1>8, <2>1, <2>2 DEF Deliver, TypeOK, Messages, station, connection
<1>9. CASE BrokerCloses
  <2>1. retained' \in [Topics -> Payloads \cup {"none"}]
    BY <1>1, <1>9 DEF BrokerCloses, Will, TypeOK, Payloads
  <2>2. wire' \in Seq(Messages) /\ Len(wire') <= MaxWire
    BY <1>9, MaxWireAssumption DEF BrokerCloses
  <2> QED BY <1>9, <2>1, <2>2 DEF BrokerCloses, TypeOK, Messages, station
<1>10. CASE WatchdogReset \/ OtherReset
  <2>1. /\ link' \in BOOLEAN /\ binary_state' \in BOOLEAN
        /\ by_watchdog' \in BOOLEAN /\ calm' \in BOOLEAN
    BY <1>10, Zenon DEF WatchdogReset, OtherReset, Restart, TypeOK
  <2> QED BY <1>10, <2>1, NumSensorsAssumption
             DEF WatchdogReset, OtherReset, Restart, TypeOK, broker, Sensors
<1>11. CASE Disturb
  BY <1>11 DEF Disturb, TypeOK, station, broker
<1>12. CASE UNCHANGED vars
  BY <1>12 DEF vars, TypeOK, station, broker
<1> QED BY <1>2, <1>3, <1>4, <1>5, <1>6, <1>7, <1>8, <1>9, <1>10, <1>11, <1>12
           DEF Next, Main

-----------------------------------------------------------------------------
(* What holds of the link and of a session that ended. *)

\* Every step keeps Fresh.
LEMMA FreshStep == ASSUME TypeOK, Fresh, [Next]_vars PROVE Fresh'
<1>1. CASE ConnectSucceeds
  BY <1>1 DEF ConnectSucceeds, Fresh, station
<1>2. CASE ConnectGivenUp \/ Deliver \/ BrokerCloses \/ Disturb \/ UNCHANGED vars
  BY <1>2 DEF ConnectGivenUp, Deliver, BrokerCloses, Disturb, vars, station,
              connection, Fresh
<1>3. CASE LoseLink
  BY <1>3 DEF LoseLink, ReaderReturns, Fresh
<1>4. CASE WatchdogReset \/ OtherReset
  BY <1>4 DEF WatchdogReset, OtherReset, Restart, Fresh
<1>5. CASE ha_register_sensor \/ ha_set_online \/ ha_send_binary_sensor_state
  BY <1>5 DEF ha_register_sensor, ha_set_online, ha_send_binary_sensor_state,
              mqtt_publish_to_topic, Fresh, connection
<1>6. CASE ClearTrigger
  BY <1>6 DEF ClearTrigger, Fresh
<1> QED BY <1>1, <1>2, <1>3, <1>4, <1>5, <1>6 DEF Next, Main

\* Every step keeps Ended: only the broker ends a session, with the will.
LEMMA EndedStep == ASSUME TypeOK, Ended, [Next]_vars PROVE Ended'
<1>1. CASE ConnectSucceeds \/ ConnectGivenUp
  BY <1>1, AcceptFacts DEF ConnectSucceeds, ConnectGivenUp, Ended
<1>2. CASE ha_register_sensor \/ ha_set_online \/ ha_send_binary_sensor_state
  BY <1>2 DEF ha_register_sensor, ha_set_online, ha_send_binary_sensor_state,
              mqtt_publish_to_topic, Ended, Online, connection
<1>3. CASE ClearTrigger \/ LoseLink \/ Disturb \/ UNCHANGED vars
  BY <1>3 DEF ClearTrigger, LoseLink, Disturb, vars, broker, Ended, Online
<1>4. CASE Deliver
  BY <1>4 DEF Deliver, Ended, connection
<1>5. CASE BrokerCloses
  <2>1. Will[AvailableTopic] = "offline"
    BY TopicsDiffer DEF Will, TypeOK
  <2> QED BY <1>5, <2>1 DEF BrokerCloses, Ended, Online
<1>6. CASE WatchdogReset \/ OtherReset
  BY <1>6 DEF WatchdogReset, OtherReset, Restart, broker, Ended, Online
<1> QED BY <1>1, <1>2, <1>3, <1>4, <1>5, <1>6 DEF Next, Main

-----------------------------------------------------------------------------
(* The order of what Home Assistant sees. *)

\* Whatever main publishes, what was on its way before is still there.
LEMMA PublishKeeps ==
  ASSUME TypeOK, FirstConnection, NEW t \in Topics,
         NEW p \in Payloads, mqtt_publish_to_topic(t, p), retained' = retained
  PROVE  /\ Len(wire) \in Nat /\ Len(wire') = Len(wire) + 1
         /\ \A i \in 1 .. Len(wire) : wire'[i] = wire[i]
         /\ wire'[Len(wire) + 1] = Message(t, p)
         /\ \A s \in Sensors : \A n \in 0 .. Len(wire) :
              Announced(s, n) => Announced(s, n)'
         /\ \A s \in Sensors : Announced(s, Len(wire)) => Announced(s, Len(wire))'
         /\ \A s \in Sensors : Seen(s)' <=> Seen(s)
         /\ Online' <=> Online
<1>1. /\ Len(wire) \in Nat /\ Len(wire') = Len(wire) + 1
      /\ \A i \in 1 .. Len(wire) : wire'[i] = wire[i]
      /\ wire'[Len(wire) + 1] = Message(t, p)
  BY PublishFacts DEF FirstConnection, TypeOK
<1>2. (\A s \in Sensors : Seen(s)' <=> Seen(s)) /\ (Online' <=> Online)
  BY DEF Seen, Online
<1>3. ASSUME NEW s \in Sensors, NEW n \in 0 .. Len(wire), Announced(s, n)
      PROVE  Announced(s, n)' /\ (n = Len(wire) => Announced(s, Len(wire))')
  <2>1. CASE Seen(s)
    BY <1>2, <2>1 DEF Announced
  <2>2. CASE \E j \in 1 .. n : wire[j] = Message(ConfigTopic(s), "config")
    <3>1. PICK j \in 1 .. n : wire[j] = Message(ConfigTopic(s), "config")
      BY <2>2
    <3>2. j \in 1 .. Len(wire) /\ j \in 1 .. Len(wire')
      BY <1>1
    <3>3. wire'[j] = Message(ConfigTopic(s), "config")
      BY <1>1, <3>1, <3>2
    <3> QED BY <3>1, <3>2, <3>3 DEF Announced, Message
  <2> QED BY <1>3, <2>1, <2>2 DEF Announced
<1>4. \A s \in Sensors : Announced(s, Len(wire)) => Announced(s, Len(wire))'
  BY <1>1, <1>3
<1> QED BY <1>1, <1>2, <1>3, <1>4

\* A discovery message is sent: the others keep their place before it.
LEMMA RegisterInOrder ==
  ASSUME TypeOK, InOrder, FirstConnection, ha_register_sensor
  PROVE  InOrder'
<1> DEFINE m == Message(ConfigTopic(index), "config")
<1>1. /\ index \in Sensors /\ index \in Topics /\ ConfigTopic(index) \in Topics
      /\ ConfigTopic(index) \in Sensors
      /\ "config" \in Payloads /\ NumSensors \in Nat /\ pc = "register"
  BY TopicsDiffer, NumSensorsAssumption DEF TypeOK, Payloads, ha_register_sensor
<1>2. mqtt_publish_to_topic(ConfigTopic(index), "config") /\ retained' = retained
  BY DEF ha_register_sensor
<1>3. /\ Len(wire) \in Nat /\ Len(wire') = Len(wire) + 1
      /\ \A i \in 1 .. Len(wire) : wire'[i] = wire[i]
      /\ wire'[Len(wire) + 1] = m
      /\ \A s \in Sensors : Announced(s, Len(wire)) => Announced(s, Len(wire))'
      /\ \A s \in Sensors : Seen(s)' <=> Seen(s)
      /\ Online' <=> Online
  BY <1>1, <1>2, PublishKeeps
<1>4. OnlineIsSeen /\ OnlineLast /\ ConfigsOnly /\ Registered
  BY DEF InOrder
<1>5. ~Online /\ \A i \in 1 .. Len(wire) : wire[i].topic # AvailableTopic
  BY <1>1, <1>4 DEF OnlineIsSeen, OnlineLast
<1>6. m.topic \in Sensors /\ m.payload = "config" /\ m.topic # AvailableTopic
  BY <1>1, TopicsDiffer DEF Message
<1>7. \A i \in 1 .. Len(wire') : i \in 1 .. Len(wire) \/ i = Len(wire) + 1
  BY <1>3
<1>8. pc' \notin {"show", "loop"}
  BY <1>1 DEF ha_register_sensor
<1> HIDE DEF m
<1>9. OnlineIsSeen' /\ SaidOnline' /\ SaidState'
  BY <1>3, <1>5, <1>8 DEF OnlineIsSeen, SaidOnline, SaidState
<1>10. OnlineLast'
  BY <1>3, <1>5, <1>6, <1>7 DEF OnlineLast
<1>11. ConfigsOnly'
  BY <1>3, <1>4, <1>6, <1>7 DEF ConfigsOnly
<1>12. Registered'
  <2>0. PICK r \in Sensors : r = index
    BY <1>1
  <2>1. Announced(r, Len(wire))'
    <3>1. /\ wire'[Len(wire) + 1] = Message(ConfigTopic(r), "config")
          /\ Len(wire) + 1 \in 1 .. Len(wire')
      BY <1>3, <2>0 DEF m
    <3> QED BY <3>1 DEF Announced, Message
  <2>2. \A s \in Sensors : s < index => Announced(s, Len(wire))'
    BY <1>3, <1>4 DEF Registered
  <2>3. ASSUME NEW s \in Sensors, (pc # "register" \/ s < index)'
        PROVE  s < index \/ s = r
    BY <1>1, <2>0, <2>3 DEF ha_register_sensor, Sensors
  <2> QED BY <2>1, <2>2, <2>3 DEF Registered
<1> QED BY <1>9, <1>10, <1>11, <1>12 DEF InOrder

\* "online" is sent behind the discovery messages.
LEMMA OnlineInOrder ==
  ASSUME TypeOK, InOrder, FirstConnection, ha_set_online
  PROVE  InOrder'
<1> DEFINE m == Message(AvailableTopic, "online")
<1>1. mqtt_publish_to_topic(AvailableTopic, "online") /\ retained' = retained
  BY DEF ha_set_online
<1>2. /\ Len(wire) \in Nat /\ Len(wire') = Len(wire) + 1
      /\ \A i \in 1 .. Len(wire) : wire'[i] = wire[i]
      /\ wire'[Len(wire) + 1] = m
      /\ \A s \in Sensors : \A n \in 0 .. Len(wire) :
           Announced(s, n) => Announced(s, n)'
      /\ \A s \in Sensors : Announced(s, Len(wire)) => Announced(s, Len(wire))'
      /\ \A s \in Sensors : Seen(s)' <=> Seen(s)
      /\ Online' <=> Online
  BY <1>1, PublishKeeps, TopicsDiffer DEF Payloads
<1>3. /\ OnlineIsSeen /\ OnlineLast /\ ConfigsOnly
      /\ \A s \in Sensors : Announced(s, Len(wire))
      /\ pc = "online" /\ pc' = "show"
  BY DEF InOrder, Registered, ha_set_online
<1>4. ~Online /\ \A i \in 1 .. Len(wire) : wire[i].topic # AvailableTopic
  BY <1>3 DEF OnlineIsSeen, OnlineLast
<1>5. m.topic = AvailableTopic /\ m.topic \notin Sensors /\ m.payload = "online"
  BY TopicsDiffer DEF Message
<1>6. \A i \in 1 .. Len(wire') : i \in 1 .. Len(wire) \/ i = Len(wire) + 1
  BY <1>2
<1>7. \A s \in Sensors : Announced(s, Len(wire))'
  BY <1>2, <1>3
<1> HIDE DEF m
<1>8. OnlineIsSeen' /\ SaidState'
  BY <1>2, <1>3, <1>4 DEF OnlineIsSeen, SaidState
<1>9. OnlineLast'
  <2>1. ASSUME NEW i \in 1 .. Len(wire'), wire'[i].topic = AvailableTopic
        PROVE  /\ wire'[i].payload = "online"
               /\ \A s \in Sensors : Announced(s, i - 1)'
    <3>1. i = Len(wire) + 1 /\ i - 1 = Len(wire)
      BY <1>2, <1>4, <1>6, <2>1
    <3>2. \A s \in Sensors : Announced(s, i - 1)'
      <4>1. ASSUME NEW s \in Sensors PROVE Announced(s, i - 1)'
        <5>1. Announced(s, Len(wire)) /\ Len(wire) \in 0 .. Len(wire)
          BY <1>2, <1>3
        <5>2. Announced(s, i - 1) /\ i - 1 \in 0 .. Len(wire)
          BY <3>1, <5>1
        <5> QED BY <1>2, <5>2
      <4> QED BY <4>1
    <3> QED BY <1>2, <1>5, <3>1, <3>2
  <2> QED BY <1>3, <2>1 DEF OnlineLast
<1>10. ConfigsOnly'
  BY <1>2, <1>3, <1>5, <1>6 DEF ConfigsOnly
<1>11. Registered'
  BY <1>7 DEF Registered
<1>12. SaidOnline'
  BY <1>2 DEF SaidOnline, m
<1> QED BY <1>8, <1>9, <1>10, <1>11, <1>12 DEF InOrder

\* The state is sent behind the states before it.
LEMMA StateInOrder ==
  ASSUME TypeOK, InOrder, FirstConnection, ha_send_binary_sensor_state
  PROVE  InOrder'
<1> DEFINE m == Message(StateTopic, State)
<1>1. mqtt_publish_to_topic(StateTopic, State) /\ retained' = retained
  BY DEF ha_send_binary_sensor_state
<1>2. State \in Payloads /\ State' = State
  BY DEF State, Payloads, ha_send_binary_sensor_state
<1>3. /\ Len(wire) \in Nat /\ Len(wire') = Len(wire) + 1
      /\ \A i \in 1 .. Len(wire) : wire'[i] = wire[i]
      /\ wire'[Len(wire) + 1] = m
      /\ \A s \in Sensors : \A n \in 0 .. Len(wire) :
           Announced(s, n) => Announced(s, n)'
      /\ \A s \in Sensors : Announced(s, Len(wire)) => Announced(s, Len(wire))'
      /\ \A s \in Sensors : Seen(s)' <=> Seen(s)
      /\ Online' <=> Online
  BY <1>1, <1>2, PublishKeeps, TopicsDiffer
<1>4. /\ OnlineIsSeen /\ OnlineLast /\ ConfigsOnly /\ SaidOnline
      /\ \A s \in Sensors : Announced(s, Len(wire))
      /\ pc = "show" /\ pc' = "loop"
  BY DEF InOrder, Registered, ha_send_binary_sensor_state
<1>5. m.topic # AvailableTopic /\ m.topic \notin Sensors
  BY TopicsDiffer DEF Message
<1>6. \A i \in 1 .. Len(wire') : i \in 1 .. Len(wire) \/ i = Len(wire) + 1
  BY <1>3
<1>7. SaidState'
  <2>1. /\ Len(wire) + 1 \in 1 .. Len(wire')
        /\ wire'[Len(wire) + 1] = Message(StateTopic, State')
        /\ \A j \in Len(wire) + 1 + 1 .. Len(wire') : wire'[j].topic # StateTopic
    BY <1>2, <1>3
  <2> QED BY <2>1 DEF SaidState, Message
<1> HIDE DEF m
<1>8. OnlineIsSeen'
  BY <1>3, <1>4 DEF OnlineIsSeen
<1>9. OnlineLast'
  <2>1. ASSUME NEW i \in 1 .. Len(wire'), wire'[i].topic = AvailableTopic
        PROVE  /\ wire'[i].payload = "online"
               /\ \A s \in Sensors : Announced(s, i - 1)'
    <3>1. i \in 1 .. Len(wire) /\ wire[i] = wire'[i] /\ i - 1 \in 0 .. Len(wire)
      BY <1>3, <1>5, <1>6, <2>1
    <3>2. wire[i].payload = "online" /\ \A s \in Sensors : Announced(s, i - 1)
      BY <1>4, <2>1, <3>1 DEF OnlineLast
    <3> QED BY <1>3, <3>1, <3>2
  <2> QED BY <1>4, <2>1 DEF OnlineLast
<1>10. ConfigsOnly'
  BY <1>3, <1>4, <1>5, <1>6 DEF ConfigsOnly
<1>11. Registered'
  BY <1>3, <1>4 DEF Registered
<1>12. SaidOnline'
  <2>1. CASE Online
    BY <1>3, <2>1 DEF SaidOnline
  <2>2. CASE \E j \in 1 .. Len(wire) : wire[j] = Message(AvailableTopic, "online")
    <3>1. PICK j \in 1 .. Len(wire) : wire[j] = Message(AvailableTopic, "online")
      BY <2>2
    <3>2. j \in 1 .. Len(wire') /\ wire'[j] = Message(AvailableTopic, "online")
      BY <1>3, <3>1
    <3> QED BY <3>2 DEF SaidOnline, Message
  <2> QED BY <1>4, <2>1, <2>2 DEF SaidOnline
<1> QED BY <1>7, <1>8, <1>9, <1>10, <1>11, <1>12 DEF InOrder

\* The trigger is cleared: nothing is sent yet.
LEMMA ClearInOrder ==
  ASSUME TypeOK, InOrder, FirstConnection, ClearTrigger
  PROVE  InOrder'
<1>1. wire' = wire /\ retained' = retained /\ pc = "loop" /\ pc' = "show"
        /\ index' = index
  BY DEF ClearTrigger, broker
<1>2. \A s \in Sensors, n \in 0 .. Len(wire) : Announced(s, n) => Announced(s, n)'
  BY <1>1 DEF Announced, Seen
<1>3. Len(wire) \in Nat
  BY DEF TypeOK
<1>4. OnlineIsSeen' /\ ConfigsOnly' /\ SaidOnline' /\ SaidState'
  BY <1>1 DEF InOrder, OnlineIsSeen, ConfigsOnly, SaidOnline, SaidState, Online, Seen
<1>5. OnlineLast' /\ Registered'
  <2>1. /\ \A s \in Sensors : Announced(s, Len(wire))'
        /\ \A i \in 1 .. Len(wire) : wire[i].topic = AvailableTopic =>
             wire[i].payload = "online" /\ \A s \in Sensors : Announced(s, i - 1)'
    <3>1. \A s \in Sensors : Announced(s, Len(wire))
      BY <1>1 DEF InOrder, Registered
    <3>2. \A i \in 1 .. Len(wire) : wire[i].topic = AvailableTopic =>
             wire[i].payload = "online" /\ \A s \in Sensors : Announced(s, i - 1)
      BY DEF InOrder, OnlineLast
    <3>3. \A s \in Sensors : Announced(s, Len(wire))'
      BY <1>1, <3>1 DEF Announced, Seen
    <3> QED BY <1>2, <1>3, <3>2, <3>3
  <2> QED BY <1>1, <2>1 DEF OnlineLast, Registered
<1> QED BY <1>4, <1>5 DEF InOrder

\* The first message arrives: what was announced before it is seen.
LEMMA DeliverInOrder ==
  ASSUME TypeOK, InOrder, FirstConnection, Deliver
  PROVE  InOrder'
<1> DEFINE h == wire[1]
<1>1. /\ Len(wire) \in Nat \ {0} /\ Len(wire') = Len(wire) - 1
      /\ \A i \in 1 .. Len(wire') : i + 1 \in 1 .. Len(wire) /\ wire'[i] = wire[i + 1]
      /\ h \in Messages
      /\ retained' = [retained EXCEPT ![h.topic] = h.payload]
  <2>1. wire \in Seq(Messages) /\ wire # <<>>
    BY DEF TypeOK, Deliver, Messages
  <2>2. /\ Len(wire) \in Nat \ {0} /\ Len(Tail(wire)) = Len(wire) - 1
        /\ \A i \in 1 .. Len(wire) - 1 : Tail(wire)[i] = wire[i + 1]
        /\ Head(wire) = h /\ h \in Messages
    BY <2>1, TailElements
  <2>3. wire' = Tail(wire) /\ retained' = [retained EXCEPT ![h.topic] = h.payload]
    BY <2>2, Zenon DEF Deliver
  <2> HIDE DEF h
  <2>4. \A i \in 1 .. Len(wire') : i + 1 \in 1 .. Len(wire) /\ wire'[i] = wire[i + 1]
    BY <2>2, <2>3
  <2> QED BY <2>2, <2>3, <2>4
<1>2. /\ OnlineIsSeen /\ OnlineLast /\ ConfigsOnly
      /\ Registered /\ SaidOnline /\ SaidState
      /\ pc' = pc /\ index' = index /\ binary_state' = binary_state
  BY DEF InOrder, Deliver, station
<1>3. /\ retained'[h.topic] = h.payload
      /\ \A t \in Topics : t # h.topic => retained'[t] = retained[t]
  BY <1>1 DEF TypeOK, Messages
<1>4. /\ 1 \in 1 .. Len(wire)
      /\ h.topic \in Sensors => h.payload = "config"
      /\ h.topic = AvailableTopic => h.payload = "online" /\ pc \in {"show", "loop"}
                                     /\ \A s \in Sensors : Announced(s, 0)
  <2>1. 1 \in 1 .. Len(wire) /\ 1 - 1 = 0
    BY <1>1
  <2> QED BY <1>2, <2>1 DEF ConfigsOnly, OnlineLast
<1> HIDE DEF h
<1>5. \A s \in Sensors : Seen(s) => Seen(s)'
  BY <1>3, <1>4, TopicsDiffer DEF Seen
<1>6. /\ Online' <=> Online \/ h.topic = AvailableTopic
  BY <1>3, <1>4, TopicsDiffer DEF Online
<1>7. ASSUME NEW s \in Sensors, NEW n \in 0 .. Len(wire'), Announced(s, n + 1)
      PROVE  Announced(s, n)'
  <2>1. CASE Seen(s)
    BY <1>5, <2>1 DEF Announced
  <2>2. CASE \E j \in 1 .. n + 1 : wire[j] = Message(ConfigTopic(s), "config")
    <3>1. PICK j \in 1 .. n + 1 : wire[j] = Message(ConfigTopic(s), "config")
      BY <2>2
    <3>2. CASE j = 1
      BY <1>3, <3>1, <3>2 DEF h, Message, Announced, Seen
    <3>3. CASE j # 1
      <4>1. j - 1 \in 1 .. n /\ j - 1 \in 1 .. Len(wire') /\ j - 1 + 1 = j
        BY <1>1, <3>3
      <4>2. wire'[j - 1] = Message(ConfigTopic(s), "config")
        BY <1>1, <3>1, <4>1
      <4> QED BY <4>1, <4>2 DEF Announced, Message
    <3> QED BY <3>2, <3>3
  <2> QED BY <1>7, <2>1, <2>2 DEF Announced
<1>8. OnlineIsSeen'
  <2>1. CASE Online
    BY <1>2, <1>5, <2>1 DEF OnlineIsSeen
  <2>2. CASE h.topic = AvailableTopic
    <3>1. \A s \in Sensors : Seen(s)
      BY <1>4, <2>2 DEF Announced
    <3> QED BY <1>2, <1>4, <1>5, <2>2, <3>1 DEF OnlineIsSeen
  <2> QED BY <1>6, <2>1, <2>2 DEF OnlineIsSeen
<1>9. OnlineLast'
  <2>1. ASSUME NEW i \in 1 .. Len(wire'), wire'[i].topic = AvailableTopic
        PROVE  /\ wire'[i].payload = "online" /\ pc \in {"show", "loop"}
               /\ \A s \in Sensors : Announced(s, i - 1)'
    <3>1. /\ i + 1 \in 1 .. Len(wire) /\ wire'[i] = wire[i + 1]
          /\ i - 1 \in 0 .. Len(wire') /\ i + 1 - 1 = i - 1 + 1
      BY <1>1
    <3>2. /\ wire[i + 1].payload = "online" /\ pc \in {"show", "loop"}
          /\ \A s \in Sensors : Announced(s, i - 1 + 1)
      BY <1>2, <2>1, <3>1 DEF OnlineLast
    <3> QED BY <1>7, <3>1, <3>2
  <2> QED BY <1>2, <2>1 DEF OnlineLast
<1>10. ConfigsOnly'
  BY <1>1, <1>2 DEF ConfigsOnly
<1>11. Registered'
  <2>1. ASSUME NEW s \in Sensors, Announced(s, Len(wire))
        PROVE  Announced(s, Len(wire))'
    <3>1. PICK n \in 0 .. Len(wire') : n = Len(wire')
      BY <1>1
    <3>2. Announced(s, n)'
      BY <1>1, <1>7, <2>1, <3>1
    <3> QED BY <3>1, <3>2 DEF Announced
  <2> QED BY <1>2, <2>1 DEF Registered
<1>12. SaidOnline'
  <2>1. CASE Online
    BY <1>6, <2>1 DEF SaidOnline
  <2>2. CASE \E j \in 1 .. Len(wire) : wire[j] = Message(AvailableTopic, "online")
    <3>1. PICK j \in 1 .. Len(wire) : wire[j] = Message(AvailableTopic, "online")
      BY <2>2
    <3>2. CASE j = 1
      BY <1>6, <3>1, <3>2 DEF h, Message, SaidOnline
    <3>3. CASE j # 1
      <4>1. j - 1 \in 1 .. Len(wire') /\ wire'[j - 1] = wire[j]
        BY <1>1, <3>3
      <4> QED BY <3>1, <4>1 DEF Message, SaidOnline
    <3> QED BY <3>2, <3>3
  <2> QED BY <1>2, <2>1, <2>2 DEF SaidOnline
<1>13. SaidState'
  <2>0. State' = State
    BY <1>2 DEF State
  <2>1. CASE /\ retained[StateTopic] = State
             /\ \A j \in 1 .. Len(wire) : wire[j].topic # StateTopic
    <3>1. h.topic # StateTopic
      BY <1>4, <2>1 DEF h
    <3>2. \A j \in 1 .. Len(wire') : wire'[j].topic # StateTopic
      BY <1>1, <2>1
    <3>3. retained'[StateTopic] = State
      BY <1>3, <2>1, <3>1, TopicsDiffer
    <3> QED BY <2>0, <3>2, <3>3 DEF SaidState
  <2>2. CASE \E i \in 1 .. Len(wire) :
               /\ wire[i] = Message(StateTopic, State)
               /\ \A j \in i + 1 .. Len(wire) : wire[j].topic # StateTopic
    <3>1. PICK i \in 1 .. Len(wire) :
                 /\ wire[i] = Message(StateTopic, State)
                 /\ \A j \in i + 1 .. Len(wire) : wire[j].topic # StateTopic
      BY <2>2
    <3>2. \A j \in i .. Len(wire') : wire'[j].topic # StateTopic
      <4>1. ASSUME NEW j \in i .. Len(wire') PROVE wire'[j].topic # StateTopic
        <5>1. j + 1 \in i + 1 .. Len(wire) /\ j \in 1 .. Len(wire')
          BY <1>1
        <5> QED BY <1>1, <3>1, <5>1
      <4> QED BY <4>1
    <3>3. CASE i = 1
      <4>1. retained'[StateTopic] = State
        BY <1>3, <3>1, <3>3 DEF h, Message
      <4> QED BY <2>0, <3>2, <3>3, <4>1 DEF SaidState
    <3>4. CASE i # 1
      <4>1. /\ i - 1 \in 1 .. Len(wire') /\ wire'[i - 1] = wire[i]
            /\ i - 1 + 1 = i
        BY <1>1, <3>4
      <4> QED BY <2>0, <3>1, <3>2, <4>1 DEF SaidState, Message
    <3> QED BY <3>3, <3>4
  <2>3. CASE pc # "loop"
    BY <1>2, <2>3 DEF SaidState
  <2> QED BY <1>2, <2>1, <2>2, <2>3 DEF SaidState
<1> QED BY <1>8, <1>9, <1>10, <1>11, <1>12, <1>13 DEF InOrder

\* Every step keeps the order. Only main's first connect brings the first
\* connection up, and main has said nothing by then.
LEMMA OrderStep ==
  ASSUME TypeOK, Fresh, Ended, InOrder, [Next]_vars
  PROVE  InOrder'
<1>1. CASE ConnectSucceeds
  <2>1. SUFFICES ASSUME poll_thread' = "polling" PROVE InOrder'
    BY DEF InOrder, FirstConnection
  <2>2. pc = "register" /\ index = 0 /\ pc' = pc /\ index' = index
    BY <1>1, <2>1 DEF ConnectSucceeds, Fresh, station
  <2>3. wire' = <<>> /\ ~Online'
    BY <1>1, AcceptFacts DEF ConnectSucceeds
  <2>4. Len(wire') = 0 /\ \A s \in Sensors : ~(s < 0)
    BY <2>3, NumSensorsAssumption DEF Sensors
  <2>5. OnlineIsSeen' /\ SaidOnline' /\ SaidState'
    BY <2>2, <2>3 DEF OnlineIsSeen, SaidOnline, SaidState
  <2>6. OnlineLast' /\ ConfigsOnly' /\ Registered'
    BY <2>2, <2>4 DEF OnlineLast, ConfigsOnly, Registered
  <2> QED BY <2>5, <2>6 DEF InOrder
<1>2. CASE ConnectGivenUp \/ LoseLink \/ BrokerCloses \/ WatchdogReset \/ OtherReset
  <2>1. ~FirstConnection'
    BY <1>2 DEF ConnectGivenUp, LoseLink, BrokerCloses, WatchdogReset, OtherReset,
                Restart, FirstConnection
  <2> QED BY <2>1 DEF InOrder
<1>3. CASE Disturb \/ UNCHANGED vars
  <2>1. /\ pc' = pc /\ index' = index /\ binary_state' = binary_state
        /\ link' = link /\ poll_thread' = poll_thread /\ session' = session
        /\ wire' = wire /\ retained' = retained
    BY <1>3 DEF Disturb, vars, station, broker
  <2> QED BY <2>1 DEF InOrder, FirstConnection, OnlineIsSeen, OnlineLast, ConfigsOnly,
       Registered, SaidOnline, SaidState, Announced, Seen, Online, State
<1>4. ASSUME \/ ha_register_sensor \/ ha_set_online \/ ha_send_binary_sensor_state
             \/ ClearTrigger \/ Deliver
      PROVE InOrder'
  <2>1. FirstConnection' <=> FirstConnection
    BY <1>4 DEF ha_register_sensor, ha_set_online, ha_send_binary_sensor_state,
                ClearTrigger, Deliver, connection, broker, FirstConnection
  <2>2. CASE FirstConnection
    BY <1>4, <2>2, RegisterInOrder, OnlineInOrder, StateInOrder, ClearInOrder,
       DeliverInOrder
  <2> QED BY <2>1, <2>2 DEF InOrder
<1> QED BY <1>1, <1>2, <1>3, <1>4 DEF Next, Main

-----------------------------------------------------------------------------
(* The theorems. *)

\* The inductive invariant holds in every reachable state.
THEOREM Invariance == Spec => []Inv
<1>1. Init => Inv
  <2>1. Init => Fresh /\ InOrder
    BY DEF Init, Fresh, InOrder, FirstConnection
  <2>2. Init => Ended
    BY TopicsDiffer DEF Init, Ended, Online
  <2> QED BY <2>1, <2>2, TypeInit DEF Inv
<1>2. Inv /\ [Next]_vars => Inv'
  BY TypeStep, FreshStep, EndedStep, OrderStep DEF Inv
<1> QED BY <1>1, <1>2, PTL DEF Spec

\* Type correctness of the broker's view and of the station that makes it.
THEOREM TypeCorrect == Spec => []TypeOK
BY Invariance, PTL DEF Inv

\* Over a connection that lasts, Home Assistant sees a booting station in the
\* order main says things (main.c 292-317).
THEOREM SeenInOrderAlways == Spec => []SeenInOrder
<1>1. Inv => SeenInOrder
  <2>1. ASSUME Inv, FirstConnection, pc = "loop", wire = <<>>
        PROVE  Online /\ retained[StateTopic] = State
    <3>1. Len(wire) = 0 /\ \A i \in 1 .. Len(wire) : FALSE
      BY <2>1
    <3> QED BY <2>1, <3>1 DEF Inv, InOrder, SaidOnline, SaidState
  <2> QED BY <2>1 DEF Inv, InOrder, SeenInOrder, OnlineIsSeen
<1> QED BY <1>1, Invariance, PTL

-----------------------------------------------------------------------------
(* The availability is a lease. *)

\* Nothing but "online" is on its way to the availability.
OnlineOnly == \A i \in 1 .. Len(wire) :
  wire[i].topic = AvailableTopic => wire[i].payload = "online"

\* A publish leaves what was on its way, and adds its own message.
LEMMA PublishAdds ==
  ASSUME TypeOK, NEW t \in Topics, NEW p \in Payloads,
         mqtt_publish_to_topic(t, p), OnlineOnly
  PROVE  /\ t # AvailableTopic => OnlineOnly' /\ (OnTheWay' <=> OnTheWay)
         /\ t = AvailableTopic /\ p = "online" => OnlineOnly'
         /\ t = AvailableTopic /\ session = "open" => OnTheWay'
         /\ session = "none" => (OnTheWay' <=> OnTheWay)
<1>1. CASE session = "none"
  <2>1. wire' = wire
    BY <1>1, PublishFacts
  <2> QED BY <1>1, <2>1 DEF OnlineOnly, OnTheWay
<1>2. CASE session = "open"
  <2>1. /\ Len(wire) \in Nat /\ Len(wire') = Len(wire) + 1
        /\ \A i \in 1 .. Len(wire) : wire'[i] = wire[i]
        /\ wire'[Len(wire) + 1] = Message(t, p)
    BY <1>2, PublishFacts DEF TypeOK
  <2>2. /\ \A i \in 1 .. Len(wire') : i \in 1 .. Len(wire) \/ i = Len(wire) + 1
        /\ \A i \in 1 .. Len(wire) : i \in 1 .. Len(wire')
        /\ Len(wire) + 1 \in 1 .. Len(wire')
    BY <2>1
  <2>3. Message(t, p).topic = t /\ Message(t, p).payload = p
    BY DEF Message
  <2>4. t # AvailableTopic \/ p = "online" => OnlineOnly'
    BY <2>1, <2>2, <2>3 DEF OnlineOnly
  <2>5. OnTheWay' <=> OnTheWay \/ t = AvailableTopic
    BY <2>1, <2>2, <2>3 DEF OnTheWay
  <2> QED BY <1>2, <2>4, <2>5
<1> QED BY <1>1, <1>2 DEF TypeOK

\* What arrives: the first message, and the others move up.
LEMMA DeliverTakes ==
  ASSUME TypeOK, OnlineOnly, Deliver
  PROVE  /\ OnlineOnly'
         /\ (Online \/ OnTheWay)' <=> Online \/ OnTheWay
         /\ Online => Online'
         /\ Online' => Online \/ OnTheWay
<1> DEFINE h == wire[1]
<1>1. wire \in Seq(Messages) /\ wire # <<>>
  BY DEF TypeOK, Deliver, Messages
<1>2. /\ Len(wire) \in Nat \ {0} /\ Len(Tail(wire)) = Len(wire) - 1
      /\ \A i \in 1 .. Len(wire) - 1 : Tail(wire)[i] = wire[i + 1]
      /\ Head(wire) = h /\ h \in Messages
  BY <1>1, TailElements
<1>3. wire' = Tail(wire) /\ retained' = [retained EXCEPT ![h.topic] = h.payload]
  BY <1>2, Zenon DEF Deliver
<1>4. h.topic \in Topics
  BY <1>2 DEF Messages
<1>5. h.topic = AvailableTopic => h.payload = "online"
  <2>1. 1 \in 1 .. Len(wire)
    BY <1>2
  <2> QED BY <2>1 DEF OnlineOnly
<1>6. Online' <=> Online \/ h.topic = AvailableTopic
  BY <1>3, <1>4, <1>5, TopicsDiffer DEF TypeOK, Online
<1>7. /\ \A i \in 1 .. Len(wire') : i + 1 \in 1 .. Len(wire) /\ wire'[i] = wire[i + 1]
      /\ \A i \in 1 .. Len(wire) : i = 1 \/ (i - 1 \in 1 .. Len(wire') /\ wire'[i - 1] = wire[i])
      /\ 1 \in 1 .. Len(wire)
  <2> HIDE DEF h
  <2>1. Len(wire') = Len(wire) - 1
    BY <1>2, <1>3
  <2>2. ASSUME NEW i \in 1 .. Len(wire')
        PROVE  i + 1 \in 1 .. Len(wire) /\ wire'[i] = wire[i + 1]
    BY <1>2, <1>3, <2>1
  <2>3. ASSUME NEW i \in 1 .. Len(wire), i # 1
        PROVE  i - 1 \in 1 .. Len(wire') /\ wire'[i - 1] = wire[i]
    <3>1. i - 1 \in 1 .. Len(wire) - 1 /\ (i - 1) + 1 = i
      BY <1>2, <2>3
    <3> QED BY <1>2, <1>3, <2>1, <3>1
  <2> QED BY <1>2, <2>2, <2>3
<1>8. OnlineOnly'
  BY <1>7 DEF OnlineOnly
<1>9. OnTheWay' => OnTheWay
  BY <1>7 DEF OnTheWay
<1>10. OnTheWay => OnTheWay' \/ h.topic = AvailableTopic
  BY <1>7 DEF OnTheWay
<1>11. h.topic = AvailableTopic => OnTheWay
  BY <1>7 DEF OnTheWay
<1> QED BY <1>6, <1>8, <1>9, <1>10, <1>11

\* Every step of the station and of the broker is one of the lease, or none.
LEMMA LeaseStep ==
  ASSUME TypeOK, Ended, OnlineOnly, [Next]_vars
  PROVE  OnlineOnly' /\ [Lease!Next]_Lease!vars
<1>1. CASE ConnectSucceeds \/ ConnectGivenUp
  <2>1. session' = "open" /\ wire' = <<>> /\ ~Online'
    BY <1>1, AcceptFacts DEF ConnectSucceeds, ConnectGivenUp
  <2>2. Len(wire') = 0
    BY <2>1
  <2>3. OnlineOnly' /\ ~OnTheWay'
    BY <2>2 DEF OnlineOnly, OnTheWay
  <2>4. ~link /\ (link' = TRUE \/ link' = link)
    BY <1>1, Zenon DEF ConnectSucceeds, ConnectGivenUp
  <2>5. Lease!Connect \/ Lease!Attempt
    BY <2>1, <2>3, <2>4, Zenon DEF Lease!Connect, Lease!Attempt, Lease!Begins
  <2> QED BY <2>3, <2>5 DEF Lease!Next
<1>2. CASE ha_register_sensor \/ ha_send_binary_sensor_state
  <2>1. PICK t \in Topics, p \in Payloads :
               mqtt_publish_to_topic(t, p) /\ t # AvailableTopic
    BY <1>2, TopicsDiffer
       DEF ha_register_sensor, ha_send_binary_sensor_state, TypeOK, Payloads,
           State
  <2>2. OnlineOnly' /\ (OnTheWay' <=> OnTheWay)
    BY <2>1, PublishAdds
  <2>3. link' = link /\ session' = session /\ retained' = retained
    BY <1>2 DEF ha_register_sensor, ha_send_binary_sensor_state, connection
  <2>4. Online' <=> Online
    BY <2>3 DEF Online
  <2> QED BY <2>2, <2>3, <2>4, Zenon DEF Lease!vars
<1>3. CASE ha_set_online
  <2>1. /\ AvailableTopic \in Topics /\ "online" \in Payloads
        /\ mqtt_publish_to_topic(AvailableTopic, "online")
    BY <1>3, TopicsDiffer DEF ha_set_online, Payloads
  <2>2. /\ OnlineOnly'
        /\ session = "open" => OnTheWay'
        /\ session = "none" => (OnTheWay' <=> OnTheWay)
    BY <2>1, PublishAdds
  <2>3. link /\ link' = link /\ session' = session /\ retained' = retained
    BY <1>3, <2>1 DEF ha_set_online, connection, mqtt_publish_to_topic
  <2>4. Online' <=> Online
    BY <2>3 DEF Online
  <2>5. CASE session = "open"
    <3>1. Lease!Say
      BY <2>2, <2>3, <2>4, <2>5, Zenon DEF Lease!Say
    <3> QED BY <2>2, <3>1 DEF Lease!Next
  <2>6. CASE session = "none"
    BY <2>2, <2>3, <2>4, <2>6, Zenon DEF Lease!vars
  <2> QED BY <2>5, <2>6 DEF TypeOK
<1>4. CASE ClearTrigger \/ Disturb \/ UNCHANGED vars
  <2>1. /\ link' = link /\ session' = session /\ retained' = retained
        /\ wire' = wire
    BY <1>4 DEF ClearTrigger, Disturb, vars, broker
  <2>2. OnlineOnly'
    BY <2>1 DEF OnlineOnly
  <2>3. Lease!vars' = Lease!vars
    BY <2>1 DEF Lease!vars, OnTheWay, Online
  <2> QED BY <2>2, <2>3
<1>5. CASE LoseLink \/ WatchdogReset \/ OtherReset
  <2>1. /\ link' = FALSE /\ session' = session /\ retained' = retained
        /\ wire' = wire
    BY <1>5 DEF LoseLink, WatchdogReset, OtherReset, Restart, broker
  <2>2. OnlineOnly'
    BY <2>1 DEF OnlineOnly
  <2>3. Lease!Lose
    BY <2>1 DEF Lease!Lose, OnTheWay, Online
  <2> QED BY <2>2, <2>3 DEF Lease!Next
<1>6. CASE Deliver
  <2>1. /\ OnlineOnly'
        /\ (Online \/ OnTheWay)' <=> Online \/ OnTheWay
        /\ Online => Online'
        /\ Online' => Online \/ OnTheWay
    BY <1>6, DeliverTakes
  <2>2. link' = link /\ session' = session
    BY <1>6 DEF Deliver, connection
  <2>3. CASE Online' <=> Online
    BY <2>1, <2>2, <2>3, Zenon DEF Lease!vars
  <2>4. CASE Online' /\ ~Online
    <3>1. Lease!Show
      BY <2>1, <2>2, <2>4, Zenon DEF Lease!Show
    <3> QED BY <2>1, <3>1 DEF Lease!Next
  <2> QED BY <2>1, <2>3, <2>4
<1>7. CASE BrokerCloses
  <2>1. Will[AvailableTopic] = "offline"
    BY TopicsDiffer DEF Will, TypeOK
  <2>2. session' = "none" /\ wire' = <<>> /\ ~Online' /\ link' = link
    BY <1>7, <2>1 DEF BrokerCloses, Online
  <2>3. Len(wire') = 0
    BY <2>2
  <2>4. OnlineOnly' /\ ~OnTheWay'
    BY <2>3 DEF OnlineOnly, OnTheWay
  <2>5. Lease!Close
    BY <2>2, <2>4, Zenon DEF Lease!Close
  <2> QED BY <2>4, <2>5 DEF Lease!Next
<1> QED BY <1>1, <1>2, <1>3, <1>4, <1>5, <1>6, <1>7 DEF Next, Main

\* The retained will, the messages on their way and the broker's sessions make a
\* lease of the availability, as Availability states it.
THEOREM AvailabilityIsALease == Spec => ImplementsAvailability
<1>1. Init => OnlineOnly /\ Lease!Init
  <2> SUFFICES ASSUME Init PROVE OnlineOnly /\ Lease!Init
    OBVIOUS
  <2>1. wire = <<>> /\ ~Online
    BY TopicsDiffer DEF Init, Online
  <2>2. Len(wire) = 0
    BY <2>1
  <2>3. OnlineOnly /\ ~OnTheWay
    BY <2>2 DEF OnlineOnly, OnTheWay
  <2>4. link = FALSE /\ session = "none"
    BY Zenon DEF Init
  <2> QED BY <2>1, <2>3, <2>4, Zenon DEF Lease!Init
<1>2. Inv /\ OnlineOnly /\ [Next]_vars => OnlineOnly' /\ [Lease!Next]_Lease!vars
  BY LeaseStep DEF Inv
<1> QED BY <1>1, <1>2, Invariance, PTL
        DEF Spec, ImplementsAvailability, Lease!Spec

-----------------------------------------------------------------------------
(* What OfflineWhenGone and ComesBack rest on besides fairness: where they   *)
(* end up, nothing leads away.                                               *)

\* Nobody is shown online, and nothing is on its way that could change it.
Gone == ~link /\ ~Online /\ wire = <<>>

\* While the station's side stays down, the end of any session shows the device
\* offline, and it stays offline: whatever the broker still reads, and whichever
\* attempts to connect are given up.
GoneStays == [][~link /\ ~link' =>
  /\ Gone => Gone'
  /\ session' # session => Gone']_vars

\* The first connection since the reset, main in its loop, nothing left to say.
Back == FirstConnection /\ pc = "loop" /\ ~binary_state /\ wire = <<>>

\* What ComesBack asks for.
AllSeen == Online /\ retained[StateTopic] = "OFF" /\ \A s \in Sensors : Seen(s)

\* A station that is back stays so as long as nothing disturbs it.
BackStays == [][Back /\ calm => Back']_vars

\* A station that is gone is shown offline for good once its session ended.
THEOREM GoneStaysOffline == Spec => GoneStays
<1> DEFINE A == ~link /\ ~link' =>
                  /\ Gone => Gone'
                  /\ session' # session => Gone'
<1>1. Inv /\ [Next]_vars => [A]_vars
  <2> SUFFICES ASSUME Inv, Next, ~link, ~link'
               PROVE  /\ Gone => Gone'
                      /\ session' # session => Gone'
    OBVIOUS
  <2>1. CASE ConnectSucceeds \/ ConnectGivenUp
    <3>1. wire' = <<>> /\ ~Online'
      BY <2>1, AcceptFacts DEF ConnectSucceeds, ConnectGivenUp, Inv
    <3> QED BY <3>1 DEF Gone
  <2>2. CASE BrokerCloses
    <3>1. Will[AvailableTopic] = "offline"
      BY TopicsDiffer DEF Will, Inv, TypeOK
    <3> QED BY <2>2, <3>1 DEF BrokerCloses, Online, Gone
  <2>3. CASE Deliver
    BY <2>3 DEF Deliver, connection, Gone
  <2>4. CASE ClearTrigger \/ Disturb \/ WatchdogReset \/ OtherReset
    BY <2>4 DEF ClearTrigger, Disturb, WatchdogReset, OtherReset, Restart,
                broker, Gone, Online
  <2>5. ~ha_register_sensor /\ ~ha_set_online /\ ~ha_send_binary_sensor_state
          /\ ~LoseLink
    BY DEF ha_register_sensor, ha_set_online, ha_send_binary_sensor_state,
           mqtt_publish_to_topic, LoseLink
  <2> QED BY <2>1, <2>2, <2>3, <2>4, <2>5 DEF Next, Main
<1> QED BY <1>1, Invariance, PTL DEF Spec, GoneStays

\* A station that is back is seen with all its sensors and without an alarm.
THEOREM BackIsSeen == Spec => [](Back => AllSeen)
<1>1. Inv /\ SeenInOrder => (Back => AllSeen)
  BY DEF SeenInOrder, Back, AllSeen, State
<1> QED BY <1>1, Invariance, SeenInOrderAlways, PTL

\* Nothing but a disturbance takes away what ComesBack asks for: main has
\* nothing left to say, and neither side ends a connection that both have.
THEOREM BackIsForGood == Spec => BackStays
<1>1. [Next]_vars => [Back /\ calm => Back']_vars
  <2> SUFFICES ASSUME Next, Back, calm PROVE Back'
    OBVIOUS
  <2> USE DEF Back, FirstConnection
  <2>1. Disturb
    <3>1. /\ ~ConnectSucceeds /\ ~ConnectGivenUp /\ ~LoseLink /\ ~BrokerCloses
          /\ ~WatchdogReset /\ ~OtherReset /\ ~Deliver
      BY DEF ConnectSucceeds, ConnectGivenUp, LoseLink, BrokerCloses,
             WatchdogReset, OtherReset, Deliver
    <3>2. /\ ~ha_register_sensor /\ ~ha_set_online
          /\ ~ha_send_binary_sensor_state /\ ~ClearTrigger
      BY DEF ha_register_sensor, ha_set_online, ha_send_binary_sensor_state,
             ClearTrigger
    <3> QED BY <3>1, <3>2 DEF Next, Main
  <2> QED BY <2>1 DEF Disturb, station, broker
<1> QED BY <1>1, PTL DEF Spec, BackStays

=============================================================================
