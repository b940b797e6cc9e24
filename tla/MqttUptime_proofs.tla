-------------------------- MODULE MqttUptime_proofs --------------------------
(***************************************************************************)
(* A healthy station is never reset by its mqtt watchdog channel: proved   *)
(* for every keepalive, window and pair of deadlines that satisfy          *)
(* WindowAssumption.                                                       *)
(*                                                                         *)
(* The argument bounds wdt_age by where the station is. Before the session *)
(* is set up it is at most ConnectBy. From then on the time left on        *)
(* keepalive_work measures the time since the last ping was due: with no   *)
(* ping outstanding wdt_age is at most ConnectBy plus that time, with one  *)
(* outstanding a keepalive period more; and an outstanding ping is at most *)
(* AnswerBy old, so there is never a second one.                           *)
(***************************************************************************)

EXTENDS MqttUptime, MqttClient_proofs

\* Ticks since the keepalive work was last scheduled.
SincePing == KeepAlive - keepalive_work

\* The first session is the only one: main opens it, poll_thread starts with it
\* and neither ever ends. From then on the only handler is that of a PINGRESP.
OneSession ==
  /\ ~hungup
  /\ ~work_damaged
  /\ poll_thread # "dead"
  /\ Settled <=> poll_thread # "prestart"
  /\ session = "connected" => opener = "main"
  /\ Settled =>
       /\ session = "connected"
       /\ event["main"] = "none"
       /\ event["work_queue"] = "none"
       /\ event["poll_thread"] \in {"none", "pingresp"}

NoEarlyPing == ~Settled => ~PingOutstanding

AgeBound ==
  /\ ~Settled => wdt_age <= ConnectBy
  /\ Settled /\ ~PingOutstanding => wdt_age <= ConnectBy + SincePing
  /\ Settled /\ PingOutstanding =>
       /\ wdt_age <= ConnectBy + KeepAlive + SincePing
       /\ SincePing <= AnswerBy

UptimeInv == Inv /\ OneSession /\ NoEarlyPing /\ AgeBound

\* The invariant holds of a station that starts.
LEMMA UptimeInit == Init => UptimeInv
<1> SUFFICES ASSUME Init PROVE UptimeInv
  OBVIOUS
<1>1. OneSession
  BY DEF Init, OneSession, Settled, Handshaking
<1>2. NoEarlyPing /\ ~Settled
  BY DEF Init, NoEarlyPing, Settled, PingOutstanding, Pending
<1>3. AgeBound
  BY <1>2, ConnectByAssumption DEF Init, AgeBound
<1> QED BY <1>1, <1>2, <1>3, InitInv DEF UptimeInv

\* The bound on wdt_age is below the window.
LEMMA AgeInWindow == UptimeInv => wdt_age < WdtTimeout
<1> SUFFICES ASSUME UptimeInv PROVE wdt_age < WdtTimeout
  OBVIOUS
<1> USE KeepAliveAssumption, WdtAssumption, ConnectByAssumption,
        AnswerByAssumption, WindowAssumption
<1>1. /\ wdt_age \in Nat
      /\ keepalive_work \in NotPending .. KeepAlive
  BY DEF UptimeInv, Inv, Core, Ranges
<1>2. Settled => keepalive_work \in 0 .. KeepAlive
  BY <1>1 DEF UptimeInv, OneSession, Inv, Core, KeepaliveChain, Settled,
              NotPending
<1>3. CASE ~Settled
  BY <1>1, <1>3 DEF UptimeInv, AgeBound
<1>4. CASE Settled
  BY <1>1, <1>2, <1>4 DEF UptimeInv, AgeBound, SincePing
<1> QED BY <1>3, <1>4

\* A healthy station takes no other steps than the client does.
LEMMA HealthyIsNext == HealthyNext => Next
BY DEF HealthyNext, HealthyEnvironment, HealthyTick, Next, Environment

\* Before the session is set up: no session outlives its handshake.
LEMMA StillUnsettled ==
  ASSUME Inv', poll_thread' = "prestart"
  PROVE  ~Settled'
BY DEF Inv, Core, Settled, FlagTracksSession, SessionHasReader

\* Before the session is set up, main's step.
LEMMA ConnectStep ==
  ASSUME UptimeInv, Main, Inv', ~Settled
  PROVE  OneSession' /\ NoEarlyPing' /\ AgeBound'
<1> USE DEF UptimeInv, Inv, Core, OneSession
<1>1. poll_thread = "prestart" /\ keepalive_work = NotPending
  BY DEF FirstConnectIsClean
<1>2. /\ pings = 0 /\ pingresps = 0 /\ wdt_age <= ConnectBy
      /\ event \in [Threads -> Events]
      /\ \A t \in Threads : event[t] # "pingresp"
  BY DEF NoEarlyPing, PingOutstanding, Pending, Ranges, AgeBound
<1>3. CASE ConnectSucceeds
  <2>1. /\ poll_thread' = "polling"
        /\ keepalive_work' = KeepAlive
        /\ pc' = "mqtt_publish"
        /\ UNCHANGED <<client, library, wdt_age, work_damaged>>
        /\ mqtt_connected
        /\ event["main"] = "none"
    BY <1>1, <1>3 DEF ConnectSucceeds, StartPollThread, RescheduleKeepalive,
                      GoTo, Main, Runs
  <2>2. Settled' /\ ~PingOutstanding'
    BY <1>2, <2>1 DEF Settled, Handshaking, PingOutstanding, Pending, client,
                      library
  <2>3. OneSession'
    BY <1>1, <2>1, <2>2 DEF client, library, FlagTracksSession,
                            FirstConnectIsQuiet
  <2>4. AgeBound'
    BY <1>2, <2>1, <2>2, ConnectByAssumption, KeepAliveAssumption
       DEF AgeBound, SincePing, Ranges
  <2> QED BY <2>2, <2>3, <2>4 DEF NoEarlyPing
<1>4. CASE ~ConnectSucceeds
  <2>1. /\ UNCHANGED <<poll_thread, wdt_age>>
        /\ ~hungup'
        /\ pings' = 0 /\ pingresps' = 0
        /\ session' = "connected" => opener' = "main"
        /\ \A t \in Threads : event'[t] # "pingresp"
    BY <1>1, <1>2, <1>4
       DEF Main, mqtt_publish_to_topic, get_mqtt_broker_addrinfo, client_init,
           TransportUp, TransportFails, WaitReturns, WaitFails, MainInput,
           AttemptFails, mqtt_publish, mqtt_abort, InputReads, InputFails,
           WriteDone, WriteRefused, WriteBreaks, client_disconnect,
           LibraryReset, Raise, client, library
  <2>2. ~work_damaged'
    BY <1>1, <2>1 DEF FirstConnectIsClean
  <2>3. ~Settled'
    BY <1>1, <2>1, StillUnsettled
  <2>4. NoEarlyPing' /\ AgeBound'
    BY <1>2, <2>1, <2>3 DEF NoEarlyPing, PingOutstanding, Pending, AgeBound
  <2> QED BY <1>1, <2>1, <2>2, <2>3, <2>4
<1> QED BY <1>3, <1>4

\* Before the session is set up, main's handler of a CONNACK.
LEMMA ConnackStep ==
  ASSUME UptimeInv, Handler, Inv', ~Settled
  PROVE  OneSession' /\ NoEarlyPing' /\ AgeBound'
<1> USE DEF UptimeInv, Inv, Core, OneSession
<1>1. /\ poll_thread = "prestart"
      /\ event["poll_thread"] = "none" /\ event["work_queue"] = "none"
      /\ event["main"] \in {"none", "connack", "refused"}
  BY DEF FirstConnectIsQuiet
<1>2. /\ pings = 0 /\ pingresps = 0 /\ wdt_age <= ConnectBy
      /\ event \in [Threads -> Events]
  BY DEF NoEarlyPing, PingOutstanding, Ranges, AgeBound
<1>3. EvtConnack("main") \/ AfterRefusal("main")
  BY <1>1 DEF Handler, mqtt_event_handler, EvtConnack, EvtDisconnect,
              clear_fds, EvtPingresp, AfterRefusal, Threads
<1>4. /\ UNCHANGED <<poll_thread, wdt_age>>
      /\ ~hungup'
      /\ pings' = 0 /\ pingresps' = 0
      /\ session' = "connected" => opener' = "main"
      /\ \A t \in Threads : event'[t] # "pingresp"
  BY <1>1, <1>2, <1>3 DEF EvtConnack, AfterRefusal, HandlerGoesOn, Raise,
       client_disconnect, LibraryReset, Threads
<1>5. ~work_damaged'
  BY <1>1, <1>4 DEF FirstConnectIsClean
<1>6. ~Settled'
  BY <1>1, <1>4, StillUnsettled
<1>7. NoEarlyPing' /\ AgeBound'
  BY <1>2, <1>4, <1>6 DEF NoEarlyPing, PingOutstanding, Pending, AgeBound
<1> QED BY <1>1, <1>4, <1>5, <1>6, <1>7

\* Once it is set up, main only publishes.
LEMMA PublishStep ==
  ASSUME UptimeInv, Main, Settled
  PROVE  OneSession' /\ NoEarlyPing' /\ AgeBound'
<1> USE DEF UptimeInv, Inv, Core, OneSession
<1>1. session = "connected" /\ mqtt_connected /\ ~Handshaking
  BY DEF Settled
<1>2. pc \in {"idle", "mqtt_publish"}
  BY <1>1 DEF NoSessionLeftBehind, Ranges, Labels, Handshaking
<1>3. /\ UNCHANGED <<client, session, pings, pingresps, hungup, event, opener,
                     timer, poll_thread, wdt_age>>
      /\ pc' \in {"idle", "mqtt_publish"}
  BY <1>1, <1>2
     DEF Main, mqtt_publish_to_topic, get_mqtt_broker_addrinfo, client_init,
         TransportUp, TransportFails, WaitReturns, WaitFails, MainInput,
         ConnectSucceeds, AttemptFails, mqtt_publish, WriteDone,
         WriteRefused, WriteBreaks, Return, client, library, timer
<1>4. Settled' /\ (PingOutstanding' <=> PingOutstanding)
  BY <1>1, <1>3 DEF Settled, Handshaking, PingOutstanding, Pending, client
<1>5. OneSession'
  BY <1>3, <1>4 DEF timer
<1>6. AgeBound'
  BY <1>3, <1>4 DEF AgeBound, SincePing, timer
<1> QED BY <1>4, <1>5, <1>6 DEF NoEarlyPing

\* poll_thread exists only over the session.
LEMMA ReaderStep ==
  ASSUME UptimeInv, PollWakes \/ PollInput
  PROVE  OneSession' /\ NoEarlyPing' /\ AgeBound'
<1> USE DEF UptimeInv, Inv, Core, OneSession
<1>1. Settled /\ session = "connected" /\ ~hungup
  BY DEF PollWakes, PollInput
<1>2. event \in [Threads -> Events] /\ event["poll_thread"] = "none"
  BY DEF PollWakes, PollInput, Runs, Ranges
<1>3. /\ UNCHANGED <<client, session, opener, pings, hungup, timer, wdt_age,
                     call>>
      /\ poll_thread' \in {"polling", "woken"}
      /\ \/ UNCHANGED <<pingresps, event>>
         \/ /\ pingresps > 0
            /\ event' = [event EXCEPT !["poll_thread"] = "pingresp"]
  BY <1>1 DEF PollWakes, PollInput, InputReads, InputFails, Raise, library
<1>4. Settled'
  BY <1>1, <1>3 DEF Settled, Handshaking, client, call
<1>5. /\ event'["main"] = "none" /\ event'["work_queue"] = "none"
      /\ event'["poll_thread"] \in {"none", "pingresp"}
  BY <1>1, <1>2, <1>3 DEF Threads
<1>6. PingOutstanding' <=> PingOutstanding
  BY <1>2, <1>3 DEF PingOutstanding, Pending, Threads
<1>7. OneSession' /\ NoEarlyPing'
  BY <1>1, <1>3, <1>4, <1>5 DEF NoEarlyPing, timer
<1>8. AgeBound'
  BY <1>1, <1>3, <1>4, <1>6 DEF AgeBound, SincePing, timer
<1> QED BY <1>7, <1>8

\* Its handler of a PINGRESP feeds the watchdog.
LEMMA FeedStep ==
  ASSUME UptimeInv, Handler, Settled
  PROVE  OneSession' /\ NoEarlyPing' /\ AgeBound'
<1> USE DEF UptimeInv, Inv, Core, OneSession
<1>1. /\ event["main"] = "none" /\ event["work_queue"] = "none"
      /\ event["poll_thread"] \in {"none", "pingresp"}
      /\ event \in [Threads -> Events]
  BY DEF Ranges
<1>2. EvtPingresp("poll_thread")
  BY <1>1 DEF Handler, mqtt_event_handler, EvtConnack, EvtDisconnect,
              clear_fds, EvtPingresp, AfterRefusal, Threads
<1>3. /\ UNCHANGED <<client, session, opener, pings, pingresps, hungup, timer,
                     poll_thread, call>>
      /\ wdt_age' = 0
      /\ event["poll_thread"] = "pingresp"
      /\ event' = [event EXCEPT !["poll_thread"] = "none"]
  BY <1>2 DEF EvtPingresp, HandlerGoesOn, Raise, client
<1>4. Settled'
  BY <1>3 DEF Settled, Handshaking, client, call
<1>5. /\ event'["main"] = "none" /\ event'["work_queue"] = "none"
      /\ event'["poll_thread"] = "none"
  BY <1>1, <1>3 DEF Threads
<1>6. OneSession' /\ NoEarlyPing'
  BY <1>3, <1>4, <1>5 DEF NoEarlyPing, timer
<1>7. PingOutstanding /\ SincePing' = SincePing
  BY <1>3 DEF PingOutstanding, Pending, Threads, SincePing, timer
<1>8. SincePing \in Nat
  BY KeepAliveAssumption
     DEF SincePing, Ranges, KeepaliveChain, Settled, NotPending
<1>9. AgeBound'
  BY <1>3, <1>4, <1>7, <1>8, ConnectByAssumption, KeepAliveAssumption
     DEF AgeBound
<1> QED BY <1>6, <1>9

\* The keepalive work pings when no ping is outstanding.
LEMMA KeepaliveStep ==
  ASSUME UptimeInv, keepalive
  PROVE  OneSession' /\ NoEarlyPing' /\ AgeBound'
<1> USE DEF UptimeInv, Inv, Core, OneSession
<1>1. keepalive_work = 0
  BY DEF keepalive, KeepalivePings, KeepaliveDisconnected
<1>2. Settled /\ session = "connected" /\ mqtt_connected
  BY <1>1 DEF FirstConnectIsClean, NotPending, Settled
<1>3. ~PingOutstanding /\ wdt_age <= ConnectBy + KeepAlive
  BY <1>1, <1>2, KeepAliveAssumption, AnswerByAssumption, WindowAssumption
     DEF AgeBound, SincePing
<1>4. /\ WriteDone(TRUE) /\ RescheduleKeepalive
      /\ UNCHANGED <<client, poll_thread, wdt_age, call>>
  BY <1>2 DEF keepalive, KeepalivePings, KeepaliveDisconnected, WriteRefused,
              WriteBreaks
<1>5. /\ UNCHANGED <<client, session, event, opener, hungup, work_damaged,
                     wdt_age, poll_thread, call>>
      /\ keepalive_work' = KeepAlive
  BY <1>4 DEF WriteDone, RescheduleKeepalive
<1>6. Settled'
  BY <1>2, <1>5 DEF Settled, Handshaking, client, call
<1>7. OneSession' /\ NoEarlyPing'
  BY <1>2, <1>5, <1>6 DEF NoEarlyPing
<1>8. AgeBound'
  <2>1. SincePing' = 0 /\ wdt_age' <= ConnectBy + KeepAlive
    BY <1>3, <1>5, KeepAliveAssumption DEF SincePing
  <2>2. /\ wdt_age' <= ConnectBy + KeepAlive + SincePing'
        /\ SincePing' <= AnswerBy
    BY <2>1, KeepAliveAssumption, ConnectByAssumption, AnswerByAssumption
  <2>3. PingOutstanding'
    BY <1>2, <1>3, <1>4, MaxPingsAssumption
       DEF PingOutstanding, WriteDone, Ranges
  <2> QED BY <1>6, <2>2, <2>3 DEF AgeBound
<1> QED BY <1>7, <1>8

\* Time goes on only while the environment keeps its deadlines.
LEMMA TickStep ==
  ASSUME UptimeInv, HealthyTick
  PROVE  OneSession' /\ NoEarlyPing' /\ AgeBound'
<1> USE KeepAliveAssumption, ConnectByAssumption, AnswerByAssumption
        DEF UptimeInv, Inv, Core, OneSession
<1>1. /\ UNCHANGED <<client, library, work_damaged, poll_thread, call>>
      /\ wdt_age' = wdt_age + 1
      /\ keepalive_work # 0
      /\ keepalive_work' = IF keepalive_work > 0 THEN keepalive_work - 1
                                                 ELSE keepalive_work
  BY DEF HealthyTick, Tick
<1>2. (Settled' <=> Settled) /\ (PingOutstanding' <=> PingOutstanding)
  BY <1>1 DEF Settled, Handshaking, PingOutstanding, Pending, client, library,
              call
<1>3. OneSession' /\ NoEarlyPing'
  BY <1>1, <1>2 DEF NoEarlyPing, library
<1>4. CASE ~Settled
  <2>1. wdt_age < ConnectBy /\ wdt_age \in Nat
    BY <1>4 DEF HealthyTick, SessionInTime, Ranges
  <2>2. wdt_age' <= ConnectBy
    BY <1>1, <2>1
  <2> QED BY <1>2, <1>3, <1>4, <2>2 DEF AgeBound
<1>5. CASE Settled
  <2>1. keepalive_work \in 1 .. KeepAlive
    BY <1>1, <1>5 DEF KeepaliveChain, Settled, Ranges, NotPending
  <2>2. SincePing' = SincePing + 1 /\ SincePing \in Nat
    BY <1>1, <2>1 DEF SincePing
  <2>3. PingOutstanding => SincePing < AnswerBy
    BY <1>5, <2>1 DEF HealthyTick, AnswerInTime, SincePing
  <2>4. wdt_age \in Nat
    BY DEF Ranges
  <2> QED BY <1>1, <1>2, <1>3, <1>5, <2>2, <2>3, <2>4 DEF AgeBound
<1> QED BY <1>3, <1>4, <1>5

\* A broker that answers disturbs nothing.
LEMMA BrokerStep ==
  ASSUME UptimeInv, BrokerConnack \/ BrokerPingresp
  PROVE  OneSession' /\ NoEarlyPing' /\ AgeBound'
<1> USE DEF UptimeInv, Inv, Core, OneSession
<1>1. UNCHANGED <<client, session, event, opener, hungup, timer, poll_thread,
                  wdt_age, call>>
  BY DEF BrokerConnack, BrokerPingresp
<1>2. PingOutstanding' <=> PingOutstanding
  <2>1. CASE BrokerConnack
    BY <2>1 DEF BrokerConnack, PingOutstanding, Pending
  <2>2. CASE BrokerPingresp
    BY <2>2 DEF BrokerPingresp, PingOutstanding, Pending, Ranges
  <2> QED BY <2>1, <2>2
<1>3. Settled' <=> Settled
  BY <1>1 DEF Settled, Handshaking, client, call
<1> QED BY <1>1, <1>2, <1>3 DEF NoEarlyPing, AgeBound, SincePing, timer

\* Every healthy step preserves the invariant.
LEMMA UptimeNext == UptimeInv /\ [HealthyNext]_vars => UptimeInv'
<1> SUFFICES ASSUME UptimeInv, [HealthyNext]_vars PROVE UptimeInv'
  OBVIOUS
<1>1. Inv'
  BY NextInv, HealthyIsNext DEF UptimeInv
<1>2. CASE Main
  BY <1>1, <1>2, ConnectStep, PublishStep DEF UptimeInv
<1>3. CASE PollWakes \/ PollInput
  BY <1>1, <1>3, ReaderStep DEF UptimeInv
<1>4. CASE keepalive
  BY <1>1, <1>4, KeepaliveStep DEF UptimeInv
<1>5. CASE BrokerConnack \/ BrokerPingresp
  BY <1>1, <1>5, BrokerStep DEF UptimeInv
<1>6. CASE HealthyTick
  BY <1>1, <1>6, TickStep DEF UptimeInv
<1>7. ~DamagedTimeout
  BY DEF DamagedTimeout, UptimeInv, OneSession
<1>8. ~WatchdogReset
  <2>1. wdt_age < WdtTimeout /\ wdt_age \in Nat
    BY AgeInWindow DEF UptimeInv, Inv, Core, Ranges
  <2> QED BY <2>1, WdtAssumption DEF WatchdogReset
<1>9. CASE Handler
  BY <1>1, <1>9, ConnackStep, FeedStep DEF UptimeInv
<1>10. CASE UNCHANGED vars
  BY <1>1, <1>10 DEF UptimeInv, OneSession, NoEarlyPing, AgeBound, SincePing,
       Settled, Handshaking, PingOutstanding, Pending, vars, client, library,
       timer, call
<1> QED BY <1>2, <1>3, <1>4, <1>5, <1>6, <1>7, <1>8, <1>9, <1>10
        DEF HealthyNext, HealthyEnvironment

\* The strengthened invariant holds in every state of a healthy station.
THEOREM UptimeInvariance == HealthySpec => []UptimeInv
BY UptimeInit, UptimeNext, PTL DEF HealthySpec

\* The mqtt watchdog channel never resets a healthy station.
THEOREM HealthyStationStaysUp == HealthySpec => []NoWatchdogReset
<1>1. UptimeInv => NoWatchdogReset
  BY AgeInWindow DEF NoWatchdogReset
<1> QED BY <1>1, UptimeInvariance, PTL

\* A station that never loses its connection never damages its timeouts.
THEOREM HealthyTimeoutsAreSound == HealthySpec => []TimeoutsSound
<1>1. UptimeInv => TimeoutsSound
  BY DEF UptimeInv, OneSession, TimeoutsSound
<1> QED BY <1>1, UptimeInvariance, PTL

=============================================================================
