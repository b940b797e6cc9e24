-------------------------- MODULE MqttClient_proofs --------------------------
(***************************************************************************)
(* Safety of MqttClient for every value of its constants, and its          *)
(* refinement of MqttLink.                                                 *)
(*                                                                         *)
(* The invariants the runs check are not inductive by themselves. What     *)
(* closes them is what a handler that has not run yet can meet: while a    *)
(* DISCONNECT waits for its handler no session is open and none can be     *)
(* opened (LateDisconnect), because main connects only once it has seen    *)
(* the flag cleared; until poll_thread is started only main has handlers   *)
(* to run (FirstConnectIsQuiet); a session that main has not looked at yet *)
(* is up only if poll_thread, surviving an earlier session, read the       *)
(* CONNACK; and a loop of attempts has an attempt left while it runs.      *)
(*                                                                         *)
(* The Boolean variables are typed apart from the others (Booleans and     *)
(* Core), because no single backend reasons about both.                    *)
(***************************************************************************)

EXTENDS MqttClient, TLAPS

Booleans ==
  /\ mqtt_connected \in BOOLEAN
  /\ work_damaged \in BOOLEAN
  /\ hungup \in BOOLEAN

Ranges ==
  /\ nfds \in {0, 1}
  /\ keepalive_work \in NotPending .. KeepAlive
  /\ poll_thread \in {"prestart", "polling", "woken", "dead"}
  /\ session \in {"idle", "connecting", "connected"}
  /\ connack \in {"none", "accepted", "refused", "read"}
  /\ pings \in 0 .. MaxPings
  /\ pingresps \in 0 .. MaxPings
  /\ event \in [Threads -> Events]
  /\ opener \in {"nobody", "main", "poll_thread"}
  /\ wdt_age \in 0 .. WdtTimeout
  /\ pc \in Labels
  /\ retries \in (0 .. DnsRetries) \cup (0 .. ConnectRetries)
  /\ ret \in {"none", "ok", "error"}

\* While a DISCONNECT waits for its handler there is no session, and it is the
\* only one that waits. Unless it is main's own, main is not about to connect:
\* the flag is still set, or the CONNACK that sets it is main's to handle.
LateDisconnect ==
  /\ \A t \in Threads : event[t] = "disconnect" =>
       /\ session = "idle"
       /\ \A u \in Threads \ {t} : event[u] # "disconnect"
  /\ \A t \in Threads \ {"main"} : event[t] = "disconnect" =>
       /\ pc \notin {"getaddrinfo", "client_init", "mqtt_connect"}
       /\ mqtt_connected \/ event["main"] = "connack"

\* Until poll_thread is started, only main has handlers to run, and none of them
\* is a DISCONNECT: a session that is up is the one main has just read.
FirstConnectIsQuiet == poll_thread = "prestart" =>
  /\ event["poll_thread"] = "none"
  /\ event["work_queue"] = "none"
  /\ event["main"] \in {"none", "connack", "refused"}
  /\ event["main"] = "connack" => session = "connected"
  /\ event["main"] = "refused" => session # "connected"
  /\ session = "connected" \/ mqtt_connected => pc = "if_connected"

\* Before main has read the answer of the broker, only poll_thread can have.
OnlyReaderConnects ==
  pc \in {"wait", "mqtt_input"} /\ session = "connected"
    => poll_thread \in {"polling", "woken"}

\* Who can have which handler to run. A call that ends in the handler ends with
\* an error, and without a session.
HandlersOfThreads ==
  /\ event["work_queue"] \in {"none", "disconnect", "clear_fds"}
  /\ poll_thread = "dead" => event["poll_thread"] \notin {"connack", "pingresp"}
  /\ event["main"] \in {"disconnect", "clear_fds"} => session = "idle"
  /\ pc = "idle" => event["main"] \in {"none", "disconnect", "clear_fds"}
  /\ pc = "idle" /\ event["main"] # "none" => ret = "error"

\* A loop of attempts runs with an attempt left.
AttemptsLeft ==
  /\ pc = "getaddrinfo" => retries \in 1 .. DnsRetries
  /\ pc \in {"client_init", "mqtt_connect"} \/ Handshaking
       => retries \in 1 .. ConnectRetries

Core ==
  /\ Ranges
  /\ AttemptsLeft
  /\ FlagTracksSession
  /\ NoSessionLeftBehind
  /\ LateDisconnect
  /\ KeepaliveChain
  /\ SessionHasReader
  /\ FirstConnectIsClean
  /\ FirstConnectIsQuiet
  /\ OnlyReaderConnects
  /\ HandlersOfThreads

Inv == Booleans /\ Core

\* The type invariant, its Boolean variables apart from the others.
LEMMA Types == TypeOK <=> Booleans /\ Ranges
BY DEF TypeOK, Booleans, Ranges

-----------------------------------------------------------------------------
(* The inductive invariant holds initially. *)

\* The invariant holds of a client that has not been called.
LEMMA InitInv == Init => Inv
<1> SUFFICES ASSUME Init PROVE Inv
  OBVIOUS
<1>1. Booleans
  BY DEF Init, Booleans
<1>2. Ranges
  BY KeepAliveAssumption, WdtAssumption, RetriesAssumption, MaxPingsAssumption
     DEF Init, Ranges, Labels, NotPending, Threads, Events
<1>3. AttemptsLeft /\ FlagTracksSession /\ NoSessionLeftBehind /\ KeepaliveChain
  BY DEF Init, AttemptsLeft, Handshaking, FlagTracksSession,
         NoSessionLeftBehind, KeepaliveChain
<1>4. SessionHasReader /\ FirstConnectIsClean
  BY DEF Init, SessionHasReader, FirstConnectIsClean
<1>5. LateDisconnect /\ FirstConnectIsQuiet /\ HandlersOfThreads
  BY DEF Init, Threads, LateDisconnect, FirstConnectIsQuiet, HandlersOfThreads
<1>6. OnlyReaderConnects
  BY DEF Init, OnlyReaderConnects
<1> QED BY <1>1, <1>2, <1>3, <1>4, <1>5, <1>6 DEF Inv, Core

-----------------------------------------------------------------------------
(* The Boolean variables stay Boolean. *)

\* The steps of the main thread.
LEMMA MainBooleans ==
  ASSUME Booleans, Main PROVE Booleans'
<1>1. CASE mqtt_publish_to_topic
  BY <1>1
     DEF mqtt_publish_to_topic, Booleans, client, library, timer, call
<1>2. CASE get_mqtt_broker_addrinfo
  BY <1>2
     DEF get_mqtt_broker_addrinfo, RetryAt, GoTo, Return, Booleans, client,
         library, timer, call
<1>3. CASE client_init
  BY <1>3
     DEF client_init, LibraryReset, WorkInit, GoTo, Booleans, client, library,
         timer, call
<1>4. CASE TransportUp
  BY <1>4
     DEF TransportUp, GoTo, Booleans, client, library, timer, call
<1>5. CASE TransportFails
  BY <1>5
     DEF TransportFails, RetryAt, GoTo, Return, Booleans, client, library,
         timer, call
<1>6. CASE WaitReturns
  BY <1>6
     DEF WaitReturns, GoTo, Booleans, client, library, timer, call
<1>7. CASE WaitFails
  BY <1>7
     DEF WaitFails, Return, mqtt_abort, client_disconnect, LibraryReset, Raise,
         Booleans, client, library, timer, call
<1>8. CASE MainInput
  BY <1>8
     DEF MainInput, GoTo, InputReads, InputFails, ConnackUnread,
         client_disconnect, LibraryReset, Raise, Booleans, client, library,
         timer, call
<1>9. CASE ConnectSucceeds
  BY <1>9
     DEF ConnectSucceeds, RescheduleKeepalive, StartPollThread, GoTo, Booleans,
         client, library, timer, call
<1>10. CASE AttemptFails
  BY <1>10
     DEF AttemptFails, RetryAt, GoTo, Return, mqtt_abort, client_disconnect,
         LibraryReset, Raise, Booleans, client, library, timer, call
<1>11. CASE mqtt_publish
  BY <1>11
     DEF mqtt_publish, Return, WriteDone, WriteRefused, WriteBreaks,
         client_disconnect, LibraryReset, Raise, Booleans, client, library,
         timer, call
<1> QED
  BY <1>1, <1>2, <1>3, <1>4, <1>5, <1>6, <1>7, <1>8, <1>9, <1>10, <1>11
     DEF Main

\* The steps of poll_thread.
LEMMA ReaderBooleans ==
  ASSUME Booleans, PollWakes \/ PollInput PROVE Booleans'
<1>1. CASE PollWakes
  BY <1>1
     DEF PollWakes, WaitEnds, Booleans, client, library, timer, call
<1>2. CASE PollInput
  BY <1>2
     DEF PollInput, InputReads, InputFails, ConnackUnread, client_disconnect,
         LibraryReset, Raise, Booleans, client, library, timer, call
<1> QED
  BY <1>1, <1>2

\* The steps of the keepalive work.
LEMMA KeepaliveBooleans ==
  ASSUME Booleans, keepalive PROVE Booleans'
<1>1. CASE KeepalivePings
  BY <1>1
     DEF KeepalivePings, RescheduleKeepalive, KeepaliveStops, WriteDone,
         WriteRefused, WriteBreaks, client_disconnect, LibraryReset, Raise,
         Booleans, client, library, timer, call
<1>2. CASE KeepaliveDisconnected
  BY <1>2
     DEF KeepaliveDisconnected, KeepaliveStops, Booleans, client, library,
         timer, call
<1> QED
  BY <1>1, <1>2
     DEF keepalive

\* The steps of the event handler, whichever thread runs it.
LEMMA HandlerBooleans ==
  ASSUME Booleans, NEW t \in Threads, mqtt_event_handler(t) PROVE Booleans'
<1>1. CASE EvtConnack(t)
  BY <1>1
     DEF EvtConnack, HandlerGoesOn, Raise, Booleans, client, library, timer,
         call
<1>2. CASE EvtDisconnect(t)
  BY <1>2
     DEF EvtDisconnect, HandlerGoesOn, Raise, Booleans, client, library, timer,
         call
<1>3. CASE clear_fds(t)
  BY <1>3
     DEF clear_fds, HandlerGoesOn, Raise, Booleans, client, library, timer,
         call
<1>4. CASE EvtPingresp(t)
  BY <1>4
     DEF EvtPingresp, HandlerGoesOn, Raise, Booleans, client, library, timer,
         call
<1>5. CASE AfterRefusal(t)
  BY <1>5
     DEF AfterRefusal, client_disconnect, LibraryReset, Raise, Booleans,
         client, library, timer, call
<1> QED
  BY <1>1, <1>2, <1>3, <1>4, <1>5
     DEF mqtt_event_handler

\* The steps of the broker, the clock and the resets.
LEMMA EnvironmentBooleans ==
  ASSUME Booleans, Environment PROVE Booleans'
<1>1. CASE BrokerConnack
  BY <1>1
     DEF BrokerConnack, Booleans, client, library, timer, call
<1>2. CASE BrokerPingresp
  BY <1>2
     DEF BrokerPingresp, Booleans, client, library, timer, call
<1>3. CASE HangUp
  BY <1>3
     DEF HangUp, Booleans, client, library, timer, call
<1>4. CASE Tick
  BY <1>4
     DEF Tick, Booleans, client, library, timer, call
<1>5. CASE DamagedTimeout
  BY <1>5
     DEF DamagedTimeout, Booleans, client, library, timer, call
<1>6. CASE Restart
  BY <1>6
     DEF Restart, LibraryReset, Booleans, client, library, timer, call
<1> QED
  BY <1>1, <1>2, <1>3, <1>4, <1>5, <1>6
     DEF Environment, WatchdogReset, OtherReset

-----------------------------------------------------------------------------
(* The rest of the invariant, one step per action. *)

\* The steps of the main thread.
LEMMA MainCore ==
  ASSUME Core, Main PROVE Core'
<1> USE DEF Core
<1>0. Runs("main")
  BY DEF Main
<1>1. CASE mqtt_publish_to_topic
  <2>1. Ranges' /\ AttemptsLeft'
    BY <1>1, <1>0, RetriesAssumption
       DEF mqtt_publish_to_topic, client, library, timer, call, Ranges,
           Threads, Events, Runs, Labels, AttemptsLeft, NotPending, Handshaking
  <2>2. FlagTracksSession' /\ NoSessionLeftBehind' /\ LateDisconnect'
    BY <1>1, <1>0
       DEF mqtt_publish_to_topic, client, library, timer, call, Ranges,
           Threads, Events, Runs, Labels, FlagTracksSession,
           NoSessionLeftBehind, LateDisconnect, FirstConnectIsQuiet,
           HandlersOfThreads, Pending, Handshaking
  <2>3. KeepaliveChain' /\ FirstConnectIsClean'
    BY <1>1, <1>0
       DEF mqtt_publish_to_topic, client, library, timer, call, Ranges,
           Threads, Events, Runs, Labels, FlagTracksSession,
           NoSessionLeftBehind, KeepaliveChain, FirstConnectIsClean,
           Handshaking, NotPending
  <2>4. /\ SessionHasReader'
       /\ FirstConnectIsQuiet'
       /\ OnlyReaderConnects'
       /\ HandlersOfThreads'
    BY <1>1, <1>0
       DEF mqtt_publish_to_topic, client, library, timer, call, Ranges,
           Threads, Events, Runs, Labels, FlagTracksSession,
           NoSessionLeftBehind, SessionHasReader, FirstConnectIsQuiet,
           OnlyReaderConnects, HandlersOfThreads, Pending, Handshaking
  <2> QED BY <2>1, <2>2, <2>3, <2>4
<1>2. CASE get_mqtt_broker_addrinfo
  <2>1. Ranges' /\ AttemptsLeft'
    BY <1>2, <1>0, RetriesAssumption
       DEF get_mqtt_broker_addrinfo, RetryAt, GoTo, Return, client, library,
           timer, call, Ranges, Threads, Events, Runs, Labels, AttemptsLeft,
           NotPending, Handshaking
  <2>2. FlagTracksSession' /\ NoSessionLeftBehind' /\ LateDisconnect'
    BY <1>2, <1>0
       DEF get_mqtt_broker_addrinfo, RetryAt, GoTo, Return, client, library,
           timer, call, Ranges, Threads, Events, Runs, Labels,
           FlagTracksSession, NoSessionLeftBehind, LateDisconnect,
           FirstConnectIsQuiet, HandlersOfThreads, Pending, Handshaking
  <2>3. KeepaliveChain' /\ FirstConnectIsClean'
    BY <1>2, <1>0
       DEF get_mqtt_broker_addrinfo, RetryAt, GoTo, Return, client, library,
           timer, call, Ranges, Threads, Events, Runs, Labels,
           FlagTracksSession, NoSessionLeftBehind, KeepaliveChain,
           FirstConnectIsClean, Handshaking, NotPending
  <2>4. /\ SessionHasReader'
       /\ FirstConnectIsQuiet'
       /\ OnlyReaderConnects'
       /\ HandlersOfThreads'
    BY <1>2, <1>0
       DEF get_mqtt_broker_addrinfo, RetryAt, GoTo, Return, client, library,
           timer, call, Ranges, Threads, Events, Runs, Labels,
           FlagTracksSession, NoSessionLeftBehind, SessionHasReader,
           FirstConnectIsQuiet, OnlyReaderConnects, HandlersOfThreads, Pending,
           Handshaking
  <2> QED BY <2>1, <2>2, <2>3, <2>4
<1>3. CASE client_init
  <2>1. Ranges' /\ AttemptsLeft'
    BY <1>3, <1>0, KeepAliveAssumption, MaxPingsAssumption
       DEF client_init, LibraryReset, WorkInit, GoTo, client, library, timer,
           call, Ranges, Threads, Events, Runs, Labels, AttemptsLeft,
           NotPending, Handshaking
  <2>2. FlagTracksSession' /\ NoSessionLeftBehind' /\ LateDisconnect'
    BY <1>3, <1>0
       DEF client_init, LibraryReset, WorkInit, GoTo, client, library, timer,
           call, Ranges, Threads, Events, Runs, Labels, FlagTracksSession,
           NoSessionLeftBehind, LateDisconnect, FirstConnectIsQuiet,
           HandlersOfThreads, Pending, Handshaking
  <2>3. KeepaliveChain' /\ FirstConnectIsClean'
    BY <1>3, <1>0, KeepAliveAssumption
       DEF client_init, LibraryReset, WorkInit, GoTo, client, library, timer,
           call, Ranges, Threads, Events, Runs, Labels, FlagTracksSession,
           NoSessionLeftBehind, KeepaliveChain, FirstConnectIsClean,
           Handshaking, NotPending
  <2>4. /\ SessionHasReader'
       /\ FirstConnectIsQuiet'
       /\ OnlyReaderConnects'
       /\ HandlersOfThreads'
    BY <1>3, <1>0
       DEF client_init, LibraryReset, WorkInit, GoTo, client, library, timer,
           call, Ranges, Threads, Events, Runs, Labels, FlagTracksSession,
           NoSessionLeftBehind, SessionHasReader, FirstConnectIsQuiet,
           OnlyReaderConnects, HandlersOfThreads, Pending, Handshaking
  <2> QED BY <2>1, <2>2, <2>3, <2>4
<1>4. CASE TransportUp
  <2>1. Ranges' /\ AttemptsLeft'
    BY <1>4, <1>0
       DEF TransportUp, GoTo, client, library, timer, call, Ranges, Threads,
           Events, Runs, Labels, AttemptsLeft, NotPending, Handshaking
  <2>2. FlagTracksSession' /\ NoSessionLeftBehind' /\ LateDisconnect'
    BY <1>4, <1>0
       DEF TransportUp, GoTo, client, library, timer, call, Ranges, Threads,
           Events, Runs, Labels, FlagTracksSession, NoSessionLeftBehind,
           LateDisconnect, FirstConnectIsQuiet, HandlersOfThreads, Pending,
           Handshaking
  <2>3. KeepaliveChain' /\ FirstConnectIsClean'
    BY <1>4, <1>0
       DEF TransportUp, GoTo, client, library, timer, call, Ranges, Threads,
           Events, Runs, Labels, FlagTracksSession, NoSessionLeftBehind,
           KeepaliveChain, FirstConnectIsClean, Handshaking, NotPending
  <2>4. /\ SessionHasReader'
       /\ FirstConnectIsQuiet'
       /\ OnlyReaderConnects'
       /\ HandlersOfThreads'
    BY <1>4, <1>0
       DEF TransportUp, GoTo, client, library, timer, call, Ranges, Threads,
           Events, Runs, Labels, FlagTracksSession, NoSessionLeftBehind,
           SessionHasReader, FirstConnectIsQuiet, OnlyReaderConnects,
           HandlersOfThreads, Pending, Handshaking
  <2> QED BY <2>1, <2>2, <2>3, <2>4
<1>5. CASE TransportFails
  <2>1. Ranges' /\ AttemptsLeft'
    BY <1>5, <1>0, RetriesAssumption
       DEF TransportFails, RetryAt, GoTo, Return, client, library, timer, call,
           Ranges, Threads, Events, Runs, Labels, AttemptsLeft, NotPending,
           Handshaking
  <2>2. FlagTracksSession' /\ NoSessionLeftBehind' /\ LateDisconnect'
    BY <1>5, <1>0
       DEF TransportFails, RetryAt, GoTo, Return, client, library, timer, call,
           Ranges, Threads, Events, Runs, Labels, FlagTracksSession,
           NoSessionLeftBehind, LateDisconnect, FirstConnectIsQuiet,
           HandlersOfThreads, Pending, Handshaking
  <2>3. KeepaliveChain' /\ FirstConnectIsClean'
    BY <1>5, <1>0
       DEF TransportFails, RetryAt, GoTo, Return, client, library, timer, call,
           Ranges, Threads, Events, Runs, Labels, FlagTracksSession,
           NoSessionLeftBehind, KeepaliveChain, FirstConnectIsClean,
           Handshaking, NotPending
  <2>4. /\ SessionHasReader'
       /\ FirstConnectIsQuiet'
       /\ OnlyReaderConnects'
       /\ HandlersOfThreads'
    BY <1>5, <1>0
       DEF TransportFails, RetryAt, GoTo, Return, client, library, timer, call,
           Ranges, Threads, Events, Runs, Labels, FlagTracksSession,
           NoSessionLeftBehind, SessionHasReader, FirstConnectIsQuiet,
           OnlyReaderConnects, HandlersOfThreads, Pending, Handshaking
  <2> QED BY <2>1, <2>2, <2>3, <2>4
<1>6. CASE WaitReturns
  <2>1. Ranges' /\ AttemptsLeft'
    BY <1>6, <1>0
       DEF WaitReturns, GoTo, client, library, timer, call, Ranges, Threads,
           Events, Runs, Labels, AttemptsLeft, NotPending, Handshaking
  <2>2. FlagTracksSession' /\ NoSessionLeftBehind' /\ LateDisconnect'
    BY <1>6, <1>0
       DEF WaitReturns, GoTo, client, library, timer, call, Ranges, Threads,
           Events, Runs, Labels, FlagTracksSession, NoSessionLeftBehind,
           LateDisconnect, FirstConnectIsQuiet, HandlersOfThreads, Pending,
           Handshaking
  <2>3. KeepaliveChain' /\ FirstConnectIsClean'
    BY <1>6, <1>0
       DEF WaitReturns, GoTo, client, library, timer, call, Ranges, Threads,
           Events, Runs, Labels, FlagTracksSession, NoSessionLeftBehind,
           KeepaliveChain, FirstConnectIsClean, Handshaking, NotPending
  <2>4. /\ SessionHasReader'
       /\ FirstConnectIsQuiet'
       /\ OnlyReaderConnects'
       /\ HandlersOfThreads'
    BY <1>6, <1>0
       DEF WaitReturns, GoTo, client, library, timer, call, Ranges, Threads,
           Events, Runs, Labels, FlagTracksSession, NoSessionLeftBehind,
           SessionHasReader, FirstConnectIsQuiet, OnlyReaderConnects,
           HandlersOfThreads, Pending, Handshaking
  <2> QED BY <2>1, <2>2, <2>3, <2>4
<1>7. CASE WaitFails
  <2>1. Ranges' /\ AttemptsLeft'
    BY <1>7, <1>0, MaxPingsAssumption
       DEF WaitFails, Return, mqtt_abort, client_disconnect, LibraryReset,
           Raise, client, library, timer, call, Ranges, Threads, Events, Runs,
           Labels, AttemptsLeft, NotPending, Handshaking
  <2>2. FlagTracksSession' /\ NoSessionLeftBehind' /\ LateDisconnect'
    BY <1>7, <1>0
       DEF WaitFails, Return, mqtt_abort, client_disconnect, LibraryReset,
           Raise, client, library, timer, call, Ranges, Threads, Events, Runs,
           Labels, FlagTracksSession, NoSessionLeftBehind, LateDisconnect,
           FirstConnectIsQuiet, HandlersOfThreads, Pending, Handshaking
  <2>3. KeepaliveChain' /\ FirstConnectIsClean'
    BY <1>7, <1>0
       DEF WaitFails, Return, mqtt_abort, client_disconnect, LibraryReset,
           Raise, client, library, timer, call, Ranges, Threads, Events, Runs,
           Labels, FlagTracksSession, NoSessionLeftBehind, KeepaliveChain,
           FirstConnectIsClean, Handshaking, NotPending
  <2>4. /\ SessionHasReader'
       /\ FirstConnectIsQuiet'
       /\ OnlyReaderConnects'
       /\ HandlersOfThreads'
    BY <1>7, <1>0
       DEF WaitFails, Return, mqtt_abort, client_disconnect, LibraryReset,
           Raise, client, library, timer, call, Ranges, Threads, Events, Runs,
           Labels, FlagTracksSession, NoSessionLeftBehind, SessionHasReader,
           FirstConnectIsQuiet, OnlyReaderConnects, HandlersOfThreads, Pending,
           Handshaking
  <2> QED BY <2>1, <2>2, <2>3, <2>4
<1>8. CASE MainInput
  <2>1. Ranges' /\ AttemptsLeft'
    BY <1>8, <1>0, MaxPingsAssumption
       DEF MainInput, GoTo, InputReads, InputFails, ConnackUnread,
           client_disconnect, LibraryReset, Raise, client, library, timer,
           call, Ranges, Threads, Events, Runs, Labels, AttemptsLeft,
           NotPending, Handshaking
  <2>2. FlagTracksSession' /\ NoSessionLeftBehind' /\ LateDisconnect'
    BY <1>8, <1>0
       DEF MainInput, GoTo, InputReads, InputFails, ConnackUnread,
           client_disconnect, LibraryReset, Raise, client, library, timer,
           call, Ranges, Threads, Events, Runs, Labels, FlagTracksSession,
           NoSessionLeftBehind, LateDisconnect, FirstConnectIsQuiet,
           HandlersOfThreads, Pending, Handshaking
  <2>3. KeepaliveChain' /\ FirstConnectIsClean'
    BY <1>8, <1>0
       DEF MainInput, GoTo, InputReads, InputFails, ConnackUnread,
           client_disconnect, LibraryReset, Raise, client, library, timer,
           call, Ranges, Threads, Events, Runs, Labels, FlagTracksSession,
           NoSessionLeftBehind, KeepaliveChain, FirstConnectIsClean,
           Handshaking, NotPending
  <2>4. /\ SessionHasReader'
       /\ FirstConnectIsQuiet'
       /\ OnlyReaderConnects'
       /\ HandlersOfThreads'
    BY <1>8, <1>0
       DEF MainInput, GoTo, InputReads, InputFails, ConnackUnread,
           client_disconnect, LibraryReset, Raise, client, library, timer,
           call, Ranges, Threads, Events, Runs, Labels, FlagTracksSession,
           NoSessionLeftBehind, SessionHasReader, FirstConnectIsQuiet,
           OnlyReaderConnects, HandlersOfThreads, Pending, Handshaking
  <2> QED BY <2>1, <2>2, <2>3, <2>4
<1>9. CASE ConnectSucceeds
  <2>1. Ranges' /\ AttemptsLeft'
    BY <1>9, <1>0, KeepAliveAssumption
       DEF ConnectSucceeds, RescheduleKeepalive, StartPollThread, GoTo, client,
           library, timer, call, Ranges, Threads, Events, Runs, Labels,
           AttemptsLeft, NotPending, Handshaking
  <2>2. FlagTracksSession' /\ NoSessionLeftBehind' /\ LateDisconnect'
    BY <1>9, <1>0
       DEF ConnectSucceeds, RescheduleKeepalive, StartPollThread, GoTo, client,
           library, timer, call, Ranges, Threads, Events, Runs, Labels,
           FlagTracksSession, NoSessionLeftBehind, LateDisconnect,
           FirstConnectIsQuiet, HandlersOfThreads, Pending, Handshaking
  <2>3. KeepaliveChain' /\ FirstConnectIsClean'
    BY <1>9, <1>0, KeepAliveAssumption
       DEF ConnectSucceeds, RescheduleKeepalive, StartPollThread, GoTo, client,
           library, timer, call, Ranges, Threads, Events, Runs, Labels,
           FlagTracksSession, NoSessionLeftBehind, KeepaliveChain,
           FirstConnectIsClean, Handshaking, NotPending
  <2>4. /\ SessionHasReader'
       /\ FirstConnectIsQuiet'
       /\ OnlyReaderConnects'
       /\ HandlersOfThreads'
    BY <1>9, <1>0
       DEF ConnectSucceeds, RescheduleKeepalive, StartPollThread, GoTo, client,
           library, timer, call, Ranges, Threads, Events, Runs, Labels,
           FlagTracksSession, NoSessionLeftBehind, SessionHasReader,
           FirstConnectIsQuiet, OnlyReaderConnects, HandlersOfThreads, Pending,
           Handshaking
  <2> QED BY <2>1, <2>2, <2>3, <2>4
<1>10. CASE AttemptFails
  <2>1. Ranges' /\ AttemptsLeft'
    BY <1>10, <1>0, RetriesAssumption, MaxPingsAssumption
       DEF AttemptFails, RetryAt, GoTo, Return, mqtt_abort, client_disconnect,
           LibraryReset, Raise, client, library, timer, call, Ranges, Threads,
           Events, Runs, Labels, AttemptsLeft, NotPending, Handshaking
  <2>2. FlagTracksSession' /\ NoSessionLeftBehind' /\ LateDisconnect'
    BY <1>10, <1>0
       DEF AttemptFails, RetryAt, GoTo, Return, mqtt_abort, client_disconnect,
           LibraryReset, Raise, client, library, timer, call, Ranges, Threads,
           Events, Runs, Labels, FlagTracksSession, NoSessionLeftBehind,
           LateDisconnect, FirstConnectIsQuiet, HandlersOfThreads, Pending,
           Handshaking
  <2>3. KeepaliveChain' /\ FirstConnectIsClean'
    BY <1>10, <1>0
       DEF AttemptFails, RetryAt, GoTo, Return, mqtt_abort, client_disconnect,
           LibraryReset, Raise, client, library, timer, call, Ranges, Threads,
           Events, Runs, Labels, FlagTracksSession, NoSessionLeftBehind,
           KeepaliveChain, FirstConnectIsClean, Handshaking, NotPending
  <2>4. /\ SessionHasReader'
       /\ FirstConnectIsQuiet'
       /\ OnlyReaderConnects'
       /\ HandlersOfThreads'
    BY <1>10, <1>0
       DEF AttemptFails, RetryAt, GoTo, Return, mqtt_abort, client_disconnect,
           LibraryReset, Raise, client, library, timer, call, Ranges, Threads,
           Events, Runs, Labels, FlagTracksSession, NoSessionLeftBehind,
           SessionHasReader, FirstConnectIsQuiet, OnlyReaderConnects,
           HandlersOfThreads, Pending, Handshaking
  <2> QED BY <2>1, <2>2, <2>3, <2>4
<1>11. CASE mqtt_publish
  <2>1. Ranges' /\ AttemptsLeft'
    BY <1>11, <1>0, MaxPingsAssumption
       DEF mqtt_publish, Return, WriteDone, WriteRefused, WriteBreaks,
           client_disconnect, LibraryReset, Raise, client, library, timer,
           call, Ranges, Threads, Events, Runs, Labels, AttemptsLeft,
           NotPending, Handshaking
  <2>2. FlagTracksSession' /\ NoSessionLeftBehind' /\ LateDisconnect'
    BY <1>11, <1>0
       DEF mqtt_publish, Return, WriteDone, WriteRefused, WriteBreaks,
           client_disconnect, LibraryReset, Raise, client, library, timer,
           call, Ranges, Threads, Events, Runs, Labels, FlagTracksSession,
           NoSessionLeftBehind, LateDisconnect, FirstConnectIsQuiet,
           HandlersOfThreads, Pending, Handshaking
  <2>3. KeepaliveChain' /\ FirstConnectIsClean'
    BY <1>11, <1>0
       DEF mqtt_publish, Return, WriteDone, WriteRefused, WriteBreaks,
           client_disconnect, LibraryReset, Raise, client, library, timer,
           call, Ranges, Threads, Events, Runs, Labels, FlagTracksSession,
           NoSessionLeftBehind, KeepaliveChain, FirstConnectIsClean,
           Handshaking, NotPending
  <2>4. /\ SessionHasReader'
       /\ FirstConnectIsQuiet'
       /\ OnlyReaderConnects'
       /\ HandlersOfThreads'
    BY <1>11, <1>0
       DEF mqtt_publish, Return, WriteDone, WriteRefused, WriteBreaks,
           client_disconnect, LibraryReset, Raise, client, library, timer,
           call, Ranges, Threads, Events, Runs, Labels, FlagTracksSession,
           NoSessionLeftBehind, SessionHasReader, FirstConnectIsQuiet,
           OnlyReaderConnects, HandlersOfThreads, Pending, Handshaking
  <2> QED BY <2>1, <2>2, <2>3, <2>4
<1> QED
  BY <1>1, <1>2, <1>3, <1>4, <1>5, <1>6, <1>7, <1>8, <1>9, <1>10, <1>11
     DEF Main

\* The steps of poll_thread.
LEMMA ReaderCore ==
  ASSUME Core, PollWakes \/ PollInput PROVE Core'
<1> USE DEF Core
<1>1. CASE PollWakes
  <2>1. Ranges' /\ AttemptsLeft'
    BY <1>1
       DEF PollWakes, WaitEnds, client, library, timer, call, Ranges, Threads,
           Events, Runs, Labels, AttemptsLeft, NotPending, Handshaking
  <2>2. FlagTracksSession' /\ NoSessionLeftBehind' /\ LateDisconnect'
    BY <1>1
       DEF PollWakes, WaitEnds, client, library, timer, call, Ranges, Threads,
           Events, Runs, Labels, FlagTracksSession, NoSessionLeftBehind,
           LateDisconnect, FirstConnectIsQuiet, HandlersOfThreads, Pending,
           Handshaking
  <2>3. KeepaliveChain' /\ FirstConnectIsClean'
    BY <1>1
       DEF PollWakes, WaitEnds, client, library, timer, call, Ranges, Threads,
           Events, Runs, Labels, FlagTracksSession, NoSessionLeftBehind,
           KeepaliveChain, FirstConnectIsClean, Handshaking, NotPending
  <2>4. /\ SessionHasReader'
       /\ FirstConnectIsQuiet'
       /\ OnlyReaderConnects'
       /\ HandlersOfThreads'
    BY <1>1
       DEF PollWakes, WaitEnds, client, library, timer, call, Ranges, Threads,
           Events, Runs, Labels, FlagTracksSession, NoSessionLeftBehind,
           SessionHasReader, FirstConnectIsQuiet, OnlyReaderConnects,
           HandlersOfThreads, Pending, Handshaking
  <2> QED BY <2>1, <2>2, <2>3, <2>4
<1>2. CASE PollInput
  <2>1. Ranges' /\ AttemptsLeft'
    BY <1>2, MaxPingsAssumption
       DEF PollInput, InputReads, InputFails, ConnackUnread, client_disconnect,
           LibraryReset, Raise, client, library, timer, call, Ranges, Threads,
           Events, Runs, Labels, AttemptsLeft, NotPending, Handshaking
  <2>2. FlagTracksSession' /\ NoSessionLeftBehind' /\ LateDisconnect'
    BY <1>2
       DEF PollInput, InputReads, InputFails, ConnackUnread, client_disconnect,
           LibraryReset, Raise, client, library, timer, call, Ranges, Threads,
           Events, Runs, Labels, FlagTracksSession, NoSessionLeftBehind,
           LateDisconnect, FirstConnectIsQuiet, HandlersOfThreads, Pending,
           Handshaking
  <2>3. KeepaliveChain' /\ FirstConnectIsClean'
    BY <1>2
       DEF PollInput, InputReads, InputFails, ConnackUnread, client_disconnect,
           LibraryReset, Raise, client, library, timer, call, Ranges, Threads,
           Events, Runs, Labels, FlagTracksSession, NoSessionLeftBehind,
           KeepaliveChain, FirstConnectIsClean, Handshaking, NotPending
  <2>4. /\ SessionHasReader'
       /\ FirstConnectIsQuiet'
       /\ OnlyReaderConnects'
       /\ HandlersOfThreads'
    BY <1>2
       DEF PollInput, InputReads, InputFails, ConnackUnread, client_disconnect,
           LibraryReset, Raise, client, library, timer, call, Ranges, Threads,
           Events, Runs, Labels, FlagTracksSession, NoSessionLeftBehind,
           SessionHasReader, FirstConnectIsQuiet, OnlyReaderConnects,
           HandlersOfThreads, Pending, Handshaking
  <2> QED BY <2>1, <2>2, <2>3, <2>4
<1> QED
  BY <1>1, <1>2

\* The steps of the keepalive work.
LEMMA KeepaliveCore ==
  ASSUME Core, keepalive PROVE Core'
<1> USE DEF Core
<1>0. Runs("work_queue")
  BY DEF keepalive
<1>1. CASE KeepalivePings
  <2>0. /\ mqtt_connected
        /\ UNCHANGED <<mqtt_connected, nfds, poll_thread, call>>
        /\ \/ UNCHANGED <<session, event>>
           \/ /\ session = "connected" /\ session' = "idle"
              /\ event' = [event EXCEPT !["work_queue"] = "disconnect"]
    BY <1>1, Zenon
       DEF KeepalivePings, WriteDone, WriteRefused, WriteBreaks,
           client_disconnect, LibraryReset, Raise, client, library
  <2>a. poll_thread # "prestart"
    BY <1>1 DEF KeepalivePings, FirstConnectIsClean, NotPending
  <2>1. Ranges' /\ AttemptsLeft'
    BY <1>1, <1>0, KeepAliveAssumption, MaxPingsAssumption
       DEF KeepalivePings, RescheduleKeepalive, KeepaliveStops, WriteDone,
           WriteRefused, WriteBreaks, client_disconnect, LibraryReset, Raise,
           client, library, timer, call, Ranges, Threads, Events, Runs, Labels,
           AttemptsLeft, NotPending, Handshaking
  <2>2. FlagTracksSession' /\ NoSessionLeftBehind' /\ LateDisconnect'
    BY <2>0, <2>a, <1>0
       DEF call, Ranges, Threads, Events, Runs, Labels, FlagTracksSession,
           NoSessionLeftBehind, LateDisconnect, FirstConnectIsQuiet,
           HandlersOfThreads, Pending, Handshaking
  <2>3. KeepaliveChain' /\ FirstConnectIsClean'
    BY <1>1, <1>0, KeepAliveAssumption
       DEF KeepalivePings, RescheduleKeepalive, KeepaliveStops, WriteDone,
           WriteRefused, WriteBreaks, client_disconnect, LibraryReset, Raise,
           client, library, timer, call, Ranges, Threads, Events, Runs, Labels,
           FlagTracksSession, NoSessionLeftBehind, KeepaliveChain,
           FirstConnectIsClean, Handshaking, NotPending
  <2>4. /\ SessionHasReader'
       /\ FirstConnectIsQuiet'
       /\ OnlyReaderConnects'
       /\ HandlersOfThreads'
    BY <2>0, <2>a, <1>0
       DEF call, Ranges, Threads, Events, Runs, Labels, FlagTracksSession,
           NoSessionLeftBehind, SessionHasReader, FirstConnectIsQuiet,
           OnlyReaderConnects, HandlersOfThreads, Pending, Handshaking
  <2> QED BY <2>1, <2>2, <2>3, <2>4
<1>2. CASE KeepaliveDisconnected
  <2>1. Ranges' /\ AttemptsLeft'
    BY <1>2, <1>0, KeepAliveAssumption
       DEF KeepaliveDisconnected, KeepaliveStops, client, library, timer, call,
           Ranges, Threads, Events, Runs, Labels, AttemptsLeft, NotPending,
           Handshaking
  <2>2. FlagTracksSession' /\ NoSessionLeftBehind' /\ LateDisconnect'
    BY <1>2, <1>0
       DEF KeepaliveDisconnected, KeepaliveStops, client, library, timer, call,
           Ranges, Threads, Events, Runs, Labels, FlagTracksSession,
           NoSessionLeftBehind, LateDisconnect, FirstConnectIsQuiet,
           HandlersOfThreads, Pending, Handshaking
  <2>3. KeepaliveChain' /\ FirstConnectIsClean'
    BY <1>2, <1>0, KeepAliveAssumption
       DEF KeepaliveDisconnected, KeepaliveStops, client, library, timer, call,
           Ranges, Threads, Events, Runs, Labels, FlagTracksSession,
           NoSessionLeftBehind, KeepaliveChain, FirstConnectIsClean,
           Handshaking, NotPending
  <2>4. /\ SessionHasReader'
       /\ FirstConnectIsQuiet'
       /\ OnlyReaderConnects'
       /\ HandlersOfThreads'
    BY <1>2, <1>0
       DEF KeepaliveDisconnected, KeepaliveStops, client, library, timer, call,
           Ranges, Threads, Events, Runs, Labels, FlagTracksSession,
           NoSessionLeftBehind, SessionHasReader, FirstConnectIsQuiet,
           OnlyReaderConnects, HandlersOfThreads, Pending, Handshaking
  <2> QED BY <2>1, <2>2, <2>3, <2>4
<1> QED
  BY <1>1, <1>2
     DEF keepalive

\* The steps of the event handler, whichever thread runs it.
LEMMA HandlerCore ==
  ASSUME Core, NEW t \in Threads, mqtt_event_handler(t) PROVE Core'
<1> USE DEF Core
<1>1. CASE EvtConnack(t)
  <2>1. Ranges' /\ AttemptsLeft'
    BY <1>1
       DEF EvtConnack, HandlerGoesOn, Raise, client, library, timer, call,
           Ranges, Threads, Events, Runs, Labels, AttemptsLeft, NotPending,
           Handshaking
  <2>2. FlagTracksSession' /\ NoSessionLeftBehind' /\ LateDisconnect'
    BY <1>1
       DEF EvtConnack, HandlerGoesOn, Raise, client, library, timer, call,
           Ranges, Threads, Events, Runs, Labels, FlagTracksSession,
           NoSessionLeftBehind, LateDisconnect, FirstConnectIsQuiet,
           HandlersOfThreads, Pending, Handshaking
  <2>3. KeepaliveChain' /\ FirstConnectIsClean'
    BY <1>1
       DEF EvtConnack, HandlerGoesOn, Raise, client, library, timer, call,
           Ranges, Threads, Events, Runs, Labels, FlagTracksSession,
           NoSessionLeftBehind, KeepaliveChain, FirstConnectIsClean,
           Handshaking, NotPending
  <2>4. /\ SessionHasReader'
       /\ FirstConnectIsQuiet'
       /\ OnlyReaderConnects'
       /\ HandlersOfThreads'
    BY <1>1
       DEF EvtConnack, HandlerGoesOn, Raise, client, library, timer, call,
           Ranges, Threads, Events, Runs, Labels, FlagTracksSession,
           NoSessionLeftBehind, SessionHasReader, FirstConnectIsQuiet,
           OnlyReaderConnects, HandlersOfThreads, Pending, Handshaking
  <2> QED BY <2>1, <2>2, <2>3, <2>4
<1>2. CASE EvtDisconnect(t)
  <2>1. Ranges' /\ AttemptsLeft'
    BY <1>2
       DEF EvtDisconnect, HandlerGoesOn, Raise, client, library, timer, call,
           Ranges, Threads, Events, Runs, Labels, AttemptsLeft, NotPending,
           Handshaking
  <2>2. FlagTracksSession' /\ NoSessionLeftBehind' /\ LateDisconnect'
    BY <1>2
       DEF EvtDisconnect, HandlerGoesOn, Raise, client, library, timer, call,
           Ranges, Threads, Events, Runs, Labels, FlagTracksSession,
           NoSessionLeftBehind, LateDisconnect, FirstConnectIsQuiet,
           HandlersOfThreads, Pending, Handshaking
  <2>3. KeepaliveChain' /\ FirstConnectIsClean'
    BY <1>2
       DEF EvtDisconnect, HandlerGoesOn, Raise, client, library, timer, call,
           Ranges, Threads, Events, Runs, Labels, FlagTracksSession,
           NoSessionLeftBehind, KeepaliveChain, FirstConnectIsClean,
           Handshaking, NotPending
  <2>4. /\ SessionHasReader'
       /\ FirstConnectIsQuiet'
       /\ OnlyReaderConnects'
       /\ HandlersOfThreads'
    BY <1>2
       DEF EvtDisconnect, HandlerGoesOn, Raise, client, library, timer, call,
           Ranges, Threads, Events, Runs, Labels, FlagTracksSession,
           NoSessionLeftBehind, SessionHasReader, FirstConnectIsQuiet,
           OnlyReaderConnects, HandlersOfThreads, Pending, Handshaking
  <2> QED BY <2>1, <2>2, <2>3, <2>4
<1>3. CASE clear_fds(t)
  <2>1. Ranges' /\ AttemptsLeft'
    BY <1>3
       DEF clear_fds, HandlerGoesOn, Raise, client, library, timer, call,
           Ranges, Threads, Events, Runs, Labels, AttemptsLeft, NotPending,
           Handshaking
  <2>2. FlagTracksSession' /\ NoSessionLeftBehind' /\ LateDisconnect'
    BY <1>3
       DEF clear_fds, HandlerGoesOn, Raise, client, library, timer, call,
           Ranges, Threads, Events, Runs, Labels, FlagTracksSession,
           NoSessionLeftBehind, LateDisconnect, FirstConnectIsQuiet,
           HandlersOfThreads, Pending, Handshaking
  <2>3. KeepaliveChain' /\ FirstConnectIsClean'
    BY <1>3
       DEF clear_fds, HandlerGoesOn, Raise, client, library, timer, call,
           Ranges, Threads, Events, Runs, Labels, FlagTracksSession,
           NoSessionLeftBehind, KeepaliveChain, FirstConnectIsClean,
           Handshaking, NotPending
  <2>4. /\ SessionHasReader'
       /\ FirstConnectIsQuiet'
       /\ OnlyReaderConnects'
       /\ HandlersOfThreads'
    BY <1>3
       DEF clear_fds, HandlerGoesOn, Raise, client, library, timer, call,
           Ranges, Threads, Events, Runs, Labels, FlagTracksSession,
           NoSessionLeftBehind, SessionHasReader, FirstConnectIsQuiet,
           OnlyReaderConnects, HandlersOfThreads, Pending, Handshaking
  <2> QED BY <2>1, <2>2, <2>3, <2>4
<1>4. CASE EvtPingresp(t)
  <2>1. Ranges' /\ AttemptsLeft'
    BY <1>4, WdtAssumption
       DEF EvtPingresp, HandlerGoesOn, Raise, client, library, timer, call,
           Ranges, Threads, Events, Runs, Labels, AttemptsLeft, NotPending,
           Handshaking
  <2>2. FlagTracksSession' /\ NoSessionLeftBehind' /\ LateDisconnect'
    BY <1>4
       DEF EvtPingresp, HandlerGoesOn, Raise, client, library, timer, call,
           Ranges, Threads, Events, Runs, Labels, FlagTracksSession,
           NoSessionLeftBehind, LateDisconnect, FirstConnectIsQuiet,
           HandlersOfThreads, Pending, Handshaking
  <2>3. KeepaliveChain' /\ FirstConnectIsClean'
    BY <1>4
       DEF EvtPingresp, HandlerGoesOn, Raise, client, library, timer, call,
           Ranges, Threads, Events, Runs, Labels, FlagTracksSession,
           NoSessionLeftBehind, KeepaliveChain, FirstConnectIsClean,
           Handshaking, NotPending
  <2>4. /\ SessionHasReader'
       /\ FirstConnectIsQuiet'
       /\ OnlyReaderConnects'
       /\ HandlersOfThreads'
    BY <1>4
       DEF EvtPingresp, HandlerGoesOn, Raise, client, library, timer, call,
           Ranges, Threads, Events, Runs, Labels, FlagTracksSession,
           NoSessionLeftBehind, SessionHasReader, FirstConnectIsQuiet,
           OnlyReaderConnects, HandlersOfThreads, Pending, Handshaking
  <2> QED BY <2>1, <2>2, <2>3, <2>4
<1>5. CASE AfterRefusal(t)
  <2>1. Ranges' /\ AttemptsLeft'
    BY <1>5, MaxPingsAssumption
       DEF AfterRefusal, client_disconnect, LibraryReset, Raise, client,
           library, timer, call, Ranges, Threads, Events, Runs, Labels,
           AttemptsLeft, NotPending, Handshaking
  <2>2. FlagTracksSession' /\ NoSessionLeftBehind' /\ LateDisconnect'
    BY <1>5
       DEF AfterRefusal, client_disconnect, LibraryReset, Raise, client,
           library, timer, call, Ranges, Threads, Events, Runs, Labels,
           FlagTracksSession, NoSessionLeftBehind, LateDisconnect,
           FirstConnectIsQuiet, HandlersOfThreads, Pending, Handshaking
  <2>3. KeepaliveChain' /\ FirstConnectIsClean'
    BY <1>5
       DEF AfterRefusal, client_disconnect, LibraryReset, Raise, client,
           library, timer, call, Ranges, Threads, Events, Runs, Labels,
           FlagTracksSession, NoSessionLeftBehind, KeepaliveChain,
           FirstConnectIsClean, Handshaking, NotPending
  <2>4. /\ SessionHasReader'
       /\ FirstConnectIsQuiet'
       /\ OnlyReaderConnects'
       /\ HandlersOfThreads'
    BY <1>5
       DEF AfterRefusal, client_disconnect, LibraryReset, Raise, client,
           library, timer, call, Ranges, Threads, Events, Runs, Labels,
           FlagTracksSession, NoSessionLeftBehind, SessionHasReader,
           FirstConnectIsQuiet, OnlyReaderConnects, HandlersOfThreads, Pending,
           Handshaking
  <2> QED BY <2>1, <2>2, <2>3, <2>4
<1> QED
  BY <1>1, <1>2, <1>3, <1>4, <1>5
     DEF mqtt_event_handler

\* The steps of the broker, the clock and the resets.
LEMMA EnvironmentCore ==
  ASSUME Core, Environment PROVE Core'
<1> USE DEF Core
<1>1. CASE BrokerConnack
  <2>1. Ranges' /\ AttemptsLeft'
    BY <1>1
       DEF BrokerConnack, client, library, timer, call, Ranges, Threads,
           Events, Runs, Labels, AttemptsLeft, NotPending, Handshaking
  <2>2. FlagTracksSession' /\ NoSessionLeftBehind' /\ LateDisconnect'
    BY <1>1
       DEF BrokerConnack, client, library, timer, call, Ranges, Threads,
           Events, Runs, Labels, FlagTracksSession, NoSessionLeftBehind,
           LateDisconnect, FirstConnectIsQuiet, HandlersOfThreads, Pending,
           Handshaking
  <2>3. KeepaliveChain' /\ FirstConnectIsClean'
    BY <1>1
       DEF BrokerConnack, client, library, timer, call, Ranges, Threads,
           Events, Runs, Labels, FlagTracksSession, NoSessionLeftBehind,
           KeepaliveChain, FirstConnectIsClean, Handshaking, NotPending
  <2>4. /\ SessionHasReader'
       /\ FirstConnectIsQuiet'
       /\ OnlyReaderConnects'
       /\ HandlersOfThreads'
    BY <1>1
       DEF BrokerConnack, client, library, timer, call, Ranges, Threads,
           Events, Runs, Labels, FlagTracksSession, NoSessionLeftBehind,
           SessionHasReader, FirstConnectIsQuiet, OnlyReaderConnects,
           HandlersOfThreads, Pending, Handshaking
  <2> QED BY <2>1, <2>2, <2>3, <2>4
<1>2. CASE BrokerPingresp
  <2>1. Ranges' /\ AttemptsLeft'
    BY <1>2, MaxPingsAssumption
       DEF BrokerPingresp, client, library, timer, call, Ranges, Threads,
           Events, Runs, Labels, AttemptsLeft, NotPending, Handshaking
  <2>2. FlagTracksSession' /\ NoSessionLeftBehind' /\ LateDisconnect'
    BY <1>2
       DEF BrokerPingresp, client, library, timer, call, Ranges, Threads,
           Events, Runs, Labels, FlagTracksSession, NoSessionLeftBehind,
           LateDisconnect, FirstConnectIsQuiet, HandlersOfThreads, Pending,
           Handshaking
  <2>3. KeepaliveChain' /\ FirstConnectIsClean'
    BY <1>2
       DEF BrokerPingresp, client, library, timer, call, Ranges, Threads,
           Events, Runs, Labels, FlagTracksSession, NoSessionLeftBehind,
           KeepaliveChain, FirstConnectIsClean, Handshaking, NotPending
  <2>4. /\ SessionHasReader'
       /\ FirstConnectIsQuiet'
       /\ OnlyReaderConnects'
       /\ HandlersOfThreads'
    BY <1>2
       DEF BrokerPingresp, client, library, timer, call, Ranges, Threads,
           Events, Runs, Labels, FlagTracksSession, NoSessionLeftBehind,
           SessionHasReader, FirstConnectIsQuiet, OnlyReaderConnects,
           HandlersOfThreads, Pending, Handshaking
  <2> QED BY <2>1, <2>2, <2>3, <2>4
<1>3. CASE HangUp
  <2>1. Ranges' /\ AttemptsLeft'
    BY <1>3
       DEF HangUp, client, library, timer, call, Ranges, Threads, Events, Runs,
           Labels, AttemptsLeft, NotPending, Handshaking
  <2>2. FlagTracksSession' /\ NoSessionLeftBehind' /\ LateDisconnect'
    BY <1>3
       DEF HangUp, client, library, timer, call, Ranges, Threads, Events, Runs,
           Labels, FlagTracksSession, NoSessionLeftBehind, LateDisconnect,
           FirstConnectIsQuiet, HandlersOfThreads, Pending, Handshaking
  <2>3. KeepaliveChain' /\ FirstConnectIsClean'
    BY <1>3
       DEF HangUp, client, library, timer, call, Ranges, Threads, Events, Runs,
           Labels, FlagTracksSession, NoSessionLeftBehind, KeepaliveChain,
           FirstConnectIsClean, Handshaking, NotPending
  <2>4. /\ SessionHasReader'
       /\ FirstConnectIsQuiet'
       /\ OnlyReaderConnects'
       /\ HandlersOfThreads'
    BY <1>3
       DEF HangUp, client, library, timer, call, Ranges, Threads, Events, Runs,
           Labels, FlagTracksSession, NoSessionLeftBehind, SessionHasReader,
           FirstConnectIsQuiet, OnlyReaderConnects, HandlersOfThreads, Pending,
           Handshaking
  <2> QED BY <2>1, <2>2, <2>3, <2>4
<1>4. CASE Tick
  <2>1. Ranges' /\ AttemptsLeft'
    BY <1>4, WdtAssumption, KeepAliveAssumption
       DEF Tick, client, library, timer, call, Ranges, Threads, Events, Runs,
           Labels, AttemptsLeft, NotPending, Handshaking
  <2>2. FlagTracksSession' /\ NoSessionLeftBehind' /\ LateDisconnect'
    BY <1>4
       DEF Tick, client, library, timer, call, Ranges, Threads, Events, Runs,
           Labels, FlagTracksSession, NoSessionLeftBehind, LateDisconnect,
           FirstConnectIsQuiet, HandlersOfThreads, Pending, Handshaking
  <2>3. KeepaliveChain' /\ FirstConnectIsClean'
    BY <1>4, KeepAliveAssumption
       DEF Tick, client, library, timer, call, Ranges, Threads, Events, Runs,
           Labels, FlagTracksSession, NoSessionLeftBehind, KeepaliveChain,
           FirstConnectIsClean, Handshaking, NotPending
  <2>4. /\ SessionHasReader'
       /\ FirstConnectIsQuiet'
       /\ OnlyReaderConnects'
       /\ HandlersOfThreads'
    BY <1>4
       DEF Tick, client, library, timer, call, Ranges, Threads, Events, Runs,
           Labels, FlagTracksSession, NoSessionLeftBehind, SessionHasReader,
           FirstConnectIsQuiet, OnlyReaderConnects, HandlersOfThreads, Pending,
           Handshaking
  <2> QED BY <2>1, <2>2, <2>3, <2>4
<1>5. CASE DamagedTimeout
  <2>1. Ranges' /\ AttemptsLeft'
    BY <1>5, KeepAliveAssumption
       DEF DamagedTimeout, client, library, timer, call, Ranges, Threads,
           Events, Runs, Labels, AttemptsLeft, NotPending, Handshaking
  <2>2. FlagTracksSession' /\ NoSessionLeftBehind' /\ LateDisconnect'
    BY <1>5
       DEF DamagedTimeout, client, library, timer, call, Ranges, Threads,
           Events, Runs, Labels, FlagTracksSession, NoSessionLeftBehind,
           LateDisconnect, FirstConnectIsQuiet, HandlersOfThreads, Pending,
           Handshaking
  <2>3. KeepaliveChain' /\ FirstConnectIsClean'
    BY <1>5, KeepAliveAssumption
       DEF DamagedTimeout, client, library, timer, call, Ranges, Threads,
           Events, Runs, Labels, FlagTracksSession, NoSessionLeftBehind,
           KeepaliveChain, FirstConnectIsClean, Handshaking, NotPending
  <2>4. /\ SessionHasReader'
       /\ FirstConnectIsQuiet'
       /\ OnlyReaderConnects'
       /\ HandlersOfThreads'
    BY <1>5
       DEF DamagedTimeout, client, library, timer, call, Ranges, Threads,
           Events, Runs, Labels, FlagTracksSession, NoSessionLeftBehind,
           SessionHasReader, FirstConnectIsQuiet, OnlyReaderConnects,
           HandlersOfThreads, Pending, Handshaking
  <2> QED BY <2>1, <2>2, <2>3, <2>4
<1>6. CASE Restart
  <2>1. Ranges' /\ AttemptsLeft'
    BY <1>6, KeepAliveAssumption, MaxPingsAssumption, WdtAssumption, RetriesAssumption
       DEF Restart, LibraryReset, client, library, timer, call, Ranges,
           Threads, Events, Runs, Labels, AttemptsLeft, NotPending, Handshaking
  <2>2. FlagTracksSession' /\ NoSessionLeftBehind' /\ LateDisconnect'
    BY <1>6
       DEF Restart, LibraryReset, client, library, timer, call, Ranges,
           Threads, Events, Runs, Labels, FlagTracksSession,
           NoSessionLeftBehind, LateDisconnect, FirstConnectIsQuiet,
           HandlersOfThreads, Pending, Handshaking
  <2>3. KeepaliveChain' /\ FirstConnectIsClean'
    BY <1>6, KeepAliveAssumption
       DEF Restart, LibraryReset, client, library, timer, call, Ranges,
           Threads, Events, Runs, Labels, FlagTracksSession,
           NoSessionLeftBehind, KeepaliveChain, FirstConnectIsClean,
           Handshaking, NotPending
  <2>4. /\ SessionHasReader'
       /\ FirstConnectIsQuiet'
       /\ OnlyReaderConnects'
       /\ HandlersOfThreads'
    BY <1>6
       DEF Restart, LibraryReset, client, library, timer, call, Ranges,
           Threads, Events, Runs, Labels, FlagTracksSession,
           NoSessionLeftBehind, SessionHasReader, FirstConnectIsQuiet,
           OnlyReaderConnects, HandlersOfThreads, Pending, Handshaking
  <2> QED BY <2>1, <2>2, <2>3, <2>4
<1> QED
  BY <1>1, <1>2, <1>3, <1>4, <1>5, <1>6
     DEF Environment, WatchdogReset, OtherReset

-----------------------------------------------------------------------------
(* Invariance, and what follows from it. *)

\* A stuttering step preserves the invariant.
LEMMA StutterInv == ASSUME Inv, UNCHANGED vars PROVE Inv'
<1> USE DEF vars, client, library, timer, call
<1>1. Booleans'
  BY DEF Inv, Booleans
<1>2. Ranges' /\ AttemptsLeft'
  BY DEF Inv, Core, Ranges, AttemptsLeft, Handshaking
<1>3. FlagTracksSession' /\ NoSessionLeftBehind' /\ LateDisconnect'
  BY DEF Inv, Core, FlagTracksSession, NoSessionLeftBehind, LateDisconnect,
         Handshaking, Pending
<1>4. KeepaliveChain' /\ FirstConnectIsClean' /\ FirstConnectIsQuiet'
  BY DEF Inv, Core, KeepaliveChain, FirstConnectIsClean, FirstConnectIsQuiet,
         Handshaking
<1>5. SessionHasReader' /\ OnlyReaderConnects' /\ HandlersOfThreads'
  BY DEF Inv, Core, SessionHasReader, OnlyReaderConnects, HandlersOfThreads,
         Handshaking
<1> QED BY <1>1, <1>2, <1>3, <1>4, <1>5 DEF Inv, Core

\* Every step preserves the invariant.
LEMMA NextInv == Inv /\ [Next]_vars => Inv'
<1> SUFFICES ASSUME Inv, [Next]_vars PROVE Inv'
  OBVIOUS
<1>1. CASE Main
  BY <1>1, MainBooleans, MainCore DEF Inv
<1>2. CASE PollWakes \/ PollInput
  BY <1>2, ReaderBooleans, ReaderCore DEF Inv
<1>3. CASE keepalive
  BY <1>3, KeepaliveBooleans, KeepaliveCore DEF Inv
<1>4. CASE Handler
  BY <1>4, HandlerBooleans, HandlerCore DEF Inv, Handler
<1>5. CASE Environment
  BY <1>5, EnvironmentBooleans, EnvironmentCore DEF Inv
<1>6. CASE UNCHANGED vars
  BY <1>6, StutterInv
<1> QED BY <1>1, <1>2, <1>3, <1>4, <1>5, <1>6 DEF Next

\* The inductive invariant holds in every state of every behavior.
THEOREM Invariance == Spec => []Inv
BY InitInv, NextInv, PTL DEF Spec

\* Every variable of the client keeps its type, and every loop and every
\* counter its bounds.
THEOREM TypeCorrect == Spec => []TypeOK
<1>1. Inv => TypeOK
  BY Types DEF Inv, Core
<1> QED BY <1>1, Invariance, PTL

\* Whatever the interleaving of main, poll_thread, the work queue and their
\* event handlers, no live session is disowned: it is flagged, or the handler
\* that flags it is still to run.
THEOREM FlagIsCorrect == Spec => []FlagTracksSession
<1>1. Inv => FlagTracksSession
  BY DEF Inv, Core
<1> QED BY <1>1, Invariance, PTL

\* client_init never wipes a session, and try_to_connect leaves a transport half
\* open only when a flag set late told it that the broker had accepted.
THEOREM SessionsAreClosed == Spec => []NoSessionLeftBehind
<1>1. Inv => NoSessionLeftBehind
  BY DEF Inv, Core
<1> QED BY <1>1, Invariance, PTL

\* A live session that main opened has its next ping scheduled.
THEOREM KeepaliveIsArmed == Spec => []KeepaliveChain
<1>1. Inv => KeepaliveChain
  BY DEF Inv, Core
<1> QED BY <1>1, Invariance, PTL

\* A session in use has had poll_thread started, and the first one has a socket
\* to poll.
THEOREM ReaderIsStarted == Spec => []SessionHasReader
<1>1. Inv => SessionHasReader
  BY DEF Inv, Core
<1> QED BY <1>1, Invariance, PTL

\* Only a connection after the first can damage the kernel's timeouts.
THEOREM FirstConnectIsSafe == Spec => []FirstConnectIsClean
<1>1. Inv => FirstConnectIsClean
  BY DEF Inv, Core
<1> QED BY <1>1, Invariance, PTL

-----------------------------------------------------------------------------
(* The action property. *)

\* A handler runs to its end without any thread coming by a PINGRESP.
LEMMA HandlerStarves ==
  ASSUME Inv, NEW t \in Threads, mqtt_event_handler(t), ~Pending("pingresp")
  PROVE  wdt_age' = wdt_age /\ ~Pending("pingresp")'
<1> USE DEF Pending, Threads, Raise, HandlerGoesOn, Inv, Core, Ranges
<1>1. ~EvtPingresp(t)
  BY DEF EvtPingresp
<1>2. CASE EvtConnack(t)
  BY <1>2 DEF EvtConnack
<1>3. CASE EvtDisconnect(t)
  BY <1>3 DEF EvtDisconnect
<1>4. CASE clear_fds(t)
  BY <1>4 DEF clear_fds
<1>5. CASE AfterRefusal(t)
  BY <1>5 DEF AfterRefusal, client_disconnect
<1> QED BY <1>1, <1>2, <1>3, <1>4, <1>5 DEF mqtt_event_handler

\* Main and the work queue come by none either, once poll_thread is dead.
LEMMA DeadStarves ==
  ASSUME Inv, Main \/ keepalive, poll_thread = "dead", ~Pending("pingresp")
  PROVE  wdt_age' = wdt_age /\ ~Pending("pingresp")'
<1> USE DEF Pending, Threads, Raise, Inv, Core, Ranges
<1>1. CASE Main
  <2>1. wdt_age' = wdt_age
    BY <1>1 DEF Main, mqtt_publish_to_topic, get_mqtt_broker_addrinfo,
       client_init, TransportUp, TransportFails, WaitReturns, WaitFails,
       MainInput, ConnectSucceeds, AttemptFails, mqtt_publish
  <2>2. CASE MainInput
    <3>1. session # "connected"
      BY <2>2 DEF MainInput, OnlyReaderConnects
    <3> QED BY <2>1, <2>2, <3>1 DEF MainInput, InputReads, InputFails,
                                    client_disconnect, library
  <2>3. CASE WaitFails \/ AttemptFails
    BY <2>1, <2>3 DEF WaitFails, AttemptFails, mqtt_abort, client_disconnect,
                      library
  <2>4. CASE mqtt_publish
    BY <2>1, <2>4 DEF mqtt_publish, WriteDone, WriteRefused, WriteBreaks,
                      client_disconnect, library
  <2>5. CASE ~(MainInput \/ WaitFails \/ AttemptFails \/ mqtt_publish)
    BY <1>1, <2>1, <2>5
       DEF Main, mqtt_publish_to_topic, get_mqtt_broker_addrinfo, client_init,
           TransportUp, TransportFails, WaitReturns, ConnectSucceeds, library
  <2> QED BY <2>2, <2>3, <2>4, <2>5
<1>2. CASE keepalive
  BY <1>2 DEF keepalive, KeepalivePings, KeepaliveDisconnected, WriteDone,
              WriteRefused, WriteBreaks, client_disconnect, library
<1> QED BY <1>1, <1>2

\* While poll_thread is dead no thread comes by a PINGRESP, and wdt_age never
\* goes back.
THEOREM DeadReaderStarves == Spec => DeadReaderNeverFeeds
<1> DEFINE A == poll_thread = "dead" /\ poll_thread' = "dead"
                    /\ ~Pending("pingresp")
                  => wdt_age' >= wdt_age /\ ~Pending("pingresp")'
<1>1. Inv /\ [Next]_vars => [A]_vars
  <2> SUFFICES ASSUME Inv, Next, poll_thread = "dead", poll_thread' = "dead",
                      ~Pending("pingresp")
               PROVE  wdt_age' >= wdt_age /\ ~Pending("pingresp")'
    BY DEF vars
  <2>1. wdt_age \in Nat
    BY WdtAssumption DEF Inv, Core, Ranges
  <2>2. CASE Main \/ keepalive
    BY <2>1, <2>2, DeadStarves
  <2>3. CASE Handler
    BY <2>1, <2>3, HandlerStarves DEF Handler
  <2>4. CASE Environment
    BY <2>1, <2>4
       DEF Environment, BrokerConnack, BrokerPingresp, HangUp, Tick,
           DamagedTimeout, WatchdogReset, OtherReset, Restart, library, Pending
  <2>5. ~PollWakes /\ ~PollInput
    BY DEF PollWakes, PollInput
  <2> QED BY <2>2, <2>3, <2>4, <2>5 DEF Next
<1> QED BY <1>1, Invariance, PTL DEF Spec, DeadReaderNeverFeeds

-----------------------------------------------------------------------------
(* What CallReturns and ReaderDeathEndsInReset rest on besides fairness: two *)
(* numbers that can only go down.                                            *)

\* How many steps main has left in a call, at most, its handlers aside: five for
\* each attempt to connect, one for each attempt to resolve the broker, and the
\* publish.
CallSteps ==
  CASE pc = "idle" -> 0
    [] pc = "mqtt_publish" -> 1
    [] pc = "if_connected" -> 5 * retries - 3
    [] pc = "mqtt_input" -> 5 * retries - 2
    [] pc = "wait" -> 5 * retries - 1
    [] pc = "mqtt_connect" -> 5 * retries
    [] pc = "client_init" -> 5 * retries + 1
    [] pc = "getaddrinfo" -> 5 * ConnectRetries + 1 + retries

\* How many steps the handler has left that main is in: a refusal may turn into
\* a DISCONNECT, whose handler has two.
HandlerSteps ==
  CASE event["main"] = "none" -> 0
    [] event["main"] \in {"connack", "pingresp", "clear_fds"} -> 1
    [] event["main"] = "disconnect" -> 2
    [] event["main"] = "refused" -> 3

\* Every step of the call may end in a handler.
StepsLeft == 4 * CallSteps + HandlerSteps

MostSteps == 4 * (5 * ConnectRetries + 1 + DnsRetries) + 3

\* A call in progress has a step left, and never more than MostSteps.
StepsAreBounded ==
  /\ StepsLeft \in 0 .. MostSteps
  /\ StepsLeft = 0 <=> ~Busy

\* Every step of main, in its own code or in the handler, brings its call nearer
\* to the end, and nothing that the other threads, the broker or the kernel do
\* takes it back.
CallsGoOn == [][Busy =>
  /\ StepsLeft' <= StepsLeft
  /\ Main \/ mqtt_event_handler("main") => StepsLeft' < StepsLeft]_vars

\* What the two counts can be.
LEMMA CountFacts ==
  ASSUME Inv
  PROVE  /\ CallSteps \in 0 .. 5 * ConnectRetries + 1 + DnsRetries
         /\ CallSteps = 0 <=> pc = "idle"
         /\ HandlerSteps \in 0 .. 3
         /\ HandlerSteps = 0 <=> event["main"] = "none"
<1>1. /\ DnsRetries \in Nat \ {0} /\ ConnectRetries \in Nat \ {0}
      /\ pc \in Labels
      /\ pc = "getaddrinfo" => retries \in 1 .. DnsRetries
      /\ pc \in {"client_init", "mqtt_connect", "wait", "mqtt_input",
                 "if_connected"} => retries \in 1 .. ConnectRetries
  BY RetriesAssumption DEF Inv, Core, Ranges, AttemptsLeft, Handshaking
<1>2. event["main"] \in Events
  BY DEF Inv, Core, Ranges, Threads
<1>3. CallSteps \in 0 .. 5 * ConnectRetries + 1 + DnsRetries
  BY <1>1 DEF Labels, CallSteps
<1>4. CallSteps = 0 <=> pc = "idle"
  BY <1>1 DEF Labels, CallSteps
<1>5. HandlerSteps \in 0 .. 3 /\ (HandlerSteps = 0 <=> event["main"] = "none")
  BY <1>2 DEF Events, HandlerSteps
<1> QED BY <1>3, <1>4, <1>5

\* The bound follows from the attempts that are left.
LEMMA StepsFacts == ASSUME Inv PROVE StepsAreBounded
<1>1. /\ CallSteps \in 0 .. 5 * ConnectRetries + 1 + DnsRetries
      /\ CallSteps = 0 <=> pc = "idle"
      /\ HandlerSteps \in 0 .. 3
      /\ HandlerSteps = 0 <=> event["main"] = "none"
  BY CountFacts
<1>2. DnsRetries \in Nat /\ ConnectRetries \in Nat
  BY RetriesAssumption
<1>3. StepsLeft \in 0 .. MostSteps
  BY <1>1, <1>2 DEF StepsLeft, MostSteps
<1>4. StepsLeft = 0 <=> CallSteps = 0 /\ HandlerSteps = 0
  BY <1>1, <1>2 DEF StepsLeft
<1> QED BY <1>1, <1>3, <1>4 DEF StepsAreBounded, Busy, Runs

\* A step of main leaves fewer steps of the call, also when it begins another
\* attempt.
LEMMA MainGoesOn ==
  ASSUME Inv, Inv', Main, Busy
  PROVE  CallSteps' < CallSteps
<1>1. /\ DnsRetries \in Nat \ {0} /\ ConnectRetries \in Nat \ {0}
      /\ pc \in Labels
      /\ pc = "getaddrinfo" => retries \in 1 .. DnsRetries
      /\ pc \in {"client_init", "mqtt_connect", "wait", "mqtt_input",
                 "if_connected"} => retries \in 1 .. ConnectRetries
  BY RetriesAssumption DEF Inv, Core, Ranges, AttemptsLeft, Handshaking
<1> USE DEF GoTo, Return, call
<1>2. CASE get_mqtt_broker_addrinfo \/ TransportFails \/ AttemptFails
  BY <1>1, <1>2 DEF get_mqtt_broker_addrinfo, TransportFails, AttemptFails,
                    RetryAt, CallSteps
<1>3. CASE client_init \/ TransportUp \/ WaitReturns \/ MainInput
             \/ ConnectSucceeds
  BY <1>1, <1>3 DEF client_init, TransportUp, WaitReturns, MainInput,
                    ConnectSucceeds, CallSteps
<1>4. CASE WaitFails \/ mqtt_publish
  <2>1. pc \in {"wait", "mqtt_publish"} /\ pc' = "idle"
    BY <1>4, Zenon DEF WaitFails, mqtt_publish
  <2> QED BY <1>1, <2>1 DEF CallSteps
<1>5. ~mqtt_publish_to_topic
  BY DEF mqtt_publish_to_topic, Main, Busy
<1> QED BY <1>2, <1>3, <1>4, <1>5 DEF Main

\* A step of main's handler leaves fewer steps of the handler.
LEMMA HandlerEnds ==
  ASSUME Inv, mqtt_event_handler("main")
  PROVE  CallSteps' = CallSteps /\ HandlerSteps' < HandlerSteps
<1>1. UNCHANGED call
  BY DEF mqtt_event_handler, EvtConnack, EvtDisconnect, clear_fds, EvtPingresp,
         AfterRefusal, HandlerGoesOn
<1>2. CallSteps' = CallSteps
  BY <1>1 DEF call, CallSteps
<1>3. event \in [Threads -> Events] /\ "main" \in Threads
  BY DEF Inv, Core, Ranges, Threads
<1>4. \/ event["main"] \in {"connack", "pingresp", "clear_fds"}
           /\ event'["main"] = "none"
      \/ event["main"] = "disconnect" /\ event'["main"] = "clear_fds"
      \/ event["main"] = "refused" /\ event'["main"] \in {"none", "disconnect"}
  BY <1>3 DEF mqtt_event_handler, EvtConnack, EvtDisconnect, clear_fds,
              EvtPingresp, AfterRefusal, HandlerGoesOn, client_disconnect, Raise
<1>5. HandlerSteps' < HandlerSteps
  BY <1>4 DEF HandlerSteps
<1> QED BY <1>2, <1>5

\* Any other step leaves main's call where it is, a reset ends it.
LEMMA OthersLetGoOn ==
  ASSUME Inv, [Next]_vars, ~Main, ~mqtt_event_handler("main"), ~Restart
  PROVE  UNCHANGED <<pc, retries, event["main"]>>
<1> USE DEF call, library, Raise, client_disconnect
<1>1. event \in [Threads -> Events]
  BY DEF Inv, Core, Ranges
<1>2. CASE PollWakes \/ PollInput
  BY <1>1, <1>2 DEF PollWakes, PollInput, InputReads, InputFails, Threads
<1>3. CASE keepalive
  BY <1>1, <1>3 DEF keepalive, KeepalivePings, KeepaliveDisconnected,
                    WriteDone, WriteRefused, WriteBreaks, Threads
<1>4. CASE Handler
  <2>1. PICK t \in Threads : mqtt_event_handler(t)
    BY <1>4 DEF Handler
  <2>2. t # "main"
    BY <2>1
  <2>3. event' = [event EXCEPT ![t] = event'[t]] /\ UNCHANGED call
    BY <1>1, <2>1 DEF mqtt_event_handler, EvtConnack, EvtDisconnect, clear_fds,
                      EvtPingresp, AfterRefusal, HandlerGoesOn
  <2> QED BY <1>1, <2>2, <2>3 DEF Threads
<1>5. CASE Environment
  BY <1>5 DEF Environment, BrokerConnack, BrokerPingresp, HangUp, Tick,
              DamagedTimeout, WatchdogReset, OtherReset
<1>6. CASE UNCHANGED vars
  BY <1>6 DEF vars
<1> QED BY <1>2, <1>3, <1>4, <1>5, <1>6 DEF Next

\* A publish call has a bounded number of steps, whatever the interleaving: a
\* call in progress always has one left.
THEOREM CallsAreBounded == Spec => []StepsAreBounded
<1>1. Inv => StepsAreBounded
  BY StepsFacts
<1> QED BY <1>1, Invariance, PTL

\* Fewer steps of the call outweigh any handler.
LEMMA Outweighed ==
  ASSUME NEW m \in Nat, NEW n \in Nat, NEW h \in 0 .. 3, NEW i \in 0 .. 3,
         n < m \/ (n = m /\ i < h)
  PROVE  4 * n + i < 4 * m + h
OBVIOUS

\* Every step of main in a call uses one of them up, and none is ever given back:
\* no call goes round in its retries or handlers for ever.
THEOREM EveryStepCounts == Spec => CallsGoOn
<1> DEFINE A == Busy =>
                  /\ StepsLeft' <= StepsLeft
                  /\ Main \/ mqtt_event_handler("main")
                       => StepsLeft' < StepsLeft
           Counts == /\ CallSteps \in Nat
                     /\ HandlerSteps \in 0 .. 3
<1>1. Inv => Counts
  <2> SUFFICES ASSUME Inv PROVE Counts
    OBVIOUS
  <2>1. 5 * ConnectRetries + 1 + DnsRetries \in Nat
    BY RetriesAssumption
  <2> QED BY <2>1, CountFacts
<1>2. Inv /\ Inv' /\ Counts /\ Counts' /\ [Next]_vars => [A]_vars
  <2> SUFFICES ASSUME Inv, Inv', Counts, Counts', [Next]_vars, Busy
               PROVE  /\ StepsLeft' <= StepsLeft
                      /\ Main \/ mqtt_event_handler("main")
                           => StepsLeft' < StepsLeft
    OBVIOUS
  <2>1. CASE Main
    <3>1. CallSteps' < CallSteps
      BY <2>1, MainGoesOn
    <3>2. StepsLeft' < StepsLeft
      BY <3>1, Outweighed DEF StepsLeft
    <3>3. StepsLeft \in Int /\ StepsLeft' \in Int
      BY DEF StepsLeft
    <3> QED BY <3>2, <3>3
  <2>2. CASE mqtt_event_handler("main")
    <3>1. CallSteps' = CallSteps /\ HandlerSteps' < HandlerSteps
      BY <2>2, HandlerEnds
    <3>2. StepsLeft' < StepsLeft
      BY <3>1, Outweighed DEF StepsLeft
    <3>3. StepsLeft \in Int /\ StepsLeft' \in Int
      BY DEF StepsLeft
    <3> QED BY <3>2, <3>3
  <2>3. CASE Restart
    <3>1. CallSteps' = 0 /\ HandlerSteps' = 0
      BY <2>3 DEF Restart, CallSteps, HandlerSteps, Threads
    <3>2. StepsLeft' <= StepsLeft
      BY <3>1 DEF StepsLeft
    <3>3. StepsLeft' < StepsLeft
      <4>1. StepsLeft # 0 /\ StepsLeft \in Nat
        BY StepsFacts, RetriesAssumption DEF StepsAreBounded, MostSteps
      <4> QED BY <3>1, <4>1 DEF StepsLeft
    <3> QED BY <3>2, <3>3
  <2>4. CASE ~Main /\ ~mqtt_event_handler("main") /\ ~Restart
    <3>1. UNCHANGED <<pc, retries, event["main"]>>
      BY <2>4, OthersLetGoOn
    <3>2. CallSteps' = CallSteps /\ HandlerSteps' = HandlerSteps
      BY <3>1 DEF CallSteps, HandlerSteps
    <3>3. StepsLeft' = StepsLeft /\ StepsLeft \in Int
      BY <3>2 DEF StepsLeft
    <3> QED BY <2>4, <3>3
  <2> QED BY <2>1, <2>2, <2>3, <2>4
<1> QED BY <1>1, <1>2, Invariance, PTL DEF Spec, CallsGoOn

\* The older the channel, the less time it leaves.
LEMMA OlderIsLess ==
  ASSUME NEW window \in Nat, NEW age \in Nat, NEW later \in Nat
  PROVE  /\ later >= age => window - later <= window - age
         /\ later = age + 1 => window - later < window - age
OBVIOUS

\* Nothing but a reset starts a dead poll_thread again, and until then, once the
\* last PINGRESP is handled, every tick takes one from the time that the watchdog
\* leaves.
DeadUntilReset == [][poll_thread = "dead" /\ ~Pending("pingresp") =>
  \/ Restart
  \/ /\ poll_thread' = "dead"
     /\ ~Pending("pingresp")'
     /\ WdtTimeout - wdt_age' <= WdtTimeout - wdt_age
     /\ Tick => WdtTimeout - wdt_age' < WdtTimeout - wdt_age]_vars

\* A station whose poll_thread has returned has WdtTimeout ticks to live, even if
\* it reconnects: the time its watchdog leaves only runs out.
THEOREM DeadReaderRunsOut == Spec => DeadUntilReset
<1> DEFINE Starve == poll_thread = "dead" /\ poll_thread' = "dead"
                         /\ ~Pending("pingresp")
                       => wdt_age' >= wdt_age /\ ~Pending("pingresp")'
           A == poll_thread = "dead" /\ ~Pending("pingresp") =>
                  \/ Restart
                  \/ /\ poll_thread' = "dead"
                     /\ ~Pending("pingresp")'
                     /\ WdtTimeout - wdt_age' <= WdtTimeout - wdt_age
                     /\ Tick => WdtTimeout - wdt_age' < WdtTimeout - wdt_age
<1>1. Inv /\ Inv' /\ [Next]_vars /\ [Starve]_vars => [A]_vars
  <2> SUFFICES ASSUME Inv, Inv', Next, Starve, poll_thread = "dead",
                      ~Pending("pingresp"), ~Restart
               PROVE  /\ poll_thread' = "dead"
                      /\ ~Pending("pingresp")'
                      /\ WdtTimeout - wdt_age' <= WdtTimeout - wdt_age
                      /\ Tick => WdtTimeout - wdt_age' < WdtTimeout - wdt_age
    OBVIOUS
  <2>1. wdt_age \in Nat /\ wdt_age' \in Nat /\ WdtTimeout \in Nat
    BY WdtAssumption DEF Inv, Core, Ranges
  <2>2. poll_thread' = "dead"
    BY DEF Next, Main, mqtt_publish_to_topic, get_mqtt_broker_addrinfo,
           client_init, TransportUp, TransportFails, WaitReturns, WaitFails,
           MainInput, ConnectSucceeds, AttemptFails, mqtt_publish,
           StartPollThread, PollWakes, PollInput, keepalive, KeepalivePings,
           KeepaliveDisconnected, Handler, mqtt_event_handler, EvtConnack,
           EvtDisconnect, clear_fds, EvtPingresp, AfterRefusal, HandlerGoesOn,
           Environment, BrokerConnack, BrokerPingresp, HangUp, Tick,
           DamagedTimeout, WatchdogReset, OtherReset
  <2>3. wdt_age' >= wdt_age /\ ~Pending("pingresp")'
    BY <2>2
  <2>4. WdtTimeout - wdt_age' <= WdtTimeout - wdt_age
    BY <2>1, <2>3, OlderIsLess
  <2>5. ASSUME Tick
        PROVE  WdtTimeout - wdt_age' < WdtTimeout - wdt_age
    <3>1. wdt_age' = wdt_age + 1
      BY <2>5 DEF Tick
    <3> QED BY <2>1, <3>1, OlderIsLess
  <2> QED BY <2>2, <2>3, <2>4, <2>5
<1> QED BY <1>1, Invariance, DeadReaderStarves, PTL
        DEF Spec, DeadUntilReset, DeadReaderNeverFeeds

-----------------------------------------------------------------------------
(* Refinement: every step of the client is a step of MqttLink or none. *)

\* The client starts as the abstract link does.
LEMMA LinkInit == Init => Link!Init
BY DEF Init, Busy, Runs, Threads, Link!Init

\* The steps of main: a call, its return unless a handler is still to run, a
\* transport opened, a session up or down, or nothing the caller can see.
LEMMA LinkMain == ASSUME Inv, Main PROVE [Link!Next]_Link!vars
<1> USE DEF Inv, Core, Ranges, Threads, Busy, Runs, Link!vars, client, library,
            call, GoTo, Return, Raise, client_disconnect, LibraryReset
<1>0. event["main"] = "none"
  BY DEF Main
<1>1. CASE mqtt_publish_to_topic
  BY <1>0, <1>1 DEF mqtt_publish_to_topic, Link!Next, Link!Call
<1>2. CASE get_mqtt_broker_addrinfo \/ TransportFails
  BY <1>0, <1>2 DEF get_mqtt_broker_addrinfo, TransportFails, RetryAt,
                    NoSessionLeftBehind, Link!Next, Link!ReturnError
<1>3. CASE client_init
  BY <1>0, <1>3 DEF client_init, NoSessionLeftBehind
<1>4. CASE TransportUp
  BY <1>0, <1>4 DEF TransportUp, NoSessionLeftBehind, Link!Next, Link!Open
<1>5. CASE WaitReturns \/ ConnectSucceeds
  BY <1>0, <1>5 DEF WaitReturns, ConnectSucceeds
<1>6. CASE WaitFails
  BY <1>0, <1>6 DEF WaitFails, mqtt_abort, Link!Next, Link!Down,
                    Link!ReturnError
<1>7. CASE MainInput
  BY <1>0, <1>7 DEF MainInput, InputReads, InputFails, Link!Next, Link!Up,
                    Link!Down
<1>8. CASE AttemptFails
  BY <1>0, <1>8 DEF AttemptFails, RetryAt, mqtt_abort, Link!Next, Link!Down,
                    Link!ReturnError
<1>9. CASE mqtt_publish
  BY <1>0, <1>9 DEF mqtt_publish, WriteDone, WriteRefused, WriteBreaks,
                    Link!Next, Link!Down, Link!ReturnOk, Link!ReturnError
<1> QED BY <1>1, <1>2, <1>3, <1>4, <1>5, <1>6, <1>7, <1>8, <1>9 DEF Main

\* poll_thread may bring the link up or find it down, in a call or not.
LEMMA LinkReader ==
  ASSUME Inv, PollWakes \/ PollInput PROVE [Link!Next]_Link!vars
<1> USE DEF Inv, Core, Ranges, Threads, Busy, Runs, Link!vars, library, call,
            Raise, client_disconnect, LibraryReset
<1>1. CASE PollWakes
  BY <1>1 DEF PollWakes
<1>2. CASE PollInput
  BY <1>2 DEF PollInput, InputReads, InputFails, Link!Next, Link!Up, Link!Down
<1> QED BY <1>1, <1>2

\* The keepalive work can only find the link down.
LEMMA LinkKeepalive == ASSUME Inv, keepalive PROVE [Link!Next]_Link!vars
BY DEF Inv, Core, Ranges, Threads, Busy, Runs, Link!vars, library, call,
       keepalive, KeepalivePings, KeepaliveDisconnected, WriteDone,
       WriteRefused, WriteBreaks, Raise, client_disconnect, LibraryReset,
       Link!Next, Link!Down

\* The handlers of the other threads are invisible, but for a session that a
\* refusal takes down; main's last one may be the return of its call.
LEMMA LinkHandler ==
  ASSUME Inv, NEW t \in Threads, mqtt_event_handler(t)
  PROVE  [Link!Next]_Link!vars
<1> USE DEF Inv, Core, Ranges, Threads, Busy, Runs, Link!vars, call,
            HandlersOfThreads, HandlerGoesOn, Raise
<1>1. CASE EvtConnack(t) \/ EvtPingresp(t)
  BY <1>1 DEF EvtConnack, EvtPingresp
<1>2. CASE EvtDisconnect(t)
  BY <1>2 DEF EvtDisconnect
<1>3. CASE clear_fds(t)
  BY <1>3 DEF clear_fds, Link!Next, Link!ReturnError
<1>4. CASE AfterRefusal(t)
  BY <1>4 DEF AfterRefusal, client_disconnect, LibraryReset, Link!Next,
              Link!Down
<1> QED BY <1>1, <1>2, <1>3, <1>4 DEF mqtt_event_handler

\* The broker, the clock and the timers are invisible; a reset is a Reboot.
LEMMA LinkEnvironment ==
  ASSUME Environment PROVE [Link!Next]_Link!vars
<1> USE DEF Busy, Runs
<1>1. CASE Restart
  BY <1>1 DEF Restart, LibraryReset, Threads, Link!Next, Link!Reboot
<1>2. CASE ~Restart
  BY <1>2 DEF Environment, BrokerConnack, BrokerPingresp, HangUp, Tick,
              DamagedTimeout, WatchdogReset, OtherReset, client, library, call,
              Link!vars
<1> QED BY <1>1, <1>2

\* mqtt.c keeps the promise MqttLink states, with its handlers running late.
THEOREM Refinement == Spec => ImplementsLink
<1>1. Inv /\ [Next]_vars => [Link!Next]_Link!vars
  <2> SUFFICES ASSUME Inv, [Next]_vars PROVE [Link!Next]_Link!vars
    OBVIOUS
  <2>1. CASE UNCHANGED vars
    BY <2>1 DEF vars, client, library, call, Busy, Runs, Link!vars
  <2>2. CASE Handler
    BY <2>2, LinkHandler DEF Handler
  <2> QED BY <2>1, <2>2, LinkMain, LinkReader, LinkKeepalive, LinkEnvironment
          DEF Next
<1> QED BY <1>1, LinkInit, Invariance, PTL DEF Spec, ImplementsLink, Link!Spec

=============================================================================
