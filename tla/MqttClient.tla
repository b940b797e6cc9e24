----------------------------- MODULE MqttClient -----------------------------
(***************************************************************************)
(* The MQTT client of the station, src/app/src/mqtt.c, with the threads    *)
(* that share its statics:                                                 *)
(*                                                                         *)
(*  - the main thread, which publishes and, when the client is not         *)
(*    connected, resolves the broker and connects (variable pc: the next   *)
(*    step of the call in progress);                                       *)
(*  - poll_thread, which waits on the socket and reads it (poll_thread);   *)
(*  - the system work queue, which runs keepalive when the delayable work  *)
(*    expires (keepalive_work: the time it has left);                      *)
(*  - the hardware watchdog channel fed by each PINGRESP (wdt_age).        *)
(*                                                                         *)
(* The MQTT library is modelled from how mqtt.c uses it: session is its    *)
(* state, which changes under the client's mutex. The library releases the *)
(* mutex around mqtt_event_handler, so what a library call does and what   *)
(* the handler does of it are steps apart: event tells, for each thread,   *)
(* the handler it still has to run before its library call returns.        *)
(*                                                                         *)
(* Time passes in Ticks of 20 s, so KeepAlive = 3 stands for the 60 s of   *)
(* the MQTT keepalive and WdtTimeout = 11 for the 220 s of the window.     *)
(***************************************************************************)

EXTENDS Integers

CONSTANTS
  KeepAlive,        \* ticks between two pings
  WdtTimeout,       \* ticks an unfed watchdog channel lasts
  DnsRetries,       \* attempts to resolve the broker in one call
  ConnectRetries,   \* attempts to connect in one call
  MaxPings          \* bound: pings (and answers) counted as outstanding

ASSUME KeepAliveAssumption == KeepAlive \in Nat \ {0}
ASSUME WdtAssumption == WdtTimeout \in Nat \ {0}
ASSUME RetriesAssumption ==
  /\ DnsRetries \in Nat \ {0}
  /\ ConnectRetries \in Nat \ {0}
ASSUME MaxPingsAssumption == MaxPings \in Nat \ {0}

VARIABLES
  mqtt_connected,   \* the static flag every thread reads
  nfds,             \* sockets to poll: 0 or 1
  keepalive_work,   \* ticks until the work runs, NotPending if not scheduled
  work_damaged,     \* a pending work was initialised again: the kernel's list
                    \* of timeouts is undefined from then on
  poll_thread,      \* "prestart", "polling", "woken" (wait returned) or "dead"
  session,          \* the library's: "idle", "connecting" or "connected"
  connack,          \* the session's CONNACK: "none" yet, unread ("accepted" or
                    \* "refused") or "read"
  pings,            \* PINGREQs the broker has not answered
  pingresps,        \* PINGRESPs not read yet
  hungup,           \* the transport is broken, the library does not know yet
  event,            \* for each thread, what its event handler does next
  opener,           \* history: the thread that read the session's CONNACK
  wdt_age,          \* ticks since the mqtt watchdog channel was fed
  pc,               \* the next step of the publish call, "idle" if none
  retries,          \* attempts left, this one included
  ret               \* what the last finished call returned

client == <<mqtt_connected, nfds>>
library == <<session, connack, pings, pingresps, hungup, event, opener>>
timer == <<keepalive_work, work_damaged>>
call == <<pc, retries, ret>>
vars == <<client, library, timer, poll_thread, wdt_age, call>>

NotPending == -1

Threads == {"main", "poll_thread", "work_queue"}

\* "connack": set the flag. "disconnect": clear it; "clear_fds": and then the
\* sockets. "pingresp": feed the watchdog. "refused": a CONNACK that refuses,
\* nothing but a log, after which the library takes the session down.
Events == {"none", "connack", "refused", "disconnect", "clear_fds", "pingresp"}

Labels == {"idle", "getaddrinfo", "client_init", "mqtt_connect", "wait",
           "mqtt_input", "if_connected", "mqtt_publish"}

TypeOK ==
  /\ mqtt_connected \in BOOLEAN
  /\ nfds \in {0, 1}
  /\ keepalive_work \in NotPending .. KeepAlive
  /\ work_damaged \in BOOLEAN
  /\ poll_thread \in {"prestart", "polling", "woken", "dead"}
  /\ session \in {"idle", "connecting", "connected"}
  /\ connack \in {"none", "accepted", "refused", "read"}
  /\ pings \in 0 .. MaxPings
  /\ pingresps \in 0 .. MaxPings
  /\ hungup \in BOOLEAN
  /\ event \in [Threads -> Events]
  /\ opener \in {"nobody", "main", "poll_thread"}
  /\ wdt_age \in 0 .. WdtTimeout
  /\ pc \in Labels
  /\ retries \in (0 .. DnsRetries) \cup (0 .. ConnectRetries)
  /\ ret \in {"none", "ok", "error"}

\* The statics of a program that has just started.
Init ==
  /\ mqtt_connected = FALSE
  /\ nfds = 0
  /\ keepalive_work = NotPending
  /\ work_damaged = FALSE
  /\ poll_thread = "prestart"
  /\ session = "idle"
  /\ connack = "none"
  /\ pings = 0
  /\ pingresps = 0
  /\ hungup = FALSE
  /\ event = [t \in Threads |-> "none"]
  /\ opener = "nobody"
  /\ wdt_age = 0
  /\ pc = "idle"
  /\ retries = 0
  /\ ret = "none"

-----------------------------------------------------------------------------
(* The MQTT library. *)

\* The transport is closed and the client structure reset; nothing that was
\* in flight survives.
LibraryReset ==
  /\ session' = "idle"
  /\ connack' = "none"
  /\ pings' = 0
  /\ pingresps' = 0
  /\ hungup' = FALSE
  /\ opener' = "nobody"

\* event_notify: thread t is to run the handler, without the mutex.
Raise(t, e) == event' = [event EXCEPT ![t] = e]

\* The thread is not inside the event handler.
Runs(t) == event[t] = "none"

\* The library drops the transport: DISCONNECT is raised for a connected
\* session, else a failed CONNACK, of which the handler only logs.
client_disconnect(t) ==
  /\ LibraryReset
  /\ Raise(t, IF session = "connected" THEN "disconnect" ELSE "none")

ConnackUnread == connack \in {"accepted", "refused"}

\* mqtt_input reads at most one packet, without blocking.
InputReads(t) ==
  \/ /\ session # "idle"
     /\ ~ConnackUnread /\ pingresps = 0 /\ ~hungup
     /\ UNCHANGED library
  \/ /\ session = "connecting"
     /\ connack = "accepted"
     /\ session' = "connected"
     /\ connack' = "read"
     /\ opener' = t
     /\ Raise(t, "connack")
     /\ UNCHANGED <<pings, pingresps, hungup>>
  \/ /\ session = "connected"
     /\ pingresps > 0
     /\ pingresps' = pingresps - 1
     /\ Raise(t, "pingresp")
     /\ UNCHANGED <<session, connack, pings, hungup, opener>>

\* Its result is negative when it is not connected at all, for a CONNACK that
\* refuses, and for a transport that turns out broken.
InputFails(t) ==
  \/ /\ session = "idle"
     /\ UNCHANGED library
  \/ /\ session = "connecting"
     /\ connack = "refused"
     /\ connack' = "read"
     /\ Raise(t, "refused")
     /\ UNCHANGED <<session, pings, pingresps, hungup, opener>>
  \/ /\ session # "idle"
     /\ hungup
     /\ client_disconnect(t)

mqtt_abort(t) ==
  IF session = "idle" THEN UNCHANGED library ELSE client_disconnect(t)

\* Writing a packet: refused without a session; on a broken transport it may
\* still be buffered, or fail and take the session down.
WriteRefused ==
  /\ session # "connected"
  /\ UNCHANGED library

WriteBreaks(t) ==
  /\ session = "connected"
  /\ hungup
  /\ client_disconnect(t)

WriteDone(ping) ==
  /\ session = "connected"
  /\ pings' = IF ping /\ pings < MaxPings THEN pings + 1 ELSE pings
  /\ UNCHANGED <<session, connack, pingresps, hungup, event, opener>>

-----------------------------------------------------------------------------
(* mqtt_event_handler, run by the thread whose library call raised the event *)
(* while any other thread may be in the library or in main's code.           *)

\* What the handler of thread t does next; it leaves the library's state alone.
HandlerGoesOn(t, next) ==
  /\ Raise(t, next)
  /\ UNCHANGED <<session, connack, pings, pingresps, hungup, opener, timer,
                 poll_thread, call>>

\* Mutant: the test of evt->result is inverted.
EvtConnackInverted(t) ==
  /\ event[t] = "connack"
  /\ HandlerGoesOn(t, "none")
  /\ UNCHANGED <<mqtt_connected, nfds, wdt_age>>

\* Mutant: the watchdog is fed by the CONNACK too.
EvtConnackFeeds(t) ==
  /\ event[t] = "connack"
  /\ mqtt_connected' = TRUE
  /\ wdt_age' = 0
  /\ HandlerGoesOn(t, "none")
  /\ UNCHANGED nfds

EvtConnack(t) ==
  /\ event[t] = "connack"
  /\ mqtt_connected' = TRUE
  /\ HandlerGoesOn(t, "none")
  /\ UNCHANGED <<nfds, wdt_age>>

EvtDisconnect(t) ==
  /\ event[t] = "disconnect"
  /\ mqtt_connected' = FALSE
  /\ HandlerGoesOn(t, "clear_fds")
  /\ UNCHANGED <<nfds, wdt_age>>

clear_fds(t) ==
  /\ event[t] = "clear_fds"
  /\ nfds' = 0
  /\ HandlerGoesOn(t, "none")
  /\ UNCHANGED <<mqtt_connected, wdt_age>>

EvtPingresp(t) ==
  /\ event[t] = "pingresp"
  /\ wdt_age' = 0
  /\ HandlerGoesOn(t, "none")
  /\ UNCHANGED <<mqtt_connected, nfds>>

\* Back in the library after a CONNACK that refused: the session is taken down,
\* whichever session it is by then.
AfterRefusal(t) ==
  /\ event[t] = "refused"
  /\ client_disconnect(t)
  /\ UNCHANGED <<client, timer, poll_thread, wdt_age, call>>

mqtt_event_handler(t) ==
  EvtConnack(t) \/ EvtDisconnect(t) \/ clear_fds(t) \/ EvtPingresp(t)
    \/ AfterRefusal(t)

-----------------------------------------------------------------------------
(* The main thread: mqtt_publish_to_topic and what it calls. *)

GoTo(label) ==
  /\ pc' = label
  /\ UNCHANGED ret

Return(result) ==
  /\ pc' = "idle"
  /\ ret' = result

\* Mutant: the loop does not stop at its last turn.
RetryPastLast(label) ==
  /\ retries' = retries - 1
  /\ IF retries >= 0 THEN GoTo(label) ELSE Return("error")

\* Mutant: the loop does not count.
RetryUncounted(label) ==
  /\ UNCHANGED retries
  /\ IF retries > 1 THEN GoTo(label) ELSE Return("error")

\* The end of one turn of a "while (retries--)" loop that failed.
RetryAt(label) ==
  /\ retries' = retries - 1
  /\ IF retries > 1 THEN GoTo(label) ELSE Return("error")

\* mqtt_publish_to_topic is called; it connects first unless connected.
mqtt_publish_to_topic ==
  /\ pc = "idle"
  /\ ret' = "none"
  /\ IF mqtt_connected
       THEN pc' = "mqtt_publish" /\ UNCHANGED retries
       ELSE pc' = "getaddrinfo" /\ retries' = DnsRetries
  /\ UNCHANGED <<client, library, timer, poll_thread, wdt_age>>

get_mqtt_broker_addrinfo ==
  /\ pc = "getaddrinfo"
  /\ \/ GoTo("client_init") /\ retries' = ConnectRetries
     \/ RetryAt("getaddrinfo")
  /\ UNCHANGED <<client, library, timer, poll_thread, wdt_age>>

\* k_work_init_delayable(&keepalive_work): the work forgets that it was
\* scheduled, the kernel's list of timeouts does not.
WorkInit ==
  /\ keepalive_work' = NotPending
  /\ work_damaged' = (work_damaged \/ keepalive_work # NotPending)

client_init ==
  /\ pc = "client_init"
  /\ LibraryReset
  /\ WorkInit
  /\ GoTo("mqtt_connect")
  /\ UNCHANGED <<client, event, poll_thread, wdt_age, retries>>

\* Mutant: the keepalive is scheduled before the broker has accepted.
TransportUpArmed ==
  /\ pc = "mqtt_connect"
  /\ session' = "connecting"
  /\ nfds' = 1
  /\ keepalive_work' = KeepAlive
  /\ GoTo("wait")
  /\ UNCHANGED <<mqtt_connected, connack, pings, pingresps, hungup, event,
                 opener, work_damaged, poll_thread, wdt_age, retries>>

\* mqtt_connect and prepare_fds.
TransportUp ==
  /\ pc = "mqtt_connect"
  /\ session' = "connecting"
  /\ nfds' = 1
  /\ GoTo("wait")
  /\ UNCHANGED <<mqtt_connected, connack, pings, pingresps, hungup, event,
                 opener, timer, poll_thread, wdt_age, retries>>

TransportFails ==
  /\ pc = "mqtt_connect"
  /\ RetryAt("client_init")
  /\ UNCHANGED <<client, library, timer, poll_thread, wdt_age>>

\* wait(MQTT_CONNECT_TIMEOUT_MS) returns, with the socket readable or not.
WaitReturns ==
  /\ pc = "wait"
  /\ nfds > 0
  /\ GoTo("mqtt_input")
  /\ UNCHANGED <<client, library, timer, poll_thread, wdt_age, retries>>

\* wait fails: nothing to poll, or zsock_poll reports an error.
WaitFails ==
  /\ pc = "wait"
  /\ mqtt_abort("main")
  /\ Return("error")
  /\ UNCHANGED <<client, timer, poll_thread, wdt_age, retries>>

MainInput ==
  /\ pc = "mqtt_input"
  /\ InputReads("main") \/ InputFails("main")
  /\ GoTo("if_connected")
  /\ UNCHANGED <<client, timer, poll_thread, wdt_age, retries>>

RescheduleKeepalive ==
  /\ keepalive_work' = KeepAlive
  /\ UNCHANGED work_damaged

\* Mutant: the thread is not started.
NoPollThread == UNCHANGED poll_thread

\* k_thread_start(poll_thread) starts a thread that has never run; it does
\* nothing to one that runs or has returned.
StartPollThread ==
  poll_thread' = IF poll_thread = "prestart" THEN "polling" ELSE poll_thread

ConnectSucceeds ==
  /\ pc = "if_connected"
  /\ mqtt_connected
  /\ RescheduleKeepalive
  /\ StartPollThread
  /\ GoTo("mqtt_publish")
  /\ UNCHANGED <<client, library, wdt_age, retries>>

\* Mutant: the attempt is given up without mqtt_abort.
AttemptFailsOpen ==
  /\ pc = "if_connected"
  /\ ~mqtt_connected
  /\ RetryAt("client_init")
  /\ UNCHANGED <<client, library, wdt_age, timer, poll_thread>>

\* mqtt_abort, then the next attempt.
AttemptFails ==
  /\ pc = "if_connected"
  /\ ~mqtt_connected
  /\ mqtt_abort("main")
  /\ RetryAt("client_init")
  /\ UNCHANGED <<client, timer, poll_thread, wdt_age>>

\* Mutant: the result of the library is not looked at.
PublishIgnoresResult ==
  /\ pc = "mqtt_publish"
  /\ WriteDone(FALSE) \/ WriteRefused \/ WriteBreaks("main")
  /\ Return("ok")
  /\ UNCHANGED <<client, timer, poll_thread, wdt_age, retries>>

mqtt_publish ==
  /\ pc = "mqtt_publish"
  /\ \/ WriteDone(FALSE) /\ Return("ok")
     \/ (WriteRefused \/ WriteBreaks("main")) /\ Return("error")
  /\ UNCHANGED <<client, timer, poll_thread, wdt_age, retries>>

Main ==
  /\ Runs("main")
  /\ \/ mqtt_publish_to_topic
     \/ get_mqtt_broker_addrinfo
     \/ client_init
     \/ TransportUp
     \/ TransportFails
     \/ WaitReturns
     \/ WaitFails
     \/ MainInput
     \/ ConnectSucceeds
     \/ AttemptFails
     \/ mqtt_publish

-----------------------------------------------------------------------------
(* poll_thread. *)

\* wait(SYS_FOREVER_MS) is over: readable, closed under the poll, or -EINVAL
\* because there is nothing to poll. Any of them is "true" to the caller.
WaitEnds ==
  nfds = 0 \/ session = "idle" \/ ConnackUnread \/ pingresps > 0 \/ hungup

PollWakes ==
  /\ poll_thread = "polling"
  /\ Runs("poll_thread")
  /\ WaitEnds
  /\ poll_thread' = "woken"
  /\ UNCHANGED <<client, library, timer, wdt_age, call>>

\* The thread returns when mqtt_input fails, and nothing starts it again. It is
\* "dead" at once, with at most the handler of that failure left to run.
PollInput ==
  /\ poll_thread = "woken"
  /\ Runs("poll_thread")
  /\ \/ InputReads("poll_thread") /\ poll_thread' = "polling"
     \/ InputFails("poll_thread") /\ poll_thread' = "dead"
  /\ UNCHANGED <<client, timer, wdt_age, call>>

-----------------------------------------------------------------------------
(* keepalive, on the system work queue. *)

KeepaliveStops ==
  /\ keepalive_work' = NotPending
  /\ UNCHANGED work_damaged

\* Mutant: one ping per connection, the work is not scheduled again.
KeepalivePingsOnce ==
  /\ keepalive_work = 0
  /\ mqtt_connected
  /\ WriteDone(TRUE) \/ WriteRefused \/ WriteBreaks("work_queue")
  /\ KeepaliveStops
  /\ UNCHANGED <<client, poll_thread, wdt_age, call>>

\* Mutant: the watchdog is fed by the ping, whether it was sent or not.
KeepaliveFeeds ==
  /\ keepalive_work = 0
  /\ mqtt_connected
  /\ WriteDone(TRUE) \/ WriteRefused \/ WriteBreaks("work_queue")
  /\ wdt_age' = 0
  /\ RescheduleKeepalive
  /\ UNCHANGED <<client, poll_thread, call>>

KeepalivePings ==
  /\ keepalive_work = 0
  /\ mqtt_connected
  /\ \/ WriteDone(TRUE) /\ RescheduleKeepalive
     \/ (WriteRefused \/ WriteBreaks("work_queue")) /\ KeepaliveStops
  /\ UNCHANGED <<client, poll_thread, wdt_age, call>>

KeepaliveDisconnected ==
  /\ keepalive_work = 0
  /\ ~mqtt_connected
  /\ KeepaliveStops
  /\ UNCHANGED <<client, library, poll_thread, wdt_age, call>>

keepalive == Runs("work_queue") /\ (KeepalivePings \/ KeepaliveDisconnected)

-----------------------------------------------------------------------------
(* The broker and the transport. *)

BrokerConnack ==
  /\ session = "connecting"
  /\ connack = "none"
  /\ ~hungup
  /\ connack' \in {"accepted", "refused"}
  /\ UNCHANGED <<client, session, pings, pingresps, hungup, event, opener,
                 timer, poll_thread, wdt_age, call>>

BrokerPingresp ==
  /\ pings > 0
  /\ pingresps < MaxPings
  /\ ~hungup
  /\ pings' = pings - 1
  /\ pingresps' = pingresps + 1
  /\ UNCHANGED <<client, session, connack, hungup, event, opener, timer,
                 poll_thread, wdt_age, call>>

HangUp ==
  /\ session # "idle"
  /\ ~hungup
  /\ hungup' = TRUE
  /\ UNCHANGED <<client, session, connack, pings, pingresps, event, opener,
                 timer, poll_thread, wdt_age, call>>

-----------------------------------------------------------------------------
(* Time, the watchdog and resets. *)

\* The work queue is far quicker than a tick: an expired keepalive runs
\* before time goes on, as long as the kernel's timeouts are sound.
Tick ==
  /\ wdt_age < WdtTimeout
  /\ keepalive_work = 0 => work_damaged
  /\ wdt_age' = wdt_age + 1
  /\ keepalive_work' = IF keepalive_work > 0 THEN keepalive_work - 1
                                             ELSE keepalive_work
  /\ UNCHANGED <<client, library, work_damaged, poll_thread, call>>

\* A damaged list of timeouts: the work may be lost, fire early or stay.
DamagedTimeout ==
  /\ work_damaged
  /\ keepalive_work' \in NotPending .. KeepAlive
  /\ UNCHANGED <<client, library, work_damaged, poll_thread, wdt_age, call>>

Restart ==
  /\ mqtt_connected' = FALSE
  /\ nfds' = 0
  /\ LibraryReset
  /\ event' = [t \in Threads |-> "none"]
  /\ keepalive_work' = NotPending
  /\ work_damaged' = FALSE
  /\ poll_thread' = "prestart"
  /\ wdt_age' = 0
  /\ pc' = "idle"
  /\ retries' = 0
  /\ ret' = "none"

WatchdogReset ==
  /\ wdt_age = WdtTimeout
  /\ Restart

\* Power, the reset pin, the other watchdog channel, or a fault that a
\* damaged list of timeouts ends in.
OtherReset == Restart

Environment ==
  BrokerConnack \/ BrokerPingresp \/ HangUp \/ Tick \/ DamagedTimeout
    \/ WatchdogReset \/ OtherReset

Handler == \E t \in Threads : mqtt_event_handler(t)

Next == Main \/ PollWakes \/ PollInput \/ keepalive \/ Handler \/ Environment

Spec == Init /\ [][Next]_vars

\* A publish call is in progress, its last handler included.
Busy == pc # "idle" \/ ~Runs("main")

\* The main thread runs, in the handler too: none of its blocking calls lasts
\* for ever (each ends by a timeout, its own or that of TCP's retransmissions),
\* unless the kernel's timeouts are damaged.
MainRuns ==
  /\ ~work_damaged
  /\ Busy
  /\ Main \/ mqtt_event_handler("main")

CallSpec == Spec /\ WF_vars(MainRuns)

\* The clock of the station: time goes on, the work queue runs what expires and
\* the handler of its ping, and the watchdog resets.
WorkQueueRuns == keepalive \/ mqtt_event_handler("work_queue")

ClockSpec ==
  Spec /\ WF_vars(Tick) /\ WF_vars(WorkQueueRuns) /\ WF_vars(WatchdogReset)

-----------------------------------------------------------------------------
(* Properties. *)

\* The steps of a call between the transport coming up and the check that the
\* broker accepted the session.
Handshaking == pc \in {"wait", "mqtt_input", "if_connected"}

\* Some thread is about to run this step of the event handler.
Pending(e) == \E t \in Threads : event[t] = e

\* The flag that every thread reads without a lock follows the session as far
\* as the handlers have come. A live session is flagged or its CONNACK is still
\* being handled; once a call uses it or is over it is flagged for certain,
\* however late the handlers of other threads run: none of them disowns it.
\* Before poll_thread is started the flag is never set without a session. It can
\* be afterwards, when a handler of CONNACK or DISCONNECT runs late.
FlagTracksSession ==
  /\ session = "connected" => mqtt_connected \/ Pending("connack")
  /\ session = "connected" /\ ~Handshaking => mqtt_connected
  /\ poll_thread = "prestart" /\ mqtt_connected => session = "connected"

\* client_init, which wipes the library's structure, never wipes a transport
\* that is still open, however the attempt before it ended and whoever else was
\* inside the library. A half-open session outlives try_to_connect only under a
\* flag that a late handler left set.
NoSessionLeftBehind ==
  /\ session = "connecting" => Handshaking \/ mqtt_connected
  /\ pc \in {"getaddrinfo", "client_init", "mqtt_connect"} => session = "idle"

\* A live session that main opened has its next ping scheduled: keepalive can
\* stop the chain only when the session is gone, and a new session starts a new
\* one. (A session that poll_thread opened after a late handler misled main may
\* have no chain; SilentBrokerEndsInReset is what is left for it.)
KeepaliveChain ==
  session = "connected" /\ opener = "main" /\ ~Handshaking /\ ~work_damaged
    => keepalive_work # NotPending

\* A session is never used before poll_thread was started, and the first one is
\* never waited for with an empty set of sockets.
SessionHasReader ==
  /\ session = "connected" /\ ~Handshaking => poll_thread # "prestart"
  /\ session # "idle" /\ poll_thread = "prestart" => nfds = 1

\* The failed attempts of the very first connection never initialise a pending
\* keepalive_work: it takes a connection that was lost to damage the kernel's
\* timeouts (broker_init runs at every attempt).
FirstConnectIsClean == poll_thread = "prestart" =>
  ~work_damaged /\ keepalive_work = NotPending

\* Once poll_thread has returned, the watchdog channel is never fed again before
\* a reset: the connecting main thread reads no PINGRESP either. (It may be in
\* the handler of one that it read before.)
DeadReaderNeverFeeds ==
  [][poll_thread = "dead" /\ poll_thread' = "dead" /\ ~Pending("pingresp")
       => wdt_age' >= wdt_age /\ ~Pending("pingresp")']_vars

\* A station whose poll_thread has returned does not stay up unattended, even
\* if it reconnects: the mqtt watchdog channel resets it.
ReaderDeathEndsInReset == poll_thread = "dead" ~> poll_thread = "prestart"

\* A broker that stops answering the pings of a live connection, a chain of
\* pings that ended, a reader that reads nothing: if from some time on no
\* PINGRESP is handled, the station is reset again and again.
SilentBrokerEndsInReset == <>[]~Pending("pingresp") => []<><<Restart>>_vars

\* The flag is set over a session that is not there.
FlagIsStale == mqtt_connected /\ session # "connected"

\* A stale flag does not last, although main, misled by it, never connects: the
\* session comes up, a handler clears the flag, or the watchdog does, because no
\* session means no PINGRESP.
StaleFlagEnds == FlagIsStale ~> ~FlagIsStale

\* A publish call that started returns, whatever the resolver, the broker and
\* the other threads do; only damaged kernel timeouts can keep it.
CallReturns == Busy ~> (~Busy \/ work_damaged)

\* The client keeps what mqtt.c promises its callers.
Link == INSTANCE MqttLink WITH
  link <- session, busy <- Busy, ret <- IF Busy THEN "none" ELSE ret

ImplementsLink == Link!Spec

=============================================================================
