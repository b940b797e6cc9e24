# A TLA+ model of the air quality station

The station (`src/app/src`) is a Zephyr program for an nRF52840. It reads three
I2C sensors every ten seconds, averages the readings over a minute and publishes
them to Home Assistant over MQTT, on a Thread network. Two channels of the
hardware watchdog are its only way out of anything that goes wrong.

This directory holds TLA+ modules that model it, the TLC configurations that
check them on small instances, and TLAPS proofs of the properties that matter
most, for every value of the constants.

## 1. The system

| component | source | state it keeps | operations |
|---|---|---|---|
| MQTT client | `mqtt.c` | `mqtt_connected`, `nfds`, `keepalive_work`, the library's `client_ctx` | `mqtt_publish_to_topic` and what it calls (resolve, connect, publish); `mqtt_event_handler`; `poll_thread_function`; `keepalive` |
| main loop | `main.c` | `main_loop_counter`, `non_fatal_error` | register, start, set online; then read, send, clear, feed, sleep |
| sensor state | `ha.c` | `total_value`, `number_of_values`, `binary_state` of each sensor | `ha_add_sensor_reading`, `ha_send_sensor_value`, `ha_set_binary_sensor_state`, `ha_send_binary_sensor_state` |
| discovery and availability | `ha.c` | topics; at the broker: retained messages and the will | `ha_register_sensor`, `ha_set_online` |
| hardware watchdog | `init.c` | two channels of 220 s | `init_watchdog`, `wdt_feed` |
| OpenThread readiness | `openthread.c` | `events`, the static `has_role` | `on_thread_state_changed`, `openthread_my_start`, `openthread_wait_for_ready` |
| reset cause | `reset.c` | the SoC's reset register | show, clear, compare |
| identifiers | `uid.c` | serial numbers as strings | `uid_init`, `uid_fill_unique_ids` |
| sensor drivers | `hvac.c`, `temphum24.c`, `drv_*.c` | the slave address of each I2C context | reads and commands, with and without CRC |

How they interact:

- `main` calls `ha.c`, which calls `mqtt_publish_to_topic`; the call connects
  first if the flag `mqtt_connected` says it must.
- Three threads share the client: main, `poll_thread` (started at the first
  connection) and the system work queue (`keepalive`). The MQTT library calls
  `mqtt_event_handler` back on whichever of them called it, and holds its mutex
  over its own steps but not over the handler.
- A PINGRESP read by anybody feeds the *mqtt* watchdog channel. A turn of the
  main loop without an error feeds the *main* channel.
- The OpenThread thread tells main through an event that the network is usable.

What is hard about it, and what makes it correct:

- **Concurrency on the client.** Main, `poll_thread` and `keepalive` read and
  write the same socket, the flag is not locked, and the handler that writes it
  runs after the library has let go of its mutex. Correct means: the flag follows
  the session as far as the handlers have come, and does not stay wrong; no open
  session is wiped; a session always has a reader that was started, and a ping
  that is scheduled if main opened it; a call that returns success published over
  a live session.
- **Failure and recovery.** `poll_thread` returns when its socket fails and is
  never started again, and a broker that stops answering leaves no trace. Correct
  means: the station does not stay up like that, and a station with a good network
  is never reset by mistake.
- **Retries and errors in the loop.** Reads and sends fail one by one. Correct
  means: averages cover exactly the readings they divide by, errors are neither
  masked nor carried over, and the station always recovers or is reset.
- **Readiness.** Changes of the network are signalled late, together and in any
  order. Correct means: the event is not raised over a bad network, and main is
  not left waiting over a good one.
- **A shared address.** Two sensors share one I2C context, commands get lost
  without notice, and sensors keep their mode over a reset. Correct means: a
  sensor is asked at its own address, a reading or serial number is its own, and
  every sensor is read again once the bus is calm.
- **What Home Assistant sees.** Publishes that succeed may be lost, the broker
  notices the end of a session late, and it keeps what earlier boots said.
  Correct means: sensors are announced before the device is shown online, a
  device that is gone is shown offline, and it is shown again when it is back.
- **Booting.** Resets leave bits behind, the watchdog may not start, main may
  return. Correct means: a reset is not taken for another one, each channel has
  its feeder, and a station with a watchdog boots or is reset.
- **Identity.** Serial numbers come over a noisy bus into short buffers. Correct
  means: no changed word is accepted where a CRC is checked, and no two sensors
  share an identifier.

`PROJECT.json` lists the hazards one by one, each at its line.

## 2. Modules

| module | models | built on |
|---|---|---|
| `MqttLink` | what `mqtt.c` promises its callers (abstract) | |
| `MqttClient` | `mqtt.c` with its threads, timer, library and watchdog channel | implements `MqttLink` |
| `MqttUptime` | the same client in a network that works | extends `MqttClient` |
| `MainLoop` | `main` from the registrations on, the accumulators of `ha.c`, the main channel | relies on the promise of `MqttLink` |
| `OpenThreadReady` | `openthread.c`: the callback, the event and main's wait | |
| `I2cSensors` | the set-up and the reads of the three sensors: `init.c`, `uid.c`, `hvac.c`, `temphum24.c`, the I2C shim | |
| `Availability` | what the broker's view of the station promises Home Assistant (abstract) | |
| `HomeAssistant` | what the broker retains of the station: `ha.c`, the will of `mqtt.c`, main's announcements | implements `Availability`; relies on the promise of `MqttLink` and on `ReaderDeathEndsInReset` |
| `Boot` | `main` up to its loop, `init_watchdog`, `reset.c`, the erasing of the Thread data | |
| `Crc8` | the CRC of both drivers on sets of bits, and disturbances of a word | |
| `UniqueId` | `uid.c`: the serial numbers, and the identifiers made of them | extends `Crc8` |
| `MqttClient_proofs`, `MqttUptime_proofs`, `MainLoop_proofs`, `OpenThreadReady_proofs`, `I2cSensors_proofs`, `HomeAssistant_proofs`, `Boot_proofs`, `UniqueId_proofs` | theorems | |
| `MC*` | the values TLC gives the constants | |

A definition whose comment begins with `Mutant:` is a deliberate fault: a form
of the definition that follows it, as a plausible bug would have it. No
specification uses these definitions; `PROJECT.json` pairs each with a property
that it breaks, which shows that the property can fail.

### MqttClient

`pc` is the next step of the publish call in progress: `getaddrinfo`,
`client_init`, `mqtt_connect`, `wait`, `mqtt_input`, `if_connected`,
`mqtt_publish`, or `idle`. Between any two of them the other threads may run.

| code | action |
|---|---|
| `mqtt_publish_to_topic`, the test of the flag | `mqtt_publish_to_topic` |
| `get_mqtt_broker_addrinfo`, three turns | `get_mqtt_broker_addrinfo` |
| `client_init` with `broker_init` | `client_init` |
| `mqtt_connect`, `prepare_fds` | `TransportUp`, `TransportFails` |
| `wait` | `WaitReturns`, `WaitFails` |
| `mqtt_input` by main | `MainInput` |
| `if (mqtt_connected)` and its two branches | `ConnectSucceeds`, `AttemptFails` |
| `mqtt_publish` | `mqtt_publish` |
| `poll_thread_function` | `PollWakes`, `PollInput` |
| `keepalive` | `KeepalivePings`, `KeepaliveDisconnected` |
| `mqtt_event_handler` | `EvtConnack`, `EvtDisconnect`, then `clear_fds`, `EvtPingresp`, on the thread whose library call raised the event |

The MQTT library is not part of the repository. It is modelled from how `mqtt.c`
uses it. What a library call does to the session is one step, under the client's
mutex. The library releases the mutex around `mqtt_event_handler`, so the handler
has steps of its own: `event` tells for each thread what it still has to run
before its library call returns, and any other thread may run in between. A
refused CONNACK is the one event after which the library acts again
(`AfterRefusal`), on whatever session there is by then. `opener` is history: which
thread read the CONNACK of the session. Any of the three threads may be preempted
for any time; the real priorities (`poll_thread` has the lowest) allow fewer
interleavings.

The wait after an abort (`mqtt.c:323`) is not a state: `nfds` is still 1 or
already 0, the result is not looked at, and only time passes. What `client_init`
may do to a thread that is inside the library at that moment, by wiping the
structure with its mutex, is not modelled.

What the model shows of a handler that runs late:

- A thread that lost the session may be preempted before `mqtt.c:162`. Main then
  finds the flag set, publishes into no session and gets an error, until the
  handler runs.
- While main reconnects, `poll_thread` may take the CONNACK that main waits for.
  If its handler runs only after main has found the flag clear and aborted, the
  flag comes up over no session. Main's next call does not connect at all, or its
  next attempt takes the flag for its own and "connects" a session that is still
  waiting for its CONNACK; either way the publish is refused. Unless that session
  comes up later, nothing clears the flag any more, main never connects again, and
  only the watchdog ends it (`StaleFlagEnds`).
- A late `clear_fds` may empty the sockets of the next session; a session that
  `poll_thread` opened in such a case may have no chain of pings. Neither session
  is wiped (`NoSessionLeftBehind`), and for both there is the watchdog
  (`SilentBrokerEndsInReset`).

Two more consequences of the code are part of the model and of the properties:

- `client_init` initialises `keepalive_work` again at every attempt. If it is
  still pending, which takes a connection that was lost within the keepalive
  period, the kernel's list of timeouts is damaged. What follows is undefined;
  the model lets the work be lost, fire early or stay (`DamagedTimeout`), lets
  the station fault (`OtherReset`), and drops the promise that blocking calls
  end.
- `k_thread_start` starts `poll_thread` only if it has never run. After it has
  returned, the session is up again but nobody reads PINGRESPs, and the mqtt
  channel resets the station.

### MqttLink

What callers may rely on, in terms of the transport and not of the flag: it is
opened inside a call only, never over an open one, and comes up and goes down on
its own; a call returns success over a link that is up, and an error never over
one. A call may leave a link behind that is still opening: the stale flag above.
The mapping (`MqttClient!Link`) takes `session` for `link`; a call lasts as long
as main has a step or a handler to run.

### MqttUptime

The steps of `MqttClient` without hang-ups and other resets, and with two promises
of the environment: a session within `ConnectBy` ticks of booting, and an answer
read and handled within `AnswerBy` ticks of a ping. `WindowAssumption` says that
`ConnectBy + KeepAlive + AnswerBy < WdtTimeout`. It is tight: TLC finds a reset in
the same instance with a window one tick shorter.

### MainLoop

`pc` is the place in `main`, `index` the device or sensor that is next there. A
publish is atomic and succeeds or fails at any time, which is what `MqttLink`
promises. `published` is history: the state that main last published with success.
Publishes are QoS 0, and whether it arrives is the subject of `HomeAssistant`.
Time is counted in the sleeps of ten seconds of the loop and of the retries;
`EarlyReset` stands for a window made shorter by a blocking call, for the mqtt
channel, for power and for the button. `Count` is the model's bound on the loop
counter, which main only increments: only its remainder by `Average` and its
comparison with `ClearAfter` are ever used, and going back by `Average` keeps
both. `missed` and `failed` are history variables. The printing of thread
statistics every five minutes changes nothing and is left out.

### OpenThreadReady

The stack collects flags of changes and signals them in one callback, or in
several; a neighbour may come or go without any signal. The callback is atomic:
it runs on the OpenThread thread, and main only waits for its event. `usable` is
a history variable: the network was announced ready and has stayed good since.

### I2cSensors

`pc` is the next access of main, one action each, in the order of `main.c`. The
calls to the network between them touch no sensor and are left out. Readings and
serial numbers are abstracted to where they came from: a transfer gives what the
sensor that was meant sent (`intact`, `corrupt` with a CRC that shows it, or
`unnoticed`: changed under a CRC that is right all the same), the bytes of another
sensor (`foreign`), or is `refused`. Which commands a sensor obeys in which mode
is external, modelled from how the code uses it (`uid_init` comes after
`scd4x_reset`, the reads after the start). A start of the HDC302x that is
disturbed may have been obeyed or not. Which disturbances a CRC of eight bits
finds is the subject of `UniqueId`; here nothing is claimed about changed words.

| code | action |
|---|---|
| `init_hvac_click`, with `hvac_init` and `scd4x_reset` | `init_hvac_click` |
| `uid_init`: three serial numbers | `get_hdc302x_serial`, `get_scd4x_serial`, `get_sps30_serial` |
| `start_sensor_measurements` | `temphum24_default_cfg`, `start_scd40`, `hvac_sps30_start_measurement` |
| the three reads of a turn | `temphum24_read_temp_and_rh`, `hvac_scd40_read_measurement`, `hvac_sps30_read_measured_data` |
| the end of a turn; `main` returning | `Epilogue`; `pc = "returned"` |

`Epilogue` stops at `Window` failing turns because the model counts no further,
not because main does.

`calm` says whether transfers may be disturbed, sends missed and the station
reset for other reasons; `Disturb` switches it at any time. `measuring` survives
a reset of the station, and is lost with the power only.

### HomeAssistant

Topics are numbers: the discovery topic of each sensor, the availability (which
is also the will's topic) and the state of the watchdog sensor. `retained` is
what the broker keeps on each, `wire` what the station has written to the
present session and the broker has not read. `link` is the station's side of the
connection, with the promise of `MqttLink`; `session` is the broker's, which may
end before or after it.

| code | action |
|---|---|
| `register_sensor_retry`, `ha_register_sensor`, `ha_send_discovery` | `ha_register_sensor` |
| `set_online_retry`, then `ha_set_binary_sensor_state` | `ha_set_online` |
| `send_binary_sensor_retry`, `ha_send_binary_sensor_state` | `ha_send_binary_sensor_state` |
| the clearing of the watchdog sensor in the loop | `ClearTrigger` |
| a publish over no connection: `try_to_connect`, which succeeds or aborts | `ConnectSucceeds`, `ConnectGivenUp` |
| `MQTT_EVT_DISCONNECT`; `poll_thread_function` returning | `LoseLink` |

The broker is external, as MQTT 3.1.1 has it: it publishes the will of every
session that ends without a DISCONNECT packet (`mqtt.c` sends none), and ends the
old session of a client identifier that connects again (`Accept`). The values of
the sensors are not retained and are left out. A call that fails changes nothing
here and is not an action. That the flag may lag behind the link, so that calls go
on failing without an attempt to connect, is left to `MqttClient`: `StaleFlagEnds`
bounds it, and to the broker it is only a longer wait. Sensor starts that fail and
main returning belong to `Boot` and `MainLoop`.

`Availability` is what Home Assistant may conclude from the availability alone: a
lease on the session. `HomeAssistant!Lease` maps it: `said` is "online" that has
arrived or is on its way, `shown` is what is retained.

### Boot

`pc` is the next call of main. `resetreas` is the hardware's register, a set of
bits to which each reset adds its own; only `clear_reset_cause` and a loss of
power take bits away. `driver` says what the watchdog driver does in this boot:
not ready, installs no channel or only one, does not start, or works.
`show_reset_cause` may fail, and its negative error, taken for a cause, has most
bits set (`Bits`). A reset stops the watchdog; main starts it again. While it runs
it may reset at any time, for either of its channels; that it does so is assumed
only of a station that does not feed the main channel (`UnfedReset`).

The properties rely on the order of the calls: the register is read before it is
cleared, and the client is told its channel after the watchdog was set up.

### Crc8 and UniqueId

`Crc8` computes the CRC bit by bit, as both drivers do. A byte, a word or a frame
is the set of the positions of its ones, so that an exclusive or is a symmetric
difference and the computation can be reasoned about. A frame is a word of 16 bits
with its checksum, and a disturbance inverts some of its 24 bits.
`UniqueId` reads the four serial numbers in the order of `uid_init`, with one
disturbed word for each sensor, and then fills in the seven identifiers one by
one. An identifier is what `snprintf` leaves of it in 32 bytes: the part number
(never cut), how many characters of the serial number, and which of the name.

## 3. Runs

| run | instance | shows |
|---|---|---|
| `client` | real timing in ticks of 20 s (keepalive 3, window 11), three attempts each, at most 2 outstanding pings; 820 000 states | types, `FlagTracksSession`, `NoSessionLeftBehind`, `KeepaliveChain`, `SessionHasReader`, `FirstConnectIsClean`, `DeadReaderNeverFeeds`, the refinement of `MqttLink`, and that calls return |
| `client_clock` | ticks of 30 s (keepalive 2, window 7), one attempt to resolve and two to connect, with fairness of the clock; 292 000 states | a dead reader ends in a reset (`ReaderDeathEndsInReset`), so does a broker that is silent (`SilentBrokerEndsInReset`), and a stale flag ends (`StaleFlagEnds`) |
| `uptime` | the timing of `client`, `ConnectBy` 5, `AnswerBy` 2, the largest the assumption allows | a healthy station is never reset by the mqtt channel |
| `main_loop` | three sensors on two devices, readings 1..2, an average of 2 turns, clearing after 4, a window of 3, one failed send in a row; 88 000 states | averages, the feeding rule, the published state, and that the station recovers or is reset |
| `openthread` | everything: the module has no constants | `RoleIsKnown`, `ReadyIsCurrent`, `GoodNetworkEndsWait` |
| `openthread_lost` | everything | **a violation**, see section 6 |
| `sensors` | a window of 3 failing turns; 9 960 states | `MisdirectedByFailureOnly`, `SerialIsItsOwn`, `ForeignReadingFollowsFailure`, and that the sensors recover (`SensorsRecover`) |
| `sensors_misdirected` | the same | **a violation**, see section 6 |
| `home_assistant` | the watchdog sensor and two others, three messages on their way; 10 170 states | `SeenInOrder`, `OfflineWhenGone`, `ComesBack`, and the refinement of `Availability` (`ImplementsAvailability`) |
| `home_assistant_lost` | the same | **a violation**, see section 6 |
| `boot` | one cause of a reset besides the watchdog, the pin and the power; 2 740 states | `CauseIsTrue`, `CauseIsHeeded`, `OwnChannels`, `BootsOrResets` |
| `unique_id` | every burst of up to eight bits and every error of up to three, on two words; serial numbers of up to 31 characters; 522 states | `AcceptedAsSent`, `IdsAreUnique` |

Bounds, and why they are enough:

- `MaxPings = 2`. Pings are counted so that an unanswered one can be followed by
  another. More of them saturate: all that matters is whether an answer is
  outstanding.
- `KeepAlive = 3` and `WdtTimeout = 11` are the real 60 s and 220 s. Retries are
  the real three, in `uptime` two, since no attempt changes what the next one
  finds. `client_clock` has coarser ticks and fewer attempts, because liveness over
  the clock costs more: the window still holds three keepalive periods, and two
  attempts to connect are enough for one to find what the other's handlers left.
- `Average`, `ClearAfter` and `WdtTimeout` of `MainLoop` are 2, 4 and 3 instead
  of 6, 30 and 22. They keep their order where it matters: clearing comes after
  several averages, and several failing turns fit into the window.
- `MaxMissed` bounds the sums. A send that has failed that often in a row has to
  succeed; failing turns without an end still happen, through reads.
- `Window = 3` of `I2cSensors` stands for 22 turns. The address comes right or
  wrong within one turn, and a mode only by a reset, so that only "some turns"
  and "the window is over" differ.
- `MCMainLoop` has two sensors on one device, as temperature and humidity, and
  one on another, so that a failed read takes some of the sensors with it and a
  failed send only one.
- `NumSensors = 2` and `MaxWire = 3` of `HomeAssistant`: the wire holds all the
  registrations of a boot, so that all of them can be lost together, and is
  full at the next message. The proof of `SeenInOrder` is for any of both.
- `OtherCauses` of `Boot`: the code tells the watchdog and the pin from
  everything else, so that one other cause stands for all.
- `Words` of `UniqueId`: the CRC is linear, so that whether a disturbance is found
  does not depend on the word; `UniqueId_proofs` proves it for all words. The
  disturbances are complete within what `Bursts` and `Scattered` say; a burst of
  nine bits can go unnoticed.
- `MaxLength = 31` is the real bound, `HVAC_SPS30_MAX_SERIAL_LEN` less one. The 20
  characters of `IdsAreUnique` are tight: at 21, PM1 and PM10 share an identifier.
  The serial number in the boot log of the repository's `README.md` has 16.

Fairness, and what in the code justifies it:

- `WF(MainRuns)`: main is runnable or in a blocking call that ends. Each of them
  has a timeout, its own or that of TCP's retransmissions. It is not assumed once
  the kernel's timeouts are damaged. Nothing is assumed to succeed.
- `WF(Tick)`, `WF(WorkQueueRuns)`, `WF(WatchdogReset)`: the clock, the work queue
  (with the handler of its ping) and the hardware go on. Nothing is assumed of
  main or of `poll_thread` there: the watchdog does not depend on them. `Tick`
  waits for an expired keepalive because the work queue, a cooperative thread, is
  far quicker than 20 s.
- In `MainLoop`, main goes on and the watchdog resets. No weak fairness asks for a
  read, a send or a retry to succeed, nor for `EarlyReset`.
- In `OpenThreadReady`, main gets through its set-up and the stack signals what
  has changed. `GoodNetworkEndsWait` takes its condition, that addresses go on
  being added, as a hypothesis of its own.
- In `I2cSensors`, main goes on and the watchdog resets. No transfer has to
  succeed; `SensorsRecover` has the calm of the bus as its own hypothesis.
- In `HomeAssistant`, main's attempts succeed only in calm; either side learns of
  the other's end (keepalive, or a write that fails); what is on its way over a
  session that stays arrives; and the watchdog resets a station whose
  `poll_thread` is dead, which `client_clock` shows. `ComesBack` has calm for
  ever, `OfflineWhenGone` a link that stays down, as hypotheses.
- In `Boot`, the calls that cannot block go on, and a running watchdog resets a
  station that does not feed its main channel. The wait for the network, the
  registrations and the turns of the loop need not make progress.

Deadlock is checked in every run.

## 4. Proofs

| theorem | states, for all values of the constants |
|---|---|
| `MqttClient_proofs!Invariance` | the inductive invariant `Inv` |
| `TypeCorrect`, `FlagIsCorrect`, `SessionsAreClosed`, `KeepaliveIsArmed`, `ReaderIsStarted`, `FirstConnectIsSafe` | each invariant of the run `client` |
| `DeadReaderStarves` | its action property |
| `Refinement` | `Spec => Link!Spec`: the client implements `MqttLink` |
| `CallsAreBounded`, `EveryStepCounts`, `DeadReaderRunsOut` | what `CallReturns` and `ReaderDeathEndsInReset` need besides fairness |
| `MqttUptime_proofs!HealthyStationStaysUp`, `HealthyTimeoutsAreSound` | both invariants of the run `uptime` |
| `MainLoop_proofs!TypeCorrect`, `AverageIsInRange`, `WindowIsBounded`, `PublishedIsCurrentAlways`, `FedIffClean` | types, and the safety properties of the run `main_loop` |
| `SleepIsAlwaysNear`, `EveryTurnAges`, `TriggersRunOut` | what `RecoversOrResets` and `TriggerIsCleared` need besides fairness |
| `OpenThreadReady_proofs!RoleIsKnownAlways`, `ReadyIsCurrentAlways` | the invariants of the run `openthread` |
| `AnAddressEndsTheWait` | what `GoodNetworkEndsWait` needs besides fairness |
| `I2cSensors_proofs!TypeCorrect`, `MisdirectionIsReported`, `SerialIsTheScd40s`, `ForeignReadingsFollowFailures` | types, and the invariants of the run `sensors` |
| `CalmBusPutsRight`, `RecoveredForGood` | steps that `SensorsRecover` rests on |
| `HomeAssistant_proofs!TypeCorrect`, `SeenInOrderAlways` | types, and the invariant of the run `home_assistant` |
| `AvailabilityIsALease` | `Spec => Lease!Spec`: the broker's view implements `Availability` |
| `GoneStaysOffline`, `BackIsSeen`, `BackIsForGood` | that what `OfflineWhenGone` and `ComesBack` come to is kept |
| `Boot_proofs!TypeCorrect`, `CauseIsTrueAlways`, `CauseIsHeededAlways`, `OwnChannelsAlways` | the invariants of the run `boot` |
| `NobodyIsLeftAlone` | what `BootsOrResets` needs besides fairness |
| `UniqueId_proofs!DisturbancesAreFound`, `DataSheetExample` | the CRC finds every disturbance of every word, and is the one of the data sheets |
| `SerialsAreAsSent`, `IdsAreUniqueAlways` | the invariants of the run `unique_id`, for every set of words and every length |

The assumptions are those the modules name: positive keepalive, window, numbers
of attempts and bounds; `WindowAssumption` for the uptime; a non-empty range of
readings for the main loop.

**MqttClient.** The invariants are not inductive one by one, and nobody states in
the code what they rest on. A session comes up by a CONNACK whose handler is still
to run, so the flag is claimed only as far as the handlers have come; what keeps it
from being cleared over a live session is that a DISCONNECT still to be handled is
the only one, belongs to a session that is gone, and finds main outside the steps
that open a new one (`LateDisconnect`). Until `poll_thread` is started only main
has handlers to run, and none is a DISCONNECT (`FirstConnectIsQuiet`); before main
has read the broker's answer only `poll_thread` can have (`OnlyReaderConnects`).
Each thread is in the handlers that its library calls can raise
(`HandlersOfThreads`), and the attempts left match the loop main is in
(`AttemptsLeft`). `Inv` is their conjunction. Each action is one step of the proof.
The property of two states and the refinement follow from `Inv` and one step.

**MqttUptime.** The age of the channel is bounded by where the station is: before
the session is set up by `ConnectBy`; afterwards, with no ping outstanding, by
`ConnectBy` plus the part of the keepalive period that has passed; with one
outstanding, by a keepalive period more, and an outstanding ping is at most
`AnswerBy` old, so there is never a second one (`AgeBound`). The other half is
that the first session is the only one and that main opened it (`OneSession`):
`poll_thread` starts with it and neither ever ends, because every way to lose a
session needs a transport that breaks. So no handler but that of a PINGRESP runs
from then on, and until it has run its answer counts as outstanding. `Inv` of
`MqttClient` carries over, since every step here is one of its steps.

**MainLoop.** `non_fatal_error = failed` makes the feeding rule inductive: the
flag the code keeps is the history of the turn. `AverageInRange` is inductive
with the types of the accumulators; `PublishedIsCurrent` needs that main is in
`clear` whenever the two differ inside the loop. `WindowBound` rests on
`WindowInv`: each place of a turn allows a sensor some readings (`Slack`) besides
`Average` for every send it has missed, namely the turns since sends were due,
and one more once its device was read. The counter enters only with its
remainder by `Average`, which `NextRemainder` counts up and `SameRemainder`
keeps when the counter is brought back.

**OpenThreadReady.** The properties are inductive together with the types. A change
of the mesh raises its flag, and until the flag is signalled nothing is claimed
about what changed; the callback computes the role of the device whether the
role is among the flags or not.

**I2cSensors.** The three invariants are inductive together with the types:
`SerialIsItsOwn` needs that the address is the SCD40's during the set-up, which is
the first part of `MisdirectedByFailureOnly`; that needs that main returns when
the read of the SPS30's serial number is refused, and that a refused read in the
loop is an error. `ForeignReadingFollowsFailure` needs in addition that an address
left behind at the beginning of a turn was left by the turn before, which then did
not feed (`LeftByFailedTurn`), and that no start-up leaves one (`Directed`).

**HomeAssistant.** `SeenInOrder` speaks of what has arrived. It is inductive
together with what is still on its way (`InOrder`): as long as the first
connection lasts, whatever main has said has arrived or is on the wire, nothing
but "online" is on its way to the availability, and all sensors are announced
before it. What an earlier session left behind cannot disturb that, because its
wire is gone and its will was published before the new session opened (`Ended`,
`Fresh`).

**Boot.** The cause passes from the register (`Recorded`) to main's copy
(`Copied`) and from there to what is erased (`Acted`); with only one bit set, the
copy is the last reset. A running watchdog has both channels, and main's
variables know them (`TwoChannels`); the client is told its own before it is used
(`Told`).

**Availability.** Seen from Home Assistant, the device is shown online on a lease:
only the word of the session that is open counts. The mapping takes what is
still on its way for said (`OnTheWay`). Delivering "online" is `Show`, and
delivering anything else must not touch what is said or shown, which holds
because nothing but "online" is ever on its way to the availability
(`OnlineOnly`). The end of a session is `Close` because the will is retained and
nothing of the session arrives after it.

**Crc8 and UniqueId.** Eight shifts are linear (`ShiftedLinear`), and each bit that
comes out is an exclusive or of bits that go in (`ShiftedIs`). So whether a
disturbance goes unnoticed does not depend on the word (`Undisclosed`). A burst of
eight bits touches at most two neighbours among the two bytes and the checksum and
covers neither, and then the second cannot make up for the first (`Straddle`). Of
scattered bits an odd number changes a parity that shifting preserves
(`OddShifted`); two are a burst, or a bit in one byte and one in another, and a
single bit never becomes a single bit (`NotSingle`). For the identifiers, each
is what `generate_unique_id` makes of its entity (`Filled`); with at most 20
characters nothing is cut off (`NothingCutOff`), and no two entities share both
part and name (`EntitiesDiffer`).

**What liveness rests on.** ENABLED and fairness are out of this prover's reach,
so that no liveness property is proved. What each of them needs besides is a fact
about single steps, and these are proved. `CallReturns`: a number bounded by the
attempts (`StepsLeft`) goes down with every step of main and never up, so that no
retry goes round for ever. `ReaderDeathEndsInReset`: while `poll_thread` is dead,
the time that the channel leaves only runs out; the same fact, that nothing but
the handler of a PINGRESP gives it any, is what the two others of that run need.
`RecoversOrResets`: main has a bounded number of steps to its next sleep
(`StepsToSleep`), and whatever it does without a clean turn ages the channel.
`TriggerIsCleared`: each turn is counted until there are enough, and there stay
enough when the count is brought back. `GoodNetworkEndsWait`: an added address is
not dropped before it is signalled, and the callback then lets main through.
`BootsOrResets`: whenever it has not come true, the watchdog may reset.
`SensorsRecover`, `OfflineWhenGone` and `ComesBack`: the state they end in is not
left again, and on a calm bus each command does what it is for; how that state is
reached, over which resets, is left to TLC.

Only model-checked, for these reasons: `CallReturns`, `ReaderDeathEndsInReset`,
`SilentBrokerEndsInReset`, `StaleFlagEnds`, `RecoversOrResets`,
`TriggerIsCleared`, `SensorsRecover`, `GoodNetworkEndsWait`, `OfflineWhenGone`,
`ComesBack` and `BootsOrResets`. Every other property of a passing run is proved.

## 5. Not modelled

- Subscriptions (`mqtt_subscribe_to_topic`, the PUBLISH event), CSL and
  poll-period setters, `openthread_is_ready`, and driver functions: no caller.
- The conversions of the drivers from words to temperatures and concentrations,
  and floating point: `MainLoop` takes a reading as a bounded integer. The SPS30 is
  modelled as enabled (`CONFIG_APP_ENABLE_SPS30`).
- Topics, JSON and log messages: formatting. Identifiers are modelled by what is
  cut off; that the SPS30 ends its serial number with a NUL is assumed.
- `fds[0].fd` is never set by `mqtt.c:57`. The poll is modelled as watching the
  right socket, which holds as long as that socket has number 0.
- A watchdog that keeps counting through a reset of another kind: every reset is
  taken to stop it.

## 6. Findings

`openthread_lost`: the boot log of the repository's `README.md` shows
"openthread ready!" (line 45) half a second before main comes to "waiting for
openthread to be ready" (line 57), and main goes on at once. In between, any
callback that does not bring an added address clears the event again
(`openthread.c:136`), whatever it is about. TLC's trace: the network becomes
good and is announced, one unrelated change is signalled, and main waits, on a
network that has been good all along, until another address happens to be
added or the watchdog resets the station.

`sensors_misdirected`: `hvac_sps30_i2c_read_data_as_bytes` sets the address that
the SCD40 and the SPS30 share and returns without setting it back when its write
(`hvac.c:359`) or its read (`hvac.c:365`) is refused; the SPS30's write function
does restore it. A turn later, `hvac_scd40_read_measurement`, which by
`hvac.h:353` reads the SCD40, addresses the SPS30. If the SPS30 refuses, the
SCD40 is reported as failing although nothing is wrong with it; if it answers,
its bytes are counted as CO2, because that read checks no CRC.
`MisdirectedByFailureOnly` and `SensorsRecover` bound the damage: it takes a
failure main was told of, and one SPS30 access that works ends it.

`home_assistant_lost`: `main.c:311` sets the device online a little after the
registrations "so HA gets time to process the sensor registrations first". The
registrations are published once per boot and with QoS 0. TLC's trace: main
registers all sensors, the messages are still on their way when the connection
is lost, `ha_set_online` connects again, and Home Assistant shows a device online
whose sensors it has never been told of. `SeenInOrder` shows that the order does
hold over a connection that lasts, and `ComesBack` that the reset in which every
lost connection ends makes up for it.

## 7. Plan

Done: all modules of section 2 and the proofs of section 4. What is left:

- `Station`: `MainLoop` over `MqttLink` with both watchdog channels in one time,
  so that retries and calls share the window, and the refinement of `MainLoop` by
  it.
