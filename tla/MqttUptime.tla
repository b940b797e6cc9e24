----------------------------- MODULE MqttUptime -----------------------------
(***************************************************************************)
(* How long the network and the broker may take before the mqtt watchdog   *)
(* channel resets a station that has nothing wrong with it.                *)
(*                                                                         *)
(* The steps are those of MqttClient; only the environment is restricted:  *)
(* the transport does not break, nothing else resets the station, the      *)
(* station gets a session within ConnectBy ticks of booting, and a ping is *)
(* answered and its answer handled within AnswerBy ticks.                  *)
(***************************************************************************)

EXTENDS MqttClient

CONSTANTS
  ConnectBy,   \* ticks after boot by which a call has set the session up
  AnswerBy     \* ticks after a ping by which its answer has fed the watchdog

ASSUME ConnectByAssumption == ConnectBy \in Nat \ {0}
ASSUME AnswerByAssumption == AnswerBy \in Nat \ {0}

\* The window of watchdog_new_channel holds the first connection, a keepalive
\* period and an answer; an answer comes before the next ping.
ASSUME WindowAssumption ==
  /\ AnswerBy < KeepAlive
  /\ ConnectBy + KeepAlive + AnswerBy < WdtTimeout

-----------------------------------------------------------------------------

\* An answer is outstanding until its handler has fed the watchdog.
PingOutstanding == pings > 0 \/ pingresps > 0 \/ Pending("pingresp")

\* What the environment owes the station before time may go on. Nothing is
\* owed for a reader that has returned: its packets stay unread.
Settled == mqtt_connected /\ ~Handshaking

SessionInTime == ~Settled => wdt_age < ConnectBy

AnswerInTime ==
  Settled /\ poll_thread # "dead" /\ PingOutstanding /\ keepalive_work > 0
    => KeepAlive - keepalive_work < AnswerBy

HealthyTick ==
  /\ SessionInTime
  /\ AnswerInTime
  /\ Tick

HealthyEnvironment ==
  BrokerConnack \/ BrokerPingresp \/ HealthyTick \/ DamagedTimeout
    \/ WatchdogReset

HealthyNext ==
  Main \/ PollWakes \/ PollInput \/ keepalive \/ Handler \/ HealthyEnvironment

HealthySpec == Init /\ [][HealthyNext]_vars

-----------------------------------------------------------------------------
(* Properties. *)

\* A healthy station is never reset by the mqtt watchdog channel: the first
\* connection, the keepalive chain and the reader leave room in the window.
NoWatchdogReset == wdt_age < WdtTimeout

\* Nothing but a lost connection damages the kernel's timeouts.
TimeoutsSound == ~work_damaged

=============================================================================
