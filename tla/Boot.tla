-------------------------------- MODULE Boot --------------------------------
(***************************************************************************)
(* The station from a reset to its main loop: main() of main.c up to the   *)
(* loop, the hardware watchdog as init_watchdog of init.c sets it up, the  *)
(* reset cause of reset.c and the Thread data that openthread.c erases.    *)
(*                                                                         *)
(* The hardware adds a bit to its register of causes at every reset, and   *)
(* only the code or a loss of power clears it (resetreas). So the cause    *)
(* main reads may hold the bits of earlier resets.                         *)
(*                                                                         *)
(* Time is left out: a watchdog that runs may reset at any time, for the   *)
(* sake of either channel. What the sensors and the broker make of a turn  *)
(* is the subject of MainLoop.                                             *)
(***************************************************************************)

EXTENDS Integers

CONSTANT
  OtherCauses    \* bits of the register besides the watchdog's and the pin's

ASSUME CausesAssumption == {"watchdog", "pin", "power"} \cap OtherCauses = {}

Bits == {"watchdog", "pin"} \cup OtherCauses

VARIABLES
  pc,                 \* where main is
  resetreas,          \* the bits set in the register of causes
  reset_cause,        \* main's copy of them
  driver,             \* what the watchdog driver will do in this boot
  channels,           \* the channels of the watchdog
  running,            \* was the watchdog started?
  main_wdt_chan_id,   \* main's variables
  mqtt_wdt_chan_id,
  wdt_channel_id,     \* the static of mqtt.c
  erased,             \* the Thread data in this boot: "no", "done" or "failed"
  failed,             \* did something fail in the last turn of the loop?
  last_reset,         \* history: what the last reset was
  uncleared           \* history: were there bits set before it?

register == <<resetreas, reset_cause>>
watchdog == <<driver, channels, running>>
ids == <<main_wdt_chan_id, mqtt_wdt_chan_id, wdt_channel_id>>
history == <<last_reset, uncleared>>
vars == <<pc, register, watchdog, ids, erased, failed, history>>

\* The driver is not ready, installs no channel, installs one, does not start,
\* or works.
DriverStates == {"down", "full", "one", "stuck", "works"}

Early == {"init_watchdog", "show"}
Late == {"setup", "wait", "mqtt", "register", "loop", "returned"}

TypeOK ==
  /\ pc \in Early \cup {"clear", "erase"} \cup Late
  /\ resetreas \subseteq Bits
  /\ reset_cause \subseteq Bits
  /\ driver \in DriverStates
  /\ channels \subseteq {0, 1}
  /\ running \in BOOLEAN
  /\ main_wdt_chan_id \in {-1, 0}
  /\ mqtt_wdt_chan_id \in {-1, 1}
  /\ wdt_channel_id \in {-1, 0, 1}
  /\ erased \in {"no", "done", "failed"}
  /\ failed \in BOOLEAN
  /\ last_reset \in Bits \cup {"power"}
  /\ uncleared \in BOOLEAN

Init ==
  /\ pc = "init_watchdog"
  /\ resetreas = {}
  /\ reset_cause = {}
  /\ driver \in DriverStates
  /\ channels = {}
  /\ running = FALSE
  /\ main_wdt_chan_id = -1
  /\ mqtt_wdt_chan_id = -1
  /\ wdt_channel_id = 0
  /\ erased = "no"
  /\ failed = FALSE
  /\ last_reset = "power"
  /\ uncleared = FALSE

-----------------------------------------------------------------------------
(* init.c and reset.c. *)

Goto(place) == pc' = place

\* The channels that watchdog_new_channel gets from the driver, in two calls.
Installed ==
  CASE driver \in {"down", "full"} -> {}
    [] driver = "one" -> {0}
    [] OTHER -> {0, 1}

\* Mutant: a call of wdt_setup that is forgotten.
InitNotStarted ==
  /\ pc = "init_watchdog"
  /\ channels' = Installed
  /\ main_wdt_chan_id' = IF 0 \in Installed THEN 0 ELSE -1
  /\ mqtt_wdt_chan_id' = IF 1 \in Installed THEN 1 ELSE -1
  /\ Goto("show")
  /\ UNCHANGED <<register, driver, running, wdt_channel_id, erased, failed,
                 history>>

\* Mutant: the two channels are handed out the other way round.
InitSwapped ==
  /\ pc = "init_watchdog"
  /\ channels' = Installed
  /\ main_wdt_chan_id' = IF 1 \in Installed THEN 1 ELSE -1
  /\ mqtt_wdt_chan_id' = IF 0 \in Installed THEN 0 ELSE -1
  /\ running' = (driver = "works")
  /\ Goto("show")
  /\ UNCHANGED <<register, driver, wdt_channel_id, erased, failed, history>>

\* It returns at the first call that fails. Main does not look at the result,
\* which is success if only wdt_setup failed.
init_watchdog ==
  /\ pc = "init_watchdog"
  /\ channels' = Installed
  /\ main_wdt_chan_id' = IF 0 \in Installed THEN 0 ELSE -1
  /\ mqtt_wdt_chan_id' = IF 1 \in Installed THEN 1 ELSE -1
  /\ running' = (driver = "works")
  /\ Goto("show")
  /\ UNCHANGED <<register, driver, wdt_channel_id, erased, failed, history>>

\* Mutant: the register is cleared before it is read.
ShowAfterClear ==
  /\ pc = "show"
  /\ resetreas' = {}
  /\ reset_cause' \in {{}, Bits}
  /\ Goto("clear")
  /\ UNCHANGED <<watchdog, ids, erased, failed, history>>

\* A negative error, taken for a cause, has most of the bits set.
show_reset_cause ==
  /\ pc = "show"
  /\ reset_cause' \in {resetreas, Bits}
  /\ Goto("clear")
  /\ UNCHANGED <<resetreas, watchdog, ids, erased, failed, history>>

\* The result is not looked at.
clear_reset_cause ==
  /\ pc = "clear"
  /\ resetreas' \in {{}, resetreas}
  /\ Goto("erase")
  /\ UNCHANGED <<reset_cause, watchdog, ids, erased, failed, history>>

\* Mutant: the bit is tested.
HasWatchdogBit(cause) == "watchdog" \in cause

is_reset_cause_watchdog(cause) == cause = {"watchdog"}

is_reset_cause_button(cause) == cause = {"pin"}

-----------------------------------------------------------------------------
(* main. *)

\* The Thread data is erased after a reset by the watchdog or the button, and
\* main goes on if that fails.
openthread_erase_persistent_info ==
  /\ pc = "erase"
  /\ IF is_reset_cause_watchdog(reset_cause) \/ is_reset_cause_button(reset_cause)
       THEN erased' \in {"done", "failed"}
       ELSE UNCHANGED erased
  /\ Goto("setup")
  /\ UNCHANGED <<register, watchdog, ids, failed, history>>

\* OpenThread, the two click boards and the identifiers; main returns if one
\* of them fails.
SetUp ==
  /\ pc = "setup"
  /\ Goto("wait") \/ Goto("returned")
  /\ UNCHANGED <<register, watchdog, ids, erased, failed, history>>

openthread_wait_for_ready ==
  /\ pc = "wait"
  /\ Goto("mqtt")
  /\ UNCHANGED <<register, watchdog, ids, erased, failed, history>>

\* Mutant: the client is not told its channel.
NoMqttChannel ==
  /\ pc = "mqtt"
  /\ Goto("register")
  /\ UNCHANGED <<register, watchdog, ids, erased, failed, history>>

mqtt_watchdog_init ==
  /\ pc = "mqtt"
  /\ wdt_channel_id' = mqtt_wdt_chan_id
  /\ Goto("register")
  /\ UNCHANGED <<register, watchdog, main_wdt_chan_id, mqtt_wdt_chan_id, erased,
                 failed, history>>

\* The registrations end, and the sensors are started or main returns.
Register ==
  /\ pc = "register"
  /\ Goto("loop") \/ Goto("returned")
  /\ UNCHANGED <<register, watchdog, ids, erased, failed, history>>

\* A turn of the loop, in which something fails or not.
Turn ==
  /\ pc = "loop"
  /\ failed' \in BOOLEAN
  /\ UNCHANGED <<pc, register, watchdog, ids, erased, history>>

-----------------------------------------------------------------------------
(* Resets. *)

\* The hardware adds its bit; a loss of power clears them all. Every reset
\* stops the watchdog.
Restart(cause) ==
  /\ pc' = "init_watchdog"
  /\ resetreas' = IF cause = "power" THEN {} ELSE resetreas \cup {cause}
  /\ uncleared' = (cause # "power" /\ resetreas # {})
  /\ last_reset' = cause
  /\ reset_cause' = {}
  /\ driver' \in DriverStates
  /\ channels' = {}
  /\ running' = FALSE
  /\ main_wdt_chan_id' = -1
  /\ mqtt_wdt_chan_id' = -1
  /\ wdt_channel_id' = 0
  /\ erased' = "no"
  /\ failed' = FALSE

WatchdogReset ==
  /\ running
  /\ Restart("watchdog")

\* Its reset of a station that does not feed the main channel.
Unfed == pc # "loop" \/ failed
UnfedReset == Unfed /\ WatchdogReset

OtherReset == \E cause \in {"pin", "power"} \cup OtherCauses : Restart(cause)

\* The steps of main that cannot be kept waiting.
Straight ==
  \/ init_watchdog \/ show_reset_cause \/ clear_reset_cause
  \/ openthread_erase_persistent_info \/ SetUp \/ mqtt_watchdog_init

Next ==
  \/ Straight \/ openthread_wait_for_ready \/ Register \/ Turn
  \/ WatchdogReset \/ OtherReset

Spec == Init /\ [][Next]_vars

\* Main goes on, except that the network or the broker may keep it for ever, and
\* that turns may fail for ever; a running watchdog resets a station it is not
\* fed by.
FairSpec == Spec /\ WF_vars(Straight) /\ WF_vars(UnfedReset)

-----------------------------------------------------------------------------
(* Properties. *)

\* Main takes a reset for the watchdog's only if the last one was, and erases
\* the Thread data after no other reset than the watchdog's and the button's,
\* whatever bits earlier resets have left and even if the cause cannot be read.
CauseIsTrue == pc \notin Early =>
  /\ is_reset_cause_watchdog(reset_cause) => last_reset = "watchdog"
  /\ erased # "no" => last_reset \in {"watchdog", "pin"}

\* A reset by the watchdog or the button is acted on, unless the cause cannot
\* be read or bits of an earlier reset had not been cleared.
CauseIsHeeded ==
  pc \in Late /\ reset_cause # Bits /\ ~uncleared =>
    /\ last_reset \in {"watchdog", "pin"} => erased # "no"
    /\ last_reset = "watchdog" => is_reset_cause_watchdog(reset_cause)

\* Once the client is set up, each channel of a running watchdog is fed by one
\* of the two that know it and by nobody else: no failure of the set-up leaves
\* the watchdog running with a channel that nobody feeds, or both feeding one.
OwnChannels ==
  running /\ pc \in {"register", "loop"} =>
    /\ channels = {main_wdt_chan_id, wdt_channel_id}
    /\ main_wdt_chan_id # wdt_channel_id

JustReset == pc = "init_watchdog"
CleanTurn == pc = "loop" /\ ~failed

\* A station whose watchdog driver works always comes to a turn in which nothing
\* failed, or to a reset, wherever main returned or has been kept waiting.
BootsOrResets == [](driver = "works") => []<>(JustReset \/ CleanTurn)

=============================================================================
