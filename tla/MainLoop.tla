------------------------------ MODULE MainLoop ------------------------------
(***************************************************************************)
(* The main thread of the station, main() of src/app/src/main.c from the   *)
(* registration of the sensors on, with the accumulators of ha.c and the   *)
(* main channel of the hardware watchdog.                                  *)
(*                                                                         *)
(* A publish is atomic here and may succeed or fail at any time, which is  *)
(* all that MqttLink says of mqtt_publish_to_topic. Whether a publish that *)
(* succeeded arrives is another matter (QoS 0): see HomeAssistant.         *)
(*                                                                         *)
(* Time is counted in the sleeps of 10 s of the loop and of the retries.   *)
(* A call that blocks makes the window of the watchdog shorter, never      *)
(* longer: EarlyReset stands for it, and for the mqtt channel.             *)
(***************************************************************************)

EXTENDS Integers

CONSTANTS
  NumSensors,    \* sensors with a value, in the order they are sent
  NumDevices,    \* devices, in the order they are read
  DeviceOf,      \* the device each sensor is read from
  Lowest,        \* bounds of a reading
  Highest,
  Average,       \* NUMBER_OF_READINGS_IN_AVERAGE
  ClearAfter,    \* NUMBER_OF_LOOP_RESET_WATCHDOG_SENSOR
  WdtTimeout,    \* sleeps an unfed main channel lasts
  MaxMissed      \* bound: sends of a sensor that fail in a row

Sensors == 1 .. NumSensors
Devices == 1 .. NumDevices

ASSUME SizesAssumption ==
  /\ NumSensors \in Nat \ {0}
  /\ NumDevices \in Nat \ {0}
  /\ DeviceOf \in [Sensors -> Devices]
ASSUME ReadingAssumption ==
  /\ Lowest \in Int /\ Highest \in Int
  /\ Lowest <= Highest
ASSUME LoopAssumption ==
  /\ Average \in Nat \ {0}
  /\ ClearAfter \in Nat \ {0}
  /\ WdtTimeout \in Nat \ {0}
  /\ MaxMissed \in Nat

VARIABLES
  pc,                 \* where main is
  index,              \* the sensor or device that is next in that place
  main_loop_counter,  \* see Count
  non_fatal_error,    \* main's flag for this turn of the loop
  total_value,        \* of each sensor, what ha_add_sensor_reading summed
  number_of_values,   \* and how many readings that is
  binary_state,       \* of the watchdog sensor
  published,          \* history: the state main last published for it
  by_watchdog,        \* was the last reset a watchdog reset?
  wdt_age,            \* sleeps since the main channel was fed
  missed,             \* history: sends of each sensor failed in a row
  failed              \* history: something failed in this turn of the loop

accumulators == <<total_value, number_of_values>>
watchdog_sensor == <<binary_state, published, by_watchdog>>
turn == <<main_loop_counter, non_fatal_error>>
history == <<missed, failed>>
vars == <<pc, index, turn, accumulators, watchdog_sensor, wdt_age, history>>

Boot == {"register", "start", "settle", "online", "show"}
Loop == {"read", "send", "check", "clear", "epilogue", "sleep"}

\* Mutant: the counter starts again with every average.
CountOfAverage(n) == n % Average

\* The model's bound: main only increments its counter. Nothing but its remainder
\* by Average and its comparison with ClearAfter is used, so a counter that has
\* reached both goes back by a multiple of Average, which leaves both as they are.
Count(n) == IF n < ClearAfter + Average THEN n ELSE n - Average

TypeOK ==
  /\ pc \in Boot \cup Loop \cup {"returned"}
  /\ index \in 0 .. NumSensors + NumDevices
  /\ main_loop_counter \in 0 .. ClearAfter + Average
  /\ non_fatal_error \in BOOLEAN
  /\ total_value \in [Sensors -> Int]
  /\ number_of_values \in [Sensors -> Nat]
  /\ binary_state \in BOOLEAN
  /\ published \in {"none", "ON", "OFF"}
  /\ by_watchdog \in BOOLEAN
  /\ wdt_age \in 0 .. WdtTimeout
  /\ missed \in [Sensors -> 0 .. MaxMissed]
  /\ failed \in BOOLEAN

Init ==
  /\ pc = "register"
  /\ index = 0
  /\ main_loop_counter = 0
  /\ non_fatal_error = FALSE
  /\ total_value = [s \in Sensors |-> 0]
  /\ number_of_values = [s \in Sensors |-> 0]
  /\ binary_state = FALSE
  /\ published = "none"
  /\ by_watchdog \in BOOLEAN
  /\ wdt_age = 0
  /\ missed = [s \in Sensors |-> 0]
  /\ failed = FALSE

\* k_sleep of the loop or of a retry: the watchdog does not wait.
Sleep ==
  /\ wdt_age < WdtTimeout
  /\ wdt_age' = wdt_age + 1

Goto(place) ==
  /\ pc' = place
  /\ index' = 1

Stay == UNCHANGED <<pc, index>>

-----------------------------------------------------------------------------
(* main, before the loop. *)

\* register_sensor_retry of the watchdog sensor (0) and of each other.
RegisterOk ==
  /\ pc = "register"
  /\ IF index < NumSensors THEN pc' = pc /\ index' = index + 1 ELSE Goto("start")
  /\ UNCHANGED <<turn, accumulators, watchdog_sensor, wdt_age, history>>

BootRetry ==
  /\ pc \in {"register", "online", "show"}
  /\ Sleep
  /\ Stay
  /\ UNCHANGED <<turn, accumulators, watchdog_sensor, history>>

\* start_sensor_measurements; main returns if the HDC302x refuses.
Start ==
  /\ pc = "start"
  /\ Goto("settle") \/ Goto("returned")
  /\ UNCHANGED <<turn, accumulators, watchdog_sensor, wdt_age, history>>

Settle ==
  /\ pc = "settle"
  /\ Sleep
  /\ Goto("online")
  /\ UNCHANGED <<turn, accumulators, watchdog_sensor, history>>

\* set_online_retry, then ha_set_binary_sensor_state.
SetOnline ==
  /\ pc = "online"
  /\ binary_state' = by_watchdog
  /\ Goto("show")
  /\ UNCHANGED <<turn, accumulators, published, by_watchdog, wdt_age,
                 history>>

\* A call of ha_send_binary_sensor_state that reports success.
PublishState == published' = IF binary_state THEN "ON" ELSE "OFF"

\* Mutant: the first state is published once, whether that succeeds or not.
ShowOnce ==
  /\ pc = "show"
  /\ published' \in {published, IF binary_state THEN "ON" ELSE "OFF"}
  /\ Goto("read")
  /\ UNCHANGED <<turn, accumulators, binary_state, by_watchdog, wdt_age,
                 history>>

Show ==
  /\ pc = "show"
  /\ PublishState
  /\ Goto("read")
  /\ UNCHANGED <<turn, accumulators, binary_state, by_watchdog, wdt_age,
                 history>>

-----------------------------------------------------------------------------
(* The accumulators of ha.c. *)

\* ha_add_sensor_reading, for the sensors of one device.
ha_add_sensor_reading(device, value) ==
  LET read(s) == DeviceOf[s] = device IN
  /\ total_value' = [s \in Sensors |->
       IF read(s) THEN total_value[s] + value[s] ELSE total_value[s]]
  /\ number_of_values' = [s \in Sensors |->
       IF read(s) THEN number_of_values[s] + 1 ELSE number_of_values[s]]

\* Mutant: the sum is kept.
ResetCountOnly(s) ==
  /\ number_of_values' = [number_of_values EXCEPT ![s] = 0]
  /\ UNCHANGED total_value

\* Mutant: nothing is reset.
ResetNothing(s) == UNCHANGED accumulators

\* The end of ha_send_sensor_value, once the average was published.
ResetSensor(s) ==
  /\ total_value' = [total_value EXCEPT ![s] = 0]
  /\ number_of_values' = [number_of_values EXCEPT ![s] = 0]

-----------------------------------------------------------------------------
(* One turn of the loop. *)

SendIsDue == main_loop_counter % Average = 0

AfterRead ==
  IF index < NumDevices THEN pc' = pc /\ index' = index + 1
  ELSE IF SendIsDue THEN Goto("send") ELSE Goto("check")

ReadOk ==
  /\ pc = "read"
  /\ \E value \in [{s \in Sensors : DeviceOf[s] = index} -> Lowest .. Highest] :
       ha_add_sensor_reading(index, value)
  /\ AfterRead
  /\ UNCHANGED <<turn, watchdog_sensor, wdt_age, history>>

ReadFails ==
  /\ pc = "read"
  /\ non_fatal_error' = TRUE
  /\ failed' = TRUE
  /\ AfterRead
  /\ UNCHANGED <<main_loop_counter, accumulators, watchdog_sensor, wdt_age,
                 missed>>

AfterSend ==
  IF index < NumSensors THEN pc' = pc /\ index' = index + 1 ELSE Goto("check")

SendNothing ==
  /\ pc = "send"
  /\ number_of_values[index] = 0
  /\ AfterSend
  /\ UNCHANGED <<turn, accumulators, watchdog_sensor, wdt_age, history>>

SendOk ==
  /\ pc = "send"
  /\ number_of_values[index] # 0
  /\ ResetSensor(index)
  /\ missed' = [missed EXCEPT ![index] = 0]
  /\ AfterSend
  /\ UNCHANGED <<turn, watchdog_sensor, wdt_age, failed>>

SendError == non_fatal_error' = TRUE

SendFails ==
  /\ pc = "send"
  /\ number_of_values[index] # 0
  /\ missed[index] < MaxMissed    \* the model's bound
  /\ SendError
  /\ missed' = [missed EXCEPT ![index] = @ + 1]
  /\ failed' = TRUE
  /\ AfterSend
  /\ UNCHANGED <<main_loop_counter, accumulators, watchdog_sensor, wdt_age>>

ClearIsDue == main_loop_counter >= ClearAfter /\ binary_state

Check ==
  /\ pc = "check"
  /\ binary_state' = (binary_state /\ ~ClearIsDue)
  /\ IF ClearIsDue THEN Goto("clear") ELSE Goto("epilogue")
  /\ UNCHANGED <<turn, accumulators, published, by_watchdog, wdt_age,
                 history>>

\* send_binary_sensor_retry inside the loop: nothing is fed while it retries.
Clear ==
  /\ pc = "clear"
  /\ \/ PublishState /\ Goto("epilogue") /\ UNCHANGED wdt_age
     \/ Sleep /\ Stay /\ UNCHANGED published
  /\ UNCHANGED <<turn, accumulators, binary_state, by_watchdog, history>>

\* Mutant: the flag is not looked at.
FeedAlways == wdt_age' = 0

Feed == IF non_fatal_error THEN UNCHANGED wdt_age ELSE wdt_age' = 0

\* Mutant: the flag stays set.
KeepError == UNCHANGED non_fatal_error

ClearError == non_fatal_error' = FALSE

Epilogue ==
  /\ pc = "epilogue"
  /\ main_loop_counter' = Count(main_loop_counter + 1)
  /\ Feed
  /\ ClearError
  /\ failed' = FALSE
  /\ Goto("sleep")
  /\ UNCHANGED <<accumulators, watchdog_sensor, missed>>

NextTurn ==
  /\ pc = "sleep"
  /\ Sleep
  /\ Goto("read")
  /\ UNCHANGED <<turn, accumulators, watchdog_sensor, history>>

-----------------------------------------------------------------------------
(* Resets. *)

\* Everything starts again; what was published was.
Reboot ==
  /\ pc' = "register"
  /\ index' = 0
  /\ main_loop_counter' = 0
  /\ non_fatal_error' = FALSE
  /\ total_value' = [s \in Sensors |-> 0]
  /\ number_of_values' = [s \in Sensors |-> 0]
  /\ binary_state' = FALSE
  /\ wdt_age' = 0
  /\ missed' = [s \in Sensors |-> 0]
  /\ failed' = FALSE
  /\ UNCHANGED published

WatchdogReset ==
  /\ wdt_age = WdtTimeout
  /\ by_watchdog' = TRUE
  /\ Reboot

\* Main has returned: no sleep of its own counts, the watchdog does.
ReturnedReset ==
  /\ pc = "returned"
  /\ by_watchdog' = TRUE
  /\ Reboot

\* The mqtt channel, a call that blocked for too long, power or the button.
EarlyReset ==
  /\ by_watchdog' \in BOOLEAN
  /\ Reboot

Main ==
  \/ RegisterOk \/ BootRetry \/ Start \/ Settle \/ SetOnline \/ Show
  \/ ReadOk \/ ReadFails \/ SendNothing \/ SendOk \/ SendFails
  \/ Check \/ Clear \/ Epilogue \/ NextTurn

Next == Main \/ WatchdogReset \/ ReturnedReset \/ EarlyReset

Spec == Init /\ [][Next]_vars

\* Main and the watchdog keep going; nothing has to succeed, and nothing but
\* an expired channel has to reset the station.
Fairness == WF_vars(Main) /\ WF_vars(WatchdogReset) /\ WF_vars(ReturnedReset)

FairSpec == Spec /\ Fairness

-----------------------------------------------------------------------------
(* Properties. *)

\* What ha_send_sensor_value divides is the sum of exactly the readings it
\* counts: the average lies between the lowest and the highest reading, however
\* reads and sends of the sensors of one device succeed or fail.
AverageInRange == \A s \in Sensors :
  /\ number_of_values[s] * Lowest <= total_value[s]
  /\ total_value[s] <= number_of_values[s] * Highest

\* An average covers at most NUMBER_OF_READINGS_IN_AVERAGE readings, and that
\* many more for every send in a row that failed before it: failed sends keep
\* their readings, and successful ones never leave any behind.
WindowBound == \A s \in Sensors :
  number_of_values[s] <= Average * (missed[s] + 1)

\* The main channel is fed at the end of a turn exactly when nothing failed in
\* that turn: an error is not masked by a later success in the same turn, and
\* does not outlive its turn.
FeedIffClean ==
  [][pc = "epilogue" /\ pc' = "sleep" => (wdt_age' = 0 <=> ~failed)]_vars

\* Inside the loop, what main last published for the watchdog sensor is the state
\* it keeps for it, over failed publishes, cleared triggers and resets, but for
\* the time in which it retries the publish. (That it arrives is not claimed.)
PublishedIsCurrent ==
  pc \in Loop \ {"clear"} => published = IF binary_state THEN "ON" ELSE "OFF"

\* The state of a station that was reset just now; a retry makes wdt_age grow.
JustReset == pc = "register" /\ index = 0 /\ wdt_age = 0

\* "It's non-fatal but the watchdog will take action if it keeps happening":
\* the station always comes back to a turn in which nothing failed, or to a
\* reset. It is never stuck in a retry, in a failed start or in failing turns.
RecoversOrResets == []<>(JustReset \/ (pc = "epilogue" /\ ~failed))

\* A watchdog trigger does not stay set: the loop clears it, or the
\* station is reset.
TriggerIsCleared == (pc \in Loop /\ binary_state) ~> ~binary_state

=============================================================================
