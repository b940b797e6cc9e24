--------------------------- MODULE MainLoop_proofs ---------------------------
(***************************************************************************)
(* Safety of the main loop for every number of sensors and devices, every  *)
(* range of readings and every value of the loop's constants.              *)
(*                                                                         *)
(* Two facts close the invariants. The flag that main keeps is the history *)
(* of the turn (ErrorIsKnown), and main has slept since the channel was    *)
(* last fed whenever it comes to feed it (HasSlept): so a channel that is  *)
(* not fed is not at zero by accident. How many readings an average covers *)
(* is bounded by what each place of a turn allows (Slack).                 *)
(***************************************************************************)

EXTENDS MainLoop, TLAPS

Booleans ==
  /\ non_fatal_error \in BOOLEAN
  /\ binary_state \in BOOLEAN
  /\ by_watchdog \in BOOLEAN
  /\ failed \in BOOLEAN

Places ==
  /\ pc \in Boot \cup Loop \cup {"returned"}
  /\ index \in 0 .. NumSensors + NumDevices
  /\ pc = "register" => index \in 0 .. NumSensors
  /\ pc = "read" => index \in Devices
  /\ pc = "send" => index \in Sensors

Ages ==
  /\ main_loop_counter \in 0 .. ClearAfter + Average
  /\ wdt_age \in 0 .. WdtTimeout

Sums ==
  /\ total_value \in [Sensors -> Int]
  /\ number_of_values \in [Sensors -> Nat]
  /\ missed \in [Sensors -> 0 .. MaxMissed]

\* The flag that main keeps says whether something failed in this turn.
ErrorIsKnown == non_fatal_error <=> failed

\* Main has slept since the channel was fed, but for the end of a turn.
HasSlept ==
  pc \in {"online", "show", "read", "send", "check", "clear", "epilogue"}
    => wdt_age > 0

PublishedIsKnown == published \in {"none", "ON", "OFF"}

Inv ==
  /\ Booleans
  /\ Places
  /\ Ages
  /\ Sums
  /\ AverageInRange
  /\ PublishedIsKnown
  /\ PublishedIsCurrent
  /\ ErrorIsKnown
  /\ HasSlept

Constants ==
  /\ NumSensors \in Nat \ {0} /\ NumDevices \in Nat \ {0}
  /\ ClearAfter \in Nat \ {0} /\ Average \in Nat \ {0}
  /\ WdtTimeout \in Nat \ {0} /\ MaxMissed \in Nat
  /\ Lowest \in Int /\ Highest \in Int

\* What the module assumes of its constants, in one fact.
LEMMA ConstantsOK == Constants
BY SizesAssumption, ReadingAssumption, LoopAssumption DEF Constants

\* One more reading of a value within the bounds.
LEMMA OneMore ==
  ASSUME NEW n \in Nat, NEW t \in Int, NEW v \in Lowest .. Highest,
         n * Lowest <= t, t <= n * Highest
  PROVE  (n + 1) * Lowest <= t + v /\ t + v <= (n + 1) * Highest
<1>1. Lowest \in Int /\ Highest \in Int
  BY ReadingAssumption
<1>2. n * Lowest \in Int /\ n * Highest \in Int
  BY <1>1
<1>3. (n + 1) * Lowest = n * Lowest + Lowest
  BY <1>1
<1>4. (n + 1) * Highest = n * Highest + Highest
  BY <1>1
<1> QED BY <1>1, <1>2, <1>3, <1>4

\* A sum over no readings is in range.
LEMMA ZeroInRange == 0 * Lowest = 0 /\ 0 * Highest = 0
BY ReadingAssumption

\* The invariant holds of a station that starts.
LEMMA InitInv == Init => Inv
<1> SUFFICES ASSUME Init PROVE Inv
  OBVIOUS
<1> USE ConstantsOK DEF Constants
<1>1. Booleans /\ ErrorIsKnown
  BY Zenon DEF Init, Booleans, ErrorIsKnown
<1>2. Places /\ Ages /\ PublishedIsKnown /\ PublishedIsCurrent /\ HasSlept
  BY DEF Init, Places, Boot, Loop, Ages, PublishedIsKnown, PublishedIsCurrent, HasSlept
<1>3. Sums
  BY DEF Init, Sums
<1>4. AverageInRange
  BY ZeroInRange DEF Init, AverageInRange
<1> QED BY <1>1, <1>2, <1>3, <1>4 DEF Inv

-----------------------------------------------------------------------------
(* One lemma per part of the invariant. *)

\* The flags stay Boolean.
LEMMA BooleansNext == ASSUME Inv, Next PROVE Booleans'
<1> USE DEF Inv, Booleans
<1>1. CASE RegisterOk \/ BootRetry \/ Start \/ Settle \/ SetOnline \/ Show
  BY <1>1, Zenon DEF RegisterOk, BootRetry, Start, Settle, SetOnline, Show,
                     turn, watchdog_sensor, history
<1>2. CASE ReadOk \/ ReadFails \/ SendNothing \/ SendOk \/ SendFails
  BY <1>2, Zenon DEF ReadOk, ReadFails, SendNothing, SendOk, SendFails,
                     SendError, turn, watchdog_sensor, history
<1>3. CASE Check \/ Clear \/ Epilogue \/ NextTurn
  BY <1>3, Zenon DEF Check, Clear, Epilogue, ClearError, NextTurn,
                     turn, watchdog_sensor, history
<1>4. CASE WatchdogReset \/ ReturnedReset \/ EarlyReset
  BY <1>4, Zenon DEF WatchdogReset, ReturnedReset, EarlyReset, Reboot
<1> QED BY <1>1, <1>2, <1>3, <1>4, Zenon DEF Next, Main

\* The flag and the history change together.
LEMMA ErrorIsKnownNext == ASSUME Inv, Next PROVE ErrorIsKnown'
<1> DEFINE Kept == non_fatal_error' = non_fatal_error /\ failed' = failed
           Set == non_fatal_error' = TRUE /\ failed' = TRUE
           Cleared == non_fatal_error' = FALSE /\ failed' = FALSE
<1>1. CASE RegisterOk \/ BootRetry \/ Start \/ Settle \/ SetOnline \/ Show
  <2>1. Kept
    BY <1>1 DEF RegisterOk, BootRetry, Start, Settle, SetOnline, Show, turn,
                history
  <2> QED BY <2>1, Zenon DEF Inv, ErrorIsKnown
<1>2. CASE ReadOk \/ SendNothing \/ SendOk \/ Check \/ Clear \/ NextTurn
  <2>1. Kept
    BY <1>2 DEF ReadOk, SendNothing, SendOk, Check, Clear, NextTurn, turn,
                history
  <2> QED BY <2>1, Zenon DEF Inv, ErrorIsKnown
<1>3. CASE ReadFails \/ SendFails
  <2>1. Set
    BY <1>3 DEF ReadFails, SendFails, SendError
  <2> QED BY <2>1, Zenon DEF ErrorIsKnown
<1>4. CASE Epilogue
  <2>1. Cleared
    BY <1>4 DEF Epilogue, ClearError
  <2> QED BY <2>1, Zenon DEF ErrorIsKnown
<1>5. CASE WatchdogReset \/ ReturnedReset \/ EarlyReset
  <2>1. Cleared
    BY <1>5 DEF WatchdogReset, ReturnedReset, EarlyReset, Reboot
  <2> QED BY <2>1, Zenon DEF ErrorIsKnown
<1> QED BY <1>1, <1>2, <1>3, <1>4, <1>5, Zenon DEF Next, Main

\* The index fits the place of main: a device to read, a sensor to send.
LEMMA PlacesNext == ASSUME Inv, Next PROVE Places'
<1> USE ConstantsOK DEF Constants, Inv, Places, Boot, Loop, Goto, Stay,
                        Sensors, Devices
<1>1. CASE RegisterOk \/ BootRetry \/ Start \/ Settle \/ SetOnline \/ Show
  BY <1>1 DEF RegisterOk, BootRetry, Start, Settle, SetOnline, Show
<1>2. CASE ReadOk \/ ReadFails
  BY <1>2 DEF ReadOk, ReadFails, AfterRead
<1>3. CASE SendNothing \/ SendOk \/ SendFails
  BY <1>3 DEF SendNothing, SendOk, SendFails, AfterSend
<1>4. CASE Check \/ Clear \/ Epilogue \/ NextTurn
  BY <1>4 DEF Check, Clear, Epilogue, NextTurn
<1>5. CASE WatchdogReset \/ ReturnedReset \/ EarlyReset
  BY <1>5 DEF WatchdogReset, ReturnedReset, EarlyReset, Reboot
<1> QED BY <1>1, <1>2, <1>3, <1>4, <1>5 DEF Next, Main

\* The loop counter and the age of the channel keep their bounds.
LEMMA AgesNext == ASSUME Inv, Next PROVE Ages'
<1> USE ConstantsOK DEF Constants, Inv, Ages, Sleep
<1>1. CASE RegisterOk \/ BootRetry \/ Start \/ Settle \/ SetOnline \/ Show
  BY <1>1 DEF RegisterOk, BootRetry, Start, Settle, SetOnline, Show, turn
<1>2. CASE ReadOk \/ ReadFails \/ SendNothing \/ SendOk \/ SendFails
  BY <1>2 DEF ReadOk, ReadFails, SendNothing, SendOk, SendFails, turn
<1>3. CASE Check \/ Clear \/ NextTurn
  BY <1>3 DEF Check, Clear, NextTurn, turn
<1>4. CASE Epilogue
  BY <1>4 DEF Epilogue, Count, Feed
<1>5. CASE WatchdogReset \/ ReturnedReset \/ EarlyReset
  BY <1>5 DEF WatchdogReset, ReturnedReset, EarlyReset, Reboot
<1> QED BY <1>1, <1>2, <1>3, <1>4, <1>5 DEF Next, Main

\* Main sleeps before every turn, so the channel is older than zero in it.
LEMMA HasSleptNext == ASSUME Inv, Next PROVE HasSlept'
<1> USE ConstantsOK DEF Constants, Inv, HasSlept, Ages, Sleep, Goto, Stay
<1>1. CASE RegisterOk \/ BootRetry \/ Start \/ Settle \/ SetOnline \/ Show
  BY <1>1 DEF RegisterOk, BootRetry, Start, Settle, SetOnline, Show
<1>2. CASE ReadOk \/ ReadFails
  BY <1>2 DEF ReadOk, ReadFails, AfterRead
<1>3. CASE SendNothing \/ SendOk \/ SendFails
  BY <1>3 DEF SendNothing, SendOk, SendFails, AfterSend
<1>4. CASE Check \/ Clear \/ Epilogue \/ NextTurn
  BY <1>4 DEF Check, Clear, Epilogue, NextTurn
<1>5. CASE WatchdogReset \/ ReturnedReset \/ EarlyReset
  BY <1>5 DEF WatchdogReset, ReturnedReset, EarlyReset, Reboot
<1> QED BY <1>1, <1>2, <1>3, <1>4, <1>5 DEF Next, Main

\* Only two steps inside the loop touch the state that was published or the one
\* that main keeps: Check, which goes to "clear" when it changes it, and Clear.
LEMMA PublishedNext == ASSUME Inv, Next PROVE PublishedIsKnown' /\ PublishedIsCurrent'
<1> USE DEF Inv, PublishedIsKnown, PublishedIsCurrent, Boot, Loop, Goto, Stay
<1>1. CASE RegisterOk \/ BootRetry \/ Start \/ Settle \/ SetOnline
  BY <1>1 DEF RegisterOk, BootRetry, Start, Settle, SetOnline, watchdog_sensor
<1>2. CASE Show
  BY <1>2 DEF Show, PublishState
<1>3. CASE ReadOk \/ ReadFails
  BY <1>3 DEF ReadOk, ReadFails, AfterRead, watchdog_sensor
<1>4. CASE SendNothing \/ SendOk \/ SendFails
  BY <1>4 DEF SendNothing, SendOk, SendFails, AfterSend, watchdog_sensor
<1>5. CASE Check
  <2>1. CASE ClearIsDue
    BY <1>5, <2>1 DEF Check
  <2>2. CASE ~ClearIsDue
    BY <1>5, <2>2 DEF Check
  <2> QED BY <2>1, <2>2
<1>6. CASE Clear
  BY <1>6 DEF Clear, PublishState
<1>7. CASE Epilogue \/ NextTurn
  BY <1>7 DEF Epilogue, NextTurn, watchdog_sensor
<1>8. CASE WatchdogReset \/ ReturnedReset \/ EarlyReset
  BY <1>8 DEF WatchdogReset, ReturnedReset, EarlyReset, Reboot
<1> QED BY <1>1, <1>2, <1>3, <1>4, <1>5, <1>6, <1>7, <1>8 DEF Next, Main

-----------------------------------------------------------------------------
(* The accumulators. *)

\* A read adds one reading to each sensor of its device.
LEMMA ReadSums == ASSUME Inv, ReadOk PROVE Sums' /\ AverageInRange'
<1>1. PICK value \in [{s \in Sensors : DeviceOf[s] = index} -> Lowest .. Highest] :
        ha_add_sensor_reading(index, value)
  BY DEF ReadOk
<1>2. missed' = missed
  BY DEF ReadOk, history
<1>3. ASSUME NEW s \in Sensors, DeviceOf[s] = index
      PROVE  /\ number_of_values'[s] = number_of_values[s] + 1
             /\ total_value'[s] = total_value[s] + value[s]
             /\ value[s] \in Lowest .. Highest
  BY <1>1, <1>3 DEF ha_add_sensor_reading
<1>4. ASSUME NEW s \in Sensors, DeviceOf[s] # index
      PROVE  /\ number_of_values'[s] = number_of_values[s]
             /\ total_value'[s] = total_value[s]
  BY <1>1, <1>4 DEF ha_add_sensor_reading
<1>5. Sums'
  <2>1. ASSUME NEW s \in Sensors
        PROVE  number_of_values'[s] \in Nat /\ total_value'[s] \in Int
    BY <1>3, <1>4, ConstantsOK DEF Inv, Sums, Constants
  <2>2. /\ total_value' = [s \in Sensors |-> total_value'[s]]
        /\ number_of_values' = [s \in Sensors |-> number_of_values'[s]]
    BY <1>1 DEF ha_add_sensor_reading
  <2> QED BY <1>2, <2>1, <2>2 DEF Inv, Sums
<1>6. AverageInRange'
  <2> SUFFICES ASSUME NEW s \in Sensors
               PROVE  /\ number_of_values'[s] * Lowest <= total_value'[s]
                      /\ total_value'[s] <= number_of_values'[s] * Highest
    BY DEF AverageInRange
  <2>1. /\ number_of_values[s] \in Nat /\ total_value[s] \in Int
        /\ number_of_values[s] * Lowest <= total_value[s]
        /\ total_value[s] <= number_of_values[s] * Highest
    BY DEF Inv, Sums, AverageInRange
  <2>2. CASE DeviceOf[s] = index
    BY <1>3, <2>1, <2>2, OneMore
  <2>3. CASE DeviceOf[s] # index
    BY <1>4, <2>1, <2>3
  <2> QED BY <2>2, <2>3
<1> QED BY <1>5, <1>6

\* A function that is changed at one place keeps its type.
LEMMA ReplacedStaysTyped ==
  ASSUME NEW T, NEW f \in [Sensors -> T], NEW s, NEW x \in T
  PROVE  [f EXCEPT ![s] = x] \in [Sensors -> T]
OBVIOUS

\* An average that was sent leaves nothing behind.
LEMMA SendSums == ASSUME Inv, SendOk PROVE Sums' /\ AverageInRange'
<1>1. /\ total_value' = [total_value EXCEPT ![index] = 0]
      /\ number_of_values' = [number_of_values EXCEPT ![index] = 0]
      /\ missed' = [missed EXCEPT ![index] = 0]
  BY DEF SendOk, ResetSensor
<1>2. Sums'
  <2>1. /\ total_value \in [Sensors -> Int]
        /\ number_of_values \in [Sensors -> Nat]
        /\ missed \in [Sensors -> 0 .. MaxMissed]
    BY DEF Inv, Sums
  <2>2. 0 \in Int /\ 0 \in Nat /\ 0 \in 0 .. MaxMissed
    BY ConstantsOK DEF Constants
  <2>3. total_value' \in [Sensors -> Int]
    BY <1>1, <2>1, <2>2, ReplacedStaysTyped, Zenon
  <2>4. number_of_values' \in [Sensors -> Nat]
    BY <1>1, <2>1, <2>2, ReplacedStaysTyped, Zenon
  <2>5. missed' \in [Sensors -> 0 .. MaxMissed]
    BY <1>1, <2>1, <2>2, ReplacedStaysTyped, Zenon
  <2> QED BY <2>3, <2>4, <2>5 DEF Sums
<1>3. AverageInRange'
  <2> SUFFICES ASSUME NEW s \in Sensors
               PROVE  /\ number_of_values'[s] * Lowest <= total_value'[s]
                      /\ total_value'[s] <= number_of_values'[s] * Highest
    BY DEF AverageInRange
  <2>1. CASE s = index
    <3>1. number_of_values'[s] = 0 /\ total_value'[s] = 0
      BY <1>1, <2>1 DEF Inv, Sums
    <3> QED BY <3>1, ZeroInRange
  <2>2. CASE s # index
    <3>1. /\ number_of_values'[s] = number_of_values[s]
          /\ total_value'[s] = total_value[s]
      BY <1>1, <2>2 DEF Inv, Sums
    <3> QED BY <3>1 DEF Inv, AverageInRange
  <2> QED BY <2>1, <2>2
<1> QED BY <1>2, <1>3

\* A restart empties the accumulators.
LEMMA RebootSums == ASSUME Reboot PROVE Sums' /\ AverageInRange'
<1>1. Sums'
  BY ConstantsOK DEF Reboot, Sums, Constants
<1>2. AverageInRange'
  BY ZeroInRange DEF Reboot, AverageInRange
<1> QED BY <1>1, <1>2

\* Every step keeps the accumulators typed and their averages in range.
LEMMA SumsNext == ASSUME Inv, Next PROVE Sums' /\ AverageInRange'
<1>1. CASE UNCHANGED <<accumulators, missed>>
  BY <1>1 DEF Inv, Sums, AverageInRange, accumulators
<1>2. CASE ReadOk
  BY <1>2, ReadSums
<1>3. CASE SendOk
  BY <1>3, SendSums
<1>4. CASE SendFails
  <2>1. /\ missed' = [missed EXCEPT ![index] = @ + 1]
        /\ missed[index] < MaxMissed
        /\ index \in Sensors
        /\ UNCHANGED accumulators
    BY <1>4 DEF SendFails, Inv, Places
  <2>2. Sums'
    BY <2>1, ConstantsOK DEF Inv, Sums, Constants, accumulators
  <2>3. AverageInRange'
    BY <2>1 DEF Inv, AverageInRange, accumulators
  <2> QED BY <2>2, <2>3
<1>5. CASE WatchdogReset \/ ReturnedReset \/ EarlyReset
  BY <1>5, RebootSums DEF WatchdogReset, ReturnedReset, EarlyReset
<1>6. CASE RegisterOk \/ BootRetry \/ Start \/ Settle \/ SetOnline \/ Show
  BY <1>1, <1>6 DEF RegisterOk, BootRetry, Start, Settle, SetOnline, Show, history
<1>7. CASE ReadFails \/ SendNothing \/ Check \/ Clear \/ Epilogue \/ NextTurn
  BY <1>1, <1>7 DEF ReadFails, SendNothing, Check, Clear, Epilogue, NextTurn,
                    history
<1> QED BY <1>2, <1>3, <1>4, <1>5, <1>6, <1>7 DEF Next, Main

-----------------------------------------------------------------------------

\* Every step preserves the invariant.
LEMMA InvNext == Inv /\ [Next]_vars => Inv'
<1> SUFFICES ASSUME Inv, [Next]_vars PROVE Inv'
  OBVIOUS
<1>1. CASE Next
  BY <1>1, BooleansNext, PlacesNext, AgesNext, SumsNext, PublishedNext,
     ErrorIsKnownNext, HasSleptNext DEF Inv
<1>2. CASE UNCHANGED vars
  <2> USE <1>2 DEF vars, turn, accumulators, watchdog_sensor, history, Inv
  <2>1. Booleans' /\ ErrorIsKnown'
    BY Zenon DEF Booleans, ErrorIsKnown
  <2>2. Places' /\ Ages' /\ PublishedIsKnown' /\ PublishedIsCurrent' /\ HasSlept'
    BY DEF Places, Ages, PublishedIsKnown, PublishedIsCurrent, HasSlept
  <2>3. Sums' /\ AverageInRange'
    BY DEF Sums, AverageInRange
  <2> QED BY <2>1, <2>2, <2>3
<1> QED BY <1>1, <1>2

\* The inductive invariant of main() and of the accumulators of ha.c holds,
\* whatever reads, sends and resets do.
THEOREM Invariance == Spec => []Inv
BY InitInv, InvNext, PTL DEF Spec

\* The variables of main() and ha.c keep their types.
THEOREM TypeCorrect == Spec => []TypeOK
<1>1. Inv => TypeOK
  <2> SUFFICES ASSUME Inv PROVE TypeOK
    OBVIOUS
  <2>1. /\ non_fatal_error \in BOOLEAN /\ binary_state \in BOOLEAN
        /\ by_watchdog \in BOOLEAN /\ failed \in BOOLEAN
    BY Zenon DEF Inv, Booleans
  <2> QED BY <2>1, Zenon DEF Inv, Places, Ages, Sums, PublishedIsKnown, TypeOK
<1> QED BY <1>1, Invariance, PTL

\* ha_send_sensor_value sends the average of readings: it lies between the
\* lowest and the highest of them, however many failed.
THEOREM AverageIsInRange == Spec => []AverageInRange
<1>1. Inv => AverageInRange
  BY DEF Inv
<1> QED BY <1>1, Invariance, PTL

\* Inside main's loop the last publish is of the state main keeps, but
\* while send_binary_sensor_retry retries.
THEOREM PublishedIsCurrentAlways == Spec => []PublishedIsCurrent
<1>1. Inv => PublishedIsCurrent
  BY DEF Inv
<1> QED BY <1>1, Invariance, PTL

\* The end of main's loop feeds the main channel exactly when nothing failed in
\* the turn.
THEOREM FedIffClean == Spec => FeedIffClean
<1>1. Inv /\ [Next]_vars =>
        [pc = "epilogue" /\ pc' = "sleep" => (wdt_age' = 0 <=> ~failed)]_vars
  <2> SUFFICES ASSUME Inv, Next, pc = "epilogue", pc' = "sleep"
               PROVE  wdt_age' = 0 <=> ~failed
    BY DEF vars
  <2>1. Epilogue
    BY DEF Next, Main, RegisterOk, BootRetry, Start, Settle, SetOnline, Show,
           ReadOk, ReadFails, SendNothing, SendOk, SendFails, Check, Clear,
           NextTurn, WatchdogReset, ReturnedReset, EarlyReset, Reboot
  <2>2. wdt_age > 0
    BY DEF Inv, HasSlept
  <2>3. wdt_age \in Nat
    BY ConstantsOK DEF Inv, Ages, Constants
  <2>4. non_fatal_error <=> failed
    BY DEF Inv, ErrorIsKnown
  <2>5. CASE failed
    BY <2>1, <2>2, <2>3, <2>4, <2>5 DEF Epilogue, Feed
  <2>6. CASE ~failed
    BY <2>1, <2>4, <2>6 DEF Epilogue, Feed
  <2> QED BY <2>5, <2>6
<1> QED BY <1>1, Invariance, PTL DEF Spec, FeedIffClean

-----------------------------------------------------------------------------
(* What RecoversOrResets rests on besides fairness: main cannot go on without *)
(* feeding the channel and without ageing it.                                *)

\* How many steps main can take before it sleeps or retries, at most.
StepsToSleep ==
  CASE pc = "register" -> NumSensors - index + 2
    [] pc = "start" -> 1
    [] pc = "online" -> NumSensors + NumDevices + 5
    [] pc = "show" -> NumSensors + NumDevices + 4
    [] pc = "read" -> NumSensors + NumDevices - index + 4
    [] pc = "send" -> NumSensors - index + 4
    [] pc = "check" -> 3
    [] pc = "clear" -> 2
    [] pc = "epilogue" -> 1
    [] OTHER -> 0

\* The number is bounded by the sensors and devices of a turn.
SleepIsNear == StepsToSleep \in 0 .. NumSensors + NumDevices + 5

\* A step of main that leaves the age of the channel alone brings main nearer to
\* its next sleep, and only the end of a turn in which nothing failed takes the
\* age back.
TurnsAge == [][Main =>
  \/ wdt_age' = wdt_age + 1
  \/ pc = "epilogue" /\ ~failed /\ wdt_age' = 0
  \/ wdt_age' = wdt_age /\ StepsToSleep' < StepsToSleep]_vars

\* The steps before the loop: each sleeps or goes on to the next place.
LEMMA BootAges ==
  ASSUME Inv, RegisterOk \/ BootRetry \/ Start \/ Settle \/ SetOnline \/ Show
  PROVE  \/ wdt_age' = wdt_age + 1
         \/ wdt_age' = wdt_age /\ StepsToSleep' < StepsToSleep
<1>1. /\ NumSensors \in Nat \ {0} /\ NumDevices \in Nat \ {0}
      /\ pc = "register" => index \in 0 .. NumSensors
  BY ConstantsOK DEF Constants, Inv, Places
<1> USE DEF Goto, Stay, StepsToSleep
<1>2. CASE RegisterOk
  BY <1>1, <1>2 DEF RegisterOk
<1>3. CASE BootRetry \/ Settle
  BY <1>3 DEF BootRetry, Settle, Sleep
<1>4. CASE Start \/ SetOnline \/ Show
  BY <1>1, <1>4 DEF Start, SetOnline, Show
<1> QED BY <1>2, <1>3, <1>4

\* The steps of a turn but for its end.
LEMMA TurnAges ==
  ASSUME Inv, \/ ReadOk \/ ReadFails \/ SendNothing \/ SendOk \/ SendFails
              \/ Check \/ Clear \/ NextTurn
  PROVE  \/ wdt_age' = wdt_age + 1
         \/ wdt_age' = wdt_age /\ StepsToSleep' < StepsToSleep
<1>1. /\ NumSensors \in Nat \ {0} /\ NumDevices \in Nat \ {0}
      /\ pc = "read" => index \in 1 .. NumDevices
      /\ pc = "send" => index \in 1 .. NumSensors
  BY ConstantsOK DEF Constants, Inv, Places, Sensors, Devices
<1> USE DEF Goto, Stay, StepsToSleep
<1>2. CASE ReadOk \/ ReadFails
  <2>1. pc = "read" /\ AfterRead /\ wdt_age' = wdt_age
    BY <1>2 DEF ReadOk, ReadFails
  <2> QED BY <1>1, <2>1 DEF AfterRead
<1>3. CASE SendNothing \/ SendOk \/ SendFails
  <2>1. pc = "send" /\ AfterSend /\ wdt_age' = wdt_age
    BY <1>3 DEF SendNothing, SendOk, SendFails
  <2> QED BY <1>1, <2>1 DEF AfterSend
<1>4. CASE Check
  BY <1>4 DEF Check
<1>5. CASE Clear \/ NextTurn
  BY <1>5 DEF Clear, NextTurn, Sleep
<1> QED BY <1>2, <1>3, <1>4, <1>5

\* Main is never more than a turn away from a sleep.
THEOREM SleepIsAlwaysNear == Spec => []SleepIsNear
<1>1. Inv => SleepIsNear
  BY ConstantsOK DEF Constants, Inv, Places, Sensors, Devices, Boot, Loop,
                     StepsToSleep, SleepIsNear
<1> QED BY <1>1, Invariance, PTL

\* Neither retries nor failing turns go round without ageing the main channel:
\* between two clean turns main takes a bounded number of steps, or is reset.
THEOREM EveryTurnAges == Spec => TurnsAge
<1> DEFINE A == Main =>
                  \/ wdt_age' = wdt_age + 1
                  \/ pc = "epilogue" /\ ~failed /\ wdt_age' = 0
                  \/ wdt_age' = wdt_age /\ StepsToSleep' < StepsToSleep
<1>1. Inv /\ [Next]_vars => [A]_vars
  <2> SUFFICES ASSUME Inv, Main
               PROVE  \/ wdt_age' = wdt_age + 1
                      \/ pc = "epilogue" /\ ~failed /\ wdt_age' = 0
                      \/ wdt_age' = wdt_age /\ StepsToSleep' < StepsToSleep
    OBVIOUS
  <2>1. CASE Epilogue
    <3>1. pc = "epilogue" /\ pc' = "sleep"
      BY <2>1 DEF Epilogue, Goto
    <3>2. StepsToSleep' < StepsToSleep
      BY <3>1 DEF StepsToSleep
    <3>3. non_fatal_error <=> failed
      BY DEF Inv, ErrorIsKnown
    <3>4. CASE failed
      <4>1. wdt_age' = wdt_age
        BY <2>1, <3>3, <3>4 DEF Epilogue, Feed
      <4> QED BY <3>2, <4>1
    <3>5. CASE ~failed
      <4>1. wdt_age' = 0
        BY <2>1, <3>3, <3>5 DEF Epilogue, Feed
      <4> QED BY <3>1, <3>5, <4>1
    <3> QED BY <3>4, <3>5
  <2>2. CASE ~Epilogue
    BY <2>2, BootAges, TurnAges DEF Main
  <2> QED BY <2>1, <2>2
<1> QED BY <1>1, Invariance, PTL DEF Spec, TurnsAge

-----------------------------------------------------------------------------
(* What TriggerIsCleared rests on besides: with turns that come to their   *)
(* end (EveryTurnAges), so does the count up to the clearing.              *)

\* While a trigger is to be cleared, nothing but a reset takes main out of the
\* loop; each turn is counted once, at its end, until there are enough; then
\* there stay enough, however the count goes on, and the next check clears it.
TriggerAges ==
  pc \in Loop /\ binary_state =>
    \/ Reboot
    \/ /\ pc' \in Loop
       /\ Epilogue /\ main_loop_counter < ClearAfter =>
            main_loop_counter' = main_loop_counter + 1
       /\ ~Epilogue => main_loop_counter' = main_loop_counter
       /\ main_loop_counter >= ClearAfter => main_loop_counter' >= ClearAfter
       /\ main_loop_counter >= ClearAfter /\ Check => ~binary_state'

\* Bringing the counter back does not take it below the number that clears.
LEMMA CountClears ==
  ASSUME NEW n \in Nat
  PROVE  /\ n < ClearAfter => Count(n + 1) = n + 1
         /\ n >= ClearAfter => Count(n + 1) >= ClearAfter
BY ConstantsOK DEF Constants, Count

\* A trigger that was published is cleared after ClearAfter turns, or by a reset.
THEOREM TriggersRunOut == Spec => [][TriggerAges]_vars
<1>1. Inv /\ [Next]_vars => [TriggerAges]_vars
  <2> SUFFICES ASSUME Inv, Next, pc \in Loop, binary_state, ~Reboot
               PROVE  /\ pc' \in Loop
                      /\ Epilogue /\ main_loop_counter < ClearAfter =>
                           main_loop_counter' = main_loop_counter + 1
                      /\ ~Epilogue => main_loop_counter' = main_loop_counter
                      /\ main_loop_counter >= ClearAfter =>
                           main_loop_counter' >= ClearAfter
                      /\ main_loop_counter >= ClearAfter /\ Check =>
                           ~binary_state'
    BY DEF TriggerAges
  <2>0. main_loop_counter \in Nat
    BY ConstantsOK DEF Constants, Inv, Ages
  <2>1. pc \notin Boot /\ pc # "returned"
    BY DEF Loop, Boot
  <2>2. CASE Epilogue
    <3>1. main_loop_counter' = Count(main_loop_counter + 1) /\ pc' \in Loop /\ ~Check
      BY <2>2 DEF Epilogue, Goto, Loop, Check
    <3> QED BY <2>0, <2>2, <3>1, CountClears
  <2>3. CASE Check
    <3>1. main_loop_counter' = main_loop_counter /\ pc' \in Loop
      BY <2>3 DEF Check, turn, Goto, Loop
    <3>2. main_loop_counter >= ClearAfter => ~binary_state'
      BY <2>3 DEF Check, ClearIsDue
    <3>3. ~Epilogue
      BY <2>3 DEF Check, Epilogue
    <3> QED BY <3>1, <3>2, <3>3
  <2>4. CASE \/ ReadOk \/ ReadFails \/ SendNothing \/ SendOk \/ SendFails
             \/ Clear \/ NextTurn
    <3>1. main_loop_counter' = main_loop_counter
      BY <2>4 DEF ReadOk, ReadFails, SendNothing, SendOk, SendFails, Clear,
                  NextTurn, turn
    <3>2. pc' \in Loop
      BY <2>4 DEF ReadOk, ReadFails, SendNothing, SendOk, SendFails, Clear,
                  NextTurn, AfterRead, AfterSend, Goto, Stay, Loop
    <3>3. ~Epilogue /\ ~Check
      BY <2>4 DEF ReadOk, ReadFails, SendNothing, SendOk, SendFails, Clear,
                  NextTurn, Epilogue, Check
    <3> QED BY <3>1, <3>2, <3>3
  <2>5. CASE RegisterOk \/ BootRetry \/ Start \/ Settle \/ SetOnline \/ Show
    BY <2>1, <2>5 DEF RegisterOk, BootRetry, Start, Settle, SetOnline, Show, Boot
  <2>6. CASE WatchdogReset \/ ReturnedReset \/ EarlyReset
    BY <2>6 DEF WatchdogReset, ReturnedReset, EarlyReset
  <2> QED BY <2>2, <2>3, <2>4, <2>5, <2>6 DEF Next, Main
<1> QED BY <1>1, Invariance, PTL DEF Spec

-----------------------------------------------------------------------------
(* How many readings an average covers. *)

\* Dividing with remainder.
LEMMA Quotient ==
  ASSUME NEW a \in Int, NEW b \in Nat \ {0}
  PROVE  /\ a % b \in 0 .. b - 1
         /\ \E q \in Int : a = b * q + (a % b)
<1>1. a % b \in 0 .. b - 1
  OBVIOUS
<1>2. b \in Int /\ b > 0
  OBVIOUS
<1>3. a = b * (a \div b) + (a % b) /\ a \div b \in Int
  BY <1>2, Z3
<1> QED BY <1>1, <1>3

\* A remainder and what it is the remainder of.
LEMMA Remainder ==
  ASSUME NEW b \in Nat \ {0}, NEW q \in Int, NEW r \in 0 .. b - 1
  PROVE  (b * q + r) % b = r
OBVIOUS

\* Counting up, the remainder goes up, or back to zero.
LEMMA NextRemainder ==
  ASSUME NEW a \in Nat, NEW b \in Nat \ {0}
  PROVE  (a + 1) % b = IF a % b = b - 1 THEN 0 ELSE (a % b) + 1
<1>1. PICK q \in Int : a = b * q + (a % b)
  BY Quotient, a \in Int
<1> DEFINE r == a % b
<1>2. r \in 0 .. b - 1
  BY Quotient, a \in Int
<1>3. a = b * q + r
  BY <1>1
<1> HIDE DEF r
<1>4. CASE r = b - 1
  <2>1. a + 1 = b * (q + 1) + 0
    BY <1>3, <1>4
  <2>2. (b * (q + 1) + 0) % b = 0
    BY Remainder, q + 1 \in Int, 0 \in 0 .. b - 1
  <2>3. (a + 1) % b = 0
    BY <2>1, <2>2
  <2> QED BY <2>3, <1>4 DEF r
<1>5. CASE r # b - 1
  <2>1. a + 1 = b * q + (r + 1) /\ r + 1 \in 0 .. b - 1
    BY <1>2, <1>3, <1>5
  <2>2. (b * q + (r + 1)) % b = r + 1
    BY <2>1, Remainder
  <2>3. (a + 1) % b = r + 1
    BY <2>1, <2>2
  <2> QED BY <2>3, <1>5 DEF r
<1> QED BY <1>4, <1>5

\* Going back by the divisor, the remainder stays.
LEMMA SameRemainder ==
  ASSUME NEW a \in Nat, NEW b \in Nat \ {0}
  PROVE  (a - b) % b = a % b
<1>1. PICK q \in Int : a = b * q + (a % b)
  BY Quotient, a \in Int
<1> DEFINE r == a % b
<1>2. r \in 0 .. b - 1
  BY Quotient, a \in Int
<1>3. a = b * q + r
  BY <1>1
<1> HIDE DEF r
<1>4. a - b = b * (q - 1) + r
  BY <1>2, <1>3
<1>5. (b * (q - 1) + r) % b = r
  BY <1>2, Remainder, q - 1 \in Int
<1>6. (a - b) % b = r
  BY <1>4, <1>5
<1> QED BY <1>6 DEF r

\* The turns since sends were due, and those before this turn.
Turns == main_loop_counter % Average
Before == IF Turns = 0 THEN Average - 1 ELSE Turns - 1

\* What a sensor may hold besides Average readings for every send missed.
Slack(s) ==
  CASE pc = "read" -> IF DeviceOf[s] < index THEN Before + 1 ELSE Before
    [] pc = "send" -> IF s < index THEN 0 ELSE Average
    [] pc \in {"check", "clear", "epilogue"} -> Turns
    [] pc = "sleep" -> Before
    [] OTHER -> 0

WindowInv ==
  /\ pc = "send" => Turns = 0
  /\ \A s \in Sensors : number_of_values[s] <= Average * missed[s] + Slack(s)

\* Turns and Before are below Average; a turn more makes Turns of Before.
LEMMA TurnsFacts ==
  ASSUME Inv
  PROVE  /\ Turns \in 0 .. Average - 1
         /\ Before \in 0 .. Average - 1
         /\ Before + 1 = IF Turns = 0 THEN Average ELSE Turns
<1>1. main_loop_counter \in Int /\ Average \in Nat \ {0}
  BY ConstantsOK DEF Inv, Ages, Constants
<1>2. Turns \in 0 .. Average - 1
  BY <1>1, Quotient DEF Turns
<1> QED BY <1>1, <1>2 DEF Before

\* The end of a turn makes Before of Turns, whether the counter is brought back
\* or not.
LEMMA EpilogueTurns == ASSUME Inv, Epilogue PROVE Before' = Turns
<1>1. main_loop_counter \in Nat /\ Average \in Nat \ {0} /\ ClearAfter \in Nat
  BY ConstantsOK DEF Inv, Ages, Constants
<1> DEFINE n == main_loop_counter + 1
<1>2. main_loop_counter' = IF n < ClearAfter + Average THEN n ELSE n - Average
  BY DEF Epilogue, Count
<1>3. n \in Nat /\ (n - Average) % Average = n % Average
  <2>1. n \in Nat
    BY <1>1
  <2> HIDE DEF n
  <2> QED BY <1>1, <2>1, SameRemainder
<1>4. n % Average = IF Turns = Average - 1 THEN 0 ELSE Turns + 1
  BY <1>1, NextRemainder DEF Turns
<1> HIDE DEF n
<1>5. Turns' = n % Average
  <2>1. CASE n < ClearAfter + Average
    BY <1>2, <2>1 DEF Turns
  <2>2. CASE ~(n < ClearAfter + Average)
    BY <1>2, <1>3, <2>2 DEF Turns
  <2> QED BY <2>1, <2>2
<1>6. Turns \in 0 .. Average - 1
  BY TurnsFacts
<1> QED BY <1>1, <1>4, <1>5, <1>6 DEF Before

\* A product of naturals, one factor more.
LEMMA OneTimesMore ==
  ASSUME NEW a \in Nat, NEW m \in Nat
  PROVE  a * m \in Nat /\ a * (m + 1) = a * m + a /\ a * 0 = 0
OBVIOUS

\* What is known of one sensor.
LEMMA SensorFacts ==
  ASSUME Inv, NEW s \in Sensors
  PROVE  /\ number_of_values[s] \in Nat /\ missed[s] \in Nat
         /\ Average * missed[s] \in Nat
         /\ DeviceOf[s] \in 1 .. NumDevices /\ NumDevices \in Nat
         /\ s \in 1 .. NumSensors /\ NumSensors \in Nat
<1>1. number_of_values[s] \in Nat /\ missed[s] \in Nat
  BY ConstantsOK DEF Inv, Sums, Constants
<1>2. Average * missed[s] \in Nat
  BY <1>1, ConstantsOK, OneTimesMore DEF Constants
<1> QED BY <1>1, <1>2, SizesAssumption DEF Sensors, Devices

\* A turn that only reads fills the window up to its end.
LEMMA WindowAfterRead == ASSUME Inv, WindowInv, ReadOk \/ ReadFails PROVE WindowInv'
<1>1. /\ pc = "read" /\ AfterRead /\ index \in 1 .. NumDevices
      /\ missed' = missed /\ main_loop_counter' = main_loop_counter
  BY DEF ReadOk, ReadFails, turn, history, Inv, Places, Devices
<1>2. Turns' = Turns /\ Before' = Before
  BY <1>1 DEF Turns, Before
<1>3. ASSUME NEW s \in Sensors
      PROVE  number_of_values'[s] \in
               {number_of_values[s],
                IF DeviceOf[s] = index THEN number_of_values[s] + 1
                                       ELSE number_of_values[s]}
  BY <1>3 DEF ReadOk, ReadFails, ha_add_sensor_reading, accumulators
<1>4. ASSUME NEW s \in Sensors
      PROVE  number_of_values'[s] <= Average * missed[s] +
               (IF DeviceOf[s] < index + 1 THEN Before + 1 ELSE Before)
  <2>1. number_of_values[s] <= Average * missed[s] +
          (IF DeviceOf[s] < index THEN Before + 1 ELSE Before)
    BY <1>1 DEF WindowInv, Slack
  <2> QED BY <1>1, <1>3, <2>1, SensorFacts, TurnsFacts
<1>5. CASE index < NumDevices
  <2>1. pc' = "read" /\ index' = index + 1
    BY <1>1, <1>5 DEF AfterRead
  <2>2. \A s \in Sensors :
          Slack(s)' = IF DeviceOf[s] < index + 1 THEN Before + 1 ELSE Before
    BY <1>2, <2>1 DEF Slack
  <2> QED BY <1>1, <1>4, <2>1, <2>2 DEF WindowInv
<1>6. CASE ~(index < NumDevices)
  <2>1. ASSUME NEW s \in Sensors
        PROVE  number_of_values'[s] <= Average * missed[s] + (Before + 1)
    BY <1>1, <1>4, <1>6, SensorFacts
  <2>2. CASE SendIsDue
    <3>1. pc' = "send" /\ index' = 1 /\ Turns = 0
      BY <1>1, <1>6, <2>2 DEF AfterRead, Goto, SendIsDue, Turns
    <3>2. \A s \in Sensors : Slack(s)' = Before + 1
      BY <3>1, SensorFacts, TurnsFacts DEF Slack
    <3> QED BY <1>1, <1>2, <2>1, <3>1, <3>2 DEF WindowInv
  <2>3. CASE ~SendIsDue
    <3>1. pc' = "check" /\ Turns # 0
      BY <1>1, <1>6, <2>3 DEF AfterRead, Goto, SendIsDue, Turns
    <3>2. \A s \in Sensors : Slack(s)' = Before + 1
      BY <1>2, <3>1, TurnsFacts DEF Slack
    <3> QED BY <1>1, <2>1, <3>1, <3>2 DEF WindowInv
  <2> QED BY <2>2, <2>3
<1> QED BY <1>5, <1>6

\* A send leaves a sensor nothing, or grants it Average readings more.
LEMMA WindowAfterSend ==
  ASSUME Inv, WindowInv, SendNothing \/ SendOk \/ SendFails
  PROVE  WindowInv'
<1>1. /\ pc = "send" /\ AfterSend /\ index \in Sensors
      /\ main_loop_counter' = main_loop_counter
  BY DEF SendNothing, SendOk, SendFails, turn, Inv, Places
<1>2. Turns' = Turns /\ Turns = 0
  BY <1>1 DEF WindowInv, Turns
<1>3. ASSUME NEW s \in Sensors, s # index
      PROVE  number_of_values'[s] = number_of_values[s] /\ missed'[s] = missed[s]
  BY <1>3 DEF SendNothing, SendOk, SendFails, ResetSensor, accumulators, history,
              Inv, Sums
<1>4. number_of_values'[index] <= Average * missed'[index]
  <2> DEFINE n == number_of_values[index]
             m == missed[index]
  <2>1. n \in Nat /\ m \in Nat /\ Average * m \in Nat /\ Average \in Nat
    BY <1>1, SensorFacts, ConstantsOK DEF Constants
  <2>2. CASE SendNothing
    BY <2>1, <2>2 DEF SendNothing, accumulators, history
  <2>3. CASE SendOk
    <3>1. number_of_values'[index] = 0 /\ missed'[index] = 0
      BY <1>1, <2>3 DEF SendOk, ResetSensor, Inv, Sums
    <3> QED BY <2>1, <3>1, OneTimesMore
  <2>4. CASE SendFails
    <3>1. number_of_values'[index] = n /\ missed'[index] = m + 1
      BY <1>1, <2>4 DEF SendFails, accumulators, Inv, Sums
    <3>2. n <= Average * m + Average
      BY <1>1, <2>1 DEF WindowInv, Slack, Sensors
    <3>3. Average * (m + 1) = Average * m + Average
      BY <2>1, OneTimesMore
    <3> HIDE DEF n, m
    <3> QED BY <3>1, <3>2, <3>3
  <2> QED BY <2>2, <2>3, <2>4
<1>5. ASSUME NEW s \in Sensors, s # index
      PROVE  number_of_values'[s] <= Average * missed'[s] +
               (IF s < index THEN 0 ELSE Average)
  BY <1>1, <1>3, <1>5 DEF WindowInv, Slack
<1>6. CASE index < NumSensors
  <2>1. pc' = "send" /\ index' = index + 1
    BY <1>1, <1>6 DEF AfterSend
  <2>2. ASSUME NEW s \in Sensors
        PROVE  number_of_values'[s] <= Average * missed'[s] + Slack(s)'
    <3>1. CASE s = index
      <4>1. Slack(s)' = 0
        BY <1>1, <2>1, <3>1, SensorFacts DEF Slack
      <4>2. missed'[s] \in Nat
        BY SumsNext, ConstantsOK DEF Next, Main, Sums, Constants
      <4>3. number_of_values'[s] \in Nat
        BY SumsNext DEF Next, Main, Sums
      <4>4. Average * missed'[s] \in Nat
        BY <4>2, ConstantsOK, OneTimesMore DEF Constants
      <4> QED BY <1>4, <3>1, <4>1, <4>3, <4>4
    <3>2. CASE s # index
      <4>1. Slack(s)' = IF s < index THEN 0 ELSE Average
        BY <1>1, <2>1, <3>2, SensorFacts DEF Slack
      <4> QED BY <1>5, <3>2, <4>1
    <3> QED BY <3>1, <3>2
  <2> QED BY <1>2, <2>2 DEF WindowInv
<1>7. CASE ~(index < NumSensors)
  <2>1. pc' = "check"
    BY <1>1, <1>7 DEF AfterSend, Goto
  <2>2. ASSUME NEW s \in Sensors
        PROVE  number_of_values'[s] <= Average * missed'[s] + Slack(s)'
    <3>1. Slack(s)' = 0
      BY <1>2, <2>1 DEF Slack
    <3>2. /\ number_of_values'[s] \in Nat /\ missed'[s] \in Nat
          /\ Average * missed'[s] \in Nat
      <4>1. number_of_values'[s] \in Nat /\ missed'[s] \in Nat
        BY SumsNext, ConstantsOK DEF Next, Main, Sums, Constants
      <4> QED BY <4>1, ConstantsOK, OneTimesMore DEF Constants
    <3>3. number_of_values'[s] <= Average * missed'[s]
      <4>1. CASE s = index
        BY <1>4, <4>1
      <4>2. CASE s # index
        <5>1. s < index
          BY <1>1, <1>7, <4>2, SensorFacts
        <5>2. number_of_values'[s] <= Average * missed'[s] + 0
          BY <1>5, <4>2, <5>1
        <5> QED BY <3>2, <5>2
      <4> QED BY <4>1, <4>2
    <3> QED BY <3>1, <3>2, <3>3
  <2> QED BY <2>1, <2>2 DEF WindowInv
<1> QED BY <1>6, <1>7

\* No other step adds a reading, and none of them takes anything off the slack.
LEMMA WindowNext == Inv /\ WindowInv /\ [Next]_vars => WindowInv'
<1> SUFFICES ASSUME Inv, WindowInv, [Next]_vars PROVE WindowInv'
  OBVIOUS
<1> DEFINE Kept == number_of_values' = number_of_values /\ missed' = missed
<1>1. CASE RegisterOk \/ BootRetry \/ Start \/ Settle \/ SetOnline
  <2>1. Kept /\ pc \in Boot /\ pc' \in Boot \cup {"returned"}
    BY <1>1 DEF RegisterOk, BootRetry, Start, Settle, SetOnline, Goto, Stay,
                accumulators, history, Boot
  <2>2. \A s \in Sensors : Slack(s) = 0 /\ Slack(s)' = 0
    BY <2>1 DEF Slack, Boot
  <2> QED BY <2>1, <2>2 DEF WindowInv, Boot
<1>2. CASE Show \/ NextTurn
  <2>1. /\ Kept /\ pc \in {"show", "sleep"} /\ pc' = "read" /\ index' = 1
        /\ main_loop_counter' = main_loop_counter
    BY <1>2 DEF Show, NextTurn, Goto, accumulators, history, turn
  <2>2. ASSUME NEW s \in Sensors
        PROVE  number_of_values'[s] <= Average * missed'[s] + Slack(s)'
    <3>1. Slack(s)' = Before
      BY <2>1, SensorFacts DEF Slack, Before, Turns
    <3>2. Slack(s) \in {0, Before}
      BY <2>1 DEF Slack
    <3> QED BY <2>1, <3>1, <3>2, SensorFacts, TurnsFacts DEF WindowInv
  <2> QED BY <2>1, <2>2 DEF WindowInv
<1>3. CASE ReadOk \/ ReadFails
  BY <1>3, WindowAfterRead
<1>4. CASE SendNothing \/ SendOk \/ SendFails
  BY <1>4, WindowAfterSend
<1>5. CASE Check \/ Clear
  <2>1. /\ Kept /\ pc \in {"check", "clear"} /\ pc' \in {"clear", "epilogue"}
        /\ main_loop_counter' = main_loop_counter
    BY <1>5 DEF Check, Clear, Goto, Stay, accumulators, history, turn
  <2>2. \A s \in Sensors : Slack(s) = Turns /\ Slack(s)' = Turns
    BY <2>1 DEF Slack, Turns
  <2> QED BY <2>1, <2>2 DEF WindowInv
<1>6. CASE Epilogue
  <2>1. Kept /\ pc = "epilogue" /\ pc' = "sleep"
    BY <1>6 DEF Epilogue, Goto, accumulators
  <2>2. \A s \in Sensors : Slack(s) = Turns /\ Slack(s)' = Turns
    BY <1>6, <2>1, EpilogueTurns DEF Slack
  <2> QED BY <2>1, <2>2 DEF WindowInv
<1>7. CASE WatchdogReset \/ ReturnedReset \/ EarlyReset
  <2>1. Reboot
    BY <1>7 DEF WatchdogReset, ReturnedReset, EarlyReset
  <2>2. ASSUME NEW s \in Sensors
        PROVE  number_of_values'[s] <= Average * missed'[s] + Slack(s)'
    <3>1. number_of_values'[s] = 0 /\ missed'[s] = 0 /\ Slack(s)' = 0
      BY <2>1 DEF Reboot, Slack
    <3> QED BY <3>1, ConstantsOK, OneTimesMore DEF Constants
  <2> QED BY <2>1, <2>2 DEF WindowInv, Reboot
<1>8. CASE UNCHANGED vars
  <2>1. Kept /\ pc' = pc /\ index' = index /\ main_loop_counter' = main_loop_counter
    BY <1>8 DEF vars, accumulators, history, turn
  <2>2. \A s \in Sensors : Slack(s)' = Slack(s)
    BY <2>1 DEF Slack, Before, Turns
  <2> QED BY <2>1, <2>2 DEF WindowInv, Turns
<1> QED
  BY <1>1, <1>2, <1>3, <1>4, <1>5, <1>6, <1>7, <1>8 DEF Next, Main

\* ha_send_sensor_value averages at most the readings of one period, and of one
\* more for every send of that sensor that failed in a row.
THEOREM WindowIsBounded == Spec => []WindowBound
<1>1. Init => WindowInv
  <2> SUFFICES ASSUME Init, NEW s \in Sensors
               PROVE  number_of_values[s] <= Average * missed[s] + Slack(s)
    BY DEF WindowInv, Init
  <2>1. number_of_values[s] = 0 /\ missed[s] = 0 /\ Slack(s) = 0
    BY DEF Init, Slack
  <2> QED BY <2>1, ConstantsOK, OneTimesMore DEF Constants
<1>2. Inv /\ WindowInv => WindowBound
  <2> SUFFICES ASSUME Inv, WindowInv, NEW s \in Sensors
               PROVE  number_of_values[s] <= Average * (missed[s] + 1)
    BY DEF WindowBound
  <2>1. Average \in Nat \ {0}
    BY ConstantsOK DEF Constants
  <2>2. Slack(s) \in 0 .. Average
    BY <2>1, TurnsFacts DEF Slack
  <2>3. Average * (missed[s] + 1) = Average * missed[s] + Average
    BY <2>1, SensorFacts, OneTimesMore
  <2> QED BY <2>1, <2>2, <2>3, SensorFacts DEF WindowInv
<1> QED BY <1>1, <1>2, Invariance, WindowNext, PTL DEF Spec

=============================================================================
