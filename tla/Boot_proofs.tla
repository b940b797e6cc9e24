----------------------------- MODULE Boot_proofs -----------------------------
(***************************************************************************)
(* Proofs about Boot, for any set of causes of a reset: type correctness,  *)
(* that the cause main acts on is the true one, that the watchdog's and    *)
(* the button's resets are acted on, and that each channel of a running    *)
(* watchdog has its own feeder. The cause passes from the register to      *)
(* main's copy and from there to what is erased (Recorded, Copied, Acted). *)
(***************************************************************************)

EXTENDS Boot, TLAPS

\* The bits that a reset alone sets.
Only(cause) == IF cause = "power" THEN {} ELSE {cause}

\* The cause of the last reset is among the causes, and alone among them unless
\* there were others before it; a loss of power leaves none.
Holds(causes) ==
  /\ last_reset # "power" => last_reset \in causes
  /\ ~uncleared => causes = Only(last_reset)
  /\ last_reset = "power" => ~uncleared

\* Until main has read it, the register holds the cause.
Recorded == pc \in Early => Holds(resetreas)

\* From then on main's copy does, unless it could not be read.
Copied == pc \notin Early => reset_cause = Bits \/ Holds(reset_cause)

\* Something was erased if and only if main's copy asks for it.
Acted ==
  /\ erased # "no" => pc \in Late
  /\ pc \in Late =>
       (erased # "no" <=> \/ is_reset_cause_watchdog(reset_cause)
                          \/ is_reset_cause_button(reset_cause))

\* A watchdog runs only with both channels, and main knows them.
TwoChannels ==
  /\ pc = "init_watchdog" => ~running
  /\ running => channels = {0, 1} /\ main_wdt_chan_id = 0 /\ mqtt_wdt_chan_id = 1

\* The client knows its own once it has been told.
Told == pc \in {"register", "loop"} => wdt_channel_id = mqtt_wdt_chan_id

Inv == TypeOK /\ Recorded /\ Copied /\ Acted /\ TwoChannels /\ Told

-----------------------------------------------------------------------------

\* The bits are different ones, and a loss of power sets none of them.
LEMMA BitsFacts ==
  /\ "watchdog" \in Bits /\ "pin" \in Bits /\ "power" \notin Bits
  /\ Bits # {"watchdog"} /\ Bits # {"pin"}
BY CausesAssumption DEF Bits

\* Every disjunct of OtherReset sets a bit, or is a loss of power.
LEMMA Causes ==
  ASSUME NEW cause \in {"pin", "power"} \cup OtherCauses
  PROVE  cause \in Bits \cup {"power"}
BY DEF Bits

\* The driver installs some of the two channels.
LEMMA InstalledFacts ==
  ASSUME driver \in DriverStates
  PROVE  /\ Installed \subseteq {0, 1}
         /\ driver = "works" => Installed = {0, 1}
BY DEF Installed, DriverStates

\* A reset for any cause re-establishes the invariant.
LEMMA RestartPreserves ==
  ASSUME TypeOK, NEW cause \in Bits \cup {"power"}, Restart(cause)
  PROVE  Inv'
<1>1. TypeOK'
  BY BitsFacts DEF TypeOK, Restart, Early
<1>2. Recorded'
  BY BitsFacts DEF TypeOK, Restart, Recorded, Holds, Only
<1>3. Copied' /\ Acted' /\ TwoChannels' /\ Told'
  BY DEF Restart, Copied, Acted, TwoChannels, Told, Early, Late
<1> QED BY <1>1, <1>2, <1>3 DEF Inv

\* The invariant holds initially.
LEMMA InitInv == Init => Inv
<1> SUFFICES ASSUME Init PROVE Inv OBVIOUS
<1>1. TypeOK
  BY DEF Init, TypeOK, Early
<1>2. Recorded /\ Copied /\ Acted /\ TwoChannels /\ Told
  BY DEF Init, Recorded, Copied, Acted, TwoChannels, Told, Holds, Only, Early, Late
<1> QED BY <1>1, <1>2 DEF Inv

\* Every step preserves the invariant.
LEMMA NextInv == Inv /\ [Next]_vars => Inv'
<1> SUFFICES ASSUME Inv, [Next]_vars PROVE Inv' OBVIOUS
<1> USE DEF Goto
<1>1. CASE init_watchdog
  <2>1. TypeOK'
    BY <1>1, InstalledFacts DEF Inv, TypeOK, init_watchdog, register, history, Early
  <2>2. Recorded' /\ Copied'
    BY <1>1 DEF Inv, init_watchdog, register, history, Recorded, Copied, Holds, Early
  <2>3. Acted' /\ Told'
    BY <1>1 DEF Inv, init_watchdog, Acted, Told, Late
  <2>4. TwoChannels'
    BY <1>1, InstalledFacts DEF Inv, TypeOK, init_watchdog, TwoChannels
  <2> QED BY <2>1, <2>2, <2>3, <2>4 DEF Inv
<1>2. CASE show_reset_cause
  <2>1. TypeOK'
    BY <1>2 DEF Inv, TypeOK, show_reset_cause, watchdog, ids, history
  <2>2. Recorded' /\ Copied'
    BY <1>2 DEF Inv, show_reset_cause, history, Recorded, Copied, Holds, Early
  <2>3. Acted' /\ TwoChannels' /\ Told'
    BY <1>2 DEF Inv, show_reset_cause, watchdog, ids, Acted, TwoChannels, Told, Late
  <2> QED BY <2>1, <2>2, <2>3 DEF Inv
<1>3. CASE clear_reset_cause
  <2>1. TypeOK'
    BY <1>3 DEF Inv, TypeOK, clear_reset_cause, watchdog, ids, history
  <2>2. Recorded' /\ Copied'
    BY <1>3 DEF Inv, clear_reset_cause, history, Recorded, Copied, Holds, Early
  <2>3. Acted' /\ TwoChannels' /\ Told'
    BY <1>3 DEF Inv, clear_reset_cause, watchdog, ids, Acted, TwoChannels, Told, Late
  <2> QED BY <2>1, <2>2, <2>3 DEF Inv
<1>4. CASE openthread_erase_persistent_info
  <2>1. TypeOK'
    BY <1>4 DEF Inv, TypeOK, openthread_erase_persistent_info, register, watchdog,
                ids, history, Late
  <2>2. Recorded' /\ Copied'
    BY <1>4 DEF Inv, openthread_erase_persistent_info, register, history,
                Recorded, Copied, Holds, Early
  <2>3. erased = "no" /\ reset_cause' = reset_cause /\ pc' = "setup"
    BY <1>4 DEF Inv, Acted, openthread_erase_persistent_info, register, Late
  <2>4. Acted'
    BY <1>4, <2>3 DEF openthread_erase_persistent_info, Acted, Late,
                      is_reset_cause_watchdog, is_reset_cause_button
  <2>5. TwoChannels' /\ Told'
    BY <1>4 DEF Inv, openthread_erase_persistent_info, watchdog, ids, TwoChannels, Told
  <2> QED BY <2>1, <2>2, <2>4, <2>5 DEF Inv
<1>5. CASE mqtt_watchdog_init
  <2>1. TypeOK'
    BY <1>5 DEF Inv, TypeOK, mqtt_watchdog_init, register, watchdog, history, Late
  <2>2. Recorded' /\ Copied'
    BY <1>5 DEF Inv, mqtt_watchdog_init, register, history, Recorded, Copied,
                Holds, Early
  <2>3. Acted' /\ TwoChannels' /\ Told'
    BY <1>5 DEF Inv, mqtt_watchdog_init, register, watchdog, Acted, TwoChannels,
                Told, Late, is_reset_cause_watchdog, is_reset_cause_button
  <2> QED BY <2>1, <2>2, <2>3 DEF Inv
<1>6. CASE SetUp \/ openthread_wait_for_ready
  <2>1. /\ pc \in {"setup", "wait"} /\ pc' \in {"wait", "mqtt", "returned"}
        /\ UNCHANGED <<register, watchdog, ids, erased, failed, history>>
    BY <1>6 DEF SetUp, openthread_wait_for_ready
  <2>2. TypeOK'
    BY <2>1 DEF Inv, TypeOK, register, watchdog, ids, history, Late
  <2>3. Recorded' /\ Copied'
    BY <2>1 DEF Inv, register, history, Recorded, Copied, Holds, Early
  <2>4. Acted' /\ TwoChannels' /\ Told'
    BY <2>1 DEF Inv, register, watchdog, ids, Acted, TwoChannels, Told, Late,
                is_reset_cause_watchdog, is_reset_cause_button
  <2> QED BY <2>2, <2>3, <2>4 DEF Inv
<1>7. CASE Register \/ Turn
  <2>1. /\ pc \in {"register", "loop"} /\ pc' \in {"loop", "returned"}
        /\ failed' \in BOOLEAN
        /\ UNCHANGED <<register, watchdog, ids, erased, history>>
    BY <1>7 DEF Register, Turn, Inv, TypeOK
  <2>2. TypeOK'
    BY <2>1 DEF Inv, TypeOK, register, watchdog, ids, history, Late
  <2>3. Recorded' /\ Copied'
    BY <2>1 DEF Inv, register, history, Recorded, Copied, Holds, Early
  <2>4. Acted' /\ TwoChannels' /\ Told'
    BY <2>1 DEF Inv, register, watchdog, ids, Acted, TwoChannels, Told, Late,
                is_reset_cause_watchdog, is_reset_cause_button
  <2> QED BY <2>2, <2>3, <2>4 DEF Inv
<1>8. CASE WatchdogReset
  BY <1>8, BitsFacts, RestartPreserves DEF WatchdogReset, Inv
<1>9. CASE OtherReset
  <2>1. PICK cause \in {"pin", "power"} \cup OtherCauses : Restart(cause)
    BY <1>9 DEF OtherReset
  <2> QED BY <2>1, Causes, RestartPreserves DEF Inv
<1>10. CASE UNCHANGED vars
  BY <1>10 DEF vars, register, watchdog, ids, history, Inv, TypeOK, Recorded, Copied,
               Acted, TwoChannels, Told, Holds, is_reset_cause_watchdog,
               is_reset_cause_button
<1> QED
  BY <1>1, <1>2, <1>3, <1>4, <1>5, <1>6, <1>7, <1>8, <1>9, <1>10 DEF Next, Straight

-----------------------------------------------------------------------------

\* The invariant holds of every state a boot reaches.
THEOREM Invariance == Spec => []Inv
BY InitInv, NextInv, PTL DEF Spec

\* Every variable of the boot keeps its type.
THEOREM TypeCorrect == Spec => []TypeOK
<1>1. Inv => TypeOK
  BY DEF Inv
<1> QED BY Invariance, <1>1, PTL

\* Main never takes another reset for the watchdog's, and erases the Thread data
\* after none but the watchdog's and the button's.
THEOREM CauseIsTrueAlways == Spec => []CauseIsTrue
<1>1. Inv => CauseIsTrue
  <2> SUFFICES ASSUME Inv, pc \notin Early
               PROVE  /\ reset_cause = {"watchdog"} => last_reset = "watchdog"
                      /\ reset_cause = {"pin"} => last_reset = "pin"
                      /\ erased # "no" => reset_cause \in {{"watchdog"}, {"pin"}}
    BY DEF CauseIsTrue, is_reset_cause_watchdog, is_reset_cause_button
  <2>1. reset_cause = Bits \/ Holds(reset_cause)
    BY DEF Inv, Copied
  <2>2. ASSUME NEW bit \in {"watchdog", "pin"}, reset_cause = {bit}
        PROVE  last_reset = bit
    BY <2>1, <2>2, BitsFacts DEF Holds, Only
  <2>3. erased # "no" => reset_cause \in {{"watchdog"}, {"pin"}}
    BY DEF Inv, Acted, is_reset_cause_watchdog, is_reset_cause_button
  <2> QED BY <2>2, <2>3
<1> QED BY Invariance, <1>1, PTL

\* A reset by the watchdog or the button is acted on, if its cause can be read and
\* is alone in the register.
THEOREM CauseIsHeededAlways == Spec => []CauseIsHeeded
<1>1. Inv => CauseIsHeeded
  <2> SUFFICES ASSUME Inv, pc \in Late, reset_cause # Bits, ~uncleared,
                      last_reset \in {"watchdog", "pin"}
               PROVE  /\ erased # "no"
                      /\ last_reset = "watchdog" => is_reset_cause_watchdog(reset_cause)
    BY DEF CauseIsHeeded
  <2>1. reset_cause = {last_reset}
    BY DEF Inv, Copied, Holds, Only, Early, Late
  <2> QED
    BY <2>1 DEF Inv, Acted, is_reset_cause_watchdog, is_reset_cause_button
<1> QED BY Invariance, <1>1, PTL

\* Each channel of a running watchdog is fed by one of the two that know it.
THEOREM OwnChannelsAlways == Spec => []OwnChannels
<1>1. Inv => OwnChannels
  BY DEF Inv, OwnChannels, TwoChannels, Told
<1> QED BY Invariance, <1>1, PTL

-----------------------------------------------------------------------------
(* What BootsOrResets rests on: whenever it has not come true yet, the     *)
(* watchdog may reset the station, so only its fairness is left to assume. *)

\* Past init_watchdog, a watchdog whose driver works runs.
Watched == driver = "works" /\ pc # "init_watchdog" => running

\* A station whose driver works is at a reset, in a turn in which nothing
\* failed, or under a watchdog that is about to reset it, wherever main
\* returned, is kept waiting or fails over and over.
NeverLeftAlone ==
  driver = "works" =>
    JustReset \/ CleanTurn \/ (running /\ Unfed)

\* Nothing but a reset stops the watchdog, and a reset leads to init_watchdog.
THEOREM NobodyIsLeftAlone == Spec => []NeverLeftAlone
<1>1. Init => Watched
  BY DEF Init, Watched
<1>2. Watched /\ [Next]_vars => Watched'
  <2> SUFFICES ASSUME Watched, [Next]_vars, driver' = "works", pc' # "init_watchdog"
               PROVE  running'
    BY DEF Watched
  <2>1. ASSUME pc # "init_watchdog", driver' = driver, running' = running
        PROVE  running'
    BY <2>1 DEF Watched
  <2>2. CASE init_watchdog
    BY <2>2 DEF init_watchdog
  <2>3. CASE show_reset_cause \/ clear_reset_cause
    BY <2>1, <2>3 DEF show_reset_cause, clear_reset_cause, watchdog
  <2>4. CASE openthread_erase_persistent_info \/ SetUp \/ mqtt_watchdog_init
    BY <2>1, <2>4 DEF openthread_erase_persistent_info, SetUp,
                      mqtt_watchdog_init, watchdog
  <2>5. CASE openthread_wait_for_ready \/ Register \/ Turn
    BY <2>1, <2>5 DEF openthread_wait_for_ready, Register, Turn, watchdog
  <2>6. CASE WatchdogReset \/ OtherReset
    BY <2>6 DEF WatchdogReset, OtherReset, Restart
  <2>7. CASE UNCHANGED vars
    BY <2>1, <2>7 DEF vars, watchdog
  <2> QED BY <2>2, <2>3, <2>4, <2>5, <2>6, <2>7 DEF Next, Straight
<1>3. Watched => NeverLeftAlone
  BY DEF Watched, NeverLeftAlone, JustReset, CleanTurn, Unfed
<1> QED BY <1>1, <1>2, <1>3, PTL DEF Spec

=============================================================================
