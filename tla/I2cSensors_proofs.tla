------------------------- MODULE I2cSensors_proofs -------------------------
(***************************************************************************)
(* What I2cSensors promises, for every number of failing turns until the   *)
(* watchdog resets. The invariants are inductive together: that the SCD40  *)
(* is asked for its own serial number rests on where the address points    *)
(* during the set-up, and that on what a failed read leaves. An address    *)
(* that is left behind is carried into the next turn together with the     *)
(* count of the turn that failed (LeftByFailedTurn).                       *)
(***************************************************************************)

EXTENDS I2cSensors, TLAPS

\* Until the SPS30 is read again, an address that points to it was left by the
\* turn before, which was not fed.
LeftByFailedTurn ==
  pc \in {"hdc302x_read", "scd40_read", "sps30_read"} /\ addr # "scd40"
    => failing > 0

Directed ==
  /\ MisdirectedByFailureOnly
  /\ LeftByFailedTurn
  /\ ForeignReadingFollowsFailure

Inv ==
  /\ TypeOK
  /\ Directed
  /\ SerialIsItsOwn

-----------------------------------------------------------------------------
(* The bus. *)

\* A transfer comes to one of the outcomes.
LEMMA TransferOutcomes ==
  ASSUME NEW meant, NEW address, NEW understood, NEW outcome,
         outcome \in Transfer(meant, address, understood)
  PROVE  outcome \in Outcomes
BY DEF Transfer, Outcomes

\* Only the bytes of another address are foreign.
LEMMA OwnAddressIsNotForeign ==
  ASSUME NEW meant, NEW understood, NEW outcome,
         outcome \in Transfer(meant, meant, understood)
  PROVE  outcome # "foreign"
BY DEF Transfer

\* A read that compares the CRC gives an outcome or an error.
LEMMA CheckedGives ==
  ASSUME NEW outcome \in Outcomes
  PROVE  Checked(outcome) \in Outcomes \cup {"error"}
BY DEF Checked

\* A command leaves every mode a Boolean.
LEMMA CommandKeepsModes ==
  ASSUME TypeOK, NEW sensor \in Sensors, NEW address, NEW mode \in BOOLEAN,
         Command(sensor, address, mode)
  PROVE  measuring' \in [Sensors -> BOOLEAN]
BY Zenon DEF Command, TypeOK

-----------------------------------------------------------------------------
(* The invariant. *)

\* The invariant holds of a station that was switched on.
LEMMA InvInit == Init => Inv
<1> SUFFICES ASSUME Init PROVE Inv
  OBVIOUS
<1>1. measuring \in [Sensors -> BOOLEAN] /\ calm \in BOOLEAN /\ error \in BOOLEAN
  BY Zenon DEF Init
<1>2. TypeOK
  BY <1>1, WindowAssumption DEF Init, TypeOK, Setup, Loop, Outcomes
<1>3. Directed
  BY DEF Init, Directed, MisdirectedByFailureOnly, LeftByFailedTurn,
         ForeignReadingFollowsFailure, Loop
<1>4. SerialIsItsOwn
  BY DEF Init, SerialIsItsOwn
<1> QED BY <1>2, <1>3, <1>4 DEF Inv

\* The steps of the set-up take no readings.
LEMMA InvSetup ==
  ASSUME Inv,
         \/ init_hvac_click \/ get_hdc302x_serial \/ get_scd4x_serial
         \/ get_sps30_serial \/ temphum24_default_cfg \/ start_scd40
         \/ hvac_sps30_start_measurement
  PROVE  Inv'
<1> USE DEF Inv, Directed, LeftByFailedTurn, ForeignReadingFollowsFailure
<1>1. CASE init_hvac_click
  <2>1. measuring' \in [Sensors -> BOOLEAN]
    BY <1>1, CommandKeepsModes
       DEF init_hvac_click, scd4x_reset, Sensors, HvacSensors
  <2>2. TypeOK'
    BY <1>1, <2>1 DEF init_hvac_click, TypeOK, Setup, HvacSensors
  <2> QED BY <1>1, <2>2 DEF init_hvac_click, MisdirectedByFailureOnly,
                            SerialIsItsOwn
<1>2. CASE get_hdc302x_serial
  <2>1. TypeOK'
    BY <1>2 DEF get_hdc302x_serial, ThenOrReturn, TypeOK, Setup
  <2> QED BY <1>2, <2>1 DEF get_hdc302x_serial, ThenOrReturn, Loop,
                            MisdirectedByFailureOnly, SerialIsItsOwn
<1>3. CASE get_scd4x_serial
  <2>1. PICK outcome \in Transfer("scd40", addr, ~measuring["scd40"]) :
          /\ serial' = outcome
          /\ ThenOrReturn(Unchecked(outcome) # "error", "sps30_serial")
    BY <1>3 DEF get_scd4x_serial
  <2>2. addr = "scd40"
    BY <1>3 DEF get_scd4x_serial, MisdirectedByFailureOnly, Loop
  <2>3. SerialIsItsOwn'
    BY <2>1, <2>2, OwnAddressIsNotForeign DEF SerialIsItsOwn
  <2>4. TypeOK'
    BY <1>3, <2>1, TransferOutcomes
       DEF get_scd4x_serial, ThenOrReturn, TypeOK, Setup
  <2>5. Directed'
    BY <1>3, <2>1, <2>2 DEF get_scd4x_serial, MisdirectedByFailureOnly,
                            ThenOrReturn
  <2> QED BY <2>3, <2>4, <2>5
<1>4. CASE get_sps30_serial
  <2>1. PICK outcome \in Transfer("sps30", "sps30", TRUE) :
          /\ addr' = AddressAfterRead(outcome)
          /\ ThenOrReturn(Checked(outcome) # "error", "hdc302x_start")
    BY <1>4 DEF get_sps30_serial
  <2>2. TypeOK'
    BY <1>4, <2>1 DEF get_sps30_serial, AddressAfterRead, ThenOrReturn,
                      TypeOK, Setup, HvacSensors
  <2>3. Directed'
    BY <2>1 DEF AddressAfterRead, Checked, ThenOrReturn,
                MisdirectedByFailureOnly, Loop
  <2> QED BY <1>4, <2>2, <2>3 DEF get_sps30_serial, SerialIsItsOwn
<1>5. CASE temphum24_default_cfg
  <2>1. /\ \E started \in BOOLEAN :
             measuring' = [measuring EXCEPT !["hdc302x"] = started]
        /\ \E ok \in BOOLEAN : ThenOrReturn(ok, "scd40_start")
    BY <1>5, Zenon DEF temphum24_default_cfg
  <2>2. measuring' \in [Sensors -> BOOLEAN]
    BY <2>1, Zenon DEF TypeOK
  <2>3. TypeOK'
    BY <1>5, <2>1, <2>2
       DEF temphum24_default_cfg, ThenOrReturn, TypeOK, Setup
  <2> QED BY <1>5, <2>1, <2>3 DEF temphum24_default_cfg, ThenOrReturn, Loop,
                                  MisdirectedByFailureOnly, SerialIsItsOwn
<1>6. CASE start_scd40
  <2>1. measuring' \in [Sensors -> BOOLEAN]
    BY <1>6, CommandKeepsModes DEF start_scd40, Sensors, HvacSensors
  <2>2. TypeOK'
    BY <1>6, <2>1 DEF start_scd40, TypeOK, Setup
  <2> QED BY <1>6, <2>2 DEF start_scd40, MisdirectedByFailureOnly, Loop,
                            SerialIsItsOwn
<1>7. CASE hvac_sps30_start_measurement
  <2>1. measuring' \in [Sensors -> BOOLEAN]
    BY <1>7, CommandKeepsModes
       DEF hvac_sps30_start_measurement, Sensors, HvacSensors
  <2>2. TypeOK'
    BY <1>7, <2>1
       DEF hvac_sps30_start_measurement, TypeOK, Loop, HvacSensors
  <2> QED BY <1>7, <2>2 DEF hvac_sps30_start_measurement, SerialIsItsOwn,
                            MisdirectedByFailureOnly
<1> QED BY <1>1, <1>2, <1>3, <1>4, <1>5, <1>6, <1>7

\* Taking a result that may come from the sensor keeps the types.
LEMMA TakeKeepsTypes ==
  ASSUME TypeOK, addr' \in HvacSensors, NEW sensor \in Sensors,
         NEW result \in Outcomes \cup {"error"}, NEW next \in Loop,
         Take(sensor, result, next)
  PROVE  TypeOK'
<1>1. taken' \in [Sensors -> Outcomes \cup {"none", "error"}]
  BY DEF Take, TypeOK
<1>2. error' \in BOOLEAN
  BY Zenon DEF Take, TypeOK
<1>3. measuring' \in [Sensors -> BOOLEAN] /\ calm' \in BOOLEAN
  BY Zenon DEF Take, TypeOK
<1> QED BY <1>1, <1>2, <1>3 DEF Take, TypeOK

\* The three reads, and the end of a turn.
LEMMA InvTurn ==
  ASSUME Inv,
         \/ temphum24_read_temp_and_rh \/ hvac_scd40_read_measurement
         \/ hvac_sps30_read_measured_data \/ Epilogue
  PROVE  Inv'
<1> USE DEF Inv, Directed, LeftByFailedTurn, ForeignReadingFollowsFailure
<1>0. DOMAIN taken = Sensors
  BY DEF TypeOK
<1>1. CASE temphum24_read_temp_and_rh
  <2>1. PICK outcome \in Transfer("hdc302x", "hdc302x", measuring["hdc302x"]) :
          Take("hdc302x", Checked(outcome), "scd40_read")
    BY <1>1 DEF temphum24_read_temp_and_rh
  <2>2. TypeOK'
    BY <1>1, <2>1, TransferOutcomes, CheckedGives, TakeKeepsTypes
       DEF temphum24_read_temp_and_rh, TypeOK, Loop, Sensors
  <2>3. Directed'
    BY <1>0, <1>1, <2>1 DEF temphum24_read_temp_and_rh, Take, Loop, Sensors,
                            HvacSensors, MisdirectedByFailureOnly
  <2> QED BY <2>1, <2>2, <2>3 DEF Take, SerialIsItsOwn
<1>2. CASE hvac_scd40_read_measurement
  <2>1. PICK outcome \in Transfer("scd40", addr, measuring["scd40"]) :
          Take("scd40", Unchecked(outcome), "sps30_read")
    BY <1>2 DEF hvac_scd40_read_measurement
  <2>2. Unchecked(outcome) \in Outcomes \cup {"error"}
    BY <2>1, TransferOutcomes DEF Unchecked
  <2>3. TypeOK'
    BY <1>2, <2>1, <2>2, TakeKeepsTypes
       DEF hvac_scd40_read_measurement, TypeOK, Loop, Sensors, HvacSensors
  <2>4. MisdirectedByFailureOnly' /\ LeftByFailedTurn'
    BY <1>0, <1>2, <2>1 DEF hvac_scd40_read_measurement, Take, Loop, Sensors,
                            HvacSensors, MisdirectedByFailureOnly
  <2>5. ForeignReadingFollowsFailure'
    <3>1. taken'["scd40"] = Unchecked(outcome) /\ failing' = failing
      BY <1>0, <2>1 DEF Take, Sensors, HvacSensors
    <3>2. CASE addr = "scd40"
      BY <2>1, <3>1, <3>2, OwnAddressIsNotForeign DEF Unchecked
    <3>3. CASE addr # "scd40"
      BY <1>2, <3>1, <3>3 DEF hvac_scd40_read_measurement
    <3> QED BY <3>2, <3>3
  <2> QED BY <2>1, <2>3, <2>4, <2>5 DEF Take, SerialIsItsOwn
<1>3. CASE hvac_sps30_read_measured_data
  <2>1. PICK outcome \in Transfer("sps30", "sps30", measuring["sps30"]) :
          /\ addr' = AddressAfterRead(outcome)
          /\ Take("sps30", Checked(outcome), "epilogue")
    BY <1>3 DEF hvac_sps30_read_measured_data
  <2>2. TypeOK'
    BY <2>1, TransferOutcomes, CheckedGives, TakeKeepsTypes
       DEF AddressAfterRead, TypeOK, Loop, Sensors, HvacSensors
  <2>3. MisdirectedByFailureOnly'
    BY <1>0, <2>1 DEF AddressAfterRead, Checked, Take, Loop, Sensors,
                      HvacSensors, MisdirectedByFailureOnly
  <2>4. LeftByFailedTurn' /\ ForeignReadingFollowsFailure'
    BY <1>0, <1>3, <2>1
       DEF hvac_sps30_read_measured_data, Take, Sensors, HvacSensors
  <2> QED BY <2>1, <2>2, <2>3, <2>4 DEF Take, SerialIsItsOwn
<1>4. CASE Epilogue
  <2>1. failing' \in 0 .. Window
    BY <1>4, WindowAssumption DEF Epilogue, TypeOK
  <2>2. TypeOK'
    BY <1>4, <2>1 DEF Epilogue, TypeOK, Loop
  <2>3. addr # "scd40" => failing' > 0
    BY <1>4, WindowAssumption
       DEF Epilogue, MisdirectedByFailureOnly, TypeOK
  <2> QED BY <1>4, <2>2, <2>3 DEF Epilogue, MisdirectedByFailureOnly, Loop,
                                  SerialIsItsOwn
<1> QED BY <1>1, <1>2, <1>3, <1>4

\* Resets and disturbances.
LEMMA InvReset ==
  ASSUME Inv, WatchdogReset \/ OtherReset
  PROVE  Inv'
<1> USE DEF Inv
<1>1. Restart
  BY DEF WatchdogReset, OtherReset
<1>2. measuring' \in [Sensors -> BOOLEAN] /\ calm' \in BOOLEAN /\ error' \in BOOLEAN
  BY Zenon DEF WatchdogReset, OtherReset, Restart, TypeOK
<1>3. TypeOK'
  BY <1>1, <1>2, WindowAssumption DEF Restart, TypeOK, Setup, Outcomes
<1>4. Directed'
  BY <1>1 DEF Restart, Directed, MisdirectedByFailureOnly, LeftByFailedTurn,
              ForeignReadingFollowsFailure, Loop
<1> QED BY <1>1, <1>3, <1>4 DEF Restart, SerialIsItsOwn

\* A bus that becomes calm or disturbed changes nothing that was claimed.
LEMMA InvDisturb ==
  ASSUME Inv, Disturb
  PROVE  Inv'
<1>1. calm' \in BOOLEAN
  BY Zenon DEF Disturb
<1>2. TypeOK'
  BY <1>1 DEF Inv, Disturb, TypeOK
<1> QED BY <1>2 DEF Inv, Disturb, Directed, MisdirectedByFailureOnly,
                    LeftByFailedTurn, ForeignReadingFollowsFailure,
                    SerialIsItsOwn

\* Every step preserves the invariant.
LEMMA InvNext == Inv /\ [Next]_vars => Inv'
<1> SUFFICES ASSUME Inv, [Next]_vars PROVE Inv'
  OBVIOUS
<1>1. CASE Main
  BY <1>1, InvSetup, InvTurn DEF Main
<1>2. CASE WatchdogReset \/ OtherReset
  BY <1>2, InvReset
<1>3. CASE Disturb
  BY <1>3, InvDisturb
<1>4. CASE UNCHANGED vars
  BY <1>4 DEF vars, Inv, TypeOK, Directed, MisdirectedByFailureOnly,
              LeftByFailedTurn, ForeignReadingFollowsFailure, SerialIsItsOwn
<1> QED BY <1>1, <1>2, <1>3, <1>4 DEF Next

-----------------------------------------------------------------------------
(* The theorems. *)

\* The inductive invariant holds in every reachable state.
THEOREM Invariance == Spec => []Inv
<1>1. Init => Inv
  BY InvInit
<1>2. Inv /\ [Next]_vars => Inv'
  BY InvNext
<1> QED BY <1>1, <1>2, PTL DEF Spec

\* Every variable has its type.
THEOREM TypeCorrect == Spec => []TypeOK
<1>1. Inv => TypeOK
  BY DEF Inv
<1> QED BY <1>1, Invariance, PTL

\* The shared address is left at the SPS30 only by a failed SPS30 read that
\* main was told of.
THEOREM MisdirectionIsReported == Spec => []MisdirectedByFailureOnly
<1>1. Inv => MisdirectedByFailureOnly
  BY DEF Inv, Directed
<1> QED BY <1>1, Invariance, PTL

\* The SCD40's serial number is never another sensor's answer.
THEOREM SerialIsTheScd40s == Spec => []SerialIsItsOwn
<1>1. Inv => SerialIsItsOwn
  BY DEF Inv
<1> QED BY <1>1, Invariance, PTL

\* A CO2 reading that is another sensor's answer follows a turn that was not fed.
THEOREM ForeignReadingsFollowFailures == Spec => []ForeignReadingFollowsFailure
<1>1. Inv => ForeignReadingFollowsFailure
  BY DEF Inv, Directed
<1> QED BY <1>1, Invariance, PTL

-----------------------------------------------------------------------------
(* What SensorsRecover rests on: what the steps of a calm bus put right,   *)
(* and that nothing but a disturbance undoes it.                           *)

\* On a calm bus the set-up stops and starts the sensors it means to, and a
\* read of a measuring SPS30 brings back an address that was left behind.
CalmBusWorks ==
  calm =>
    /\ init_hvac_click => ~measuring'["scd40"]
    /\ temphum24_default_cfg => measuring'["hdc302x"]
    /\ start_scd40 => measuring'["scd40"]
    /\ hvac_sps30_start_measurement => measuring'["sps30"] /\ addr' = "scd40"
    /\ hvac_sps30_read_measured_data /\ measuring["sps30"] =>
         addr' = "scd40" /\ taken'["sps30"] = "intact"

\* Every sensor measures and was read, at its address, in a turn without error.
Recovered ==
  /\ pc \in Loop
  /\ addr = "scd40"
  /\ \A s \in Sensors : measuring[s] /\ taken[s] = "intact"
  /\ ~error
  /\ failing < Window

\* Nothing the station does, and no reset, disturbs sensors that have recovered.
RecoveryStays == calm /\ Recovered => Recovered'

\* An undisturbed command to a sensor's own address sets its mode.
LEMMA CalmCommand ==
  ASSUME TypeOK, calm, NEW sensor \in Sensors, NEW mode \in BOOLEAN,
         Command(sensor, sensor, mode)
  PROVE  measuring' = [measuring EXCEPT ![sensor] = mode]
BY DEF Command

\* An undisturbed transfer to a sensor that understands it is intact.
LEMMA CalmTransfer ==
  ASSUME calm, NEW sensor, NEW understood, understood,
         NEW outcome \in Transfer(sensor, sensor, understood)
  PROVE  outcome = "intact"
BY DEF Transfer

\* That the SCD40 is started at all rests on where the address points then.
THEOREM CalmBusPutsRight == Spec => [][CalmBusWorks]_vars
<1>1. Inv /\ [Next]_vars => [CalmBusWorks]_vars
  <2> SUFFICES ASSUME Inv, calm PROVE CalmBusWorks
    BY DEF CalmBusWorks
  <2>0. DOMAIN measuring = Sensors /\ DOMAIN taken = Sensors /\ TypeOK
    BY DEF Inv, TypeOK
  <2>1. ASSUME init_hvac_click PROVE ~measuring'["scd40"]
    BY <2>0, <2>1, CalmCommand
       DEF init_hvac_click, scd4x_reset, Sensors, HvacSensors
  <2>2. ASSUME temphum24_default_cfg PROVE measuring'["hdc302x"]
    <3>1. PICK id \in Transfer("hdc302x", "hdc302x", TRUE),
               start \in Transfer("hdc302x", "hdc302x", TRUE) :
            \E obeys \in {TRUE, start = "intact"} :
              measuring' = [measuring EXCEPT
                              !["hdc302x"] = (id = "intact" /\ obeys)]
      BY <2>2 DEF temphum24_default_cfg
    <3>2. id = "intact" /\ start = "intact"
      BY <3>1, CalmTransfer
    <3>3. measuring' = [measuring EXCEPT !["hdc302x"] = TRUE]
      BY <3>1, <3>2, Zenon
    <3> QED BY <2>0, <3>3 DEF Sensors
  <2>3. ASSUME start_scd40 PROVE measuring'["scd40"]
    <3>1. addr = "scd40"
      BY <2>3 DEF Inv, Directed, MisdirectedByFailureOnly, start_scd40, Loop
    <3> QED BY <2>0, <2>3, <3>1, CalmCommand
            DEF start_scd40, Sensors, HvacSensors
  <2>4. ASSUME hvac_sps30_start_measurement
        PROVE  measuring'["sps30"] /\ addr' = "scd40"
    BY <2>0, <2>4, CalmCommand
       DEF hvac_sps30_start_measurement, Sensors, HvacSensors
  <2>5. ASSUME hvac_sps30_read_measured_data, measuring["sps30"]
        PROVE  addr' = "scd40" /\ taken'["sps30"] = "intact"
    BY <2>0, <2>5, CalmTransfer
       DEF hvac_sps30_read_measured_data, AddressAfterRead, Take, Checked,
           Sensors, HvacSensors
  <2> QED BY <2>1, <2>2, <2>3, <2>4, <2>5 DEF CalmBusWorks
<1> QED BY <1>1, Invariance, PTL DEF Spec

\* A calm station whose sensors have recovered goes on reading all of them.
THEOREM RecoveredForGood == Spec => [][RecoveryStays]_vars
<1>1. Inv /\ [Next]_vars => [RecoveryStays]_vars
  <2> SUFFICES ASSUME Inv, Next, calm, Recovered PROVE Recovered'
    BY DEF RecoveryStays
  <2>0. /\ DOMAIN taken = Sensors /\ pc \in Loop /\ ~error
        /\ \A s \in Sensors : measuring[s]
    BY DEF Inv, TypeOK, Recovered
  <2>1. ASSUME NEW sensor \in Sensors, NEW next \in Loop,
               addr' = "scd40", Take(sensor, "intact", next)
        PROVE  Recovered'
    <3>1. \A s \in Sensors : taken'[s] = "intact"
      BY <2>0, <2>1 DEF Take, Recovered
    <3>2. ~error'
      BY <2>0, <2>1 DEF Take
    <3> QED BY <2>1, <3>1, <3>2 DEF Recovered, Take
  <2>2. CASE temphum24_read_temp_and_rh
    BY <2>0, <2>1, <2>2, CalmTransfer
       DEF temphum24_read_temp_and_rh, Checked, Recovered, Loop, Sensors
  <2>3. CASE hvac_scd40_read_measurement
    BY <2>0, <2>1, <2>3, CalmTransfer
       DEF hvac_scd40_read_measurement, Unchecked, Recovered, Loop, Sensors,
           HvacSensors
  <2>4. CASE hvac_sps30_read_measured_data
    BY <2>0, <2>1, <2>4, CalmTransfer
       DEF hvac_sps30_read_measured_data, AddressAfterRead, Checked, Loop,
           Sensors, HvacSensors
  <2>5. CASE Epilogue
    <3>1. PICK missed \in {FALSE, ~calm} :
            failing' = IF error \/ missed THEN failing + 1 ELSE 0
      BY <2>5 DEF Epilogue
    <3>2. ~missed
      BY <3>1
    <3>3. failing' = 0
      BY <2>0, <3>1, <3>2, Zenon
    <3> QED BY <2>5, <3>3, WindowAssumption DEF Epilogue, Recovered, Loop
  <2>6. CASE WatchdogReset \/ OtherReset
    BY <2>6, WindowAssumption
       DEF WatchdogReset, OtherReset, Recovered, Loop, Inv, TypeOK
  <2>7. CASE Disturb
    BY <2>7 DEF Disturb, Recovered
  <2>8. pc \notin Setup
    BY <2>0 DEF Setup, Loop
  <2> QED BY <2>2, <2>3, <2>4, <2>5, <2>6, <2>7, <2>8
          DEF Next, Main, Setup, init_hvac_click, get_hdc302x_serial,
              get_scd4x_serial, get_sps30_serial, temphum24_default_cfg,
              start_scd40, hvac_sps30_start_measurement
<1> QED BY <1>1, Invariance, PTL DEF Spec

=============================================================================
