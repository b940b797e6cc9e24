----------------------------- MODULE I2cSensors -----------------------------
(***************************************************************************)
(* The three sensors of the station and how main talks to them: the set-up *)
(* of init.c, the serial numbers of uid.c, the start of the measurements   *)
(* and the reads of the loop in main.c, over hvac.c, temphum24.c and the   *)
(* I2C shim of drv_i2c_master.c.                                           *)
(*                                                                         *)
(* The SCD40 and the SPS30 share one click context, so one slave address:  *)
(* every SPS30 access sets it and has to set it back. A sensor keeps its   *)
(* mode when the station is reset; it loses it with the power.             *)
(*                                                                         *)
(* A transfer comes to one outcome: what the sensor that was meant sent,   *)
(* "intact", "corrupt" with a CRC that shows it, or "unnoticed": changed   *)
(* with a CRC that is right all the same; the bytes of another sensor,     *)
(* "foreign", whose CRC is right too; or "refused".                        *)
(***************************************************************************)

EXTENDS Naturals

CONSTANT
  Window         \* turns that fail in a row until the watchdog resets

ASSUME WindowAssumption == Window \in Nat \ {0}

VARIABLES
  pc,            \* what main does next
  addr,          \* the address in the context of hvac.c
  measuring,     \* of each sensor: does it measure periodically?
  calm,          \* no transfer is disturbed, nothing else resets the station
  taken,         \* what the last read of each sensor gave
  serial,        \* the outcome that the SCD40's serial number came from
  error,         \* main's flag for this turn
  failing        \* turns in a row that did not feed the watchdog

vars == <<pc, addr, measuring, calm, taken, serial, error, failing>>

HvacSensors == {"scd40", "sps30"}
Sensors == HvacSensors \cup {"hdc302x"}

Setup == {"init_hvac_click", "hdc302x_serial", "scd40_serial", "sps30_serial",
          "hdc302x_start", "scd40_start", "sps30_start"}
Loop == {"hdc302x_read", "scd40_read", "sps30_read", "epilogue"}

Outcomes == {"intact", "corrupt", "unnoticed", "foreign", "refused"}

TypeOK ==
  /\ pc \in Setup \cup Loop \cup {"returned"}
  /\ addr \in HvacSensors
  /\ measuring \in [Sensors -> BOOLEAN]
  /\ calm \in BOOLEAN
  /\ taken \in [Sensors -> Outcomes \cup {"none", "error"}]
  /\ serial \in Outcomes \cup {"none"}
  /\ error \in BOOLEAN
  /\ failing \in 0 .. Window

\* The contexts are locals of main: an address that nobody has set is whatever
\* was on the stack.
Init ==
  /\ pc = "init_hvac_click"
  /\ addr \in HvacSensors
  /\ measuring = [s \in Sensors |-> FALSE]
  /\ calm \in BOOLEAN
  /\ taken = [s \in Sensors |-> "none"]
  /\ serial = "none"
  /\ error = FALSE
  /\ failing = 0

-----------------------------------------------------------------------------
(* The bus. *)

\* What a command meant for one sensor comes to at the address of another, or
\* at its own, when the sensor understands the command in its mode or not.
Transfer(meant, address, understood) ==
  IF address # meant THEN {"foreign", "refused"}
  ELSE IF calm THEN {IF understood THEN "intact" ELSE "refused"}
  ELSE IF understood THEN {"intact", "corrupt", "unnoticed", "refused"}
  ELSE {"refused"}

\* A command without an answer to wait for, whose result is not looked at: its
\* sensor obeys unless the transfer is disturbed or goes elsewhere.
Command(sensor, address, mode) ==
  \/ /\ address = sensor
     /\ measuring' = [measuring EXCEPT ![sensor] = mode]
  \/ /\ address # sensor \/ ~calm
     /\ UNCHANGED measuring

\* The result of a read that compares the CRC, and of one that does not.
Checked(outcome) ==
  IF outcome \in {"corrupt", "refused"} THEN "error" ELSE outcome
Unchecked(outcome) == IF outcome = "refused" THEN "error" ELSE outcome

\* hvac_sps30_i2c_read_data_as_bytes restores the address once both of its
\* transfers went through, before it looks at the CRC.
AddressAfterRead(outcome) == IF outcome = "refused" THEN "sps30" ELSE "scd40"

-----------------------------------------------------------------------------
(* Set-up. Main returns when a step of it fails. *)

ThenOrReturn(ok, next) == pc' = IF ok THEN next ELSE "returned"

\* Mutant: the sensor is not told to stop.
ResetWithoutStop == UNCHANGED measuring

\* The SCD40 is told to stop measuring, then to read its settings again.
scd4x_reset == Command("scd40", "scd40", FALSE)

\* Mutant: the context keeps the address it finds.
InitKeepsAddress ==
  /\ pc = "init_hvac_click"
  /\ scd4x_reset
  /\ pc' = "hdc302x_serial"
  /\ UNCHANGED <<addr, calm, taken, serial, error, failing>>

\* hvac_init sets the address; the shim cannot fail.
init_hvac_click ==
  /\ pc = "init_hvac_click"
  /\ addr' = "scd40"
  /\ scd4x_reset
  /\ pc' = "hdc302x_serial"
  /\ UNCHANGED <<calm, taken, serial, error, failing>>

get_hdc302x_serial ==
  /\ pc = "hdc302x_serial"
  /\ \E outcome \in Transfer("hdc302x", "hdc302x", TRUE) :
       ThenOrReturn(Checked(outcome) # "error", "scd40_serial")
  /\ UNCHANGED <<addr, measuring, calm, taken, serial, error, failing>>

\* The SCD40 has a serial number to tell only while it does not measure. Its
\* CRC is not compared.
get_scd4x_serial ==
  /\ pc = "scd40_serial"
  /\ \E outcome \in Transfer("scd40", addr, ~measuring["scd40"]) :
       /\ serial' = outcome
       /\ ThenOrReturn(Unchecked(outcome) # "error", "sps30_serial")
  /\ UNCHANGED <<addr, measuring, calm, taken, error, failing>>

get_sps30_serial ==
  /\ pc = "sps30_serial"
  /\ \E outcome \in Transfer("sps30", "sps30", TRUE) :
       /\ addr' = AddressAfterRead(outcome)
       /\ ThenOrReturn(Checked(outcome) # "error", "hdc302x_start")
  /\ UNCHANGED <<measuring, calm, taken, serial, error, failing>>

\* The reset pin stops the sensor; its manufacturer is read and compared, then
\* it is started. Of a start that was disturbed the sensor may know or not.
temphum24_default_cfg ==
  /\ pc = "hdc302x_start"
  /\ \E id, start \in Transfer("hdc302x", "hdc302x", TRUE) :
       /\ \E obeys \in {TRUE, start = "intact"} :
            measuring' = [measuring EXCEPT
                            !["hdc302x"] = (id = "intact" /\ obeys)]
       /\ ThenOrReturn(id = "intact" /\ start # "refused", "scd40_start")
  /\ UNCHANGED <<addr, calm, taken, serial, error, failing>>

\* hvac_scd40_send_cmd has no result: nobody knows whether it started.
start_scd40 ==
  /\ pc = "scd40_start"
  /\ Command("scd40", addr, TRUE)
  /\ pc' = "sps30_start"
  /\ UNCHANGED <<addr, calm, taken, serial, error, failing>>

\* Mutant: hvac_sps30_i2c_write_data does not restore the address.
StartKeepsAddress ==
  /\ pc = "sps30_start"
  /\ Command("sps30", "sps30", TRUE)
  /\ addr' = "sps30"
  /\ pc' = "hdc302x_read"
  /\ UNCHANGED <<calm, taken, serial, error, failing>>

\* hvac_sps30_i2c_write_data restores the address whatever the write came to;
\* its result is not looked at.
hvac_sps30_start_measurement ==
  /\ pc = "sps30_start"
  /\ Command("sps30", "sps30", TRUE)
  /\ addr' = "scd40"
  /\ pc' = "hdc302x_read"
  /\ UNCHANGED <<calm, taken, serial, error, failing>>

-----------------------------------------------------------------------------
(* One turn of the loop. *)

Take(sensor, result, next) ==
  /\ taken' = [taken EXCEPT ![sensor] = result]
  /\ error' = (error \/ result = "error")
  /\ pc' = next
  /\ UNCHANGED <<measuring, calm, serial, failing>>

temphum24_read_temp_and_rh ==
  /\ pc = "hdc302x_read"
  /\ \E outcome \in Transfer("hdc302x", "hdc302x", measuring["hdc302x"]) :
       Take("hdc302x", Checked(outcome), "scd40_read")
  /\ UNCHANGED addr

\* At whatever address the context holds, and without comparing the CRC.
hvac_scd40_read_measurement ==
  /\ pc = "scd40_read"
  /\ \E outcome \in Transfer("scd40", addr, measuring["scd40"]) :
       Take("scd40", Unchecked(outcome), "sps30_read")
  /\ UNCHANGED addr

\* Mutant: the address is not restored after a read either.
ReadKeepsAddress ==
  /\ pc = "sps30_read"
  /\ addr' = "sps30"
  /\ \E outcome \in Transfer("sps30", "sps30", measuring["sps30"]) :
       Take("sps30", Checked(outcome), "epilogue")

hvac_sps30_read_measured_data ==
  /\ pc = "sps30_read"
  /\ \E outcome \in Transfer("sps30", "sps30", measuring["sps30"]) :
       /\ addr' = AddressAfterRead(outcome)
       /\ Take("sps30", Checked(outcome), "epilogue")

\* The rest of the turn: a send may be missed too, and the watchdog is fed
\* only if nothing failed. At Window the model stops counting: the watchdog's
\* window is over.
Epilogue ==
  /\ pc = "epilogue"
  /\ failing < Window
  /\ \E missed \in {FALSE, ~calm} :
       failing' = IF error \/ missed THEN failing + 1 ELSE 0
  /\ error' = FALSE
  /\ pc' = "hdc302x_read"
  /\ UNCHANGED <<addr, measuring, calm, taken, serial>>

Main ==
  \/ init_hvac_click
  \/ get_hdc302x_serial \/ get_scd4x_serial \/ get_sps30_serial
  \/ temphum24_default_cfg \/ start_scd40 \/ hvac_sps30_start_measurement
  \/ temphum24_read_temp_and_rh \/ hvac_scd40_read_measurement
  \/ hvac_sps30_read_measured_data \/ Epilogue

-----------------------------------------------------------------------------
(* Resets and disturbances. *)

Restart ==
  /\ pc' = "init_hvac_click"
  /\ addr' \in HvacSensors
  /\ taken' = [s \in Sensors |-> "none"]
  /\ serial' = "none"
  /\ error' = FALSE
  /\ failing' = 0
  /\ UNCHANGED calm

\* The watchdog resets the station, not the sensors.
WatchdogReset ==
  /\ failing = Window \/ pc = "returned"
  /\ Restart
  /\ UNCHANGED measuring

\* Another reset, or a loss of power.
OtherReset ==
  /\ ~calm
  /\ Restart
  /\ \/ UNCHANGED measuring
     \/ measuring' = [s \in Sensors |-> FALSE]

\* Disturbances come and go.
Disturb ==
  /\ calm' = ~calm
  /\ UNCHANGED <<pc, addr, measuring, taken, serial, error, failing>>

Next == Main \/ WatchdogReset \/ OtherReset \/ Disturb

Spec == Init /\ [][Next]_vars

\* Main goes on, and the watchdog resets a station it is not fed by.
FairSpec == Spec /\ WF_vars(Main) /\ WF_vars(WatchdogReset)

-----------------------------------------------------------------------------
(* Properties. *)

\* The shared address points away from the SCD40 only after an SPS30 read that
\* main was told has failed, and one SPS30 read that works brings it back: no
\* access before the loop, and no other failure, leaves it behind.
MisdirectedByFailureOnly ==
  addr # "scd40" =>
    /\ pc \in {"init_hvac_click", "returned"} \cup Loop
    /\ pc \in Loop => taken["sps30"] = "error"
    /\ pc = "epilogue" => error

\* The SCD40's part of the identifiers is a serial number that the SCD40 itself
\* sent: it is asked at its own address and while it is stopped, even after a
\* reset that left it measuring.
SerialIsItsOwn == serial # "foreign"

\* A CO2 reading that is another sensor's answer is taken only in a turn that
\* follows a turn that was not fed: no start-up and no clean turn leaves the
\* address where the next read of the SCD40 finds the SPS30, so that a station
\* that is fed turn after turn has no such reading.
ForeignReadingFollowsFailure ==
  pc \in {"sps30_read", "epilogue"} /\ taken["scd40"] = "foreign"
    => failing > 0

\* Once the bus is calm, every sensor is read again for good: a lost command, a
\* sensor left measuring and an address left behind all come right, in the loop
\* or by a reset.
SensorsRecover == <>[]calm => <>[](\A s \in Sensors : taken[s] = "intact")

\* hvac_scd40_read_measurement "read[s] sensor measurement data of the SCD40":
\* whenever it is called, the context holds the SCD40's address.
ScdReadIsDirected == pc = "scd40_read" => addr = "scd40"

=============================================================================
