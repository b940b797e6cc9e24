------------------------------ MODULE UniqueId ------------------------------
(***************************************************************************)
(* The identifiers Home Assistant knows the station's sensors by: uid.c,   *)
(* from the serial numbers it reads to the strings it makes of them.       *)
(*                                                                         *)
(* Of a string only what fits into its buffer matters, and of a serial     *)
(* number its length and whether it is the one the sensor sent. Each read  *)
(* is shown with one word; the drivers treat all words of it alike. Names  *)
(* are sequences of characters: one of them begins with another.           *)
(***************************************************************************)

EXTENDS Crc8, Sequences

CONSTANTS
  Words,         \* words of a serial number
  MaxLength      \* HVAC_SPS30_MAX_SERIAL_LEN without the end of the string

ASSUME WordsAssumption == Words \subseteq Word
ASSUME MaxLengthAssumption == MaxLength \in Nat

\* Part number and name of each sensor, in the order they are filled in.
Entities ==
  <<[part |-> "nrf52840", name |-> <<"w", "d", "t">>],
    [part |-> "hdc302x", name |-> <<"t", "e", "m", "p">>],
    [part |-> "hdc302x", name |-> <<"h", "u", "m">>],
    [part |-> "scd4x", name |-> <<"c", "o", "2">>],
    [part |-> "sps30", name |-> <<"p", "m", "1">>],
    [part |-> "sps30", name |-> <<"p", "m", "2", "5">>],
    [part |-> "sps30", name |-> <<"p", "m", "1", "0">>]>>

Parts == {"nrf52840", "hdc302x", "scd4x", "sps30"}

VARIABLES
  pc,        \* the part whose serial number is read next, "fill", "done" or
             \* "returned"
  serial,    \* of each part: "none", "right" (as it was sent) or "wrong"
  length,    \* characters of the SPS30's serial number
  ids        \* the identifiers, as far as they are filled in

vars == <<pc, serial, length, ids>>

Init ==
  /\ pc = "nrf52840"
  /\ serial = [part \in Parts |-> "none"]
  /\ length = 0
  /\ ids = <<>>

-----------------------------------------------------------------------------
(* uid_init: four serial numbers. Main returns if one of them fails. *)

\* What may arrive of a word and its checksum.
Received(word) ==
  {SymDiff(FrameOf(word), errors) : errors \in {{}} \cup Disturbances}

Take(part, word, frame) ==
  serial' = [serial EXCEPT ![part] = IF WordOf(frame) = word THEN "right" ELSE "wrong"]

Fails ==
  /\ pc' = "returned"
  /\ UNCHANGED <<serial, length, ids>>

get_device_id_as_string ==
  /\ pc = "nrf52840"
  /\ \/ /\ serial' = [serial EXCEPT !["nrf52840"] = "right"]
        /\ pc' = "hdc302x"
        /\ UNCHANGED <<length, ids>>
     \/ Fails

get_hdc302x_serial_as_string ==
  /\ pc = "hdc302x"
  /\ \/ /\ \E word \in Words : \E frame \in Received(word) :
             CrcIsRight(frame) /\ Take("hdc302x", word, frame)
        /\ pc' = "scd4x"
        /\ UNCHANGED <<length, ids>>
     \/ Fails

\* The checksum of the SCD4x is not looked at.
get_scd4x_serial_as_string ==
  /\ pc = "scd4x"
  /\ \/ /\ \E word \in Words : \E frame \in Received(word) :
             Take("scd4x", word, frame)
        /\ pc' = "sps30"
        /\ UNCHANGED <<length, ids>>
     \/ Fails

\* The one serial number that is a string of its own.
get_sps30_serial_as_string ==
  /\ pc = "sps30"
  /\ \/ /\ \E word \in Words : \E frame \in Received(word) :
             CrcIsRight(frame) /\ Take("sps30", word, frame)
        /\ length' \in 0 .. MaxLength
        /\ pc' = "fill"
        /\ UNCHANGED ids
     \/ Fails

-----------------------------------------------------------------------------
(* uid_fill_unique_ids: "<part>_<serial>_<name>", cut off where the buffer *)
(* ends. snprintf tells by its result, but only a negative one is taken    *)
(* for an error.                                                           *)

PartLength(part) ==
  CASE part = "nrf52840" -> 8
    [] part = "hdc302x" -> 7
    [] part \in {"scd4x", "sps30"} -> 5

\* Eight bytes, or three words, in hexadecimal.
SerialLength(part) ==
  CASE part = "nrf52840" -> 16
    [] part \in {"hdc302x", "scd4x"} -> 12
    [] part = "sps30" -> length

\* Mutant: snprintf is told of one byte less than there is.
RoomButOne == 30

\* UID_UNIQUE_ID_STRING_SIZE without the end of the string.
Room == 31

\* How many of n characters fit where the room is already used for others.
Fit(n, used) ==
  CASE used + n <= Room -> n
    [] used >= Room -> 0
    [] OTHER -> Room - used

\* The characters that are kept of the serial number and of the name.
generate_unique_id(part, name) ==
  LET before == PartLength(part) + 1
      between == before + SerialLength(part) + 1
  IN  [part |-> part,
       digits |-> Fit(SerialLength(part), before),
       name |-> SubSeq(name, 1, Fit(Len(name), between))]

FillNext ==
  /\ pc = "fill"
  /\ LET next == Entities[Len(ids) + 1]
     IN  ids' = Append(ids, generate_unique_id(next.part, next.name))
  /\ pc' = IF Len(ids') < Len(Entities) THEN "fill" ELSE "done"
  /\ UNCHANGED <<serial, length>>

\* The watchdog resets a station that returned; others are reset as well.
Restart ==
  /\ pc' = "nrf52840"
  /\ serial' = [part \in Parts |-> "none"]
  /\ length' = 0
  /\ ids' = <<>>

Next ==
  \/ get_device_id_as_string \/ get_hdc302x_serial_as_string
  \/ get_scd4x_serial_as_string \/ get_sps30_serial_as_string
  \/ FillNext \/ Restart

Spec == Init /\ [][Next]_vars

-----------------------------------------------------------------------------
(* Properties. *)

\* A word that was changed on the bus is not taken for the serial number of a
\* sensor whose checksum is compared: the checksums of both drivers tell every
\* disturbance of up to eight bits in a row, or of up to three anywhere.
AcceptedAsSent == \A part \in {"hdc302x", "sps30"} : serial[part] # "wrong"

\* As long as the SPS30's serial number has at most 20 characters, cutting off
\* does no harm: no two sensors of a station share an identifier, and none has
\* lost a part of the serial number that tells it from another station's.
IdsAreUnique == length <= 20 =>
  /\ \A i, j \in DOMAIN ids : i # j => ids[i] # ids[j]
  /\ \A i \in DOMAIN ids : ids[i].digits = SerialLength(ids[i].part)

=============================================================================
