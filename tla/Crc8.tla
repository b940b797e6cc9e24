-------------------------------- MODULE Crc8 --------------------------------
(***************************************************************************)
(* The checksum that the HDC302x and the SPS30 send behind each word of 16 *)
(* bits, as hvac.c and temphum24.c compute it, and what may happen to a    *)
(* word and its checksum on the bus.                                       *)
(*                                                                         *)
(* A byte, a word and a frame (a word and its checksum) are the sets of    *)
(* the positions of their ones, so that the ^ of C is SymDiff.             *)
(***************************************************************************)

EXTENDS Integers, FiniteSetsExt

Bit == 0 .. 7
Byte == SUBSET Bit
Word == SUBSET (0 .. 15)
Position == 0 .. 23
Frame == SUBSET Position

\* The bytes of a word.
High(word) == {b \in Bit : b + 8 \in word}
Low(word) == word \cap Bit

Polynomial == {0, 4, 5}    \* 0x31
InitValue == Bit           \* 0xFF

\* Mutant: the bit that is shifted out is not looked at.
ShiftOnly(crc) == {b \in Bit : b - 1 \in crc}

\* One bit: crc << 1, and ^ 0x31 if crc & 0x80.
Shift(crc) ==
  SymDiff({b \in Bit : b - 1 \in crc}, IF 7 \in crc THEN Polynomial ELSE {})

\* The eight bits of a byte.
Shifted(crc) ==
  Shift(Shift(Shift(Shift(Shift(Shift(Shift(Shift(crc))))))))

\* temphum24_calculate_crc is the same computation.
dev_calc_crc(word) ==
  LET high == Shifted(SymDiff(InitValue, High(word)))
  IN  Shifted(SymDiff(high, Low(word)))

-----------------------------------------------------------------------------

\* What a sensor sends.
FrameOf(word) == {p \in Position : p - 8 \in word} \cup dev_calc_crc(word)

\* What the drivers take from a frame: its word and its checksum.
WordOf(frame) == {p \in 0 .. 15 : p + 8 \in frame}
CheckOf(frame) == frame \cap Bit

CrcIsRight(frame) == CheckOf(frame) = dev_calc_crc(WordOf(frame))

\* A disturbance inverts bits of a frame: some within eight in a row, or up to
\* three anywhere.
Bursts == (UNION {SUBSET (p .. p + 7) : p \in 0 .. 16}) \ {{}}

Scattered == {{p, q, r} : p, q, r \in Position}

Disturbances == Bursts \cup Scattered

=============================================================================
