--------------------------- MODULE UniqueId_proofs ---------------------------
(***************************************************************************)
(* Proofs about Crc8 and UniqueId: the checksum of the drivers finds every *)
(* disturbance, for each of the 65536 words; so no serial number that main *)
(* accepts is another one than was sent, and the identifiers made of them  *)
(* differ.                                                                 *)
(*                                                                         *)
(* The checksum is linear but for its initial value: whether a disturbance *)
(* is found depends on the disturbance only (Undisclosed), on its bits in  *)
(* the two bytes of the word and in the checksum. A burst touches at most  *)
(* two of the three, neither of them as a whole (Straddle); of scattered   *)
(* bits an odd number changes a parity that the checksum preserves         *)
(* (OddShifted), and two are a burst or in different bytes (NotSingle).    *)
(***************************************************************************)

EXTENDS UniqueId, SequenceTheorems, TLAPS

Xor(p, q) == ~(p <=> q)

\* The bits of a byte, from the lowest on.
Is(byte, b0, b1, b2, b3, b4, b5, b6, b7) ==
  /\ (0 \in byte <=> b0) /\ (1 \in byte <=> b1)
  /\ (2 \in byte <=> b2) /\ (3 \in byte <=> b3)
  /\ (4 \in byte <=> b4) /\ (5 \in byte <=> b5)
  /\ (6 \in byte <=> b6) /\ (7 \in byte <=> b7)

-----------------------------------------------------------------------------
(* Shifting. *)

\* Shift yields a byte, of which each bit is known.
LEMMA ShiftBits ==
  ASSUME NEW a \in Byte
  PROVE  /\ Shift(a) \in Byte
         /\ \A b \in Bit : b \in Shift(a) <=>
              Xor(b - 1 \in a, 7 \in a /\ b \in Polynomial)
<1> DEFINE up == {b \in Bit : b - 1 \in a}
<1>1. Polynomial \in Byte /\ up \in Byte
  BY DEF Polynomial, Bit, Byte
<1>2. CASE 7 \in a
  <2>1. Shift(a) = SymDiff(up, Polynomial)
    BY <1>2 DEF Shift
  <2> QED BY <1>1, <1>2, <2>1 DEF SymDiff, Byte, Xor
<1>3. CASE 7 \notin a
  <2>1. Shift(a) = up
    BY <1>3 DEF Shift, SymDiff
  <2> QED BY <1>1, <1>3, <2>1 DEF Xor
<1> QED BY <1>2, <1>3

\* Shift, bit by bit.
LEMMA ShiftIs ==
  ASSUME NEW a \in Byte
  PROVE  Is(Shift(a), 7 \in a, 0 \in a, 1 \in a, 2 \in a, Xor(3 \in a, 7 \in a),
                      Xor(4 \in a, 7 \in a), 5 \in a, 6 \in a)
BY ShiftBits DEF Is, Bit, Byte, Polynomial, Xor

\* Shift is linear.
LEMMA ShiftLinear ==
  ASSUME NEW a \in Byte, NEW b \in Byte
  PROVE  /\ SymDiff(a, b) \in Byte
         /\ Shift(SymDiff(a, b)) = SymDiff(Shift(a), Shift(b))
<1>1. SymDiff(a, b) \in Byte
  BY DEF SymDiff, Byte
<1>2. \A i : i \in SymDiff(a, b) <=> Xor(i \in a, i \in b)
  BY DEF SymDiff, Xor
<1>3. \A i \in Bit : i \in Shift(SymDiff(a, b)) <=>
                       Xor(i \in Shift(a), i \in Shift(b))
  BY <1>1, <1>2, ShiftBits DEF Xor
<1>4. /\ Shift(SymDiff(a, b)) \in Byte
      /\ SymDiff(Shift(a), Shift(b)) \in Byte
  BY <1>1, ShiftBits DEF SymDiff, Byte
<1>5. \A i : i \in SymDiff(Shift(a), Shift(b)) <=> Xor(i \in Shift(a), i \in Shift(b))
  BY DEF SymDiff, Xor
<1> QED BY <1>1, <1>3, <1>4, <1>5 DEF Byte

\* So are eight shifts.
LEMMA ShiftedLinear ==
  ASSUME NEW a \in Byte, NEW b \in Byte
  PROVE  /\ Shifted(a) \in Byte
         /\ Shifted(SymDiff(a, b)) = SymDiff(Shifted(a), Shifted(b))
BY ShiftLinear, ShiftBits DEF Shifted

\* Eight shifts, bit by bit.
LEMMA ShiftedIs ==
  ASSUME NEW a \in Byte
  PROVE  Is(Shifted(a),
            Xor(Xor(0 \in a, 3 \in a), Xor(4 \in a, 6 \in a)),
            Xor(Xor(1 \in a, 4 \in a), Xor(5 \in a, 7 \in a)),
            Xor(2 \in a, Xor(5 \in a, 6 \in a)),
            Xor(3 \in a, Xor(6 \in a, 7 \in a)),
            Xor(Xor(0 \in a, 3 \in a), Xor(6 \in a, 7 \in a)),
            Xor(0 \in a, Xor(Xor(1 \in a, 3 \in a), Xor(6 \in a, 7 \in a))),
            Xor(Xor(1 \in a, 2 \in a), Xor(4 \in a, 7 \in a)),
            Xor(2 \in a, Xor(3 \in a, 5 \in a)))
<1> DEFINE Follows(s, t) ==
             Is(t, 7 \in s, 0 \in s, 1 \in s, 2 \in s, Xor(3 \in s, 7 \in s),
                   Xor(4 \in s, 7 \in s), 5 \in s, 6 \in s)
           s1 == Shift(a)
           s2 == Shift(s1)
           s3 == Shift(s2)
           s4 == Shift(s3)
           s5 == Shift(s4)
           s6 == Shift(s5)
           s7 == Shift(s6)
           s8 == Shift(s7)
<1>1. /\ s1 \in Byte /\ s2 \in Byte /\ s3 \in Byte /\ s4 \in Byte
      /\ s5 \in Byte /\ s6 \in Byte /\ s7 \in Byte
  BY ShiftBits
<1>2. /\ Follows(a, s1) /\ Follows(s1, s2) /\ Follows(s2, s3) /\ Follows(s3, s4)
      /\ Follows(s4, s5) /\ Follows(s5, s6) /\ Follows(s6, s7) /\ Follows(s7, s8)
  BY <1>1, ShiftIs
<1>3. Shifted(a) = s8
  BY DEF Shifted
<1> HIDE DEF s1, s2, s3, s4, s5, s6, s7, s8
<1> QED BY <1>2, <1>3 DEF Is, Xor

\* A disturbance that goes over the end of a byte, at most eight bits long, is
\* not made up for by the byte that follows.
LEMMA Straddle ==
  ASSUME NEW a \in Byte, NEW b \in Byte, NEW k \in 0 .. 8,
         a \subseteq 0 .. k - 1, b \subseteq k .. 7, Shifted(a) = b
  PROVE  a = {} /\ b = {}
<1>1. \A i \in Bit : i \notin a
  BY ShiftedIs DEF Is, Xor, Bit
<1>2. \A i \in Bit : i \notin b
  BY <1>1, ShiftedIs DEF Is, Xor, Bit
<1> QED BY <1>1, <1>2 DEF Byte

\* Nothing becomes nothing.
LEMMA ShiftedEmpty == Shifted({}) = {}
<1>1. {} \in Byte /\ Shifted({}) \in Byte
  BY ShiftedLinear DEF Byte
<1>2. \A i \in Bit : i \notin Shifted({})
  BY <1>1, ShiftedIs DEF Is, Xor, Bit
<1> QED BY <1>1, <1>2 DEF Byte

\* A single bit becomes more than one, and does not become one again.
LEMMA NotSingle ==
  ASSUME NEW i \in Bit, NEW j \in Bit
  PROVE  Shifted({i}) # {j} /\ Shifted(Shifted({i})) # {j}
<1> DEFINE s == Shifted({i})
           t == Shifted(s)
<1>1. {i} \in Byte /\ s \in Byte
  BY ShiftedLinear DEF Byte
<1>2. Is(s, i \in {0, 3, 4, 6}, i \in {1, 4, 5, 7}, i \in {2, 5, 6},
            i \in {3, 6, 7}, i \in {0, 3, 6, 7}, i \in {0, 1, 3, 6, 7},
            i \in {1, 2, 4, 7}, i \in {2, 3, 5})
  BY <1>1, ShiftedIs DEF Is, Xor, Bit
<1>3. Is(t, i \in {1, 2, 3, 6, 7}, i \in {2, 3, 4, 7}, i \in {0, 3, 4, 5},
            i \in {1, 4, 5, 6}, i \in {0, 1, 3, 5}, i \in {0, 3, 4, 7},
            i \in {0, 1, 4, 5}, i \in {0, 1, 2, 5, 6})
  BY <1>1, <1>2, ShiftedIs DEF Is, Xor, Bit
<1> HIDE DEF s, t
<1>4. s # {j}
  BY <1>2 DEF Is, Bit
<1>5. t # {j}
  BY <1>3 DEF Is, Bit
<1> QED BY <1>4, <1>5 DEF s, t

-----------------------------------------------------------------------------
(* Parity. *)

Odd(byte) ==
  Xor(Xor(Xor(0 \in byte, 1 \in byte), Xor(2 \in byte, 3 \in byte)),
      Xor(Xor(4 \in byte, 5 \in byte), Xor(6 \in byte, 7 \in byte)))

\* The polynomial has an even number of ones, the one that is not written
\* included: shifting preserves the parity of a byte.
LEMMA OddShifted ==
  ASSUME NEW a \in Byte
  PROVE  Odd(Shifted(a)) <=> Odd(a)
BY ShiftedIs DEF Is, Odd, Xor

\* Parities add up.
LEMMA OddSum ==
  ASSUME NEW a, NEW b
  PROVE  Odd(SymDiff(a, b)) <=> Xor(Odd(a), Odd(b))
<1>1. \A i : i \in SymDiff(a, b) <=> Xor(i \in a, i \in b)
  BY DEF SymDiff, Xor
<1> QED BY <1>1 DEF Odd, Xor
-----------------------------------------------------------------------------
(* The checksum of a word. *)

\* The checksum without its initial value.
Linear(word) == Shifted(SymDiff(Shifted(High(word)), Low(word)))

\* The bytes of words and frames are bytes.
LEMMA Types ==
  /\ \A word : High(word) \in Byte /\ Low(word) \in Byte
  /\ \A frame : WordOf(frame) \in Word /\ CheckOf(frame) \in Byte
  /\ \A word : dev_calc_crc(word) \in Byte
<1>1. \A word : High(word) \in Byte /\ Low(word) \in Byte
  BY DEF High, Low, Bit, Byte
<1>2. \A frame : WordOf(frame) \in Word /\ CheckOf(frame) \in Byte
  BY DEF WordOf, CheckOf, Word, Bit, Byte
<1>3. InitValue \in Byte
  BY DEF InitValue, Byte
<1> QED BY <1>1, <1>2, <1>3, ShiftLinear, ShiftedLinear DEF dev_calc_crc

\* A disturbance of a word changes its checksum by what depends on the
\* disturbance only.
LEMMA CrcIsLinear ==
  ASSUME NEW word \in Word, NEW errors \in Word
  PROVE  dev_calc_crc(SymDiff(word, errors)) =
           SymDiff(dev_calc_crc(word), Linear(errors))
<1> DEFINE wh == SymDiff(InitValue, High(word))
           wl == Low(word)
           eh == High(errors)
           el == Low(errors)
<1>1. wh \in Byte /\ wl \in Byte /\ eh \in Byte /\ el \in Byte
  BY Types, ShiftLinear DEF InitValue, Byte
<1>2. SymDiff(InitValue, High(SymDiff(word, errors))) = SymDiff(wh, eh)
  BY DEF SymDiff, High
<1>3. Low(SymDiff(word, errors)) = SymDiff(wl, el)
  BY DEF SymDiff, Low
<1>4. /\ dev_calc_crc(word) = Shifted(SymDiff(Shifted(wh), wl))
      /\ Linear(errors) = Shifted(SymDiff(Shifted(eh), el))
  BY DEF dev_calc_crc, Linear
<1>5. dev_calc_crc(SymDiff(word, errors)) =
        Shifted(SymDiff(Shifted(SymDiff(wh, eh)), SymDiff(wl, el)))
  BY <1>2, <1>3 DEF dev_calc_crc
<1> HIDE DEF wh, wl, eh, el
<1>6. Shifted(SymDiff(wh, eh)) = SymDiff(Shifted(wh), Shifted(eh))
  BY <1>1, ShiftedLinear
<1>7. SymDiff(SymDiff(Shifted(wh), Shifted(eh)), SymDiff(wl, el)) =
        SymDiff(SymDiff(Shifted(wh), wl), SymDiff(Shifted(eh), el))
  BY DEF SymDiff
<1>8. SymDiff(Shifted(wh), wl) \in Byte /\ SymDiff(Shifted(eh), el) \in Byte
  BY <1>1, ShiftLinear, ShiftedLinear
<1> QED BY <1>4, <1>5, <1>6, <1>7, <1>8, ShiftedLinear

\* What a sensor sends is accepted, and taken for what it is.
LEMMA CleanIsAccepted ==
  ASSUME NEW word \in Word
  PROVE  /\ WordOf(FrameOf(word)) = word
         /\ CheckOf(FrameOf(word)) = dev_calc_crc(word)
         /\ CrcIsRight(FrameOf(word))
<1>1. dev_calc_crc(word) \in Byte
  BY Types
<1>2. WordOf(FrameOf(word)) = word
  <2>1. \A p \in 0 .. 15 : p + 8 \in FrameOf(word) <=> p \in word
    BY <1>1 DEF FrameOf, Position, Byte, Bit
  <2> QED BY <2>1 DEF WordOf, Word
<1>3. CheckOf(FrameOf(word)) = dev_calc_crc(word)
  <2>1. \A p \in Bit : p - 8 \notin word
    BY DEF Bit, Word
  <2> QED BY <1>1, <2>1 DEF FrameOf, Position, CheckOf, Byte, Bit
<1> QED BY <1>2, <1>3 DEF CrcIsRight

\* The bytes of a disturbance: two in the word, one in the checksum.
HighOf(errors) == {b \in Bit : b + 16 \in errors}
LowOf(errors) == {b \in Bit : b + 8 \in errors}

\* A disturbed frame is accepted only if the disturbance of its word explains
\* that of its checksum.
LEMMA Undisclosed ==
  ASSUME NEW word \in Word, NEW errors,
         CrcIsRight(SymDiff(FrameOf(word), errors))
  PROVE  Shifted(SymDiff(Shifted(HighOf(errors)), LowOf(errors))) = CheckOf(errors)
<1> DEFINE frame == FrameOf(word)
           crc == dev_calc_crc(word)
           c == CheckOf(errors)
           l == Linear(WordOf(errors))
<1>1. WordOf(SymDiff(frame, errors)) = SymDiff(word, WordOf(errors))
  <2>1. WordOf(SymDiff(frame, errors)) = SymDiff(WordOf(frame), WordOf(errors))
    BY DEF WordOf, SymDiff
  <2> QED BY <2>1, CleanIsAccepted
<1>2. CheckOf(SymDiff(frame, errors)) = SymDiff(crc, c)
  <2>1. CheckOf(SymDiff(frame, errors)) = SymDiff(CheckOf(frame), c)
    BY DEF CheckOf, SymDiff
  <2> QED BY <2>1, CleanIsAccepted
<1>3. dev_calc_crc(SymDiff(word, WordOf(errors))) = SymDiff(crc, l)
  BY Types, CrcIsLinear
<1>4. SymDiff(crc, c) = SymDiff(crc, l)
  BY <1>1, <1>2, <1>3 DEF CrcIsRight
<1>5. c = l
  <2> HIDE DEF crc, c, l
  <2> QED BY <1>4 DEF SymDiff
<1>6. High(WordOf(errors)) = HighOf(errors) /\ Low(WordOf(errors)) = LowOf(errors)
  BY DEF High, Low, HighOf, LowOf, WordOf, Bit
<1> QED BY <1>5, <1>6 DEF Linear

-----------------------------------------------------------------------------
(* The disturbances that are found. *)

\* A disturbance that changes no byte of a frame is none.
LEMMA NothingDisturbed ==
  ASSUME NEW errors \in Frame, HighOf(errors) = {}, LowOf(errors) = {},
         CheckOf(errors) = {}
  PROVE  errors = {}
<1>1. ASSUME NEW p \in errors PROVE FALSE
  <2>1. p \in 0 .. 23
    BY <1>1 DEF Frame, Position
  <2>2. CASE p \in Bit
    BY <1>1, <2>2 DEF CheckOf
  <2>3. CASE p - 8 \in Bit
    <3>1. (p - 8) + 8 = p
      BY <2>1
    <3> QED BY <1>1, <2>3, <3>1 DEF LowOf
  <2>4. CASE p - 16 \in Bit
    <3>1. (p - 16) + 16 = p
      BY <2>1
    <3> QED BY <1>1, <2>4, <3>1 DEF HighOf
  <2> QED BY <2>1, <2>2, <2>3, <2>4 DEF Bit
<1> QED BY <1>1

\* A burst is a disturbance of the frame, in two bytes that follow each other.
LEMMA BurstFacts ==
  ASSUME NEW p \in 0 .. 16, NEW errors \in SUBSET (p .. p + 7)
  PROVE  /\ errors \in Frame
         /\ p <= 8 => /\ HighOf(errors) = {}
                      /\ LowOf(errors) \subseteq 0 .. p - 1
                      /\ CheckOf(errors) \subseteq p .. 7
         /\ p >= 8 => /\ HighOf(errors) \subseteq 0 .. (p - 8) - 1
                      /\ LowOf(errors) \subseteq p - 8 .. 7
                      /\ CheckOf(errors) = {}
<1>1. \A i \in errors : i \in Int /\ p <= i /\ i <= p + 7
  OBVIOUS
<1>2. errors \in Frame
  BY <1>1 DEF Frame, Position
<1>3. CASE p <= 8
  <2>1. \A b \in Bit : b + 16 \notin errors
    BY <1>1, <1>3 DEF Bit
  <2>2. \A b \in Bit : b + 8 \in errors => b \in 0 .. p - 1
    BY <1>1, <1>3 DEF Bit
  <2>3. CheckOf(errors) \subseteq p .. 7
    BY <1>1, <1>3 DEF CheckOf, Bit
  <2>4. p = 8 => CheckOf(errors) = {} /\ LowOf(errors) \subseteq p - 8 .. 7
    BY <2>3 DEF LowOf, Bit
  <2>5. HighOf(errors) = {}
    BY <2>1 DEF HighOf
  <2>6. LowOf(errors) \subseteq 0 .. p - 1
    BY <2>2 DEF LowOf
  <2> QED BY <1>2, <1>3, <2>3, <2>4, <2>5, <2>6
<1>4. CASE p > 8
  <2>1. \A b \in Bit : b \notin errors
    BY <1>1, <1>4 DEF Bit
  <2>2. \A b \in Bit : b + 16 \in errors => b \in 0 .. (p - 8) - 1
    BY <1>1, <1>4 DEF Bit
  <2>3. \A b \in Bit : b + 8 \in errors => b \in p - 8 .. 7
    BY <1>1, <1>4 DEF Bit
  <2>4. CheckOf(errors) = {}
    BY <2>1 DEF CheckOf
  <2>5. HighOf(errors) \subseteq 0 .. (p - 8) - 1
    BY <2>2 DEF HighOf
  <2>6. LowOf(errors) \subseteq p - 8 .. 7
    BY <2>3 DEF LowOf
  <2> QED BY <1>2, <1>4, <2>4, <2>5, <2>6
<1> QED BY <1>3, <1>4

\* The bytes of a disturbance are bytes.
LEMMA ErrorBytes ==
  ASSUME NEW errors
  PROVE  HighOf(errors) \in Byte /\ LowOf(errors) \in Byte /\ CheckOf(errors) \in Byte
BY DEF HighOf, LowOf, CheckOf, Byte

\* Nothing and a byte are the byte, and only two bytes that are the same leave
\* nothing.
LEMMA SymDiffEmpty ==
  ASSUME NEW a, NEW b
  PROVE  /\ SymDiff({}, b) = b /\ SymDiff(a, {}) = a
         /\ SymDiff(a, b) = {} => a = b
BY DEF SymDiff

\* Only nothing becomes nothing.
LEMMA OnlyEmptyVanishes ==
  ASSUME NEW a \in Byte, Shifted(a) = {}
  PROVE  a = {}
<1>1. {} \in Byte /\ a \subseteq 0 .. 8 - 1 /\ {} \subseteq 8 .. 7
  BY DEF Byte, Bit
<1> QED BY <1>1, Straddle

\* No burst of at most eight bits is accepted.
LEMMA BurstIsFound ==
  ASSUME NEW word \in Word, NEW errors \in Bursts
  PROVE  ~CrcIsRight(SymDiff(FrameOf(word), errors))
<1> SUFFICES ASSUME CrcIsRight(SymDiff(FrameOf(word), errors)) PROVE FALSE
  OBVIOUS
<1>1. PICK p \in 0 .. 16 : errors \in SUBSET (p .. p + 7)
  BY DEF Bursts
<1>2. errors # {}
  BY DEF Bursts
<1> DEFINE h == HighOf(errors)
           l == LowOf(errors)
           c == CheckOf(errors)
<1>3. h \in Byte /\ l \in Byte /\ c \in Byte
  BY ErrorBytes
<1>4. Shifted(SymDiff(Shifted(h), l)) = c
  BY Undisclosed
<1>5. errors \in Frame
  BY <1>1, BurstFacts
<1>6. CASE p <= 8
  <2>1. h = {} /\ l \subseteq 0 .. p - 1 /\ c \subseteq p .. 7
    BY <1>1, <1>6, BurstFacts
  <2>2. Shifted(l) = c
    BY <1>4, <2>1, ShiftedEmpty, SymDiffEmpty
  <2>3. l = {} /\ c = {}
    <3>1. p \in 0 .. 8
      BY <1>6
    <3> HIDE DEF l, c
    <3> QED BY <1>3, <2>1, <2>2, <3>1, Straddle
  <2> QED BY <1>2, <1>5, <2>1, <2>3, NothingDisturbed
<1>7. CASE p > 8
  <2>1. h \subseteq 0 .. (p - 8) - 1 /\ l \subseteq p - 8 .. 7 /\ c = {}
    BY <1>1, <1>7, BurstFacts
  <2>2. Shifted(h) = l
    <3> DEFINE x == SymDiff(Shifted(h), l)
    <3>1. Shifted(h) \in Byte
      BY <1>3, ShiftedLinear
    <3>2. x \in Byte
      BY <1>3, <3>1, ShiftLinear
    <3>3. Shifted(x) = {}
      BY <1>4, <2>1
    <3>4. x = {}
      <4> HIDE DEF x
      <4> QED BY <3>2, <3>3, OnlyEmptyVanishes
    <3> QED BY <3>4, SymDiffEmpty
  <2>3. h = {} /\ l = {}
    <3>1. p - 8 \in 0 .. 8
      BY <1>7
    <3> HIDE DEF h, l, c
    <3> QED BY <1>3, <2>1, <2>2, <3>1, Straddle
  <2> QED BY <1>2, <1>5, <2>1, <2>3, NothingDisturbed
<1> QED BY <1>6, <1>7

\* The parity of a frame.
OddFrame(frame) ==
  Xor(Odd(HighOf(frame)), Xor(Odd(LowOf(frame)), Odd(CheckOf(frame))))

\* A disturbance of an odd number of bits is not accepted.
LEMMA OddIsFound ==
  ASSUME NEW word \in Word, NEW errors, OddFrame(errors)
  PROVE  ~CrcIsRight(SymDiff(FrameOf(word), errors))
<1> SUFFICES ASSUME CrcIsRight(SymDiff(FrameOf(word), errors)) PROVE FALSE
  OBVIOUS
<1> DEFINE h == HighOf(errors)
           l == LowOf(errors)
           c == CheckOf(errors)
<1>1. h \in Byte /\ l \in Byte /\ c \in Byte
  BY ErrorBytes
<1>2. Shifted(SymDiff(Shifted(h), l)) = c
  BY Undisclosed
<1>3. OddFrame(errors) <=> Xor(Odd(h), Xor(Odd(l), Odd(c)))
  BY DEF OddFrame
<1> HIDE DEF h, l, c
<1>4. SymDiff(Shifted(h), l) \in Byte
  BY <1>1, ShiftLinear, ShiftedLinear
<1>5. Odd(c) <=> Odd(SymDiff(Shifted(h), l))
  BY <1>2, <1>4, OddShifted
<1>6. Odd(SymDiff(Shifted(h), l)) <=> Xor(Odd(h), Odd(l))
  BY <1>1, OddSum, OddShifted DEF Xor
<1> QED BY <1>3, <1>5, <1>6 DEF Xor

\* A single bit is an odd number of them.
LEMMA OddSingle ==
  ASSUME NEW p \in 0 .. 23
  PROVE  OddFrame({p})
<1>1. \A b \in Bit : /\ b \in HighOf({p}) <=> p = b + 16
                     /\ b \in LowOf({p}) <=> p = b + 8
                     /\ b \in CheckOf({p}) <=> p = b
  BY DEF HighOf, LowOf, CheckOf, Bit
<1>2. \A b \in Bit : b \in Int
  BY DEF Bit
<1>3. /\ Odd(HighOf({p})) <=> p \in 16 .. 23
      /\ Odd(LowOf({p})) <=> p \in 8 .. 15
      /\ Odd(CheckOf({p})) <=> p \in 0 .. 7
  BY <1>1 DEF Odd, Xor, Bit
<1> QED BY <1>3 DEF OddFrame, Xor

\* Parities of frames add up.
LEMMA OddFrameSum ==
  ASSUME NEW a, NEW b
  PROVE  OddFrame(SymDiff(a, b)) <=> Xor(OddFrame(a), OddFrame(b))
<1>1. /\ HighOf(SymDiff(a, b)) = SymDiff(HighOf(a), HighOf(b))
      /\ LowOf(SymDiff(a, b)) = SymDiff(LowOf(a), LowOf(b))
      /\ CheckOf(SymDiff(a, b)) = SymDiff(CheckOf(a), CheckOf(b))
  BY DEF HighOf, LowOf, CheckOf, SymDiff
<1>2. /\ Odd(HighOf(SymDiff(a, b))) <=> Xor(Odd(HighOf(a)), Odd(HighOf(b)))
      /\ Odd(LowOf(SymDiff(a, b))) <=> Xor(Odd(LowOf(a)), Odd(LowOf(b)))
      /\ Odd(CheckOf(SymDiff(a, b))) <=> Xor(Odd(CheckOf(a)), Odd(CheckOf(b)))
  BY <1>1, OddSum
<1> QED BY <1>2 DEF OddFrame, Xor

\* Two bits in different bytes of a frame are not accepted.
LEMMA PairIsFound ==
  ASSUME NEW word \in Word, NEW p \in 0 .. 23, NEW q \in 0 .. 23, p + 8 <= q
  PROVE  ~CrcIsRight(SymDiff(FrameOf(word), {p, q}))
<1> SUFFICES ASSUME CrcIsRight(SymDiff(FrameOf(word), {p, q})) PROVE FALSE
  OBVIOUS
<1>1. Shifted(SymDiff(Shifted(HighOf({p, q})), LowOf({p, q}))) = CheckOf({p, q})
  BY Undisclosed
<1>2. \A i \in Bit : {i} \in Byte /\ Shifted({i}) \in Byte
  BY ShiftedLinear DEF Byte
<1>3. CASE q \in 8 .. 15
  <2>1. /\ p \in Bit /\ q - 8 \in Bit /\ HighOf({p, q}) = {}
        /\ LowOf({p, q}) = {q - 8} /\ CheckOf({p, q}) = {p}
    <3>1. p \in Bit /\ q - 8 \in Bit /\ q \notin Bit
      BY <1>3 DEF Bit
    <3>2. \A b \in Bit : /\ b + 16 # p /\ b + 16 # q
                         /\ b + 8 # p /\ (b + 8 = q <=> b = q - 8)
      BY <1>3 DEF Bit
    <3> QED BY <3>1, <3>2 DEF HighOf, LowOf, CheckOf
  <2>2. Shifted({q - 8}) = {p}
    BY <1>1, <2>1, ShiftedEmpty, SymDiffEmpty
  <2> QED BY <2>1, <2>2, NotSingle
<1>4. CASE q \in 16 .. 23 /\ p \in 0 .. 7
  <2>1. /\ p \in Bit /\ q - 16 \in Bit /\ HighOf({p, q}) = {q - 16}
        /\ LowOf({p, q}) = {} /\ CheckOf({p, q}) = {p}
    <3>1. p \in Bit /\ q - 16 \in Bit /\ q \notin Bit
      BY <1>4 DEF Bit
    <3>2. \A b \in Bit : /\ b + 16 # p /\ (b + 16 = q <=> b = q - 16)
                         /\ b + 8 # p /\ b + 8 # q
      BY <1>4 DEF Bit
    <3> QED BY <3>1, <3>2 DEF HighOf, LowOf, CheckOf
  <2>2. Shifted(Shifted({q - 16})) = {p}
    BY <1>1, <2>1, SymDiffEmpty
  <2> QED BY <2>1, <2>2, NotSingle
<1>5. CASE q \in 16 .. 23 /\ p \in 8 .. 15
  <2>1. /\ p - 8 \in Bit /\ q - 16 \in Bit /\ HighOf({p, q}) = {q - 16}
        /\ LowOf({p, q}) = {p - 8} /\ CheckOf({p, q}) = {}
    <3>1. p - 8 \in Bit /\ q - 16 \in Bit /\ p \notin Bit /\ q \notin Bit
      BY <1>5 DEF Bit
    <3>2. \A b \in Bit : /\ b + 16 # p /\ (b + 16 = q <=> b = q - 16)
                         /\ (b + 8 = p <=> b = p - 8) /\ b + 8 # q
      BY <1>5 DEF Bit
    <3> QED BY <3>1, <3>2 DEF HighOf, LowOf, CheckOf
  <2> DEFINE x == SymDiff(Shifted({q - 16}), {p - 8})
  <2>2. x \in Byte
    BY <1>2, <2>1, ShiftLinear
  <2>3. Shifted(x) = {}
    BY <1>1, <2>1
  <2>4. x = {}
    <3> HIDE DEF x
    <3> QED BY <2>2, <2>3, OnlyEmptyVanishes
  <2>5. Shifted({q - 16}) = {p - 8}
    BY <2>4, SymDiffEmpty
  <2> QED BY <2>1, <2>5, NotSingle
<1> QED BY <1>3, <1>4, <1>5

\* Two bits are a burst or in different bytes.
LEMMA TwoAreFound ==
  ASSUME NEW word \in Word, NEW p \in 0 .. 23, NEW q \in 0 .. 23
  PROVE  ~CrcIsRight(SymDiff(FrameOf(word), {p, q}))
<1>1. ASSUME NEW i \in 0 .. 23, NEW j \in 0 .. 23, i <= j
      PROVE  ~CrcIsRight(SymDiff(FrameOf(word), {i, j}))
  <2>1. CASE j <= i + 7
    <3>1. PICK k \in 0 .. 16 : k <= i /\ j <= k + 7
      <4>1. CASE i <= 16
        BY <2>1, <4>1
      <4>2. CASE i > 16
        BY <4>2
      <4> QED BY <4>1, <4>2
    <3>2. {i, j} \in SUBSET (k .. k + 7)
      BY <1>1, <3>1
    <3>3. {i, j} \in Bursts
      BY <3>2 DEF Bursts
    <3> QED BY <3>3, BurstIsFound
  <2>2. CASE i + 8 <= j
    BY <2>2, PairIsFound
  <2> QED BY <2>1, <2>2
<1>2. {p, q} = {q, p} /\ (p <= q \/ q <= p)
  OBVIOUS
<1> QED BY <1>1, <1>2

\* Up to three bits anywhere are not accepted.
LEMMA ScatteredAreFound ==
  ASSUME NEW word \in Word, NEW errors \in Scattered
  PROVE  ~CrcIsRight(SymDiff(FrameOf(word), errors))
<1>1. PICK p \in Position, q \in Position, r \in Position : errors = {p, q, r}
  BY DEF Scattered
<1> USE DEF Position
<1>2. CASE p = q
  BY <1>1, <1>2, TwoAreFound
<1>3. CASE p = r \/ q = r
  <2>1. errors = {p, q}
    BY <1>1, <1>3
  <2> QED BY <2>1, TwoAreFound
<1>4. CASE p # q /\ p # r /\ q # r
  <2>1. errors = SymDiff(SymDiff({p}, {q}), {r})
    BY <1>1, <1>4 DEF SymDiff
  <2>2. OddFrame(errors)
    BY <2>1, OddSingle, OddFrameSum DEF Xor
  <2> QED BY <2>2, OddIsFound
<1> QED BY <1>2, <1>3, <1>4

\* The checksum that hvac.c and temphum24.c compare finds every disturbance of
\* a frame that is a burst of at most eight bits or of at most three bits, for
\* every word.
THEOREM DisturbancesAreFound ==
  \A word \in Word, errors \in Disturbances :
    ~CrcIsRight(SymDiff(FrameOf(word), errors))
BY BurstIsFound, ScatteredAreFound DEF Disturbances

\* The example of the sensors' data sheets: the checksum of 0xBEEF is 0x92.
THEOREM DataSheetExample == dev_calc_crc((0 .. 15) \ {4, 8, 14}) = {1, 4, 7}
<1> DEFINE word == (0 .. 15) \ {4, 8, 14}
           high == SymDiff(InitValue, High(word))
           s == Shifted(high)
           t == SymDiff(s, Low(word))
<1>1. high \in Byte /\ Is(high, TRUE, FALSE, FALSE, FALSE, FALSE, FALSE, TRUE, FALSE)
  BY DEF High, InitValue, SymDiff, Is, Bit, Byte
<1>2. Low(word) \in Byte
      /\ Is(Low(word), TRUE, TRUE, TRUE, TRUE, FALSE, TRUE, TRUE, TRUE)
  BY DEF Low, Is, Bit, Byte
<1>3. dev_calc_crc(word) = Shifted(t)
  BY DEF dev_calc_crc
<1> HIDE DEF word, high
<1>4. s \in Byte /\ Is(s, FALSE, FALSE, TRUE, TRUE, FALSE, FALSE, FALSE, FALSE)
  BY <1>1, ShiftedIs, ShiftedLinear DEF Is, Xor
<1> HIDE DEF s
<1>5. t \in Byte /\ Is(t, TRUE, TRUE, FALSE, FALSE, FALSE, TRUE, TRUE, TRUE)
  BY <1>2, <1>4, ShiftLinear DEF SymDiff, Is
<1> HIDE DEF t
<1>6. Shifted(t) \in Byte
      /\ Is(Shifted(t), FALSE, TRUE, FALSE, FALSE, TRUE, FALSE, FALSE, TRUE)
  BY <1>5, ShiftedIs, ShiftedLinear DEF Is, Xor
<1>7. Shifted(t) = {1, 4, 7}
  BY <1>6 DEF Is, Byte, Bit
<1> QED BY <1>3, <1>7 DEF word

-----------------------------------------------------------------------------
(* The serial numbers. *)

SerialsTyped == serial \in [Parts -> {"none", "right", "wrong"}]

\* A frame that passed the bus and is accepted is the one that was sent.
LEMMA AcceptedIsSent ==
  ASSUME NEW word \in Words, NEW frame \in Received(word), CrcIsRight(frame)
  PROVE  WordOf(frame) = word
<1>1. word \in Word
  BY WordsAssumption
<1>2. PICK errors \in {{}} \cup Disturbances :
        frame = SymDiff(FrameOf(word), errors)
  BY DEF Received
<1>3. errors = {}
  BY <1>1, <1>2, DisturbancesAreFound
<1>4. frame = FrameOf(word)
  BY <1>2, <1>3, SymDiffEmpty
<1> QED BY <1>1, <1>4, CleanIsAccepted

\* Initially no serial number has been read.
LEMMA SerialsInit == Init => SerialsTyped /\ AcceptedAsSent
BY DEF Init, SerialsTyped, AcceptedAsSent, Parts

\* Each step keeps the serial numbers of checked sensors right.
LEMMA SerialsStep ==
  ASSUME SerialsTyped, AcceptedAsSent, [Next]_vars
  PROVE  SerialsTyped' /\ AcceptedAsSent'
<1> USE DEF SerialsTyped, AcceptedAsSent, Parts
<1>1. CASE get_device_id_as_string
  BY <1>1 DEF get_device_id_as_string, Fails
<1>2. CASE get_hdc302x_serial_as_string
  <2>1. CASE Fails
    BY <2>1 DEF Fails
  <2>2. ASSUME NEW word \in Words, NEW frame \in Received(word),
               CrcIsRight(frame), Take("hdc302x", word, frame)
        PROVE  SerialsTyped' /\ AcceptedAsSent'
    <3>1. serial' = [serial EXCEPT !["hdc302x"] = "right"]
      BY <2>2, AcceptedIsSent DEF Take
    <3> QED BY <3>1
  <2> QED BY <1>2, <2>1, <2>2 DEF get_hdc302x_serial_as_string
<1>3. CASE get_scd4x_serial_as_string
  BY <1>3 DEF get_scd4x_serial_as_string, Take, Fails
<1>4. CASE get_sps30_serial_as_string
  <2>1. CASE Fails
    BY <2>1 DEF Fails
  <2>2. ASSUME NEW word \in Words, NEW frame \in Received(word),
               CrcIsRight(frame), Take("sps30", word, frame)
        PROVE  SerialsTyped' /\ AcceptedAsSent'
    <3>1. serial' = [serial EXCEPT !["sps30"] = "right"]
      BY <2>2, AcceptedIsSent DEF Take
    <3> QED BY <3>1
  <2> QED BY <1>4, <2>1, <2>2 DEF get_sps30_serial_as_string
<1>5. CASE FillNext
  BY <1>5 DEF FillNext
<1>6. CASE Restart
  BY <1>6 DEF Restart
<1>7. CASE UNCHANGED vars
  BY <1>7 DEF vars
<1> QED BY <1>1, <1>2, <1>3, <1>4, <1>5, <1>6, <1>7 DEF Next

\* A serial number of a sensor whose checksum is compared is the one it sent,
\* for every set of words.
THEOREM SerialsAreAsSent == Spec => []AcceptedAsSent
<1>1. Init => SerialsTyped /\ AcceptedAsSent
  BY SerialsInit
<1>2. (SerialsTyped /\ AcceptedAsSent) /\ [Next]_vars
        => (SerialsTyped /\ AcceptedAsSent)'
  BY SerialsStep
<1> QED BY <1>1, <1>2, PTL DEF Spec

-----------------------------------------------------------------------------
(* The identifiers. *)

Numbers == 1 .. 7

\* The identifier of an entity.
IdOf(i) == generate_unique_id(Entities[i].part, Entities[i].name)

\* The identifiers that are filled in are those of the entities, in order; none
\* is before all serial numbers are known.
Filled ==
  /\ length \in Nat
  /\ ids \in Seq({IdOf(i) : i \in Numbers})
  /\ Len(ids) <= 7
  /\ \A i \in 1 .. Len(ids) : ids[i] = IdOf(i)
  /\ pc = "fill" => Len(ids) < 7
  /\ pc \notin {"fill", "done"} => ids = <<>>

\* Where nothing is filled in yet, the invariant holds.
LEMMA FilledEmpty ==
  ASSUME length \in Nat, ids = <<>>
  PROVE  Filled
<1>1. Len(ids) = 0 /\ ids \in Seq({IdOf(i) : i \in Numbers})
  OBVIOUS
<1> QED BY <1>1 DEF Filled

\* It holds when the station starts.
LEMMA FilledInit == Init => Filled
<1>1. Init => length \in Nat /\ ids = <<>>
  BY DEF Init
<1> QED BY <1>1, FilledEmpty

\* An identifier depends on the length of the SPS30's serial number only.
LEMMA SameIds ==
  ASSUME length' = length, NEW i
  PROVE  IdOf(i)' = IdOf(i)
BY DEF IdOf, generate_unique_id, SerialLength, Fit, Entities, Room, PartLength

\* Every step keeps it: one that reads a serial number fills in nothing, and
\* FillNext appends the identifier of the next entity.
LEMMA FilledStep ==
  ASSUME Filled, [Next]_vars
  PROVE  Filled'
<1>1. CASE \/ get_device_id_as_string \/ get_hdc302x_serial_as_string
           \/ get_scd4x_serial_as_string \/ get_sps30_serial_as_string \/ Restart
  <2>1. length' \in Nat /\ ids' = <<>>
    BY <1>1, MaxLengthAssumption
       DEF Filled, get_device_id_as_string, get_hdc302x_serial_as_string,
           get_scd4x_serial_as_string, get_sps30_serial_as_string, Restart, Fails
  <2>2. Len(ids') = 0 /\ ids' \in Seq({IdOf(i)' : i \in Numbers})
    BY <2>1
  <2> QED BY <2>1, <2>2 DEF Filled
<1>2. CASE FillNext
  <2> DEFINE S == {IdOf(i) : i \in Numbers}
             n == Len(ids) + 1
  <2>1. /\ n \in Numbers /\ Len(ids) \in Nat /\ ids \in Seq(S)
        /\ ids' = Append(ids, IdOf(n))
        /\ length' = length
        /\ pc' = IF Len(ids') < 7 THEN "fill" ELSE "done"
    BY <1>2 DEF FillNext, Filled, Numbers, IdOf, Entities
  <2>2. IdOf(n) \in S
    BY <2>1
  <2>3. /\ ids' \in Seq(S) /\ Len(ids') = n
        /\ \A i \in 1 .. Len(ids) : ids'[i] = ids[i]
        /\ ids'[n] = IdOf(n)
    <3> HIDE DEF S, n
    <3>1. ids \in Seq(S) /\ IdOf(n) \in S
      BY <2>1, <2>2
    <3>2. LET next == Append(ids, IdOf(n))
          IN  /\ next \in Seq(S) /\ Len(next) = Len(ids) + 1
              /\ \A i \in 1 .. Len(ids) : next[i] = ids[i]
              /\ next[Len(ids) + 1] = IdOf(n)
      BY <3>1, AppendProperties
    <3> QED BY <2>1, <3>2 DEF n
  <2>4. \A i \in Numbers : IdOf(i)' = IdOf(i)
    BY <2>1, SameIds
  <2>5. {IdOf(i)' : i \in Numbers} = S
    BY <2>4
  <2>6. \A i \in 1 .. Len(ids') : ids'[i] = IdOf(i)'
    <3>1. \A i \in 1 .. Len(ids) : ids[i] = IdOf(i)
      BY DEF Filled
    <3>2. \A i \in 1 .. n : i \in Numbers /\ (i \in 1 .. Len(ids) \/ i = n)
      BY <2>1 DEF Numbers
    <3> HIDE DEF n, S
    <3> QED BY <2>3, <2>4, <3>1, <3>2
  <2> QED BY <2>1, <2>3, <2>5, <2>6 DEF Filled, Numbers
<1>3. CASE UNCHANGED vars
  <2>1. \A i \in Numbers : IdOf(i)' = IdOf(i)
    BY <1>3, SameIds DEF vars
  <2> QED BY <1>3, <2>1 DEF vars, Filled, Numbers
<1> QED BY <1>1, <1>2, <1>3 DEF Next

\* What fits is kept.
LEMMA FitsWhole ==
  ASSUME NEW n \in Nat, NEW used \in Nat, used + n <= Room
  PROVE  Fit(n, used) = n
BY DEF Fit, Room

\* Three members of S in a row are a sequence over S.
LEMMA ThreeLetters ==
  ASSUME NEW S, NEW a \in S, NEW b \in S, NEW c \in S
  PROVE  <<a, b, c>> \in Seq(S) /\ Len(<<a, b, c>>) = 3
  OBVIOUS

\* So are four.
LEMMA FourLetters ==
  ASSUME NEW S, NEW a \in S, NEW b \in S, NEW c \in S, NEW d \in S
  PROVE  <<a, b, c, d>> \in Seq(S) /\ Len(<<a, b, c, d>>) = 4
  OBVIOUS

Letters == {"w", "d", "t", "e", "m", "p", "h", "u", "c", "o", "0", "1", "2", "5"}

\* A name has three or four letters, and all of it is the name.
LEMMA NamesWhole ==
  ASSUME NEW i \in Numbers
  PROVE  /\ Len(Entities[i].name) \in 3 .. 4
         /\ SubSeq(Entities[i].name, 1, Len(Entities[i].name)) = Entities[i].name
<1> DEFINE name == Entities[i].name
<1>1. /\ i = 1 => name = <<"w", "d", "t">>
      /\ i = 2 => name = <<"t", "e", "m", "p">>
      /\ i = 3 => name = <<"h", "u", "m">>
      /\ i = 4 => name = <<"c", "o", "2">>
      /\ i = 5 => name = <<"p", "m", "1">>
      /\ i = 6 => name = <<"p", "m", "2", "5">>
      /\ i = 7 => name = <<"p", "m", "1", "0">>
  BY DEF Entities
<1> HIDE DEF name
<1>2. name \in Seq(Letters) /\ Len(name) \in 3 .. 4
  <2>1. CASE i = 1
    <3>1. name = <<"w", "d", "t">>
      BY <1>1, <2>1
    <3>2. <<"w", "d", "t">> \in Seq(Letters) /\ Len(<<"w", "d", "t">>) = 3
      BY ThreeLetters DEF Letters
    <3> QED BY <3>1, <3>2
  <2>2. CASE i = 2
    <3>1. name = <<"t", "e", "m", "p">>
      BY <1>1, <2>2
    <3>2. <<"t", "e", "m", "p">> \in Seq(Letters) /\ Len(<<"t", "e", "m", "p">>) = 4
      BY FourLetters DEF Letters
    <3> QED BY <3>1, <3>2
  <2>3. CASE i = 3
    <3>1. name = <<"h", "u", "m">>
      BY <1>1, <2>3
    <3>2. <<"h", "u", "m">> \in Seq(Letters) /\ Len(<<"h", "u", "m">>) = 3
      BY ThreeLetters DEF Letters
    <3> QED BY <3>1, <3>2
  <2>4. CASE i = 4
    <3>1. name = <<"c", "o", "2">>
      BY <1>1, <2>4
    <3>2. <<"c", "o", "2">> \in Seq(Letters) /\ Len(<<"c", "o", "2">>) = 3
      BY ThreeLetters DEF Letters
    <3> QED BY <3>1, <3>2
  <2>5. CASE i = 5
    <3>1. name = <<"p", "m", "1">>
      BY <1>1, <2>5
    <3>2. <<"p", "m", "1">> \in Seq(Letters) /\ Len(<<"p", "m", "1">>) = 3
      BY ThreeLetters DEF Letters
    <3> QED BY <3>1, <3>2
  <2>6. CASE i = 6
    <3>1. name = <<"p", "m", "2", "5">>
      BY <1>1, <2>6
    <3>2. <<"p", "m", "2", "5">> \in Seq(Letters) /\ Len(<<"p", "m", "2", "5">>) = 4
      BY FourLetters DEF Letters
    <3> QED BY <3>1, <3>2
  <2>7. CASE i = 7
    <3>1. name = <<"p", "m", "1", "0">>
      BY <1>1, <2>7
    <3>2. <<"p", "m", "1", "0">> \in Seq(Letters) /\ Len(<<"p", "m", "1", "0">>) = 4
      BY FourLetters DEF Letters
    <3> QED BY <3>1, <3>2
  <2> QED BY <2>1, <2>2, <2>3, <2>4, <2>5, <2>6, <2>7 DEF Numbers
<1>3. SubSeq(name, 1, Len(name)) = name
  BY <1>2, SubSeqFull
<1> QED BY <1>2, <1>3 DEF name

\* Up to 20 characters of the SPS30's serial number, nothing is cut off.
LEMMA NothingCutOff ==
  ASSUME NEW i \in Numbers, length \in Nat, length <= 20
  PROVE  IdOf(i) = [part |-> Entities[i].part,
                    digits |-> SerialLength(Entities[i].part),
                    name |-> Entities[i].name]
<1> DEFINE part == Entities[i].part
           name == Entities[i].name
           before == PartLength(part) + 1
           between == before + SerialLength(part) + 1
<1>1. part \in Parts
  BY DEF Entities, Numbers, Parts
<1>2. /\ before \in Nat /\ between \in Nat /\ SerialLength(part) \in Nat
      /\ before + SerialLength(part) <= 27 /\ between <= 27
  <2> HIDE DEF part
  <2> QED BY <1>1 DEF Parts, PartLength, SerialLength
<1>3. Len(name) \in 3 .. 4 /\ SubSeq(name, 1, Len(name)) = name
  BY NamesWhole
<1>4. IdOf(i) = [part |-> part, digits |-> Fit(SerialLength(part), before),
                 name |-> SubSeq(name, 1, Fit(Len(name), between))]
  BY DEF IdOf, generate_unique_id
<1> HIDE DEF part, name, before, between
<1>5. Fit(SerialLength(part), before) = SerialLength(part)
  <2> DEFINE n == SerialLength(part)
  <2>1. n \in Nat /\ before \in Nat /\ before + n <= Room
    BY <1>2 DEF Room
  <2> HIDE DEF n
  <2>2. Fit(n, before) = n
    BY <2>1, FitsWhole
  <2> QED BY <2>2 DEF n
<1>6. Fit(Len(name), between) = Len(name)
  <2> DEFINE n == Len(name)
  <2>1. n \in 3 .. 4
    BY <1>3
  <2> HIDE DEF n
  <2>2. n \in Nat /\ between \in Nat /\ between + n <= Room
    BY <1>2, <2>1 DEF Room
  <2>3. Fit(n, between) = n
    BY <2>2, FitsWhole
  <2> QED BY <2>3 DEF n
<1> QED BY <1>3, <1>4, <1>5, <1>6 DEF part, name

\* No two entities have the same part and the same name.
LEMMA EntitiesDiffer ==
  ASSUME NEW i \in Numbers, NEW j \in Numbers, i # j
  PROVE  Entities[i].part # Entities[j].part \/ Entities[i].name # Entities[j].name
BY DEF Numbers, Entities

\* Identifiers that are filled in like this are unique.
LEMMA FilledIsUnique ==
  ASSUME Filled
  PROVE  IdsAreUnique
<1> SUFFICES ASSUME length <= 20
             PROVE  /\ \A i, j \in DOMAIN ids : i # j => ids[i] # ids[j]
                    /\ \A i \in DOMAIN ids : ids[i].digits = SerialLength(ids[i].part)
  BY DEF IdsAreUnique
<1>1. /\ DOMAIN ids = 1 .. Len(ids)
      /\ \A i \in DOMAIN ids : i \in Numbers /\ ids[i] = IdOf(i)
  BY DEF Filled, Numbers
<1>2. \A i \in DOMAIN ids :
        ids[i] = [part |-> Entities[i].part,
                  digits |-> SerialLength(Entities[i].part),
                  name |-> Entities[i].name]
  BY <1>1, NothingCutOff DEF Filled
<1>3. ASSUME NEW i \in DOMAIN ids, NEW j \in DOMAIN ids, i # j
      PROVE  ids[i] # ids[j]
  <2>1. /\ ids[i].part = Entities[i].part /\ ids[i].name = Entities[i].name
        /\ ids[j].part = Entities[j].part /\ ids[j].name = Entities[j].name
    BY <1>2
  <2> QED BY <1>1, <1>3, <2>1, EntitiesDiffer
<1>4. ASSUME NEW i \in DOMAIN ids
      PROVE  ids[i].digits = SerialLength(ids[i].part)
  <2>1. /\ ids[i].part = Entities[i].part
        /\ ids[i].digits = SerialLength(Entities[i].part)
    BY <1>2
  <2> QED BY <2>1
<1> QED BY <1>3, <1>4

\* The identifiers of a station differ and hold whole serial numbers, as long as
\* that of the SPS30 has at most 20 characters, for every MaxLength.
THEOREM IdsAreUniqueAlways == Spec => []IdsAreUnique
<1>1. Init => Filled
  BY FilledInit
<1>2. Filled /\ [Next]_vars => Filled'
  BY FilledStep
<1>3. Filled => IdsAreUnique
  BY FilledIsUnique
<1> QED BY <1>1, <1>2, <1>3, PTL DEF Spec

=============================================================================
