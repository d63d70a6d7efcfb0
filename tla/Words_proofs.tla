----------------------------- MODULE Words_proofs -----------------------------
(***************************************************************************)
(* The words of HodeWords.tla: their bits, the operations made of bits, an *)
(* adder of two halves, and rounding up.                                   *)
(***************************************************************************)
EXTENDS HodeWords, TLAPS
-----------------------------------------------------------------------------
(* What it is to be a word.  (The range is not to be unfolded to its 65536
   elements, so later proofs cite this instead of the definition.) *)
LEMMA WordIs == \A w : w \in Word <=> w \in Int /\ 0 <= w /\ w < 65536
<1>1. WordSize \in Int
  BY DEF WordSize
<1>2. \A w : w \in Word <=> w \in Int /\ 0 <= w /\ w < WordSize
  BY <1>1 DEF Word
<1>3. QED
  BY <1>2 DEF WordSize

LEMMA AddWIs ==
  ASSUME NEW a \in Int, NEW b \in Int
  PROVE  AddW(a, b) = (a + b) % 65536 /\ AddW(a, b) \in Word
<1>1. (a + b) % 65536 \in Word
  BY WordIs
<1>2. QED
  BY <1>1 DEF AddW, WordSize

(* Pow2 is a table of the weights of the bits. *)
LEMMA Weights ==
  /\ Pow2[0] = 1 /\ Pow2[1] = 2 /\ Pow2[2] = 4 /\ Pow2[3] = 8
  /\ Pow2[4] = 16 /\ Pow2[5] = 32 /\ Pow2[6] = 64 /\ Pow2[7] = 128
  /\ Pow2[8] = 256 /\ Pow2[9] = 512 /\ Pow2[10] = 1024 /\ Pow2[11] = 2048
  /\ Pow2[12] = 4096 /\ Pow2[13] = 8192 /\ Pow2[14] = 16384 /\ Pow2[15] = 32768
  BY DEF Pow2

LEMMA WeightType == \A k \in 0 .. 15 : Pow2[k] \in Nat \ {0}
  BY Weights

LEMMA BitType ==
  ASSUME NEW w \in Nat, NEW k \in 0 .. 15
  PROVE  Bit(w, k) \in {0, 1}
<1>1. w \div Pow2[k] \in Nat
  BY WeightType
<1>2. QED
  BY <1>1 DEF Bit

(* The quotient and the remainder are the only ones there are. *)
LEMMA Quotient ==
  ASSUME NEW p \in Nat \ {0}, NEW h \in Nat, NEW l \in 0 .. p - 1
  PROVE  (p * h + l) \div p = h /\ (p * h + l) % p = l
  OBVIOUS

LEMMA Halves ==
  ASSUME NEW w \in Nat
  PROVE  /\ w \div 4 = (w \div 2) \div 2
         /\ w \div 8 = (w \div 4) \div 2
         /\ w \div 16 = (w \div 8) \div 2
         /\ w \div 32 = (w \div 16) \div 2
         /\ w \div 64 = (w \div 32) \div 2
         /\ w \div 128 = (w \div 64) \div 2
         /\ w \div 256 = (w \div 128) \div 2
         /\ w \div 512 = (w \div 256) \div 2
         /\ w \div 1024 = (w \div 512) \div 2
         /\ w \div 2048 = (w \div 1024) \div 2
         /\ w \div 4096 = (w \div 2048) \div 2
         /\ w \div 8192 = (w \div 4096) \div 2
         /\ w \div 16384 = (w \div 8192) \div 2
         /\ w \div 32768 = (w \div 16384) \div 2
  OBVIOUS

LEMMA Parity ==
  ASSUME NEW w \in Nat
  PROVE  w \div 2 \in Nat /\ w % 2 \in {0, 1} /\ w = 2 * (w \div 2) + (w % 2)
  OBVIOUS

LEMMA FourBits ==
  ASSUME NEW x0 \in Int, NEW x1 \in Int, NEW x2 \in Int, NEW x3 \in Int, NEW x4 \in Int,
         NEW b0 \in Int, NEW b1 \in Int, NEW b2 \in Int, NEW b3 \in Int,
         x0 = 2 * x1 + b0, x1 = 2 * x2 + b1, x2 = 2 * x3 + b2, x3 = 2 * x4 + b3
  PROVE  x0 = b0 + 2 * b1 + 4 * b2 + 8 * b3 + 16 * x4
  OBVIOUS

(* A word is the sum of its bits. *)
LEMMA SumOfBits ==
  ASSUME NEW w \in Word
  PROVE  FromBits([k \in 0 .. 15 |-> Bit(w, k)]) = w
<1> DEFINE d(p) == w \div p
<1>1. w \in Nat /\ w < 65536
  BY WordIs
<1>2. \A p \in {1, 2, 4, 8, 16, 32, 64, 128, 256, 512, 1024, 2048, 4096, 8192, 16384, 32768} :
        d(p) \in Nat
  BY <1>1
<1>3. d(1) = w /\ d(32768) \in {0, 1}
  BY <1>1
<1>4. /\ Bit(w, 0) = d(1) % 2 /\ Bit(w, 1) = d(2) % 2 /\ Bit(w, 2) = d(4) % 2
      /\ Bit(w, 3) = d(8) % 2 /\ Bit(w, 4) = d(16) % 2 /\ Bit(w, 5) = d(32) % 2
      /\ Bit(w, 6) = d(64) % 2 /\ Bit(w, 7) = d(128) % 2 /\ Bit(w, 8) = d(256) % 2
      /\ Bit(w, 9) = d(512) % 2 /\ Bit(w, 10) = d(1024) % 2 /\ Bit(w, 11) = d(2048) % 2
      /\ Bit(w, 12) = d(4096) % 2 /\ Bit(w, 13) = d(8192) % 2
      /\ Bit(w, 14) = d(16384) % 2 /\ Bit(w, 15) = d(32768) % 2
  BY Weights DEF Bit
<1>5. /\ d(2) = d(1) \div 2 /\ d(4) = d(2) \div 2 /\ d(8) = d(4) \div 2
      /\ d(16) = d(8) \div 2 /\ d(32) = d(16) \div 2 /\ d(64) = d(32) \div 2
      /\ d(128) = d(64) \div 2 /\ d(256) = d(128) \div 2 /\ d(512) = d(256) \div 2
      /\ d(1024) = d(512) \div 2 /\ d(2048) = d(1024) \div 2 /\ d(4096) = d(2048) \div 2
      /\ d(8192) = d(4096) \div 2 /\ d(16384) = d(8192) \div 2
      /\ d(32768) = d(16384) \div 2
  BY <1>1, <1>3, Halves
<1> HIDE DEF d
<1>6. \A p \in {1, 2, 4, 8, 16, 32, 64, 128, 256, 512, 1024, 2048, 4096, 8192, 16384} :
        d(p) = 2 * (d(p) \div 2) + (d(p) % 2)
  BY <1>2, Parity
<1>7. \A k \in 0 .. 15 : Bit(w, k) \in Int
  BY <1>1, BitType
<1>8. d(1) = Bit(w, 0) + 2 * Bit(w, 1) + 4 * Bit(w, 2) + 8 * Bit(w, 3) + 16 * d(16)
  <2>1. /\ d(1) = 2 * d(2) + Bit(w, 0) /\ d(2) = 2 * d(4) + Bit(w, 1)
        /\ d(4) = 2 * d(8) + Bit(w, 2) /\ d(8) = 2 * d(16) + Bit(w, 3)
    BY <1>3, <1>4, <1>5, <1>6
  <2>2. QED
    BY <2>1, <1>2, <1>7, FourBits
<1>9. d(16) = Bit(w, 4) + 2 * Bit(w, 5) + 4 * Bit(w, 6) + 8 * Bit(w, 7) + 16 * d(256)
  <2>1. /\ d(16) = 2 * d(32) + Bit(w, 4) /\ d(32) = 2 * d(64) + Bit(w, 5)
        /\ d(64) = 2 * d(128) + Bit(w, 6) /\ d(128) = 2 * d(256) + Bit(w, 7)
    BY <1>3, <1>4, <1>5, <1>6
  <2>2. QED
    BY <2>1, <1>2, <1>7, FourBits
<1>10. d(256) = Bit(w, 8) + 2 * Bit(w, 9) + 4 * Bit(w, 10) + 8 * Bit(w, 11) + 16 * d(4096)
  <2>1. /\ d(256) = 2 * d(512) + Bit(w, 8) /\ d(512) = 2 * d(1024) + Bit(w, 9)
        /\ d(1024) = 2 * d(2048) + Bit(w, 10) /\ d(2048) = 2 * d(4096) + Bit(w, 11)
    BY <1>3, <1>4, <1>5, <1>6
  <2>2. QED
    BY <2>1, <1>2, <1>7, FourBits
<1>11. d(4096) = Bit(w, 12) + 2 * Bit(w, 13) + 4 * Bit(w, 14) + 8 * Bit(w, 15) + 16 * 0
  <2>1. /\ d(4096) = 2 * d(8192) + Bit(w, 12) /\ d(8192) = 2 * d(16384) + Bit(w, 13)
        /\ d(16384) = 2 * d(32768) + Bit(w, 14) /\ d(32768) = 2 * 0 + Bit(w, 15)
    BY <1>3, <1>4, <1>5, <1>6
  <2>2. QED
    BY <2>1, <1>2, <1>7, FourBits
<1>12. w = Bit(w, 0) + 2 * Bit(w, 1) + 4 * Bit(w, 2) + 8 * Bit(w, 3)
          + 16 * Bit(w, 4) + 32 * Bit(w, 5) + 64 * Bit(w, 6) + 128 * Bit(w, 7)
          + 256 * Bit(w, 8) + 512 * Bit(w, 9) + 1024 * Bit(w, 10) + 2048 * Bit(w, 11)
          + 4096 * Bit(w, 12) + 8192 * Bit(w, 13) + 16384 * Bit(w, 14) + 32768 * Bit(w, 15)
  <2> DEFINE g0 == Bit(w, 0) + 2 * Bit(w, 1) + 4 * Bit(w, 2) + 8 * Bit(w, 3)
             g1 == Bit(w, 4) + 2 * Bit(w, 5) + 4 * Bit(w, 6) + 8 * Bit(w, 7)
             g2 == Bit(w, 8) + 2 * Bit(w, 9) + 4 * Bit(w, 10) + 8 * Bit(w, 11)
             g3 == Bit(w, 12) + 2 * Bit(w, 13) + 4 * Bit(w, 14) + 8 * Bit(w, 15)
  <2>1. g0 \in Int /\ g1 \in Int /\ g2 \in Int /\ g3 \in Int
    BY <1>7
  <2>2. w = g0 + 16 * (g1 + 16 * (g2 + 16 * g3))
    BY <1>2, <1>3, <1>8, <1>9, <1>10, <1>11, <2>1
  <2>3. QED
    BY <2>2, <1>7
<1>13. QED
  BY <1>12 DEF FromBits

LEMMA FromBitsType ==
  ASSUME NEW f \in [0 .. 15 -> {0, 1}]
  PROVE  FromBits(f) \in Word
<1>1. \A k \in 0 .. 15 : f[k] \in Int /\ 0 <= f[k] /\ f[k] <= 1
  OBVIOUS
<1> DEFINE b0 == f[0]   b1 == f[1]   b2 == f[2]   b3 == f[3]
           b4 == f[4]   b5 == f[5]   b6 == f[6]   b7 == f[7]
           b8 == f[8]   b9 == f[9]   b10 == f[10]   b11 == f[11]
           b12 == f[12]   b13 == f[13]   b14 == f[14]   b15 == f[15]
<1>2. /\ b0 \in Int /\ 0 <= b0 /\ b0 <= 1
      /\ b1 \in Int /\ 0 <= b1 /\ b1 <= 1
      /\ b2 \in Int /\ 0 <= b2 /\ b2 <= 1
      /\ b3 \in Int /\ 0 <= b3 /\ b3 <= 1
  BY <1>1
<1>3. /\ b4 \in Int /\ 0 <= b4 /\ b4 <= 1
      /\ b5 \in Int /\ 0 <= b5 /\ b5 <= 1
      /\ b6 \in Int /\ 0 <= b6 /\ b6 <= 1
      /\ b7 \in Int /\ 0 <= b7 /\ b7 <= 1
  BY <1>1
<1>4. /\ b8 \in Int /\ 0 <= b8 /\ b8 <= 1
      /\ b9 \in Int /\ 0 <= b9 /\ b9 <= 1
      /\ b10 \in Int /\ 0 <= b10 /\ b10 <= 1
      /\ b11 \in Int /\ 0 <= b11 /\ b11 <= 1
  BY <1>1
<1>5. /\ b12 \in Int /\ 0 <= b12 /\ b12 <= 1
      /\ b13 \in Int /\ 0 <= b13 /\ b13 <= 1
      /\ b14 \in Int /\ 0 <= b14 /\ b14 <= 1
      /\ b15 \in Int /\ 0 <= b15 /\ b15 <= 1
  BY <1>1
<1>6. FromBits(f) = b0 + 2 * b1 + 4 * b2 + 8 * b3
          + 16 * b4 + 32 * b5 + 64 * b6 + 128 * b7
          + 256 * b8 + 512 * b9 + 1024 * b10 + 2048 * b11
          + 4096 * b12 + 8192 * b13 + 16384 * b14 + 32768 * b15
  BY DEF FromBits
<1> HIDE DEF b0, b1, b2, b3, b4, b5, b6, b7, b8, b9, b10, b11, b12, b13, b14, b15
<1> DEFINE g0 == b0 + 2 * b1 + 4 * b2 + 8 * b3
           g1 == b4 + 2 * b5 + 4 * b6 + 8 * b7
           g2 == b8 + 2 * b9 + 4 * b10 + 8 * b11
           g3 == b12 + 2 * b13 + 4 * b14 + 8 * b15
<1>7. /\ g0 \in Int /\ 0 <= g0 /\ g0 <= 15 /\ g1 \in Int /\ 0 <= g1 /\ g1 <= 15
      /\ g2 \in Int /\ 0 <= g2 /\ g2 <= 15 /\ g3 \in Int /\ 0 <= g3 /\ g3 <= 15
  BY <1>2, <1>3, <1>4, <1>5
<1>8. FromBits(f) = g0 + 16 * g1 + 256 * g2 + 4096 * g3
  BY <1>2, <1>3, <1>4, <1>5, <1>6
<1> HIDE DEF g0, g1, g2, g3
<1>9. QED
  BY <1>7, <1>8, WordIs

(* Words combined bit by bit are words, and OR with zero changes nothing. *)
LEMMA BitwiseType ==
  ASSUME NEW a \in Word, NEW b \in Word
  PROVE  /\ OrW(a, b) \in Word
         /\ AndW(a, b) \in Word
         /\ XorW(a, b) \in Word
<1>1. \A k \in 0 .. 15 : Bit(a, k) \in {0, 1} /\ Bit(b, k) \in {0, 1}
  BY BitType, WordIs
<1>2. [k \in 0 .. 15 |-> Num(IsSet(a, k) \/ IsSet(b, k))] \in [0 .. 15 -> {0, 1}]
  BY DEF Num
<1>3. [k \in 0 .. 15 |-> Bit(a, k) * Bit(b, k)] \in [0 .. 15 -> {0, 1}]
  BY <1>1
<1>4. [k \in 0 .. 15 |-> (Bit(a, k) + Bit(b, k)) % 2] \in [0 .. 15 -> {0, 1}]
  BY <1>1
<1>5. QED
  BY <1>2, <1>3, <1>4, FromBitsType DEF OrW, AndW, XorW

LEMMA OrZero ==
  ASSUME NEW w \in Word
  PROVE  OrW(w, 0) = w /\ OrW(0, w) = w
<1>1. \A k \in 0 .. 15 : ~IsSet(0, k)
  BY Weights, WeightType DEF IsSet, Bit
<1>2. \A k \in 0 .. 15 : Bit(w, k) \in {0, 1}
  BY BitType, WordIs
<1>3. \A k \in 0 .. 15 : /\ Num(IsSet(w, k) \/ IsSet(0, k)) = Bit(w, k)
                         /\ Num(IsSet(0, k) \/ IsSet(w, k)) = Bit(w, k)
  BY <1>1, <1>2 DEF IsSet, Num
<1>4. /\ [k \in 0 .. 15 |-> Num(IsSet(w, k) \/ IsSet(0, k))] = [k \in 0 .. 15 |-> Bit(w, k)]
      /\ [k \in 0 .. 15 |-> Num(IsSet(0, k) \/ IsSet(w, k))] = [k \in 0 .. 15 |-> Bit(w, k)]
  BY <1>3
<1>5. QED
  BY <1>4, SumOfBits DEF OrW

(* The sign bit, and the low bits. *)
LEMMA TopBit ==
  ASSUME NEW w \in Word
  PROVE  /\ Bit(w, 15) = w \div 32768
         /\ w = 32768 * Bit(w, 15) + (w % 32768)
         /\ 0 <= w % 32768 /\ w % 32768 < 32768
         /\ IsSet(w, 15) <=> w >= 32768
<1>1. w \in Int /\ 0 <= w /\ w < 65536
  BY WordIs
<1>2. (w \div 32768) % 2 = w \div 32768
  BY <1>1
<1>3. w = 32768 * (w \div 32768) + (w % 32768) /\ 0 <= w % 32768 /\ w % 32768 < 32768
  BY <1>1
<1>4. (w \div 32768) = 1 <=> w >= 32768
  BY <1>1
<1>5. Bit(w, 15) = w \div 32768
  BY <1>2, Weights DEF Bit
<1>6. QED
  BY <1>1, <1>3, <1>4, <1>5 DEF IsSet

LEMMA LowFour ==
  ASSUME NEW w \in Nat
  PROVE  w % 16 = Bit(w, 0) + 2 * Bit(w, 1) + 4 * Bit(w, 2) + 8 * Bit(w, 3)
  BY Weights DEF Bit

LEMMA LowSeven ==
  ASSUME NEW w \in Nat
  PROVE  w % 128 = Bit(w, 0) + 2 * Bit(w, 1) + 4 * Bit(w, 2) + 8 * Bit(w, 3)
                     + 16 * Bit(w, 4) + 32 * Bit(w, 5) + 64 * Bit(w, 6)
<1>1. w % 128 = (w % 16) + 16 * ((w \div 16) % 8)
  OBVIOUS
<1>2. (w \div 16) % 8 = ((w \div 16) % 2) + 2 * ((w \div 32) % 2) + 4 * ((w \div 64) % 2)
  OBVIOUS
<1>3. /\ (w \div 16) % 2 = Bit(w, 4)
      /\ (w \div 32) % 2 = Bit(w, 5)
      /\ (w \div 64) % 2 = Bit(w, 6)
  BY Weights DEF Bit
<1>4. \A k \in 0 .. 6 : Bit(w, k) \in Int
  BY Weights DEF Bit
<1> DEFINE low == w % 16   mid == (w \div 16) % 8   all == w % 128
<1>5. low \in Int /\ mid \in Int /\ all \in Int /\ all = low + 16 * mid
  BY <1>1
<1>6. mid = Bit(w, 4) + 2 * Bit(w, 5) + 4 * Bit(w, 6)
  BY <1>2, <1>3
<1>7. low = Bit(w, 0) + 2 * Bit(w, 1) + 4 * Bit(w, 2) + 8 * Bit(w, 3)
  BY LowFour
<1> HIDE DEF low, mid, all
<1>8. all = Bit(w, 0) + 2 * Bit(w, 1) + 4 * Bit(w, 2) + 8 * Bit(w, 3)
              + 16 * Bit(w, 4) + 32 * Bit(w, 5) + 64 * Bit(w, 6)
  BY <1>4, <1>5, <1>6, <1>7
<1>9. QED
  BY <1>8 DEF all

LEMMA SignOfLow ==
  ASSUME NEW w \in Nat
  PROVE  /\ w % 128 >= 64 <=> Bit(w, 6) = 1
         /\ w % 256 >= 128 <=> Bit(w, 7) = 1
         /\ w % 1024 >= 512 <=> Bit(w, 9) = 1
  BY Weights DEF Bit

(* An adder of two halves, as alu.v has it, adds: its low and high halves are
   al, bl and ah, bh, and ll and lh are those of the sum of the low halves. *)
LEMMA SplitSum ==
  ASSUME NEW ah \in Int, NEW bh \in Int, NEW lh \in Int, NEW r \in Int,
         NEW al \in Int, NEW bl \in Int, NEW ll \in Int,
         0 <= ah /\ ah <= 1, 0 <= bh /\ bh <= 1, 0 <= lh /\ lh <= 1,
         0 <= r /\ r <= 1, 0 <= al /\ al < 32768, 0 <= bl /\ bl < 32768,
         0 <= ll /\ ll < 32768, al + bl + r = 32768 * lh + ll,
         NEW hi \in Int, hi = ah + bh + lh,
         NEW sum \in Int, sum = 32768 * ah + al + 32768 * bh + bl + r,
         NEW signed \in Int, signed = al - 32768 * ah + bl - 32768 * bh + r
  PROVE  /\ 32768 * (hi % 2) + ll = sum % 65536
         /\ hi \div 2 = 1 <=> sum >= 65536
         /\ Eor(lh = 1, hi \div 2 = 1) <=> (signed < -32768 \/ signed > 32767)
<1>1. sum = 32768 * hi + ll
  OBVIOUS
<1>2. hi = 0 \/ hi = 1 \/ hi = 2 \/ hi = 3
  OBVIOUS
<1>3. 32768 * (hi % 2) + ll = sum % 65536
  BY <1>1, <1>2
<1>4. hi \div 2 = 1 <=> sum >= 65536
  BY <1>1, <1>2
<1>5. hi \div 2 = 1 <=> hi >= 2
  BY <1>2
<1>6. (hi >= 2 /\ lh # 1 => signed < -32768) /\ (hi < 2 /\ lh = 1 => signed > 32767)
  OBVIOUS
<1>7. signed < -32768 \/ signed > 32767 => Eor(lh = 1, hi >= 2)
  BY DEF Eor
<1>8. QED
  BY <1>3, <1>4, <1>5, <1>6, <1>7 DEF Eor

SumLow(a, b, r)  == (a % 32768) + (b % 32768) + r
SumHigh(a, b, r) == Bit(a, 15) + Bit(b, 15) + Bit(SumLow(a, b, r), 15)

LEMMA Adder ==
  ASSUME NEW a \in Word, NEW b \in Word, NEW r \in {0, 1}
  PROVE  /\ SumLow(a, b, r) \in Word
         /\ 32768 * (SumHigh(a, b, r) % 2) + (SumLow(a, b, r) % 32768) = (a + b + r) % 65536
         /\ SumHigh(a, b, r) \div 2 = 1 <=> a + b + r >= 65536
         /\ Eor(IsSet(SumLow(a, b, r), 15), SumHigh(a, b, r) \div 2 = 1)
              <=> Signed(a) + Signed(b) + r < -32768 \/ Signed(a) + Signed(b) + r > 32767
<1> DEFINE lo == SumLow(a, b, r)
           hi == SumHigh(a, b, r)
<1>1. /\ a \in Int /\ b \in Int /\ r \in Int /\ 0 <= r /\ r <= 1
      /\ a % 32768 \in Int /\ 0 <= a % 32768 /\ a % 32768 < 32768
      /\ b % 32768 \in Int /\ 0 <= b % 32768 /\ b % 32768 < 32768
  <2>1. a \in Int /\ b \in Int
    BY WordIs
  <2>2. a % 32768 \in Int /\ 0 <= a % 32768 /\ a % 32768 < 32768
    BY <2>1
  <2>3. b % 32768 \in Int /\ 0 <= b % 32768 /\ b % 32768 < 32768
    BY <2>1
  <2>4. r \in Int /\ 0 <= r /\ r <= 1
    OBVIOUS
  <2>5. QED
    BY <2>1, <2>2, <2>3, <2>4
<1>2. lo \in Word
  <2>1. \A x, y, z \in Int : 0 <= x /\ x < 32768 /\ 0 <= y /\ y < 32768 /\ 0 <= z /\ z <= 1
                             => x + y + z \in Int /\ 0 <= x + y + z /\ x + y + z < 65536
    OBVIOUS
  <2>2. QED
    BY <1>1, <2>1, WordIs DEF SumLow
<1>3. lo % 32768 \in Int /\ 0 <= lo % 32768 /\ lo % 32768 < 32768
  <2>1. lo \in Int
    BY <1>2, WordIs
  <2>2. QED
    BY <2>1
<1>4. \A w \in Word : Bit(w, 15) \in Int /\ 0 <= Bit(w, 15) /\ Bit(w, 15) <= 1
  BY BitType, WordIs
<1> HIDE DEF lo, hi
<1>5. /\ a = 32768 * Bit(a, 15) + (a % 32768)
      /\ b = 32768 * Bit(b, 15) + (b % 32768)
      /\ lo = 32768 * Bit(lo, 15) + (lo % 32768)
  BY <1>2, TopBit
<1>6. \A w \in Word : Signed(w) = (w % 32768) - 32768 * Bit(w, 15)
  <2> SUFFICES ASSUME NEW w \in Word
               PROVE  Signed(w) = (w % 32768) - 32768 * Bit(w, 15)
    OBVIOUS
  <2>1. w \in Int
    BY WordIs
  <2>2. w = 32768 * Bit(w, 15) + (w % 32768)
    BY TopBit
  <2>3. Bit(w, 15) = 0 \/ Bit(w, 15) = 1
    BY BitType, WordIs
  <2>4. CASE Bit(w, 15) = 0
    BY <2>1, <2>2, <2>4 DEF Signed, WordSize
  <2>5. CASE Bit(w, 15) = 1
    BY <2>1, <2>2, <2>5 DEF Signed, WordSize
  <2>6. QED
    BY <2>3, <2>4, <2>5
<1> DEFINE ah == Bit(a, 15)
           bh == Bit(b, 15)
           lh == Bit(lo, 15)
           al == a % 32768
           bl == b % 32768
           ll == lo % 32768
           sum == a + b + r
           signed == Signed(a) + Signed(b) + r
<1>7. /\ ah \in Int /\ 0 <= ah /\ ah <= 1 /\ bh \in Int /\ 0 <= bh /\ bh <= 1
      /\ lh \in Int /\ 0 <= lh /\ lh <= 1
  BY <1>2, <1>4
<1>8. /\ al \in Int /\ 0 <= al /\ al < 32768 /\ bl \in Int /\ 0 <= bl /\ bl < 32768
      /\ ll \in Int /\ 0 <= ll /\ ll < 32768
  BY <1>1, <1>3
<1>9. /\ al + bl + r = 32768 * lh + ll
      /\ hi = ah + bh + lh
      /\ a = 32768 * ah + al /\ b = 32768 * bh + bl
      /\ sum = a + b + r
      /\ Signed(a) = al - 32768 * ah /\ Signed(b) = bl - 32768 * bh
      /\ signed = Signed(a) + Signed(b) + r
  BY <1>5, <1>6 DEF lo, hi, SumLow, SumHigh
<1> HIDE DEF ah, bh, lh, al, bl, ll, sum, signed
<1>10. /\ hi \in Int /\ sum \in Int /\ signed \in Int
       /\ sum = 32768 * ah + al + 32768 * bh + bl + r
       /\ signed = al - 32768 * ah + bl - 32768 * bh + r
  BY <1>1, <1>7, <1>8, <1>9
<1>11. /\ 32768 * (hi % 2) + ll = sum % 65536
       /\ hi \div 2 = 1 <=> sum >= 65536
       /\ Eor(lh = 1, hi \div 2 = 1) <=> (signed < -32768 \/ signed > 32767)
  BY <1>1, <1>7, <1>8, <1>9, <1>10, SplitSum DEF Eor
<1>12. QED
  BY <1>2, <1>11 DEF lo, hi, lh, ll, sum, signed, IsSet

(* The masks, bit by bit. *)
LEMMA MaskBits ==
  /\ \A k \in 0 .. 15 : Bit(65535, k) = 1
  /\ Bit(65534, 0) = 0 /\ \A k \in 1 .. 15 : Bit(65534, k) = 1
  /\ Bit(65532, 0) = 0 /\ Bit(65532, 1) = 0 /\ \A k \in 2 .. 15 : Bit(65532, k) = 1
  /\ Bit(65528, 0) = 0 /\ Bit(65528, 1) = 0 /\ Bit(65528, 2) = 0
  /\ \A k \in 3 .. 15 : Bit(65528, k) = 1
  BY Weights DEF Bit

(* A multiple of a has the upper bits of the numbers up to the next one. *)
LEMMA UpperBits ==
  ASSUME NEW a \in {1, 2, 4, 8}, NEW k \in 0 .. 15, Pow2[k] >= a,
         NEW y \in Nat, NEW w \in Nat, NEW r \in 0 .. a - 1, y = w + r, w % a = 0
  PROVE  Bit(w, k) = Bit(y, k)
<1>1. PICK q \in Nat : w = a * q
  <2>1. /\ a = 1 => w = a * w
        /\ a = 2 => w = a * (w \div 2)
        /\ a = 4 => w = a * (w \div 4)
        /\ a = 8 => w = a * (w \div 8)
    OBVIOUS
  <2>2. w \div 2 \in Nat /\ w \div 4 \in Nat /\ w \div 8 \in Nat
    OBVIOUS
  <2>3. QED
    BY <2>1, <2>2
<1>2. PICK p \in Nat \ {0} : Pow2[k] = a * p
  <2>1. Pow2[k] \in {1, 2, 4, 8, 16, 32, 64, 128, 256, 512, 1024, 2048, 4096, 8192, 16384, 32768}
    BY Weights
  <2>2. PICK n : n = Pow2[k]
    OBVIOUS
  <2>3. n \in {1, 2, 4, 8, 16, 32, 64, 128, 256, 512, 1024, 2048, 4096, 8192, 16384, 32768} /\ n >= a
    BY <2>1, <2>2
  <2>4. /\ a = 1 => n = a * n
        /\ a = 2 => n = a * (n \div 2)
        /\ a = 4 => n = a * (n \div 4)
        /\ a = 8 => n = a * (n \div 8)
    BY <2>3
  <2>5. /\ n \in Nat \ {0}
        /\ a = 2 => n \div 2 \in Nat \ {0}
        /\ a = 4 => n \div 4 \in Nat \ {0}
        /\ a = 8 => n \div 8 \in Nat \ {0}
    BY <2>3
  <2>6. QED
    BY <2>2, <2>4, <2>5
<1>3. PICK d \in Nat, e \in 0 .. p - 1 : q = p * d + e
  <2>1. q \div p \in Nat /\ q % p \in 0 .. p - 1 /\ q = p * (q \div p) + (q % p)
    BY <1>2
  <2>2. QED
    BY <2>1
<1>4. w = (a * p) * d + a * e /\ y = (a * p) * d + (a * e + r)
  BY <1>1, <1>3
<1>5. a * e \in 0 .. a * p - 1 /\ a * e + r \in 0 .. a * p - 1 /\ a * p \in Nat \ {0}
  BY <1>2, <1>3
<1>6. w \div (a * p) = d /\ y \div (a * p) = d
  BY <1>3, <1>4, <1>5, Quotient
<1>7. QED
  BY <1>2, <1>6 DEF Bit

(* Masking the low bits away gives the multiple below. *)
LEMMA MaskedMultiple ==
  ASSUME NEW y \in Word, NEW a \in {1, 2, 4, 8}
  PROVE  /\ AndW(y, 65536 - a) \in Int
         /\ AndW(y, 65536 - a) % a = 0
         /\ AndW(y, 65536 - a) <= y /\ y < AndW(y, 65536 - a) + a
<1>1. y \in Nat
  BY WordIs
<1>2. PICK w \in Nat, r \in 0 .. a - 1 : y = w + r /\ w % a = 0
  <2>1. /\ y - (y % a) \in Nat /\ y % a \in 0 .. a - 1 /\ (y - (y % a)) % a = 0
        /\ y = y - (y % a) + (y % a)
    BY <1>1
  <2>2. QED
    BY <2>1
<1>3. PICK m : m = 65536 - a
  OBVIOUS
<1>4. \A k \in 0 .. 15 : Pow2[k] >= a => Bit(m, k) = 1 /\ Bit(w, k) = Bit(y, k)
  <2>1. \A k \in 0 .. 15 : Pow2[k] >= a => Bit(m, k) = 1
    BY <1>3, MaskBits, Weights
  <2>2. ASSUME NEW k \in 0 .. 15, Pow2[k] >= a
        PROVE  Bit(w, k) = Bit(y, k)
    BY <1>1, <1>2, <2>2, UpperBits
  <2>3. QED
    BY <2>1, <2>2
<1>5. \A k \in 0 .. 15 : Pow2[k] < a => Bit(m, k) = 0 /\ Bit(w, k) = 0
  BY <1>1, <1>2, <1>3, MaskBits, Weights DEF Bit
<1>6. \A k \in 0 .. 15 : Bit(y, k) * Bit(m, k) = Bit(w, k)
  BY <1>1, <1>2, <1>4, <1>5, BitType, WeightType
<1>7. [k \in 0 .. 15 |-> Bit(y, k) * Bit(m, k)] = [k \in 0 .. 15 |-> Bit(w, k)]
  BY <1>6
<1>8. w \in Word
  BY <1>2, WordIs
<1>9. AndW(y, m) = w
  BY <1>7, <1>8, SumOfBits DEF AndW
<1>10. QED
  BY <1>2, <1>3, <1>9
=============================================================================
