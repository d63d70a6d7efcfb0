------------------------------- MODULE FpNative -------------------------------
(***************************************************************************)
(* Floating point in software: crtl/library/fpnativ.asm, single (_fff) and *)
(* double (_ddd).  A number is N words of W bits, 2 or 4 of 16 in the      *)
(* code: a sign, E bits of exponent, M bits of mantissa.  Both precisions  *)
(* are written out in the assembler, the same but for the test for not-a-  *)
(* number and for the multiplication.                                      *)
(*                                                                         *)
(* A run of shifts, or of add/adc over several words, is one operation on  *)
(* the number that the words are.                                          *)
(***************************************************************************)
EXTENDS Integers, Sequences, SequencesExt, FiniteSetsExt

CONSTANTS
    W, E, N,       \* bits in a word, bits in an exponent, words in a number
    Ops,           \* the routines that are called
    Lefts, Rites   \* operands

VARIABLES op, code, left, rite, called, out

vars == <<op, code, left, rite, called, out>>

B == 2^W
M == (N - 1) * W + W - 1 - E
Hidden == 2^M
ExpMax == 2^E - 1
Bias == 2^(E - 1) - 1
SignBit == 2^(N * W - 1)
WordOf(x, i) == (x \div B^i) % B
TopBit(x) == Max({k \in 0..(N * W) : x >= 2^k})
-------------------------------------------------------------------------------
(* parsefloat, parsedouble *)
NanWords == IF N = 4 THEN {0, 3} ELSE {0, 1}

Parse(x) ==
    LET frac == x % Hidden
        exp == (x \div Hidden) % 2^E IN
    [nan |-> exp = ExpMax /\ \E i \in NanWords : WordOf(frac, i) # 0,
     man |-> IF exp = 0 THEN frac ELSE frac + Hidden,
     exp |-> IF exp = 0 THEN 1 ELSE exp,
     neg |-> x >= SignBit]

NaN == 2^(N * W) - 1
Pack(neg, exp, man) == (IF neg THEN SignBit ELSE 0) + exp * Hidden + man
Inf(neg) == Pack(neg, ExpMax, 0)
Zero(neg) == Pack(neg, 0, 0)
Flip(x) == IF x >= SignBit THEN x - SignBit ELSE x + SignBit

(* norm3: left until the hidden bit is in place or the exponent is used up,
   then one back for a subnormal number. *)
Normal(neg, exp, man) ==
    LET n == IF man = 0 THEN exp ELSE Min({exp, M - Min({M, TopBit(man)})}) IN
    IF exp = n THEN Pack(neg, 0, (man * 2^n) \div 2)
    ELSE Pack(neg, exp - n, man * 2^n - Hidden)

Align(p, exp) == [p EXCEPT !.exp = exp, !.man = @ \div 2^(exp - p.exp)]
Signed(p) == IF p.neg THEN -p.man ELSE p.man

AddParts(a, b) ==
    LET sum == Signed(a) + Signed(b)
        neg == sum < 0
        mag == IF neg THEN -sum ELSE sum
        carry == mag >= 2 * Hidden /\ a.exp < ExpMax
        exp == IF carry THEN a.exp + 1 ELSE a.exp
        man == IF carry THEN mag \div 2 ELSE mag IN
    IF exp >= ExpMax THEN Inf(neg) ELSE Normal(neg, exp, man)

Add(x, y) ==
    LET a == Parse(x)  b == Parse(y) IN
    IF a.nan \/ b.nan THEN NaN
    ELSE IF a.exp = ExpMax /\ b.exp = ExpMax THEN IF a.neg = b.neg THEN x ELSE NaN
    ELSE IF a.exp - b.exp > M THEN x
    ELSE IF b.exp - a.exp > M THEN y
    ELSE LET exp == Max({a.exp, b.exp}) IN AddParts(Align(a, exp), Align(b, exp))

Sub(x, y) == Add(x, Flip(y))
-------------------------------------------------------------------------------
(* Subnormal operands are shifted up first. *)
Prescale_exp(p) == LET n == M - TopBit(p.man) IN [p EXCEPT !.man = @ * 2^n]   \* the exponent stays
Prescale(p) == LET n == M - TopBit(p.man) IN [p EXCEPT !.exp = @ - n, !.man = @ * 2^n]

(* The words of the product that are kept: all but the lowest of a single, and
   for a double the sum of the partial products from word 2 up. *)
ProductWords(a, b) ==
    IF N = 2 THEN (a * b) \div B
    ELSE MapThenSumSet(LAMBDA ij : WordOf(a, ij[1]) * WordOf(b, ij[2]) * B^(ij[1] + ij[2] - 2),
                       {ij \in (0..3) \X (0..3) : ij[1] + ij[2] >= 2}) \div B

Product(neg, exp, p) ==
    LET n == TopBit(p) - M          \* shifts until the hidden bit is in place
        full == M - (IF N = 2 THEN W ELSE 3 * W)
        e == exp + (n - full) IN
    IF e >= ExpMax THEN Inf(neg)
    ELSE IF e > 0 THEN Pack(neg, e, p \div 2^n - Hidden)
    ELSE IF 1 - e > M THEN Zero(neg)
    ELSE Pack(neg, 0, (p \div 2^n) \div 2^(1 - e))

Mul(x, y) ==
    LET a == Parse(x)  b == Parse(y)  neg == a.neg # b.neg IN
    IF a.nan \/ b.nan THEN NaN
    ELSE IF a.exp = ExpMax THEN IF b.man = 0 THEN NaN ELSE Inf(neg)
    ELSE IF b.exp = ExpMax THEN IF a.man = 0 THEN NaN ELSE Inf(neg)
    ELSE IF b.man = 0 \/ a.man = 0 THEN Zero(neg)
    ELSE LET c == Prescale(a)  d == Prescale(b) IN
         Product(neg, c.exp + d.exp - Bias, ProductWords(c.man, d.man))
-------------------------------------------------------------------------------
(* divloop: a bit of the quotient at a time until the top one is in place or
   the exponent is used up. *)
DivStep(b, s) ==
    IF s.exp = 0 \/ s.quo >= Hidden THEN s
    ELSE LET fits == s.rem >= b IN
         [rem |-> 2 * (IF fits THEN s.rem - b ELSE s.rem),
          quo |-> 2 * s.quo + (IF fits THEN 1 ELSE 0),
          exp |-> s.exp - 1]

(* The divisor is shifted up to the top bit of the dividend, never down. *)
MatchTop(a, b) ==
    LET n == TopBit(a.man) - TopBit(b.man) IN
    IF n <= 0 THEN b ELSE [b EXCEPT !.exp = @ - n, !.man = @ * 2^n]

Quotient(neg, a, b) ==
    LET exp == a.exp - b.exp + Bias + M + 1 IN
    IF exp <= 0 THEN Zero(neg)
    ELSE LET q == FoldLeft(LAMBDA s, i : DivStep(b.man, s), [rem |-> a.man, quo |-> 0, exp |-> exp],
                           [i \in 1..exp |-> i]) IN
         IF q.exp = 0 THEN Pack(neg, 0, q.quo \div 2)
         ELSE IF q.exp >= ExpMax THEN Inf(neg)
         ELSE Pack(neg, q.exp, q.quo - Hidden)

Div(x, y) ==
    LET a == Parse(x)  b == Parse(y)  neg == a.neg # b.neg IN
    IF a.nan \/ b.nan THEN NaN
    ELSE IF a.exp = ExpMax THEN IF b.exp = ExpMax THEN NaN ELSE Inf(neg)
    ELSE IF b.exp = ExpMax THEN Zero(neg)
    ELSE IF a.man = 0 THEN IF b.man = 0 THEN NaN ELSE Zero(neg)
    ELSE IF b.man = 0 THEN Inf(neg)
    ELSE Quotient(neg, a, MatchTop(a, b))
-------------------------------------------------------------------------------
(* cmpfflip: one number for exponent and mantissa that compares unsigned. *)
Ordered(p) == LET x == p.exp * 2 * Hidden + p.man IN IF p.neg THEN -x ELSE x

(* What codes 0, 1 and 2 ask for, >= > #, and their opposites 8 more than the
   sixteenfold. *)
Asked(c, lt, eq) ==
    LET r == CASE c.rel = 0 -> ~lt [] c.rel = 1 -> ~lt /\ ~eq [] c.rel = 2 -> ~eq IN r # c.opposite

Cmp(c, x, y) ==
    LET a == Parse(x)  b == Parse(y) IN
    IF a.nan \/ b.nan THEN FALSE
    ELSE Asked(c, Ordered(a) < Ordered(b), Ordered(a) = Ordered(b))
-------------------------------------------------------------------------------
(* The same by raspictl.cc, SCN_CMP_FF and _DD, and SCN_ADD_FFF to SCN_DIV_FFF:
   the host's arithmetic, which rounds to nearest even.  A finite number is an
   integer in units of the smallest subnormal one. *)
IsNan(x) == (x \div Hidden) % 2^E = ExpMax /\ x % Hidden # 0
IsInf(x) == (x \div Hidden) % 2^E = ExpMax /\ x % Hidden = 0
IsZero(x) == x % SignBit = 0
Neg(x) == x >= SignBit
Units(x) == LET p == Parse(x)  u == p.man * 2^(p.exp - 1) IN IF p.neg THEN -u ELSE u

Round(neg, num, den) ==
    LET q == num \div den
        k == IF q < 2 * Hidden THEN 0 ELSE CHOOSE j \in 1..31 : q \div 2^j >= Hidden /\ q \div 2^j < 2 * Hidden
        d == den * 2^k
        man == num \div d
        rest == num % d
        up == rest > d - rest \/ (rest = d - rest /\ man % 2 = 1)
        bits == k * Hidden + man + (IF up THEN 1 ELSE 0) IN
    IF bits >= ExpMax * Hidden THEN Inf(neg) ELSE Pack(neg, 0, 0) + bits

AbsOf(i) == IF i < 0 THEN -i ELSE i
HostAdd(x, y) ==
    IF IsNan(x) \/ IsNan(y) THEN NaN
    ELSE IF IsInf(x) THEN IF IsInf(y) /\ Neg(x) # Neg(y) THEN NaN ELSE x
    ELSE IF IsInf(y) THEN y
    ELSE LET s == Units(x) + Units(y) IN
         IF s = 0 THEN Zero(Neg(x) /\ Neg(y)) ELSE Round(s < 0, AbsOf(s), 1)
HostMul(x, y) ==
    LET neg == Neg(x) # Neg(y) IN
    IF IsNan(x) \/ IsNan(y) THEN NaN
    ELSE IF IsInf(x) \/ IsInf(y) THEN IF IsZero(x) \/ IsZero(y) THEN NaN ELSE Inf(neg)
    ELSE Round(neg, AbsOf(Units(x)) * AbsOf(Units(y)), 2^(Bias + M - 1))
HostDiv(x, y) ==
    LET neg == Neg(x) # Neg(y) IN
    IF IsNan(x) \/ IsNan(y) THEN NaN
    ELSE IF IsInf(x) THEN IF IsInf(y) THEN NaN ELSE Inf(neg)
    ELSE IF IsInf(y) THEN Zero(neg)
    ELSE IF IsZero(y) THEN IF IsZero(x) THEN NaN ELSE Inf(neg)
    ELSE Round(neg, AbsOf(Units(x)) * 2^(Bias + M - 1), AbsOf(Units(y)))
HostCmp(c, x, y) ==
    LET real(v) == IF IsInf(v) THEN (IF Neg(v) THEN -1 ELSE 1) * Hidden * 2^ExpMax ELSE Units(v) IN
    IF IsNan(x) \/ IsNan(y) THEN (c.rel = 2) # c.opposite
    ELSE Asked(c, real(x) < real(y), real(x) = real(y))
-------------------------------------------------------------------------------
Codes == [rel : 0..2, opposite : BOOLEAN]

Init ==
    /\ op \in Ops /\ left \in Lefts /\ rite \in Rites
    /\ code \in (IF op = "cmp" THEN Codes ELSE {[rel |-> 0, opposite |-> FALSE]})
    /\ called = FALSE /\ out = 0

Call ==
    /\ ~called /\ called' = TRUE
    /\ out' = CASE op = "add" -> Add(left, rite) [] op = "sub" -> Sub(left, rite)
                [] op = "mul" -> Mul(left, rite) [] op = "div" -> Div(left, rite)
                [] op = "cmp" -> IF Cmp(code, left, rite) THEN 1 ELSE 0
    /\ UNCHANGED <<op, code, left, rite>>

Next == Call
Spec == Init /\ [][Next]_vars
-------------------------------------------------------------------------------
HostSays ==
    CASE op = "add" -> HostAdd(left, rite) [] op = "sub" -> HostAdd(left, Flip(rite))
      [] op = "mul" -> HostMul(left, rite) [] op = "div" -> HostDiv(left, rite)

(* What fpmptest.c accepts: the same bits, both not numbers, fewer than three
   units in the last place apart, or zeroes of different signs. *)
Accepted(t, s) ==
    \/ IsNan(t) /\ IsNan(s)
    \/ AbsOf(t - s) < 3
    \/ IsZero(t) /\ IsZero(s)

Cancels == op \in {"add", "sub"} /\ (Neg(left) = Neg(rite)) = (op = "sub")

(* A product, a quotient and the sum of magnitudes are the host's as closely as
   the test program asks, with subnormal numbers, infinities, overflow and
   underflow. *)
CloseEnuf == called /\ op # "cmp" /\ ~Cancels => Accepted(out, HostSays)

(* A difference of magnitudes is off by less than one unit in the last place of
   the larger operand, is zero for equal operands only and has the right sign. *)
DifferenceBounded ==
    called /\ Cancels /\ Parse(left).exp < ExpMax /\ Parse(rite).exp < ExpMax =>
        LET exact == Units(left) + Units(IF op = "sub" THEN Flip(rite) ELSE rite)
            ulp == 2^(Max({Parse(left).exp, Parse(rite).exp}) - 1) IN
        /\ AbsOf(Units(out) - exact) < ulp
        /\ (Units(out) = 0) = (exact = 0)
        /\ (Units(out) < 0) = (exact < 0)

(* Sums and products are the same bits with the operands exchanged, and a
   difference is the negative, a zero apart. *)
Commutes ==
    called =>
        /\ op = "add" => out = Add(rite, left)
        /\ op = "mul" => out = Mul(rite, left)
        /\ op = "sub" => LET r == Sub(rite, left) IN
                         r = Flip(out) \/ (IsZero(out) /\ IsZero(r)) \/ (IsNan(out) /\ IsNan(r))

(* Numbers compare as numbers for every code, a zero with a zero apart. *)
ComparesRight ==
    called /\ op = "cmp" /\ ~IsNan(left) /\ ~IsNan(rite) /\ ~(IsZero(left) /\ IsZero(rite)) =>
        out = (IF HostCmp(code, left, rite) THEN 1 ELSE 0)

(* Not-a-number goes through every operation, if the words of the mantissa that
   tell it from infinity have a bit: not the middle ones of a double
   (fpnativ.asm:1471). *)
KnownNan(x) == IsNan(x) /\ \E i \in {0, N - 1} : WordOf(x % Hidden, i) # 0
NansStay ==
    called /\ op # "cmp" /\ (KnownNan(left) \/ KnownNan(rite)) => IsNan(out)
===============================================================================
