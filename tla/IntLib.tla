-------------------------------- MODULE IntLib --------------------------------
(***************************************************************************)
(* The integer routines of the run-time library, crtl/library/*.asm, that  *)
(* compiled code calls for what the processor has no instruction for:      *)
(* multiply, divide, shifts, and everything on quads.  The names give the  *)
(* types of result and operands: w W a word, l L two words, q Q four       *)
(* words, lower case signed.                                               *)
(*                                                                         *)
(* A word has W bits, 16 in the code.  A chain of add/adc, sub/sbb or      *)
(* shl/rol over several words is one operation on the number that these    *)
(* words are, with the carry out of the top word lost unless the code      *)
(* looks at it.                                                            *)
(***************************************************************************)
EXTENDS Integers, Sequences, SequencesExt

CONSTANTS
    W,             \* bits in a word
    Routines       \* the routines that are called

VARIABLES
    routine, left, rite,      \* what is called, R1 and R2 or what they point at
    inplace,                  \* R0 = R1: the result replaces the left operand
    called, out               \* the answer

vars == <<routine, left, rite, inplace, called, out>>

B == 2^W
Radix(n) == B^n
WordOf(x, i) == (x \div Radix(i)) % B
Negative(x, n) == x >= Radix(n) \div 2
Neg(x, n) == (Radix(n) - x) % Radix(n)
Com(x, n) == Radix(n) - 1 - x
Abs(x, n) == IF Negative(x, n) THEN Neg(x, n) ELSE x
Signed(x, n) == IF Negative(x, n) THEN x - Radix(n) ELSE x

Repeat(Op(_), n, s) == FoldLeft(LAMBDA t, i : Op(t), s, [i \in 1..n |-> i])
-------------------------------------------------------------------------------
(* The two primitives, as loops and as the system calls of raspictl.cc. *)
UdivStep(d, s) ==
    LET top == 2 * s.rem + (s.quo * 2) \div B IN
    IF top >= d
    THEN [rem |-> (top + B - d) % B, quo |-> ((s.quo * 2) % B) + 1]
    ELSE [rem |-> top, quo |-> (s.quo * 2) % B]

udiv(hi, lo, d) == Repeat(LAMBDA s : UdivStep(d, s), W, [rem |-> hi, quo |-> lo])

HostUdiv(hi, lo, d) ==
    IF d = 0 THEN [rem |-> hi, quo |-> lo]
    ELSE LET x == hi * B + lo IN [rem |-> x % d, quo |-> (x \div d) % B]

UmulStep(m, s) ==
    LET p == (2 * s.prod) % Radix(2) IN
    [prod |-> IF s.k * 2 >= B THEN (p + m) % Radix(2) ELSE p, k |-> (s.k * 2) % B]

(* R3R2 times R1; the multiplier is shifted out of the top of R1 as the
   product grows into it from below. *)
umul(m, k) == Repeat(LAMBDA s : UmulStep(m, s), W, [prod |-> 0, k |-> k]).prod

HostUmul(m, k) == (m * k) % Radix(2)
-------------------------------------------------------------------------------
div_WWW(a, b) == udiv(0, a, b).quo
mod_WWW(a, b) == udiv(0, a, b).rem
mul_WWW(a, b) == umul(b, a) % B

(* The sign of the result is in R3, saved before the operands are made
   positive. *)
SignOf(a, b) == IF Negative(b, 1) THEN Com(a, 1) ELSE a
WithSign(x, sign) == IF Negative(sign, 1) THEN Neg(x, 1) ELSE x

div_wwW(a, b) == WithSign(udiv(0, Abs(a, 1), b).quo, a)
mod_wwW(a, b) == WithSign(udiv(0, Abs(a, 1), b).rem, a)
div_www(a, b) == WithSign(udiv(0, Abs(a, 1), Abs(b, 1)).quo, SignOf(a, b))
mod_www(a, b) == WithSign(udiv(0, Abs(a, 1), Abs(b, 1)).rem, a)
mul_wwW(a, b) == WithSign(umul(b, Abs(a, 1)) % B, a)
mul_www(a, b) == WithSign(umul(Abs(b, 1), Abs(a, 1)) % B, SignOf(a, b))

(* Word by word from the top, the remainder of one is the high word of the
   next. *)
DivWords(a, n, d) ==
    FoldLeft(LAMBDA s, i : LET u == udiv(s.rem, WordOf(a, n - i), d) IN
                           [rem |-> u.rem, quo |-> s.quo * B + u.quo],
             [rem |-> 0, quo |-> 0], [i \in 1..n |-> i])

div_LLW(a, b) == DivWords(a, 2, b).quo
mod_WLW(a, b) == DivWords(a, 2, b).rem
div_QQW(a, b) == DivWords(a, 4, b).quo
mod_WQW(a, b) == DivWords(a, 4, b).rem

(* Shift the n words of the dividend into m words of remainder; the carry out
   of these is not looked at. *)
DivStep(n, m, d, s) ==
    LET top == (2 * s.rem + (s.quo * 2) \div Radix(n)) % Radix(m) IN
    IF top >= d THEN [rem |-> top - d, quo |-> ((s.quo * 2) % Radix(n)) + 1]
                ELSE [rem |-> top, quo |-> (s.quo * 2) % Radix(n)]
LongDivide(a, n, d, m) ==
    Repeat(LAMBDA s : DivStep(n, m, d, s), n * W, [rem |-> 0, quo |-> a])

div_LLL(a, b) == LongDivide(a, 2, b, 2).quo
mod_LLL(a, b) == LongDivide(a, 2, b, 2).rem
div_QQL(a, b) == LongDivide(a, 4, b, 2).quo
div_QQQ(a, b) == LongDivide(a, 4, b, 4).quo
mod_QQQ(a, b) == LongDivide(a, 4, b, 4).rem

mul_LLL(a, b) ==
    LET hi == umul(b, WordOf(a, 1))
        lo == umul(b, WordOf(a, 0)) IN
    (lo % B) + ((((lo \div B) + (hi % B)) % B) * B)
mul_LLW(a, b) == umul(a, b)
mul_LWL(a, b) == umul(b, a)
mul_llw(a, b) ==
    LET prod == umul(Abs(a, 2), Abs(b, 1)) IN
    IF Negative(WordOf(a, 1), 1) # Negative(b, 1) THEN Neg(prod, 2) ELSE prod

neg_QQ(a, b) == Neg(a, 4)
sub_QQQ(a, b) == (a - b) % Radix(4)
-------------------------------------------------------------------------------
(* One-bit shifts by jumping into a row of them. *)
shl_WWW(a, b) == Repeat(LAMBDA x : (2 * x) % B, b % W, a)
shr_WWW(a, b) == Repeat(LAMBDA x : x \div 2, b % W, a)
shr_wwW(a, b) == Repeat(LAMBDA x : (x \div 2) + (IF Negative(x, 1) THEN B \div 2 ELSE 0), b % W, a)

shl_LLW(a, b) ==
    LET n == b % (2 * W)
        whole == n >= W
        x == IF whole THEN WordOf(a, 0) * B ELSE a IN
    Repeat(LAMBDA y : (2 * y) % Radix(2), IF whole THEN n % W ELSE n, x)

(* R5 is all zeroes or all ones and feeds the top. *)
Shr_LL(a, b, fill) ==
    LET n == b % (2 * W)
        whole == n >= W
        x == IF whole THEN (fill * B) + WordOf(a, 1) ELSE a IN
    Repeat(LAMBDA y : (y \div 2) + (fill % 2) * (Radix(2) \div 2), IF whole THEN n % W ELSE n, x)
shr_LLW(a, b) == Shr_LL(a, b, 0)
shr_llW(a, b) == Shr_LL(a, b, IF Negative(a, 2) THEN B - 1 ELSE 0)

(* Quads in memory: the left operand at 0, the result at 4 or in its place,
   room for a copy at 8. *)
Memory(a) == [i \in 0..11 |-> IF i < 4 THEN WordOf(a, i) ELSE 0]
QuadAt(mem, i) == mem[i] + mem[i + 1] * B + mem[i + 2] * Radix(2) + mem[i + 3] * Radix(3)
Temp == 8
Result == IF inplace THEN 0 ELSE 4
CopyTo(mem, words) == [i \in DOMAIN mem |-> IF i - Temp \in words THEN mem[i - Temp] ELSE mem[i]]
Pad(mem, where, fill) == [i \in DOMAIN mem |-> IF i \in where THEN fill ELSE mem[i]]
ShiftLeft(hi, lo, n) == ((hi * B + lo) * 2^n) \div B
ShiftRight(hi, lo, n) == ((hi * B + lo) \div 2^n) % B

ShrWord(bits, s) ==
    [mem |-> [s.mem EXCEPT ![s.dst + 3] = ShiftRight(s.next, s.mem[s.src + 3], bits)],
     next |-> s.mem[s.src + 3], src |-> s.src - 1, dst |-> s.dst - 1]

Shr_QQ_overlap(a, b, fill) ==
    LET n == b % (4 * W)
        skip == n \div W
        mem == Pad(Memory(a), (Result + 4 - skip)..(Result + 3), fill)
        s == Repeat(LAMBDA t : ShrWord(n % W, t), 4 - skip,
                    [mem |-> mem, next |-> fill, src |-> 0, dst |-> Result - skip]) IN
    QuadAt(s.mem, Result)

Shr_QQ(a, b, fill) ==
    LET n == b % (4 * W)
        skip == n \div W
        copy == skip # 0 /\ inplace
        mem == Pad(IF copy THEN CopyTo(Memory(a), 1..3) ELSE Memory(a),
                   (Result + 4 - skip)..(Result + 3), fill)
        s == Repeat(LAMBDA t : ShrWord(n % W, t), 4 - skip,
                    [mem |-> mem, next |-> fill, src |-> IF copy THEN Temp ELSE 0,
                     dst |-> Result - skip]) IN
    QuadAt(s.mem, Result)

shr_QQW(a, b) == Shr_QQ(a, b, 0)
shr_qqW(a, b) == Shr_QQ(a, b, IF Negative(a, 4) THEN B - 1 ELSE 0)

ShlWord(bits, s) ==
    [mem |-> [s.mem EXCEPT ![s.dst] = ShiftLeft(s.mem[s.src], s.next, bits) % B],
     next |-> s.mem[s.src], src |-> s.src + 1, dst |-> s.dst + 1]

NoAnswer == -1      \* stores to all of memory, the program included

(* R3 counts bytes when 4 is taken from it to get the number of words. *)
shl_QQW(a, b) ==
    LET n == b % (4 * W)
        skip == n \div W
        copy == skip # 0 /\ inplace
        words == (4 - 2 * skip) % 2^16
        mem == Pad(IF copy THEN CopyTo(Memory(a), 0..2) ELSE Memory(a),
                   Result..(Result + skip - 1), 0)
        s == Repeat(LAMBDA t : ShlWord(n % W, t), words,
                    [mem |-> mem, next |-> 0, src |-> IF copy THEN Temp ELSE 0,
                     dst |-> Result + skip]) IN
    IF words = 0 \/ words > 4 THEN NoAnswer ELSE QuadAt(s.mem, Result)
-------------------------------------------------------------------------------
(* cmp_QQ: the code of a branch, and 0 when it is taken. *)
Opcodes == [blt |-> 0, blo |-> 4, bge |-> 8, bhis |-> 12, ble |-> 16, blos |-> 20,
            bgt |-> 24, bhi |-> 28, beq |-> 32, bne |-> 40]
TableEntry(code, x, y) ==
    LET sx == Signed(x, 1)  sy == Signed(y, 1) IN
    CASE code = 0 -> sx < sy    [] code = 4 -> x < y
      [] code = 8 -> sx >= sy   [] code = 12 -> x >= y
      [] code = 16 -> sx <= sy  [] code = 20 -> x <= y
      [] code = 24 -> sx >= sy  [] code = 28 -> x > y
      [] code \in {32, 36} -> x = y
      [] code \in {40, 44} -> x # y

(* A later word decides as it does unsigned. *)
Unsigned(code) == IF (code \div 4) % 2 = 1 THEN code ELSE code + 4

cmp_QQ(code, a, b) ==
    LET differ == {i \in 0..3 : WordOf(a, i) # WordOf(b, i)}
        at == IF differ = {} THEN 0 ELSE CHOOSE i \in differ : \A j \in differ : j <= i
        entry == IF at = 3 THEN code ELSE Unsigned(code) IN
    IF TableEntry(entry, WordOf(a, at), WordOf(b, at)) THEN 0 ELSE 1
-------------------------------------------------------------------------------
(* Operands by number of words; 0 is a shift count. *)
Words ==
    [div_WWW |-> <<1, 1>>, mod_WWW |-> <<1, 1>>, mul_WWW |-> <<1, 1>>,
     div_wwW |-> <<1, 1>>, mod_wwW |-> <<1, 1>>, mul_wwW |-> <<1, 1>>,
     div_www |-> <<1, 1>>, mod_www |-> <<1, 1>>, mul_www |-> <<1, 1>>,
     div_LLW |-> <<2, 1>>, mod_WLW |-> <<2, 1>>, mul_LLW |-> <<2, 1>>,
     mul_llw |-> <<2, 1>>, mul_LWL |-> <<1, 2>>, mul_LLL |-> <<2, 2>>,
     div_LLL |-> <<2, 2>>, mod_LLL |-> <<2, 2>>,
     div_QQW |-> <<4, 1>>, mod_WQW |-> <<4, 1>>, div_QQL |-> <<4, 2>>,
     div_QQQ |-> <<4, 4>>, mod_QQQ |-> <<4, 4>>,
     neg_QQ |-> <<4, 0>>, sub_QQQ |-> <<4, 4>>, cmp_QQ |-> <<4, 4>>,
     shl_WWW |-> <<1, 0>>, shr_WWW |-> <<1, 0>>, shr_wwW |-> <<1, 0>>,
     shl_LLW |-> <<2, 0>>, shr_LLW |-> <<2, 0>>, shr_llW |-> <<2, 0>>,
     shl_QQW |-> <<4, 0>>, shr_QQW |-> <<4, 0>>, shr_qqW |-> <<4, 0>>]

Divisions == {"div_WWW", "div_LLW", "div_LLL", "div_QQW", "div_QQL", "div_QQQ"}
Remainders == {"mod_WWW", "mod_WLW", "mod_LLL", "mod_WQW", "mod_QQQ"}
LeftShifts == {"shl_WWW", "shl_LLW", "shl_QQW"}
RightShifts == {"shr_WWW", "shr_LLW", "shr_QQW"}
SignedShifts == {"shr_wwW", "shr_llW", "shr_qqW"}

Answer(r, a, b) ==
    CASE r = "div_WWW" -> div_WWW(a, b) [] r = "mod_WWW" -> mod_WWW(a, b)
      [] r = "mul_WWW" -> mul_WWW(a, b) [] r = "div_wwW" -> div_wwW(a, b)
      [] r = "mod_wwW" -> mod_wwW(a, b) [] r = "mul_wwW" -> mul_wwW(a, b)
      [] r = "div_www" -> div_www(a, b) [] r = "mod_www" -> mod_www(a, b)
      [] r = "mul_www" -> mul_www(a, b) [] r = "div_LLW" -> div_LLW(a, b)
      [] r = "mod_WLW" -> mod_WLW(a, b) [] r = "mul_LLW" -> mul_LLW(a, b)
      [] r = "mul_llw" -> mul_llw(a, b) [] r = "mul_LWL" -> mul_LWL(a, b)
      [] r = "mul_LLL" -> mul_LLL(a, b) [] r = "div_LLL" -> div_LLL(a, b)
      [] r = "mod_LLL" -> mod_LLL(a, b) [] r = "div_QQW" -> div_QQW(a, b)
      [] r = "mod_WQW" -> mod_WQW(a, b) [] r = "div_QQL" -> div_QQL(a, b)
      [] r = "div_QQQ" -> div_QQQ(a, b) [] r = "mod_QQQ" -> mod_QQQ(a, b)
      [] r = "neg_QQ" -> neg_QQ(a, b)   [] r = "sub_QQQ" -> sub_QQQ(a, b)
      [] r = "shl_WWW" -> shl_WWW(a, b) [] r = "shr_WWW" -> shr_WWW(a, b)
      [] r = "shr_wwW" -> shr_wwW(a, b) [] r = "shl_LLW" -> shl_LLW(a, b)
      [] r = "shr_LLW" -> shr_LLW(a, b) [] r = "shr_llW" -> shr_llW(a, b)
      [] r = "shl_QQW" -> shl_QQW(a, b) [] r = "shr_QQW" -> shr_QQW(a, b)
      [] r = "shr_qqW" -> shr_qqW(a, b)
      [] OTHER -> [op \in DOMAIN Opcodes |-> cmp_QQ(Opcodes[op], a, b)]

Init ==
    /\ routine \in Routines
    /\ left \in 0..(Radix(Words[routine][1]) - 1)
    /\ rite \in IF Words[routine][2] = 0 THEN 0..(4 * W + 1)
                ELSE 0..(Radix(Words[routine][2]) - 1)
    /\ inplace \in BOOLEAN
    /\ (inplace => Words[routine] = <<4, 0>>)
    /\ called = FALSE /\ out = 0

Call ==
    /\ ~called /\ called' = TRUE
    /\ out' = Answer(routine, left, rite)
    /\ UNCHANGED <<routine, left, rite, inplace>>

Next == Call
Spec == Init /\ [][Next]_vars
-------------------------------------------------------------------------------
Bits == Words[routine][1] * W
SignedLeft == Signed(left, Words[routine][1])
(* C rounds quotients toward zero and the remainder has the dividend's sign. *)
Quotient(x, y) == LET q == (IF x < 0 THEN -x ELSE x) \div (IF y < 0 THEN -y ELSE y)
                  IN IF (x < 0) # (y < 0) THEN -q ELSE q
SignedRite == IF routine \in {"div_wwW", "mod_wwW", "mul_wwW"} THEN rite
              ELSE Signed(rite, Words[routine][2])

(* A quotient and a remainder are those of the operands as numbers, except for
   a divisor of zero, for a signed operand whose magnitude has no word, and for
   a quad divided by a long with its top bit set: __div_QQL loses the carry out
   of the remainder (crtl/library/div_QQL.asm:93). *)
DividesRight ==
    called /\ rite # 0 =>
        /\ routine \in Divisions /\ (routine = "div_QQL" => ~Negative(rite, 2)) =>
             out = left \div rite
        /\ routine \in Remainders => out = left % rite
        /\ routine \in {"div_wwW", "div_www"} =>
             out = Quotient(SignedLeft, SignedRite) % B
        /\ routine \in {"mod_wwW", "mod_www"} =>
             out = (SignedLeft - SignedRite * Quotient(SignedLeft, SignedRite)) % B

(* A product is that of the operands, in the size of the result. *)
MultipliesRight ==
    called =>
        /\ routine \in {"mul_WWW", "mul_wwW", "mul_www"} =>
             out = (left * rite) % B
        /\ routine \in {"mul_LLW", "mul_LWL", "mul_LLL"} => out = (left * rite) % Radix(2)
        /\ routine = "mul_llw" => out = (left * Signed(rite, 1)) % Radix(2)

(* A shift is by the count modulo the number of bits, in place or not; the
   signed ones fill with the sign.  __shl_QQW keeps to that below a word, from
   where on it stores too few words or all of memory (shl_QQW.asm:97-119). *)
ShiftsRight ==
    called =>
        /\ routine \in LeftShifts /\ (routine = "shl_QQW" => rite % Bits < W) =>
             out = (left * 2^(rite % Bits)) % 2^Bits
        /\ routine \in RightShifts => out = left \div 2^(rite % Bits)
        /\ routine \in SignedShifts => out = (SignedLeft \div 2^(rite % Bits)) % 2^Bits

(* The comparison of quads takes exactly the branches that a comparison of the
   whole numbers takes, signed or unsigned, though all words but the first are
   compared unsigned. *)
ComparesRight ==
    called /\ routine = "cmp_QQ" =>
        LET sl == Signed(left, 4)  sr == Signed(rite, 4)
            takes == [blt |-> sl < sr, blo |-> left < rite, bge |-> sl >= sr,
                      bhis |-> left >= rite, ble |-> sl <= sr, blos |-> left <= rite,
                      bgt |-> sl > sr, bhi |-> left > rite,
                      beq |-> left = rite, bne |-> left # rite] IN
        \A op \in DOMAIN Opcodes : (out[op] = 0) = takes[op]

(* A library made for the board and one made for raspictl, that does the same
   by system calls, divide and multiply alike wherever the quotient has a word. *)
HostSame ==
    routine = "div_LLW" =>
        /\ WordOf(left, 1) < rite =>
             udiv(WordOf(left, 1), WordOf(left, 0), rite) = HostUdiv(WordOf(left, 1), WordOf(left, 0), rite)
        /\ umul(left, rite) = HostUmul(left, rite)
===============================================================================
