----------------------------- MODULE HodeWords -----------------------------
(***************************************************************************)
(* The 16-bit words that travel on every bus of the computer, as naturals, *)
(* and the bit operations the C++ model and the Verilog both use on them.  *)
(***************************************************************************)
EXTENDS Integers

WordSize == 65536
Word     == 0 .. WordSize - 1

Pow2 == [i \in 0 .. 15 |-> 2 ^ i]

(* Bit i of w, and the same bit as a truth value. *)
Bit(w, i)   == (w \div Pow2[i]) % 2
IsSet(w, i) == Bit(w, i) = 1
Num(b)      == IF b THEN 1 ELSE 0
Eor(x, y)   == ~(x <=> y)

(* The three-bit field whose low-order bit is bit lo: a register number, an
   opcode or a branch condition. *)
Field3(w, lo) == Bit(w, lo) + 2 * Bit(w, lo + 1) + 4 * Bit(w, lo + 2)

FromBits(f) ==
    f[0]         + 2 * f[1]      + 4 * f[2]      + 8 * f[3]
    + 16 * f[4]    + 32 * f[5]     + 64 * f[6]     + 128 * f[7]
    + 256 * f[8]   + 512 * f[9]    + 1024 * f[10]  + 2048 * f[11]
    + 4096 * f[12] + 8192 * f[13]  + 16384 * f[14] + 32768 * f[15]

AndW(a, b) == FromBits([i \in 0 .. 15 |-> Bit(a, i) * Bit(b, i)])
XorW(a, b) == FromBits([i \in 0 .. 15 |-> (Bit(a, i) + Bit(b, i)) % 2])
OrW(a, b)  == FromBits([i \in 0 .. 15 |-> Num(IsSet(a, i) \/ IsSet(b, i))])
Gate(b, w) == IF b THEN w ELSE 0
NotW(a)    == WordSize - 1 - a

(* uint16_t arithmetic wraps around; Signed is the sint16_t reading. *)
AddW(a, b) == (a + b) % WordSize
Signed(w)  == IF w >= 32768 THEN w - WordSize ELSE w

(* ((w & (2s - 1)) ^ s) - s as a uint16_t: the low bits of w up to and
   including the one of weight s, extended with that bit. *)
SextAt(w, s) ==
    LET low == w % (2 * s) IN IF low >= s THEN low + WordSize - 2 * s ELSE low
=============================================================================
