-------------------------------- MODULE Asm --------------------------------
(***************************************************************************)
(* Instruction words for the programs of the MC modules, laid out as       *)
(* driver/shadow.cc decodes them.                                          *)
(***************************************************************************)
EXTENDS HodeWords, Sequences

Off7(ofs) == ofs % 128                             \* a load or store offset
Lda(d, ofs, a)  == 32768 + 1024 * a + 128 * d + Off7(ofs)
Ldw(d, ofs, a)  == 49152 + 1024 * a + 128 * d + Off7(ofs)
Ldbu(d, ofs, a) == 40960 + 1024 * a + 128 * d + Off7(ofs)
Ldbs(d, ofs, a) == 57344 + 1024 * a + 128 * d + Off7(ofs)
Stw(d, ofs, a)  == 16384 + 1024 * a + 128 * d + Off7(ofs)
Stb(d, ofs, a)  == 24576 + 1024 * a + 128 * d + Off7(ofs)

(* Three-operand arithmetic, by the code in the low four bits. *)
Alu3(op, d, a, b) == 8192 + 1024 * a + 128 * d + 16 * b + op
Com(d, b) == Alu3(7, d, 0, b)
Clr(d)    == Alu3(10, d, 7, 7)                     \* xor d,r7,r7

(* A branch at address at to address to; the condition lies in bits 12..10
   and the sense in bit 0. *)
Bcc(cond, sense, at, to) == cond * 1024 + ((to - at - 2) % 1024) + sense
Br(at, to)  == Bcc(0, 1, at, to)
Beq(at, to) == Bcc(1, 0, at, to)

Halt(b)  == 16 * b
Iret     == 2
Wrps(b)  == 4 + 16 * b
Rdps(d)  == 6 + 128 * d

(* crtl/library/boot.asm, up to where it loads the address of _start. *)
Boot == <<
    Br(0, 32),
    Stw(0, -26, 7), Stw(1, -26, 7), Stw(2, -26, 7),    \* intsaver0 = FFEA ...
    Stw(3, -22, 7), Stw(4, -22, 7), Stw(5, -22, 7),
    Lda(3, 2, 7), Ldw(7, -24, 7),                      \* intserv = FFFA
    Ldw(0, -42, 7), Ldw(1, -42, 7), Ldw(2, -42, 7),
    Ldw(3, -38, 7), Ldw(4, -38, 7), Ldw(5, -38, 7), Iret,
    Lda(0, -16, 7), Stw(0, -42, 7),
    Clr(0), Clr(1), Clr(2), Clr(3), Clr(4), Clr(5), Clr(6) >>

(* A program as memory: its words from address 0 up. *)
Loaded(words) == [a \in {2 * k : k \in 0 .. Len(words) - 1} |-> words[a \div 2 + 1]]
=============================================================================
