------------------------------- MODULE MCBoards -------------------------------
(***************************************************************************)
(* The processor boards De0 in the simulator, with memory and calls given  *)
(* by NetSim.                                                              *)
(***************************************************************************)
EXTENDS Asm, NetSim
-------------------------------------------------------------------------------
(* A program with interrupts, byte accesses and calls to the simulator.  The
   handler at 2 keeps R0 in FFEA and withdraws the request.  The main program
   asks for it once, and exits or halts as R2 says. *)
MainProgram(r2) == Loaded(<<
    Br(0, 30),
    Stw(0, -26, 7),                     \*  2  handler
    Ldw(0, 0, 7), 14, Stw(0, -26, 7),   \*  4  M_INTREQ 0
    Ldw(0, -34, 7), Iret,
    2, 0, 2, 1, 33023, 0,               \* 14  parameter blocks; data at 22
    0, 1,                               \* 26  M_EXIT 1
    Ldw(0, 0, 7), 32768, Wrps(0),       \* 30  enable interrupts
    Ldw(0, 0, 7), 18, Stw(0, -58, 7),   \* 36  M_INTREQ 1
    Lda(1, -22, 7),                     \* 42
    Ldbs(2, 1, 1), Ldbu(3, 0, 1),       \* 44
    Stb(2, 3, 1), Stb(3, 2, 1), Ldw(4, 2, 1),
    Alu3(13, 5, 4, 2),                  \* 54
    Bcc(4, 0, 56, 60), Rdps(6),
    Ldw(2, 0, 7), r2,                   \* 60
    Alu3(4, 2, 0, 2), Beq(66, 70), Halt(2),
    Ldw(0, 0, 7), 26,                   \* 70  M_EXIT
    Ldw(6, 0, 7), 65520, Stw(0, 0, 6) >>)

(* An opcode there is none of, and a parameter block at the end of memory. *)
BadSpecial == Loaded(<<Rdps(1), 8>>)
EndBlock   == Loaded(<<Ldw(0, 0, 7), 65534, Stw(0, -22, 7)>>)

(* A handler that enables interrupts and returns with the request up. *)
EarlyIret == Loaded(<<
    Br(0, 14), Ldw(0, 0, 7), 32768, Wrps(0), Iret,
    2, 1,                               \* 10  M_INTREQ 1
    Ldw(0, 0, 7), 32768, Wrps(0),       \* 14
    Ldw(0, 0, 7), 10, Stw(0, -42, 7), Lda(1, -20, 7), Lda(1, -22, 7) >>)

MCPrograms == {MainProgram(0), MainProgram(1), BadSpecial, EndBlock, EarlyIret}
MCPowerOn == {[r \in 0 .. 7 |-> 43690 + r]}
===============================================================================
