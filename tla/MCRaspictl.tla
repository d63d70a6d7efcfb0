----------------------------- MODULE MCRaspictl -----------------------------
(***************************************************************************)
(* Three kinds of runs of raspictl.  Without options: boot.asm with a      *)
(* program that keeps the line clock going, toggles R2, halts when it is   *)
(* not zero, and has a handler that rearms the clock and leaves other      *)
(* registers and flags behind; and a program of byte accesses under        *)
(* requested interrupts.  With -haltstop: short programs, each of which    *)
(* runs into one way the host ends a program, or makes one of the calls    *)
(* the others do not make.  With -randmem: the register loads, then random *)
(* instructions.                                                           *)
(***************************************************************************)
EXTENDS RaspictlHistory, Asm

BootProgram == Loaded(Boot \o <<
    Ldw(7, 0, 7), 54,                   \* 50  ldw pc,#_start
    Ldw(0, 0, 7), 80, Stw(0, -6, 6),    \* 54  intserv = handler
    Ldw(0, 0, 7), 90, Stw(0, -16, 6),   \* 60  IRQATNS
    Ldw(0, 0, 7), 32768, Wrps(0),       \* 66  enable interrupts
    Com(2, 2),                          \* 72  loop
    Beq(74, 72),
    Halt(2),
    Br(78, 72),
    Ldw(0, 0, 7), 90, Stw(0, -16, 6),   \* 80  handler: IRQATNS again
    Clr(2),
    Lda(7, 0, 3),                       \* 88  to intreturn
    8, 94,                              \* 90  SCN_IRQATNS, address of the time
    0, 0, 1, 0 >>)

(* Byte loads and stores, a branch on a borrow, RDPS and a shift, under an
   interrupt the program requests in every round; its handler at 2 keeps R0 in
   FFEA and withdraws the request. *)
BytesProgram == Loaded(<<
    Br(0, 26),
    Stw(0, -26, 7),                     \*  2  handler
    Ldw(0, 0, 7), 14, Stw(0, -26, 7),   \*  4  INTREQ 0
    Ldw(0, -34, 7), Iret,
    2, 0, 2, 1, 33023, 0,               \* 14  parameter blocks; data at 22
    Ldw(0, 0, 7), 32768, Wrps(0),       \* 26  enable interrupts
    Ldw(0, 0, 7), 18, Stw(0, -54, 7),   \* 32  INTREQ 1
    Lda(1, -18, 7),
    Ldbs(2, 1, 1), Ldbu(3, 0, 1),       \* 40
    Stb(2, 3, 1), Stb(3, 2, 1), Ldw(4, 2, 1),
    Alu3(13, 5, 4, 2),                  \* 50  sub r5,r4,r2
    Bcc(4, 0, 52, 56), Halt(5),
    Rdps(6), Alu3(0, 5, 5, 0),          \* 56  lsr r5
    Br(60, 32) >>)

-----------------------------------------------------------------------------
(* A program at 0 that calls the host with a parameter block at 12 and goes on
   at 16.  The magic word FFF0 is 22 below the PC of the store. *)
Calling(block, code, arg, more) ==
    Loaded(<<Ldw(0, 0, 7), block, Stw(0, -22, 7), Br(6, 16), 0, 0, code, arg>> \o more)

Exit        == Calling(12, 0, 7, << >>)
OddBlock    == Calling(13, 0, 7, <<Halt(0)>>)
UnknownCall == Calling(12, 40, 0, <<Halt(0)>>)

(* Requests an interrupt, asks which one is up and reads the answer. *)
Request == Calling(12, 2, 1, <<Ldw(1, 0, 7), 9, Stw(1, -10, 7), Stw(0, -40, 7),
                               Ldw(2, -42, 7), Halt(2)>>)
Negate    == Calling(12, 2, 0, <<Halt(0)>>)
StopClock == Calling(12, 8, 0, <<Halt(0)>>)
StartStop ==                                 \* starts the line clock, then stops it
    Calling(12, 8, 26, <<Clr(1), Ldw(2, -4, 7), Stw(1, -8, 7), Br(22, 28), 0, 1,
                         Ldw(0, 0, 7), 12, Stw(0, -50, 7), Halt(0)>>)

(* Protects 0 .. 16, stores the byte at 17, then the word at 16. *)
Protect == Calling(12, 25, 17, <<Stb(0, -1, 7), Stw(0, -4, 7), Halt(0)>>)

(* Sets the limit with R6 above it, then lets it down to it and below. *)
StackDown ==
    Loaded(<<Ldw(6, 0, 7), 36864, Ldw(0, 0, 7), 14, Stw(0, -26, 7), Br(10, 18), 0,
             26, 36862, Lda(6, -2, 6), Lda(6, -2, 6), Stw(0, 0, 6), Halt(0)>>)

OddLoad     == Loaded(<<Ldw(0, 1, 7), Halt(0)>>)
OddStore    == Loaded(<<Stw(7, 1, 7), Halt(0)>>)
BadOpcode   == Loaded(<<8>>)
BadArith    == Loaded(<<Alu3(3, 0, 7, 7)>>)

Guards ==
    {Exit, OddBlock, UnknownCall, Request, Negate, StopClock, StartStop,
     Protect, StackDown, OddLoad, OddStore, BadOpcode, BadArith}
-----------------------------------------------------------------------------
(* One opcode of each kind is enough for the host, which never looks at them. *)
MCOpcodes ==
    { 1025 + 4,                          \* BNE .+4
      8192 + 1024 + 6 * 128 + 32 + 12,   \* ADD R6,R1,R2
      16384 + 8192 + 1024 + 3 * 128 + 1, \* STB R3,1(R1)
      32768 + 1024 + 2 * 128 + 3,        \* LDA R2,3(R1)
      49152 + 7168 + 128,                \* LDW R1,#...
      0,                                 \* HALT R0
      2,                                 \* IRET
      4 + 16,                            \* WRPS R1
      6 + 256 }                          \* RDPS R2
MCData    == {32769, 4}

MCRuns ==
    [options : {{}}, load : {BootProgram, BytesProgram}]
    \union [options : {{"-haltstop"}}, load : Guards]
    \union [options : {{"-randmem"}}, load : {<< >>}]
MCPowerOn == {[r \in 0 .. 7 |-> 43690 + r]}
-----------------------------------------------------------------------------
(* The interrupt pin and the data that the processor takes are steady when the
   clock rises, a request that stays up while interrupts are enabled is served,
   and none is taken while another is in service. *)
InterruptsTaken == SetupHold /\ Served /\ NoNesting
=============================================================================
