------------------------------- MODULE Shadow -------------------------------
(***************************************************************************)
(* The cycle-by-cycle model of the processor that raspictl runs beside the *)
(* real one (driver/shadow.cc).  Shadow::clock is called once per rising   *)
(* edge of the clock with the word mq the memory sent during the cycle     *)
(* that ends and the level irq of the interrupt line; it performs the end  *)
(* of the current state, moves to the next one and computes what the ALU   *)
(* shows in it.  One action below per case of its switch.                  *)
(***************************************************************************)
EXTENDS HodeWords

VARIABLES
    state,    \* the state of the sequencer
    ir,       \* the instruction register
    regs,     \* R0 .. R7, R7 is the program counter
    psw,      \* the processor status word: IE in bit 15, NZVC in bits 3 .. 0
    alu,      \* what the ALU shows during the current state
    newpsw,   \* the status word ARITH1 loads
    fatal     \* Shadow::puque has been called

shadowVars == <<state, ir, regs, psw, alu, newpsw, fatal>>

States == { "RESET0", "RESET1", "FETCH1", "FETCH2", "BCC1", "ARITH1",
            "STORE1", "STORE2", "LDA1", "LOAD1", "LOAD2", "LOAD3",
            "WRPS1", "RDPS1", "IRET1", "IRET2", "IRET3", "IRET4",
            "HALT1", "IREQ1", "IREQ2", "IREQ3", "IREQ4", "IREQ5" }

RegA(i) == Field3(i, 10)
RegB(i) == Field3(i, 4)
RegD(i) == Field3(i, 7)

ShadowTypeOK ==
    /\ state \in States
    /\ ir \in Word
    /\ regs \in [0 .. 7 -> Word]
    /\ psw \in Word
    /\ alu \in Word
    /\ newpsw \in Word
    /\ fatal \in BOOLEAN

-----------------------------------------------------------------------------
(* Helpers of Shadow::clock. *)

IrqEnabled(p) == IsSet(p, 15)

EndOfInst(irq) == IF irq /\ IrqEnabled(psw) THEN "IREQ1" ELSE "FETCH1"

(* newpsw | 0x7FF0 *)
LoadPsw(w) == 32768 * Bit(w, 15) + 32752 + (w % 16)

(* The condition of a branch, before bit 0 inverts it. *)
BranchBase(i, p) ==
    LET N == IsSet(p, 3)
        Z == IsSet(p, 2)
        V == IsSet(p, 1)
        C == IsSet(p, 0)
        cond == Field3(i, 10)
    IN  \/ cond = 1 /\ Z
        \/ cond = 2 /\ N # V
        \/ cond = 3 /\ (N # V \/ Z)
        \/ cond = 4 /\ C
        \/ cond = 5 /\ (C \/ Z)
        \/ cond = 6 /\ N
        \/ cond = 7 /\ V
BranchTrue(i, p) == BranchBase(i, p) # IsSet(i, 0)

(* The sign-extended offsets of a branch and of a load or store. *)
BrOffset(i) == SextAt(i - Bit(i, 0), 512)
LsOffset(i) == SextAt(i, 64)

ByteAccess(i) == IsSet(i, 13)

(* What LOAD2 writes: a word, a zero-extended or a sign-extended byte. *)
LoadedWord(i, mq) ==
    IF ~ByteAccess(i) THEN mq
    ELSE IF IsSet(i, 14) THEN SextAt(mq, 128)
    ELSE mq % 256

(* LDx rd,#imm is a load through R7 with a zero offset.  Mutant: also when it
   loads the program counter. *)
LoadImmediate_intoPC(i) == i % 128 = 0 /\ RegA(i) = 7
LoadImmediate(i) == i % 128 = 0 /\ RegA(i) = 7 /\ RegD(i) # 7

(* The state FETCH2 goes to, or "bad" for an opcode shadow.cc refuses. *)
Special(i)      == Field3(i, 10) = 0 /\ ~IsSet(i, 0)
SpecialState(i) ==
    CASE Field3(i, 1) = 0 -> "HALT1"
      [] Field3(i, 1) = 1 -> "IRET1"
      [] Field3(i, 1) = 2 -> "WRPS1"
      [] Field3(i, 1) = 3 -> "RDPS1"
      [] OTHER            -> "bad"
Decode(i) ==
    CASE Field3(i, 13) = 0         -> IF Special(i) THEN SpecialState(i) ELSE "BCC1"
      [] Field3(i, 13) = 1         -> "ARITH1"
      [] Field3(i, 13) \in {2, 3}  -> "STORE1"
      [] Field3(i, 13) = 4         -> "LDA1"
      [] Field3(i, 13) \in 5 .. 7  -> "LOAD1"
-----------------------------------------------------------------------------
(* The arithmetic instructions: the result and the status word. *)

AluOp(i)  == i % 16
BadAlu(i) == AluOp(i) \in {3, 11}

Overflow(v) == v < -32768 \/ v > 32767

(* The carry that takes part: ADC and SBB. *)
CarryUsed(i, p) == IF AluOp(i) \in {14, 15} THEN Bit(p, 0) ELSE 0

ArithResult(i, a, b, p) ==
    LET op == AluOp(i)
        sa == Signed(a)
        sb == Signed(b)
        c  == CarryUsed(i, p)
    IN  CASE op = 0 -> a \div 2
          [] op = 1 -> (sa \div 2) % WordSize
          [] op = 2 -> a \div 2 + 32768 * Bit(p, 0)
          [] op = 4 -> b
          [] op = 5 -> (-sb) % WordSize
          [] op = 6 -> AddW(b, 1)
          [] op = 7 -> NotW(b)
          [] op = 8 -> OrW(a, b)
          [] op = 9 -> AndW(a, b)
          [] op = 10 -> XorW(a, b)
          [] op \in {12, 14} -> (sa + sb + c) % WordSize
          [] op \in {13, 15} -> (sa - sb - c) % WordSize

(* newv *)
ArithOverflow(i, a, b, p) ==
    LET op == AluOp(i)
        sa == Signed(a)
        sb == Signed(b)
        c  == CarryUsed(i, p)
    IN  \/ op = 5 /\ Overflow(-sb)
        \/ op = 6 /\ Overflow(sb + 1)
        \/ op \in {12, 14} /\ Overflow(sa + sb + c)
        \/ op \in {13, 15} /\ Overflow(sa - sb - c)

(* newc *)
ArithCarry(i, a, b, p) ==
    LET op == AluOp(i)
        c  == CarryUsed(i, p)
    IN  CASE op \in {0, 1, 2}   -> a % 2
          [] op \in {12, 14} -> Num(a + b + c >= WordSize)
          [] op \in {13, 15} -> Num(a < b + c)
          [] OTHER           -> Bit(p, 0)

Arith(i, a, b, p) ==
    LET res == ArithResult(i, a, b, p)
    IN  [res |-> res,
         psw |-> 32768 * Bit(p, 15) + 8 * Bit(res, 15) + 4 * Num(res = 0)
                   + 2 * Num(ArithOverflow(i, a, b, p)) + ArithCarry(i, a, b, p)]
-----------------------------------------------------------------------------
(* The second switch of Shadow::clock, "at beginning of state": what the ALU
   shows in state s given the registers as the edge left them. *)
Address(i, r) == AddW(r[RegA(i)], LsOffset(i))

BeginAlu(s, i, r, p, old) ==
    CASE s \in {"FETCH1", "IREQ4"}        -> r[7]
      [] s \in {"FETCH2", "LOAD3"}        -> AddW(r[7], 2)
      [] s = "BCC1"                       -> AddW(r[7], BrOffset(i))
      [] s = "ARITH1"                     ->
            IF BadAlu(i) THEN old ELSE Arith(i, r[RegA(i)], r[RegB(i)], p).res
      [] s \in {"STORE1", "LDA1", "LOAD1"} -> Address(i, r)
      [] s = "STORE2"                     -> r[RegD(i)]
      [] s \in {"WRPS1", "HALT1"}         -> r[RegB(i)]
      [] s \in {"RDPS1", "IREQ2"}         -> p
      [] s \in {"IRET1", "IREQ3"}         -> 65532
      [] s \in {"IRET3", "IREQ1"}         -> 65534
      [] s = "IREQ5"                      -> 2
      [] OTHER                            -> old

Begin ==
    /\ alu' = BeginAlu(state', ir', regs', psw', alu)
    /\ newpsw' = IF state' = "ARITH1" /\ ~BadAlu(ir')
                 THEN Arith(ir', regs'[RegA(ir')], regs'[RegB(ir')], psw').psw
                 ELSE newpsw
    /\ fatal' = (state' = "ARITH1" /\ BadAlu(ir'))
-----------------------------------------------------------------------------
(* The first switch, "at end of state": one action per case. *)

SetReg(r, w) == regs' = [regs EXCEPT ![r] = w]

(* States that only lead to the next one. *)
Onward == [RESET0 |-> "RESET1", FETCH1 |-> "FETCH2", STORE1 |-> "STORE2",
           LOAD1 |-> "LOAD2", IRET1 |-> "IRET2", IRET3 |-> "IRET4",
           IREQ1 |-> "IREQ2", IREQ2 |-> "IREQ3", IREQ4 |-> "IREQ5"]

EndOnward ==
    /\ state \in DOMAIN Onward
    /\ state' = Onward[state]
    /\ UNCHANGED <<ir, regs, psw>>

EndReset1 ==
    /\ state = "RESET1"
    /\ SetReg(7, 0)
    /\ psw' = LoadPsw(0)
    /\ state' = "FETCH1"
    /\ UNCHANGED ir

EndFetch2(mq) ==
    /\ state = "FETCH2"
    /\ Decode(mq) # "bad"
    /\ SetReg(7, alu)
    /\ ir' = mq
    /\ state' = Decode(mq)
    /\ UNCHANGED psw

EndBcc1(irq) ==
    /\ state = "BCC1"
    /\ IF BranchTrue(ir, psw) THEN SetReg(7, alu) ELSE UNCHANGED regs
    /\ state' = EndOfInst(irq)
    /\ UNCHANGED <<ir, psw>>

(* The condition codes are loaded before the interrupt test, which looks only
   at IE, that ARITH1 copies from the old status word. *)
EndArith1(irq) ==
    /\ state = "ARITH1"
    /\ IF RegD(ir) # 7 THEN SetReg(RegD(ir), alu) ELSE UNCHANGED regs
    /\ psw' = LoadPsw(newpsw)
    /\ state' = IF irq /\ IrqEnabled(psw') THEN "IREQ1" ELSE "FETCH1"
    /\ UNCHANGED ir

EndStore2OrHalt1(irq) ==
    /\ state \in {"STORE2", "HALT1"}
    /\ state' = EndOfInst(irq)
    /\ UNCHANGED <<ir, regs, psw>>

EndLda1OrRdps1(irq) ==
    /\ state \in {"LDA1", "RDPS1"}
    /\ SetReg(RegD(ir), alu)
    /\ state' = EndOfInst(irq)
    /\ UNCHANGED <<ir, psw>>

EndLoad2(mq, irq) ==
    /\ state = "LOAD2"
    /\ SetReg(RegD(ir), LoadedWord(ir, mq))
    /\ state' = IF LoadImmediate(ir) THEN "LOAD3" ELSE EndOfInst(irq)
    /\ UNCHANGED <<ir, psw>>

EndLoad3(irq) ==
    /\ state = "LOAD3"
    /\ SetReg(7, alu)
    /\ state' = EndOfInst(irq)
    /\ UNCHANGED <<ir, psw>>

(* The interrupt test sees the status word from before the write. *)
EndWrps1(irq) ==
    /\ state = "WRPS1"
    /\ state' = EndOfInst(irq)
    /\ psw' = LoadPsw(alu)
    /\ UNCHANGED <<ir, regs>>

EndIret2(mq) ==
    /\ state = "IRET2"
    /\ SetReg(7, mq)
    /\ state' = "IRET3"
    /\ UNCHANGED <<ir, psw>>

EndIret4(mq, irq) ==
    /\ state = "IRET4"
    /\ state' = EndOfInst(irq)
    /\ psw' = LoadPsw(mq)
    /\ UNCHANGED <<ir, regs>>

EndIreq3 ==
    /\ state = "IREQ3"
    /\ psw' = psw % 32768
    /\ state' = "IREQ4"
    /\ UNCHANGED <<ir, regs>>

EndIreq5 ==
    /\ state = "IREQ5"
    /\ SetReg(7, alu)
    /\ state' = "FETCH1"
    /\ UNCHANGED <<ir, psw>>

EndOfState(mq, irq) ==
    \/ EndOnward
    \/ EndReset1
    \/ EndFetch2(mq)
    \/ EndBcc1(irq)
    \/ EndArith1(irq)
    \/ EndStore2OrHalt1(irq)
    \/ EndLda1OrRdps1(irq)
    \/ EndLoad2(mq, irq)
    \/ EndLoad3(irq)
    \/ EndWrps1(irq)
    \/ EndIret2(mq)
    \/ EndIret4(mq, irq)
    \/ EndIreq3
    \/ EndIreq5

(* An undefined special opcode stops the model before the next state. *)
Puque(mq) ==
    /\ state = "FETCH2"
    /\ Decode(mq) = "bad"
    /\ SetReg(7, alu)
    /\ ir' = mq
    /\ fatal' = TRUE
    /\ UNCHANGED <<state, psw, alu, newpsw>>

Clock(mq, irq) ==
    \/ EndOfState(mq, irq) /\ Begin
    \/ Puque(mq)

(* static Shadow shadow, then Shadow::reset (). *)
ShadowInit ==
    /\ state = "RESET0"
    /\ ir = 0
    /\ regs = [r \in 0 .. 7 |-> 0]
    /\ psw = 0
    /\ alu = 0
    /\ newpsw = 0
    /\ fatal = FALSE
=============================================================================
