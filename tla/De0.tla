-------------------------------- MODULE De0 --------------------------------
(***************************************************************************)
(* The whole processor in the FPGA: sequencer, register file, status word, *)
(* instruction register latch, B-bus sources and ALU (de0/sys.v and the    *)
(* modules it connects).  Between two clock edges everything but the       *)
(* registers is combinational, so the outputs are operators of the         *)
(* registers and of mq, the word on the MQ bus.                            *)
(*                                                                         *)
(* The sequencer (de0/seq.v) has one flip-flop per state, the instruction  *)
(* decoder and the table of control outputs.  The variable q is the set of *)
(* flip-flops that are set; the flip-flop reset0q is the member "RESET0"   *)
(* of q, and so on, the names the C++ model gives the states.              *)
(***************************************************************************)
EXTENDS HodeWords

CONSTANT IrBus    \* instruction words the IR input may show
ASSUME IrBusAssumption == IrBus \subseteq Word

VARIABLE q

Flops == { "RESET0", "RESET1", "FETCH1", "FETCH2", "BCC1", "ARITH1",
           "STORE1", "STORE2", "LDA1", "LOAD1", "LOAD2", "LOAD3",
           "WRPS1", "RDPS1", "IRET1", "IRET2", "IRET3", "IRET4",
           "HALT1", "IREQ1", "IREQ2", "IREQ3", "IREQ4", "IREQ5" }

On(s)    == s \in q
AnyOf(S) == \E s \in S : s \in q
-----------------------------------------------------------------------------
(* The decoder, on the instruction word i while FETCH2 is set. *)

rdnotpc(i)      == ~(IsSet(i, 7) /\ IsSet(i, 8) /\ IsSet(i, 9))
topthreezero(i) == ~(IsSet(i, 15) \/ IsSet(i, 14) \/ IsSet(i, 13))
specialinstr(i) == ~(IsSet(i, 12) \/ IsSet(i, 11) \/ IsSet(i, 10) \/ IsSet(i, 0))

(* One of the four special instructions, by bits 2 and 1. *)
SpecialD(i, b2, b1) ==
    /\ On("FETCH2") /\ topthreezero(i) /\ specialinstr(i)
    /\ IsSet(i, 2) = b2
    /\ IsSet(i, 1) = b1

halt1d(i)  == SpecialD(i, FALSE, FALSE)
iret1d(i)  == SpecialD(i, FALSE, TRUE)
wrps1d(i)  == SpecialD(i, TRUE, FALSE)
rdps1d(i)  == SpecialD(i, TRUE, TRUE)
bcc1d(i)   == On("FETCH2") /\ topthreezero(i) /\ ~specialinstr(i)
arith1d(i) == On("FETCH2") /\ ~IsSet(i, 15) /\ ~IsSet(i, 14) /\ IsSet(i, 13)
store1d(i) == On("FETCH2") /\ ~IsSet(i, 15) /\ IsSet(i, 14)
lda1d(i)   == On("FETCH2") /\ IsSet(i, 15) /\ ~IsSet(i, 14) /\ ~IsSet(i, 13)
load1d(i)  ==
    \/ On("FETCH2") /\ IsSet(i, 15) /\ IsSet(i, 14)
    \/ On("FETCH2") /\ IsSet(i, 15) /\ ~IsSet(i, 14) /\ IsSet(i, 13)

(* LDx rd,#imm: R7 is the base, the offset is zero and rd is not R7. *)
loadimm(i) ==
    /\ IsSet(i, 12) /\ IsSet(i, 11) /\ IsSet(i, 10)
    /\ rdnotpc(i)
    /\ \A b \in 0 .. 6 : ~IsSet(i, b)
(* Mutant: LOAD3 follows every LOAD2. *)
load3d_always(i) == On("LOAD2")
load2s(i) == On("LOAD2") /\ ~loadimm(i)
load3d(i) == On("LOAD2") /\ loadimm(i)

(* The last cycle of an instruction, and what follows it. *)
LastCycle == { "RESET1", "IRET4", "BCC1", "ARITH1", "STORE2", "LDA1", "IREQ5",
               "WRPS1", "RDPS1", "LOAD3", "HALT1" }
instend(i)            == AnyOf(LastCycle) \/ load2s(i)
irqpend(intrq, pswie) == intrq /\ pswie
-----------------------------------------------------------------------------
(* The D inputs of the flip-flops. *)
Feeds == [ RESET1 |-> "RESET0", FETCH2 |-> "FETCH1", STORE2 |-> "STORE1",
           LOAD2 |-> "LOAD1", IRET2 |-> "IRET1", IRET3 |-> "IRET2",
           IRET4 |-> "IRET3", IREQ2 |-> "IREQ1", IREQ3 |-> "IREQ2",
           IREQ4 |-> "IREQ3", IREQ5 |-> "IREQ4" ]

D(s, i, intrq, pswie) ==
    CASE s \in DOMAIN Feeds -> On(Feeds[s])
      [] s = "RESET0" -> FALSE
      [] s = "IREQ1"  -> irqpend(intrq, pswie) /\ instend(i)
      [] s = "FETCH1" -> ~irqpend(intrq, pswie) /\ instend(i)
      [] s = "ARITH1" -> arith1d(i)
      [] s = "BCC1"   -> bcc1d(i)
      [] s = "LDA1"   -> lda1d(i)
      [] s = "LOAD1"  -> load1d(i)
      [] s = "LOAD3"  -> load3d(i)
      [] s = "STORE1" -> store1d(i)
      [] s = "HALT1"  -> halt1d(i)
      [] s = "IRET1"  -> iret1d(i)
      [] s = "WRPS1"  -> wrps1d(i)
      [] s = "RDPS1"  -> rdps1d(i)

PosedgeClock(i, intrq, pswie) == q' = {s \in Flops : D(s, i, intrq, pswie)}
PosedgeReset == q' = {"RESET0"}
-----------------------------------------------------------------------------
(* The control outputs: the flip-flops that raise each, then the outputs that
   also depend on the instruction register or the branch condition. *)
Microcode ==
    [ ALU_ADD     |-> {"FETCH1", "FETCH2", "BCC1", "STORE1", "LDA1", "LOAD1",
                       "IREQ4", "LOAD3"},
      ALU_IRFC    |-> {"ARITH1"},
      BMUX_CON_0  |-> {"RESET1", "FETCH1", "IREQ4"},
      BMUX_CON_2  |-> {"FETCH2", "IREQ1", "IREQ5", "IRET3", "LOAD3"},
      BMUX_CON__4 |-> {"IRET1", "IRET3", "IREQ1", "IREQ3"},
      BMUX_IRBROF |-> {"BCC1"},
      BMUX_IRLSOF |-> {"STORE1", "LDA1", "LOAD1"},
      GPRS_REA7   |-> {"FETCH1", "FETCH2", "BCC1", "IREQ4", "LOAD3"},
      GPRS_REA    |-> {"ARITH1", "STORE1", "LDA1", "LOAD1"},
      GPRS_REB    |-> {"ARITH1", "WRPS1", "HALT1"},
      GPRS_RED2B  |-> {"STORE2"},
      HALT        |-> {"HALT1"},
      IR_WE       |-> {"FETCH2"},
      MEM_READ    |-> {"FETCH1", "IRET1", "IRET3", "LOAD1"},
      MEM_REB     |-> {"LOAD2", "IRET2", "IRET4"},
      MEM_WRITE   |-> {"IREQ1", "IREQ3", "STORE1"},
      PSW_ALUWE   |-> {"ARITH1"},
      PSW_IECLR   |-> {"RESET1", "IREQ4"},
      PSW_REB     |-> {"IREQ2", "RDPS1"},
      PSW_WE      |-> {"RESET1", "IRET4", "WRPS1"} ]

Ctl(c) == AnyOf(Microcode[c])

ALU_BONLY       == ~(Ctl("ALU_ADD") \/ On("ARITH1"))
MEM_WORD(i)     == ~(AnyOf({"LOAD1", "LOAD2", "STORE1"}) /\ IsSet(i, 13))
GPRS_WE7(pswbt) == \/ AnyOf({"RESET1", "FETCH2", "IREQ5", "IRET2", "LOAD3"})
                   \/ On("BCC1") /\ pswbt
GPRS_WED(i)     == \/ On("ARITH1") /\ rdnotpc(i)
                   \/ AnyOf({"LDA1", "LOAD2", "RDPS1"})
-----------------------------------------------------------------------------
(* The sequencer by itself: every input is free at each rising edge. *)
SeqInit == q = {"RESET0"}
SeqNext ==
    \/ \E i \in IrBus, intrq \in BOOLEAN, pswie \in BOOLEAN :
            PosedgeClock(i, intrq, pswie)
    \/ PosedgeReset
SeqSpec == SeqInit /\ [][SeqNext]_q

(* The state the flip-flops stand for is always one state: decoding, interrupt
   test and the split after LOAD2 never set two flip-flops or none, although
   each D input is a gate of its own (de0/seq.v:103-125, 194-217). *)
OneHot == \E s \in Flops : q = {s}
-----------------------------------------------------------------------------
VARIABLES
    irlat,    \* what the transparent latch holds while IR_WE is low
    rq,       \* the registers r0q .. r7q
    ieff,     \* the interrupt enable flip-flop
    nzvc      \* the flip-flops nff, zff, vff, cff as a record of truth values

de0Vars == <<q, irlat, rq, ieff, nzvc>>

Flags == [n : BOOLEAN, z : BOOLEAN, v : BOOLEAN, c : BOOLEAN]

De0TypeOK ==
    /\ q \subseteq Flops
    /\ irlat \in Word
    /\ rq \in [0 .. 7 -> Word]
    /\ ieff \in BOOLEAN
    /\ nzvc \in Flags

(* The latch is transparent while IR_WE is high. *)
IR(mq) == IF Ctl("IR_WE") THEN mq ELSE irlat
-----------------------------------------------------------------------------
(* psw.v *)
pswq ==
    Gate(Ctl("PSW_REB"),
         32768 * Num(ieff) + 32752 + 8 * Num(nzvc.n) + 4 * Num(nzvc.z)
           + 2 * Num(nzvc.v) + Num(nzvc.c))

(* Mutant: BLT takes the branch on equal as BLE does. *)
btbase_equal(i) ==
    \/ ~IsSet(i, 12) /\ IsSet(i, 11) /\ nzvc.n # nzvc.v
    \/ IsSet(i, 12) /\ ~IsSet(i, 11) /\ nzvc.c
    \/ ~(IsSet(i, 12) /\ IsSet(i, 11)) /\ nzvc.z
    \/ IsSet(i, 12) /\ IsSet(i, 11) /\ ~IsSet(i, 10) /\ nzvc.n
    \/ IsSet(i, 12) /\ IsSet(i, 11) /\ IsSet(i, 10) /\ nzvc.v
btbase(i) ==
    \/ ~IsSet(i, 12) /\ IsSet(i, 11) /\ nzvc.n # nzvc.v
    \/ IsSet(i, 12) /\ ~IsSet(i, 11) /\ nzvc.c
    \/ ~(IsSet(i, 12) /\ IsSet(i, 11)) /\ IsSet(i, 10) /\ nzvc.z
    \/ IsSet(i, 12) /\ IsSet(i, 11) /\ ~IsSet(i, 10) /\ nzvc.n
    \/ IsSet(i, 12) /\ IsSet(i, 11) /\ IsSet(i, 10) /\ nzvc.v
pswbt(i) == IsSet(i, 0) # btbase(i)

(* gprs.v *)
RegAt(i, hi) == 4 * Bit(i, hi) + 2 * Bit(i, hi - 1) + Bit(i, hi - 2)

QA(i) == OrW(Gate(Ctl("GPRS_REA"), rq[RegAt(i, 12)]), Gate(Ctl("GPRS_REA7"), rq[7]))
QB(i) == OrW(Gate(Ctl("GPRS_REB"), rq[RegAt(i, 6)]),
             Gate(Ctl("GPRS_RED2B"), rq[RegAt(i, 9)]))

(* bmux.v *)
irbrof(i) == 64512 * Bit(i, 9) + ((i % 1024) - Bit(i, 0))
irlsof(i) == 65408 * Bit(i, 6) + (i % 128)
bmuxq(i)  ==
    OrW(OrW(Gate(Ctl("BMUX_CON_2"), 2), Gate(Ctl("BMUX_CON__4"), 65532)),
        OrW(Gate(Ctl("BMUX_IRBROF"), irbrof(i)), Gate(Ctl("BMUX_IRLSOF"), irlsof(i))))

(* memrd.v: SEXT is bit 14 of the instruction register. *)
memrdq(i, mq) ==
    LET high == IF MEM_WORD(i) THEN mq \div 256
                ELSE IF IsSet(i, 14) THEN 255 * Bit(mq, 7) ELSE 0
    IN  Gate(Ctl("MEM_REB"), (mq % 256) + 256 * high)

(* sys.v *)
alub(i, mq) == OrW(OrW(bmuxq(i), QB(i)), OrW(memrdq(i, mq), pswq))
-----------------------------------------------------------------------------
(* alu.v, as a function of its input pins. *)
AluV(a, b, cin, add, bonly, irfc, i) ==
    LET Op(S)    == irfc /\ i % 16 \in S
        aena     == add \/ (irfc /\ IsSet(i, 3))
        bnot     == irfc /\ IsSet(i, 0)
        doaddsub == add \/ (irfc /\ IsSet(i, 2))
        doingor  == bonly \/ Op({8})
        doingshr == Op({0, 1, 2, 3})
        andeda   == Gate(aena, a)
        nottedb  == IF bnot THEN NotW(b) ELSE b
        rawcin   == Eor(Op({6, 7}) \/ (Op({14, 15}) /\ cin), bnot)
        sumlo    == (andeda % 32768) + (nottedb % 32768) + Num(rawcin)
        sumhi    == Bit(andeda, 15) + Bit(nottedb, 15) + Bit(sumlo, 15)
        sum      == 32768 * (sumhi % 2) + (sumlo % 32768)
        shrtop   == (IsSet(a, 15) /\ IsSet(i, 0)) \/ (cin /\ IsSet(i, 1))
        shr      == 32768 * Num(shrtop) + a \div 2
        d == OrW(OrW(Gate(doaddsub, sum), Gate(Op({10}), XorW(andeda, b))),
                 OrW(OrW(Gate(Op({9}), AndW(andeda, b)), Gate(doingor, OrW(andeda, b))),
                     Gate(doingshr, shr)))
    IN  [ d |-> d,
          n |-> IsSet(d, 15),
          z |-> d = 0,
          v |-> doaddsub /\ Eor(IsSet(sumlo, 15), sumhi \div 2 = 1),
          c |-> IF ~IsSet(i, 3) /\ ~IsSet(i, 2) THEN IsSet(a, 0)
                ELSE IF IsSet(i, 3) /\ IsSet(i, 2) THEN Eor(sumhi \div 2 = 1, bnot)
                ELSE cin ]

Alu(mq) ==
    LET i == IR(mq)
    IN  AluV(QA(i), alub(i, mq), nzvc.c,
             Ctl("ALU_ADD"), ALU_BONLY, Ctl("ALU_IRFC"), i)
MD(mq) == Alu(mq).d
-----------------------------------------------------------------------------
(* PSW_IECLR clears ieff without waiting for the clock, so ieff reads zero in
   every state that raises it, and the edge that enters such a state, or ends
   it, leaves it zero. *)
Ieclr(flops) == \E s \in Microcode["PSW_IECLR"] : s \in flops

(* A rising edge of CLOCK with i in the instruction register, x from the ALU
   and intrq on INTRQ. *)
De0Edge(i, x, intrq) ==
    /\ PosedgeClock(i, intrq, ieff)
    /\ irlat' = i
    /\ rq' = [r \in 0 .. 7 |->
                IF \/ GPRS_WED(i) /\ RegAt(i, 9) = r
                   \/ r = 7 /\ GPRS_WE7(pswbt(i))
                THEN x.d ELSE rq[r]]
    /\ ieff' = /\ ~Ieclr(q)
               /\ ~Ieclr(q')
               /\ IF Ctl("PSW_WE") THEN IsSet(x.d, 15) ELSE ieff
    /\ nzvc' = IF Ctl("PSW_WE")
               THEN [n |-> IsSet(x.d, 3), z |-> IsSet(x.d, 2),
                     v |-> IsSet(x.d, 1), c |-> IsSet(x.d, 0)]
               ELSE IF Ctl("PSW_ALUWE")
               THEN [n |-> x.n, z |-> x.z, v |-> x.v, c |-> x.c]
               ELSE nzvc

De0Clock(mq, intrq) == De0Edge(IR(mq), Alu(mq), intrq)
-----------------------------------------------------------------------------
(* The status word the flip-flops stand for, and the control pins that are
   asserted while mq is on the MQ bus. *)
PswOf(ie, f) == 32768 * Num(ie) + 32752 + 8 * Num(f.n) + 4 * Num(f.z)
                  + 2 * Num(f.v) + Num(f.c)

Controls == DOMAIN Microcode
ControlOn(mq) ==
    {c \in Controls : Ctl(c)}
    \union (IF ALU_BONLY THEN {"ALU_BONLY"} ELSE {})
    \union (IF MEM_WORD(IR(mq)) THEN {"MEM_WORD"} ELSE {})
    \union (IF GPRS_WE7(pswbt(IR(mq))) THEN {"GPRS_WE7"} ELSE {})
    \union (IF GPRS_WED(IR(mq)) THEN {"GPRS_WED"} ELSE {})
    \union (IF ieff THEN {"PSW_IE"} ELSE {})
    \union (IF pswbt(IR(mq)) THEN {"PSW_BT"} ELSE {})
=============================================================================
