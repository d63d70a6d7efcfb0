---------------------------- MODULE ShadowCheck ----------------------------
(***************************************************************************)
(* What Shadow::check requires of the processor's pins at the end of a     *)
(* cycle (driver/shadow.cc).  In each state some pins must have a value    *)
(* the model predicts and the others are not looked at; mq is the word the *)
(* memory put on the data pins during the cycle.                           *)
(***************************************************************************)
EXTENDS Shadow, De0

(* States in which the processor addresses memory, takes data from it. *)
ReadStates  == {"FETCH1", "LOAD1", "IRET1", "IRET3"}
WriteStates == {"STORE1", "IREQ1", "IREQ3"}
DataStates  == {"FETCH2", "LOAD2", "IRET2", "IRET4"}

(* check_d, and the data pins of check_g where they are looked at. *)
AluExpected(mq) ==
    CASE state = "RESET1"              -> 0
      [] state = "LOAD2"               -> LoadedWord(ir, mq)
      [] state \in {"IRET2", "IRET4"}   -> mq
      [] state = "ARITH1"              -> alu
      [] OTHER                         -> BeginAlu(state, ir, regs, psw, alu)
AluChecked == state # "RESET0"

(* check_g: the word pin is looked at in memory states, the data pins unless
   the memory drives them. *)
WordExpected  == ~(state \in {"STORE1", "LOAD1"} /\ ByteAccess(ir))
WordChecked   == state \in ReadStates \union WriteStates
DataChecked   == state \notin DataStates \union {"RESET0"}
HaltExpected  == state = "HALT1"
ReadExpected  == state \in ReadStates
WriteExpected == state \in WriteStates

(* check_a *)
AChecked  == state \in { "FETCH1", "FETCH2", "BCC1", "ARITH1", "STORE1", "LDA1",
                         "LOAD1", "LOAD3", "IREQ4" }
AExpected == IF state \in {"ARITH1", "STORE1", "LDA1", "LOAD1"}
             THEN regs[RegA(ir)] ELSE regs[7]

(* check_b *)
BChecked == state # "RESET0"
BExpected(mq) ==
    CASE state \in {"RESET1", "FETCH1", "IREQ4"}  -> 0
      [] state \in {"FETCH2", "LOAD3", "IREQ5"}   -> 2
      [] state = "BCC1"                          -> BrOffset(ir)
      [] state \in {"STORE1", "LDA1", "LOAD1"}    -> LsOffset(ir)
      [] state \in {"ARITH1", "HALT1", "WRPS1"}   -> regs[RegB(ir)]
      [] state = "STORE2"                        -> regs[RegD(ir)]
      [] state = "LOAD2"                         -> LoadedWord(ir, mq)
      [] state \in {"IRET2", "IRET4"}             -> mq
      [] state \in {"IREQ2", "RDPS1"}             -> psw
      [] state \in {"IREQ1", "IRET3"}             -> 65534
      [] state \in {"IREQ3", "IRET1"}             -> 65532

(* check_i: the instruction register is looked at once it has been loaded. *)
IChecked == state \notin { "RESET0", "RESET1", "FETCH1", "IREQ1", "IREQ2", "IREQ3",
                           "IREQ4", "IREQ5" }
IExpected(mq) == IF state = "FETCH2" THEN mq ELSE ir

(* check_c: the control lines that must be on ... *)
AluAdd == {"GPRS_REA7", "ALU_ADD"}
LsAddr == {"GPRS_REA", "BMUX_IRLSOF", "ALU_ADD"}
Minus2 == {"BMUX_CON__4", "BMUX_CON_2", "ALU_BONLY"}
Minus4 == {"BMUX_CON__4", "ALU_BONLY"}
FromMq == {"MEM_REB", "ALU_BONLY"}
Word16 == IF WordExpected THEN {"MEM_WORD"} ELSE {}

ControlExpected ==
    CASE state = "RESET0" -> {}
      [] state = "RESET1" -> {"BMUX_CON_0", "ALU_BONLY", "GPRS_WE7", "PSW_WE", "PSW_IECLR"}
      [] state = "FETCH1" -> AluAdd \union {"BMUX_CON_0", "MEM_READ", "MEM_WORD"}
      [] state = "FETCH2" -> AluAdd \union {"BMUX_CON_2", "GPRS_WE7", "IR_WE"}
      [] state = "BCC1"   -> AluAdd \union {"BMUX_IRBROF"} \union
                             (IF BranchTrue(ir, psw) THEN {"GPRS_WE7", "PSW_BT"} ELSE {})
      [] state = "ARITH1" -> {"GPRS_REA", "GPRS_REB", "ALU_IRFC", "PSW_ALUWE"} \union
                             (IF RegD(ir) # 7 THEN {"GPRS_WED"} ELSE {})
      [] state = "STORE1" -> LsAddr \union {"MEM_WRITE"} \union Word16
      [] state = "STORE2" -> {"GPRS_RED2B", "ALU_BONLY"}
      [] state = "LDA1"   -> LsAddr \union {"GPRS_WED"}
      [] state = "LOAD1"  -> LsAddr \union {"MEM_READ"} \union Word16
      [] state = "LOAD2"  -> FromMq \union {"GPRS_WED"}
      [] state = "LOAD3"  -> AluAdd \union {"BMUX_CON_2", "GPRS_WE7"}
      [] state = "IREQ1"  -> Minus2 \union {"MEM_WRITE", "MEM_WORD"}
      [] state = "IREQ2"  -> {"PSW_REB", "ALU_BONLY"}
      [] state = "IREQ3"  -> Minus4 \union {"MEM_WRITE", "MEM_WORD"}
      [] state = "IREQ4"  -> AluAdd \union {"PSW_IECLR", "BMUX_CON_0"}
      [] state = "IREQ5"  -> {"BMUX_CON_2", "ALU_BONLY", "GPRS_WE7"}
      [] state = "IRET1"  -> Minus4 \union {"MEM_READ", "MEM_WORD"}
      [] state = "IRET2"  -> FromMq \union {"GPRS_WE7"}
      [] state = "IRET3"  -> Minus2 \union {"MEM_READ", "MEM_WORD"}
      [] state = "IRET4"  -> FromMq \union {"PSW_WE"}
      [] state = "HALT1"  -> {"HALT", "GPRS_REB", "ALU_BONLY"}
      [] state = "WRPS1"  -> {"GPRS_REB", "ALU_BONLY", "PSW_WE"}
      [] state = "RDPS1"  -> {"PSW_REB", "ALU_BONLY", "GPRS_WED"}

(* ... and those that are not looked at. *)
ControlIgnored ==
    (IF state = "RESET0" THEN {"ALU_BONLY"} ELSE {})
    \union (IF state \in {"RESET1", "IREQ4", "IREQ5"} THEN {} ELSE {"PSW_IE"})
    \union (IF state = "BCC1" THEN {} ELSE {"PSW_BT"})
    \union (IF WordChecked THEN {} ELSE {"MEM_WORD"})
-----------------------------------------------------------------------------
(***************************************************************************)
(* The pins of the processor as Shadow::check finds them: what the flip-   *)
(* flops and wires of De0 drive, compared with what is expected of them.   *)
(* The operators take the word mq on the MQ bus during the cycle.          *)
(***************************************************************************)

ChecksG(mq) ==
    /\ Ctl("HALT") = HaltExpected
    /\ Ctl("MEM_READ") = ReadExpected
    /\ Ctl("MEM_WRITE") = WriteExpected
    /\ WordChecked => MEM_WORD(IR(mq)) = WordExpected
    /\ DataChecked => MD(mq) = AluExpected(mq)
ChecksA(mq) == AChecked => QA(IR(mq)) = AExpected
ChecksB(mq) == BChecked => alub(IR(mq), mq) = BExpected(mq)
ChecksC(mq) == ControlOn(mq) \ ControlIgnored = ControlExpected \ ControlIgnored
ChecksD(mq) == AluChecked => MD(mq) = AluExpected(mq)
ChecksI(mq) == IChecked => IR(mq) = IExpected(mq)

(* The connectors -chkacid looks at: A, B, C, D and I. *)
ChecksConnectors(mq) ==
    ChecksA(mq) /\ ChecksB(mq) /\ ChecksC(mq) /\ ChecksD(mq) /\ ChecksI(mq)

(* The model and the flip-flops are in the same state. *)
SameState ==
    /\ q = {state}
    /\ rq = regs
    /\ PswOf(ieff, nzvc) = psw
    /\ (IChecked /\ state # "FETCH2") => irlat = ir
=============================================================================
