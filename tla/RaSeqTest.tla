------------------------------- MODULE RaSeqTest -------------------------------
(***************************************************************************)
(* driver/raseqtest.cc: random instructions and interrupt requests sent    *)
(* through a stack of boards, which the tester follows cycle by cycle and  *)
(* looks at through the paddles.  The boards are the processor of module   *)
(* De0.  A paddle pulls bits of the A and B buses down: it stands in for a *)
(* register board that is not plugged in, and grounds a register that      *)
(* still holds what it powered up with.  The ALU boards are in (-alu).     *)
(*                                                                         *)
(* The tester's pswmask never leaves FFFF: each state that loads the       *)
(* status word has a B operand it knows.                                   *)
(*                                                                         *)
(* Two of the tester's comparisons are of wires that De0 does not have and  *)
(* are left out: the raw carry, overflow and shift outputs of the ALU       *)
(* boards on connector D (raseqtest.cc:595, for the pins that 867 adds),    *)
(* and the complement of the instruction register on connector I (627).     *)
(***************************************************************************)
EXTENDS De0

CONSTANTS
    Benches,        \* command lines and stacks: see BenchAssumption
    RandOperands,   \* what rand gives for an operand
    StackPowerOn    \* what the registers may hold at first

ASSUME BenchAssumption ==
    /\ \A b \in Benches : /\ b.hasregs \subseteq 0 .. 7   \* the register boards plugged in
                         /\ b.opcodes \subseteq Word      \* what rand gives for one
                         /\ b.iterations \in Nat          \* of a pass, 1000 in the code
                         /\ b.passes \in Nat              \* bound on the passes of -loop
    /\ RandOperands \subseteq Word
    /\ StackPowerOn \subseteq [0 .. 7 -> Word]

VARIABLES
    bench,
    st,                     \* the state that has been verified last
    opcode, memreaddata, memreadpend, girq,
    pswbits, pswie, regvalues, regknowns,
    vfya, vfyb, vfyd,       \* what the buses must show when the cycle ends
    vfyireoc,
    pada, padb,             \* what the paddles put on the buses
    iter, passno, errors

testVars == <<de0Vars, bench, st, opcode, memreaddata, memreadpend, girq, pswbits, pswie, regvalues,
              regknowns, vfya, vfyb, vfyd, vfyireoc, pada, padb, iter, passno, errors>>

hasregs == bench.hasregs
NotChecked == -1
Ones == WordSize - 1
rdOf(i) == Field3(i, 7)
Imm(i) == i % 128 = 0 /\ Field3(i, 10) = 7 /\ rdOf(i) # 7
-------------------------------------------------------------------------------
(* The ST_ macros: the outputs each state must assert, apart from those that
   depend on the instruction, and those that are not looked at. *)
ST ==
    [ RESET0 |-> {},
      RESET1 |-> {"BMUX_CON_0", "ALU_BONLY", "GPRS_WE7", "PSW_WE", "PSW_IECLR"},
      FETCH1 |-> {"GPRS_REA7", "BMUX_CON_0", "ALU_ADD", "MEM_READ", "MEM_WORD"},
      FETCH2 |-> {"GPRS_REA7", "BMUX_CON_2", "ALU_ADD", "GPRS_WE7", "IR_WE"},
      BCC1   |-> {"GPRS_REA7", "BMUX_IRBROF", "ALU_ADD"},
      ARITH1 |-> {"GPRS_REA", "GPRS_REB", "ALU_IRFC", "PSW_ALUWE"},
      STORE1 |-> {"GPRS_REA", "BMUX_IRLSOF", "ALU_ADD", "MEM_WRITE"},
      STORE2 |-> {"GPRS_RED2B", "ALU_BONLY"},
      LDA1   |-> {"GPRS_REA", "BMUX_IRLSOF", "ALU_ADD", "GPRS_WED"},
      LOAD1  |-> {"GPRS_REA", "BMUX_IRLSOF", "ALU_ADD", "MEM_READ"},
      LOAD2  |-> {"MEM_REB", "ALU_BONLY", "GPRS_WED"},
      LOAD3  |-> {"GPRS_REA7", "BMUX_CON_2", "ALU_ADD", "GPRS_WE7"},
      IREQ1  |-> {"BMUX_CON__4", "BMUX_CON_2", "ALU_BONLY", "MEM_WRITE", "MEM_WORD"},
      IREQ2  |-> {"PSW_REB", "ALU_BONLY"},
      IREQ3  |-> {"BMUX_CON__4", "ALU_BONLY", "MEM_WRITE", "MEM_WORD"},
      IREQ4  |-> {"PSW_IECLR", "GPRS_REA7", "BMUX_CON_0", "ALU_ADD"},
      IREQ5  |-> {"BMUX_CON_2", "ALU_BONLY", "GPRS_WE7"},
      HALT1  |-> {"HALT", "GPRS_REB", "ALU_BONLY"},
      IRET1  |-> {"BMUX_CON__4", "ALU_BONLY", "MEM_READ", "MEM_WORD"},
      IRET2  |-> {"MEM_REB", "MEM_WORD", "ALU_BONLY", "GPRS_WE7"},
      IRET3  |-> {"BMUX_CON__4", "BMUX_CON_2", "ALU_BONLY", "MEM_READ", "MEM_WORD"},
      IRET4  |-> {"MEM_REB", "MEM_WORD", "ALU_BONLY", "PSW_WE"},
      WRPS1  |-> {"GPRS_REB", "ALU_BONLY", "PSW_WE"},
      RDPS1  |-> {"PSW_REB", "ALU_BONLY", "GPRS_WED"} ]

WordMatters == { "FETCH1", "STORE1", "LOAD1", "LOAD2", "IREQ1", "IREQ3",
                 "IRET1", "IRET2", "IRET3", "IRET4" }

Ignored(s) ==
    {"PSW_BT"}
    \cup (IF s \in {"RESET1", "IREQ4", "IREQ5"} THEN {} ELSE {"PSW_IE"})
    \cup (IF s \in WordMatters THEN {} ELSE {"MEM_WORD"})
    \cup (IF s = "RESET0" THEN {"ALU_BONLY"} ELSE {})

(* The control outputs are compared on connector C, and some of them again on the
   pins of the host. *)
HostPins == {"HALT", "MEM_READ", "MEM_WORD", "MEM_WRITE"}
LinesWrong(s, on, e) ==
    \/ on \ Ignored(s) # e \ Ignored(s)
    \/ (on \cap HostPins) \ Ignored(s) # (e \cap HostPins) \ Ignored(s)

branchtrue(bop, psw) ==
    LET n == IsSet(psw, 3)  z == IsSet(psw, 2)  v == IsSet(psw, 1)  c == IsSet(psw, 0)
        cond == [k \in 0 .. 7 |->
                   CASE k = 0 -> FALSE [] k = 1 -> z [] k = 2 -> n # v [] k = 3 -> n # v \/ z
                     [] k = 4 -> c [] k = 5 -> c \/ z [] k = 6 -> n [] k = 7 -> v]
    IN  cond[Field3(bop, 10)] # IsSet(bop, 0)

Expected(s, op, psw) ==
    ST[s] \cup
      CASE s = "BCC1" /\ branchtrue(op, psw)                  -> {"GPRS_WE7"}
        [] s = "ARITH1" /\ rdOf(op) # 7                       -> {"GPRS_WED"}
        [] s \in {"STORE1", "LOAD1", "LOAD2"} /\ ~IsSet(op, 13) -> {"MEM_WORD"}
        [] OTHER                                              -> {}

(* How the switch of main goes on from a state inside an instruction. *)
Follow == [ RESET0 |-> "RESET1", FETCH1 |-> "FETCH2", STORE1 |-> "STORE2",
            LOAD1 |-> "LOAD2", IRET1 |-> "IRET2", IRET2 |-> "IRET3", IRET3 |-> "IRET4",
            IREQ1 |-> "IREQ2", IREQ2 |-> "IREQ3", IREQ3 |-> "IREQ4", IREQ4 |-> "IREQ5" ]

First(op) ==
    CASE Field3(op, 13) = 0 /\ (Field3(op, 10) # 0 \/ IsSet(op, 0)) -> "BCC1"
      [] Field3(op, 13) = 0 /\ Field3(op, 10) = 0 /\ ~IsSet(op, 0) ->
            <<"HALT1", "IRET1", "WRPS1", "RDPS1">>[(Field3(op, 1) % 4) + 1]
      [] Field3(op, 13) = 1        -> "ARITH1"
      [] Field3(op, 13) \in {2, 3} -> "STORE1"
      [] Field3(op, 13) = 4        -> "LDA1"
      [] Field3(op, 13) \in 5 .. 7 -> "LOAD1"

InstructionEnds ==
    st \notin DOMAIN Follow \cup {"FETCH2", "IREQ5"} /\ ~(st = "LOAD2" /\ Imm(opcode))
-------------------------------------------------------------------------------
(* ALU8::compute for C_ALU_IRFC, and the two of them as verifystate joins them. *)
ALU8(ain, bin, cin, shrin, i) ==
    LET shr  == ~IsSet(i, 3) /\ ~IsSet(i, 2)
        a    == IF IsSet(i, 3) \/ shr THEN ain ELSE 0
        b    == IF IsSet(i, 0) /\ IsSet(i, 2) THEN 255 - bin ELSE bin
        sum  == a + b + Num(cin)
        dout == CASE IsSet(i, 2) -> sum % 256
                  [] i % 16 = 8  -> OrW(a, b)
                  [] i % 16 = 9  -> AndW(a, b)
                  [] i % 16 = 10 -> XorW(a, b)
                  [] shr         -> 128 * Num(shrin) + a \div 2
                  [] OTHER       -> 0
    IN  [dout |-> dout, cout |-> sum > 255, vout |-> (a % 128) + (b % 128) + Num(cin) > 127,
         shrout |-> a % 2]

Computed(i, a, b, psw) ==
    LET c     == IsSet(psw, 0)
        shrin == (IsSet(a, 15) /\ IsSet(i, 0)) \/ (c /\ IsSet(i, 1))
        bnot  == IsSet(i, 2) /\ IsSet(i, 0)
        cin   == bnot # (IsSet(i, 2) /\ IsSet(i, 1) /\ (c \/ ~IsSet(i, 3)))
        lo    == ALU8(a % 256, b % 256, cin, (a \div 256) % 2 = 1, i)
        hi    == ALU8(a \div 256, b \div 256, lo.cout, shrin, i)
    IN  [d |-> 256 * hi.dout + lo.dout, cout |-> hi.cout, vout |-> hi.vout, shrout |-> lo.shrout]

computenzvc_keepc(i, x, psw) ==
    (psw - (psw % 16)) + (IF x.d >= 32768 THEN 8 ELSE 0) + (IF x.d = 0 THEN 4 ELSE 0)
      + (IF IsSet(i, 2) /\ x.vout # x.cout THEN 2 ELSE 0) + (psw % 2)
computenzvc(i, x, psw) ==
    (psw - (psw % 16)) + (IF x.d >= 32768 THEN 8 ELSE 0) + (IF x.d = 0 THEN 4 ELSE 0)
      + (IF IsSet(i, 2) /\ x.vout # x.cout THEN 2 ELSE 0)
      + CASE (i % 16) \div 4 = 0 -> x.shrout
          [] (i % 16) \div 4 = 3 -> Num((IsSet(i, 2) /\ IsSet(i, 0)) # x.cout)
          [] OTHER               -> psw % 2
-------------------------------------------------------------------------------
(* The boards, with the paddles plugged in.  mqbus is on the MQ bus. *)
mqbus == IF memreadpend THEN memreaddata ELSE Ones

OnBus(board, quiet, paddle) == AndW(IF quiet THEN Ones ELSE board, paddle)

Absent(line, r) == Ctl(line) /\ r \notin hasregs

ABus(i) == OnBus(QA(i), Absent("GPRS_REA", RegAt(i, 12)) \/ Absent("GPRS_REA7", 7), pada)
BBus(i) == OnBus(alub(i, mqbus),
                 Absent("GPRS_REB", RegAt(i, 6)) \/ Absent("GPRS_RED2B", RegAt(i, 9)), padb)
BoardAlu ==
    LET i == IR(mqbus)
    IN  AluV(ABus(i), BBus(i), nzvc.c, Ctl("ALU_ADD"), ALU_BONLY, Ctl("ALU_IRFC"), i)

(* The D bus is on the pins of the host too unless these carry what it sends. *)
G_DENA == ~memreadpend
MdPins == BoardAlu.d

(* What stepstate compares before it raises the clock. *)
EndsWrong ==
    \/ vfya # NotChecked /\ ABus(IR(mqbus)) # vfya
    \/ vfyb # NotChecked /\ BBus(IR(mqbus)) # vfyb
    \/ vfyd # NotChecked /\ BoardAlu.d # vfyd
    \/ vfyd # NotChecked /\ G_DENA /\ MdPins # vfyd
    \/ vfyireoc /\ IR(mqbus) # opcode
-------------------------------------------------------------------------------
(* verifystate, right after the clock has dropped in state s: x and y are what
   rand gives for an operand of the A and of the B bus. *)
Operand(r, random) ==
    IF r \notin hasregs THEN random ELSE IF regknowns[r] THEN regvalues[r] ELSE 0
Driven(r) == r \in hasregs /\ regknowns[r]

Constant(e, i) ==
    CASE "BMUX_IRLSOF" \in e -> SextAt(i, 64)
      [] "BMUX_IRBROF" \in e -> SextAt(i - (i % 2), 512)
      [] OTHER -> OrW(Gate("BMUX_CON_2" \in e, 2), Gate("BMUX_CON__4" \in e, Ones - 3))

Verify(s, op, x, y) ==
    LET e     == Expected(s, op, pswbits)
        psw1  == IF "PSW_IECLR" \in e THEN pswbits % 32768 ELSE pswbits
        ran   == IF "GPRS_REA" \in e THEN Field3(op, 10) ELSE 7
        areg  == e \cap {"GPRS_REA", "GPRS_REA7"} # {}
        rbn   == IF "GPRS_REB" \in e THEN Field3(op, 4) ELSE rdOf(op)
        breg  == e \cap {"GPRS_REB", "GPRS_RED2B"} # {}
        bread == "MEM_REB" \in e
        bknown == "PSW_REB" \notin e /\ s # "RESET0"
        avalue == Operand(ran, x)
        bvalue == CASE breg  -> Operand(rbn, y)
                    [] bread -> (IF "MEM_WORD" \in e THEN y
                                 ELSE IF IsSet(op, 14) THEN SextAt(y, 128) ELSE y % 256)
                    [] OTHER -> Constant(e, op)
        alu    == Computed(op, avalue, bvalue, psw1)
        dvalue == CASE ~bknown           -> 0
                    [] "ALU_IRFC" \in e  -> alu.d
                    [] "ALU_ADD" \in e   -> AddW(avalue, bvalue)
                    [] OTHER             -> bvalue
        rdn    == IF "GPRS_WED" \in e THEN rdOf(op) ELSE 7
    IN  /\ st' = s /\ opcode' = op
        /\ pada' = IF areg /\ ~Driven(ran) THEN avalue ELSE Ones
        /\ vfya' = IF areg /\ Driven(ran) THEN avalue ELSE NotChecked
        /\ padb' = IF breg /\ ~Driven(rbn) THEN bvalue ELSE Ones
        /\ vfyb' = IF bknown /\ (~breg \/ Driven(rbn)) THEN bvalue ELSE NotChecked
        /\ vfyd' = IF bknown THEN dvalue ELSE NotChecked
        /\ memreadpend' = (bread \/ "IR_WE" \in e)
        /\ memreaddata' = IF "IR_WE" \in e THEN op ELSE IF bread THEN y ELSE memreaddata
        /\ vfyireoc' = (s \in {"FETCH2"} \/ (vfyireoc /\ s # "FETCH1"))
        /\ IF e \cap {"GPRS_WED", "GPRS_WE7"} # {}
             THEN /\ regvalues' = [regvalues EXCEPT ![rdn] = dvalue]
                  /\ regknowns' = [regknowns EXCEPT ![rdn] = bknown]
             ELSE UNCHANGED <<regvalues, regknowns>>
        /\ pswbits' = IF "PSW_WE" \in e THEN OrW(dvalue, 32752)
                      ELSE IF "PSW_ALUWE" \in e THEN computenzvc(op, alu, psw1)
                      ELSE psw1
        /\ errors' = \/ errors
                     \/ EndsWrong
                     \/ LinesWrong(s, ControlOn(Ones)', e)

(* stepstate with irq on the request line, then verifystate (s). *)
StepState(irq, s, op) ==
    /\ girq' = irq
    /\ De0Edge(IR(mqbus), BoardAlu, irq)
    /\ \E x, y \in RandOperands : Verify(s, op, x, y)

InsideInstruction ==
    /\ \/ st \in DOMAIN Follow /\ StepState(girq, Follow[st], opcode)
       \/ st = "LOAD2" /\ Imm(opcode) /\ StepState(girq, "LOAD3", opcode)
    /\ UNCHANGED <<pswie, iter, passno>>

FirstCycle ==
    /\ st = "FETCH2"
    /\ pswie' = IsSet(pswbits, 15)
    /\ StepState(girq, First(opcode), opcode)
    /\ UNCHANGED <<iter, passno>>

StartInterrupt ==
    /\ InstructionEnds /\ iter < bench.iterations
    /\ pswie
    /\ StepState(TRUE, "IREQ1", opcode)
    /\ UNCHANGED <<pswie, iter, passno>>

StartInstruction ==
    /\ InstructionEnds /\ iter < bench.iterations
    /\ iter' = iter + 1
    /\ \E op \in bench.opcodes, irq \in {FALSE, ~pswie} : StepState(irq, "FETCH1", op)
    /\ UNCHANGED <<pswie, passno>>

AfterInterrupt ==
    /\ st = "IREQ5"
    /\ pswie' = FALSE /\ iter' = iter + 1
    /\ \E op \in bench.opcodes : StepState(girq, "FETCH1", op)
    /\ UNCHANGED passno

(* -loop: reset while the last instruction is half way through its last cycle.
   The clock stays low, so that the edge which would end it never comes. *)
Again ==
    /\ InstructionEnds /\ iter = bench.iterations /\ passno < bench.passes
    /\ passno' = passno + 1 /\ iter' = 0
    /\ PosedgeReset
    /\ st' = "RESET0" /\ pswbits' = 32752 /\ pswie' = FALSE
    /\ regknowns' = [regknowns EXCEPT ![7] = TRUE] /\ regvalues' = [regvalues EXCEPT ![7] = 0]
    /\ vfya' = NotChecked /\ vfyb' = NotChecked /\ vfyd' = NotChecked /\ vfyireoc' = FALSE
    /\ pada' = Ones /\ padb' = Ones
    /\ UNCHANGED <<irlat, rq, ieff, nzvc, opcode, memreaddata, memreadpend, girq, errors>>

TestInit ==
    /\ q = {"RESET0"} /\ irlat = 0 /\ bench \in Benches /\ rq \in StackPowerOn /\ ieff \in BOOLEAN
    /\ nzvc = [n |-> TRUE, z |-> FALSE, v |-> TRUE, c |-> FALSE]
    /\ st = "RESET0" /\ opcode = 0 /\ memreaddata = 0 /\ memreadpend = FALSE /\ girq = FALSE
    /\ pswbits = 32752 /\ pswie = FALSE
    /\ regvalues = [r \in 0 .. 7 |-> 0] /\ regknowns = [r \in 0 .. 7 |-> r = 7]
    /\ vfya = NotChecked /\ vfyb = NotChecked /\ vfyd = NotChecked /\ vfyireoc = FALSE
    /\ pada = Ones /\ padb = Ones
    /\ iter = 0 /\ passno = 1 /\ errors = FALSE

TestNext ==
    /\ \/ InsideInstruction \/ FirstCycle \/ StartInterrupt
       \/ StartInstruction \/ AfterInterrupt \/ Again
    /\ UNCHANGED bench

TestSpec == TestInit /\ [][TestNext]_testVars
-------------------------------------------------------------------------------
(***************************************************************************)
(* A stack of good boards gets no error message about its buses, its       *)
(* instruction register or its control lines, whatever rand picks and      *)
(* whatever the registers powered up with; and what the tester takes for   *)
(* known of registers and status word, "which gpr contents are known", is  *)
(* so when nothing is about to be written.  A later pass of -loop over     *)
(* register boards begins in the middle of a cycle.                        *)
(***************************************************************************)
KnowsBoard ==
    st = "FETCH1" =>
        /\ \A r \in hasregs : regknowns[r] => rq[r] = regvalues[r]
        /\ pswbits = PswOf(ieff, nzvc)

TesterRight == passno = 1 \/ hasregs = {} => ~errors /\ KnowsBoard
================================================================================
