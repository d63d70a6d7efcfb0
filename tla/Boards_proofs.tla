----------------------------- MODULE Boards_proofs -----------------------------
(***************************************************************************)
(* What the processor boards do in the two places that drive them, for     *)
(* every constant. In the simulator, with the memory of its RasPi module:  *)
(* the bus always carries the bits that the boards take from it, and the   *)
(* model beside them agrees with them, for every program in memory. On the *)
(* bench, under the tester raseqtest: good boards are never called bad,    *)
(* whatever instructions, operands and interrupts it draws. The lemmas     *)
(* about an edge of the clock are those of Processor_proofs; this module   *)
(* adds the memory and the three steps of a period of the simulator, then  *)
(* what the tester has in mind.                                            *)
(***************************************************************************)
EXTENDS NetSim, RaSeqTest, Processor_proofs
-----------------------------------------------------------------------------
(* The bus and the memory.  A state that takes data from memory follows one
   that asks for it, and the answer is on its way until the falling edge puts
   it on the bus. *)
Asks == {"FETCH1", "IRET1", "IRET3", "LOAD1"}
Takes == {"FETCH2", "IRET2", "IRET4", "LOAD2"}
Wide(s) == ~(s = "LOAD2" /\ IsSet(irlat, 13))
Bits(s) == IF s \notin Takes THEN 0 ELSE IF Wide(s) THEN All ELSE LowByte

MemoryOK ==
    \A a \in DOMAIN memarray : a \in Word /\ a % 2 = 0 /\ memarray[a] \in Word

SimTypeOK ==
    /\ nsintoclk \in {"rise", "quarter", "fall"}
    /\ MemoryOK
    /\ savemread \in BOOLEAN /\ savemwrite \in BOOLEAN /\ savemword \in BOOLEAN
    /\ savemaddr \in Word
    /\ mqval \in Word /\ mqknown \in {0, LowByte, All}
    /\ intreq \in BOOLEAN

Answered(s) ==
    /\ nsintoclk = "rise" => mqknown >= Bits(s)
    /\ nsintoclk # "rise" /\ s \in Takes => savemread /\ savemword = Wide(s)

BusInv == De0TypeOK /\ SimTypeOK /\ \E s \in Flops : q = {s} /\ Answered(s)

LEMMA NumbersKnown == 0 < LowByte /\ LowByte < All /\ LowByte \in Int /\ All \in Int
  BY DEF LowByte, All

LEMMA NeededIs ==
  ASSUME NEW s \in Flops, q = {s}
  PROVE  /\ Needed = Bits(s)
         /\ Ctl("MEM_READ") <=> s \in Asks
         /\ Ctl("MEM_WRITE") <=> s \in {"IREQ1", "IREQ3", "STORE1"}
         /\ Ctl("HALT") <=> s = "HALT1"
<1>1. \A S : AnyOf(S) <=> s \in S
  BY Alone
<1>2. /\ Ctl("IR_WE") <=> s = "FETCH2"
      /\ Ctl("MEM_REB") <=> s \in {"LOAD2", "IRET2", "IRET4"}
      /\ Ctl("MEM_READ") <=> s \in Asks
      /\ Ctl("MEM_WRITE") <=> s \in {"IREQ1", "IREQ3", "STORE1"}
      /\ Ctl("HALT") <=> s = "HALT1"
  BY <1>1 DEF Ctl, Microcode, Asks
<1>3. s # "FETCH2" => IR(mqval) = irlat
  BY <1>2 DEF IR
<1>4. s \in {"LOAD2", "IRET2", "IRET4"} => (MEM_WORD(IR(mqval)) <=> Wide(s))
  BY <1>1, <1>3 DEF MEM_WORD, Wide
<1>5. Needed = Bits(s)
  <2>1. CASE s = "FETCH2"
    BY <1>2, <2>1 DEF Needed, Bits, Takes, Wide
  <2>2. CASE s \in {"LOAD2", "IRET2", "IRET4"}
    BY <1>2, <1>4, <2>2 DEF Needed, Bits, Takes
  <2>3. CASE s \notin Takes
    BY <1>2, <2>3 DEF Needed, Bits, Takes
  <2>4. QED
    BY <2>1, <2>2, <2>3 DEF Takes
<1>6. QED
  BY <1>2, <1>5

LEMMA WordMath ==
  ASSUME NEW w \in Word, NEW v \in Word
  PROVE  /\ w % 256 \in Word /\ w \div 256 \in Word
         /\ 256 * (w % 256) + (v \div 256) \in Word
         /\ 256 * (w \div 256) + (v % 256) \in Word
         /\ 256 * (w % 256) + (v % 256) \in Word
<1>1. w \in Int /\ 0 <= w /\ w <= 65535 /\ v \in Int /\ 0 <= v /\ v <= 65535
  BY WordIs
<1>2. /\ w % 256 \in 0 .. 255 /\ w \div 256 \in 0 .. 255
      /\ v % 256 \in 0 .. 255 /\ v \div 256 \in 0 .. 255
  BY ONLY <1>1
<1>3. PICK a \in 0 .. 255, b \in 0 .. 255, c \in 0 .. 255, d \in 0 .. 255 :
        a = w % 256 /\ b = w \div 256 /\ c = v % 256 /\ d = v \div 256
  BY ONLY <1>2
<1>4. a \in 0 .. 255 /\ b \in 0 .. 255 /\ c \in 0 .. 255 /\ d \in 0 .. 255
  OBVIOUS
<1>5. /\ a \in Word /\ b \in Word /\ 256 * a + d \in Word /\ 256 * b + c \in Word
      /\ 256 * a + c \in Word
  BY <1>4, WordIs
<1>6. QED
  BY ONLY <1>3, <1>5

LEMMA EvenWord ==
  ASSUME NEW a \in Word
  PROVE  Even(a) \in Word /\ Even(a) % 2 = 0
<1>1. a \in Int /\ 0 <= a /\ a <= 65535
  BY WordIs
<1>2. PICK e \in Int : e = a - (a % 2)
  BY ONLY <1>1
<1>3. e \in Int /\ 0 <= e /\ e <= 65535 /\ e % 2 = 0
  BY ONLY <1>1, <1>2
<1>4. e \in Word
  BY <1>3, WordIs
<1>5. QED
  BY <1>2, <1>3, <1>4 DEF Even

LEMMA ReadIsWord ==
  ASSUME MemoryOK, NEW a \in Word
  PROVE  Held(a) \in Word /\ readword(a) \in Word /\ readbyte(a) \in Word
<1>1. \A b : Held(b) \in Word
  BY TopCleared DEF Held, MemoryOK
<1>2. /\ \A b : Swapped(Held(b)) \in Word
      /\ \A b : Held(b) % 256 \in Word /\ Held(b) \div 256 \in Word
  BY <1>1, WordMath DEF Swapped
<1>3. QED
  BY <1>1, <1>2 DEF readword, readbyte

LEMMA WrittenOK ==
  ASSUME MemoryOK, NEW a \in Word, NEW w \in Word, memarray' = Written(a, w)
  PROVE  MemoryOK'
<1>1. Even(a) \in Word /\ Even(a) % 2 = 0
  BY EvenWord
<1>2. \A b : Held(b) \in Word
  BY TopCleared DEF Held, MemoryOK
<1>3. /\ Swapped(w) \in Word
      /\ 256 * (Held(a) \div 256) + (w % 256) \in Word
      /\ 256 * (w % 256) + (Held(Even(a)) % 256) \in Word
  BY <1>2, WordMath DEF Swapped
<1>4. PICK v \in Word : memarray' = With(Even(a), v)
  BY <1>3 DEF Written, WrittenWord, WrittenByte
<1>5. QED
  BY <1>1, <1>4 DEF With, MemoryOK

(* The edge: which state follows, and what the pins say of a memory access. *)
LEMMA NextFlop ==
  ASSUME NEW s \in Flops, q = {s}, NEW m \in Word, NEW irq \in BOOLEAN, De0TypeOK,
         De0Clock(m, irq)
  PROVE  /\ \E n \in Flops : /\ q' = {n}
                             /\ n \in Takes => s \in Asks
                             /\ n = "LOAD2" <=> s = "LOAD1"
         /\ s # "FETCH2" => irlat' = irlat /\ IR(m) = irlat
<1>1. ieff \in BOOLEAN /\ PosedgeClock(IR(m), irq, ieff) /\ irlat' = IR(m)
  BY DEF De0TypeOK, De0Clock, De0Edge
<1>2. s # "FETCH2" => IR(m) = irlat
  BY Alone DEF IR, Ctl, Microcode
<1>3. \E n \in Flops : /\ q' = {n}
                       /\ n \in Takes => s \in Asks
                       /\ n = "LOAD2" <=> s = "LOAD1"
  <2>1. CASE s \in LastCycle \union {"LOAD2"}
    <3>1. PICK n \in {"LOAD3", "IREQ1", "FETCH1"} : q' = {n}
      BY <1>1, <2>1, EndStep
    <3>2. n \in Flops /\ n \notin Takes /\ n # "LOAD2" /\ s # "LOAD1"
      BY <2>1 DEF Flops, Takes, LastCycle
    <3>3. QED
      BY <3>1, <3>2
  <2>2. CASE s = "FETCH2"
    <3>1. PICK n \in Decoded : q' = {n}
      BY <1>1, <2>2, DecodeStep
    <3>2. n \in Flops /\ n \notin Takes /\ n # "LOAD2" /\ s # "LOAD1"
      BY <2>2 DEF Decoded, Flops, Takes
    <3>3. QED
      BY <3>1, <3>2
  <2>3. CASE s \notin LastCycle \union {"LOAD2", "FETCH2"}
    <3>1. PICK n \in DOMAIN Feeds : Feeds[n] = s
      BY <2>3, FeedsTable DEF Flops, LastCycle
    <3>2. q' = {n} /\ n \in Flops
      BY <1>1, <3>1, FedStep, FeedsTable DEF Flops
    <3>3. (n \in Takes => s \in Asks) /\ (n = "LOAD2" <=> s = "LOAD1")
      BY <3>1, FeedsTable DEF Takes, Asks
    <3>4. QED
      BY <3>2, <3>3
  <2>4. QED
    BY <2>1, <2>2, <2>3
<1>4. QED
  BY <1>1, <1>2, <1>3

LEMMA PinsAreWords ==
  ASSUME NEW s \in Flops, q = {s}, NEW m \in Word, De0TypeOK
  PROVE  MD(m) \in Word
<1>1. PICK i : i = IR(m) /\ i \in Word
  BY DEF IR, De0TypeOK
<1>2. nzvc.c \in BOOLEAN
  BY DEF De0TypeOK, Flags
<1>3. QED
  BY <1>1, <1>2, AluWord DEF MD, Alu

LEMMA RiseBus == ASSUME BusInv, Rise PROVE BusInv'
<1>1. PICK s \in Flops : q = {s} /\ Answered(s)
  BY DEF BusInv
<1>2. De0TypeOK /\ SimTypeOK /\ De0Clock(mqval, intreq) /\ mqval \in Word /\ intreq \in BOOLEAN
  BY DEF BusInv, SimTypeOK, Rise
<1>3. De0TypeOK'
  BY <1>1, <1>2, De0Keeps
<1>4. PICK n \in Flops : /\ q' = {n}
                         /\ n \in Takes => s \in Asks
                         /\ n = "LOAD2" <=> s = "LOAD1"
  BY <1>1, <1>2, NextFlop
<1>5. PICK d \in Word : d = MD(mqval)
  BY <1>1, <1>2, PinsAreWords
<1>6. MemoryOK' /\ intreq' \in BOOLEAN
  <2>1. CASE savemwrite
    <3>1. memarray' = Written(savemaddr, d) /\ MemoryOK /\ savemaddr \in Word
      BY <1>2, <1>5, <2>1 DEF Rise, FinishWrite, SimTypeOK
    <3>2. MemoryOK'
      BY <3>1, WrittenOK
    <3>3. intreq' \in BOOLEAN
      BY <1>2, <2>1 DEF Rise, FinishWrite, domagic
    <3>4. QED
      BY <3>2, <3>3
  <2>2. CASE ~savemwrite
    BY <1>2, <2>2 DEF Rise, FinishWrite, MemoryOK, SimTypeOK
  <2>3. QED
    BY <2>1, <2>2
<1>7. /\ savemread' \in BOOLEAN /\ savemwrite' \in BOOLEAN /\ savemword' \in BOOLEAN
      /\ savemaddr' \in Word
  <2>1. savemaddr' \in Word
    BY <1>2, <1>5 DEF Rise, LatchRequest, SimTypeOK
  <2>2. savemread' \in BOOLEAN /\ savemwrite' \in BOOLEAN /\ savemword' \in BOOLEAN
    BY <1>2 DEF Rise, LatchRequest, SimTypeOK, Ctl, AnyOf, MEM_WORD
  <2>3. QED
    BY <2>1, <2>2
<1>8. nsintoclk' = "quarter" /\ UNCHANGED <<mqval, mqknown>>
  BY DEF Rise
<1>9. SimTypeOK'
  BY <1>2, <1>6, <1>7, <1>8 DEF SimTypeOK
<1>10. Answered(n)'
  <2>1. ASSUME n \in Takes PROVE savemread' /\ savemword' = Wide(n)'
    <3>1. s \in Asks /\ Ctl("MEM_READ")
      BY <1>1, <1>4, <2>1, NeededIs
    <3>2. savemread' = Ctl("MEM_READ") /\ savemword' = MEM_WORD(IR(mqval))
      BY <3>1 DEF Rise, LatchRequest
    <3>3. irlat' = irlat /\ IR(mqval) = irlat
      BY <1>1, <1>2, <3>1, NextFlop DEF Asks
    <3>4. MEM_WORD(irlat) <=> Wide(n)'
      <4>1. AnyOf({"LOAD1", "LOAD2", "STORE1"}) <=> s = "LOAD1"
        BY <1>1, <3>1, Alone DEF Asks
      <4>2. QED
        BY <1>4, <3>3, <4>1 DEF MEM_WORD, Wide
    <3>5. QED
      BY <1>7, <3>1, <3>2, <3>3, <3>4 DEF Wide
  <2>2. QED
    BY <1>8, <2>1 DEF Answered
<1>11. QED
  BY <1>3, <1>4, <1>9, <1>10 DEF BusInv

LEMMA QuarterBus == ASSUME BusInv, Quarter PROVE BusInv'
<1>1. PICK s \in Flops : q = {s} /\ Answered(s)
  BY DEF BusInv
<1>2. De0TypeOK' /\ q' = {s}
  BY <1>1 DEF BusInv, De0TypeOK, Quarter, de0Vars
<1>3. SimTypeOK'
  BY TopCleared DEF BusInv, SimTypeOK, Quarter, MemoryOK
<1>4. Answered(s)'
  BY <1>1 DEF Answered, Quarter, Wide, de0Vars, Going
<1>5. QED
  BY <1>2, <1>3, <1>4 DEF BusInv

LEMMA FallBus == ASSUME BusInv, Fall PROVE BusInv'
<1>1. PICK s \in Flops : q = {s} /\ Answered(s)
  BY DEF BusInv
<1>2. De0TypeOK' /\ q' = {s} /\ irlat' = irlat /\ nsintoclk' = "rise"
  BY <1>1 DEF BusInv, De0TypeOK, Fall, de0Vars
<1>3. /\ savemread \in BOOLEAN /\ savemword \in BOOLEAN /\ MemoryOK /\ savemaddr \in Word
      /\ mqval \in Word /\ mqknown \in {0, LowByte, All}
  BY DEF BusInv, SimTypeOK
<1>4. readword(savemaddr) \in Word /\ readbyte(savemaddr) \in Word
  BY <1>3, ReadIsWord
<1>5. mqval' \in Word /\ mqknown' \in {0, LowByte, All}
  BY <1>3, <1>4 DEF Fall
<1>6. SimTypeOK'
  BY <1>2, <1>5 DEF BusInv, SimTypeOK, Fall, MemoryOK
<1>7. Answered(s)'
  <2>1. mqknown' >= Bits(s)'
    <3>1. Bits(s)' = Bits(s)
      BY <1>2 DEF Bits, Wide
    <3>2. mqknown' >= Bits(s)
      BY <1>1, <1>5, NumbersKnown DEF Fall, Going, Answered, Bits
    <3>3. QED
      BY <3>1, <3>2
  <2>2. QED
    BY <1>2, <2>1 DEF Answered
<1>8. QED
  BY <1>2, <1>6, <1>7 DEF BusInv

LEMMA StillBus ==
  ASSUME BusInv, UNCHANGED <<de0Vars, nsintoclk, memarray, savemread, savemwrite, savemword,
                             savemaddr, mqval, mqknown, intreq>>
  PROVE  BusInv'
<1>1. PICK s \in Flops : q = {s} /\ Answered(s)
  BY DEF BusInv
<1>2. De0TypeOK' /\ SimTypeOK'
  BY DEF BusInv, De0TypeOK, SimTypeOK, MemoryOK, de0Vars
<1>3. q' = {s} /\ Answered(s)'
  BY <1>1 DEF Answered, Bits, Wide, de0Vars
<1>4. QED
  BY <1>2, <1>3 DEF BusInv

LEMMA BusStarts == NetInit => BusInv
<1> SUFFICES ASSUME NetInit PROVE BusInv
  OBVIOUS
<1>1. De0TypeOK
  BY NetAssumption, TopCleared DEF NetInit, De0TypeOK, Flops, Flags
<1>2. SimTypeOK
  <2>1. MemoryOK
    BY NetAssumption DEF NetInit, MemoryOK
  <2>2. 0 \in Word
    BY TopCleared
  <2>3. QED
    BY <2>1, <2>2 DEF NetInit, SimTypeOK
<1>3. "RESET0" \in Flops /\ q = {"RESET0"} /\ Answered("RESET0")
  BY DEF NetInit, Flops, Answered, Takes
<1>4. QED
  BY <1>1, <1>2, <1>3 DEF BusInv

LEMMA BusStep == BusInv /\ [NetNext]_netVars => BusInv'
<1> SUFFICES ASSUME BusInv, [NetNext]_netVars PROVE BusInv'
  OBVIOUS
<1>1. CASE Rise
  BY <1>1, RiseBus
<1>2. CASE Quarter
  BY <1>2, QuarterBus
<1>3. CASE Fall
  BY <1>3, FallBus
<1>4. CASE Reject \/ Halted \/ UNCHANGED netVars
  BY <1>4, StillBus DEF Reject, Halted, netVars, simVars
<1>5. QED
  BY <1>1, <1>2, <1>3, <1>4 DEF NetNext

LEMMA BusDefined == BusInv => ReadsDefined
<1> SUFFICES ASSUME BusInv, nsintoclk = "rise" PROVE mqknown >= Needed
  BY DEF ReadsDefined
<1>1. PICK s \in Flops : q = {s} /\ Answered(s)
  BY DEF BusInv
<1>2. QED
  BY <1>1, NeededIs DEF Answered

(* No register of a simulated board ever takes a bit from memory that is not on
   the bus, for every program, whatever registers hold at power-up: memory lets
   go of the bus a quarter into the cycle, but puts the answer to the request
   of the cycle before on it by the falling edge, and eight bits only where the
   boards take eight (netgen/RasPiModule.java, stepSimulator). *)
THEOREM BusIsDefined == NetSpec => []ReadsDefined
<1>1. NetInit => BusInv
  BY BusStarts
<1>2. BusInv /\ [NetNext]_netVars => BusInv'
  BY BusStep
<1>3. BusInv => ReadsDefined
  BY BusDefined
<1>4. QED
  BY <1>1, <1>2, <1>3, PTL DEF NetSpec
-----------------------------------------------------------------------------
(* The model beside the boards.  Until the reset is over they have nothing but
   the registers in common; then they agree (Together) until an interrupt that
   the model does not look for. *)
Cleared == [r \in 0 .. 7 |-> 0]

ResetPhase ==
    /\ state \in {"RESET0", "RESET1"} /\ q = {state}
    /\ ShadowTypeOK
    /\ irlat = ir
    /\ ~intreq /\ ~savemwrite
Resetting == ResetPhase /\ regs = Cleared /\ rq = Cleared

Agreeing == Together /\ ~fatal
Diverged == state = "FETCH1" /\ q = {"IREQ1"}

ModelInv ==
    /\ BusInv
    /\ run = "rejected" => Diverged
    /\ Resetting \/ Agreeing \/ Diverged

LEMMA CheckedTogether == ASSUME Together, NEW m \in Word, m = mqval PROVE Checked
<1>1. /\ state \in Flops \ {"RESET0", "RESET1"} /\ q = {state} /\ irlat = ir
      /\ IR(m) = IF state = "FETCH2" THEN m ELSE ir
  BY InstrSame
<1>2. /\ Ctl("MEM_READ") <=> Reads
      /\ Ctl("MEM_WRITE") <=> Writes
  BY <1>1, NeededIs DEF Reads, Writes, Asks
<1>3. Reads \/ Writes => (MEM_WORD(IR(mqval)) <=> Words)
  BY <1>1, Alone DEF Reads, Writes, Words, MEM_WORD, ByteAccess
<1>4. AluValid => MD(m) = alu
  BY AluSame DEF AluValid
<1>5. /\ Ctl("MEM_READ") \in BOOLEAN /\ Ctl("MEM_WRITE") \in BOOLEAN
      /\ Reads \in BOOLEAN /\ Writes \in BOOLEAN
      /\ MEM_WORD(IR(mqval)) \in BOOLEAN /\ Words \in BOOLEAN
  BY DEF Ctl, AnyOf, Reads, Writes, MEM_WORD, Words
<1>6. QED
  BY <1>2, <1>3, <1>4, <1>5 DEF Checked, Check

LEMMA CheckedReset ==
  ASSUME state \in {"RESET0", "RESET1"}, q = {state}
  PROVE  Checked
<1>1. ~Ctl("MEM_READ") /\ ~Ctl("MEM_WRITE")
  BY NeededIs DEF Asks, Flops
<1>2. ~Reads /\ ~Writes /\ ~AluValid
  BY DEF Reads, Writes, AluValid
<1>3. Ctl("MEM_READ") \in BOOLEAN /\ Ctl("MEM_WRITE") \in BOOLEAN
  BY DEF Ctl, AnyOf
<1>4. QED
  BY <1>1, <1>2, <1>3 DEF Checked, Check, Reads, Writes

LEMMA DivergedCaught == ASSUME Diverged PROVE ~Checked
<1>1. ~Ctl("MEM_READ") /\ Reads
  BY NeededIs DEF Asks, Flops, Diverged, Reads
<1>2. QED
  BY <1>1 DEF Checked, Check

(* Where the model does as shadow.cc, which is everywhere but after an IRET
   that finds an interrupt requested, as a HALT1 never ends here. *)
LEMMA NetIsClock ==
  ASSUME IsSet(psw, 15) <=> ieff, NEW m \in Word, NEW irq \in BOOLEAN, NetClock(m, irq),
         state # "HALT1", state = "IRET4" => ~(irq /\ ieff)
  PROVE  EndOfState(m, irq) /\ Begin
<1>1. Begin
  BY DEF NetClock
<1>2. CASE state = "IRET4"
  <2>1. EndToFetch(m)
    BY <1>2 DEF NetClock, EndAsShadow
  <2>2. EndIret4(m, irq)
    BY <1>2, <2>1 DEF EndToFetch, EndIret4, EndOfInst, IrqEnabled
  <2>3. QED
    BY <1>1, <2>2 DEF EndOfState
<1>3. CASE state # "IRET4"
  BY <1>1, <1>3 DEF NetClock, EndToFetch, EndAsShadow
<1>4. QED
  BY <1>2, <1>3

(* BadOpcode stops the simulation where shadow.cc would call puque. *)
LEMMA NoPuque ==
  ASSUME NEW m, NEW irq, EndOfState(m, irq), Begin, ~BadOpcode(m)
  PROVE  ~fatal'
<1> SUFFICES ASSUME state' = "ARITH1" PROVE ~BadAlu(ir')
  BY DEF Begin
<1>1. state = "FETCH2"
  BY OnlyDecoded
<1>2. ir' = m /\ Decode(m) = "ARITH1"
  BY <1>1 DEF EndOfState, EndOnward, Onward, EndReset1, EndFetch2, EndBcc1, EndArith1,
         EndStore2OrHalt1, EndLda1OrRdps1, EndLoad2, EndLoad3, EndWrps1, EndIret2, EndIret4,
         EndIreq3, EndIreq5
<1>3. QED
  BY <1>1, <1>2 DEF BadOpcode

LEMMA AgreeingRise ==
  ASSUME BusInv, Agreeing, Rise
  PROVE  Agreeing' \/ Diverged'
<1>1. Together /\ mqval \in Word /\ intreq \in BOOLEAN
  BY DEF BusInv, SimTypeOK, Agreeing
<1>2. /\ De0Clock(mqval, intreq) /\ NetClock(mqval, intreq) /\ ~BadOpcode(mqval)
      /\ ~Ctl("HALT")
  BY DEF Rise, Going
<1>3. /\ state \in Flops /\ q = {state} /\ ieff \in BOOLEAN /\ IR(mqval) \in Word
      /\ IsSet(psw, 15) <=> ieff
  BY <1>1, InstrSame
<1>4. state # "HALT1"
  BY <1>2, <1>3, NeededIs
<1>5. CASE state = "IRET4" => ~(intreq /\ ieff)
  <2>1. EndOfState(mqval, intreq) /\ Begin
    BY <1>1, <1>2, <1>3, <1>4, <1>5, NetIsClock
  <2>2. ~fatal'
    BY <1>2, <2>1, NoPuque
  <2>3. ShadowTypeOK' /\ De0TypeOK' /\ (~fatal' => Running')
    BY <1>1, <1>2, <2>1, TogetherStep
  <2>4. QED
    BY <2>2, <2>3 DEF Agreeing, Together
<1>6. CASE state = "IRET4" /\ intreq /\ ieff
  <2>1. state' = "FETCH1"
    BY <1>2, <1>6 DEF NetClock, EndToFetch, EndAsShadow
  <2>2. PosedgeClock(IR(mqval), intreq, ieff)
    BY <1>2 DEF De0Clock, De0Edge
  <2>3. state \in LastCycle \union {"LOAD2"}
    BY <1>6 DEF LastCycle
  <2>4. ~load3d(IR(mqval)) /\ irqpend(intreq, ieff)
    BY <1>3, <1>6, Alone DEF load3d, irqpend
  <2>5. q' = {"IREQ1"}
    BY <1>1, <1>3, <2>2, <2>3, <2>4, EndStep
  <2>6. QED
    BY <2>1, <2>5 DEF Diverged
<1>7. QED
  BY <1>5, <1>6

LEMMA ResetRise ==
  ASSUME BusInv, ResetPhase, Rise
  PROVE  /\ state = "RESET0" => ResetPhase' /\ state' = "RESET1" /\ rq' = rq /\ regs' = regs
         /\ state = "RESET1" =>
              /\ state' = "FETCH1" /\ Core' /\ ShadowTypeOK' /\ ~fatal' /\ ~ieff'
              /\ psw' = LoadPsw(0) /\ psw' = PswOf(ieff', nzvc')
              /\ rq' = [rq EXCEPT ![7] = 0] /\ regs' = [regs EXCEPT ![7] = 0]
<1>1. /\ state \in Flops /\ state \in {"RESET0", "RESET1"} /\ q = {state} /\ irlat = ir
      /\ ShadowTypeOK /\ De0TypeOK /\ SimTypeOK
  BY DEF ResetPhase, Flops, BusInv
<1>2. mqval \in Word /\ intreq \in BOOLEAN /\ intreq = FALSE /\ savemwrite = FALSE
  BY <1>1 DEF SimTypeOK, ResetPhase
<1>3. /\ De0Clock(mqval, intreq) /\ EndOfState(mqval, intreq) /\ Begin
  BY <1>1 DEF Rise, NetClock, EndToFetch, EndAsShadow
<1>4. irlat' = irlat /\ ir' = ir
  <2>1. irlat' = irlat
    BY <1>1, <1>2, <1>3, NextFlop
  <2>2. ir' = ir
    BY <1>1, <1>2, <1>3, EndTypes
  <2>3. QED
    BY <2>1, <2>2
<1>5. ir' \in Word /\ regs' \in [0 .. 7 -> Word] /\ psw' \in Word
  BY <1>1, <1>2, <1>3, EndTypes
<1>6. PosedgeClock(IR(mqval), intreq, ieff) /\ ieff \in BOOLEAN
  BY <1>1, <1>3 DEF De0Clock, De0Edge, De0TypeOK
<1>7. De0TypeOK'
  BY <1>1, <1>2, <1>3, De0Keeps
<1>8. ~intreq' /\ ~savemwrite'
  <2>1. ~Ctl("MEM_WRITE")
    BY <1>1, NeededIs
  <2>2. QED
    BY <1>2, <2>1 DEF Rise, FinishWrite, LatchRequest
<1>9. CASE state = "RESET0"
  <2>1. state' = "RESET1" /\ regs' = regs /\ state' \in Flops
    BY <1>3, <1>9
    DEF EndOfState, EndOnward, Onward, EndReset1, EndFetch2, EndBcc1, EndArith1, Flops,
        EndStore2OrHalt1, EndLda1OrRdps1, EndLoad2, EndLoad3, EndWrps1, EndIret2, EndIret4,
        EndIreq3, EndIreq5
  <2>2. q' = {"RESET1"}
    BY <1>1, <1>2, <1>6, <1>9, FedStep, FeedsTable
  <2>3. rq' = rq
    <3>1. /\ ~GPRS_WED(IR(mqval)) /\ ~GPRS_WE7(pswbt(IR(mqval)))
          /\ De0Edge(IR(mqval), Alu(mqval), intreq)
      BY <1>1, <1>3, <1>9, Alone DEF GPRS_WED, GPRS_WE7, De0Clock
    <3>2. rq' = [r \in 0 .. 7 |-> rq[r]]
      BY <3>1 DEF De0Edge
    <3>3. QED
      BY <1>1, <3>2 DEF De0TypeOK
  <2>4. alu' \in Word /\ newpsw' \in Word /\ fatal' \in BOOLEAN
    BY <1>1, <1>3, <1>5, <2>1, BeginStep DEF ShadowTypeOK
  <2>5. ShadowTypeOK'
    BY <1>5, <2>1, <2>4 DEF ShadowTypeOK, States
  <2>6. QED
    BY <1>1, <1>4, <1>8, <1>9, <2>1, <2>2, <2>3, <2>5 DEF ResetPhase
<1>10. CASE state = "RESET1"
  <2>1. /\ \A r \in 0 .. 6 : rq'[r] = rq[r] /\ regs'[r] = regs[r]
        /\ rq'[7] = regs'[7]
        /\ psw' = PswOf(ieff', nzvc') /\ ~ieff'
        /\ state' = "FETCH1"
    BY <1>1, <1>2, <1>3, <1>10, ResetStep
  <2>2. regs' = [regs EXCEPT ![7] = 0] /\ psw' = LoadPsw(0)
    BY <1>3, <1>10
    DEF EndOfState, EndOnward, Onward, EndReset1, EndFetch2, EndBcc1, EndArith1, Flops,
        EndStore2OrHalt1, EndLda1OrRdps1, EndLoad2, EndLoad3, EndWrps1, EndIret2, EndIret4,
        EndIreq3, EndIreq5, SetReg
  <2>3. q' = {"FETCH1"}
    <3>1. state \in LastCycle \union {"LOAD2"}
      BY <1>10 DEF LastCycle
    <3>2. ~load3d(IR(mqval)) /\ ~irqpend(intreq, ieff)
      BY <1>1, <1>2, <1>10, Alone DEF load3d, irqpend
    <3>3. QED
      BY <1>1, <1>2, <1>6, <3>1, <3>2, EndStep
  <2>4. rq' = [rq EXCEPT ![7] = 0]
    <3>1. rq' \in [0 .. 7 -> Word] /\ rq \in [0 .. 7 -> Word] /\ regs \in [0 .. 7 -> Word]
      BY <1>1, <1>7 DEF De0TypeOK, ShadowTypeOK
    <3>2. rq'[7] = 0
      BY <2>1, <2>2, <3>1
    <3>3. QED
      BY <2>1, <3>1, <3>2
  <2>5. state' \in Flops /\ state' \notin {"ARITH1", "RESET0", "RESET1", "IREQ4", "IREQ5"}
    BY <2>1 DEF Flops
  <2>6. /\ alu' \in Word /\ newpsw' \in Word
        /\ alu' = BeginAlu(state', ir', regs', psw', alu')
    BY <1>1, <1>3, <1>5, <2>5, BeginStep DEF ShadowTypeOK
  <2>7. ~fatal' /\ fatal' \in BOOLEAN
    BY <1>3, <2>5 DEF Begin
  <2>8. ShadowTypeOK'
    BY <1>5, <2>1, <2>6, <2>7 DEF ShadowTypeOK, States
  <2>9. IsSet(psw', 15) <=> ieff'
    <3>1. psw' = LoadPsw(0) /\ (IsSet(LoadPsw(0), 15) <=> IsSet(0, 15)) /\ ~IsSet(0, 15)
      BY <2>2, LoadedBit, TopCleared
    <3>2. QED
      BY <2>1, <3>1
  <2>10. Core'
    BY <1>1, <1>4, <2>1, <2>3, <2>5, <2>6, <2>9 DEF Core
  <2>11. QED
    BY <1>10, <2>1, <2>2, <2>4, <2>7, <2>8, <2>10
<1>11. QED
  BY <1>1, <1>9, <1>10

LEMMA ResettingRise ==
  ASSUME BusInv, Resetting, Rise
  PROVE  Resetting' \/ Agreeing'
<1>1. ResetPhase /\ regs = Cleared /\ rq = Cleared
  BY DEF Resetting
<1>2. CASE state = "RESET0"
  BY <1>1, <1>2, ResetRise DEF Resetting
<1>3. CASE state = "RESET1"
  <2>1. /\ state' = "FETCH1" /\ Core' /\ ShadowTypeOK' /\ ~fatal'
        /\ psw' = PswOf(ieff', nzvc') /\ rq' = regs'
    BY <1>1, <1>3, ResetRise
  <2>2. De0TypeOK'
    BY RiseBus DEF BusInv
  <2>3. Running'
    BY <2>1 DEF Running, Core, SameState
  <2>4. QED
    BY <2>1, <2>2, <2>3 DEF Agreeing, Together
<1>4. QED
  BY <1>1, <1>2, <1>3 DEF ResetPhase

LEMMA ModelStarts == ASSUME PowerOn \subseteq {Cleared}, NetInit PROVE ModelInv
<1>1. BusInv
  BY BusStarts
<1>2. rq = Cleared /\ regs = Cleared
  BY DEF NetInit, ShadowInit, Cleared
<1>3. ShadowTypeOK
  <2>1. 0 \in Word
    BY TopCleared
  <2>2. QED
    BY <2>1 DEF NetInit, ShadowInit, ShadowTypeOK, States
<1>4. Resetting
  BY <1>2, <1>3 DEF Resetting, ResetPhase, NetInit, ShadowInit
<1>5. QED
  BY <1>1, <1>4 DEF ModelInv, NetInit

LEMMA ModelStays ==
  ASSUME ModelInv, UNCHANGED <<shadowVars, de0Vars>>, BusInv',
         Resetting => ~intreq' /\ ~savemwrite',
         run' = "rejected" => Diverged
  PROVE  ModelInv'
<1>1. Resetting => Resetting'
  BY DEF Resetting, ResetPhase, ShadowTypeOK, shadowVars, de0Vars
<1>2. Agreeing => Agreeing'
  BY DEF Agreeing, Together, ShadowTypeOK, De0TypeOK, Running, SameState, shadowVars, de0Vars
<1>3. Diverged => Diverged'
  BY DEF Diverged, shadowVars, de0Vars
<1>4. QED
  BY <1>1, <1>2, <1>3 DEF ModelInv

LEMMA ModelStep == ModelInv /\ [NetNext]_netVars => ModelInv'
<1> SUFFICES ASSUME ModelInv, [NetNext]_netVars PROVE ModelInv'
  OBVIOUS
<1>1. BusInv /\ BusInv' /\ mqval \in Word
  BY BusStep DEF ModelInv, BusInv, SimTypeOK
<1>2. CASE Rise
  <2>1. run' \notin {"rejected"}
    BY <1>2 DEF Rise, Going, FinishWrite, domagic
  <2>2. ~Diverged
    BY <1>2, DivergedCaught DEF Rise
  <2>3. Resetting' \/ Agreeing' \/ Diverged'
    BY <1>1, <1>2, <2>2, ResettingRise, AgreeingRise DEF ModelInv
  <2>4. QED
    BY <1>1, <2>1, <2>3 DEF ModelInv
<1>3. CASE Reject
  <2>1. run' = "rejected" => ~Checked
    BY <1>3 DEF Reject
  <2>2. run' = "rejected" => Diverged
    <3>1. Resetting => Checked
      BY CheckedReset DEF Resetting, ResetPhase
    <3>2. Agreeing => Checked
      BY <1>1, CheckedTogether DEF Agreeing
    <3>3. QED
      BY <2>1, <3>1, <3>2 DEF ModelInv
  <2>3. QED
    BY <1>1, <1>3, <2>2, ModelStays DEF Reject, Resetting, ResetPhase
<1>4. CASE Halted \/ Quarter \/ Fall
  <2>1. run' # "rejected"
    BY <1>4 DEF Halted, Quarter, Fall, Going
  <2>2. QED
    BY <1>1, <1>4, <2>1, ModelStays DEF Halted, Quarter, Fall, Resetting, ResetPhase
<1>5. CASE UNCHANGED netVars
  BY <1>1, <1>5, ModelStays DEF netVars, simVars, Resetting, ResetPhase, ModelInv
<1>6. QED
  BY <1>2, <1>3, <1>4, <1>5 DEF NetNext

LEMMA ModelSound == ModelInv => SimulatorSound
<1> SUFFICES ASSUME ModelInv PROVE SimulatorSound
  OBVIOUS
<1>1. ReadsDefined
  BY BusDefined DEF ModelInv
<1>2. Diverged => state = "FETCH1" /\ On("IREQ1")
  BY DEF Diverged, On
<1>3. QED
  BY <1>1, <1>2 DEF ModelInv, SimulatorSound, RejectsIretOnly

(* For every program, and whenever it asks for interrupts, the model of the
   processor that the simulator keeps beside the boards finds nothing wrong
   with them (netgen/Shadow.java, check) except in the cycle after an IRET that
   finds an interrupt requested, which it does not look for, as long as the
   boards power up with the zeroes of the model; and the bus is always defined
   where the boards read it. *)
THEOREM SimulatorIsSound ==
  ASSUME PowerOn \subseteq {Cleared}
  PROVE  NetSpec => []SimulatorSound
<1>1. NetInit => ModelInv
  BY ModelStarts
<1>2. ModelInv /\ [NetNext]_netVars => ModelInv'
  BY ModelStep
<1>3. ModelInv => SimulatorSound
  BY ModelSound
<1>4. QED
  BY <1>1, <1>2, <1>3, PTL DEF NetSpec
-----------------------------------------------------------------------------
(***************************************************************************)
(* The instruction set.  The invariant the refinement needs says how far   *)
(* the instruction in progress has got, in terms of the registers it       *)
(* started from, and what memory was asked for.  It holds whatever the     *)
(* boards power up with: the model beside them only needs to be in the     *)
(* same state (Core), which it is until it finds a difference and stops    *)
(* the simulation.                                                         *)
(***************************************************************************)
CoreRunning ==
    /\ ShadowTypeOK /\ Core /\ ~fatal
    /\ state \notin {"RESET0", "RESET1"}

Leads(n) ==
    /\ state \in DOMAIN Onward => n = Onward[state]
    /\ state = "FETCH2" => /\ n = Decode(irlat') /\ n \in Decoded
                           /\ n = "ARITH1" => ~BadAlu(irlat')
    /\ state \in Lasting => n \in {"FETCH1", "IREQ1"}
    /\ state = "LOAD2" => IF LoadImmediate(irlat) THEN n = "LOAD3" ELSE n \in {"FETCH1", "IREQ1"}
    /\ state = "IRET2" => n = "IRET3"
    /\ state = "IREQ3" => n = "IREQ4"
    /\ state = "IREQ5" => n = "FETCH1"
    /\ n = "IREQ1" => ieff

(* An edge of the clock that takes the boards to state n. *)
BoardEdge(n) ==
    /\ state \in Flops \ {"RESET0", "RESET1"} /\ n \in Flops \ {"RESET0", "RESET1"}
    /\ q = {state} /\ q' = {n} /\ Leads(n)
    /\ RegsEdge(state, mqval) /\ PswEdge(state, mqval)
    /\ n = "FETCH1" => oldregs' = rq'
    /\ n \notin {"FETCH1", "IREQ1"} => oldregs' = oldregs
    /\ oldregs' \in {oldregs, rq'}

LEMMA CoreRise ==
  ASSUME BusInv, CoreRunning, Rise, state = "ARITH1" => ~BadAlu(irlat)
  PROVE  /\ CoreRunning' \/ Diverged'
         /\ \E n \in Flops : BoardEdge(n)
<1>1. /\ De0TypeOK /\ mqval \in Word /\ intreq \in BOOLEAN /\ ieff \in BOOLEAN
      /\ ShadowTypeOK /\ Core
  BY DEF BusInv, SimTypeOK, CoreRunning, De0TypeOK
<1>2. /\ state \in Flops \ {"RESET0", "RESET1"} /\ q = {state} /\ irlat = ir
      /\ IsSet(psw, 15) <=> ieff
      /\ state = "IREQ4" => ~ieff
  BY <1>1 DEF CoreRunning, Core, ShadowTypeOK, States, Flops
<1>3. /\ De0Clock(mqval, intreq) /\ NetClock(mqval, intreq) /\ ~BadOpcode(mqval)
      /\ ~Ctl("HALT") /\ Checked
      /\ oldregs' = IF state' = "FETCH1" THEN rq' ELSE oldregs
  BY DEF Rise, Going
<1>4. state # "HALT1"
  BY <1>2, <1>3, NeededIs
<1>5. RegsEdge(state, mqval)
  BY <1>1, <1>2, <1>3, EdgeRegs
<1>6. PosedgeClock(IR(mqval), intreq, ieff)
  BY <1>3 DEF De0Clock, De0Edge
<1>7. CASE state = "IRET4" => ~(intreq /\ ieff)
  <2>1. EndOfState(mqval, intreq) /\ Begin
    BY <1>1, <1>2, <1>3, <1>4, <1>7, NetIsClock
  <2>2. ~fatal' /\ Clock(mqval, intreq)
    BY <1>3, <2>1, NoPuque DEF Clock
  <2>3. state = "WRPS1" => MD(mqval) = alu
    BY <1>3 DEF Checked, Check, AluValid
  <2>4. ShadowTypeOK' /\ Core'
    BY <1>1, <1>3, <2>2, <2>3, CoreEdge
  <2>5. Follows
    BY <1>1, <2>2, <2>4, Following
  <2>6. /\ q' = {state'} /\ state' \in Flops \ {"RESET0", "RESET1"}
        /\ state' = "IREQ4" <=> state = "IREQ3"
    BY <1>1, <1>2, <2>1, <2>4, Transfers DEF Core
  <2>7. PswEdge(state, mqval)
    BY <1>1, <1>2, <1>3, <2>6, EdgePsw
  <2>8. Leads(state')
    BY <2>5 DEF Leads, Follows
  <2>9. BoardEdge(state')
    BY <1>2, <1>3, <1>5, <2>6, <2>7, <2>8 DEF BoardEdge
  <2>10. CoreRunning'
    BY <2>2, <2>4, <2>6 DEF CoreRunning
  <2>11. QED
    BY <2>6, <2>9, <2>10
<1>8. CASE state = "IRET4" /\ intreq /\ ieff
  <2> DEFINE n == "IREQ1"
  <2>1. state' = "FETCH1"
    BY <1>3, <1>8 DEF NetClock, EndToFetch, EndAsShadow
  <2>2. state \in LastCycle \union {"LOAD2"}
    BY <1>8 DEF LastCycle
  <2>3. ~load3d(IR(mqval)) /\ irqpend(intreq, ieff)
    BY <1>2, <1>8, Alone DEF load3d, irqpend
  <2>4. q' = {n}
    BY <1>1, <1>2, <1>6, <2>2, <2>3, EndStep
  <2>5. n \in Flops \ {"RESET0", "RESET1"} /\ n # "RESET1" /\ (n = "IREQ4" <=> state = "IREQ3")
    BY <1>8 DEF Flops
  <2>6. PswEdge(state, mqval)
    BY <1>1, <1>2, <1>3, <1>8, <2>4, <2>5, EdgePsw
  <2>7. Leads(n)
    BY <1>8 DEF Leads, Onward, Lasting
  <2>8. BoardEdge(n)
    BY <1>2, <1>3, <1>5, <2>1, <2>4, <2>5, <2>6, <2>7 DEF BoardEdge
  <2>9. QED
    BY <2>1, <2>4, <2>5, <2>8 DEF Diverged
<1>9. QED
  BY <1>7, <1>8

(* oldregs are the registers the instruction in progress started from, Past the
   same with the program counter past the opcode. *)
Past == [oldregs EXCEPT ![7] = AddW(oldregs[7], 2)]
IsPort(a) == Even(a) = MAGIC

(* The opcode is the word the program counter pointed to. *)
Fetched(s) ==
    /\ irlat \in Word
    /\ ~IsPort(oldregs[7]) => oldregs[7] % 2 = 0 /\ irlat = Held(oldregs[7])
    /\ Decode(irlat) = Origin(s)
    /\ s = "ARITH1" => ~BadAlu(irlat)

(* What a load finds: words are at even addresses. *)
LoadsFrom(i, r) ==
    LoadedWord(i, IF ByteAccess(i) THEN readbyte(Address(i, r)) ELSE Held(Address(i, r)))
WordLoad(i, r) == ~ByteAccess(i) => Address(i, r) % 2 = 0

SavedPc == 65532
SavedPsw == 65534

Immediate ==
    /\ LoadImmediate(irlat) /\ WordLoad(irlat, Past)
    /\ \E x \in Word : /\ rq = [Past EXCEPT ![RegD(irlat)] = x]
                       /\ ~IsPort(Address(irlat, Past)) => x = LoadsFrom(irlat, Past)

Instr(s) ==
    /\ s \in {"FETCH1", "FETCH2"} => rq = oldregs
    /\ s \in InProgress => rq = Past
    /\ s \in InProgress \union {"LOAD3", "IRET3", "IRET4"} => Fetched(s)
    /\ s = "LOAD3" => Immediate
    /\ s \in {"IRET3", "IRET4"} => rq = [Past EXCEPT ![7] = Held(SavedPc)]

(* The address given to memory for the access that state s completes, and what
   comes of it. *)
Gives == {"STORE2", "IREQ2", "IREQ4"}
Asked(s) == CASE s = "FETCH2" -> rq[7]
              [] s \in {"STORE2", "LOAD2"} -> Address(irlat, rq)
              [] s \in {"IRET2", "IREQ4"} -> SavedPc
              [] OTHER -> SavedPsw
AskedWord(s) == ~(s \in {"STORE2", "LOAD2"} /\ ByteAccess(irlat))

Request(s) ==
    /\ savemwrite <=> s \in Gives
    /\ s \in Takes \union Gives => savemaddr = Asked(s) /\ (savemword <=> AskedWord(s))
    /\ s \in Takes /\ nsintoclk = "rise" =>
         mqval = IF savemword THEN readword(savemaddr) ELSE readbyte(savemaddr)

Exec ==
    /\ oldregs \in [0 .. 7 -> Word]
    /\ \E s \in Flops : q = {s} /\ Instr(s) /\ Request(s)
    /\ ResetPhase \/ CoreRunning \/ Diverged

(* Programs access words at even addresses. *)
Aligned == savemword => savemaddr % 2 = 0

LEMMA AskedRise ==
  ASSUME BusInv, Rise, NEW n \in Flops, BoardEdge(n)
  PROVE  Request(n)'
<1>1. /\ De0TypeOK /\ mqval \in Word /\ irlat \in Word /\ rq \in [0 .. 7 -> Word]
      /\ ieff \in BOOLEAN /\ nzvc \in Flags /\ nsintoclk' = "quarter"
  BY DEF BusInv, SimTypeOK, De0TypeOK, Rise
<1>2. /\ state \in Flops \ {"RESET0", "RESET1"} /\ q = {state} /\ Leads(n)
      /\ RegsEdge(state, mqval)
  BY DEF BoardEdge
<1>3. /\ n \in Gives <=> state \in {"IREQ1", "IREQ3", "STORE1"}
      /\ n \in Takes <=> state \in Asks
      /\ n = "FETCH2" <=> state = "FETCH1"
      /\ n = "STORE2" <=> state = "STORE1"
      /\ n = "LOAD2" <=> state = "LOAD1"
      /\ n = "IRET2" <=> state = "IRET1"
      /\ n = "IREQ4" <=> state = "IREQ3"
  BY <1>2 DEF Leads, Onward, Lasting, Flops, Gives, Takes, Asks, Decoded
<1>4. /\ Ctl("MEM_READ") <=> state \in Asks
      /\ Ctl("MEM_WRITE") <=> state \in {"IREQ1", "IREQ3", "STORE1"}
  BY <1>2, NeededIs
<1>5. savemwrite' <=> n \in Gives
  BY <1>3, <1>4 DEF Rise, LatchRequest
<1>6. ASSUME n \in Takes \union Gives PROVE savemaddr' = Asked(n)' /\ (savemword' <=> AskedWord(n)')
  <2>1. state \in {"FETCH1", "IRET1", "IRET3", "LOAD1", "IREQ1", "IREQ3", "STORE1"}
    BY <1>3, <1>6 DEF Asks
  <2>2. savemaddr' = MD(mqval) /\ savemword' = MEM_WORD(IR(mqval))
    BY <1>4, <2>1 DEF Rise, LatchRequest, Asks
  <2>3. rq' = rq /\ irlat' = irlat
    BY <1>2, <2>1 DEF RegsEdge
  <2> DEFINE p == PswOf(ieff, nzvc)
  <2>4. /\ MD(mqval) = BeginAlu(state, irlat, rq, p, 0) /\ IR(mqval) = irlat
    <3>1. /\ IR(mqval) = IF state = "FETCH2" THEN mqval ELSE irlat
          /\ state \notin {"LOAD2", "IRET2", "IRET4"} =>
               MD(mqval) = BeginAlu(state, irlat, rq, p, 0)
      BY <1>1, <1>2, <2>1, AluShows
    <3>2. QED
      BY <2>1, <3>1
  <2> HIDE DEF p
  <2>5. savemaddr' = Asked(n)'
    <3>1. /\ state = "FETCH1" => BeginAlu(state, irlat, rq, p, 0) = rq[7]
          /\ state \in {"LOAD1", "STORE1"} => BeginAlu(state, irlat, rq, p, 0) = Address(irlat, rq)
          /\ state \in {"IRET1", "IREQ3"} => BeginAlu(state, irlat, rq, p, 0) = SavedPc
          /\ state \in {"IRET3", "IREQ1"} => BeginAlu(state, irlat, rq, p, 0) = SavedPsw
      BY BeginIs DEF SavedPc, SavedPsw, Address
    <3>2. Asked(n)' = CASE n = "FETCH2" -> rq[7]
                        [] n \in {"STORE2", "LOAD2"} -> Address(irlat, rq)
                        [] n \in {"IRET2", "IREQ4"} -> SavedPc
                        [] OTHER -> SavedPsw
      BY <2>3 DEF Asked
    <3>3. QED
      BY <1>3, <2>1, <2>2, <2>4, <3>1, <3>2
  <2>6. MEM_WORD(irlat) <=> ~(state \in {"LOAD1", "STORE1"} /\ ByteAccess(irlat))
    BY <1>2, <2>1, Alone DEF MEM_WORD, ByteAccess
  <2>7. AskedWord(n)' <=> ~(n \in {"STORE2", "LOAD2"} /\ ByteAccess(irlat))
    BY <2>3 DEF AskedWord
  <2>8. QED
    BY <1>3, <2>2, <2>4, <2>5, <2>6, <2>7
<1>7. QED
  BY <1>1, <1>5, <1>6 DEF Request

(* What memory holds when a cycle that wrote to it ends. *)
LEMMA Finished ==
  ASSUME BusInv, Rise, state \in Flops, q = {state}, Request(state)
  PROVE  /\ state \notin Gives => memarray' = memarray
         /\ state \in Gives => memarray' = IF AskedWord(state) THEN WrittenWord(Asked(state), MD(mqval))
                                           ELSE WrittenByte(Asked(state), MD(mqval))
<1>1. /\ ~savemwrite => memarray' = memarray
      /\ savemwrite => memarray' = Written(savemaddr, MD(mqval))
  BY DEF Rise, FinishWrite
<1>2. QED
  BY <1>1 DEF Request, Written

(* The word or byte a data cycle has got, in the terms of Instr. *)
LEMMA Got ==
  ASSUME BusInv, Aligned, state \in Takes, Request(state), nsintoclk = "rise"
  PROVE  /\ AskedWord(state) => Asked(state) % 2 = 0 /\ mqval = Held(Asked(state))
         /\ ~AskedWord(state) => mqval = readbyte(Asked(state))
  BY DEF Request, Aligned, readword

LEMMA FetchedStays ==
  ASSUME NEW s, NEW n, Fetched(s), irlat' = irlat, oldregs' = oldregs, memarray' = memarray,
         Origin(n) = Origin(s), n # "ARITH1"
  PROVE  Fetched(n)'
<1>1. \A a : Held(a)' = Held(a)
  BY DEF Held
<1>2. IsPort(oldregs[7])' <=> IsPort(oldregs[7])
  BY DEF IsPort
<1>3. QED
  BY <1>1, <1>2 DEF Fetched

(* An instruction gets on, or the next one begins. *)
LEMMA InstrRise ==
  ASSUME BusInv, Aligned, Rise, NEW n \in Flops, BoardEdge(n), Instr(state), Request(state),
         oldregs \in [0 .. 7 -> Word]
  PROVE  Instr(n)'
<1>1. /\ De0TypeOK /\ mqval \in Word /\ irlat \in Word /\ rq \in [0 .. 7 -> Word]
      /\ nsintoclk = "rise" /\ MemoryOK
  BY DEF BusInv, SimTypeOK, De0TypeOK, Rise, Going
<1>2. /\ state \in Flops \ {"RESET0", "RESET1"} /\ q = {state} /\ Leads(n)
      /\ n \in Flops \ {"RESET0", "RESET1"}
      /\ RegsEdge(state, mqval)
      /\ n = "FETCH1" => oldregs' = rq'
      /\ n \notin {"FETCH1", "IREQ1"} => oldregs' = oldregs
  BY DEF BoardEdge
<1>3. state \notin Gives => memarray' = memarray
  BY <1>2, Finished
<1>4. CASE n \in {"FETCH1", "IREQ1", "IREQ2", "IREQ3", "IREQ4", "IREQ5"}
  BY <1>2, <1>4 DEF Instr, InProgress, Decoded
<1>5. CASE state = "FETCH1"
  <2>1. n = "FETCH2" /\ rq' = rq /\ oldregs' = oldregs
    BY <1>2, <1>5 DEF Leads, Onward, RegsEdge
  <2>2. QED
    BY <1>5, <2>1 DEF Instr, InProgress, Decoded
<1>6. CASE state = "FETCH2"
  <2>1. /\ n = Decode(irlat') /\ n \in Decoded /\ (n = "ARITH1" => ~BadAlu(irlat'))
        /\ irlat' = mqval /\ rq' = [rq EXCEPT ![7] = AddW(rq[7], 2)] /\ oldregs' = oldregs
        /\ rq = oldregs
    BY <1>2, <1>6 DEF Leads, RegsEdge, Instr, Decoded
  <2>2. oldregs[7] % 2 = 0 /\ irlat' = Held(oldregs[7])
    BY <1>1, <1>6, <2>1, Got DEF Takes, AskedWord, Asked
  <2>3. Held(oldregs[7])' = Held(oldregs[7])
    BY <1>3, <1>6, <2>1 DEF Gives, Held
  <2>4. Origin(n) = n
    BY <2>1 DEF Origin, Decoded
  <2>5. Fetched(n)'
    BY <1>1, <2>1, <2>2, <2>3, <2>4 DEF Fetched
  <2>6. rq' = Past'
    BY <2>1 DEF Past
  <2>7. QED
    BY <2>1, <2>5, <2>6 DEF Instr, InProgress, Decoded
<1>7. CASE state \in {"STORE1", "LOAD1", "IRET1"}
  <2>1. /\ n = Onward[state] /\ n \in {"STORE2", "LOAD2", "IRET2"} /\ rq' = rq
        /\ irlat' = irlat /\ oldregs' = oldregs /\ rq = Past /\ Fetched(state)
    BY <1>2, <1>7 DEF Leads, Onward, RegsEdge, Instr, InProgress, Decoded
  <2>2. memarray' = memarray /\ Origin(n) = Origin(state)
    BY <1>3, <1>7, <2>1 DEF Gives, Origin, Onward
  <2>3. Fetched(n)'
    BY <2>1, <2>2, FetchedStays
  <2>4. QED
    BY <2>1, <2>3 DEF Instr, InProgress, Past
<1>8. CASE state = "LOAD2" /\ n = "LOAD3"
  <2>1. /\ LoadImmediate(irlat) /\ irlat' = irlat /\ oldregs' = oldregs /\ rq = Past
        /\ Fetched(state) /\ rq' = [rq EXCEPT ![RegD(irlat)] = LoadedWord(irlat, mqval)]
    BY <1>2, <1>8 DEF Leads, RegsEdge, Instr, InProgress
  <2>2. memarray' = memarray /\ Origin(n) = Origin(state)
    BY <1>3, <1>8 DEF Gives, Origin
  <2>3. Fetched(n)'
    BY <1>8, <2>1, <2>2, FetchedStays
  <2>4. /\ LoadedWord(irlat, mqval) = LoadsFrom(irlat, Past) /\ WordLoad(irlat, Past)
    BY <1>1, <1>8, <2>1, Got DEF Takes, AskedWord, Asked, LoadsFrom, WordLoad
  <2>5. LoadedWord(irlat, mqval) \in Word
    <3>1. De0TypeOK' /\ RegD(irlat) \in 0 .. 7
      BY <1>1, RiseBus, Fields DEF BusInv
    <3>2. rq'[RegD(irlat)] = LoadedWord(irlat, mqval)
      BY <1>1, <2>1, <3>1
    <3>3. QED
      BY <3>1, <3>2 DEF De0TypeOK
  <2>6. \A i, r : LoadsFrom(i, r)' = LoadsFrom(i, r)
    BY <2>2 DEF LoadsFrom, readbyte, Held
  <2>7. Past' = Past
    BY <2>1 DEF Past
  <2>8. Immediate'
    BY <2>1, <2>4, <2>5, <2>6, <2>7 DEF Immediate, IsPort, WordLoad
  <2>9. QED
    BY <1>8, <2>3, <2>8 DEF Instr, InProgress, Decoded
<1>9. CASE state = "IRET2"
  <2>1. /\ n = "IRET3" /\ irlat' = irlat /\ oldregs' = oldregs /\ rq = Past
        /\ Fetched(state) /\ rq' = [rq EXCEPT ![7] = mqval]
    BY <1>2, <1>9 DEF Leads, RegsEdge, Instr, InProgress
  <2>2. memarray' = memarray /\ Origin(n) = Origin(state)
    BY <1>3, <1>9, <2>1 DEF Gives, Origin
  <2>3. Fetched(n)'
    BY <2>1, <2>2, FetchedStays
  <2>4. mqval = Held(SavedPc)
    BY <1>1, <1>9, Got DEF Takes, AskedWord, Asked
  <2>5. Held(SavedPc)' = Held(SavedPc) /\ Past' = Past
    BY <2>1, <2>2 DEF Held, Past, SavedPc
  <2>6. rq' = [Past' EXCEPT ![7] = Held(SavedPc)']
    BY <2>1, <2>4, <2>5
  <2>7. QED
    BY <2>1, <2>3, <2>6 DEF Instr, InProgress, Decoded
<1>10. CASE state = "IRET3"
  <2>1. /\ n = "IRET4" /\ irlat' = irlat /\ oldregs' = oldregs
        /\ Fetched(state) /\ rq' = rq /\ rq = [Past EXCEPT ![7] = Held(SavedPc)]
    BY <1>2, <1>10 DEF Leads, Onward, RegsEdge, Instr
  <2>2. memarray' = memarray /\ Origin(n) = Origin(state)
    BY <1>3, <1>10, <2>1 DEF Gives, Origin
  <2>3. Fetched(n)'
    BY <2>1, <2>2, FetchedStays
  <2>4. Held(SavedPc)' = Held(SavedPc) /\ Past' = Past
    BY <2>1, <2>2 DEF Held, Past, SavedPc
  <2>5. rq' = [Past' EXCEPT ![7] = Held(SavedPc)']
    BY <2>1, <2>4
  <2>6. QED
    BY <2>1, <2>3, <2>5 DEF Instr, InProgress, Decoded
<1>11. QED
  <2>1. \/ n \in {"FETCH1", "IREQ1", "IREQ2", "IREQ3", "IREQ4", "IREQ5"}
        \/ state \in {"FETCH1", "FETCH2", "STORE1", "LOAD1", "IRET1", "IRET2", "IRET3"}
        \/ state = "LOAD2" /\ n = "LOAD3"
    BY <1>2 DEF Leads, Onward, Lasting, Flops
  <2>2. QED
    BY <1>4, <1>5, <1>6, <1>7, <1>8, <1>9, <1>10, <2>1

ExecInv == BusInv /\ Exec

LEMMA OldRegs ==
  ASSUME BusInv, Rise, oldregs \in [0 .. 7 -> Word]
  PROVE  oldregs' \in [0 .. 7 -> Word]
<1>1. rq' \in [0 .. 7 -> Word]
  BY RiseBus DEF BusInv, De0TypeOK
<1>2. QED
  BY <1>1 DEF Rise

LEMMA AtRest == ASSUME CoreRunning, Exec PROVE q = {state} /\ Instr(state) /\ Request(state)
<1>1. PICK s \in Flops : q = {s} /\ Instr(s) /\ Request(s)
  BY DEF Exec
<1>2. s = state
  BY <1>1 DEF CoreRunning, Core
<1>3. QED
  BY <1>1, <1>2

(* An edge of the clock that does not come out of reset is one of these. *)
LEMMA RunningRise ==
  ASSUME ExecInv, Aligned, Rise, ~ResetPhase
  PROVE  /\ Instr(state) /\ Request(state)
         /\ CoreRunning' \/ Diverged'
         /\ \E n \in Flops : BoardEdge(n) /\ Instr(n)' /\ Request(n)'
<1>1. BusInv /\ CoreRunning /\ oldregs \in [0 .. 7 -> Word]
  BY DivergedCaught DEF ExecInv, Exec, Rise
<1>2. q = {state} /\ Instr(state) /\ Request(state)
  BY <1>1, AtRest DEF ExecInv
<1>3. state = "ARITH1" => ~BadAlu(irlat)
  BY <1>2 DEF Instr, InProgress, Decoded, Fetched
<1>4. CoreRunning' \/ Diverged'
  BY <1>1, <1>3, CoreRise
<1>5. PICK n \in Flops : BoardEdge(n)
  BY <1>1, <1>3, CoreRise
<1>6. Request(n)'
  BY <1>1, <1>5, AskedRise
<1>7. Instr(n)'
  BY <1>1, <1>2, <1>5, InstrRise
<1>8. QED
  BY <1>2, <1>4, <1>5, <1>6, <1>7

LEMMA ResetExec ==
  ASSUME ExecInv, Rise, ResetPhase
  PROVE  Exec'
<1>1. BusInv /\ oldregs \in [0 .. 7 -> Word] /\ oldregs' \in [0 .. 7 -> Word]
  BY OldRegs DEF ExecInv, Exec
<1>2. CASE state = "RESET0"
  <2>1. ResetPhase' /\ state' = "RESET1"
    BY <1>1, <1>2, ResetRise
  <2>2. q' = {"RESET1"} /\ ~savemwrite'
    BY <2>1 DEF ResetPhase
  <2>3. "RESET1" \in Flops /\ Instr("RESET1")' /\ Request("RESET1")'
    BY <2>2 DEF Flops, Instr, InProgress, Decoded, Request, Gives, Takes
  <2>4. QED
    BY <1>1, <2>1, <2>2, <2>3 DEF Exec
<1>3. CASE state = "RESET1"
  <2>1. /\ state' = "FETCH1" /\ Core' /\ ShadowTypeOK' /\ ~fatal'
    BY <1>1, <1>3, ResetRise
  <2>2. CoreRunning' /\ q' = {"FETCH1"}
    BY <2>1 DEF CoreRunning, Core
  <2>3. oldregs' = rq'
    BY <2>1 DEF Rise
  <2>4. ~savemwrite'
    <3>1. ~Ctl("MEM_WRITE")
      BY <1>3, NeededIs DEF ResetPhase, Flops
    <3>2. QED
      BY <3>1 DEF Rise, LatchRequest
  <2>5. "FETCH1" \in Flops /\ Instr("FETCH1")' /\ Request("FETCH1")'
    BY <2>3, <2>4 DEF Flops, Instr, InProgress, Decoded, Request, Gives, Takes
  <2>6. QED
    BY <1>1, <2>2, <2>5 DEF Exec
<1>4. QED
  BY <1>2, <1>3 DEF ResetPhase

LEMMA RiseExec == ASSUME ExecInv, Aligned, Rise PROVE Exec'
<1>1. CASE ResetPhase
  BY <1>1, ResetExec
<1>2. CASE ~ResetPhase
  <2>1. oldregs' \in [0 .. 7 -> Word]
    BY OldRegs DEF ExecInv, Exec
  <2>2. CoreRunning' \/ Diverged'
    BY <1>2, RunningRise
  <2>3. PICK n \in Flops : BoardEdge(n) /\ Instr(n)' /\ Request(n)'
    BY <1>2, RunningRise
  <2>4. q' = {n}
    BY <2>3 DEF BoardEdge
  <2>5. QED
    BY <2>1, <2>2, <2>3, <2>4 DEF Exec
<1>3. QED
  BY <1>1, <1>2

(* The instruction waits while the rest of the period goes by. *)
Waits ==
    /\ UNCHANGED <<shadowVars, de0Vars, oldregs, memarray, savemwrite, savemword, savemaddr,
                   intreq>>
    /\ nsintoclk' = "rise" =>
         \/ nsintoclk = "rise" /\ UNCHANGED mqval
         \/ /\ nsintoclk # "rise"
            /\ savemread => mqval' = IF savemword THEN readword(savemaddr) ELSE readbyte(savemaddr)

LEMMA WaitsExec == ASSUME ExecInv, Waits PROVE Exec'
<1>1. PICK s \in Flops : q = {s} /\ Instr(s) /\ Request(s)
  BY DEF ExecInv, Exec
<1>2. q' = {s} /\ oldregs' \in [0 .. 7 -> Word]
  BY <1>1 DEF Waits, de0Vars, ExecInv, Exec
<1>3. ResetPhase' \/ CoreRunning' \/ Diverged'
  <2>1. ResetPhase => ResetPhase'
    BY DEF Waits, ResetPhase, ShadowTypeOK, shadowVars, de0Vars
  <2>2. CoreRunning => CoreRunning'
    BY DEF Waits, CoreRunning, Core, ShadowTypeOK, shadowVars, de0Vars
  <2>3. Diverged => Diverged'
    BY DEF Waits, Diverged, shadowVars, de0Vars
  <2>4. QED
    BY <2>1, <2>2, <2>3 DEF ExecInv, Exec
<1>4. /\ rq' = rq /\ irlat' = irlat /\ oldregs' = oldregs /\ memarray' = memarray
      /\ savemwrite' = savemwrite /\ savemword' = savemword /\ savemaddr' = savemaddr
  BY DEF Waits, de0Vars
<1>5. Instr(s)'
  <2>1. \A i, r : LoadsFrom(i, r)' = LoadsFrom(i, r)
    BY <1>4 DEF LoadsFrom, readbyte, Held
  <2>2. Held(SavedPc)' = Held(SavedPc) /\ Past' = Past /\ Held(oldregs[7])' = Held(oldregs[7])
    BY <1>4 DEF Held, Past, SavedPc
  <2>3. Fetched(s) => Fetched(s)'
    BY <1>4, <2>2 DEF Fetched, IsPort
  <2>4. Immediate => Immediate'
    BY <1>4, <2>1, <2>2 DEF Immediate, IsPort, WordLoad
  <2>5. QED
    BY <1>1, <1>4, <2>2, <2>3, <2>4 DEF Instr
<1>6. Request(s)'
  <2>1. Asked(s)' = Asked(s) /\ (AskedWord(s)' <=> AskedWord(s))
    BY <1>4 DEF Asked, AskedWord
  <2>2. readword(savemaddr)' = readword(savemaddr) /\ readbyte(savemaddr)' = readbyte(savemaddr)
    BY <1>4 DEF readword, readbyte, Held
  <2>3. s \in Takes /\ nsintoclk # "rise" => savemread
    <3>1. PICK t \in Flops : q = {t} /\ Answered(t)
      BY DEF ExecInv, BusInv
    <3>2. QED
      BY <1>1, <3>1 DEF Answered
  <2>4. ASSUME s \in Takes, nsintoclk' = "rise"
        PROVE  mqval' = IF savemword THEN readword(savemaddr) ELSE readbyte(savemaddr)
    BY <1>1, <2>3, <2>4 DEF Waits, Request
  <2>5. QED
    BY <1>1, <1>4, <2>1, <2>2, <2>4 DEF Request
<1>7. QED
  BY <1>1, <1>2, <1>3, <1>5, <1>6 DEF Exec

LEMMA OthersWait ==
  ASSUME Reject \/ Quarter \/ Fall \/ Halted \/ UNCHANGED netVars
  PROVE  Waits
  BY DEF Reject, Quarter, Fall, Halted, netVars, simVars, Waits, Going

LEMMA ExecStep == ExecInv /\ Aligned /\ [NetNext]_netVars => ExecInv'
<1> SUFFICES ASSUME ExecInv, Aligned, [NetNext]_netVars PROVE ExecInv'
  OBVIOUS
<1>1. BusInv'
  BY BusStep DEF ExecInv
<1>2. CASE Rise
  BY <1>1, <1>2, RiseExec DEF ExecInv
<1>3. CASE ~Rise
  <2>1. Waits
    BY <1>3, OthersWait DEF NetNext
  <2>2. QED
    BY <1>1, <2>1, WaitsExec DEF ExecInv
<1>4. QED
  BY <1>2, <1>3

LEMMA ExecStarts == NetInit => ExecInv
<1> SUFFICES ASSUME NetInit PROVE ExecInv
  OBVIOUS
<1>1. BusInv
  BY BusStarts
<1>2. 0 \in Word
  BY TopCleared
<1>3. ShadowTypeOK
  BY <1>2 DEF NetInit, ShadowInit, ShadowTypeOK, States
<1>4. ResetPhase
  BY <1>3 DEF ResetPhase, NetInit, ShadowInit
<1>5. oldregs \in [0 .. 7 -> Word]
  BY <1>2 DEF NetInit
<1>6. "RESET0" \in Flops /\ Instr("RESET0") /\ Request("RESET0") /\ q = {"RESET0"}
  BY DEF NetInit, Flops, Instr, InProgress, Decoded, Request, Gives, Takes
<1>7. QED
  BY <1>1, <1>4, <1>5, <1>6 DEF ExecInv, Exec
-----------------------------------------------------------------------------
(* The operators that Isa takes from the processor model are those of NetSim:
   the instances differ in the variables of the model, which none of these reads. *)
LEMMA WordOps ==
  /\ \A w, i : I!S!Bit(w, i) = Bit(w, i)
  /\ \A w, i : I!S!IsSet(w, i) <=> IsSet(w, i)
  /\ \A b : I!S!Num(b) = Num(b)
  /\ \A a, b : I!S!AddW(a, b) = AddW(a, b)
  /\ \A a : I!S!NotW(a) = NotW(a)
  /\ \A a : I!S!Signed(a) = Signed(a)
  /\ \A a, k : I!S!Field3(a, k) = Field3(a, k)
  /\ \A a, k : I!S!SextAt(a, k) = SextAt(a, k)
  /\ I!S!WordSize = WordSize
  BY DEF I!S!Bit, Bit, I!S!Pow2, Pow2, I!S!IsSet, IsSet, I!S!Num, Num, I!S!AddW, AddW,
         I!S!WordSize, WordSize, I!S!NotW, NotW, I!S!Signed, Signed, I!S!Field3, Field3,
         I!S!SextAt, SextAt

LEMMA BitOps ==
  \A a, b : /\ I!S!OrW(a, b) = OrW(a, b)
            /\ I!S!AndW(a, b) = AndW(a, b)
            /\ I!S!XorW(a, b) = XorW(a, b)
<1> TAKE a, b
<1>1. \A f : I!S!FromBits(f) = FromBits(f)
  BY DEF I!S!FromBits, FromBits
<1>2. [i \in 0 .. 15 |-> I!S!Num(I!S!IsSet(a, i) \/ I!S!IsSet(b, i))]
      = [i \in 0 .. 15 |-> Num(IsSet(a, i) \/ IsSet(b, i))]
  <2>1. \A i : I!S!Num(I!S!IsSet(a, i) \/ I!S!IsSet(b, i)) = Num(IsSet(a, i) \/ IsSet(b, i))
    BY WordOps DEF I!S!Num, Num
  <2>2. QED
    BY <2>1, Zenon
<1>3. [i \in 0 .. 15 |-> I!S!Bit(a, i) * I!S!Bit(b, i)] = [i \in 0 .. 15 |-> Bit(a, i) * Bit(b, i)]
  BY WordOps, Zenon
<1>4. [i \in 0 .. 15 |-> (I!S!Bit(a, i) + I!S!Bit(b, i)) % 2]
      = [i \in 0 .. 15 |-> (Bit(a, i) + Bit(b, i)) % 2]
  BY WordOps, Zenon
<1>5. I!S!OrW(a, b) = OrW(a, b)
  BY <1>1, <1>2, Zenon DEF I!S!OrW, OrW
<1>6. I!S!AndW(a, b) = AndW(a, b)
  BY <1>1, <1>3, Zenon DEF I!S!AndW, AndW
<1>7. I!S!XorW(a, b) = XorW(a, b)
  BY <1>1, <1>4, Zenon DEF I!S!XorW, XorW
<1>8. QED
  BY <1>5, <1>6, <1>7

LEMMA SameResult ==
  \A i, a, b, p : AluOp(i) \in 0 .. 15 /\ ~BadAlu(i) =>
      I!S!ArithResult(i, a, b, p) = ArithResult(i, a, b, p)
<1> SUFFICES ASSUME NEW i, NEW a, NEW b, NEW p, AluOp(i) \in 0 .. 15, ~BadAlu(i)
             PROVE  I!S!ArithResult(i, a, b, p) = ArithResult(i, a, b, p)
  OBVIOUS
<1>1. /\ I!S!AluOp(i) = AluOp(i) /\ I!S!CarryUsed(i, p) = CarryUsed(i, p)
      /\ I!S!Signed(a) = Signed(a) /\ I!S!Signed(b) = Signed(b)
  BY WordOps DEF I!S!CarryUsed, CarryUsed, I!S!AluOp, AluOp
<1>2. /\ I!S!AddW(b, 1) = AddW(b, 1) /\ I!S!NotW(b) = NotW(b)
      /\ I!S!OrW(a, b) = OrW(a, b) /\ I!S!AndW(a, b) = AndW(a, b) /\ I!S!XorW(a, b) = XorW(a, b)
      /\ I!S!Bit(p, 0) = Bit(p, 0) /\ I!S!WordSize = WordSize
  BY WordOps, BitOps
<1>3. AluOp(i) \in {0, 1, 2, 4, 5, 6, 7, 8, 9, 10, 12, 13, 14, 15}
  BY DEF BadAlu
<1>4. QED
  BY ONLY <1>1, <1>2, <1>3, SMT DEF I!S!ArithResult, ArithResult

LEMMA SameFlags ==
  \A i, a, b, p : /\ I!S!ArithOverflow(i, a, b, p) <=> ArithOverflow(i, a, b, p)
                  /\ I!S!ArithCarry(i, a, b, p) = ArithCarry(i, a, b, p)
  BY WordOps, BitOps DEF I!S!ArithOverflow, ArithOverflow, I!S!ArithCarry, ArithCarry,
         I!S!CarryUsed, CarryUsed, I!S!AluOp, AluOp, I!S!Overflow, Overflow

LEMMA SameArithOps ==
  \A i, a, b, p : AluOp(i) \in 0 .. 15 /\ ~BadAlu(i) =>
      I!S!Arith(i, a, b, p) = Arith(i, a, b, p)
<1> SUFFICES ASSUME NEW i, NEW a, NEW b, NEW p, AluOp(i) \in 0 .. 15, ~BadAlu(i)
             PROVE  I!S!Arith(i, a, b, p) = Arith(i, a, b, p)
  OBVIOUS
<1> DEFINE r == ArithResult(i, a, b, p)
           v == Num(ArithOverflow(i, a, b, p))
           c == ArithCarry(i, a, b, p)
           z == Num(r = 0)
           x == Bit(p, 15)
           y == Bit(r, 15)
<1>1. /\ I!S!ArithResult(i, a, b, p) = r
      /\ I!S!Num(I!S!ArithOverflow(i, a, b, p)) = v
      /\ I!S!ArithCarry(i, a, b, p) = c
      /\ I!S!Num(r = 0) = z /\ I!S!Bit(p, 15) = x /\ I!S!Bit(r, 15) = y
  BY WordOps, SameResult, SameFlags
<1> HIDE DEF r, v, c, z, x, y
<1>2. Arith(i, a, b, p) = [res |-> r, psw |-> 32768 * x + 8 * y + 4 * z + 2 * v + c]
  BY DEF Arith, r, v, c, z, x, y
<1>3. I!S!Arith(i, a, b, p) = [res |-> r, psw |-> 32768 * x + 8 * y + 4 * z + 2 * v + c]
  BY <1>1 DEF I!S!Arith
<1>4. QED
  BY <1>2, <1>3

LEMMA SameFields ==
  ASSUME NEW i \in Word
  PROVE  /\ I!S!RegA(i) = RegA(i) /\ I!S!RegB(i) = RegB(i) /\ I!S!RegD(i) = RegD(i)
         /\ I!S!LsOffset(i) = LsOffset(i) /\ I!S!BrOffset(i) = BrOffset(i)
         /\ I!S!Decode(i) = Decode(i)
         /\ I!S!BadAlu(i) <=> BadAlu(i)
         /\ I!S!ByteAccess(i) <=> ByteAccess(i)
         /\ I!S!LoadImmediate(i) <=> LoadImmediate(i)
         /\ \A w : I!S!LoadedWord(i, w) = LoadedWord(i, w)
         /\ \A p : I!S!BranchTrue(i, p) <=> BranchTrue(i, p)
<1>1. /\ I!S!RegA(i) = RegA(i) /\ I!S!RegB(i) = RegB(i) /\ I!S!RegD(i) = RegD(i)
      /\ I!S!LsOffset(i) = LsOffset(i) /\ I!S!BrOffset(i) = BrOffset(i)
      /\ I!S!BadAlu(i) <=> BadAlu(i)
      /\ I!S!ByteAccess(i) <=> ByteAccess(i)
  BY WordOps DEF I!S!RegA, RegA, I!S!RegB, RegB, I!S!RegD, RegD, I!S!LsOffset, LsOffset,
      I!S!BrOffset, BrOffset, I!S!BadAlu, BadAlu, I!S!AluOp, AluOp, I!S!ByteAccess, ByteAccess
<1>2. I!S!Decode(i) = Decode(i)
  <2>1. I!S!SpecialState(i) = SpecialState(i) /\ (I!S!Special(i) <=> Special(i))
    BY WordOps DEF I!S!Special, Special, I!S!SpecialState, SpecialState
  <2>2. I!S!Field3(i, 13) = Field3(i, 13)
    BY WordOps
  <2>3. Field3(i, 13) \in 0 .. 7
    BY FieldBits
  <2>4. QED
    BY <2>1, <2>2, <2>3 DEF I!S!Decode, Decode
<1>3. I!S!LoadImmediate(i) <=> LoadImmediate(i)
  BY <1>1 DEF I!S!LoadImmediate, LoadImmediate
<1>4. \A w : I!S!LoadedWord(i, w) = LoadedWord(i, w)
  BY <1>1, WordOps DEF I!S!LoadedWord, LoadedWord
<1>5. \A p : I!S!BranchTrue(i, p) <=> BranchTrue(i, p)
  BY WordOps DEF I!S!BranchTrue, BranchTrue, I!S!BranchBase, BranchBase
<1>6. QED
  BY <1>1, <1>2, <1>3, <1>4, <1>5

LEMMA SameStatus ==
  ASSUME NEW w
  PROVE  I!S!LoadPsw(w) = LoadPsw(w) /\ (I!S!IrqEnabled(w) <=> IrqEnabled(w))
  BY WordOps DEF I!S!LoadPsw, LoadPsw, I!S!IrqEnabled, IrqEnabled

LEMMA SameAdd == \A a, b : I!AddW(a, b) = AddW(a, b)
  BY DEF I!AddW, AddW, I!WordSize, WordSize

LEMMA SameWord == I!Word = Word
  BY DEF I!Word, Word, I!WordSize, WordSize
-----------------------------------------------------------------------------
(* The instructions of Isa in the words of this module.  Ahead are the registers
   with the program counter past the opcode. *)
Ahead == [IsaRegs EXCEPT ![7] = AddW(IsaRegs[7], 2)]

LEMMA AheadIs == I!R = Ahead
  BY SameAdd DEF I!R, I!Next_pc, Ahead

LEMMA PortIs == \A a : (I!Even(a) = I!IoPort) <=> IsPort(a)
  BY DEF I!Even, I!IoPort, IsPort, Even, MAGIC

(* Even addresses and the bytes in them. *)
LEMMA EvenIs ==
  ASSUME NEW a \in Word
  PROVE  /\ a % 2 \in {0, 1}
         /\ a % 2 = 0 => Even(a) = a
         /\ a % 2 # 0 => Even(a) = a - 1
         /\ Even(a) \in Word /\ Even(a) % 2 = 0
<1>1. a \in Int
  BY WordIs
<1>2. a % 2 \in {0, 1}
  BY ONLY <1>1
<1>3. (a % 2 = 0 => Even(a) = a) /\ (a % 2 # 0 => Even(a) = a - 1)
  BY <1>1, <1>2 DEF Even
<1>4. Even(a) \in Word /\ Even(a) % 2 = 0
  BY EvenWord
<1>5. QED
  BY <1>2, <1>3, <1>4

LEMMA MemoryViews ==
  ASSUME IsaMem = Mem(memarray)
  PROVE  /\ \A a \in Word : a % 2 = 0 /\ ~IsPort(a) => I!WordOf(a) = Held(a)
         /\ \A a \in Word : ~IsPort(a) => I!ByteOf(a) = readbyte(a)
<1>1. \A a : a # MAGIC => I!WordOf(a) = Held(a)
  BY DEF I!WordOf, Held, Mem
<1>2. \A a \in Word : a % 2 = 0 /\ ~IsPort(a) => I!WordOf(a) = Held(a)
  BY <1>1, EvenIs DEF IsPort
<1>3. ASSUME NEW a \in Word, ~IsPort(a) PROVE I!ByteOf(a) = readbyte(a)
  <2>1. CASE a % 2 = 0
    BY <1>2, <1>3, <2>1 DEF I!ByteOf, readbyte
  <2>2. CASE a % 2 # 0
    <3>1. Even(a) = a - 1 /\ Even(a) # MAGIC
      BY <1>3, <2>2, EvenIs DEF IsPort
    <3>2. I!WordOf(a - 1) = Held(Even(a))
      BY <1>1, <3>1
    <3>3. QED
      BY <2>2, <3>2 DEF I!ByteOf, readbyte
  <2>3. QED
    BY <2>1, <2>2
<1>4. QED
  BY <1>2, <1>3

(* What a store does to the memory that Isa sees. *)
LEMMA StoreViews ==
  ASSUME NEW a \in Word, NEW w \in Word, IsaMem = Mem(memarray), IsaMem' = Mem(memarray'), MemoryOK
  PROVE  /\ IsPort(a) /\ (memarray' = WrittenWord(a, w) \/ memarray' = WrittenByte(a, w)) =>
              IsaMem' = IsaMem
         /\ ~IsPort(a) /\ a % 2 = 0 /\ memarray' = WrittenWord(a, w) => I!StoreWord(a, w)
         /\ ~IsPort(a) /\ memarray' = WrittenByte(a, w) => I!StoreByte(a, w)
<1>1. \A x : IsPort(a) /\ memarray' = With(Even(a), x) => IsaMem' = IsaMem
  BY DEF IsPort, With, Mem
<1>2. \A b, x : b # MAGIC /\ memarray' = With(b, x) => IsaMem' = I!Stored(b, x)
  BY DEF With, Mem, I!Stored
<1>3. ASSUME ~IsPort(a), a % 2 = 0, memarray' = WrittenWord(a, w) PROVE I!StoreWord(a, w)
  BY <1>2, <1>3, EvenIs DEF I!StoreWord, WrittenWord, IsPort
<1>4. ASSUME ~IsPort(a), memarray' = WrittenByte(a, w) PROVE I!StoreByte(a, w)
  <2>1. I!Even(a) = Even(a) /\ Even(a) # MAGIC /\ Even(a) \in Word
    BY <1>4, EvenIs DEF I!Even, Even, IsPort
  <2>2. CASE a % 2 = 0
    <3>1. I!WordOf(a) = Held(a) /\ Even(a) = a
      BY <1>4, <2>2, MemoryViews, EvenIs
    <3>2. Held(a) \in Word
      BY ReadIsWord
    <3>3. PICK x \in Int, y \in Int : x = Held(a) \div 256 /\ y = w % 256
      BY <3>2, WordMath, WordIs
    <3>4. 256 * x + y = x * 256 + y
      OBVIOUS
    <3>5. memarray' = With(Even(a), x * 256 + y)
      BY <1>4, <2>2, <3>3, <3>4 DEF WrittenByte
    <3>6. IsaMem' = I!Stored(Even(a), x * 256 + y)
      BY <1>2, <2>1, <3>5
    <3>7. QED
      BY <2>1, <2>2, <3>1, <3>3, <3>6 DEF I!StoreByte
  <2>3. CASE a % 2 # 0
    <3>1. Even(a) = a - 1
      BY <2>3, EvenIs
    <3>2. I!WordOf(Even(a)) = Held(Even(a))
      <4>1. ~IsPort(Even(a)) /\ Even(a) % 2 = 0
        BY <2>1, EvenIs DEF IsPort
      <4>2. QED
        BY <2>1, <4>1, MemoryViews
    <3>3. Held(Even(a)) \in Word
      BY <2>1, ReadIsWord
    <3>4. PICK x \in Int, y \in Int : x = Held(Even(a)) % 256 /\ y = w % 256
      BY <3>3, WordMath, WordIs
    <3>5. 256 * y + x = x + 256 * y
      OBVIOUS
    <3>6. memarray' = With(Even(a), x + 256 * y)
      BY <1>4, <2>3, <3>4, <3>5 DEF WrittenByte
    <3>7. IsaMem' = I!Stored(Even(a), x + 256 * y)
      BY <1>2, <2>1, <3>6
    <3>8. QED
      BY <2>1, <2>3, <3>1, <3>2, <3>4, <3>7 DEF I!StoreByte
  <2>4. QED
    BY <2>2, <2>3
<1>5. QED
  BY <1>1, <1>3, <1>4 DEF WrittenWord, WrittenByte

(* One of these, for an opcode the program counter points to, is a step of Isa. *)
Entering == On("IREQ1") \/ On("IREQ2")

LEMMA InstructionForm ==
  ASSUME NEW op \in I!Opcodes,
         \/ I!Branch(op) \/ I!Arithmetic(op) \/ I!LoadAddress(op) \/ I!Store(op) \/ I!Load(op)
         \/ I!WritePsw(op) \/ I!ReadPsw(op) \/ I!Halt(op) \/ I!Iret(op),
         ~Entering, Entering' => IrqEnabled(IsaPsw)
  PROVE  I!Next
<1>1. Entering' \in BOOLEAN
  BY DEF Entering, On
<1>2. QED
  BY <1>1, SameStatus DEF I!Next, I!Instruction, Entering

LEMMA BranchForm ==
  ASSUME NEW op \in Word, Decode(op) = "BCC1", IsaRegs \in [0 .. 7 -> Word],
         IsaRegs' = IF BranchTrue(op, IsaPsw)
                    THEN [Ahead EXCEPT ![7] = AddW(Ahead[7], BrOffset(op))]
                    ELSE Ahead,
         IsaPsw' = IsaPsw, IsaMem' = IsaMem
  PROVE  I!Branch(op)
<1>1. I!Next_pc = Ahead[7]
  BY SameAdd DEF I!Next_pc, Ahead
<1>2. QED
  BY <1>1, AheadIs, SameAdd, SameFields DEF I!Branch, I!Put, I!Advance

LEMMA ArithForm ==
  ASSUME NEW op \in Word, Decode(op) = "ARITH1", ~BadAlu(op),
         NEW a, a = Ahead[RegA(op)], NEW b, b = Ahead[RegB(op)],
         IsaRegs' = IF RegD(op) # 7 THEN [Ahead EXCEPT ![RegD(op)] = ArithResult(op, a, b, IsaPsw)]
                    ELSE Ahead,
         IsaPsw' = LoadPsw(Arith(op, a, b, IsaPsw).psw), IsaMem' = IsaMem
  PROVE  I!Arithmetic(op)
<1>1. AluOp(op) \in 0 .. 15
  <2>1. op \in Int
    BY WordIs
  <2>2. QED
    BY <2>1 DEF AluOp
<1>2. I!S!Arith(op, a, b, IsaPsw) = Arith(op, a, b, IsaPsw)
  BY <1>1, SameArithOps
<1>3. Arith(op, a, b, IsaPsw).res = ArithResult(op, a, b, IsaPsw)
  BY DEF Arith
<1>4. QED
  BY <1>2, <1>3, AheadIs, SameFields, SameStatus DEF I!Arithmetic, I!Put, I!Advance

LEMMA LoadForm ==
  ASSUME NEW op \in Word, Decode(op) = "LOAD1", IsaRegs \in [0 .. 7 -> Word],
         IsaMem = Mem(memarray), NEW w,
         Address(op, Ahead) \in Word, WordLoad(op, Ahead),
         ~IsPort(Address(op, Ahead)) => w = LoadsFrom(op, Ahead),
         IsaRegs' = [IF LoadImmediate(op) THEN [Ahead EXCEPT ![7] = AddW(Ahead[7], 2)] ELSE Ahead
                     EXCEPT ![RegD(op)] = w],
         IsaPsw' = IsaPsw, IsaMem' = IsaMem
  PROVE  I!Load(op)
<1> DEFINE a == Address(op, Ahead)
           d == RegD(op)
<1>1. I!Address(op) = a
  BY AheadIs, SameAdd, SameFields DEF I!Address, Address
<1>2. (I!Even(a) = I!IoPort) <=> IsPort(a)
  BY PortIs
<1>3. d \in 0 .. 7 /\ Ahead \in [0 .. 7 -> Word]
  <2>1. IsaRegs[7] \in Int /\ 2 \in Int
    BY WordIs
  <2>2. AddW(IsaRegs[7], 2) \in Word
    BY <2>1, AddWIs
  <2>3. d \in 0 .. 7
    BY Fields
  <2>4. QED
    BY <2>2, <2>3 DEF Ahead
<1>4. ~IsPort(a) =>
        I!S!LoadedWord(op, IF I!S!ByteAccess(op) THEN I!ByteOf(a) ELSE I!WordOf(a))
        = LoadsFrom(op, Ahead)
  BY SameFields, MemoryViews DEF LoadsFrom, WordLoad
<1>5. IsaRegs'[d] = w
  BY <1>3
<1> DEFINE v == IF I!Even(a) = I!IoPort THEN IsaRegs'[d]
                ELSE I!S!LoadedWord(op, IF I!S!ByteAccess(op) THEN I!ByteOf(a) ELSE I!WordOf(a))
<1>6. v = w
  BY <1>2, <1>4, <1>5
<1>7. I!S!LoadImmediate(op) <=> LoadImmediate(op)
  BY SameFields
<1>8. IsaRegs' = [I!R EXCEPT ![7] = IF I!S!LoadImmediate(op) THEN I!AddW(I!R[7], 2) ELSE I!R[7],
                             ![d] = v]
  <2> HIDE DEF v, d
  <2>1. I!AddW(I!R[7], 2) = AddW(Ahead[7], 2)
    BY SameAdd, AheadIs
  <2>2. CASE LoadImmediate(op)
    BY <1>3, <1>6, <1>7, <2>1, <2>2, AheadIs DEF d
  <2>3. CASE ~LoadImmediate(op)
    <3>1. [Ahead EXCEPT ![7] = Ahead[7]] = Ahead
      BY <1>3
    <3>2. QED
      BY <1>3, <1>6, <1>7, <2>3, <3>1, AheadIs DEF d
  <2>4. QED
    BY <2>2, <2>3
<1>9. I!S!Decode(op) = "LOAD1" /\ I!S!RegD(op) = d
  BY SameFields
<1>10. QED
  BY <1>1, <1>8, <1>9 DEF I!Load

LEMMA StoreForm ==
  ASSUME NEW op \in Word, Decode(op) = "STORE1", MemoryOK,
         IsaMem = Mem(memarray), IsaMem' = Mem(memarray'),
         NEW a \in Word, a = Address(op, Ahead), NEW w \in Word, w = Ahead[RegD(op)],
         IsaRegs' = Ahead, IsaPsw' = IsaPsw,
         ByteAccess(op) => memarray' = WrittenByte(a, w),
         ~ByteAccess(op) => a % 2 = 0 /\ memarray' = WrittenWord(a, w)
  PROVE  I!Store(op)
<1>1. I!Address(op) = a /\ I!R[I!S!RegD(op)] = w
  BY AheadIs, SameAdd, SameFields DEF I!Address, Address
<1>2. (I!Even(a) = I!IoPort) <=> IsPort(a)
  BY PortIs
<1>3. I!S!Decode(op) = "STORE1" /\ (I!S!ByteAccess(op) <=> ByteAccess(op))
  BY SameFields
<1>4. \/ I!Even(a) = I!IoPort /\ I!HostCall
      \/ I!Even(a) # I!IoPort /\ ~I!S!ByteAccess(op) /\ I!StoreWord(a, w)
      \/ I!Even(a) # I!IoPort /\ I!S!ByteAccess(op) /\ I!StoreByte(a, w)
  <2>1. CASE IsPort(a)
    <3>1. IsaMem' = IsaMem
      BY <2>1, StoreViews
    <3>2. QED
      BY <1>2, <2>1, <3>1 DEF I!HostCall
  <2>2. CASE ~IsPort(a)
    BY <1>2, <1>3, <2>2, StoreViews
  <2>3. QED
    BY <2>1, <2>2
<1>5. QED
  BY <1>1, <1>3, <1>4, AheadIs DEF I!Store, I!Advance

LEMMA OtherForms ==
  ASSUME NEW op \in Word
  PROVE  /\ /\ Decode(op) = "LDA1" /\ IsaRegs' = [Ahead EXCEPT ![RegD(op)] = Address(op, Ahead)]
            /\ IsaPsw' = IsaPsw /\ IsaMem' = IsaMem
            => I!LoadAddress(op)
         /\ /\ Decode(op) = "WRPS1" /\ IsaRegs' = Ahead
            /\ IsaPsw' = LoadPsw(Ahead[RegB(op)]) /\ IsaMem' = IsaMem
            => I!WritePsw(op)
         /\ /\ Decode(op) = "RDPS1" /\ IsaRegs' = [Ahead EXCEPT ![RegD(op)] = IsaPsw]
            /\ IsaPsw' = IsaPsw /\ IsaMem' = IsaMem
            => I!ReadPsw(op)
         /\ /\ Decode(op) = "HALT1" /\ IsaRegs' = Ahead
            /\ IsaPsw' = IsaPsw /\ IsaMem' = IsaMem
            => I!Halt(op)
<1>1. /\ Decode(op) = "LDA1" /\ IsaRegs' = [Ahead EXCEPT ![RegD(op)] = Address(op, Ahead)]
      /\ IsaPsw' = IsaPsw /\ IsaMem' = IsaMem
      => I!LoadAddress(op)
  BY AheadIs, SameAdd, SameFields DEF I!LoadAddress, I!Put, I!Address, Address
<1>2. /\ Decode(op) = "WRPS1" /\ IsaRegs' = Ahead
      /\ IsaPsw' = LoadPsw(Ahead[RegB(op)]) /\ IsaMem' = IsaMem
      => I!WritePsw(op)
  BY AheadIs, SameFields, SameStatus DEF I!WritePsw, I!Advance
<1>3. /\ Decode(op) = "RDPS1" /\ IsaRegs' = [Ahead EXCEPT ![RegD(op)] = IsaPsw]
      /\ IsaPsw' = IsaPsw /\ IsaMem' = IsaMem
      => I!ReadPsw(op)
  BY AheadIs, SameFields DEF I!ReadPsw, I!Put
<1>4. /\ Decode(op) = "HALT1" /\ IsaRegs' = Ahead
      /\ IsaPsw' = IsaPsw /\ IsaMem' = IsaMem
      => I!Halt(op)
  BY AheadIs, SameFields DEF I!Halt, I!Advance
<1>5. QED
  BY <1>1, <1>2, <1>3, <1>4

LEMMA IretForm ==
  ASSUME NEW op \in Word, Decode(op) = "IRET1", IsaMem = Mem(memarray),
         IsaRegs' = [IsaRegs EXCEPT ![7] = Held(SavedPc)],
         IsaPsw' = LoadPsw(Held(SavedPsw)), IsaMem' = IsaMem
  PROVE  I!Iret(op)
<1>1. I!WordOf(I!SavedPc) = Held(SavedPc) /\ I!WordOf(I!SavedPsw) = Held(SavedPsw)
  <2>1. I!SavedPc = SavedPc /\ I!SavedPsw = SavedPsw
    BY DEF I!SavedPc, SavedPc, I!SavedPsw, SavedPsw
  <2>2. SavedPc # MAGIC /\ SavedPsw # MAGIC
    BY DEF SavedPc, SavedPsw, MAGIC
  <2>3. QED
    BY <2>1, <2>2 DEF I!WordOf, Held, Mem
<1>2. I!S!LoadPsw(Held(SavedPsw)) = LoadPsw(Held(SavedPsw)) /\ I!S!Decode(op) = "IRET1"
  BY SameStatus, SameFields
<1>3. QED
  BY <1>1, <1>2 DEF I!Iret
-----------------------------------------------------------------------------
(* What Isa sees in state s of the sequencer, with registers r and the registers
   o that the instruction started from. *)
ShownRegs(s, r, o) ==
    IF s \in {"RESET0", "RESET1"} THEN [r EXCEPT ![7] = 0]
    ELSE IF s \in {"FETCH1", "IREQ1", "IREQ2"} THEN r
    ELSE IF s \in {"IREQ3", "IREQ4", "IREQ5"} THEN [r EXCEPT ![7] = 2]
    ELSE o

(* The status word as an interrupt entry leaves it. *)
Masked == PswOf(FALSE, nzvc)

LEMMA IsaPswIs ==
  IsaPsw = IF On("RESET0") \/ On("RESET1") THEN 32752
           ELSE IF Entered THEN Masked ELSE PswOf(ieff, nzvc)
  BY DEF IsaPsw, Masked

LEMMA Shown ==
  ASSUME NEW s, q = {s}
  PROVE  /\ IsaRegs = ShownRegs(s, rq, oldregs)
         /\ s \in {"RESET0", "RESET1"} => IsaPsw = 32752
         /\ s \in {"IREQ3", "IREQ4", "IREQ5"} => IsaPsw = Masked
         /\ s \notin {"RESET0", "RESET1", "IREQ3", "IREQ4", "IREQ5"} =>
              IsaPsw = PswOf(ieff, nzvc)
         /\ s \in {"IREQ3", "IREQ4"} => IsaMem = Mem(WrittenWord(SavedPc, rq[7]))
         /\ s \notin {"IREQ3", "IREQ4"} => IsaMem = Mem(memarray)
         /\ Entering <=> s \in {"IREQ1", "IREQ2"}
<1>1. \A t : On(t) <=> t = s
  BY DEF On
<1>2. Entered <=> s \in {"IREQ3", "IREQ4", "IREQ5"}
  BY <1>1 DEF Entered
<1>3. IsaRegs = ShownRegs(s, rq, oldregs)
  BY <1>1, <1>2 DEF IsaRegs, ShownRegs
<1>4. /\ s \in {"RESET0", "RESET1"} => IsaPsw = 32752
      /\ s \in {"IREQ3", "IREQ4", "IREQ5"} => IsaPsw = Masked
      /\ s \notin {"RESET0", "RESET1", "IREQ3", "IREQ4", "IREQ5"} =>
            IsaPsw = PswOf(ieff, nzvc)
  BY <1>1, <1>2, IsaPswIs
<1>5. /\ s \in {"IREQ3", "IREQ4"} => IsaMem = Mem(WrittenWord(SavedPc, rq[7]))
      /\ s \notin {"IREQ3", "IREQ4"} => IsaMem = Mem(memarray)
  BY <1>1 DEF IsaMem, SavedPc
<1>6. QED
  BY <1>1, <1>3, <1>4, <1>5 DEF Entering

LEMMA ShownNext ==
  ASSUME NEW n, q' = {n}
  PROVE  /\ IsaRegs' = ShownRegs(n, rq', oldregs')
         /\ n \in {"RESET0", "RESET1"} => IsaPsw' = 32752
         /\ n \in {"IREQ3", "IREQ4", "IREQ5"} => IsaPsw' = Masked'
         /\ n \notin {"RESET0", "RESET1", "IREQ3", "IREQ4", "IREQ5"} =>
              IsaPsw' = PswOf(ieff', nzvc')
         /\ n \in {"IREQ3", "IREQ4"} => IsaMem' = Mem(WrittenWord(SavedPc, rq[7])')
         /\ n \notin {"IREQ3", "IREQ4"} => IsaMem' = Mem(memarray')
         /\ Entering' <=> n \in {"IREQ1", "IREQ2"}
<1>1. \A t : On(t)' <=> t = n
  BY DEF On
<1>2. Entered' <=> n \in {"IREQ3", "IREQ4", "IREQ5"}
  BY <1>1 DEF Entered
<1>3. IsaRegs' = ShownRegs(n, rq', oldregs')
  BY <1>1, <1>2 DEF IsaRegs, ShownRegs
<1>4. IsaPsw' = IF On("RESET0")' \/ On("RESET1")' THEN 32752
                ELSE IF Entered' THEN Masked' ELSE PswOf(ieff', nzvc')
  BY DEF IsaPsw, Masked
<1>5. /\ n \in {"RESET0", "RESET1"} => IsaPsw' = 32752
      /\ n \in {"IREQ3", "IREQ4", "IREQ5"} => IsaPsw' = Masked'
      /\ n \notin {"RESET0", "RESET1", "IREQ3", "IREQ4", "IREQ5"} =>
            IsaPsw' = PswOf(ieff', nzvc')
  BY <1>1, <1>2, <1>4
<1>6. /\ n \in {"IREQ3", "IREQ4"} => IsaMem' = Mem(WrittenWord(SavedPc, rq[7])')
      /\ n \notin {"IREQ3", "IREQ4"} => IsaMem' = Mem(memarray')
  BY <1>1 DEF IsaMem, SavedPc
<1>7. QED
  BY <1>1, <1>3, <1>5, <1>6 DEF Entering

LEMMA MaskedIs ==
  ASSUME De0TypeOK
  PROVE  Masked = PswOf(ieff, nzvc) % 32768
<1>1. PICK off \in BOOLEAN : off = FALSE
  OBVIOUS
<1>2. PswOf(ieff, nzvc) % 32768 = PswOf(off, nzvc)
  BY <1>1, ClearIE DEF De0TypeOK, Flags
<1>3. Masked = PswOf(off, nzvc)
  BY <1>1, Zenon DEF Masked
<1>4. QED
  BY <1>2, <1>3

LEMMA MaskedNext ==
  ASSUME De0TypeOK'
  PROVE  Masked' = PswOf(ieff', nzvc') % 32768
<1>1. PICK off \in BOOLEAN : off = FALSE
  OBVIOUS
<1>2. PswOf(ieff', nzvc') % 32768 = PswOf(off, nzvc')
  BY <1>1, ClearIE DEF De0TypeOK, Flags
<1>3. Masked' = PswOf(off, nzvc')
  BY <1>1, Zenon DEF Masked
<1>4. QED
  BY <1>2, <1>3

(* The cycle in which an instruction takes effect. *)
Commits(n) ==
    /\ state \in InProgress \union {"LOAD3", "IRET4"}
    /\ n \in {"FETCH1", "IREQ1"}

LEMMA Commit ==
  ASSUME BusInv, NEW n \in Flops, BoardEdge(n), Commits(n), Fetched(state),
         oldregs \in [0 .. 7 -> Word]
  PROVE  /\ IsaRegs = oldregs /\ Ahead = Past
         /\ IsaRegs' = rq'
         /\ IsaPsw = PswOf(ieff, nzvc) /\ IsaPsw' = PswOf(ieff', nzvc')
         /\ IsaMem = Mem(memarray) /\ IsaMem' = Mem(memarray')
         /\ irlat \in I!Opcodes /\ irlat \in Word
         /\ ~Entering
         /\ Entering' => IrqEnabled(IsaPsw)
<1>1. q = {state} /\ q' = {n} /\ Leads(n)
  BY DEF BoardEdge
<1>2. /\ state \notin {"RESET0", "RESET1", "FETCH1", "IREQ1", "IREQ2", "IREQ3", "IREQ4", "IREQ5"}
      /\ n \in {"FETCH1", "IREQ1"}
  BY DEF Commits, InProgress, Decoded
<1>3. /\ IsaRegs = oldregs /\ IsaMem = Mem(memarray) /\ ~Entering
      /\ IsaPsw = PswOf(ieff, nzvc)
  BY <1>1, <1>2, Shown DEF ShownRegs
<1>4. /\ IsaRegs' = rq' /\ IsaMem' = Mem(memarray')
      /\ Entering' <=> n = "IREQ1"
      /\ IsaPsw' = PswOf(ieff', nzvc')
  BY <1>1, <1>2, ShownNext DEF ShownRegs
<1>5. Ahead = Past
  BY <1>3 DEF Ahead, Past
<1>6. irlat \in I!Opcodes /\ irlat \in Word
  <2>1. /\ irlat \in Word
        /\ ~IsPort(oldregs[7]) => oldregs[7] % 2 = 0 /\ irlat = Held(oldregs[7])
    BY DEF Fetched
  <2>2. oldregs[7] \in Word
    OBVIOUS
  <2>3. ~IsPort(oldregs[7]) => irlat = I!WordOf(IsaRegs[7])
    BY <1>3, <2>1, <2>2, MemoryViews
  <2>4. (I!Even(IsaRegs[7]) = I!IoPort) <=> IsPort(oldregs[7])
    BY <1>3, PortIs
  <2>5. I!Opcodes = IF I!Even(IsaRegs[7]) = I!IoPort THEN I!Word ELSE {I!WordOf(IsaRegs[7])}
    BY DEF I!Opcodes, I!Even
  <2>6. QED
    BY <2>1, <2>3, <2>4, <2>5, SameWord
<1>7. n = "IREQ1" => IrqEnabled(PswOf(ieff, nzvc))
  <2>1. IsSet(PswOf(ieff, nzvc), 15) <=> ieff
    BY PswBits DEF BusInv, De0TypeOK
  <2>2. QED
    BY <1>1, <2>1 DEF Leads, IrqEnabled
<1>8. QED
  BY <1>3, <1>4, <1>5, <1>6, <1>7

LEMMA PastType ==
  ASSUME oldregs \in [0 .. 7 -> Word]
  PROVE  Past \in [0 .. 7 -> Word]
<1>1. oldregs[7] \in Int /\ 2 \in Int
  BY WordIs
<1>2. AddW(oldregs[7], 2) \in Word
  BY <1>1, AddWIs
<1>3. QED
  BY <1>2 DEF Past

(* The instructions that end with the cycle the decoder starts them in. *)
LEMMA OneCycleNext ==
  ASSUME BusInv, NEW n \in Flops, BoardEdge(n), Commits(n), Fetched(state),
         oldregs \in [0 .. 7 -> Word], rq = Past, memarray' = memarray,
         state \in {"BCC1", "ARITH1", "LDA1", "WRPS1", "RDPS1", "HALT1"}
  PROVE  I!Next
<1>1. RegsEdge(state, mqval) /\ PswEdge(state, mqval)
  BY DEF BoardEdge
<1>2. /\ IsaRegs = oldregs /\ Ahead = rq /\ IsaRegs' = rq'
      /\ IsaPsw = PswOf(ieff, nzvc) /\ IsaPsw' = PswOf(ieff', nzvc')
      /\ IsaMem' = IsaMem /\ IsaRegs \in [0 .. 7 -> Word]
  BY Commit
<1>3. /\ irlat \in I!Opcodes /\ irlat \in Word /\ ~Entering
      /\ Entering' => IrqEnabled(IsaPsw)
  BY Commit
<1>4. Decode(irlat) = state /\ (state = "ARITH1" => ~BadAlu(irlat))
  BY DEF Fetched, Origin
<1>5. state \notin {"ARITH1", "WRPS1", "IRET4", "IREQ3"} => IsaPsw' = IsaPsw
  BY <1>1, <1>2 DEF PswEdge
<1>6. CASE state = "BCC1"
  <2>1. IsaRegs' = IF BranchTrue(irlat, IsaPsw)
                   THEN [Ahead EXCEPT ![7] = AddW(Ahead[7], BrOffset(irlat))]
                   ELSE Ahead
    BY <1>1, <1>2, <1>6 DEF RegsEdge
  <2>2. I!Branch(irlat)
    BY <1>2, <1>3, <1>4, <1>5, <1>6, <2>1, BranchForm
  <2>3. QED
    BY <1>3, <2>2, InstructionForm
<1>7. CASE state = "ARITH1"
  <2> DEFINE a == Ahead[RegA(irlat)]
             b == Ahead[RegB(irlat)]
  <2>1. IsaRegs' = IF RegD(irlat) # 7
                   THEN [Ahead EXCEPT ![RegD(irlat)] = ArithResult(irlat, a, b, IsaPsw)] ELSE Ahead
    BY <1>1, <1>2, <1>7 DEF RegsEdge
  <2>2. IsaPsw' = LoadPsw(Arith(irlat, a, b, IsaPsw).psw)
    BY <1>1, <1>2, <1>7 DEF PswEdge
  <2>3. I!Arithmetic(irlat)
    BY <1>2, <1>3, <1>4, <1>7, <2>1, <2>2, ArithForm
  <2>4. QED
    BY <1>3, <2>3, InstructionForm
<1>8. CASE state = "LDA1"
  <2>1. IsaRegs' = [Ahead EXCEPT ![RegD(irlat)] = Address(irlat, Ahead)]
    BY <1>1, <1>2, <1>8 DEF RegsEdge
  <2>2. I!LoadAddress(irlat)
    BY <1>2, <1>3, <1>4, <1>5, <1>8, <2>1, OtherForms
  <2>3. QED
    BY <1>3, <2>2, InstructionForm
<1>9. CASE state = "WRPS1"
  <2>1. IsaRegs' = Ahead /\ IsaPsw' = LoadPsw(Ahead[RegB(irlat)])
    BY <1>1, <1>2, <1>9 DEF RegsEdge, PswEdge
  <2>2. I!WritePsw(irlat)
    BY <1>2, <1>3, <1>4, <1>9, <2>1, OtherForms
  <2>3. QED
    BY <1>3, <2>2, InstructionForm
<1>10. CASE state = "RDPS1"
  <2>1. IsaRegs' = [Ahead EXCEPT ![RegD(irlat)] = IsaPsw]
    BY <1>1, <1>2, <1>10 DEF RegsEdge
  <2>2. I!ReadPsw(irlat)
    BY <1>2, <1>3, <1>4, <1>5, <1>10, <2>1, OtherForms
  <2>3. QED
    BY <1>3, <2>2, InstructionForm
<1>11. CASE state = "HALT1"
  <2>1. IsaRegs' = Ahead
    BY <1>1, <1>2, <1>11 DEF RegsEdge
  <2>2. I!Halt(irlat)
    BY <1>2, <1>3, <1>4, <1>5, <1>11, <2>1, OtherForms
  <2>3. QED
    BY <1>3, <2>2, InstructionForm
<1>12. QED
  BY <1>6, <1>7, <1>8, <1>9, <1>10, <1>11

LEMMA AddressType ==
  ASSUME NEW i \in Word, NEW r \in [0 .. 7 -> Word]
  PROVE  Address(i, r) \in Word
<1>1. RegA(i) \in 0 .. 7 /\ LsOffset(i) \in Word
  BY Fields, Offsets
<1>2. PICK p \in Int, o \in Int : p = r[RegA(i)] /\ o = LsOffset(i)
  BY <1>1, WordIs
<1>3. AddW(p, o) \in Word
  BY AddWIs
<1>4. QED
  BY <1>2, <1>3 DEF Address

(* Loads and the return from interrupts take a word from memory at their last edge. *)
LEMMA LoadNext ==
  ASSUME BusInv, Aligned, nsintoclk = "rise", Request(state),
         NEW n \in Flops, BoardEdge(n), Commits(n), Fetched(state),
         oldregs \in [0 .. 7 -> Word], memarray' = memarray,
         \/ state = "LOAD2" /\ rq = Past
         \/ state = "LOAD3" /\ Immediate
  PROVE  I!Next
<1>1. RegsEdge(state, mqval) /\ PswEdge(state, mqval)
  BY DEF BoardEdge
<1>2. /\ IsaRegs = oldregs /\ Ahead = Past /\ IsaRegs' = rq'
      /\ IsaPsw = PswOf(ieff, nzvc) /\ IsaPsw' = PswOf(ieff', nzvc')
      /\ IsaMem = Mem(memarray) /\ IsaMem' = IsaMem /\ IsaRegs \in [0 .. 7 -> Word]
  BY Commit
<1>3. /\ irlat \in I!Opcodes /\ irlat \in Word /\ ~Entering
      /\ Entering' => IrqEnabled(IsaPsw)
  BY Commit
<1>4. Decode(irlat) = "LOAD1"
  BY DEF Fetched, Origin
<1>5. IsaPsw' = IsaPsw
  BY <1>1, <1>2 DEF PswEdge
<1>6. Address(irlat, Ahead) \in Word
  BY <1>2, <1>3, PastType, AddressType
<1>7. CASE state = "LOAD2"
  <2>1. ~LoadImmediate(irlat)
    BY <1>7 DEF BoardEdge, Leads, Commits
  <2>2. IsaRegs' = [IF LoadImmediate(irlat) THEN [Ahead EXCEPT ![7] = AddW(Ahead[7], 2)] ELSE Ahead
                    EXCEPT ![RegD(irlat)] = LoadedWord(irlat, mqval)]
    BY <1>1, <1>2, <1>7, <2>1 DEF RegsEdge
  <2>3. LoadedWord(irlat, mqval) = LoadsFrom(irlat, Ahead) /\ WordLoad(irlat, Ahead)
    BY <1>2, <1>7, Got DEF Takes, AskedWord, Asked, LoadsFrom, WordLoad
  <2>4. I!Load(irlat)
    BY <1>2, <1>3, <1>4, <1>5, <1>6, <2>2, <2>3, LoadForm
  <2>5. QED
    BY <1>3, <2>4, InstructionForm
<1>8. CASE state = "LOAD3"
  <2> DEFINE d == RegD(irlat)
             x == rq[RegD(irlat)]
  <2>1. LoadImmediate(irlat) /\ d \in 0 .. 7 /\ d # 7
    BY <1>3, <1>8, Fields DEF Immediate, LoadImmediate
  <2>2. Past \in [0 .. 7 -> Word]
    BY PastType
  <2>3. /\ rq = [Past EXCEPT ![d] = x] /\ WordLoad(irlat, Past)
        /\ ~IsPort(Address(irlat, Past)) => x = LoadsFrom(irlat, Past)
    BY <1>8, <2>1, <2>2 DEF Immediate
  <2>4. rq' = [rq EXCEPT ![7] = AddW(rq[7], 2)]
    BY <1>1, <1>8 DEF RegsEdge
  <2> HIDE DEF x, d
  <2>5. rq' = [[Past EXCEPT ![7] = AddW(Past[7], 2)] EXCEPT ![d] = x]
    BY <2>1, <2>2, <2>3, <2>4
  <2>6. IsaRegs' = [IF LoadImmediate(irlat) THEN [Ahead EXCEPT ![7] = AddW(Ahead[7], 2)] ELSE Ahead
                    EXCEPT ![RegD(irlat)] = x]
    BY <1>2, <2>1, <2>5 DEF d
  <2>7. I!Load(irlat)
    BY <1>2, <1>3, <1>4, <1>5, <1>6, <2>3, <2>6, LoadForm
  <2>8. QED
    BY <1>3, <2>7, InstructionForm
<1>9. QED
  BY <1>7, <1>8

LEMMA IretNext ==
  ASSUME BusInv, Aligned, nsintoclk = "rise", Request(state),
         NEW n \in Flops, BoardEdge(n), Commits(n), Fetched(state),
         oldregs \in [0 .. 7 -> Word], memarray' = memarray,
         state = "IRET4", rq = [Past EXCEPT ![7] = Held(SavedPc)]
  PROVE  I!Next
<1>1. RegsEdge(state, mqval) /\ PswEdge(state, mqval)
  BY DEF BoardEdge
<1>2. /\ IsaRegs = oldregs /\ IsaRegs' = rq' /\ IsaPsw' = PswOf(ieff', nzvc')
      /\ IsaMem = Mem(memarray) /\ IsaMem' = IsaMem
  BY Commit
<1>3. /\ irlat \in I!Opcodes /\ irlat \in Word /\ ~Entering
      /\ Entering' => IrqEnabled(IsaPsw)
  BY Commit
<1>4. Decode(irlat) = "IRET1"
  BY DEF Fetched, Origin
<1>5. mqval = Held(SavedPsw)
  BY Got DEF Takes, AskedWord, Asked
<1>6. IsaRegs' = [IsaRegs EXCEPT ![7] = Held(SavedPc)]
  BY <1>1, <1>2 DEF RegsEdge, Past
<1>7. IsaPsw' = LoadPsw(Held(SavedPsw))
  BY <1>1, <1>2, <1>5 DEF PswEdge
<1>8. I!Iret(irlat)
  BY <1>2, <1>3, <1>4, <1>6, <1>7, IretForm
<1>9. QED
  BY <1>3, <1>8, InstructionForm

(* What the boards write. *)
LEMMA GivenWord ==
  ASSUME BusInv, q = {state}, state \in Gives
  PROVE  /\ MD(mqval) \in Word
         /\ state = "STORE2" => MD(mqval) = rq[RegD(irlat)]
         /\ state = "IREQ2" => MD(mqval) = PswOf(ieff, nzvc)
         /\ state = "IREQ4" => MD(mqval) = rq[7]
<1> DEFINE p == PswOf(ieff, nzvc)
<1>1. De0TypeOK /\ mqval \in Word
  BY DEF BusInv, SimTypeOK
<1>2. state \in Flops \ {"RESET0", "RESET1", "LOAD2", "IRET2", "IRET4", "ARITH1"}
  BY DEF Gives, Flops
<1> HIDE DEF p
<1>3. MD(mqval) \in Word /\ MD(mqval) = BeginAlu(state, irlat, rq, p, 0)
  BY <1>1, <1>2, AluShows DEF p
<1>4. /\ state = "STORE2" => BeginAlu(state, irlat, rq, p, 0) = rq[RegD(irlat)]
      /\ state = "IREQ2" => BeginAlu(state, irlat, rq, p, 0) = p
      /\ state = "IREQ4" => BeginAlu(state, irlat, rq, p, 0) = rq[7]
  BY BeginIs
<1>5. QED
  BY <1>3, <1>4 DEF p

LEMMA StoreNext ==
  ASSUME BusInv, Aligned, Rise, Request(state),
         NEW n \in Flops, BoardEdge(n), Commits(n), Fetched(state),
         oldregs \in [0 .. 7 -> Word], rq = Past, state = "STORE2"
  PROVE  I!Next
<1> DEFINE a == Address(irlat, Ahead)
           w == Ahead[RegD(irlat)]
<1>1. RegsEdge(state, mqval) /\ PswEdge(state, mqval) /\ q = {state} /\ state \in Flops
  BY DEF BoardEdge
<1>2. De0TypeOK /\ MemoryOK
  BY DEF BusInv, SimTypeOK
<1>3. /\ IsaRegs = oldregs /\ Ahead = rq /\ IsaRegs' = rq'
      /\ IsaPsw = PswOf(ieff, nzvc) /\ IsaPsw' = PswOf(ieff', nzvc')
      /\ IsaMem = Mem(memarray) /\ IsaMem' = Mem(memarray')
  BY Commit
<1>4. /\ irlat \in I!Opcodes /\ irlat \in Word /\ ~Entering
      /\ Entering' => IrqEnabled(IsaPsw)
  BY Commit
<1>5. Decode(irlat) = "STORE1"
  BY DEF Fetched, Origin
<1>6. MD(mqval) = w /\ w \in Word
  BY <1>1, <1>3, GivenWord DEF Gives
<1>7. a \in Word
  BY <1>2, <1>3, <1>4, AddressType DEF De0TypeOK
<1>8. Asked(state) = a /\ (AskedWord(state) <=> ~ByteAccess(irlat))
  BY <1>3 DEF Asked, AskedWord
<1>9. memarray' = IF AskedWord(state) THEN WrittenWord(Asked(state), MD(mqval))
                  ELSE WrittenByte(Asked(state), MD(mqval))
  BY <1>1, Finished DEF Gives
<1>10. ~ByteAccess(irlat) => a % 2 = 0
  BY <1>8 DEF Request, Gives, Aligned
<1>11. IsaRegs' = Ahead /\ IsaPsw' = IsaPsw
  BY <1>1, <1>3 DEF RegsEdge, PswEdge
<1> HIDE DEF a, w
<1>12. I!Store(irlat)
  <2>1. a = Address(irlat, Ahead) /\ w = Ahead[RegD(irlat)]
    BY DEF a, w
  <2>2. /\ ByteAccess(irlat) => memarray' = WrittenByte(a, w)
        /\ ~ByteAccess(irlat) => a % 2 = 0 /\ memarray' = WrittenWord(a, w)
    BY <1>6, <1>8, <1>9, <1>10
  <2>3. QED
    BY <1>2, <1>3, <1>4, <1>5, <1>6, <1>7, <1>11, <2>1, <2>2, StoreForm
<1>13. QED
  BY <1>4, <1>12, InstructionForm

(* The two words that an interrupt entry writes. *)
LEMMA SavedWords ==
  ASSUME NEW w
  PROVE  /\ WrittenWord(SavedPc, w) = With(SavedPc, w)
         /\ WrittenWord(SavedPsw, w) = With(SavedPsw, w)
         /\ SavedPc # SavedPsw /\ SavedPc # MAGIC /\ SavedPsw # MAGIC
<1>1. /\ SavedPc % 2 = 0 /\ SavedPsw % 2 = 0
      /\ SavedPc - (SavedPc % 2) = SavedPc /\ SavedPsw - (SavedPsw % 2) = SavedPsw
      /\ SavedPc # SavedPsw /\ SavedPc # MAGIC /\ SavedPsw # MAGIC
  BY DEF SavedPc, SavedPsw, MAGIC
<1>2. QED
  BY <1>1 DEF WrittenWord, Even

(* The entry of an interrupt has happened when the status word is written. *)
LEMMA InterruptNext ==
  ASSUME BusInv, De0TypeOK', Rise, Request(state), NEW n \in Flops, BoardEdge(n),
         state = "IREQ2"
  PROVE  I!Next
<1> DEFINE p == PswOf(ieff, nzvc)
<1>1. /\ RegsEdge(state, mqval) /\ PswEdge(state, mqval)
      /\ q = {state} /\ q' = {n} /\ n = "IREQ3" /\ state \in Flops
  BY DEF BoardEdge, Leads, Onward
<1>2. rq' = rq /\ PswOf(ieff', nzvc') = p
  BY <1>1 DEF RegsEdge, PswEdge
<1>3. MD(mqval) = p
  BY <1>1, GivenWord DEF Gives
<1>4. memarray' = With(SavedPsw, p)
  <2>1. memarray' = WrittenWord(SavedPsw, MD(mqval))
    BY <1>1, Finished DEF Gives, AskedWord, Asked
  <2>2. QED
    BY <1>3, <2>1, SavedWords
<1>5. IsaRegs = rq /\ IsaPsw = p /\ IsaMem = Mem(memarray) /\ Entering
  BY <1>1, Shown DEF ShownRegs
<1>6. /\ IsaRegs' = [rq' EXCEPT ![7] = 2] /\ IsaMem' = Mem(WrittenWord(SavedPc, rq[7])')
      /\ IsaPsw' = Masked' /\ ~Entering'
  BY <1>1, ShownNext DEF ShownRegs
<1>7. IsaPsw' = p % 32768
  BY <1>2, <1>6, MaskedNext
<1> HIDE DEF p
<1>8. I!SavedPc = SavedPc /\ I!SavedPsw = SavedPsw
  BY DEF I!SavedPc, SavedPc, I!SavedPsw, SavedPsw
<1>9. WrittenWord(SavedPc, rq[7])' = [b \in DOMAIN memarray' \cup {SavedPc} |->
                                       IF b = SavedPc THEN rq[7] ELSE memarray'[b]]
  <2>1. SavedPc % 2 = 0 /\ SavedPc - (SavedPc % 2) = SavedPc
    BY DEF SavedPc
  <2>2. QED
    BY <1>2, <2>1 DEF WrittenWord, With, Even, SavedPc
<1>10. IsaMem' = [a \in DOMAIN IsaMem \union {I!SavedPc, I!SavedPsw} |->
                    CASE a = I!SavedPsw -> IsaPsw
                      [] a = I!SavedPc -> IsaRegs[7]
                      [] OTHER -> IsaMem[a]]
  BY <1>4, <1>5, <1>6, <1>8, <1>9, SavedWords DEF With, Mem
<1>11. I!Interrupt
  BY <1>2, <1>5, <1>6, <1>7, <1>10 DEF I!Interrupt, Entering, On
<1>12. QED
  BY <1>11 DEF I!Next

LEMMA PswZero == LoadPsw(0) = 32752
<1>1. 0 \in Word /\ 0 \in Nat
  BY WordIs
<1>2. Bit(0, 15) = 0
  BY <1>1, Weights DEF Bit
<1>3. QED
  BY <1>2 DEF LoadPsw

LEMMA SameShown ==
  ASSUME IsaRegs' = IsaRegs, IsaPsw' = IsaPsw, IsaMem' = IsaMem, Entering' <=> Entering
  PROVE  UNCHANGED I!isaVars
<1>1. Entering' = Entering
  BY DEF Entering, On
<1>2. QED
  BY <1>1 DEF I!isaVars, Entering

(* Nothing shows while the boards come out of reset ... *)
LEMMA ResetUnseen ==
  ASSUME BusInv, ResetPhase, Rise
  PROVE  UNCHANGED I!isaVars
<1>1. q = {state} /\ ~savemwrite /\ rq \in [0 .. 7 -> Word]
  BY DEF ResetPhase, BusInv, De0TypeOK
<1>2. memarray' = memarray
  BY <1>1 DEF Rise, FinishWrite
<1>3. state \in {"RESET0", "RESET1"}
  BY DEF ResetPhase
<1>4. IsaRegs = [rq EXCEPT ![7] = 0] /\ IsaPsw = 32752 /\ IsaMem = Mem(memarray) /\ ~Entering
  BY <1>1, <1>3, Shown DEF ShownRegs
<1>5. CASE state = "RESET0"
  <2>1. q' = {"RESET1"} /\ rq' = rq
    BY <1>5, ResetRise DEF ResetPhase
  <2>2. /\ IsaRegs' = [rq' EXCEPT ![7] = 0] /\ IsaPsw' = 32752 /\ IsaMem' = Mem(memarray')
        /\ ~Entering'
    BY <2>1, ShownNext DEF ShownRegs
  <2>3. QED
    BY <1>2, <1>4, <2>1, <2>2, SameShown
<1>6. CASE state = "RESET1"
  <2>1. /\ q' = {"FETCH1"} /\ rq' = [rq EXCEPT ![7] = 0]
        /\ PswOf(ieff', nzvc') = LoadPsw(0)
    BY <1>6, ResetRise DEF Core
  <2>2. IsaRegs' = rq' /\ IsaPsw' = PswOf(ieff', nzvc') /\ IsaMem' = Mem(memarray') /\ ~Entering'
    BY <2>1, ShownNext DEF ShownRegs
  <2>3. QED
    BY <1>2, <1>4, <2>1, <2>2, PswZero, SameShown
<1>7. QED
  BY <1>3, <1>5, <1>6

(* ... nor in the cycles of an instruction before its last ... *)
LEMMA CycleUnseen ==
  ASSUME NEW n \in Flops, BoardEdge(n), Instr(state), ~Commits(n), memarray' = memarray,
         state \in InProgress \union {"FETCH1", "FETCH2", "LOAD3", "IRET3", "IRET4"}
  PROVE  UNCHANGED I!isaVars
<1>1. /\ RegsEdge(state, mqval) /\ PswEdge(state, mqval) /\ q = {state} /\ q' = {n} /\ Leads(n)
      /\ n \notin {"FETCH1", "IREQ1"} => oldregs' = oldregs
  BY DEF BoardEdge
<1>2. n \in InProgress \union {"FETCH2", "LOAD3", "IRET3", "IRET4"}
  BY <1>1 DEF Commits, Leads, Onward, Lasting, InProgress, Decoded
<1>3. state \notin {"ARITH1", "WRPS1", "IRET4", "IREQ3"}
  BY <1>1 DEF Commits, Leads, Lasting, InProgress, Decoded
<1>4. PswOf(ieff', nzvc') = PswOf(ieff, nzvc)
  BY <1>1, <1>3 DEF PswEdge
<1>5. IsaRegs = oldregs /\ IsaPsw = PswOf(ieff, nzvc) /\ IsaMem = Mem(memarray) /\ ~Entering
  <2>1. state \notin {"RESET0", "RESET1", "IREQ1", "IREQ2", "IREQ3", "IREQ4", "IREQ5"}
    BY DEF InProgress, Decoded
  <2>2. state = "FETCH1" => rq = oldregs
    BY DEF Instr
  <2>3. QED
    BY <1>1, <2>1, <2>2, Shown DEF ShownRegs
<1>6. /\ IsaRegs' = oldregs' /\ IsaPsw' = PswOf(ieff', nzvc') /\ IsaMem' = Mem(memarray')
      /\ ~Entering'
  <2>1. n \notin {"RESET0", "RESET1", "FETCH1", "IREQ1", "IREQ2", "IREQ3", "IREQ4", "IREQ5"}
    BY <1>2 DEF InProgress, Decoded
  <2>2. QED
    BY <1>1, <2>1, ShownNext DEF ShownRegs
<1>7. oldregs' = oldregs
  BY <1>1, <1>2 DEF InProgress, Decoded
<1>8. QED
  BY <1>4, <1>5, <1>6, <1>7, SameShown

(* ... nor in the rest of an interrupt entry. *)
LEMMA EntryUnseen ==
  ASSUME NEW n \in Flops, BoardEdge(n), De0TypeOK, De0TypeOK', CoreRunning,
         state \in {"IREQ1", "IREQ3", "IREQ4", "IREQ5"},
         memarray' = IF state = "IREQ4" THEN WrittenWord(SavedPc, rq[7]) ELSE memarray
  PROVE  UNCHANGED I!isaVars
<1> DEFINE p == PswOf(ieff, nzvc)
<1>1. RegsEdge(state, mqval) /\ PswEdge(state, mqval) /\ q = {state} /\ q' = {n}
  BY DEF BoardEdge
<1>2. /\ state = "IREQ1" => n = "IREQ2"
      /\ state = "IREQ3" => n = "IREQ4"
      /\ state = "IREQ4" => n = "IREQ5"
      /\ state = "IREQ5" => n = "FETCH1"
  BY DEF BoardEdge, Leads, Onward
<1>3. rq' = IF state = "IREQ5" THEN [rq EXCEPT ![7] = 2] ELSE rq
  BY <1>1 DEF RegsEdge
<1>4. /\ state # "IREQ3" => PswOf(ieff', nzvc') = p
      /\ state = "IREQ3" => PswOf(ieff', nzvc') = Masked
  BY <1>1 DEF PswEdge, Masked
<1>5. /\ Masked = p % 32768 /\ Masked' = PswOf(ieff', nzvc') % 32768
      /\ p \in Word
  BY MaskedIs, MaskedNext, PswBits DEF De0TypeOK, Flags
<1>6. state = "IREQ5" => p % 32768 = p
  <2>1. state = "IREQ5" => ~ieff
    BY DEF CoreRunning, Core
  <2>2. QED
    BY <2>1, ClearIE DEF De0TypeOK, Flags
<1>7. /\ IsaRegs = IF state = "IREQ1" THEN rq ELSE [rq EXCEPT ![7] = 2]
      /\ IsaPsw = IF state = "IREQ1" THEN p ELSE Masked
      /\ IsaMem = Mem(IF state \in {"IREQ3", "IREQ4"} THEN WrittenWord(SavedPc, rq[7]) ELSE memarray)
      /\ Entering <=> state = "IREQ1"
  BY <1>1, Shown DEF ShownRegs
<1>8. /\ IsaRegs' = IF state \in {"IREQ1", "IREQ5"} THEN rq' ELSE [rq' EXCEPT ![7] = 2]
      /\ IsaPsw' = IF state \in {"IREQ1", "IREQ5"} THEN PswOf(ieff', nzvc') ELSE Masked'
      /\ IsaMem' = Mem(IF state = "IREQ3" THEN WrittenWord(SavedPc, rq[7])' ELSE memarray')
      /\ Entering' <=> state = "IREQ1"
  BY <1>1, <1>2, ShownNext DEF ShownRegs
<1> HIDE DEF p
<1>9. IsaRegs' = IsaRegs
  BY <1>3, <1>7, <1>8
<1>10. IsaPsw' = IsaPsw
  <2>1. state = "IREQ3" => Masked' = Masked
    BY <1>4, <1>5, WordIs
  <2>2. QED
    BY <1>4, <1>5, <1>6, <1>7, <1>8, <2>1
<1>11. IsaMem' = IsaMem
  <2>1. state = "IREQ3" => WrittenWord(SavedPc, rq[7])' = WrittenWord(SavedPc, rq[7])
    BY <1>3 DEF WrittenWord, With, SavedPc
  <2>2. QED
    BY <1>7, <1>8, <2>1
<1>12. QED
  BY <1>7, <1>8, <1>9, <1>10, <1>11, SameShown

(* ... nor in the rest of the period. *)
LEMMA WaitsUnseen ==
  ASSUME Waits
  PROVE  UNCHANGED I!isaVars
<1>1. /\ q' = q /\ rq' = rq /\ ieff' = ieff /\ nzvc' = nzvc /\ memarray' = memarray
      /\ oldregs' = oldregs
  BY DEF Waits, de0Vars
<1>2. \A s : On(s)' <=> On(s)
  BY <1>1 DEF On
<1>3. (Entered' <=> Entered) /\ (Entering' <=> Entering)
  BY <1>2 DEF Entered, Entering
<1>4. IsaRegs' = IsaRegs
  BY <1>1, <1>2, <1>3 DEF IsaRegs
<1>5. IsaPsw' = IsaPsw
  <2>1. IsaPsw' = IF On("RESET0")' \/ On("RESET1")' THEN 32752
                  ELSE IF Entered' THEN Masked' ELSE PswOf(ieff', nzvc')
    BY DEF IsaPsw, Masked
  <2>2. Masked' = Masked /\ PswOf(ieff', nzvc') = PswOf(ieff, nzvc)
    BY <1>1 DEF Masked
  <2>3. QED
    BY <1>2, <1>3, <2>1, <2>2, IsaPswIs
<1>6. IsaMem' = IsaMem
  <2>1. WrittenWord(65532, rq[7])' = WrittenWord(65532, rq[7])
    BY <1>1 DEF WrittenWord, With
  <2>2. QED
    BY <1>1, <1>2, <2>1 DEF IsaMem
<1>7. QED
  BY <1>3, <1>4, <1>5, <1>6, SameShown

(* Each edge of the clock is a step of Isa, or does not show. *)
LEMMA RiseStep ==
  ASSUME ExecInv, Aligned, Rise
  PROVE  I!Next \/ UNCHANGED I!isaVars
<1>1. BusInv /\ De0TypeOK /\ De0TypeOK' /\ oldregs \in [0 .. 7 -> Word] /\ nsintoclk = "rise"
  BY RiseBus DEF ExecInv, Exec, BusInv, Rise, Going
<1>2. CASE ResetPhase
  BY <1>1, <1>2, ResetUnseen
<1>3. CASE ~ResetPhase
  <2>1. CoreRunning /\ Instr(state) /\ Request(state)
    BY <1>3, RunningRise, DivergedCaught DEF ExecInv, Exec, Rise
  <2>2. PICK n \in Flops : BoardEdge(n)
    BY <1>3, RunningRise
  <2>3. q = {state} /\ Leads(n) /\ state \in Flops \ {"RESET0", "RESET1"}
    BY <2>2 DEF BoardEdge
  <2>4. /\ state \notin Gives => memarray' = memarray
        /\ state \in Gives => memarray' = IF AskedWord(state)
                                         THEN WrittenWord(Asked(state), MD(mqval))
                                         ELSE WrittenByte(Asked(state), MD(mqval))
    BY <1>1, <2>1, <2>3, Finished
  <2>5. /\ state \in InProgress => rq = Past
        /\ state \in InProgress \union {"LOAD3", "IRET3", "IRET4"} => Fetched(state)
        /\ state = "LOAD3" => Immediate
        /\ state = "IRET4" => rq = [Past EXCEPT ![7] = Held(SavedPc)]
    BY <2>1 DEF Instr
  <2>6. CASE state = "STORE2"
    <3>1. Commits(n) /\ rq = Past /\ Fetched(state)
      BY <2>3, <2>5, <2>6 DEF Commits, InProgress, Leads, Lasting
    <3>2. QED
      BY <1>1, <2>1, <2>2, <2>6, <3>1, StoreNext
  <2>7. CASE state = "IREQ2"
    BY <1>1, <2>1, <2>2, <2>7, InterruptNext
  <2>8. CASE state \in {"IREQ1", "IREQ3", "IREQ4", "IREQ5"}
    <3>1. state = "IREQ4" => memarray' = WrittenWord(SavedPc, rq[7])
      BY <1>1, <2>3, <2>4, GivenWord DEF Gives, AskedWord, Asked
    <3>2. memarray' = IF state = "IREQ4" THEN WrittenWord(SavedPc, rq[7]) ELSE memarray
      BY <2>4, <2>8, <3>1 DEF Gives
    <3>3. QED
      BY <1>1, <2>1, <2>2, <2>8, <3>2, EntryUnseen
  <2>9. CASE state \notin {"STORE2", "IREQ1", "IREQ2", "IREQ3", "IREQ4", "IREQ5"}
    <3>1. memarray' = memarray
      BY <2>4, <2>9 DEF Gives
    <3>2. state \in InProgress \union {"FETCH1", "FETCH2", "LOAD3", "IRET3", "IRET4"}
      BY <2>3, <2>9 DEF Flops, InProgress, Decoded
    <3>3. CASE ~Commits(n)
      BY <2>1, <2>2, <3>1, <3>2, <3>3, CycleUnseen
    <3>4. CASE Commits(n)
      <4>1. Fetched(state)
        BY <2>5, <3>4 DEF Commits
      <4>2. state \in {"BCC1", "ARITH1", "LDA1", "WRPS1", "RDPS1", "HALT1", "LOAD2", "LOAD3",
                       "IRET4"}
        BY <2>3, <2>9, <3>4 DEF Commits, Leads, Onward, InProgress, Decoded
      <4>3. CASE state \in {"BCC1", "ARITH1", "LDA1", "WRPS1", "RDPS1", "HALT1"}
        BY <1>1, <2>2, <2>5, <3>1, <3>4, <4>1, <4>3, OneCycleNext DEF InProgress, Decoded
      <4>4. CASE state \in {"LOAD2", "LOAD3"}
        BY <1>1, <2>1, <2>2, <2>5, <3>1, <3>4, <4>1, <4>4, LoadNext DEF InProgress
      <4>5. CASE state = "IRET4"
        BY <1>1, <2>1, <2>2, <2>5, <3>1, <3>4, <4>1, <4>5, IretNext
      <4>6. QED
        BY <4>2, <4>3, <4>4, <4>5
    <3>5. QED
      BY <3>3, <3>4
  <2>10. QED
    BY <2>6, <2>7, <2>8, <2>9
<1>4. QED
  BY <1>2, <1>3

LEMMA IsaStep == ExecInv /\ Aligned /\ [NetNext]_netVars => [I!Next]_I!isaVars
<1> SUFFICES ASSUME ExecInv, Aligned, [NetNext]_netVars PROVE I!Next \/ UNCHANGED I!isaVars
  OBVIOUS
<1>1. CASE Rise
  BY <1>1, RiseStep
<1>2. CASE ~Rise
  BY <1>2, OthersWait, WaitsUnseen DEF NetNext
<1>3. QED
  BY <1>1, <1>2

(* The simulated computer starts as Isa starts. *)
LEMMA IsaStarts == NetInit => I!Init
<1> SUFFICES ASSUME NetInit PROVE I!Init
  OBVIOUS
<1>1. q = {"RESET0"} /\ rq \in [0 .. 7 -> Word] /\ memarray \in Programs
  BY NetAssumption DEF NetInit
<1>2. 0 \in Word
  BY TopCleared
<1>3. IsaRegs = [rq EXCEPT ![7] = 0] /\ IsaPsw = 32752 /\ IsaMem = Mem(memarray) /\ ~Entering
  BY <1>1, Shown DEF ShownRegs
<1>4. IsaRegs \in [0 .. 7 -> I!Word] /\ IsaRegs[7] = 0
  BY <1>1, <1>2, <1>3, SameWord
<1>5. IsaMem \in {Mem(m) : m \in Programs}
  BY <1>1, <1>3
<1>6. Entering = FALSE
  BY <1>3 DEF Entering, On
<1>7. QED
  BY <1>3, <1>4, <1>5, <1>6 DEF I!Init, Entering

(* The simulated boards execute the instruction set: as long as programs access
   words at even addresses, which is all that Isa describes, every change of the
   registers, the status word and the memory of the simulated computer is that
   of a whole instruction or a whole interrupt entry of Isa.  The boards may power
   up with any registers: the model beside them may then stop the simulation but
   lets nothing else through (netgen/RasPiModule.java:120-270,
   netgen/Shadow.java). *)
THEOREM BoardsExecute == NetSpec => ([]Aligned => ImplementsIsa)
<1>1. NetInit => ExecInv /\ I!Init
  BY ExecStarts, IsaStarts
<1>2. ExecInv /\ Aligned /\ [NetNext]_netVars => ExecInv'
  BY ExecStep
<1>3. ExecInv /\ Aligned /\ [NetNext]_netVars => [I!Next]_I!isaVars
  BY IsaStep
<1>4. QED
  BY <1>1, <1>2, <1>3, PTL DEF NetSpec, ImplementsIsa
-----------------------------------------------------------------------------
(* The tester computes an arithmetic instruction on bytes, the boards on words. *)
LEMMA BytesOf ==
  ASSUME NEW w \in Word
  PROVE  /\ w % 256 \in Int /\ 0 <= w % 256 /\ w % 256 < 256
         /\ w \div 256 \in Int /\ 0 <= w \div 256 /\ w \div 256 < 256
         /\ w = 256 * (w \div 256) + (w % 256)
         /\ w % 256 \in Word /\ w \div 256 \in Word
<1>1. w \in Int /\ 0 <= w /\ w < 65536
  BY WordIs
<1>2. /\ w % 256 \in Int /\ 0 <= w % 256 /\ w % 256 < 256
      /\ w \div 256 \in Int /\ 0 <= w \div 256 /\ w \div 256 < 256
      /\ w = 256 * (w \div 256) + (w % 256)
  BY ONLY <1>1
<1>3. w % 256 \in Word /\ w \div 256 \in Word
  BY <1>2, WordIs
<1>4. QED
  BY <1>2, <1>3

LEMMA BitsOfBytes ==
  ASSUME NEW w \in Word
  PROVE  \A k \in 0 .. 7 : /\ Bit(w % 256, k) = Bit(w, k) /\ Bit(w % 256, k + 8) = 0
                           /\ Bit(w \div 256, k) = Bit(w, k + 8) /\ Bit(w \div 256, k + 8) = 0
<1> DEFINE l == w % 256
           h == w \div 256
<1>1. w \in Int /\ 0 <= w /\ w < 65536 /\ w = 256 * h + l
      /\ l \in Int /\ 0 <= l /\ l < 256 /\ h \in Int /\ 0 <= h /\ h < 256
  BY BytesOf, WordIs
<1> HIDE DEF l, h
<1>2. /\ Bit(l, 0) = Bit(w, 0) /\ Bit(l, 1) = Bit(w, 1)
      /\ Bit(l, 2) = Bit(w, 2) /\ Bit(l, 3) = Bit(w, 3)
  BY <1>1, Weights DEF Bit
<1>3. /\ Bit(l, 4) = Bit(w, 4) /\ Bit(l, 5) = Bit(w, 5)
      /\ Bit(l, 6) = Bit(w, 6) /\ Bit(l, 7) = Bit(w, 7)
  BY <1>1, Weights DEF Bit
<1>4. /\ Bit(l, 8) = 0 /\ Bit(l, 9) = 0 /\ Bit(l, 10) = 0 /\ Bit(l, 11) = 0
      /\ Bit(l, 12) = 0 /\ Bit(l, 13) = 0 /\ Bit(l, 14) = 0 /\ Bit(l, 15) = 0
  BY <1>1, Weights DEF Bit
<1>5. /\ Bit(h, 8) = 0 /\ Bit(h, 9) = 0 /\ Bit(h, 10) = 0 /\ Bit(h, 11) = 0
      /\ Bit(h, 12) = 0 /\ Bit(h, 13) = 0 /\ Bit(h, 14) = 0 /\ Bit(h, 15) = 0
  BY <1>1, Weights DEF Bit
<1>6. /\ Bit(h, 0) = Bit(w, 8) /\ Bit(h, 1) = Bit(w, 9)
      /\ Bit(h, 2) = Bit(w, 10) /\ Bit(h, 3) = Bit(w, 11)
  BY <1>1, Weights DEF Bit
<1>7. /\ Bit(h, 4) = Bit(w, 12) /\ Bit(h, 5) = Bit(w, 13)
      /\ Bit(h, 6) = Bit(w, 14) /\ Bit(h, 7) = Bit(w, 15)
  BY <1>1, Weights DEF Bit
<1>8. ASSUME NEW k \in 0 .. 7
      PROVE  /\ Bit(l, k) = Bit(w, k) /\ Bit(l, k + 8) = 0
             /\ Bit(h, k) = Bit(w, k + 8) /\ Bit(h, k + 8) = 0
  <2>1. k = 0 \/ k = 1 \/ k = 2 \/ k = 3 \/ k = 4 \/ k = 5 \/ k = 6 \/ k = 7
    OBVIOUS
  <2>2. QED
    BY <1>2, <1>3, <1>4, <1>5, <1>6, <1>7, <2>1
<1>9. QED
  BY <1>8 DEF l, h

(* Two bytes that are the halves of a word, bit by bit. *)
HalvesOf(h, l, f) ==
    /\ f \in [0 .. 15 -> Int] /\ h \in [0 .. 15 -> Int] /\ l \in [0 .. 15 -> Int]
    /\ \A k \in 0 .. 7 : l[k] = f[k] /\ h[k] = f[k + 8] /\ l[k + 8] = 0 /\ h[k + 8] = 0

LEMMA JoinHalves ==
  ASSUME NEW h, NEW l, NEW f, HalvesOf(h, l, f)
  PROVE  FromBits(f) = 256 * FromBits(h) + FromBits(l)
<1>1. f \in [0 .. 15 -> Int] /\ h \in [0 .. 15 -> Int] /\ l \in [0 .. 15 -> Int]
  BY DEF HalvesOf
<1>2. /\ l[0] = f[0] /\ l[1] = f[1] /\ l[2] = f[2] /\ l[3] = f[3]
      /\ l[4] = f[4] /\ l[5] = f[5] /\ l[6] = f[6] /\ l[7] = f[7]
      /\ l[8] = 0 /\ l[9] = 0 /\ l[10] = 0 /\ l[11] = 0
      /\ l[12] = 0 /\ l[13] = 0 /\ l[14] = 0 /\ l[15] = 0
  BY DEF HalvesOf
<1>3. /\ h[0] = f[8] /\ h[1] = f[9] /\ h[2] = f[10] /\ h[3] = f[11]
      /\ h[4] = f[12] /\ h[5] = f[13] /\ h[6] = f[14] /\ h[7] = f[15]
      /\ h[8] = 0 /\ h[9] = 0 /\ h[10] = 0 /\ h[11] = 0
      /\ h[12] = 0 /\ h[13] = 0 /\ h[14] = 0 /\ h[15] = 0
  BY DEF HalvesOf
<1> DEFINE x0 == f[0]   x1 == f[1]   x2 == f[2]   x3 == f[3]
           x4 == f[4]   x5 == f[5]   x6 == f[6]   x7 == f[7]
           x8 == f[8]   x9 == f[9]   x10 == f[10]   x11 == f[11]
           x12 == f[12]   x13 == f[13]   x14 == f[14]   x15 == f[15]
<1>4. /\ x0 \in Int /\ x1 \in Int /\ x2 \in Int /\ x3 \in Int
      /\ x4 \in Int /\ x5 \in Int /\ x6 \in Int /\ x7 \in Int
      /\ x8 \in Int /\ x9 \in Int /\ x10 \in Int /\ x11 \in Int
      /\ x12 \in Int /\ x13 \in Int /\ x14 \in Int /\ x15 \in Int
  BY <1>1
<1>5. FromBits(l) = x0 + 2 * x1 + 4 * x2 + 8 * x3 + 16 * x4 + 32 * x5 + 64 * x6 + 128 * x7
  BY ONLY <1>2, <1>4 DEF FromBits
<1>6. FromBits(h) = x8 + 2 * x9 + 4 * x10 + 8 * x11 + 16 * x12 + 32 * x13 + 64 * x14 + 128 * x15
  BY ONLY <1>3, <1>4 DEF FromBits
<1>7. FromBits(f) =
        x0 + 2 * x1 + 4 * x2 + 8 * x3 + 16 * x4 + 32 * x5 + 64 * x6 + 128 * x7 + 256 * x8 + 512 * x9
          + 1024 * x10 + 2048 * x11 + 4096 * x12 + 8192 * x13 + 16384 * x14 + 32768 * x15
  BY DEF FromBits
<1> HIDE DEF x0, x1, x2, x3, x4, x5, x6, x7, x8, x9, x10, x11, x12, x13, x14, x15
<1>8. QED
  BY ONLY <1>4, <1>5, <1>6, <1>7

LEMMA BytewiseOps ==
  ASSUME NEW a \in Word, NEW b \in Word
  PROVE  /\ OrW(a, b) = 256 * OrW(a \div 256, b \div 256) + OrW(a % 256, b % 256)
         /\ AndW(a, b) = 256 * AndW(a \div 256, b \div 256) + AndW(a % 256, b % 256)
         /\ XorW(a, b) = 256 * XorW(a \div 256, b \div 256) + XorW(a % 256, b % 256)
<1> DEFINE al == a % 256
           ah == a \div 256
           bl == b % 256
           bh == b \div 256
           or(x, y)  == [i \in 0 .. 15 |-> Num(IsSet(x, i) \/ IsSet(y, i))]
           and(x, y) == [i \in 0 .. 15 |-> Bit(x, i) * Bit(y, i)]
           xor(x, y) == [i \in 0 .. 15 |-> (Bit(x, i) + Bit(y, i)) % 2]
<1>1. /\ \A k \in 0 .. 7 : /\ Bit(al, k) = Bit(a, k) /\ Bit(al, k + 8) = 0
                           /\ Bit(ah, k) = Bit(a, k + 8) /\ Bit(ah, k + 8) = 0
      /\ \A k \in 0 .. 7 : /\ Bit(bl, k) = Bit(b, k) /\ Bit(bl, k + 8) = 0
                           /\ Bit(bh, k) = Bit(b, k + 8) /\ Bit(bh, k + 8) = 0
  BY BitsOfBytes
<1>2. a \in Nat /\ b \in Nat /\ al \in Nat /\ ah \in Nat /\ bl \in Nat /\ bh \in Nat
  BY BytesOf, WordIs
<1> HIDE DEF al, ah, bl, bh
<1>3. \A k \in 0 .. 15 : /\ Bit(a, k) \in {0, 1} /\ Bit(b, k) \in {0, 1}
                         /\ Bit(al, k) \in {0, 1} /\ Bit(bl, k) \in {0, 1}
                         /\ Bit(ah, k) \in {0, 1} /\ Bit(bh, k) \in {0, 1}
  BY <1>2, BitType
<1>4. \A k \in 0 .. 7 : k \in 0 .. 15 /\ k + 8 \in 0 .. 15
  OBVIOUS
<1>5. HalvesOf(or(ah, bh), or(al, bl), or(a, b))
  BY <1>1, <1>4 DEF HalvesOf, IsSet, Num
<1>6. HalvesOf(and(ah, bh), and(al, bl), and(a, b))
  BY <1>1, <1>3, <1>4 DEF HalvesOf
<1>7. HalvesOf(xor(ah, bh), xor(al, bl), xor(a, b))
  <2>1. \A m, n \in {0, 1} : (m + n) % 2 \in Int
    OBVIOUS
  <2>2. (0 + 0) % 2 = 0
    OBVIOUS
  <2>3. /\ xor(a, b) \in [0 .. 15 -> Int] /\ xor(al, bl) \in [0 .. 15 -> Int]
        /\ xor(ah, bh) \in [0 .. 15 -> Int]
    BY <1>3, <2>1
  <2>4. ASSUME NEW k \in 0 .. 7
        PROVE  /\ xor(al, bl)[k] = xor(a, b)[k] /\ xor(ah, bh)[k] = xor(a, b)[k + 8]
               /\ xor(al, bl)[k + 8] = 0 /\ xor(ah, bh)[k + 8] = 0
    BY <1>1, <1>4, <2>2
  <2> HIDE DEF xor
  <2>5. QED
    BY <2>3, <2>4 DEF HalvesOf
<1>8. OrW(a, b) = 256 * OrW(ah, bh) + OrW(al, bl)
  BY <1>5, JoinHalves DEF OrW
<1>9. AndW(a, b) = 256 * AndW(ah, bh) + AndW(al, bl)
  BY <1>6, JoinHalves DEF AndW
<1>10. XorW(a, b) = 256 * XorW(ah, bh) + XorW(al, bl)
  BY <1>7, JoinHalves DEF XorW
<1>11. QED
  BY <1>8, <1>9, <1>10 DEF al, ah, bl, bh

(* One of the tester's ALU boards.  The operands of its adder: *)
ByteA(i, x) == IF IsSet(i, 3) THEN x ELSE 0
ByteB(i, x) == IF IsSet(i, 0) THEN 255 - x ELSE x

LEMMA ByteAdds ==
  ASSUME NEW i, IsSet(i, 2), i % 16 \notin {8, 9, 10}, NEW x, NEW y, NEW cin, NEW shrin
  PROVE  LET o == ALU8(x, y, cin, shrin, i)
             s == ByteA(i, x) + ByteB(i, y) + Num(cin)
         IN  /\ o.dout = s % 256
             /\ o.cout \in BOOLEAN /\ (o.cout <=> s > 255)
             /\ o.vout \in BOOLEAN
             /\ o.vout <=> (ByteA(i, x) % 128) + (ByteB(i, y) % 128) + Num(cin) > 127
<1> DEFINE a == IF IsSet(i, 3) \/ (~IsSet(i, 3) /\ ~IsSet(i, 2)) THEN x ELSE 0
           b == IF IsSet(i, 0) /\ IsSet(i, 2) THEN 255 - y ELSE y
           o == ALU8(x, y, cin, shrin, i)
<1>1. a = ByteA(i, x) /\ b = ByteB(i, y)
  BY DEF ByteA, ByteB
<1>2. o.dout = (a + b + Num(cin)) % 256
  BY DEF ALU8
<1>4. o.cout \in BOOLEAN /\ (o.cout <=> a + b + Num(cin) > 255)
  <2>1. o.cout = (a + b + Num(cin) > 255)
    BY DEF ALU8
  <2> HIDE DEF a, b, o
  <2>2. o.cout <=> a + b + Num(cin) > 255
    BY <2>1, Zenon
  <2>3. o.cout \in BOOLEAN
    BY SMT DEF ALU8, o
  <2>4. QED
    BY <2>2, <2>3
<1>5. o.vout \in BOOLEAN /\ (o.vout <=> (a % 128) + (b % 128) + Num(cin) > 127)
  <2>1. o.vout = ((a % 128) + (b % 128) + Num(cin) > 127)
    BY DEF ALU8
  <2> HIDE DEF a, b, o
  <2>2. o.vout <=> (a % 128) + (b % 128) + Num(cin) > 127
    BY <2>1, Zenon
  <2>3. o.vout \in BOOLEAN
    BY SMT DEF ALU8, o
  <2>4. QED
    BY <2>2, <2>3
<1> HIDE DEF a, b, o
<1>3. QED
  BY <1>1, <1>2, <1>4, <1>5 DEF o

LEMMA ByteShifts ==
  ASSUME NEW i, ~IsSet(i, 2), ~IsSet(i, 3), NEW x, NEW y, NEW cin, NEW shrin,
         i % 16 \in {0, 1, 2, 3}
  PROVE  /\ ALU8(x, y, cin, shrin, i).dout = 128 * Num(shrin) + x \div 2
         /\ ALU8(x, y, cin, shrin, i).shrout = x % 2
  BY DEF ALU8

LEMMA ByteLogic ==
  ASSUME NEW i, ~IsSet(i, 2), IsSet(i, 3), NEW x, NEW y, NEW cin, NEW shrin
  PROVE  /\ i % 16 = 8 => ALU8(x, y, cin, shrin, i).dout = OrW(x, y)
         /\ i % 16 = 9 => ALU8(x, y, cin, shrin, i).dout = AndW(x, y)
         /\ i % 16 = 10 => ALU8(x, y, cin, shrin, i).dout = XorW(x, y)
         /\ i % 16 = 11 => ALU8(x, y, cin, shrin, i).dout = 0
  BY DEF ALU8

(* The two boards side by side. *)
CarryTo(i, p) ==
    (IsSet(i, 2) /\ IsSet(i, 0))
      # (IsSet(i, 2) /\ IsSet(i, 1) /\ (IsSet(p, 0) \/ ~IsSet(i, 3)))
ShiftTo(i, a, p) == (IsSet(a, 15) /\ IsSet(i, 0)) \/ (IsSet(p, 0) /\ IsSet(i, 1))
LowByteOut(i, a, b, p) == ALU8(a % 256, b % 256, CarryTo(i, p), (a \div 256) % 2 = 1, i)
HighByteOut(i, a, b, p) ==
    ALU8(a \div 256, b \div 256, LowByteOut(i, a, b, p).cout, ShiftTo(i, a, p), i)

LEMMA ComputedIs ==
  ASSUME NEW i, NEW a, NEW b, NEW p
  PROVE  /\ Computed(i, a, b, p).d
              = 256 * HighByteOut(i, a, b, p).dout + LowByteOut(i, a, b, p).dout
         /\ Computed(i, a, b, p).cout = HighByteOut(i, a, b, p).cout
         /\ Computed(i, a, b, p).vout = HighByteOut(i, a, b, p).vout
         /\ Computed(i, a, b, p).shrout = LowByteOut(i, a, b, p).shrout
<1> USE DEF Computed, HighByteOut, LowByteOut, CarryTo, ShiftTo
<1>1. Computed(i, a, b, p) =
        [d |-> 256 * HighByteOut(i, a, b, p).dout + LowByteOut(i, a, b, p).dout,
         cout |-> HighByteOut(i, a, b, p).cout, vout |-> HighByteOut(i, a, b, p).vout,
         shrout |-> LowByteOut(i, a, b, p).shrout]
  BY Zenon
<1> HIDE DEF Computed, HighByteOut, LowByteOut, CarryTo, ShiftTo
<1>2. QED
  BY <1>1, SMT

(* What the two sides must agree about. *)
SameCompute(i, a, b, c, p) ==
    /\ Computed(i, a, b, p).d = ArithV(i, a, b, c).d
    /\ ArithV(i, a, b, c).d \in Word
    /\ ArithV(i, a, b, c).v \in BOOLEAN
    /\ ArithV(i, a, b, c).v <=> IsSet(i, 2) /\ Computed(i, a, b, p).vout # Computed(i, a, b, p).cout
    /\ ArithV(i, a, b, c).c \in BOOLEAN
    /\ AluOp(i) \div 4 = 0 => Num(ArithV(i, a, b, c).c) = Computed(i, a, b, p).shrout
    /\ AluOp(i) \div 4 = 3 =>
          (ArithV(i, a, b, c).c <=> (IsSet(i, 2) /\ IsSet(i, 0)) # Computed(i, a, b, p).cout)
    /\ AluOp(i) \div 4 \notin {0, 3} => ArithV(i, a, b, c).c = c

LEMMA ComputesShift ==
  ASSUME NEW i \in Word, NEW a \in Word, NEW b \in Word, NEW c \in BOOLEAN, NEW p \in Word,
         IsSet(p, 0) <=> c, AluOp(i) \in {0, 1, 2, 3}
  PROVE  SameCompute(i, a, b, c, p)
<1> DEFINE h == a \div 256
           l == a % 256
           t == Num(ShiftTo(i, a, p))
           m == Num((a \div 256) % 2 = 1)
<1>1. ~IsSet(i, 2) /\ ~IsSet(i, 3) /\ AluOp(i) = i % 16
  BY OpBits DEF AluOp
<1>2. /\ LowByteOut(i, a, b, p).dout = 128 * m + l \div 2
      /\ LowByteOut(i, a, b, p).shrout = l % 2
      /\ HighByteOut(i, a, b, p).dout = 128 * t + h \div 2
  BY <1>1, ByteShifts DEF LowByteOut, HighByteOut
<1>3. Computed(i, a, b, p).d = 256 * (128 * t + h \div 2) + (128 * m + l \div 2)
      /\ Computed(i, a, b, p).shrout = l % 2
  BY <1>2, ComputedIs
<1>4. m = h % 2 /\ t \in {0, 1}
  <2>1. h \in Int /\ h % 2 \in {0, 1}
    BY BytesOf
  <2>2. QED
    BY <2>1 DEF Num
<1>5. Shifted(i, a, c) = 32768 * t + a \div 2
  <2>1. ((IsSet(a, 15) /\ IsSet(i, 0)) \/ (c /\ IsSet(i, 1))) <=> ShiftTo(i, a, p)
    BY DEF ShiftTo
  <2>2. Num((IsSet(a, 15) /\ IsSet(i, 0)) \/ (c /\ IsSet(i, 1))) = t
    BY <2>1 DEF Num
  <2>3. QED
    BY <2>2 DEF Shifted
<1>6. a \in Int /\ 0 <= a /\ a < 65536
      /\ a = 256 * h + l /\ h \in Int /\ 0 <= h /\ h < 256 /\ l \in Int /\ 0 <= l /\ l < 256
  BY BytesOf, WordIs
<1> HIDE DEF h, l, t, m
<1>7. 256 * (128 * t + h \div 2) + (128 * m + l \div 2) = 32768 * t + a \div 2
  <2>1. h = 2 * (h \div 2) + (h % 2) /\ h \div 2 \in Int /\ h % 2 \in {0, 1}
    BY ONLY <1>6
  <2>2. l = 2 * (l \div 2) + (l % 2) /\ l \div 2 \in Int /\ l % 2 \in {0, 1}
    BY ONLY <1>6
  <2>3. a \div 2 = 128 * h + l \div 2
    BY ONLY <1>6, <2>2
  <2>4. t \in Int
    BY <1>4
  <2>5. QED
    BY ONLY <1>4, <1>6, <2>1, <2>2, <2>3, <2>4
<1>8. Shifted(i, a, c) \in Word
  <2>1. a \div 2 \in Int /\ 0 <= a \div 2 /\ a \div 2 < 32768
    BY <1>6
  <2>2. 32768 * t + a \div 2 \in Int /\ 0 <= 32768 * t + a \div 2 /\ 32768 * t + a \div 2 < 65536
    BY <1>4, <2>1
  <2>3. QED
    BY <1>5, <2>2, WordIs
<1>9. ArithV(i, a, b, c).d = Shifted(i, a, c)
  <2>1. ArithV(i, a, b, c).d = OrW(OrW(0, 0), OrW(OrW(0, 0), Shifted(i, a, c)))
    BY <1>1, ArithVResult DEF Gate
  <2>2. 0 \in Word
    BY WordIs
  <2>3. QED
    BY <1>8, <2>1, <2>2, OrZero
<1>10. ArithV(i, a, b, c).v = FALSE
  BY <1>1, ArithVOverflow
<1>11. ArithV(i, a, b, c).c = IsSet(a, 0)
  BY <1>1, ArithVCarry
<1>12. Num(IsSet(a, 0)) = l % 2
  <2>1. Bit(a, 0) = l % 2
    BY <1>6, Weights DEF Bit
  <2>2. l % 2 \in {0, 1}
    BY <1>6
  <2>3. QED
    BY <2>1, <2>2 DEF IsSet, Num
<1>13. IsSet(a, 0) \in BOOLEAN
  BY DEF IsSet
<1>14. AluOp(i) \div 4 = 0
  OBVIOUS
<1>15. Computed(i, a, b, p).d = ArithV(i, a, b, c).d /\ ArithV(i, a, b, c).d \in Word
  BY <1>3, <1>5, <1>7, <1>8, <1>9
<1>16. ArithV(i, a, b, c).v \in BOOLEAN /\ ~ArithV(i, a, b, c).v
  BY <1>10
<1>17. ArithV(i, a, b, c).c \in BOOLEAN /\ Num(ArithV(i, a, b, c).c) = Computed(i, a, b, p).shrout
  BY <1>3, <1>11, <1>12, <1>13
<1>18. QED
  BY <1>1, <1>14, <1>15, <1>16, <1>17 DEF SameCompute

LEMMA ComputesLogic ==
  ASSUME NEW i \in Word, NEW a \in Word, NEW b \in Word, NEW c \in BOOLEAN, NEW p \in Word,
         IsSet(p, 0) <=> c, AluOp(i) \in {8, 9, 10, 11}
  PROVE  SameCompute(i, a, b, c, p)
<1>1. ~IsSet(i, 2) /\ IsSet(i, 3) /\ AluOp(i) = i % 16
  BY OpBits DEF AluOp
<1>2. OnA(i, a) = a
  BY <1>1 DEF OnA, Gate
<1>3. OrW(a, b) \in Word /\ AndW(a, b) \in Word /\ XorW(a, b) \in Word /\ 0 \in Word
  BY BitwiseType, WordIs
<1>4. /\ AluOp(i) = 8 => ArithV(i, a, b, c).d = OrW(OrW(0, 0), OrW(OrW(0, OrW(a, b)), 0))
      /\ AluOp(i) = 9 => ArithV(i, a, b, c).d = OrW(OrW(0, 0), OrW(OrW(AndW(a, b), 0), 0))
      /\ AluOp(i) = 10 => ArithV(i, a, b, c).d = OrW(OrW(0, XorW(a, b)), OrW(OrW(0, 0), 0))
      /\ AluOp(i) = 11 => ArithV(i, a, b, c).d = OrW(OrW(0, 0), OrW(OrW(0, 0), 0))
  BY <1>1, <1>2, ArithVResult DEF Gate
<1>5. /\ AluOp(i) = 8 => ArithV(i, a, b, c).d = OrW(a, b)
      /\ AluOp(i) = 9 => ArithV(i, a, b, c).d = AndW(a, b)
      /\ AluOp(i) = 10 => ArithV(i, a, b, c).d = XorW(a, b)
      /\ AluOp(i) = 11 => ArithV(i, a, b, c).d = 0
  BY <1>3, <1>4, OrZero
<1>6. /\ AluOp(i) = 8 => Computed(i, a, b, p).d
             = 256 * OrW(a \div 256, b \div 256) + OrW(a % 256, b % 256)
      /\ AluOp(i) = 9 => Computed(i, a, b, p).d
             = 256 * AndW(a \div 256, b \div 256) + AndW(a % 256, b % 256)
      /\ AluOp(i) = 10 => Computed(i, a, b, p).d
             = 256 * XorW(a \div 256, b \div 256) + XorW(a % 256, b % 256)
      /\ AluOp(i) = 11 => Computed(i, a, b, p).d = 256 * 0 + 0
  <2>1. LET o == LowByteOut(i, a, b, p) IN
        /\ AluOp(i) = 8 => o.dout = OrW(a % 256, b % 256)
        /\ AluOp(i) = 9 => o.dout = AndW(a % 256, b % 256)
        /\ AluOp(i) = 10 => o.dout = XorW(a % 256, b % 256)
        /\ AluOp(i) = 11 => o.dout = 0
    BY <1>1, ByteLogic DEF LowByteOut
  <2>2. LET o == HighByteOut(i, a, b, p) IN
        /\ AluOp(i) = 8 => o.dout = OrW(a \div 256, b \div 256)
        /\ AluOp(i) = 9 => o.dout = AndW(a \div 256, b \div 256)
        /\ AluOp(i) = 10 => o.dout = XorW(a \div 256, b \div 256)
        /\ AluOp(i) = 11 => o.dout = 0
    BY <1>1, ByteLogic DEF HighByteOut
  <2>3. QED
    BY <2>1, <2>2, ComputedIs
<1>7. Computed(i, a, b, p).d = ArithV(i, a, b, c).d
  BY <1>5, <1>6, BytewiseOps
<1>8. ArithV(i, a, b, c).d \in Word
  BY <1>3, <1>5
<1>9. ArithV(i, a, b, c).v = FALSE
  BY <1>1, ArithVOverflow
<1>10. ArithV(i, a, b, c).c = c
  BY <1>1, ArithVCarry
<1>11. AluOp(i) \div 4 = 2
  OBVIOUS
<1>12. ArithV(i, a, b, c).v \in BOOLEAN /\ ~ArithV(i, a, b, c).v
  BY <1>9
<1>13. QED
  BY <1>1, <1>7, <1>8, <1>10, <1>11, <1>12 DEF SameCompute

(* Two bytes at a time with the carry between them add as words do. *)
LEMMA ByteSums ==
  ASSUME NEW ah \in Int, NEW al \in Int, NEW bh \in Int, NEW bl \in Int, NEW r \in Int,
         0 <= ah /\ ah < 256, 0 <= al /\ al < 256, 0 <= bh /\ bh < 256, 0 <= bl /\ bl < 256,
         0 <= r /\ r <= 1,
         NEW k \in Int, 0 <= k /\ k <= 1, k = 1 <=> al + bl + r > 255,
         NEW sum \in Int, sum = 256 * ah + al + 256 * bh + bl + r
  PROVE  /\ 256 * ((ah + bh + k) % 256) + ((al + bl + r) % 256) = sum % 65536
         /\ ah + bh + k > 255 <=> sum >= 65536
<1>1. (al + bl + r) % 256 = al + bl + r - 256 * k
  <2>1. CASE k = 0
    BY <2>1
  <2>2. CASE k = 1
    BY <2>2
  <2>3. QED
    BY <2>1, <2>2
<1>2. CASE ah + bh + k > 255
  <2>1. (ah + bh + k) % 256 = ah + bh + k - 256
    BY <1>2
  <2>2. 0 <= al + bl + r - 256 * k /\ al + bl + r - 256 * k < 256
    OBVIOUS
  <2>3. sum >= 65536 /\ sum - 65536 < 65536
    BY <1>2, <2>2
  <2>4. sum % 65536 = sum - 65536
    BY ONLY <2>3, sum \in Int
  <2>5. QED
    BY <1>1, <1>2, <2>1, <2>3, <2>4
<1>3. CASE ah + bh + k <= 255
  <2>1. (ah + bh + k) % 256 = ah + bh + k
    BY <1>3
  <2>2. 0 <= al + bl + r - 256 * k /\ al + bl + r - 256 * k < 256
    OBVIOUS
  <2>3. 0 <= sum /\ sum < 65536
    BY <1>3, <2>2
  <2>4. sum % 65536 = sum
    BY ONLY <2>3, sum \in Int
  <2>5. QED
    BY <1>1, <1>3, <2>1, <2>3, <2>4
<1>4. QED
  BY <1>2, <1>3

LEMMA ByteOverflow ==
  ASSUME NEW ah \in Int, NEW al \in Int, NEW bh \in Int, NEW bl \in Int, NEW r \in Int,
         0 <= ah /\ ah < 256, 0 <= al /\ al < 256, 0 <= bh /\ bh < 256, 0 <= bl /\ bl < 256,
         0 <= r /\ r <= 1,
         NEW k \in Int, 0 <= k /\ k <= 1, k = 1 <=> al + bl + r > 255,
         NEW s \in Int, NEW t \in Int,
         ah >= 128 => s = 256 * ah + al - 65536, ah < 128 => s = 256 * ah + al,
         bh >= 128 => t = 256 * bh + bl - 65536, bh < 128 => t = 256 * bh + bl
  PROVE  Eor((ah % 128) + (bh % 128) + k > 127, ah + bh + k > 255)
           <=> s + t + r < -32768 \/ s + t + r > 32767
<1>1. /\ ah >= 128 => ah % 128 = ah - 128
      /\ ah < 128 => ah % 128 = ah
      /\ bh >= 128 => bh % 128 = bh - 128
      /\ bh < 128 => bh % 128 = bh
  OBVIOUS
<1>2. CASE ah >= 128 /\ bh >= 128
  BY <1>1, <1>2 DEF Eor
<1>3. CASE ah >= 128 /\ bh < 128
  BY <1>1, <1>3 DEF Eor
<1>4. CASE ah < 128 /\ bh >= 128
  BY <1>1, <1>4 DEF Eor
<1>5. CASE ah < 128 /\ bh < 128
  BY <1>1, <1>5 DEF Eor
<1>6. QED
  BY <1>2, <1>3, <1>4, <1>5

LEMMA ComputesSum ==
  ASSUME NEW i \in Word, NEW a \in Word, NEW b \in Word, NEW c \in BOOLEAN, NEW p \in Word,
         IsSet(p, 0) <=> c, AluOp(i) \in {4, 5, 6, 7, 12, 13, 14, 15}
  PROVE  SameCompute(i, a, b, c, p)
<1> DEFINE x == OnA(i, a)
           y == OnB(i, b)
           r == CarryIn(i, c)
           out == ArithV(i, a, b, c)
           lo == LowByteOut(i, a, b, p)
           hi == HighByteOut(i, a, b, p)
           al == x % 256
           ah == x \div 256
           bl == y % 256
           bh == y \div 256
           k == Num(al + bl + r > 255)
<1>1. IsSet(i, 2) /\ i % 16 \notin {8, 9, 10}
  BY OpBits DEF AluOp
<1>2. 0 \in Word /\ b \in Int /\ 0 <= b /\ b < 65536
  BY WordIs
<1>3. x \in Word
  BY <1>2 DEF OnA, Gate
<1>4. NotW(b) \in Word /\ NotW(b) = 65535 - b
  BY SignedIs
<1>5. y \in Word
  BY <1>4 DEF OnB
<1>6. r \in {0, 1} /\ r = Num(CarryTo(i, p))
  <2>1. (AluOp(i) \in {6, 7} \/ (AluOp(i) \in {14, 15} /\ c))
          <=> IsSet(i, 2) /\ IsSet(i, 1) /\ (IsSet(p, 0) \/ ~IsSet(i, 3))
    BY <1>1, OpBits
  <2>2. IsSet(i, 0) <=> IsSet(i, 2) /\ IsSet(i, 0)
    BY <1>1
  <2>3. Eor(AluOp(i) \in {6, 7} \/ (AluOp(i) \in {14, 15} /\ c), IsSet(i, 0)) <=> CarryTo(i, p)
    BY <2>1, <2>2 DEF Eor, CarryTo
  <2>4. QED
    BY <2>3 DEF CarryIn, Num
<1>7. /\ al \in Int /\ 0 <= al /\ al < 256 /\ ah \in Int /\ 0 <= ah /\ ah < 256
      /\ x = 256 * ah + al
  BY <1>3, BytesOf
<1>8. /\ bl \in Int /\ 0 <= bl /\ bl < 256 /\ bh \in Int /\ 0 <= bh /\ bh < 256
      /\ y = 256 * bh + bl
  BY <1>5, BytesOf
<1>9. ByteA(i, a % 256) = al /\ ByteA(i, a \div 256) = ah
  <2>1. 0 % 256 = 0 /\ 0 \div 256 = 0
    OBVIOUS
  <2>2. QED
    BY <2>1 DEF ByteA, OnA, Gate
<1>10. ByteB(i, b % 256) = bl /\ ByteB(i, b \div 256) = bh
  <2>1. (65535 - b) % 256 = 255 - (b % 256) /\ (65535 - b) \div 256 = 255 - (b \div 256)
    BY ONLY <1>2
  <2>2. QED
    BY <1>4, <2>1 DEF ByteB, OnB
<1>11. lo.dout = (al + bl + r) % 256 /\ lo.cout \in BOOLEAN /\ (lo.cout <=> al + bl + r > 255)
  BY <1>1, <1>6, <1>9, <1>10, ByteAdds DEF LowByteOut
<1>12. Num(lo.cout) = k
  BY <1>11 DEF Num
<1>13. /\ hi.dout = (ah + bh + k) % 256
       /\ hi.cout \in BOOLEAN /\ (hi.cout <=> ah + bh + k > 255)
       /\ hi.vout \in BOOLEAN /\ (hi.vout <=> (ah % 128) + (bh % 128) + k > 127)
  BY <1>1, <1>9, <1>10, <1>12, ByteAdds DEF HighByteOut
<1>14. /\ out.d = (x + y + r) % 65536 /\ (x + y + r) % 65536 \in Word
       /\ out.v \in BOOLEAN /\ (out.v <=> Overflow(Signed(x) + Signed(y) + r))
       /\ IsSet(i, 3) => out.c \in BOOLEAN /\ (out.c <=> Eor(x + y + r >= 65536, IsSet(i, 0)))
       /\ ~IsSet(i, 3) => out.c = c
  BY <1>1, <1>3, <1>5, <1>6, SumOps
<1>15. /\ Signed(x) \in Int /\ Signed(x) = 256 * ah + al - (IF ah >= 128 THEN 65536 ELSE 0)
       /\ Signed(y) \in Int /\ Signed(y) = 256 * bh + bl - (IF bh >= 128 THEN 65536 ELSE 0)
  <2>1. /\ Signed(x) \in Int /\ Signed(x) = x - 65536 * Num(IsSet(x, 15))
        /\ Signed(y) \in Int /\ Signed(y) = y - 65536 * Num(IsSet(y, 15))
    BY <1>3, <1>5, SignedIs
  <2>2. (IsSet(x, 15) <=> x >= 32768) /\ (IsSet(y, 15) <=> y >= 32768)
    BY <1>3, <1>5, TopBit
  <2> HIDE DEF x, y, al, ah, bl, bh
  <2>3. (x >= 32768 <=> ah >= 128) /\ (y >= 32768 <=> bh >= 128)
    BY <1>7, <1>8
  <2>4. /\ 65536 * Num(IsSet(x, 15)) = (IF ah >= 128 THEN 65536 ELSE 0)
        /\ 65536 * Num(IsSet(y, 15)) = (IF bh >= 128 THEN 65536 ELSE 0)
    BY <2>2, <2>3 DEF Num
  <2>5. QED
    BY <1>7, <1>8, <2>1, <2>4
<1>16. k \in Int /\ 0 <= k /\ k <= 1 /\ (k = 1 <=> al + bl + r > 255)
       /\ r \in Int /\ 0 <= r /\ r <= 1 /\ x + y + r \in Int
       /\ x + y + r = 256 * ah + al + 256 * bh + bl + r
  <2>1. k \in Int /\ 0 <= k /\ k <= 1 /\ (k = 1 <=> al + bl + r > 255)
    BY DEF Num
  <2> HIDE DEF x, y, r, al, ah, bl, bh, k
  <2>2. QED
    BY <1>6, <1>7, <1>8, <2>1
<1> HIDE DEF x, y, r, al, ah, bl, bh, k, out, lo, hi
<1>17. /\ 256 * ((ah + bh + k) % 256) + ((al + bl + r) % 256) = (x + y + r) % 65536
       /\ ah + bh + k > 255 <=> x + y + r >= 65536
  BY <1>7, <1>8, <1>16, ByteSums
<1>18. Eor((ah % 128) + (bh % 128) + k > 127, ah + bh + k > 255)
         <=> Signed(x) + Signed(y) + r < -32768 \/ Signed(x) + Signed(y) + r > 32767
  <2> DEFINE s == Signed(x)
             t == Signed(y)
  <2>1. /\ s \in Int /\ t \in Int
        /\ (ah >= 128 => s = 256 * ah + al - 65536) /\ (ah < 128 => s = 256 * ah + al)
        /\ (bh >= 128 => t = 256 * bh + bl - 65536) /\ (bh < 128 => t = 256 * bh + bl)
    BY <1>7, <1>8, <1>15
  <2> HIDE DEF s, t
  <2>2. Eor((ah % 128) + (bh % 128) + k > 127, ah + bh + k > 255)
          <=> s + t + r < -32768 \/ s + t + r > 32767
    BY ONLY <1>7, <1>8, <1>16, <2>1, ByteOverflow DEF Eor
  <2>3. QED
    BY <2>2 DEF s, t
<1>19. /\ Computed(i, a, b, p).d = (x + y + r) % 65536
       /\ Computed(i, a, b, p).cout = hi.cout /\ Computed(i, a, b, p).vout = hi.vout
  BY <1>11, <1>13, <1>17, ComputedIs DEF hi, lo
<1>20. /\ hi.cout \in BOOLEAN /\ (hi.cout <=> x + y + r >= 65536)
       /\ hi.vout \in BOOLEAN /\ (hi.vout # hi.cout <=> out.v)
  <2>1. hi.cout \in BOOLEAN /\ (hi.cout <=> ah + bh + k > 255)
    BY <1>13
  <2>2. hi.vout \in BOOLEAN /\ (hi.vout <=> (ah % 128) + (bh % 128) + k > 127)
    BY <1>13
  <2>3. hi.vout # hi.cout <=> Eor((ah % 128) + (bh % 128) + k > 127, ah + bh + k > 255)
    BY <2>1, <2>2 DEF Eor
  <2>4. QED
    BY <1>14, <1>17, <1>18, <2>1, <2>2, <2>3 DEF Overflow
<1>21. out.v <=> IsSet(i, 2) /\ Computed(i, a, b, p).vout # Computed(i, a, b, p).cout
  BY <1>1, <1>19, <1>20
<1>22. out.c \in BOOLEAN
  BY <1>14
<1>23. AluOp(i) \div 4 # 0 /\ (AluOp(i) \div 4 = 3 <=> IsSet(i, 3))
       /\ (AluOp(i) \div 4 \notin {0, 3} <=> ~IsSet(i, 3))
  <2>1. AluOp(i) \div 4 = IF AluOp(i) \in {4, 5, 6, 7} THEN 1 ELSE 3
    OBVIOUS
  <2>2. IsSet(i, 3) <=> AluOp(i) \in {12, 13, 14, 15}
    BY OpBits
  <2>3. QED
    BY <2>1, <2>2
<1>24. IsSet(i, 3) => (out.c <=> (IsSet(i, 2) /\ IsSet(i, 0)) # Computed(i, a, b, p).cout)
  BY <1>1, <1>14, <1>19, <1>20 DEF Eor
<1>25. QED
  BY <1>14, <1>19, <1>21, <1>22, <1>23, <1>24 DEF SameCompute, out

LEMMA Computes ==
  ASSUME NEW i \in Word, NEW a \in Word, NEW b \in Word, NEW c \in BOOLEAN, NEW p \in Word,
         IsSet(p, 0) <=> c
  PROVE  SameCompute(i, a, b, c, p)
<1>1. \/ AluOp(i) \in {0, 1, 2, 3} \/ AluOp(i) \in {8, 9, 10, 11}
      \/ AluOp(i) \in {4, 5, 6, 7, 12, 13, 14, 15}
  BY OpBits
<1>2. QED
  BY <1>1, ComputesShift, ComputesLogic, ComputesSum

(* The status word the tester expects of an arithmetic instruction is that of
   the flags the boards make. *)
LEMMA StatusComputed ==
  ASSUME NEW i \in Word, NEW a \in Word, NEW b \in Word, NEW ie \in BOOLEAN, NEW f \in Flags,
         NEW p, p = PswOf(ie, f)
  PROVE  /\ computenzvc(i, Computed(i, a, b, p), p) = PswOf(ie, FlagsOf(ArithV(i, a, b, f.c)))
         /\ FlagsOf(ArithV(i, a, b, f.c)) \in Flags
         /\ Computed(i, a, b, p).d = ArithV(i, a, b, f.c).d
         /\ ArithV(i, a, b, f.c).d \in Word
<1> DEFINE c == f.c
           o == Computed(i, a, b, p)
           out == ArithV(i, a, b, c)
           e == Num(ie)
           n == Num(f.n)
           z == Num(f.z)
           v == Num(f.v)
<1>1. p \in Word /\ (IsSet(p, 0) <=> c) /\ c \in BOOLEAN
  BY PswBits DEF Flags
<1>2. SameCompute(i, a, b, c, p)
  BY <1>1, Computes
<1>3. /\ o.d = out.d /\ out.d \in Word /\ out.v \in BOOLEAN /\ out.c \in BOOLEAN
      /\ out.v <=> IsSet(i, 2) /\ o.vout # o.cout
      /\ AluOp(i) \div 4 = 0 => Num(out.c) = o.shrout
      /\ AluOp(i) \div 4 = 3 => (out.c <=> (IsSet(i, 2) /\ IsSet(i, 0)) # o.cout)
      /\ AluOp(i) \div 4 \notin {0, 3} => out.c = c
  BY <1>2 DEF SameCompute
<1>4. out.n = IsSet(out.d, 15) /\ out.z = (out.d = 0)
  BY ArithVZero
<1>5. /\ e \in {0, 1} /\ n \in {0, 1} /\ z \in {0, 1} /\ v \in {0, 1} /\ Num(c) \in {0, 1}
      /\ p = 32768 * e + 32752 + 8 * n + 4 * z + 2 * v + Num(c)
  BY DEF Num, PswOf
<1> HIDE DEF e, n, z, v, o, out
<1>6. p % 16 = 8 * n + 4 * z + 2 * v + Num(c) /\ p % 2 = Num(c)
      /\ p - (p % 16) = 32768 * e + 32752
  <2> DEFINE g == Num(c)
  <2>1. g \in {0, 1} /\ p = 32768 * e + 32752 + 8 * n + 4 * z + 2 * v + g
    BY <1>5
  <2> HIDE DEF g
  <2>2. p % 16 = 8 * n + 4 * z + 2 * v + g /\ p % 2 = g /\ p - (p % 16) = 32768 * e + 32752
    BY ONLY <1>5, <2>1
  <2>3. QED
    BY <2>2 DEF g
<1>7. /\ (IF o.d >= 32768 THEN 8 ELSE 0) = 8 * Num(out.n)
      /\ (IF o.d = 0 THEN 4 ELSE 0) = 4 * Num(out.z)
      /\ (IF IsSet(i, 2) /\ o.vout # o.cout THEN 2 ELSE 0) = 2 * Num(out.v)
  <2>1. out.n <=> o.d >= 32768
    BY <1>3, <1>4, TopBit
  <2>2. out.z <=> o.d = 0
    BY <1>3, <1>4
  <2>3. QED
    BY <1>3, <2>1, <2>2 DEF Num
<1>8. (CASE (i % 16) \div 4 = 0 -> o.shrout
         [] (i % 16) \div 4 = 3 -> Num((IsSet(i, 2) /\ IsSet(i, 0)) # o.cout)
         [] OTHER               -> p % 2) = Num(out.c)
  <2>1. CASE AluOp(i) \div 4 = 0
    BY <1>3, <2>1 DEF AluOp
  <2>2. CASE AluOp(i) \div 4 = 3
    <3>1. Num((IsSet(i, 2) /\ IsSet(i, 0)) # o.cout) = Num(out.c)
      BY <1>3, <2>2 DEF Num
    <3>2. QED
      BY <2>2, <3>1 DEF AluOp
  <2>3. CASE AluOp(i) \div 4 \notin {0, 3}
    BY <1>3, <1>6, <2>3 DEF AluOp
  <2>4. QED
    BY <2>1, <2>2, <2>3
<1>9. computenzvc(i, o, p) = 32768 * e + 32752 + 8 * Num(out.n) + 4 * Num(out.z)
                               + 2 * Num(out.v) + Num(out.c)
  BY <1>6, <1>7, <1>8 DEF computenzvc
<1>10. FlagsOf(out) \in Flags
  BY <1>3, <1>4 DEF FlagsOf, Flags, IsSet
<1>11. PswOf(ie, FlagsOf(out)) = 32768 * e + 32752 + 8 * Num(out.n) + 4 * Num(out.z)
                                   + 2 * Num(out.v) + Num(out.c)
  BY DEF PswOf, FlagsOf, e
<1>12. QED
  BY <1>3, <1>9, <1>10, <1>11 DEF out, o

(* The lines the tester expects, state by state. *)
LEMMA ExpectedIs ==
  ASSUME NEW op, NEW p
  PROVE  /\ Expected("RESET0", op, p) = {}
         /\ Expected("RESET1", op, p)
                = {"BMUX_CON_0", "ALU_BONLY", "GPRS_WE7", "PSW_WE", "PSW_IECLR"}
         /\ Expected("FETCH1", op, p)
                = {"GPRS_REA7", "BMUX_CON_0", "ALU_ADD", "MEM_READ", "MEM_WORD"}
         /\ Expected("FETCH2", op, p) = {"GPRS_REA7", "BMUX_CON_2", "ALU_ADD", "GPRS_WE7", "IR_WE"}
         /\ Expected("BCC1", op, p) = {"GPRS_REA7", "BMUX_IRBROF", "ALU_ADD"}
               \cup (IF branchtrue(op, p) THEN {"GPRS_WE7"} ELSE {})
         /\ Expected("ARITH1", op, p) = {"GPRS_REA", "GPRS_REB", "ALU_IRFC", "PSW_ALUWE"}
               \cup (IF rdOf(op) # 7 THEN {"GPRS_WED"} ELSE {})
         /\ Expected("STORE1", op, p) = {"GPRS_REA", "BMUX_IRLSOF", "ALU_ADD", "MEM_WRITE"}
               \cup (IF ~IsSet(op, 13) THEN {"MEM_WORD"} ELSE {})
         /\ Expected("STORE2", op, p) = {"GPRS_RED2B", "ALU_BONLY"}
         /\ Expected("LDA1", op, p) = {"GPRS_REA", "BMUX_IRLSOF", "ALU_ADD", "GPRS_WED"}
         /\ Expected("LOAD1", op, p) = {"GPRS_REA", "BMUX_IRLSOF", "ALU_ADD", "MEM_READ"}
               \cup (IF ~IsSet(op, 13) THEN {"MEM_WORD"} ELSE {})
         /\ Expected("LOAD2", op, p) = {"MEM_REB", "ALU_BONLY", "GPRS_WED"}
               \cup (IF ~IsSet(op, 13) THEN {"MEM_WORD"} ELSE {})
         /\ Expected("LOAD3", op, p) = {"GPRS_REA7", "BMUX_CON_2", "ALU_ADD", "GPRS_WE7"}
         /\ Expected("IREQ1", op, p)
                = {"BMUX_CON__4", "BMUX_CON_2", "ALU_BONLY", "MEM_WRITE", "MEM_WORD"}
         /\ Expected("IREQ2", op, p) = {"PSW_REB", "ALU_BONLY"}
         /\ Expected("IREQ3", op, p) = {"BMUX_CON__4", "ALU_BONLY", "MEM_WRITE", "MEM_WORD"}
         /\ Expected("IREQ4", op, p) = {"PSW_IECLR", "GPRS_REA7", "BMUX_CON_0", "ALU_ADD"}
         /\ Expected("IREQ5", op, p) = {"BMUX_CON_2", "ALU_BONLY", "GPRS_WE7"}
         /\ Expected("HALT1", op, p) = {"HALT", "GPRS_REB", "ALU_BONLY"}
         /\ Expected("IRET1", op, p) = {"BMUX_CON__4", "ALU_BONLY", "MEM_READ", "MEM_WORD"}
         /\ Expected("IRET2", op, p) = {"MEM_REB", "MEM_WORD", "ALU_BONLY", "GPRS_WE7"}
         /\ Expected("IRET3", op, p)
                = {"BMUX_CON__4", "BMUX_CON_2", "ALU_BONLY", "MEM_READ", "MEM_WORD"}
         /\ Expected("IRET4", op, p) = {"MEM_REB", "MEM_WORD", "ALU_BONLY", "PSW_WE"}
         /\ Expected("WRPS1", op, p) = {"GPRS_REB", "ALU_BONLY", "PSW_WE"}
         /\ Expected("RDPS1", op, p) = {"PSW_REB", "ALU_BONLY", "GPRS_WED"}
<1>1. Expected("RESET0", op, p) = {}
  BY DEF Expected, ST
<1>2. Expected("RESET1", op, p) = {"BMUX_CON_0", "ALU_BONLY", "GPRS_WE7", "PSW_WE", "PSW_IECLR"}
  BY DEF Expected, ST
<1>3. Expected("FETCH1", op, p) = {"GPRS_REA7", "BMUX_CON_0", "ALU_ADD", "MEM_READ", "MEM_WORD"}
  BY DEF Expected, ST
<1>4. Expected("FETCH2", op, p) = {"GPRS_REA7", "BMUX_CON_2", "ALU_ADD", "GPRS_WE7", "IR_WE"}
  BY DEF Expected, ST
<1>5. Expected("BCC1", op, p) = {"GPRS_REA7", "BMUX_IRBROF", "ALU_ADD"}
        \cup (IF branchtrue(op, p) THEN {"GPRS_WE7"} ELSE {})
  BY DEF Expected, ST
<1>6. Expected("ARITH1", op, p) = {"GPRS_REA", "GPRS_REB", "ALU_IRFC", "PSW_ALUWE"}
        \cup (IF rdOf(op) # 7 THEN {"GPRS_WED"} ELSE {})
  BY DEF Expected, ST
<1>7. Expected("STORE1", op, p) = {"GPRS_REA", "BMUX_IRLSOF", "ALU_ADD", "MEM_WRITE"}
        \cup (IF ~IsSet(op, 13) THEN {"MEM_WORD"} ELSE {})
  BY DEF Expected, ST
<1>8. Expected("STORE2", op, p) = {"GPRS_RED2B", "ALU_BONLY"}
  BY DEF Expected, ST
<1>9. Expected("LDA1", op, p) = {"GPRS_REA", "BMUX_IRLSOF", "ALU_ADD", "GPRS_WED"}
  BY DEF Expected, ST
<1>10. Expected("LOAD1", op, p) = {"GPRS_REA", "BMUX_IRLSOF", "ALU_ADD", "MEM_READ"}
        \cup (IF ~IsSet(op, 13) THEN {"MEM_WORD"} ELSE {})
  BY DEF Expected, ST
<1>11. Expected("LOAD2", op, p) = {"MEM_REB", "ALU_BONLY", "GPRS_WED"}
        \cup (IF ~IsSet(op, 13) THEN {"MEM_WORD"} ELSE {})
  BY DEF Expected, ST
<1>12. Expected("LOAD3", op, p) = {"GPRS_REA7", "BMUX_CON_2", "ALU_ADD", "GPRS_WE7"}
  BY DEF Expected, ST
<1>13. Expected("IREQ1", op, p)
           = {"BMUX_CON__4", "BMUX_CON_2", "ALU_BONLY", "MEM_WRITE", "MEM_WORD"}
  BY DEF Expected, ST
<1>14. Expected("IREQ2", op, p) = {"PSW_REB", "ALU_BONLY"}
  BY DEF Expected, ST
<1>15. Expected("IREQ3", op, p) = {"BMUX_CON__4", "ALU_BONLY", "MEM_WRITE", "MEM_WORD"}
  BY DEF Expected, ST
<1>16. Expected("IREQ4", op, p) = {"PSW_IECLR", "GPRS_REA7", "BMUX_CON_0", "ALU_ADD"}
  BY DEF Expected, ST
<1>17. Expected("IREQ5", op, p) = {"BMUX_CON_2", "ALU_BONLY", "GPRS_WE7"}
  BY DEF Expected, ST
<1>18. Expected("HALT1", op, p) = {"HALT", "GPRS_REB", "ALU_BONLY"}
  BY DEF Expected, ST
<1>19. Expected("IRET1", op, p) = {"BMUX_CON__4", "ALU_BONLY", "MEM_READ", "MEM_WORD"}
  BY DEF Expected, ST
<1>20. Expected("IRET2", op, p) = {"MEM_REB", "MEM_WORD", "ALU_BONLY", "GPRS_WE7"}
  BY DEF Expected, ST
<1>21. Expected("IRET3", op, p) = {"BMUX_CON__4", "BMUX_CON_2", "ALU_BONLY", "MEM_READ", "MEM_WORD"}
  BY DEF Expected, ST
<1>22. Expected("IRET4", op, p) = {"MEM_REB", "MEM_WORD", "ALU_BONLY", "PSW_WE"}
  BY DEF Expected, ST
<1>23. Expected("WRPS1", op, p) = {"GPRS_REB", "ALU_BONLY", "PSW_WE"}
  BY DEF Expected, ST
<1>24. Expected("RDPS1", op, p) = {"PSW_REB", "ALU_BONLY", "GPRS_WED"}
  BY DEF Expected, ST
<1>25. QED
  BY <1>1, <1>2, <1>3, <1>4, <1>5, <1>6, <1>7, <1>8, <1>9, <1>10, <1>11, <1>12,
     <1>13, <1>14, <1>15, <1>16, <1>17, <1>18, <1>19, <1>20, <1>21, <1>22, <1>23, <1>24

(* The same, line by line. *)
LEMMA ExpectedLines ==
  ASSUME NEW s \in Flops, NEW op, NEW p
  PROVE  /\ "GPRS_REA" \in Expected(s, op, p) <=> s \in {"ARITH1", "STORE1", "LDA1", "LOAD1"}
         /\ "GPRS_REA7" \in Expected(s, op, p)
                <=> s \in {"FETCH1", "FETCH2", "BCC1", "LOAD3", "IREQ4"}
         /\ "GPRS_REB" \in Expected(s, op, p) <=> s \in {"ARITH1", "HALT1", "WRPS1"}
         /\ "GPRS_RED2B" \in Expected(s, op, p) <=> s \in {"STORE2"}
         /\ "MEM_REB" \in Expected(s, op, p) <=> s \in {"LOAD2", "IRET2", "IRET4"}
         /\ "PSW_REB" \in Expected(s, op, p) <=> s \in {"IREQ2", "RDPS1"}
         /\ "BMUX_IRLSOF" \in Expected(s, op, p) <=> s \in {"STORE1", "LDA1", "LOAD1"}
         /\ "BMUX_IRBROF" \in Expected(s, op, p) <=> s \in {"BCC1"}
         /\ "BMUX_CON_2" \in Expected(s, op, p)
                <=> s \in {"FETCH2", "LOAD3", "IREQ1", "IREQ5", "IRET3"}
         /\ "BMUX_CON__4" \in Expected(s, op, p) <=> s \in {"IREQ1", "IREQ3", "IRET1", "IRET3"}
         /\ "ALU_IRFC" \in Expected(s, op, p) <=> s \in {"ARITH1"}
         /\ "ALU_ADD" \in Expected(s, op, p)
                <=> s \in {"FETCH1", "FETCH2", "BCC1", "STORE1", "LDA1", "LOAD1", "LOAD3", "IREQ4"}
         /\ "PSW_IECLR" \in Expected(s, op, p) <=> s \in {"RESET1", "IREQ4"}
         /\ "IR_WE" \in Expected(s, op, p) <=> s \in {"FETCH2"}
         /\ "PSW_WE" \in Expected(s, op, p) <=> s \in {"RESET1", "IRET4", "WRPS1"}
         /\ "PSW_ALUWE" \in Expected(s, op, p) <=> s \in {"ARITH1"}
         /\ "GPRS_WED" \in Expected(s, op, p) <=>
              s \in {"LDA1", "LOAD2", "RDPS1"} \/ (s = "ARITH1" /\ rdOf(op) # 7)
         /\ "GPRS_WE7" \in Expected(s, op, p) <=>
              s \in {"RESET1", "FETCH2", "LOAD3", "IREQ5", "IRET2"}
                  \/ (s = "BCC1" /\ branchtrue(op, p))
         /\ "MEM_WORD" \in Expected(s, op, p) <=>
              \/ s \in {"FETCH1", "IREQ1", "IREQ3", "IRET1", "IRET2", "IRET3", "IRET4"}
              \/ s \in {"STORE1", "LOAD1", "LOAD2"} /\ ~IsSet(op, 13)
<1>1. CASE s = "RESET0"
  BY <1>1, ExpectedIs
<1>2. CASE s = "RESET1"
  BY <1>2, ExpectedIs
<1>3. CASE s = "FETCH1"
  BY <1>3, ExpectedIs
<1>4. CASE s = "FETCH2"
  BY <1>4, ExpectedIs
<1>5. CASE s = "BCC1"
  BY <1>5, ExpectedIs
<1>6. CASE s = "ARITH1"
  BY <1>6, ExpectedIs
<1>7. CASE s = "STORE1"
  BY <1>7, ExpectedIs
<1>8. CASE s = "STORE2"
  BY <1>8, ExpectedIs
<1>9. CASE s = "LDA1"
  BY <1>9, ExpectedIs
<1>10. CASE s = "LOAD1"
  BY <1>10, ExpectedIs
<1>11. CASE s = "LOAD2"
  BY <1>11, ExpectedIs
<1>12. CASE s = "LOAD3"
  BY <1>12, ExpectedIs
<1>13. CASE s = "IREQ1"
  BY <1>13, ExpectedIs
<1>14. CASE s = "IREQ2"
  BY <1>14, ExpectedIs
<1>15. CASE s = "IREQ3"
  BY <1>15, ExpectedIs
<1>16. CASE s = "IREQ4"
  BY <1>16, ExpectedIs
<1>17. CASE s = "IREQ5"
  BY <1>17, ExpectedIs
<1>18. CASE s = "HALT1"
  BY <1>18, ExpectedIs
<1>19. CASE s = "IRET1"
  BY <1>19, ExpectedIs
<1>20. CASE s = "IRET2"
  BY <1>20, ExpectedIs
<1>21. CASE s = "IRET3"
  BY <1>21, ExpectedIs
<1>22. CASE s = "IRET4"
  BY <1>22, ExpectedIs
<1>23. CASE s = "WRPS1"
  BY <1>23, ExpectedIs
<1>24. CASE s = "RDPS1"
  BY <1>24, ExpectedIs
<1>25. QED
  BY <1>1, <1>2, <1>3, <1>4, <1>5, <1>6, <1>7, <1>8, <1>9, <1>10, <1>11, <1>12,
     <1>13, <1>14, <1>15, <1>16, <1>17, <1>18, <1>19, <1>20, <1>21, <1>22, <1>23, <1>24 DEF Flops

(* The tester's branch condition is that of the boards. *)
LEMMA BranchSame ==
  ASSUME NEW i \in Word, NEW p \in Word,
         IsSet(p, 3) <=> nzvc.n, IsSet(p, 2) <=> nzvc.z,
         IsSet(p, 1) <=> nzvc.v, IsSet(p, 0) <=> nzvc.c,
         nzvc \in Flags
  PROVE  branchtrue(i, p) <=> pswbt(i)
<1> DEFINE f == Field3(i, 10)
           n == IsSet(p, 3)
           z == IsSet(p, 2)
           v == IsSet(p, 1)
           c == IsSet(p, 0)
           cond == [k \in 0 .. 7 |->
                   CASE k = 0 -> FALSE [] k = 1 -> z [] k = 2 -> n # v [] k = 3 -> n # v \/ z
                     [] k = 4 -> c [] k = 5 -> c \/ z [] k = 6 -> n [] k = 7 -> v]
<1>1. BranchTrue(i, p) <=> pswbt(i)
  BY SameBranch
<1>2. f \in 0 .. 7
  <2>1. Field3(i, 10) = Bit(i, 10) + 2 * Bit(i, 11) + 4 * Bit(i, 12)
        /\ Bit(i, 10) \in {0, 1} /\ Bit(i, 11) \in {0, 1} /\ Bit(i, 12) \in {0, 1}
    BY FieldBits
  <2>2. QED
    BY <2>1
<1>3. cond[f] = BranchBase(i, p)
  <2>1. f = 0 \/ f = 1 \/ f = 2 \/ f = 3 \/ f = 4 \/ f = 5 \/ f = 6 \/ f = 7
    BY <1>2
  <2>2. n \in BOOLEAN /\ z \in BOOLEAN /\ v \in BOOLEAN /\ c \in BOOLEAN
    BY DEF IsSet
  <2> HIDE DEF n, z, v, c, f
  <2>4. CASE f = 0
    <3> DEFINE x == FALSE
    <3>1. cond[f] = x
      BY <1>2, <2>2, <2>4
    <3>2. x \in BOOLEAN /\ BranchBase(i, p) \in BOOLEAN /\ (BranchBase(i, p) <=> x)
      BY <2>2, <2>4 DEF BranchBase, n, z, v, c, f
    <3> HIDE DEF x
    <3>3. QED
      BY <3>1, <3>2
  <2>5. CASE f = 1
    <3> DEFINE x == z
    <3>1. cond[f] = x
      BY <1>2, <2>2, <2>5
    <3>2. x \in BOOLEAN /\ BranchBase(i, p) \in BOOLEAN /\ (BranchBase(i, p) <=> x)
      BY <2>2, <2>5 DEF BranchBase, n, z, v, c, f
    <3> HIDE DEF x
    <3>3. QED
      BY <3>1, <3>2
  <2>6. CASE f = 2
    <3> DEFINE x == n # v
    <3>1. cond[f] = x
      BY <1>2, <2>2, <2>6
    <3>2. x \in BOOLEAN /\ BranchBase(i, p) \in BOOLEAN /\ (BranchBase(i, p) <=> x)
      BY <2>2, <2>6 DEF BranchBase, n, z, v, c, f
    <3> HIDE DEF x
    <3>3. QED
      BY <3>1, <3>2
  <2>7. CASE f = 3
    <3> DEFINE x == n # v \/ z
    <3>1. cond[f] = x
      BY <1>2, <2>2, <2>7
    <3>2. x \in BOOLEAN /\ BranchBase(i, p) \in BOOLEAN /\ (BranchBase(i, p) <=> x)
      BY <2>2, <2>7 DEF BranchBase, n, z, v, c, f
    <3> HIDE DEF x
    <3>3. QED
      BY <3>1, <3>2
  <2>8. CASE f = 4
    <3> DEFINE x == c
    <3>1. cond[f] = x
      BY <1>2, <2>2, <2>8
    <3>2. x \in BOOLEAN /\ BranchBase(i, p) \in BOOLEAN /\ (BranchBase(i, p) <=> x)
      BY <2>2, <2>8 DEF BranchBase, n, z, v, c, f
    <3> HIDE DEF x
    <3>3. QED
      BY <3>1, <3>2
  <2>9. CASE f = 5
    <3> DEFINE x == c \/ z
    <3>1. cond[f] = x
      BY <1>2, <2>2, <2>9
    <3>2. x \in BOOLEAN /\ BranchBase(i, p) \in BOOLEAN /\ (BranchBase(i, p) <=> x)
      BY <2>2, <2>9 DEF BranchBase, n, z, v, c, f
    <3> HIDE DEF x
    <3>3. QED
      BY <3>1, <3>2
  <2>10. CASE f = 6
    <3> DEFINE x == n
    <3>1. cond[f] = x
      BY <1>2, <2>2, <2>10
    <3>2. x \in BOOLEAN /\ BranchBase(i, p) \in BOOLEAN /\ (BranchBase(i, p) <=> x)
      BY <2>2, <2>10 DEF BranchBase, n, z, v, c, f
    <3> HIDE DEF x
    <3>3. QED
      BY <3>1, <3>2
  <2>11. CASE f = 7
    <3> DEFINE x == v
    <3>1. cond[f] = x
      BY <1>2, <2>2, <2>11
    <3>2. x \in BOOLEAN /\ BranchBase(i, p) \in BOOLEAN /\ (BranchBase(i, p) <=> x)
      BY <2>2, <2>11 DEF BranchBase, n, z, v, c, f
    <3> HIDE DEF x
    <3>3. QED
      BY <3>1, <3>2
  <2>12. QED
    BY <2>1, <2>4, <2>5, <2>6, <2>7, <2>8, <2>9, <2>10, <2>11
<1>4. branchtrue(i, p) = (cond[f] # IsSet(i, 0))
  BY DEF branchtrue
<1>5. branchtrue(i, p) <=> BranchTrue(i, p)
  BY <1>3, <1>4 DEF BranchTrue
<1>6. QED
  BY <1>1, <1>5

(* Every control line the boards raise, in any state. *)
LEMMA StackControls ==
  ASSUME NEW s \in Flops, q = {s}, NEW m, NEW op \in Word,
         s \notin {"RESET0", "RESET1", "FETCH1", "FETCH2"} => IR(m) = op
  PROVE  /\ ControlOn(m) =
              Raised(s)
              \union (IF s \notin {"FETCH1", "FETCH2", "BCC1", "STORE1", "LDA1", "LOAD1", "IREQ4",
                                  "LOAD3", "ARITH1"} THEN {"ALU_BONLY"} ELSE {})
              \union (IF s \in {"LOAD1", "LOAD2", "STORE1"} /\ IsSet(op, 13)
                      THEN {} ELSE {"MEM_WORD"})
              \union (IF s \in {"RESET1", "FETCH2", "IREQ5", "IRET2", "LOAD3"}
                         \/ (s = "BCC1" /\ pswbt(op))
                      THEN {"GPRS_WE7"} ELSE {})
              \union (IF s \in {"LDA1", "LOAD2", "RDPS1"} \/ (s = "ARITH1" /\ rdOf(op) # 7)
                      THEN {"GPRS_WED"} ELSE {})
              \union (IF ieff THEN {"PSW_IE"} ELSE {})
              \union (IF pswbt(IR(m)) THEN {"PSW_BT"} ELSE {})
<1> DEFINE i == IR(m)
<1>1. s \in {"LOAD1", "LOAD2", "STORE1", "BCC1", "ARITH1"} => i = op
  OBVIOUS
<1>2. {c \in Controls : Ctl(c)} = Raised(s)
  BY Alone DEF Raised, Ctl
<1>3. ALU_BONLY
          <=> s \notin {"FETCH1", "FETCH2", "BCC1", "STORE1", "LDA1", "LOAD1", "IREQ4",
                        "LOAD3", "ARITH1"}
  BY Alone, Lines DEF ALU_BONLY
<1>4. MEM_WORD(i) <=> ~(s \in {"LOAD1", "LOAD2", "STORE1"} /\ IsSet(op, 13))
  BY <1>1, Alone DEF MEM_WORD
<1>5. GPRS_WE7(pswbt(i)) <=> s \in {"RESET1", "FETCH2", "IREQ5", "IRET2", "LOAD3"}
                              \/ (s = "BCC1" /\ pswbt(op))
  BY <1>1, Alone DEF GPRS_WE7
<1>6. GPRS_WED(i) <=> s \in {"LDA1", "LOAD2", "RDPS1"} \/ (s = "ARITH1" /\ rdOf(op) # 7)
  <2>1. rdnotpc(op) <=> rdOf(op) # 7
    BY FieldBits DEF rdOf, RegD
  <2>2. QED
    BY <1>1, <2>1, Alone DEF GPRS_WED
<1> HIDE DEF i
<1>7. QED
  BY <1>2, <1>3, <1>4, <1>5, <1>6 DEF ControlOn, i

(* They are the ones the tester expects, but for those it does not look at. *)
LEMMA ControlsShow ==
  ASSUME NEW s \in Flops, q = {s}, NEW m, NEW op \in Word, NEW p,
         s \notin {"RESET0", "RESET1", "FETCH1", "FETCH2"} => IR(m) = op,
         s = "BCC1" => (branchtrue(op, p) <=> pswbt(op)),
         s \in {"RESET1", "IREQ4", "IREQ5"} => ~ieff
  PROVE  ControlOn(m) \ Ignored(s) = Expected(s, op, p) \ Ignored(s)
<1>1. CASE s = "RESET0"
  <2>1. Raised("RESET0") = {}
    BY DEF Raised, Controls, Microcode
  <2>2. ControlOn(m) = {"ALU_BONLY", "MEM_WORD"}
          \union (IF ieff THEN {"PSW_IE"} ELSE {})
          \union (IF pswbt(IR(m)) THEN {"PSW_BT"} ELSE {})
    BY <1>1, <2>1, StackControls
  <2>3. Ignored(s) = {"PSW_BT", "PSW_IE", "MEM_WORD", "ALU_BONLY"}
    BY <1>1 DEF Ignored, WordMatters
  <2>4. QED
    BY <1>1, <2>2, <2>3, ExpectedIs
<1>2. CASE s = "RESET1"
  <2>1. Raised("RESET1") = {"BMUX_CON_0", "PSW_IECLR", "PSW_WE"}
    BY DEF Raised, Controls, Microcode
  <2>2. QED
    BY <1>2, <2>1, StackControls, ExpectedIs DEF Ignored, WordMatters
<1>3. CASE s = "FETCH1"
  <2>1. ControlOn(m) = {"ALU_ADD", "BMUX_CON_0", "GPRS_REA7", "MEM_READ", "MEM_WORD"}
          \union (IF ieff THEN {"PSW_IE"} ELSE {})
          \union (IF pswbt(IR(m)) THEN {"PSW_BT"} ELSE {})
    BY <1>3, StackControls, RaisedIs
  <2>2. Ignored(s) = {"PSW_BT", "PSW_IE"}
    BY <1>3 DEF Ignored, WordMatters
  <2>3. QED
    BY <1>3, <2>1, <2>2, ExpectedIs
<1>4. CASE s = "FETCH2"
  <2>1. ControlOn(m) = {"GPRS_REA7", "BMUX_CON_2", "ALU_ADD", "GPRS_WE7", "IR_WE", "MEM_WORD"}
          \union (IF ieff THEN {"PSW_IE"} ELSE {})
          \union (IF pswbt(IR(m)) THEN {"PSW_BT"} ELSE {})
    BY <1>4, StackControls, RaisedIs
  <2>2. Ignored(s) = {"PSW_BT", "PSW_IE", "MEM_WORD"}
    BY <1>4 DEF Ignored, WordMatters
  <2>3. QED
    BY <1>4, <2>1, <2>2, ExpectedIs
<1>5. CASE s = "BCC1"
  BY <1>5, StackControls, RaisedIs, ExpectedIs DEF Ignored, WordMatters
<1>6. CASE s = "ARITH1"
  BY <1>6, StackControls, RaisedIs, ExpectedIs DEF Ignored, WordMatters
<1>7. CASE s = "STORE1"
  BY <1>7, StackControls, RaisedIs, ExpectedIs DEF Ignored, WordMatters
<1>8. CASE s = "STORE2"
  <2>1. ControlOn(m) = {"GPRS_RED2B", "ALU_BONLY", "MEM_WORD"}
          \union (IF ieff THEN {"PSW_IE"} ELSE {})
          \union (IF pswbt(IR(m)) THEN {"PSW_BT"} ELSE {})
    BY <1>8, StackControls, RaisedIs
  <2>2. Ignored(s) = {"PSW_BT", "PSW_IE", "MEM_WORD"}
    BY <1>8 DEF Ignored, WordMatters
  <2>3. QED
    BY <1>8, <2>1, <2>2, ExpectedIs
<1>9. CASE s = "LDA1"
  <2>1. ControlOn(m) = {"ALU_ADD", "BMUX_IRLSOF", "GPRS_REA", "MEM_WORD", "GPRS_WED"}
          \union (IF ieff THEN {"PSW_IE"} ELSE {})
          \union (IF pswbt(IR(m)) THEN {"PSW_BT"} ELSE {})
    BY <1>9, StackControls, RaisedIs
  <2>2. Ignored(s) = {"PSW_BT", "PSW_IE", "MEM_WORD"}
    BY <1>9 DEF Ignored, WordMatters
  <2>3. QED
    BY <1>9, <2>1, <2>2, ExpectedIs
<1>10. CASE s = "LOAD1"
  <2>1. ControlOn(m) = {"GPRS_REA", "BMUX_IRLSOF", "ALU_ADD", "MEM_READ"}
          \union (IF IsSet(op, 13) THEN {} ELSE {"MEM_WORD"})
          \union (IF ieff THEN {"PSW_IE"} ELSE {})
          \union (IF pswbt(IR(m)) THEN {"PSW_BT"} ELSE {})
    BY <1>10, StackControls, RaisedIs
  <2>2. Ignored(s) = {"PSW_BT", "PSW_IE"}
    BY <1>10 DEF Ignored, WordMatters
  <2>3. QED
    BY <1>10, <2>1, <2>2, ExpectedIs
<1>11. CASE s = "LOAD2"
  BY <1>11, StackControls, RaisedIs, ExpectedIs DEF Ignored, WordMatters
<1>12. CASE s = "LOAD3"
  <2>1. ControlOn(m) = {"GPRS_REA7", "BMUX_CON_2", "ALU_ADD", "GPRS_WE7", "MEM_WORD"}
          \union (IF ieff THEN {"PSW_IE"} ELSE {})
          \union (IF pswbt(IR(m)) THEN {"PSW_BT"} ELSE {})
    BY <1>12, StackControls, RaisedIs
  <2>2. Ignored(s) = {"PSW_BT", "PSW_IE", "MEM_WORD"}
    BY <1>12 DEF Ignored, WordMatters
  <2>3. QED
    BY <1>12, <2>1, <2>2, ExpectedIs
<1>13. CASE s = "IREQ1"
  BY <1>13, StackControls, RaisedIs, ExpectedIs DEF Ignored, WordMatters
<1>14. CASE s = "IREQ2"
  <2>1. ControlOn(m) = {"PSW_REB", "ALU_BONLY", "MEM_WORD"}
          \union (IF ieff THEN {"PSW_IE"} ELSE {})
          \union (IF pswbt(IR(m)) THEN {"PSW_BT"} ELSE {})
    BY <1>14, StackControls, RaisedIs
  <2>2. Ignored(s) = {"PSW_BT", "PSW_IE", "MEM_WORD"}
    BY <1>14 DEF Ignored, WordMatters
  <2>3. QED
    BY <1>14, <2>1, <2>2, ExpectedIs
<1>15. CASE s = "IREQ3"
  BY <1>15, StackControls, RaisedIs, ExpectedIs DEF Ignored, WordMatters
<1>16. CASE s = "IREQ4"
  <2>1. ControlOn(m) = {"ALU_ADD", "BMUX_CON_0", "GPRS_REA7", "PSW_IECLR", "MEM_WORD"}
          \union (IF ieff THEN {"PSW_IE"} ELSE {})
          \union (IF pswbt(IR(m)) THEN {"PSW_BT"} ELSE {})
    BY <1>16, StackControls, RaisedIs
  <2>2. Ignored(s) = {"PSW_BT", "MEM_WORD"}
    BY <1>16 DEF Ignored, WordMatters
  <2>3. QED
    BY <1>16, <2>1, <2>2, ExpectedIs
<1>17. CASE s = "IREQ5"
  <2>1. ControlOn(m) = {"BMUX_CON_2", "ALU_BONLY", "GPRS_WE7", "MEM_WORD"}
          \union (IF pswbt(IR(m)) THEN {"PSW_BT"} ELSE {})
    BY <1>17, StackControls, RaisedIs
  <2>2. Ignored(s) = {"PSW_BT", "MEM_WORD"}
    BY <1>17 DEF Ignored, WordMatters
  <2>3. QED
    BY <1>17, <2>1, <2>2, ExpectedIs
<1>18. CASE s = "HALT1"
  <2>1. ControlOn(m) = {"HALT", "GPRS_REB", "ALU_BONLY", "MEM_WORD"}
          \union (IF ieff THEN {"PSW_IE"} ELSE {})
          \union (IF pswbt(IR(m)) THEN {"PSW_BT"} ELSE {})
    BY <1>18, StackControls, RaisedIs
  <2>2. Ignored(s) = {"PSW_BT", "PSW_IE", "MEM_WORD"}
    BY <1>18 DEF Ignored, WordMatters
  <2>3. QED
    BY <1>18, <2>1, <2>2, ExpectedIs
<1>19. CASE s = "IRET1"
  BY <1>19, StackControls, RaisedIs, ExpectedIs DEF Ignored, WordMatters
<1>20. CASE s = "IRET2"
  BY <1>20, StackControls, RaisedIs, ExpectedIs DEF Ignored, WordMatters
<1>21. CASE s = "IRET3"
  BY <1>21, StackControls, RaisedIs, ExpectedIs DEF Ignored, WordMatters
<1>22. CASE s = "IRET4"
  BY <1>22, StackControls, RaisedIs, ExpectedIs DEF Ignored, WordMatters
<1>23. CASE s = "WRPS1"
  <2>1. ControlOn(m) = {"GPRS_REB", "PSW_WE", "ALU_BONLY", "MEM_WORD"}
          \union (IF ieff THEN {"PSW_IE"} ELSE {})
          \union (IF pswbt(IR(m)) THEN {"PSW_BT"} ELSE {})
    BY <1>23, StackControls, RaisedIs
  <2>2. Ignored(s) = {"PSW_BT", "PSW_IE", "MEM_WORD"}
    BY <1>23 DEF Ignored, WordMatters
  <2>3. QED
    BY <1>23, <2>1, <2>2, ExpectedIs
<1>24. CASE s = "RDPS1"
  <2>1. ControlOn(m) = {"PSW_REB", "GPRS_WED", "ALU_BONLY", "MEM_WORD"}
          \union (IF ieff THEN {"PSW_IE"} ELSE {})
          \union (IF pswbt(IR(m)) THEN {"PSW_BT"} ELSE {})
    BY <1>24, StackControls, RaisedIs
  <2>2. Ignored(s) = {"PSW_BT", "PSW_IE", "MEM_WORD"}
    BY <1>24 DEF Ignored, WordMatters
  <2>3. QED
    BY <1>24, <2>1, <2>2, ExpectedIs
<1>25. QED
  BY <1>1, <1>2, <1>3, <1>4, <1>5, <1>6, <1>7, <1>8, <1>9, <1>10, <1>11, <1>12,
     <1>13, <1>14, <1>15, <1>16, <1>17, <1>18, <1>19, <1>20, <1>21, <1>22, <1>23, <1>24 DEF Flops

(* What the tester expects of a cycle in state s of instruction op, when before
   it took p for the status word, rv for the registers and kn for which of them
   are known, and put x and y on the buses in place of what is missing. *)
BaseStates == {"ARITH1", "STORE1", "LDA1", "LOAD1"}
PcStates   == {"FETCH1", "FETCH2", "BCC1", "IREQ4", "LOAD3"}
AReads(s)  == s \in BaseStates \cup PcStates
ANum(s, op) == IF s \in BaseStates THEN Field3(op, 10) ELSE 7
BReads(s)  == s \in {"ARITH1", "WRPS1", "HALT1", "STORE2"}
BNum(s, op) == IF s \in {"ARITH1", "WRPS1", "HALT1"} THEN Field3(op, 4) ELSE rdOf(op)
BKnown(s)  == s \notin {"RESET0", "IREQ2", "RDPS1"}
AddStates  == {"FETCH1", "FETCH2", "BCC1", "STORE1", "LDA1", "LOAD1", "IREQ4", "LOAD3"}

Drives(kn, r)       == r \in hasregs /\ kn[r]
Seen(kn, rv, r, x)  == IF r \notin hasregs THEN x ELSE IF kn[r] THEN rv[r] ELSE 0
FixedB(s, op) ==
    IF s \in {"STORE1", "LDA1", "LOAD1"} THEN LsOffset(op)
    ELSE IF s = "BCC1" THEN BrOffset(op)
    ELSE IF s \in {"FETCH2", "LOAD3", "IREQ5"} THEN 2
    ELSE IF s \in {"IREQ1", "IRET3"} THEN 65534
    ELSE IF s \in {"IREQ3", "IRET1"} THEN 65532 ELSE 0
AOn(s, op, kn, rv, x) == Seen(kn, rv, ANum(s, op), x)
BOn(s, op, kn, rv, y) ==
    IF BReads(s) THEN Seen(kn, rv, BNum(s, op), y)
    ELSE IF s = "LOAD2" THEN LoadedWord(op, y)
    ELSE IF s \in {"IRET2", "IRET4"} THEN y ELSE FixedB(s, op)
PswIn(s, p) == IF s \in {"RESET1", "IREQ4"} THEN p % 32768 ELSE p
DOf(s, op, p, a, b) ==
    IF ~BKnown(s) THEN 0
    ELSE IF s = "ARITH1" THEN Computed(op, a, b, PswIn(s, p)).d
    ELSE IF s \in AddStates THEN AddW(a, b) ELSE b
DOn(s, op, p, kn, rv, x, y) == DOf(s, op, p, AOn(s, op, kn, rv, x), BOn(s, op, kn, rv, y))

PutsReg(s, op, p) ==
    \/ s \in {"LDA1", "LOAD2", "RDPS1", "RESET1", "FETCH2", "IREQ5", "IRET2", "LOAD3"}
    \/ s = "ARITH1" /\ rdOf(op) # 7
    \/ s = "BCC1" /\ branchtrue(op, p)
Dest(s, op) == IF s \in {"LDA1", "LOAD2", "RDPS1", "ARITH1"} THEN rdOf(op) ELSE 7
PswOut(s, op, p, a, b, d) ==
    IF s \in {"RESET1", "IRET4", "WRPS1"} THEN OrW(d, 32752)
    ELSE IF s = "ARITH1" THEN computenzvc(op, Computed(op, a, b, PswIn(s, p)), PswIn(s, p))
    ELSE PswIn(s, p)

WatchesA(kn, rv, x) ==
    /\ pada = IF AReads(st) /\ ~Drives(kn, ANum(st, opcode))
              THEN AOn(st, opcode, kn, rv, x) ELSE Ones
    /\ vfya = IF AReads(st) /\ Drives(kn, ANum(st, opcode))
              THEN AOn(st, opcode, kn, rv, x) ELSE NotChecked
WatchesB(kn, rv, y) ==
    /\ padb = IF BReads(st) /\ ~Drives(kn, BNum(st, opcode))
              THEN BOn(st, opcode, kn, rv, y) ELSE Ones
    /\ vfyb = IF BKnown(st) /\ (~BReads(st) \/ Drives(kn, BNum(st, opcode)))
              THEN BOn(st, opcode, kn, rv, y) ELSE NotChecked
Predicts(p, kn, rv, x, y) ==
    /\ vfyd = IF BKnown(st) THEN DOn(st, opcode, p, kn, rv, x, y) ELSE NotChecked
    /\ regvalues = IF PutsReg(st, opcode, p)
                   THEN [rv EXCEPT ![Dest(st, opcode)] = DOn(st, opcode, p, kn, rv, x, y)] ELSE rv
    /\ regknowns = IF PutsReg(st, opcode, p)
                   THEN [kn EXCEPT ![Dest(st, opcode)] = BKnown(st)] ELSE kn
    /\ pswbits = PswOut(st, opcode, p, AOn(st, opcode, kn, rv, x), BOn(st, opcode, kn, rv, y),
                        DOn(st, opcode, p, kn, rv, x, y))

LEMMA ConstantIs ==
  ASSUME NEW s \in Flops, NEW op \in Word, NEW p, ~BReads(s), s \notin {"LOAD2", "IRET2", "IRET4"}
  PROVE  Constant(Expected(s, op, p), op) = FixedB(s, op)
<1> DEFINE e == Expected(s, op, p)
<1>1. /\ "BMUX_IRLSOF" \in e <=> s \in {"STORE1", "LDA1", "LOAD1"}
      /\ "BMUX_IRBROF" \in e <=> s = "BCC1"
      /\ "BMUX_CON_2" \in e <=> s \in {"FETCH2", "LOAD3", "IREQ1", "IREQ5", "IRET3"}
      /\ "BMUX_CON__4" \in e <=> s \in {"IREQ1", "IREQ3", "IRET1", "IRET3"}
  BY ExpectedLines
<1>2. LsOffset(op) = SextAt(op, 64) /\ BrOffset(op) = SextAt(op - (op % 2), 512)
  <2>1. op \in Int
    BY WordIs
  <2>2. Bit(op, 0) = op % 2
    BY <2>1, Weights DEF Bit
  <2>3. QED
    BY <2>2 DEF LsOffset, BrOffset
<1>3. Ones - 3 = 65532
  BY DEF Ones, WordSize
<1> HIDE DEF e
<1>4. CASE s \in {"STORE1", "LDA1", "LOAD1"}
  BY <1>1, <1>2, <1>4 DEF Constant, FixedB, e
<1>5. CASE s = "BCC1"
  BY <1>1, <1>2, <1>5 DEF Constant, FixedB, e
<1>6. CASE s \notin {"STORE1", "LDA1", "LOAD1", "BCC1"}
  <2>1. Constant(e, op) = OrW(Gate("BMUX_CON_2" \in e, 2), Gate("BMUX_CON__4" \in e, Ones - 3))
    BY <1>1, <1>6 DEF Constant
  <2>2. 0 \in Word /\ 2 \in Word /\ 65532 \in Word
    BY WordIs
  <2>3. OrW(2, 0) = 2 /\ OrW(0, 65532) = 65532 /\ OrW(0, 0) = 0 /\ OrW(2, 65532) = 65534
    BY <2>2, OrZero, Evens
  <2>4. QED
    BY <1>1, <1>3, <1>6, <2>1, <2>3 DEF FixedB, Gate, e
<1>7. QED
  BY <1>4, <1>5, <1>6

(* What Verify leaves behind. *)
LEMMA VerifyIs ==
  ASSUME NEW s \in Flops, NEW op \in Word, NEW x \in Word, NEW y \in Word,
         NEW p, NEW kn, NEW rv, p = pswbits, kn = regknowns, rv = regvalues,
         bench' = bench, Verify(s, op, x, y)
  PROVE  /\ st' = s /\ opcode' = op
         /\ WatchesA(kn, rv, x)' /\ WatchesB(kn, rv, y)' /\ Predicts(p, kn, rv, x, y)'
         /\ memreadpend' = (s \in {"LOAD2", "IRET2", "IRET4", "FETCH2"})
         /\ memreaddata' = IF s = "FETCH2" THEN op
                           ELSE IF s \in {"LOAD2", "IRET2", "IRET4"} THEN y ELSE memreaddata
         /\ vfyireoc' = (s = "FETCH2" \/ (vfyireoc /\ s # "FETCH1"))
         /\ errors' = \/ errors
                      \/ EndsWrong
                      \/ LinesWrong(s, ControlOn(Ones)', Expected(s, op, p))
<1> DEFINE e == Expected(s, op, pswbits)
           psw1 == IF "PSW_IECLR" \in e THEN pswbits % 32768 ELSE pswbits
           ran == IF "GPRS_REA" \in e THEN Field3(op, 10) ELSE 7
           areg == e \cap {"GPRS_REA", "GPRS_REA7"} # {}
           rbn == IF "GPRS_REB" \in e THEN Field3(op, 4) ELSE rdOf(op)
           breg == e \cap {"GPRS_REB", "GPRS_RED2B"} # {}
           bread == "MEM_REB" \in e
           bknown == "PSW_REB" \notin e /\ s # "RESET0"
           avalue == Operand(ran, x)
           bvalue == CASE breg  -> Operand(rbn, y)
                       [] bread -> (IF "MEM_WORD" \in e THEN y
                                    ELSE IF IsSet(op, 14) THEN SextAt(y, 128) ELSE y % 256)
                       [] OTHER -> Constant(e, op)
           o == Computed(op, avalue, bvalue, psw1)
           dvalue == CASE ~bknown           -> 0
                       [] "ALU_IRFC" \in e  -> o.d
                       [] "ALU_ADD" \in e   -> AddW(avalue, bvalue)
                       [] OTHER             -> bvalue
           rdn == IF "GPRS_WED" \in e THEN rdOf(op) ELSE 7
           a == AOn(s, op, kn, rv, x)
           b == BOn(s, op, kn, rv, y)
           d == DOn(s, op, p, kn, rv, x, y)
<1>1. /\ st' = s /\ opcode' = op
      /\ pada' = IF areg /\ ~Driven(ran) THEN avalue ELSE Ones
      /\ vfya' = IF areg /\ Driven(ran) THEN avalue ELSE NotChecked
      /\ padb' = IF breg /\ ~Driven(rbn) THEN bvalue ELSE Ones
      /\ vfyb' = IF bknown /\ (~breg \/ Driven(rbn)) THEN bvalue ELSE NotChecked
      /\ vfyd' = IF bknown THEN dvalue ELSE NotChecked
      /\ memreadpend' = (bread \/ "IR_WE" \in e)
      /\ memreaddata' = IF "IR_WE" \in e THEN op ELSE IF bread THEN y ELSE memreaddata
      /\ vfyireoc' = (s \in {"FETCH2"} \/ (vfyireoc /\ s # "FETCH1"))
      /\ IF e \cap {"GPRS_WED", "GPRS_WE7"} # {}
           THEN /\ regvalues' = [regvalues EXCEPT ![rdn] = dvalue]
                /\ regknowns' = [regknowns EXCEPT ![rdn] = bknown]
           ELSE UNCHANGED <<regvalues, regknowns>>
      /\ pswbits' = IF "PSW_WE" \in e THEN OrW(dvalue, 32752)
                    ELSE IF "PSW_ALUWE" \in e THEN computenzvc(op, o, psw1)
                    ELSE psw1
      /\ errors' = \/ errors
                   \/ EndsWrong
                   \/ LinesWrong(s, ControlOn(Ones)', e)
  BY DEF Verify
<1> HIDE DEF e
<1>2. /\ "GPRS_REA" \in e <=> s \in BaseStates
      /\ "GPRS_REA7" \in e <=> s \in PcStates
      /\ "GPRS_REB" \in e <=> s \in {"ARITH1", "WRPS1", "HALT1"}
      /\ "GPRS_RED2B" \in e <=> s = "STORE2"
      /\ "MEM_REB" \in e <=> s \in {"LOAD2", "IRET2", "IRET4"}
      /\ "PSW_REB" \in e <=> s \in {"IREQ2", "RDPS1"}
      /\ "ALU_IRFC" \in e <=> s = "ARITH1"
      /\ "ALU_ADD" \in e <=> s \in AddStates
      /\ "PSW_IECLR" \in e <=> s \in {"RESET1", "IREQ4"}
      /\ "IR_WE" \in e <=> s = "FETCH2"
      /\ "PSW_WE" \in e <=> s \in {"RESET1", "IRET4", "WRPS1"}
      /\ "PSW_ALUWE" \in e <=> s = "ARITH1"
      /\ "GPRS_WED" \in e <=>
             s \in {"LDA1", "LOAD2", "RDPS1"} \/ (s = "ARITH1" /\ rdOf(op) # 7)
      /\ "GPRS_WE7" \in e <=>
             s \in {"RESET1", "FETCH2", "IREQ5", "IRET2", "LOAD3"}
                 \/ (s = "BCC1" /\ branchtrue(op, p))
      /\ s \in {"LOAD2", "IRET2", "IRET4"} =>
             ("MEM_WORD" \in e <=> s # "LOAD2" \/ ~IsSet(op, 13))
  BY ExpectedLines DEF e, BaseStates, PcStates, AddStates
<1>3. (areg <=> AReads(s)) /\ ran = ANum(s, op) /\ (breg <=> BReads(s)) /\ rbn = BNum(s, op)
      /\ (bknown <=> BKnown(s)) /\ bknown \in BOOLEAN /\ BKnown(s) \in BOOLEAN
      /\ psw1 = PswIn(s, p)
  BY <1>2 DEF AReads, ANum, BReads, BNum, BKnown, PswIn
<1>4. /\ \A r, w : Operand(r, w) = Seen(kn, rv, r, w)
      /\ \A r : Driven(r) <=> Drives(kn, r)
  BY DEF Operand, Seen, Driven, Drives
<1>5. avalue = a
  BY <1>3, <1>4 DEF AOn
<1>6. bvalue = b
  <2>1. CASE BReads(s)
    <3>1. ~bread
      BY <1>2, <2>1 DEF BReads
    <3>2. QED
      BY <1>3, <1>4, <2>1, <3>1 DEF BOn
  <2>2. CASE s \in {"LOAD2", "IRET2", "IRET4"}
    <3>1. ~BReads(s)
      BY <2>2 DEF BReads
    <3>2. LoadedWord(op, y) = IF ~IsSet(op, 13) THEN y
                              ELSE IF IsSet(op, 14) THEN SextAt(y, 128) ELSE y % 256
      BY DEF LoadedWord, ByteAccess
    <3>3. QED
      BY <1>2, <1>3, <2>2, <3>1, <3>2 DEF BOn
  <2>3. CASE ~BReads(s) /\ s \notin {"LOAD2", "IRET2", "IRET4"}
    <3>1. Constant(e, op) = FixedB(s, op)
      BY <2>3, ConstantIs DEF e
    <3>2. QED
      BY <1>2, <1>3, <2>3, <3>1 DEF BOn
  <2>4. QED
    BY <2>1, <2>2, <2>3
<1> HIDE DEF areg, ran, breg, rbn, bknown, psw1, avalue, bvalue
<1>7. dvalue = d
  BY <1>2, <1>3, <1>5, <1>6 DEF DOn, DOf, AddStates, BKnown
<1>8. /\ e \cap {"GPRS_WED", "GPRS_WE7"} # {} <=> PutsReg(s, op, p)
      /\ PutsReg(s, op, p) => rdn = Dest(s, op)
  BY <1>2 DEF PutsReg, Dest
<1> HIDE DEF a, b, d, dvalue, rdn, bread, o
<1>9. hasregs' = hasregs
  BY DEF hasregs
<1>10. WatchesA(kn, rv, x)'
  BY <1>1, <1>3, <1>4, <1>5, <1>9 DEF WatchesA, AOn, Seen, Drives, a
<1>11. WatchesB(kn, rv, y)'
  <2>1. /\ (BKnown(s) /\ (~BReads(s) \/ Drives(kn, BNum(s, op))))
              = (bknown /\ (~breg \/ Driven(rbn)))
        /\ (BReads(s) /\ ~Drives(kn, BNum(s, op))) = (breg /\ ~Driven(rbn))
    BY <1>3, <1>4 DEF BReads, Drives, Driven
  <2>2. QED
    BY <1>1, <1>3, <1>4, <1>6, <1>9, <2>1 DEF WatchesB, BOn, Seen, Drives, b
<1>12. Predicts(p, kn, rv, x, y)'
  <2>1. /\ vfyd' = IF BKnown(s) THEN d ELSE NotChecked
        /\ regvalues' = IF PutsReg(s, op, p) THEN [rv EXCEPT ![Dest(s, op)] = d] ELSE rv
        /\ regknowns' = IF PutsReg(s, op, p) THEN [kn EXCEPT ![Dest(s, op)] = BKnown(s)] ELSE kn
    BY <1>1, <1>3, <1>7, <1>8
  <2>2. pswbits' = PswOut(s, op, p, a, b, d)
    BY <1>1, <1>2, <1>3, <1>5, <1>6, <1>7 DEF PswOut, o
  <2>3. /\ DOn(s, op, p, kn, rv, x, y)' = d
        /\ AOn(s, op, kn, rv, x)' = a
        /\ BOn(s, op, kn, rv, y)' = b
    BY <1>9 DEF a, b, d, DOn, DOf, AOn, BOn, Seen
  <2>4. QED
    BY <1>1, <2>1, <2>2, <2>3 DEF Predicts
<1>13. QED
  BY <1>1, <1>2, <1>10, <1>11, <1>12 DEF bread, e

LEMMA AndOnes ==
  ASSUME NEW w \in Word
  PROVE  AndW(w, Ones) = w /\ AndW(Ones, w) = w /\ AndW(w, 0) = 0
<1>1. Ones = 65535
  BY DEF Ones, WordSize
<1>2. \A k \in 0 .. 15 : Bit(w, k) \in {0, 1} /\ Bit(Ones, k) = 1 /\ Bit(0, k) = 0
  <2>1. \A k \in 0 .. 15 : Bit(0, k) = 0
    BY Weights, WeightType DEF Bit
  <2>2. \A k \in 0 .. 15 : Bit(Ones, k) = 1
    BY <1>1, MaskBits
  <2>3. \A k \in 0 .. 15 : Bit(w, k) \in {0, 1}
    BY BitType, WordIs
  <2>4. QED
    BY <2>1, <2>2, <2>3
<1>3. \A k \in 0 .. 15 : /\ Bit(w, k) * Bit(Ones, k) = Bit(w, k)
                         /\ Bit(Ones, k) * Bit(w, k) = Bit(w, k)
                         /\ Bit(w, k) * Bit(0, k) = Bit(0, k)
  BY <1>2
<1>4. /\ [k \in 0 .. 15 |-> Bit(w, k) * Bit(Ones, k)] = [k \in 0 .. 15 |-> Bit(w, k)]
      /\ [k \in 0 .. 15 |-> Bit(Ones, k) * Bit(w, k)] = [k \in 0 .. 15 |-> Bit(w, k)]
      /\ [k \in 0 .. 15 |-> Bit(w, k) * Bit(0, k)] = [k \in 0 .. 15 |-> Bit(0, k)]
  BY <1>3
<1>5. 0 \in Word
  BY WordIs
<1>6. QED
  BY <1>4, <1>5, SumOfBits DEF AndW

(* What the tester and the boards share while the clock is low in state st. *)
StackTypes(p, rv, kn, x, y) ==
    /\ De0TypeOK /\ bench \in Benches /\ st \in Flops /\ q = {st}
    /\ opcode \in Word /\ memreaddata \in Word
    /\ memreadpend \in BOOLEAN /\ girq \in BOOLEAN /\ pswie \in BOOLEAN
    /\ p \in Word /\ x \in Word /\ y \in Word
    /\ rv \in [0 .. 7 -> Word] /\ kn \in [0 .. 7 -> BOOLEAN]
HoldsInstr(y) ==
    /\ st \notin {"FETCH1", "FETCH2"} => irlat = opcode
    /\ st = "FETCH2" => memreadpend /\ memreaddata = opcode
    /\ st \in {"LOAD2", "IRET2", "IRET4"} => memreadpend /\ memreaddata = y
    /\ vfyireoc => st # "FETCH1"
KnowsRegs(rv, kn) ==
    \A r \in hasregs : kn[r] /\ ~(r = 7 /\ st \in {"RESET0", "RESET1"}) => rq[r] = rv[r]
KnowsPsw(p) ==
    /\ st \notin {"RESET0", "RESET1"} => PswOf(ieff, nzvc) = PswIn(st, p)
    /\ st \in {"RESET1", "IREQ4", "IREQ5"} => ~ieff
    /\ st \in {"RESET0", "RESET1"} => ~pswie
    /\ st \notin {"RESET0", "RESET1", "FETCH1", "FETCH2", "IREQ1", "IREQ2", "IREQ3", "IREQ4",
                  "IREQ5"} => pswie = ieff
Mind(p, rv, kn, x, y) ==
    /\ StackTypes(p, rv, kn, x, y)
    /\ HoldsInstr(y)
    /\ KnowsRegs(rv, kn)
    /\ KnowsPsw(p)
    /\ WatchesA(kn, rv, x)
    /\ WatchesB(kn, rv, y)
    /\ Predicts(p, kn, rv, x, y)

LEMMA ShownInstr ==
  ASSUME NEW p, NEW rv, NEW kn, NEW x, NEW y, StackTypes(p, rv, kn, x, y), HoldsInstr(y)
  PROVE  /\ mqbus \in Word /\ IR(mqbus) \in Word
         /\ st # "FETCH1" => IR(mqbus) = opcode
         /\ st # "FETCH2" => IR(mqbus) = irlat
         /\ st \in {"LOAD2", "IRET2", "IRET4"} => mqbus = y
         /\ rq \in [0 .. 7 -> Word] /\ irlat \in Word /\ nzvc \in Flags /\ ieff \in BOOLEAN
         /\ nzvc.c \in BOOLEAN
         /\ hasregs \subseteq 0 .. 7
<1>1. Ones \in Word
  BY WordIs DEF Ones, WordSize
<1>2. mqbus \in Word
  BY <1>1 DEF mqbus, StackTypes
<1>3. Ctl("IR_WE") <=> st = "FETCH2"
  BY Lines DEF StackTypes
<1>4. IR(mqbus) = IF st = "FETCH2" THEN mqbus ELSE irlat
  BY <1>3 DEF IR
<1>5. /\ st = "FETCH2" => mqbus = opcode
      /\ st \in {"LOAD2", "IRET2", "IRET4"} => mqbus = y
  BY DEF HoldsInstr, mqbus
<1>6. rq \in [0 .. 7 -> Word] /\ irlat \in Word /\ nzvc \in Flags /\ ieff \in BOOLEAN
      /\ nzvc.c \in BOOLEAN
  BY DEF StackTypes, De0TypeOK, Flags
<1>7. hasregs \subseteq 0 .. 7
  BY BenchAssumption DEF StackTypes, hasregs
<1>8. QED
  BY <1>2, <1>4, <1>5, <1>6, <1>7 DEF HoldsInstr

(* The A bus shows what the tester looks for, whether a board drives it, a paddle
   grounds it or the board is missing. *)
LEMMA ShownA ==
  ASSUME NEW p, NEW rv, NEW kn, NEW x, NEW y, Mind(p, rv, kn, x, y)
  PROVE  /\ AReads(st) => ABus(IR(mqbus)) = AOn(st, opcode, kn, rv, x)
         /\ ABus(IR(mqbus)) \in Word
<1> DEFINE i == IR(mqbus)
           quiet == Absent("GPRS_REA", RegAt(i, 12)) \/ Absent("GPRS_REA7", 7)
           r == ANum(st, opcode)
<1>1. /\ StackTypes(p, rv, kn, x, y) /\ HoldsInstr(y) /\ KnowsRegs(rv, kn) /\ WatchesA(kn, rv, x)
  BY DEF Mind
<1>2. /\ i \in Word /\ (st # "FETCH1" => i = opcode)
      /\ rq \in [0 .. 7 -> Word] /\ hasregs \subseteq 0 .. 7
  BY <1>1, ShownInstr
<1>3. /\ st \in Flops /\ q = {st} /\ x \in Word /\ rv \in [0 .. 7 -> Word] /\ opcode \in Word
  BY <1>1 DEF StackTypes
<1>4. 0 \in Word /\ Ones \in Word
  BY WordIs DEF Ones, WordSize
<1> HIDE DEF i
<1>5. QA(i) \in Word
  BY <1>2, <1>3, BusA
<1>6. ABus(i) = AndW(IF quiet THEN Ones ELSE QA(i), pada)
  BY DEF ABus, OnBus
<1>7. CASE ~AReads(st)
  <2>1. pada = Ones
    BY <1>1, <1>7 DEF WatchesA
  <2>2. QED
    BY <1>4, <1>5, <1>6, <1>7, <2>1, AndOnes DEF i
<1>8. CASE AReads(st)
  <2>1. r \in 0 .. 7 /\ QA(i) = rq[r] /\ (quiet <=> r \notin hasregs)
    <3>1. /\ Ctl("GPRS_REA7") <=> st \in PcStates
          /\ Ctl("GPRS_REA") <=> st \in BaseStates
      BY <1>3, Lines DEF PcStates, BaseStates
    <3>2. CASE st \in BaseStates
      <4>1. i = opcode /\ RegAt(i, 12) = RegA(opcode) /\ RegA(opcode) \in 0 .. 7
        BY <1>2, <1>3, <3>2, Fields DEF BaseStates
      <4>2. QA(i) = rq[RegA(i)] /\ st \notin PcStates
        BY <1>2, <1>3, <3>2, BusA DEF BaseStates, PcStates
      <4>3. r = RegA(opcode)
        BY <3>2 DEF ANum, RegA
      <4>4. QED
        BY <3>1, <3>2, <4>1, <4>2, <4>3 DEF Absent
    <3>3. CASE st \in PcStates
      <4>1. QA(i) = rq[7] /\ st \notin BaseStates
        BY <1>2, <1>3, <3>3, BusA DEF BaseStates, PcStates
      <4>2. r = 7
        BY <4>1 DEF ANum
      <4>3. QED
        BY <3>1, <3>3, <4>1, <4>2 DEF Absent
    <3>4. QED
      BY <1>8, <3>2, <3>3 DEF AReads
  <2>2. st \notin {"RESET0", "RESET1"}
    BY <1>8 DEF AReads, BaseStates, PcStates
  <2>3. AOn(st, opcode, kn, rv, x) = Seen(kn, rv, r, x)
    BY DEF AOn
  <2>4. pada = IF Drives(kn, r) THEN Ones ELSE AOn(st, opcode, kn, rv, x)
    BY <1>1, <1>8 DEF WatchesA
  <2> HIDE DEF r, quiet
  <2>5. rq[r] \in Word /\ rv[r] \in Word
    BY <1>2, <1>3, <2>1
  <2>6. CASE r \notin hasregs
    <3>1. pada = x /\ AOn(st, opcode, kn, rv, x) = x
      BY <2>3, <2>4, <2>6 DEF Seen, Drives
    <3>2. QED
      BY <1>3, <1>6, <2>1, <2>6, <3>1, AndOnes DEF i
  <2>7. CASE r \in hasregs /\ kn[r]
    <3>1. rq[r] = rv[r]
      BY <1>1, <2>2, <2>7 DEF KnowsRegs
    <3>2. pada = Ones /\ AOn(st, opcode, kn, rv, x) = rv[r]
      BY <2>3, <2>4, <2>7 DEF Seen, Drives
    <3>3. QED
      BY <1>6, <2>1, <2>5, <2>7, <3>1, <3>2, AndOnes DEF i
  <2>8. CASE r \in hasregs /\ ~kn[r]
    <3>1. pada = 0 /\ AOn(st, opcode, kn, rv, x) = 0
      BY <2>3, <2>4, <2>8 DEF Seen, Drives
    <3>2. QED
      BY <1>4, <1>6, <2>1, <2>5, <2>8, <3>1, AndOnes DEF i
  <2>9. QED
    BY <2>6, <2>7, <2>8
<1>9. QED
  BY <1>7, <1>8

(* ... and so does the B bus, when the tester looks at it. *)
LEMMA ShownB ==
  ASSUME NEW p, NEW rv, NEW kn, NEW x, NEW y, Mind(p, rv, kn, x, y)
  PROVE  /\ BKnown(st) => BBus(IR(mqbus)) = BOn(st, opcode, kn, rv, y)
         /\ BBus(IR(mqbus)) \in Word
<1> DEFINE i == IR(mqbus)
           quiet == Absent("GPRS_REB", RegAt(i, 6)) \/ Absent("GPRS_RED2B", RegAt(i, 9))
           r == BNum(st, opcode)
           w == alub(i, mqbus)
<1>1. /\ StackTypes(p, rv, kn, x, y) /\ HoldsInstr(y) /\ KnowsRegs(rv, kn) /\ WatchesB(kn, rv, y)
  BY DEF Mind
<1>2. /\ i \in Word /\ mqbus \in Word /\ (st # "FETCH1" => i = opcode)
      /\ (st \in {"LOAD2", "IRET2", "IRET4"} => mqbus = y)
      /\ rq \in [0 .. 7 -> Word] /\ hasregs \subseteq 0 .. 7
  BY <1>1, ShownInstr
<1>3. /\ st \in Flops /\ q = {st} /\ y \in Word /\ rv \in [0 .. 7 -> Word] /\ opcode \in Word
      /\ De0TypeOK
  BY <1>1 DEF StackTypes
<1>4. 0 \in Word /\ Ones \in Word
  BY WordIs DEF Ones, WordSize
<1> HIDE DEF i
<1>5. w \in Word
  BY <1>2, <1>3, BusB
<1>6. BBus(i) = AndW(IF quiet THEN Ones ELSE w, padb)
  BY DEF BBus, OnBus
<1>7. /\ Ctl("GPRS_REB") <=> st \in {"ARITH1", "WRPS1", "HALT1"}
      /\ Ctl("GPRS_RED2B") <=> st = "STORE2"
  BY <1>3, Lines
<1>8. CASE ~BReads(st)
  <2>1. padb = Ones
    BY <1>1, <1>8 DEF WatchesB
  <2>2. ~quiet
    BY <1>7, <1>8 DEF BReads, Absent
  <2>3. BBus(i) = w
    BY <1>5, <1>6, <2>1, <2>2, AndOnes
  <2>4. BKnown(st) => w = BOn(st, opcode, kn, rv, y)
    <3>1. /\ st \in {"RESET1", "FETCH1", "IREQ4"} => w = 0
          /\ st \in {"FETCH2", "LOAD3", "IREQ5"} => w = 2
          /\ st \in {"IREQ1", "IRET3"} => w = 65534
          /\ st \in {"IREQ3", "IRET1"} => w = 65532
          /\ st = "BCC1" => w = BrOffset(opcode)
          /\ st \in {"STORE1", "LDA1", "LOAD1"} => w = LsOffset(opcode)
          /\ st = "LOAD2" => w = LoadedWord(opcode, y)
          /\ st \in {"IRET2", "IRET4"} => w = y
      BY <1>2, <1>3, BusB
    <3> HIDE DEF w
    <3>2. BOn(st, opcode, kn, rv, y)
            = IF st = "LOAD2" THEN LoadedWord(opcode, y)
              ELSE IF st \in {"IRET2", "IRET4"} THEN y ELSE FixedB(st, opcode)
      BY <1>8 DEF BOn
    <3>3. st \notin {"ARITH1", "WRPS1", "HALT1", "STORE2"}
      BY <1>8 DEF BReads
    <3>4. CASE st \in {"STORE1", "LDA1", "LOAD1"}
      BY <3>1, <3>2, <3>4 DEF FixedB
    <3>5. CASE st = "BCC1"
      BY <3>1, <3>2, <3>5 DEF FixedB
    <3>6. CASE st \in {"FETCH2", "LOAD3", "IREQ5"}
      BY <3>1, <3>2, <3>6 DEF FixedB
    <3>7. CASE st \in {"IREQ1", "IRET3"}
      BY <3>1, <3>2, <3>7 DEF FixedB
    <3>8. CASE st \in {"IREQ3", "IRET1"}
      BY <3>1, <3>2, <3>8 DEF FixedB
    <3>9. CASE st \in {"RESET1", "FETCH1", "IREQ4"}
      BY <3>1, <3>2, <3>9 DEF FixedB
    <3>10. CASE st \in {"LOAD2", "IRET2", "IRET4"}
      BY <3>1, <3>2, <3>10
    <3>11. CASE st \in {"RESET0", "IREQ2", "RDPS1"}
      BY <3>11 DEF BKnown
    <3>12. QED
      BY <1>3, <3>3, <3>4, <3>5, <3>6, <3>7, <3>8, <3>9, <3>10, <3>11 DEF Flops
  <2>5. QED
    BY <1>5, <2>3, <2>4 DEF i
<1>9. CASE BReads(st)
  <2>1. r \in 0 .. 7 /\ w = rq[r] /\ (quiet <=> r \notin hasregs)
    <3>1. /\ i = opcode /\ RegAt(i, 6) = RegB(opcode) /\ RegB(opcode) \in 0 .. 7
          /\ RegAt(i, 9) = RegD(opcode) /\ RegD(opcode) \in 0 .. 7
      BY <1>2, <1>3, <1>9, Fields DEF BReads
    <3>2. /\ st \in {"ARITH1", "HALT1", "WRPS1"} => w = rq[RegB(i)]
          /\ st = "STORE2" => w = rq[RegD(i)]
      BY <1>2, <1>3, BusB
    <3>3. r = IF st \in {"ARITH1", "WRPS1", "HALT1"} THEN RegB(opcode) ELSE RegD(opcode)
      BY DEF BNum, RegB, RegD, rdOf
    <3> HIDE DEF w, r
    <3>4. QED
      BY <1>7, <1>9, <3>1, <3>2, <3>3 DEF Absent, BReads
  <2>2. st \notin {"RESET0", "RESET1"}
    BY <1>9 DEF BReads
  <2>3. BOn(st, opcode, kn, rv, y) = Seen(kn, rv, r, y)
    BY <1>9 DEF BOn
  <2>4. padb = IF Drives(kn, r) THEN Ones ELSE BOn(st, opcode, kn, rv, y)
    BY <1>1, <1>9 DEF WatchesB
  <2> HIDE DEF r, quiet, w
  <2>5. rq[r] \in Word /\ rv[r] \in Word
    BY <1>2, <1>3, <2>1
  <2>6. CASE r \notin hasregs
    <3>1. padb = y /\ BOn(st, opcode, kn, rv, y) = y
      BY <2>3, <2>4, <2>6 DEF Seen, Drives
    <3>2. QED
      BY <1>3, <1>6, <2>1, <2>6, <3>1, AndOnes DEF i
  <2>7. CASE r \in hasregs /\ kn[r]
    <3>1. rq[r] = rv[r]
      BY <1>1, <2>2, <2>7 DEF KnowsRegs
    <3>2. padb = Ones /\ BOn(st, opcode, kn, rv, y) = rv[r]
      BY <2>3, <2>4, <2>7 DEF Seen, Drives
    <3>3. QED
      BY <1>6, <2>1, <2>5, <2>7, <3>1, <3>2, AndOnes DEF i
  <2>8. CASE r \in hasregs /\ ~kn[r]
    <3>1. padb = 0 /\ BOn(st, opcode, kn, rv, y) = 0
      BY <2>3, <2>4, <2>8 DEF Seen, Drives
    <3>2. QED
      BY <1>4, <1>6, <2>1, <2>5, <2>8, <3>1, AndOnes DEF i
  <2>9. QED
    BY <2>6, <2>7, <2>8
<1>10. QED
  BY <1>8, <1>9

(* The ALU boards give what ALU8 gave the tester. *)
LEMMA ShownD ==
  ASSUME NEW p, NEW rv, NEW kn, NEW x, NEW y, Mind(p, rv, kn, x, y)
  PROVE  /\ BKnown(st) => BoardAlu.d = DOn(st, opcode, p, kn, rv, x, y)
         /\ BoardAlu.d \in Word
         /\ st = "ARITH1" =>
              /\ FlagsOf(BoardAlu) \in Flags
              /\ PswOut(st, opcode, p, AOn(st, opcode, kn, rv, x), BOn(st, opcode, kn, rv, y),
                        DOn(st, opcode, p, kn, rv, x, y)) = PswOf(ieff, FlagsOf(BoardAlu))
<1> DEFINE i == IR(mqbus)
           a == ABus(i)
           b == BBus(i)
           c == nzvc.c
<1>1. /\ StackTypes(p, rv, kn, x, y) /\ HoldsInstr(y) /\ KnowsPsw(p)
  BY DEF Mind
<1>2. /\ i \in Word /\ (st # "FETCH1" => i = opcode)
      /\ nzvc \in Flags /\ ieff \in BOOLEAN /\ c \in BOOLEAN
  BY <1>1, ShownInstr
<1>3. st \in Flops /\ q = {st} /\ opcode \in Word
  BY <1>1 DEF StackTypes
<1>4. /\ a \in Word /\ b \in Word
      /\ AReads(st) => a = AOn(st, opcode, kn, rv, x)
      /\ BKnown(st) => b = BOn(st, opcode, kn, rv, y)
  BY ShownA, ShownB
<1>5. BoardAlu = AluV(a, b, c, Ctl("ALU_ADD"), ALU_BONLY, Ctl("ALU_IRFC"), i)
  BY DEF BoardAlu
<1>6. DOn(st, opcode, p, kn, rv, x, y)
        = DOf(st, opcode, p, AOn(st, opcode, kn, rv, x), BOn(st, opcode, kn, rv, y))
  BY DEF DOn
<1> HIDE DEF i, a, b, c
<1>7. BoardAlu.d \in Word
  BY <1>5, AluWord
<1>8. CASE st \in AddStates
  <2>1. Ctl("ALU_ADD") = TRUE /\ ALU_BONLY = FALSE /\ Ctl("ALU_IRFC") = FALSE
    BY <1>3, <1>8, Lines DEF AddStates, Ctl, AnyOf, ALU_BONLY
  <2>2. BoardAlu = AluV(a, b, c, TRUE, FALSE, FALSE, i)
    BY <1>5, <2>1
  <2>3. BoardAlu.d = AddW(a, b)
    BY <1>2, <1>4, <2>2, AluAdds
  <2>4. AReads(st) /\ BKnown(st) /\ st # "ARITH1"
    BY <1>8 DEF AddStates, AReads, BaseStates, PcStates, BKnown
  <2>5. DOf(st, opcode, p, AOn(st, opcode, kn, rv, x), BOn(st, opcode, kn, rv, y)) = AddW(a, b)
    BY <1>4, <1>8, <2>4 DEF DOf
  <2>6. QED
    BY <1>6, <1>7, <2>3, <2>4, <2>5
<1>9. CASE st = "ARITH1"
  <2>1. Ctl("ALU_ADD") = FALSE /\ ALU_BONLY = FALSE /\ Ctl("ALU_IRFC") = TRUE
    BY <1>3, <1>9, Lines DEF Ctl, AnyOf, ALU_BONLY
  <2>2. BoardAlu = ArithV(opcode, a, b, c)
    BY <1>2, <1>5, <1>9, <2>1 DEF ArithV
  <2>3. AReads(st) /\ BKnown(st)
    BY <1>9 DEF AReads, BaseStates, BKnown
  <2>4. PswIn(st, p) = PswOf(ieff, nzvc)
    BY <1>1, <1>9 DEF KnowsPsw
  <2> DEFINE pin == PswIn(st, p)
  <2> HIDE DEF pin
  <2>5. /\ computenzvc(opcode, Computed(opcode, a, b, pin), pin)
             = PswOf(ieff, FlagsOf(ArithV(opcode, a, b, nzvc.c)))
        /\ FlagsOf(ArithV(opcode, a, b, nzvc.c)) \in Flags
        /\ Computed(opcode, a, b, pin).d = ArithV(opcode, a, b, nzvc.c).d
    <3>1. pin = PswOf(ieff, nzvc)
      BY <2>4 DEF pin
    <3>2. opcode \in Word /\ a \in Word /\ b \in Word /\ ieff \in BOOLEAN /\ nzvc \in Flags
      BY <1>2, <1>3, <1>4
    <3>3. ASSUME NEW ie \in BOOLEAN, NEW f \in Flags, pin = PswOf(ie, f)
          PROVE  /\ computenzvc(opcode, Computed(opcode, a, b, pin), pin)
                      = PswOf(ie, FlagsOf(ArithV(opcode, a, b, f.c)))
                 /\ FlagsOf(ArithV(opcode, a, b, f.c)) \in Flags
                 /\ Computed(opcode, a, b, pin).d = ArithV(opcode, a, b, f.c).d
      <4>1. computenzvc(opcode, Computed(opcode, a, b, pin), pin)
              = PswOf(ie, FlagsOf(ArithV(opcode, a, b, f.c)))
        BY <3>2, <3>3, StatusComputed
      <4>2. FlagsOf(ArithV(opcode, a, b, f.c)) \in Flags
        BY <3>2, <3>3, StatusComputed
      <4>3. Computed(opcode, a, b, pin).d = ArithV(opcode, a, b, f.c).d
        BY <3>2, <3>3, <4>1, <4>2, StatusComputed
      <4>4. QED
        BY <4>1, <4>2, <4>3
    <3>4. QED
      BY ONLY <3>1, <3>2, <3>3
  <2>6. DOf(st, opcode, p, AOn(st, opcode, kn, rv, x), BOn(st, opcode, kn, rv, y))
          = Computed(opcode, a, b, pin).d
    BY <1>4, <1>9, <2>3 DEF DOf, pin
  <2>7. PswOut(st, opcode, p, AOn(st, opcode, kn, rv, x), BOn(st, opcode, kn, rv, y),
               DOn(st, opcode, p, kn, rv, x, y))
          = computenzvc(opcode, Computed(opcode, a, b, pin), pin)
    BY <1>4, <1>9, <2>3 DEF PswOut, pin
  <2>8. QED
    BY <1>6, <1>7, <2>2, <2>5, <2>6, <2>7 DEF c
<1>10. CASE st \notin AddStates \cup {"ARITH1"}
  <2>1. Ctl("ALU_ADD") = FALSE /\ ALU_BONLY = TRUE /\ Ctl("ALU_IRFC") = FALSE
    BY <1>3, <1>10, Lines DEF AddStates, Ctl, AnyOf, ALU_BONLY
  <2>2. BoardAlu = AluV(a, b, c, FALSE, TRUE, FALSE, i)
    BY <1>5, <2>1
  <2>3. BoardAlu.d = b
    <3>1. BoardAlu.d = OrW(b, 0)
      BY <1>2, <1>4, <2>2, AluPasses
    <3>2. QED
      BY <1>4, <3>1, OrZero
  <2>4. BKnown(st) => DOf(st, opcode, p, AOn(st, opcode, kn, rv, x), BOn(st, opcode, kn, rv, y)) = b
    BY <1>4, <1>10 DEF DOf
  <2>5. QED
    BY <1>6, <1>7, <1>10, <2>3, <2>4
<1>11. QED
  BY <1>8, <1>9, <1>10

(* So stepstate finds nothing to complain of when the cycle ends ... *)
LEMMA EndsRight ==
  ASSUME NEW p, NEW rv, NEW kn, NEW x, NEW y, Mind(p, rv, kn, x, y)
  PROVE  ~EndsWrong
<1>1. /\ StackTypes(p, rv, kn, x, y) /\ HoldsInstr(y) /\ WatchesA(kn, rv, x) /\ WatchesB(kn, rv, y)
      /\ Predicts(p, kn, rv, x, y)
  BY DEF Mind
<1>2. vfya # NotChecked => ABus(IR(mqbus)) = vfya
  <2>1. vfya # NotChecked => AReads(st) /\ vfya = AOn(st, opcode, kn, rv, x)
    BY <1>1 DEF WatchesA
  <2>2. QED
    BY <2>1, ShownA
<1>3. vfyb # NotChecked => BBus(IR(mqbus)) = vfyb
  <2>1. vfyb # NotChecked => BKnown(st) /\ vfyb = BOn(st, opcode, kn, rv, y)
    BY <1>1 DEF WatchesB
  <2>2. QED
    BY <2>1, ShownB
<1>4. vfyd # NotChecked => BoardAlu.d = vfyd
  <2>1. vfyd # NotChecked => BKnown(st) /\ vfyd = DOn(st, opcode, p, kn, rv, x, y)
    BY <1>1 DEF Predicts
  <2>2. QED
    BY <2>1, ShownD
<1>5. vfyireoc => IR(mqbus) = opcode
  BY <1>1, ShownInstr DEF HoldsInstr
<1>6. QED
  BY <1>2, <1>3, <1>4, <1>5 DEF EndsWrong, MdPins

(* ... nor verifystate when the clock has dropped.  At that moment the MQ bus shows
   nothing, and FETCH2 shows its instruction to no line that is looked at. *)
LEMMA LinesRight ==
  ASSUME NEW p, NEW rv, NEW kn, NEW x, NEW y,
         StackTypes(p, rv, kn, x, y), HoldsInstr(y), KnowsPsw(p)
  PROVE  ControlOn(Ones) \ Ignored(st) = Expected(st, opcode, p) \ Ignored(st)
<1>1. /\ st \in Flops /\ q = {st} /\ opcode \in Word /\ p \in Word
  BY DEF StackTypes
<1>2. nzvc \in Flags /\ ieff \in BOOLEAN
  BY ShownInstr
<1>3. st \notin {"RESET0", "RESET1", "FETCH1", "FETCH2"} => IR(Ones) = opcode
  <2>1. Ctl("IR_WE") <=> st = "FETCH2"
    BY <1>1, Lines
  <2>2. QED
    BY <2>1 DEF IR, HoldsInstr
<1>4. st = "BCC1" => (branchtrue(opcode, p) <=> pswbt(opcode))
  <2>1. SUFFICES ASSUME st = "BCC1" PROVE branchtrue(opcode, p) <=> pswbt(opcode)
    OBVIOUS
  <2>2. p = PswOf(ieff, nzvc)
    BY <2>1 DEF KnowsPsw, PswIn
  <2>3. /\ IsSet(p, 3) <=> nzvc.n
        /\ IsSet(p, 2) <=> nzvc.z
        /\ IsSet(p, 1) <=> nzvc.v
        /\ IsSet(p, 0) <=> nzvc.c
    BY <1>2, <2>2, PswBits
  <2>4. QED
    BY <1>1, <1>2, <2>3, BranchSame
<1>5. st \in {"RESET1", "IREQ4", "IREQ5"} => ~ieff
  BY DEF KnowsPsw
<1>6. QED
  BY <1>1, <1>3, <1>4, <1>5, ControlsShow

LEMMA BranchShown ==
  ASSUME NEW p, NEW rv, NEW kn, NEW x, NEW y,
         StackTypes(p, rv, kn, x, y), HoldsInstr(y), KnowsPsw(p), st = "BCC1"
  PROVE  branchtrue(opcode, p) <=> pswbt(opcode)
<1>1. nzvc \in Flags /\ ieff \in BOOLEAN
  BY ShownInstr
<1>2. p = PswOf(ieff, nzvc)
  BY DEF KnowsPsw, PswIn
<1>3. /\ IsSet(p, 3) <=> nzvc.n
      /\ IsSet(p, 2) <=> nzvc.z
      /\ IsSet(p, 1) <=> nzvc.v
      /\ IsSet(p, 0) <=> nzvc.c
  BY <1>1, <1>2, PswBits
<1>4. QED
  BY <1>1, <1>3, BranchSame DEF StackTypes

(* The bits of the status word that are wires stay set. *)
LEMMA OrPsw ==
  ASSUME NEW d \in Word
  PROVE  OrW(d, 32752) = PswOf(IsSet(d, 15), FlagsIn(d))
<1> DEFINE b(k) == Num(IsSet(d, k) \/ IsSet(32752, k))
           o(k) == Num(IsSet(d, k))
<1>1. /\ \A k \in {0, 1, 2, 3, 15} : ~IsSet(32752, k)
      /\ \A k \in {4, 5, 6, 7, 8, 9, 10, 11, 12, 13, 14} : IsSet(32752, k)
  BY Weights DEF IsSet, Bit
<1>2. /\ b(0) = o(0) /\ b(1) = o(1) /\ b(2) = o(2) /\ b(3) = o(3) /\ b(15) = o(15)
      /\ b(4) = 1 /\ b(5) = 1 /\ b(6) = 1 /\ b(7) = 1 /\ b(8) = 1 /\ b(9) = 1 /\ b(10) = 1
      /\ b(11) = 1 /\ b(12) = 1 /\ b(13) = 1 /\ b(14) = 1
  BY <1>1 DEF Num
<1>3. OrW(d, 32752) = FromBits([k \in 0 .. 15 |-> b(k)])
  BY DEF OrW
<1>4. PswOf(IsSet(d, 15), FlagsIn(d))
          = 32768 * o(15) + 32752 + 8 * o(3) + 4 * o(2) + 2 * o(1) + o(0)
  BY DEF PswOf, FlagsIn
<1>5. o(0) \in {0, 1} /\ o(1) \in {0, 1} /\ o(2) \in {0, 1} /\ o(3) \in {0, 1} /\ o(15) \in {0, 1}
  BY DEF Num
<1> DEFINE w == OrW(d, 32752)
           v == PswOf(IsSet(d, 15), FlagsIn(d))
<1> HIDE DEF b, o, w, v
<1>6. w = o(0) + 2 * o(1) + 4 * o(2) + 8 * o(3) + 16 + 32 + 64 + 128 + 256 + 512 + 1024
            + 2048 + 4096 + 8192 + 16384 + 32768 * o(15)
  BY <1>2, <1>3 DEF FromBits, w
<1>7. QED
  BY <1>4, <1>5, <1>6 DEF v, w

(* The edge that ends the cycle: the boards load what the tester wrote down. *)
LEMMA LoadsRegs ==
  ASSUME NEW p, NEW rv, NEW kn, NEW x, NEW y, Mind(p, rv, kn, x, y),
         NEW irq, De0Edge(IR(mqbus), BoardAlu, irq)
  PROVE  \A r \in 0 .. 7 :
           rq'[r] = IF PutsReg(st, opcode, p) /\ r = Dest(st, opcode) THEN BoardAlu.d ELSE rq[r]
<1> DEFINE i == IR(mqbus)
           d == BoardAlu.d
<1>1. /\ StackTypes(p, rv, kn, x, y) /\ HoldsInstr(y) /\ KnowsPsw(p)
  BY DEF Mind
<1>2. st \in Flops /\ q = {st} /\ opcode \in Word
  BY <1>1 DEF StackTypes
<1>3. i \in Word /\ (st # "FETCH1" => i = opcode)
  BY <1>1, ShownInstr
<1>4. st = "BCC1" => (branchtrue(opcode, p) <=> pswbt(opcode))
  BY <1>1, BranchShown
<1>5. \A r \in 0 .. 7 :
        rq'[r] = IF (GPRS_WED(i) /\ RegAt(i, 9) = r) \/ (r = 7 /\ GPRS_WE7(pswbt(i)))
                 THEN d ELSE rq[r]
  BY DEF De0Edge
<1> HIDE DEF i, d
<1>6. RegAt(i, 9) = RegD(i) /\ RegD(i) \in 0 .. 7 /\ RegD(i) = rdOf(i)
  BY <1>3, Fields DEF RegD, rdOf
<1>7. /\ GPRS_WED(i) <=> (st = "ARITH1" /\ RegD(i) # 7) \/ st \in {"LDA1", "LOAD2", "RDPS1"}
      /\ GPRS_WE7(pswbt(i)) <=>
           st \in {"RESET1", "FETCH2", "IREQ5", "IRET2", "LOAD3"} \/ (st = "BCC1" /\ pswbt(i))
  BY <1>2, <1>3, Alone, FieldBits DEF GPRS_WED, GPRS_WE7, Flops
<1>8. \A r \in 0 .. 7 :
        ((GPRS_WED(i) /\ RegAt(i, 9) = r) \/ (r = 7 /\ GPRS_WE7(pswbt(i))))
          <=> PutsReg(st, opcode, p) /\ r = Dest(st, opcode)
  BY <1>2, <1>3, <1>4, <1>6, <1>7 DEF PutsReg, Dest
<1>9. QED
  BY <1>5, <1>8 DEF d

LEMMA KnowsNext ==
  ASSUME NEW p, NEW rv, NEW kn, NEW x, NEW y, Mind(p, rv, kn, x, y),
         NEW irq, De0Edge(IR(mqbus), BoardAlu, irq)
  PROVE  /\ regvalues \in [0 .. 7 -> Word] /\ regknowns \in [0 .. 7 -> BOOLEAN]
         /\ \A r \in hasregs : regknowns[r] /\ ~(r = 7 /\ st = "RESET0") => rq'[r] = regvalues[r]
<1> DEFINE d == DOn(st, opcode, p, kn, rv, x, y)
           t == Dest(st, opcode)
           puts == PutsReg(st, opcode, p)
<1>1. /\ StackTypes(p, rv, kn, x, y) /\ HoldsInstr(y) /\ KnowsRegs(rv, kn)
      /\ Predicts(p, kn, rv, x, y)
  BY DEF Mind
<1>2. /\ rv \in [0 .. 7 -> Word] /\ kn \in [0 .. 7 -> BOOLEAN] /\ st \in Flops /\ opcode \in Word
  BY <1>1 DEF StackTypes
<1>3. /\ hasregs \subseteq 0 .. 7
  BY <1>1, ShownInstr
<1>4. \A r \in 0 .. 7 : rq'[r] = IF puts /\ r = t THEN BoardAlu.d ELSE rq[r]
  BY LoadsRegs
<1>5. /\ BKnown(st) => BoardAlu.d = d
      /\ BoardAlu.d \in Word
      /\ ~BKnown(st) => d = 0
      /\ BKnown(st) \in BOOLEAN /\ 0 \in Word
  BY ShownD, WordIs DEF BKnown, DOn, DOf
<1>6. /\ regvalues = IF puts THEN [rv EXCEPT ![t] = d] ELSE rv
      /\ regknowns = IF puts THEN [kn EXCEPT ![t] = BKnown(st)] ELSE kn
  BY <1>1 DEF Predicts
<1>7. t \in 0 .. 7
  BY <1>2, Fields DEF Dest, rdOf, RegD
<1>8. st = "RESET1" => puts /\ t = 7
  BY DEF PutsReg, Dest
<1> HIDE DEF d, t, puts
<1>9. regvalues \in [0 .. 7 -> Word] /\ regknowns \in [0 .. 7 -> BOOLEAN]
  BY <1>2, <1>5, <1>6, <1>7
<1>10. ASSUME NEW r \in hasregs, regknowns[r], ~(r = 7 /\ st = "RESET0")
       PROVE  rq'[r] = regvalues[r]
  <2>1. r \in 0 .. 7
    BY <1>3
  <2>2. CASE puts /\ r = t
    BY <1>2, <1>4, <1>5, <1>6, <1>7, <1>10, <2>1, <2>2
  <2>3. CASE ~(puts /\ r = t)
    <3>1. rq'[r] = rq[r] /\ regvalues[r] = rv[r] /\ regknowns[r] = kn[r]
      BY <1>2, <1>4, <1>6, <1>7, <2>1, <2>3
    <3>2. QED
      BY <1>1, <1>8, <1>10, <2>3, <3>1 DEF KnowsRegs
  <2>4. QED
    BY <2>2, <2>3
<1>11. QED
  BY <1>9, <1>10

LEMMA EdgeTypes ==
  ASSUME NEW p, NEW rv, NEW kn, NEW x, NEW y, Mind(p, rv, kn, x, y),
         NEW irq, De0Edge(IR(mqbus), BoardAlu, irq)
  PROVE  De0TypeOK' /\ irlat' = IR(mqbus)
<1> DEFINE i == IR(mqbus)
           o == BoardAlu
<1>1. StackTypes(p, rv, kn, x, y) /\ HoldsInstr(y)
  BY DEF Mind
<1>2. i \in Word /\ De0TypeOK /\ q = {st} /\ st \in Flops
  BY <1>1, ShownInstr DEF StackTypes
<1>3. o.d \in Word /\ (st = "ARITH1" => FlagsOf(o) \in Flags)
  BY ShownD
<1>4. De0Edge(i, o, irq)
  OBVIOUS
<1> HIDE DEF i, o
<1>5. q' \subseteq Flops
  BY <1>4 DEF De0Edge, PosedgeClock
<1>6. irlat' = i
  BY <1>4 DEF De0Edge
<1>7. rq' \in [0 .. 7 -> Word]
  <2>1. \A r \in 0 .. 7 : rq[r] \in Word
    BY <1>2 DEF De0TypeOK
  <2>2. rq' = [r \in 0 .. 7 |-> IF \/ GPRS_WED(i) /\ RegAt(i, 9) = r
                                   \/ r = 7 /\ GPRS_WE7(pswbt(i))
                                THEN o.d ELSE rq[r]]
    BY <1>4 DEF De0Edge
  <2>3. QED
    BY <1>3, <2>1, <2>2
<1>8. ieff' \in BOOLEAN
  BY <1>4 DEF De0Edge
<1>9. nzvc' \in Flags
  <2>1. Ctl("PSW_ALUWE") <=> st = "ARITH1"
    BY <1>2, Lines
  <2>2. nzvc' = IF Ctl("PSW_WE") THEN FlagsIn(o.d)
                ELSE IF Ctl("PSW_ALUWE") THEN FlagsOf(o) ELSE nzvc
    BY <1>4 DEF De0Edge, FlagsIn, FlagsOf
  <2>3. FlagsIn(o.d) \in Flags
    BY <1>3, LoadedPsw
  <2>4. QED
    BY <1>2, <1>3, <2>1, <2>2, <2>3 DEF De0TypeOK
<1>10. De0TypeOK'
  BY <1>2, <1>5, <1>6, <1>7, <1>8, <1>9 DEF De0TypeOK
<1>11. QED
  BY <1>6, <1>10 DEF i

(* ... and the status word as the tester has it, which takes away the interrupt
   enable bit before the boards do. *)
LEMMA PswNext ==
  ASSUME NEW p, NEW rv, NEW kn, NEW x, NEW y, Mind(p, rv, kn, x, y),
         NEW irq, De0Edge(IR(mqbus), BoardAlu, irq),
         NEW n \in Flops, q' = {n}, (n = "RESET1" <=> st = "RESET0"), (n = "IREQ4" => st = "IREQ3")
  PROVE  /\ pswbits \in Word
         /\ st # "RESET0" => PswOf(ieff', nzvc') = PswIn(n, pswbits)
         /\ st \in {"RESET0", "RESET1", "IREQ3", "IREQ4"} /\ (st = "IREQ3" => n = "IREQ4") => ~ieff'
         /\ st \notin {"IRET4", "WRPS1", "RESET0", "RESET1", "IREQ3", "IREQ4"} => ieff' = ieff
<1> DEFINE i == IR(mqbus)
           o == BoardAlu
           a == AOn(st, opcode, kn, rv, x)
           b == BOn(st, opcode, kn, rv, y)
           d == DOn(st, opcode, p, kn, rv, x, y)
<1>1. /\ StackTypes(p, rv, kn, x, y) /\ HoldsInstr(y) /\ KnowsPsw(p) /\ Predicts(p, kn, rv, x, y)
  BY DEF Mind
<1>2. /\ st \in Flops /\ q = {st} /\ p \in Word /\ De0TypeOK /\ i \in Word
      /\ nzvc \in Flags /\ ieff \in BOOLEAN
  BY <1>1, ShownInstr DEF StackTypes
<1>3. pswbits = PswOut(st, opcode, p, a, b, d)
  BY <1>1 DEF Predicts
<1>4. /\ BKnown(st) => o.d = d
      /\ o.d \in Word
      /\ st = "ARITH1" => /\ FlagsOf(o) \in Flags
                          /\ PswOut(st, opcode, p, a, b, d) = PswOf(ieff, FlagsOf(o))
  BY ShownD
<1>5. De0Edge(i, o, irq)
  OBVIOUS
<1>6. st = "RESET1" => d = 0
  BY DEF DOn, DOf, BKnown, BOn, BReads, FixedB, AddStates
<1>7.
      /\ nzvc' = IF st \in {"RESET1", "IRET4", "WRPS1"} THEN FlagsIn(o.d)
                 ELSE IF st = "ARITH1" THEN FlagsOf(o) ELSE nzvc
      /\ ieff' = IF st \in {"RESET1", "IREQ4"} \/ n \in {"RESET1", "IREQ4"} THEN FALSE
                 ELSE IF st \in {"IRET4", "WRPS1"} THEN IsSet(o.d, 15) ELSE ieff
      /\ st \in {"IRET4", "WRPS1"} /\ n \notin {"RESET1", "IREQ4"} => ieff' = IsSet(o.d, 15)
  <2> HIDE DEF i, o
  <2>1. /\ Ctl("PSW_WE") <=> st \in {"RESET1", "IRET4", "WRPS1"}
        /\ Ctl("PSW_ALUWE") <=> st = "ARITH1"
    BY <1>2, Lines
  <2>2. nzvc' = IF Ctl("PSW_WE") THEN FlagsIn(o.d)
                ELSE IF Ctl("PSW_ALUWE") THEN FlagsOf(o) ELSE nzvc
    BY <1>5 DEF De0Edge, FlagsIn, FlagsOf
  <2>3. Ieclr(q) <=> st \in {"RESET1", "IREQ4"}
    BY <1>2 DEF Ieclr, Microcode
  <2>4. Ieclr(q') <=> n \in {"RESET1", "IREQ4"}
    BY DEF Ieclr, Microcode
  <2>5. ieff' = (~Ieclr(q) /\ ~Ieclr(q') /\ IF Ctl("PSW_WE") THEN IsSet(o.d, 15) ELSE ieff)
    BY <1>5 DEF De0Edge
  <2>6. nzvc' = IF st \in {"RESET1", "IRET4", "WRPS1"} THEN FlagsIn(o.d)
                ELSE IF st = "ARITH1" THEN FlagsOf(o) ELSE nzvc
    BY <2>1, <2>2
  <2>7. ieff' = IF st \in {"RESET1", "IREQ4"} \/ n \in {"RESET1", "IREQ4"} THEN FALSE
                ELSE IF st \in {"IRET4", "WRPS1"} THEN IsSet(o.d, 15) ELSE ieff
    BY <1>2, <2>1, <2>3, <2>4, <2>5 DEF IsSet
  <2>8. st \in {"IRET4", "WRPS1"} /\ n \notin {"RESET1", "IREQ4"} => ieff' = IsSet(o.d, 15)
    BY <1>2, <2>1, <2>3, <2>4, <2>5 DEF IsSet
  <2>9. QED
    BY <2>6, <2>7, <2>8
<1> HIDE DEF i, o, a, b, d
<1>8. n # "RESET1" => (PswIn(n, pswbits) = IF n = "IREQ4" THEN pswbits % 32768 ELSE pswbits)
  BY DEF PswIn
<1>9. CASE st = "RESET0"
  <2>1. pswbits = p
    BY <1>3, <1>9 DEF PswOut, PswIn
  <2>2. QED
    BY <1>2, <1>7, <1>9, <2>1
<1>10. CASE st \in {"RESET1", "IRET4", "WRPS1"}
  <2>1. pswbits = OrW(o.d, 32752) /\ n \notin {"RESET1", "IREQ4"}
    BY <1>3, <1>4, <1>10 DEF PswOut, BKnown
  <2>2. OrW(o.d, 32752) = PswOf(IsSet(o.d, 15), FlagsIn(o.d))
    BY <1>4, OrPsw
  <2>3. IsSet(o.d, 15) \in BOOLEAN /\ FlagsIn(o.d) \in Flags
    BY <1>4, LoadedPsw DEF IsSet
  <2>4. ieff' = IsSet(o.d, 15)
    <3>1. CASE st = "RESET1"
      <4>1. ~IsSet(o.d, 15)
        BY <1>4, <1>6, <3>1, TopCleared DEF BKnown
      <4>2. QED
        BY <1>7, <2>3, <3>1, <4>1
    <3>2. CASE st \in {"IRET4", "WRPS1"}
      <4>1. n \notin {"RESET1", "IREQ4"}
        BY <2>1
      <4>2. QED
        BY <1>7, <3>2, <4>1, Zenon
    <3>3. QED
      BY <1>10, <3>1, <3>2
  <2>5. nzvc' = FlagsIn(o.d)
    BY <1>7, <1>10
  <2>6. pswbits \in Word
    BY <2>1, <2>2, <2>3, PswBits
  <2>7. st = "RESET1" => ~ieff'
    BY <1>7
  <2>8. QED
    BY <1>8, <1>10, <2>1, <2>2, <2>4, <2>5, <2>6, <2>7
<1>11. CASE st = "ARITH1"
  <2>1. n \notin {"RESET1", "IREQ4"} /\ ieff' = ieff /\ nzvc' = FlagsOf(o)
    BY <1>7, <1>11
  <2>2. pswbits = PswOf(ieff, FlagsOf(o))
    BY <1>3, <1>4, <1>11
  <2>3. pswbits \in Word
    BY <1>2, <1>4, <1>11, <2>2, PswBits
  <2>4. QED
    BY <1>8, <1>11, <2>1, <2>2, <2>3
<1>12. CASE st \notin {"RESET0", "RESET1", "IRET4", "WRPS1", "ARITH1"}
  <2>1. pswbits = PswIn(st, p)
    BY <1>3, <1>12 DEF PswOut
  <2>2. PswOf(ieff, nzvc) = PswIn(st, p)
    BY <1>1, <1>12 DEF KnowsPsw
  <2>3. pswbits = PswOf(ieff, nzvc) /\ pswbits \in Word
    BY <1>2, <2>1, <2>2, PswBits
  <2>4. nzvc' = nzvc /\ n # "RESET1"
    BY <1>7, <1>12
  <2>5. CASE n = "IREQ4"
    <3>1. st = "IREQ3" /\ ieff' = FALSE
      BY <1>7, <2>5
    <3>2. ieff' \in BOOLEAN /\ ~ieff'
      BY <3>1
    <3>3. PswOf(ieff, nzvc) % 32768 = PswOf(ieff', nzvc)
      BY <1>2, <3>2, ClearIE
    <3>4. QED
      BY <1>8, <2>3, <2>4, <2>5, <3>1, <3>2, <3>3
  <2>6. CASE n # "IREQ4"
    <3>1. ieff' = ieff
      <4>1. CASE st = "IREQ4"
        <5>1. ~ieff
          BY <1>1, <4>1 DEF KnowsPsw
        <5>2. ieff' = FALSE
          BY <1>7, <4>1
        <5>3. QED
          BY <1>2, <5>1, <5>2
      <4>2. CASE st # "IREQ4"
        BY <1>7, <1>12, <2>4, <2>6, <4>2
      <4>3. QED
        BY <4>1, <4>2
    <3>2. st = "IREQ4" => ~ieff'
      BY <1>7
    <3>3. QED
      BY <1>8, <1>12, <2>3, <2>4, <2>6, <3>1, <3>2
  <2>7. QED
    BY <2>5, <2>6
<1>13. QED
  BY <1>9, <1>10, <1>11, <1>12

(* The switch of main and the sequencer go from state to state alike. *)
LEMMA FollowTable ==
  /\ DOMAIN Follow = {"RESET0", "FETCH1", "STORE1", "LOAD1", "IRET1", "IRET2", "IRET3", "IREQ1",
                      "IREQ2", "IREQ3", "IREQ4"}
  /\ Follow["RESET0"] = "RESET1" /\ Follow["FETCH1"] = "FETCH2" /\ Follow["STORE1"] = "STORE2"
  /\ Follow["LOAD1"] = "LOAD2" /\ Follow["IRET1"] = "IRET2" /\ Follow["IRET2"] = "IRET3"
  /\ Follow["IRET3"] = "IRET4" /\ Follow["IREQ1"] = "IREQ2" /\ Follow["IREQ2"] = "IREQ3"
  /\ Follow["IREQ3"] = "IREQ4" /\ Follow["IREQ4"] = "IREQ5"
  BY DEF Follow

LEMMA NextFollows ==
  ASSUME st \in DOMAIN Follow, q = {st}, ieff \in BOOLEAN, NEW i, NEW o, NEW irq \in BOOLEAN,
         De0Edge(i, o, irq)
  PROVE  q' = {Follow[st]} /\ Follow[st] \in Flops
<1>1. st \in Flops /\ Follow[st] \in DOMAIN Feeds /\ Feeds[Follow[st]] = st /\ Follow[st] \in Flops
  BY FollowTable, FeedsTable DEF Flops
<1>2. PosedgeClock(i, irq, ieff)
  BY DEF De0Edge
<1> DEFINE n == Follow[st]
<1> HIDE DEF n
<1>3. q' = {n}
  <2>1. n \in DOMAIN Feeds /\ Feeds[n] = st
    BY <1>1 DEF n
  <2>2. QED
    BY <1>1, <1>2, <2>1, FedStep
<1>4. QED
  BY <1>1, <1>3 DEF n

LEMMA NextEnds ==
  ASSUME st \in LastCycle \cup {"LOAD2"}, q = {st}, ieff \in BOOLEAN, opcode \in Word, NEW o,
         NEW irq \in BOOLEAN, De0Edge(opcode, o, irq)
  PROVE  q' = {IF st = "LOAD2" /\ Imm(opcode) THEN "LOAD3"
               ELSE IF irq /\ ieff THEN "IREQ1" ELSE "FETCH1"}
<1>1. PosedgeClock(opcode, irq, ieff)
  BY DEF De0Edge
<1>2. q' = {IF load3d(opcode) THEN "LOAD3" ELSE IF irqpend(irq, ieff) THEN "IREQ1" ELSE "FETCH1"}
  BY <1>1, EndStep
<1>3. load3d(opcode) <=> st = "LOAD2" /\ Imm(opcode)
  <2>1. st \in Flops
    BY DEF Flops, LastCycle
  <2>2. loadimm(opcode) <=> Imm(opcode)
    BY FieldBits DEF LoadImmediate, Imm, RegA, RegD, rdOf
  <2>3. QED
    BY <2>1, <2>2, Alone DEF load3d
<1>4. QED
  BY <1>2, <1>3 DEF irqpend

LEMMA FirstIs ==
  ASSUME NEW i \in Word
  PROVE  /\ First(i) =
              IF Field3(i, 13) = 0
              THEN IF Field3(i, 10) # 0 \/ IsSet(i, 0) THEN "BCC1"
                   ELSE <<"HALT1", "IRET1", "WRPS1", "RDPS1">>[(Field3(i, 1) % 4) + 1]
              ELSE IF Field3(i, 13) = 1 THEN "ARITH1"
              ELSE IF Field3(i, 13) \in {2, 3} THEN "STORE1"
              ELSE IF Field3(i, 13) = 4 THEN "LDA1" ELSE "LOAD1"
         /\ Field3(i, 13) \in {0, 1, 2, 3, 4, 5, 6, 7}
         /\ Field3(i, 10) \in {0, 1, 2, 3, 4, 5, 6, 7}
         /\ Field3(i, 1) % 4 = Bit(i, 1) + 2 * Bit(i, 2)
<1>1. Field3(i, 13) = Bit(i, 13) + 2 * Bit(i, 14) + 4 * Bit(i, 15)
      /\ Bit(i, 13) \in {0, 1} /\ Bit(i, 14) \in {0, 1} /\ Bit(i, 15) \in {0, 1}
  BY FieldBits
<1>2. Field3(i, 10) = Bit(i, 10) + 2 * Bit(i, 11) + 4 * Bit(i, 12)
      /\ Bit(i, 10) \in {0, 1} /\ Bit(i, 11) \in {0, 1} /\ Bit(i, 12) \in {0, 1}
  BY FieldBits
<1>3. Field3(i, 1) = Bit(i, 1) + 2 * Bit(i, 2) + 4 * Bit(i, 3)
      /\ Bit(i, 1) \in {0, 1} /\ Bit(i, 2) \in {0, 1} /\ Bit(i, 3) \in {0, 1}
  BY FieldBits
<1> DEFINE f == Field3(i, 13)
           g == Field3(i, 10)
           h == <<"HALT1", "IRET1", "WRPS1", "RDPS1">>[(Field3(i, 1) % 4) + 1]
           z == IsSet(i, 0)
<1>4. f \in {0, 1, 2, 3, 4, 5, 6, 7} /\ g \in {0, 1, 2, 3, 4, 5, 6, 7}
  BY <1>1, <1>2
<1>5. Field3(i, 1) % 4 = Bit(i, 1) + 2 * Bit(i, 2)
  BY <1>3
<1>6. First(i) =
        CASE f = 0 /\ (g # 0 \/ z) -> "BCC1"
          [] f = 0 /\ g = 0 /\ ~z -> h
          [] f = 1 -> "ARITH1"
          [] f \in {2, 3} -> "STORE1"
          [] f = 4 -> "LDA1"
          [] f \in 5 .. 7 -> "LOAD1"
  BY DEF First
<1>7. z \in BOOLEAN
  BY DEF IsSet
<1> HIDE DEF f, g, h, z
<1>8. First(i) = IF f = 0 THEN IF g # 0 \/ z THEN "BCC1" ELSE h
                 ELSE IF f = 1 THEN "ARITH1" ELSE IF f \in {2, 3} THEN "STORE1"
                 ELSE IF f = 4 THEN "LDA1" ELSE "LOAD1"
  BY <1>4, <1>6, <1>7
<1>9. QED
  BY <1>4, <1>5, <1>8 DEF f, g, h, z

LEMMA NextDecoded ==
  ASSUME q = {"FETCH2"}, NEW i \in Word, ieff \in BOOLEAN, NEW o, NEW irq \in BOOLEAN,
         De0Edge(i, o, irq)
  PROVE  q' = {First(i)} /\ First(i) \in Decoded
<1>1. PosedgeClock(i, irq, ieff)
  BY DEF De0Edge
<1>2. PICK s \in Decoded : q' = {s} /\ D(s, i, irq, ieff)
  BY <1>1, DecodeStep
<1>3. Field3(i, 13) = Bit(i, 13) + 2 * Bit(i, 14) + 4 * Bit(i, 15)
      /\ Bit(i, 13) \in {0, 1} /\ Bit(i, 14) \in {0, 1} /\ Bit(i, 15) \in {0, 1}
  BY FieldBits
<1>4. Field3(i, 10) = Bit(i, 10) + 2 * Bit(i, 11) + 4 * Bit(i, 12)
      /\ Bit(i, 10) \in {0, 1} /\ Bit(i, 11) \in {0, 1} /\ Bit(i, 12) \in {0, 1}
  BY FieldBits
<1>5. Bit(i, 1) \in {0, 1} /\ Bit(i, 2) \in {0, 1}
  BY FieldBits
<1>6. specialinstr(i) <=> ~(Field3(i, 10) # 0 \/ IsSet(i, 0))
  BY <1>4 DEF specialinstr, IsSet
<1>7. /\ s = "ARITH1" => (Bit(i, 15) # 1 /\ Bit(i, 14) # 1 /\ Bit(i, 13) = 1)
      /\ s = "STORE1" => (Bit(i, 15) # 1 /\ Bit(i, 14) = 1)
      /\ s = "LDA1" => (Bit(i, 15) = 1 /\ Bit(i, 14) # 1 /\ Bit(i, 13) # 1)
      /\ s = "LOAD1" => (Bit(i, 15) = 1 /\ (Bit(i, 14) = 1 \/ Bit(i, 13) = 1))
      /\ s \in {"BCC1", "HALT1", "IRET1", "WRPS1", "RDPS1"} =>
           (Bit(i, 15) # 1 /\ Bit(i, 14) # 1 /\ Bit(i, 13) # 1)
      /\ s = "BCC1" => ~specialinstr(i)
      /\ s \in {"HALT1", "IRET1", "WRPS1", "RDPS1"} => specialinstr(i)
      /\ s = "HALT1" => Bit(i, 2) # 1 /\ Bit(i, 1) # 1
      /\ s = "IRET1" => Bit(i, 2) # 1 /\ Bit(i, 1) = 1
      /\ s = "WRPS1" => Bit(i, 2) = 1 /\ Bit(i, 1) # 1
      /\ s = "RDPS1" => Bit(i, 2) = 1 /\ Bit(i, 1) = 1
  <2>1. /\ s = "ARITH1" => arith1d(i)
        /\ s = "STORE1" => store1d(i)
        /\ s = "LDA1" => lda1d(i)
        /\ s = "LOAD1" => load1d(i)
        /\ s = "BCC1" => bcc1d(i)
        /\ s = "HALT1" => halt1d(i)
        /\ s = "IRET1" => iret1d(i)
        /\ s = "WRPS1" => wrps1d(i)
        /\ s = "RDPS1" => rdps1d(i)
    BY <1>2, FeedsTable DEF D
  <2>2. QED
    BY <2>1
    DEF arith1d, bcc1d, lda1d, load1d, store1d, halt1d, iret1d, wrps1d, rdps1d,
        SpecialD, topthreezero, IsSet
<1> DEFINE t == <<"HALT1", "IRET1", "WRPS1", "RDPS1">>
<1>8. t[0 + 1] = "HALT1" /\ t[1 + 1] = "IRET1" /\ t[2 + 1] = "WRPS1" /\ t[3 + 1] = "RDPS1"
  OBVIOUS
<1>9. First(i) = IF Field3(i, 13) = 0
                 THEN IF Field3(i, 10) # 0 \/ IsSet(i, 0) THEN "BCC1" ELSE t[(Field3(i, 1) % 4) + 1]
                 ELSE IF Field3(i, 13) = 1 THEN "ARITH1"
                 ELSE IF Field3(i, 13) \in {2, 3} THEN "STORE1"
                 ELSE IF Field3(i, 13) = 4 THEN "LDA1" ELSE "LOAD1"
  BY FirstIs
<1>10. Field3(i, 1) % 4 = Bit(i, 1) + 2 * Bit(i, 2)
  BY FirstIs
<1> HIDE DEF t
<1>11. CASE s = "BCC1"
  <2>1. First(i) = s
    BY <1>3, <1>6, <1>7, <1>9, <1>11
  <2>2. QED
    BY <1>2, <2>1
<1>12. CASE s \in {"HALT1", "IRET1", "WRPS1", "RDPS1"}
  <2>1. First(i) = t[(Field3(i, 1) % 4) + 1]
    BY <1>3, <1>6, <1>7, <1>9, <1>12
  <2>2. t[(Field3(i, 1) % 4) + 1] = s
    BY <1>5, <1>7, <1>8, <1>10, <1>12
  <2>3. QED
    BY <1>2, <2>1, <2>2
<1>13. CASE s \in {"ARITH1", "STORE1", "LDA1", "LOAD1"}
  <2>1. First(i) = s
    BY <1>3, <1>7, <1>9, <1>13
  <2>2. QED
    BY <1>2, <2>1
<1>14. QED
  BY <1>2, <1>11, <1>12, <1>13 DEF Decoded

LEMMA LinesNext ==
  (\A p, rv, kn, x, y :
     StackTypes(p, rv, kn, x, y) /\ HoldsInstr(y) /\ KnowsPsw(p)
       => ControlOn(Ones) \ Ignored(st) = Expected(st, opcode, p) \ Ignored(st))'
<1>1. \A p, rv, kn, x, y :
        StackTypes(p, rv, kn, x, y) /\ HoldsInstr(y) /\ KnowsPsw(p)
          => ControlOn(Ones) \ Ignored(st) = Expected(st, opcode, p) \ Ignored(st)
  BY LinesRight
<1>2. QED
  BY <1>1, PTL

(* One cycle: the boards go to the state the tester goes to, and the two stay
   together. *)
Goes(n, op, irq) ==
    /\ StepState(irq, n, op) /\ bench' = bench /\ q' = {n}
    /\ n \in Flops \ {"RESET0"} /\ op \in Word /\ irq \in BOOLEAN
    /\ n = "RESET1" <=> st = "RESET0"
    /\ n = "IREQ4" <=> st = "IREQ3"
    /\ n = "IREQ5" <=> st = "IREQ4"
    /\ n = "FETCH2" <=> st = "FETCH1"
    /\ n # "FETCH1" => op = opcode

IntEnabled(n) ==
    /\ pswie' \in BOOLEAN
    /\ n = "RESET1" => ~pswie'
    /\ n \notin {"RESET0", "RESET1", "FETCH1", "FETCH2", "IREQ1", "IREQ2", "IREQ3", "IREQ4",
                 "IREQ5"} => pswie' = ieff'

LEMMA MindStep ==
  ASSUME NEW p, NEW rv, NEW kn, NEW x, NEW y, Mind(p, rv, kn, x, y), ~errors,
         NEW n, NEW op, NEW irq, Goes(n, op, irq), IntEnabled(n)
  PROVE  \E p1, rv1, kn1, x1, y1 : Mind(p1, rv1, kn1, x1, y1)' /\ ~errors'
<1>1. PICK p1, rv1, kn1 : p1 = pswbits /\ rv1 = regvalues /\ kn1 = regknowns
  OBVIOUS
<1>2. /\ De0Edge(IR(mqbus), BoardAlu, irq) /\ bench' = bench /\ q' = {n} /\ girq' = irq
      /\ n \in Flops /\ n # "RESET0" /\ op \in Word /\ irq \in BOOLEAN
      /\ n = "RESET1" <=> st = "RESET0"
      /\ n = "IREQ4" <=> st = "IREQ3"
      /\ n = "IREQ5" <=> st = "IREQ4"
      /\ n = "FETCH2" <=> st = "FETCH1"
      /\ n # "FETCH1" => op = opcode
  BY DEF Goes, StepState
<1>3. PICK x1, y1 \in RandOperands : Verify(n, op, x1, y1)
  BY DEF Goes, StepState
<1>4. x1 \in Word /\ y1 \in Word
  BY <1>3, BenchAssumption
<1>5. /\ StackTypes(p, rv, kn, x, y) /\ HoldsInstr(y) /\ KnowsPsw(p)
  BY DEF Mind
<1>6. st \in Flops /\ q = {st} /\ opcode \in Word /\ memreaddata \in Word /\ bench \in Benches
  BY <1>5 DEF StackTypes
<1>7. /\ st' = n /\ opcode' = op
      /\ WatchesA(kn1, rv1, x1)' /\ WatchesB(kn1, rv1, y1)' /\ Predicts(p1, kn1, rv1, x1, y1)'
      /\ memreadpend' = (n \in {"LOAD2", "IRET2", "IRET4", "FETCH2"})
      /\ memreaddata' = IF n = "FETCH2" THEN op
                        ELSE IF n \in {"LOAD2", "IRET2", "IRET4"} THEN y1 ELSE memreaddata
      /\ vfyireoc' = (n = "FETCH2" \/ (vfyireoc /\ n # "FETCH1"))
      /\ errors' = \/ errors
                   \/ EndsWrong
                   \/ LinesWrong(n, ControlOn(Ones)', Expected(n, op, p1))
  BY <1>1, <1>2, <1>3, <1>4, VerifyIs
<1>8. De0TypeOK' /\ irlat' = IR(mqbus)
  BY <1>2, EdgeTypes
<1>9. /\ rv1 \in [0 .. 7 -> Word] /\ kn1 \in [0 .. 7 -> BOOLEAN]
      /\ \A r \in hasregs : kn1[r] /\ ~(r = 7 /\ st = "RESET0") => rq'[r] = rv1[r]
  BY <1>1, <1>2, KnowsNext
<1>10. /\ p1 \in Word
       /\ st # "RESET0" => PswOf(ieff', nzvc') = PswIn(n, p1)
       /\ n \in {"RESET1", "IREQ4", "IREQ5"} => ~ieff'
  <2>1. /\ pswbits \in Word
        /\ st # "RESET0" => PswOf(ieff', nzvc') = PswIn(n, pswbits)
        /\ st \in {"RESET0", "RESET1", "IREQ3", "IREQ4"} /\ (st = "IREQ3" => n = "IREQ4") => ~ieff'
    BY <1>2, PswNext
  <2>2. QED
    BY <1>1, <1>2, <2>1
<1>11. StackTypes(p1, rv1, kn1, x1, y1)'
  <2>1. memreaddata' \in Word /\ memreadpend' \in BOOLEAN
    BY <1>2, <1>4, <1>6, <1>7
  <2>2. pswie' \in BOOLEAN
    BY DEF IntEnabled
  <2>3. QED
    BY <1>2, <1>4, <1>6, <1>7, <1>8, <1>9, <1>10, <2>1, <2>2 DEF StackTypes
<1>12. HoldsInstr(y1)'
  <2>1. st # "FETCH1" => IR(mqbus) = opcode
    BY <1>5, ShownInstr
  <2>2. n \notin {"FETCH1", "FETCH2"} => irlat' = op
    BY <1>2, <1>8, <2>1
  <2>3. n = "FETCH2" => memreadpend' /\ memreaddata' = op
    BY <1>7
  <2>4. n \in {"LOAD2", "IRET2", "IRET4"} => memreadpend' /\ memreaddata' = y1
    BY <1>7
  <2>5. vfyireoc' => n # "FETCH1"
    BY <1>7
  <2>6. QED
    BY <1>7, <2>2, <2>3, <2>4, <2>5 DEF HoldsInstr
<1>13. KnowsRegs(rv1, kn1)'
  <2>1. hasregs' = hasregs
    BY <1>2 DEF hasregs
  <2>2. QED
    BY <1>2, <1>7, <1>9, <2>1 DEF KnowsRegs
<1>14. KnowsPsw(p1)'
  BY <1>2, <1>7, <1>10 DEF KnowsPsw, IntEnabled
<1>15. Mind(p1, rv1, kn1, x1, y1)'
  BY <1>7, <1>11, <1>12, <1>13, <1>14 DEF Mind
<1>16. ~errors'
  <2>1. ~EndsWrong
    BY EndsRight
  <2>2. (ControlOn(Ones) \ Ignored(st) = Expected(st, opcode, p1) \ Ignored(st))'
    BY <1>11, <1>12, <1>14, LinesNext
  <2>3. ControlOn(Ones)' \ Ignored(n) = Expected(n, op, p1) \ Ignored(n)
    BY <1>7, <2>2
  <2>4. ~LinesWrong(n, ControlOn(Ones)', Expected(n, op, p1))
    <3>1. (ControlOn(Ones)' \cap HostPins) \ Ignored(n)
            = (Expected(n, op, p1) \cap HostPins) \ Ignored(n)
      BY <2>3
    <3>2. QED
      BY <2>3, <3>1 DEF LinesWrong
  <2>5. QED
    BY <1>7, <2>1, <2>4
<1>17. QED
  BY <1>15, <1>16

(* What the actions have to know of the state they start in. *)
LEMMA Standing ==
  ASSUME NEW p, NEW rv, NEW kn, NEW x, NEW y, Mind(p, rv, kn, x, y)
  PROVE  /\ st \in Flops /\ q = {st} /\ opcode \in Word /\ girq \in BOOLEAN /\ pswie \in BOOLEAN
         /\ ieff \in BOOLEAN /\ bench \in Benches
         /\ IR(mqbus) \in Word /\ (st # "FETCH1" => IR(mqbus) = opcode)
         /\ st \in {"RESET1", "IREQ4", "IREQ5"} => ~ieff
         /\ st \in {"RESET0", "RESET1"} => ~pswie
         /\ st \notin {"RESET0", "FETCH1", "FETCH2", "IREQ1", "IREQ2", "IREQ3", "IREQ4", "IREQ5"}
              => pswie = ieff
<1>1. /\ StackTypes(p, rv, kn, x, y) /\ HoldsInstr(y) /\ KnowsPsw(p)
  BY DEF Mind
<1>2. pswie \in BOOLEAN /\ ieff \in BOOLEAN
  BY <1>1, ShownInstr DEF StackTypes
<1>3. st = "RESET1" => pswie = ieff
  BY <1>1, <1>2 DEF KnowsPsw
<1>4. QED
  BY <1>1, <1>2, <1>3, ShownInstr DEF StackTypes, KnowsPsw

LEMMA Keeping ==
  ASSUME NEW p, NEW rv, NEW kn, NEW x, NEW y, Mind(p, rv, kn, x, y),
         NEW n, NEW op, NEW irq, Goes(n, op, irq),
         st \notin {"RESET0", "RESET1", "IREQ3", "IREQ4", "IRET4", "WRPS1"}
  PROVE  ieff' = ieff
<1>1. /\ De0Edge(IR(mqbus), BoardAlu, irq) /\ n \in Flops /\ q' = {n}
      /\ n = "RESET1" <=> st = "RESET0"
      /\ n = "IREQ4" => st = "IREQ3"
  BY DEF Goes, StepState
<1>2. QED
  BY <1>1, PswNext

LEMMA InsideStep ==
  ASSUME NEW p, NEW rv, NEW kn, NEW x, NEW y, Mind(p, rv, kn, x, y),
         InsideInstruction, bench' = bench
  PROVE  \E n, op, irq : Goes(n, op, irq) /\ IntEnabled(n)
<1>1. /\ st \in Flops /\ q = {st} /\ opcode \in Word /\ girq \in BOOLEAN /\ pswie \in BOOLEAN
      /\ ieff \in BOOLEAN /\ (st # "FETCH1" => IR(mqbus) = opcode)
      /\ st \in {"RESET0", "RESET1"} => ~pswie
      /\ st \notin {"RESET0", "FETCH1", "FETCH2", "IREQ1", "IREQ2", "IREQ3", "IREQ4", "IREQ5"}
           => pswie = ieff
  BY Standing
<1>2. pswie' = pswie
  BY DEF InsideInstruction
<1>3. CASE st \in DOMAIN Follow /\ StepState(girq, Follow[st], opcode)
  <2> DEFINE n == Follow[st]
  <2>1. De0Edge(IR(mqbus), BoardAlu, girq)
    BY <1>3 DEF StepState
  <2>2. q' = {n} /\ n \in Flops
    BY <1>1, <1>3, <2>1, NextFollows
  <2>3. /\ n # "RESET0"
        /\ n = "RESET1" <=> st = "RESET0"
        /\ n = "IREQ4" <=> st = "IREQ3"
        /\ n = "IREQ5" <=> st = "IREQ4"
        /\ n = "FETCH2" <=> st = "FETCH1"
        /\ n \in {"RESET1", "FETCH2", "STORE2", "LOAD2", "IRET2", "IRET3", "IRET4", "IREQ2",
                  "IREQ3", "IREQ4", "IREQ5"}
        /\ n \in {"STORE2", "LOAD2", "IRET2", "IRET3", "IRET4"} <=>
             st \in {"STORE1", "LOAD1", "IRET1", "IRET2", "IRET3"}
    BY <1>3, FollowTable
  <2>4. StepState(girq, n, opcode)
    BY <1>3
  <2> HIDE DEF n
  <2>5. Goes(n, opcode, girq)
    BY <1>1, <2>2, <2>3, <2>4 DEF Goes
  <2>6. IntEnabled(n)
    <3>1. n = "RESET1" => ~pswie'
      BY <1>1, <1>2, <2>3
    <3>2. ASSUME n \in {"STORE2", "LOAD2", "IRET2", "IRET3", "IRET4"} PROVE pswie' = ieff'
      <4>1. st \in {"STORE1", "LOAD1", "IRET1", "IRET2", "IRET3"}
        BY <2>3, <3>2
      <4>2. pswie = ieff
        BY <1>1, <4>1
      <4>3. ieff' = ieff
        BY <2>5, <4>1, Keeping
      <4>4. QED
        BY <1>2, <4>2, <4>3
    <3>3. QED
      BY <1>1, <1>2, <2>3, <3>1, <3>2 DEF IntEnabled
  <2>7. QED
    BY <2>5, <2>6
<1>4. CASE st = "LOAD2" /\ Imm(opcode) /\ StepState(girq, "LOAD3", opcode)
  <2>1. De0Edge(opcode, BoardAlu, girq)
    BY <1>1, <1>4 DEF StepState
  <2>2. q' = {"LOAD3"}
    BY <1>1, <1>4, <2>1, NextEnds
  <2>3. Goes("LOAD3", opcode, girq)
    BY <1>1, <1>4, <2>2 DEF Goes, Flops
  <2>4. ieff' = ieff
    BY <1>4, <2>3, Keeping
  <2>5. IntEnabled("LOAD3")
    BY <1>1, <1>2, <1>4, <2>4 DEF IntEnabled
  <2>6. QED
    BY <2>3, <2>5
<1>5. QED
  BY <1>3, <1>4 DEF InsideInstruction

LEMMA FirstCycleStep ==
  ASSUME NEW p, NEW rv, NEW kn, NEW x, NEW y, Mind(p, rv, kn, x, y),
         FirstCycle, bench' = bench
  PROVE  \E n, op, irq : Goes(n, op, irq) /\ IntEnabled(n)
<1>1. /\ st = "FETCH2" /\ q = {"FETCH2"} /\ opcode \in Word /\ girq \in BOOLEAN
      /\ ieff \in BOOLEAN /\ IR(mqbus) = opcode
  BY Standing DEF FirstCycle
<1> DEFINE n == First(opcode)
<1>2. De0Edge(opcode, BoardAlu, girq) /\ StepState(girq, n, opcode)
  BY <1>1 DEF StepState, FirstCycle
<1>3. q' = {n} /\ n \in Decoded
  BY <1>1, <1>2, NextDecoded
<1>4. pswie' = IsSet(pswbits, 15)
  BY DEF FirstCycle
<1> HIDE DEF n
<1>5. Goes(n, opcode, girq)
  BY <1>1, <1>2, <1>3 DEF Goes, Decoded, Flops
<1>6. PswOf(ieff', nzvc') = PswIn(n, pswbits)
  <2>1. /\ De0Edge(IR(mqbus), BoardAlu, girq) /\ n \in Flops /\ q' = {n}
        /\ n = "RESET1" <=> st = "RESET0"
        /\ n = "IREQ4" => st = "IREQ3"
    BY <1>1, <1>2, <1>5 DEF Goes
  <2>2. QED
    BY <1>1, <2>1, PswNext
<1>7. De0TypeOK'
  BY <1>1, <1>2, EdgeTypes
<1>8. ieff' \in BOOLEAN /\ nzvc' \in Flags
  BY <1>7 DEF De0TypeOK
<1>9. PswIn(n, pswbits) = pswbits
  BY <1>3 DEF PswIn, Decoded
<1>10. IsSet(PswOf(ieff', nzvc'), 15) <=> ieff'
  BY <1>8, PswBits
<1>11. pswie' \in BOOLEAN /\ (pswie' <=> ieff')
  BY <1>4, <1>6, <1>9, <1>10 DEF IsSet
<1>12. pswie' = ieff'
  BY <1>8, <1>11
<1>13. IntEnabled(n)
  BY <1>3, <1>11, <1>12 DEF IntEnabled, Decoded
<1>14. QED
  BY <1>5, <1>13

LEMMA EndsAt ==
  ASSUME st \in Flops, InstructionEnds
  PROVE  /\ st \in LastCycle \cup {"LOAD2"}
         /\ ~(st = "LOAD2" /\ Imm(opcode))
         /\ st \notin {"RESET0", "FETCH1", "FETCH2", "IREQ1", "IREQ2", "IREQ3", "IREQ4", "IREQ5"}
  BY FollowTable DEF InstructionEnds, LastCycle, Flops

LEMMA EndSteps ==
  ASSUME NEW p, NEW rv, NEW kn, NEW x, NEW y, Mind(p, rv, kn, x, y),
         StartInterrupt \/ StartInstruction, bench' = bench
  PROVE  \E n, op, irq : Goes(n, op, irq) /\ IntEnabled(n)
<1>1. /\ st \in Flops /\ q = {st} /\ opcode \in Word /\ pswie \in BOOLEAN
      /\ ieff \in BOOLEAN /\ bench \in Benches /\ (st # "FETCH1" => IR(mqbus) = opcode)
      /\ st \notin {"RESET0", "FETCH1", "FETCH2", "IREQ1", "IREQ2", "IREQ3", "IREQ4", "IREQ5"}
           => pswie = ieff
  BY Standing
<1>2. InstructionEnds /\ pswie' = pswie
  BY DEF StartInterrupt, StartInstruction
<1>3. /\ st \in LastCycle \cup {"LOAD2"}
      /\ ~(st = "LOAD2" /\ Imm(opcode))
      /\ st \notin {"RESET0", "FETCH1", "FETCH2", "IREQ1", "IREQ2", "IREQ3", "IREQ4", "IREQ5"}
  BY <1>1, <1>2, EndsAt
<1>4. IR(mqbus) = opcode /\ pswie = ieff
  BY <1>1, <1>3
<1>5. CASE StartInterrupt
  <2>1. pswie /\ StepState(TRUE, "IREQ1", opcode)
    BY <1>5 DEF StartInterrupt
  <2>2. De0Edge(opcode, BoardAlu, TRUE)
    BY <1>4, <2>1 DEF StepState
  <2>3. q' = {"IREQ1"}
    BY <1>1, <1>3, <1>4, <2>1, <2>2, NextEnds
  <2>4. Goes("IREQ1", opcode, TRUE)
    BY <1>1, <1>3, <2>1, <2>3 DEF Goes, Flops
  <2>5. IntEnabled("IREQ1")
    BY <1>1, <1>2 DEF IntEnabled
  <2>6. QED
    BY <2>4, <2>5
<1>6. CASE StartInstruction
  <2>1. PICK op \in bench.opcodes, irq \in {FALSE, ~pswie} : StepState(irq, "FETCH1", op)
    BY <1>6 DEF StartInstruction
  <2>2. op \in Word /\ irq \in BOOLEAN /\ ~(irq /\ ieff)
    BY <1>1, <1>4, <2>1, BenchAssumption
  <2>3. De0Edge(opcode, BoardAlu, irq)
    BY <1>4, <2>1 DEF StepState
  <2>4. q' = {"FETCH1"}
    BY <1>1, <1>3, <2>2, <2>3, NextEnds
  <2>5. Goes("FETCH1", op, irq)
    BY <1>1, <1>3, <2>1, <2>2, <2>4 DEF Goes, Flops
  <2>6. IntEnabled("FETCH1")
    BY <1>1, <1>2 DEF IntEnabled
  <2>7. QED
    BY <2>5, <2>6
<1>7. QED
  BY <1>5, <1>6

LEMMA AfterInterruptStep ==
  ASSUME NEW p, NEW rv, NEW kn, NEW x, NEW y, Mind(p, rv, kn, x, y),
         AfterInterrupt, bench' = bench
  PROVE  \E n, op, irq : Goes(n, op, irq) /\ IntEnabled(n)
<1>1. /\ st = "IREQ5" /\ q = {st} /\ opcode \in Word /\ girq \in BOOLEAN
      /\ ieff \in BOOLEAN /\ ~ieff /\ bench \in Benches /\ IR(mqbus) = opcode
  BY Standing DEF AfterInterrupt
<1>2. PICK op \in bench.opcodes : StepState(girq, "FETCH1", op)
  BY DEF AfterInterrupt
<1>3. op \in Word
  BY <1>1, <1>2, BenchAssumption
<1>4. De0Edge(opcode, BoardAlu, girq)
  BY <1>1, <1>2 DEF StepState
<1>5. q' = {"FETCH1"}
  BY <1>1, <1>4, NextEnds DEF LastCycle
<1>6. Goes("FETCH1", op, girq)
  BY <1>1, <1>2, <1>3, <1>5 DEF Goes, Flops
<1>7. IntEnabled("FETCH1")
  BY DEF IntEnabled, AfterInterrupt
<1>8. QED
  BY <1>6, <1>7

InMind == \E p, rv, kn, x, y : Mind(p, rv, kn, x, y) /\ ~errors
TesterInv ==
    /\ passno \in Nat \ {0}
    /\ passno = 1 \/ hasregs = {} => InMind

(* In RESET0 the tester looks at nothing and knows no register but R7. *)
LEMMA AtReset ==
  ASSUME NEW p, NEW rv, NEW kn, NEW x, NEW y, StackTypes(p, rv, kn, x, y), st = "RESET0",
         irlat = opcode, ~vfyireoc, ~pswie, \A r \in hasregs : kn[r] => r = 7,
         vfya = NotChecked, vfyb = NotChecked, vfyd = NotChecked, pada = Ones, padb = Ones,
         p = pswbits, rv = regvalues, kn = regknowns
  PROVE  Mind(p, rv, kn, x, y)
<1>1. ~AReads(st) /\ ~BReads(st) /\ ~BKnown(st) /\ ~PutsReg(st, opcode, p)
  BY DEF AReads, BaseStates, PcStates, BReads, BKnown, PutsReg
<1>2. WatchesA(kn, rv, x) /\ WatchesB(kn, rv, y)
  BY <1>1 DEF WatchesA, WatchesB
<1>3. Predicts(p, kn, rv, x, y)
  BY <1>1 DEF Predicts, PswOut, PswIn
<1>4. HoldsInstr(y) /\ KnowsRegs(rv, kn) /\ KnowsPsw(p)
  BY DEF HoldsInstr, KnowsRegs, KnowsPsw
<1>5. QED
  BY <1>2, <1>3, <1>4 DEF Mind

LEMMA TesterStarts == TestInit => TesterInv
<1> SUFFICES ASSUME TestInit PROVE TesterInv
  OBVIOUS
<1>1. /\ q = {st} /\ st = "RESET0" /\ bench \in Benches /\ irlat = 0 /\ opcode = 0
      /\ memreaddata = 0 /\ memreadpend = FALSE /\ girq = FALSE /\ pswie = FALSE /\ vfyireoc = FALSE
      /\ vfya = NotChecked /\ vfyb = NotChecked /\ vfyd = NotChecked /\ pada = Ones /\ padb = Ones
      /\ pswbits = 32752 /\ regvalues = [r \in 0 .. 7 |-> 0] /\ regknowns = [r \in 0 .. 7 |-> r = 7]
      /\ rq \in StackPowerOn /\ ieff \in BOOLEAN
      /\ nzvc = [n |-> TRUE, z |-> FALSE, v |-> TRUE, c |-> FALSE]
      /\ passno = 1 /\ ~errors
  BY DEF TestInit
<1>2. "RESET0" \in Flops
  BY DEF Flops
<1>3. PICK p, rv, kn : p = pswbits /\ rv = regvalues /\ kn = regknowns
  OBVIOUS
<1>4. 0 \in Word /\ p \in Word
  BY <1>1, <1>3, WordIs
<1>5. rv \in [0 .. 7 -> Word] /\ kn \in [0 .. 7 -> BOOLEAN]
  BY <1>1, <1>3, <1>4
<1>6. De0TypeOK
  <2>1. rq \in [0 .. 7 -> Word]
    BY <1>1, BenchAssumption
  <2>2. nzvc \in Flags
    BY <1>1 DEF Flags
  <2>3. q \subseteq Flops
    BY <1>1, <1>2
  <2>4. QED
    BY <1>1, <1>4, <2>1, <2>2, <2>3 DEF De0TypeOK
<1>7. StackTypes(p, rv, kn, 0, 0)
  <2>1. memreadpend \in BOOLEAN /\ girq \in BOOLEAN /\ pswie \in BOOLEAN
    <3>1. memreadpend = FALSE /\ girq = FALSE /\ pswie = FALSE
      BY DEF TestInit
    <3>2. QED
      BY ONLY <3>1
  <2>2. q = {st} /\ st \in Flops /\ bench \in Benches /\ opcode \in Word /\ memreaddata \in Word
    BY <1>1, <1>2, <1>4
  <2>3. QED
    BY <1>4, <1>5, <1>6, <2>1, <2>2 DEF StackTypes
<1>8. \A r \in hasregs : kn[r] => r = 7
  <2>1. hasregs \subseteq 0 .. 7
    BY <1>1, BenchAssumption DEF hasregs
  <2>2. \A r \in 0 .. 7 : kn[r] = (r = 7)
    BY <1>1, <1>3
  <2>3. \A r \in 0 .. 7 : kn[r] => r = 7
    BY <2>2
  <2>4. QED
    BY <2>1, <2>3
<1>9. Mind(p, rv, kn, 0, 0)
  BY <1>1, <1>3, <1>7, <1>8, AtReset
<1>10. QED
  BY <1>1, <1>9 DEF TesterInv, InMind

LEMMA AgainStep ==
  ASSUME InMind, Again, bench' = bench, hasregs = {}
  PROVE  InMind'
<1>1. PICK p, rv, kn, x, y : Mind(p, rv, kn, x, y) /\ ~errors
  BY DEF InMind
<1>2. StackTypes(p, rv, kn, x, y) /\ HoldsInstr(y) /\ Predicts(p, kn, rv, x, y)
  BY <1>1 DEF Mind
<1>3. InstructionEnds /\ st \in Flops /\ opcode \in Word /\ rv \in [0 .. 7 -> Word]
      /\ kn \in [0 .. 7 -> BOOLEAN]
  BY <1>2 DEF Again, StackTypes
<1>4. irlat = opcode
  BY <1>2, <1>3, EndsAt DEF HoldsInstr
<1>5. /\ q' = {"RESET0"} /\ st' = "RESET0" /\ pswbits' = 32752 /\ pswie' = FALSE
      /\ regknowns' = [regknowns EXCEPT ![7] = TRUE]
      /\ regvalues' = [regvalues EXCEPT ![7] = 0]
      /\ vfya' = NotChecked /\ vfyb' = NotChecked /\ vfyd' = NotChecked /\ vfyireoc' = FALSE
      /\ pada' = Ones /\ padb' = Ones
      /\ irlat' = irlat /\ rq' = rq /\ ieff' = ieff /\ nzvc' = nzvc /\ opcode' = opcode
      /\ memreaddata' = memreaddata /\ memreadpend' = memreadpend /\ girq' = girq
      /\ errors' = errors
  BY DEF Again, PosedgeReset
<1>6. PICK p1, rv1, kn1 : p1 = pswbits' /\ rv1 = regvalues' /\ kn1 = regknowns'
  OBVIOUS
<1>7. 0 \in Word /\ 32752 \in Word
  BY WordIs
<1>8. regvalues \in [0 .. 7 -> Word] /\ regknowns \in [0 .. 7 -> BOOLEAN]
  <2>1. Dest(st, opcode) \in 0 .. 7
    BY <1>3, Fields DEF Dest, rdOf, RegD
  <2>2. DOn(st, opcode, p, kn, rv, x, y) \in Word /\ BKnown(st) \in BOOLEAN
    BY <1>1, <1>7, ShownD DEF DOn, DOf, BKnown
  <2> DEFINE d == DOn(st, opcode, p, kn, rv, x, y)
             t == Dest(st, opcode)
  <2>3. /\ regvalues = IF PutsReg(st, opcode, p) THEN [rv EXCEPT ![t] = d] ELSE rv
        /\ regknowns = IF PutsReg(st, opcode, p) THEN [kn EXCEPT ![t] = BKnown(st)] ELSE kn
    BY <1>2 DEF Predicts
  <2> HIDE DEF d, t
  <2>4. QED
    BY <1>3, <2>1, <2>2, <2>3 DEF d, t
<1>9. rv1 \in [0 .. 7 -> Word] /\ kn1 \in [0 .. 7 -> BOOLEAN] /\ p1 \in Word
  BY <1>5, <1>6, <1>7, <1>8
<1>10. De0TypeOK'
  BY <1>2, <1>5 DEF StackTypes, De0TypeOK, Flops
<1>11. StackTypes(p1, rv1, kn1, 0, 0)'
  <2>1. "RESET0" \in Flops
    BY DEF Flops
  <2>2. /\ bench \in Benches /\ opcode \in Word /\ memreaddata \in Word
        /\ memreadpend \in BOOLEAN /\ girq \in BOOLEAN
    BY <1>2 DEF StackTypes
  <2>3. q' = {st'} /\ st' \in Flops
    BY <1>5, <2>1
  <2>4. pswie' \in BOOLEAN
    <3>1. pswie' = FALSE
      BY <1>5
    <3>2. QED
      BY ONLY <3>1
  <2>5. QED
    BY <1>5, <1>7, <1>9, <1>10, <2>2, <2>3, <2>4 DEF StackTypes
<1>12. hasregs' = {}
  BY DEF hasregs
<1>13. /\ (~AReads(st))' /\ (~BReads(st))' /\ (~BKnown(st))' /\ (~PutsReg(st, opcode, p1))'
  BY <1>5 DEF AReads, BaseStates, PcStates, BReads, BKnown, PutsReg
<1>14. WatchesA(kn1, rv1, 0)' /\ WatchesB(kn1, rv1, 0)'
  BY <1>5, <1>13 DEF WatchesA, WatchesB
<1>15. Predicts(p1, kn1, rv1, 0, 0)'
  BY <1>5, <1>6, <1>13 DEF Predicts, PswOut, PswIn
<1>16. HoldsInstr(0)' /\ KnowsRegs(rv1, kn1)' /\ KnowsPsw(p1)'
  BY <1>4, <1>5, <1>12 DEF HoldsInstr, KnowsRegs, KnowsPsw
<1>17. Mind(p1, rv1, kn1, 0, 0)'
  BY <1>11, <1>14, <1>15, <1>16 DEF Mind
<1>18. QED
  BY <1>1, <1>5, <1>17 DEF InMind

LEMMA TestWaits ==
  ASSUME InMind, UNCHANGED testVars
  PROVE  InMind'
<1>1. PICK p, rv, kn, x, y : Mind(p, rv, kn, x, y) /\ ~errors
  BY DEF InMind
<1> USE DEF testVars, de0Vars
<1>2. hasregs' = hasregs
  BY DEF hasregs
<1>3. StackTypes(p, rv, kn, x, y)'
  BY <1>1 DEF Mind, StackTypes, De0TypeOK
<1>4. HoldsInstr(y)' /\ KnowsRegs(rv, kn)'
  BY <1>1, <1>2 DEF Mind, HoldsInstr, KnowsRegs
<1>5. KnowsPsw(p)'
  BY <1>1 DEF Mind, KnowsPsw
<1>6. /\ \A r, w : Seen(kn, rv, r, w)' = Seen(kn, rv, r, w)
      /\ \A r : Drives(kn, r)' <=> Drives(kn, r)
  BY <1>2 DEF Seen, Drives
<1>7. /\ \A s, op : AOn(s, op, kn, rv, x)' = AOn(s, op, kn, rv, x)
      /\ \A s, op : BOn(s, op, kn, rv, y)' = BOn(s, op, kn, rv, y)
      /\ \A s, op : DOn(s, op, p, kn, rv, x, y)' = DOn(s, op, p, kn, rv, x, y)
  BY <1>2 DEF AOn, BOn, DOn, DOf, Seen
<1>8. WatchesA(kn, rv, x)' /\ WatchesB(kn, rv, y)'
  BY <1>1, <1>6, <1>7 DEF Mind, WatchesA, WatchesB
<1>9. Predicts(p, kn, rv, x, y)'
  BY <1>1, <1>7 DEF Mind, Predicts
<1>10. QED
  BY <1>1, <1>3, <1>4, <1>5, <1>8, <1>9 DEF InMind, Mind

LEMMA TesterStep == TesterInv /\ [TestNext]_testVars => TesterInv'
<1> SUFFICES ASSUME TesterInv, [TestNext]_testVars PROVE TesterInv'
  OBVIOUS
<1>1. CASE UNCHANGED testVars
  <2>1. passno' = passno /\ hasregs' = hasregs
    BY <1>1 DEF testVars, hasregs
  <2>2. QED
    BY <1>1, <2>1, TestWaits DEF TesterInv
<1>2. CASE Again /\ bench' = bench
  <2>1. passno' = passno + 1 /\ hasregs' = hasregs
    BY <1>2 DEF Again, hasregs
  <2>2. QED
    BY <1>2, <2>1, AgainStep DEF TesterInv
<1>3. CASE /\ \/ InsideInstruction \/ FirstCycle \/ StartInterrupt
              \/ StartInstruction \/ AfterInterrupt
           /\ bench' = bench
  <2>1. passno' = passno /\ hasregs' = hasregs
    BY <1>3 DEF InsideInstruction, FirstCycle, StartInterrupt, StartInstruction, AfterInterrupt,
       hasregs
  <2>2. ASSUME InMind PROVE InMind'
    <3>1. PICK p, rv, kn, x, y : Mind(p, rv, kn, x, y) /\ ~errors
      BY <2>2 DEF InMind
    <3>2. \E n, op, irq : Goes(n, op, irq) /\ IntEnabled(n)
      BY <1>3, <3>1, InsideStep, FirstCycleStep, EndSteps, AfterInterruptStep
    <3>3. QED
      BY <3>1, <3>2, MindStep DEF InMind
  <2>3. QED
    BY <2>1, <2>2 DEF TesterInv
<1>4. QED
  BY <1>1, <1>2, <1>3 DEF TestNext

LEMMA TesterSays == TesterInv => TesterRight
<1> SUFFICES ASSUME TesterInv, passno = 1 \/ hasregs = {} PROVE ~errors /\ KnowsBoard
  BY DEF TesterRight
<1>1. PICK p, rv, kn, x, y : Mind(p, rv, kn, x, y) /\ ~errors
  BY DEF TesterInv, InMind
<1>2. SUFFICES ASSUME st = "FETCH1"
               PROVE  /\ \A r \in hasregs : regknowns[r] => rq[r] = regvalues[r]
                      /\ pswbits = PswOf(ieff, nzvc)
  BY <1>1 DEF KnowsBoard
<1>3. KnowsRegs(rv, kn) /\ KnowsPsw(p) /\ Predicts(p, kn, rv, x, y)
  BY <1>1 DEF Mind
<1>4. regvalues = rv /\ regknowns = kn /\ pswbits = p
  <2>1. ~PutsReg(st, opcode, p)
    BY <1>2 DEF PutsReg
  <2>2. QED
    BY <1>2, <1>3, <2>1 DEF Predicts, PswOut, PswIn
<1>5. QED
  BY <1>2, <1>3, <1>4 DEF KnowsRegs, KnowsPsw, PswIn

(* No good board is called bad, on any bench: for every stack of register
   boards, every program of random instructions, operands and interrupts, and
   whatever the registers hold at power on, stepstate and verifystate of
   driver/raseqtest.cc never report an error of the A, B and D buses, of the
   instruction register or of the control lines in the first pass, or in any pass
   without register boards, and what they take as known of the registers and of
   the psw is what the boards hold whenever no write is on its way. *)
THEOREM TesterIsRight == TestSpec => []TesterRight
<1>1. TestSpec => []TesterInv
  BY TesterStarts, TesterStep, PTL DEF TestSpec
<1>2. QED
  BY <1>1, TesterSays, PTL
=============================================================================
