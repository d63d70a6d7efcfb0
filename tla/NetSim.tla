-------------------------------- MODULE NetSim --------------------------------
(***************************************************************************)
(* The RasPi module of the board simulator (netgen/RasPiModule.java): it   *)
(* clocks the simulated boards, is their memory, answers the calls that    *)
(* programs make through the word at FFF0, requests interrupts, and checks *)
(* the boards with its own model of the processor.  The boards are De0.    *)
(*                                                                         *)
(* A period of the clock is three steps of stepSimulator in which          *)
(* something happens: the rising edge, a quarter later, and the falling    *)
(* edge.  The period is long enough for the boards to settle in between.   *)
(***************************************************************************)
EXTENDS De0, Shadow
-------------------------------------------------------------------------------
(***************************************************************************)
(* The model of the processor that the board simulator runs beside the     *)
(* simulated boards (netgen/Shadow.java).  It has the states of            *)
(* driver/shadow.cc and computes the same, but looks for an interrupt in   *)
(* fewer places: HALT1, IRET4 and IREQ5 always lead to a fetch.  It checks *)
(* the memory pins only, and throws where shadow.cc calls puque.           *)
(***************************************************************************)

EndToFetch(mq) ==
    /\ state \in {"HALT1", "IRET4"}
    /\ state' = "FETCH1"
    /\ psw' = IF state = "IRET4" THEN LoadPsw(mq) ELSE psw
    /\ UNCHANGED <<ir, regs>>

EndAsShadow(mq, irq) ==
    /\ state \notin {"HALT1", "IRET4"}
    /\ EndOfState(mq, irq)

NetClock(mq, irq) == (EndToFetch(mq) \/ EndAsShadow(mq, irq)) /\ Begin

(* "bad opcode", in FETCH2 or when ARITH1 begins. *)
BadOpcode(mq) ==
    /\ state = "FETCH2"
    /\ Decode(mq) = "bad" \/ (Decode(mq) = "ARITH1" /\ BadAlu(mq))
-----------------------------------------------------------------------------
(* Shadow.check (mread, mword, mwrite, md), at the end of a cycle. *)
Reads  == state \in {"FETCH1", "IRET1", "IRET3", "LOAD1"}
Writes == state \in {"IREQ1", "IREQ3", "STORE1"}
Words  == state \notin {"STORE1", "LOAD1"} \/ ~ByteAccess(ir)
AluValid == state \notin {"RESET0", "RESET1", "LOAD2", "IRET2", "IRET4"}

Check(mread, mword, mwrite, md) ==
    /\ mread = Reads
    /\ mwrite = Writes
    /\ mread \/ mwrite => mword = Words
    /\ AluValid => md = alu
-------------------------------------------------------------------------------

CONSTANTS Programs,    \* memory as the load command may fill it
          PowerOn      \* register contents the boards may power up with

ASSUME NetAssumption ==
    /\ \A m \in Programs : \A a \in DOMAIN m : a \in Word /\ a % 2 = 0 /\ m[a] \in Word
    /\ PowerOn \subseteq [0 .. 7 -> Word]

VARIABLES
    nsintoclk,                                  \* the next of the three steps
    memarray,                                   \* by words, zero from the start
    savemread, savemwrite, savemword, savemaddr,
    mqval, mqknown,                             \* what is on MQ, and its bits that are not x
    intreq,
    run,                                        \* what has ended the simulation
    oldregs                                     \* registers at the last fetch, a history variable

simVars == <<nsintoclk, memarray, savemread, savemwrite, savemword, savemaddr,
             mqval, mqknown, intreq, run>>
netVars == <<shadowVars, de0Vars, simVars, oldregs>>

MAGIC == 65520
M_EXIT == 0
M_PRINTLN == 1
M_INTREQ == 2

LowByte == 255
All == 65535
-------------------------------------------------------------------------------
(* memarray holds bytes: a word at an odd address is that of the even one with
   its bytes swapped, addr ^ 1 being the other byte of either. *)
Even(a) == a - (a % 2)
Held(a) == IF a \in DOMAIN memarray THEN memarray[a] ELSE 0
Swapped(w) == 256 * (w % 256) + (w \div 256)
readword(a) == IF a % 2 = 0 THEN Held(a) ELSE Swapped(Held(Even(a)))
readbyte(a) == IF a % 2 = 0 THEN Held(a) % 256 ELSE Held(Even(a)) \div 256

With(a, w) == [b \in DOMAIN memarray \cup {a} |-> IF b = a THEN w ELSE memarray[b]]
WrittenWord(a, w) == With(Even(a), IF a % 2 = 0 THEN w ELSE Swapped(w))
WrittenByte(a, w) ==
    With(Even(a), IF a % 2 = 0 THEN 256 * (Held(a) \div 256) + (w % 256)
                  ELSE 256 * (w % 256) + (Held(Even(a)) % 256))
Written_word(a, w) == WrittenWord(a, w)
Written(a, w) == IF savemword THEN WrittenWord(a, w) ELSE WrittenByte(a, w)
-------------------------------------------------------------------------------
(* domagic, with the memory the write has left.  A block at the very end of
   memory runs out of the array. *)
WordIn(m, a) == LET w == IF Even(a) \in DOMAIN m THEN m[Even(a)] ELSE 0
                IN  IF a % 2 = 0 THEN w ELSE Swapped(w)
domagic(m) ==
    LET sp == WordIn(m, MAGIC)
        mi == WordIn(m, sp)
    IN  /\ run' = CASE mi \in {M_EXIT, M_PRINTLN, M_INTREQ} /\ sp >= All - 1 -> "exception"
                    [] mi = M_EXIT /\ sp < All - 1 -> "exited"
                    [] OTHER -> "running"
        /\ intreq' = IF mi = M_INTREQ /\ sp < All - 1 THEN WordIn(m, sp + 2) # 0 ELSE intreq

(* The processor gives the data a cycle after the address. *)
FinishWrite ==
    IF savemwrite
    THEN /\ memarray' = Written(savemaddr, MD(mqval))
         /\ IF savemaddr = MAGIC THEN domagic(memarray') ELSE UNCHANGED <<run, intreq>>
    ELSE UNCHANGED <<memarray, run, intreq>>

LatchRequest_hold ==
    IF Ctl("MEM_READ") \/ Ctl("MEM_WRITE")
    THEN /\ savemread' = Ctl("MEM_READ") /\ savemwrite' = Ctl("MEM_WRITE")
         /\ UNCHANGED <<savemword, savemaddr>>
    ELSE savemwrite' = FALSE /\ UNCHANGED <<savemread, savemword, savemaddr>>
LatchRequest ==
    IF Ctl("MEM_READ") \/ Ctl("MEM_WRITE")
    THEN /\ savemread' = Ctl("MEM_READ") /\ savemwrite' = Ctl("MEM_WRITE")
         /\ savemword' = MEM_WORD(IR(mqval))
         /\ savemaddr' = MD(mqval)
    ELSE savemwrite' = FALSE /\ UNCHANGED <<savemread, savemword, savemaddr>>
-------------------------------------------------------------------------------
Going(step) == run = "running" /\ nsintoclk = step /\ ~Ctl("HALT")

Checked == Check(Ctl("MEM_READ"), MEM_WORD(IR(mqval)), Ctl("MEM_WRITE"), MD(mqval))

Rise ==
    /\ Going("rise") /\ Checked /\ ~BadOpcode(mqval)
    /\ De0Clock(mqval, intreq)
    /\ NetClock(mqval, intreq)
    /\ FinishWrite
    /\ LatchRequest
    /\ nsintoclk' = "quarter"
    /\ oldregs' = IF state' = "FETCH1" THEN rq' ELSE oldregs
    /\ UNCHANGED <<mqval, mqknown>>

Reject ==
    /\ Going("rise")
    /\ run' = IF ~Checked THEN "rejected" ELSE "badopcode"
    /\ ~Checked \/ BadOpcode(mqval)
    /\ UNCHANGED <<shadowVars, de0Vars, oldregs, nsintoclk, memarray, savemread, savemwrite,
                   savemword, savemaddr, mqval, mqknown, intreq>>

Quarter ==
    /\ Going("quarter")
    /\ mqval' = 0 /\ mqknown' = 0
    /\ nsintoclk' = "fall"
    /\ UNCHANGED <<shadowVars, de0Vars, oldregs, memarray, savemread, savemwrite, savemword,
                   savemaddr, intreq, run>>

Fall ==
    /\ Going("fall")
    /\ IF savemread
       THEN /\ mqval' = IF savemword THEN readword(savemaddr) ELSE readbyte(savemaddr)
            /\ mqknown' = IF savemword THEN All ELSE LowByte
       ELSE UNCHANGED <<mqval, mqknown>>
    /\ savemread' = FALSE
    /\ nsintoclk' = "rise"
    /\ UNCHANGED <<shadowVars, de0Vars, oldregs, memarray, savemwrite, savemword, savemaddr,
                   intreq, run>>

(* HaltedException, as soon as the HALT pin is seen. *)
Halted ==
    /\ run = "running" /\ Ctl("HALT")
    /\ run' = "halted"
    /\ UNCHANGED <<shadowVars, de0Vars, oldregs, nsintoclk, memarray, savemread, savemwrite,
                   savemword, savemaddr, mqval, mqknown, intreq>>

NetInit ==
    /\ ShadowInit
    /\ q = {"RESET0"} /\ irlat = 0 /\ rq \in PowerOn /\ ieff \in BOOLEAN
    /\ nzvc = [n |-> FALSE, z |-> FALSE, v |-> FALSE, c |-> FALSE]
    /\ nsintoclk = "fall"
    /\ memarray \in Programs
    /\ savemread = FALSE /\ savemwrite = FALSE /\ savemword = FALSE /\ savemaddr = 0
    /\ mqval = 0 /\ mqknown = 0
    /\ intreq = FALSE /\ run = "running"
    /\ oldregs = [r \in 0 .. 7 |-> 0]

NetNext == Rise \/ Reject \/ Quarter \/ Fall \/ Halted

NetSpec == NetInit /\ [][NetNext]_netVars
-------------------------------------------------------------------------------
(***************************************************************************)
(* The model of the processor that the simulator keeps "to verify CPU      *)
(* state as we go along" finds nothing wrong with boards that are right,   *)
(* but for the interrupt it does not look for after an IRET: then it       *)
(* fetches while the boards enter the interrupt.                           *)
(***************************************************************************)

RejectsIretOnly == run = "rejected" => state = "FETCH1" /\ On("IREQ1")

(***************************************************************************)
(* When a cycle that takes data from memory ends, the bits that it takes   *)
(* are on the bus, though memory let go of the bus a quarter into it and   *)
(* puts on only eight bits for a byte: no register ever gets an x.         *)
(***************************************************************************)

Needed == IF Ctl("IR_WE") \/ (Ctl("MEM_REB") /\ MEM_WORD(IR(mqval))) THEN All
          ELSE IF Ctl("MEM_REB") THEN LowByte ELSE 0
ReadsDefined == nsintoclk = "rise" => mqknown >= Needed

SimulatorSound == RejectsIretOnly /\ ReadsDefined

(***************************************************************************)
(* The simulated computer runs programs as their author expects: it        *)
(* implements Isa, like the computer that raspictl drives.  What a program *)
(* writes to FFF0 stays there, which Isa leaves open.                      *)
(***************************************************************************)

Mem(m) == [a \in DOMAIN m \ {MAGIC} |-> m[a]]
Entered == \E s \in {"IREQ3", "IREQ4", "IREQ5"} : On(s)
IsaRegs ==
    IF On("RESET0") \/ On("RESET1") THEN [rq EXCEPT ![7] = 0]
    ELSE IF \E s \in {"FETCH1", "IREQ1", "IREQ2"} : On(s) THEN rq
    ELSE IF Entered THEN [rq EXCEPT ![7] = 2]
    ELSE oldregs
IsaPsw ==
    IF On("RESET0") \/ On("RESET1") THEN 32752
    ELSE IF Entered THEN PswOf(FALSE, nzvc)
    ELSE PswOf(ieff, nzvc)
IsaMem == Mem(IF On("IREQ3") \/ On("IREQ4") THEN WrittenWord(65532, rq[7]) ELSE memarray)

I == INSTANCE Isa WITH Programs <- {Mem(m) : m \in Programs},
        regs <- IsaRegs, psw <- IsaPsw, mem <- IsaMem,
        entering <- On("IREQ1") \/ On("IREQ2")

ImplementsIsa == I!Init /\ [][I!Next]_I!isaVars
===============================================================================
