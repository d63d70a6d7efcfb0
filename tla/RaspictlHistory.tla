--------------------------- MODULE RaspictlHistory ---------------------------
(***************************************************************************)
(* Raspictl with history variables, and the properties of interrupts and   *)
(* instructions that compare a state with an earlier one.  The history     *)
(* variables only record; they enable and disable nothing.                 *)
(***************************************************************************)
EXTENDS Raspictl

VARIABLES
    oldregs,    \* the registers when the instruction in progress was fetched
    interrupted \* what the interrupt in service found, or NotInService

histVars == <<vars, oldregs, interrupted>>

NotInService == [regs |-> << >>, psw |-> 0]

Becomes(s) == s \notin q /\ s \in q'

HistInit ==
    /\ Init
    /\ oldregs = [r \in 0 .. 7 |-> 0]
    /\ interrupted = NotInService

Record ==
    /\ oldregs' = IF Becomes("FETCH1") THEN rq' ELSE oldregs
    /\ interrupted' =
          IF Becomes("IREQ1") THEN [regs |-> rq', psw |-> PswOf(ieff', nzvc')]
          ELSE IF On("IRET4") /\ "IRET4" \notin q' THEN NotInService
          ELSE interrupted

HistNext == Next /\ Record

(* Fairness.  A thread that may run does: the main thread, whose every step
   moves pc, unless it waits for an interrupt request at a HALT; and the time
   that the line clock thread was given arrives. *)
MayRun ==
    /\ pc # "stopped"
    /\ pc = "top" => ~(Ctl("HALT") /\ Idle)
MainTurn ==
    /\ MayRun
    /\ pc' \in {"top", "process", "send", "recv", "bottom", "stopped"} \ {pc}
TimeArrives ==
    /\ lineclockrun /\ lineclockset /\ pc # "stopped"
    /\ "LINECLOCK" \notin intreqreg
    /\ intreqreg' = intreqreg \union {"LINECLOCK"}

Fairness == WF_pc(MainTurn) /\ WF_intreqreg(TimeArrives)

HistSpec == HistInit /\ [][HistNext]_histVars /\ Fairness

-----------------------------------------------------------------------------
(* An interrupt is never entered while another is in service, unless the
   handler asks for it: entry clears IE without a gap in which a request still
   pending could be taken again (driver/shadow.cc:524-545). *)
NoNesting == [][Becomes("IREQ1") => interrupted = NotInService]_histVars

(* An interrupted program cannot tell: when the handler of boot.asm returns
   with IRET, every register, the program counter and the status word are what
   they were (crtl/library/boot.asm:37-53, driver/shadow.cc:500-545). *)
Transparent ==
    [][On("IRET4") /\ "IRET4" \notin q' /\ interrupted # NotInService =>
        /\ rq' = interrupted.regs
        /\ PswOf(ieff', nzvc') = interrupted.psw]_histVars

(* A request that stays up while interrupts are enabled is served.  (The
   requests of -randmem come and go at random.) *)
Enabled == ieff /\ intreqreg # {} /\ ~RandMem
Served  == Enabled ~> (On("IREQ1") \/ ~Enabled)

(* However soon the line clock posts again, the interrupted program gets on:
   IRET lets one instruction go by before it looks at the request.  The
   programs that are to end are those loaded under -haltstop. *)
MainInstruction == On("FETCH1") /\ interrupted = NotInService
MainProgress ==
    options = {} => []<>MainInstruction /\ []<>~MainInstruction
-----------------------------------------------------------------------------
(* The computer seen by its programmer.  An instruction takes effect when its
   last cycle ends; an interrupt entry when the status word has been written,
   from then on the rest of the entry is bound to happen. *)
Entered == AnyOf({"IREQ3", "IREQ4", "IREQ5"})

IsaRegs ==
    IF AnyOf({"RESET0", "RESET1"}) THEN [rq EXCEPT ![7] = 0]
    ELSE IF AnyOf({"FETCH1", "IREQ1", "IREQ2"}) THEN rq
    ELSE IF Entered THEN [rq EXCEPT ![7] = 2]
    ELSE oldregs
IsaPsw ==
    IF AnyOf({"RESET0", "RESET1"}) THEN 32752
    ELSE IF Entered THEN PswOf(FALSE, nzvc)
    ELSE PswOf(ieff, nzvc)
SavedPc == 65532
IsaMem == IF AnyOf({"IREQ3", "IREQ4"}) THEN SetWord(memory, SavedPc, rq[7]) ELSE memory

I == INSTANCE Isa WITH
        Programs <- {r.load : r \in Runs},
        regs <- IsaRegs, psw <- IsaPsw, mem <- IsaMem,
        entering <- AnyOf({"IREQ1", "IREQ2"})

(* The processor of the FPGA, clocked and fed by raspictl, executes the
   instructions and interrupts of Isa: cycles, pins and the half-cycle handshake
   never show, until the program ends.  (The instruction set has no words for what
   -randmem makes up; opcodes that it does not define end the program.) *)
ImplementsIsa ==
    /\ ~RandMem => I!Init
    /\ [][~RandMem /\ pc' # "stopped" => I!Next]_I!isaVars
=============================================================================
