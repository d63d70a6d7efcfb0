-------------------------------- MODULE MCHost --------------------------------
(***************************************************************************)
(* Four things the host runs beside the processor's program: the line      *)
(* clock thread with the calls that control it; PhysLib with two data pins *)
(* that may be as slow as the retries allow; PipeLib with two of the four  *)
(* connectors, two pin values and sequence numbers that wrap; and          *)
(* raseqtest, over the register boards 0-1 and 6-7 or none of them.        *)
(***************************************************************************)
EXTENDS LineClock, GpioLibs, RaSeqTest

A == INSTANCE Asm

VARIABLE part

MCVars == <<part, clockVars, physVars, pipeVars, testVars>>

(* One opcode of each way to decode, on registers of each kind. *)
MCBenches ==
    { [hasregs |-> {0, 1, 6, 7},
       opcodes |-> { A!Halt(1), A!Iret, A!Wrps(2), A!Rdps(1), A!Bcc(4, 1, 0, 65508),
                     A!Alu3(14, 1, 0, 3), A!Stb(1, -64, 7), A!Ldbs(1, 0, 7), A!Ldw(7, 0, 7) },
       iterations |-> 3, passes |-> 1],
      [hasregs |-> {},
       opcodes |-> {A!Alu3(2, 1, 1, 0), A!Alu3(12, 1, 0, 3), A!Alu3(14, 1, 0, 3), A!Ldbu(0, 3, 1)},
       iterations |-> 1, passes |-> 2] }
MCOperands == {127, 33023}
MCPowerOn  == {[r \in 0 .. 7 |-> 4369 * r + 2]}

MCInit ==
    /\ part \in {"clock", "phys", "pipe", "bench"}
    /\ ClockInit /\ PhysInit /\ PipeInit /\ TestInit
    /\ part # "bench" => bench.hasregs = {} /\ ~ieff
    /\ part # "pipe" => sendseq = 0 /\ written.valu = "high"

MCNext ==
    /\ \/ part = "clock" /\ ClockNext /\ UNCHANGED <<physVars, pipeVars, testVars>>
       \/ part = "phys" /\ PhysNext /\ UNCHANGED <<clockVars, pipeVars, testVars>>
       \/ part = "pipe" /\ PipeNext /\ UNCHANGED <<clockVars, physVars, testVars>>
       \/ part = "bench" /\ TestNext /\ UNCHANGED <<clockVars, physVars, pipeVars>>
    /\ UNCHANGED part

MCSpec ==
    /\ MCInit /\ [][MCNext]_MCVars
    /\ ClockFairness /\ WF_clockVars(part = "clock" /\ Tick)
    /\ PipeFairness
===============================================================================
