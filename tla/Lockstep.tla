------------------------------ MODULE Lockstep ------------------------------
(***************************************************************************)
(* The processor of de0/*.v and the model of driver/shadow.cc clocked      *)
(* together: at each rising edge both see the same word on MQ and the same *)
(* interrupt request, as raspictl arranges by calling Shadow::check and    *)
(* Shadow::clock just before it raises the clock pin.                      *)
(***************************************************************************)
EXTENDS ShadowCheck

CONSTANTS
    Scenes,      \* what to start from and what the memory sends, by name
    MaxInsts     \* bound on the number of instructions fetched

ASSUME LockstepAssumption ==
    /\ \A f \in DOMAIN Scenes :
        /\ Scenes[f].opcodes \subseteq Word
        /\ Scenes[f].data \subseteq Word
        /\ Scenes[f].regfiles \subseteq [0 .. 7 -> Word]
        /\ Scenes[f].flags \subseteq Flags
    /\ MaxInsts \in Nat

VARIABLES
    scene,    \* the scene of this run
    insts,    \* instructions fetched so far
    mq        \* the word on the MQ bus during the current cycle

lockVars == <<shadowVars, de0Vars, scene, insts, mq>>

(* Opcodes come in FETCH2, other words in the other data cycles. *)
MqOf(s) == CASE s = "FETCH2" -> Scenes[scene].opcodes
             [] s \in DataStates -> Scenes[scene].data
             [] OTHER -> {65535}    \* G_DENA forces the MQ bus to all ones

(* Registers can hold anything once a program has loaded them; raspictl
   -randmem loads R0 to R6 before anything else. *)
LockInit ==
    /\ state = "FETCH1" /\ q = {"FETCH1"}
    /\ scene \in DOMAIN Scenes
    /\ regs \in Scenes[scene].regfiles /\ rq = regs
    /\ ieff \in BOOLEAN /\ nzvc \in Scenes[scene].flags
    /\ psw = PswOf(ieff, nzvc)
    /\ ir = 0 /\ irlat = 0
    /\ alu = regs[7]
    /\ newpsw = 0
    /\ fatal = FALSE
    /\ insts = 0
    /\ mq \in MqOf(state)

LockNext ==
    /\ state = "FETCH1" => insts < MaxInsts
    /\ ~fatal
    /\ \E irq \in BOOLEAN : Clock(mq, irq) /\ De0Clock(mq, irq)
    /\ insts' = insts + Num(state = "FETCH1")
    /\ mq' \in MqOf(state')
    /\ UNCHANGED scene

LockSpec == LockInit /\ [][LockNext]_lockVars
-----------------------------------------------------------------------------
(* Shadow::check finds nothing wrong with the processor of the FPGA at the end
   of any cycle: the pins it looks at (driver/shadow.cc:60-358) are what the
   wiring of de0/*.v drives, whatever the instructions, data and interrupts. *)
CheckPasses ==
    ~fatal => ChecksG(mq) /\ ChecksConnectors(mq)

(* The registers agree too, so that a difference cannot hide where the pins
   do not show it: the model's state, registers and status word are those of
   the flip-flops (driver/shadow.cc:387-546 against de0/seq.v, gprs.v, psw.v). *)
Agrees == ~fatal => SameState
=============================================================================
