-------------------------------- MODULE Isa --------------------------------
(***************************************************************************)
(* The computer as its programmer sees it: each step is a whole            *)
(* instruction or a whole interrupt entry.  Nothing here has cycles, pins  *)
(* or a clock; the effect of each instruction is the net effect the        *)
(* processor model of driver/shadow.cc gives it.                           *)
(***************************************************************************)
EXTENDS HodeWords

CONSTANT Programs     \* memory as it may be loaded: even addresses to words

VARIABLES
    regs,    \* R0 .. R7; R7 points to the next instruction
    psw,
    mem,     \* memory by words, zero where it was never written
    entering \* an interrupt will be entered before the next instruction

isaVars == <<regs, psw, mem, entering>>

S == INSTANCE Shadow WITH state <- "FETCH1", ir <- 0, alu <- 0, newpsw <- 0, fatal <- FALSE

IoPort == 65520    \* the word through which programs call the host
IoErr  == 65522    \* the word where the host may leave an error number

(* Where an interrupt entry keeps the program counter and the status word. *)
SavedPc  == 65532
SavedPsw == 65534

(* LET-free views of memory: the word and the byte at an address. *)
WordOf(a) == IF a \in DOMAIN mem THEN mem[a] ELSE 0
ByteOf(a) == IF a % 2 = 0 THEN WordOf(a) % 256 ELSE WordOf(a - 1) \div 256
Stored(a, w) == [b \in DOMAIN mem \union {a} |-> IF b = a THEN w ELSE mem[b]]

Next_pc == AddW(regs[7], 2)

(* What the program counter points to.  The word at IoPort is the host's. *)
Opcodes == IF regs[7] - (regs[7] % 2) = IoPort THEN Word ELSE {WordOf(regs[7])}

(* Registers as the operands of the instruction see them, PC already past it. *)
R == [regs EXCEPT ![7] = Next_pc]
Put(d, w) == regs' = [R EXCEPT ![d] = w]
Advance   == regs' = R
Address(op) == AddW(R[S!RegA(op)], S!LsOffset(op))
Even(a) == a - (a % 2)

Branch(op) ==
    /\ S!Decode(op) = "BCC1"
    /\ IF S!BranchTrue(op, psw)
       THEN Put(7, AddW(Next_pc, S!BrOffset(op))) ELSE Advance
    /\ UNCHANGED <<psw, mem>>

Arithmetic(op) ==
    /\ S!Decode(op) = "ARITH1" /\ ~S!BadAlu(op)
    /\ LET x == S!Arith(op, R[S!RegA(op)], R[S!RegB(op)], psw) IN
       /\ IF S!RegD(op) = 7 THEN Advance ELSE Put(S!RegD(op), x.res)
       /\ psw' = S!LoadPsw(x.psw)
    /\ UNCHANGED mem

LoadAddress(op) ==
    /\ S!Decode(op) = "LDA1"
    /\ Put(S!RegD(op), Address(op))
    /\ UNCHANGED <<psw, mem>>

(* A store to the I/O port is a call of the host, which may set an error number. *)
HostCall ==
    \/ mem' = mem
    \/ mem'[IoErr] \in Word /\ mem' = Stored(IoErr, mem'[IoErr])

StoreWord(a, w) == mem' = Stored(a, w)
StoreByte(a, w) ==
    mem' = Stored(Even(a), IF a % 2 = 0 THEN (WordOf(a) \div 256) * 256 + (w % 256)
                           ELSE (WordOf(a - 1) % 256) + 256 * (w % 256))

Store(op) ==
    /\ S!Decode(op) = "STORE1"
    /\ LET a == Address(op)
           w == R[S!RegD(op)]
       IN  \/ Even(a) = IoPort /\ HostCall
           \/ Even(a) # IoPort /\ ~S!ByteAccess(op) /\ StoreWord(a, w)
           \/ Even(a) # IoPort /\ S!ByteAccess(op) /\ StoreByte(a, w)
    /\ Advance
    /\ UNCHANGED psw

(* A load through the PC with a zero offset takes the word after the
   instruction and skips it, unless it loads the PC itself. *)
Load(op) ==
    /\ S!Decode(op) = "LOAD1"
    /\ LET a == Address(op)
           d == S!RegD(op)
           w == IF S!ByteAccess(op) THEN ByteOf(a) ELSE WordOf(a)
       IN  regs' = [R EXCEPT ![7] = IF S!LoadImmediate(op) THEN AddW(@, 2) ELSE @,
                             ![d] = IF Even(a) = IoPort THEN regs'[d]
                                    ELSE S!LoadedWord(op, w)]
    /\ UNCHANGED <<psw, mem>>

WritePsw(op) ==
    /\ S!Decode(op) = "WRPS1"
    /\ Advance
    /\ psw' = S!LoadPsw(R[S!RegB(op)])
    /\ UNCHANGED mem

ReadPsw(op) ==
    /\ S!Decode(op) = "RDPS1"
    /\ Put(S!RegD(op), psw)
    /\ UNCHANGED <<psw, mem>>

Halt(op) ==
    /\ S!Decode(op) = "HALT1"
    /\ Advance
    /\ UNCHANGED <<psw, mem>>

(* Return from interrupt: the PC from FFFC, the status word from FFFE. *)
Iret(op) ==
    /\ S!Decode(op) = "IRET1"
    /\ regs' = [regs EXCEPT ![7] = WordOf(SavedPc)]
    /\ psw' = S!LoadPsw(WordOf(SavedPsw))
    /\ UNCHANGED mem

(* After an instruction an interrupt may be entered if interrupts were enabled
   before it; the instruction that enables them, and IRET, let one more
   instruction go by. *)
Instruction ==
    /\ ~entering
    /\ \E op \in Opcodes :
          \/ Branch(op) \/ Arithmetic(op) \/ LoadAddress(op) \/ Store(op) \/ Load(op)
          \/ WritePsw(op) \/ ReadPsw(op) \/ Halt(op) \/ Iret(op)
    /\ entering' \in BOOLEAN
    /\ entering' => S!IrqEnabled(psw)

(* Interrupt entry saves the status word at FFFE and the PC at FFFC, disables
   interrupts and goes to 0002, all at once. *)
Interrupt ==
    /\ entering
    /\ mem' = [a \in DOMAIN mem \union {SavedPc, SavedPsw} |->
                 CASE a = SavedPsw -> psw
                   [] a = SavedPc -> regs[7]
                   [] OTHER -> mem[a]]
    /\ psw' = psw % 32768
    /\ regs' = [regs EXCEPT ![7] = 2]
    /\ entering' = FALSE

Init ==
    /\ regs \in [0 .. 7 -> Word] /\ regs[7] = 0
    /\ psw = 32752
    /\ mem \in Programs
    /\ entering = FALSE

Next == Instruction \/ Interrupt

Spec == Init /\ [][Next]_isaVars
=============================================================================
