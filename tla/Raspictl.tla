------------------------------ MODULE Raspictl ------------------------------
(***************************************************************************)
(* The program that clocks the processor (driver/raspictl.cc): its main    *)
(* loop raises and drops the clock through the GPIO pins, answers the      *)
(* processor's reads and writes from the memory it holds, runs the         *)
(* shadow model beside it and drives the interrupt line.  The processor at *)
(* the other end of the pins is De0, seen through the inverting pins of    *)
(* de0/de0.v.  The line clock thread appears by what it may do to the      *)
(* variables it shares with the main thread.                               *)
(*                                                                         *)
(* pc is where the main thread stands between two half cycles:             *)
(*   "top"      at the head of the loop, clock low                         *)
(*   "process"  after raising the clock, about to look at the sample       *)
(*   "send"     in senddata, clock low, data going to the processor        *)
(*   "recv"     in recvdata, clock low, data coming from the processor     *)
(*   "bottom"   after the transfer, about to drop the clock                *)
(*   "stopped"  exit () or abort () has been called                        *)
(***************************************************************************)
EXTENDS ShadowCheck, FiniteSets

CONSTANTS
    Runs,          \* command lines: options and memory as it is loaded,
                   \* even addresses to words
    PowerOn,       \* register contents the processor may power up with
    RandOpcodes,   \* what randopcode () returns: no undefined opcode
    RandData,      \* what randuint16 () returns
    MaxReads       \* bound on the reads a -randmem run serves

(* An opcode the shadow model takes. *)
Defined(i) == Decode(i) # "bad" /\ ~(Decode(i) = "ARITH1" /\ BadAlu(i))

ASSUME RaspictlAssumption ==
    /\ \A r \in Runs :
        /\ r.options \subseteq {"-randmem", "-haltstop"}
        /\ \A a \in DOMAIN r.load : a \in Word /\ a % 2 = 0 /\ r.load[a] \in Word
    /\ PowerOn \subseteq [0 .. 7 -> Word]
    /\ RandOpcodes \subseteq {o \in Word : Defined(o)}
    /\ RandData \subseteq Word
    /\ MaxReads \in Nat

VARIABLES
    options,           \* the options on the command line
    pc, sample,        \* the main thread and the pins it last sampled
    pins,              \* what writegpio last put on the pins
    memory,            \* the bytes of memory, as words, where not zero from the start
    intreqreg,         \* the IRQ_xxx bits that are set
    syncintreq,        \* what the main thread puts on the G_IRQ pin
    lineclockrun,      \* the line clock thread exists
    lineclockset,      \* lineclockabs.tv_sec is not zero
    mr_syscall_rc, readonlysize, stacklimit,
    randinit, reads    \* randinit of main, and the reads served so far

hostVars == <<memory, intreqreg, lineclockrun, lineclockset, mr_syscall_rc,
              readonlysize, stacklimit, randinit, reads>>
vars == <<shadowVars, de0Vars, options, pc, sample, pins, syncintreq, hostVars>>

RandMem  == "-randmem" \in options
HaltStop == "-haltstop" \in options

MAGIC == 65520
ERRNO == 65522
-----------------------------------------------------------------------------
(* The pins.  wdata is true while the host drives the data pins: G__QENA then
   lets them through to MQ, otherwise G_DENA lets MD through to them and MQ is
   all ones. *)
MQ(p) == IF p.wdata THEN p.data ELSE 65535

readgpio ==
    LET m == MQ(pins) IN
    [ clk   |-> pins.clk,
      irq   |-> pins.irq,
      data  |-> IF pins.wdata THEN pins.data ELSE MD(m),
      word  |-> MEM_WORD(IR(m)),
      halt  |-> Ctl("HALT"),
      read  |-> Ctl("MEM_READ"),
      write |-> Ctl("MEM_WRITE") ]

(* One writegpio: raising the clock pin clocks the processor.  The other pins
   change at the same instant, so the edge may still see the old levels. *)
writegpio(wdata, clk, data) ==
    /\ pins' = [wdata |-> wdata, clk |-> clk, irq |-> syncintreq',
                data |-> IF wdata THEN data ELSE 0]
    /\ IF clk /\ ~pins.clk
       THEN \E m \in {MQ(pins), MQ(pins')}, i \in {pins.irq, pins'.irq} : De0Clock(m, i)
       ELSE UNCHANGED de0Vars

(* Shadow::check without the connectors only -chkacid reads. *)
check(s) ==
    /\ ~s.clk
    /\ s.halt = HaltExpected
    /\ s.read = ReadExpected
    /\ s.write = WriteExpected
    /\ WordChecked => s.word = WordExpected
    /\ DataChecked => s.data = AluExpected(s.data)

Stop == pc' = "stopped"

(* shadowcheck () lets the cycle pass and the clock is raised. *)
CheckAndRaise(s, wdata, data) ==
    /\ check(s)
    /\ Clock(s.data, s.irq)
    /\ ~fatal'
    /\ writegpio(wdata, TRUE, data)

(* shadowcheck () aborts: the pins are wrong or the model refuses the opcode. *)
CheckAborts(s) ==
    /\ IF check(s) THEN Clock(s.data, s.irq) ELSE UNCHANGED shadowVars
    /\ check(s) => fatal'
    /\ Stop
-----------------------------------------------------------------------------
(* The memory.  A word lies little end first at an even address. *)
WordAt(a) == IF a \in DOMAIN memory THEN memory[a] ELSE 0
ByteAt(a) == IF a % 2 = 0 THEN WordAt(a) % 256 ELSE WordAt(a - 1) \div 256

SetWord(m, a, w) == [b \in DOMAIN m \union {a} |-> IF b = a THEN w ELSE m[b]]
SetByte(m, a, b) ==
    IF a % 2 = 0 THEN SetWord(m, a, (WordAt(a) \div 256) * 256 + b)
    ELSE SetWord(m, a - 1, 256 * b + (WordAt(a - 1) % 256))

readmemword(a) == IF a + 2 > MAGIC THEN 0 ELSE WordAt(a)

IsMagic(addr) == addr \div 2 = MAGIC \div 2

(* What memory answers to a read that sample s asks for.  randinit has been
   counted down already.  Mutant: opcodes and data change places. *)
RandAnswer_shifted(left) ==
    IF randinit > 0 /\ left % 2 = 0
    THEN {49152 + 128 * (left \div 2) + 7 * 1024}
    ELSE IF state = "FETCH2" THEN RandOpcodes ELSE RandData
RandAnswer(left) ==
    IF randinit > 0 /\ left % 2 = 1
    THEN {49152 + 128 * ((left - 1) \div 2) + 7 * 1024}   \* LDW r,#imm
    ELSE IF state = "FETCH2" THEN RandOpcodes ELSE RandData

(* Mutant: a byte is always taken from the low half of its word. *)
MemoryAnswer_low(s) ==
    IF IsMagic(s.data) THEN mr_syscall_rc
    ELSE IF s.word THEN WordAt(s.data) ELSE WordAt(s.data - (s.data % 2)) % 256
MemoryAnswer(s) ==
    IF IsMagic(s.data) THEN mr_syscall_rc
    ELSE IF s.word THEN WordAt(s.data) ELSE ByteAt(s.data)
-----------------------------------------------------------------------------
(* What the main thread and lineclockthread do to the interrupt requests while they
   hold intreqlock.  SCN_INTREQ sets or clears a request, SCN_IRQATNS takes a time,
   or zero to stop; seconds says that the time comes to at least one.  The thread
   posts its request and is back at the head of its loop, which it leaves when
   lineclockabs is zero. *)
SetRequest(on) ==
    /\ intreqreg' = IF on THEN intreqreg \union {"SCNINTREQ"} ELSE intreqreg \ {"SCNINTREQ"}
    /\ UNCHANGED <<lineclockrun, lineclockset>>
SetTime(given, seconds) ==
    /\ intreqreg' = intreqreg \ {"LINECLOCK"}
    /\ lineclockset' = seconds
    /\ lineclockrun' = (lineclockrun \/ given)
PostRequest ==
    /\ lineclockrun
    /\ "LINECLOCK" \notin intreqreg
    /\ intreqreg' = intreqreg \union {"LINECLOCK"}
    /\ lineclockrun' = lineclockset
    /\ UNCHANGED lineclockset
ThreadEnds ==
    /\ lineclockrun /\ ~lineclockset
    /\ lineclockrun' = FALSE
    /\ UNCHANGED <<intreqreg, lineclockset>>
-----------------------------------------------------------------------------
(* mw_syscall: the calls that touch the interrupt logic, the guards and the
   end of the program.  data points to the parameter block. *)
SyscallFail ==
    /\ mr_syscall_rc' = 65535
    /\ memory' = SetWord(memory, ERRNO, 65536 - 38)    \* - ENOSYS
    /\ pc' = "bottom"
    /\ UNCHANGED <<intreqreg, lineclockrun, lineclockset, readonlysize, stacklimit>>

IrqMask == LET bit == [SCNINTREQ |-> 1, LINECLOCK |-> 2, RANDMEM |-> 4]
               on(b) == Num(b \in intreqreg) * bit[b]
           IN  on("SCNINTREQ") + on("LINECLOCK") + on("RANDMEM")

(* readmemquad of the time at a, in nanoseconds, is not zero; it comes to at
   least a second, 15258 * 65536 + 51712 of them. *)
PairAt(a) == ByteAt(a) + 256 * ByteAt(a + 1)    \* a may be odd here
TimeGiven(a) == a # 0 /\ \E k \in 0 .. 3 : PairAt(a + 2 * k) # 0
TimeHasSeconds(a) ==
    /\ a # 0
    /\ \/ PairAt(a + 4) # 0 \/ PairAt(a + 6) # 0 \/ PairAt(a + 2) > 15258
       \/ PairAt(a + 2) = 15258 /\ PairAt(a) >= 51712

ScnExit == Stop /\ UNCHANGED <<memory, intreqreg, lineclockrun, lineclockset,
                              readonlysize, stacklimit, mr_syscall_rc>>
ScnIntReq(code) ==
    /\ SetRequest(code # 0)
    /\ pc' = "bottom"
    /\ UNCHANGED <<memory, readonlysize, stacklimit, mr_syscall_rc>>
ScnIrqAtNs(irqataddr) ==
    /\ SetTime(TimeGiven(irqataddr), TimeHasSeconds(irqataddr))
    /\ mr_syscall_rc' = 0
    /\ pc' = "bottom"
    /\ UNCHANGED <<memory, readonlysize, stacklimit>>
ScnIntAck ==
    /\ mr_syscall_rc' = IrqMask
    /\ pc' = "bottom"
    /\ UNCHANGED <<memory, intreqreg, lineclockrun, lineclockset, readonlysize, stacklimit>>
ScnSetRoSize(size) ==
    /\ readonlysize' = size
    /\ mr_syscall_rc' = 0
    /\ pc' = "bottom"
    /\ UNCHANGED <<memory, intreqreg, lineclockrun, lineclockset, stacklimit>>
ScnSetStkLim(limit) ==
    /\ stacklimit' = limit
    /\ mr_syscall_rc' = 0
    /\ pc' = "bottom"
    /\ UNCHANGED <<memory, intreqreg, lineclockrun, lineclockset, readonlysize>>

(* getmemptr aborts when the time reaches past the magic page; readmemword gives
   zero there. *)
Readable(a, size) == a + size <= MAGIC
Syscall(data) ==
    LET scn == readmemword(data)
        arg == readmemword(data + 2)
        astray == scn = 8 /\ arg # 0 /\ ~Readable(arg, 8)
    IN
    \/ data % 2 = 1 /\ SyscallFail
    \/ data % 2 = 0 /\ (scn = 0 \/ astray) /\ ScnExit      \* abort ends it too
    \/ /\ data % 2 = 0 /\ ~astray
       /\ \/ scn = 2 /\ ScnIntReq(arg)
          \/ scn = 8 /\ ScnIrqAtNs(arg)
          \/ scn = 9 /\ ScnIntAck
          \/ scn = 25 /\ ScnSetRoSize(arg)
          \/ scn = 26 /\ ScnSetStkLim(arg)
          \/ scn > 32 /\ SyscallFail       \* no such call
-----------------------------------------------------------------------------
(* The main loop.  Raising the clock for FETCH2 the host drives the data pins
   with the old instruction, to keep the lights steady.  Mutant: a HALT waits
   for SCN_INTREQ alone. *)
Idle_deaf == ~RandMem /\ "SCNINTREQ" \notin intreqreg
Idle      == ~RandMem /\ intreqreg = {}
Waits(s)  == s.halt /\ Idle

Top ==
    /\ pc = "top"
    /\ LET s == readgpio IN
       /\ ~(s.halt /\ HaltStop)
       /\ ~Waits(s)
       /\ sample' = s
       /\ syncintreq' = syncintreq
       /\ CheckAndRaise(s, state' = "FETCH2", ir)
    /\ pc' = "process"
    /\ UNCHANGED hostVars

HaltExit ==
    /\ pc = "top"
    /\ readgpio.halt /\ HaltStop
    /\ Stop
    /\ UNCHANGED <<shadowVars, de0Vars, sample, pins, syncintreq, hostVars>>

OddWord(s) == s.word /\ s.data % 2 = 1 /\ ~RandMem

(* senddata: drop the clock with the answer on the data pins ... *)
CountDown(n) == IF n > 0 THEN n - 1 ELSE 0

SendAnswer ==
    /\ pc = "process"
    /\ sample.read /\ ~OddWord(sample)
    /\ RandMem => reads < MaxReads
    /\ reads' = IF RandMem THEN reads + 1 ELSE reads
    /\ randinit' = CountDown(randinit)
    /\ syncintreq' = syncintreq
    /\ \E data \in IF RandMem THEN RandAnswer(randinit') ELSE {MemoryAnswer(sample)} :
            writegpio(TRUE, FALSE, data)
    /\ pc' = "send"
    /\ UNCHANGED <<shadowVars, sample, memory, intreqreg, lineclockrun, lineclockset,
                   mr_syscall_rc, readonlysize, stacklimit>>

(* ... half a cycle later raise it again, holding the data. *)
Send ==
    /\ pc = "send"
    /\ syncintreq' = syncintreq
    /\ CheckAndRaise(readgpio, TRUE, pins.data)
    /\ pc' = "bottom"
    /\ UNCHANGED <<sample, hostVars>>

(* recvdata: drop the clock and let the processor drive the data pins ...
   Mutant: the host goes on driving them. *)
TurnRound_late == writegpio(TRUE, FALSE, 0)
TurnRound      == writegpio(FALSE, FALSE, 0)

AwaitData ==
    /\ pc = "process"
    /\ sample.write /\ ~sample.read /\ ~OddWord(sample)
    /\ syncintreq' = syncintreq
    /\ TurnRound
    /\ pc' = "recv"
    /\ UNCHANGED <<shadowVars, sample, hostVars>>

(* ... half a cycle later take them, raise the clock and do the write.  Mutants:
   only the first byte is written; the guard looks at the second byte. *)
WriteMemory_oneByte(addr, data) ==
    /\ memory' = SetByte(memory, addr, data % 256)
    /\ pc' = "bottom"
    /\ UNCHANGED <<intreqreg, lineclockrun, lineclockset, mr_syscall_rc,
                   readonlysize, stacklimit, randinit, reads>>
WriteMemory_lateGuard(addr, data) ==
    IF addr + 1 < readonlysize
    THEN Stop /\ UNCHANGED hostVars
    ELSE /\ memory' = IF sample.word THEN SetWord(memory, addr, data)
                      ELSE SetByte(memory, addr, data % 256)
         /\ pc' = "bottom"
         /\ UNCHANGED <<intreqreg, lineclockrun, lineclockset, mr_syscall_rc,
                        readonlysize, stacklimit, randinit, reads>>
WriteMemory(addr, data) ==
    IF addr < readonlysize
    THEN Stop /\ UNCHANGED hostVars
    ELSE /\ memory' = IF sample.word THEN SetWord(memory, addr, data)
                      ELSE SetByte(memory, addr, data % 256)
         /\ pc' = "bottom"
         /\ UNCHANGED <<intreqreg, lineclockrun, lineclockset, mr_syscall_rc,
                        readonlysize, stacklimit, randinit, reads>>

Recv ==
    /\ pc = "recv"
    /\ syncintreq' = syncintreq
    /\ LET s == readgpio IN
       /\ CheckAndRaise(s, FALSE, 0)
       /\ IF RandMem
          THEN /\ intreqreg' \in {{}, {"RANDMEM"}}
               /\ pc' = "bottom"
               /\ UNCHANGED <<memory, lineclockrun, lineclockset, mr_syscall_rc,
                              readonlysize, stacklimit, randinit, reads>>
          ELSE IF IsMagic(sample.data)
          THEN Syscall(s.data) /\ UNCHANGED <<randinit, reads>>
          ELSE WriteMemory(sample.data, s.data)
    /\ UNCHANGED sample

OddWordAbort ==
    /\ pc = "process"
    /\ sample.read \/ sample.write
    /\ OddWord(sample)
    /\ Stop
    /\ UNCHANGED <<shadowVars, de0Vars, sample, pins, syncintreq, hostVars>>

(* Drop the clock, with the interrupt line as intreqreg has it now.  Mutant:
   the line is never brought up to date. *)
IrqLevel_stale == syncintreq
IrqLevel == intreqreg # {}
StackLow == regs[6] < stacklimit

Bottom ==
    /\ pc = "bottom" \/ (pc = "process" /\ ~sample.read /\ ~sample.write)
    /\ ~StackLow
    /\ syncintreq' = IrqLevel
    /\ writegpio(FALSE, FALSE, 0)
    /\ pc' = "top"
    /\ UNCHANGED <<shadowVars, sample, hostVars>>

StackAbort ==
    /\ pc = "bottom" \/ (pc = "process" /\ ~sample.read /\ ~sample.write)
    /\ StackLow
    /\ Stop
    /\ UNCHANGED <<shadowVars, de0Vars, sample, pins, syncintreq, hostVars>>

ShadowAbort ==
    /\ pc \in {"top", "send", "recv"}
    /\ pc = "top" => ~Waits(readgpio) /\ ~(readgpio.halt /\ HaltStop)
    /\ CheckAborts(readgpio)
    /\ UNCHANGED <<de0Vars, sample, pins, syncintreq, hostVars>>

Main == \/ Top \/ HaltExit \/ SendAnswer \/ Send \/ AwaitData \/ Recv
        \/ OddWordAbort \/ Bottom \/ StackAbort \/ ShadowAbort
-----------------------------------------------------------------------------
(* What lineclockthread may do between two steps of the main thread: post its
   interrupt request, or end. *)
others == <<shadowVars, de0Vars, pc, sample, pins, syncintreq, memory, mr_syscall_rc,
            readonlysize, stacklimit, randinit, reads>>

LineClockPost == PostRequest /\ pc # "stopped" /\ UNCHANGED others
LineClockEnd  == ThreadEnds /\ pc # "stopped" /\ UNCHANGED others

(* The countdown of the register loads of -randmem. *)
RandLoads == 14

(* main () up to its loop: the processor is held in reset for three half cycles
   and released with the clock low; its registers hold what they powered up
   with. *)
Init ==
    /\ ShadowInit
    /\ q = {"RESET0"}
    /\ rq \in PowerOn
    /\ irlat = 0
    /\ ieff = FALSE
    /\ nzvc = [n |-> FALSE, z |-> FALSE, v |-> FALSE, c |-> FALSE]
    /\ pc = "top"
    /\ sample = [clk |-> FALSE, irq |-> FALSE, data |-> 0, word |-> TRUE,
                 halt |-> FALSE, read |-> FALSE, write |-> FALSE]
    /\ pins = [wdata |-> FALSE, clk |-> FALSE, irq |-> FALSE, data |-> 0]
    /\ syncintreq = FALSE
    /\ \E r \in Runs : options = r.options /\ memory = r.load
    /\ intreqreg = {}
    /\ lineclockrun = FALSE
    /\ lineclockset = FALSE
    /\ mr_syscall_rc = 0
    /\ readonlysize = 0
    /\ stacklimit = 0
    /\ randinit = IF RandMem THEN RandLoads ELSE 0
    /\ reads = 0

Next ==
    /\ Main \/ LineClockPost \/ LineClockEnd
    /\ UNCHANGED options

Spec == Init /\ [][Next]_vars
-----------------------------------------------------------------------------
TypeOK ==
    /\ ShadowTypeOK
    /\ De0TypeOK
    /\ pc \in {"top", "process", "send", "recv", "bottom", "stopped"}
    /\ sample \in [clk : BOOLEAN, irq : BOOLEAN, data : Word, word : BOOLEAN,
                   halt : BOOLEAN, read : BOOLEAN, write : BOOLEAN]
    /\ pins \in [wdata : BOOLEAN, clk : BOOLEAN, irq : BOOLEAN, data : Word]
    /\ \A a \in DOMAIN memory : a \in Word /\ a % 2 = 0 /\ memory[a] \in Word
    /\ intreqreg \subseteq {"SCNINTREQ", "LINECLOCK", "RANDMEM"}
    /\ <<syncintreq, lineclockrun, lineclockset>> \in BOOLEAN \X BOOLEAN \X BOOLEAN
    /\ <<mr_syscall_rc, readonlysize, stacklimit>> \in Word \X Word \X Word
    /\ randinit \in 0 .. RandLoads
    /\ reads \in 0 .. MaxReads

(* The host stays in step with the processor's sequencer: it only sends in the
   cycles where the processor takes data, only receives in the cycles where it
   gives data, and stands at the head of its loop in every other cycle, with
   the clock low and the data pins turned round (driver/raspictl.cc:340-342,
   1051-1101). *)
GiveStates == {"STORE2", "IREQ2", "IREQ4"}
HostInStep ==
    /\ pc = "top"  => /\ state \notin DataStates \union GiveStates
                      /\ q = {state} /\ ~pins.clk /\ ~pins.wdata
    /\ pc = "send" => state \in DataStates /\ q = {state} /\ ~pins.clk /\ pins.wdata
    /\ pc = "recv" => state \in GiveStates /\ q = {state} /\ ~pins.clk /\ ~pins.wdata
    /\ ~(sample.read /\ sample.write)

(* Setup and hold: a step that raises the clock leaves the interrupt line as
   the processor saw it in the half cycle before, and in a cycle that takes
   data it leaves the data too (driver/raspictl.cc:1060-1066, 1075-1081). *)
SetupHold ==
    [][~pins.clk /\ pins'.clk =>
        /\ pins'.irq = pins.irq
        /\ AnyOf(DataStates) => pins.wdata /\ MQ(pins') = MQ(pins)]_vars

(* A -randmem run never aborts, whatever the registers powered up with: the
   opcodes it sends are defined ones, and the shadow model, which starts with
   zeroes, is not consulted about a register before a load has made the two
   agree (driver/raspictl.cc:394-408, 473-514).  With -haltstop as well it ends
   at a HALT. *)
RandMemNeverAborts == RandMem /\ ~HaltStop => pc # "stopped"

(* When the counted loads of -randmem are done, the shadow model has the
   register contents of the processor, and keeps them. *)
AgreeOnceLoaded ==
    pc = "top" /\ state \notin {"RESET0", "RESET1"} =>
        /\ q = {state}
        /\ rq[7] = regs[7]
        /\ PswOf(ieff, nzvc) = psw
        /\ (RandMem /\ randinit = 0) => SameState

(* A run of -randmem never ends with a complaint, and once all registers are
   loaded board and model hold the same. *)
RandMemSound == RandMemNeverAborts /\ AgreeOnceLoaded

(* What SETROSIZE protects no store changes any more, whichever byte of a word
   it goes to and whether it is the program or an interrupt entry that stores
   (driver/raspictl.cc:430-434, 863-866).  The one exception is errno: save_errno
   stores it without a look at readonlysize (driver/raspictl.cc:975-978). *)
ReadOnlyIntact ==
    [][\A a \in (0 .. readonlysize - 1) \ {ERRNO, ERRNO + 1} :
            ByteAt(a)' = ByteAt(a)]_vars

(* A program whose stack pointer is below the limit of SETSTKLIM gets no
   further: it neither fetches another instruction nor stores anything
   (driver/raspictl.cc:444-448). *)
StackGuard ==
    [][regs[6] < stacklimit => memory' = memory /\ state' # "FETCH2"]_vars

(* The host keeps in step with the sequencer. *)
InStep == TypeOK /\ HostInStep

(* Protected memory keeps its contents, and a program whose stack pointer is below
   the limit gets no further. *)
Guarded == ReadOnlyIntact /\ StackGuard

(* Shadow::readgpio, from which NohwLib answers.  Mutant: IRET3 does not ask
   for the status word. *)
ReadsInNohw_short == {"LOAD1", "FETCH1", "IRET1"}
ReadsInNohw == {"LOAD1", "FETCH1", "IRET1", "IRET3"}
ShadowDrives ==
    [ halt  |-> state = "HALT1",
      read  |-> state \in ReadsInNohw,
      write |-> state \in {"STORE1", "IREQ1", "IREQ3"},
      word  |-> \/ state \in {"IREQ1", "IREQ3", "FETCH1", "IRET1", "IRET3"}
                \/ state \in {"STORE1", "LOAD1"} /\ ~IsSet(ir, 13),
      data  |-> alu ]

(* NohwLib answers readgpio from the model alone (driver/nohwlib.cc:39-47,
   driver/shadow.cc:817-870).  What it answers is what the processor drives,
   on every pin the main loop goes by. *)
NohwSame ==
    pc \in {"top", "send", "recv"} =>
        LET s == readgpio IN
        /\ s.halt = ShadowDrives.halt
        /\ s.read = ShadowDrives.read
        /\ s.write = ShadowDrives.write
        /\ s.read \/ s.write => s.word = ShadowDrives.word
        /\ s.read \/ s.write \/ pc = "recv" => s.data = ShadowDrives.data
=============================================================================
