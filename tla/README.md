# Verification of the hode computer

hode is a 16-bit computer built from discrete transistors, with the software
around it: a Raspberry Pi program that clocks it and plays its memory and
peripherals, a software model that checks it cycle by cycle, an FPGA version of
the same processor, a netlist compiler and board simulator, test programs for
the boards, an assembler, linker, C compiler and C run-time library.  The
specifications here cover the processor, the programs that clock, simulate and
test it, the run-time library, the way of a C function through the compiler
from its parsed form to hardware registers, and the way of assembler sources
through assembler and linker to memory.  Paths are relative to `src/`.

1. [The system](#1-the-system)
2. [The modules](#2-the-modules)
3. [The runs](#3-the-runs)
4. [What the runs found](#4-what-the-runs-found)
5. [The proofs](#5-the-proofs)
6. [Not modelled, and what is left](#6-not-modelled-and-what-is-left)

## 1. The system

| Component | State it keeps | Operations | What makes it correct |
|---|---|---|---|
| FPGA sequencer, `de0/seq.v` | 24 flip-flops, one per processor state | rising clock edge, reset | exactly one flip-flop is set; the control outputs are those the software model expects |
| FPGA data path, `de0/{gprs,psw,alu,bmux,memrd,sys,de0}.v` | R0..R7, IE and NZVC, instruction latch, the bus direction at the pins | rising clock edge, asynchronous clearing of IE | same results as the software model, on every operand |
| Shadow model, `driver/shadow.cc` | state, registers, psw, ir, alu | `clock` (one cycle), `check` (compare the pins), `readgpio` (stand in for the processor) | agrees with the hardware; never aborts on good hardware |
| raspictl main loop, `driver/raspictl.cc:338-456` | memory, last sample, the interrupt level it drives, the write guard and stack limit, the countdown of `-randmem` | one cycle of the loop; `senddata`, `recvdata` | stays in step with the processor, keeps setup and hold, executes the instruction set |
| System calls, `mw_syscall`, `driver/raspictl.cc:539-970` | return code, errno, open files, saved terminal modes, the guards | 33 calls | a call touches only the caller's buffers; the terminal is given back |
| Line clock, `lineclockthread`, `driver/raspictl.cc:1018-1049` | `lineclockabs`, `lineclockrun`, `intreqreg` (shared, under `intreqlock`) | set a time, stop, time out, post, wait at HALT | one thread at most, no lost wakeup, a time that comes is served |
| GPIO back ends, `driver/{physlib,pipelib,nohwlib,gpiolib}.cc` | pin levels, masks and directions; a pipe to the simulator and a cache of what it said | `readgpio`, `writegpio`, `halfcycle`, `examine` | what is written is on the pins before the next edge; a cached pin is current; replies match requests |
| Board simulator, `netgen/{RasPiModule,Shadow}.java` | clock phase, memory, saved bus, interrupt request, its own model of the processor | `stepSimulator` | stops boards that are right only for the interrupt after an IRET; executes the instruction set |
| Bench tester, `driver/raseqtest.cc` | expected state, known registers, paddle forces | one clock cycle of a random test | good boards get no error message, whatever stack of boards is plugged in |
| Heap, `crtl/library/malloc.c` | block headers, free list, end of the heap | malloc, calloc, realloc, free | the heap stays a partition; regions do not overlap |
| Streams, `crtl/library/fdfile.c` | read and write buffer, position | put, getc, gets, flush, fill | buffered data arrive in order and complete, though system calls end short or fail |
| Line editor, `crtl/library/readline.c` | the line, its buffer, the cursor, the history | a key; a line begun, returned, saved | what the terminal shows is the line; the buffer is long enough |
| Conversions and sorting, `crtl/library/{qsort,gmtime,strtoul,strtol,vfprintf*,sprintf,asprintf}.c` | none between calls | sort; dates; numbers from and to text | a sorted permutation; the calendar; the text the format asks for, within the buffer |
| Exceptions, `crtl/library/throw.asm` and the code around try | `__trystack`, the marks on the stack | enter, leave, throw, finally | each finally part runs once, the right catch clause gets the exception |
| Arithmetic, `crtl/library/*.asm` | none | multiply, divide, shift, compare, floating point | the results of the operators on numbers |
| Compiler, `cc/` | syntax trees, primitives, machine operations, stack layout, register assignments | type, generate, optimise, assemble, assign registers | generated code computes what the source says |
| Structs, `cc/structtype.cc` | struct types with parents, members, tables of virtual functions | declare a type; code of `__init`, `__term`, calls, initialisers | members do not overlap; a call reaches the function of the object's own type, with its `this` |
| Assembler, archiver, `asm/` | location counters, symbols, emit buffer, conditionals | two passes over the lines of each source file | memory holds what each line says, wherever its psect went |
| Linker, `asm/link.c` | symbol and psect tables, which files are loaded | three passes over the object files, placing psects | loads what is referenced and no more; psects are aligned and do not overlap |
| Netlist compiler and event simulation, `netgen/` | networks, components, event wheel | reduce, place, step the simulation | every change reaches the outputs it drives |
| Boards, `modules/`, `kicads/`, `goodpcbs/`, `freecads/`, `iowarrior/` | none (data) | - | - |
| Single-board testers, disassembler, `driver/{seqtester,alutester,regtester,rastester,disassemble}.cc` | none that outlives a test | - | - |

**Interactions.**  Processor and raspictl share the GPIO pins: raspictl drives
the clock, reset, the interrupt line and (half the time) the 16 data pins, the
processor drives HALT, READ, WRITE, WORD and (the other half) the data pins.
There is no ready signal: the two are in step only because both know which
state follows which.  raspictl calls `Shadow::check` and `Shadow::clock` just
before every rising edge with the pins it has sampled.  A program calls the
host by storing the address of a parameter block at the word FFF0; the result
is read from there.  The main thread and the line clock thread share
`intreqreg`, `lineclockabs` and `lineclockrun` under a mutex with two condition
variables; the main loop reads `intreqreg` without the mutex when it works out
the interrupt level.  With the simulator in place of the boards the same pins
are commands on one pipe and replies on another.  Compiled programs reach the
host through the run-time library, whose routines stand in for the operations
the processor has no instructions for; the compiler and `throw.asm` agree on
the layout of a try mark.

**What is hard.**  Interrupts that arrive at any cycle of any instruction, with
the enable flip-flop loaded and cleared at the same edge.  The turn-round of
the data pins without a handshake.  Pins that follow a write late.  Power-up
with unknown registers.  A time-out that races a new request for the mutex.  A
thread that is ending while another may be wanted.  A simulator that runs
behind the program that reads from it.  System calls that do half of what they
were asked and then fail.  Control that leaves a try block by four ways, one of
them from within its own handlers.  Four descriptions of one processor that must
agree in every bit.  Optimizer passes that enable each other, and registers that
run out.  `PROJECT.json` lists these hazards at their lines with the properties
that cover them.

## 2. The modules

| Module | Models | State and actions |
|---|---|---|
| `HodeWords` | 16-bit words, their bits and fields, wrapping arithmetic, sign extension | operators |
| `Shadow` | `Shadow::reset`, `Shadow::clock` | `state`, `regs`, `psw`, `ir`, `alu`, `newpsw` are the members of the same name; `fatal` stands for the call of `abort`. `Clock(mq, irq)` is one call of `clock`, the end of a state and the beginning of the next |
| `ShadowCheck` | `Shadow::check`, and the wiring of `de0.v` to the connectors it reads | what each state predicts of each connector, which pins are looked at, and what `De0` puts there |
| `De0` | the Verilog modules: the sequencer `seq.v`, and around it registers, status word, ALU, operand and memory multiplexers | `q` is the set of flip-flops of the sequencer that are set; `rq`, `irlat`, `ieff`, `nzvc`. `PosedgeClock`, `PosedgeReset`; `De0Clock(mq, irq)` is one rising edge, every module at once; `Ieclr` is the asynchronous clearing of IE |
| `Lockstep` | the two processors fed the same word and interrupt level at each edge | one action |
| `Raspictl` | the main loop, `senddata`, `recvdata`, memory, the guards, `-randmem`, `-haltstop`, the system calls on interrupts, guards and exit, with `De0` at the other end of the pins | `pc` names the half cycle the main thread is in; one action per half cycle and per way to stop. `writegpio` includes the edge it causes |
| `Isa` | the instruction set as a programmer knows it | `regs`, `psw`, `mem`; one action per kind of instruction and one for a whole interrupt entry |
| `RaspictlHistory` | nothing of its own | two history variables, the properties that need them, fairness, and the refinement of `Isa` by `Raspictl` |
| `Asm` | the encodings of `asm/assemble.c`, and `crtl/library/boot.asm` | operators for the programs of the MC modules |
| `LineClock` | `SCN_IRQATNS`, `SCN_INTREQ`, the wait at HALT, `lineclockthread` | one step per critical section; a thread that a condition variable or the clock has let go takes the mutex in a later step |
| `Syscalls` | the file, terminal, argument, environment calls of `mw_syscall`, `getmemptr`, `exithandler` | `fds`, `tty`, `savedtermioss`, `errno`, `readonlysize`; one action per call, with every outcome the host may give |
| `GpioLibs` | `PhysLib::writegpio`; `driver/pipelib.cc` and the simulator behind its two pipes | one action per register written or read back; `latch` is what the Pi drives, `level` what the pins show, up to `MaxLag` readings late. Queues `toSim`, `toHost`; sends, the simulator's steps, its other output, receiving |
| `GpioPins` | what `Raspictl` takes for granted of one `writegpio` | each pin moves once, at a moment of its own |
| `NetSim` | `RasPiModule.stepSimulator` around `De0`, and `netgen/Shadow.java` where it differs from `Shadow` | the three steps of a clock period; `mqknown` tells which bits of the bus are driven |
| `RaSeqTest` | `driver/raseqtest.cc` and its reference ALU, around `De0` with any register boards missing | one action per state the tester walks through, with paddles that pull buses down |
| `FdFile` | `crtl/library/fdfile.c` | `file` is the struct; a `put` or `gets` that goes round its loop is several steps; each system call may do part or fail |
| `Throw` | `throw.asm` and the code the compiler makes of try, catch, finally, throw | `trystack`, `mark` as in memory, `ctx` the frames on the stack |
| `IntLib` | the integer routines of the run-time library, and the host's calls that replace them | operators for words of `W` bits; one action, a call |
| `FpNative` | `crtl/library/fpnativ.asm` | the same for floating point |
| `ReadLine` | `crtl/library/readline.c` | `edit` is the read that goes on, `history` the saved lines, `screen` the terminal's cells and cursor; one action per key |
| `CLib` | `qsort.c`, `gmtime.c`, `strtoul.c`, `strtol.c`, `vfprintf.c` with `vfprintf_fp.c` and `vfprintf.h`, `sprintf.c`, `asprintf.c` | `sort` has the array and the variables of `partsort` and of those that called it, one action per comparison; `conv` is a call of one of the others |
| `Malloc` | `crtl/library/malloc.c` | `heap` holds the sizes and pointers of the block headers, `freeblocks` and `endinitted`; `live` the pointers the program holds; `call` the malloc that is looping. One action per call (`Array` is calloc and `__malloc2`; `Realloc` is four, one per way through it), except that malloc goes round its loop in the steps `Take` and `Grow` |
| `Allocator` | what the C library promises of it | `live`: regions that never overlap |
| `Prims` | types of the compiler and the values they hold; `cc/prim.h` and what a list of primitives computes | `RunPrims` |
| `Generate` | `Scope::parsexpression` and below: result types, casts, op-assignments; `generate.cc`, `binop.cc`, `unop.cc`, `numconst.cc`; statements in `parsefunc.cc` | operators from operands to typed expressions, and from an expression, a statement, a function to primitives |
| `Assemble` | `assemble.cc`, `mach.cc` | operators from a primitive to machine instructions with fake registers; `RunMachs`, what they compute |
| `OptMachs` | `optmachs.cc` up to the assignment of hardware registers and the passes after it | `mf`: the instructions, stack size, registers; one action per pass, stepping from one change to the next |
| `Structs` | `structtype.cc`, with the parts of `mach.cc`, `parsedecl.cc`, `allocate.cc` and `generate.cc` that use it: layout, search for members, vtables, `__init`, `__term`, the code that moves `this`, initialisers | `types` has for each struct type what the compiler's methods return for it; one action, a declaration |
| `FrontEnd` | `FuncDecl::parseFuncBody` and `optprims.cc`, one action per change a pass makes to `prims`; and, from nothing in the compiler, what a function means: the reference | primitives generated, optimized, assembled, optimized |
| `Linker` | `asm/link.c` | `ifrefd`, `allpsects`, `allsymbols`, `objpsects`, `output` as in the code; one action per line of an object file in each pass, and the ends of passes; psects are placed one by one |
| `Assembler` | `asm/assemble.c`, and a build: each source is assembled, then the objects are linked by `Linker` | `st` has the tables, location counter, open conditionals and emit buffer; one action per line in each pass |
| `Words_proofs`, `Processor_proofs`, `Raspictl_proofs`, `Boards_proofs`, `Host_proofs`, `Runtime_proofs`, `Malloc_proofs`, `Linker_proofs` | - | theorems (section 5) |
| `MCLockstep`, `MCRaspictl`, `MCRuntime`, `MCHost`, `MCBoards`, `MCFrontEnd`, `MCToolchain` | - | values of the constants, programs, and the parts that share a run |

Composition: `De0` <- `ShadowCheck` -> `Shadow`; `Lockstep` and
`Raspictl` extend `ShadowCheck`; `RaspictlHistory` extends
`Raspictl` and instantiates `Isa`; `NetSim` and `RaSeqTest` put other programs
around the same `De0`, and `NetSim` implements the same `Isa`; `PhysSpec` of `GpioLibs`
implements `GpioPins`, which is what `Raspictl` assumes of `writegpio`;
`Malloc` implements `Allocator` and meets the rest through the stack limit it
sets (`ScnSetStkLim` of `Raspictl`).  In the compiler, `Generate`
produces what `FrontEnd` optimizes, `Assemble` takes over, `OptMachs` changes that,
and `FrontEnd` composes them and compares each stage with what the source means.
`Assembler` extends `Linker`: the object files it writes are the ones that are
linked.
`MCRuntime` and `MCHost` extend modules whose theorems section 5 has, so that
run and theorem speak of the same definition.

How the code is abstracted:

* A cycle in which nothing is transferred is two steps of `Raspictl` (raise,
  drop), one with a transfer four.  Where one `writegpio` changes several pins
  together with the clock, the processor may see the old or the new level of
  each: `SetupHold` is about exactly that.
* The line clock thread appears in `Raspictl` as an environment that may post
  its request at any time while it exists, whatever time was set, and ends when none
  is.  `LineClock`, with the threads, the condition variable and the time, is shown
  to implement it (`LineClockAsModelled`), so what holds in `Raspictl` does not rest on when
  the request comes.
* Memory is a function from even addresses to words whose domain grows; absent
  words are zero, as the static array is.
* Only the system calls the interrupt logic, the guards and the end of a program
  depend on are in `Raspictl`; its programs make no others.  The rest are in
  `Syscalls`, where a buffer is a set of addresses and a file descriptor stands
  for what it was opened on.
* `Malloc` treats a walk along the free list as the choice of the block it stops
  at.  Contents of blocks, and the guard words that are compiled out
  (`NGUARDS` is 0), are left out; `verifyblocks`, which walks the heap after every
  change, is the invariant `HeapIntact`.  `calloc(0, n)`, which divides by zero,
  is not called, and `free` and `realloc` get only pointers that are held.
* `LineClock` scales times down: `NsPerSec` nanoseconds make a second.
* `IntLib` and `FpNative` have words of `W` bits.  A chain of instructions over
  several words is one operation on the number that the words are.
* `FdFile` keeps the histories `given`, of what puts were given, `copied`, of what they
  copied, and `taken`; `Throw` records with each
  exception which handler the language names for it.
* `ReadLine` has a terminal that moves back at a backspace and forward at any other
  character, and is wide enough.  Keys are the characters of a small set and the
  control keys; `malloc` gives at most `Slack` more than asked for (`allocsz`).
* `CLib` converts characters as codes.  Floating-point arguments of `vfprintf` are
  decimal figures with an exponent, as `getfnum` leaves them; what `roundflt` makes of
  them is exact.
* A struct type is its members' names, sizes and alignments, its functions with a number
  for the type, and its parents.  Code of `__init`, `__term` and of entry points is
  what it does to the vtable pointers and to `this`.
* An object file is its lines, not their text; psects are numbers in the order of
  their names, which is the order in which the linker keeps them.  A source file is its
  lines as sequences of values and operators; mnemonics are a sample of each
  form of `opcodelist`.
* Compiled functions are given parsed, as trees.  The compiler's variables are
  those of one function plus a static one; calls go to functions outside it
  whose effect is fixed (`bump`, `next`, `clear`).  Values of four bytes stay
  within the integers of TLC.

## 3. The runs

| Run | Properties | Shows |
|---|---|---|
| `lockstep` | `CheckPasses`, `Agrees`, `OneHot` | for each opcode, condition, base register, RD of R0 and R7, function code, zero and other offsets, with each status word and with the interrupt line free at each edge, and for arithmetic, loads and stores of pairs of the eight words at which sign, carry, overflow or byte extension change: the FPGA and the shadow model go through the same states, and `Shadow::check` is content with every pin it looks at |
| `raspictl` | `InStep`, `RandMemSound`, `NohwSame`, `InterruptsTaken`, `Transparent`, `MainProgress`, `ImplementsIsa`, `Guarded` | the computer with its host: `boot.asm` with a line clock handler, and a program of byte accesses that requests its own interrupts, the request free to come between any two half cycles; a `-randmem` run from registers that powered up with other contents than the model's zeroes; thirteen short programs, each into one way to stop or one call |
| `host` | `SingleThread`, `NoLostWakeup`, `TimeServed`, `PinsFollow`, `TesterRight`, `ImplementsPins`, `UpToDate`, `Answered` | every interleaving of the main thread, the line clock threads, time-outs and spurious wakeups; pins that follow late and are read back and retried, with the data pins turned round; the simulator behind two pipes, running behind its reader and printing other lines; processor boards on the bench, with every choice of operands, instructions and interrupts the tester makes |
| `malloc` | `HeapIntact`, `Owned`, `ImplementsAllocator`, `MallocReturns` | every sequence of calls on a small heap until memory is used up: the blocks tile the heap, the free list is complete and in order, free neighbours are merged, blocks are as long as they were asked for and never overlap, and the loop of malloc ends |
| `runtime` | `StreamsRight`, `LinesGoOut`, `Unwinds`, `HostCallsRight`, `EditorRight`, `SortsRight`, `DatesRight`, `TextRight`, `ArithmeticRight` | streams whose system calls end short or fail; try blocks entered, left and thrown out of in any order; the host's files, terminals and buffers under any sequence of calls; every sequence of keys on a line; arrays with every order of elements, equal ones too; every day of 136 years and back, and times, back up to ten o'clock; numerals in all bases, formats with every flag, width and precision into buffers of every kind; every integer routine on every operand of scaled-down words, with the host's calls that replace some, against the operators on numbers; software floating point against the exact result, with subnormal numbers, infinities and not-a-numbers, and its comparisons |
| `boards` | `SimulatorSound`, `ImplementsIsa` | the processor boards in the simulator, with its memory, calls and own model: they agree with the model and with the instruction set |
| `compiler` | `PrimsRight`, `ChangesShorten`, `MachsMeanSource` | all functions of three straight statements out of thirteen with assignments through pointers and calls; loops, switches and conditional expressions around shared pieces; operators on operands of mixed types and on constants; longs: the primitives, each list the optimizer makes of them, and the machine instructions after each pass compute what the source says |
| `toolchain` | `LinksRight`, `ImageMeansSource`, `StructsRight` | builds from two to four source files, with archive members in every order, code, data, conditionals, gaps and common blocks, and links of object files as another tool might write them: the files that are needed are loaded, psects keep their alignment and their distance, and each byte of memory is what its source line says; programs of up to four struct types in any inheritance: members and parents lie apart, are found by name where they are, and `__init`, calls and `__term` find the functions of the object's type (section 4 on parents behind an odd number of bytes) |
| `malloc_realloc`, `compiler_count`, `compiler_long`, `struct_overrides` | `ReallocFindsRoom`; `OptimizerKeepsMeaning`; `LongsCompareRight`; `LeafmostCalled` | violated: section 4 |

A run whose system falls into parts that do not interact (`runtime`, `host`,
`toolchain`) chooses one part in its initial state; a property
of such a run is the conjunction of that part's named properties, which the MC
module spells out.

**Bounds.**
`lockstep`: `MaxInsts = 1`; a run starts from any chosen register contents and
status word at FETCH1 and goes to the next FETCH1 through an interrupt entry
where there is one, so each instruction is seen from every starting point; the
register contents it leaves are those of another starting point.
`raspictl`: `MaxReads = 16` covers the seven register loads of `-randmem` (two
reads each) and the opcode and operand of a random instruction; the other
programs loop or stop, and their state space is finite.
`host`: `MaxCalls = 4` lets the program set, reset, stop and set again;
`NsPerSec = 2` and `MaxTime = 4` give times below a second, at a second and
after; two thread identities suffice to see a second thread if one could exist
(`SingleThread` says none does; with more identities the invariant is proved);
2 data pins, `MaxRetries = 2` with pins that may take as long; 2
connectors, sequence numbers modulo 2 so that they wrap, 2 commands under way.
`malloc`: no bound on calls.  Its heap is scaled down, a header of 2 where the
code has 8, blocks of at least 4 for 16, extensions of 8 for 1024, addresses below
64, so that up to three extensions and eight blocks fit; the data end at 5, no
multiple of anything, so the first extension is rounded as in the code.  Sizes 1,
4 and 9 give blocks with and without a rest, and one longer than an extension;
counts and element sizes for calloc have a product beyond the address space.
`runtime`, arithmetic: words of 3 bits, quads of words of 2 (where a chain still crosses
three word boundaries), every operand; singles of two words of 5 bits with 3 bits
of exponent, every left operand against each exponent with the mantissas where
rounding and normalizing change; doubles of four words of 4 bits.
`runtime`, the rest: buffers of 3 characters and a text of 6, so that buffers fill in the
middle of a put and two flushes fail; up to 3 nested try blocks and 3 throws, five
types of which two extend others; 2 descriptors above the standard ones, the terminal also to be
opened by name, 6 calls, of those with buffers 3; lines of 3 characters in buffers that
begin with 2, so that they grow, and 2 lines of history; arrays of 6, which `partsort`
divides twice (5 and more are partitioned, up to 4 are sorted by comparing each
with each); longs of 8 bits for numerals and formats.
On the bench of `host`: nine opcodes, one of each way to decode, with 4 registers for 3
instructions, and four opcodes with none for two passes; two operands that rand may give.
`boards`: five programs in the simulator.
`toolchain`: three psects, of which one is an overlay; a main file of two of six pieces
with two members of a third, members that refer to each other in all orders, object files that
fill memory to its last bytes; an emit buffer of 4 bytes where the code has 64, so that it
fills within a line, and expressions of 24 bits for 32.  The assembler's
lines are taken one by one, so nothing else is bounded.  Four struct types give parents of
parents, two parents with the same parent, and three overrides of one function; `toolchain` takes
each list of parents with each kind of body.
`compiler`: each function is run with several memories (`FlowInputs`,
`ExprInputs`, with -1, 0 and values at which the sign of a word changes).  Part of
the functions (`whole`) are compiled down to registers, which takes most of the
time; the others end after the primitives.  Two constants are put together by every
operator, in 239 ways (section 4 on those left out).  `Fuel` and `MachFuel` end a
program that does not stop by itself.

**Deadlock.**  The runs of the compiler are checked for deadlock: a compilation
ends only in its last pass.  The other runs stop where the code does (`exit`,
`abort`, the end of a program or of memory, a call that has returned) or where a
bound does, and a program of `host` that has made its calls may wait at HALT
for a request that will never come, so they say `CHECK_DEADLOCK FALSE`.

**Fairness.**  `RaspictlHistory`: the main thread takes a step whenever it is
not waiting on `intreqcond` (the operating system runs a runnable thread), and
the time the line clock thread waits for arrives.  Nothing obliges a request to
come at a particular moment, and none is obliged to come from elsewhere.
`LineClock`: runnable threads run, the clock advances, and a timed wait whose
time has passed ends with ETIMEDOUT at last.  The last one is strong fairness:
a spurious wakeup sends the thread round its loop into a new timed wait, so the
time-out is not continuously enabled, but `pthread_cond_timedwait` cannot be
woken for no reason for ever.  The program need not make another call.
`Malloc`: a call of malloc that has begun goes on; nothing obliges the program to
make or to free anything.  `PipeSpec` of `GpioLibs`: the simulator serves its pipe and the
reader reads; nobody need ask.

**Refinement.**  `ImplementsIsa` maps the clocked system, in `raspictl` and in
`boards`, to `Isa`.  An instruction takes effect when its last cycle ends; until
then the mapping shows the registers as they were when it was fetched
(`oldregs`), so the mid-instruction increments of R7 are hidden.  A store takes
effect with its memory write.  An interrupt entry takes effect when the status
word has been written to FFFE; from there on the rest of the entry cannot be
prevented, and the mapping already shows R7 at 0002, IE cleared and the old PC at
FFFC.  The word FFF0 and the error word FFF2 belong to the host: what a load from
FFF0 returns, or an opcode fetched there, is left open in `Isa`.  The property is
about runs without `-randmem`, whose words come from no memory, up to the half cycle
in which the program ends.

`ImplementsAllocator` maps `Malloc` to `Allocator` by forgetting the headers: a
block becomes the region from behind its header, with the length that was asked
for.  A realloc that moves a block is one step there, apart from the old region,
which is still read while the new one is written.

`ImplementsPins` maps `PhysSpec`, with its latches, directions and readbacks, to
`GpioPins`, in which each control pin goes to its new level once.

**The properties that say most.**

* `CheckPasses` and `Agrees`: two independent descriptions of the processor, a
  gate-level one and a procedural one, agree in state, registers, status word and
  every pin.  A difference in, say, when the interrupt enable is looked at would
  show only when a request meets one edge.
* `Transparent`, `InterruptsTaken`, `MainProgress`: an interrupted program finds
  its registers and status word again, an entry is not interrupted, no step of the
  host changes, together with the clock, a level the processor samples at that
  edge, and a line clock that is up again when the handler returns still lets one
  instruction of the program through.
* `RandMemSound`: the self test starts from unknown registers, and only the order
  of the first loads keeps the model from complaining.
* `TesterRight`: the tester's own bookkeeping of what a bus shows, with boards
  missing and paddles grounding it, agrees with the boards in every cycle: on the three
  buses, the host's data pins, the instruction register and the control lines.
* `UpToDate`: a cached connector is dropped by exactly the calls after which the
  simulator would show something else.
* `Unwinds`: however try blocks, finally parts and exceptions nest, the chain of
  marks is the program's nesting, no finally part is missed or run twice.
* `HeapIntact` and `ImplementsAllocator`: free neighbours are merged after every
  order of calls, and no two regions overlap, wherever blocks were split, merged
  or moved.
* `PrimsRight` and `MachsMeanSource`: a pass may rely on what another left,
  and every intermediate list is run and compared with the source, not the last
  one alone.
* `ImageMeansSource`: labels used before they are defined, in other psects and other
  files, bytes that wait in a buffer while the location counter moves, parts of psects
  from several files, all have to agree between two programs and five passes.
* `LinksRight`: a file that only a later member refers to, in any order of the
  command line, is loaded, and no file that nobody needs.
* `EditorRight`: after any keys, what the terminal shows left and right of its cursor is
  the buffer left and right of the position, though the program never reads it back.
* `StructsRight`: three methods reckon offsets of parents and vtables, each in its own
  way, and what `new` writes must be where a call looks.
* `SingleThread`, `NoLostWakeup`: see section 5.

For every property `PROJECT.json` names a mutant, a plausible slip in the
definition it guards, under which the run finds the property violated.  The
mutated forms stand beside the originals (`LoopWith_silent`, `IrqLevel_stale`,
...).

## 4. What the runs found

* `malloc_realloc`.  `crtl/library/malloc.c:88` says "maybe extending memory will
  make the after block big enough" of a block that is the last on the free list.
  With an allocated block between it and the end of the heap it cannot: either the
  assertion at line 92 fails, or the extension comes out negative, wraps, and the
  program ends with OUT OF MEMORY, where moving the block would have done.
* `compiler_count`.  `cc/optprims.cc:130` says "can't optimize if tempx read or
  written anywhere except in rest of this basic block", but the primitive that
  writes `tempx` may read it as well.  `do { n = n - 1; y = n; } while (y > 0);`
  becomes `y = n - 1` with `n` never written, and runs on for ever.
* `compiler_long`.  `cc/assemble.cc:918` announces a comparison of
  "byte/word/long integers", but once the high words are equal the low words are
  compared as signed numbers for signed longs: `(int32) u < 5` with an unsigned
  `u` of 40000 is true.

* `struct_overrides`.  `cc/structtype.cc:115` shows the vtable of a struct whose parent
  overrides a function of its own parent, with the last one's function in every entry.
  `fillvtableinit` (`:770`) compares names, and an entry that was overridden once holds a
  declaration renamed `Child__func` (`:791`), so the second override leaves it alone: a
  call through a pointer to the first struct runs the second one's function.

**Modelled as the code has it, with what follows from it.**  In each of these the
properties above are stated so that they hold, and name the case they leave out.

* `raspictl.cc:1037`: the line clock thread has to take the mutex again after its
  time-out.  SCN_IRQATNS may take it first, with another time or with zero, and
  the thread then posts IRQ_LINECLOCK for a time nobody asks for any more.  A
  handler has to bear an interrupt before its time.
* `raspictl.cc:1025`: the thread ends when `tv_sec` is zero.  A time of less than a
  second stops the clock as well (`raspictl.cc:636` says zero does).
* After a HALT has been woken by a request the main loop raises the clock with the
  interrupt level from before the wait, so one more instruction runs before the
  entry.
* `raspictl.cc:962`, `:1122`, `:857`, `:1245`: an unknown call sets errno to
  -ENOSYS; a parameter block beyond the magic words reads as zero, the number of
  SCN_EXIT; the high half of SCN_UMUL is zero; the terminal stays raw at exit if
  it was switched by way of another descriptor than 0.
* `structtype.cc`: `getMemberByIndex` (`:607`) numbers the parents' members first and
  `getMemberByName` last, so `.name =` and positional initialisers disagree for a struct with
  parents, and the first positional initialiser of a struct with virtual functions is that of
  `__vtableptr`.  `getExtOffset` (`:681`) gives where what is before a parent ends, and
  `getMemberByName` (`:582`) and `getTypeSize` round that up to the parent's alignment: a cast to
  a parent with words, behind an odd number of bytes, is a byte below the members that the
  child finds by name.  `StructsRight` speaks of members' places in structs whose parents are
  where both agree (`InPlace`); a struct of a single character with such a parent violates
  it otherwise.  `getVTableLabel` (`:950`) does not round a parent up to its alignment
  at the end, so static objects with a parent of odd length may have a later vtable pointer at the wrong
  place.  A parent that has an `__init` needs a vtable where the child has one.
* `mach.cc:846`: an entry point that moves `this` back by more than an `LDA` reaches
  loads the distance into R2, which held `this` (`Lost`).
* `readline.c:250`: ^N past the last line of the history wipes as many characters as are left
  of the cursor; those of the line that are right of it stay on the terminal (`stale`).
* `vfprintf.c`, `vfprintf_fp.c`: `%n` falls through into the next conversion; a signed
  number of floating point padded with zeroes has one zero too few and a blank after it; rounding
  below the last place of a small number is left out; `%d` of -32768 depends on the
  negation that wraps.  `strtol` does not skip blanks before the sign.
* `malloc.c:36`: `RNDSIZE` adds the header in 16 bits, so a request for 65521 bytes
  or more becomes a block of 16 (`NoWrap` in section 5).
* `fdfile.c:121`, `:190`, `:57`: a put that goes round its loop copies the text from its
  beginning each time; a flush that fails half way writes that half again; `fclose` ignores
  that the flush fails.  `StreamsRight` is about the characters that were copied: those of a
  first round are the ones put was given (`astray` are the others), all are there until the file
  is closed, and each once until a flush fails.
* `gmtime.c:88`: `tm_hour * 3600` is a product of 16-bit ints.  From ten o'clock on `timegm`
  gives a time 65536 seconds, 18 hours and 12 minutes, too early.
  `crtl/library/gmtimetest.c` tries midnights only.  `DatesRight` asks for the time back up to
  ten o'clock.
* `throw.asm:94`, `:90`, `parsefunc.cc:649`: a base class that is caught is found at
  the word before it in the type's table, whatever that is, and the offsets in the
  table are searched for types as well; a `return` or `break` in a finally part
  enters it again.
* `div_QQL.asm:93`, `shl_QQW.asm:97-119`, `div_www.asm:59`: division of a quad by a
  long with its top bit set loses a carry, a left shift of a quad by a word or more
  stores too few words or all of memory, and `div_www` does not keep R5.
* `fpnativ.asm:157`, `:1020`, `:1471`, `raspictl.cc:769`: differences have no guard
  bit; -0 is less than +0; a double whose not-a-number bits are in the middle
  words is an infinity; comparison of not-a-numbers differs from the host's.
* `netgen/Shadow.java:250` looks for no interrupt after IRET, where `seq.v:122` and
  `shadow.cc:515` do: a program that returns with interrupts enabled and a
  request up is rejected by the simulator.
* `raseqtest.cc:210`: a second pass of `-loop` begins in the middle of a cycle.
* `pipelib.cc:90`: the directions of the data pins are never sent to the simulator;
  `:156`: an examine waits for ever after a Tcl error.
* `optprims.cc:119`, `:128`, `:155`: a merge may drop a store to a static variable,
  takes OP_DEREF for the operator that takes an address, and moves a copy over a
  change of its source.  `UnsafeMerge` says which merges these are.
* `numconst.cc:321`, `:166-175`, `:183`: `!` of a constant says whether it is not zero, `||`
  and `&&` of constants may give the right one instead of 1, and constants are folded
  in 64 bits that nothing cuts down to the type: `200 << 4` of bytes does not wrap, and
  `/`, `%`, `|` and `^` of a sign with a type that has none are those of 64 bits.
  `parsedecl.cc:2529` has no `break`, so the product of two constants has no sign.  The programs
  of `MCFrontEnd` put two constants together with every operator where none of these
  changes the value (`OwnType`), and leave `!` of a constant out.
* Generating `f() * 0`, `0 / f()`, and comparisons of an unsigned `f()` with 0 that
  are always true or false drops the call; a statement `a && f();` stores through a
  null result; `if (c) break; else ...` is rejected.
* `link.c:352`: the first file that names a psect leaves the exponent `p2al` where its
  alignment belongs; the largest alignment of the loaded files replaces it, unless
  none is larger.  A psect of which only an unloaded file is seen first may then get
  alignment 0, 1 or 3: `LinksRight` asks that no psect has kept it (`Raised`).
  Nothing checks that everything fits 64K (`carried`).
* `link.c:384-398`: a second definition of an absolute symbol with the same value is
  reported by way of a null psect.
* `assemble.c:1028`: an operator that binds as tightly as the one before it, or more, is
  carried out first, and what is left at the end is carried out from the right: `a-b-c`
  is `a-(b-c)`, and `2*3+4` is 14.  `ImageMeansSource` gives expressions their usual meaning, and its
  programs have none of these.
* `assemble.c`: an `.if` that is not closed goes on in pass 2; a `.if` or `.blkb` that
  depends on a label further down has another value in pass 2, and the sizes in the
  object file are those of pass 1; a mnemonic past the end of `opcodelist` is searched
  for beyond it.  The programs are closed and do not depend on later labels so.
* In the optimizer of instructions, none of them reached by functions the front
  end can produce: the load case of `opt_20` never passes its own test of
  references, its store case leaves other references to the register unchecked,
  `opt_22` may turn the first half of an add with carry into an LDA, `opt_01` and
  `opt_04` ignore stores through pointers, `opt_06` does not end on `lbl: BR lbl`,
  `opt_40` takes the base register for the loaded one.

## 5. The proofs

`tlapm` checks these for every value of the constants; the assumptions are named.

| Module | Theorems | For every |
|---|---|---|
| `Processor_proofs` | `OneHotAlways` | instruction word, interrupt and reset at any edge |
| | `LockstepTypes`, `SameProcessor`, `CheckNeverFails` | scenes: programs, words from memory, interrupts, register contents |
| `Raspictl_proofs` | `HostStaysInStep`, `GuardsHold`, `PinsAreSteady`, `RandMemIsSound`, `PinsPassCheck`, `NohwIsTheSame`, `LineClockAsModelled` | program in memory, register contents at power-up, choice of options, requests at any time |
| | `ExecutesInstructions` | program in memory, register contents at power-up, system calls, interrupt requests at any time |
| `Boards_proofs` | `BusIsDefined`, `SimulatorIsSound`, `BoardsExecute` | program in memory, register contents at power-up (zero for `SimulatorIsSound`), calls of the simulator |
| | `TesterIsRight` | stack of register boards, random operands, instructions and interrupts, register contents at power-up |
| `Host_proofs` | `SingleThreadAlways`, `NoWakeupLost`, `TypeCorrect` | threads, times and bounds |
| | `WritesAreShown`, `PinsAreGpioPins`, `ReadsAreCurrent`, `NeverOutOfStep` | data pins, lag and number of retries; connectors, pin values, depth of the pipes |
| `Runtime_proofs` | `HostKeepsItsWord`, `TriesUnwind`, `NothingIsLost`, `ReadsInOrder`, `StreamsAreRight`, `LinesGo` | paths, descriptors, arguments, size of memory; nesting, catch lists, thrown types that the scan finds; buffer size, texts, files, failing calls |
| | `EditorIsRight`, `QsortIsRight`, `DatesAreRight` | characters, lengths of lines and of the history; lengths of arrays and keys; days and times |
| `Malloc_proofs` | `HeapIntactAlways`, `CoalescedAlways`, `OwnedAlways`, `HeapImplementsAllocator` | sizes, requests, address spaces |
| `Linker_proofs` | `LoadsTheLeast`, `NothingOverlaps`, `LinkerIsRight` | object files, in any number and order; psects, symbols |

`Words_proofs` has what the other modules need of 16-bit words: bits and the
operations made of them, the adder of two halves (`SumLow`, `SumHigh`), sign extension,
and that masking with the complement of `2^k - 1` rounds (`MaskedMultiple`).

**The sequencer and the two processors** (`Processor_proofs`).
`OneHotAlways`: `OneHot` is inductive as it is.  The cases are the three ways a
state is followed: unconditionally, where no flip-flop feeds two others
(`FedStep`); by the decoder, whose nine outputs exclude each other and leave no
instruction out (`DecodeStep`); and by the end of an instruction, where LOAD3 and
the two outcomes of the interrupt test exclude each other (`EndStep`).  For the
lockstep, `Agrees` is not inductive: the shadow model computes its ALU at the
beginning of a state, the FPGA has it as a combination of the registers; it is the
invariant `Running` that says what the model stored is still what the registers
give, that the instruction latches agree, and that IE is clear in IREQ4 and IREQ5,
where the two treat it differently.  The heart is `AluSame`, that the two ALUs give
the same word and flags in every state and for every operand, on which follow, for
each clock edge, the next state, the register written (`De0Regs`), and the flags
(`De0Flags`).  All of arithmetic is on 16-bit words as the integers below 65536;
that bitwise operations stay words is `WordIs` and what follows it.
`CheckNeverFails` puts each connector of `Shadow::check` beside what the FPGA has
there in that state.

**The host** (`Raspictl_proofs`).  `RInv` is inductive and says, beside the types:
model and sequencer are in one state (`Core`); in each half cycle the pins are
driven and sampled as this state wants (`HostInv`); no state that fetches or stores
is entered with the stack pointer below its limit (`StackInv`); the interrupt pin is
the level the host remembers.  `Core` leaves the registers out, for with a
processor that powers up with anything they differ until they have been loaded,
and yet model and processor take the same way: only the instruction, IE and the
decoder decide it.  From it follow `HostStaysInStep`, `GuardsHold` and
`PinsAreSteady` (which reads: the data pins are not turned round and no level the
processor samples changes at a rising edge).
`RandMemIsSound`, `PinsPassCheck` and `NohwIsTheSame` need the registers.  They hold
where `Known` does: in a `-randmem` run, which loads R6 to R0 first, or when the
processor powers up with the zeroes of the model.  Otherwise they are false: after
reset a program that begins with LSR R0 gives different flags, and nothing in the
code rules that out but the programs, which load a register before they use it.
`KnownInv` divides a run (`Mode`) into reset, the loads (the registers above Rk
agree, and the word on the bus is the opcode, then the datum, of the load of Rk)
and running together (`Running`, as in `Lockstep`).

**The instruction set** (`Raspictl_proofs`).  `ExecutesInstructions` is the refinement of
`Isa` by `Raspictl`, from `RaspictlAssumption` alone.  Its invariant, `Executing`,
says how far the instruction in progress has got: the opcode in the latch is the word
that the program counter pointed to when it was fetched, unless that was FFF0
(`Fetched`); the registers are those it started from with the counter moved past it
(`Within`), after the first half of a load of a constant with the register loaded
(`Immediate`), after the first word of an IRET with the new counter (`Returning`);
the host was asked for the address and width that the instruction means (`Access`)
and answers with what memory holds there (`Answer`).  `RaiseEdge` gives what a rising
edge does in each state, in terms of the processor model, from the lemmas of
`Processor_proofs`; `ExecNext` is the invariant.  `Isa` has an instance of `Shadow`
of its own, whose operators are shown to be the same (`SameFields`, `SameArithOps`);
then each kind of instruction is restated in the variables of `Raspictl`
(`BranchForm` to `IretForm`).  The steps divide into those in which an instruction
takes effect (`OneCycleNext`, `LoadNext`, `IretNext`, `StoreNext`), the step that
enters an interrupt (`InterruptNext`), and those in which nothing shows
(`ResetUnseen`, `CycleUnseen`, `EntryUnseen`, `RestUnseen`).  The registers of the
shadow model play no part in it, so it holds whatever the processor powers up with.

**The simulated boards** (`Boards_proofs`), from `NetAssumption` (programs are words at
even addresses, registers words).  `BusInv` says of the bus, beside the types, that a
state which takes data is preceded by one that asks for them, and that between the two
the request or its answer is there, with as many bits as the state takes (`Answered`);
`BusIsDefined` reads that off.  `SimulatorIsSound` needs the registers of boards and model
to be equal when the reset is over, and so a power-up with zeros, as `ModelInv` says:
they come out of reset (`Resetting`), they agree as in `Lockstep` (`Agreeing`, on
which `CheckedTogether` needs `Together` only), or the boards have entered an interrupt
at the end of an IRET (`Diverged`); the next check catches the last of these
(`DivergedCaught`) and nothing else.  `BoardsExecute` is the refinement of `Isa` by the
simulated computer: `ExecInv` says how far the instruction in progress has got (`Instr`)
and what memory was asked for (`Request`), whatever the boards power up with, since the
model has only to be in the same state as they are (`CoreRunning`).  It reuses the edges
of `Processor_proofs` (`RegsEdge`, `PswEdge`); what differs from `Raspictl_proofs` is
the memory, which answers by the falling edge and writes a cycle after the address
(`AskedRise`, `Finished`, `Got`).  The theorem assumes `Aligned`, that words are accessed
at even addresses: at others raspictl stops and the simulator swaps the bytes, and `Isa`
says nothing.  The programs of the run keep to it.

**The boards on the bench** (`Boards_proofs`), from `BenchAssumption` (opcodes, operands
and registers are words).  `TesterRight` speaks of the moments when no write is on its way;
to hold there, the boards must have in every cycle what the tester has in mind.
`TesterInv` says so of the moment in which the clock is low in state `st`: there are a status
word, known register values and two random operands from which verifystate wrote down what
it now expects (`Predicts`: what the paddles give, what each bus must show, the registers
and the status word after the edge), and the boards hold that status word, those values in
the registers they have, the opcode, and that one state (`Mind`).  It is
not inductive for later passes over register boards, where the write of the last cycle of a
pass is expected and never made (section 4), which is why `TesterRight` leaves those
passes out.  The proof has three parts.  What the tester
computes on two bytes with `ALU8` is what the boards compute on words, by cases on the
operation (`Computes`).  The lines the tester's table expects are those the sequencer
raises, state by state (`LinesRight`).  And `Follow` and `First`, which are the switch
of main, go where the sequencer goes (`LinesNext`).  With these, the two buses and the ALU
show what is expected (`EndsAt`), the edge loads what was written down (`LoadsRegs`,
`PswNext`), and the next cycle begins as it should (`MindStep`).

**GPIO** (`Host_proofs`), from `PinsGiven` (the data pins are none of the
control pins, lag and retries are numbers).  `IInv` follows latch, level and
direction through one call: between calls nothing moves (`Resting`) and the
members hold what was written (`Remembered`); the enables change before the directions do (`Turned`), so the two sides never both
drive; while the pins follow, each is where it was or where it goes (`Moving`);
`Counted` bounds the retries by the lag.  `PinsAreGpioPins` is the refinement, each
step shown to be a step of `GpioPins` or none.

**The simulator behind its pipes** (`Host_proofs`), from `PipeAssumption` (the
sequence numbers wrap somewhere, connectors are not called `gpio` or `nothing`).
The simulator may be any number of commands behind, so what `PipeInv` compares is not
its state but where its state leads: there is a `Course`, one state of the boards for
each command in the pipe, that begins with what the boards are and ends with what
the host takes them for (`Goal`).  The host's calls make it longer at the end, the
simulator shorter at the beginning.  While `examine` waits, its echo is the last
command in the pipe (`Sent`), or the pipe is empty and exactly one line on the way back
is not other output: the reply, with the sequence number and the boards of now
(`Replied`).

**The line clock** (`Host_proofs`), for any set of threads and any bounds,
from `LineClockAssumption` (a second has at least one nanosecond, the bounds are
natural numbers).  The inductive invariant is the conjunction of the three
theorems: that a thread in a timed wait implies the request is down depends, when
a thread posts, on there being no other thread; that a set time has a thread to
watch it depends on `lineclockrun` telling the truth when SCN_IRQATNS decides
whether to create one; and both need the types.  `LoopKeepsInv` is one pass of the
thread through the head of its loop, used by the steps in which a thread takes the
mutex again.  `LineClockAsModelled` (`Raspictl_proofs`) joins the two modules: both
change the requests, `lineclockrun` and `lineclockset` by `IrqNext` only, which is the
two calls, a posted request and the end of the thread.  It needs `OneThread`: a
request is posted only while none is up, and leaves `lineclockrun` set just when a time is.

**System calls** (`Runtime_proofs`), from `HostGiven` (the host gives descriptors
above 2).  `SysInv` adds to `HostCallsRight` that descriptor 0 stays open, and that,
while the terminal was switched by no other, `savedtermioss[0]` is what it was at
the start.

**Streams** (`Runtime_proofs`), from `FileAssumption` (texts and files are sequences
of characters, sizes are numbers).  `FileInv` adds to the properties the types and
`Looked`: what `maybeflush` passes over holds no newline, also after a flush that failed and
after a change of buffering.  That a flush which fails half way loses nothing needs a
witness: `kept` records where in what `write` was given the characters are that a buffer
let go, all of them only when the whole buffer has gone; `FetchedNow` and
`FetchedLater` say that they can be fetched there, in order, then and ever after.
That put copies as much as it is given, and the right characters in its first round, is `CopiedRight`;
of its later rounds only that what they copied is kept is proved, as section 4 says.

**The line editor** (`Runtime_proofs`), from `ReadLineAssumption`.  `EditInv` adds to
`EditorRight` the types and that nothing is left of a line that was returned; that the
cells of the terminal are those of the line, then blanks up to `stale`, is inductive with it.
`WriteAllIs`, `writespc` and `writebks` are shown to put, to wipe and to move;
then each key is a lemma, that says which cells it writes and where the line and the cursor are
after it.

**qsort** (`Runtime_proofs`), from `CLibAssumption`.  `SortInv` says which two elements are
still free to be out of order: those of the range in hand and those of one pending
range, and these lie apart (`RangesApart`); any other two are in order (`FarInOrder`).  While the two indices of `partsort` run towards each other,
what is behind them is on its side of the pivot (`Partitioned`); in a
short range what has bubbled up is the greatest of those before it (`BubbledUp`).  When
no range is left, all are in order.  That elements are only exchanged makes them a
permutation (`OneToOne`).  TLC has checked `SortInv` for arrays of up to 7.

**The calendar** (`Runtime_proofs`), for all days and times.  No invariant is needed,
each conversion is a call of its own; the proof is about what is left over after
centuries, four years, years, five months and months have been divided out, that each
quotient has the bound the code takes for granted (the last century and the last year of four
may be a day longer), and that `timegm` adds up the same parts, with the product of the hours
in range up to ten o'clock (section 4).

**Exceptions** (`Runtime_proofs`), from `TypesGiven`: types are numbers, and the scan
of a type's table by `__throw` finds the types it extends, at their offsets
(`ScanRight`).  That holds for the types of the run; for a catch of a base class or of
`void *` it does not, as section 4 says, and the theorem is silent about programs with
these.  `ThrowInv` says what the chain of marks cannot: that contexts belong to
try blocks in the order they were entered (`Nested`), that a mark is active exactly in
its catch block, that an exception on its way through a finally part has its
handler outside it, computed as of the throw (`WantsOutside`), and that the catch
that runs got the last exception unless another is pending (`GotOrPending`).  `Unwinding` is
what leaving the contexts above a mark does to all of these; `HandlerAt` and
`HandlerSkips` compare, one try block at a time, what the language names with what
`__throw` does, and `RaiseKeeps` puts them together.

**Malloc** (`Malloc_proofs`), for any sizes of headers, blocks, extensions and
address space, any requests and any position of the stack, from `MallocAssumption`
(those sizes are positive, requests are below the size of the address space).
`OwnedAlways` and `HeapImplementsAllocator` also assume `NoWrap`: nobody asks for a
size within two headers of the end of the address space, where `RNDSIZE` wraps.
`HeapIntact` is not inductive: that a block to be freed is allocated follows only if
the program's pointers are exactly the allocated blocks, and that the old block of
a realloc still is when malloc returns, only if `call.old` is among them; that an
extension is not empty needs `call.need` to be positive.  `Inv` adds these, and for
`Owned` the lengths.  The operations on the heap are put together from five, each
with a lemma: a block is linked in (`LinkedIn`), unlinked (`Unlinked`), taken in by
the block before it (`TakenIn`), split (`SplitOff`), or added at the end
(`GrownBy`).  From these follow `freeablock` (`FreedIsSound`), the carving of a
block in malloc (`CarvedIsSound`), and the ways through realloc
(`TrimmedIsSound`, `MergedIsSound`, `ExtensionIsSound`); then one lemma per action.
`CoalescedAlways` has the same lemmas once more for `Apart`, no free block behind a
free block, which each change keeps only because of what `Sound` says of the
blocks around.  For the refinement, `RegionsChange` carries a change of the blocks
over to the regions and `BlocksApart` says that tiles do not overlap; a realloc that
moves is looked at between the carving and the freeing, when both blocks are
allocated.

**The linker** (`Linker_proofs`), from `LinkerAssumption` (psects and symbols have
names of their own, the command line names object files that declare a psect once).
`LoadsTheLeast`: when pass 2 is over, the loaded files are the least set that has all
files without the "if referenced" mark and, with each file, those that define what it
refers to.  `LoadInv` says of pass 1 that it has changed nothing yet (`AsGiven`), and
of pass 2 that as long as this time through the files nothing new was loaded, every
reference that has been passed in a loaded file is to a file that is loaded
(`Followed`); so when it ends that way the loaded files have all they need
(`Complete`).  That they are the least follows from `Least`, which every load keeps,
because a file is loaded only for a reference from a loaded one.
`NothingOverlaps`: once placed, the part of a psect that a loaded file has lies in the
psect at its own alignment, two parts overlap only in an overlay, and psects are
disjoint and in order.  `PlaceInv` says that what pass 1 has entered is what the files
declare (`Declared`, `Entered`), that while sizes are added up each file's part begins
where those before it end, rounded (`Packed`), and that the psects that have been
placed lie below `base` in order (`Laid`, `InOrder`).  Both halves of the rounding are
`(x + a - 1) & -a` on 16-bit words, which `RoundsUp` derives from the bits of the mask.
The hypotheses are those of the property, that sizes and alignments fit 16 bits and
that no psect has kept its exponent for an alignment; section 4 says what
happens otherwise.

**Only model-checked.**

* Liveness, which needs fairness: `MainProgress`, `TimeServed`, `MallocReturns`,
  `Answered`, `ChangesShorten`, and the part `Served` of `InterruptsTaken`.
* What recursive definitions and folds compute, which is induction over data: the
  arithmetic routines (`ArithmeticRight`), numerals and formats (`TextRight`), layout and
  vtables through any depth of parents (`StructsRight`), the assembler's expressions
  (`ImageMeansSource`), and all of the compiler (`PrimsRight`, `MachsMeanSource`).
* `Transparent` and the nesting in `InterruptsTaken`: they are about what the handler
  in memory does, not about every program.

## 6. Not modelled, and what is left

Left out for good: parsing of options and of hex files, printing, statistics and
the cycle counter, `-stopat` and `-watchwrite` (debugging aids), scanners and text
output of assembler and compiler, PCB layout, boards as data, and the
stand-alone testers of single boards.  In the shadow model, the raw carries of
`-chkacid` with the ALU board, and in `RaSeqTest` the comparisons of the raw carry,
overflow and shift outputs (`raseqtest.cc:595`, `:867`) and of the complement of the
instruction register (`:627`): `De0` has no such wires, so nothing is said of them.

In the compiler: tokens, most declarations; objects of eight bytes, floating point,
structs and arrays in the back end;
exceptions other than in `Throw`; return by reference, calls through
pointers, varargs; `opt_50` and `opt_51`, which shorten branches and place constants
(`opt_05` does nothing).  In the library: the mathematical functions, `strtod` and the
string routines in assembler.  The archiver, the text of source and object files, listings and error
messages of the assembler.  In the netlist tools: the reduction of networks and the event wheel, on which the
simulated boards run.

Next: the event wheel of the netlist simulator.
