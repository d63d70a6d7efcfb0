-------------------------------- MODULE GpioLibs -------------------------------
(***************************************************************************)
(* The two back ends of raspictl that are processes of their own, each at  *)
(* the other end of the pins from a board or from its simulation.          *)
(***************************************************************************)
EXTENDS Integers, FiniteSets, Sequences

(***************************************************************************)
(* PhysLib::writegpio of driver/physlib.cc, register write by register     *)
(* write, with the pins and the buffers of the board at the other end.     *)
(*                                                                         *)
(* Values are the sets of the G_ bits that are set.  All pins go through   *)
(* inverters: a bit is 1 when its pin is low.  latch, level and the board  *)
(* are given in terms of the bits, so level \ni G_CLK means the clock that *)
(* the processor sees is up.                                               *)
(***************************************************************************)

CONSTANTS
    G_DATA,         \* the data pins
    MaxRetries,     \* 1000 in the code
    MaxLag          \* bound: a pin follows its latch within so many readings

G_OUTS == {"CLK", "IRQ", "QENA", "DENA"}

VARIABLES
    gpiomask, gpiovalu,     \* the members of PhysLib
    fsel,                   \* GPIO_FSEL: the pins that are outputs
    latch,                  \* what GPIO_SET and GPIO_CLR have set
    level,                  \* what the pins show, and GPIO_LEV reads
    md,                     \* what the processor has on its side of the data pins
    lag,                    \* readings since the latch was changed
    pc, wdata, value, retries

physVars == <<gpiomask, gpiovalu, fsel, latch, level, md, lag, pc, wdata, value, retries>>
device == <<fsel, latch, level, md, lag>>

Mask(w) == IF w THEN G_OUTS \cup G_DATA ELSE G_OUTS

WithEnables_swapped(w, v) == IF w THEN v \cup {"DENA", "QENA"} ELSE v \ {"DENA", "QENA"}

(* DENA and QENA as writegpio inserts them. *)
WithEnables(w, v) == IF w THEN v \ {"DENA", "QENA"} ELSE v \cup {"DENA", "QENA"}

(* The buffers of the board drive the data pins while DENA is up. *)
BoardDrives == "DENA" \in level
Contention == BoardDrives /\ fsel \cap G_DATA # {}

(***************************************************************************)
(* The levels the pins may have now: an output may still show what it did, *)
(* a data pin that is an input what the processor puts out, and one that   *)
(* is driven from both sides shows either.                                 *)
(***************************************************************************)
Shows(p, up, contended) ==
    \/ up = IF p \in fsel THEN p \in latch ELSE p \in md
    \/ lag < MaxLag /\ up = (p \in level)
    \/ contended

Levels ==
    {s \in SUBSET (G_OUTS \cup G_DATA) :
        \A p \in G_OUTS \cup G_DATA :
            Shows(p, p \in s, p \in G_DATA /\ (("DENA" \in s) = (p \in fsel)))}

(* open: outputs are the pins that always are, every pin high. *)
PhysInit ==
    /\ gpiomask = G_OUTS /\ gpiovalu = {}
    /\ fsel = G_OUTS /\ latch = {} /\ level = {} /\ md = {} /\ lag = 0
    /\ pc = "idle" /\ wdata = FALSE /\ value = {} /\ retries = 0

Call(w, v) ==
    /\ pc = "idle"
    /\ wdata' = w /\ value' = WithEnables(w, v)
    /\ pc' = "direction"
    /\ UNCHANGED <<gpiomask, gpiovalu, retries, device>>

(* A pin that becomes an output shows its latch, unless the board drives it too. *)
Direction ==
    /\ pc = "direction"
    /\ gpiomask' = Mask(wdata)
    /\ IF gpiomask = Mask(wdata)
         THEN UNCHANGED <<fsel, level>>
         ELSE /\ fsel' = Mask(wdata)
              /\ level' \in IF ~wdata THEN {level}
                            ELSE {(level \cap G_OUTS) \cup d : d \in
                                    IF BoardDrives THEN SUBSET G_DATA ELSE {latch \cap G_DATA}}
    /\ pc' = "update"
    /\ UNCHANGED <<gpiovalu, wdata, value, retries, latch, md, lag>>

(* The comparison with the value written last; CLR0 takes pins low, so bits up. *)
Differs == (value \cap gpiomask) # (gpiovalu \cap gpiomask)

Clr0_all ==
    /\ pc = "update"
    /\ IF Differs
         THEN gpiovalu' = value /\ latch' = G_OUTS \cup G_DATA /\ lag' = 0 /\ pc' = "set0"
         ELSE pc' = "idle" /\ UNCHANGED <<gpiovalu, latch, lag>>
    /\ UNCHANGED <<gpiomask, wdata, value, retries, fsel, level, md>>

Clr0 ==
    /\ pc = "update"
    /\ IF Differs
         THEN gpiovalu' = value /\ latch' = latch \cup value /\ lag' = 0 /\ pc' = "set0"
         ELSE pc' = "idle" /\ UNCHANGED <<gpiovalu, latch, lag>>
    /\ UNCHANGED <<gpiomask, wdata, value, retries, fsel, level, md>>

Set0 ==
    /\ pc = "set0"
    /\ latch' = latch \cap value /\ lag' = 0
    /\ retries' = 0 /\ pc' = "readback"
    /\ UNCHANGED <<gpiomask, gpiovalu, wdata, value, fsel, level, md>>

TooMany(n) == n > MaxRetries

ReadBack ==
    /\ pc = "readback"
    /\ level' \in Levels
    /\ lag' = IF lag < MaxLag THEN lag + 1 ELSE lag
    /\ IF (level' \cap gpiomask) = (value \cap gpiomask)
         THEN pc' = "idle" /\ UNCHANGED retries
         ELSE retries' = retries + 1 /\ pc' = IF TooMany(retries') THEN "aborted" ELSE pc
    /\ UNCHANGED <<gpiomask, gpiovalu, wdata, value, fsel, latch, md>>

(* The pins move by themselves, and the processor puts out other data. *)
Board ==
    /\ level' \in Levels /\ md' \in SUBSET G_DATA
    /\ UNCHANGED <<gpiomask, gpiovalu, fsel, latch, lag, pc, wdata, value, retries>>

PhysNext ==
    \/ \E w \in BOOLEAN, v \in SUBSET ({"CLK", "IRQ"} \cup G_DATA) : Call(w, v)
    \/ Direction \/ Clr0 \/ Set0 \/ ReadBack \/ Board

PhysSpec == PhysInit /\ [][PhysNext]_physVars

-------------------------------------------------------------------------------
(***************************************************************************)
(* When writegpio has returned, every pin it drives shows what it was      *)
(* asked for, also when it has left out the writing because it took the    *)
(* pins to be so already.                                                  *)
(***************************************************************************)
WrittenIsShown == pc = "idle" => (level \cap gpiomask) = (value \cap gpiomask)

(***************************************************************************)
(* Both sides drive the data pins at most while a call turns them round.   *)
(***************************************************************************)
ContentionEnds == pc = "idle" => ~Contention

(***************************************************************************)
(* Pins that follow within MaxRetries readings are good enough.            *)
(***************************************************************************)
NeverAborts == MaxLag <= MaxRetries => pc # "aborted"

(* The three together. *)
PinsFollow == WrittenIsShown /\ ContentionEnds /\ NeverAborts

(***************************************************************************)
(* The control pins change as Raspictl assumes: those asked to, once, each *)
(* at a moment of its own; no other pin moves.                             *)
(***************************************************************************)
Control == INSTANCE GpioPins
    WITH Pins <- G_OUTS, pins <- level \cap G_OUTS, goal <- value \cap G_OUTS,
         busy <- pc # "idle"

ImplementsPins == Control!Spec

-------------------------------------------------------------------------------
(***************************************************************************)
(* driver/pipelib.cc: raspictl with the board simulator in place of the    *)
(* board.  Commands go to the simulator through a named pipe and its       *)
(* standard output comes back through another, replies and everything      *)
(* else it prints mixed.  Only an examine waits for the simulator; writes  *)
(* and half cycles run ahead of it.                                        *)
(*                                                                         *)
(* What the simulated boards show is a function of the pin values that     *)
(* were forced when time last went on and of the time; the model keeps     *)
(* these in place of bits.                                                 *)
(***************************************************************************)

CONSTANTS
    Cons,        \* the connectors that the host reads, four in the code
    Values,      \* pin values that the host writes
    SeqMod,      \* the sequence number wraps, 2^32 in the code
    MaxRuns,     \* bound on half cycles
    MaxQueue,    \* bound on commands or lines in a pipe
    MaxNoise     \* bound on other output between two commands

ASSUME PipeAssumption ==
    /\ SeqMod \in Nat \ {0} /\ MaxRuns \in Nat /\ MaxQueue \in Nat /\ MaxNoise \in Nat
    /\ {"nothing", "gpio"} \cap Cons = {}

VARIABLES
    \* the host
    sendseq,
    asking,      \* the variable that examine waits for, or "nothing"
    got, val,    \* gota .. gotd as a set, vala .. vald
    result,      \* what the last readgpio or readcon returned
    aborted,
    \* the simulator
    forcev, ran, simtime,
    \* the pipes
    toSim, toHost, noise,
    \* history: what the host has asked for
    written, atRun, runs

hostVars == <<sendseq, asking, got, val, result, aborted>>
simVars == <<forcev, ran, simtime>>
history == <<written, atRun, runs>>
pipeVars == <<hostVars, simVars, toSim, toHost, noise, history>>

Pins(v) == [valu |-> v, dena |-> FALSE, qena |-> FALSE]
NoReply == [var |-> "nothing"]
-------------------------------------------------------------------------------
(* The simulator: RunCommand, EchoCommand with ExamineCommand or the raspi
   examine, and the raspi force. *)
Shown(var, f, t) == [var |-> var, pins |-> f, time |-> t]

Sampled_ahead(var) == Shown(var, forcev, simtime)
(* Data pins show MQ, that the host drives, unless QENA is up; then MD.  (As
   writegpio never raises QENA, the host never gets to see MD.) *)
Sampled(var) ==
    IF var = "gpio"
    THEN [var |-> var, pins |-> ran, time |-> simtime,
          data |-> IF forcev.qena THEN "MD" ELSE "MQ"]
    ELSE Shown(var, ran, simtime)

Take(kind) == toSim # << >> /\ Head(toSim).kind = kind /\ toSim' = Tail(toSim) /\ noise' = 0

SimRun ==
    /\ Take("run")
    /\ ran' = forcev /\ simtime' = simtime + 1
    /\ UNCHANGED <<forcev, toHost, hostVars, history>>

SimForce ==
    /\ Take("force")
    /\ forcev' = Head(toSim).pins
    /\ UNCHANGED <<ran, simtime, toHost, hostVars, history>>

SimEcho ==
    /\ Take("echo")
    /\ toHost' = Append(toHost, [seq |-> Head(toSim).seq, value |-> Sampled(Head(toSim).var)])
    /\ UNCHANGED <<simVars, hostVars, history>>

(* Monitored variables and messages; one without a newline runs into the reply
   that follows, where strstr finds the @@@ all the same. *)
SimPrints ==
    /\ noise < MaxNoise /\ Len(toHost) < MaxQueue
    /\ noise' = noise + 1
    /\ toHost' = Append(toHost, [seq |-> SeqMod, value |-> NoReply])
    /\ UNCHANGED <<simVars, toSim, hostVars, history>>
-------------------------------------------------------------------------------
(* The host. *)
Free == asking = "nothing" /\ ~aborted /\ Len(toSim) < MaxQueue
Send(cmd) == toSim' = Append(toSim, cmd)

writegpio(wvalue, valu) ==
    /\ Free
    /\ Send([kind |-> "force", pins |-> Pins(valu)])
    /\ written' = [valu |-> valu, wvalue |-> wvalue]
    /\ UNCHANGED <<hostVars, simVars, toHost, noise, atRun, runs>>

halfcycle ==
    /\ Free /\ runs < MaxRuns
    /\ Send([kind |-> "run"])
    /\ got' = {}
    /\ atRun' = written /\ runs' = runs + 1
    /\ UNCHANGED <<sendseq, asking, val, result, aborted, simVars, toHost, noise, written>>

Ask(var) ==
    /\ sendseq' = (sendseq + 1) % SeqMod
    /\ asking' = var
    /\ Send([kind |-> "echo", seq |-> sendseq', var |-> var])

readgpio ==
    /\ Free
    /\ Ask("gpio")
    /\ UNCHANGED <<got, val, result, aborted, simVars, toHost, noise, history>>

readcon(c) ==
    /\ Free
    /\ IF c \in got
       THEN result' = val[c] /\ UNCHANGED <<sendseq, asking, toSim>>
       ELSE Ask(c) /\ UNCHANGED result
    /\ UNCHANGED <<got, val, aborted, simVars, toHost, noise, history>>

(* examine reads lines until one has the @@@ in it. *)
Skip_none == FALSE
Skip == Head(toHost).value = NoReply

Receive ==
    /\ asking # "nothing" /\ ~aborted /\ toHost # << >>
    /\ toHost' = Tail(toHost)
    /\ IF Skip THEN UNCHANGED hostVars
       ELSE IF Head(toHost).seq # sendseq
       THEN aborted' = TRUE /\ UNCHANGED <<sendseq, asking, got, val, result>>
       ELSE /\ result' = Head(toHost).value
            /\ asking' = "nothing"
            /\ IF asking \in Cons
               THEN got' = got \cup {asking} /\ val' = [val EXCEPT ![asking] = result']
               ELSE UNCHANGED <<got, val>>
            /\ UNCHANGED <<sendseq, aborted>>
    /\ UNCHANGED <<simVars, toSim, noise, history>>
-------------------------------------------------------------------------------
(* open; then raspictl writes the pins and lets a half cycle go by before it
   reads anything, so what the constructor leaves in gota .. gotd and sendseq
   does not matter. *)
PipeInit ==
    /\ sendseq \in {0, SeqMod - 1}
    /\ asking = "nothing" /\ aborted = FALSE
    /\ got = {} /\ val = [c \in Cons |-> NoReply] /\ result = NoReply
    /\ \E v \in Values :
          /\ forcev = Pins(v) /\ ran = Pins(v)
          /\ written = [valu |-> v, wvalue |-> FALSE]
    /\ atRun = written
    /\ simtime = 1 /\ runs = 1
    /\ toSim = << >> /\ toHost = << >> /\ noise = 0

HostCalls ==
    \/ \E v \in Values, w \in BOOLEAN : writegpio(w, v)
    \/ halfcycle
    \/ readgpio
    \/ \E c \in Cons : readcon(c)

SimStep == SimRun \/ SimForce \/ SimEcho

PipeNext == HostCalls \/ SimStep \/ SimPrints \/ Receive

(* The two processes go on when they can; the caller need not call. *)
PipeFairness == WF_pipeVars(SimStep) /\ WF_pipeVars(Receive)

PipeSpec == PipeInit /\ [][PipeNext]_pipeVars /\ PipeFairness
-------------------------------------------------------------------------------
CacheIsCurrent ==
    \A c \in got : val[c] = Shown(c, Pins(atRun.valu), runs)

(***************************************************************************)
(* Though the simulator runs behind the host, a call returns what the      *)
(* boards show after every write and half cycle that came before it, and a *)
(* connector that is cached is what they show.                             *)
(***************************************************************************)
UpToDate ==
    [][/\ result' # result =>
             /\ result'.time = runs
             /\ result'.pins.valu = atRun.valu
       /\ CacheIsCurrent']_pipeVars

(***************************************************************************)
(* Every read gets its reply, whatever else the simulator prints: the      *)
(* sequence numbers always agree.                                          *)
(***************************************************************************)
Answered == [](asking # "nothing" => <>(asking = "nothing"))
===============================================================================
