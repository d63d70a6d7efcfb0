------------------------------ MODULE Host_proofs ------------------------------
(***************************************************************************)
(* The parts of raspictl that run by themselves.                           *)
(*                                                                         *)
(* First the line clock, for any set of thread identities and any bounds.  *)
(* The conjunction of the type invariant, the uniqueness of the thread and *)
(* the condition on the waits is inductive: uniqueness is what keeps a     *)
(* thread that posts from leaving another in a wait with a time limit, and *)
(* the condition on the waits needs the types.                             *)
(*                                                                         *)
(* Then writegpio of driver/physlib.cc, for any data pins, any number of   *)
(* retries and any lag of the pins.  The comparison with the value written *)
(* last is right because the latch holds that value between two calls, and *)
(* because the pins that a call turns into outputs show the latch unless   *)
(* the board still drives them, which makes the values differ.             *)
(*                                                                         *)
(* Last the calls of driver/pipelib.cc.                                    *)
(***************************************************************************)
EXTENDS LineClock, GpioLibs, SequenceTheorems, TLAPS
-----------------------------------------------------------------------------
ClockInv == ClockTypeOK /\ SingleThread /\ NoLostWakeup

(* Every invariant holds at the start, before any thread exists. *)
LEMMA ClockInitInv == ClockInit => ClockInv
<1> SUFFICES ASSUME ClockInit PROVE ClockInv
  OBVIOUS
<1>1. ClockTypeOK
  <2>1. 0 \in 0 .. MaxTime /\ now \in NsPerSec .. MaxTime /\ calls \in 0 .. MaxCalls
    BY LineClockAssumption DEF ClockInit
  <2>2. QED
    BY <2>1 DEF ClockInit, ClockTypeOK
<1>2. \A t \in Threads : ~Live(t) /\ ~Waiting(t)
  BY DEF ClockInit, Live, Waiting
<1>3. SingleThread
  BY <1>2 DEF ClockInit, SingleThread
<1>4. ~Armed
  BY LineClockAssumption DEF ClockInit, Armed
<1>5. NoLostWakeup
  BY <1>2, <1>4 DEF ClockInit, NoLostWakeup, Waiting
<1>6. QED
  BY <1>1, <1>3, <1>5 DEF ClockInv

(* One pass of the thread through the head of its loop, with the requests r
   it goes by becoming the requests of the next state. *)
LEMMA LoopKeepsInv ==
  ASSUME ClockInv, NEW t \in Threads, Live(t), ~Waiting(t),
         NEW r \in SUBSET {"SCNINTREQ", "LINECLOCK"},
         LoopWith(t, r), intreqreg' = r,
         intreqreg \subseteq r,
         main' \in {"run", "waiting", "signalled"},
         main' = "waiting" => main = "waiting" /\ r = intreqreg,
         UNCHANGED <<lineclockabs, now, calls>>
  PROVE  ClockInv'
<1>1. ClockTypeOK'
  BY DEF ClockInv, ClockTypeOK, LoopWith
<1>2. \A s \in Threads : s # t => thread[s] = "none" /\ thread'[s] = "none"
  BY DEF ClockInv, SingleThread, Live, LoopWith, ClockTypeOK
<1>3. lineclockrun
  BY DEF ClockInv, SingleThread
<1>4. CASE Armed
  <2>1. thread'[t] = IF "LINECLOCK" \in r THEN "wait" ELSE "timedwait"
    BY <1>4 DEF LoopWith, ClockInv, ClockTypeOK
  <2>2. deadline'[t] = lineclockabs /\ lineclockrun'
    BY <1>3, <1>4 DEF LoopWith, ClockInv, ClockTypeOK
  <2>3. SingleThread'
    BY <1>2, <2>1, <2>2 DEF SingleThread, Live
  <2>4. NoLostWakeup'
    BY <1>2, <1>4, <2>1, <2>2 DEF NoLostWakeup, ClockInv, Waiting, Armed, Live
  <2>5. QED
    BY <1>1, <2>3, <2>4 DEF ClockInv
<1>5. CASE ~Armed
  <2>1. thread'[t] = "none" /\ ~lineclockrun'
    BY <1>5 DEF LoopWith, ClockInv, ClockTypeOK
  <2>2. SingleThread'
    BY <1>2, <2>1 DEF SingleThread, Live
  <2>3. NoLostWakeup'
    BY <1>2, <1>5, <2>1 DEF NoLostWakeup, ClockInv, Waiting, Armed
  <2>4. QED
    BY <1>1, <2>2, <2>3 DEF ClockInv
<1>6. QED
  BY <1>4, <1>5

(* Every step keeps the invariant. *)
LEMMA NextInv == ClockInv /\ [ClockNext]_clockVars => ClockInv'
<1> SUFFICES ASSUME ClockInv, [ClockNext]_clockVars PROVE ClockInv'
  OBVIOUS
<1> USE DEF Live, Waiting, Armed
<1>1. ASSUME NEW irqatns \in 0 .. MaxTime, IrqAtNs(irqatns) PROVE ClockInv'
  <2>1. ClockTypeOK'
    <3>1. calls' \in 0 .. MaxCalls
      BY <1>1, LineClockAssumption DEF IrqAtNs, ClockInv, ClockTypeOK
    <3>2. Woken \in [Threads -> {"none", "created", "woken", "timedout"}]
      BY DEF Woken, ClockInv, ClockTypeOK
    <3>3. thread' \in [Threads -> {"none", "created", "woken", "wait", "timedwait", "timedout"}]
      BY <1>1, <3>2 DEF IrqAtNs
    <3>4. lineclockrun' \in BOOLEAN
      BY <1>1 DEF IrqAtNs, ClockInv, ClockTypeOK
    <3>5. intreqreg' \subseteq {"SCNINTREQ", "LINECLOCK"}
      BY <1>1 DEF IrqAtNs, ClockInv, ClockTypeOK
    <3>6. UNCHANGED <<main, deadline, now>> /\ lineclockabs' \in 0 .. MaxTime
      BY <1>1 DEF IrqAtNs
    <3>7. QED
      BY <3>1, <3>3, <3>4, <3>5, <3>6 DEF ClockInv, ClockTypeOK
  <2>2. \A s \in Threads : ~Waiting(s)' /\ (Live(s) => Live(s)')
    BY <1>1 DEF IrqAtNs, Woken, ClockInv, ClockTypeOK
  <2>3. SingleThread'
    <3>1. CASE irqatns # 0 /\ ~lineclockrun
      <4>1. \A s \in Threads : ~Live(s)
        BY <3>1 DEF ClockInv, SingleThread
      <4>2. PICK t \in Threads : thread' = [Woken EXCEPT ![t] = "created"]
        BY <1>1, <3>1 DEF IrqAtNs
      <4>3. \A s \in Threads : thread'[s] = IF s = t THEN "created" ELSE "none"
        BY <4>1, <4>2 DEF Woken
      <4>4. lineclockrun'
        BY <1>1, <3>1 DEF IrqAtNs
      <4>5. QED
        BY <4>3, <4>4 DEF SingleThread
    <3>2. CASE ~(irqatns # 0 /\ ~lineclockrun)
      <4>1. \A s \in Threads : Live(s)' <=> Live(s)
        BY <1>1, <3>2 DEF IrqAtNs, Woken
      <4>2. lineclockrun' = lineclockrun
        BY <1>1, <3>2 DEF IrqAtNs
      <4>3. QED
        BY <4>1, <4>2 DEF SingleThread, ClockInv
    <3>3. QED
      BY <3>1, <3>2
  <2>4. NoLostWakeup'
    <3>1. main' = "run"
      BY <1>1 DEF IrqAtNs, ClockInv, ClockTypeOK
    <3>2. Armed' => lineclockrun'
      BY <1>1, LineClockAssumption DEF IrqAtNs, ClockInv, ClockTypeOK
    <3>3. QED
      BY <2>2, <2>3, <3>1, <3>2 DEF NoLostWakeup, SingleThread
  <2>5. QED
    BY <2>1, <2>3, <2>4 DEF ClockInv
<1>2. ASSUME NEW code \in BOOLEAN, IntReq(code) PROVE ClockInv'
  <2>1. ClockTypeOK'
    <3>1. calls' \in 0 .. MaxCalls
      BY <1>2, LineClockAssumption DEF IntReq, ClockInv, ClockTypeOK
    <3>2. intreqreg' \subseteq {"SCNINTREQ", "LINECLOCK"}
      BY <1>2 DEF IntReq, ClockInv, ClockTypeOK
    <3>3. QED
      BY <1>2, <3>1, <3>2 DEF IntReq, ClockInv, ClockTypeOK
  <2>2. SingleThread'
    BY <1>2 DEF IntReq, ClockInv, SingleThread
  <2>3. "LINECLOCK" \in intreqreg' <=> "LINECLOCK" \in intreqreg
    BY <1>2 DEF IntReq
  <2>4. NoLostWakeup'
    BY <1>2, <2>3 DEF IntReq, ClockInv, NoLostWakeup
  <2>5. QED
    BY <2>1, <2>2, <2>4 DEF ClockInv
<1>3. CASE Halt \/ HaltWoken
  <2>1. UNCHANGED <<thread, deadline, lineclockabs, lineclockrun, intreqreg, now, calls>>
    BY <1>3 DEF Halt, HaltWoken
  <2>2. main' \in {"run", "waiting", "signalled"} /\ (main' = "waiting" => intreqreg = {})
    BY <1>3 DEF Halt, HaltWoken
  <2>3. ClockTypeOK'
    BY <2>1, <2>2 DEF ClockInv, ClockTypeOK
  <2>4. SingleThread'
    BY <2>1 DEF ClockInv, SingleThread
  <2>5. NoLostWakeup'
    BY <2>1, <2>2 DEF ClockInv, NoLostWakeup
  <2>6. QED
    BY <2>3, <2>4, <2>5 DEF ClockInv
<1>4. ASSUME NEW t \in Threads, Loop(t) PROVE ClockInv'
  <2>1. intreqreg \in SUBSET {"SCNINTREQ", "LINECLOCK"} /\ main \in {"run", "waiting", "signalled"}
    BY DEF ClockInv, ClockTypeOK
  <2>2. QED
    BY <1>4, <2>1, LoopKeepsInv DEF Loop
<1>5. ASSUME NEW t \in Threads, TimeOut(t) PROVE ClockInv'
  <2>1. ClockTypeOK'
    BY <1>5 DEF TimeOut, ClockInv, ClockTypeOK
  <2>2. \A s \in Threads : thread'[s] = IF s = t THEN "timedout" ELSE thread[s]
    BY <1>5 DEF TimeOut, ClockInv, ClockTypeOK
  <2>3. SingleThread'
    BY <1>5, <2>2 DEF TimeOut, ClockInv, SingleThread
  <2>4. NoLostWakeup'
    BY <1>5, <2>2 DEF TimeOut, ClockInv, NoLostWakeup
  <2>5. QED
    BY <2>1, <2>3, <2>4 DEF ClockInv
<1>6. ASSUME NEW t \in Threads, Post(t) PROVE ClockInv'
  <2> DEFINE r == intreqreg \union {"LINECLOCK"}
  <2>1. r \in SUBSET {"SCNINTREQ", "LINECLOCK"} /\ intreqreg \subseteq r /\ intreqreg' = r
    BY <1>6 DEF Post, ClockInv, ClockTypeOK
  <2>2. main' \in {"run", "signalled"}
    BY <1>6 DEF Post, Signalled, ClockInv, ClockTypeOK
  <2>3. Live(t) /\ ~Waiting(t) /\ LoopWith(t, r) /\ UNCHANGED <<lineclockabs, now, calls>>
    BY <1>6, <2>1 DEF Post
  <2> HIDE DEF r
  <2>4. QED
    BY <2>1, <2>2, <2>3, LoopKeepsInv
<1>7. CASE Spurious
  <2>1. CASE main' = "signalled" /\ UNCHANGED <<thread, deadline, lineclockabs,
                                              lineclockrun, intreqreg, now, calls>>
    BY <2>1 DEF ClockInv, ClockTypeOK, SingleThread, NoLostWakeup
  <2>2. ASSUME NEW t \in Threads, Waiting(t), thread' = [thread EXCEPT ![t] = "woken"],
               UNCHANGED <<main, deadline, lineclockabs, lineclockrun, intreqreg, now, calls>>
        PROVE  ClockInv'
    <3>1. ClockTypeOK'
      BY <2>2 DEF ClockInv, ClockTypeOK
    <3>2. \A s \in Threads : thread'[s] = IF s = t THEN "woken" ELSE thread[s]
      BY <2>2 DEF ClockInv, ClockTypeOK
    <3>3. SingleThread'
      BY <2>2, <3>2 DEF ClockInv, SingleThread
    <3>4. NoLostWakeup'
      BY <2>2, <3>2 DEF ClockInv, NoLostWakeup
    <3>5. QED
      BY <3>1, <3>3, <3>4 DEF ClockInv
  <2>3. QED
    BY <1>7, <2>1, <2>2 DEF Spurious
<1>8. CASE Tick
  <2>1. ClockTypeOK'
    BY <1>8, LineClockAssumption DEF Tick, ClockInv, ClockTypeOK
  <2>2. SingleThread' /\ NoLostWakeup'
    BY <1>8 DEF Tick, ClockInv, SingleThread, NoLostWakeup
  <2>3. QED
    BY <2>1, <2>2 DEF ClockInv
<1>9. CASE UNCHANGED clockVars
  BY <1>9 DEF clockVars, ClockInv, ClockTypeOK, SingleThread, NoLostWakeup
<1>10. QED
  BY <1>1, <1>2, <1>3, <1>4, <1>5, <1>6, <1>7, <1>8, <1>9 DEF ClockNext, Main, ThreadStep

(* The line clock's variables keep their types (driver/raspictl.cc:110-126). *)
THEOREM TypeCorrect == ClockSpec => []ClockTypeOK
<1>1. ClockInv => ClockTypeOK
  BY DEF ClockInv
<1>2. QED
  BY <1>1, ClockInitInv, NextInv, PTL DEF ClockSpec

(* There is never a second line clock thread, whatever times the program asks
   for and however the thread and the program interleave, and lineclockrun
   tells the truth (driver/raspictl.cc:642-653, 1025-1047). *)
THEOREM SingleThreadAlways == ClockSpec => []SingleThread
<1>1. ClockInv => SingleThread
  BY DEF ClockInv
<1>2. QED
  BY <1>1, ClockInitInv, NextInv, PTL DEF ClockSpec

(* Neither the main thread at HALT nor the line clock thread ever waits for a
   wakeup that has already been given (driver/raspictl.cc:356-362, 1034-1042). *)
THEOREM NoWakeupLost == ClockSpec => []NoLostWakeup
<1>1. ClockInv => NoLostWakeup
  BY DEF ClockInv
<1>2. QED
  BY <1>1, ClockInitInv, NextInv, PTL DEF ClockSpec
-----------------------------------------------------------------------------
(* Pins of one kind are not of the other, and the bounds are numbers. *)
PinsGiven == G_DATA \cap G_OUTS = {} /\ MaxRetries \in Nat /\ MaxLag \in Nat

(* The pins the last call made outputs show what was last latched. *)
Steady == level \cap gpiomask = latch \cap gpiomask

Driving == gpiomask \cap G_DATA # {}

TypeInv ==
    /\ wdata \in BOOLEAN
    /\ gpiomask \in {Mask(TRUE), Mask(FALSE)} /\ fsel = gpiomask
    /\ gpiovalu \subseteq G_OUTS \cup G_DATA
    /\ latch \subseteq G_OUTS \cup G_DATA
    /\ level \subseteq G_OUTS \cup G_DATA
    /\ value \subseteq G_OUTS \cup G_DATA
    /\ lag \in 0 .. MaxLag /\ retries \in Nat
    /\ pc \in {"idle", "direction", "update", "set0", "readback", "aborted"}

(* Between two calls and until the pins are turned round nothing moves. *)
Resting ==
    pc \in {"idle", "direction"} => Steady /\ (Driving => "DENA" \notin latch)

(* Until the comparison the latch holds the value written last. *)
Remembered ==
    pc \in {"idle", "direction", "update"} =>
        latch = gpiovalu /\ level \cap G_OUTS = latch \cap G_OUTS

Returned ==
    pc = "idle" => latch \cap gpiomask = value \cap gpiomask

Turned ==
    /\ pc \notin {"idle", "direction"} => gpiomask = Mask(wdata)
    /\ pc # "idle" => (wdata => "DENA" \notin value)
    /\ pc = "update" => Steady \/ (wdata /\ "DENA" \in latch)

Moving ==
    /\ pc = "set0" => /\ value \subseteq latch
                      /\ level \cap G_OUTS \subseteq latch
                      /\ latch \cap G_OUTS \subseteq level \cup value
    /\ pc \in {"set0", "readback", "aborted"} => gpiovalu = value
    /\ pc \in {"readback", "aborted"} => latch = value

Counted ==
    /\ pc = "readback" => retries <= lag
    /\ pc = "aborted" => MaxLag > MaxRetries

IInv == TypeInv /\ Resting /\ Remembered /\ Returned /\ Turned /\ Moving /\ Counted
-----------------------------------------------------------------------------
LEMMA InitIInv ==
  ASSUME PinsGiven, PhysInit
  PROVE  IInv
<1>1. TypeInv
  <2>1. 0 \in 0 .. MaxLag /\ 0 \in Nat
    BY DEF PinsGiven
  <2>2. gpiomask = Mask(FALSE)
    BY DEF PhysInit, Mask
  <2>3. QED
    BY <2>1, <2>2 DEF PhysInit, TypeInv
<1>2. QED
  BY <1>1 DEF PhysInit, IInv, Resting, Remembered, Returned, Turned, Moving, Counted, Steady,
              Driving, Mask, PinsGiven

(* What the pins may show next: an output shows its latch, unless it has still
   the time to show what it did, or the board drives it too. *)
LEMMA OutputShows ==
  ASSUME PinsGiven, TypeInv, NEW s \in Levels, NEW p \in gpiomask
  PROVE  \/ p \in s <=> p \in latch
         \/ lag < MaxLag /\ (p \in s <=> p \in level)
         \/ p \in G_DATA /\ "DENA" \in s
  BY DEF Levels, Shows, TypeInv, Mask, PinsGiven

LEMMA LevelsType ==
  ASSUME NEW s \in Levels
  PROVE  s \subseteq G_OUTS \cup G_DATA
  BY DEF Levels

(* A control pin moves to what is latched or not at all. *)
LEMMA ControlShows ==
  ASSUME PinsGiven, TypeInv, NEW s \in Levels, NEW p \in G_OUTS
  PROVE  \/ p \in s <=> p \in latch
         \/ lag < MaxLag /\ (p \in s <=> p \in level)
<1>1. p \in gpiomask /\ p \notin G_DATA
  BY DEF TypeInv, Mask, PinsGiven
<1>2. QED
  BY <1>1, OutputShows

LEMMA StepIInv ==
  ASSUME PinsGiven, IInv, [PhysNext]_physVars
  PROVE  IInv'
<1> USE DEF IInv
<1>1. CASE UNCHANGED physVars
  BY <1>1 DEF physVars, TypeInv, Resting, Remembered, Returned, Turned, Moving, Counted,
              Steady, Driving
<1>2. ASSUME NEW w \in BOOLEAN, NEW v \in SUBSET ({"CLK", "IRQ"} \cup G_DATA), Call(w, v)
      PROVE  IInv'
  <2>1. WithEnables(w, v) \subseteq G_OUTS \cup G_DATA /\ (w => "DENA" \notin WithEnables(w, v))
    BY DEF WithEnables, G_OUTS
  <2>2. QED
    BY <1>2, <2>1 DEF Call, device, TypeInv, Resting, Remembered, Returned, Turned, Moving,
                      Counted, Steady, Driving
<1>3. CASE Direction
  <2>1. TypeInv'
    BY <1>3 DEF Direction, TypeInv, Mask
  <2>2. gpiomask' = Mask(wdata) /\ level' \cap G_OUTS = level \cap G_OUTS
    BY <1>3 DEF Direction, TypeInv, PinsGiven
  <2>3. Steady' \/ (wdata /\ "DENA" \in latch)
    BY <1>3 DEF Direction, TypeInv, PinsGiven, Resting, Remembered, Steady, Mask, BoardDrives,
                G_OUTS
  <2>4. QED
    BY <1>3, <2>1, <2>2, <2>3
    DEF Direction, Resting, Remembered, Returned, Turned, Moving, Counted
<1>4. CASE Clr0
  <2>1. TypeInv'
    <3>1. 0 \in 0 .. MaxLag
      BY DEF PinsGiven
    <3>2. QED
      BY <1>4, <3>1 DEF Clr0, TypeInv
  <2>2. CASE Differs
    BY <1>4, <2>1, <2>2
    DEF Clr0, Resting, Remembered, Returned, Turned, Moving, Counted
  <2>3. CASE ~Differs
    <3>1. "DENA" \in gpiomask
      BY DEF TypeInv, Mask, G_OUTS
    <3>2. latch \cap gpiomask = value \cap gpiomask
      BY <1>4, <2>3 DEF Clr0, Differs, Remembered
    <3>3. Steady /\ (Driving => "DENA" \notin latch)
      BY <1>4, <3>1, <3>2 DEF Clr0, Turned, Driving, Mask, PinsGiven
    <3>4. QED
      BY <1>4, <2>1, <2>3, <3>2, <3>3
      DEF Clr0, Resting, Remembered, Returned, Turned, Moving, Counted, Steady, Driving
  <2>4. QED
    BY <2>2, <2>3
<1>5. CASE Set0
  <2>1. TypeInv'
    <3>1. 0 \in 0 .. MaxLag /\ 0 \in Nat
      BY DEF PinsGiven
    <3>2. QED
      BY <1>5, <3>1 DEF Set0, TypeInv
  <2>2. latch' = value
    BY <1>5 DEF Set0, Moving
  <2>3. QED
    BY <1>5, <2>1, <2>2
    DEF Set0, Resting, Remembered, Returned, Turned, Moving, Counted, PinsGiven
<1>6. CASE ReadBack
  <2>1. level' \subseteq G_OUTS \cup G_DATA
    BY <1>6, LevelsType DEF ReadBack
  <2>2. lag' \in 0 .. MaxLag /\ (lag < MaxLag => lag' = lag + 1)
    BY <1>6 DEF ReadBack, TypeInv, PinsGiven
  <2>3. TypeInv'
    <3>1. UNCHANGED <<gpiomask, gpiovalu, wdata, value, fsel, latch>>
      BY <1>6 DEF ReadBack
    <3>2. /\ retries' \in Nat
          /\ pc' \in {"idle", "direction", "update", "set0", "readback", "aborted"}
      BY <1>6 DEF ReadBack, TypeInv
    <3>3. QED
      BY <2>1, <2>2, <3>1, <3>2 DEF TypeInv
  <2>4. CASE level' \cap gpiomask = value \cap gpiomask
    <3>1. pc' = "idle" /\ latch' = value /\ Steady'
      BY <1>6, <2>4 DEF ReadBack, Moving, Steady
    <3>2. level' \cap G_OUTS = latch' \cap G_OUTS
      <4>1. G_OUTS \subseteq gpiomask'
        BY <2>3 DEF TypeInv, Mask
      <4>2. QED
        BY <3>1, <4>1 DEF Steady
    <3>3. Driving' => "DENA" \notin latch'
      BY <1>6, <3>1 DEF ReadBack, Turned, Driving, Mask, PinsGiven
    <3>4. QED
      BY <1>6, <2>3, <3>1, <3>2, <3>3
      DEF ReadBack, Resting, Remembered, Returned, Turned, Moving, Counted
  <2>5. CASE level' \cap gpiomask # value \cap gpiomask
    <3>1. lag < MaxLag
      <4>1. PICK p \in gpiomask : ~(p \in level' <=> p \in latch)
        BY <1>6, <2>5 DEF ReadBack, Moving
      <4>2. CASE p \in G_DATA /\ "DENA" \in level'
        <5>1. wdata
          BY <1>6, <4>2 DEF ReadBack, Turned, Mask, PinsGiven, TypeInv
        <5>2. "DENA" \notin latch
          BY <1>6, <5>1 DEF ReadBack, Turned, Moving
        <5>3. "DENA" \in G_OUTS /\ level' \in Levels
          BY <1>6 DEF ReadBack, G_OUTS
        <5>4. QED
          BY <4>2, <5>2, <5>3, ControlShows
      <4>3. CASE ~(p \in G_DATA /\ "DENA" \in level')
        BY <1>6, <4>1, <4>3, OutputShows DEF ReadBack
      <4>4. QED
        BY <4>2, <4>3
    <3>2. retries' <= lag' /\ retries' = retries + 1
      BY <1>6, <2>2, <2>5, <3>1 DEF ReadBack, TypeInv, Counted
    <3>3. TooMany(retries') => MaxLag > MaxRetries
      BY <2>2, <3>2 DEF TooMany, PinsGiven, TypeInv
    <3>4. QED
      BY <1>6, <2>3, <2>5, <3>2, <3>3
      DEF ReadBack, Resting, Remembered, Returned, Turned, Moving, Counted
  <2>6. QED
    BY <2>4, <2>5
<1>7. CASE Board
  <2>1. level' \in Levels /\ UNCHANGED <<gpiomask, gpiovalu, fsel, latch, lag, pc, wdata, value, retries>>
    BY <1>7 DEF Board
  <2>2. TypeInv'
    BY <2>1, LevelsType DEF TypeInv
  <2>3. \A p \in G_OUTS : (p \in level' <=> p \in latch) \/ (p \in level' <=> p \in level)
    BY <2>1, ControlShows
  <2>4. pc \in {"idle", "direction", "update"} => level' \cap G_OUTS = latch \cap G_OUTS
    BY <2>3 DEF Remembered
  <2>5. Steady /\ (Driving => "DENA" \notin level') => Steady'
    BY <2>1, OutputShows DEF Steady, Driving
  <2>6. "DENA" \in G_OUTS
    BY DEF G_OUTS
  <2>7. pc \in {"idle", "direction"} => Steady'
    BY <2>4, <2>5, <2>6 DEF Resting
  <2>8. pc = "update" => Steady' \/ (wdata /\ "DENA" \in latch)
    BY <2>4, <2>5, <2>6 DEF Turned, Driving, Mask, PinsGiven
  <2>9. pc = "set0" => /\ level' \cap G_OUTS \subseteq latch
                       /\ latch \cap G_OUTS \subseteq level' \cup value
    BY <2>3 DEF Moving
  <2>10. QED
    BY <2>1, <2>2, <2>4, <2>7, <2>8, <2>9
    DEF Resting, Remembered, Returned, Turned, Moving, Counted, Steady, Driving
<1>8. QED
  BY <1>1, <1>2, <1>3, <1>4, <1>5, <1>6, <1>7 DEF PhysNext

LEMMA Invariant == ASSUME PinsGiven PROVE PhysSpec => []IInv
<1>1. PhysInit => IInv
  BY InitIInv
<1>2. IInv /\ [PhysNext]_physVars => IInv'
  BY StepIInv
<1>3. QED
  BY <1>1, <1>2, PTL DEF PhysSpec

-----------------------------------------------------------------------------
(* After writegpio has returned the pins it drives show what it was asked for,
   written or left out; the data pins are never driven from both sides between
   two calls; and pins that follow within MaxRetries readings never make it
   abort (driver/physlib.cc). *)
THEOREM WritesAreShown == ASSUME PinsGiven PROVE PhysSpec => []PinsFollow
<1>1. IInv => WrittenIsShown
  BY DEF IInv, WrittenIsShown, Resting, Returned, Steady
<1>2. IInv => ContentionEnds
  BY DEF IInv, ContentionEnds, Contention, BoardDrives, Resting, Steady, Driving, TypeInv, Mask,
         Remembered, G_OUTS
<1>3. IInv => NeverAborts
  BY DEF IInv, NeverAborts, Counted, PinsGiven, TypeInv
<1>4. IInv => PinsFollow
  BY <1>1, <1>2, <1>3 DEF PinsFollow
<1>5. QED
  BY <1>4, Invariant, PTL

(* The control pins move as module Raspictl assumes: from a call to its return
   each goes from what it shows to what was asked for, once. *)
THEOREM PinsAreGpioPins == ASSUME PinsGiven PROVE PhysSpec => ImplementsPins
<1>1. PhysInit => Control!Init
  BY DEF PhysInit, Control!Init
<1>2. IInv /\ [PhysNext]_physVars => [Control!Next]_Control!vars
  <2> SUFFICES ASSUME IInv, [PhysNext]_physVars
               PROVE  [Control!Next]_Control!vars
    OBVIOUS
  <2> DEFINE Up   == (level' \ level) \cap G_OUTS
             Down == (level \ level') \cap G_OUTS
  <2> USE DEF IInv, Control!Next, Control!vars, Control!Call, Control!Move, Control!Return
  <2>1. CASE UNCHANGED physVars
    BY <2>1 DEF physVars
  <2>2. ASSUME NEW w \in BOOLEAN, NEW v \in SUBSET ({"CLK", "IRQ"} \cup G_DATA), Call(w, v)
        PROVE  Control!Call
    BY <2>2 DEF Call, device
  <2>3. CASE Direction
    BY <2>3 DEF Direction, TypeInv, PinsGiven
  <2>4. CASE Clr0
    BY <2>4 DEF Clr0, Differs, Remembered, TypeInv, Mask
  <2>5. CASE Set0
    BY <2>5 DEF Set0
  <2>6. CASE ReadBack
    <3>1. level' \in Levels /\ latch = value /\ pc = "readback"
      BY <2>6 DEF ReadBack, Moving
    <3>2. \A p \in G_OUTS : (p \in level' <=> p \in value) \/ (p \in level' <=> p \in level)
      BY <3>1, ControlShows
    <3>3. CASE pc' = "idle"
      BY <2>6, <3>3 DEF ReadBack, TypeInv, Mask
    <3>4. CASE pc' # "idle"
      <4>1. UNCHANGED <<pc, value>>  \/ (pc' = "aborted" /\ value' = value)
        BY <2>6, <3>4 DEF ReadBack
      <4>2. level' \cap G_OUTS = ((level \cap G_OUTS) \cup Up) \ Down
        OBVIOUS
      <4>3. Up \subseteq (value \cap G_OUTS) \ (level \cap G_OUTS)
        BY <3>2
      <4>4. Down \subseteq (level \cap G_OUTS) \ (value \cap G_OUTS)
        BY <3>2
      <4>5. QED
        BY <3>1, <4>1, <4>2, <4>3, <4>4
    <3>5. QED
      BY <3>3, <3>4
  <2>7. CASE Board
    <3>1. level' \in Levels /\ UNCHANGED <<pc, value>>
      BY <2>7 DEF Board
    <3>2. \A p \in G_OUTS : (p \in level' <=> p \in latch) \/ (p \in level' <=> p \in level)
      BY <3>1, ControlShows
    <3>3. CASE pc \in {"idle", "direction", "update"}
      BY <3>1, <3>2, <3>3 DEF Remembered
    <3>4. CASE pc \in {"set0", "readback", "aborted"}
      <4>1. level' \cap G_OUTS = ((level \cap G_OUTS) \cup Up) \ Down
        OBVIOUS
      <4>2. Up \subseteq (value \cap G_OUTS) \ (level \cap G_OUTS)
        BY <3>2, <3>4 DEF Moving
      <4>3. Down \subseteq (level \cap G_OUTS) \ (value \cap G_OUTS)
        BY <3>2, <3>4 DEF Moving
      <4>4. QED
        BY <3>1, <3>4, <4>1, <4>2, <4>3
    <3>5. QED
      BY <3>3, <3>4 DEF TypeInv
  <2>8. QED
    BY <2>1, <2>2, <2>3, <2>4, <2>5, <2>6, <2>7 DEF PhysNext
<1>3. QED
  BY <1>1, <1>2, Invariant, PTL DEF PhysSpec, ImplementsPins, Control!Spec

-------------------------------------------------------------------------------
(***************************************************************************)
(* PipeLib.  The invariant: there is a course of the boards, one state for *)
(* each command in the pipe, that leads from what they are to what the     *)
(* host takes them for; and while the host waits, its echo is the last     *)
(* command in the pipe or its reply is the only one on the way back.       *)
(***************************************************************************)
Vars == Cons \cup {"gpio"}
ForceCmds == [kind : {"force"}, pins : {Pins(v) : v \in Values}]
RunCmds == [kind : {"run"}]
EchoCmds == [kind : {"echo"}, seq : Nat, var : Vars]
Commands == ForceCmds \cup RunCmds \cup EchoCmds

(* What the boards come to by a command, and by all that are in the pipe. *)
Sims == [force : {Pins(v) : v \in Values}, ran : {Pins(v) : v \in Values}, time : Nat]
Sim == [force |-> forcev, ran |-> ran, time |-> simtime]
Goal == [force |-> Pins(written.valu), ran |-> Pins(atRun.valu), time |-> runs]
Leads(s, cmd, t) ==
    /\ t.force = IF cmd.kind = "force" THEN cmd.pins ELSE s.force
    /\ t.ran = IF cmd.kind = "run" THEN s.force ELSE s.ran
    /\ t.time = IF cmd.kind = "run" THEN s.time + 1 ELSE s.time
Course(d) ==
    /\ d \in Seq(Sims) /\ Len(d) = Len(toSim) + 1
    /\ d[1] = Sim /\ d[Len(d)] = Goal
    /\ \A i \in 1 .. Len(toSim) : Leads(d[i], toSim[i], d[i + 1])
ComesTo == \E d : Course(d)

Noise(line) == line.value = NoReply
Current(answer, var) ==
    /\ answer # NoReply /\ answer.time = runs /\ answer.pins = Pins(atRun.valu)
    /\ var \in Cons => answer = Shown(var, Pins(atRun.valu), runs)

Silent == \A i \in 1 .. Len(toHost) : Noise(toHost[i])
Quiet == \A i \in 1 .. Len(toSim) : toSim[i].kind # "echo"

(* The echo is the last command in the pipe. *)
Sent ==
    /\ toSim # << >>
    /\ toSim[Len(toSim)] = [kind |-> "echo", seq |-> sendseq, var |-> asking]
    /\ \A i \in 1 .. Len(toSim) - 1 : toSim[i].kind # "echo"
    /\ Silent

(* Or its reply is on the way back. *)
Replied ==
    /\ toSim = << >>
    /\ \E r \in 1 .. Len(toHost) :
          /\ toHost[r].seq = sendseq /\ Current(toHost[r].value, asking)
          /\ \A i \in 1 .. Len(toHost) : i # r => Noise(toHost[i])

PipeTypes ==
    /\ sendseq \in Nat /\ runs \in Nat
    /\ asking \in Vars \cup {"nothing"}
    /\ toSim \in Seq(Commands)
    /\ \E S : toHost \in Seq(S)
    /\ got \subseteq Cons /\ DOMAIN val = Cons
    /\ written.valu \in Values /\ atRun.valu \in Values

PipeInv ==
    /\ PipeTypes /\ ComesTo /\ CacheIsCurrent
    /\ aborted = FALSE
    /\ asking = "nothing" => Quiet /\ Silent
    /\ asking # "nothing" => Sent \/ Replied

LEMMA SimsAre ==
    ASSUME NEW s \in Sims, NEW t \in Sims, s.force = t.force, s.ran = t.ran, s.time = t.time
    PROVE  s = t
  BY DEF Sims

LEMMA PinsValue == \A v : Pins(v).valu = v
  BY DEF Pins

(* Behind an empty pipe the boards are what the host takes them for. *)
LEMMA NothingPending ==
    ASSUME ComesTo, toSim = << >>
    PROVE  forcev = Pins(written.valu) /\ ran = Pins(atRun.valu) /\ simtime = runs
<1>1. PICK d : Course(d)
  BY DEF ComesTo
<1>2. Len(d) = 1
  BY <1>1, EmptySeq DEF Course
<1>3. Sim = Goal
  BY <1>1, <1>2 DEF Course
<1> QED
  BY <1>3 DEF Sim, Goal

(* The host adds a command. *)
LEMMA CourseGrows ==
    ASSUME PipeTypes, ComesTo, NEW cmd \in Commands, toSim' = Append(toSim, cmd),
           Leads(Goal, cmd, Goal'), Goal' \in Sims, Sim' = Sim
    PROVE  ComesTo' /\ toSim' \in Seq(Commands)
<1>1. PICK d : Course(d)
  BY DEF ComesTo
<1> DEFINE n == Len(toSim)
<1>2. toSim \in Seq(Commands) /\ n \in Nat
  BY LenProperties DEF PipeTypes
<1>3. /\ toSim' \in Seq(Commands) /\ Len(toSim') = n + 1
      /\ \A i \in 1 .. n : toSim'[i] = toSim[i]
      /\ toSim'[n + 1] = cmd
  BY <1>2, AppendProperties
<1>4. d \in Seq(Sims) /\ Len(d) = n + 1 /\ d[1] = Sim /\ d[n + 1] = Goal
      /\ \A i \in 1 .. n : Leads(d[i], toSim[i], d[i + 1])
  BY <1>1 DEF Course
<1>5. PICK g : g = Goal'
  OBVIOUS
<1> DEFINE e == Append(d, g)
<1>6. /\ e \in Seq(Sims) /\ Len(e) = n + 2
      /\ \A i \in 1 .. n + 1 : e[i] = d[i]
      /\ e[n + 2] = g
  <2>1. /\ e \in Seq(Sims) /\ Len(e) = Len(d) + 1
        /\ \A i \in 1 .. Len(d) : e[i] = d[i]
        /\ e[Len(d) + 1] = g
    BY <1>4, <1>5, AppendProperties
  <2> QED
    BY <1>2, <1>4, <2>1
<1> HIDE DEF e
<1>7. e[1] = Sim'
  BY <1>2, <1>4, <1>6
<1>8. \A i \in 1 .. n + 1 : Leads(e[i], toSim'[i], e[i + 1])
  <2> SUFFICES ASSUME NEW i \in 1 .. n + 1 PROVE Leads(e[i], toSim'[i], e[i + 1])
    OBVIOUS
  <2>1. CASE i \in 1 .. n
    <3>1. e[i] = d[i] /\ e[i + 1] = d[i + 1] /\ toSim'[i] = toSim[i]
      BY <2>1, <1>2, <1>3, <1>6
    <3> QED
      BY <2>1, <3>1, <1>4
  <2>2. CASE i = n + 1
    <3>1. e[i] = Goal /\ e[i + 1] = Goal' /\ toSim'[i] = cmd
      BY <2>2, <1>2, <1>3, <1>4, <1>5, <1>6
    <3> QED
      BY <3>1
  <2> QED
    BY <2>1, <2>2, <1>2
<1>9. Course(e)'
  BY <1>2, <1>3, <1>5, <1>6, <1>7, <1>8 DEF Course
<1> QED
  BY <1>3, <1>9 DEF ComesTo

(* The simulator takes one. *)
LEMMA CourseShrinks ==
    ASSUME PipeTypes, ComesTo, toSim # << >>, toSim' = Tail(toSim),
           \A t \in Sims : Leads(Sim, toSim[1], t) => Sim' = t,
           Goal' = Goal
    PROVE  ComesTo' /\ toSim' \in Seq(Commands)
<1>1. PICK d : Course(d)
  BY DEF ComesTo
<1> DEFINE n == Len(toSim)
<1>2. toSim \in Seq(Commands) /\ n \in Nat \ {0}
  BY EmptySeq DEF PipeTypes
<1>3. /\ toSim' \in Seq(Commands) /\ Len(toSim') = n - 1
      /\ \A i \in 1 .. n - 1 : toSim'[i] = toSim[i + 1]
  BY <1>2, HeadTailProperties
<1>4. d \in Seq(Sims) /\ Len(d) = n + 1 /\ d[1] = Sim /\ d[n + 1] = Goal
      /\ \A i \in 1 .. n : Leads(d[i], toSim[i], d[i + 1])
  BY <1>1 DEF Course
<1> DEFINE e == Tail(d)
<1>5. d # << >>
  BY <1>2, <1>4, EmptySeq
<1>6. e \in Seq(Sims) /\ Len(e) = n /\ \A i \in 1 .. n : e[i] = d[i + 1]
  <2>1. e \in Seq(Sims) /\ Len(e) = Len(d) - 1 /\ \A i \in 1 .. Len(e) : e[i] = d[i + 1]
    BY <1>4, <1>5, HeadTailProperties
  <2> QED
    BY <1>2, <1>4, <2>1
<1> HIDE DEF e
<1>7. e[1] = Sim'
  <2>1. 1 \in 1 .. n /\ e[1] = d[2] /\ Leads(d[1], toSim[1], d[1 + 1])
    BY <1>2, <1>4, <1>6
  <2>2. d[2] \in Sims
    BY <1>2, <1>4, ElementOfSeq
  <2> QED
    BY <2>1, <2>2, <1>4
<1>8. e[n] = Goal'
  BY <1>2, <1>4, <1>6
<1>9. \A i \in 1 .. n - 1 : Leads(e[i], toSim'[i], e[i + 1])
  <2> SUFFICES ASSUME NEW i \in 1 .. n - 1 PROVE Leads(e[i], toSim'[i], e[i + 1])
    OBVIOUS
  <2>1. i \in 1 .. n /\ i + 1 \in 1 .. n
    BY <1>2
  <2>2. e[i] = d[i + 1] /\ e[i + 1] = d[i + 1 + 1] /\ toSim'[i] = toSim[i + 1]
    BY <2>1, <1>3, <1>6
  <2> QED
    BY <2>1, <2>2, <1>4
<1>10. Course(e)'
  <2>1. Len(e) = Len(toSim') + 1
    BY <1>2, <1>3, <1>6
  <2> QED
    BY <2>1, <1>3, <1>6, <1>7, <1>8, <1>9 DEF Course
<1> QED
  BY <1>3, <1>10 DEF ComesTo

LEMMA TypesMean ==
    ASSUME PipeTypes
    PROVE  /\ Len(toSim) \in Nat /\ Len(toHost) \in Nat
           /\ Goal \in Sims
  BY LenProperties DEF PipeTypes, Goal, Sims

LEMMA AddedLast ==
    ASSUME NEW S, NEW s \in Seq(S), NEW x
    PROVE  /\ Append(s, x) \in Seq(S \cup {x}) /\ Len(s) \in Nat
           /\ Len(Append(s, x)) = Len(s) + 1 /\ Append(s, x) # << >>
           /\ \A i \in 1 .. Len(s) : Append(s, x)[i] = s[i]
           /\ Append(s, x)[Len(s) + 1] = x
<1>1. s \in Seq(S \cup {x}) /\ x \in S \cup {x}
  BY SeqMonotonic
<1> QED
  BY <1>1, AppendProperties, LenProperties, EmptySeq

LEMMA PipeInitInv == PipeInit => PipeInv
<1> SUFFICES ASSUME PipeInit PROVE PipeInv
  OBVIOUS
<1> USE PipeAssumption
<1>1. PICK v \in Values : /\ forcev = Pins(v) /\ ran = Pins(v)
                          /\ written = [valu |-> v, wvalue |-> FALSE]
  BY DEF PipeInit
<1>2. written.valu = v /\ atRun = written
  BY <1>1 DEF PipeInit
<1>3. /\ << >> \in Seq(Commands) /\ Len(<< >>) = 0 /\ toSim = << >> /\ toHost = << >>
      /\ \E S : toHost \in Seq(S)
  BY EmptySeq DEF PipeInit
<1>4. sendseq \in Nat /\ runs = 1 /\ simtime = 1 /\ got = {} /\ DOMAIN val = Cons
      /\ asking = "nothing" /\ aborted = FALSE
  BY DEF PipeInit
<1>5. PipeTypes
  BY <1>2, <1>3, <1>4 DEF PipeTypes
<1>6. Sim = Goal
  BY <1>1, <1>2, <1>4 DEF Sim, Goal
<1>7. ComesTo
  <2> DEFINE d == << Goal >>
  <2>1. d \in Seq(Sims) /\ Len(d) = 1 /\ d[1] = Goal
    BY <1>5, TypesMean
  <2> HIDE DEF d
  <2>2. Course(d)
    BY <1>3, <1>6, <2>1 DEF Course
  <2> QED
    BY <2>2 DEF ComesTo
<1>8. Quiet /\ Silent /\ CacheIsCurrent
  BY <1>3, <1>4 DEF Quiet, Silent, CacheIsCurrent
<1> QED
  BY <1>4, <1>5, <1>7, <1>8 DEF PipeInv

LEMMA StaysQuiet ==
    ASSUME PipeTypes, Quiet, NEW cmd \in Commands, cmd.kind # "echo",
           toSim' = Append(toSim, cmd)
    PROVE  Quiet'
<1>1. /\ Len(toSim) \in Nat /\ Len(toSim') = Len(toSim) + 1
      /\ \A i \in 1 .. Len(toSim) : toSim'[i] = toSim[i]
      /\ toSim'[Len(toSim) + 1] = cmd
  BY AddedLast DEF PipeTypes
<1> QED
  BY <1>1 DEF Quiet

LEMMA writegpioStep == \A w \in BOOLEAN, v \in Values : PipeInv /\ writegpio(w, v) => PipeInv'
<1> SUFFICES ASSUME NEW w \in BOOLEAN, NEW v \in Values, PipeInv, writegpio(w, v)
             PROVE  PipeInv'
  OBVIOUS
<1> DEFINE cmd == [kind |-> "force", pins |-> Pins(v)]
<1>1. /\ asking = "nothing" /\ toSim' = Append(toSim, cmd)
      /\ written' = [valu |-> v, wvalue |-> w]
      /\ UNCHANGED hostVars /\ UNCHANGED simVars /\ toHost' = toHost
      /\ atRun' = atRun /\ runs' = runs
  BY DEF writegpio, Free, Send
<1>2. cmd \in Commands /\ cmd.kind = "force" /\ cmd.pins = Pins(v)
  BY DEF Commands, ForceCmds
<1> HIDE DEF cmd
<1>3. PipeTypes /\ ComesTo /\ CacheIsCurrent /\ Quiet /\ Silent
  BY <1>1 DEF PipeInv
<1>4. written'.valu = v
  BY <1>1
<1>5. Goal' \in Sims /\ Leads(Goal, cmd, Goal')
  BY <1>1, <1>2, <1>3, <1>4 DEF Goal, Sims, Leads, PipeTypes
<1>6. Sim' = Sim
  BY <1>1 DEF Sim, simVars
<1>7. ComesTo' /\ toSim' \in Seq(Commands)
  BY <1>1, <1>2, <1>3, <1>5, <1>6, CourseGrows
<1>8. PipeTypes'
  BY <1>1, <1>3, <1>4, <1>7 DEF PipeTypes, hostVars
<1>9. Quiet' /\ Silent'
  BY <1>1, <1>2, <1>3, StaysQuiet DEF Silent, Noise
<1>10. CacheIsCurrent' /\ asking' = "nothing" /\ aborted' = FALSE
  BY <1>1, <1>3 DEF CacheIsCurrent, hostVars, PipeInv
<1> QED
  BY <1>7, <1>8, <1>9, <1>10 DEF PipeInv

LEMMA halfcycleStep == PipeInv /\ halfcycle => PipeInv'
<1> SUFFICES ASSUME PipeInv, halfcycle PROVE PipeInv'
  OBVIOUS
<1> DEFINE cmd == [kind |-> "run"]
<1>1. /\ asking = "nothing" /\ toSim' = Append(toSim, cmd)
      /\ got' = {} /\ atRun' = written /\ runs' = runs + 1
      /\ UNCHANGED <<sendseq, asking, val, aborted>> /\ UNCHANGED simVars /\ toHost' = toHost
      /\ written' = written
  BY DEF halfcycle, Free, Send
<1>2. cmd \in Commands /\ cmd.kind = "run"
  BY DEF Commands, RunCmds
<1> HIDE DEF cmd
<1>3. PipeTypes /\ ComesTo /\ CacheIsCurrent /\ Quiet /\ Silent
  BY <1>1 DEF PipeInv
<1>4. Goal' \in Sims /\ Leads(Goal, cmd, Goal')
  BY <1>1, <1>2, <1>3 DEF Goal, Sims, Leads, PipeTypes
<1>5. Sim' = Sim
  BY <1>1 DEF Sim, simVars
<1>6. ComesTo' /\ toSim' \in Seq(Commands)
  BY <1>1, <1>2, <1>3, <1>4, <1>5, CourseGrows
<1>7. PipeTypes'
  BY <1>1, <1>3, <1>6 DEF PipeTypes
<1>8. Quiet' /\ Silent'
  BY <1>1, <1>2, <1>3, StaysQuiet DEF Silent, Noise
<1>9. CacheIsCurrent' /\ asking' = "nothing" /\ aborted' = FALSE
  BY <1>1 DEF CacheIsCurrent, PipeInv
<1> QED
  BY <1>6, <1>7, <1>8, <1>9 DEF PipeInv

LEMMA AskStep ==
    ASSUME PipeInv, NEW var \in Vars, asking = "nothing", Ask(var),
           UNCHANGED <<got, val, aborted>>, UNCHANGED simVars, toHost' = toHost,
           UNCHANGED history
    PROVE  PipeInv'
<1> DEFINE cmd == [kind |-> "echo", seq |-> sendseq', var |-> var]
<1>1. sendseq' = (sendseq + 1) % SeqMod /\ asking' = var /\ toSim' = Append(toSim, cmd)
  BY DEF Ask, Send
<1>2. PipeTypes /\ ComesTo /\ CacheIsCurrent /\ Quiet /\ Silent
  BY DEF PipeInv
<1>3. sendseq' \in Nat
  BY <1>1, <1>2, PipeAssumption DEF PipeTypes
<1>4. cmd \in Commands /\ cmd.kind = "echo" /\ cmd.seq = sendseq' /\ cmd.var = asking'
  BY <1>1, <1>3 DEF Commands, EchoCmds
<1>5. cmd = [kind |-> "echo", seq |-> sendseq', var |-> asking']
  BY <1>1
<1> HIDE DEF cmd
<1>6. Goal' = Goal /\ Goal \in Sims /\ Leads(Goal, cmd, Goal')
  BY <1>2, <1>4, TypesMean DEF Goal, history, Leads
<1>7. Sim' = Sim
  BY DEF Sim, simVars
<1>8. ComesTo' /\ toSim' \in Seq(Commands)
  BY <1>1, <1>2, <1>4, <1>6, <1>7, CourseGrows
<1>9. PipeTypes'
  BY <1>1, <1>2, <1>3, <1>8 DEF PipeTypes, history
<1>10. /\ Len(toSim) \in Nat /\ Len(toSim') = Len(toSim) + 1 /\ toSim' # << >>
       /\ \A i \in 1 .. Len(toSim) : toSim'[i] = toSim[i]
       /\ toSim'[Len(toSim) + 1] = cmd
  BY <1>1, <1>2, AddedLast DEF PipeTypes
<1>11. Silent'
  BY <1>2 DEF Silent, Noise
<1>12. Sent'
  <2>1. toSim'[Len(toSim')] = [kind |-> "echo", seq |-> sendseq', var |-> asking']
    BY <1>5, <1>10
  <2>2. \A i \in 1 .. Len(toSim') - 1 : toSim'[i].kind # "echo"
    BY <1>2, <1>10 DEF Quiet
  <2> QED
    BY <1>10, <1>11, <2>1, <2>2 DEF Sent
<1>13. CacheIsCurrent' /\ aborted' = FALSE /\ asking' # "nothing"
  BY <1>1, <1>2, PipeAssumption DEF CacheIsCurrent, history, PipeInv, Vars
<1> QED
  BY <1>8, <1>9, <1>12, <1>13 DEF PipeInv

LEMMA readgpioStep == PipeInv /\ readgpio => PipeInv'
  BY AskStep DEF readgpio, Free, Vars

LEMMA readconStep == \A c \in Cons : PipeInv /\ readcon(c) => PipeInv'
<1> SUFFICES ASSUME NEW c \in Cons, PipeInv, readcon(c) PROVE PipeInv'
  OBVIOUS
<1>1. CASE c \in got
  <2>1. /\ UNCHANGED <<sendseq, asking, toSim, got, val, aborted, toHost>>
        /\ UNCHANGED simVars /\ UNCHANGED history
    BY <1>1 DEF readcon
  <2>2. Sim' = Sim /\ Goal' = Goal
    BY <2>1 DEF Sim, Goal, simVars, history
  <2>3. ComesTo'
    <3>1. PICK d : Course(d)
      BY DEF PipeInv, ComesTo
    <3>2. Course(d)'
      BY <2>1, <2>2, <3>1 DEF Course
    <3> QED
      BY <3>2 DEF ComesTo
  <2>4. PipeTypes' /\ CacheIsCurrent'
    BY <2>1 DEF PipeInv, PipeTypes, CacheIsCurrent, history
  <2>5. asking = "nothing" /\ Quiet' /\ Silent'
    BY <2>1 DEF readcon, Free, PipeInv, Quiet, Silent, Noise
  <2> QED
    BY <2>1, <2>3, <2>4, <2>5 DEF PipeInv
<1>2. CASE c \notin got
  BY <1>2, AskStep DEF readcon, Free, Vars
<1> QED
  BY <1>1, <1>2

HostStays == UNCHANGED hostVars /\ UNCHANGED history

(* A command other than echo is taken: the rest is as it was. *)
LEMMA TakenFromPipe ==
    ASSUME PipeInv, HostStays, toSim # << >>, Head(toSim).kind # "echo",
           toSim' = Tail(toSim), toHost' = toHost,
           \A t \in Sims : Leads(Sim, toSim[1], t) => Sim' = t
    PROVE  PipeInv'
<1>1. PipeTypes /\ ComesTo /\ CacheIsCurrent /\ aborted = FALSE
  BY DEF PipeInv
<1>2. Goal' = Goal
  BY DEF HostStays, Goal, history
<1>3. ComesTo' /\ toSim' \in Seq(Commands)
  BY <1>1, <1>2, CourseShrinks
<1>4. PipeTypes'
  BY <1>1, <1>3 DEF PipeTypes, HostStays, hostVars, history
<1>5. CacheIsCurrent' /\ aborted' = FALSE /\ asking' = asking /\ sendseq' = sendseq
  BY <1>1 DEF CacheIsCurrent, HostStays, hostVars, history
<1> DEFINE n == Len(toSim)
<1>6. /\ n \in Nat \ {0} /\ Len(toSim') = n - 1
      /\ \A i \in 1 .. n - 1 : toSim'[i] = toSim[i + 1]
  <2>1. toSim \in Seq(Commands) /\ n \in Nat \ {0}
    BY <1>1, EmptySeq DEF PipeTypes
  <2> QED
    BY <2>1, HeadTailProperties
<1>7. toSim[1].kind # "echo"
  OBVIOUS
<1> HIDE DEF n
<1>8. Silent => Silent'
  BY DEF Silent, Noise
<1>9. ASSUME asking = "nothing" PROVE Quiet' /\ Silent'
  <2>1. Quiet /\ Silent
    BY <1>9 DEF PipeInv
  <2>2. \A i \in 1 .. n - 1 : i + 1 \in 1 .. n
    BY <1>6
  <2>3. \A i \in 1 .. n - 1 : toSim'[i].kind # "echo"
    BY <1>6, <2>1, <2>2 DEF Quiet, n
  <2> QED
    BY <1>6, <1>8, <2>1, <2>3 DEF Quiet
<1>10. ASSUME asking # "nothing" PROVE Sent'
  <2>1. Sent
    BY <1>10 DEF PipeInv, Replied
  <2>2. toSim[n] = [kind |-> "echo", seq |-> sendseq, var |-> asking]
    BY <2>1 DEF Sent, n
  <2>3. n # 1
    BY <1>7, <2>2
  <2>4. toSim' # << >>
    <3>1. Len(<< >>) = 0
      BY EmptySeq
    <3>2. Len(toSim') # 0
      BY <1>6, <2>3
    <3> QED
      BY <3>1, <3>2
  <2>5. toSim'[n - 1] = toSim[n]
    BY <1>6, <2>3
  <2>6. \A i \in 1 .. n - 1 - 1 : toSim'[i].kind # "echo"
    <3>1. \A i \in 1 .. n - 1 - 1 : i \in 1 .. n - 1 /\ i + 1 \in 1 .. n - 1
      BY <1>6
    <3>2. \A i \in 1 .. n - 1 : toSim[i].kind # "echo"
      BY <2>1 DEF Sent, n
    <3> QED
      BY <1>6, <3>1, <3>2
  <2>7. Silent'
    BY <1>8, <2>1 DEF Sent
  <2> QED
    BY <1>5, <1>6, <2>2, <2>4, <2>5, <2>6, <2>7 DEF Sent
<1> QED
  BY <1>3, <1>4, <1>5, <1>9, <1>10 DEF PipeInv

LEMMA SimRunStep == PipeInv /\ SimRun => PipeInv'
<1> SUFFICES ASSUME PipeInv, SimRun PROVE PipeInv'
  OBVIOUS
<1>1. /\ toSim # << >> /\ Head(toSim).kind = "run" /\ toSim' = Tail(toSim)
      /\ ran' = forcev /\ simtime' = simtime + 1 /\ forcev' = forcev /\ toHost' = toHost
      /\ HostStays
  BY DEF SimRun, Take, HostStays
<1>2. toSim[1].kind = "run"
  BY <1>1
<1>3. \A t \in Sims : Leads(Sim, toSim[1], t) => Sim' = t
  <2> SUFFICES ASSUME NEW t \in Sims, Leads(Sim, toSim[1], t) PROVE Sim' = t
    OBVIOUS
  <2>1. t.force = forcev /\ t.ran = forcev /\ t.time = simtime + 1
    BY <1>2 DEF Leads, Sim
  <2> QED
    BY <1>1, <2>1 DEF Sim, Sims
<1> QED
  BY <1>1, <1>3, TakenFromPipe

LEMMA SimForceStep == PipeInv /\ SimForce => PipeInv'
<1> SUFFICES ASSUME PipeInv, SimForce PROVE PipeInv'
  OBVIOUS
<1>1. /\ toSim # << >> /\ Head(toSim).kind = "force" /\ toSim' = Tail(toSim)
      /\ forcev' = Head(toSim).pins /\ UNCHANGED <<ran, simtime>> /\ toHost' = toHost
      /\ HostStays
  BY DEF SimForce, Take, HostStays
<1>2. toSim[1].kind = "force" /\ toSim[1].pins = forcev'
  BY <1>1
<1>3. \A t \in Sims : Leads(Sim, toSim[1], t) => Sim' = t
  <2> SUFFICES ASSUME NEW t \in Sims, Leads(Sim, toSim[1], t) PROVE Sim' = t
    OBVIOUS
  <2>1. t.force = forcev' /\ t.ran = ran /\ t.time = simtime
    BY <1>2 DEF Leads, Sim
  <2> QED
    BY <1>1, <2>1 DEF Sim, Sims
<1> QED
  BY <1>1, <1>3, TakenFromPipe

(* The echo is answered when everything before it is done. *)
LEMMA SimEchoStep == PipeInv /\ SimEcho => PipeInv'
<1> SUFFICES ASSUME PipeInv, SimEcho PROVE PipeInv'
  OBVIOUS
<1> DEFINE n == Len(toSim)  cmd == toSim[1]
           reply == [seq |-> cmd.seq, value |-> Sampled(cmd.var)]
<1>1. /\ toSim # << >> /\ cmd.kind = "echo" /\ toSim' = Tail(toSim)
      /\ toHost' = Append(toHost, reply)
      /\ UNCHANGED simVars /\ HostStays
  BY DEF SimEcho, Take, HostStays
<1>2. PipeTypes /\ ComesTo /\ CacheIsCurrent /\ aborted = FALSE
  BY DEF PipeInv
<1>3. toSim \in Seq(Commands) /\ n \in Nat \ {0}
  BY <1>1, <1>2, EmptySeq DEF PipeTypes
<1>4. asking # "nothing"
  BY <1>1, <1>3 DEF PipeInv, Quiet
<1>5. Sent
  BY <1>1, <1>4 DEF PipeInv, Replied
<1>6. n = 1 /\ cmd = [kind |-> "echo", seq |-> sendseq, var |-> asking]
  <2>1. ~(n > 1)
    BY <1>1, <1>3, <1>5 DEF Sent
  <2>2. n = 1
    <3>1. n \in Nat \ {0}
      BY <1>3
    <3> HIDE DEF n
    <3> QED
      BY <2>1, <3>1
  <2> QED
    BY <1>5, <2>2 DEF Sent
<1>7. toSim' = << >>
  BY <1>1, <1>3, <1>6, HeadTailProperties, EmptySeq
<1>8. Sim = Goal
  <2>1. PICK d : Course(d)
    BY <1>2 DEF ComesTo
  <2>2. d \in Seq(Sims) /\ Len(d) = 2 /\ d[1] = Sim /\ d[2] = Goal /\ Leads(d[1], cmd, d[1 + 1])
    BY <1>6, <2>1 DEF Course
  <2>3. Goal.force = Sim.force /\ Goal.ran = Sim.ran /\ Goal.time = Sim.time
    BY <1>6, <2>2 DEF Leads
  <2> QED
    BY <2>3 DEF Sim, Goal
<1>9. forcev = Pins(written.valu) /\ ran = Pins(atRun.valu) /\ simtime = runs
  BY <1>8 DEF Sim, Goal
<1>10. PICK line : line = reply
  OBVIOUS
<1>11. line.seq = sendseq /\ line.value = Sampled(asking) /\ toHost' = Append(toHost, line)
  BY <1>1, <1>6, <1>10
<1>12. runs' = runs /\ atRun' = atRun /\ asking' = asking /\ sendseq' = sendseq
       /\ got' = got /\ val' = val /\ aborted' = aborted /\ written' = written
  BY <1>1 DEF HostStays, hostVars, history
<1>13. Current(line.value, asking)'
  <2>1. asking \in Vars /\ asking # "nothing"
    BY <1>2, <1>4 DEF PipeTypes
  <2>2. /\ Sampled(asking).var = asking /\ Sampled(asking).time = runs
        /\ Sampled(asking).pins = Pins(atRun.valu)
        /\ asking \in Cons => Sampled(asking) = Shown(asking, Pins(atRun.valu), runs)
    BY <1>9, PipeAssumption DEF Sampled, Shown
  <2>3. Sampled(asking) # NoReply
    BY <2>1, <2>2 DEF NoReply
  <2> QED
    BY <1>11, <1>12, <2>2, <2>3 DEF Current
<1> HIDE DEF n, cmd, reply
<1>14. PICK S : toHost \in Seq(S)
  BY <1>2 DEF PipeTypes
<1> DEFINE m == Len(toHost)
<1>15. /\ toHost' \in Seq(S \cup {line}) /\ m \in Nat /\ Len(toHost') = m + 1
       /\ \A i \in 1 .. m : toHost'[i] = toHost[i]
       /\ toHost'[m + 1] = line
  BY <1>11, <1>14, AddedLast
<1>16. \A i \in 1 .. m : Noise(toHost[i])
  BY <1>5 DEF Sent, Silent
<1> HIDE DEF m
<1>17. Replied'
  <2>1. m + 1 \in 1 .. Len(toHost')
    BY <1>15
  <2>2. PICK k \in 1 .. Len(toHost') : k = m + 1
    BY <2>1
  <2>3. \A i \in 1 .. Len(toHost') : i # k => Noise(toHost'[i])
    <3>1. \A i \in 1 .. Len(toHost') : i # k => i \in 1 .. m
      BY <1>15, <2>2
    <3> QED
      BY <1>15, <1>16, <3>1 DEF Noise
  <2>4. toHost'[k] = line
    BY <1>15, <2>2
  <2>5. toHost'[k].seq = sendseq' /\ Current(toHost[k].value, asking)'
    BY <1>11, <1>12, <1>13, <2>4 DEF Current
  <2> QED
    BY <1>7, <2>3, <2>5 DEF Replied
<1>18. ComesTo'
  <2> DEFINE d == << Goal >>
  <2>1. d \in Seq(Sims) /\ Len(d) = 1 /\ d[1] = Goal
    BY <1>2, TypesMean
  <2>2. Goal' = Goal /\ Sim' = Sim /\ Len(toSim') = 0
    BY <1>1, <1>7, <1>12, EmptySeq DEF Goal, Sim, simVars
  <2>3. PICK e : e = d
    OBVIOUS
  <2> HIDE DEF d
  <2>6. e \in Seq(Sims) /\ Len(e) = 1 /\ e[1] = Goal' /\ e[1] = Sim'
    BY <1>8, <2>1, <2>2, <2>3 DEF d
  <2>4. Course(e)'
    BY <2>2, <2>6 DEF Course
  <2> QED
    BY <2>4 DEF ComesTo
<1>19. PipeTypes'
  <2>1. toSim' \in Seq(Commands)
    BY <1>7, EmptySeq
  <2> QED
    BY <1>2, <1>12, <1>15, <2>1 DEF PipeTypes
<1>20. CacheIsCurrent'
  BY <1>2, <1>12 DEF CacheIsCurrent
<1> QED
  BY <1>2, <1>4, <1>12, <1>17, <1>18, <1>19, <1>20 DEF PipeInv

LEMMA ComesToSame ==
    ASSUME ComesTo, toSim' = toSim, UNCHANGED simVars, UNCHANGED history
    PROVE  ComesTo'
<1>1. PICK d : Course(d)
  BY DEF ComesTo
<1>2. Sim' = Sim /\ Goal' = Goal
  BY DEF Sim, Goal, simVars, history
<1>3. Course(d)'
  BY <1>1, <1>2 DEF Course
<1> QED
  BY <1>3 DEF ComesTo

(* Other output comes behind or between replies, never in place of one. *)
LEMMA SimPrintsStep == PipeInv /\ SimPrints => PipeInv'
<1> SUFFICES ASSUME PipeInv, SimPrints PROVE PipeInv'
  OBVIOUS
<1> DEFINE line == [seq |-> SeqMod, value |-> NoReply]
<1>1. /\ toHost' = Append(toHost, line) /\ toSim' = toSim
      /\ UNCHANGED simVars /\ UNCHANGED hostVars /\ UNCHANGED history
  BY DEF SimPrints
<1>2. PipeTypes /\ ComesTo /\ CacheIsCurrent /\ aborted = FALSE
  BY DEF PipeInv
<1>3. Noise(line)
  BY DEF Noise
<1> HIDE DEF line
<1>4. PICK S : toHost \in Seq(S)
  BY <1>2 DEF PipeTypes
<1> DEFINE m == Len(toHost)
<1>5. /\ toHost' \in Seq(S \cup {line}) /\ m \in Nat /\ Len(toHost') = m + 1
      /\ \A i \in 1 .. m : toHost'[i] = toHost[i]
      /\ toHost'[m + 1] = line
  BY <1>1, <1>4, AddedLast
<1>6. \A i \in 1 .. Len(toHost') : i \in 1 .. m \/ Noise(toHost'[i])
  <2>1. \A i \in 1 .. Len(toHost') : i \in 1 .. m \/ i = m + 1
    BY <1>5
  <2> QED
    BY <1>3, <1>5, <2>1
<1>7. /\ runs' = runs /\ atRun' = atRun /\ asking' = asking /\ sendseq' = sendseq
      /\ got' = got /\ val' = val /\ aborted' = aborted /\ written' = written
  BY <1>1 DEF hostVars, history
<1>8. PipeTypes'
  BY <1>1, <1>2, <1>5, <1>7 DEF PipeTypes
<1>9. ComesTo'
  BY <1>1, <1>2, ComesToSame
<1>10. Silent => Silent'
  BY <1>5, <1>6 DEF Silent, Noise
<1>11. Quiet => Quiet'
  BY <1>1 DEF Quiet
<1>12. Sent => Sent'
  BY <1>1, <1>7, <1>10 DEF Sent
<1>13. ASSUME Replied PROVE Replied'
  <2>1. PICK r \in 1 .. m :
           /\ toHost[r].seq = sendseq /\ Current(toHost[r].value, asking)
           /\ \A i \in 1 .. m : i # r => Noise(toHost[i])
    BY <1>13 DEF Replied
  <2>2. r \in 1 .. Len(toHost') /\ toHost'[r] = toHost[r]
    BY <1>5
  <2>3. toHost'[r].seq = sendseq' /\ Current(toHost[r].value, asking)'
    BY <1>7, <2>1, <2>2 DEF Current
  <2>4. \A i \in 1 .. Len(toHost') : i # r => Noise(toHost'[i])
    BY <1>5, <1>6, <2>1
  <2> QED
    BY <1>1, <1>13, <2>2, <2>3, <2>4 DEF Replied
<1>14. CacheIsCurrent'
  BY <1>2, <1>7 DEF CacheIsCurrent
<1> QED
  BY <1>2, <1>7, <1>8, <1>9, <1>10, <1>11, <1>12, <1>13, <1>14 DEF PipeInv

(* What is read next is other output, or the reply. *)
LEMMA NextLine ==
    ASSUME PipeInv, asking # "nothing", toHost # << >>, ~Skip
    PROVE  /\ toSim = << >> /\ toHost[1].seq = sendseq /\ Current(toHost[1].value, asking)
           /\ \A i \in 1 .. Len(toHost) : i # 1 => Noise(toHost[i])
<1>1. PICK S : toHost \in Seq(S)
  BY DEF PipeInv, PipeTypes
<1>2. Len(toHost) \in Nat \ {0} /\ 1 \in 1 .. Len(toHost)
  BY <1>1, EmptySeq
<1>3. ~Noise(toHost[1])
  BY DEF Skip, Noise
<1>4. ~Sent
  BY <1>2, <1>3 DEF Sent, Silent
<1>5. Replied
  BY <1>4 DEF PipeInv
<1>6. PICK r \in 1 .. Len(toHost) :
           /\ toHost[r].seq = sendseq /\ Current(toHost[r].value, asking)
           /\ \A i \in 1 .. Len(toHost) : i # r => Noise(toHost[i])
  BY <1>5 DEF Replied
<1>7. r = 1
  BY <1>2, <1>3, <1>6
<1> QED
  BY <1>5, <1>6, <1>7 DEF Replied

LEMMA ReceiveStep == PipeInv /\ Receive => PipeInv'
<1> SUFFICES ASSUME PipeInv, Receive PROVE PipeInv'
  OBVIOUS
<1>1. /\ asking # "nothing" /\ toHost # << >> /\ toHost' = Tail(toHost) /\ toSim' = toSim
      /\ UNCHANGED simVars /\ UNCHANGED history
  BY DEF Receive
<1>2. PipeTypes /\ ComesTo /\ CacheIsCurrent /\ aborted = FALSE
  BY DEF PipeInv
<1>3. ComesTo'
  BY <1>1, <1>2, ComesToSame
<1>4. PICK S : toHost \in Seq(S)
  BY <1>2 DEF PipeTypes
<1> DEFINE m == Len(toHost)
<1>5. m \in Nat \ {0} /\ toHost' \in Seq(S) /\ Len(toHost') = m - 1
      /\ \A i \in 1 .. m - 1 : toHost'[i] = toHost[i + 1]
  <2>1. m \in Nat \ {0}
    BY <1>1, <1>4, EmptySeq
  <2> QED
    BY <1>1, <1>4, <2>1, HeadTailProperties
<1>6. runs' = runs /\ atRun' = atRun /\ written' = written
  BY <1>1 DEF history
<1>7. \A i \in 1 .. m - 1 : i + 1 \in 1 .. m /\ i + 1 # 1
  BY <1>5
<1>8. CASE Skip
  <2>1. UNCHANGED hostVars
    BY <1>8 DEF Receive
  <2>2. /\ asking' = asking /\ sendseq' = sendseq /\ got' = got /\ val' = val
        /\ aborted' = aborted
    BY <2>1 DEF hostVars
  <2>3. PipeTypes'
    BY <1>1, <1>2, <1>5, <1>6, <2>2 DEF PipeTypes
  <2>4. CacheIsCurrent'
    BY <1>2, <1>6, <2>2 DEF CacheIsCurrent
  <2>5. ASSUME Sent PROVE Sent'
    <3>1. Silent'
      BY <1>5, <1>7, <2>5 DEF Sent, Silent, Noise
    <3> QED
      BY <1>1, <2>2, <2>5, <3>1 DEF Sent
  <2>6. ASSUME Replied PROVE Replied'
    <3>1. PICK r \in 1 .. m :
             /\ toHost[r].seq = sendseq /\ Current(toHost[r].value, asking)
             /\ \A i \in 1 .. m : i # r => Noise(toHost[i])
      BY <2>6 DEF Replied
    <3>2. r # 1
      BY <1>8, <3>1 DEF Skip, Current
    <3>3. PICK k \in 1 .. m - 1 : k + 1 = r
      <4>1. r - 1 \in 1 .. m - 1 /\ r - 1 + 1 = r
        BY <1>5, <3>2
      <4> QED
        BY <4>1
    <3>4. k \in 1 .. Len(toHost') /\ toHost'[k] = toHost[r]
      BY <1>5, <3>3
    <3>5. toHost'[k].seq = sendseq' /\ Current(toHost[k].value, asking)'
      BY <1>6, <2>2, <3>1, <3>4 DEF Current
    <3>6. \A i \in 1 .. Len(toHost') : i # k => Noise(toHost'[i])
      <4> SUFFICES ASSUME NEW i \in 1 .. Len(toHost'), i # k PROVE Noise(toHost'[i])
        OBVIOUS
      <4>1. i \in 1 .. m - 1 /\ i + 1 # r
        BY <1>5, <3>3
      <4> QED
        BY <1>5, <1>7, <3>1, <4>1
    <3> QED
      BY <1>1, <2>6, <3>4, <3>5, <3>6 DEF Replied
  <2> QED
    BY <1>1, <1>2, <1>3, <2>2, <2>3, <2>4, <2>5, <2>6 DEF PipeInv
<1>9. CASE ~Skip
  <2>1. /\ toSim = << >> /\ toHost[1].seq = sendseq /\ Current(toHost[1].value, asking)
        /\ \A i \in 1 .. m : i # 1 => Noise(toHost[i])
    BY <1>1, <1>9, NextLine
  <2>2. /\ asking' = "nothing" /\ sendseq' = sendseq /\ aborted' = aborted
        /\ result' = toHost[1].value
        /\ IF asking \in Cons
             THEN got' = got \cup {asking} /\ val' = [val EXCEPT ![asking] = result']
             ELSE got' = got /\ val' = val
    BY <1>9, <2>1 DEF Receive
  <2>3. PipeTypes'
    BY <1>1, <1>2, <1>5, <1>6, <2>2 DEF PipeTypes
  <2>4. Quiet'
    BY <1>1, <2>1, EmptySeq DEF Quiet
  <2>5. Silent'
    BY <1>5, <1>7, <2>1 DEF Silent, Noise
  <2>6. CacheIsCurrent'
    BY <1>2, <1>6, <2>1, <2>2 DEF CacheIsCurrent, Current, PipeTypes
  <2> QED
    BY <1>2, <1>3, <2>2, <2>3, <2>4, <2>5, <2>6 DEF PipeInv
<1> QED
  BY <1>8, <1>9

LEMMA PipeStutterStep == PipeInv /\ UNCHANGED pipeVars => PipeInv'
<1> SUFFICES ASSUME PipeInv, UNCHANGED pipeVars PROVE PipeInv'
  OBVIOUS
<1>1. /\ runs' = runs /\ atRun' = atRun /\ asking' = asking /\ sendseq' = sendseq
      /\ got' = got /\ val' = val /\ aborted' = aborted /\ written' = written
      /\ toSim' = toSim /\ toHost' = toHost /\ UNCHANGED simVars /\ UNCHANGED history
  BY DEF pipeVars, hostVars, history
<1>2. ComesTo'
  BY <1>1, ComesToSame DEF PipeInv
<1>3. PipeTypes' /\ CacheIsCurrent'
  BY <1>1 DEF PipeInv, PipeTypes, CacheIsCurrent
<1>4. (Quiet => Quiet') /\ (Silent => Silent')
  BY <1>1 DEF Quiet, Silent, Noise
<1>5. (Sent => Sent') /\ (Replied => Replied')
  BY <1>1, <1>4 DEF Sent, Replied, Noise, Current
<1> QED
  BY <1>1, <1>2, <1>3, <1>4, <1>5 DEF PipeInv

LEMMA PipeStep == PipeInv /\ [PipeNext]_pipeVars => PipeInv'
<1> SUFFICES ASSUME PipeInv, [PipeNext]_pipeVars PROVE PipeInv'
  OBVIOUS
<1>1. ASSUME HostCalls PROVE PipeInv'
  BY <1>1, writegpioStep, halfcycleStep, readgpioStep, readconStep DEF HostCalls
<1>2. ASSUME SimStep PROVE PipeInv'
  BY <1>2, SimRunStep, SimForceStep, SimEchoStep DEF SimStep
<1> QED
  BY <1>1, <1>2, SimPrintsStep, ReceiveStep, PipeStutterStep DEF PipeNext

LEMMA PipeInvHolds == PipeSpec => []PipeInv
  BY PipeInitInv, PipeStep, PTL DEF PipeSpec

(***************************************************************************)
(* However far the simulator is behind, whatever it prints between replies *)
(* and wherever the sequence numbers begin, a read returns what the boards *)
(* show after every call before it, and so does what is cached             *)
(* (pipelib.cc, examine).                                                  *)
(***************************************************************************)
THEOREM ReadsAreCurrent == PipeSpec => UpToDate
<1> DEFINE A == /\ result' # result => result'.time = runs /\ result'.pins.valu = atRun.valu
                /\ CacheIsCurrent'
<1>1. PipeInv /\ [PipeNext]_pipeVars => [A]_pipeVars
  <2> SUFFICES ASSUME PipeInv, PipeNext
               PROVE  A
    BY PipeStep
  <2>1. CacheIsCurrent'
    BY PipeStep DEF PipeInv
  <2>2. ASSUME result' # result PROVE result'.time = runs /\ result'.pins.valu = atRun.valu
    <3>1. CASE \E c \in Cons : readcon(c)
      <4>1. PICK c \in Cons : readcon(c)
        BY <3>1
      <4>2. c \in got /\ result' = val[c]
        BY <2>2, <4>1 DEF readcon
      <4>3. val[c] = Shown(c, Pins(atRun.valu), runs)
        BY <4>2 DEF PipeInv, CacheIsCurrent
      <4> QED
        BY <4>2, <4>3, PinsValue DEF Shown
    <3>2. CASE Receive
      <4>1. ~Skip /\ asking # "nothing" /\ toHost # << >>
        BY <2>2, <3>2 DEF Receive, hostVars
      <4>2. toHost[1].seq = sendseq /\ Current(toHost[1].value, asking)
        BY <4>1, NextLine
      <4>3. result' = toHost[1].value
        BY <2>2, <3>2, <4>1 DEF Receive
      <4> QED
        BY <4>2, <4>3, PinsValue DEF Current
    <3>3. CASE ~Receive /\ ~(\E c \in Cons : readcon(c))
      <4>1. result' = result
        BY <3>3 DEF PipeNext, HostCalls, SimStep, writegpio, halfcycle, readgpio, SimRun,
           SimForce, SimEcho, SimPrints, hostVars
      <4> QED
        BY <2>2, <4>1
    <3> QED
      BY <3>1, <3>2, <3>3
  <2> QED
    BY <2>1, <2>2
<1> QED
  BY <1>1, PipeInvHolds, PTL DEF PipeSpec, UpToDate

(* The sequence numbers of examine agree: it never aborts. *)
THEOREM NeverOutOfStep == PipeSpec => []~aborted
<1>1. PipeInv => ~aborted
  BY DEF PipeInv
<1> QED
  BY <1>1, PipeInvHolds, PTL
===============================================================================
