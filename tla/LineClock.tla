------------------------------ MODULE LineClock ------------------------------
(***************************************************************************)
(* The line clock of driver/raspictl.cc: the main thread, which makes the  *)
(* calls SCN_IRQATNS and SCN_INTREQ and waits at HALT, and the background  *)
(* thread lineclockthread, which posts IRQ_LINECLOCK when a time comes.    *)
(*                                                                         *)
(* Whatever a thread does between taking intreqlock and releasing it, or   *)
(* waiting on a condition variable, is one step, so the mutex itself does  *)
(* not appear.  A thread that a condition variable or the clock has let go *)
(* takes the mutex again in a later step: others may come first.           *)
(*                                                                         *)
(* Times are nanoseconds since 1970, scaled down with NsPerSec; MaxTime    *)
(* and MaxCalls are bounds.                                                *)
(***************************************************************************)
EXTENDS Integers

CONSTANTS
    Threads,    \* identities for the threads that pthread_create makes
    NsPerSec,   \* 1000000000 in the code
    MaxTime,    \* bound on the clock and on the times asked for
    MaxCalls    \* bound on the calls of the program

ASSUME LineClockAssumption ==
    /\ NsPerSec \in Nat \ {0}
    /\ MaxTime \in Nat /\ MaxTime >= NsPerSec
    /\ MaxCalls \in Nat

VARIABLES
    main,          \* "run", "waiting" at HALT or "signalled" there
    thread,        \* where each line clock thread stands
    deadline,      \* the time a thread in pthread_cond_timedwait waits for
    lineclockabs, lineclockrun, intreqreg,
    now, calls     \* the clock; the calls made so far

clockVars == <<main, thread, deadline, lineclockabs, lineclockrun, intreqreg, now, calls>>

(* lineclockabs.tv_sec != 0 *)
Armed == lineclockabs >= NsPerSec

Live(t) == thread[t] # "none"
Waiting(t) == thread[t] \in {"timedwait", "wait"}
-----------------------------------------------------------------------------
(* The main thread.  SCN_IRQATNS takes a time, or zero to stop; it withdraws
   the request that is up, has a thread created for a time other than zero if
   there is none, and wakes the thread there is.  Mutant: it
   wakes only a thread with a time limit. *)
Woken_timed == [t \in Threads |-> IF thread[t] = "timedwait" THEN "woken" ELSE thread[t]]
Woken == [t \in Threads |-> IF Waiting(t) THEN "woken" ELSE thread[t]]

IrqAtNs(irqatns) ==
    /\ main = "run"
    /\ calls < MaxCalls
    /\ intreqreg' = intreqreg \ {"LINECLOCK"}
    /\ lineclockabs' = irqatns
    /\ IF irqatns # 0 /\ ~lineclockrun
       THEN /\ lineclockrun' = TRUE
            /\ \E t \in Threads : ~Live(t) /\ thread' = [Woken EXCEPT ![t] = "created"]
       ELSE thread' = Woken /\ UNCHANGED lineclockrun
    /\ calls' = calls + 1
    /\ UNCHANGED <<main, deadline, now>>

IntReq(code) ==
    /\ main = "run"
    /\ calls < MaxCalls
    /\ intreqreg' = IF code THEN intreqreg \union {"SCNINTREQ"}
                    ELSE intreqreg \ {"SCNINTREQ"}
    /\ calls' = calls + 1
    /\ UNCHANGED <<main, thread, deadline, lineclockabs, lineclockrun, now>>

(* HALT waits on intreqcond while nothing is requested. *)
Halt ==
    /\ main = "run"
    /\ intreqreg = {}
    /\ main' = "waiting"
    /\ UNCHANGED <<thread, deadline, lineclockabs, lineclockrun, intreqreg, now, calls>>

HaltWoken ==
    /\ main = "signalled"
    /\ main' = IF intreqreg = {} THEN "waiting" ELSE "run"
    /\ UNCHANGED <<thread, deadline, lineclockabs, lineclockrun, intreqreg, now, calls>>
-----------------------------------------------------------------------------
(* The thread, holding the mutex, at the head of its loop with intreqreg r:
   it ends or waits, with a time limit unless its request is already up.
   Mutant: it ends without clearing lineclockrun. *)
LoopWith_silent(t, r) ==
    /\ thread' = [thread EXCEPT ![t] =
                    IF ~Armed THEN "none"
                    ELSE IF "LINECLOCK" \in r THEN "wait" ELSE "timedwait"]
    /\ deadline' = [deadline EXCEPT ![t] = lineclockabs]
    /\ UNCHANGED lineclockrun
LoopWith(t, r) ==
    /\ thread' = [thread EXCEPT ![t] =
                    IF ~Armed THEN "none"
                    ELSE IF "LINECLOCK" \in r THEN "wait" ELSE "timedwait"]
    /\ lineclockrun' = (lineclockrun /\ Armed)
    /\ deadline' = [deadline EXCEPT ![t] = lineclockabs]

Loop(t) ==
    /\ thread[t] \in {"created", "woken"}
    /\ LoopWith(t, intreqreg)
    /\ UNCHANGED <<main, lineclockabs, intreqreg, now, calls>>

(* pthread_cond_timedwait gives up; it has yet to take the mutex ... *)
TimeOut(t) ==
    /\ thread[t] = "timedwait"
    /\ now >= deadline[t]
    /\ thread' = [thread EXCEPT ![t] = "timedout"]
    /\ UNCHANGED <<main, deadline, lineclockabs, lineclockrun, intreqreg, now, calls>>

(* ... and then it posts the request, whatever has happened in between, and
   signals intreqcond.  Mutant: it does not signal. *)
Signalled_not == main
Signalled == IF main = "waiting" THEN "signalled" ELSE main

Post(t) ==
    /\ thread[t] = "timedout"
    /\ intreqreg' = intreqreg \union {"LINECLOCK"}
    /\ main' = Signalled
    /\ LoopWith(t, intreqreg')
    /\ UNCHANGED <<lineclockabs, now, calls>>

(* A wait on a condition variable may end for no reason. *)
Spurious ==
    \/ /\ main = "waiting"
       /\ main' = "signalled"
       /\ UNCHANGED <<thread, deadline, lineclockabs, lineclockrun, intreqreg, now, calls>>
    \/ /\ \E t \in Threads :
             Waiting(t) /\ thread' = [thread EXCEPT ![t] = "woken"]
       /\ UNCHANGED <<main, deadline, lineclockabs, lineclockrun, intreqreg, now, calls>>

Tick ==
    /\ now < MaxTime
    /\ now' = now + 1
    /\ UNCHANGED <<main, thread, deadline, lineclockabs, lineclockrun, intreqreg, calls>>

ClockInit ==
    /\ main = "run"
    /\ thread = [t \in Threads |-> "none"]
    /\ deadline = [t \in Threads |-> 0]
    /\ lineclockabs = 0
    /\ lineclockrun = FALSE
    /\ intreqreg = {}
    /\ now = NsPerSec
    /\ calls = 0

Main == Halt \/ HaltWoken \/ (\E t \in 0 .. MaxTime : IrqAtNs(t))
             \/ (\E code \in BOOLEAN : IntReq(code))
ThreadStep(t) == Loop(t) \/ TimeOut(t) \/ Post(t)

ClockNext == Main \/ (\E t \in Threads : ThreadStep(t)) \/ Spurious \/ Tick

(* The threads that can run do, a woken HALT goes on, and time passes.  A wait
   whose time limit is past ends with ETIMEDOUT at last, even if it has been
   ended without cause before.  The program need not make another call. *)
ClockFairness ==
    /\ \A t \in Threads : WF_clockVars(Loop(t)) /\ WF_clockVars(Post(t)) /\ SF_clockVars(TimeOut(t))
    /\ WF_clockVars(HaltWoken)

ClockSpec == ClockInit /\ [][ClockNext]_clockVars
FairClockSpec == ClockSpec /\ ClockFairness /\ WF_clockVars(Tick)
-----------------------------------------------------------------------------
ClockTypeOK ==
    /\ main \in {"run", "waiting", "signalled"}
    /\ thread \in [Threads -> {"none", "created", "woken", "wait", "timedwait", "timedout"}]
    /\ deadline \in [Threads -> 0 .. MaxTime]
    /\ lineclockabs \in 0 .. MaxTime
    /\ lineclockrun \in BOOLEAN
    /\ intreqreg \subseteq {"SCNINTREQ", "LINECLOCK"}
    /\ now \in NsPerSec .. MaxTime
    /\ calls \in 0 .. MaxCalls

(* However often the program stops the clock and starts it again, there is
   never a second line clock thread, and lineclockrun says whether there is
   one: the thread decides to end and says so in one critical section
   (driver/raspictl.cc:642-653, 1025-1047). *)
SingleThread ==
    /\ \A s, t \in Threads : Live(s) /\ Live(t) => s = t
    /\ lineclockrun <=> \E t \in Threads : Live(t)

(* No wakeup is lost.  A main thread that waits, and that nobody has signalled,
   has no request to wait for; a line clock thread that waits does so for the
   time last asked for, and without a limit only while its own request is up;
   and while a time is set somebody is there to watch it
   (driver/raspictl.cc:356-362, 1034-1042). *)
NoLostWakeup ==
    /\ main = "waiting" => intreqreg = {}
    /\ \A t \in Threads :
        /\ Waiting(t) => deadline[t] = lineclockabs /\ Armed
        /\ thread[t] = "wait" => "LINECLOCK" \in intreqreg
        /\ thread[t] = "timedwait" => "LINECLOCK" \notin intreqreg
    /\ Armed => \E t \in Threads : Live(t)

(* A time of a second or more that has come does not stay without a request,
   and a program that halts with a time set does not stay halted. *)
TimeServed ==
    /\ []<>(Armed /\ now >= lineclockabs => "LINECLOCK" \in intreqreg)
    /\ []<>(Armed => main = "run")
=============================================================================
