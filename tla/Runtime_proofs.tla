-------------------------- MODULE Runtime_proofs --------------------------
(***************************************************************************)
(* What holds of the run-time system for any program.  The host's files,   *)
(* terminal and buffers keep to what raspictl promises of them, for any    *)
(* names, any descriptors the host may give out, any arguments and         *)
(* environment, any size of memory and any number of calls.  Exceptions    *)
(* unwind as the language says, for any number of try blocks and throws in *)
(* any nesting, any lists of types caught, and any object types on which   *)
(* the scan of __throw tells what the compiler meant.  Streams lose        *)
(* nothing, whatever the system does of what it is asked.  The line editor *)
(* shows the line it has, after any keys; qsort sorts arrays of any        *)
(* length; and dates are right on every day.                               *)
(***************************************************************************)
EXTENDS Throw, Syscalls, FdFile, ReadLine, CLib, WellFoundedInduction, SequenceTheorems, TLAPS

(* What is known of the host: the descriptors it has to give are above the
   standard ones, and sizes are numbers. *)
HostGiven ==
    /\ Fds \subseteq {fd \in Nat : fd > 2}
    /\ Magic \in Nat
    /\ EnvLen \in Nat
    /\ Args \in Seq(Nat)
-----------------------------------------------------------------------------
LEMMA MinIs ==
  ASSUME NEW S, S \subseteq Nat, S # {}
  PROVE  Min(S) \in S /\ \A y \in S : Min(S) <= y
<1> DEFINE R == {p \in Nat \X Nat : p[1] < p[2]}
<1>1. IsWellFoundedOn(R, Nat)
  BY NatLessThanWellFounded DEF OpToRel
<1>2. PICK x \in S : \A y \in S : <<y, x>> \notin R
  <2> HIDE DEF R
  <2>1. QED
    BY <1>1, WFMin
<1>3. ASSUME NEW y \in S PROVE x <= y
  <2>1. <<y, x>> \in Nat \X Nat
    OBVIOUS
  <2>2. ~(<<y, x>>[1] < <<y, x>>[2])
    BY <1>2, <2>1
  <2>3. x \in Nat /\ y \in Nat /\ ~(y < x)
    BY <2>2
  <2>4. QED
    BY <2>3
<1>4. QED
  BY <1>2, <1>3 DEF Min

(***************************************************************************)
(* The descriptors, and what was saved of the terminal: while only         *)
(* descriptor 0 was used to switch it, the attributes in savedtermioss[0]  *)
(* are those from before the first change.                                 *)
(***************************************************************************)
Descriptors ==
    /\ DOMAIN fds \subseteq {0, 1, 2} \union Fds
    /\ {0, 1, 2} \subseteq DOMAIN fds

Cooked ==
    switched \subseteq {0} =>
        /\ 0 \in DOMAIN savedtermioss => savedtermioss[0] = "cooked"
        /\ 0 \notin DOMAIN savedtermioss => tty = "cooked"
        /\ program = "exited" => tty = "cooked"

SysInv ==
    /\ program \in {"running", "exited", "aborted"}
    /\ Descriptors /\ SavedIsOpen
    /\ Cooked
    /\ readonlysize \in 0 .. Magic /\ BufferRespected
-----------------------------------------------------------------------------
(* What holds of the descriptors after a call that changes none of them. *)
LEMMA HostKept ==
  ASSUME SysInv, UNCHANGED Host, program' \in {program, "aborted"}
  PROVE  /\ program' \in {"running", "exited", "aborted"}
         /\ Descriptors' /\ SavedIsOpen'
         /\ Cooked'
<1>1. SavedIsOpen'
  BY DEF SysInv, SavedIsOpen, Host
<1>2. Descriptors'
  BY DEF SysInv, Descriptors, Host
<1>3. Cooked'
  BY DEF SysInv, Cooked, Host
<1>4. QED
  BY <1>1, <1>2, <1>3 DEF SysInv

(* A call that was given no buffer wrote to none. *)
LEMMA NothingWritten ==
  ASSUME NEW name, Call(name, {}, {})
  PROVE  BufferRespected'
  BY DEF Call, BufferRespected

LEMMA CallRuns ==
  ASSUME NEW name, NEW wrote, NEW lent, Call(name, wrote, lent)
  PROVE  program = "running" /\ did'.wrote = wrote /\ did'.given = lent
  BY DEF Call

(* getmemptr keeps what is stored below MAGIC and above the read-only part. *)
LEMMA Allowed ==
  ASSUME HostGiven, readonlysize \in 0 .. Magic,
         NEW adr \in Nat, NEW n \in Nat, NEW len \in Nat, n <= len,
         n = 0 \/ getmemptr(adr, n, TRUE) \/ getmemptr(adr, len, TRUE)
  PROVE  /\ Span(adr, n) \subseteq Span(adr, len)
         /\ \A a \in Span(adr, n) : a < Magic /\ a >= readonlysize
  BY DEF HostGiven, getmemptr, Span

LEMMA ReadKeeps ==
  ASSUME HostGiven, SysInv, NEW fd \in AnyFd, NEW adr \in 0 .. Magic, NEW len \in 0 .. Magic,
         Read(fd, adr, len)
  PROVE  SysInv'
<1>1. CASE adr # 0 /\ ~getmemptr(adr, len, TRUE)
  <2>1. Abort("read")
    BY <1>1 DEF Read
  <2>2. QED
    BY <2>1, HostKept, NothingWritten DEF Abort, SysInv
<1>2. CASE ~(adr # 0 /\ ~getmemptr(adr, len, TRUE))
  <2>1. UNCHANGED <<Host, readonlysize, program>>
    BY <1>2 DEF Read
  <2>2. adr \in Nat /\ len \in Nat /\ readonlysize \in 0 .. Magic
    BY DEF HostGiven, SysInv
  <2>3. \E n \in 0 .. (IF adr = 0 THEN 0 ELSE len) :
          \/ Call("read", Span(adr, n), Span(adr, len))
          \/ Call("read", {}, Span(adr, len))
    <3>1. CASE fd \notin DOMAIN fds
      <4>1. Call("read", {}, Span(adr, len))
        BY <1>2, <3>1 DEF Read
      <4>2. 0 \in 0 .. (IF adr = 0 THEN 0 ELSE len)
        BY <2>2
      <4>3. QED
        BY <4>1, <4>2
    <3>2. CASE fd \in DOMAIN fds
      BY <1>2, <3>2 DEF Read
    <3>3. QED
      BY <3>1, <3>2
  <2>4. PICK n \in 0 .. (IF adr = 0 THEN 0 ELSE len) :
          \/ Call("read", Span(adr, n), Span(adr, len))
          \/ Call("read", {}, Span(adr, len))
    BY <2>3
  <2>5. n \in Nat /\ n <= len /\ (n = 0 \/ getmemptr(adr, len, TRUE))
    BY <1>2, <2>2 DEF getmemptr
  <2>6. /\ Span(adr, n) \subseteq Span(adr, len)
        /\ \A a \in Span(adr, n) : a < Magic /\ a >= readonlysize
    BY <2>2, <2>5, Allowed
  <2>7. did'.given = Span(adr, len) /\ did'.wrote \in {{}, Span(adr, n)}
    BY <2>4, CallRuns
  <2>8. BufferRespected'
    BY <2>1, <2>6, <2>7 DEF BufferRespected
  <2>9. QED
    BY <2>1, <2>8, HostKept DEF SysInv
<1>3. QED
  BY <1>1, <1>2

LEMMA CmdArgKeeps ==
  ASSUME HostGiven, SysInv, NEW i \in 0 .. Len(Args), NEW buflen \in 0 .. Magic,
         NEW bufadr \in 0 .. Magic, GetCmdArg(i, buflen, bufadr)
  PROVE  SysInv'
<1>1. CASE i >= Len(Args)
  <2>1. Call("getcmdarg", {}, {}) /\ UNCHANGED <<Host, readonlysize, program>>
    BY <1>1 DEF GetCmdArg
  <2>2. QED
    BY <2>1, HostKept, NothingWritten DEF SysInv
<1>2. CASE ~(i >= Len(Args))
  <2> DEFINE n == Min({buflen, Args[i + 1] + 1})
  <2>1. buflen \in Nat /\ bufadr \in Nat /\ readonlysize \in 0 .. Magic
    BY DEF HostGiven, SysInv
  <2>2. Args[i + 1] \in Nat
    BY <1>2 DEF HostGiven
  <2>3. n \in {buflen, Args[i + 1] + 1} /\ n <= buflen
    <3>1. {buflen, Args[i + 1] + 1} \subseteq Nat
      BY <2>1, <2>2
    <3>2. QED
      BY <3>1, MinIs
  <2>4. n \in Nat
    BY <2>1, <2>2, <2>3
  <2>5. CASE bufadr # 0 /\ ~getmemptr(bufadr, n, TRUE)
    <3>1. Abort("getcmdarg")
      BY <1>2, <2>5 DEF GetCmdArg
    <3>2. QED
      BY <3>1, HostKept, NothingWritten DEF Abort, SysInv
  <2>6. CASE ~(bufadr # 0 /\ ~getmemptr(bufadr, n, TRUE))
    <3>1. /\ UNCHANGED <<Host, readonlysize, program>>
          /\ Call("getcmdarg", IF bufadr = 0 THEN {} ELSE Span(bufadr, n),
                               IF bufadr = 0 THEN {} ELSE Span(bufadr, buflen))
      BY <1>2, <2>6 DEF GetCmdArg
    <3>2. CASE bufadr = 0
      BY <3>1, <3>2, HostKept, NothingWritten DEF SysInv
    <3>3. CASE bufadr # 0
      <4>1. /\ Span(bufadr, n) \subseteq Span(bufadr, buflen)
            /\ \A a \in Span(bufadr, n) : a < Magic /\ a >= readonlysize
        BY <2>1, <2>3, <2>4, <2>6, <3>3, Allowed
      <4>2. did'.wrote = Span(bufadr, n) /\ did'.given = Span(bufadr, buflen)
        BY <3>1, <3>3, CallRuns
      <4>3. BufferRespected'
        BY <3>1, <4>1, <4>2 DEF BufferRespected
      <4>4. QED
        BY <3>1, <4>3, HostKept DEF SysInv
    <3>4. QED
      BY <3>2, <3>3
  <2>7. QED
    BY <2>5, <2>6
<1>3. QED
  BY <1>1, <1>2

LEMMA GetEnvKeeps ==
  ASSUME HostGiven, SysInv, NEW adr \in 0 .. Magic, NEW size \in 0 .. Magic,
         NEW there \in BOOLEAN, GetEnv(adr, size, there)
  PROVE  SysInv'
<1> DEFINE n == Min({size, EnvLen + 1})
<1>1. adr \in Nat /\ size \in Nat /\ EnvLen \in Nat /\ readonlysize \in 0 .. Magic
  BY DEF HostGiven, SysInv
<1>2. n \in {size, EnvLen + 1} /\ n <= size
  <2>1. {size, EnvLen + 1} \subseteq Nat
    BY <1>1
  <2>2. QED
    BY <2>1, MinIs
<1>3. n \in Nat /\ (size = 0 => n = 0)
  BY <1>1, <1>2
<1>4. CASE there /\ size > 0 /\ ~getmemptr(adr, n, TRUE)
  <2>1. Abort("getenv")
    BY <1>4 DEF GetEnv
  <2>2. QED
    BY <2>1, HostKept, NothingWritten DEF Abort, SysInv
<1>5. CASE ~(there /\ size > 0 /\ ~getmemptr(adr, n, TRUE))
  <2>1. /\ UNCHANGED <<Host, readonlysize, program>>
        /\ Call("getenv", IF there THEN Span(adr, n) ELSE {}, Span(adr, size))
    BY <1>5 DEF GetEnv
  <2>2. did'.wrote = (IF there THEN Span(adr, n) ELSE {}) /\ did'.given = Span(adr, size)
    BY <2>1, CallRuns
  <2>3. CASE ~there
    <3>1. BufferRespected'
      BY <2>2, <2>3 DEF BufferRespected
    <3>2. QED
      BY <2>1, <3>1, HostKept DEF SysInv
  <2>4. CASE there
    <3>1. n = 0 \/ getmemptr(adr, n, TRUE)
      BY <1>1, <1>3, <1>5, <2>4 DEF getmemptr
    <3>2. /\ Span(adr, n) \subseteq Span(adr, size)
          /\ \A a \in Span(adr, n) : a < Magic /\ a >= readonlysize
      BY <1>1, <1>2, <1>3, <3>1, Allowed
    <3>3. BufferRespected'
      BY <2>1, <2>2, <2>4, <3>2 DEF BufferRespected
    <3>4. QED
      BY <2>1, <3>3, HostKept DEF SysInv
  <2>5. QED
    BY <2>3, <2>4
<1>6. QED
  BY <1>4, <1>5

LEMMA OpenKeeps ==
  ASSUME HostGiven, SysInv, NEW path \in Paths, Open(path)
  PROVE  SysInv'
<1> DEFINE free == Fds \ DOMAIN fds
           kind == IF path = TtyPath THEN "tty" ELSE "file"
<1>1. /\ UNCHANGED <<tty, savedtermioss, switched, readonlysize, program>>
      /\ BufferRespected'
  BY NothingWritten DEF Open
<1>2. CASE fds' = fds
  BY <1>1, <1>2, HostKept DEF SysInv, Host
<1>3. CASE free # {} /\ fds' = WithEntry(fds, Min(free), kind)
  <2>1. free \subseteq Nat
    BY DEF HostGiven
  <2>2. Min(free) \in Fds /\ Min(free) \notin DOMAIN fds
    BY <1>3, <2>1, MinIs
  <2>3. PICK fd \in Fds : fd \notin DOMAIN fds /\ fds' = WithEntry(fds, fd, kind)
    BY <1>3, <2>2
  <2>4. /\ DOMAIN fds' = DOMAIN fds \union {fd}
        /\ fds'[fd] = kind
        /\ \A x \in DOMAIN fds : fds'[x] = fds[x]
    BY <2>3 DEF WithEntry
  <2>5. Descriptors'
    BY <2>4 DEF SysInv, Descriptors
  <2>6. SavedIsOpen'
    BY <1>1, <2>4 DEF SysInv, SavedIsOpen
  <2>7. Cooked'
    BY <1>1, <2>4 DEF SysInv, Cooked
  <2>8. QED
    BY <1>1, <2>5, <2>6, <2>7 DEF SysInv
<1>4. QED
  BY <1>2, <1>3 DEF Open

LEMMA CloseKeeps ==
  ASSUME HostGiven, SysInv, NEW fd \in AnyFd, Close(fd)
  PROVE  SysInv'
<1> DEFINE n == IF fd <= 2 THEN -999 ELSE fd
<1>1. n \notin {0, 1, 2}
  BY DEF HostGiven, AnyFd
<1>2. /\ UNCHANGED <<tty, switched, readonlysize, program>>
      /\ BufferRespected'
  BY NothingWritten DEF Close
<1>3. /\ DOMAIN fds' = DOMAIN fds \ {n}
      /\ \A x \in DOMAIN fds' : fds'[x] = fds[x]
  BY DEF Close, Restrict
<1>4. /\ DOMAIN savedtermioss' = DOMAIN savedtermioss \ {n}
      /\ \A x \in DOMAIN savedtermioss' : savedtermioss'[x] = savedtermioss[x]
  BY DEF Close, Restrict
<1> HIDE DEF n
<1>5. Descriptors'
  BY <1>1, <1>3 DEF SysInv, Descriptors
<1>6. SavedIsOpen'
  BY <1>3, <1>4 DEF SysInv, SavedIsOpen
<1>7. Cooked'
  BY <1>1, <1>2, <1>3, <1>4 DEF SysInv, Cooked
<1>8. QED
  BY <1>2, <1>5, <1>6, <1>7 DEF SysInv

LEMMA TtyEchoKeeps ==
  ASSUME HostGiven, SysInv, NEW fd \in AnyFd, NEW echo \in BOOLEAN, SetTtyEcho(fd, echo)
  PROVE  SysInv'
<1>1. UNCHANGED <<fds, readonlysize, program>> /\ BufferRespected'
  BY NothingWritten DEF SetTtyEcho
<1>2. program = "running"
  BY CallRuns DEF SetTtyEcho
<1>3. CASE fd \in DOMAIN fds /\ fds[fd] = "tty"
  <2>1. /\ savedtermioss' = WithEntry(savedtermioss, fd, tty)
        /\ tty' = IF echo THEN savedtermioss'[fd] ELSE Raw(fd)
    BY <1>3 DEF SetTtyEcho
  <2>2. /\ DOMAIN savedtermioss' = DOMAIN savedtermioss \union {fd}
        /\ \A x \in DOMAIN savedtermioss : savedtermioss'[x] = savedtermioss[x]
        /\ fd \notin DOMAIN savedtermioss => savedtermioss'[fd] = tty
    BY <2>1 DEF WithEntry
  <2>3. SavedIsOpen'
    BY <1>1, <1>3, <2>2 DEF SysInv, SavedIsOpen
  <2>4. Cooked'
    <3>1. switched' = switched \union {fd}
      BY <1>3 DEF SetTtyEcho
    <3>2. SUFFICES ASSUME switched' \subseteq {0} PROVE Cooked'
      BY DEF Cooked
    <3>3. fd = 0 /\ switched \subseteq {0}
      BY <3>1, <3>2
    <3>4. QED
      BY <1>1, <1>2, <2>1, <2>2, <3>3 DEF SysInv, Cooked
  <2>5. Descriptors'
    BY <1>1 DEF SysInv, Descriptors
  <2>6. QED
    BY <1>1, <2>3, <2>4, <2>5 DEF SysInv
<1>4. CASE ~(fd \in DOMAIN fds /\ fds[fd] = "tty")
  <2>1. UNCHANGED Host
    BY <1>1, <1>4 DEF SetTtyEcho, Host
  <2>2. QED
    BY <1>1, <2>1, HostKept DEF SysInv
<1>5. QED
  BY <1>3, <1>4

LEMMA ExitKeeps ==
  ASSUME SysInv, Exit
  PROVE  SysInv'
<1>1. SavedIsOpen' /\ Descriptors' /\ BufferRespected'
  BY DEF Exit, SysInv, SavedIsOpen, Descriptors, BufferRespected
<1>2. Cooked'
  BY DEF Exit, exithandler, SysInv, Cooked
<1>3. QED
  BY <1>1, <1>2 DEF Exit, SysInv
-----------------------------------------------------------------------------
LEMMA SysInit == HostGiven /\ CallsInit => SysInv
<1>1. SUFFICES ASSUME HostGiven, CallsInit PROVE SysInv
  OBVIOUS
<1>2. /\ DOMAIN fds = {0, 1, 2}
      /\ fds[0] = "tty" /\ fds[1] = "log" /\ fds[2] = "log"
  BY <1>1 DEF CallsInit
<1>3. DOMAIN savedtermioss = {}
  BY <1>1 DEF CallsInit
<1>4. Descriptors /\ SavedIsOpen
  BY <1>2, <1>3 DEF Descriptors, SavedIsOpen
<1>5. Cooked
  BY <1>1, <1>2, <1>3 DEF Cooked, CallsInit
<1>6. BufferRespected /\ readonlysize \in 0 .. Magic
  BY <1>1 DEF BufferRespected, CallsInit, HostGiven
<1>7. QED
  BY <1>1, <1>4, <1>5, <1>6 DEF SysInv, CallsInit

LEMMA SysStep == HostGiven /\ SysInv /\ [CallsNext]_callVars => SysInv'
<1>1. SUFFICES ASSUME HostGiven, SysInv, [CallsNext]_callVars PROVE SysInv'
  OBVIOUS
<1>2. CASE FileCalls
  <2>1. ASSUME Unlink \/ OddAddress \/ Unknown PROVE SysInv'
    <3>1. UNCHANGED <<Host, readonlysize, program>> /\ BufferRespected'
      BY <2>1, NothingWritten DEF Unlink, OddAddress, Unknown
    <3>2. QED
      BY <1>1, <3>1, HostKept DEF SysInv
  <2>2. QED
    BY <1>1, <1>2, <2>1, OpenKeeps, CloseKeeps, TtyEchoKeeps DEF FileCalls
<1>3. CASE BufferCalls
  <2>1. ASSUME NEW fd, NEW adr, NEW len, Write(fd, adr, len) PROVE SysInv'
    <3>1. UNCHANGED <<Host, readonlysize>> /\ program' \in {program, "aborted"}
      BY <2>1 DEF Write, Abort
    <3>2. BufferRespected'
      BY <2>1, NothingWritten DEF Write, Abort
    <3>3. QED
      BY <1>1, <3>1, <3>2, HostKept DEF SysInv
  <2>2. ASSUME NEW size \in 0 .. Magic, SetRoSize(size) PROVE SysInv'
    <3>1. UNCHANGED <<Host, program>> /\ BufferRespected' /\ readonlysize' = size
      BY <2>2, NothingWritten DEF SetRoSize
    <3>2. QED
      BY <1>1, <2>2, <3>1, HostKept DEF SysInv
  <2>3. QED
    BY <1>1, <1>3, <2>1, <2>2, ReadKeeps, CmdArgKeeps, GetEnvKeeps DEF BufferCalls
<1>4. CASE Exit
  BY <1>1, <1>4, ExitKeeps
<1>5. CASE UNCHANGED callVars
  <2>1. UNCHANGED <<Host, program>> /\ BufferRespected' /\ readonlysize' = readonlysize
    BY <1>1, <1>5 DEF callVars, Host, SysInv, BufferRespected
  <2>2. QED
    BY <1>1, <2>1, HostKept DEF SysInv
<1>6. QED
  BY <1>1, <1>2, <1>3, <1>4, <1>5 DEF CallsNext

(* The terminal is left as it was found by a program that switches it through
   descriptor 0 only; what is saved for a descriptor belongs to the file that it names now,
   however descriptors are closed and given out again; and no call writes
   outside the buffer it was given, below the read-only limit or from MAGIC up
   (driver/raspictl.cc:544-548, 585-605, 700-760, 857-880). *)
THEOREM HostKeepsItsWord == ASSUME HostGiven PROVE CallsSpec => []HostCallsRight
<1>1. SysInv => HostCallsRight
  BY DEF SysInv, HostCallsRight, TerminalRestored, Cooked
<1>2. QED
  BY SysInit, SysStep, <1>1, PTL DEF CallsSpec
-----------------------------------------------------------------------------
(* The scan finds the types that a type extends, at their offsets.  (It does not
   for every table: see the README on base classes and void pointers.) *)
ScanRight ==
    \A thrown \in Types, catches \in CatchLists : \A c \in DOMAIN catches :
        /\ Scan(thrown, catches[c]).found <=> Extends(thrown, catches[c])
        /\ Extends(thrown, catches[c]) =>
               /\ Scan(thrown, catches[c]).cast = Offset(thrown, catches[c])
               /\ Scan(thrown, catches[c]).cast \in Int

TypesGiven ==
    /\ Types \subseteq Nat
    /\ \A catches \in CatchLists : catches \in Seq(Nat)
    /\ ScanRight
-----------------------------------------------------------------------------
Wants == [try : Nat, clause : Nat, ptr : Int]
Marks == [outer : Int, catches : CatchLists, active : BOOLEAN, obj : Int,
          typ : Types \union {0}]
Kinds == {"start", "body", "catch", "finally"}
Contexts == [kind : Kinds, try : Nat, resume : {"end", "leave", "rethrow"}, want : Wants]

(* The contexts are those of try blocks begun one after the other, on top of the
   program itself. *)
Typed ==
    /\ tries \in Nat /\ status \in {"running", "uncaught"}
    /\ mark \in Seq(Marks) /\ Len(mark) = tries
    /\ fin \in Seq(Nat) /\ Len(fin) = tries
    /\ ctx \in Seq(Contexts)
    /\ \A i \in 1 .. Len(ctx) : ctx[i].try <= tries
    /\ trystack \in Int /\ want \in Wants

Nested ==
    /\ Len(ctx) >= 1 /\ ctx[1].kind = "start" /\ ctx[1].try = 0
    /\ \A i \in 2 .. Len(ctx) : ctx[i].kind # "start"
    /\ \A i, j \in 1 .. Len(ctx) : i < j => ctx[i].try < ctx[j].try

(* A mark is active while the catch block of its try runs. *)
ActiveInCatch ==
    /\ \A i \in OpenTries : mark[ctx[i].try].active <=> ctx[i].kind = "catch"
    /\ \A m \in DOMAIN mark : mark[m].active => mark[m].typ \in Types

Pending(i) == ctx[i].kind = "finally" /\ ctx[i].resume = "rethrow"

(* An exception that passes through a finally part has its handler outside. *)
WantsOutside ==
    \A i \in 1 .. Len(ctx) : Pending(i) =>
        LET m == mark[ctx[i].try] IN
        /\ m.typ \in Types
        /\ ctx[i].want = Handler(m.obj, m.typ, i - 1)

(* The program is in the catch block that the last exception wanted, unless
   another one is on its way out of it. *)
GotOrPending ==
    \A j \in 1 .. Len(ctx) : ctx[j].kind = "catch" /\ ctx[j].try = got.try =>
        got = want \/ \E i \in j + 1 .. Len(ctx) : Pending(i)

NoHandler == status = "uncaught" /\ trystack \notin DOMAIN mark => want = Nobody

Once == \A m \in 1 .. Len(mark) :
            fin[m] = IF \E i \in OpenTries : ctx[i].try = m THEN 0 ELSE 1

ThrowInv ==
    /\ Typed /\ Nested /\ StackMatches /\ Once /\ ActiveInCatch
    /\ WantsOutside /\ GotOrPending /\ NoHandler
-----------------------------------------------------------------------------
LEMMA MaxIs ==
  ASSUME NEW n \in Nat, NEW S, S \subseteq 1 .. n, S # {}
  PROVE  Max(S) \in S /\ \A y \in S : Max(S) >= y
<1> DEFINE T == {k \in Nat : n - k \in S}
<1>1. T \subseteq Nat
  OBVIOUS
<1>2. PICK e \in S : TRUE
  OBVIOUS
<1>3. n - e \in Nat /\ n - (n - e) = e
  OBVIOUS
<1>4. T # {}
  BY <1>2, <1>3
<1> HIDE DEF T
<1>5. Min(T) \in T /\ \A y \in T : Min(T) <= y
  BY <1>1, <1>4, MinIs
<1>6. PICK m \in T : \A y \in T : m <= y
  BY <1>5
<1>7. n - m \in S
  BY <1>6 DEF T
<1>8. ASSUME NEW y \in S PROVE n - m >= y
  <2>1. n - y \in Nat /\ n - (n - y) = y /\ m \in Nat
    BY <1>1
  <2>2. n - y \in T
    BY <2>1 DEF T
  <2>3. m <= n - y
    BY <1>6, <2>2
  <2>4. QED
    BY <2>1, <2>3
<1>9. QED
  BY <1>7, <1>8 DEF Max

(* The largest of a set is known when it is seen. *)
LEMMA MaxSeen ==
  ASSUME NEW n \in Nat, NEW S, S \subseteq 1 .. n, NEW k \in S, \A y \in S : y <= k
  PROVE  Max(S) = k
<1> DEFINE m == Max(S)
<1>1. m \in S /\ m >= k
  BY MaxIs
<1> HIDE DEF m
<1>2. m \in Int /\ k \in Int /\ m <= k
  BY <1>1
<1>3. m = k
  BY <1>1, <1>2
<1>4. QED
  BY <1>3 DEF m
-----------------------------------------------------------------------------
(* Innermost and Handler for any contexts and marks. *)
OpenIn(c) == {i \in 1 .. Len(c) : c[i].kind \in {"body", "catch"}}
InnermostIn(c, n) ==
    LET open == {i \in OpenIn(c) : i <= n} IN
    IF open = {} THEN 0 ELSE c[Max(open)].try
AbleIn(c, mk, typ, n) ==
    {i \in 1 .. n : c[i].kind = "body"
                   /\ \E t \in Range(mk[c[i].try].catches) : Extends(typ, t)}
CatchIn(catches, typ) == {k \in 1 .. Len(catches) : Extends(typ, catches[k])}
CaughtBy(m, catches, obj, typ) ==
    [try |-> m, clause |-> Min(CatchIn(catches, typ)),
     ptr |-> obj + Offset(typ, catches[Min(CatchIn(catches, typ))])]
HandlerIn(c, mk, obj, typ, n) ==
    LET able == AbleIn(c, mk, typ, n) IN
    IF able = {} THEN Nobody
    ELSE CaughtBy(c[Max(able)].try, mk[c[Max(able)].try].catches, obj, typ)

LEMMA AreIn ==
  /\ OpenTries = OpenIn(ctx) /\ OpenTries' = OpenIn(ctx')
  /\ \A n : Innermost(n) = InnermostIn(ctx, n) /\ Innermost(n)' = InnermostIn(ctx', n)
  /\ \A obj, typ, n : /\ Handler(obj, typ, n) = HandlerIn(ctx, mark, obj, typ, n)
                       /\ Handler(obj, typ, n)' = HandlerIn(ctx', mark', obj, typ, n)
<1>1. OpenTries = OpenIn(ctx) /\ OpenTries' = OpenIn(ctx')
  BY DEF OpenTries, OpenIn
<1>2. ASSUME NEW n
      PROVE  Innermost(n) = InnermostIn(ctx, n) /\ Innermost(n)' = InnermostIn(ctx', n)
  BY <1>1 DEF Innermost, InnermostIn
<1>3. ASSUME NEW obj, NEW typ, NEW n
      PROVE  /\ Handler(obj, typ, n) = HandlerIn(ctx, mark, obj, typ, n)
             /\ Handler(obj, typ, n)' = HandlerIn(ctx', mark', obj, typ, n)
  BY DEF Handler, HandlerIn, AbleIn, CaughtBy, CatchIn
<1>4. QED
  BY <1>1, <1>2, <1>3

(* The innermost context is the last open one up to n. *)
LEMMA InnermostIs ==
  ASSUME NEW c \in Seq(Contexts), NEW n \in Nat
  PROVE  /\ (\A i \in OpenIn(c) : i > n) => InnermostIn(c, n) = 0
         /\ \A k \in OpenIn(c) :
               k <= n /\ (\A i \in OpenIn(c) : i <= n => i <= k)
                   => InnermostIn(c, n) = c[k].try
         /\ \/ \A i \in OpenIn(c) : i > n
            \/ \E k \in OpenIn(c) : k <= n /\ \A i \in OpenIn(c) : i <= n => i <= k
<1> DEFINE S == {i \in OpenIn(c) : i <= n}
<1>1. S \subseteq 1 .. n /\ OpenIn(c) \subseteq Nat
  BY DEF OpenIn
<1>2. ASSUME \A i \in OpenIn(c) : i > n PROVE InnermostIn(c, n) = 0
  <2>1. S = {}
    BY <1>1, <1>2
  <2>2. QED
    BY <2>1 DEF InnermostIn
<1>3. ASSUME NEW k \in OpenIn(c), k <= n, \A i \in OpenIn(c) : i <= n => i <= k
      PROVE  InnermostIn(c, n) = c[k].try
  <2>1. k \in S /\ \A y \in S : y <= k
    BY <1>3
  <2>2. Max(S) = k
    <3> HIDE DEF S
    <3>1. QED
      BY <1>1, <2>1, MaxSeen
  <2>3. QED
    BY <2>1, <2>2 DEF InnermostIn
<1>4. \/ \A i \in OpenIn(c) : i > n
      \/ \E k \in OpenIn(c) : k <= n /\ \A i \in OpenIn(c) : i <= n => i <= k
  <2>1. CASE S = {}
    BY <1>1, <2>1
  <2>2. CASE S # {}
    <3>1. PICK k \in S : \A y \in S : k >= y
      <4> HIDE DEF S
      <4>1. QED
        BY <1>1, <2>2, MaxIs
    <3>2. k \in OpenIn(c) /\ k <= n /\ \A i \in OpenIn(c) : i <= n => i <= k
      BY <1>1, <3>1
    <3>3. QED
      BY <3>2
  <2>3. QED
    BY <2>1, <2>2
<1>5. QED
  BY <1>2, <1>3, <1>4

(* It depends on the contexts up to n only. *)
LEMMA InnermostSame ==
  ASSUME NEW c \in Seq(Contexts), NEW d \in Seq(Contexts), NEW n \in Nat,
         n <= Len(c), n <= Len(d), \A i \in 1 .. n : c[i] = d[i]
  PROVE  InnermostIn(c, n) = InnermostIn(d, n)
<1> DEFINE S == {i \in OpenIn(c) : i <= n}
<1>1. S = {i \in OpenIn(d) : i <= n}
  BY DEF OpenIn
<1>2. S \subseteq 1 .. n
  BY DEF OpenIn
<1>3. CASE S = {}
  BY <1>1, <1>3 DEF InnermostIn
<1>4. CASE S # {}
  <2>1. Max(S) \in 1 .. n
    <3> HIDE DEF S
    <3>1. QED
      BY <1>2, <1>4, MaxIs
  <2>2. c[Max(S)] = d[Max(S)]
    <3> HIDE DEF S
    <3>1. QED
      BY <2>1
  <2>3. QED
    BY <1>1, <1>4, <2>2 DEF InnermostIn
<1>5. QED
  BY <1>3, <1>4

(* So does the handler, and on what the try blocks of those contexts catch. *)
LEMMA HandlerSame ==
  ASSUME NEW c, NEW d, NEW mk, NEW nk, NEW obj, NEW typ, NEW n \in Nat,
         \A i \in 1 .. n : c[i] = d[i],
         \A i \in 1 .. n : c[i].kind = "body" =>
                              mk[c[i].try].catches = nk[c[i].try].catches
  PROVE  HandlerIn(c, mk, obj, typ, n) = HandlerIn(d, nk, obj, typ, n)
<1> DEFINE S == AbleIn(c, mk, typ, n)
<1>1. S = AbleIn(d, nk, typ, n) /\ S \subseteq 1 .. n
  BY DEF AbleIn
<1> HIDE DEF S
<1>2. CASE S = {}
  BY <1>1, <1>2 DEF HandlerIn, S
<1>3. CASE S # {}
  <2>1. Max(S) \in S
    BY <1>1, <1>3, MaxIs
  <2>2. /\ c[Max(S)] = d[Max(S)]
        /\ mk[c[Max(S)].try].catches = nk[c[Max(S)].try].catches
    BY <2>1 DEF S, AbleIn
  <2>3. HandlerIn(c, mk, obj, typ, n) =
            CaughtBy(c[Max(S)].try, mk[c[Max(S)].try].catches, obj, typ)
    BY <1>3 DEF HandlerIn, S
  <2>4. HandlerIn(d, nk, obj, typ, n) =
            CaughtBy(d[Max(S)].try, nk[d[Max(S)].try].catches, obj, typ)
    BY <1>1, <1>3 DEF HandlerIn
  <2>5. QED
    BY <2>2, <2>3, <2>4
<1>4. QED
  BY <1>2, <1>3

(* Contexts that are no body of an able try block do not change it. *)
LEMMA HandlerSkips ==
  ASSUME NEW c, NEW mk, NEW obj, NEW typ, NEW n \in Nat, NEW k \in Nat, k <= n,
         \A i \in k + 1 .. n : mk[c[i].try].catches \in Seq(Nat),
         \A i \in k + 1 .. n : c[i].kind # "body" \/ CatchIn(mk[c[i].try].catches, typ) = {}
  PROVE  HandlerIn(c, mk, obj, typ, n) = HandlerIn(c, mk, obj, typ, k)
<1>1. ASSUME NEW i \in 1 .. n, i \notin 1 .. k, c[i].kind = "body"
      PROVE  \A t \in Range(mk[c[i].try].catches) : ~ Extends(typ, t)
  <2>1. i \in k + 1 .. n
    BY <1>1
  <2>2. /\ mk[c[i].try].catches \in Seq(Nat)
        /\ CatchIn(mk[c[i].try].catches, typ) = {}
    BY <1>1, <2>1
  <2>3. QED
    BY <2>2 DEF CatchIn, Range
<1>2. AbleIn(c, mk, typ, n) = AbleIn(c, mk, typ, k)
  BY <1>1 DEF AbleIn
<1>3. QED
  BY <1>2 DEF HandlerIn

(* An able body with none above it has the exception. *)
LEMMA HandlerAt ==
  ASSUME NEW c, NEW mk, NEW obj, NEW typ, NEW n \in Nat, NEW k \in 1 .. n,
         c[k].kind = "body", CatchIn(mk[c[k].try].catches, typ) # {},
         \A i \in k + 1 .. n : c[i].kind # "body"
  PROVE  HandlerIn(c, mk, obj, typ, n) = CaughtBy(c[k].try, mk[c[k].try].catches, obj, typ)
<1> DEFINE S == AbleIn(c, mk, typ, n)
<1>1. S \subseteq 1 .. n /\ \A i \in S : i <= k
  BY DEF AbleIn
<1>2. k \in S
  BY DEF AbleIn, CatchIn, Range
<1> HIDE DEF S
<1>3. Max(S) = k
  BY <1>1, <1>2, MaxSeen
<1>4. S # {}
  BY <1>2
<1>5. QED
  BY <1>3, <1>4 DEF HandlerIn, S
-----------------------------------------------------------------------------
LEMMA CtxTypes ==
  ASSUME Typed, Nested, TypesGiven
  PROVE  /\ \A i \in 1 .. Len(ctx) : ctx[i] \in Contexts /\ ctx[i].try \in 0 .. tries
         /\ \A i \in 2 .. Len(ctx) : ctx[i].try \in DOMAIN mark
         /\ \A i \in OpenTries : i \in 2 .. Len(ctx)
         /\ DOMAIN mark = 1 .. tries /\ DOMAIN fin = 1 .. tries
         /\ \A m \in DOMAIN mark : /\ mark[m] \in Marks
                                   /\ mark[m].catches \in Seq(Nat)
<1>1. \A i \in 1 .. Len(ctx) : ctx[i] \in Contexts /\ ctx[i].try \in 0 .. tries
  <2>1. \A c \in Contexts : c.try \in Nat
    BY DEF Contexts
  <2>2. \A i \in 1 .. Len(ctx) : ctx[i] \in Contexts
    BY DEF Typed
  <2>3. QED
    BY <2>1, <2>2 DEF Typed
<1>2. DOMAIN mark = 1 .. tries /\ DOMAIN fin = 1 .. tries
  BY DEF Typed
<1>3. ASSUME NEW i \in 2 .. Len(ctx) PROVE ctx[i].try \in DOMAIN mark
  <2>1. 1 \in 1 .. Len(ctx) /\ i \in 1 .. Len(ctx) /\ 1 < i
    BY DEF Typed
  <2>2. ctx[1].try = 0 /\ ctx[1].try < ctx[i].try
    BY <2>1 DEF Nested
  <2>3. QED
    BY <1>1, <1>2, <2>1, <2>2 DEF Typed
<1>4. ASSUME NEW i \in OpenTries PROVE i \in 2 .. Len(ctx)
  <2>1. i \in 1 .. Len(ctx) /\ ctx[i].kind \in {"body", "catch"}
    BY DEF OpenTries
  <2>2. i # 1
    BY <2>1 DEF Nested
  <2>3. QED
    BY <2>1, <2>2
<1>5. ASSUME NEW m \in DOMAIN mark PROVE mark[m] \in Marks /\ mark[m].catches \in Seq(Nat)
  <2>1. mark[m] \in Marks
    BY DEF Typed
  <2>2. \A r \in Marks : r.catches \in CatchLists
    BY DEF Marks
  <2>3. QED
    BY <2>1, <2>2 DEF TypesGiven
<1>6. QED
  BY <1>1, <1>2, <1>3, <1>4, <1>5

(* A context is found by its try block. *)
LEMMA CtxOfIs ==
  ASSUME TypesGiven, Typed, Nested, NEW k \in 1 .. Len(ctx)
  PROVE  CtxOf(ctx[k].try) = k
<1>1. ASSUME NEW i \in 1 .. Len(ctx), ctx[i].try = ctx[k].try PROVE i = k
  <2>1. i < k => ctx[i].try < ctx[k].try
    BY DEF Nested
  <2>2. k < i => ctx[k].try < ctx[i].try
    BY DEF Nested
  <2>3. ctx[k].try \in Nat /\ ctx[i].try \in Nat
    BY CtxTypes
  <2>4. QED
    BY <1>1, <2>1, <2>2, <2>3
<1>2. QED
  BY <1>1 DEF CtxOf

(* The try block on __trystack is that of the innermost open context. *)
LEMMA TopTry ==
  ASSUME TypesGiven, Typed, Nested, StackMatches
  PROVE  /\ OpenTries = {} => trystack = 0
         /\ OpenTries # {} => \E k \in OpenTries : /\ \A i \in OpenTries : i <= k
                                          /\ trystack = ctx[k].try
         /\ \A k \in OpenTries : trystack = ctx[k].try => \A i \in OpenTries : i <= k
         /\ \A k \in OpenTries : (\A i \in OpenTries : i <= k) => trystack = ctx[k].try
         /\ trystack \in DOMAIN mark <=> OpenTries # {}
<1>1. /\ ctx \in Seq(Contexts) /\ Len(ctx) \in Nat
      /\ OpenTries = OpenIn(ctx) /\ trystack = InnermostIn(ctx, Len(ctx))
  BY AreIn DEF Typed, StackMatches
<1>2. \A i \in OpenTries : i \in 1 .. Len(ctx)
  BY DEF OpenTries
<1>3. OpenTries = {} => trystack = 0
  BY <1>1, InnermostIs
<1>4. \A k \in OpenTries : (\A i \in OpenTries : i <= k) => trystack = ctx[k].try
  BY <1>1, <1>2, InnermostIs
<1>5. OpenTries # {} => \E k \in OpenTries : \A i \in OpenTries : i <= k
  BY <1>1, <1>2, InnermostIs
<1>6. ASSUME NEW k \in OpenTries, trystack = ctx[k].try, NEW i \in OpenTries PROVE i <= k
  <2>1. PICK l \in OpenTries : \A j \in OpenTries : j <= l
    BY <1>5
  <2>2. trystack = ctx[l].try
    BY <1>4, <2>1
  <2>3. k = l
    BY <1>2, <1>6, <2>2, CtxOfIs
  <2>4. QED
    BY <2>1, <2>3
<1>7. trystack \in DOMAIN mark <=> OpenTries # {}
  <2>1. CASE OpenTries = {}
    BY <1>3, <2>1, CtxTypes
  <2>2. CASE OpenTries # {}
    BY <1>4, <1>5, <2>2, CtxTypes
  <2>3. QED
    BY <2>1, <2>2
<1>8. QED
  BY <1>3, <1>4, <1>5, <1>6, <1>7

(* Contexts from k on replaced by one. *)
LEMMA CutIs ==
  ASSUME NEW s \in Seq(Contexts), NEW k \in 1 .. Len(s), NEW c \in Contexts,
         NEW d, d = Append(SubSeq(s, 1, k - 1), c)
  PROVE  /\ d \in Seq(Contexts) /\ Len(d) = k /\ d[k] = c
         /\ \A i \in 1 .. k - 1 : d[i] = s[i]
<1> DEFINE low == SubSeq(s, 1, k - 1)
<1>1. /\ low \in Seq(Contexts) /\ Len(low) = k - 1
      /\ \A i \in 1 .. k - 1 : low[i] = s[i]
  OBVIOUS
<1> HIDE DEF low
<1>2. d = Append(low, c)
  BY DEF low
<1>3. QED
  BY <1>1, <1>2

LEMMA InnermostBelow ==
  ASSUME NEW c \in Seq(Contexts), NEW k \in Nat \ {0}, k \notin OpenIn(c)
  PROVE  InnermostIn(c, k) = InnermostIn(c, k - 1)
<1>1. {i \in OpenIn(c) : i <= k} = {i \in OpenIn(c) : i <= k - 1}
  BY DEF OpenIn
<1>2. QED
  BY <1>1 DEF InnermostIn

(* The innermost open context k gives way to c, the catch or the finally part of
   its try block, whose mark becomes r, and every context above k is dropped. *)
SetChanges(k, c, r) ==
    /\ ctx' = Append(SubSeq(ctx, 1, k - 1), c)
    /\ mark' = [mark EXCEPT ![c.try] = r]
    /\ tries' = tries /\ status' = "running" /\ want' \in Wants

Replaces(k, c, r) ==
    /\ k \in OpenTries /\ \A i \in OpenTries : i <= k
    /\ c \in Contexts /\ c.try = ctx[k].try /\ c.kind \in {"catch", "finally"}
    /\ r \in Marks /\ r.catches = mark[c.try].catches
    /\ r.active => r.typ \in Types
    /\ c.kind = "finally" => /\ trystack' = mark[c.try].outer
                             /\ fin' = [fin EXCEPT ![c.try] = @ + 1]
    /\ c.kind = "catch" => /\ trystack' = trystack /\ fin' = fin
                           /\ r.outer = mark[c.try].outer /\ r.active
    /\ c.kind = "finally" /\ c.resume = "rethrow" =>
           r.typ \in Types /\ c.want = Handler(r.obj, r.typ, k - 1)
    /\ \/ got' = want'
       \/ c.kind = "finally" /\ c.resume = "rethrow"
       \/ /\ c.kind = "finally" /\ UNCHANGED <<got, want>>
          /\ \A i \in k + 1 .. Len(ctx) : ~Pending(i)

LEMMA Unwinding ==
  ASSUME TypesGiven, ThrowInv, NEW k, NEW c, NEW r, Replaces(k, c, r), SetChanges(k, c, r)
  PROVE  ThrowInv'
<1> DEFINE m == c.try
<1>1. /\ k \in 2 .. Len(ctx) /\ k \in 1 .. Len(ctx) /\ m \in DOMAIN mark
      /\ DOMAIN mark = 1 .. tries /\ DOMAIN fin = 1 .. tries
      /\ ctx \in Seq(Contexts) /\ Len(ctx) \in Nat /\ mark[m] \in Marks
      /\ \A i \in 1 .. Len(ctx) : ctx[i].try \in 0 .. tries
      /\ trystack = m
  BY CtxTypes, TopTry DEF ThrowInv, Typed, Replaces
<1>2. /\ ctx' \in Seq(Contexts) /\ Len(ctx') = k /\ ctx'[k] = c
      /\ \A i \in 1 .. k - 1 : ctx'[i] = ctx[i]
  BY <1>1, CutIs DEF SetChanges, Replaces
<1>3. \A i \in 1 .. k - 1 : ctx[i].try < m
  BY <1>1 DEF ThrowInv, Nested, Replaces
<1>4. \A i \in 1 .. k - 1 : ctx[i].try # m
  BY <1>1, <1>3
<1>5. k \in Nat \ {0} /\ k - 1 \in 0 .. k - 1 /\ k - 1 \in Nat
  BY <1>1
<1>6. /\ mark'[m] = r
      /\ \A x \in DOMAIN mark : x # m => mark'[x] = mark[x]
      /\ DOMAIN mark' = 1 .. tries
  BY <1>1 DEF SetChanges
<1>7. Typed'
  <2>1. mark' \in Seq(Marks) /\ Len(mark') = tries'
    BY <1>1 DEF ThrowInv, Typed, Replaces, SetChanges
  <2>2. fin' \in Seq(Nat) /\ Len(fin') = tries'
    <3>1. CASE c.kind = "finally"
      <4>1. fin[m] \in Nat
        BY <1>1 DEF ThrowInv, Typed
      <4>2. fin[m] + 1 \in Nat
        BY <4>1
      <4>3. fin' = [fin EXCEPT ![m] = fin[m] + 1]
        BY <1>1, <3>1 DEF Replaces, SetChanges
      <4>4. QED
        BY <1>1, <4>2, <4>3 DEF ThrowInv, Typed, SetChanges
    <3>2. CASE c.kind = "catch"
      BY <3>2 DEF ThrowInv, Typed, Replaces, SetChanges
    <3>3. QED
      BY <3>1, <3>2 DEF Replaces
  <2>3. \A i \in 1 .. Len(ctx') : ctx'[i].try <= tries'
    BY <1>1, <1>2 DEF SetChanges
  <2>4. trystack' \in Int
    BY <1>1 DEF Marks, Replaces
  <2>5. tries' \in Nat
    BY DEF ThrowInv, Typed, SetChanges
  <2>6. QED
    BY <1>2, <2>1, <2>2, <2>3, <2>4, <2>5 DEF Typed, SetChanges
<1>8. Nested'
  <2>1. Len(ctx') >= 1 /\ ctx'[1].kind = "start" /\ ctx'[1].try = 0
    BY <1>1, <1>2 DEF ThrowInv, Nested
  <2>2. ASSUME NEW i \in 2 .. Len(ctx') PROVE ctx'[i].kind # "start"
    <3>1. CASE i = k
      BY <1>2, <3>1 DEF Replaces
    <3>2. CASE i # k
      <4>1. i \in 1 .. k - 1 /\ i \in 2 .. Len(ctx)
        BY <1>1, <1>2, <3>2
      <4>2. QED
        BY <1>2, <4>1 DEF ThrowInv, Nested
    <3>3. QED
      BY <3>1, <3>2
  <2>3. \A i, j \in 1 .. Len(ctx') : i < j => ctx'[i].try < ctx'[j].try
    BY <1>1, <1>2 DEF ThrowInv, Nested, Replaces
  <2>4. QED
    BY <2>1, <2>2, <2>3 DEF Nested
<1>9. /\ \A i \in 1 .. k - 1 : i \in OpenTries' <=> i \in OpenTries
      /\ k \in OpenTries' <=> c.kind = "catch"
      /\ OpenTries' \subseteq 1 .. k
  BY <1>1, <1>2 DEF OpenTries, Replaces
<1>10. \A n \in 0 .. k - 1 : InnermostIn(ctx', n) = InnermostIn(ctx, n)
  <2>1. ASSUME NEW n \in 0 .. k - 1 PROVE InnermostIn(ctx', n) = InnermostIn(ctx, n)
    <3>1. n \in Nat /\ n <= Len(ctx') /\ n <= Len(ctx) /\ \A i \in 1 .. n : i \in 1 .. k - 1
      BY <1>1, <1>2
    <3>2. \A i \in 1 .. n : ctx'[i] = ctx[i]
      BY <1>2, <3>1
    <3>3. ctx' \in Seq(Contexts) /\ ctx \in Seq(Contexts)
      BY <1>1, <1>2
    <3>4. QED
      BY <3>1, <3>2, <3>3, InnermostSame
  <2>2. QED
    BY <2>1
<1>11. StackMatches'
  <2>1. \A i \in OpenTries : mark[ctx[i].try].outer = InnermostIn(ctx, i - 1)
    BY AreIn DEF ThrowInv, StackMatches
  <2>2. ASSUME NEW i \in OpenTries' PROVE mark'[ctx'[i].try].outer = InnermostIn(ctx', i - 1)
    <3>1. CASE i < k
      <4>1. i \in 1 .. k - 1 /\ i \in OpenTries
        BY <1>1, <1>9, <2>2, <3>1
      <4>2. /\ ctx'[i].try = ctx[i].try /\ ctx[i].try # m
            /\ ctx[i].try \in DOMAIN mark
        BY <1>2, <1>4, <4>1, CtxTypes DEF ThrowInv
      <4>3. mark'[ctx'[i].try] = mark[ctx[i].try]
        BY <1>6, <4>2
      <4>4. i - 1 \in 0 .. k - 1
        BY <1>1, <4>1
      <4>5. QED
        BY <1>10, <2>1, <4>1, <4>3, <4>4
    <3>2. CASE i = k
      <4>1. c.kind = "catch" /\ mark'[ctx'[k].try].outer = mark[m].outer
        BY <1>2, <1>6, <1>9, <2>2, <3>2 DEF Replaces
      <4>2. mark[m].outer = InnermostIn(ctx, k - 1)
        BY <2>1 DEF Replaces
      <4>3. k - 1 \in 0 .. k - 1
        BY <1>1
      <4>4. QED
        BY <1>10, <3>2, <4>1, <4>2, <4>3
    <3>3. QED
      BY <1>1, <1>9, <2>2, <3>1, <3>2
  <2>3. trystack' = InnermostIn(ctx', k)
    <3>1. CASE c.kind = "catch"
      <4>1. k \in OpenIn(ctx') /\ \A i \in OpenIn(ctx') : i <= k
        BY <1>1, <1>9, <3>1, AreIn
      <4>2. InnermostIn(ctx', k) = ctx'[k].try
        BY <1>2, <1>5, <4>1, InnermostIs
      <4>3. QED
        BY <1>1, <1>2, <3>1, <4>2 DEF Replaces
    <3>2. CASE c.kind = "finally"
      <4>1. k \notin OpenIn(ctx')
        BY <1>9, <3>2, AreIn
      <4>2. InnermostIn(ctx', k) = InnermostIn(ctx', k - 1)
        BY <1>2, <1>5, <4>1, InnermostBelow
      <4>3. k - 1 \in 0 .. k - 1
        BY <1>1
      <4>4. trystack' = InnermostIn(ctx, k - 1)
        BY <2>1, <3>2 DEF Replaces
      <4>5. QED
        BY <1>10, <4>2, <4>3, <4>4
    <3>3. QED
      BY <3>1, <3>2 DEF Replaces
  <2>4. QED
    BY <1>2, <2>2, <2>3, AreIn DEF StackMatches
<1>12. Once'
  <2>1. SUFFICES ASSUME NEW x \in 1 .. tries
                 PROVE fin'[x] = IF \E i \in OpenTries' : ctx'[i].try = x THEN 0 ELSE 1
    BY <1>7 DEF Once, Typed, SetChanges
  <2>2. fin[x] = IF \E i \in OpenTries : ctx[i].try = x THEN 0 ELSE 1
    BY <2>1 DEF ThrowInv, Once, Typed
  <2>3. CASE x = m /\ c.kind = "catch"
    <3>1. fin'[x] = 0
      BY <2>2, <2>3 DEF Replaces
    <3>2. k \in OpenTries' /\ ctx'[k].try = x
      BY <1>2, <1>9, <2>3
    <3>3. QED
      BY <3>1, <3>2
  <2>4. CASE x = m /\ c.kind = "finally"
    <3>1. fin[x] = 0
      BY <2>2, <2>4 DEF Replaces
    <3>2. fin'[x] = 1
      BY <1>1, <2>1, <2>4, <3>1 DEF Replaces
    <3>3. ASSUME NEW i \in OpenTries' PROVE ctx'[i].try # x
      <4>1. i \in 1 .. k - 1
        BY <1>1, <1>9, <2>4, <3>3
      <4>2. QED
        BY <1>1, <1>2, <1>3, <2>4, <4>1
    <3>4. QED
      BY <3>2, <3>3
  <2>5. CASE x # m
    <3>1. fin'[x] = fin[x]
      BY <1>1, <2>1, <2>5 DEF Replaces
    <3>2. ASSUME NEW i \in OpenTries, ctx[i].try = x PROVE i \in OpenTries' /\ ctx'[i].try = x
      <4>1. i \in 1 .. k - 1
        BY <1>1, <2>5, <3>2 DEF OpenTries, Replaces
      <4>2. QED
        BY <1>2, <1>9, <3>2, <4>1
    <3>3. ASSUME NEW i \in OpenTries', ctx'[i].try = x PROVE i \in OpenTries /\ ctx[i].try = x
      <4>1. i \in 1 .. k - 1
        BY <1>1, <1>2, <1>9, <2>5, <3>3
      <4>2. QED
        BY <1>2, <1>9, <3>3, <4>1
    <3>4. QED
      BY <2>2, <3>1, <3>2, <3>3
  <2>6. QED
    BY <2>3, <2>4, <2>5 DEF Replaces
<1>13. ActiveInCatch'
  <2>1. ASSUME NEW i \in OpenTries' PROVE mark'[ctx'[i].try].active <=> ctx'[i].kind = "catch"
    <3>1. CASE i = k
      BY <1>2, <1>6, <1>9, <2>1, <3>1 DEF Replaces
    <3>2. CASE i # k
      <4>1. i \in 1 .. k - 1 /\ i \in OpenTries
        BY <1>1, <1>9, <2>1, <3>2
      <4>2. /\ ctx'[i] = ctx[i] /\ ctx[i].try # m
            /\ ctx[i].try \in DOMAIN mark
        BY <1>2, <1>4, <4>1, CtxTypes DEF ThrowInv
      <4>3. mark'[ctx'[i].try] = mark[ctx[i].try]
        BY <1>6, <4>2
      <4>4. QED
        BY <4>1, <4>2, <4>3 DEF ThrowInv, ActiveInCatch
    <3>3. QED
      BY <3>1, <3>2
  <2>2. ASSUME NEW x \in DOMAIN mark', mark'[x].active PROVE mark'[x].typ \in Types
    BY <1>1, <1>6, <2>2 DEF ThrowInv, ActiveInCatch, Replaces
  <2>3. QED
    BY <2>1, <2>2 DEF ActiveInCatch
<1>14. \A obj, typ : \A n \in 0 .. k - 1 :
          HandlerIn(ctx', mark', obj, typ, n) = HandlerIn(ctx, mark, obj, typ, n)
  <2>1. ASSUME NEW obj, NEW typ, NEW n \in 0 .. k - 1
        PROVE  HandlerIn(ctx', mark', obj, typ, n) = HandlerIn(ctx, mark, obj, typ, n)
    <3>1. \A i \in 1 .. n : i \in 1 .. k - 1 /\ i \in 1 .. Len(ctx)
      BY <1>1
    <3>2. \A i \in 1 .. n : ctx'[i] = ctx[i]
      BY <1>2, <3>1
    <3>3. ASSUME NEW i \in 1 .. n, ctx'[i].kind = "body"
          PROVE  mark'[ctx'[i].try].catches = mark[ctx'[i].try].catches
      <4>1. i \in OpenTries
        BY <3>1, <3>2, <3>3 DEF OpenTries
      <4>2. ctx[i].try \in DOMAIN mark /\ ctx[i].try # m
        BY <1>4, <3>1, <4>1, CtxTypes DEF ThrowInv
      <4>3. QED
        BY <1>6, <3>2, <4>2
    <3>4. n \in Nat
      BY <1>5
    <3>5. QED
      BY <3>2, <3>3, <3>4, HandlerSame
  <2>2. QED
    BY <2>1
<1>15. WantsOutside'
  <2>1. SUFFICES ASSUME NEW i \in 1 .. k, Pending(i)'
                 PROVE  /\ mark'[ctx'[i].try].typ \in Types
                        /\ ctx'[i].want = HandlerIn(ctx', mark', mark'[ctx'[i].try].obj,
                                                    mark'[ctx'[i].try].typ, i - 1)
    BY <1>2, AreIn DEF WantsOutside
  <2>2. i - 1 \in 0 .. k - 1
    BY <1>5
  <2>3. CASE i = k
    <3>1. ctx'[i] = c /\ mark'[ctx'[i].try] = r
      BY <1>2, <1>6, <2>3
    <3>2. c.kind = "finally" /\ c.resume = "rethrow"
      BY <2>1, <3>1 DEF Pending
    <3>3. r.typ \in Types /\ c.want = HandlerIn(ctx, mark, r.obj, r.typ, k - 1)
      BY <3>2, AreIn DEF Replaces
    <3>4. HandlerIn(ctx', mark', r.obj, r.typ, k - 1) = HandlerIn(ctx, mark, r.obj, r.typ, k - 1)
      BY <1>14, <1>5
    <3>5. QED
      BY <2>3, <3>1, <3>3, <3>4
  <2>4. CASE i # k
    <3>1. i \in 1 .. k - 1 /\ i \in 1 .. Len(ctx)
      BY <1>1, <2>4
    <3>2. ctx'[i] = ctx[i] /\ Pending(i)
      BY <1>2, <2>1, <3>1 DEF Pending
    <3>3. i \in 2 .. Len(ctx)
      BY <3>1, <3>2 DEF Pending, ThrowInv, Nested
    <3>4. ctx[i].try # m /\ ctx[i].try \in DOMAIN mark
      BY <1>4, <3>1, <3>3, CtxTypes DEF ThrowInv
    <3>5. mark'[ctx'[i].try] = mark[ctx[i].try]
      BY <1>1, <1>6, <3>2, <3>4
    <3>6. /\ mark[ctx[i].try].typ \in Types
          /\ ctx[i].want = HandlerIn(ctx, mark, mark[ctx[i].try].obj,
                                     mark[ctx[i].try].typ, i - 1)
      BY <3>1, <3>2, AreIn DEF ThrowInv, WantsOutside
    <3>7. \A obj, typ : HandlerIn(ctx', mark', obj, typ, i - 1) = HandlerIn(ctx, mark, obj, typ, i - 1)
      BY <1>14, <2>2
    <3>8. HandlerIn(ctx', mark', mark'[ctx'[i].try].obj, mark'[ctx'[i].try].typ, i - 1)
            = HandlerIn(ctx, mark, mark'[ctx'[i].try].obj, mark'[ctx'[i].try].typ, i - 1)
      BY <3>7
    <3>9. QED
      BY <3>2, <3>5, <3>6, <3>8
  <2>5. QED
    BY <2>3, <2>4
<1>16. GotOrPending'
  <2>1. SUFFICES ASSUME NEW j \in 1 .. k, ctx'[j].kind = "catch", ctx'[j].try = got'.try
                 PROVE  got' = want' \/ \E i \in j + 1 .. k : Pending(i)'
    BY <1>2 DEF GotOrPending
  <2>2. CASE got' = want'
    BY <2>2
  <2>3. CASE c.kind = "finally" /\ c.resume = "rethrow"
    <3>1. j # k /\ Pending(k)'
      BY <1>2, <2>1, <2>3 DEF Pending
    <3>2. k \in j + 1 .. k
      BY <1>1, <3>1
    <3>3. QED
      BY <3>1, <3>2
  <2>4. CASE /\ c.kind = "finally" /\ UNCHANGED <<got, want>>
             /\ \A i \in k + 1 .. Len(ctx) : ~Pending(i)
    <3>1. j \in 1 .. k - 1
      BY <1>1, <1>2, <2>1, <2>4
    <3>2. ctx'[j] = ctx[j] /\ j \in 1 .. Len(ctx)
      BY <1>1, <1>2, <3>1
    <3>3. got = want \/ \E i \in j + 1 .. Len(ctx) : Pending(i)
      BY <2>1, <2>4, <3>2 DEF ThrowInv, GotOrPending
    <3>4. CASE got = want
      BY <2>4, <3>4
    <3>5. ASSUME NEW i \in j + 1 .. Len(ctx), Pending(i)
          PROVE  \E l \in j + 1 .. k : Pending(l)'
      <4>1. i # k
        BY <3>5 DEF Pending, OpenTries, Replaces
      <4>2. i \in 1 .. k - 1 /\ i \in j + 1 .. k
        BY <1>1, <2>4, <3>1, <3>5, <4>1
      <4>3. Pending(i)'
        BY <1>2, <3>5, <4>2 DEF Pending
      <4>4. QED
        BY <4>2, <4>3
    <3>6. QED
      BY <3>3, <3>4, <3>5
  <2>5. QED
    BY <2>2, <2>3, <2>4 DEF Replaces
<1>17. NoHandler'
  BY DEF NoHandler, SetChanges
<1>18. QED
  BY <1>7, <1>8, <1>11, <1>12, <1>13, <1>15, <1>16, <1>17 DEF ThrowInv
-----------------------------------------------------------------------------
(* What Finally does, when the try block is the innermost one. *)
LEMMA FinallyKeeps ==
  ASSUME TypesGiven, ThrowInv, NEW k \in OpenTries, \A i \in OpenTries : i <= k,
         NEW resume \in {"end", "leave", "rethrow"}, NEW w \in Wants,
         Finally(ctx[k].try, resume, mark[ctx[k].try].outer, w),
         tries' = tries, status' = "running", want' \in Wants,
         resume = "rethrow" =>
             /\ mark[ctx[k].try].typ \in Types
             /\ w = Handler(mark[ctx[k].try].obj, mark[ctx[k].try].typ, k - 1),
         \/ resume = "rethrow"
         \/ UNCHANGED <<got, want>> /\ \A i \in k + 1 .. Len(ctx) : ~Pending(i)
  PROVE  ThrowInv'
<1> DEFINE m == ctx[k].try
           c == Context("finally", m, resume, w)
           r == [mark[m] EXCEPT !.outer = Code]
<1>1. /\ k \in 1 .. Len(ctx) /\ m \in DOMAIN mark /\ mark[m] \in Marks /\ m \in Nat
      /\ CtxOf(m) = k
  BY CtxTypes, CtxOfIs DEF ThrowInv
<1>2. c \in Contexts /\ c.try = m /\ c.kind = "finally" /\ c.resume = resume /\ c.want = w
  BY <1>1 DEF Context, Contexts, Kinds
<1>3. /\ r \in Marks /\ r.catches = mark[m].catches /\ r.active = mark[m].active
      /\ r.obj = mark[m].obj /\ r.typ = mark[m].typ
  BY <1>1 DEF Marks, Code
<1>4. /\ trystack' = mark[m].outer
      /\ fin' = [fin EXCEPT ![m] = @ + 1]
      /\ mark' = [mark EXCEPT ![m].outer = Code]
      /\ ctx' = Append(Drop(m), c)
  BY DEF Finally
<1>5. ctx' = Append(SubSeq(ctx, 1, k - 1), c)
  BY <1>1, <1>4 DEF Drop
<1>6. mark' = [mark EXCEPT ![m] = r]
  BY <1>4
<1>7. mark[m].active => mark[m].typ \in Types
  BY <1>1 DEF ThrowInv, ActiveInCatch
<1> HIDE DEF c, r
<1>8. Replaces(k, c, r)
  BY <1>2, <1>3, <1>4, <1>7 DEF Replaces
<1>9. SetChanges(k, c, r)
  BY <1>2, <1>5, <1>6 DEF SetChanges
<1>10. QED
  BY <1>8, <1>9, Unwinding

(* The scan of the clauses finds what the language says. *)
LEMMA ClausesAre ==
  ASSUME TypesGiven, Typed, NEW m \in DOMAIN mark, NEW typ \in Types
  PROVE  /\ Clauses(m, typ) = CatchIn(mark[m].catches, typ)
         /\ \A x \in Clauses(m, typ) :
               /\ Scan(typ, mark[m].catches[x]).cast = Offset(typ, mark[m].catches[x])
               /\ Offset(typ, mark[m].catches[x]) \in Int
<1>1. mark[m].catches \in CatchLists /\ mark[m].catches \in Seq(Nat)
  <2>1. mark[m] \in Marks
    BY DEF Typed
  <2>2. QED
    BY <2>1 DEF Marks, TypesGiven
<1>2. DOMAIN mark[m].catches = 1 .. Len(mark[m].catches)
  BY <1>1
<1>3. QED
  BY <1>1, <1>2 DEF TypesGiven, ScanRight, Clauses, CatchIn

LEMMA CaughtType ==
  ASSUME TypesGiven, Typed, NEW m \in DOMAIN mark, NEW typ \in Types, NEW obj \in Int,
         CatchIn(mark[m].catches, typ) # {}
  PROVE  CaughtBy(m, mark[m].catches, obj, typ) \in Wants
<1> DEFINE S == CatchIn(mark[m].catches, typ)
<1>1. S = Clauses(m, typ) /\ m \in Nat
  BY ClausesAre DEF Typed
<1>2. S \subseteq Nat
  BY DEF CatchIn
<1> HIDE DEF S
<1>3. Min(S) \in S /\ S # {}
  BY <1>2, MinIs DEF S
<1>4. Min(S) \in Nat /\ Offset(typ, mark[m].catches[Min(S)]) \in Int
  BY <1>1, <1>2, <1>3, ClausesAre
<1>5. QED
  BY <1>1, <1>4 DEF CaughtBy, Wants, S

LEMMA HandlerType ==
  ASSUME TypesGiven, Typed, Nested, NEW typ \in Types, NEW obj \in Int, NEW n \in 0 .. Len(ctx)
  PROVE  HandlerIn(ctx, mark, obj, typ, n) \in Wants
<1> DEFINE S == AbleIn(ctx, mark, typ, n)
<1>1. S \subseteq 1 .. n /\ S \subseteq OpenTries /\ n \in Nat
  BY DEF AbleIn, OpenTries
<1>2. CASE S = {}
  BY <1>2 DEF HandlerIn, Nobody, Wants
<1>3. CASE S # {}
  <2>1. Max(S) \in S
    <3> HIDE DEF S
    <3>1. QED
      BY <1>1, <1>3, MaxIs
  <2>2. PICK x \in S : x = Max(S)
    BY <2>1
  <2>3. ctx[x].try \in DOMAIN mark
    BY <1>1, CtxTypes
  <2>4. mark[ctx[x].try].catches \in Seq(Nat)
    BY <2>3, CtxTypes
  <2>5. CatchIn(mark[ctx[x].try].catches, typ) # {}
    BY <2>4 DEF AbleIn, CatchIn, Range
  <2>6. HandlerIn(ctx, mark, obj, typ, n) = CaughtBy(ctx[x].try, mark[ctx[x].try].catches, obj, typ)
    BY <1>3, <2>2 DEF HandlerIn
  <2>7. QED
    BY <2>3, <2>5, <2>6, CaughtType
<1>4. QED
  BY <1>2, <1>3

(* An exception that nobody catches. *)
LEMMA StoppedKeeps ==
  ASSUME TypesGiven, ThrowInv, status' = "uncaught", want' \in Wants,
         UNCHANGED <<trystack, mark, ctx, tries, fin, got>>,
         \/ UNCHANGED want /\ trystack \in DOMAIN mark
         \/ OpenTries = {} /\ want' = Nobody
  PROVE  ThrowInv'
<1>1. Typed'
  BY DEF ThrowInv, Typed
<1>2. Nested' /\ StackMatches' /\ Once' /\ ActiveInCatch'
  <2>1. Nested'
    BY DEF ThrowInv, Nested
  <2>2. OpenTries' = OpenTries /\ \A n : Innermost(n)' = Innermost(n)
    BY AreIn DEF OpenTries
  <2>3. StackMatches'
    BY <2>2 DEF ThrowInv, StackMatches
  <2>4. Once' /\ ActiveInCatch'
    BY <2>2 DEF ThrowInv, Once, ActiveInCatch
  <2>5. QED
    BY <2>1, <2>3, <2>4
<1>3. WantsOutside'
  <2>1. \A obj, typ, n : Handler(obj, typ, n)' = Handler(obj, typ, n)
    BY AreIn
  <2>2. QED
    BY <2>1 DEF ThrowInv, WantsOutside, Pending
<1>4. GotOrPending'
  <2>1. CASE UNCHANGED want
    BY <2>1 DEF ThrowInv, GotOrPending, Pending
  <2>2. CASE OpenTries = {}
    BY <2>2 DEF GotOrPending, OpenTries
  <2>3. QED
    BY <2>1, <2>2
<1>5. NoHandler'
  BY DEF NoHandler
<1>6. QED
  BY <1>1, <1>2, <1>3, <1>4, <1>5 DEF ThrowInv

(* The loop of __throw, one try block at a time. *)
LEMMA RaiseKeeps ==
  ASSUME TypesGiven, ThrowInv, status = "running", NEW obj \in Int, NEW typ \in Types,
         NEW w, w = Handler(obj, typ, Len(ctx)), Raise(obj, typ, w), want' = w, tries' = tries
  PROVE  ThrowInv'
<1> DEFINE m == trystack
<1>1. /\ Len(ctx) \in Nat /\ Len(ctx) \in 0 .. Len(ctx) /\ DOMAIN mark = 1 .. tries
      /\ w = HandlerIn(ctx, mark, obj, typ, Len(ctx))
  BY AreIn, CtxTypes DEF ThrowInv, Typed
<1>2. w \in Wants
  BY <1>1, HandlerType DEF ThrowInv
<1>3. CASE m \notin DOMAIN mark
  <2>1. OpenTries = {}
    BY <1>3, TopTry DEF ThrowInv
  <2>2. AbleIn(ctx, mark, typ, Len(ctx)) = {}
    BY <2>1 DEF AbleIn, OpenTries
  <2>3. w = Nobody
    BY <1>1, <2>2 DEF HandlerIn
  <2>4. status' = "uncaught" /\ UNCHANGED <<trystack, mark, ctx, fin, got>>
    BY <1>3 DEF Raise
  <2>5. QED
    BY <1>2, <2>1, <2>3, <2>4, StoppedKeeps
<1>4. CASE m \in DOMAIN mark
  <2>1. OpenTries # {}
    BY <1>4, TopTry DEF ThrowInv
  <2>2. PICK k \in OpenTries : (\A i \in OpenTries : i <= k) /\ m = ctx[k].try
    BY <2>1, TopTry DEF ThrowInv
  <2>3. /\ k \in 2 .. Len(ctx) /\ k \in 1 .. Len(ctx) /\ CtxOf(m) = k
        /\ mark[m] \in Marks /\ m \in Nat /\ ctx[k].kind \in {"body", "catch"}
    BY <1>4, <2>2, CtxTypes, CtxOfIs DEF ThrowInv, OpenTries
  <2>4. mark[m].active <=> ctx[k].kind = "catch"
    BY <2>2 DEF ThrowInv, ActiveInCatch
  <2>5. Clauses(m, typ) = CatchIn(mark[m].catches, typ)
    BY <1>4, ClausesAre DEF ThrowInv
  <2>6. \A i \in k + 1 .. Len(ctx) : ctx[i].kind # "body"
    <3>1. ASSUME NEW i \in k + 1 .. Len(ctx) PROVE i \notin OpenTries /\ i \in 1 .. Len(ctx)
      BY <2>2, <2>3, <3>1
    <3>2. QED
      BY <3>1 DEF OpenTries
  <2> DEFINE cs == IF mark[m].active THEN {} ELSE Clauses(m, typ)
             d == [mark[m] EXCEPT !.active = TRUE, !.obj = obj, !.typ = typ]
             e == [mark[m] EXCEPT !.outer = Code, !.obj = obj, !.typ = typ]
             C == Context("catch", m, "end", w)
             F == Context("finally", m, "rethrow", w)
  <2>7. CASE cs # {}
    <3>1. ~mark[m].active /\ ctx[k].kind = "body" /\ cs = CatchIn(mark[m].catches, typ)
      BY <2>3, <2>4, <2>5, <2>7
    <3>2. w = CaughtBy(m, mark[m].catches, obj, typ)
      <4>1. CatchIn(mark[ctx[k].try].catches, typ) # {} /\ ctx[k].kind = "body"
        BY <2>2, <2>7, <3>1
      <4>2. PICK n \in Nat : n = Len(ctx)
        BY <1>1
      <4>3. k \in 1 .. n /\ \A i \in k + 1 .. n : ctx[i].kind # "body"
        BY <2>3, <2>6, <4>2
      <4> HIDE DEF m, cs, d, e, C, F
      <4>4. HandlerIn(ctx, mark, obj, typ, n) =
                CaughtBy(ctx[k].try, mark[ctx[k].try].catches, obj, typ)
        <5>1. n \in Nat /\ k \in 1 .. n /\ ctx[k].kind = "body"
          BY <4>1, <4>2, <4>3
        <5>2. CatchIn(mark[ctx[k].try].catches, typ) # {}
          BY <4>1
        <5>3. \A i \in k + 1 .. n : ctx[i].kind # "body"
          BY <4>3
        <5>4. QED
          BY ONLY <5>1, <5>2, <5>3, HandlerAt
      <4>5. QED
        BY <1>1, <2>2, <4>2, <4>4
    <3>3. Min(cs) \in cs
      <4>1. cs \subseteq Nat
        BY <3>1 DEF CatchIn
      <4>2. QED
        BY <2>7, <4>1, MinIs
    <3>4. Scan(typ, mark[m].catches[Min(cs)]).cast = Offset(typ, mark[m].catches[Min(cs)])
      BY <1>4, <3>1, <3>3, <2>5, ClausesAre DEF ThrowInv
    <3>5. /\ status' = status /\ mark' = [mark EXCEPT ![m] = d]
          /\ ctx' = Append(Drop(m), C)
          /\ got' = [try |-> m, clause |-> Min(cs),
                     ptr |-> obj + Scan(typ, mark[m].catches[Min(cs)]).cast]
          /\ trystack' = trystack /\ fin' = fin
      BY <1>4, <2>7 DEF Raise
    <3>6. got' = want'
      BY <3>1, <3>2, <3>4, <3>5 DEF CaughtBy
    <3>7. /\ d \in Marks /\ d.catches = mark[m].catches /\ d.active /\ d.typ = typ
          /\ d.outer = mark[m].outer
      BY <2>3 DEF Marks
    <3>8. C \in Contexts /\ C.try = m /\ C.kind = "catch"
      BY <1>2, <2>3 DEF Context, Contexts, Kinds
    <3>9. ctx' = Append(SubSeq(ctx, 1, k - 1), C)
      BY <2>3, <3>5 DEF Drop
    <3> HIDE DEF C, d
    <3>10. Replaces(k, C, d)
      BY <2>2, <3>5, <3>6, <3>7, <3>8 DEF Replaces
    <3>11. SetChanges(k, C, d)
      BY <1>2, <3>5, <3>8, <3>9 DEF SetChanges
    <3>12. QED
      BY <3>10, <3>11, Unwinding
  <2>8. CASE cs = {}
    <3>1. ctx[k].kind # "body" \/ CatchIn(mark[ctx[k].try].catches, typ) = {}
      BY <2>2, <2>3, <2>4, <2>5, <2>8
    <3>2. ASSUME NEW i \in k .. Len(ctx)
          PROVE  /\ mark[ctx[i].try].catches \in Seq(Nat)
                 /\ ctx[i].kind # "body" \/ CatchIn(mark[ctx[i].try].catches, typ) = {}
      <4>1. i \in 2 .. Len(ctx) /\ (i = k \/ i \in k + 1 .. Len(ctx))
        BY <2>3
      <4>2. mark[ctx[i].try].catches \in Seq(Nat)
        BY <4>1, CtxTypes DEF ThrowInv
      <4>3. QED
        BY <2>6, <3>1, <4>1, <4>2
    <3>3. w = HandlerIn(ctx, mark, obj, typ, k - 1)
      <4>1. PICK j \in Nat : j = k - 1
        BY <2>3
      <4>2. Len(ctx) \in Nat /\ j <= Len(ctx) /\ j + 1 = k
        BY <1>1, <2>3, <4>1
      <4>3. /\ \A i \in j + 1 .. Len(ctx) : mark[ctx[i].try].catches \in Seq(Nat)
            /\ \A i \in j + 1 .. Len(ctx) :
                  ctx[i].kind # "body" \/ CatchIn(mark[ctx[i].try].catches, typ) = {}
        BY <3>2, <4>2
      <4>4. HandlerIn(ctx, mark, obj, typ, Len(ctx)) = HandlerIn(ctx, mark, obj, typ, j)
        BY <4>2, <4>3, HandlerSkips
      <4>5. QED
        BY <1>1, <4>1, <4>4
    <3>4. /\ status' = status /\ mark' = [mark EXCEPT ![m] = e]
          /\ ctx' = Append(Drop(m), F) /\ fin' = [fin EXCEPT ![m] = @ + 1]
          /\ trystack' = mark[m].outer
      BY <1>4, <2>8 DEF Raise
    <3>5. e \in Marks /\ e.catches = mark[m].catches /\ e.typ = typ /\ e.obj = obj
      <4>2. Code \in Int
        BY DEF Code
      <4>3. QED
        BY <2>3, <4>2 DEF Marks
    <3>6. /\ F \in Contexts /\ F.try = m /\ F.kind = "finally" /\ F.resume = "rethrow"
          /\ F.want = w
      BY <1>2, <2>3 DEF Context, Contexts, Kinds
    <3>7. ctx' = Append(SubSeq(ctx, 1, k - 1), F)
      BY <2>3, <3>4 DEF Drop
    <3>8. w = Handler(obj, typ, k - 1)
      BY <3>3, AreIn
    <3> HIDE DEF F, e
    <3>9. Replaces(k, F, e)
      BY <2>2, <3>4, <3>5, <3>6, <3>8 DEF Replaces
    <3>10. SetChanges(k, F, e)
      BY <1>2, <3>4, <3>6, <3>7 DEF SetChanges
    <3>11. QED
      BY <3>9, <3>10, Unwinding
  <2>9. QED
    BY <2>7, <2>8
<1>5. QED
  BY <1>3, <1>4

LEMMA BeginKeeps ==
  ASSUME TypesGiven, ThrowInv, NEW catches \in CatchLists, BeginTry(catches)
  PROVE  ThrowInv'
<1> DEFINE c == Context("body", tries + 1, "end", Nobody)
           r == [outer |-> trystack, catches |-> catches, active |-> FALSE, obj |-> 0, typ |-> 0]
<1>1. PICK n \in Nat : n = Len(ctx) /\ n >= 1
  BY DEF ThrowInv, Typed, Nested
<1>2. PICK t \in Nat : t = tries + 1
  BY DEF ThrowInv, Typed
<1>3. /\ status' = "running" /\ tries' = t /\ trystack' = t /\ UNCHANGED <<want, got>>
      /\ mark' = Append(mark, r) /\ fin' = Append(fin, 0) /\ ctx' = Append(ctx, c)
  BY <1>2 DEF BeginTry, Running
<1>4. c \in Contexts /\ c.kind = "body" /\ c.try = t
  BY <1>2 DEF Context, Contexts, Kinds, Wants, Nobody
<1>5. r \in Marks /\ r.outer = trystack /\ ~r.active
  BY DEF Marks, ThrowInv, Typed
<1> HIDE DEF c, r
<1>6. /\ ctx' \in Seq(Contexts) /\ Len(ctx') = n + 1 /\ ctx'[n + 1] = c
      /\ \A i \in 1 .. n : ctx'[i] = ctx[i]
  BY <1>1, <1>3, <1>4 DEF ThrowInv, Typed
<1>7. /\ mark' \in Seq(Marks) /\ Len(mark') = t /\ mark'[t] = r /\ DOMAIN mark' = 1 .. t
      /\ DOMAIN mark = 1 .. tries /\ tries \in Nat /\ tries < t
      /\ \A x \in 1 .. tries : mark'[x] = mark[x] /\ x \in 1 .. t /\ x # t
      /\ \A x \in 1 .. t : x = t \/ x \in 1 .. tries
  BY <1>2, <1>3, <1>5 DEF ThrowInv, Typed
<1>8. /\ fin' \in Seq(Nat) /\ Len(fin') = t /\ fin'[t] = 0
      /\ \A x \in 1 .. tries : fin'[x] = fin[x]
  BY <1>2, <1>3, SMTT(30) DEF ThrowInv, Typed
<1>9. /\ \A i \in 1 .. n : ctx[i].try \in 0 .. tries /\ ctx[i].try < t
      /\ \A i \in 2 .. n : ctx[i].try \in 1 .. tries
      /\ \A i \in OpenTries : i \in 2 .. n
  BY <1>1, <1>2, <1>7, CtxTypes DEF ThrowInv
<1>10. OpenTries' = OpenTries \union {n + 1} /\ OpenTries \subseteq 1 .. n
  BY <1>1, <1>4, <1>6 DEF OpenTries
<1>11. \A i \in 1 .. n + 1 : i = n + 1 \/ i \in 1 .. n
  BY <1>1
<1>12. Typed'
  <2>1. \A i \in 1 .. Len(ctx') : ctx'[i].try <= tries'
    BY <1>2, <1>3, <1>4, <1>6, <1>9, <1>11
  <2>2. tries' \in Nat /\ trystack' \in Int /\ want' \in Wants
    BY <1>3 DEF ThrowInv, Typed
  <2>3. QED
    BY <1>3, <1>6, <1>7, <1>8, <2>1, <2>2 DEF Typed
<1>13. Nested'
  <2>1. Len(ctx') >= 1 /\ ctx'[1].kind = "start" /\ ctx'[1].try = 0
    BY <1>1, <1>6 DEF ThrowInv, Nested
  <2>2. \A i \in 2 .. Len(ctx') : ctx'[i].kind # "start"
    BY <1>1, <1>4, <1>6, <1>11 DEF ThrowInv, Nested
  <2>3. ASSUME NEW i \in 1 .. Len(ctx'), NEW j \in 1 .. Len(ctx'), i < j
        PROVE  ctx'[i].try < ctx'[j].try
    <3>1. i \in 1 .. n
      BY <1>6, <2>3
    <3>2. CASE j = n + 1
      BY <1>4, <1>6, <1>9, <3>1, <3>2
    <3>3. CASE j \in 1 .. n
      BY <1>1, <1>6, <2>3, <3>1, <3>3 DEF ThrowInv, Nested
    <3>4. QED
      BY <1>6, <1>11, <3>2, <3>3
  <2>4. QED
    BY <2>1, <2>2, <2>3 DEF Nested
<1>14. \A l \in 0 .. n : InnermostIn(ctx', l) = InnermostIn(ctx, l)
  <2>1. ASSUME NEW l \in 0 .. n PROVE InnermostIn(ctx', l) = InnermostIn(ctx, l)
    <3>1. l \in Nat /\ l <= Len(ctx') /\ l <= Len(ctx) /\ \A i \in 1 .. l : ctx'[i] = ctx[i]
      BY <1>1, <1>6
    <3>2. ctx' \in Seq(Contexts) /\ ctx \in Seq(Contexts)
      BY <1>6 DEF ThrowInv, Typed
    <3>3. QED
      BY <3>1, <3>2, InnermostSame
  <2>2. QED
    BY <2>1
<1>15. StackMatches'
  <2>1. /\ \A i \in OpenTries : mark[ctx[i].try].outer = InnermostIn(ctx, i - 1)
        /\ trystack = InnermostIn(ctx, n)
    BY <1>1, AreIn DEF ThrowInv, StackMatches
  <2>2. ASSUME NEW i \in OpenTries' PROVE mark'[ctx'[i].try].outer = InnermostIn(ctx', i - 1)
    <3>1. CASE i = n + 1
      <4>1. mark'[ctx'[i].try].outer = trystack /\ i - 1 = n /\ n \in 0 .. n
        BY <1>4, <1>5, <1>6, <1>7, <3>1
      <4>2. QED
        BY <1>14, <2>1, <4>1
    <3>2. CASE i \in OpenTries
      <4>1. i \in 1 .. n /\ i \in 2 .. n /\ i - 1 \in 0 .. n
        <5>1. i \in 2 .. n
          BY ONLY <1>9, <3>2
        <5>2. QED
          BY ONLY <1>1, <5>1
      <4>2. mark'[ctx'[i].try] = mark[ctx[i].try]
        BY <1>6, <1>7, <1>9, <4>1
      <4>3. QED
        BY <1>14, <2>1, <3>2, <4>1, <4>2
    <3>3. QED
      BY <1>10, <2>2, <3>1, <3>2
  <2>3. trystack' = InnermostIn(ctx', n + 1)
    <3>1. n + 1 \in OpenIn(ctx') /\ \A i \in OpenIn(ctx') : i <= n + 1
      BY <1>10, AreIn
    <3>2. InnermostIn(ctx', n + 1) = ctx'[n + 1].try
      BY <1>6, <3>1, InnermostIs
    <3>3. QED
      BY <1>3, <1>4, <1>6, <3>2
  <2>4. QED
    BY <1>6, <2>2, <2>3, AreIn DEF StackMatches
<1>16. Once'
  <2>1. SUFFICES ASSUME NEW x \in 1 .. t
                 PROVE fin'[x] = IF \E i \in OpenTries' : ctx'[i].try = x THEN 0 ELSE 1
    BY <1>7 DEF Once
  <2>2. CASE x = t
    BY <1>4, <1>6, <1>8, <1>10, <2>2
  <2>3. CASE x \in 1 .. tries
    <3>1. fin'[x] = IF \E i \in OpenTries : ctx[i].try = x THEN 0 ELSE 1
      BY <1>8, <2>3 DEF ThrowInv, Once, Typed
    <3>2. ctx'[n + 1].try # x
      BY <1>4, <1>6, <1>7, <2>3
    <3>3. \A i \in OpenTries : ctx'[i].try = ctx[i].try
      BY <1>6, <1>10
    <3>4. (\E i \in OpenTries' : ctx'[i].try = x) <=> (\E i \in OpenTries : ctx[i].try = x)
      BY <1>10, <3>2, <3>3
    <3>5. QED
      BY <3>1, <3>4
  <2>4. QED
    BY <1>7, <2>1, <2>2, <2>3
<1>17. ActiveInCatch'
  <2>1. ASSUME NEW i \in OpenTries' PROVE mark'[ctx'[i].try].active <=> ctx'[i].kind = "catch"
    <3>1. CASE i = n + 1
      BY <1>4, <1>5, <1>6, <1>7, <3>1
    <3>2. CASE i \in OpenTries
      <4>1. i \in 2 .. n /\ i \in 1 .. n
        BY <1>9, <1>10, <3>2
      <4>2. mark'[ctx'[i].try] = mark[ctx[i].try] /\ ctx'[i] = ctx[i]
        BY <1>6, <1>7, <1>9, <4>1
      <4>3. QED
        BY <3>2, <4>2 DEF ThrowInv, ActiveInCatch
    <3>3. QED
      BY <1>10, <2>1, <3>1, <3>2
  <2>2. ASSUME NEW x \in DOMAIN mark', mark'[x].active PROVE mark'[x].typ \in Types
    BY <1>5, <1>7, <2>2 DEF ThrowInv, ActiveInCatch
  <2>3. QED
    BY <2>1, <2>2 DEF ActiveInCatch
<1>18. WantsOutside'
  <2>1. SUFFICES ASSUME NEW i \in 1 .. n + 1, Pending(i)'
                 PROVE  /\ mark'[ctx'[i].try].typ \in Types
                        /\ ctx'[i].want = HandlerIn(ctx', mark', mark'[ctx'[i].try].obj,
                                                    mark'[ctx'[i].try].typ, i - 1)
    BY <1>6, AreIn DEF WantsOutside
  <2>2. i \in 1 .. n
    BY <1>4, <1>6, <1>11, <2>1 DEF Pending
  <2>3. ctx'[i] = ctx[i] /\ Pending(i)
    BY <1>6, <2>1, <2>2 DEF Pending
  <2>4. i \in 2 .. n
    BY <1>1, <2>2, <2>3 DEF Pending, ThrowInv, Nested
  <2>5. mark'[ctx'[i].try] = mark[ctx[i].try]
    BY <1>7, <1>9, <2>3, <2>4
  <2>6. PICK obj, typ : obj = mark[ctx[i].try].obj /\ typ = mark[ctx[i].try].typ
    OBVIOUS
  <2>7. typ \in Types /\ ctx[i].want = HandlerIn(ctx, mark, obj, typ, i - 1)
    BY <1>1, <2>2, <2>3, <2>6, AreIn DEF ThrowInv, WantsOutside
  <2>8. HandlerIn(ctx', mark', obj, typ, i - 1) = HandlerIn(ctx, mark, obj, typ, i - 1)
    <3>1. PICK l \in Nat : l = i - 1
      BY <2>2
    <3>2. \A j \in 1 .. l : j \in 1 .. n
      BY <2>2, <3>1
    <3>3. \A j \in 1 .. l : ctx'[j] = ctx[j]
      BY <1>6, <3>2
    <3>4. ASSUME NEW j \in 1 .. l, ctx'[j].kind = "body"
          PROVE  mark'[ctx'[j].try].catches = mark[ctx'[j].try].catches
      <4>1. j \in OpenTries
        BY <1>1, <3>2, <3>3, <3>4 DEF OpenTries
      <4>2. QED
        BY <1>7, <1>9, <3>3, <4>1
    <3>5. HandlerIn(ctx', mark', obj, typ, l) = HandlerIn(ctx, mark, obj, typ, l)
      BY <3>3, <3>4, HandlerSame
    <3>6. QED
      BY <3>1, <3>5
  <2>9. QED
    BY <2>3, <2>5, <2>6, <2>7, <2>8
<1>19. GotOrPending'
  <2>1. SUFFICES ASSUME NEW j \in 1 .. n + 1, ctx'[j].kind = "catch", ctx'[j].try = got.try
                 PROVE  got = want \/ \E i \in j + 1 .. n + 1 : Pending(i)'
    BY <1>3, <1>6 DEF GotOrPending
  <2>2. j \in 1 .. n
    BY <1>4, <1>6, <1>11, <2>1
  <2>3. got = want \/ \E i \in j + 1 .. n : Pending(i)
    BY <1>1, <1>6, <2>1, <2>2 DEF ThrowInv, GotOrPending
  <2>4. ASSUME NEW i \in j + 1 .. n, Pending(i) PROVE i \in j + 1 .. n + 1 /\ Pending(i)'
    <3>1. i \in 1 .. n /\ i \in j + 1 .. n + 1
      BY <2>2, <2>4
    <3>2. QED
      BY <1>6, <2>4, <3>1 DEF Pending
  <2>5. QED
    BY <2>3, <2>4
<1>20. NoHandler'
  BY <1>3 DEF NoHandler
<1>21. QED
  BY <1>12, <1>13, <1>15, <1>16, <1>17, <1>18, <1>19, <1>20 DEF ThrowInv

(* The end of a finally part that no exception passes through. *)
LEMMA PopKeeps ==
  ASSUME TypesGiven, ThrowInv, Running, Top.kind = "finally", Top.resume # "rethrow",
         ctx' = Front(ctx), UNCHANGED <<trystack, mark, tries, fin, status, want, got>>
  PROVE  ThrowInv'
<1>1. PICK n \in Nat \ {0} : n = Len(ctx)
  BY DEF ThrowInv, Typed, Nested
<1>2. ctx[n].kind = "finally" /\ ctx[n].resume # "rethrow" /\ n \in Nat /\ n # 1
  BY <1>1 DEF Top, ThrowInv, Nested
<1>3. PICK l \in Nat \ {0} : l = n - 1
  BY <1>2
<1>4. l + 1 = n /\ l < n /\ \A i \in 1 .. n : i = n \/ i \in 1 .. l
  BY <1>2, <1>3
<1>5. /\ ctx' \in Seq(Contexts) /\ Len(ctx') = l
      /\ \A i \in 1 .. l : ctx'[i] = ctx[i] /\ i \in 1 .. n
  BY <1>1, <1>3 DEF Front, ThrowInv, Typed
<1>6. OpenTries' = OpenTries /\ OpenTries \subseteq 1 .. l
  BY <1>1, <1>2, <1>4, <1>5 DEF OpenTries
<1>7. Typed' /\ Nested'
  <2>1. Typed'
    BY <1>1, <1>5 DEF ThrowInv, Typed
  <2>2. Nested'
    BY <1>1, <1>3, <1>5, SMTT(30) DEF ThrowInv, Nested
  <2>3. QED
    BY <2>1, <2>2
<1>8. \A i \in 0 .. l : InnermostIn(ctx', i) = InnermostIn(ctx, i)
  <2>1. ASSUME NEW i \in 0 .. l PROVE InnermostIn(ctx', i) = InnermostIn(ctx, i)
    <3>1. i \in Nat /\ i <= Len(ctx') /\ i <= Len(ctx) /\ \A j \in 1 .. i : ctx'[j] = ctx[j]
      BY <1>1, <1>4, <1>5
    <3>2. ctx' \in Seq(Contexts) /\ ctx \in Seq(Contexts)
      BY <1>5 DEF ThrowInv, Typed
    <3>3. QED
      BY <3>1, <3>2, InnermostSame
  <2>2. QED
    BY <2>1
<1>9. StackMatches'
  <2>1. /\ \A i \in OpenTries : mark[ctx[i].try].outer = InnermostIn(ctx, i - 1)
        /\ trystack = InnermostIn(ctx, n)
    BY <1>1, AreIn DEF ThrowInv, StackMatches
  <2>2. ASSUME NEW i \in OpenTries' PROVE mark'[ctx'[i].try].outer = InnermostIn(ctx', i - 1)
    <3>1. i \in OpenTries /\ ctx'[i] = ctx[i] /\ i - 1 \in 0 .. l
      BY <1>5, <1>6, <2>2
    <3>2. QED
      BY <1>8, <2>1, <3>1
  <2>3. trystack' = InnermostIn(ctx', l)
    <3>1. n \notin OpenIn(ctx)
      BY <1>2 DEF OpenIn
    <3>2. InnermostIn(ctx, n) = InnermostIn(ctx, n - 1)
      BY <3>1, InnermostBelow DEF ThrowInv, Typed
    <3>3. l \in 0 .. l
      OBVIOUS
    <3>4. QED
      BY <1>3, <1>8, <2>1, <3>2, <3>3
  <2>4. QED
    BY <1>5, <2>2, <2>3, AreIn DEF StackMatches
<1>10. Once' /\ ActiveInCatch'
  <2>1. \A i \in OpenTries : ctx'[i] = ctx[i]
    BY <1>5, <1>6
  <2>2. Once'
    BY <1>6, <2>1 DEF ThrowInv, Once
  <2>3. ActiveInCatch'
    BY <1>6, <2>1 DEF ThrowInv, ActiveInCatch
  <2>4. QED
    BY <2>2, <2>3
<1>11. WantsOutside'
  <2>1. SUFFICES ASSUME NEW i \in 1 .. l, Pending(i)'
                 PROVE  /\ mark[ctx[i].try].typ \in Types
                        /\ ctx[i].want = HandlerIn(ctx', mark', mark[ctx[i].try].obj,
                                                   mark[ctx[i].try].typ, i - 1)
    BY <1>5, AreIn DEF WantsOutside
  <2>2. PICK obj, typ : obj = mark[ctx[i].try].obj /\ typ = mark[ctx[i].try].typ
    OBVIOUS
  <2>3. typ \in Types /\ ctx[i].want = HandlerIn(ctx, mark, obj, typ, i - 1)
    BY <1>1, <1>5, <2>1, <2>2, AreIn DEF ThrowInv, WantsOutside, Pending
  <2>4. PICK p \in Nat : p = i - 1
    BY <2>1
  <2>5. \A j \in 1 .. p : ctx'[j] = ctx[j]
    BY <1>5, <2>4
  <2>6. HandlerIn(ctx', mark', obj, typ, p) = HandlerIn(ctx, mark, obj, typ, p)
    BY <2>5, HandlerSame
  <2>7. QED
    BY <2>2, <2>3, <2>4, <2>6
<1>12. GotOrPending'
  <2>1. SUFFICES ASSUME NEW j \in 1 .. l, ctx[j].kind = "catch", ctx[j].try = got.try, got # want
                 PROVE  \E i \in j + 1 .. l : Pending(i)'
    BY <1>5 DEF GotOrPending
  <2>2. PICK i \in j + 1 .. n : Pending(i)
    BY <1>1, <1>5, <2>1 DEF ThrowInv, GotOrPending
  <2>3. i # n
    BY <1>2, <2>2 DEF Pending
  <2>4. i \in 1 .. l /\ i \in j + 1 .. l
    BY <1>3, <2>1, <2>2, <2>3
  <2>5. QED
    BY <1>5, <2>2, <2>4 DEF Pending
<1>13. NoHandler'
  BY DEF NoHandler, Running
<1>14. QED
  BY <1>7, <1>9, <1>10, <1>11, <1>12, <1>13 DEF ThrowInv

(* The context on top of the stack. *)
LEMMA TopIs ==
  ASSUME TypesGiven, ThrowInv
  PROVE  \E n \in Nat : n >= 1 /\ n = Len(ctx) /\ Top = ctx[n] /\ Top \in Contexts
<1>1. PICK n \in Nat : n = Len(ctx) /\ n >= 1
  BY DEF ThrowInv, Typed, Nested
<1>2. n \in 1 .. Len(ctx) /\ Top = ctx[n]
  BY <1>1 DEF Top
<1>3. QED
  BY <1>1, <1>2, CtxTypes DEF ThrowInv

LEMMA LeaveKeeps ==
  ASSUME TypesGiven, ThrowInv, Running, Top.kind \in {"body", "catch"},
         NEW resume \in {"end", "leave"},
         Finally(Top.try, resume, mark[Top.try].outer, Nobody),
         UNCHANGED <<tries, status, want, got>>
  PROVE  ThrowInv'
<1>1. PICK n \in Nat : n >= 1 /\ n = Len(ctx) /\ Top = ctx[n]
  BY TopIs
<1>2. n \in OpenTries /\ \A i \in OpenTries : i <= n
  BY <1>1 DEF OpenTries
<1>3. \A i \in n + 1 .. Len(ctx) : ~Pending(i)
  BY <1>1
<1>4. /\ Finally(ctx[n].try, resume, mark[ctx[n].try].outer, Nobody)
      /\ Nobody \in Wants /\ want' \in Wants /\ status' = "running" /\ tries' = tries
      /\ UNCHANGED <<got, want>> /\ resume \in {"end", "leave", "rethrow"}
      /\ resume # "rethrow"
  BY <1>1 DEF Nobody, Wants, Running, ThrowInv, Typed
<1>5. QED
  BY <1>2, <1>3, <1>4, FinallyKeeps

LEMMA ThrowKeeps ==
  ASSUME TypesGiven, ThrowInv, NEW typ \in Types, ThrowIt(typ * 10, typ)
  PROVE  ThrowInv'
<1>1. PICK obj \in Int : obj = typ * 10
  BY DEF TypesGiven
<1>2. PICK w : w = want'
  OBVIOUS
<1>3. /\ w = Handler(obj, typ, Len(ctx)) /\ Raise(obj, typ, w) /\ want' = w
      /\ tries' = tries /\ status = "running"
  BY <1>1, <1>2 DEF ThrowIt, Running
<1>4. QED
  BY <1>3, RaiseKeeps

(* Contexts that are no body do not catch. *)
LEMMA HandlerBelow ==
  ASSUME TypesGiven, ThrowInv, NEW k \in 2 .. Len(ctx), ctx[k].kind # "body",
         NEW obj, NEW typ
  PROVE  Handler(obj, typ, k) = Handler(obj, typ, k - 1)
<1>1. PICK l \in Nat : l = k - 1
  OBVIOUS
<1>2. PICK n \in Nat : n = k
  OBVIOUS
<1>3. l <= n /\ \A i \in l + 1 .. n : i = k
  BY <1>1, <1>2
<1>4. /\ \A i \in l + 1 .. n : mark[ctx[i].try].catches \in Seq(Nat)
      /\ \A i \in l + 1 .. n : ctx[i].kind # "body" \/ CatchIn(mark[ctx[i].try].catches, typ) = {}
  BY <1>3, CtxTypes DEF ThrowInv
<1>5. HandlerIn(ctx, mark, obj, typ, n) = HandlerIn(ctx, mark, obj, typ, l)
  <2>1. n \in Nat /\ l \in Nat /\ l <= n
    BY <1>3
  <2>2. \A i \in l + 1 .. n : mark[ctx[i].try].catches \in Seq(Nat)
    BY <1>4
  <2>3. \A i \in l + 1 .. n : ctx[i].kind # "body" \/ CatchIn(mark[ctx[i].try].catches, typ) = {}
    BY <1>4
  <2>4. QED
    BY ONLY <2>1, <2>2, <2>3, HandlerSkips
<1>6. QED
  BY <1>1, <1>2, <1>5, AreIn

LEMMA RethrowKeeps ==
  ASSUME TypesGiven, ThrowInv, Rethrow
  PROVE  ThrowInv'
<1>1. OpenTries # {}
  BY TopTry DEF ThrowInv, Rethrow
<1>2. PICK k \in OpenTries : (\A i \in OpenTries : i <= k) /\ trystack = ctx[k].try
  BY <1>1, TopTry DEF ThrowInv
<1>3. /\ k \in 2 .. Len(ctx) /\ CtxOf(ctx[k].try) = k
      /\ ctx[k].try \in DOMAIN mark /\ mark[ctx[k].try] \in Marks
  BY CtxTypes, CtxOfIs DEF ThrowInv
<1>4. PICK w : w = want'
  OBVIOUS
<1>5. CASE mark[trystack].active
  <2>1. ctx[k].kind = "catch"
    BY <1>2, <1>5 DEF ThrowInv, ActiveInCatch
  <2>2. PICK obj, typ : obj = mark[ctx[k].try].obj /\ typ = mark[ctx[k].try].typ
    OBVIOUS
  <2>3. obj \in Int /\ typ \in Types
    BY <1>2, <1>3, <1>5, <2>2 DEF ThrowInv, ActiveInCatch, Marks
  <2>4. Handler(obj, typ, k) = Handler(obj, typ, k - 1)
    BY <1>3, <2>1, HandlerBelow
  <2>5. w = Handler(obj, typ, k) /\ Finally(ctx[k].try, "rethrow", mark[ctx[k].try].outer, w)
    BY <1>2, <1>3, <1>4, <1>5, <2>2 DEF Rethrow
  <2>6. w \in Wants
    <3>1. k \in 0 .. Len(ctx)
      BY <1>3
    <3>2. HandlerIn(ctx, mark, obj, typ, k) \in Wants
      BY <2>3, <3>1, HandlerType DEF ThrowInv
    <3>3. QED
      BY <2>5, <3>2, AreIn
  <2>7. tries' = tries /\ status' = "running" /\ want' \in Wants
    BY <1>4, <1>5, <2>6 DEF Rethrow, Running
  <2>8. /\ mark[ctx[k].try].typ \in Types
        /\ w = Handler(mark[ctx[k].try].obj, mark[ctx[k].try].typ, k - 1)
    BY <2>2, <2>3, <2>4, <2>5
  <2>9. QED
    BY <1>2, <2>5, <2>6, <2>7, <2>8, FinallyKeeps
<1>6. CASE ~mark[trystack].active
  <2>1. /\ status' = "uncaught" /\ UNCHANGED <<trystack, mark, ctx, tries, fin, got, want>>
        /\ trystack \in DOMAIN mark
    BY <1>6 DEF Rethrow
  <2>2. want' \in Wants
    BY <2>1 DEF ThrowInv, Typed
  <2>3. QED
    BY <2>1, <2>2, StoppedKeeps
<1>7. QED
  BY <1>5, <1>6

LEMMA ReturnKeeps ==
  ASSUME TypesGiven, ThrowInv, EndFinally
  PROVE  ThrowInv'
<1>1. PICK n \in Nat : n >= 1 /\ n = Len(ctx) /\ Top = ctx[n] /\ Top \in Contexts
  BY TopIs
<1>2. /\ Running /\ status = "running" /\ Top.kind = "finally" /\ tries' = tries
      /\ Top.resume \in {"end", "leave", "rethrow"}
  BY <1>1 DEF EndFinally, Running, Contexts
<1>3. n \in 2 .. Len(ctx) /\ n \in 1 .. Len(ctx) /\ n # 1 /\ n \notin OpenTries
  BY <1>1, <1>2 DEF ThrowInv, Nested, OpenTries
<1>4. CASE Top.resume = "rethrow"
  <2>1. PICK obj, typ, w : /\ obj = mark[ctx[n].try].obj /\ typ = mark[ctx[n].try].typ
                           /\ w = Top.want
    OBVIOUS
  <2>2. Pending(n)
    BY <1>1, <1>2, <1>4 DEF Pending
  <2>3. typ \in Types /\ w = Handler(obj, typ, n - 1)
    BY <1>1, <1>3, <2>1, <2>2 DEF ThrowInv, WantsOutside
  <2>4. obj \in Int
    BY <1>3, <2>1, CtxTypes DEF ThrowInv, Marks
  <2>5. Handler(obj, typ, n) = Handler(obj, typ, n - 1)
    BY <1>1, <1>2, <1>3, HandlerBelow
  <2>6. w = Handler(obj, typ, Len(ctx))
    BY <1>1, <2>3, <2>5
  <2>7. want' = w /\ Raise(obj, typ, w)
    BY <1>1, <1>4, <2>1 DEF EndFinally
  <2>8. QED
    BY <1>2, <2>3, <2>4, <2>6, <2>7, RaiseKeeps
<1>5. ASSUME Top.resume # "rethrow", ctx' = Front(ctx),
             UNCHANGED <<trystack, mark, tries, fin, status, want, got>>
      PROVE  ThrowInv'
  BY <1>2, <1>5, PopKeeps
<1>6. CASE Top.resume = "end"
  <2>1. ctx' = Front(ctx) /\ UNCHANGED <<trystack, mark, tries, fin, status, want, got>>
    BY <1>6 DEF EndFinally
  <2>2. QED
    BY <1>5, <1>6, <2>1
<1>7. CASE Top.resume = "leave"
  <2> DEFINE below == ctx[Len(ctx) - 1]
  <2>1. /\ want' = want /\ UNCHANGED <<status, got>>
        /\ \/ ctx' = Front(ctx) /\ UNCHANGED <<trystack, mark, fin, status, got>>
           \/ /\ below.kind \in {"body", "catch"}
              /\ Finally(below.try, "leave", mark[below.try].outer, Nobody)
    BY <1>7 DEF EndFinally
  <2>2. CASE ctx' = Front(ctx) /\ UNCHANGED <<trystack, mark, fin, status, got>>
    BY <1>2, <1>5, <1>7, <2>1, <2>2
  <2>3. CASE /\ below.kind \in {"body", "catch"}
             /\ Finally(below.try, "leave", mark[below.try].outer, Nobody)
    <3>1. PICK k \in 1 .. Len(ctx) : k = n - 1 /\ below = ctx[k]
      BY <1>1, <1>3
    <3>2. k \in OpenTries /\ k + 1 = n
      BY <1>3, <2>3, <3>1 DEF OpenTries
    <3>3. \A i \in OpenTries : i <= k
      BY <1>1, <1>3, <3>1 DEF OpenTries
    <3>4. \A i \in k + 1 .. Len(ctx) : ~Pending(i)
      BY <1>1, <1>7, <3>2 DEF Pending
    <3>5. Finally(ctx[k].try, "leave", mark[ctx[k].try].outer, Nobody)
      BY <2>3, <3>1
    <3>6. /\ Nobody \in Wants /\ want' \in Wants /\ status' = "running" /\ tries' = tries
          /\ UNCHANGED <<got, want>>
      BY <1>2, <2>1 DEF Nobody, Wants, ThrowInv, Typed
    <3>7. QED
      BY <3>2, <3>3, <3>4, <3>5, <3>6, FinallyKeeps
  <2>4. QED
    BY <2>1, <2>2, <2>3
<1>8. QED
  BY <1>2, <1>4, <1>6, <1>7
-----------------------------------------------------------------------------
LEMMA InitInv ==
  ASSUME Init
  PROVE  ThrowInv
<1>1. /\ trystack = 0 /\ mark = << >> /\ tries = 0 /\ status = "running" /\ fin = << >>
      /\ want = Nobody /\ got = Nobody /\ Len(ctx) = 1
      /\ ctx[1] = Context("start", 0, "end", Nobody)
  BY DEF Init
<1>2. /\ ctx[1].kind = "start" /\ ctx[1].try = 0 /\ \A i \in 1 .. Len(ctx) : i = 1
      /\ Context("start", 0, "end", Nobody) \in Contexts /\ Nobody \in Wants
  BY <1>1 DEF Context, Contexts, Kinds, Wants, Nobody
<1>3. Typed
  BY <1>1, <1>2 DEF Init, Typed
<1>4. Nested
  BY <1>1, <1>2 DEF Nested
<1>5. OpenTries = {}
  BY <1>1, <1>2 DEF OpenTries
<1>6. StackMatches /\ Once /\ ActiveInCatch
  BY <1>1, <1>5 DEF StackMatches, Innermost, Once, ActiveInCatch
<1>7. WantsOutside /\ GotOrPending /\ NoHandler
  BY <1>1, <1>2 DEF WantsOutside, Pending, GotOrPending, NoHandler
<1>8. QED
  BY <1>3, <1>4, <1>6, <1>7 DEF ThrowInv

LEMMA StepInv ==
  ASSUME TypesGiven, ThrowInv, [Next]_vars
  PROVE  ThrowInv'
<1>1. ASSUME NEW catches \in CatchLists, BeginTry(catches) PROVE ThrowInv'
  BY <1>1, BeginKeeps
<1>2. CASE EndBlock
  BY <1>2, LeaveKeeps DEF EndBlock
<1>3. CASE Leave
  BY <1>3, LeaveKeeps DEF Leave
<1>4. CASE Rethrow
  BY <1>4, RethrowKeeps
<1>5. CASE EndFinally
  BY <1>5, ReturnKeeps
<1>6. ASSUME NEW typ \in Types, ThrowIt(typ * 10, typ) PROVE ThrowInv'
  BY <1>6, ThrowKeeps
<1>7. CASE UNCHANGED vars
  <2>1. UNCHANGED <<trystack, mark, ctx, tries, status, fin, want, got>>
    BY <1>7 DEF vars
  <2>2. OpenTries' = OpenTries /\ \A n : Innermost(n)' = Innermost(n)
    BY <2>1, AreIn
  <2>3. \A obj, typ, n : Handler(obj, typ, n)' = Handler(obj, typ, n)
    BY <2>1, AreIn
  <2>4. Typed' /\ Nested' /\ StackMatches' /\ Once' /\ ActiveInCatch'
    BY <2>1, <2>2 DEF ThrowInv, Typed, Nested, StackMatches, Once, ActiveInCatch
  <2>5. WantsOutside' /\ GotOrPending' /\ NoHandler'
    BY <2>1, <2>3 DEF ThrowInv, WantsOutside, Pending, GotOrPending, NoHandler
  <2>6. QED
    BY <2>4, <2>5 DEF ThrowInv
<1>8. QED
  BY <1>1, <1>2, <1>3, <1>4, <1>5, <1>6, <1>7 DEF Next

LEMMA InvUnwinds ==
  ASSUME TypesGiven, ThrowInv
  PROVE  Unwinds
<1>1. StackMatches /\ FinallyOnce
  BY DEF ThrowInv, Once, FinallyOnce
<1>2. ASSUME Top.kind = "catch", got.try = Top.try PROVE got = want
  <2>1. PICK n \in Nat : n >= 1 /\ n = Len(ctx) /\ Top = ctx[n]
    BY TopIs
  <2>2. n \in 1 .. Len(ctx) /\ \A i \in n + 1 .. Len(ctx) : FALSE
    BY <2>1
  <2>3. QED
    BY <1>2, <2>1, <2>2 DEF ThrowInv, GotOrPending
<1>3. CaughtRight
  BY <1>2 DEF ThrowInv, NoHandler, CaughtRight
<1>4. QED
  BY <1>1, <1>3 DEF Unwinds

(* Whatever a program does with try, catch, finally, throw, rethrow, return and
   break, in any nesting: __trystack links the try blocks that it is in, each
   finally part runs once, and the catch that gets an exception is the one that
   the language names (throw.asm with the marks of generate.cc and assemble.cc). *)
THEOREM TriesUnwind ==
  ASSUME TypesGiven
  PROVE  Spec => []Unwinds
<1>1. Init => ThrowInv
  BY InitInv
<1>2. ThrowInv /\ [Next]_vars => ThrowInv'
  BY StepInv
<1>3. ThrowInv => Unwinds
  BY InvUnwinds
<1>4. QED
  BY <1>1, <1>2, <1>3, PTL DEF Spec

-------------------------------------------------------------------------------
(***************************************************************************)
(* FdFile.  The invariant adds to the properties that the part of the      *)
(* buffer already looked at holds no newline, and where in what write was  *)
(* given each character is fetched that a buffer has let go.               *)
(***************************************************************************)
Fetched(s, k) == [i \in DOMAIN k |-> s[k[i]]]

LEMMA FetchedIs ==
    ASSUME NEW S, NEW s \in Seq(S), NEW k \in Seq(1 .. Len(s))
    PROVE  /\ Fetched(s, k) \in Seq(S) /\ Len(Fetched(s, k)) = Len(k)
           /\ \A i \in 1 .. Len(k) : k[i] \in 1 .. Len(s) /\ Fetched(s, k)[i] = s[k[i]]
<1>1. Len(k) \in Nat /\ DOMAIN k = 1 .. Len(k)
  BY LenProperties
<1>2. \A i \in 1 .. Len(k) : k[i] \in 1 .. Len(s)
  BY ElementOfSeq
<1>3. \A i \in 1 .. Len(k) : s[k[i]] \in S
  BY <1>2, ElementOfSeq
<1>4. Fetched(s, k) \in [1 .. Len(k) -> S]
  BY <1>1, <1>3 DEF Fetched
<1>5. Fetched(s, k) \in Seq(S)
  BY <1>1, <1>4, SeqDef
<1>6. Len(Fetched(s, k)) = Len(k)
  BY <1>1, <1>4, <1>5, LenProperties
<1>7. \A i \in 1 .. Len(k) : Fetched(s, k)[i] = s[k[i]]
  BY <1>1 DEF Fetched
<1> QED
  BY <1>2, <1>5, <1>6, <1>7

(* What was fetched is still fetched when more is written. *)
LEMMA FetchedLater ==
    ASSUME NEW S, NEW s \in Seq(S), NEW t \in Seq(S), NEW k \in Seq(1 .. Len(s))
    PROVE  k \in Seq(1 .. Len(s \o t)) /\ Fetched(s \o t, k) = Fetched(s, k)
<1>1. s \o t \in Seq(S) /\ Len(s \o t) = Len(s) + Len(t) /\ Len(s) \in Nat /\ Len(t) \in Nat
  BY ConcatProperties, LenProperties
<1>2. \A i \in 1 .. Len(s) : (s \o t)[i] = s[i]
  BY <1>1, ConcatProperties
<1>3. 1 .. Len(s) \subseteq 1 .. Len(s \o t)
  BY <1>1
<1>4. k \in Seq(1 .. Len(s \o t))
  BY <1>3, SeqMonotonic
<1>5. DOMAIN k = 1 .. Len(k) /\ \A i \in 1 .. Len(k) : k[i] \in 1 .. Len(s)
  BY ElementOfSeq, LenProperties
<1>6. Fetched(s \o t, k) = Fetched(s, k)
  BY <1>2, <1>5 DEF Fetched
<1> QED
  BY <1>4, <1>6

Numbers(fresh, a, b) ==
    fresh \in Seq(Int) /\ Len(fresh) = b /\ \A i \in 1 .. b : fresh[i] = a + i

(* What a buffer lets go is fetched where write put it. *)
LEMMA FetchedNow ==
    ASSUME NEW S, NEW s \in Seq(S), NEW t \in Seq(S), NEW k \in Seq(1 .. Len(s)),
           Increasing(k), NEW fresh, Numbers(fresh, Len(s), Len(t))
    PROVE  /\ k \o fresh \in Seq(1 .. Len(s \o t)) /\ Increasing(k \o fresh)
           /\ Fetched(s \o t, k \o fresh) = Fetched(s, k) \o t
<1> DEFINE a == Len(s)  b == Len(t)  c == Len(k)  P == 1 .. Len(s \o t)  k2 == k \o fresh
<1>0. fresh \in Seq(Int) /\ Len(fresh) = b /\ \A i \in 1 .. b : fresh[i] = a + i
  BY DEF Numbers
<1>1. s \o t \in Seq(S) /\ Len(s \o t) = a + b /\ a \in Nat /\ b \in Nat /\ c \in Nat
  BY ConcatProperties, LenProperties
<1>2. fresh \in [1 .. b -> P]
  <2>1. fresh \in [1 .. b -> Int]
    BY <1>0, LenProperties
  <2>2. \A i \in 1 .. b : fresh[i] \in P
    BY <1>0, <1>1
  <2> QED
    BY <2>1, <2>2
<1>3. fresh \in Seq(P)
  <2>1. \E m \in Nat : fresh \in [1 .. m -> P]
    BY ONLY <1>1, <1>2
  <2> QED
    BY ONLY <2>1, SeqDef
<1>4. Len(fresh) = b
  BY <1>0
<1>5. k \in Seq(P)
  BY FetchedLater
<1>6. k2 = k \o fresh
  OBVIOUS
<1>7. \A i \in 1 .. b : fresh[i] = a + i
  BY <1>0
<1>8. \A i \in 1 .. c : k[i] \in 1 .. a
  BY ElementOfSeq
<1>9. \A i \in 1 .. b : (s \o t)[a + i] = t[i]
  <2> SUFFICES ASSUME NEW i \in 1 .. b PROVE (s \o t)[a + i] = t[i]
    OBVIOUS
  <2>1. a + i \in 1 .. a + b /\ ~(a + i <= a) /\ a + i - a = i
    BY <1>1
  <2> QED
    BY <2>1, ConcatProperties
<1>10. \A i \in 1 .. a : (s \o t)[i] = s[i]
  BY <1>1, ConcatProperties
<1> HIDE DEF P, k2
<1>11. /\ k2 \in Seq(P) /\ Len(k2) = c + b
       /\ \A i \in 1 .. c + b : k2[i] = IF i <= c THEN k[i] ELSE fresh[i - c]
  <2>1. /\ k \o fresh \in Seq(P) /\ Len(k \o fresh) = Len(k) + Len(fresh)
        /\ \A i \in 1 .. Len(k) + Len(fresh) :
              (k \o fresh)[i] = IF i <= Len(k) THEN k[i] ELSE fresh[i - Len(k)]
    BY ONLY <1>3, <1>5, ConcatProperties
  <2> QED
    BY <2>1, <1>4, <1>6
<1>12. DOMAIN k2 = 1 .. c + b /\ DOMAIN k = 1 .. c
  BY <1>11, LenProperties
<1>13. \A i \in c + 1 .. c + b : k2[i] = a + (i - c)
  <2> SUFFICES ASSUME NEW i \in c + 1 .. c + b PROVE k2[i] = a + (i - c)
    OBVIOUS
  <2>1. i \in 1 .. c + b /\ ~(i <= c) /\ i - c \in 1 .. b
    BY <1>1
  <2> QED
    BY <2>1, <1>7, <1>11
<1>14. \A i \in 1 .. c : k2[i] = k[i] /\ k2[i] \in 1 .. a
  BY <1>1, <1>8, <1>11
<1>15. Increasing(k2)
  <2> SUFFICES ASSUME NEW i \in 1 .. c + b, NEW j \in 1 .. c + b, i < j
               PROVE  k2[i] < k2[j]
    BY <1>12 DEF Increasing
  <2>1. CASE j <= c
    <3>1. i \in 1 .. c /\ j \in 1 .. c
      BY <2>1, <1>1
    <3>2. k[i] < k[j]
      BY <3>1, <1>12 DEF Increasing
    <3> QED
      BY <3>1, <3>2, <1>14
  <2>2. CASE i <= c /\ ~(j <= c)
    <3>1. k2[i] \in 1 .. a
      BY <2>2, <1>1, <1>14
    <3>2. k2[j] = a + (j - c)
      BY <2>2, <1>1, <1>13
    <3> QED
      BY <3>1, <3>2, <2>2, <1>1
  <2>3. CASE ~(i <= c)
    <3>1. k2[i] = a + (i - c)
      BY <2>3, <1>1, <1>13
    <3>2. k2[j] = a + (j - c)
      BY <2>3, <1>1, <1>13
    <3> QED
      BY <3>1, <3>2, <1>1
  <2> QED
    BY <2>1, <2>2, <2>3, <1>1
<1>16. Fetched(s \o t, k2) = Fetched(s, k) \o t
  <2> DEFINE u == Fetched(s \o t, k2)  v == Fetched(s, k) \o t
  <2>1. /\ u \in Seq(S) /\ Len(u) = c + b
        /\ \A i \in 1 .. c + b : u[i] = (s \o t)[k2[i]]
    <3>1. s \o t \in Seq(S) /\ k2 \in Seq(1 .. Len(s \o t)) /\ Len(k2) = c + b
      BY <1>1, <1>11 DEF P
    <3>2. /\ u \in Seq(S) /\ Len(u) = Len(k2)
          /\ \A i \in 1 .. Len(k2) : u[i] = (s \o t)[k2[i]]
      BY ONLY <3>1, FetchedIs
    <3> QED
      BY <3>1, <3>2
  <2>2. /\ Fetched(s, k) \in Seq(S) /\ Len(Fetched(s, k)) = c
        /\ \A i \in 1 .. c : Fetched(s, k)[i] = s[k[i]]
    BY FetchedIs
  <2>3. /\ v \in Seq(S) /\ Len(v) = c + b
        /\ \A i \in 1 .. c + b : v[i] = IF i <= c THEN Fetched(s, k)[i] ELSE t[i - c]
    <3> DEFINE f == Fetched(s, k)
    <3>1. f \in Seq(S) /\ Len(f) = c
      BY <2>2
    <3> HIDE DEF f
    <3>2. /\ f \o t \in Seq(S) /\ Len(f \o t) = Len(f) + Len(t)
          /\ \A i \in 1 .. Len(f) + Len(t) : (f \o t)[i] = IF i <= Len(f) THEN f[i] ELSE t[i - Len(f)]
      BY ONLY <3>1, ConcatProperties
    <3> QED
      BY <3>1, <3>2 DEF f
  <2>4. ASSUME NEW i \in 1 .. c + b PROVE u[i] = v[i]
    <3>1. CASE i <= c
      <4>1. i \in 1 .. c
        BY <3>1, <1>1
      <4>2. k2[i] = k[i] /\ k[i] \in 1 .. a
        BY <4>1, <1>14
      <4>3. u[i] = (s \o t)[k2[i]]
        BY <2>1
      <4>4. u[i] = s[k[i]]
        BY <4>2, <4>3, <1>10
      <4>5. v[i] = Fetched(s, k)[i]
        BY <2>3, <3>1
      <4>6. Fetched(s, k)[i] = s[k[i]]
        BY <4>1, <2>2
      <4> QED
        BY <4>4, <4>5, <4>6
    <3>2. CASE ~(i <= c)
      <4>1. i \in c + 1 .. c + b /\ i - c \in 1 .. b
        BY <3>2, <1>1
      <4>2. u[i] = (s \o t)[a + (i - c)]
        BY <4>1, <2>1, <1>13
      <4>3. u[i] = t[i - c]
        BY <4>1, <4>2, <1>9
      <4> QED
        BY <3>2, <4>3, <2>3
    <3> QED
      BY <3>1, <3>2
  <2>5. Len(u) = Len(v) /\ Len(u) = c + b
    BY <2>1, <2>3
  <2> HIDE DEF u, v
  <2>6. u = v
    BY <2>1, <2>3, <2>4, <2>5, SeqEqual
  <2> QED
    BY <2>6 DEF u, v
<1> QED
  BY <1>11, <1>15, <1>16 DEF P, k2

Modes == {_IONBF, _IOLBF, _IOFBF}
CharBuffers == [wbuff : Seq(Chars), wsize : {0, BUFSIZ}, wchkd : Nat, wmode : Modes,
            unread : Seq(Chars)]
PutCalls == [op : {"put"}, text : Seq(Chars), len : Nat]
GetsCalls == [op : {"gets"}, left : Nat, line : Seq(Chars)]
Closed == [op |-> "closed"]

FileTypes ==
    /\ file \in CharBuffers
    /\ wused <= file.wsize /\ file.wchkd <= wused /\ Len(file.unread) <= BUFSIZ
    /\ call \in {Idle, Closed} \cup PutCalls \cup GetsCalls
    /\ call.op = "put" => call.len <= Len(call.text)
    /\ sent \in Seq(Chars) /\ given \in Seq(Chars) /\ copied \in Seq(Chars)
    /\ taken \in Seq(Chars)
    /\ input \in Seq(Chars) /\ source \in Seq(Chars)
    /\ retcode \in Int /\ fails \in Nat

(* What has been looked at holds no newline. *)
Looked == \A i \in 1 .. file.wchkd : file.wbuff[i] # NL

FileInv == FileTypes /\ Looked /\ CopiedRight /\ InOrder /\ StillThere /\ ReadInOrder

LEMMA CallKinds ==
    ASSUME FileTypes
    PROVE  /\ call.op \in {"none", "put", "gets", "closed"}
           /\ call = Idle => call.op = "none"
           /\ call.op = "put" => call \in PutCalls
           /\ call.op = "gets" => call \in GetsCalls
  BY DEF FileTypes, Idle, Closed, PutCalls, GetsCalls

LEMMA FileKinds ==
    ASSUME FileTypes
    PROVE  /\ file.wbuff \in Seq(Chars) /\ file.unread \in Seq(Chars)
           /\ file.wsize \in {0, BUFSIZ} /\ file.wchkd \in Nat /\ file.wmode \in Modes
           /\ wused \in Nat /\ Len(file.unread) \in Nat /\ BUFSIZ \in Nat
           /\ wused <= file.wsize /\ file.wchkd <= wused /\ Len(file.unread) <= BUFSIZ
<1>1. /\ file.wbuff \in Seq(Chars) /\ file.unread \in Seq(Chars)
      /\ file.wsize \in {0, BUFSIZ} /\ file.wchkd \in Nat /\ file.wmode \in Modes
  BY DEF FileTypes, CharBuffers
<1>2. wused \in Nat /\ Len(file.unread) \in Nat
  BY <1>1, LenProperties DEF wused
<1> QED
  BY <1>1, <1>2, FileAssumption DEF FileTypes

LEMMA FileInitInv == FileInit => FileInv
<1> SUFFICES ASSUME FileInit PROVE FileInv
  OBVIOUS
<1> USE FileAssumption DEF FileInit
<1>1. <<>> \in Seq(Chars) /\ Len(<<>>) = 0 /\ source \in Seq(Chars)
  BY EmptySeq
<1>2. file \in CharBuffers
  BY <1>1 DEF FILE, CharBuffers, Modes, _IOLBF
<1>3. file.wbuff = <<>> /\ file.wsize = 0 /\ file.wchkd = 0 /\ file.unread = <<>>
  BY DEF FILE
<1>4. FileTypes
  <2>1. wused = 0 /\ Len(file.unread) = 0 /\ BUFSIZ \in Nat
    BY <1>1, <1>3 DEF wused
  <2>2. wused <= file.wsize /\ file.wchkd <= wused /\ Len(file.unread) <= BUFSIZ
    BY <1>3, <2>1
  <2>4. retcode \in Int /\ fails \in Nat
    OBVIOUS
  <2> QED
    BY <1>1, <1>2, <2>2, <2>4 DEF FileTypes, Idle
<1>5. Looked
  BY <1>3 DEF Looked
<1>6. <<>> \o <<>> = <<>>
  BY <1>1, ConcatEmptySeq
<1>7. InOrder
  BY <1>3, <1>6 DEF InOrder
<1>8. kept \in Seq(1 .. Len(sent)) /\ Fetched(sent, kept) = <<>> /\ DOMAIN kept = {}
  <2>1. kept \in Seq(1 .. Len(sent)) /\ DOMAIN kept = {}
    BY EmptySeq
  <2>2. sent \in Seq(Chars) /\ Len(kept) = 0
    BY <1>1
  <2>3. Fetched(sent, kept) \in Seq(Chars) /\ Len(Fetched(sent, kept)) = 0
    BY ONLY <2>1, <2>2, FetchedIs
  <2> QED
    BY <2>1, <2>3, EmptySeq
<1>9. StillThere
  BY <1>3, <1>6, <1>8 DEF StillThere, Increasing, Fetched
<1>10. LineSoFar = <<>> /\ call.op # "closed"
  BY DEF LineSoFar, Idle
<1>11. <<>> \o <<>> \o <<>> \o source = source
  BY <1>1, <1>6, ConcatEmptySeq
<1>12. ReadInOrder
  BY <1>3, <1>10, <1>11 DEF ReadInOrder
<1>13. CopiedRight
  BY <1>1 DEF CopiedRight
<1> QED
  BY <1>4, <1>5, <1>7, <1>9, <1>12, <1>13 DEF FileInv

LEMMA ReadSideStays ==
    ASSUME FileInv, UNCHANGED readside, file'.unread = file.unread,
           call.op # "closed", call'.op # "closed" => LineSoFar' = LineSoFar
    PROVE  ReadInOrder'
  BY DEF FileInv, readside, ReadInOrder

LEMMA WriteSideStays ==
    ASSUME FileInv, UNCHANGED writeside, file'.wbuff = file.wbuff,
           file'.wchkd = file.wchkd, call.op # "closed"
    PROVE  Looked' /\ CopiedRight' /\ InOrder' /\ StillThere'
<1>1. Looked'
  BY DEF FileInv, Looked
<1>2. InOrder'
  BY DEF FileInv, InOrder, writeside
<1>3. StillThere'
  BY DEF FileInv, StillThere, Increasing, writeside
<1>4. CopiedRight'
  BY DEF FileInv, CopiedRight, writeside
<1> QED
  BY <1>1, <1>2, <1>3, <1>4

LEMMA FlushKeeps ==
    ASSUME FileInv, call.op # "closed", Flushes, UNCHANGED putside
    PROVE  /\ Looked' /\ CopiedRight' /\ InOrder' /\ StillThere'
           /\ file' \in CharBuffers /\ file'.unread = file.unread /\ file'.wmode = file.wmode
           /\ wused' <= file'.wsize /\ file'.wchkd <= wused'
           /\ sent' \in Seq(Chars) /\ fails' \in Nat /\ retcode' \in {0, -1}
           /\ retcode' = 0 => file'.wbuff = <<>>
<1>1. PICK n \in 0 .. wused : flush(n)
  BY DEF Flushes
<1>2. FileTypes
  BY DEF FileInv
<1>3. /\ file.wbuff \in Seq(Chars) /\ wused \in Nat /\ file.wchkd \in Nat
      /\ wused <= file.wsize /\ file.wchkd <= wused /\ file.wsize \in {0, BUFSIZ}
      /\ BUFSIZ \in Nat
  BY <1>2, FileKinds
<1>4. sent \in Seq(Chars) /\ copied \in Seq(Chars) /\ fails \in Nat /\ file \in CharBuffers
  BY <1>2 DEF FileTypes
<1> DEFINE w == file.wbuff  written == SubSeq(w, 1, n)
<1>5. sent' = sent \o written
  BY <1>1 DEF flush
<1>6. written \in Seq(Chars)
  <2>1. \A i \in 1 .. n : w[i] \in Chars
    BY <1>3, ElementOfSeq DEF wused
  <2> QED
    BY <2>1, SubSeqProperties
<1>7. sent' \in Seq(Chars)
  BY <1>4, <1>5, <1>6, ConcatProperties
<1>8. kept \in Seq(1 .. Len(sent)) /\ Increasing(kept) /\ StillThere
  BY DEF FileInv, StillThere
<1>9. copied = Fetched(sent, kept) \o w /\ copied' = copied /\ CopiedRight'
  BY <1>8 DEF FileInv, StillThere, Fetched, CopiedRight, putside
<1>10. CASE n = wused
  <2>1. /\ file' = [file EXCEPT !.wsize = BUFSIZ, !.wbuff = <<>>, !.wchkd = 0]
        /\ LetGo /\ retcode' = 0 /\ fails' = fails
    BY <1>1, <1>10 DEF flush
  <2>2. written = w
    BY <1>3, <1>10, SubSeqFull DEF wused
  <2>3. <<>> \in Seq(Chars) /\ Len(<<>>) = 0
    BY EmptySeq
  <2>4. /\ file' \in CharBuffers /\ file'.wbuff = <<>> /\ file'.wchkd = 0
        /\ file'.wsize = BUFSIZ /\ file'.unread = file.unread /\ file'.wmode = file.wmode
    BY <2>1, <2>3, <1>3, <1>4 DEF CharBuffers
  <2>5. wused' = 0
    BY <2>3, <2>4 DEF wused
  <2>6. Looked'
    BY <2>4 DEF Looked
  <2>7. sent' = sent \o w /\ sent' \o <<>> = sent'
    BY <1>5, <1>7, <2>2, ConcatEmptySeq
  <2>8. InOrder'
    BY <1>9, <2>1, <2>4, <2>7 DEF FileInv, InOrder
  <2>9. kept' = kept \o [i \in 1 .. Len(w) |-> Len(sent) + i]
    BY <2>1 DEF LetGo, wused
  <2>10. /\ kept' \in Seq(1 .. Len(sent \o w)) /\ Increasing(kept')
         /\ Fetched(sent \o w, kept') = Fetched(sent, kept) \o w
    <3>1. w \in Seq(Chars) /\ sent \in Seq(Chars) /\ kept \in Seq(1 .. Len(sent)) /\ Increasing(kept)
      BY <1>3, <1>4, <1>8
    <3> HIDE DEF w
    <3>2. PICK k2 : k2 = kept'
      OBVIOUS
    <3> DEFINE fresh == [i \in 1 .. Len(w) |-> Len(sent) + i]
    <3>3. /\ k2 = kept \o fresh /\ fresh \in Seq(Int) /\ Len(fresh) = Len(w)
          /\ \A i \in 1 .. Len(w) : fresh[i] = Len(sent) + i
      <4>1. Len(w) \in Nat /\ Len(sent) \in Nat
        BY <3>1, LenProperties
      <4>2. fresh \in [1 .. Len(w) -> Int]
        BY <4>1
      <4>3. fresh \in Seq(Int)
        BY <4>1, <4>2, SeqDef
      <4>4. Len(fresh) = Len(w)
        BY <4>1, <4>2, <4>3, LenProperties
      <4> QED
        BY <2>9, <3>2, <4>3, <4>4
    <3> HIDE DEF fresh
    <3>5. Numbers(fresh, Len(sent), Len(w))
      BY <3>3 DEF Numbers
    <3>4. /\ kept \o fresh \in Seq(1 .. Len(sent \o w)) /\ Increasing(kept \o fresh)
          /\ Fetched(sent \o w, kept \o fresh) = Fetched(sent, kept) \o w
      BY ONLY <3>1, <3>5, FetchedNow
    <3> QED
      BY <3>2, <3>3, <3>4
  <2>11. Fetched(sent', kept') \in Seq(Chars)
    BY <1>7, <2>7, <2>10, FetchedIs
  <2>12. copied = Fetched(sent', kept') \o <<>>
    BY <1>9, <2>7, <2>10, <2>11, ConcatEmptySeq
  <2>13. StillThere'
    <3>1. kept' \in Seq(1 .. Len(sent')) /\ Increasing(kept)'
      BY <2>7, <2>10 DEF Increasing
    <3>2. copied' = [i \in DOMAIN kept' |-> sent'[kept'[i]]] \o file'.wbuff
      BY <1>9, <2>4, <2>12 DEF Fetched
    <3> QED
      BY <3>1, <3>2 DEF StillThere
  <2> QED
    BY <1>3, <1>4, <1>7, <1>9, <2>1, <2>4, <2>5, <2>6, <2>8, <2>13
<1>11. CASE n # wused
  <2>1. /\ file' = [file EXCEPT !.wsize = BUFSIZ] /\ retcode' = -1 /\ fails' = fails + 1
        /\ kept' = kept
    BY <1>1, <1>11 DEF flush
  <2>2. /\ file' \in CharBuffers /\ file'.wbuff = w /\ file'.wchkd = file.wchkd
        /\ file'.wsize = BUFSIZ /\ file'.unread = file.unread /\ file'.wmode = file.wmode
    BY <2>1, <1>4 DEF CharBuffers
  <2>3. wused' = wused
    BY <2>2 DEF wused
  <2>4. wused' <= file'.wsize /\ file'.wchkd <= wused'
    BY <2>2, <2>3, <1>3
  <2>5. Looked'
    BY <2>2 DEF Looked, FileInv
  <2>6. InOrder'
    BY <2>1, <1>4 DEF InOrder
  <2>7. kept \in Seq(1 .. Len(sent \o written)) /\ Fetched(sent \o written, kept) = Fetched(sent, kept)
    <3>1. written \in Seq(Chars) /\ sent \in Seq(Chars) /\ kept \in Seq(1 .. Len(sent))
      BY <1>4, <1>6, <1>8
    <3> HIDE DEF written
    <3> QED
      BY ONLY <3>1, FetchedLater
  <2>8. StillThere'
    <3>1. kept' \in Seq(1 .. Len(sent')) /\ Increasing(kept)'
      BY <1>5, <1>8, <2>1, <2>7 DEF Increasing
    <3>2. copied' = Fetched(sent', kept') \o w
      BY <1>5, <1>9, <2>1, <2>7
    <3>3. copied' = [i \in DOMAIN kept' |-> sent'[kept'[i]]] \o file'.wbuff
      BY <2>2, <3>2 DEF Fetched
    <3> QED
      BY <3>1, <3>3 DEF StillThere
  <2> QED
    BY <1>4, <1>7, <1>9, <2>1, <2>2, <2>4, <2>5, <2>6, <2>8
<1> QED
  BY <1>10, <1>11

LEMMA PutStep == \A text \in Texts : FileInv /\ Put(text) => FileInv'
<1> SUFFICES ASSUME NEW text \in Texts, FileInv, Put(text) PROVE FileInv'
  OBVIOUS
<1>1. FileTypes /\ call = Idle /\ call.op = "none"
  BY CallKinds DEF FileInv, Put
<1>2. call' = [op |-> "put", text |-> text, len |-> Len(text)]
  BY DEF Put
<1>3. text \in Seq(Chars) /\ Len(text) \in Nat
  BY FileAssumption, LenProperties
<1>4. call' \in PutCalls /\ call'.op = "put" /\ call'.len <= Len(call'.text)
  BY <1>2, <1>3 DEF PutCalls
<1>5. file' = file /\ retcode' = retcode /\ UNCHANGED writeside /\ UNCHANGED readside
  BY DEF Put
<1>7. FileTypes'
  BY <1>1, <1>4, <1>5 DEF FileTypes, writeside, readside, wused
<1>8. LineSoFar' = LineSoFar
  BY <1>1, <1>4 DEF LineSoFar
<1>9. ReadInOrder'
  BY <1>1, <1>5, <1>8, ReadSideStays
<1>10. Looked' /\ CopiedRight' /\ InOrder' /\ StillThere'
  BY <1>1, <1>5, WriteSideStays
<1> QED
  BY <1>7, <1>9, <1>10 DEF FileInv

LEMMA SetModeStep == \A mode \in Modes : FileInv /\ SetMode(mode) => FileInv'
<1> SUFFICES ASSUME NEW mode \in Modes, FileInv, SetMode(mode) PROVE FileInv'
  OBVIOUS
<1>1. FileTypes /\ call = Idle /\ call.op = "none"
  BY CallKinds DEF FileInv, SetMode
<1>2. file' = [file EXCEPT !.wmode = mode] /\ UNCHANGED <<call, retcode>>
      /\ UNCHANGED writeside /\ UNCHANGED readside
  BY DEF SetMode
<1>3. /\ file' \in CharBuffers /\ file'.wbuff = file.wbuff /\ file'.wchkd = file.wchkd
      /\ file'.wsize = file.wsize /\ file'.unread = file.unread
  BY <1>1, <1>2 DEF FileTypes, CharBuffers
<1>5. FileTypes'
  BY <1>1, <1>2, <1>3 DEF FileTypes, writeside, readside, wused
<1>6. LineSoFar' = LineSoFar
  BY <1>2 DEF LineSoFar
<1>7. ReadInOrder'
  BY <1>1, <1>2, <1>3, <1>6, ReadSideStays
<1>8. Looked' /\ CopiedRight' /\ InOrder' /\ StillThere'
  BY <1>1, <1>2, <1>3, WriteSideStays
<1> QED
  BY <1>5, <1>7, <1>8 DEF FileInv

(* Steps that flush and leave what is read alone. *)
LEMMA FlushingStep ==
    ASSUME FileInv, call.op \in {"none", "put"}, Flushes, UNCHANGED putside,
           UNCHANGED readside, call' \in {call, Idle}
    PROVE  FileInv'
<1>1. FileTypes /\ call.op # "closed"
  BY DEF FileInv
<1>2. /\ Looked' /\ CopiedRight' /\ InOrder' /\ StillThere'
      /\ file' \in CharBuffers /\ file'.unread = file.unread
      /\ wused' <= file'.wsize /\ file'.wchkd <= wused'
      /\ sent' \in Seq(Chars) /\ fails' \in Nat /\ retcode' \in {0, -1}
  BY <1>1, FlushKeeps
<1>3. call'.op \in {"none", "put"} /\ (call'.op = "put" => call'.len <= Len(call'.text))
      /\ call' \in {Idle, Closed} \cup PutCalls \cup GetsCalls
  BY <1>1 DEF FileTypes, Idle
<1>4. retcode' \in Int
  BY <1>1, <1>2 DEF FileTypes
<1>5. FileTypes'
  BY <1>1, <1>2, <1>3, <1>4 DEF FileTypes, readside, putside
<1>6. LineSoFar' = LineSoFar
  BY <1>3 DEF LineSoFar
<1>7. ReadInOrder'
  BY <1>1, <1>2, <1>6, ReadSideStays
<1> QED
  BY <1>2, <1>5, <1>7 DEF FileInv

LEMMA PutFlushesStep == FileInv /\ PutFlushes => FileInv'
  BY FlushingStep DEF PutFlushes

LEMMA FflushStep == FileInv /\ Fflush => FileInv'
<1> SUFFICES ASSUME FileInv, Fflush PROVE FileInv'
  OBVIOUS
<1>1. call.op = "none"
  BY CallKinds DEF FileInv, Fflush
<1> QED
  BY <1>1, FlushingStep DEF Fflush

LEMMA PutEndsStep == FileInv /\ PutEnds => FileInv'
<1> SUFFICES ASSUME FileInv, PutEnds PROVE FileInv'
  OBVIOUS
<1>1. FileTypes /\ call.op = "put"
  BY DEF FileInv, PutEnds
<1>2. call' = Idle /\ UNCHANGED putside /\ UNCHANGED readside /\ maybeflush
  BY DEF PutEnds
<1>3. CASE Flushes
  BY <1>1, <1>2, <1>3, FlushingStep
<1>4. CASE ~Flushes
  <2>1. /\ file.wmode = _IOFBF \/ ~NewLine
        /\ file' = IF file.wmode = _IOFBF THEN file ELSE [file EXCEPT !.wchkd = wused]
        /\ retcode' = 0 /\ UNCHANGED <<sent, kept, fails>>
    BY <1>2, <1>4 DEF maybeflush
  <2>2. file \in CharBuffers /\ wused \in Nat
    BY <1>1, FileKinds DEF FileTypes
  <2>3. /\ file' \in CharBuffers /\ file'.wbuff = file.wbuff /\ file'.wsize = file.wsize
        /\ file'.unread = file.unread
        /\ file'.wchkd = IF file.wmode = _IOFBF THEN file.wchkd ELSE wused
    BY <2>1, <2>2 DEF CharBuffers
  <2>4. wused' = wused
    BY <2>3 DEF wused
  <2>5. wused' <= file'.wsize /\ file'.wchkd <= wused'
    BY <1>1, <2>2, <2>3, <2>4, FileKinds
  <2>6. call'.op = "none"
    BY <1>1, <1>2 DEF FileTypes, Idle
  <2>7. FileTypes'
    BY <1>1, <1>2, <2>1, <2>3, <2>5, <2>6 DEF FileTypes, readside, putside
  <2>8. Looked'
    <3>1. CASE file.wmode = _IOFBF
      BY <2>3, <3>1 DEF Looked, FileInv
    <3>2. CASE file.wmode # _IOFBF
      <4>1. file'.wchkd = wused /\ ~NewLine
        BY <2>1, <2>3, <3>2
      <4>2. \A i \in 1 .. file.wchkd : file.wbuff[i] # NL
        BY DEF FileInv, Looked
      <4>3. \A i \in file.wchkd + 1 .. wused : file.wbuff[i] # NL
        BY <4>1 DEF NewLine, LooksFrom
      <4>4. file.wchkd \in Nat /\ wused \in Nat
        BY <1>1, FileKinds
      <4>5. \A i \in 1 .. wused : file.wbuff[i] # NL
        BY <4>2, <4>3, <4>4
      <4> QED
        BY <2>3, <4>1, <4>5 DEF Looked
    <3> QED
      BY <3>1, <3>2
  <2>9. InOrder'
    BY <1>2, <2>1, <2>3 DEF InOrder, FileInv, putside
  <2>10. StillThere' /\ CopiedRight'
    BY <1>1, <1>2, <2>1, <2>3 DEF StillThere, FileInv, Increasing, CopiedRight, putside
  <2>11. LineSoFar' = LineSoFar
    BY <1>1, <2>6 DEF LineSoFar
  <2>12. ReadInOrder'
    BY <1>1, <1>2, <2>3, <2>11, ReadSideStays
  <2> QED
    BY <2>7, <2>8, <2>9, <2>10, <2>12 DEF FileInv
<1> QED
  BY <1>3, <1>4

LEMMA Regroup ==
    \A s, t, u \in Seq(Chars) : (s \o t) \o u = s \o (t \o u)
<1> SUFFICES ASSUME NEW s \in Seq(Chars), NEW t \in Seq(Chars), NEW u \in Seq(Chars)
             PROVE  (s \o t) \o u = s \o (t \o u)
  OBVIOUS
<1> QED
  BY ConcatAssociative

LEMMA PutCopiesStep == FileInv /\ PutCopies => FileInv'
<1> SUFFICES ASSUME FileInv, PutCopies PROVE FileInv'
  OBVIOUS
<1> DEFINE room == Least(file.wsize - wused, call.len)
           done == Len(call.text) - call.len
           piece == SubSeq(call.text, 1, room)
           meant == SubSeq(call.text, done + 1, done + room)
<1>1. /\ call.op = "put" /\ call.len > 0 /\ wused < file.wsize
      /\ file' = [file EXCEPT !.wbuff = @ \o piece]
      /\ given' = given \o meant
      /\ call' = [call EXCEPT !.len = @ - room]
      /\ copied' = copied \o piece
      /\ UNCHANGED <<retcode, sent, kept, fails>> /\ UNCHANGED readside
  BY DEF PutCopies, Copied
<1>2. FileTypes /\ call \in PutCalls /\ call.len <= Len(call.text)
  BY <1>1, CallKinds DEF FileInv, FileTypes
<1>3. call.text \in Seq(Chars) /\ call.len \in Nat /\ Len(call.text) \in Nat
  BY <1>2, LenProperties DEF PutCalls
<1>4. /\ file.wbuff \in Seq(Chars) /\ wused \in Nat /\ file.wsize \in Nat
      /\ file.wchkd \in Nat /\ file.wchkd <= wused
  BY <1>2, FileKinds
<1>5. room \in Nat /\ room <= call.len /\ room <= file.wsize - wused /\ done \in Nat
      /\ done + room <= Len(call.text)
  <2>1. PICK x, y, z : x = file.wsize - wused /\ y = call.len /\ z = Len(call.text)
    OBVIOUS
  <2>2. call.len > 0 /\ wused < file.wsize
    BY DEF PutCopies
  <2>3. x \in Int /\ y \in Int /\ z \in Int /\ x > 0 /\ y > 0 /\ y <= z
    BY ONLY <1>2, <1>3, <1>4, <2>1, <2>2
  <2>4. room = Least(x, y) /\ done = z - y
    BY <2>1
  <2>5. Least(x, y) \in Nat /\ Least(x, y) <= y /\ Least(x, y) <= x
    BY <2>3 DEF Least
  <2> HIDE DEF room, done
  <2>6. room \in Nat /\ room <= y /\ room <= x
    BY <2>4, <2>5
  <2> QED
    BY <2>1, <2>3, <2>4, <2>6
<1> HIDE DEF room, done
<1>6. piece \in Seq(Chars) /\ Len(piece) = room
  <2>1. \A i \in 1 .. room : call.text[i] \in Chars
    BY <1>2, <1>3, <1>5, ElementOfSeq
  <2> QED
    BY <2>1, <1>5, SubSeqProperties
<1>7. meant \in Seq(Chars) /\ Len(meant) = room
  <2>1. \A i \in done + 1 .. done + room : i \in 1 .. Len(call.text)
    BY <1>3, <1>5
  <2>2. \A i \in done + 1 .. done + room : call.text[i] \in Chars
    BY <1>3, <2>1, ElementOfSeq
  <2> QED
    BY <2>2, <1>5, SubSeqProperties
<1> HIDE DEF piece, meant
<1>8. /\ file.wbuff \o piece \in Seq(Chars)
      /\ Len(file.wbuff \o piece) = wused + room
      /\ \A i \in 1 .. wused : (file.wbuff \o piece)[i] = file.wbuff[i]
  <2>1. \A i \in 1 .. wused : (file.wbuff \o piece)[i] = file.wbuff[i]
    BY <1>4, <1>5, <1>6, ConcatProperties DEF wused
  <2> QED
    BY <1>4, <1>6, <2>1, ConcatProperties DEF wused
<1>9. file \in CharBuffers /\ sent \in Seq(Chars) /\ given \in Seq(Chars) /\ copied \in Seq(Chars)
  BY <1>2 DEF FileTypes
<1>10. /\ file' \in CharBuffers /\ file'.wbuff = file.wbuff \o piece /\ file'.wchkd = file.wchkd
       /\ file'.wsize = file.wsize /\ file'.unread = file.unread
  BY <1>1, <1>8, <1>9 DEF CharBuffers
<1>11. wused' = wused + room
  BY <1>8, <1>10 DEF wused
<1>12. wused' <= file'.wsize /\ file'.wchkd <= wused'
  BY <1>4, <1>5, <1>10, <1>11
<1>13. /\ call' \in PutCalls /\ call'.op = "put" /\ call'.text = call.text
       /\ call'.len = call.len - room
  BY <1>1, <1>2, <1>3, <1>5 DEF PutCalls
<1>14. call'.len <= Len(call'.text)
  BY <1>2, <1>3, <1>5, <1>13
<1>15. given' \in Seq(Chars) /\ copied' \in Seq(Chars)
  BY <1>1, <1>6, <1>7, <1>9, ConcatProperties
<1>16. astray' = IF done > 0 THEN astray \cup (Len(given) + 1 .. Len(given) + room)
                            ELSE astray
  BY DEF PutCopies, room, done
<1>17. FileTypes'
  BY <1>1, <1>2, <1>10, <1>12, <1>13, <1>14, <1>15 DEF FileTypes, readside
<1>18. Looked'
  <2>1. \A i \in 1 .. file.wchkd : i \in 1 .. wused /\ file.wbuff[i] # NL
    BY <1>4 DEF FileInv, Looked
  <2> QED
    BY <2>1, <1>8, <1>10 DEF Looked
<1>19. done = 0 => meant = piece
  BY <1>5 DEF meant, piece
<1>20. CopiedRight'
  <2>1. given' = given \o meant /\ copied' = copied \o piece
    BY <1>1
  <2>2. Len(copied) = Len(given)
    BY DEF FileInv, CopiedRight
  <2>3. Len(given') = Len(given) + room
    BY ONLY <1>7, <1>9, <2>1, ConcatProperties
  <2>4. Len(copied') = Len(given) + room
    <3>1. Len(copied') = Len(copied) + room
      BY ONLY <1>6, <1>9, <2>1, ConcatProperties
    <3> QED
      BY <2>2, <3>1
  <2>5. ASSUME NEW i \in DOMAIN given', i \notin astray' PROVE copied'[i] = given'[i]
    <3>1. i \in 1 .. Len(given) + room /\ Len(given) \in Nat /\ i \notin astray
      BY <1>9, <1>15, <1>16, <2>3, <2>5, LenProperties
    <3>2. CASE i <= Len(given)
      <4>1. i \in DOMAIN given /\ i \in 1 .. Len(given) /\ i \in 1 .. Len(copied)
        BY <1>9, <2>2, <3>1, <3>2, LenProperties
      <4>2. copied'[i] = copied[i] /\ given'[i] = given[i]
        BY ONLY <1>6, <1>7, <1>9, <2>1, <4>1, ConcatProperties
      <4> QED
        BY <3>1, <4>1, <4>2 DEF FileInv, CopiedRight
    <3>3. CASE i > Len(given)
      <4>1. i \in Len(given) + 1 .. Len(given) + room
        BY ONLY <3>1, <3>3, <1>5
      <4>2. done = 0
        BY <1>5, <1>16, <2>5, <4>1
      <4>3. copied'[i] = piece[i - Len(copied)] /\ given'[i] = meant[i - Len(given)]
        BY ONLY <1>5, <1>6, <1>7, <1>9, <2>1, <2>2, <3>1, <3>3, <4>1, ConcatProperties
      <4> QED
        BY <1>19, <2>2, <4>2, <4>3
    <3> QED
      BY <3>1, <3>2, <3>3
  <2> QED
    BY <2>3, <2>4, <2>5 DEF CopiedRight
<1>21. InOrder'
  <2> SUFFICES ASSUME fails' = 0 PROVE sent' \o file'.wbuff = copied'
    BY DEF InOrder
  <2>1. copied = sent \o file.wbuff
    BY <1>1 DEF FileInv, InOrder
  <2>2. (sent \o file.wbuff) \o piece = sent \o (file.wbuff \o piece)
    <3>1. sent \in Seq(Chars) /\ file.wbuff \in Seq(Chars) /\ piece \in Seq(Chars)
      BY <1>4, <1>6, <1>9
    <3> QED
      BY ONLY <3>1, Regroup
  <2> QED
    BY <1>1, <1>10, <2>1, <2>2
<1>22. StillThere'
  <2>1. kept \in Seq(1 .. Len(sent)) /\ Increasing(kept)
    BY DEF FileInv, StillThere
  <2>2. copied = Fetched(sent, kept) \o file.wbuff
    BY <1>1 DEF FileInv, StillThere, Fetched
  <2>3. Fetched(sent, kept) \in Seq(Chars)
    BY <1>9, <2>1, FetchedIs
  <2>4. (Fetched(sent, kept) \o file.wbuff) \o piece = Fetched(sent, kept) \o (file.wbuff \o piece)
    <3>1. /\ Fetched(sent, kept) \in Seq(Chars) /\ file.wbuff \in Seq(Chars)
          /\ piece \in Seq(Chars)
      BY <1>4, <1>6, <2>3
    <3> QED
      BY ONLY <3>1, Regroup
  <2>5. copied' = Fetched(sent, kept) \o file'.wbuff
    BY <1>1, <1>10, <2>2, <2>4
  <2> QED
    BY <1>1, <2>1, <2>5 DEF StillThere, Fetched, Increasing
<1>23. LineSoFar' = LineSoFar
  BY <1>1, <1>13 DEF LineSoFar
<1>24. ReadInOrder'
  BY <1>1, <1>10, <1>23, ReadSideStays
<1> QED
  BY <1>17, <1>18, <1>20, <1>21, <1>22, <1>24 DEF FileInv

LEMMA FcloseStep == FileInv /\ Fclose => FileInv'
<1> SUFFICES ASSUME FileInv, Fclose PROVE FileInv'
  OBVIOUS
<1>1. FileTypes /\ call.op = "none"
  BY CallKinds DEF FileInv, Fclose
<1>2. PICK n \in 0 .. wused : /\ sent' = sent \o SubSeq(file.wbuff, 1, n)
                              /\ fails' = IF n < wused THEN fails + 1 ELSE fails
  BY DEF Fclose
<1>3. /\ call' = Closed /\ retcode' = 0 /\ file' = FILE /\ kept' = kept
      /\ UNCHANGED putside /\ UNCHANGED readside
  BY DEF Fclose, Closed
<1>4. file.wbuff \in Seq(Chars) /\ wused \in Nat /\ BUFSIZ \in Nat
  BY <1>1, FileKinds
<1>5. sent \in Seq(Chars) /\ fails \in Nat /\ copied' = copied
  BY <1>1, <1>3 DEF FileTypes, putside
<1> DEFINE written == SubSeq(file.wbuff, 1, n)
<1>6. written \in Seq(Chars)
  <2>1. \A i \in 1 .. n : file.wbuff[i] \in Chars
    BY <1>4, ElementOfSeq DEF wused
  <2> QED
    BY <2>1, SubSeqProperties
<1> HIDE DEF written
<1>7. sent' = sent \o written /\ sent' \in Seq(Chars)
  BY <1>2, <1>5, <1>6, ConcatProperties DEF written
<1>8. <<>> \in Seq(Chars) /\ Len(<<>>) = 0
  BY EmptySeq
<1>9. /\ file' \in CharBuffers /\ file'.wbuff = <<>> /\ file'.wsize = 0 /\ file'.wchkd = 0
      /\ file'.unread = <<>>
  BY <1>3, <1>8 DEF FILE, CharBuffers, Modes, _IOLBF
<1>10. wused' = 0 /\ Len(file'.unread) = 0
  BY <1>8, <1>9 DEF wused
<1>11. wused' <= file'.wsize /\ file'.wchkd <= wused' /\ Len(file'.unread) <= BUFSIZ
  BY <1>4, <1>9, <1>10
<1>12. call'.op = "closed"
  BY <1>3 DEF Closed
<1>13. fails' \in Nat /\ retcode' \in Int
  BY <1>1, <1>2, <1>3, <1>5 DEF FileTypes
<1>14. FileTypes'
  BY <1>1, <1>3, <1>7, <1>9, <1>11, <1>12, <1>13 DEF FileTypes, readside, putside
<1>15. Looked'
  BY <1>9 DEF Looked
<1>16. InOrder'
  <2> SUFFICES ASSUME fails' = 0 PROVE sent' \o file'.wbuff = copied'
    BY DEF InOrder
  <2>1. n = wused /\ fails = 0
    BY <1>2, <1>4, <1>5
  <2>2. written = file.wbuff
    BY <2>1, <1>4, SubSeqFull DEF written, wused
  <2>3. sent' \o <<>> = sent'
    BY <1>7, ConcatEmptySeq
  <2>4. sent \o file.wbuff = copied
    BY <1>3, <2>1 DEF FileInv, InOrder
  <2> QED
    BY <1>5, <1>7, <1>9, <2>2, <2>3, <2>4
<1>17. StillThere'
  <2>1. kept \in Seq(1 .. Len(sent)) /\ Increasing(kept)
    BY DEF FileInv, StillThere
  <2>2. kept \in Seq(1 .. Len(sent \o written))
    BY <1>5, <1>6, <2>1, FetchedLater
  <2> QED
    BY <1>3, <1>7, <1>12, <2>1, <2>2 DEF StillThere, Increasing
<1>18. ReadInOrder'
  BY <1>12 DEF ReadInOrder
<1>19. CopiedRight'
  BY <1>3 DEF FileInv, CopiedRight, putside
<1> QED
  BY <1>14, <1>15, <1>16, <1>17, <1>18, <1>19 DEF FileInv

LEMMA GetsStep == \A size \in Sizes : FileInv /\ Gets(size) => FileInv'
<1> SUFFICES ASSUME NEW size \in Sizes, FileInv, Gets(size) PROVE FileInv'
  OBVIOUS
<1>1. FileTypes /\ call = Idle /\ call.op = "none"
  BY CallKinds DEF FileInv, Gets
<1>2. call' = [op |-> "gets", left |-> size - 1, line |-> <<>>]
  BY DEF Gets
<1>3. size - 1 \in Nat /\ <<>> \in Seq(Chars)
  BY FileAssumption, EmptySeq DEF Gets
<1>4. call' \in GetsCalls /\ call'.op = "gets" /\ call'.line = <<>>
  BY <1>2, <1>3 DEF GetsCalls
<1>5. file' = file /\ retcode' = retcode /\ UNCHANGED writeside /\ UNCHANGED readside
  BY DEF Gets
<1>7. FileTypes'
  BY <1>1, <1>4, <1>5 DEF FileTypes, writeside, readside, wused
<1>8. LineSoFar' = LineSoFar
  BY <1>1, <1>4 DEF LineSoFar
<1>9. ReadInOrder'
  BY <1>1, <1>5, <1>8, ReadSideStays
<1>10. Looked' /\ CopiedRight' /\ InOrder' /\ StillThere'
  BY <1>1, <1>5, WriteSideStays
<1> QED
  BY <1>7, <1>9, <1>10 DEF FileInv

(* What is read stays where it is: from the file to the buffer, from there to *)
(* the line, and from there to the program.                                   *)
LEMMA GetsTakesStep == FileInv /\ GetsTakes => FileInv'
<1> SUFFICES ASSUME FileInv, GetsTakes PROVE FileInv'
  OBVIOUS
<1>1. FileTypes /\ call.op = "gets" /\ call \in GetsCalls
  BY CallKinds DEF FileInv, GetsTakes
<1>2. /\ ~LineEnds(call.line, call.left) /\ file.unread # <<>>
      /\ file' = [file EXCEPT !.unread = Tail(@)]
      /\ call' = [call EXCEPT !.line = Append(@, Head(file.unread)), !.left = @ - 1]
      /\ retcode' = retcode /\ UNCHANGED writeside /\ UNCHANGED readside
  BY DEF GetsTakes
<1> DEFINE u == file.unread  l == call.line  h == Head(u)
<1>3. /\ u \in Seq(Chars) /\ l \in Seq(Chars) /\ call.left \in Nat /\ call.left # 0
      /\ taken \in Seq(Chars) /\ input \in Seq(Chars) /\ Len(u) \in Nat /\ Len(u) <= BUFSIZ
      /\ BUFSIZ \in Nat /\ file \in CharBuffers
  BY <1>1, <1>2, FileKinds DEF FileTypes, GetsCalls, LineEnds
<1>4. h \in Chars /\ Tail(u) \in Seq(Chars) /\ Len(Tail(u)) = Len(u) - 1
  BY <1>2, <1>3, HeadTailProperties
<1>5. Append(l, h) = l \o <<h>> /\ Append(l, h) \in Seq(Chars) /\ <<h>> \in Seq(Chars)
  <2>1. Append(l, h) \in Seq(Chars)
    BY <1>3, <1>4, AppendProperties
  <2>2. Append(l, h) = l \o <<h>>
    BY <1>3, <1>4, AppendIsConcat
  <2> QED
    BY <1>4, <2>1, <2>2
<1>6. u = <<h>> \o Tail(u)
  <2>1. 1 \in 1 .. Len(u) /\ Len(u) \in 1 .. Len(u)
    BY <1>2, <1>3, EmptySeq
  <2>2. SubSeq(u, 1, Len(u)) = <<u[1]>> \o SubSeq(u, 1 + 1, Len(u))
    BY <1>3, <2>1, SubSeqRecursiveFirst
  <2>3. SubSeq(u, 1, Len(u)) = u
    BY <1>3, SubSeqFull
  <2>4. Tail(u) = SubSeq(u, 2, Len(u))
    BY <1>2, <1>3, TailIsSubSeq
  <2> QED
    BY <2>2, <2>3, <2>4
<1>7. /\ file' \in CharBuffers /\ file'.wbuff = file.wbuff /\ file'.wchkd = file.wchkd
      /\ file'.wsize = file.wsize /\ file'.unread = Tail(u)
  BY <1>2, <1>3, <1>4 DEF CharBuffers
<1>8. call' \in GetsCalls /\ call'.op = "gets" /\ call'.line = Append(l, h)
  <2>1. call.left - 1 \in Nat
    BY <1>3
  <2> QED
    BY <1>1, <1>2, <1>5, <2>1 DEF GetsCalls
<1>9. Len(file'.unread) <= BUFSIZ
  BY <1>1, <1>2, <1>3, <1>4, <1>7 DEF FileTypes, writeside
<1>10. FileTypes'
  BY <1>1, <1>2, <1>7, <1>8, <1>9 DEF FileTypes, writeside, readside, wused
<1>11. Looked' /\ CopiedRight' /\ InOrder' /\ StillThere'
  BY <1>1, <1>2, <1>7, WriteSideStays
<1>12. ReadInOrder'
  <2>1. taken \o l \o u \o input = source
    BY <1>1 DEF FileInv, ReadInOrder, LineSoFar
  <2>2. (taken \o l) \o u = (taken \o (l \o <<h>>)) \o Tail(u)
    <3>1. taken \o l \in Seq(Chars)
      BY <1>3, ConcatProperties
    <3>2. (taken \o l) \o (<<h>> \o Tail(u)) = ((taken \o l) \o <<h>>) \o Tail(u)
      BY <1>4, <1>5, <3>1, Regroup
    <3>3. (taken \o l) \o <<h>> = taken \o (l \o <<h>>)
      BY <1>3, <1>5, Regroup
    <3> QED
      BY <1>6, <3>2, <3>3
  <2>3. taken \o Append(l, h) \o Tail(u) \o input = source
    BY <1>5, <2>1, <2>2
  <2> QED
    BY <1>2, <1>7, <1>8, <2>3 DEF ReadInOrder, LineSoFar, readside
<1> QED
  BY <1>10, <1>11, <1>12 DEF FileInv

(* The read ends: what the line holds goes to the program. *)
LEMMA GetsReturnsStep ==
    ASSUME FileInv, call.op = "gets", GetsReturns(call.line), UNCHANGED file,
           UNCHANGED <<input, source>>, UNCHANGED writeside, retcode' \in Int
    PROVE  FileInv'
<1>1. FileTypes /\ call \in GetsCalls
  BY CallKinds DEF FileInv
<1>2. call' = Idle /\ taken' = taken \o call.line
  BY DEF GetsReturns
<1>3. taken \in Seq(Chars) /\ call.line \in Seq(Chars)
  BY <1>1 DEF FileTypes, GetsCalls
<1>4. taken' \in Seq(Chars)
  BY <1>2, <1>3, ConcatProperties
<1>5. call'.op = "none"
  BY <1>1, <1>2 DEF Idle, FileTypes, writeside
<1>6. FileTypes'
  BY <1>1, <1>2, <1>4, <1>5 DEF FileTypes, writeside, wused
<1>7. Looked' /\ CopiedRight' /\ InOrder' /\ StillThere'
  BY <1>1, WriteSideStays
<1>8. ReadInOrder'
  <2>1. taken \o call.line \o file.unread \o input = source
    BY <1>1 DEF FileInv, ReadInOrder, LineSoFar
  <2>2. taken' \o <<>> = taken'
    BY <1>4, ConcatEmptySeq
  <2>3. taken' \o <<>> \o file.unread \o input = source
    BY <1>2, <2>1, <2>2
  <2> QED
    BY <1>5, <2>3 DEF ReadInOrder, LineSoFar
<1> QED
  BY <1>6, <1>7, <1>8 DEF FileInv

LEMMA GetsEndsStep == FileInv /\ GetsEnds => FileInv'
<1> SUFFICES ASSUME FileInv, GetsEnds PROVE FileInv'
  OBVIOUS
<1>1. retcode' \in Int
  BY DEF FileInv, FileTypes, GetsEnds
<1> QED
  BY <1>1, GetsReturnsStep DEF GetsEnds

LEMMA GetsFillsStep == FileInv /\ GetsFills => FileInv'
<1> SUFFICES ASSUME FileInv, GetsFills PROVE FileInv'
  OBVIOUS
<1>1. FileTypes /\ call.op = "gets" /\ call \in GetsCalls
  BY CallKinds DEF FileInv, GetsFills
<1>2. /\ file.unread = <<>> /\ fill /\ UNCHANGED writeside /\ source' = source
      /\ IF retcode' <= 0 THEN GetsReturns(call.line) ELSE UNCHANGED <<call, taken>>
  BY DEF GetsFills
<1>3. CASE retcode' \in {0, -1} /\ UNCHANGED <<file, input>>
  <2>1. retcode' <= 0 /\ retcode' \in Int
    BY <1>3
  <2> QED
    BY <1>1, <1>2, <1>3, <2>1, GetsReturnsStep
<1>4. CASE ~(retcode' \in {0, -1} /\ UNCHANGED <<file, input>>)
  <2> DEFINE room == BUFSIZ - Len(file.unread)
  <2>1. PICK n \in 1 .. Least(room, Len(input)) :
            /\ file' = [file EXCEPT !.unread = @ \o SubSeq(input, 1, n)]
            /\ input' = SubSeq(input, n + 1, Len(input)) /\ retcode' = n
    BY <1>2, <1>4 DEF fill
  <2>2. /\ input \in Seq(Chars) /\ Len(input) \in Nat /\ BUFSIZ \in Nat /\ Len(file.unread) = 0
        /\ taken \in Seq(Chars) /\ file \in CharBuffers /\ call.line \in Seq(Chars)
    BY <1>1, <1>2, FileKinds, LenProperties, EmptySeq DEF FileTypes, GetsCalls
  <2>3. n \in 1 .. Len(input) /\ n <= BUFSIZ /\ n \in Nat
    BY <2>2 DEF Least
  <2> DEFINE more == SubSeq(input, 1, n)  rest == SubSeq(input, n + 1, Len(input))
  <2>4. more \in Seq(Chars) /\ Len(more) = n
    <3>1. \A i \in 1 .. n : input[i] \in Chars
      BY <2>2, <2>3, ElementOfSeq
    <3> QED
      BY <2>3, <3>1, SubSeqProperties
  <2>5. rest \in Seq(Chars)
    <3>1. \A i \in n + 1 .. Len(input) : input[i] \in Chars
      BY <2>2, <2>3, ElementOfSeq
    <3> QED
      BY <2>2, <2>3, <3>1, SubSeqProperties
  <2>6. more \o rest = input
    <3>1. SubSeq(input, 1, n) \o SubSeq(input, n + 1, Len(input)) = SubSeq(input, 1, Len(input))
      BY <2>2, <2>3, ConcatAdjacentSubSeq
    <3> QED
      BY <2>2, <3>1, SubSeqFull
  <2> HIDE DEF more, rest
  <2>7. <<>> \o more = more
    BY <2>4, ConcatEmptySeq
  <2>8. /\ file' \in CharBuffers /\ file'.wbuff = file.wbuff /\ file'.wchkd = file.wchkd
        /\ file'.wsize = file.wsize /\ file'.unread = more /\ input' = rest
    BY <1>2, <2>1, <2>2, <2>4, <2>7 DEF CharBuffers, more, rest
  <2>9. ~(retcode' <= 0) /\ retcode' \in Int
    BY <2>1, <2>3
  <2>10. UNCHANGED <<call, taken>>
    BY <1>2, <2>9
  <2>11. Len(file'.unread) <= BUFSIZ
    BY <1>1, <1>2, <2>3, <2>4, <2>8 DEF FileTypes, writeside
  <2>12. FileTypes'
    BY <1>1, <1>2, <2>5, <2>8, <2>9, <2>10, <2>11 DEF FileTypes, writeside, wused
  <2>13. Looked' /\ CopiedRight' /\ InOrder' /\ StillThere'
    BY <1>1, <1>2, <2>8, WriteSideStays
  <2>14. ReadInOrder'
    <3>1. taken \o call.line \o <<>> \o input = source
      BY <1>1, <1>2 DEF FileInv, ReadInOrder, LineSoFar
    <3> DEFINE s == taken \o call.line
    <3>2. s \in Seq(Chars)
      BY <2>2, ConcatProperties
    <3> HIDE DEF s
    <3>3. s \o <<>> = s
      BY <3>2, ConcatEmptySeq
    <3>4. (s \o more) \o rest = s \o (more \o rest)
      BY ONLY <2>4, <2>5, <3>2, Regroup
    <3>5. s \o more \o rest = source
      BY <2>6, <3>1, <3>3, <3>4 DEF s
    <3>6. call'.op = "gets" /\ LineSoFar' = call.line
      BY <1>1, <2>10 DEF LineSoFar
    <3> QED
      BY <1>2, <2>8, <2>10, <3>5, <3>6 DEF ReadInOrder, s
  <2> QED
    BY <2>12, <2>13, <2>14 DEF FileInv
<1> QED
  BY <1>3, <1>4

LEMMA FileStutterStep == FileInv /\ UNCHANGED fileVars => FileInv'
<1> SUFFICES ASSUME FileInv, UNCHANGED fileVars PROVE FileInv'
  OBVIOUS
<1> USE DEF fileVars, writeside, readside
<1>1. FileTypes'
  BY DEF FileInv, FileTypes, wused
<1>2. Looked' /\ CopiedRight' /\ InOrder' /\ StillThere' /\ ReadInOrder'
  BY DEF FileInv, Looked, CopiedRight, InOrder, StillThere, Increasing, ReadInOrder, LineSoFar
<1> QED
  BY <1>1, <1>2 DEF FileInv

LEMMA FileInvHolds == FileSpec => []FileInv
<1>1. FileInv /\ [FileNext]_fileVars => FileInv'
  <2> SUFFICES ASSUME FileInv, [FileNext]_fileVars PROVE FileInv'
    OBVIOUS
  <2>1. ASSUME Writing PROVE FileInv'
    BY <2>1, PutStep, PutCopiesStep, PutFlushesStep, PutEndsStep, FflushStep, FcloseStep,
       SetModeStep DEF Writing, Modes
  <2>2. ASSUME Reading PROVE FileInv'
    BY <2>2, GetsStep, GetsTakesStep, GetsFillsStep, GetsEndsStep DEF Reading
  <2> QED
    BY <2>1, <2>2, FileStutterStep DEF FileNext
<1> QED
  BY <1>1, FileInitInv, PTL DEF FileSpec

(***************************************************************************)
(* For buffers of any size, any texts and any way writes and reads fall    *)
(* short or fail: put copies as many characters as it is given, the right  *)
(* ones in its first round (FILE::put), and what it copied is in what      *)
(* write was given and the buffer, in order, and exactly so as long as no  *)
(* flush failed (FILE::flush).                                             *)
(***************************************************************************)
THEOREM NothingIsLost == FileSpec => []NothingLost
<1>1. FileInv => NothingLost
  <2> SUFFICES ASSUME FileInv PROVE NothingLost
    OBVIOUS
  <2>1. FileTypes /\ CopiedRight /\ InOrder /\ StillThere
    BY DEF FileInv
  <2>2. FileTypeOK
    BY <2>1, FileKinds, CallKinds DEF FileTypeOK, FileTypes
  <2> QED
    BY <2>1, <2>2 DEF NothingLost
<1> QED
  BY <1>1, FileInvHolds, PTL

(* What getc and gets return is what the file holds (FILE::gets, fill). *)
THEOREM ReadsInOrder == FileSpec => []ReadInOrder
<1>1. FileInv => ReadInOrder
  BY DEF FileInv
<1> QED
  BY <1>1, FileInvHolds, PTL

(***************************************************************************)
(* Both ways.  Not said here, as the code does not do it: that a text that *)
(* put copies in several rounds is copied right behind the first           *)
(* (fdfile.c:121), and that write gets a character once though a flush     *)
(* failed (fdfile.c:190).                                                  *)
(***************************************************************************)
THEOREM StreamsAreRight == FileSpec => []StreamsRight
BY NothingIsLost, ReadsInOrder, PTL DEF StreamsRight

(* No newline stays in a line buffer (FILE::maybeflush). *)
THEOREM LinesGo == FileSpec => LinesGoOut
<1> DEFINE A == call.op = "put" /\ call'.op = "none" /\ retcode' = 0 /\ file.wmode = _IOLBF
                  => \A i \in DOMAIN file'.wbuff : file'.wbuff[i] # NL
<1>1. FileInv /\ [FileNext]_fileVars => [A]_fileVars
  <2> SUFFICES ASSUME FileInv, FileNext, call.op = "put", call'.op = "none", retcode' = 0,
                      file.wmode = _IOLBF
               PROVE  \A i \in DOMAIN file'.wbuff : file'.wbuff[i] # NL
    OBVIOUS
  <2>1. FileTypes /\ call # Idle
    BY DEF FileInv, Idle
  <2>2. ASSUME Flushes, UNCHANGED putside
        PROVE  \A i \in DOMAIN file'.wbuff : file'.wbuff[i] # NL
    <3>1. file'.wbuff = <<>> /\ DOMAIN file'.wbuff = {}
      BY <2>2, FlushKeeps, EmptySeq
    <3> QED
      BY <3>1
  <2>3. PutFlushes \/ PutEnds
    <3>1. ~PutCopies
      <4> SUFFICES ASSUME PutCopies PROVE FALSE
        OBVIOUS
      <4>1. call \in PutCalls
        BY <2>1, CallKinds
      <4>2. call'.op = "put"
        BY <4>1 DEF PutCopies, PutCalls
      <4> QED
        BY <4>2
    <3>2. ~Fflush /\ ~Fclose /\ (\A mode \in Modes : ~SetMode(mode)) /\ (\A text \in Texts : ~Put(text))
      BY <2>1 DEF Fflush, Fclose, SetMode, Put
    <3>3. ~Reading
      BY <2>1 DEF Reading, Gets, GetsTakes, GetsFills, GetsEnds
    <3> QED
      BY <3>1, <3>2, <3>3 DEF FileNext, Writing, Modes
  <2>4. CASE PutFlushes
    BY <2>2, <2>4 DEF PutFlushes
  <2>5. CASE PutEnds
    <3>1. CASE Flushes
      BY <2>2, <2>5, <3>1 DEF PutEnds
    <3>2. CASE ~Flushes
      <4>1. file' = [file EXCEPT !.wchkd = wused] /\ ~NewLine
        BY <2>5, <3>2 DEF PutEnds, maybeflush, _IOLBF, _IOFBF
      <4>2. file'.wchkd = wused /\ file'.wbuff = file.wbuff
        BY <2>1, <4>1 DEF FileTypes, CharBuffers
      <4>3. Looked'
        BY <2>5, PutEndsStep DEF FileInv
      <4>4. DOMAIN file'.wbuff = 1 .. file'.wchkd
        BY <2>1, <4>2, FileKinds, LenProperties DEF wused
      <4> QED
        BY <4>3, <4>4 DEF Looked
    <3> QED
      BY <3>1, <3>2
  <2> QED
    BY <2>3, <2>4, <2>5
<1> QED
  BY <1>1, FileInvHolds, PTL DEF FileSpec, LinesGoOut

-------------------------------------------------------------------------------
(* What the terminal shows is a row of characters with a cursor in it or   *)
(* right behind it.                                                        *)
ScreenChars == Keys \cup {SP}
Screens == {s \in [cells : Seq(ScreenChars), cursor : Nat] : s.cursor <= Len(s.cells)}
EditStates ==
    [reading : BOOLEAN, line : Seq(Keys), size : Nat, posn : Nat, histindex : Nat]

(***************************************************************************)
(* The invariant: what EditorRight says, and that between two reads there  *)
(* is no line.                                                             *)
(***************************************************************************)
EditInv ==
    /\ EditorRight
    /\ edit \in EditStates
    /\ screen \in Screens
    /\ history \in [lines : Seq(Seq(Keys)), alloc : Nat]
    /\ result \in [line : Seq(Keys), there : BOOLEAN]
    /\ ~edit.reading => edit = NoLine

(* The new cells hold what is written from the cursor on. *)
LEMMA WriteAllIs ==
    ASSUME NEW scr \in Screens, NEW text \in Seq(ScreenChars), NEW w, w = writeall(scr, text)
    PROVE  /\ w \in Screens
           /\ w.cursor = scr.cursor + Len(text)
           /\ Len(w.cells) >= Len(scr.cells)
           /\ Len(w.cells) <= Len(scr.cells) \/ Len(w.cells) = w.cursor
           /\ \A i \in 1 .. Len(w.cells) :
                 w.cells[i] = IF scr.cursor < i /\ i <= scr.cursor + Len(text)
                                THEN text[i - scr.cursor] ELSE scr.cells[i]
<1>1. /\ scr.cells \in Seq(ScreenChars) /\ scr.cursor \in Nat /\ scr.cursor <= Len(scr.cells)
      /\ Len(scr.cells) \in Nat /\ Len(text) \in Nat
  BY DEF Screens
<1> DEFINE end == scr.cursor + Len(text)
           top == IF end > Len(scr.cells) THEN end ELSE Len(scr.cells)
           cells == [i \in 1 .. top |-> IF i \in scr.cursor + 1 .. end
                                           THEN text[i - scr.cursor] ELSE scr.cells[i]]
<1>2. top \in Nat /\ end \in Nat
  BY <1>1
<1>3. w = [cells |-> cells, cursor |-> end]
  BY <1>1 DEF writeall
<1>4. \A i \in 1 .. top : (IF i \in scr.cursor + 1 .. end
                             THEN text[i - scr.cursor] ELSE scr.cells[i]) \in ScreenChars
  <2> TAKE i \in 1 .. top
  <2>1. CASE i \in scr.cursor + 1 .. end
    <3>1. i - scr.cursor \in 1 .. Len(text)
      BY <1>1, <2>1
    <3> QED
      BY <2>1, <3>1, ElementOfSeq
  <2>2. CASE i \notin scr.cursor + 1 .. end
    <3>1. i \in 1 .. Len(scr.cells)
      BY <1>1, <2>2
    <3> QED
      BY <1>1, <2>2, <3>1, ElementOfSeq
  <2> QED
    BY <2>1, <2>2
<1>5. cells \in Seq(ScreenChars) /\ Len(cells) = top
  <2>1. cells \in [1 .. top -> ScreenChars]
    BY <1>4
  <2> HIDE DEF cells, top
  <2> QED
    BY <1>2, <2>1, SeqDef, LenProperties
<1>6. \A i \in 1 .. top :
         cells[i] = IF scr.cursor < i /\ i <= scr.cursor + Len(text)
                      THEN text[i - scr.cursor] ELSE scr.cells[i]
  BY <1>1, <1>2
<1> HIDE DEF cells
<1>7. w.cells = cells /\ w.cursor = end
  BY <1>3
<1>8. top >= end /\ top >= Len(scr.cells) /\ (top <= Len(scr.cells) \/ top = end)
  BY <1>1
<1>9. w \in Screens
  BY <1>2, <1>3, <1>5, <1>8 DEF Screens
<1> HIDE DEF top
<1> QED
  BY <1>5, <1>6, <1>7, <1>8, <1>9

LEMMA WriteSpcIs ==
    ASSUME NEW scr \in Screens, NEW size \in Int, NEW w, w = writespc(scr, size)
    PROVE  /\ w \in Screens
           /\ w.cursor = scr.cursor + (IF size > 0 THEN size ELSE 0)
           /\ Len(w.cells) >= Len(scr.cells)
           /\ Len(w.cells) <= Len(scr.cells) \/ Len(w.cells) = w.cursor
           /\ \A i \in 1 .. Len(w.cells) :
                 w.cells[i] = IF scr.cursor < i /\ i <= w.cursor THEN SP ELSE scr.cells[i]
<1> DEFINE n == IF size > 0 THEN size ELSE 0
           text == [i \in 1 .. size |-> SP]
<1>1. n \in Nat /\ 1 .. size = 1 .. n /\ SP \in ScreenChars
  BY DEF ScreenChars
<1>2. text \in Seq(ScreenChars) /\ Len(text) = n /\ \A i \in 1 .. n : text[i] = SP
  <2>1. text \in [1 .. n -> ScreenChars]
    BY <1>1
  <2>2. \A i \in 1 .. n : text[i] = SP
    BY <1>1
  <2> HIDE DEF text, n
  <2> QED
    BY <1>1, <2>1, <2>2, SeqDef, LenProperties
<1>3. w = writeall(scr, text)
  BY DEF writespc
<1>4. scr.cursor \in Nat
  BY DEF Screens
<1> HIDE DEF text
<1>5. /\ w \in Screens /\ w.cursor = scr.cursor + n
      /\ Len(w.cells) >= Len(scr.cells)
      /\ Len(w.cells) <= Len(scr.cells) \/ Len(w.cells) = w.cursor
      /\ \A i \in 1 .. Len(w.cells) :
            w.cells[i] = IF scr.cursor < i /\ i <= scr.cursor + n
                           THEN text[i - scr.cursor] ELSE scr.cells[i]
  BY <1>2, <1>3, WriteAllIs
<1>6. \A i \in 1 .. Len(w.cells) :
         w.cells[i] = IF scr.cursor < i /\ i <= w.cursor THEN SP ELSE scr.cells[i]
  <2> TAKE i \in 1 .. Len(w.cells)
  <2>1. scr.cursor < i /\ i <= scr.cursor + n => i - scr.cursor \in 1 .. n
    BY <1>1, <1>4
  <2> QED
    BY <1>2, <1>5, <2>1
<1> QED
  BY <1>5, <1>6

LEMMA WriteBksIs ==
    ASSUME NEW scr \in Screens, NEW size \in Int, size <= scr.cursor, NEW w, w = writebks(scr, size)
    PROVE  /\ w \in Screens /\ w.cells = scr.cells
           /\ w.cursor = scr.cursor - (IF size > 0 THEN size ELSE 0)
<1>1. scr \in [cells : Seq(ScreenChars), cursor : Nat] /\ scr.cursor <= Len(scr.cells)
      /\ Len(scr.cells) \in Nat
  BY DEF Screens
<1>2. CASE size > 0
  <2>1. w = [scr EXCEPT !.cursor = @ - size]
    BY <1>2 DEF writebks
  <2>2. w.cells = scr.cells /\ w.cursor = scr.cursor - size
    BY <1>1, <2>1
  <2>3. w \in [cells : Seq(ScreenChars), cursor : Nat]
    BY <1>1, <1>2, <2>1
  <2> QED
    BY <1>1, <1>2, <2>2, <2>3 DEF Screens
<1>3. CASE ~(size > 0)
  BY <1>1, <1>3 DEF writebks
<1> QED
  BY <1>2, <1>3

LEMMA NoLineIs ==
    ASSUME ReadLineAssumption
    PROVE  /\ NoLine \in EditStates /\ NoLine.line = << >> /\ Len(NoLine.line) = 0
           /\ NoLine.size = LINE /\ NoLine.posn = 0 /\ NoLine.histindex = 0 /\ NoLine.reading = FALSE
           /\ NoResult \in [line : Seq(Keys), there : BOOLEAN] /\ NoResult.there = FALSE
           /\ Blank \in Screens /\ Blank.cursor = 0 /\ Blank.cells = << >> /\ Len(Blank.cells) = 0
<1>1. << >> \in Seq(Keys) /\ << >> \in Seq(ScreenChars) /\ Len(<< >>) = 0
  BY EmptySeq
<1> QED
  BY <1>1 DEF NoLine, NoResult, Blank, EditStates, Screens, ReadLineAssumption

LEMMA EditInitInv ==
    ASSUME ReadLineAssumption, EditInit
    PROVE  EditInv
<1>1. /\ edit = NoLine /\ screen = Blank /\ result = NoResult /\ stale = 0
      /\ history = [lines |-> << >>, alloc |-> 0]
  BY DEF EditInit
<1>2. history.lines \in Seq(Seq(Keys)) /\ Len(history.lines) = 0 /\ history.alloc = 0
      /\ history \in [lines : Seq(Seq(Keys)), alloc : Nat]
  BY <1>1, EmptySeq
<1>3. LINE \in Nat /\ LINE >= 2
  BY DEF ReadLineAssumption
<1> QED
  BY <1>1, <1>2, <1>3, NoLineIs
     DEF EditInv, EditStates, EditorRight, EditTypeOK, InsideBuffer, ScreenShowsLine, Lines,
         histcount, lineused

(* A line of n characters with the cursor at posn, on the screen. *)
ShowsAt(scr, line, posn, old) ==
    /\ scr \in Screens
    /\ scr.cursor = posn
    /\ Len(line) <= Len(scr.cells)
    /\ \A i \in 1 .. Len(scr.cells) :
          /\ i <= Len(line) => scr.cells[i] = line[i]
          /\ i > Len(line) /\ i > old => scr.cells[i] = SP

LEMMA ShowsIs ==
    ASSUME screen \in Screens
    PROVE  (edit.reading => ShowsAt(screen, edit.line, edit.posn, stale)) <=> ScreenShowsLine
<1>1. DOMAIN screen.cells = 1 .. Len(screen.cells)
  BY DEF Screens
<1> QED
  BY <1>1 DEF ShowsAt, ScreenShowsLine, lineused

(* What is known while a line is being read. *)
Editing == EditInv /\ edit.reading

LEMMA ReadingMeans ==
    ASSUME Editing
    PROVE  /\ edit \in EditStates /\ screen \in Screens
           /\ edit.line \in Seq(Keys) /\ edit.line \in Seq(ScreenChars)
           /\ lineused = Len(edit.line) /\ lineused \in Nat /\ edit.posn \in Nat /\ edit.posn <= lineused
           /\ edit.size \in Nat /\ lineused < edit.size /\ edit.size >= 2
           /\ edit.histindex \in Nat /\ histcount \in Nat /\ edit.histindex <= histcount
           /\ stale \in Nat
           /\ ShowsAt(screen, edit.line, edit.posn, stale)
           /\ Before \in Seq(Keys) /\ Len(Before) = edit.posn
           /\ \A i \in 1 .. edit.posn : Before[i] = edit.line[i]
           /\ After \in Seq(Keys) /\ After \in Seq(ScreenChars) /\ Len(After) = lineused - edit.posn
           /\ \A i \in 1 .. lineused - edit.posn : After[i] = edit.line[edit.posn + i]
<1>1. /\ edit \in EditStates /\ screen \in Screens /\ ScreenShowsLine /\ edit.reading
      /\ edit.posn \in 0 .. lineused /\ edit.histindex <= histcount /\ stale \in Nat
      /\ lineused < edit.size /\ edit.size >= 2
      /\ history.lines \in Seq(Seq(Keys))
  BY DEF Editing, EditInv, EditorRight, EditTypeOK, InsideBuffer, Lines
<1>2. /\ edit.line \in Seq(Keys) /\ lineused = Len(edit.line) /\ lineused \in Nat
      /\ edit.size \in Nat /\ edit.histindex \in Nat /\ histcount \in Nat
      /\ edit.posn \in Nat /\ edit.posn <= lineused
  BY <1>1 DEF EditStates, lineused, histcount
<1>3. ShowsAt(screen, edit.line, edit.posn, stale)
  BY <1>1, ShowsIs
<1>4. Keys \subseteq ScreenChars
  BY DEF ScreenChars
<1>5. /\ Before \in Seq(Keys) /\ Len(Before) = edit.posn
      /\ \A i \in 1 .. edit.posn : Before[i] = edit.line[i]
  BY <1>2, SubSeqProperties DEF Before
<1>6. /\ After \in Seq(Keys) /\ Len(After) = lineused - edit.posn
      /\ \A i \in 1 .. lineused - edit.posn : After[i] = edit.line[edit.posn + i]
  <2> DEFINE from == edit.posn + 1
  <2>1. /\ from \in Int /\ lineused - from + 1 = lineused - edit.posn
        /\ \A i \in from .. lineused : edit.line[i] \in Keys
    BY <1>2, ElementOfSeq
  <2>2. After = SubSeq(edit.line, from, lineused)
    BY DEF After
  <2> HIDE DEF from
  <2>3. /\ After \in Seq(Keys)
        /\ Len(After) = IF from <= lineused THEN lineused - from + 1 ELSE 0
        /\ \A i \in 1 .. lineused - from + 1 : After[i] = edit.line[from + i - 1]
    BY ONLY <1>2, <2>1, <2>2, SubSeqProperties
  <2> USE DEF from
  <2>4. ASSUME NEW i \in 1 .. lineused - edit.posn
        PROVE  After[i] = edit.line[edit.posn + i]
    <3>1. from + i - 1 = edit.posn + i
      BY <1>2
    <3> HIDE DEF from
    <3> QED
      BY <2>1, <2>3, <3>1
  <2>5. Len(After) = lineused - edit.posn
    BY <1>2, <2>3
  <2> HIDE DEF from
  <2> QED
    BY <2>3, <2>4, <2>5
<1>7. edit.line \in Seq(ScreenChars) /\ After \in Seq(ScreenChars)
  BY <1>2, <1>4, <1>6, SeqMonotonic
<1> QED
  BY <1>1, <1>2, <1>3, <1>5, <1>6, <1>7

(* A key leaves a line that fits its buffer, and the screen shows it. *)
LEMMA Edited ==
    ASSUME Editing, NEW line \in Seq(Keys), NEW posn \in 0 .. Len(line), NEW size \in Nat,
           NEW index \in Nat,
           Len(line) < size, size >= 2, index <= histcount,
           edit' = [edit EXCEPT !.line = line, !.posn = posn, !.size = size, !.histindex = index],
           UNCHANGED <<history, result>>, stale' \in Nat,
           ShowsAt(screen', line, posn, stale')
    PROVE  EditInv'
<1>1. edit \in EditStates /\ edit.reading
  BY ReadingMeans DEF Editing
<1>2. posn \in Nat /\ posn <= Len(line) /\ Len(line) \in Nat
  OBVIOUS
<1>3. /\ edit' \in EditStates /\ edit'.reading /\ edit'.line = line /\ edit'.posn = posn
      /\ edit'.size = size /\ edit'.histindex = index
  BY <1>1, <1>2 DEF EditStates
<1>4. /\ history' = history /\ result' = result
      /\ history \in [lines : Seq(Seq(Keys)), alloc : Nat]
      /\ result \in [line : Seq(Keys), there : BOOLEAN]
      /\ history.lines \in Seq(Lines) /\ history.alloc \in Nat /\ histcount <= history.alloc
      /\ result.line \in Lines
  BY DEF Editing, EditInv, EditorRight, EditTypeOK
<1>5. EditTypeOK'
  BY <1>2, <1>3, <1>4 DEF EditTypeOK, Lines, lineused, histcount
<1>6. InsideBuffer'
  BY <1>3 DEF InsideBuffer, lineused
<1>7. screen' \in Screens
  BY DEF ShowsAt
<1>8. ScreenShowsLine'
  <2>1. DOMAIN screen'.cells = 1 .. Len(screen'.cells)
    BY <1>7 DEF Screens
  <2> QED
    BY <1>3, <2>1 DEF ShowsAt, ScreenShowsLine, lineused
<1> QED
  BY <1>3, <1>4, <1>5, <1>6, <1>7, <1>8 DEF EditInv, EditorRight

LEMMA MovesInv ==
    ASSUME Editing, NEW posn \in 0 .. lineused, Moves(posn),
           ShowsAt(screen', edit.line, posn, stale)
    PROVE  EditInv'
<1>1. /\ edit \in EditStates /\ edit.line \in Seq(Keys) /\ lineused = Len(edit.line) /\ edit.size \in Nat
      /\ lineused < edit.size /\ edit.size >= 2 /\ edit.histindex \in Nat
      /\ edit.histindex <= histcount /\ stale \in Nat
  BY ReadingMeans
<1>2. edit' = [edit EXCEPT !.posn = posn] /\ UNCHANGED <<history, result>> /\ stale' = stale
  BY DEF Moves
<1>3. edit' = [edit EXCEPT !.line = edit.line, !.posn = posn, !.size = edit.size,
                           !.histindex = edit.histindex]
  BY <1>1, <1>2 DEF EditStates
<1> QED
  BY <1>1, <1>2, <1>3, Edited

LEMMA LineBeginInv == Editing /\ LineBegin => EditInv'
<1> SUFFICES ASSUME Editing, LineBegin PROVE EditInv'
  OBVIOUS
<1>1. screen' = writebks(screen, edit.posn) /\ Moves(0)
  BY DEF LineBegin
<1>2. /\ ShowsAt(screen, edit.line, edit.posn, stale) /\ edit.posn \in Nat
      /\ 0 \in 0 .. lineused
  BY ReadingMeans
<1>3. screen' \in Screens /\ screen'.cells = screen.cells /\ screen'.cursor = 0
  BY <1>1, <1>2, WriteBksIs DEF ShowsAt
<1>4. ShowsAt(screen', edit.line, 0, stale)
  BY <1>2, <1>3 DEF ShowsAt
<1> QED
  BY <1>1, <1>2, <1>4, MovesInv

(* A part of the line, from behind posn. *)
IsPart(text, line, posn) ==
    /\ posn + Len(text) <= Len(line)
    /\ \A i \in 1 .. Len(text) : text[i] = line[posn + i]

(* What is right of the cursor is written again. *)
LEMMA Rewritten ==
    ASSUME NEW line \in Seq(ScreenChars), NEW posn \in Nat, NEW old \in Nat, NEW scr,
           ShowsAt(scr, line, posn, old),
           NEW text \in Seq(ScreenChars), IsPart(text, line, posn),
           NEW w, w = writeall(scr, text)
    PROVE  ShowsAt(w, line, posn + Len(text), old)
<1>1. /\ scr \in Screens /\ scr.cursor = posn /\ Len(line) <= Len(scr.cells)
      /\ Len(scr.cells) \in Nat /\ Len(line) \in Nat /\ Len(text) \in Nat
      /\ posn + Len(text) <= Len(line) /\ \A i \in 1 .. Len(text) : text[i] = line[posn + i]
  BY DEF ShowsAt, Screens, IsPart
<1>a. w = writeall(scr, text) /\ scr \in Screens /\ text \in Seq(ScreenChars)
  BY <1>1
<1>b. /\ w \in Screens /\ w.cursor = scr.cursor + Len(text) /\ Len(w.cells) >= Len(scr.cells)
      /\ Len(w.cells) <= Len(scr.cells) \/ Len(w.cells) = w.cursor
      /\ \A i \in 1 .. Len(w.cells) :
            w.cells[i] = IF scr.cursor < i /\ i <= scr.cursor + Len(text)
                           THEN text[i - scr.cursor] ELSE scr.cells[i]
  BY ONLY <1>a, WriteAllIs
<1>c. Len(w.cells) \in Nat
  BY <1>b DEF Screens
<1>d. Len(w.cells) = Len(scr.cells)
  BY <1>1, <1>b, <1>c
<1>2. /\ w \in Screens /\ w.cursor = posn + Len(text) /\ Len(w.cells) = Len(scr.cells)
      /\ \A i \in 1 .. Len(w.cells) :
            w.cells[i] = IF posn < i /\ i <= posn + Len(text)
                           THEN text[i - posn] ELSE scr.cells[i]
  BY <1>1, <1>b, <1>d
<1>3. ASSUME NEW i \in 1 .. Len(w.cells)
      PROVE  /\ i <= Len(line) => w.cells[i] = line[i]
             /\ i > Len(line) /\ i > old => w.cells[i] = SP
  <2>1. i \in Nat /\ i \in 1 .. Len(scr.cells)
    BY <1>1, <1>2
  <2>2. CASE posn < i /\ i <= posn + Len(text)
    <3>1. i - posn \in 1 .. Len(text) /\ posn + (i - posn) = i
      BY <1>1, <2>1, <2>2
    <3> QED
      BY <1>1, <1>2, <2>1, <2>2, <3>1
  <2>3. CASE ~(posn < i /\ i <= posn + Len(text))
    BY <1>2, <2>1, <2>3 DEF ShowsAt
  <2> QED
    BY <2>2, <2>3
<1> QED
  BY <1>1, <1>2, <1>3 DEF ShowsAt

LEMMA LineEndInv == Editing /\ LineEnd => EditInv'
<1> SUFFICES ASSUME Editing, LineEnd PROVE EditInv'
  OBVIOUS
<1>1. screen' = writeall(screen, After) /\ Moves(lineused)
  BY DEF LineEnd
<1>2. /\ ShowsAt(screen, edit.line, edit.posn, stale) /\ edit.posn \in Nat /\ stale \in Nat
      /\ lineused \in 0 .. lineused /\ edit.line \in Seq(ScreenChars) /\ After \in Seq(ScreenChars)
      /\ edit.posn + Len(After) = lineused /\ lineused = Len(edit.line)
      /\ IsPart(After, edit.line, edit.posn)
  BY ReadingMeans DEF IsPart
<1>3. ShowsAt(screen', edit.line, lineused, stale)
  BY <1>1, <1>2, Rewritten
<1> QED
  BY <1>1, <1>2, <1>3, MovesInv

LEMMA LeftInv == Editing /\ Left => EditInv'
<1> SUFFICES ASSUME Editing, Left PROVE EditInv'
  OBVIOUS
<1>1. screen' = writebks(screen, 1) /\ Moves(edit.posn - 1) /\ edit.posn > 0
  BY DEF Left
<1>2. /\ ShowsAt(screen, edit.line, edit.posn, stale) /\ edit.posn \in Nat
      /\ edit.posn - 1 \in 0 .. lineused
  BY <1>1, ReadingMeans
<1>3. screen' \in Screens /\ screen'.cells = screen.cells /\ screen'.cursor = edit.posn - 1
  BY <1>1, <1>2, WriteBksIs DEF ShowsAt
<1>4. ShowsAt(screen', edit.line, edit.posn - 1, stale)
  BY <1>2, <1>3 DEF ShowsAt
<1> QED
  BY <1>1, <1>2, <1>4, MovesInv

LEMMA RightInv == Editing /\ Right => EditInv'
<1> SUFFICES ASSUME Editing, Right PROVE EditInv'
  OBVIOUS
<1> DEFINE next == edit.posn + 1
           text == SubSeq(edit.line, next, next)
<1>1. screen' = writeall(screen, text) /\ Moves(next) /\ edit.posn < lineused
  BY DEF Right
<1>2. /\ ShowsAt(screen, edit.line, edit.posn, stale) /\ edit.posn \in Nat /\ stale \in Nat
      /\ next \in 0 .. lineused /\ edit.line \in Seq(ScreenChars)
      /\ lineused = Len(edit.line) /\ lineused \in Nat
  BY <1>1, ReadingMeans
<1>3. next \in Int /\ next \in 1 .. Len(edit.line) /\ next - next + 1 = 1
  BY <1>1, <1>2
<1> HIDE DEF next
<1>4. text \in Seq(ScreenChars) /\ Len(text) = 1 /\ text[1] = edit.line[next]
  <2>1. \A i \in next .. next : edit.line[i] \in ScreenChars
    BY <1>2, <1>3, ElementOfSeq
  <2>2. /\ text \in Seq(ScreenChars) /\ Len(text) = IF next <= next THEN next - next + 1 ELSE 0
        /\ \A i \in 1 .. next - next + 1 : text[i] = edit.line[next + i - 1]
    BY <1>3, <2>1, SubSeqProperties
  <2> QED
    BY <1>3, <2>2
<1> HIDE DEF text
<1> USE DEF next
<1>5. IsPart(text, edit.line, edit.posn)
  BY <1>2, <1>3, <1>4 DEF IsPart
<1>6. ShowsAt(screen', edit.line, edit.posn + Len(text), stale)
  BY <1>1, <1>2, <1>3, <1>4, <1>5, Rewritten
<1>7. ShowsAt(screen', edit.line, next, stale)
  BY <1>4, <1>6
<1> HIDE DEF next
<1> QED
  BY <1>1, <1>2, <1>7, MovesInv

(* What the screen holds at its beginning, and what is behind n and old.   *)
Holds(scr, line, n) == n <= Len(scr.cells) /\ \A i \in 1 .. n : scr.cells[i] = line[i]
Clear(scr, n, old) == \A i \in 1 .. Len(scr.cells) : i > n /\ i > old => scr.cells[i] = SP

LEMMA ShowsMeans ==
    ASSUME NEW scr \in Screens, NEW line \in Seq(ScreenChars), NEW posn, NEW old
    PROVE  ShowsAt(scr, line, posn, old) <=>
              scr.cursor = posn /\ Holds(scr, line, Len(line)) /\ Clear(scr, Len(line), old)
<1>1. Len(scr.cells) \in Nat /\ Len(line) \in Nat
  BY DEF Screens
<1>2. ASSUME ShowsAt(scr, line, posn, old)
      PROVE  scr.cursor = posn /\ Holds(scr, line, Len(line)) /\ Clear(scr, Len(line), old)
  <2>1. scr.cursor = posn /\ Clear(scr, Len(line), old) /\ Len(line) <= Len(scr.cells)
    BY <1>2 DEF ShowsAt, Clear
  <2>2. \A i \in 1 .. Len(line) : scr.cells[i] = line[i]
    BY <1>1, <1>2, <2>1 DEF ShowsAt
  <2> QED
    BY <2>1, <2>2 DEF Holds
<1>3. ASSUME scr.cursor = posn, Holds(scr, line, Len(line)), Clear(scr, Len(line), old)
      PROVE  ShowsAt(scr, line, posn, old)
  <2>1. \A i \in 1 .. Len(scr.cells) : i <= Len(line) => scr.cells[i] = line[i]
    BY <1>1, <1>3 DEF Holds
  <2> QED
    BY <1>3, <2>1 DEF ShowsAt, Holds, Clear
<1> QED
  BY <1>2, <1>3

(* The end of a line is written behind what the screen holds of it.        *)
LEMMA Written ==
    ASSUME NEW scr \in Screens, NEW line \in Seq(ScreenChars), NEW text \in Seq(ScreenChars),
           IsPart(text, line, scr.cursor), Len(line) = scr.cursor + Len(text),
           Holds(scr, line, scr.cursor),
           NEW n \in Nat, NEW m \in Nat, NEW old \in Nat, m >= n, m >= Len(line), Clear(scr, n, old),
           NEW w, w = writeall(scr, text)
    PROVE  w \in Screens /\ Holds(w, line, Len(line)) /\ w.cursor = Len(line) /\ Clear(w, m, old)
<1>1. /\ scr.cursor \in Nat /\ scr.cursor <= Len(scr.cells) /\ Len(scr.cells) \in Nat
      /\ Len(line) \in Nat /\ Len(text) \in Nat /\ Len(line) = scr.cursor + Len(text)
  BY DEF Screens
<1>2. w = writeall(scr, text) /\ scr \in Screens /\ text \in Seq(ScreenChars)
  OBVIOUS
<1>3. /\ w \in Screens /\ w.cursor = scr.cursor + Len(text) /\ Len(w.cells) >= Len(scr.cells)
      /\ Len(w.cells) <= Len(scr.cells) \/ Len(w.cells) = w.cursor
      /\ \A i \in 1 .. Len(w.cells) :
            w.cells[i] = IF scr.cursor < i /\ i <= scr.cursor + Len(text)
                           THEN text[i - scr.cursor] ELSE scr.cells[i]
  BY ONLY <1>2, WriteAllIs
<1>4. Len(w.cells) \in Nat /\ w.cursor <= Len(w.cells)
  BY <1>3 DEF Screens
<1>5. ASSUME NEW i \in 1 .. Len(line)
      PROVE  w.cells[i] = line[i]
  <2>1. i \in Nat /\ i \in 1 .. Len(w.cells)
    BY <1>1, <1>3, <1>4
  <2>2. CASE scr.cursor < i
    <3>1. i - scr.cursor \in 1 .. Len(text) /\ scr.cursor + (i - scr.cursor) = i
          /\ i <= scr.cursor + Len(text)
      BY <1>1, <2>1, <2>2
    <3>2. text[i - scr.cursor] = line[i]
      BY <3>1 DEF IsPart
    <3> QED
      BY <1>3, <2>1, <2>2, <3>1, <3>2
  <2>3. CASE ~(scr.cursor < i)
    <3>1. i \in 1 .. scr.cursor
      BY <1>1, <2>1, <2>3
    <3> QED
      BY <1>3, <2>1, <2>3, <3>1 DEF Holds
  <2> QED
    BY <2>2, <2>3
<1>6. ASSUME NEW i \in 1 .. Len(w.cells), i > m, i > old
      PROVE  w.cells[i] = SP
  <2>1. i > n /\ ~(i <= scr.cursor + Len(text)) /\ i \in 1 .. Len(scr.cells)
    BY <1>1, <1>3, <1>4, <1>6
  <2> QED
    BY <1>3, <1>6, <2>1 DEF Clear
<1>7. Holds(w, line, Len(line))
  BY <1>1, <1>3, <1>4, <1>5 DEF Holds
<1>8. Clear(w, m, old)
  BY <1>6 DEF Clear
<1> QED
  BY <1>1, <1>3, <1>7, <1>8

LEMMA Erased ==
    ASSUME NEW scr \in Screens, NEW line \in Seq(ScreenChars),
           Holds(scr, line, Len(line)), scr.cursor = Len(line),
           NEW m \in Nat, NEW old \in Nat, Clear(scr, m, old),
           NEW blanks \in Int, Len(line) + blanks >= m \/ old >= m,
           NEW w, w = writespc(scr, blanks)
    PROVE  /\ w \in Screens /\ Holds(w, line, Len(line)) /\ Clear(w, Len(line), old)
           /\ w.cursor = Len(line) + (IF blanks > 0 THEN blanks ELSE 0)
<1>1. /\ scr.cursor \in Nat /\ scr.cursor <= Len(scr.cells) /\ Len(scr.cells) \in Nat
      /\ Len(line) \in Nat
  BY DEF Screens
<1>2. w = writespc(scr, blanks) /\ scr \in Screens /\ blanks \in Int
  OBVIOUS
<1>3. /\ w \in Screens
      /\ w.cursor = scr.cursor + (IF blanks > 0 THEN blanks ELSE 0)
      /\ Len(w.cells) >= Len(scr.cells)
      /\ Len(w.cells) <= Len(scr.cells) \/ Len(w.cells) = w.cursor
      /\ \A i \in 1 .. Len(w.cells) :
            w.cells[i] = IF scr.cursor < i /\ i <= w.cursor THEN SP ELSE scr.cells[i]
  BY ONLY <1>2, WriteSpcIs
<1>4. Len(w.cells) \in Nat /\ w.cursor <= Len(w.cells) /\ w.cursor \in Nat
  BY <1>3 DEF Screens
<1>5. ASSUME NEW i \in 1 .. Len(line)
      PROVE  w.cells[i] = line[i]
  <2>1. i \in Nat /\ i \in 1 .. Len(w.cells) /\ ~(scr.cursor < i)
    BY <1>1, <1>3, <1>4
  <2> QED
    BY <1>3, <2>1 DEF Holds
<1>6. ASSUME NEW i \in 1 .. Len(w.cells), i > Len(line), i > old
      PROVE  w.cells[i] = SP
  <2>1. CASE i <= w.cursor
    BY <1>3, <1>6, <2>1
  <2>2. CASE ~(i <= w.cursor)
    <3>1. i \in Nat
      BY <1>4
    <3>2. i \in 1 .. Len(scr.cells) /\ i > m
      BY <1>1, <1>3, <1>4, <1>6, <2>2, <3>1
    <3> QED
      BY <1>3, <1>6, <2>2, <3>2 DEF Clear
  <2> QED
    BY <2>1, <2>2
<1>7. Holds(w, line, Len(line))
  BY <1>1, <1>3, <1>4, <1>5 DEF Holds
<1>8. Clear(w, Len(line), old)
  BY <1>6 DEF Clear
<1> QED
  BY <1>1, <1>3, <1>7, <1>8

LEMMA BackTo ==
    ASSUME NEW scr \in Screens, NEW line \in Seq(ScreenChars), NEW old \in Nat,
           Holds(scr, line, Len(line)), Clear(scr, Len(line), old),
           NEW size \in Int, size <= scr.cursor, NEW w, w = writebks(scr, size)
    PROVE  ShowsAt(w, line, scr.cursor - (IF size > 0 THEN size ELSE 0), old)
<1>1. /\ w \in Screens /\ w.cells = scr.cells
      /\ w.cursor = scr.cursor - (IF size > 0 THEN size ELSE 0)
  BY WriteBksIs
<1>2. Holds(w, line, Len(line)) /\ Clear(w, Len(line), old)
  BY <1>1 DEF Holds, Clear
<1> QED
  BY <1>1, <1>2, ShowsMeans

(* The beginning of an edit: back to where the line changes.               *)
LEMMA BackFirst ==
    ASSUME Editing, NEW size \in Nat, size <= edit.posn, NEW w, w = writebks(screen, size)
    PROVE  /\ w \in Screens /\ w.cursor = edit.posn - size /\ Clear(w, lineused, stale)
           /\ Holds(w, edit.line, lineused)
<1>1. /\ screen \in Screens /\ edit.line \in Seq(ScreenChars) /\ lineused = Len(edit.line)
      /\ ShowsAt(screen, edit.line, edit.posn, stale) /\ edit.posn \in Nat
  BY ReadingMeans
<1>2. screen.cursor = edit.posn /\ Holds(screen, edit.line, lineused) /\ Clear(screen, lineused, stale)
  BY <1>1, ShowsMeans
<1>3. w \in Screens /\ w.cells = screen.cells /\ w.cursor = edit.posn - size
  BY <1>1, <1>2, WriteBksIs
<1> QED
  BY <1>2, <1>3 DEF Holds, Clear

LEMMA DeleteBeforeInv == Editing /\ DeleteBefore => EditInv'
<1> SUFFICES ASSUME Editing, DeleteBefore PROVE EditInv'
  OBVIOUS
<1>1. PICK a : a = writebks(screen, edit.posn)
  OBVIOUS
<1>2. PICK b : b = writeall(a, After)
  OBVIOUS
<1>3. PICK c : c = writespc(b, edit.posn)
  OBVIOUS
<1>4. /\ screen' = writebks(c, lineused) /\ Changes(After, 0, edit.size, edit.histindex)
      /\ stale' = stale
  BY <1>1, <1>2, <1>3 DEF DeleteBefore
<1>5. /\ After \in Seq(Keys) /\ After \in Seq(ScreenChars) /\ Len(After) = lineused - edit.posn
      /\ edit.posn \in Nat /\ lineused \in Nat /\ edit.posn <= lineused /\ stale \in Nat
      /\ edit.size \in Nat /\ lineused < edit.size /\ edit.size >= 2
      /\ edit.histindex \in Nat /\ edit.histindex <= histcount
  BY ReadingMeans
<1>6. a \in Screens /\ a.cursor = 0 /\ Clear(a, lineused, stale)
  BY <1>1, <1>5, BackFirst
<1>7. /\ IsPart(After, After, a.cursor) /\ Len(After) = a.cursor + Len(After)
      /\ Holds(a, After, a.cursor) /\ Len(After) \in Nat /\ lineused >= Len(After)
  BY <1>5, <1>6 DEF IsPart, Holds, Screens
<1>8. b \in Screens /\ Holds(b, After, Len(After)) /\ b.cursor = Len(After) /\ Clear(b, lineused, stale)
  BY <1>2, <1>5, <1>6, <1>7, Written
<1>9. edit.posn \in Int /\ (Len(After) + edit.posn >= lineused \/ stale >= lineused)
      /\ After \in Seq(ScreenChars) /\ lineused \in Nat /\ stale \in Nat
  BY <1>5
<1>10. /\ c \in Screens /\ Holds(c, After, Len(After)) /\ Clear(c, Len(After), stale)
       /\ c.cursor = Len(After) + (IF edit.posn > 0 THEN edit.posn ELSE 0)
  BY ONLY <1>3, <1>8, <1>9, Erased
<1>11. c.cursor = lineused /\ lineused \in Int /\ lineused <= c.cursor
       /\ c.cursor - (IF lineused > 0 THEN lineused ELSE 0) = 0
  BY <1>5, <1>10
<1>12. ShowsAt(screen', After, 0, stale')
  BY <1>4, <1>5, <1>10, <1>11, BackTo
<1>13. /\ edit' = [edit EXCEPT !.line = After, !.posn = 0, !.size = edit.size,
                               !.histindex = edit.histindex]
       /\ UNCHANGED <<history, result>> /\ stale' \in Nat
  BY <1>4, <1>5 DEF Changes
<1>14. 0 \in 0 .. Len(After) /\ Len(After) < edit.size
  BY <1>5
<1> QED
  BY <1>5, <1>12, <1>13, <1>14, Edited

(* A line made of the first n characters of the old one and of text.       *)
Joined(line, n, text) == SubSeq(line, 1, n) \o text

LEMMA JoinedIs ==
    ASSUME NEW line \in Seq(Keys), NEW n \in Nat, n <= Len(line), NEW text \in Seq(Keys),
           NEW new, new = Joined(line, n, text)
    PROVE  /\ new \in Seq(Keys) /\ new \in Seq(ScreenChars) /\ Len(new) = n + Len(text)
           /\ \A i \in 1 .. n : new[i] = line[i]
           /\ IsPart(text, new, n)
<1> DEFINE first == SubSeq(line, 1, n)
<1>1. /\ first \in Seq(Keys) /\ Len(first) = n
      /\ \A i \in 1 .. n : first[i] = line[i]
  BY SubSeqProperties
<1>2. new = first \o text /\ Len(text) \in Nat
  BY DEF Joined
<1> HIDE DEF first
<1>3. /\ new \in Seq(Keys) /\ Len(new) = Len(first) + Len(text)
      /\ \A i \in 1 .. Len(first) + Len(text) :
            new[i] = IF i <= Len(first) THEN first[i] ELSE text[i - Len(first)]
  <2>1. new = first \o text /\ first \in Seq(Keys) /\ text \in Seq(Keys)
    BY <1>1, <1>2
  <2> QED
    BY ONLY <2>1, ConcatProperties
<1>4. \A i \in 1 .. n : new[i] = line[i]
  BY <1>1, <1>2, <1>3
<1>5. ASSUME NEW i \in 1 .. Len(text)
      PROVE  text[i] = new[n + i]
  <2>1. n + i \in 1 .. n + Len(text) /\ ~(n + i <= n) /\ (n + i) - n = i
    BY <1>2
  <2> QED
    BY <1>1, <1>3, <2>1
<1>6. new \in Seq(ScreenChars)
  BY <1>3, SeqMonotonic DEF ScreenChars
<1> QED
  BY <1>1, <1>2, <1>3, <1>4, <1>5, <1>6 DEF IsPart

LEMMA DeleteCharInv == Editing /\ DeleteChar => EditInv'
<1> SUFFICES ASSUME Editing, DeleteChar PROVE EditInv'
  OBVIOUS
<1>1. PICK a : a = writebks(screen, 1)
  OBVIOUS
<1>2. PICK b : b = writeall(a, After)
  OBVIOUS
<1>3. PICK c : c = writespc(b, 1)
  OBVIOUS
<1>4. PICK q : q = edit.posn - 1
  OBVIOUS
<1>5. PICK new : new = SubSeq(edit.line, 1, q) \o After
  OBVIOUS
<1>6. /\ screen' = writebks(c, lineused - edit.posn + 1)
      /\ Changes(new, q, edit.size, edit.histindex) /\ stale' = stale /\ edit.posn > 0
  BY <1>1, <1>2, <1>3, <1>4, <1>5 DEF DeleteChar, Rubbed
<1>7. /\ After \in Seq(Keys) /\ After \in Seq(ScreenChars) /\ Len(After) = lineused - edit.posn
      /\ edit.posn \in Nat /\ lineused \in Nat /\ edit.posn <= lineused /\ stale \in Nat
      /\ edit.size \in Nat /\ lineused < edit.size /\ edit.size >= 2
      /\ edit.histindex \in Nat /\ edit.histindex <= histcount
      /\ edit.line \in Seq(Keys) /\ lineused = Len(edit.line)
  BY ReadingMeans
<1>8. /\ q \in Nat /\ q <= Len(edit.line) /\ q + Len(After) = lineused - 1 /\ q <= lineused
      /\ 1 \in Nat /\ 1 <= edit.posn /\ edit.posn - 1 = q
  <2>1. q = edit.posn - 1 /\ edit.posn > 0 /\ edit.posn \in Nat /\ lineused \in Nat
        /\ edit.posn <= lineused /\ Len(After) = lineused - edit.posn /\ lineused = Len(edit.line)
    BY <1>4, <1>6, <1>7
  <2>2. q \in Nat /\ q <= lineused /\ 1 <= edit.posn
    BY ONLY <2>1
  <2>3. q + Len(After) = lineused - 1
    BY ONLY <2>1
  <2> QED
    BY <2>1, <2>2, <2>3
<1>9. /\ new \in Seq(Keys) /\ new \in Seq(ScreenChars) /\ Len(new) = q + Len(After)
      /\ \A i \in 1 .. q : new[i] = edit.line[i]
      /\ IsPart(After, new, q)
  <2>1. /\ new = Joined(edit.line, q, After) /\ edit.line \in Seq(Keys) /\ q \in Nat
        /\ q <= Len(edit.line) /\ After \in Seq(Keys)
    BY <1>5, <1>7, <1>8 DEF Joined
  <2>2. PICK line : line = edit.line
    OBVIOUS
  <2>3. /\ new = Joined(line, q, After) /\ line \in Seq(Keys) /\ q \in Nat
        /\ q <= Len(line) /\ After \in Seq(Keys)
    BY <2>1, <2>2
  <2>4. PICK text : text = After
    OBVIOUS
  <2>5. /\ new = Joined(line, q, text) /\ line \in Seq(Keys) /\ q \in Nat
        /\ q <= Len(line) /\ text \in Seq(Keys)
    BY <2>3, <2>4
  <2>6. /\ new \in Seq(Keys) /\ new \in Seq(ScreenChars) /\ Len(new) = q + Len(text)
        /\ \A i \in 1 .. q : new[i] = line[i]
        /\ IsPart(text, new, q)
    BY ONLY <2>5, JoinedIs
  <2> QED
    BY ONLY <2>2, <2>4, <2>6
<1>10. /\ a \in Screens /\ a.cursor = q /\ Clear(a, lineused, stale)
       /\ Holds(a, edit.line, lineused)
  BY <1>1, <1>8, BackFirst
<1>11. Holds(a, new, a.cursor)
  BY <1>7, <1>8, <1>9, <1>10 DEF Holds, Screens
<1>12. /\ b = writeall(a, After) /\ a \in Screens /\ new \in Seq(ScreenChars)
       /\ After \in Seq(ScreenChars) /\ IsPart(After, new, a.cursor)
       /\ Len(new) = a.cursor + Len(After) /\ Holds(a, new, a.cursor) /\ lineused \in Nat
       /\ stale \in Nat /\ lineused >= lineused /\ lineused >= Len(new) /\ Clear(a, lineused, stale)
  BY <1>2, <1>7, <1>8, <1>9, <1>10, <1>11
<1>13. /\ b \in Screens /\ Holds(b, new, Len(new)) /\ b.cursor = Len(new)
       /\ Clear(b, lineused, stale)
  BY ONLY <1>12, Written
<1>14. 1 \in Int /\ (Len(new) + 1 >= lineused \/ stale >= lineused)
  BY <1>7, <1>8, <1>9
<1>15. /\ c \in Screens /\ Holds(c, new, Len(new)) /\ Clear(c, Len(new), stale)
       /\ c.cursor = Len(new) + 1
  <2>1. PICK one \in Nat : one = 1
    OBVIOUS
  <2>2. /\ one \in Int /\ (Len(new) + one >= lineused \/ stale >= lineused)
        /\ c = writespc(b, one) /\ one > 0
    BY <1>3, <1>14, <2>1
  <2>3. /\ c \in Screens /\ Holds(c, new, Len(new)) /\ Clear(c, Len(new), stale)
        /\ c.cursor = Len(new) + (IF one > 0 THEN one ELSE 0)
    BY ONLY <1>12, <1>13, <2>2, Erased
  <2> QED
    BY <2>1, <2>2, <2>3
<1>16. PICK back : back = lineused - edit.posn + 1
  OBVIOUS
<1>17. /\ back \in Int /\ back <= c.cursor /\ c.cursor - (IF back > 0 THEN back ELSE 0) = q
  <2>1. /\ back = lineused - edit.posn + 1 /\ edit.posn \in Nat /\ lineused \in Nat
        /\ edit.posn <= lineused /\ q = edit.posn - 1 /\ Len(new) = lineused - 1
        /\ c.cursor = Len(new) + 1 /\ q \in Nat
    BY <1>4, <1>7, <1>8, <1>9, <1>15, <1>16
  <2> QED
    BY ONLY <2>1
<1>18. ShowsAt(screen', new, q, stale)
  BY <1>6, <1>12, <1>15, <1>16, <1>17, BackTo
<1>19. /\ edit' = [edit EXCEPT !.line = new, !.posn = q, !.size = edit.size,
                               !.histindex = edit.histindex]
       /\ UNCHANGED <<history, result>> /\ stale' \in Nat
  BY <1>6, <1>7 DEF Changes
<1>20. q \in 0 .. Len(new) /\ Len(new) < edit.size
  <2>1. Len(new) = lineused - 1
    BY ONLY <1>8, <1>9
  <2>2. q <= lineused - 1
    BY ONLY <1>7, <1>8
  <2> QED
    BY ONLY <1>7, <1>8, <2>1, <2>2
<1>21. ShowsAt(screen', new, q, stale')
  BY <1>6, <1>18
<1> QED
  BY <1>7, <1>9, <1>19, <1>20, <1>21, Edited

LEMMA InsertInv == \A ch \in Keys : Editing /\ Insert(ch) => EditInv'
<1> SUFFICES ASSUME ReadLineAssumption, NEW ch \in Keys, Editing, Insert(ch) PROVE EditInv'
  BY ReadLineAssumption
<1> DEFINE more == <<ch>> \o After
<1>1. PICK b : b = writeall(screen, more)
  OBVIOUS
<1>2. PICK q : q = edit.posn
  OBVIOUS
<1>3. PICK text : text = more
  OBVIOUS
<1>4. PICK new : new = Before \o <<ch>> \o After
  OBVIOUS
<1>5. PICK size \in Grown(edit.size) : Changes(new, edit.posn + 1, size, edit.histindex)
  BY <1>4 DEF Insert
<1>6. /\ screen' = writebks(b, lineused - edit.posn) /\ stale' = stale
  BY <1>1 DEF Insert
<1>7. /\ After \in Seq(Keys) /\ Len(After) = lineused - edit.posn
      /\ Before \in Seq(Keys) /\ Len(Before) = edit.posn
      /\ \A i \in 1 .. edit.posn : Before[i] = edit.line[i]
      /\ edit.posn \in Nat /\ lineused \in Nat /\ edit.posn <= lineused /\ stale \in Nat
      /\ edit.size \in Nat /\ lineused < edit.size /\ edit.size >= 2
      /\ edit.histindex \in Nat /\ edit.histindex <= histcount
      /\ edit.line \in Seq(Keys) /\ edit.line \in Seq(ScreenChars) /\ lineused = Len(edit.line)
      /\ ShowsAt(screen, edit.line, edit.posn, stale) /\ screen \in Screens
  BY ReadingMeans
<1>8. text \in Seq(Keys) /\ Len(text) = 1 + Len(After) /\ new = Before \o text
  <2>1. <<ch>> \in Seq(Keys) /\ Len(<<ch>>) = 1
    OBVIOUS
  <2>2. (Before \o <<ch>>) \o After = Before \o (<<ch>> \o After)
    <3>1. PICK one : one = <<ch>>
      OBVIOUS
    <3>2. one \in Seq(Keys) /\ Before \in Seq(Keys) /\ After \in Seq(Keys)
      BY <1>7, <2>1, <3>1
    <3>3. (Before \o one) \o After = Before \o (one \o After)
      BY ONLY <3>2, ConcatAssociative
    <3> QED
      BY <3>1, <3>3
  <2> QED
    BY <1>3, <1>4, <1>7, <2>1, <2>2, ConcatProperties
<1> HIDE DEF more
<1>9. /\ new \in Seq(Keys) /\ new \in Seq(ScreenChars) /\ Len(new) = q + Len(text)
      /\ \A i \in 1 .. q : new[i] = edit.line[i]
      /\ IsPart(text, new, q) /\ text \in Seq(ScreenChars) /\ q \in Nat
  <2>1. SubSeq(Before, 1, q) = Before
    BY <1>2, <1>7, SubSeqFull
  <2>2. /\ new \in Seq(Keys) /\ new \in Seq(ScreenChars) /\ Len(new) = q + Len(text)
        /\ \A i \in 1 .. q : new[i] = Before[i]
        /\ IsPart(text, new, q)
    <3>1. /\ new = Joined(Before, q, text) /\ Before \in Seq(Keys) /\ q \in Nat
          /\ q <= Len(Before) /\ text \in Seq(Keys)
      <4>1. new = Joined(Before, q, text)
        BY <1>8, <2>1 DEF Joined
      <4> QED
        BY <1>2, <1>7, <1>8, <4>1
    <3>2. PICK line : line = Before
      OBVIOUS
    <3>3. /\ new = Joined(line, q, text) /\ line \in Seq(Keys) /\ q \in Nat
          /\ q <= Len(line) /\ text \in Seq(Keys)
      BY ONLY <3>1, <3>2
    <3>4. /\ new \in Seq(Keys) /\ new \in Seq(ScreenChars) /\ Len(new) = q + Len(text)
          /\ \A i \in 1 .. q : new[i] = line[i]
          /\ IsPart(text, new, q)
      <4>1. PICK joined : joined = Joined(line, q, text)
        OBVIOUS
      <4>2. /\ joined \in Seq(Keys) /\ joined \in Seq(ScreenChars)
            /\ Len(joined) = q + Len(text)
            /\ \A i \in 1 .. q : joined[i] = line[i]
            /\ IsPart(text, joined, q)
        BY ONLY <3>3, <4>1, JoinedIs
      <4>3. joined = new
        BY ONLY <3>3, <4>1
      <4> QED
        BY ONLY <4>2, <4>3
    <3>5. \A i \in 1 .. q : new[i] = Before[i]
      BY ONLY <3>2, <3>4
    <3> QED
      BY ONLY <3>4, <3>5
  <2>3. text \in Seq(ScreenChars)
    BY <1>8, SeqMonotonic DEF ScreenChars
  <2> QED
    BY <1>2, <1>7, <2>2, <2>3
<1>10. /\ screen.cursor = q /\ Clear(screen, lineused, stale)
       /\ Holds(screen, edit.line, lineused)
  BY <1>2, <1>7, ShowsMeans
<1>11. Holds(screen, new, screen.cursor)
  BY <1>2, <1>7, <1>9, <1>10 DEF Holds, Screens
<1>12. PICK n : n = Len(new)
  OBVIOUS
<1>13. /\ b = writeall(screen, text) /\ screen \in Screens /\ new \in Seq(ScreenChars)
       /\ text \in Seq(ScreenChars) /\ IsPart(text, new, screen.cursor)
       /\ Len(new) = screen.cursor + Len(text) /\ Holds(screen, new, screen.cursor) /\ lineused \in Nat
       /\ stale \in Nat /\ n \in Nat /\ n >= lineused /\ n >= Len(new) /\ Clear(screen, lineused, stale)
  <2>1. b = writeall(screen, text)
    BY <1>1, <1>3
  <2>2. n = q + Len(text) /\ Len(text) = 1 + (lineused - q) /\ q \in Nat /\ lineused \in Nat /\ q <= lineused
    BY <1>2, <1>7, <1>8, <1>9, <1>12
  <2>3. n \in Nat /\ n >= lineused
    BY ONLY <2>2
  <2> QED
    BY <1>7, <1>9, <1>10, <1>11, <1>12, <2>1, <2>3
<1>14. /\ b \in Screens /\ Holds(b, new, Len(new)) /\ b.cursor = Len(new) /\ Clear(b, n, stale)
  BY ONLY <1>13, Written
<1>15. PICK back : back = lineused - edit.posn
  OBVIOUS
<1>16. /\ back \in Int /\ back <= b.cursor
       /\ b.cursor - (IF back > 0 THEN back ELSE 0) = edit.posn + 1
       /\ edit.posn + 1 \in 0 .. Len(new) /\ Len(new) = lineused + 1
  <2>1. /\ back = lineused - edit.posn /\ edit.posn \in Nat /\ lineused \in Nat
        /\ edit.posn <= lineused /\ b.cursor = Len(new) /\ Len(new) = edit.posn + (1 + (lineused - edit.posn))
    BY <1>2, <1>7, <1>8, <1>9, <1>14, <1>15
  <2> QED
    BY ONLY <2>1
<1>17. ShowsAt(screen', new, edit.posn + 1, stale)
  BY <1>6, <1>12, <1>13, <1>14, <1>15, <1>16, BackTo
<1>18. size \in Nat /\ size > lineused + 1 /\ size >= 2
  <2>1. Slack \in Nat
    BY DEF ReadLineAssumption
  <2>2. CASE lineused + 2 >= edit.size
    <3>1. PICK half : half = edit.size \div 2
      OBVIOUS
    <3>2. half \in Int /\ half >= 1
      BY <1>7, <3>1
    <3>3. size \in edit.size + half .. edit.size + half + Slack
      BY <1>5, <2>2, <3>1 DEF Grown, Buffers
    <3> QED
      BY <1>7, <2>1, <3>2, <3>3
  <2>3. CASE ~(lineused + 2 >= edit.size)
    <3>1. size = edit.size
      BY <1>5, <2>3 DEF Grown
    <3> QED
      BY <1>7, <2>3, <3>1
  <2> QED
    BY <2>2, <2>3
<1>19. /\ edit' = [edit EXCEPT !.line = new, !.posn = edit.posn + 1, !.size = size,
                               !.histindex = edit.histindex]
       /\ UNCHANGED <<history, result>> /\ stale' \in Nat /\ Len(new) < size
  BY <1>5, <1>6, <1>7, <1>16, <1>18 DEF Changes
<1>20. ShowsAt(screen', new, edit.posn + 1, stale')
  BY <1>6, <1>17
<1> QED
  BY <1>7, <1>9, <1>16, <1>18, <1>19, <1>20, Edited

LEMMA RecalledInv ==
    ASSUME ReadLineAssumption, Editing, NEW index \in Nat, index < histcount, newhistline(index)
    PROVE  EditInv'
<1>1. PICK line : line = history.lines[index + 1]
  OBVIOUS
<1>2. PICK hll : hll = Len(line)
  OBVIOUS
<1>3. PICK a : a = writebks(screen, edit.posn)
  OBVIOUS
<1>4. PICK b : b = writeall(a, line)
  OBVIOUS
<1>5. PICK blanks : blanks = lineused - hll
  OBVIOUS
<1>6. PICK c : c = writespc(b, blanks)
  OBVIOUS
<1>7. PICK size \in IF edit.size < hll + 1 THEN Buffers(hll + 1) ELSE {edit.size} :
         Changes(line, hll, size, index)
  BY <1>1, <1>2 DEF newhistline
<1>8. screen' = writebks(c, blanks) /\ stale' = stale
  BY <1>1, <1>2, <1>3, <1>4, <1>5, <1>6 DEF newhistline
<1>9. /\ edit.posn \in Nat /\ lineused \in Nat /\ edit.posn <= lineused /\ stale \in Nat
      /\ edit.size \in Nat /\ edit.size >= 2 /\ histcount \in Nat /\ index <= histcount
  BY ReadingMeans
<1>10. line \in Seq(Keys) /\ line \in Seq(ScreenChars) /\ hll \in Nat
  <2>1. history.lines \in Seq(Seq(Keys)) /\ index + 1 \in 1 .. Len(history.lines)
    BY <1>9 DEF Editing, EditInv, histcount
  <2>2. line \in Seq(Keys)
    BY <1>1, <2>1, ElementOfSeq
  <2> QED
    BY <1>2, <2>2, SeqMonotonic DEF ScreenChars
<1>11. a \in Screens /\ a.cursor = 0 /\ Clear(a, lineused, stale)
  BY <1>3, <1>9, BackFirst
<1>12. PICK m : m = IF lineused > hll THEN lineused ELSE hll
  OBVIOUS
<1>13. m \in Nat /\ m >= lineused /\ m >= hll /\ (m = lineused \/ m = hll)
  BY <1>9, <1>10, <1>12
<1>14. /\ b = writeall(a, line) /\ a \in Screens /\ line \in Seq(ScreenChars)
       /\ IsPart(line, line, a.cursor) /\ Len(line) = a.cursor + Len(line)
       /\ Holds(a, line, a.cursor) /\ lineused \in Nat /\ stale \in Nat
       /\ m \in Nat /\ m >= lineused /\ m >= Len(line) /\ Clear(a, lineused, stale)
  BY <1>2, <1>4, <1>9, <1>10, <1>11, <1>13 DEF IsPart, Holds, Screens
<1>15. b \in Screens /\ Holds(b, line, Len(line)) /\ b.cursor = Len(line) /\ Clear(b, m, stale)
  BY ONLY <1>14, Written
<1>17. /\ c \in Screens /\ Holds(c, line, Len(line)) /\ Clear(c, Len(line), stale)
       /\ c.cursor = Len(line) + (IF blanks > 0 THEN blanks ELSE 0) /\ blanks \in Int
  <2>1. CASE blanks >= 0
    <3>1. blanks \in Int /\ (Len(line) + blanks >= m \/ stale >= m)
      BY <1>2, <1>5, <1>9, <1>10, <1>13, <2>1
    <3> QED
      BY ONLY <1>6, <1>14, <1>15, <3>1, Erased
  <2>2. CASE ~(blanks >= 0)
    <3>1. blanks \in Int /\ m = Len(line) /\ ~(blanks > 0)
      BY <1>2, <1>5, <1>9, <1>10, <1>13, <2>2
    <3>2. PICK none \in Int : none = 0
      OBVIOUS
    <3>3. writespc(b, blanks) = writespc(b, none)
      <4>1. 1 .. blanks = 1 .. none
        BY <3>1, <3>2, <2>2
      <4> QED
        BY <4>1 DEF writespc
    <3>4. c = writespc(b, none) /\ (Len(line) + none >= m \/ stale >= m) /\ none \in Int /\ ~(none > 0)
      BY <1>2, <1>6, <1>10, <3>1, <3>2, <3>3
    <3>5. /\ c \in Screens /\ Holds(c, line, Len(line)) /\ Clear(c, Len(line), stale)
          /\ c.cursor = Len(line) + (IF none > 0 THEN none ELSE 0)
      BY ONLY <1>14, <1>15, <3>4, Erased
    <3> QED
      BY <3>1, <3>4, <3>5
  <2> QED
    BY <2>1, <2>2
<1>18. blanks <= c.cursor /\ c.cursor - (IF blanks > 0 THEN blanks ELSE 0) = hll
  BY ONLY <1>2, <1>10, <1>17
<1>19. ShowsAt(screen', line, hll, stale)
  BY <1>8, <1>9, <1>10, <1>17, <1>18, BackTo
<1>20. size \in Nat /\ size > hll /\ size >= 2
  <2>1. Slack \in Nat
    BY DEF ReadLineAssumption
  <2>2. CASE edit.size < hll + 1
    <3>1. size \in hll + 1 .. hll + 1 + Slack
      BY <1>7, <2>2 DEF Buffers
    <3> QED
      BY <1>9, <1>10, <2>1, <2>2, <3>1
  <2>3. CASE ~(edit.size < hll + 1)
    <3>1. size = edit.size
      BY <1>7, <2>3
    <3> QED
      BY <1>9, <1>10, <2>3, <3>1
  <2> QED
    BY <2>2, <2>3
<1>21. /\ edit' = [edit EXCEPT !.line = line, !.posn = hll, !.size = size, !.histindex = index]
       /\ UNCHANGED <<history, result>> /\ stale' \in Nat
  BY <1>7, <1>8, <1>9 DEF Changes
<1>22. hll \in 0 .. Len(line) /\ Len(line) < size /\ ShowsAt(screen', line, hll, stale')
  BY <1>2, <1>8, <1>10, <1>19, <1>20
<1> QED
  BY <1>9, <1>10, <1>20, <1>21, <1>22, Edited

LEMMA EmptiedInv ==
    ASSUME Editing, NEW index \in Nat, index <= histcount, ~(index < histcount), newhistline(index)
    PROVE  EditInv'
<1>1. PICK a : a = writebks(screen, edit.posn)
  OBVIOUS
<1>2. PICK b : b = writespc(a, edit.posn)
  OBVIOUS
<1>3. PICK old : old = IF edit.posn < lineused /\ lineused > stale THEN lineused ELSE stale
  OBVIOUS
<1>4. PICK line : line = << >>
  OBVIOUS
<1>5. /\ screen' = writebks(b, edit.posn) /\ stale' = old
      /\ Changes(line, 0, edit.size, index)
  BY <1>1, <1>2, <1>3, <1>4 DEF newhistline
<1>6. /\ edit.posn \in Nat /\ lineused \in Nat /\ edit.posn <= lineused /\ stale \in Nat
      /\ edit.size \in Nat /\ edit.size >= 2
  BY ReadingMeans
<1>7. /\ line \in Seq(Keys) /\ line \in Seq(ScreenChars) /\ Len(line) = 0
  BY <1>4
<1>8. a \in Screens /\ a.cursor = 0 /\ Clear(a, lineused, stale)
  BY <1>1, <1>6, BackFirst
<1>9. old \in Nat /\ old >= stale /\ (edit.posn >= lineused \/ old >= lineused)
  BY <1>3, <1>6
<1>10. Holds(a, line, Len(line)) /\ a.cursor = Len(line) /\ Clear(a, lineused, old)
  <2>1. Len(a.cells) \in Nat
    BY <1>8 DEF Screens
  <2>2. Holds(a, line, Len(line))
    BY <1>7, <2>1 DEF Holds
  <2>3. Clear(a, lineused, old)
    BY <1>6, <1>8, <1>9, <2>1 DEF Clear
  <2> QED
    BY <1>7, <1>8, <2>2, <2>3
<1>11. PICK blanks : blanks = edit.posn
  OBVIOUS
<1>m. PICK m : m = lineused
  OBVIOUS
<1>12. /\ blanks \in Int /\ (Len(line) + blanks >= m \/ old >= m)
       /\ b = writespc(a, blanks) /\ blanks \in Nat /\ a \in Screens /\ m \in Nat /\ old \in Nat
       /\ line \in Seq(ScreenChars) /\ Holds(a, line, Len(line)) /\ a.cursor = Len(line)
       /\ Clear(a, m, old)
  BY <1>2, <1>6, <1>7, <1>8, <1>9, <1>10, <1>11, <1>m
<1>13. /\ b \in Screens /\ Holds(b, line, Len(line)) /\ Clear(b, Len(line), old)
       /\ b.cursor = Len(line) + (IF blanks > 0 THEN blanks ELSE 0)
  BY ONLY <1>12, Erased
<1>14. blanks <= b.cursor /\ b.cursor - (IF blanks > 0 THEN blanks ELSE 0) = 0
  BY ONLY <1>7, <1>12, <1>13
<1>15. ShowsAt(screen', line, 0, old)
  BY <1>5, <1>7, <1>9, <1>11, <1>12, <1>13, <1>14, BackTo
<1>16. /\ edit' = [edit EXCEPT !.line = line, !.posn = 0, !.size = edit.size, !.histindex = index]
       /\ UNCHANGED <<history, result>> /\ stale' \in Nat /\ ShowsAt(screen', line, 0, stale')
  BY <1>5, <1>9, <1>15 DEF Changes
<1>17. 0 \in 0 .. Len(line) /\ Len(line) < edit.size
  BY <1>6, <1>7
<1> QED
  BY <1>6, <1>7, <1>16, <1>17, Edited

LEMMA HistoryInv ==
    ASSUME ReadLineAssumption, Editing, NextLine \/ PrevLine
    PROVE  EditInv'
<1>1. edit.histindex \in Nat /\ histcount \in Nat /\ edit.histindex <= histcount
  BY ReadingMeans
<1>2. PICK index \in Nat : index <= histcount /\ newhistline(index)
  <2>1. CASE NextLine
    <3>1. PICK k : k = edit.histindex + 1
      OBVIOUS
    <3>2. k \in Nat /\ k <= histcount /\ newhistline(k)
      BY <1>1, <2>1, <3>1 DEF NextLine
    <3> QED
      BY <3>2
  <2>2. CASE PrevLine
    <3>1. PICK k : k = edit.histindex - 1
      OBVIOUS
    <3>2. k \in Nat /\ k <= histcount /\ newhistline(k)
      BY <1>1, <2>2, <3>1 DEF PrevLine
    <3> QED
      BY <3>2
  <2> QED
    BY <2>1, <2>2
<1> QED
  BY <1>2, RecalledInv, EmptiedInv

LEMMA PromptInv == ReadLineAssumption /\ EditInv /\ Prompt => EditInv'
<1> SUFFICES ASSUME ReadLineAssumption, EditInv, Prompt PROVE EditInv'
  OBVIOUS
<1>1. PICK size \in Buffers(LINE) :
         edit' = [reading |-> TRUE, line |-> << >>, size |-> size, posn |-> 0,
                  histindex |-> histcount]
  BY DEF Prompt
<1>2. screen' = Blank /\ stale' = 0 /\ result' = NoResult /\ history' = history
  BY DEF Prompt
<1>3. LINE \in Nat /\ LINE >= 2 /\ Slack \in Nat
  BY DEF ReadLineAssumption
<1>4. size \in Nat /\ size >= 2
  BY <1>1, <1>3 DEF Buffers
<1>5. /\ history \in [lines : Seq(Seq(Keys)), alloc : Nat] /\ history.lines \in Seq(Lines)
      /\ history.alloc \in Nat /\ histcount <= history.alloc /\ histcount \in Nat
  BY DEF EditInv, EditorRight, EditTypeOK, histcount
<1>6. /\ edit' \in EditStates /\ edit'.line = << >> /\ edit'.posn = 0 /\ edit'.size = size
      /\ edit'.histindex = histcount /\ edit'.reading = TRUE
  BY <1>1, <1>4, <1>5, EmptySeq DEF EditStates
<1>7. lineused' = 0 /\ histcount' = histcount
  BY <1>2, <1>6 DEF lineused, histcount
<1>8. EditTypeOK'
  BY <1>2, <1>5, <1>6, <1>7, NoLineIs, EmptySeq DEF EditTypeOK, Lines
<1>9. InsideBuffer'
  BY <1>4, <1>6, <1>7 DEF InsideBuffer
<1>10. ScreenShowsLine'
  BY <1>2, <1>6, <1>7, NoLineIs DEF ScreenShowsLine
<1> QED
  BY <1>2, <1>5, <1>6, <1>8, <1>9, <1>10, NoLineIs DEF EditInv, EditorRight

LEMMA ReturnsInv ==
    ASSUME ReadLineAssumption, Editing, Done \/ GivesUp
    PROVE  EditInv'
<1>1. PICK r : Returns(r) /\ r \in [line : Seq(Keys), there : BOOLEAN]
  <2>1. CASE Done
    <3>1. PICK r : r = [line |-> edit.line, there |-> TRUE]
      OBVIOUS
    <3>2. edit.line \in Seq(Keys)
      BY ReadingMeans
    <3>3. r \in [line : Seq(Keys), there : BOOLEAN]
      BY <3>1, <3>2
    <3>4. Returns(r)
      BY <2>1, <3>1 DEF Done
    <3> QED
      BY <3>3, <3>4
  <2>2. CASE GivesUp
    <3>1. NoResult \in [line : Seq(Keys), there : BOOLEAN]
      BY NoLineIs
    <3>2. Returns(NoResult)
      BY <2>2 DEF GivesUp
    <3> QED
      BY <3>1, <3>2
  <2> QED
    BY <2>1, <2>2
<1>2. edit' = NoLine /\ result' = r /\ history' = history /\ screen' = screen /\ stale' = stale
  BY <1>1 DEF Returns
<1>3. /\ history \in [lines : Seq(Seq(Keys)), alloc : Nat] /\ history.lines \in Seq(Lines)
      /\ history.alloc \in Nat /\ histcount <= history.alloc /\ histcount \in Nat
      /\ stale \in Nat /\ screen \in Screens
  BY DEF Editing, EditInv, EditorRight, EditTypeOK, histcount
<1>4. lineused' = 0 /\ histcount' = histcount
  BY <1>2, NoLineIs DEF lineused, histcount
<1>5. EditTypeOK'
  <2>1. edit'.line = << >> /\ edit'.posn = 0 /\ edit'.histindex = 0
    BY <1>2, NoLineIs
  <2>2. result'.line \in Lines /\ edit'.line \in Lines
    BY <1>1, <1>2, <2>1, EmptySeq DEF Lines
  <2> QED
    BY <1>2, <1>3, <1>4, <2>1, <2>2 DEF EditTypeOK
<1>6. InsideBuffer'
  BY <1>2, <1>4, NoLineIs DEF InsideBuffer, ReadLineAssumption
<1>7. ScreenShowsLine'
  BY <1>2, NoLineIs DEF ScreenShowsLine
<1> QED
  BY <1>1, <1>2, <1>3, <1>5, <1>6, <1>7, NoLineIs DEF EditInv, EditorRight

LEMMA SaveInv == EditInv /\ (Save \/ (ReadLineAssumption /\ Forget)) => EditInv'
<1> SUFFICES ASSUME EditInv, Save \/ (ReadLineAssumption /\ Forget) PROVE EditInv'
  OBVIOUS
<1>1. /\ history \in [lines : Seq(Seq(Keys)), alloc : Nat] /\ history.lines \in Seq(Seq(Keys))
      /\ history.alloc \in Nat /\ histcount <= history.alloc /\ histcount \in Nat
      /\ histcount = Len(history.lines) /\ edit.histindex <= histcount /\ edit.histindex \in Nat
      /\ result \in [line : Seq(Keys), there : BOOLEAN] /\ edit \in EditStates
  BY DEF EditInv, EditorRight, EditTypeOK, Lines, histcount
<1>2. edit' = edit /\ screen' = screen /\ stale' = stale
  BY DEF Save, Forget
<1>3. /\ history' \in [lines : Seq(Seq(Keys)), alloc : Nat] /\ history'.lines \in Seq(Lines)
      /\ history'.alloc \in Nat /\ histcount' <= history'.alloc /\ edit'.histindex <= histcount'
      /\ result' \in [line : Seq(Keys), there : BOOLEAN]
  <2>1. CASE Save
    <3>1. PICK alloc : alloc = IF histcount >= history.alloc
                                 THEN history.alloc + history.alloc \div 2 + 2 ELSE history.alloc
      OBVIOUS
    <3>2. PICK lines : lines = Append(history.lines, result.line)
      OBVIOUS
    <3>3. history' = [lines |-> lines, alloc |-> alloc] /\ result' = NoResult
      BY <2>1, <3>1, <3>2 DEF Save
    <3>4. lines \in Seq(Seq(Keys)) /\ Len(lines) = histcount + 1
      BY <1>1, <3>2, AppendProperties
    <3>5. alloc \in Nat /\ histcount + 1 <= alloc
      <4>1. PICK half : half = history.alloc \div 2
        OBVIOUS
      <4>2. half \in Nat
        BY <1>1, <4>1
      <4>3. alloc = IF histcount >= history.alloc THEN history.alloc + half + 2 ELSE history.alloc
        BY <3>1, <4>1
      <4> QED
        BY <1>1, <4>2, <4>3
    <3>6. history'.lines = lines /\ history'.alloc = alloc /\ histcount' = histcount + 1
      BY <3>3, <3>4 DEF histcount
    <3>7. NoResult \in [line : Seq(Keys), there : BOOLEAN]
      BY EmptySeq DEF NoResult
    <3> QED
      BY <1>1, <1>2, <3>3, <3>4, <3>5, <3>6, <3>7 DEF Lines
  <2>2. CASE ReadLineAssumption /\ Forget
    <3>1. history' = [lines |-> << >>, alloc |-> 0] /\ result' = result /\ ~edit.reading
      BY <2>2 DEF Forget
    <3>2. edit.histindex = 0
      BY <2>2, <3>1, NoLineIs DEF EditInv
    <3>3. history'.lines = << >> /\ history'.alloc = 0 /\ histcount' = 0
      BY <3>1 DEF histcount
    <3> QED
      BY <1>1, <1>2, <3>1, <3>2, <3>3, EmptySeq DEF Lines
  <2> QED
    BY <2>1, <2>2
<1>4. result'.line \in Lines
  BY <1>3 DEF Lines
<1>5. lineused' = lineused
  BY <1>2 DEF lineused
<1>6. EditTypeOK'
  BY <1>2, <1>3, <1>4, <1>5 DEF EditInv, EditorRight, EditTypeOK
<1>7. InsideBuffer' /\ ScreenShowsLine'
  BY <1>2, <1>5 DEF EditInv, EditorRight, InsideBuffer, ScreenShowsLine
<1> QED
  BY <1>2, <1>3, <1>6, <1>7 DEF EditInv, EditorRight

LEMMA EditStepInv == ReadLineAssumption /\ EditInv /\ [EditNext]_editVars => EditInv'
<1> SUFFICES ASSUME ReadLineAssumption, EditInv, [EditNext]_editVars PROVE EditInv'
  OBVIOUS
<1>1. ASSUME EditNext PROVE EditInv'
  <2>1. Prompt => EditInv'
    BY PromptInv
  <2>2. LineBegin \/ LineEnd \/ Left \/ Right => EditInv'
    BY LineBeginInv, LineEndInv, LeftInv, RightInv DEF Editing, LineBegin, LineEnd, Left, Right
  <2>3. DeleteBefore \/ DeleteChar => EditInv'
    BY DeleteBeforeInv, DeleteCharInv DEF Editing, DeleteBefore, DeleteChar
  <2>4. \A ch \in Keys : Insert(ch) => EditInv'
    <3> SUFFICES ASSUME NEW ch \in Keys, Insert(ch) PROVE EditInv'
      OBVIOUS
    <3>1. Editing
      BY DEF Editing, Insert
    <3> QED
      BY <3>1, InsertInv
  <2>5. NextLine \/ PrevLine => EditInv'
    BY HistoryInv DEF Editing, NextLine, PrevLine
  <2>6. Done \/ GivesUp => EditInv'
    BY ReturnsInv DEF Editing, Done, GivesUp
  <2>7. Save \/ Forget => EditInv'
    <3>1. Save => EditInv'
      BY SaveInv
    <3>2. Forget => EditInv'
      BY SaveInv
    <3> QED
      BY <3>1, <3>2
  <2> QED
    BY <1>1, <2>1, <2>2, <2>3, <2>4, <2>5, <2>6, <2>7 DEF EditNext
<1>2. ASSUME UNCHANGED editVars PROVE EditInv'
  <2>1. /\ history' = history /\ edit' = edit /\ result' = result /\ screen' = screen
        /\ stale' = stale
    BY <1>2 DEF editVars
  <2>2. lineused' = lineused /\ histcount' = histcount
    BY <2>1 DEF lineused, histcount
  <2> QED
    BY <2>1, <2>2 DEF EditInv, EditorRight, EditTypeOK, InsideBuffer, ScreenShowsLine
<1> QED
  BY <1>1, <1>2

(***************************************************************************)
(* ReadLine edits any line, of any characters, with any keys in any order, *)
(* any history and any buffers malloc gives: the line and its zero fit     *)
(* their buffer, and the terminal shows the line with the cursor where the *)
(* next key acts and nothing behind it but what newhistline has left.      *)
(***************************************************************************)
THEOREM EditorIsRight == EditSpec => []EditorRight
<1>1. EditInit => EditInv
  BY EditInitInv, ReadLineAssumption
<1>2. EditInv /\ [EditNext]_editVars => EditInv'
  BY EditStepInv, ReadLineAssumption
<1>3. EditInv => EditorRight
  BY DEF EditInv
<1> QED
  BY <1>1, <1>2, <1>3, PTL DEF EditSpec

-------------------------------------------------------------------------------
(* The element at i, by its key, and the ranges qsort has yet to sort.     *)
KeyAt(s, i) == s.key[s.elem[i]]
Ranges == [beg : Int, end : Int]
SortStates(n) ==
    [at : {"resort", "up", "down", "bubble", "sorted"}, key : [0 .. n - 1 -> SortKeys],
     elem : [0 .. n - 1 -> 0 .. n - 1], pending : Seq(Ranges), beg : Int, end : Int,
     bbb : Int, eee : Int]
OneToOne(s, n) == \A i, j \in 0 .. n - 1 : s.elem[i] = s.elem[j] => i = j

(* The range that is being sorted is left of all the others, the innermost *)
(* leftmost, and none of them overlap.                                     *)
RangesApart(s, n) ==
    /\ s.at # "sorted" => 0 <= s.beg /\ s.end < n
    /\ s.at = "sorted" => s.pending = << >>
    /\ \A p \in DOMAIN s.pending :
          s.end < s.pending[p].beg /\ 0 <= s.pending[p].beg /\ s.pending[p].end < n
    /\ \A p, q \in DOMAIN s.pending : p < q => s.pending[q].end < s.pending[p].beg

(* Any two elements are in order or are both in one of the ranges.         *)
Within(s, i, j) ==
    \/ s.at # "sorted" /\ s.beg <= i /\ j <= s.end
    \/ \E p \in DOMAIN s.pending : s.pending[p].beg <= i /\ j <= s.pending[p].end
FarInOrder(s, n) ==
    \A i, j \in 0 .. n - 1 : i < j => KeyAt(s, i) <= KeyAt(s, j) \/ Within(s, i, j)

(* Around the pivot, at end: what bbb has passed is not above it, what eee *)
(* has passed not below.                                                   *)
Partitioned(s) ==
    s.at \in {"up", "down"} =>
        /\ s.beg <= s.bbb /\ s.bbb <= s.end /\ s.eee < s.end /\ s.bbb <= s.eee + 1
        /\ \A i \in s.beg .. s.bbb - 1 : KeyAt(s, i) <= KeyAt(s, s.end)
        /\ \A i \in s.eee + 1 .. s.end - 1 : KeyAt(s, i) >= KeyAt(s, s.end)
        /\ s.at = "up" =>
              s.eee = s.end - 1 \/ (s.bbb <= s.eee /\ KeyAt(s, s.eee) > KeyAt(s, s.end))
        /\ s.at = "down" => s.bbb <= s.eee /\ KeyAt(s, s.bbb) > KeyAt(s, s.end)
(* What is behind eee is in its place, and the greatest so far is at bbb.  *)
BubbledUp(s) ==
    s.at = "bubble" =>
        /\ s.beg <= s.bbb /\ s.bbb < s.eee /\ s.eee <= s.end
        /\ \A j \in s.eee + 1 .. s.end : \A i \in s.beg .. j - 1 : KeyAt(s, i) <= KeyAt(s, j)
        /\ \A i \in s.beg .. s.bbb - 1 : KeyAt(s, i) <= KeyAt(s, s.bbb)

SortState(s, n) ==
    /\ s \in SortStates(n) /\ OneToOne(s, n) /\ RangesApart(s, n) /\ FarInOrder(s, n)
    /\ Partitioned(s) /\ BubbledUp(s)
SortInv == sort = NotSorting \/ \E n \in 0 .. MaxSort : SortState(sort, n)

(* How a step from s to t may move elements: only within the range.        *)
Reordered(s, t, n) ==
    /\ t.key = s.key /\ t.elem \in [0 .. n - 1 -> 0 .. n - 1] /\ OneToOne(t, n)
    /\ \A i \in 0 .. n - 1 : ~(s.beg <= i /\ i <= s.end) => t.elem[i] = s.elem[i]
    /\ \A i \in 0 .. n - 1 : s.beg <= i /\ i <= s.end =>
          \E k \in 0 .. n - 1 : s.beg <= k /\ k <= s.end /\ t.elem[i] = s.elem[k]
(* The pending ranges are still to be sorted.                              *)
StillPending(s, t, n) ==
    \A p \in DOMAIN s.pending : \A i, j \in 0 .. n - 1 :
        s.pending[p].beg <= i /\ j <= s.pending[p].end => Within(t, i, j)
(* The elements of the range are in order or yet to be.                    *)
OrderedInside(s, t, n) ==
    \A i, j \in 0 .. n - 1 :
        s.beg <= i /\ i < j /\ j <= s.end => KeyAt(t, i) <= KeyAt(t, j) \/ Within(t, i, j)
AllOrdered(s, n) ==
    \A i, j \in 0 .. n - 1 :
        s.beg <= i /\ i < j /\ j <= s.end => KeyAt(s, i) <= KeyAt(s, j)
(* t has the elements of s with two exchanged.                             *)
Swapped(s, t, i, j, n) ==
    /\ t.key = s.key /\ t.elem \in [0 .. n - 1 -> 0 .. n - 1] /\ OneToOne(t, n)
    /\ t.elem[i] = s.elem[j] /\ t.elem[j] = s.elem[i]
    /\ \A k \in 0 .. n - 1 : k # i /\ k # j => t.elem[k] = s.elem[k]

LEMMA KeyIsInt ==
    ASSUME NEW n \in Nat, NEW s, s.key \in [0 .. n - 1 -> SortKeys],
           s.elem \in [0 .. n - 1 -> 0 .. n - 1], NEW i \in 0 .. n - 1
    PROVE  KeyAt(s, i) \in Int
<1>1. s.elem[i] \in 0 .. n - 1
  OBVIOUS
<1>2. s.key[s.elem[i]] \in SortKeys
  BY <1>1
<1>3. QED
  BY <1>2, CLibAssumption DEF CLibAssumption, KeyAt

(* Elements of the range are in order with those outside of it.            *)
LEMMA OutsideInOrder ==
    ASSUME NEW n \in Nat, NEW s, s \in SortStates(n), RangesApart(s, n), FarInOrder(s, n),
           s.at # "sorted", NEW i \in 0 .. n - 1, NEW k \in 0 .. n - 1, i < k,
           \/ i < s.beg /\ s.beg <= k /\ k <= s.end
           \/ s.beg <= i /\ i <= s.end /\ s.end < k
    PROVE  KeyAt(s, i) <= KeyAt(s, k)
<1>1. s.beg \in Int /\ s.end \in Int
  BY DEF SortStates
<1>2. ASSUME NEW p \in DOMAIN s.pending
      PROVE  s.pending[p].beg \in Int /\ s.pending[p].end \in Int /\ s.end < s.pending[p].beg
  <2>1. s.pending[p] \in Ranges
    BY <1>2 DEF SortStates
  <2>2. QED
    BY <2>1, <1>2 DEF Ranges, RangesApart
<1>3. ~Within(s, i, k)
  <2>1. ~(s.beg <= i /\ k <= s.end)
    BY <1>1
  <2>2. ASSUME NEW p \in DOMAIN s.pending
        PROVE  ~(s.pending[p].beg <= i /\ k <= s.pending[p].end)
    BY <1>1, <1>2
  <2>3. QED
    BY <2>1, <2>2 DEF Within
<1>4. QED
  BY <1>3 DEF FarInOrder

(* A step that moves elements within the range keeps the array in order    *)
(* when it leaves the range and the pending ones in order or to be sorted. *)
LEMMA StepInOrder ==
    ASSUME NEW n \in Nat, NEW s, s \in SortStates(n), RangesApart(s, n), FarInOrder(s, n),
           s.at # "sorted", NEW t, Reordered(s, t, n), StillPending(s, t, n),
           OrderedInside(s, t, n)
    PROVE  FarInOrder(t, n)
<1> SUFFICES ASSUME NEW i \in 0 .. n - 1, NEW j \in 0 .. n - 1, i < j
             PROVE  KeyAt(t, i) <= KeyAt(t, j) \/ Within(t, i, j)
  BY DEF FarInOrder
<1>1. s.beg \in Int /\ s.end \in Int
  BY DEF SortStates
<1> DEFINE In(k) == s.beg <= k /\ k <= s.end
<1>2. \A k, l \in 0 .. n - 1 : t.elem[k] = s.elem[l] => KeyAt(t, k) = KeyAt(s, l)
  BY DEF Reordered, KeyAt
<1>3. CASE In(i) /\ In(j)
  BY <1>3 DEF OrderedInside
<1>4. CASE ~In(i) /\ ~In(j)
  <2>1. KeyAt(t, i) = KeyAt(s, i) /\ KeyAt(t, j) = KeyAt(s, j)
    BY <1>2, <1>4 DEF Reordered
  <2>2. CASE KeyAt(s, i) <= KeyAt(s, j)
    BY <2>1, <2>2
  <2>3. CASE Within(s, i, j)
    <3>1. ~(s.beg <= i /\ j <= s.end)
      BY <1>1, <1>4
    <3>2. PICK p \in DOMAIN s.pending : s.pending[p].beg <= i /\ j <= s.pending[p].end
      BY <2>3, <3>1 DEF Within
    <3>3. QED
      BY <3>2 DEF StillPending
  <2>4. QED
    BY <2>2, <2>3 DEF FarInOrder
<1>5. CASE ~In(i) /\ In(j)
  <2>1. PICK k \in 0 .. n - 1 : In(k) /\ t.elem[j] = s.elem[k]
    BY <1>5 DEF Reordered
  <2>2. KeyAt(t, j) = KeyAt(s, k) /\ KeyAt(t, i) = KeyAt(s, i)
    BY <1>2, <2>1, <1>5 DEF Reordered
  <2>3. i < s.beg /\ i < k
    BY <1>1, <1>5, <2>1
  <2>4. KeyAt(s, i) <= KeyAt(s, k)
    BY <2>1, <2>3, OutsideInOrder
  <2>5. QED
    BY <2>2, <2>4
<1>6. CASE In(i) /\ ~In(j)
  <2>1. PICK k \in 0 .. n - 1 : In(k) /\ t.elem[i] = s.elem[k]
    BY <1>6 DEF Reordered
  <2>2. KeyAt(t, i) = KeyAt(s, k) /\ KeyAt(t, j) = KeyAt(s, j)
    BY <1>2, <2>1, <1>6 DEF Reordered
  <2>3. s.end < j /\ k < j
    BY <1>1, <1>6, <2>1
  <2>4. KeyAt(s, k) <= KeyAt(s, j)
    BY <2>1, <2>3, OutsideInOrder
  <2>5. QED
    BY <2>2, <2>4
<1>7. QED
  BY <1>3, <1>4, <1>5, <1>6

LEMMA SameReordered ==
    ASSUME NEW n \in Nat, NEW s, s \in SortStates(n), OneToOne(s, n), NEW t,
           t.key = s.key, t.elem = s.elem
    PROVE  Reordered(s, t, n) /\ OneToOne(t, n)
BY DEF Reordered, OneToOne, SortStates

LEMMA SwapSwaps ==
    ASSUME NEW n \in Nat, NEW s, s \in SortStates(n), OneToOne(s, n), NEW t,
           NEW i \in 0 .. n - 1, NEW j \in 0 .. n - 1, t.key = s.key,
           t.elem = [s.elem EXCEPT ![i] = s.elem[j], ![j] = s.elem[i]]
    PROVE  Swapped(s, t, i, j, n)
<1>1. s.elem \in [0 .. n - 1 -> 0 .. n - 1]
  BY DEF SortStates
<1>2. t.elem \in [0 .. n - 1 -> 0 .. n - 1]
  BY <1>1
<1>3. \A k \in 0 .. n - 1 :
         t.elem[k] = IF k = j THEN s.elem[i] ELSE IF k = i THEN s.elem[j] ELSE s.elem[k]
  BY <1>1
<1>4. \A k, l \in 0 .. n - 1 : s.elem[k] = s.elem[l] => k = l
  BY DEF OneToOne
<1>5. OneToOne(t, n)
  <2> SUFFICES ASSUME NEW k \in 0 .. n - 1, NEW l \in 0 .. n - 1, t.elem[k] = t.elem[l]
               PROVE  k = l
    BY DEF OneToOne
  <2>1. QED
    BY <1>3, <1>4
<1>6. t.elem[i] = s.elem[j] /\ t.elem[j] = s.elem[i]
  BY <1>3
<1>7. \A k \in 0 .. n - 1 : k # i /\ k # j => t.elem[k] = s.elem[k]
  BY <1>3
<1>8. QED
  BY <1>2, <1>5, <1>6, <1>7 DEF Swapped

LEMMA SwappedReordered ==
    ASSUME NEW n \in Nat, NEW s, NEW t, NEW i \in 0 .. n - 1, NEW j \in 0 .. n - 1,
           Swapped(s, t, i, j, n), s.beg <= i, i <= s.end, s.beg <= j, j <= s.end
    PROVE  Reordered(s, t, n)
<1>1. \A k \in 0 .. n - 1 : ~(s.beg <= k /\ k <= s.end) => t.elem[k] = s.elem[k]
  BY DEF Swapped
<1>2. ASSUME NEW k \in 0 .. n - 1, s.beg <= k, k <= s.end
      PROVE  \E l \in 0 .. n - 1 : s.beg <= l /\ l <= s.end /\ t.elem[k] = s.elem[l]
  <2>1. CASE k = i
    BY <2>1 DEF Swapped
  <2>2. CASE k = j
    BY <2>2 DEF Swapped
  <2>3. CASE k # i /\ k # j
    BY <2>3, <1>2 DEF Swapped
  <2>4. QED
    BY <2>1, <2>2, <2>3
<1>3. QED
  BY <1>1, <1>2 DEF Swapped, Reordered

LEMMA SwappedKeys ==
    ASSUME NEW n \in Nat, NEW s, NEW t, NEW i \in 0 .. n - 1, NEW j \in 0 .. n - 1,
           Swapped(s, t, i, j, n)
    PROVE  /\ KeyAt(t, i) = KeyAt(s, j) /\ KeyAt(t, j) = KeyAt(s, i)
           /\ \A k \in 0 .. n - 1 : k # i /\ k # j => KeyAt(t, k) = KeyAt(s, k)
BY DEF Swapped, KeyAt

(* The ranges that are pending in both states.                             *)
LEMMA SamePending ==
    ASSUME NEW n \in Nat, NEW s, NEW t, t.pending = s.pending
    PROVE  StillPending(s, t, n)
BY DEF StillPending, Within

LEMMA RangeIsRange ==
    ASSUME NEW n \in Nat, NEW s, s \in SortStates(n), NEW p \in DOMAIN s.pending
    PROVE  s.pending[p] \in Ranges /\ s.pending[p].beg \in Int /\ s.pending[p].end \in Int
<1>1. s.pending[p] \in Ranges
  BY DEF SortStates
<1>2. QED
  BY <1>1 DEF Ranges

(* A range in order is left: the innermost pending one is next.            *)
LEMMA ReturnedState ==
    ASSUME NEW n \in Nat, NEW s, s \in SortStates(n), OneToOne(s, n), RangesApart(s, n),
           FarInOrder(s, n), s.at # "sorted", AllOrdered(s, n), NEW t, t = Returned(s)
    PROVE  SortState(t, n)
<1>1. CASE s.pending = << >>
  <2>1. t = [s EXCEPT !.at = "sorted"]
    BY <1>1 DEF Returned
  <2>2. t \in SortStates(n) /\ t.at = "sorted" /\ t.pending = << >>
        /\ t.key = s.key /\ t.elem = s.elem /\ t.beg = s.beg /\ t.end = s.end
    BY <2>1, <1>1 DEF SortStates
  <2>3. Reordered(s, t, n) /\ OneToOne(t, n)
    BY <2>2, SameReordered
  <2>4. StillPending(s, t, n)
    BY <1>1, <2>2, SamePending
  <2>5. OrderedInside(s, t, n)
    BY <2>2 DEF AllOrdered, OrderedInside, KeyAt
  <2>6. FarInOrder(t, n)
    BY <2>3, <2>4, <2>5, StepInOrder
  <2>7. RangesApart(t, n)
    BY <2>2 DEF RangesApart
  <2>8. Partitioned(t) /\ BubbledUp(t)
    BY <2>2 DEF Partitioned, BubbledUp
  <2>9. QED
    BY <2>2, <2>3, <2>6, <2>7, <2>8 DEF SortState
<1>2. CASE s.pending # << >>
  <2>1. PICK m : m = Len(s.pending)
    OBVIOUS
  <2>2. s.pending \in Seq(Ranges)
    BY DEF SortStates
  <2>3. m \in Nat /\ m > 0 /\ m \in DOMAIN s.pending /\ DOMAIN s.pending = 1 .. m
    BY <1>2, <2>1, <2>2
  <2>4. PICK r : r = s.pending[m]
    OBVIOUS
  <2>5. r \in Ranges /\ r.beg \in Int /\ r.end \in Int
    BY <2>3, <2>4, RangeIsRange
  <2>6. PICK rest : rest = SubSeq(s.pending, 1, m - 1)
    OBVIOUS
  <2>7. /\ rest \in Seq(Ranges) /\ DOMAIN rest = 1 .. m - 1
        /\ \A p \in 1 .. m - 1 : rest[p] = s.pending[p]
    BY <2>2, <2>3, <2>1, <2>6
  <2>8. t = [s EXCEPT !.at = "resort", !.beg = r.beg, !.end = r.end, !.pending = rest]
    BY <1>2, <2>1, <2>4, <2>6 DEF Returned
  <2>9. /\ t \in SortStates(n) /\ t.at = "resort" /\ t.pending = rest
        /\ t.key = s.key /\ t.elem = s.elem /\ t.beg = r.beg /\ t.end = r.end
    BY <2>8, <2>7, <2>5 DEF SortStates
  <2>10. Reordered(s, t, n) /\ OneToOne(t, n)
    BY <2>9, SameReordered
  <2>11. StillPending(s, t, n)
    <3> SUFFICES ASSUME NEW p \in DOMAIN s.pending, NEW i \in 0 .. n - 1, NEW j \in 0 .. n - 1,
                        s.pending[p].beg <= i, j <= s.pending[p].end
                 PROVE  Within(t, i, j)
      BY DEF StillPending
    <3>1. CASE p = m
      BY <3>1, <2>4, <2>9 DEF Within
    <3>2. CASE p # m
      <4>1. p \in 1 .. m - 1
        BY <3>2, <2>3
      <4>2. p \in DOMAIN t.pending /\ t.pending[p] = s.pending[p]
        BY <4>1, <2>7, <2>9
      <4>3. QED
        BY <4>2 DEF Within
    <3>3. QED
      BY <3>1, <3>2
  <2>12. OrderedInside(s, t, n)
    BY <2>9 DEF AllOrdered, OrderedInside, KeyAt
  <2>13. FarInOrder(t, n)
    BY <2>10, <2>11, <2>12, StepInOrder
  <2>14. RangesApart(t, n)
    <3>1. 0 <= t.beg /\ t.end < n
      BY <2>3, <2>4, <2>9 DEF RangesApart
    <3>2. ASSUME NEW p \in DOMAIN t.pending
          PROVE  /\ t.end < t.pending[p].beg /\ 0 <= t.pending[p].beg /\ t.pending[p].end < n
      <4>1. p \in 1 .. m - 1
        BY <3>2, <2>9, <2>7
      <4>2. p \in DOMAIN s.pending /\ p < m /\ t.pending[p] = s.pending[p]
        BY <4>1, <2>3, <2>7, <2>9
      <4>3. QED
        BY <4>2, <2>3, <2>4, <2>9 DEF RangesApart
    <3>3. ASSUME NEW p \in DOMAIN t.pending, NEW q \in DOMAIN t.pending, p < q
          PROVE  t.pending[q].end < t.pending[p].beg
      <4>1. p \in 1 .. m - 1 /\ q \in 1 .. m - 1
        BY <3>3, <2>9, <2>7
      <4>2. /\ p \in DOMAIN s.pending /\ t.pending[p] = s.pending[p]
            /\ q \in DOMAIN s.pending /\ t.pending[q] = s.pending[q]
        BY <4>1, <2>3, <2>7, <2>9
      <4>3. QED
        BY <4>2, <3>3 DEF RangesApart
    <3>4. QED
      BY <3>1, <3>2, <3>3, <2>9 DEF RangesApart
  <2>15. Partitioned(t) /\ BubbledUp(t)
    BY <2>9 DEF Partitioned, BubbledUp
  <2>16. QED
    BY <2>9, <2>10, <2>13, <2>14, <2>15 DEF SortState
<1>3. QED
  BY <1>1, <1>2

(* A step that goes on with the same array.                                *)
LEMMA SameArray ==
    ASSUME NEW n \in Nat, NEW s, SortState(s, n), s.at # "sorted", NEW t,
           t \in SortStates(n), t.key = s.key, t.elem = s.elem, t.pending = s.pending,
           t.at # "sorted", t.beg = s.beg, t.end = s.end
    PROVE  OneToOne(t, n) /\ RangesApart(t, n) /\ FarInOrder(t, n)
<1>1. OneToOne(t, n)
  BY DEF SortState, OneToOne
<1>2. RangesApart(t, n)
  BY DEF SortState, RangesApart
<1>3. FarInOrder(t, n)
  BY DEF SortState, FarInOrder, KeyAt, Within
<1>4. QED
  BY <1>1, <1>2, <1>3

LEMMA ResortKeeps ==
    ASSUME NEW n \in Nat, NEW s, SortState(s, n), s.at = "resort", NEW t,
           t = IF s.end > s.beg + 3
                 THEN [s EXCEPT !.at = "up", !.bbb = s.beg, !.eee = s.end - 1]
               ELSE IF s.end > s.beg
                 THEN [s EXCEPT !.at = "bubble", !.bbb = s.beg, !.eee = s.end]
               ELSE Returned(s)
    PROVE  SortState(t, n)
<1>1. s \in SortStates(n) /\ s.beg \in Int /\ s.end \in Int
  BY DEF SortState, SortStates
<1>2. CASE s.end > s.beg + 3
  <2>0. PICK e \in Int : e = s.end - 1
    BY <1>1
  <2>1. t = [s EXCEPT !.at = "up", !.bbb = s.beg, !.eee = e]
    BY <1>2, <2>0
  <2>2. /\ t \in SortStates(n) /\ t.at = "up" /\ t.key = s.key /\ t.elem = s.elem
        /\ t.pending = s.pending /\ t.beg = s.beg /\ t.end = s.end
        /\ t.bbb = s.beg /\ t.eee = e
    BY <1>1, <2>1 DEF SortStates
  <2>3. OneToOne(t, n) /\ RangesApart(t, n) /\ FarInOrder(t, n)
    BY <2>2, SameArray
  <2>4. Partitioned(t) /\ BubbledUp(t)
    BY <1>1, <1>2, <2>0, <2>2 DEF Partitioned, BubbledUp
  <2>5. QED
    BY <2>2, <2>3, <2>4 DEF SortState
<1>3. CASE ~(s.end > s.beg + 3) /\ s.end > s.beg
  <2>1. t = [s EXCEPT !.at = "bubble", !.bbb = s.beg, !.eee = s.end]
    BY <1>3
  <2>2. /\ t \in SortStates(n) /\ t.at = "bubble" /\ t.key = s.key /\ t.elem = s.elem
        /\ t.pending = s.pending /\ t.beg = s.beg /\ t.end = s.end
        /\ t.bbb = s.beg /\ t.eee = s.end
    BY <1>1, <2>1 DEF SortStates
  <2>3. OneToOne(t, n) /\ RangesApart(t, n) /\ FarInOrder(t, n)
    BY <2>2, SameArray
  <2>4. Partitioned(t) /\ BubbledUp(t)
    BY <1>1, <1>3, <2>2 DEF Partitioned, BubbledUp
  <2>5. QED
    BY <2>2, <2>3, <2>4 DEF SortState
<1>4. CASE ~(s.end > s.beg + 3) /\ ~(s.end > s.beg)
  <2>1. t = Returned(s)
    BY <1>4
  <2>2. AllOrdered(s, n)
    BY <1>1, <1>4 DEF AllOrdered
  <2>3. OneToOne(s, n) /\ RangesApart(s, n) /\ FarInOrder(s, n)
    BY DEF SortState
  <2>4. QED
    BY <1>1, <2>1, <2>2, <2>3, ReturnedState
<1>5. QED
  BY <1>2, <1>3, <1>4

(* What the invariant says of a state with bbb and eee on their way.       *)
LEMMA WayIs ==
    ASSUME NEW n \in Nat, NEW s, SortState(s, n), s.at \in {"up", "down"}
    PROVE  /\ s \in SortStates(n) /\ s.beg \in Int /\ s.end \in Int /\ s.bbb \in Int
           /\ s.eee \in Int /\ 0 <= s.beg /\ s.end < n /\ s.end \in 0 .. n - 1
           /\ s.beg <= s.bbb /\ s.bbb <= s.end /\ s.eee < s.end /\ s.bbb <= s.eee + 1
           /\ s.bbb \in 0 .. n - 1
           /\ \A i \in s.beg .. s.bbb - 1 : KeyAt(s, i) <= KeyAt(s, s.end)
           /\ \A i \in s.eee + 1 .. s.end - 1 : KeyAt(s, i) >= KeyAt(s, s.end)
           /\ s.at = "up" =>
                 s.eee = s.end - 1 \/ (s.bbb <= s.eee /\ KeyAt(s, s.eee) > KeyAt(s, s.end))
           /\ s.at = "down" =>
                 s.bbb <= s.eee /\ s.eee \in 0 .. n - 1 /\ KeyAt(s, s.bbb) > KeyAt(s, s.end)
           /\ \A i \in 0 .. n - 1 : KeyAt(s, i) \in Int
<1>1. s \in SortStates(n) /\ s.beg \in Int /\ s.end \in Int /\ s.bbb \in Int /\ s.eee \in Int
  BY DEF SortState, SortStates
<1>2. 0 <= s.beg /\ s.end < n
  BY DEF SortState, RangesApart
<1>3. /\ s.beg <= s.bbb /\ s.bbb <= s.end /\ s.eee < s.end /\ s.bbb <= s.eee + 1
      /\ \A i \in s.beg .. s.bbb - 1 : KeyAt(s, i) <= KeyAt(s, s.end)
      /\ \A i \in s.eee + 1 .. s.end - 1 : KeyAt(s, i) >= KeyAt(s, s.end)
      /\ s.at = "up" =>
            s.eee = s.end - 1 \/ (s.bbb <= s.eee /\ KeyAt(s, s.eee) > KeyAt(s, s.end))
      /\ s.at = "down" => s.bbb <= s.eee /\ KeyAt(s, s.bbb) > KeyAt(s, s.end)
  BY DEF SortState, Partitioned
<1>4. s.end \in 0 .. n - 1 /\ s.bbb \in 0 .. n - 1
  BY <1>1, <1>2, <1>3
<1>5. s.at = "down" => s.eee \in 0 .. n - 1
  BY <1>1, <1>2, <1>3
<1>6. ASSUME NEW i \in 0 .. n - 1 PROVE KeyAt(s, i) \in Int
  <2>1. s.key \in [0 .. n - 1 -> SortKeys] /\ s.elem \in [0 .. n - 1 -> 0 .. n - 1]
    BY <1>1 DEF SortStates
  <2>2. QED
    BY <2>1, KeyIsInt
<1>7. QED
  BY <1>1, <1>2, <1>3, <1>4, <1>5, <1>6

LEMMA GoesUpKeeps ==
    ASSUME NEW n \in Nat, NEW s, SortState(s, n), s.at = "up", NEW t,
           t = IF s.bbb = s.end
                 THEN [s EXCEPT !.at = "resort", !.end = @ - 1]
               ELSE IF KeyAt(s, s.bbb) - KeyAt(s, s.end) <= 0
                 THEN [s EXCEPT !.bbb = @ + 1]
               ELSE [s EXCEPT !.at = "down"]
    PROVE  SortState(t, n)
<1>1. /\ s \in SortStates(n) /\ s.beg \in Int /\ s.end \in Int /\ s.bbb \in Int
      /\ s.eee \in Int /\ 0 <= s.beg /\ s.end < n /\ s.end \in 0 .. n - 1
      /\ s.beg <= s.bbb /\ s.bbb <= s.end /\ s.eee < s.end /\ s.bbb <= s.eee + 1
      /\ s.bbb \in 0 .. n - 1
      /\ \A i \in s.beg .. s.bbb - 1 : KeyAt(s, i) <= KeyAt(s, s.end)
      /\ \A i \in s.eee + 1 .. s.end - 1 : KeyAt(s, i) >= KeyAt(s, s.end)
      /\ s.eee = s.end - 1 \/ (s.bbb <= s.eee /\ KeyAt(s, s.eee) > KeyAt(s, s.end))
      /\ \A i \in 0 .. n - 1 : KeyAt(s, i) \in Int
  BY WayIs
<1>2. OneToOne(s, n) /\ RangesApart(s, n) /\ FarInOrder(s, n) /\ s.at # "sorted"
  BY DEF SortState
<1>3. CASE s.bbb = s.end
  <2>0. PICK e \in Int : e = s.end - 1
    BY <1>1
  <2>1. t = [s EXCEPT !.at = "resort", !.end = e]
    BY <1>3, <2>0
  <2>2. /\ t \in SortStates(n) /\ t.at = "resort" /\ t.key = s.key /\ t.elem = s.elem
        /\ t.pending = s.pending /\ t.beg = s.beg /\ t.end = e
    BY <1>1, <2>1 DEF SortStates
  <2>3. Reordered(s, t, n) /\ OneToOne(t, n)
    BY <1>1, <1>2, <2>2, SameReordered
  <2>4. StillPending(s, t, n)
    BY <2>2, SamePending
  <2>5. OrderedInside(s, t, n)
    <3> SUFFICES ASSUME NEW i \in 0 .. n - 1, NEW j \in 0 .. n - 1,
                        s.beg <= i, i < j, j <= s.end
                 PROVE  KeyAt(t, i) <= KeyAt(t, j) \/ Within(t, i, j)
      BY DEF OrderedInside
    <3>1. CASE j = s.end
      <4>1. i \in s.beg .. s.bbb - 1
        BY <1>1, <1>3, <3>1
      <4>2. KeyAt(s, i) <= KeyAt(s, j)
        BY <4>1, <3>1, <1>1
      <4>3. QED
        BY <4>2, <2>2 DEF KeyAt
    <3>2. CASE j # s.end
      <4>1. j <= t.end
        BY <1>1, <2>0, <2>2, <3>2
      <4>2. QED
        BY <4>1, <2>2 DEF Within
    <3>3. QED
      BY <3>1, <3>2
  <2>6. FarInOrder(t, n)
    BY <1>1, <1>2, <2>3, <2>4, <2>5, StepInOrder
  <2>7. RangesApart(t, n)
    <3>1. \A p \in DOMAIN s.pending : s.pending[p].beg \in Int
      BY <1>1, RangeIsRange
    <3>2. QED
      BY <1>1, <1>2, <2>0, <2>2, <3>1 DEF RangesApart
  <2>8. Partitioned(t) /\ BubbledUp(t)
    BY <2>2 DEF Partitioned, BubbledUp
  <2>9. QED
    BY <2>2, <2>3, <2>6, <2>7, <2>8 DEF SortState
<1>4. CASE s.bbb # s.end /\ KeyAt(s, s.bbb) - KeyAt(s, s.end) <= 0
  <2>0. PICK b \in Int : b = s.bbb + 1
    BY <1>1
  <2>1. t = [s EXCEPT !.bbb = b]
    BY <1>4, <2>0
  <2>2. /\ t \in SortStates(n) /\ t.at = "up" /\ t.key = s.key /\ t.elem = s.elem
        /\ t.pending = s.pending /\ t.beg = s.beg /\ t.end = s.end
        /\ t.bbb = b /\ t.eee = s.eee
    BY <1>1, <2>1 DEF SortStates
  <2>3. OneToOne(t, n) /\ RangesApart(t, n) /\ FarInOrder(t, n)
    BY <2>2, SameArray
  <2>4. KeyAt(s, s.bbb) <= KeyAt(s, s.end)
    BY <1>1, <1>4
  <2>5. \A i : KeyAt(t, i) = KeyAt(s, i)
    BY <2>2 DEF KeyAt
  <2>6. \A i \in t.beg .. t.bbb - 1 : KeyAt(t, i) <= KeyAt(t, t.end)
    <3> SUFFICES ASSUME NEW i \in t.beg .. t.bbb - 1 PROVE KeyAt(s, i) <= KeyAt(s, s.end)
      BY <2>5, <2>2
    <3>1. i = s.bbb \/ i \in s.beg .. s.bbb - 1
      BY <1>1, <2>0, <2>2
    <3>2. QED
      BY <3>1, <2>4, <1>1
  <2>7. \A i \in t.eee + 1 .. t.end - 1 : KeyAt(t, i) >= KeyAt(t, t.end)
    BY <2>2, <2>5, <1>1
  <2>8. t.eee = t.end - 1 \/ (t.bbb <= t.eee /\ KeyAt(t, t.eee) > KeyAt(t, t.end))
    <3>1. CASE s.eee = s.end - 1
      BY <3>1, <2>2
    <3>2. CASE s.bbb <= s.eee /\ KeyAt(s, s.eee) > KeyAt(s, s.end)
      <4>1. s.eee \in 0 .. n - 1
        BY <1>1, <3>2
      <4>2. s.eee # s.bbb
        BY <4>1, <3>2, <2>4, <1>1
      <4>3. QED
        BY <4>2, <3>2, <2>0, <2>2, <2>5, <1>1
    <3>3. QED
      BY <3>1, <3>2, <1>1
  <2>9. t.beg <= t.bbb /\ t.bbb <= t.end /\ t.eee < t.end /\ t.bbb <= t.eee + 1
    BY <1>1, <1>4, <2>0, <2>2
  <2>10. Partitioned(t) /\ BubbledUp(t)
    BY <2>2, <2>6, <2>7, <2>8, <2>9 DEF Partitioned, BubbledUp
  <2>11. QED
    BY <2>2, <2>3, <2>10 DEF SortState
<1>5. CASE s.bbb # s.end /\ ~(KeyAt(s, s.bbb) - KeyAt(s, s.end) <= 0)
  <2>1. t = [s EXCEPT !.at = "down"]
    BY <1>5
  <2>2. /\ t \in SortStates(n) /\ t.at = "down" /\ t.key = s.key /\ t.elem = s.elem
        /\ t.pending = s.pending /\ t.beg = s.beg /\ t.end = s.end
        /\ t.bbb = s.bbb /\ t.eee = s.eee
    BY <1>1, <2>1 DEF SortStates
  <2>3. OneToOne(t, n) /\ RangesApart(t, n) /\ FarInOrder(t, n)
    BY <2>2, SameArray
  <2>4. KeyAt(s, s.bbb) > KeyAt(s, s.end)
    BY <1>1, <1>5
  <2>5. \A i : KeyAt(t, i) = KeyAt(s, i)
    BY <2>2 DEF KeyAt
  <2>6. s.bbb <= s.eee
    BY <1>1, <1>5
  <2>7. Partitioned(t) /\ BubbledUp(t)
    BY <1>1, <2>2, <2>4, <2>5, <2>6 DEF Partitioned, BubbledUp
  <2>8. QED
    BY <2>2, <2>3, <2>7 DEF SortState
<1>6. QED
  BY <1>3, <1>4, <1>5

(* Only where the elements are matters to Reordered.                       *)
LEMMA ReorderedAlike ==
    ASSUME NEW n \in Nat, NEW s, NEW u, Reordered(s, u, n), NEW t,
           t.key = u.key, t.elem = u.elem
    PROVE  Reordered(s, t, n) /\ OneToOne(t, n)
<1>1. OneToOne(t, n)
  BY DEF Reordered, OneToOne
<1>2. QED
  BY <1>1 DEF Reordered

(* The pivot goes to bbb, which is its place.                              *)
LEMMA SplitKeeps ==
    ASSUME NEW n \in Nat, NEW s, SortState(s, n), s.at = "down", s.eee = s.bbb,
           NEW u, u = [s EXCEPT !.elem = [s.elem EXCEPT ![s.bbb] = s.elem[s.end],
                                                        ![s.end] = s.elem[s.bbb]]],
           NEW t, t = Split(u)
    PROVE  SortState(t, n)
<1>1. /\ s \in SortStates(n) /\ s.beg \in Int /\ s.end \in Int /\ s.bbb \in Int
      /\ s.eee \in Int /\ 0 <= s.beg /\ s.end < n /\ s.end \in 0 .. n - 1
      /\ s.beg <= s.bbb /\ s.bbb <= s.end /\ s.eee < s.end /\ s.bbb <= s.eee + 1
      /\ s.bbb \in 0 .. n - 1
      /\ \A i \in s.beg .. s.bbb - 1 : KeyAt(s, i) <= KeyAt(s, s.end)
      /\ \A i \in s.eee + 1 .. s.end - 1 : KeyAt(s, i) >= KeyAt(s, s.end)
      /\ KeyAt(s, s.bbb) > KeyAt(s, s.end)
      /\ \A i \in 0 .. n - 1 : KeyAt(s, i) \in Int
  BY WayIs
<1>2. OneToOne(s, n) /\ RangesApart(s, n) /\ FarInOrder(s, n) /\ s.at # "sorted"
  BY DEF SortState
<1>3. PICK m \in 0 .. n - 1 : m = s.bbb
  BY <1>1
<1>4. PICK last \in 0 .. n - 1 : last = s.end
  BY <1>1
<1>5. PICK elem : elem = [s.elem EXCEPT ![m] = s.elem[last], ![last] = s.elem[m]]
  OBVIOUS
<1>6. u = [s EXCEPT !.elem = elem]
  BY <1>3, <1>4, <1>5
<1>7. /\ u.at = s.at /\ u.key = s.key /\ u.elem = elem /\ u.pending = s.pending
      /\ u.beg = s.beg /\ u.end = s.end /\ u.bbb = s.bbb /\ u.eee = s.eee
  BY <1>1, <1>6 DEF SortStates
<1>8. Swapped(s, u, m, last, n)
  BY <1>1, <1>2, <1>5, <1>7, SwapSwaps
<1>9. elem \in [0 .. n - 1 -> 0 .. n - 1] /\ OneToOne(u, n)
  BY <1>7, <1>8 DEF Swapped
<1>10. u \in SortStates(n)
  BY <1>1, <1>6, <1>9 DEF SortStates
<1>11. /\ KeyAt(u, m) = KeyAt(s, last) /\ KeyAt(u, last) = KeyAt(s, m)
       /\ \A k \in 0 .. n - 1 : k # m /\ k # last => KeyAt(u, k) = KeyAt(s, k)
  BY <1>8, SwappedKeys
<1>moved. Reordered(s, u, n)
  <2>1. s.beg <= m /\ m <= s.end /\ s.beg <= last /\ last <= s.end
    BY <1>1, <1>3, <1>4
  <2>2. QED
    BY ONLY <1>3, <1>8, <2>1, n \in Nat, m \in 0 .. n - 1, last \in 0 .. n - 1, SwappedReordered
<1>12. /\ \A i \in 0 .. n - 1 : s.beg <= i /\ i < m => KeyAt(u, i) <= KeyAt(u, m)
       /\ \A i \in 0 .. n - 1 : m < i /\ i <= last => KeyAt(u, m) <= KeyAt(u, i)
       /\ \A i \in 0 .. n - 1 : KeyAt(u, i) \in Int
  <2>1. ASSUME NEW i \in 0 .. n - 1, s.beg <= i, i < m
        PROVE  KeyAt(u, i) <= KeyAt(u, m)
    <3>1. i \in s.beg .. s.bbb - 1 /\ i # m /\ i # last
      BY <2>1, <1>1, <1>3, <1>4
    <3>2. QED
      BY <3>1, <1>1, <1>4, <1>11
  <2>2. ASSUME NEW i \in 0 .. n - 1, m < i, i <= last
        PROVE  KeyAt(u, m) <= KeyAt(u, i)
    <3>1. CASE i = last
      BY <3>1, <1>1, <1>3, <1>4, <1>11
    <3>2. CASE i # last
      <4>1. i \in s.eee + 1 .. s.end - 1 /\ i # m
        BY <3>2, <2>2, <1>1, <1>3, <1>4
      <4>2. QED
        BY <4>1, <3>2, <1>1, <1>4, <1>11
    <3>3. QED
      BY <3>1, <3>2
  <2>3. ASSUME NEW i \in 0 .. n - 1 PROVE KeyAt(u, i) \in Int
    BY <1>1, <1>11
  <2>4. QED
    BY <2>1, <2>2, <2>3
<1>13. s.pending \in Seq(Ranges)
  BY <1>1 DEF SortStates
<1>14. PICK c : c = Len(s.pending)
  OBVIOUS
<1>15. c \in Nat /\ DOMAIN s.pending = 1 .. c
  BY <1>13, <1>14
<1>16. \A p \in DOMAIN s.pending : s.pending[p].beg \in Int /\ s.pending[p].end \in Int
  BY <1>1, RangeIsRange
<1>17. CASE s.bbb > s.beg
  <2>1. PICK e \in Int : e = m - 1
    OBVIOUS
  <2>2. PICK b \in Int : b = m + 1
    OBVIOUS
  <2>3. PICK r : r = [beg |-> b, end |-> last]
    OBVIOUS
  <2>4. r \in Ranges /\ r.beg = b /\ r.end = last
    BY <2>3 DEF Ranges
  <2>5. PICK more : more = Append(s.pending, r)
    OBVIOUS
  <2>6. /\ more \in Seq(Ranges) /\ DOMAIN more = 1 .. c + 1 /\ more[c + 1] = r
        /\ \A p \in 1 .. c : more[p] = s.pending[p]
    BY <2>5, <2>4, <1>13, <1>14, <1>15
  <2>7. t = [u EXCEPT !.at = "resort", !.end = e, !.pending = more]
    BY <1>3, <1>4, <1>7, <1>17, <2>1, <2>2, <2>3, <2>5 DEF Split
  <2>8. /\ t \in SortStates(n) /\ t.at = "resort" /\ t.key = u.key /\ t.elem = u.elem
        /\ t.pending = more /\ t.beg = s.beg /\ t.end = e
    BY <1>7, <1>10, <2>6, <2>7 DEF SortStates
  <2>9. \A i : KeyAt(t, i) = KeyAt(u, i)
    BY <2>8 DEF KeyAt
  <2>10. Reordered(s, t, n) /\ OneToOne(t, n)
    BY <1>moved, <2>8, ReorderedAlike
  <2>11. StillPending(s, t, n)
    <3> SUFFICES ASSUME NEW p \in DOMAIN s.pending, NEW i \in 0 .. n - 1, NEW j \in 0 .. n - 1,
                        s.pending[p].beg <= i, j <= s.pending[p].end
                 PROVE  Within(t, i, j)
      BY DEF StillPending
    <3>1. p \in DOMAIN t.pending /\ t.pending[p] = s.pending[p]
      BY <1>15, <2>6, <2>8
    <3>2. QED
      BY <3>1 DEF Within
  <2>12. OrderedInside(s, t, n)
    <3> SUFFICES ASSUME NEW i \in 0 .. n - 1, NEW j \in 0 .. n - 1,
                        s.beg <= i, i < j, j <= s.end
                 PROVE  KeyAt(u, i) <= KeyAt(u, j) \/ Within(t, i, j)
      BY <2>9 DEF OrderedInside
    <3>1. CASE j < m
      <4>1. t.beg <= i /\ j <= t.end
        BY <3>1, <2>1, <2>8
      <4>2. QED
        BY <4>1, <2>8 DEF Within
    <3>2. CASE m < i
      <4>1. c + 1 \in DOMAIN t.pending /\ t.pending[c + 1] = r
        BY <1>15, <2>6, <2>8
      <4>2. r.beg <= i /\ j <= r.end
        BY <3>2, <1>4, <2>2, <2>4
      <4>3. QED
        BY <4>1, <4>2 DEF Within
    <3>3. CASE i <= m /\ m <= j
      <4>1. i < m => KeyAt(u, i) <= KeyAt(u, m)
        BY <1>12
      <4>2. m < j => KeyAt(u, m) <= KeyAt(u, j)
        BY <1>4, <1>12
      <4>3. i = m \/ i < m
        BY <3>3
      <4>4. j = m \/ m < j
        BY <3>3
      <4>5. QED
        BY <4>1, <4>2, <4>3, <4>4, <1>12
    <3>4. QED
      BY <3>1, <3>2, <3>3
  <2>13. FarInOrder(t, n)
    BY <1>1, <1>2, <2>10, <2>11, <2>12, StepInOrder
  <2>14. RangesApart(t, n)
    <3>1. 0 <= t.beg /\ t.end < n
      BY <1>1, <2>1, <2>8
    <3>2. ASSUME NEW p \in 1 .. c + 1
          PROVE  /\ t.end < more[p].beg /\ 0 <= more[p].beg /\ more[p].end < n
      <4>1. CASE p = c + 1
        BY <4>1, <2>1, <2>2, <2>4, <2>6, <2>8
      <4>2. CASE p # c + 1
        <5>1. p \in DOMAIN s.pending /\ more[p] = s.pending[p]
          BY <4>2, <1>15, <2>6
        <5>2. t.end < s.end
          BY <1>1, <1>3, <2>1, <2>8
        <5>3. s.end < s.pending[p].beg /\ 0 <= s.pending[p].beg /\ s.pending[p].end < n
          BY <5>1, <1>2 DEF RangesApart
        <5>4. t.end \in Int /\ s.pending[p].beg \in Int
          BY <5>1, <1>16, <2>8
        <5>5. QED
          BY <5>1, <5>2, <5>3, <5>4, <1>1
      <4>3. QED
        BY <4>1, <4>2
    <3>3. ASSUME NEW p \in 1 .. c + 1, NEW q \in 1 .. c + 1, p < q
          PROVE  more[q].end < more[p].beg
      <4>1. p \in DOMAIN s.pending /\ more[p] = s.pending[p]
        BY <3>3, <1>15, <2>6
      <4>2. CASE q = c + 1
        <5>1. s.end < s.pending[p].beg
          BY <4>1, <1>2 DEF RangesApart
        <5>2. QED
          BY <5>1, <4>1, <4>2, <1>4, <2>4, <2>6
      <4>3. CASE q # c + 1
        <5>1. q \in DOMAIN s.pending /\ more[q] = s.pending[q]
          BY <4>3, <1>15, <2>6
        <5>2. QED
          BY <5>1, <4>1, <3>3, <1>2 DEF RangesApart
      <4>4. QED
        BY <4>2, <4>3
    <3>4. QED
      BY <3>1, <3>2, <3>3, <2>6, <2>8 DEF RangesApart
  <2>15. Partitioned(t) /\ BubbledUp(t)
    BY <2>8 DEF Partitioned, BubbledUp
  <2>16. QED
    BY <2>8, <2>10, <2>13, <2>14, <2>15 DEF SortState
<1>18. CASE ~(s.bbb > s.beg)
  <2>1. PICK b \in Int : b = m + 1
    OBVIOUS
  <2>2. t = [u EXCEPT !.at = "resort", !.beg = b]
    BY <1>3, <1>7, <1>18, <2>1 DEF Split
  <2>3. /\ t \in SortStates(n) /\ t.at = "resort" /\ t.key = u.key /\ t.elem = u.elem
        /\ t.pending = s.pending /\ t.beg = b /\ t.end = s.end
    BY <1>7, <1>10, <2>2 DEF SortStates
  <2>4. \A i : KeyAt(t, i) = KeyAt(u, i)
    BY <2>3 DEF KeyAt
  <2>5. Reordered(s, t, n) /\ OneToOne(t, n)
    BY <1>moved, <2>3, ReorderedAlike
  <2>6. StillPending(s, t, n)
    BY <2>3, SamePending
  <2>7. OrderedInside(s, t, n)
    <3> SUFFICES ASSUME NEW i \in 0 .. n - 1, NEW j \in 0 .. n - 1,
                        s.beg <= i, i < j, j <= s.end
                 PROVE  KeyAt(u, i) <= KeyAt(u, j) \/ Within(t, i, j)
      BY <2>4 DEF OrderedInside
    <3>1. CASE i = m
      BY <3>1, <1>4, <1>12
    <3>2. CASE i # m
      <4>1. t.beg <= i /\ j <= t.end
        BY <3>2, <1>1, <1>3, <1>18, <2>1, <2>3
      <4>2. QED
        BY <4>1, <2>3 DEF Within
    <3>3. QED
      BY <3>1, <3>2
  <2>8. FarInOrder(t, n)
    BY <1>1, <1>2, <2>5, <2>6, <2>7, StepInOrder
  <2>9. RangesApart(t, n)
    <3>1. 0 <= t.beg
      BY <1>1, <1>3, <2>1, <2>3
    <3>2. QED
      BY <3>1, <1>2, <2>3 DEF RangesApart
  <2>10. Partitioned(t) /\ BubbledUp(t)
    BY <2>3 DEF Partitioned, BubbledUp
  <2>11. QED
    BY <2>3, <2>5, <2>8, <2>9, <2>10 DEF SortState
<1>19. QED
  BY <1>17, <1>18

LEMMA GoesDownKeeps ==
    ASSUME NEW n \in Nat, NEW s, SortState(s, n), s.at = "down",
           NEW e, e = [s.elem EXCEPT ![s.bbb] = s.elem[s.eee], ![s.eee] = s.elem[s.bbb]],
           NEW u, u = [s EXCEPT !.elem = [s.elem EXCEPT ![s.bbb] = s.elem[s.end],
                                                        ![s.end] = s.elem[s.bbb]]],
           NEW t,
           t = IF s.eee = s.bbb
                 THEN Split(u)
               ELSE IF KeyAt(s, s.eee) - KeyAt(s, s.end) >= 0
                 THEN [s EXCEPT !.eee = @ - 1]
               ELSE [s EXCEPT !.elem = e, !.bbb = @ + 1, !.at = "up"]
    PROVE  SortState(t, n)
<1>1. /\ s \in SortStates(n) /\ s.beg \in Int /\ s.end \in Int /\ s.bbb \in Int
      /\ s.eee \in Int /\ 0 <= s.beg /\ s.end < n /\ s.end \in 0 .. n - 1
      /\ s.beg <= s.bbb /\ s.bbb <= s.end /\ s.eee < s.end /\ s.bbb <= s.eee + 1
      /\ s.bbb \in 0 .. n - 1 /\ s.eee \in 0 .. n - 1 /\ s.bbb <= s.eee
      /\ \A i \in s.beg .. s.bbb - 1 : KeyAt(s, i) <= KeyAt(s, s.end)
      /\ \A i \in s.eee + 1 .. s.end - 1 : KeyAt(s, i) >= KeyAt(s, s.end)
      /\ KeyAt(s, s.bbb) > KeyAt(s, s.end)
      /\ \A i \in 0 .. n - 1 : KeyAt(s, i) \in Int
  BY WayIs
<1>2. OneToOne(s, n) /\ RangesApart(s, n) /\ FarInOrder(s, n) /\ s.at # "sorted"
  BY DEF SortState
<1>3. CASE s.eee = s.bbb
  <2>1. t = Split(u)
    BY <1>3
  <2>2. QED
    BY <2>1, <1>3, SplitKeeps
<1>4. CASE s.eee # s.bbb /\ KeyAt(s, s.eee) - KeyAt(s, s.end) >= 0
  <2>1. PICK d \in Int : d = s.eee - 1
    BY <1>1
  <2>2. t = [s EXCEPT !.eee = d]
    BY <1>4, <2>1
  <2>3. /\ t \in SortStates(n) /\ t.at = "down" /\ t.key = s.key /\ t.elem = s.elem
        /\ t.pending = s.pending /\ t.beg = s.beg /\ t.end = s.end
        /\ t.bbb = s.bbb /\ t.eee = d
    BY <1>1, <2>2 DEF SortStates
  <2>4. OneToOne(t, n) /\ RangesApart(t, n) /\ FarInOrder(t, n)
    BY <2>3, SameArray
  <2>5. \A i : KeyAt(t, i) = KeyAt(s, i)
    BY <2>3 DEF KeyAt
  <2>6. KeyAt(s, s.eee) >= KeyAt(s, s.end)
    BY <1>1, <1>4
  <2>7. \A i \in t.eee + 1 .. t.end - 1 : KeyAt(t, i) >= KeyAt(t, t.end)
    <3> SUFFICES ASSUME NEW i \in t.eee + 1 .. t.end - 1 PROVE KeyAt(s, i) >= KeyAt(s, s.end)
      BY <2>5, <2>3
    <3>1. i = s.eee \/ i \in s.eee + 1 .. s.end - 1
      BY <1>1, <2>1, <2>3
    <3>2. QED
      BY <3>1, <2>6, <1>1
  <2>8. t.bbb <= t.eee /\ t.eee < t.end /\ t.bbb <= t.eee + 1
    BY <1>1, <1>4, <2>1, <2>3
  <2>9. Partitioned(t) /\ BubbledUp(t)
    BY <1>1, <2>3, <2>5, <2>7, <2>8 DEF Partitioned, BubbledUp
  <2>10. QED
    BY <2>3, <2>4, <2>9 DEF SortState
<1>5. CASE s.eee # s.bbb /\ ~(KeyAt(s, s.eee) - KeyAt(s, s.end) >= 0)
  <2>1. PICK b \in Int : b = s.bbb + 1
    BY <1>1
  <2>2. t = [s EXCEPT !.elem = e, !.bbb = b, !.at = "up"]
    BY <1>5, <2>1
  <2>3. /\ t.at = "up" /\ t.key = s.key /\ t.elem = e /\ t.pending = s.pending
        /\ t.beg = s.beg /\ t.end = s.end /\ t.bbb = b /\ t.eee = s.eee
    BY <1>1, <2>2 DEF SortStates
  <2>4. PICK m \in 0 .. n - 1 : m = s.bbb
    BY <1>1
  <2>5. PICK l \in 0 .. n - 1 : l = s.eee
    BY <1>1
  <2>6. t.elem = [s.elem EXCEPT ![m] = s.elem[l], ![l] = s.elem[m]]
    BY <2>3, <2>4, <2>5
  <2>7. Swapped(s, t, m, l, n)
    BY <1>1, <1>2, <2>3, <2>6, SwapSwaps
  <2>8. e \in [0 .. n - 1 -> 0 .. n - 1] /\ OneToOne(t, n)
    BY <2>3, <2>7 DEF Swapped
  <2>9. t \in SortStates(n)
    BY <1>1, <2>2, <2>8 DEF SortStates
  <2>10. Reordered(s, t, n)
    <3>1. s.beg <= m /\ m <= s.end /\ s.beg <= l /\ l <= s.end
      BY <1>1, <2>4, <2>5
    <3>2. QED
      BY ONLY <2>4, <2>5, <2>7, <3>1, n \in Nat, m \in 0 .. n - 1, l \in 0 .. n - 1,
              SwappedReordered
  <2>11. StillPending(s, t, n)
    BY <2>3, SamePending
  <2>12. OrderedInside(s, t, n)
    BY <2>3 DEF OrderedInside, Within
  <2>13. FarInOrder(t, n)
    BY <1>1, <1>2, <2>10, <2>11, <2>12, StepInOrder
  <2>14. RangesApart(t, n)
    BY <1>2, <2>3 DEF RangesApart
  <2>15. /\ KeyAt(t, m) = KeyAt(s, l) /\ KeyAt(t, l) = KeyAt(s, m)
         /\ \A k \in 0 .. n - 1 : k # m /\ k # l => KeyAt(t, k) = KeyAt(s, k)
    BY ONLY <2>7, n \in Nat, m \in 0 .. n - 1, l \in 0 .. n - 1, SwappedKeys
  <2>16. KeyAt(t, t.end) = KeyAt(s, s.end) /\ KeyAt(s, s.end) \in Int
    <3>1. s.end # m /\ s.end # l
      BY <1>1, <1>5, <2>4, <2>5
    <3>2. QED
      BY <3>1, <1>1, <2>3, <2>15
  <2>17. KeyAt(t, m) <= KeyAt(s, s.end) /\ KeyAt(t, l) > KeyAt(s, s.end)
    BY <1>1, <1>5, <2>4, <2>5, <2>15
  <2>18. \A i \in t.beg .. t.bbb - 1 : KeyAt(t, i) <= KeyAt(t, t.end)
    <3> SUFFICES ASSUME NEW i \in t.beg .. t.bbb - 1 PROVE KeyAt(t, i) <= KeyAt(s, s.end)
      BY <2>16
    <3>1. CASE i = m
      BY <3>1, <2>17
    <3>2. CASE i # m
      <4>1. i \in s.beg .. s.bbb - 1 /\ i # l /\ i \in 0 .. n - 1
        BY <3>2, <1>1, <2>1, <2>3, <2>4, <2>5
      <4>2. QED
        BY <4>1, <3>2, <2>15, <1>1
    <3>3. QED
      BY <3>1, <3>2
  <2>19. \A i \in t.eee + 1 .. t.end - 1 : KeyAt(t, i) >= KeyAt(t, t.end)
    <3> SUFFICES ASSUME NEW i \in t.eee + 1 .. t.end - 1 PROVE KeyAt(t, i) >= KeyAt(s, s.end)
      BY <2>16
    <3>1. i \in s.eee + 1 .. s.end - 1 /\ i # l /\ i # m /\ i \in 0 .. n - 1
      BY <1>1, <2>3, <2>4, <2>5
    <3>2. QED
      BY <3>1, <2>15, <1>1
  <2>20. t.bbb <= t.eee /\ t.beg <= t.bbb /\ t.bbb <= t.end /\ t.eee < t.end
         /\ t.bbb <= t.eee + 1
    BY <1>1, <1>5, <2>1, <2>3
  <2>21. KeyAt(t, t.eee) > KeyAt(t, t.end)
    BY <2>3, <2>5, <2>16, <2>17
  <2>22. Partitioned(t) /\ BubbledUp(t)
    BY <2>3, <2>18, <2>19, <2>20, <2>21 DEF Partitioned, BubbledUp
  <2>23. QED
    BY <2>8, <2>9, <2>13, <2>14, <2>22 DEF SortState
<1>6. QED
  BY <1>3, <1>4, <1>5

(* The greater of two neighbours goes behind the other.                    *)
LEMMA BubbleUp ==
    ASSUME NEW n \in Nat, NEW s, SortState(s, n), s.at = "bubble",
           NEW m \in 0 .. n - 1, m = s.bbb, NEW k \in 0 .. n - 1, k = m + 1,
           NEW elem,
           elem = IF KeyAt(s, m) - KeyAt(s, k) > 0
                    THEN [s.elem EXCEPT ![m] = s.elem[k], ![k] = s.elem[m]]
                    ELSE s.elem,
           NEW u, u = [s EXCEPT !.elem = elem]
    PROVE  /\ u \in SortStates(n) /\ Reordered(s, u, n) /\ OneToOne(u, n)
           /\ u.at = s.at /\ u.key = s.key /\ u.elem = elem /\ u.pending = s.pending
           /\ u.beg = s.beg /\ u.end = s.end /\ u.bbb = s.bbb /\ u.eee = s.eee
           /\ \A i \in 0 .. n - 1 : KeyAt(u, i) \in Int
           /\ \A i \in 0 .. n - 1 : s.beg <= i /\ i <= m => KeyAt(u, i) <= KeyAt(u, k)
           /\ \A j \in 0 .. n - 1 : s.eee < j /\ j <= s.end =>
                 \A i \in 0 .. n - 1 : s.beg <= i /\ i < j => KeyAt(u, i) <= KeyAt(u, j)
<1>1. /\ s \in SortStates(n) /\ s.beg \in Int /\ s.end \in Int /\ s.bbb \in Int /\ s.eee \in Int
      /\ OneToOne(s, n)
  BY DEF SortState, SortStates
<1>2. /\ s.beg <= s.bbb /\ s.bbb < s.eee /\ s.eee <= s.end
      /\ \A j \in s.eee + 1 .. s.end : \A i \in s.beg .. j - 1 : KeyAt(s, i) <= KeyAt(s, j)
      /\ \A i \in s.beg .. s.bbb - 1 : KeyAt(s, i) <= KeyAt(s, s.bbb)
  BY DEF SortState, BubbledUp
<1>3. \A i \in 0 .. n - 1 : KeyAt(s, i) \in Int
  <2>1. s.key \in [0 .. n - 1 -> SortKeys] /\ s.elem \in [0 .. n - 1 -> 0 .. n - 1]
    BY <1>1 DEF SortStates
  <2>2. QED
    BY <2>1, KeyIsInt
<1>4. /\ u.at = s.at /\ u.key = s.key /\ u.elem = elem /\ u.pending = s.pending
      /\ u.beg = s.beg /\ u.end = s.end /\ u.bbb = s.bbb /\ u.eee = s.eee
  BY <1>1 DEF SortStates
<1>5. s.beg <= m /\ m < k /\ k <= s.eee /\ k <= s.end
  BY <1>1, <1>2
<1>6. /\ \A i \in 0 .. n - 1 : s.beg <= i /\ i < m => KeyAt(s, i) <= KeyAt(s, m)
      /\ \A j \in 0 .. n - 1 : s.eee < j /\ j <= s.end =>
            \A i \in 0 .. n - 1 : s.beg <= i /\ i < j => KeyAt(s, i) <= KeyAt(s, j)
  <2>1. ASSUME NEW i \in 0 .. n - 1, s.beg <= i, i < m
        PROVE  KeyAt(s, i) <= KeyAt(s, m)
    <3>1. i \in s.beg .. s.bbb - 1
      BY <2>1, <1>1
    <3>2. QED
      BY <3>1, <1>2
  <2>2. ASSUME NEW j \in 0 .. n - 1, s.eee < j, j <= s.end,
               NEW i \in 0 .. n - 1, s.beg <= i, i < j
        PROVE  KeyAt(s, i) <= KeyAt(s, j)
    <3>1. j \in s.eee + 1 .. s.end /\ i \in s.beg .. j - 1
      BY <2>2, <1>1
    <3>2. QED
      BY <3>1, <1>2
  <2>3. QED
    BY <2>1, <2>2
<1>7. CASE KeyAt(s, m) - KeyAt(s, k) > 0
  <2>1. u.elem = [s.elem EXCEPT ![m] = s.elem[k], ![k] = s.elem[m]]
    BY <1>4, <1>7
  <2>2. Swapped(s, u, m, k, n)
    BY <1>1, <1>4, <2>1, SwapSwaps
  <2>3. elem \in [0 .. n - 1 -> 0 .. n - 1] /\ OneToOne(u, n)
    BY <1>4, <2>2 DEF Swapped
  <2>4. u \in SortStates(n)
    BY <1>1, <2>3 DEF SortStates
  <2>5. Reordered(s, u, n)
    <3>1. s.beg <= m /\ m <= s.end /\ s.beg <= k /\ k <= s.end
      BY <1>1, <1>5
    <3>2. QED
      BY ONLY <2>2, <3>1, n \in Nat, m \in 0 .. n - 1, k \in 0 .. n - 1, SwappedReordered
  <2>6. /\ KeyAt(u, m) = KeyAt(s, k) /\ KeyAt(u, k) = KeyAt(s, m)
        /\ \A i \in 0 .. n - 1 : i # m /\ i # k => KeyAt(u, i) = KeyAt(s, i)
    BY ONLY <2>2, n \in Nat, m \in 0 .. n - 1, k \in 0 .. n - 1, SwappedKeys
  <2>7. KeyAt(s, k) < KeyAt(s, m)
    BY <1>3, <1>7
  <2>8. \A i \in 0 .. n - 1 : KeyAt(u, i) \in Int
    BY <1>3, <2>6
  <2>9. ASSUME NEW i \in 0 .. n - 1, s.beg <= i, i <= m
        PROVE  KeyAt(u, i) <= KeyAt(u, k)
    <3>1. CASE i = m
      BY <3>1, <2>6, <2>7, <1>3
    <3>2. CASE i # m
      <4>1. i < m /\ i # k
        BY <3>2, <2>9, <1>5
      <4>2. QED
        BY <4>1, <3>2, <2>6, <2>9, <1>6
    <3>3. QED
      BY <3>1, <3>2
  <2>10. ASSUME NEW j \in 0 .. n - 1, s.eee < j, j <= s.end,
                NEW i \in 0 .. n - 1, s.beg <= i, i < j
         PROVE  KeyAt(u, i) <= KeyAt(u, j)
    <3>1. j # m /\ j # k /\ m < j /\ k < j /\ s.beg <= k
      BY <2>10, <1>1, <1>5
    <3>2. KeyAt(u, j) = KeyAt(s, j)
      BY <3>1, <2>6
    <3>3. KeyAt(s, m) <= KeyAt(s, j) /\ KeyAt(s, k) <= KeyAt(s, j) /\ KeyAt(s, i) <= KeyAt(s, j)
      BY <2>10, <3>1, <1>5, <1>6
    <3>4. QED
      BY <3>2, <3>3, <2>6
  <2>11. QED
    BY <1>4, <2>3, <2>4, <2>5, <2>8, <2>9, <2>10
<1>8. CASE ~(KeyAt(s, m) - KeyAt(s, k) > 0)
  <2>1. u.elem = s.elem /\ u = s
    BY <1>1, <1>8 DEF SortStates
  <2>2. Reordered(s, u, n) /\ OneToOne(u, n)
    BY <1>1, <1>4, <2>1, SameReordered
  <2>3. KeyAt(s, m) <= KeyAt(s, k)
    BY <1>3, <1>8
  <2>4. ASSUME NEW i \in 0 .. n - 1, s.beg <= i, i <= m
        PROVE  KeyAt(s, i) <= KeyAt(s, k)
    <3>1. i = m \/ i < m
      BY <2>4
    <3>2. i < m => KeyAt(s, i) <= KeyAt(s, m)
      BY <2>4, <1>6
    <3>3. QED
      BY <3>1, <3>2, <2>3, <1>3
  <2>5. QED
    BY <1>1, <1>3, <1>4, <1>6, <2>1, <2>2, <2>4
<1>9. QED
  BY <1>7, <1>8

LEMMA BubblesKeep ==
    ASSUME NEW n \in Nat, NEW s, SortState(s, n), s.at = "bubble", NEW elem,
           elem = IF KeyAt(s, s.bbb) - KeyAt(s, s.bbb + 1) > 0
                    THEN [s.elem EXCEPT ![s.bbb] = s.elem[s.bbb + 1],
                                        ![s.bbb + 1] = s.elem[s.bbb]]
                    ELSE s.elem,
           NEW t,
           t = IF s.bbb + 1 < s.eee
                 THEN [s EXCEPT !.elem = elem, !.bbb = @ + 1]
               ELSE IF s.eee > s.beg + 1
                 THEN [s EXCEPT !.elem = elem, !.bbb = s.beg, !.eee = @ - 1]
               ELSE Returned([s EXCEPT !.elem = elem])
    PROVE  SortState(t, n)
<1>1. /\ s \in SortStates(n) /\ s.beg \in Int /\ s.end \in Int /\ s.bbb \in Int /\ s.eee \in Int
  BY DEF SortState, SortStates
<1>2. /\ OneToOne(s, n) /\ RangesApart(s, n) /\ FarInOrder(s, n) /\ s.at # "sorted"
  BY DEF SortState
<1>3. /\ s.beg <= s.bbb /\ s.bbb < s.eee /\ s.eee <= s.end /\ 0 <= s.beg /\ s.end < n
  BY DEF SortState, BubbledUp, RangesApart
<1>4. PICK m \in 0 .. n - 1 : m = s.bbb
  BY <1>1, <1>3
<1>5. PICK k \in 0 .. n - 1 : k = m + 1
  BY <1>1, <1>3, <1>4
<1>6. elem = IF KeyAt(s, m) - KeyAt(s, k) > 0
               THEN [s.elem EXCEPT ![m] = s.elem[k], ![k] = s.elem[m]]
               ELSE s.elem
  BY <1>4, <1>5
<1>7. PICK u : u = [s EXCEPT !.elem = elem]
  OBVIOUS
<1>8. /\ u \in SortStates(n) /\ Reordered(s, u, n) /\ OneToOne(u, n)
      /\ u.at = s.at /\ u.key = s.key /\ u.elem = elem /\ u.pending = s.pending
      /\ u.beg = s.beg /\ u.end = s.end /\ u.bbb = s.bbb /\ u.eee = s.eee
      /\ \A i \in 0 .. n - 1 : KeyAt(u, i) \in Int
      /\ \A i \in 0 .. n - 1 : s.beg <= i /\ i <= m => KeyAt(u, i) <= KeyAt(u, k)
      /\ \A j \in 0 .. n - 1 : s.eee < j /\ j <= s.end =>
            \A i \in 0 .. n - 1 : s.beg <= i /\ i < j => KeyAt(u, i) <= KeyAt(u, j)
  BY <1>4, <1>5, <1>6, <1>7, BubbleUp
<1>9. RangesApart(u, n)
  BY <1>2, <1>8 DEF RangesApart
<1>10. FarInOrder(u, n)
  <2>1. StillPending(s, u, n)
    BY <1>8, SamePending
  <2>2. OrderedInside(s, u, n)
    BY <1>2, <1>8 DEF OrderedInside, Within
  <2>3. QED
    BY <1>1, <1>2, <1>8, <2>1, <2>2, StepInOrder
<1>11. CASE s.bbb + 1 < s.eee
  <2>0. PICK b \in Int : b = k
    OBVIOUS
  <2>1. t = [u EXCEPT !.bbb = b]
    BY <1>1, <1>4, <1>5, <1>7, <1>8, <1>11, <2>0 DEF SortStates
  <2>2. /\ t \in SortStates(n) /\ t.at = u.at /\ t.key = u.key /\ t.elem = u.elem
        /\ t.pending = u.pending /\ t.beg = u.beg /\ t.end = u.end
        /\ t.bbb = b /\ t.eee = u.eee
    BY <1>8, <2>1 DEF SortStates
  <2>3. OneToOne(t, n) /\ RangesApart(t, n) /\ FarInOrder(t, n)
    BY <1>2, <1>8, <1>9, <1>10, <2>2 DEF OneToOne, RangesApart, FarInOrder, KeyAt, Within
  <2>4. \A i : KeyAt(t, i) = KeyAt(u, i)
    BY <2>2 DEF KeyAt
  <2>5. t.beg <= t.bbb /\ t.bbb < t.eee /\ t.eee <= t.end
    BY <1>1, <1>3, <1>4, <1>5, <1>8, <1>11, <2>0, <2>2
  <2>6. ASSUME NEW j \in t.eee + 1 .. t.end, NEW i \in t.beg .. j - 1
        PROVE  KeyAt(t, i) <= KeyAt(t, j)
    <3>1. j \in 0 .. n - 1 /\ i \in 0 .. n - 1 /\ s.eee < j /\ j <= s.end /\ s.beg <= i /\ i < j
      BY <1>1, <1>3, <1>8, <2>2
    <3>2. QED
      BY <3>1, <1>8, <2>4
  <2>7. ASSUME NEW i \in t.beg .. t.bbb - 1
        PROVE  KeyAt(t, i) <= KeyAt(t, t.bbb)
    <3>1. i \in 0 .. n - 1 /\ s.beg <= i /\ i <= m
      BY <1>1, <1>3, <1>5, <1>8, <2>0, <2>2
    <3>2. QED
      BY <3>1, <1>8, <2>0, <2>2, <2>4
  <2>8. BubbledUp(t) /\ Partitioned(t)
    BY <1>8, <2>2, <2>5, <2>6, <2>7 DEF BubbledUp, Partitioned
  <2>9. QED
    BY <2>2, <2>3, <2>8 DEF SortState
<1>12. CASE ~(s.bbb + 1 < s.eee) /\ s.eee > s.beg + 1
  <2>1. PICK d \in Int : d = s.eee - 1
    BY <1>1
  <2>2. t = [u EXCEPT !.bbb = s.beg, !.eee = d]
    BY <1>1, <1>7, <1>12, <2>1 DEF SortStates
  <2>3. /\ t \in SortStates(n) /\ t.at = u.at /\ t.key = u.key /\ t.elem = u.elem
        /\ t.pending = u.pending /\ t.beg = u.beg /\ t.end = u.end
        /\ t.bbb = s.beg /\ t.eee = d
    BY <1>1, <1>8, <2>2 DEF SortStates
  <2>4. OneToOne(t, n) /\ RangesApart(t, n) /\ FarInOrder(t, n)
    BY <1>2, <1>8, <1>9, <1>10, <2>3 DEF OneToOne, RangesApart, FarInOrder, KeyAt, Within
  <2>5. \A i : KeyAt(t, i) = KeyAt(u, i)
    BY <2>3 DEF KeyAt
  <2>6. t.beg <= t.bbb /\ t.bbb < t.eee /\ t.eee <= t.end /\ k = s.eee
    BY <1>1, <1>3, <1>4, <1>5, <1>8, <1>12, <2>1, <2>3
  <2>7. ASSUME NEW j \in t.eee + 1 .. t.end, NEW i \in t.beg .. j - 1
        PROVE  KeyAt(t, i) <= KeyAt(t, j)
    <3>1. j \in 0 .. n - 1 /\ i \in 0 .. n - 1 /\ s.eee <= j /\ j <= s.end /\ s.beg <= i /\ i < j
      BY <1>1, <1>3, <1>8, <2>1, <2>3
    <3>2. CASE s.eee < j
      BY <3>1, <3>2, <1>8, <2>5
    <3>3. CASE s.eee = j
      <4>1. j = k /\ i <= m
        BY <3>1, <3>3, <1>5, <2>6
      <4>2. QED
        BY <4>1, <3>1, <1>8, <2>5
    <3>4. QED
      BY <3>1, <3>2, <3>3, <1>1
  <2>8. \A i \in t.beg .. t.bbb - 1 : KeyAt(t, i) <= KeyAt(t, t.bbb)
    BY <1>1, <1>8, <2>3
  <2>9. BubbledUp(t) /\ Partitioned(t)
    BY <1>8, <2>3, <2>6, <2>7, <2>8 DEF BubbledUp, Partitioned
  <2>10. QED
    BY <2>3, <2>4, <2>9 DEF SortState
<1>13. CASE ~(s.bbb + 1 < s.eee) /\ ~(s.eee > s.beg + 1)
  <2>1. t = Returned(u)
    BY <1>7, <1>13
  <2>2. s.eee = k /\ s.beg = m
    BY <1>1, <1>3, <1>4, <1>5, <1>13
  <2>3. AllOrdered(u, n)
    <3> SUFFICES ASSUME NEW i \in 0 .. n - 1, NEW j \in 0 .. n - 1,
                        s.beg <= i, i < j, j <= s.end
                 PROVE  KeyAt(u, i) <= KeyAt(u, j)
      BY <1>8 DEF AllOrdered
    <3>1. CASE s.eee < j
      BY <3>1, <1>8
    <3>2. CASE ~(s.eee < j)
      <4>1. i = m /\ j = k
        BY <3>2, <1>1, <1>5, <2>2
      <4>2. QED
        BY <4>1, <1>8, <2>2
    <3>3. QED
      BY <3>1, <3>2
  <2>4. u.at # "sorted"
    BY <1>2, <1>8
  <2>5. QED
    BY <1>8, <1>9, <1>10, <2>1, <2>3, <2>4, ReturnedState
<1>14. QED
  BY <1>11, <1>12, <1>13

LEMMA QsortStarts ==
    ASSUME NEW n \in Nat, NEW key \in [0 .. n - 1 -> SortKeys], NEW t,
           t = [at |-> IF n > 1 THEN "resort" ELSE "sorted", key |-> key,
                elem |-> [i \in 0 .. n - 1 |-> i], pending |-> << >>,
                beg |-> 0, end |-> n - 1, bbb |-> 0, eee |-> 0]
    PROVE  SortState(t, n)
<1>1. PICK e \in Int : e = n - 1
  OBVIOUS
<1>2. PICK at : at = IF n > 1 THEN "resort" ELSE "sorted"
  OBVIOUS
<1>3. at \in {"resort", "sorted"} /\ (at = "sorted" <=> n <= 1)
  BY <1>2
<1>4. /\ t.at = at /\ t.key = key /\ t.elem = [i \in 0 .. n - 1 |-> i] /\ t.pending = << >>
      /\ t.beg = 0 /\ t.end = e /\ t.bbb = 0 /\ t.eee = 0
  BY <1>1, <1>2
<1>5. << >> \in Seq(Ranges)
  OBVIOUS
<1>6. t \in SortStates(n)
  BY <1>1, <1>2, <1>3, <1>5 DEF SortStates
<1>7. OneToOne(t, n)
  BY <1>4 DEF OneToOne
<1>8. RangesApart(t, n)
  BY <1>1, <1>3, <1>4 DEF RangesApart
<1>9. FarInOrder(t, n)
  <2> SUFFICES ASSUME NEW i \in 0 .. n - 1, NEW j \in 0 .. n - 1, i < j
               PROVE  Within(t, i, j)
    BY DEF FarInOrder
  <2>1. t.at # "sorted"
    BY <1>3, <1>4
  <2>2. t.beg <= i /\ j <= t.end
    BY <1>1, <1>4
  <2>3. QED
    BY <2>1, <2>2 DEF Within
<1>10. Partitioned(t) /\ BubbledUp(t)
  BY <1>3, <1>4 DEF Partitioned, BubbledUp
<1>11. QED
  BY <1>6, <1>7, <1>8, <1>9, <1>10 DEF SortState

LEMMA SortInvInit == CLibInit => SortInv
BY DEF CLibInit, SortInv

LEMMA SortInvNext == SortInv /\ [CLibNext]_clibVars => SortInv'
<1> SUFFICES ASSUME SortInv, [CLibNext]_clibVars PROVE SortInv'
  OBVIOUS
<1>1. ASSUME NEW n \in 0 .. MaxSort, SortState(sort', n) PROVE SortInv'
  BY <1>1 DEF SortInv
<1>2. \A n \in 0 .. MaxSort : n \in Nat
  BY CLibAssumption DEF CLibAssumption
<1>3. CASE UNCHANGED sort
  BY <1>3 DEF SortInv
<1>4. CASE Sorting
  <2>1. ASSUME NEW nmemb \in 0 .. MaxSort, NEW key \in [0 .. nmemb - 1 -> SortKeys],
               Qsort(nmemb, key)
        PROVE  SortInv'
    <3>1. SortState(sort', nmemb)
      BY <1>2, <2>1, QsortStarts DEF Qsort
    <3>2. QED
      BY <3>1, <1>1
  <2>2. CASE Resort \/ GoesUp \/ GoesDown \/ Bubbles
    <3>1. sort # NotSorting
      BY <2>2 DEF NotSorting, Resort, GoesUp, GoesDown, Bubbles
    <3>2. PICK n \in 0 .. MaxSort : SortState(sort, n)
      BY <3>1 DEF SortInv
    <3>3. n \in Nat
      BY <1>2
    <3>4. ASSUME Resort PROVE SortState(sort', n)
      BY <3>2, <3>3, <3>4, ResortKeeps DEF Resort
    <3>5. ASSUME GoesUp PROVE SortState(sort', n)
      BY <3>2, <3>3, <3>5, GoesUpKeeps DEF GoesUp, compar, KeyAt
    <3>6. ASSUME GoesDown PROVE SortState(sort', n)
      BY <3>2, <3>3, <3>6, GoesDownKeeps DEF GoesDown, compar, swapelem, KeyAt
    <3>7. ASSUME Bubbles PROVE SortState(sort', n)
      BY <3>2, <3>3, <3>7, BubblesKeep DEF Bubbles, Bubbled, compar, swapelem, KeyAt
    <3>8. QED
      BY <2>2, <3>4, <3>5, <3>6, <3>7, <1>1
  <2>3. QED
    BY <1>4, <2>1, <2>2 DEF Sorting
<1>5. CASE Converting
  BY <1>3, <1>5 DEF Converting
<1>6. QED
  BY <1>3, <1>4, <1>5 DEF CLibNext, clibVars

LEMMA SortInvIsRight == SortInv => SortsRight
<1> SUFFICES ASSUME SortInv, sort.at # "none" PROVE SortsRight
  BY DEF SortsRight
<1>1. sort # NotSorting
  BY DEF NotSorting
<1>2. PICK n \in 0 .. MaxSort : SortState(sort, n)
  BY <1>1 DEF SortInv
<1>3. n \in Nat
  BY <1>2, CLibAssumption DEF CLibAssumption
<1>4. /\ sort \in SortStates(n) /\ DOMAIN sort.key = 0 .. n - 1
      /\ sort.elem \in [0 .. n - 1 -> 0 .. n - 1] /\ DOMAIN sort.elem = 0 .. n - 1
  BY <1>2 DEF SortState, SortStates
<1>5. Permuted(sort)
  BY <1>2, <1>4 DEF SortState, OneToOne, Permuted
<1>6. sort.at \in {"up", "down"} =>
         /\ sort.beg <= sort.bbb /\ sort.bbb <= sort.end
         /\ sort.bbb <= sort.eee + 1 /\ sort.eee < sort.end
  BY <1>2 DEF SortState, Partitioned
<1>7. sort.at = "sorted" => Sorted(sort)
  <2> SUFFICES ASSUME sort.at = "sorted", NEW i \in 0 .. n - 1, NEW j \in 0 .. n - 1, i < j
               PROVE  KeyAt(sort, i) <= KeyAt(sort, j)
    BY <1>4 DEF Sorted, KeyAt
  <2>1. DOMAIN sort.pending = {}
    BY <1>2 DEF SortState, RangesApart
  <2>2. ~Within(sort, i, j)
    BY <2>1 DEF Within
  <2>3. QED
    BY <1>2, <2>2 DEF SortState, FarInOrder
<1>8. QED
  BY <1>5, <1>6, <1>7 DEF SortsRight

(***************************************************************************)
(* qsort (qsort.c) ends with the elements it was given, each once and in   *)
(* the order of their keys, and on the way bbb and eee stay in the part    *)
(* that is sorted: for any keys and any number of elements.                *)
(***************************************************************************)
THEOREM QsortIsRight == CLibSpec => []SortsRight
<1>1. CLibSpec => []SortInv
  BY SortInvInit, SortInvNext, PTL DEF CLibSpec
<1>2. QED
  BY <1>1, SortInvIsRight, PTL

-------------------------------------------------------------------------------
(* A day counted from 1 March of year 0 by its year, in years of 400, 100, *)
(* 4 and 1, and its day in it.                                             *)
YearParts(day, year, diy, q, c, f, y) ==
    /\ q \in Nat /\ c \in 0 .. 3 /\ f \in 0 .. 24 /\ y \in 0 .. 3 /\ diy \in 0 .. 365
    /\ year = 400 * q + 100 * c + 4 * f + y
    /\ day = 146097 * q + 36524 * c + 1461 * f + 365 * y + diy
    /\ diy = 365 => y = 3 /\ (f # 24 \/ c = 3)
(* A day of such a year by its month, the days in it before that month and *)
(* its day in the month.                                                   *)
MonthParts(diy, month, start, mday) ==
    /\ month \in 0 .. 11 /\ mday \in 1 .. 31 /\ diy = start + mday - 1
    /\ start = (month \div 5) * 153 + (month % 5) * 31 - ((month % 5) \div 2)

LEMMA Div146097 ==
    ASSUME NEW n \in Nat, NEW q, q = n \div 146097, NEW r, r = n % 146097
    PROVE  q \in Nat /\ r \in Nat /\ r < 146097 /\ n = 146097 * q + r
OBVIOUS
LEMMA Div36524 ==
    ASSUME NEW n \in Nat, NEW q, q = n \div 36524, NEW r, r = n % 36524
    PROVE  q \in Nat /\ r \in Nat /\ r < 36524 /\ n = 36524 * q + r
OBVIOUS
LEMMA Div1461 ==
    ASSUME NEW n \in Nat, NEW q, q = n \div 1461, NEW r, r = n % 1461
    PROVE  q \in Nat /\ r \in Nat /\ r < 1461 /\ n = 1461 * q + r
OBVIOUS
LEMMA Div365 ==
    ASSUME NEW n \in Nat, NEW q, q = n \div 365, NEW r, r = n % 365
    PROVE  q \in Nat /\ r \in Nat /\ r < 365 /\ n = 365 * q + r
OBVIOUS
LEMMA Div153 ==
    ASSUME NEW n \in Nat, NEW q, q = n \div 153, NEW r, r = n % 153
    PROVE  q \in Nat /\ r \in Nat /\ r < 153 /\ n = 153 * q + r
OBVIOUS
LEMMA Div61 ==
    ASSUME NEW n \in Nat, NEW q, q = n \div 61, NEW r, r = n % 61
    PROVE  q \in Nat /\ r \in Nat /\ r < 61 /\ n = 61 * q + r
OBVIOUS
LEMMA Div31 ==
    ASSUME NEW n \in Nat, NEW q, q = n \div 31, NEW r, r = n % 31
    PROVE  q \in Nat /\ r \in Nat /\ r < 31 /\ n = 31 * q + r
OBVIOUS
LEMMA Split5 ==
    ASSUME NEW n \in Nat, NEW q \in Nat, NEW r \in Nat, n = 5 * q + r, r < 5
    PROVE  n \div 5 = q /\ n % 5 = r
OBVIOUS

LEMMA CalendarIs ==
    /\ DaysTo1970 = 719468 /\ QuadCentury = 146097 /\ Century = 36524 /\ QuadYear = 1461
    /\ QuintMonth = 153
BY DEF DaysTo1970, QuadCentury, Century, QuadYear, QuintMonth

LEMMA YearOfDayIs ==
    ASSUME NEW day \in Nat
    PROVE  \E q, c, f, y \in Int :
              YearParts(day, YearOfDay(day).year, YearOfDay(day).diy, q, c, f, y)
<1>1. PICK q \in Int : q = day \div 146097
  OBVIOUS
<1>2. PICK r \in Int : r = day % 146097
  OBVIOUS
<1>3. q \in Nat /\ r \in Nat /\ r < 146097 /\ day = 146097 * q + r
  BY ONLY day \in Nat, <1>1, <1>2, Div146097
<1>4. CASE r = 146096
  <2>1. YearOfDay(day) = [year |-> ((q * 4 + 3) * 25 + 24) * 4 + 3, diy |-> 365]
    BY <1>1, <1>2, <1>4, CalendarIs DEF YearOfDay
  <2>2. YearOfDay(day).year = ((q * 4 + 3) * 25 + 24) * 4 + 3 /\ YearOfDay(day).diy = 365
    BY <2>1
  <2>3. PICK c \in Int : c = 3
    OBVIOUS
  <2>4. PICK f \in Int : f = 24
    OBVIOUS
  <2>5. YearParts(day, YearOfDay(day).year, YearOfDay(day).diy, q, c, f, c)
    BY <1>3, <1>4, <2>2, <2>3, <2>4 DEF YearParts
  <2>6. QED
    BY <2>5
<1>5. CASE r # 146096
  <2>1. PICK c \in Int : c = r \div 36524
    BY ONLY <1>3
  <2>2. PICK dic \in Int : dic = r % 36524
    BY ONLY <1>3
  <2>3. c \in Nat /\ dic \in Nat /\ dic < 36524 /\ r = 36524 * c + dic
    BY ONLY <2>1, <2>2, <1>3, Div36524
  <2>4. c <= 3
    BY ONLY <1>3, <1>5, <2>3
  <2>5. PICK f \in Int : f = dic \div 1461
    BY ONLY <2>3
  <2>6. PICK diqy \in Int : diqy = dic % 1461
    BY ONLY <2>3
  <2>7. f \in Nat /\ diqy \in Nat /\ diqy < 1461 /\ dic = 1461 * f + diqy
    BY ONLY <2>3, <2>5, <2>6, Div1461
  <2>8. f <= 24 /\ (f = 24 => diqy < 1460)
    BY ONLY <2>3, <2>7
  <2>9. PICK a \in Int : a = diqy \div 365
    BY ONLY <2>7
  <2>10. PICK b \in Int : b = diqy % 365
    BY ONLY <2>7
  <2>11. a \in Nat /\ b \in Nat /\ b < 365 /\ diqy = 365 * a + b
    BY ONLY <2>7, <2>9, <2>10, Div365
  <2>12. a <= 4 /\ (a = 4 => b = 0)
    BY ONLY <2>7, <2>11
  <2>13. PICK y \in Int : y = IF a = 4 THEN 3 ELSE a
    BY ONLY <2>11
  <2>14. PICK d : d = diqy - y * 365
    OBVIOUS
  <2>15. /\ y \in Nat /\ y <= 3 /\ d \in Nat /\ d <= 365 /\ diqy = 365 * y + d
         /\ d = 365 => y = 3 /\ diqy = 1460
    BY ONLY <2>7, <2>11, <2>12, <2>13, <2>14
  <2>16. PICK year \in Int : year = ((q * 4 + c) * 25 + f) * 4 + y
    BY ONLY q \in Int, c \in Int, f \in Int, y \in Int
  <2>17. YearOfDay(day) = [year |-> year, diy |-> d]
    BY ONLY <1>1, <1>2, <1>5, <2>1, <2>2, <2>5, <2>6, <2>9, <2>13, <2>14, <2>16, CalendarIs
       DEF YearOfDay
  <2>18. year = 400 * q + 100 * c + 4 * f + y
    BY ONLY <1>3, <2>3, <2>7, <2>15, <2>16
  <2>19. day = 146097 * q + 36524 * c + 1461 * f + 365 * y + d
    BY ONLY <1>3, <2>3, <2>7, <2>15
  <2>20. d = 365 => y = 3 /\ (f # 24 \/ c = 3)
    BY ONLY <2>8, <2>15
  <2>21. c \in 0 .. 3 /\ f \in 0 .. 24 /\ y \in 0 .. 3 /\ d \in 0 .. 365
    BY ONLY <2>3, <2>4, <2>7, <2>8, <2>15
  <2>22. YearParts(day, year, d, q, c, f, y)
    BY ONLY <1>3, <2>18, <2>19, <2>20, <2>21 DEF YearParts
  <2>23. YearOfDay(day).year = year /\ YearOfDay(day).diy = d
    BY ONLY <2>17
  <2>24. QED
    BY <2>22, <2>23
<1>6. QED
  BY <1>4, <1>5

(* Every fourth year is a leap year but for three of four centuries.       *)
LEMMA LeapIs ==
    ASSUME NEW day \in Nat, NEW year, NEW diy, NEW q, NEW c, NEW f, NEW y,
           YearParts(day, year, diy, q, c, f, y)
    PROVE  /\ isleapyear(year) = IF y = 0 /\ (f # 0 \/ c = 0) THEN 1 ELSE 0
           /\ Leap(year) <=> y = 0 /\ (f # 0 \/ c = 0)
           /\ Leap(year + 1) <=> y = 3 /\ (f # 24 \/ c = 3)
<1>1. /\ q \in Nat /\ c \in 0 .. 3 /\ f \in 0 .. 24 /\ y \in 0 .. 3
      /\ year = 400 * q + 100 * c + 4 * f + y
  BY DEF YearParts
<1>2. year \in Nat
  BY <1>1
<1>3. year % 4 = y /\ year \div 4 = 100 * q + 25 * c + f
  BY <1>1
<1>4. (year \div 4) % 100 = 25 * c + f
  BY <1>1, <1>3
<1>5. year % 100 = 4 * f + y /\ year % 400 = 100 * c + 4 * f + y
  BY <1>1
<1>6. year % 4 # 0 \/ (year \div 4) % 100 \in {25, 50, 75} <=> ~(y = 0 /\ (f # 0 \/ c = 0))
  BY <1>1, <1>3, <1>4
<1>7. isleapyear(year) = IF y = 0 /\ (f # 0 \/ c = 0) THEN 1 ELSE 0
  BY <1>6 DEF isleapyear
<1>8. Leap(year) <=> y = 0 /\ (f # 0 \/ c = 0)
  BY <1>1, <1>3, <1>5 DEF Leap
<1>9. Leap(year + 1) <=> y = 3 /\ (f # 24 \/ c = 3)
  <2>1. PICK n \in Nat : n = year + 1
    BY <1>2
  <2>2. n % 4 = 0 <=> y = 3
    BY <1>1, <2>1
  <2>3. y = 3 => (n % 100 = 0 <=> f = 24)
    BY <1>1, <2>1
  <2>4. y = 3 /\ f = 24 => (n % 400 = 0 <=> c = 3)
    BY <1>1, <2>1
  <2>5. Leap(n) <=> y = 3 /\ (f # 24 \/ c = 3)
    BY <2>2, <2>3, <2>4 DEF Leap
  <2>6. QED
    BY <2>1, <2>5
<1>10. QED
  BY <1>7, <1>8, <1>9

(* The days before a year of the calendar.                                 *)
LEMMA YearStartIs ==
    ASSUME NEW day \in Nat, NEW year, NEW diy, NEW q, NEW c, NEW f, NEW y,
           YearParts(day, year, diy, q, c, f, y)
    PROVE  /\ YearStart(year + 1) = day - diy - 719468 + 306
           /\ YearStart(year) = day - diy - 719468 - 59 - isleapyear(year)
<1>1. /\ q \in Nat /\ c \in 0 .. 3 /\ f \in 0 .. 24 /\ y \in 0 .. 3 /\ diy \in 0 .. 365
      /\ year = 400 * q + 100 * c + 4 * f + y
      /\ day = 146097 * q + 36524 * c + 1461 * f + 365 * y + diy
  BY DEF YearParts
<1>2. year \in Nat
  BY <1>1
<1>3. year \div 4 = 100 * q + 25 * c + f /\ year \div 100 = 4 * q + c /\ year \div 400 = q
  BY <1>1
<1>4. YearStart(year + 1) = day - diy - 719468 + 306
  <2>1. PICK n \in Nat : n = year + 1
    BY <1>2
  <2>2. n - 1 = year
    BY <1>2, <2>1
  <2>3. YearStart(n) = 365 * (n - 1970) + (year \div 4) - (year \div 100) + (year \div 400) - 477
    BY <2>2 DEF YearStart
  <2>4. YearStart(n) = day - diy - 719468 + 306
    BY <1>1, <1>3, <2>1, <2>3
  <2>5. QED
    BY <2>1, <2>4
<1>5. PICK p \in Int : p = year - 1
  BY <1>2
<1>6. PICK leap \in Int : leap = IF y = 0 /\ (f # 0 \/ c = 0) THEN 1 ELSE 0
  OBVIOUS
<1>7. p \div 4 = 100 * q + 25 * c + f - IF y = 0 THEN 1 ELSE 0
  BY <1>1, <1>5
<1>8. p \div 100 = 4 * q + c - IF y = 0 /\ f = 0 THEN 1 ELSE 0
  BY <1>1, <1>5
<1>9. p \div 400 = q - IF y = 0 /\ f = 0 /\ c = 0 THEN 1 ELSE 0
  BY <1>1, <1>5
<1>10. YearStart(year) = 365 * (year - 1970) + (p \div 4) - (p \div 100) + (p \div 400) - 477
  BY <1>5 DEF YearStart
<1>11. YearStart(year) = day - diy - 719468 - 59 - leap
  BY <1>1, <1>6, <1>7, <1>8, <1>9, <1>10
<1>12. isleapyear(year) = leap
  BY <1>6, LeapIs
<1>13. QED
  BY <1>4, <1>11, <1>12

(* The month and the day in it as dateconv finds them.                     *)
FindsMonth(diy, inquint, inbi, month, d) ==
    /\ inquint = diy % QuintMonth /\ inbi = inquint % 61 /\ d = inbi % 31
    /\ month = (inbi \div 31) + (diy \div QuintMonth) * 5 + (inquint \div 61) * 2
LEMMA MonthOfDayIs ==
    ASSUME NEW diy \in 0 .. 365, NEW inquint, NEW inbi, NEW month, NEW d,
           FindsMonth(diy, inquint, inbi, month, d)
    PROVE  /\ MonthParts(diy, month, diy - d, d + 1) /\ d \in Nat /\ month \in Nat
           /\ month \in {1, 3, 6, 8} => d < 30
           /\ month = 11 => d < 29 /\ (diy # 365 => d < 28)
           /\ month >= 10 <=> diy >= 306
<1>0. /\ inquint = diy % QuintMonth /\ inbi = inquint % 61 /\ d = inbi % 31
      /\ month = (inbi \div 31) + (diy \div QuintMonth) * 5 + (inquint \div 61) * 2
  BY DEF FindsMonth
<1>1. QuintMonth = 153
  BY CalendarIs
<1>2. PICK a : a = diy \div 153
  OBVIOUS
<1>3. inquint = diy % 153
  BY ONLY <1>0, <1>1
<1>4. diy \in Nat /\ diy <= 365
  OBVIOUS
<1>5. a \in Nat /\ inquint \in Nat /\ inquint < 153 /\ diy = 153 * a + inquint
  BY ONLY <1>2, <1>3, <1>4, Div153
<1>6. PICK b : b = inquint \div 61
  OBVIOUS
<1>7. b \in Nat /\ inbi \in Nat /\ inbi < 61 /\ inquint = 61 * b + inbi
  BY ONLY <1>5, <1>6, <1>0, Div61
<1>8. PICK e : e = inbi \div 31
  OBVIOUS
<1>9. d = inbi % 31
  BY <1>0
<1>10. e \in Nat /\ d \in Nat /\ d < 31 /\ inbi = 31 * e + d
  BY ONLY <1>7, <1>8, <1>9, Div31
<1>11. month = e + a * 5 + b * 2
  BY ONLY <1>0, <1>1, <1>2, <1>6, <1>8
<1>12. a <= 2 /\ b <= 2 /\ e <= 1
  BY ONLY <1>4, <1>5, <1>7, <1>10
<1>13. (b = 2 => e = 0) /\ (e = 1 => d < 30) /\ (a = 2 => b = 0)
  BY ONLY <1>4, <1>5, <1>7, <1>10, <1>12
<1>14. a = 2 /\ e = 1 => d < 29 /\ (diy # 365 => d < 28)
  BY ONLY <1>4, <1>5, <1>7, <1>10, <1>12, <1>13
<1>15. PICK g \in Nat : g = e + 2 * b
  BY ONLY <1>7, <1>10
<1>16. g < 5 /\ month = 5 * a + g /\ month \in Nat
  BY ONLY <1>5, <1>7, <1>10, <1>11, <1>12, <1>13, <1>15
<1>17. month \div 5 = a /\ month % 5 = g
  BY ONLY <1>5, <1>15, <1>16, g \in Nat, Split5
<1>18. g \div 2 = b
  BY ONLY <1>7, <1>10, <1>12, <1>15
<1>19. diy - d = 153 * a + 31 * g - b
  BY ONLY <1>5, <1>7, <1>10, <1>15
<1>20. diy - d = (month \div 5) * 153 + (month % 5) * 31 - ((month % 5) \div 2)
  BY ONLY <1>5, <1>7, <1>10, <1>15, <1>17, <1>18, <1>19
<1>21. month <= 11
  BY ONLY <1>5, <1>7, <1>10, <1>12, <1>13, <1>15, <1>16
<1>22. month \in {1, 3, 6, 8} => e = 1
  BY ONLY <1>5, <1>7, <1>10, <1>12, <1>13, <1>15, <1>16
<1>23. month = 11 => a = 2 /\ e = 1
  BY ONLY <1>5, <1>7, <1>10, <1>12, <1>13, <1>15, <1>16
<1>24. month >= 10 <=> a = 2
  BY ONLY <1>5, <1>7, <1>10, <1>12, <1>13, <1>15, <1>16
<1>25. a = 2 <=> diy >= 306
  BY ONLY <1>4, <1>5
<1>26. month \in 0 .. 11 /\ d + 1 \in 1 .. 31 /\ diy = (diy - d) + (d + 1) - 1
  BY ONLY <1>4, <1>10, <1>16, <1>21
<1>27. MonthParts(diy, month, diy - d, d + 1)
  BY ONLY <1>20, <1>26 DEF MonthParts
<1>28. /\ month \in {1, 3, 6, 8} => d < 30
       /\ month = 11 => d < 29 /\ (diy # 365 => d < 28)
       /\ month >= 10 <=> diy >= 306
  BY ONLY <1>13, <1>14, <1>22, <1>23, <1>24, <1>25
<1>29. QED
  BY <1>10, <1>16, <1>27, <1>28

LEMMA MonthStartIs ==
    ASSUME NEW year, NEW mon \in 0 .. 12, NEW leap \in Int, leap = IF Leap(year) THEN 1 ELSE 0
    PROVE  /\ mon = 0 => MonthStart(year, mon) = 0
           /\ mon = 1 => MonthStart(year, mon) = 31
           /\ mon = 2 => MonthStart(year, mon) = 59 + leap
           /\ mon = 3 => MonthStart(year, mon) = 90 + leap
           /\ mon = 4 => MonthStart(year, mon) = 120 + leap
           /\ mon = 5 => MonthStart(year, mon) = 151 + leap
           /\ mon = 6 => MonthStart(year, mon) = 181 + leap
           /\ mon = 7 => MonthStart(year, mon) = 212 + leap
           /\ mon = 8 => MonthStart(year, mon) = 243 + leap
           /\ mon = 9 => MonthStart(year, mon) = 273 + leap
           /\ mon = 10 => MonthStart(year, mon) = 304 + leap
           /\ mon = 11 => MonthStart(year, mon) = 334 + leap
           /\ mon = 12 => MonthStart(year, mon) = 365 + leap
<1>1. mon = 0 => MonthStart(year, mon) = 0
  BY DEF MonthStart
<1>2. mon = 1 => MonthStart(year, mon) = 31
  BY DEF MonthStart
<1>3. mon = 2 => MonthStart(year, mon) = 59 + leap
  BY DEF MonthStart
<1>4. mon = 3 => MonthStart(year, mon) = 90 + leap
  BY DEF MonthStart
<1>5. mon = 4 => MonthStart(year, mon) = 120 + leap
  BY DEF MonthStart
<1>6. mon = 5 => MonthStart(year, mon) = 151 + leap
  BY DEF MonthStart
<1>7. mon = 6 => MonthStart(year, mon) = 181 + leap
  BY DEF MonthStart
<1>8. mon = 7 => MonthStart(year, mon) = 212 + leap
  BY DEF MonthStart
<1>9. mon = 8 => MonthStart(year, mon) = 243 + leap
  BY DEF MonthStart
<1>10. mon = 9 => MonthStart(year, mon) = 273 + leap
  BY DEF MonthStart
<1>11. mon = 10 => MonthStart(year, mon) = 304 + leap
  BY DEF MonthStart
<1>12. mon = 11 => MonthStart(year, mon) = 334 + leap
  BY DEF MonthStart
<1>13. mon = 12 => MonthStart(year, mon) = 365 + leap
  BY DEF MonthStart
<1>14. QED
  BY <1>1, <1>2, <1>3, <1>4, <1>5, <1>6, <1>7, <1>8, <1>9, <1>10, <1>11, <1>12, <1>13

LEMMA MonthBegins ==
    ASSUME NEW diy, NEW month, NEW start, NEW mday, MonthParts(diy, month, start, mday)
    PROVE  /\ month = 0 => start = 0
           /\ month = 1 => start = 31
           /\ month = 2 => start = 61
           /\ month = 3 => start = 92
           /\ month = 4 => start = 122
           /\ month = 5 => start = 153
           /\ month = 6 => start = 184
           /\ month = 7 => start = 214
           /\ month = 8 => start = 245
           /\ month = 9 => start = 275
           /\ month = 10 => start = 306
           /\ month = 11 => start = 337
BY DEF MonthParts

(* What dateconv makes of a day.                                           *)
DateParts(day, date, year, diy, q, c, f, y, month, start, mday) ==
    /\ YearParts(day + 719468, year, diy, q, c, f, y)
    /\ MonthParts(diy, month, start, mday)
    /\ month \in {1, 3, 6, 8} => mday <= 30
    /\ month = 11 => mday <= 29 /\ (diy # 365 => mday <= 28)
    /\ month >= 10 <=> diy >= 306
    /\ date \in [tm_mday : Int, tm_mon : Int, tm_year : Int, tm_yday : Int]
    /\ date.tm_mday = mday
    /\ date.tm_mon = IF month >= 10 THEN month - 10 ELSE month + 2
    /\ date.tm_year = (IF month >= 10 THEN year + 1 ELSE year) - 1900
    /\ date.tm_yday = IF month >= 10 THEN diy - 306 ELSE diy + 59 + isleapyear(year)

LEMMA DateconvIs ==
    ASSUME NEW day \in Nat
    PROVE  \E year, diy, q, c, f, y, month, start, mday :
              DateParts(day, dateconv(day), year, diy, q, c, f, y, month, start, mday)
<1>1. PICK n \in Nat : n = day + 719468
  OBVIOUS
<1>2. n = day + DaysTo1970
  BY <1>1, CalendarIs
<1>3. PICK w : w = YearOfDay(n)
  OBVIOUS
<1>4. PICK q, c, f, y \in Int : YearParts(n, w.year, w.diy, q, c, f, y)
  BY <1>3, YearOfDayIs
<1>5. PICK year \in Int : year = w.year
  BY <1>4 DEF YearParts
<1>6. PICK diy \in 0 .. 365 : diy = w.diy
  BY <1>4 DEF YearParts
<1>7. PICK inquint : inquint = diy % QuintMonth
  OBVIOUS
<1>8. PICK inbi : inbi = inquint % 61
  OBVIOUS
<1>9. PICK month : month = (inbi \div 31) + (diy \div QuintMonth) * 5 + (inquint \div 61) * 2
  OBVIOUS
<1>10. PICK d : d = inbi % 31
  OBVIOUS
<1>11. /\ MonthParts(diy, month, diy - d, d + 1) /\ d \in Nat /\ month \in Nat
       /\ month \in {1, 3, 6, 8} => d < 30
       /\ month = 11 => d < 29 /\ (diy # 365 => d < 28)
       /\ month >= 10 <=> diy >= 306
  <2>1. FindsMonth(diy, inquint, inbi, month, d)
    BY ONLY <1>7, <1>8, <1>9, <1>10 DEF FindsMonth
  <2>2. QED
    BY ONLY diy \in 0 .. 365, <2>1, MonthOfDayIs
<1>12. d \in Int /\ month \in Int
  BY <1>11
<1>13. YearParts(n, year, diy, q, c, f, y)
  BY <1>4, <1>5, <1>6
<1>14. isleapyear(year) \in Int
  BY DEF isleapyear
<1>15. PICK late : late = IF month >= 10 THEN year + 1 ELSE year
  OBVIOUS
<1>16. PICK mon \in Int : mon = IF month >= 10 THEN month - 10 ELSE month + 2
  BY <1>12
<1>17. PICK yday \in Int : yday = IF month >= 10 THEN diy - 306 ELSE diy + 59 + isleapyear(late)
  BY <1>14, <1>15
<1>18. PICK mday \in Int : mday = d + 1
  BY <1>12
<1>19. PICK since \in Int : since = late - 1900
  BY <1>15
<1>20. dateconv(day) = [tm_mday |-> mday, tm_mon |-> mon, tm_year |-> since, tm_yday |-> yday]
  BY ONLY <1>2, <1>3, <1>5, <1>6, <1>7, <1>8, <1>9, <1>10, <1>15, <1>16, <1>17, <1>18, <1>19
     DEF dateconv
<1>21. yday = IF month >= 10 THEN diy - 306 ELSE diy + 59 + isleapyear(year)
  BY ONLY <1>15, <1>17
<1>22. DateParts(day, dateconv(day), year, diy, q, c, f, y, month, diy - d, mday)
  BY ONLY <1>1, <1>11, <1>12, <1>13, <1>15, <1>16, <1>18, <1>19, <1>20, <1>21,
          year \in Int, mday \in Int, mon \in Int, since \in Int, yday \in Int
     DEF DateParts
<1>23. QED
  BY <1>22

(* How a date is in the calendar.                                          *)
InCalendar(day, year, mon, mday, yday) ==
    /\ mon \in 0 .. 11 /\ mday >= 1
    /\ mday <= MonthStart(year, mon + 1) - MonthStart(year, mon)
    /\ yday = MonthStart(year, mon) + mday - 1
    /\ day = YearStart(year) + yday

LEMMA EarlyInCalendar ==
    ASSUME NEW day \in Nat, NEW date, NEW year, NEW diy, NEW q, NEW c, NEW f, NEW y,
           NEW month, NEW start, NEW mday, month < 10,
           DateParts(day, date, year, diy, q, c, f, y, month, start, mday)
    PROVE  InCalendar(day, year, month + 2, mday, date.tm_yday)
<1>1. /\ YearParts(day + 719468, year, diy, q, c, f, y)
      /\ MonthParts(diy, month, start, mday)
      /\ month \in {1, 3, 6, 8} => mday <= 30
  BY DEF DateParts
<1>2. month \in 0 .. 11 /\ mday \in 1 .. 31 /\ diy = start + mday - 1 /\ start \in Int
  BY <1>1 DEF MonthParts
<1>3. date.tm_yday = diy + 59 + isleapyear(year)
  BY <1>2 DEF DateParts
<1>4. PICK n \in Nat : n = day + 719468
  OBVIOUS
<1>5. YearParts(n, year, diy, q, c, f, y)
  BY ONLY <1>1, <1>4
<1>6. PICK leap \in Int : leap = IF Leap(year) THEN 1 ELSE 0
  OBVIOUS
<1>7. isleapyear(year) = leap
  BY ONLY n \in Nat, <1>5, <1>6, LeapIs
<1>8. YearStart(year) = n - diy - 719468 - 59 - isleapyear(year)
  BY ONLY n \in Nat, <1>5, YearStartIs
<1>9. diy \in Int
  BY ONLY <1>5 DEF YearParts
<1>10. PICK mon \in 0 .. 12 : mon = month + 2
  BY ONLY <1>2, month < 10
<1>11. PICK next \in 0 .. 12 : next = mon + 1
  BY ONLY <1>2, <1>10, month < 10
<1>12. /\ mon = 0 => MonthStart(year, mon) = 0
       /\ mon = 1 => MonthStart(year, mon) = 31
       /\ mon = 2 => MonthStart(year, mon) = 59 + leap
       /\ mon = 3 => MonthStart(year, mon) = 90 + leap
       /\ mon = 4 => MonthStart(year, mon) = 120 + leap
       /\ mon = 5 => MonthStart(year, mon) = 151 + leap
       /\ mon = 6 => MonthStart(year, mon) = 181 + leap
       /\ mon = 7 => MonthStart(year, mon) = 212 + leap
       /\ mon = 8 => MonthStart(year, mon) = 243 + leap
       /\ mon = 9 => MonthStart(year, mon) = 273 + leap
       /\ mon = 10 => MonthStart(year, mon) = 304 + leap
       /\ mon = 11 => MonthStart(year, mon) = 334 + leap
       /\ mon = 12 => MonthStart(year, mon) = 365 + leap
  BY ONLY mon \in 0 .. 12, leap \in Int, <1>6, MonthStartIs
<1>13. /\ next = 0 => MonthStart(year, next) = 0
       /\ next = 1 => MonthStart(year, next) = 31
       /\ next = 2 => MonthStart(year, next) = 59 + leap
       /\ next = 3 => MonthStart(year, next) = 90 + leap
       /\ next = 4 => MonthStart(year, next) = 120 + leap
       /\ next = 5 => MonthStart(year, next) = 151 + leap
       /\ next = 6 => MonthStart(year, next) = 181 + leap
       /\ next = 7 => MonthStart(year, next) = 212 + leap
       /\ next = 8 => MonthStart(year, next) = 243 + leap
       /\ next = 9 => MonthStart(year, next) = 273 + leap
       /\ next = 10 => MonthStart(year, next) = 304 + leap
       /\ next = 11 => MonthStart(year, next) = 334 + leap
       /\ next = 12 => MonthStart(year, next) = 365 + leap
  BY ONLY next \in 0 .. 12, leap \in Int, <1>6, MonthStartIs
<1>14. /\ month = 0 => start = 0
       /\ month = 1 => start = 31
       /\ month = 2 => start = 61
       /\ month = 3 => start = 92
       /\ month = 4 => start = 122
       /\ month = 5 => start = 153
       /\ month = 6 => start = 184
       /\ month = 7 => start = 214
       /\ month = 8 => start = 245
       /\ month = 9 => start = 275
       /\ month = 10 => start = 306
       /\ month = 11 => start = 337
  BY ONLY <1>1, MonthBegins
<1>15. /\ MonthStart(year, mon) = start + 59 + leap
       /\ MonthStart(year, next) = start + 59 + leap + IF month \in {1, 3, 6, 8} THEN 30 ELSE 31
  <2>1. CASE month = 0
    BY ONLY <2>1, <1>2, <1>10, <1>11, <1>12, <1>13, <1>14, leap \in Int
  <2>2. CASE month = 1
    BY ONLY <2>2, <1>2, <1>10, <1>11, <1>12, <1>13, <1>14, leap \in Int
  <2>3. CASE month = 2
    BY ONLY <2>3, <1>2, <1>10, <1>11, <1>12, <1>13, <1>14, leap \in Int
  <2>4. CASE month = 3
    BY ONLY <2>4, <1>2, <1>10, <1>11, <1>12, <1>13, <1>14, leap \in Int
  <2>5. CASE month = 4
    BY ONLY <2>5, <1>2, <1>10, <1>11, <1>12, <1>13, <1>14, leap \in Int
  <2>6. CASE month = 5
    BY ONLY <2>6, <1>2, <1>10, <1>11, <1>12, <1>13, <1>14, leap \in Int
  <2>7. CASE month = 6
    BY ONLY <2>7, <1>2, <1>10, <1>11, <1>12, <1>13, <1>14, leap \in Int
  <2>8. CASE month = 7
    BY ONLY <2>8, <1>2, <1>10, <1>11, <1>12, <1>13, <1>14, leap \in Int
  <2>9. CASE month = 8
    BY ONLY <2>9, <1>2, <1>10, <1>11, <1>12, <1>13, <1>14, leap \in Int
  <2>10. CASE month = 9
    BY ONLY <2>10, <1>2, <1>10, <1>11, <1>12, <1>13, <1>14, leap \in Int
  <2>11. QED
    BY ONLY <2>1, <2>2, <2>3, <2>4, <2>5, <2>6, <2>7, <2>8, <2>9, <2>10, <1>2, month < 10
<1>16. mday <= MonthStart(year, next) - MonthStart(year, mon)
  BY ONLY <1>1, <1>2, <1>15, leap \in Int
<1>17. date.tm_yday = MonthStart(year, mon) + mday - 1
  BY ONLY <1>2, <1>3, <1>7, <1>15, leap \in Int
<1>18. day = YearStart(year) + date.tm_yday
  BY ONLY <1>3, <1>4, <1>7, <1>8, <1>9, leap \in Int, day \in Nat
<1>19. QED
  BY ONLY <1>2, <1>10, <1>11, <1>16, <1>17, <1>18, month < 10 DEF InCalendar

LEMMA LateInCalendar ==
    ASSUME NEW day \in Nat, NEW date, NEW year, NEW diy, NEW q, NEW c, NEW f, NEW y,
           NEW month, NEW start, NEW mday, month >= 10,
           DateParts(day, date, year, diy, q, c, f, y, month, start, mday)
    PROVE  InCalendar(day, year + 1, month - 10, mday, date.tm_yday)
<1>1. /\ YearParts(day + 719468, year, diy, q, c, f, y)
      /\ MonthParts(diy, month, start, mday)
      /\ month = 11 => mday <= 29 /\ (diy # 365 => mday <= 28)
  BY DEF DateParts
<1>2. month \in 0 .. 11 /\ mday \in 1 .. 31 /\ diy = start + mday - 1 /\ start \in Int
  BY <1>1 DEF MonthParts
<1>3. date.tm_yday = diy - 306
  BY <1>2 DEF DateParts
<1>4. PICK n \in Nat : n = day + 719468
  OBVIOUS
<1>5. YearParts(n, year, diy, q, c, f, y)
  BY ONLY <1>1, <1>4
<1>6. PICK late : late = year + 1
  OBVIOUS
<1>7. PICK leap \in Int : leap = IF Leap(late) THEN 1 ELSE 0
  OBVIOUS
<1>8. diy = 365 => leap = 1
  <2>1. Leap(year + 1) <=> y = 3 /\ (f # 24 \/ c = 3)
    BY ONLY n \in Nat, <1>5, LeapIs
  <2>2. diy = 365 => y = 3 /\ (f # 24 \/ c = 3)
    BY ONLY <1>5 DEF YearParts
  <2>3. QED
    BY ONLY <2>1, <2>2, <1>6, <1>7
<1>9. leap = 0 \/ leap = 1
  BY ONLY <1>7
<1>10. YearStart(late) = n - diy - 719468 + 306
  BY ONLY n \in Nat, <1>5, <1>6, YearStartIs
<1>11. diy \in Int
  BY ONLY <1>5 DEF YearParts
<1>12. PICK mon \in 0 .. 12 : mon = month - 10
  BY ONLY <1>2, month >= 10
<1>13. PICK next \in 0 .. 12 : next = mon + 1
  BY ONLY <1>2, <1>12, month >= 10
<1>14. (mon = 0 => MonthStart(late, mon) = 0) /\ (mon = 1 => MonthStart(late, mon) = 31)
  BY ONLY mon \in 0 .. 12, leap \in Int, <1>7, MonthStartIs
<1>15. (next = 1 => MonthStart(late, next) = 31) /\ (next = 2 => MonthStart(late, next) = 59 + leap)
  BY ONLY next \in 0 .. 12, leap \in Int, <1>7, MonthStartIs
<1>16. (month = 10 => start = 306) /\ (month = 11 => start = 337)
  BY ONLY <1>1, MonthBegins
<1>17. CASE month = 10
  <2>1. MonthStart(late, mon) = 0 /\ MonthStart(late, next) = 31
    BY ONLY <1>12, <1>13, <1>14, <1>15, <1>17
  <2>2. mday <= MonthStart(late, next) - MonthStart(late, mon)
    BY ONLY <2>1, <1>2
  <2>3. date.tm_yday = MonthStart(late, mon) + mday - 1
    BY ONLY <2>1, <1>2, <1>3, <1>16, <1>17
  <2>4. day = YearStart(late) + date.tm_yday
    BY ONLY <1>3, <1>4, <1>10, <1>11, day \in Nat
  <2>5. QED
    BY ONLY <1>2, <1>6, <1>12, <1>13, <2>2, <2>3, <2>4, <1>17 DEF InCalendar
<1>18. CASE month = 11
  <2>1. MonthStart(late, mon) = 31 /\ MonthStart(late, next) = 59 + leap
    BY ONLY <1>12, <1>13, <1>14, <1>15, <1>18
  <2>2. mday <= MonthStart(late, next) - MonthStart(late, mon)
    BY ONLY <2>1, <1>1, <1>2, <1>8, <1>9, <1>18
  <2>3. date.tm_yday = MonthStart(late, mon) + mday - 1
    BY ONLY <2>1, <1>2, <1>3, <1>16, <1>18
  <2>4. day = YearStart(late) + date.tm_yday
    BY ONLY <1>3, <1>4, <1>10, <1>11, day \in Nat
  <2>5. QED
    BY ONLY <1>2, <1>6, <1>12, <1>13, <2>2, <2>3, <2>4, <1>18 DEF InCalendar
<1>19. QED
  BY ONLY <1>2, <1>17, <1>18, month >= 10

LEMMA DateIsInCalendar ==
    ASSUME NEW day \in Nat, NEW date, NEW year, NEW diy, NEW q, NEW c, NEW f, NEW y,
           NEW month, NEW start, NEW mday,
           DateParts(day, date, year, diy, q, c, f, y, month, start, mday)
    PROVE  DateIsRight(day, date)
<1>1. year \in Int /\ month \in 0 .. 11 /\ date.tm_mday = mday
  BY DEF DateParts, YearParts, MonthParts
<1>2. CASE month < 10
  <2>1. InCalendar(day, year, month + 2, mday, date.tm_yday)
    BY <1>2, EarlyInCalendar
  <2>2. date.tm_year + 1900 = year /\ date.tm_mon = month + 2
    BY <1>1, <1>2 DEF DateParts
  <2>3. InCalendar(day, date.tm_year + 1900, date.tm_mon, date.tm_mday, date.tm_yday)
    BY ONLY <1>1, <2>1, <2>2
  <2>4. QED
    BY ONLY <2>3 DEF InCalendar, DateIsRight
<1>3. CASE month >= 10
  <2>1. InCalendar(day, year + 1, month - 10, mday, date.tm_yday)
    BY <1>3, LateInCalendar
  <2>2. date.tm_year + 1900 = year + 1 /\ date.tm_mon = month - 10
    BY <1>1, <1>3 DEF DateParts
  <2>3. InCalendar(day, date.tm_year + 1900, date.tm_mon, date.tm_mday, date.tm_yday)
    BY ONLY <1>1, <2>1, <2>2
  <2>4. QED
    BY ONLY <2>3 DEF InCalendar, DateIsRight
<1>4. QED
  BY <1>1, <1>2, <1>3


LEMMA Split12 ==
    ASSUME NEW n \in Int, NEW q \in Int, NEW r \in Int, n = 12 * q + r, 0 <= r, r < 12
    PROVE  n \div 12 = q /\ n % 12 = r
OBVIOUS
LEMMA Split4 ==
    ASSUME NEW n \in Int, NEW q \in Int, NEW r \in Int, n = 4 * q + r, 0 <= r, r < 4
    PROVE  n \div 4 = q /\ n % 4 = r
OBVIOUS
LEMMA Split100 ==
    ASSUME NEW n \in Int, NEW q \in Int, NEW r \in Int, n = 100 * q + r, 0 <= r, r < 100
    PROVE  n \div 100 = q /\ n % 100 = r
OBVIOUS

(* timegm finds the day whose date it is given, also when the month is     *)
(* given in years before or after.                                         *)
LEMMA DayOfIs ==
    ASSUME NEW day \in Nat, NEW date, NEW year, NEW diy, NEW q, NEW c, NEW f, NEW y,
           NEW month, NEW start, NEW mday,
           DateParts(day, date, year, diy, q, c, f, y, month, start, mday),
           NEW k \in Int, NEW tm, tm.tm_mon = date.tm_mon + 12 * k,
           tm.tm_year = date.tm_year - k, tm.tm_mday = mday
    PROVE  DayOf(tm) = day
<1>1. /\ YearParts(day + 719468, year, diy, q, c, f, y)
      /\ MonthParts(diy, month, start, mday)
  BY DEF DateParts
<1>2. month \in 0 .. 11 /\ mday \in 1 .. 31 /\ diy = start + mday - 1 /\ start \in Int
      /\ start = (month \div 5) * 153 + (month % 5) * 31 - ((month % 5) \div 2)
  BY <1>1 DEF MonthParts
<1>3. /\ q \in Nat /\ c \in 0 .. 3 /\ f \in 0 .. 24 /\ y \in 0 .. 3 /\ diy \in 0 .. 365
      /\ year = 400 * q + 100 * c + 4 * f + y
      /\ day + 719468 = 146097 * q + 36524 * c + 1461 * f + 365 * y + diy
  BY ONLY <1>1 DEF YearParts
<1>4. year \in Nat
  BY ONLY <1>3
<1>5. /\ date.tm_mon = IF month >= 10 THEN month - 10 ELSE month + 2
      /\ date.tm_year = (IF month >= 10 THEN year + 1 ELSE year) - 1900
  BY DEF DateParts
<1>6. PICK j \in Int : j = IF month >= 10 THEN k - 1 ELSE k
  OBVIOUS
<1>7. PICK signed : signed = tm.tm_mon - 2
  OBVIOUS
<1>8. signed = month + 12 * j /\ signed \in Int
  BY ONLY <1>2, <1>5, <1>6, <1>7, tm.tm_mon = date.tm_mon + 12 * k, k \in Int, j \in Int
<1>9. tm.tm_year + 1900 = year - j
  BY ONLY <1>2, <1>4, <1>5, <1>6, tm.tm_year = date.tm_year - k, k \in Int, j \in Int
<1>10. PICK back : back = IF signed < 0 THEN (11 - signed) \div 12 ELSE 0
  OBVIOUS
<1>11. back = IF signed < 0 THEN - j ELSE 0
  <2>1. PICK n \in Int : n = 11 - signed
    BY ONLY <1>8
  <2>2. PICK p \in Int : p = - j
    BY ONLY j \in Int
  <2>3. PICK r \in Int : r = 11 - month
    BY ONLY <1>2
  <2>4. n = 12 * p + r /\ 0 <= r /\ r < 12
    BY ONLY <1>2, <1>8, <2>1, <2>2, <2>3, j \in Int
  <2>5. n \div 12 = p
    BY ONLY <2>4, n \in Int, p \in Int, r \in Int, Split12
  <2>6. QED
    BY ONLY <1>10, <2>1, <2>2, <2>5
<1>12. PICK moved : moved = signed + 12 * back
  OBVIOUS
<1>13. moved = IF signed < 0 THEN month ELSE month + 12 * j
  BY ONLY <1>2, <1>8, <1>11, <1>12, j \in Int
<1>14. PICK over : over = moved \div 12
  OBVIOUS
<1>15. over = IF signed < 0 THEN 0 ELSE j
  <2>1. PICK p \in Int : p = IF signed < 0 THEN 0 ELSE j
    BY ONLY j \in Int
  <2>2. moved = 12 * p + month /\ moved \in Int /\ 0 <= month /\ month < 12 /\ month \in Int
    BY ONLY <1>2, <1>13, <2>1, j \in Int
  <2>3. moved \div 12 = p
    BY ONLY <2>2, p \in Int, Split12
  <2>4. QED
    BY ONLY <1>14, <2>1, <2>3
<1>16. tm.tm_year + 1900 - back + over = year
  <2>1. date.tm_year \in Int
    BY DEF DateParts
  <2>2. tm.tm_year \in Int
    BY ONLY <2>1, tm.tm_year = date.tm_year - k, k \in Int
  <2>3. QED
    BY ONLY <1>4, <1>9, <1>11, <1>15, <2>2, j \in Int
<1>17. moved - 12 * over = month
  BY ONLY <1>2, <1>13, <1>15, j \in Int
<1>18. PICK cent \in Int : cent = 4 * q + c
  BY ONLY <1>3
<1>19. PICK inc \in Int : inc = 4 * f + y
  BY ONLY <1>3
<1>20. year = 100 * cent + inc /\ 0 <= inc /\ inc < 100
  BY ONLY <1>3, <1>18, <1>19
<1>21. year \div 100 = cent /\ year % 100 = inc
  BY ONLY <1>4, <1>20, cent \in Int, inc \in Int, Split100
<1>22. cent \div 4 = q /\ cent % 4 = c
  BY ONLY <1>3, <1>18, cent \in Int, Split4
<1>23. inc \div 4 = f
  BY ONLY <1>3, <1>19, inc \in Int, Split4
<1>24. DayOf(tm) = q * 146097 + c * 36524 + inc * 365 + f
                     + (month \div 5) * 153 + (month % 5) * 31 - ((month % 5) \div 2)
                     + tm.tm_mday - 1 - 719468
  BY ONLY <1>7, <1>10, <1>12, <1>14, <1>16, <1>17, <1>21, <1>22, <1>23, CalendarIs DEF DayOf
<1>25. PICK a \in Int : a = (month \div 5) * 153
  BY ONLY <1>2
<1>26. PICK b \in Int : b = (month % 5) * 31
  BY ONLY <1>2
<1>27. PICK e \in Int : e = (month % 5) \div 2
  BY ONLY <1>2
<1>28. start = a + b - e
  BY ONLY <1>2, <1>25, <1>26, <1>27
<1>29. DayOf(tm) = q * 146097 + c * 36524 + inc * 365 + f + a + b - e + mday - 1 - 719468
  BY ONLY <1>24, <1>25, <1>26, <1>27, tm.tm_mday = mday
<1>30. QED
  BY ONLY <1>2, <1>3, <1>19, <1>28, <1>29, a \in Int, b \in Int, e \in Int, inc \in Int, day \in Nat

LEMMA DateComesBack ==
    ASSUME NEW day \in Nat, NEW date, NEW year, NEW diy, NEW q, NEW c, NEW f, NEW y,
           NEW month, NEW start, NEW mday,
           DateParts(day, date, year, diy, q, c, f, y, month, start, mday)
    PROVE  DayComesBack(day, date) /\ DayOf(date) = day
<1>1. date \in [tm_mday : Int, tm_mon : Int, tm_year : Int, tm_yday : Int] /\ date.tm_mday = mday
  BY DEF DateParts
<1>2. ASSUME NEW k \in Int, NEW tm, tm.tm_mon = date.tm_mon + 12 * k,
             tm.tm_year = date.tm_year - k, tm.tm_mday = mday
      PROVE  DayOf(tm) = day
  BY <1>2, DayOfIs
<1>3. ASSUME NEW k \in -2 .. 2
      PROVE  DayOf([date EXCEPT !.tm_mon = @ + 12 * k, !.tm_year = @ - k]) = day
  <2>1. PICK tm : tm = [date EXCEPT !.tm_mon = @ + 12 * k, !.tm_year = @ - k]
    OBVIOUS
  <2>2. tm.tm_mon = date.tm_mon + 12 * k /\ tm.tm_year = date.tm_year - k /\ tm.tm_mday = mday
    BY <1>1, <2>1
  <2>3. k \in Int
    OBVIOUS
  <2>4. QED
    BY <1>2, <2>1, <2>2, <2>3
<1>4. DayOf(date) = day
  <2>1. PICK k \in Int : k = 0
    OBVIOUS
  <2>2. date.tm_mon = date.tm_mon + 12 * k /\ date.tm_year = date.tm_year - k
    BY <1>1, <2>1
  <2>3. QED
    BY <1>1, <1>2, <2>2
<1>5. QED
  BY <1>3, <1>4 DEF DayComesBack

LEMMA DayIsRight ==
    ASSUME NEW day \in Nat
    PROVE  /\ DateIsRight(day, dateconv(day)) /\ DayComesBack(day, dateconv(day))
           /\ DayOf(dateconv(day)) = day
<1>1. PICK date : date = dateconv(day)
  OBVIOUS
<1>2. PICK year, diy, q, c, f, y, month, start, mday :
         DateParts(day, date, year, diy, q, c, f, y, month, start, mday)
  BY <1>1, DateconvIs
<1>3. DateIsRight(day, date) /\ DayComesBack(day, date) /\ DayOf(date) = day
  BY <1>2, DateIsInCalendar, DateComesBack
<1>4. QED
  BY <1>1, <1>3

LEMMA TimeIsRight ==
    ASSUME NEW t \in Nat
    PROVE  /\ gmtime_r(t).tm_hour \in 0 .. 23 /\ gmtime_r(t).tm_min \in 0 .. 59
           /\ gmtime_r(t).tm_sec \in 0 .. 59
           /\ t = DayOf(gmtime_r(t).date) * 86400 + gmtime_r(t).tm_hour * 3600
                    + gmtime_r(t).tm_min * 60 + gmtime_r(t).tm_sec
           /\ gmtime_r(t).tm_hour < 10 => timegm(gmtime_r(t)) = t
<1>1. PICK day \in Nat : day = t \div 86400
  OBVIOUS
<1>2. PICK hour : hour = (t \div 3600) % 24
  OBVIOUS
<1>3. PICK min : min = (t \div 60) % 60
  OBVIOUS
<1>4. PICK sec : sec = t % 60
  OBVIOUS
<1>5. sec \in 0 .. 59 /\ t = 60 * (t \div 60) + sec /\ t \div 60 \in Nat
  BY <1>4
<1>6. PICK m \in Nat : m = t \div 60
  BY <1>5
<1>7. min \in 0 .. 59 /\ m = 60 * (m \div 60) + min /\ m \div 60 \in Nat
  BY ONLY <1>3, <1>6, m \in Nat
<1>8. PICK h \in Nat : h = m \div 60
  BY <1>7
<1>9. t \div 3600 = h
  BY ONLY <1>6, <1>8, t \in Nat
<1>10. hour \in 0 .. 23 /\ h = 24 * (h \div 24) + hour /\ h \div 24 \in Nat
  BY ONLY <1>2, <1>9, h \in Nat
<1>11. day = h \div 24
  BY ONLY <1>1, <1>6, <1>8, t \in Nat
<1>12. t = day * 86400 + hour * 3600 + min * 60 + sec
  BY ONLY <1>5, <1>6, <1>7, <1>8, <1>10, <1>11, day \in Nat, h \in Nat, m \in Nat
<1>13. PICK tm : tm = gmtime_r(t)
  OBVIOUS
<1>14. tm.date = dateconv(day) /\ tm.tm_hour = hour /\ tm.tm_min = min /\ tm.tm_sec = sec
  BY ONLY <1>1, <1>2, <1>3, <1>4, <1>13 DEF gmtime_r
<1>15. DayOf(tm.date) = day
  BY ONLY <1>14, day \in Nat, DayIsRight
<1>16. t = DayOf(tm.date) * 86400 + tm.tm_hour * 3600 + tm.tm_min * 60 + tm.tm_sec
  BY ONLY <1>12, <1>14, <1>15
<1>17. ASSUME hour < 10 PROVE timegm(tm) = t
  <2>1. AsInt(tm.tm_hour * 3600) = hour * 3600
    BY ONLY <1>10, <1>14, <1>17 DEF AsInt
  <2>2. DayOf(tm.date) * 86400 + AsInt(tm.tm_hour * 3600) + tm.tm_min * 60 + tm.tm_sec = t
    BY ONLY <2>1, <1>14, <1>16
  <2>3. QED
    BY ONLY <2>2, t \in Nat DEF timegm
<1>18. QED
  BY <1>5, <1>7, <1>10, <1>13, <1>14, <1>16, <1>17

(***************************************************************************)
(* What gmtime (gmtime.c) makes of any day is the date that counting years *)
(* of the Gregorian calendar gives it, and timegm finds the day again.     *)
(* The hours, minutes and seconds of any time make it up with the day, and *)
(* timegm gives it back when it is before ten o'clock of its day.          *)
(***************************************************************************)
THEOREM DatesAreRight == CLibSpec => []DatesRight
<1>1. ASSUME NEW day \in Nat
      PROVE  DateIsRight(day, dateconv(day)) /\ DayComesBack(day, dateconv(day))
  BY DayIsRight
<1>2. CLibInit => DatesRight
  BY DEF CLibInit, NoConversion, DatesRight
<1>3. DatesRight /\ [CLibNext]_clibVars => DatesRight'
  <2> SUFFICES ASSUME DatesRight, [CLibNext]_clibVars PROVE DatesRight'
    OBVIOUS
  <2>1. CASE UNCHANGED conv
    BY <2>1 DEF DatesRight
  <2>2. ASSUME NEW day \in Days, conv' = [fn |-> "day", day |-> day, date |-> dateconv(day)]
        PROVE  DatesRight'
    <3>1. day \in Nat
      BY CLibAssumption DEF CLibAssumption
    <3>2. conv'.fn = "day" /\ conv'.day = day /\ conv'.date = dateconv(day)
      BY <2>2
    <3>3. QED
      BY <3>1, <3>2, <1>1 DEF DatesRight
  <2>3. ASSUME NEW t \in Times, conv' = [fn |-> "time", t |-> t, tm |-> gmtime_r(t)]
        PROVE  DatesRight'
    <3>1. t \in Nat
      BY CLibAssumption DEF CLibAssumption
    <3>2. conv'.fn = "time" /\ conv'.t = t /\ conv'.tm = gmtime_r(t)
      BY <2>3
    <3>3. QED
      BY <3>1, <3>2, TimeIsRight DEF DatesRight
  <2>4. ASSUME conv'.fn # "day", conv'.fn # "time" PROVE DatesRight'
    BY <2>4 DEF DatesRight
  <2>5. CASE Sorting
    BY <2>1, <2>5 DEF Sorting, Qsort, Resort, GoesUp, GoesDown, Bubbles
  <2>6. CASE Converting
    BY <2>2, <2>3, <2>4, <2>6 DEF Converting
  <2>7. QED
    BY <2>1, <2>5, <2>6 DEF CLibNext, clibVars
<1>4. QED
  BY <1>2, <1>3, PTL DEF CLibSpec

===============================================================================
