------------------------------- MODULE Syscalls -------------------------------
(***************************************************************************)
(* The file, terminal and environment calls of driver/raspictl.cc: a       *)
(* program stores the address of a parameter block in MAGIC_SCN,           *)
(* mw_syscall does the call on the host and mr_syscall gives the result.   *)
(* The host's files, terminal and signals are external.  A file descriptor *)
(* stands for what it was opened on; buffers are sets of addresses.        *)
(***************************************************************************)
EXTENDS Integers, Sequences, FiniteSetsExt, Functions

CONSTANTS
    Paths,          \* names a program may open
    TtyPath,        \* the one that is the terminal, or no path
    Fds,            \* descriptors the host can give out, above 2
    Magic,          \* the top of memory, MAGIC
    Args,           \* lengths of the command line arguments, a sequence
    EnvLen,         \* length of the one variable in the environment
    MaxCalls        \* bound on calls

VARIABLES
    fds,            \* the host's descriptor table
    tty,            \* attributes of the terminal
    savedtermioss,
    rc, errno,      \* mr_syscall_rc and the word at ERRNO
    readonlysize,
    program,        \* "running", "exited", "aborted"
    ncalls,
    switched,       \* history: the descriptors the terminal was switched through
    did             \* history: the last call and the addresses it wrote

callVars == <<fds, tty, savedtermioss, rc, errno, readonlysize, program, ncalls, switched, did>>

ENOSYS == 38
EBADF == 9
ENOENT == 2
ENOTTY == 25
EMFILE == 24
-------------------------------------------------------------------------------
CallsInit ==
    /\ fds = [fd \in 0 .. 2 |-> IF fd = 0 THEN "tty" ELSE "log"]
    /\ tty = "cooked" /\ savedtermioss = << >>
    /\ rc = 0 /\ errno = 0
    /\ readonlysize = 0
    /\ program = "running" /\ ncalls = 0 /\ switched = {}
    /\ did = [call |-> "none", wrote |-> {}, given |-> {}]

Call(name, wrote, given) ==
    /\ program = "running" /\ ncalls < MaxCalls
    /\ ncalls' = ncalls + 1
    /\ did' = [call |-> name, wrote |-> wrote, given |-> given]

(* getmemptr: beyond the top or below the read-only limit the host aborts. *)
getmemptr(addr, size, write) ==
    addr + size <= Magic /\ (write => addr >= readonlysize)
Span(addr, size) == addr..(addr + size - 1)

save_errno(e) == errno' = e
Answer(r) == rc' = r /\ errno' = errno
Fail(e) == rc' = -1 /\ save_errno(e)
Host == <<fds, tty, savedtermioss, switched>>

(* A table with an entry for key as well; one that is there stays. *)
WithEntry(table, key, value) ==
    [k \in DOMAIN table \union {key} |-> IF k \in DOMAIN table THEN table[k] ELSE value]
-------------------------------------------------------------------------------
OddAddress ==
    Call("odd", {}, {}) /\ Fail(-ENOSYS) /\ UNCHANGED <<Host, readonlysize, program>>

Unknown ==
    Call("unknown", {}, {}) /\ Fail(-ENOSYS) /\ UNCHANGED <<Host, readonlysize, program>>

(* No file is lower than 3 except those the host started with. *)
Open(path) ==
    /\ Call("open", {}, {})
    /\ LET free == Fds \ DOMAIN fds IN
       \/ free # {} /\ fds' = WithEntry(fds, Min(free), IF path = TtyPath THEN "tty" ELSE "file")
          /\ Answer(Min(free))
       \/ free = {} /\ fds' = fds /\ Fail(EMFILE)
       \/ fds' = fds /\ Fail(ENOENT)
    /\ UNCHANGED <<tty, savedtermioss, switched, readonlysize, program>>

Close_keep(fd) ==
    LET n == IF fd <= 2 THEN -999 ELSE fd IN
    /\ Call("close", {}, {})
    /\ IF n \in DOMAIN fds
       THEN fds' = Restrict(fds, DOMAIN fds \ {n}) /\ Answer(0)
       ELSE fds' = fds /\ Fail(EBADF)
    /\ UNCHANGED <<tty, savedtermioss, switched, readonlysize, program>>

Close(fd) ==
    LET n == IF fd <= 2 THEN -999 ELSE fd IN
    /\ Call("close", {}, {})
    /\ IF n \in DOMAIN fds
       THEN fds' = Restrict(fds, DOMAIN fds \ {n}) /\ Answer(0)
       ELSE fds' = fds /\ Fail(EBADF)
    /\ savedtermioss' = Restrict(savedtermioss, DOMAIN savedtermioss \ {n})
    /\ UNCHANGED <<tty, switched, readonlysize, program>>

Unlink ==
    /\ Call("unlink", {}, {}) /\ (Answer(0) \/ Fail(ENOENT))
    /\ UNCHANGED <<Host, readonlysize, program>>

(* getmemptr comes before the host's call, so a bad buffer aborts even for a
   bad descriptor. *)
Abort(name) ==
    /\ Call(name, {}, {}) /\ program' = "aborted"
    /\ UNCHANGED <<Host, rc, errno, readonlysize>>

Read(fd, adr, len) ==
    IF adr # 0 /\ ~getmemptr(adr, len, TRUE) THEN Abort("read")
    ELSE /\ IF fd \notin DOMAIN fds
            THEN Call("read", {}, Span(adr, len)) /\ Fail(EBADF)
            ELSE \E n \in 0..(IF adr = 0 THEN 0 ELSE len) :
                    Call("read", Span(adr, n), Span(adr, len)) /\ Answer(n)
         /\ UNCHANGED <<Host, readonlysize, program>>

Write(fd, adr, len) ==
    IF adr # 0 /\ ~getmemptr(adr, len, FALSE) THEN Abort("write")
    ELSE /\ Call("write", {}, {})
         /\ IF fd \notin DOMAIN fds THEN Fail(EBADF)
            ELSE \E n \in 0..(IF adr = 0 THEN 0 ELSE len) : Answer(n)
         /\ UNCHANGED <<Host, readonlysize, program>>

GetCmdArg(i, buflen, bufadr) ==
    IF i >= Len(Args)
    THEN /\ Call("getcmdarg", {}, {}) /\ Answer(-1)
         /\ UNCHANGED <<Host, readonlysize, program>>
    ELSE LET n == Min({buflen, Args[i + 1] + 1}) IN
         IF bufadr # 0 /\ ~getmemptr(bufadr, n, TRUE) THEN Abort("getcmdarg")
         ELSE /\ Call("getcmdarg", IF bufadr = 0 THEN {} ELSE Span(bufadr, n),
                      IF bufadr = 0 THEN {} ELSE Span(bufadr, buflen))
              /\ Answer(Args[i + 1])
              /\ UNCHANGED <<Host, readonlysize, program>>

GetEnv(adr, size, there) ==
    LET n == Min({size, EnvLen + 1}) IN
    IF there /\ size > 0 /\ ~getmemptr(adr, n, TRUE) THEN Abort("getenv")
    ELSE /\ Call("getenv", IF there THEN Span(adr, n) ELSE {}, Span(adr, size))
         /\ Answer(IF there THEN EnvLen + 1 ELSE 0)
         /\ UNCHANGED <<Host, readonlysize, program>>

SetRoSize(size) ==
    /\ Call("setrosize", {}, {}) /\ readonlysize' = size /\ Answer(0)
    /\ UNCHANGED <<Host, program>>
-------------------------------------------------------------------------------
(* cfmakeraw, but ^C still interrupts on descriptor 0. *)
Raw(fd) == IF fd = 0 THEN "rawsig" ELSE "raw"

SetTtyEcho(fd, echo) ==
    /\ Call("setttyecho", {}, {})
    /\ IF fd \in DOMAIN fds /\ fds[fd] = "tty"
       THEN /\ savedtermioss' = WithEntry(savedtermioss, fd, tty)
            /\ tty' = IF echo THEN savedtermioss'[fd] ELSE Raw(fd)
            /\ switched' = switched \union {fd}
            /\ Answer(0)
       ELSE /\ UNCHANGED <<tty, savedtermioss, switched>>
            /\ rc' = IF fd \in DOMAIN savedtermioss THEN -2 ELSE -1
            /\ save_errno(IF fd \in DOMAIN fds THEN ENOTTY ELSE EBADF)
    /\ UNCHANGED <<fds, readonlysize, program>>

exithandler ==
    tty' = IF 0 \in DOMAIN savedtermioss THEN savedtermioss[0] ELSE tty

(* SCN_EXIT, or a signal that sighandler turns into exit. *)
Exit ==
    /\ program = "running"
    /\ program' = "exited" /\ exithandler
    /\ UNCHANGED <<fds, savedtermioss, switched, rc, errno, readonlysize, ncalls, did>>
-------------------------------------------------------------------------------
AnyFd == {0, 1} \cup Fds
FileCalls ==
    \/ \E path \in Paths : Open(path)
    \/ \E fd \in AnyFd : Close(fd) \/ \E echo \in BOOLEAN : SetTtyEcho(fd, echo)
    \/ Unlink \/ OddAddress \/ Unknown

BufferCalls ==
    \/ \E fd \in AnyFd, adr, len \in 0..Magic : Read(fd, adr, len) \/ Write(fd, adr, len)
    \/ \E i \in 0..Len(Args), n, adr \in 0..Magic : GetCmdArg(i, n, adr)
    \/ \E adr, size \in 0..Magic, there \in BOOLEAN : GetEnv(adr, size, there)
    \/ \E size \in 0..Magic : SetRoSize(size)

CallsNext == FileCalls \/ BufferCalls \/ Exit

CallsSpec == CallsInit /\ [][CallsNext]_callVars
-------------------------------------------------------------------------------
(* A program that ends by exit or by a caught signal leaves the terminal as it
   found it, whatever it opened, closed or switched before, as long as it switched
   it through descriptor 0 only: exithandler knows no other. *)
TerminalRestored == program = "exited" /\ switched \subseteq {0} => tty = "cooked"

(* Attributes that were saved for a descriptor are those of the open file it
   names now: close(2) forgets them, so a number that is given out again does
   not bring back another file's settings. *)
SavedIsOpen == \A fd \in DOMAIN savedtermioss : fd \in DOMAIN fds /\ fds[fd] = "tty"

(* A call writes only to the buffer that the program gave it, never into the
   read-only part nor at or above MAGIC. *)
BufferRespected ==
    /\ did.wrote \subseteq did.given
    /\ \A a \in did.wrote : a < Magic /\ a >= readonlysize

(* What raspictl promises of the calls with files, the terminal and buffers. *)
HostCallsRight == TerminalRestored /\ SavedIsOpen /\ BufferRespected
===============================================================================
