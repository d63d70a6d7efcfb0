--------------------------------- MODULE Throw ---------------------------------
(***************************************************************************)
(* Exceptions: crtl/library/throw.asm together with the code that the      *)
(* compiler makes of try, catch, finally and throw (cc/generate.cc and     *)
(* cc/assemble.cc).  A try block links a trymark into __trystack; its      *)
(* descriptor lists the types that it catches.  The finally part is a      *)
(* subroutine that first unlinks the mark and keeps its return address     *)
(* where the mark had the link.                                            *)
(*                                                                         *)
(* A program is any sequence of entering, leaving and throwing.  Resetting *)
(* the stack pointer to the frame of a mark drops the contexts above it.   *)
(***************************************************************************)
EXTENDS Integers, Sequences, FiniteSetsExt, SequencesExt

CONSTANTS
    Types,              \* type ids that are thrown or caught
    TypeTable,          \* the words at each type id, see PtrType::getThrowID
    CatchLists,         \* what try blocks may catch, in order
    MaxTries, MaxThrows \* bounds

VARIABLES
    trystack,           \* __trystack: a mark, 0, or an address in code
    mark,               \* the marks in memory
    ctx,                \* the contexts that the program is in, innermost last
    tries, throws, status,
    fin,                \* history: how often each finally part was entered
    want, got           \* history: the catch that should get the last exception and the one that did

vars == <<trystack, mark, ctx, tries, throws, status, fin, want, got>>

Code == -1
Nobody == [try |-> 0, clause |-> 0, ptr |-> 0]
-------------------------------------------------------------------------------
(* The scan of a type id for a catch's type: the id itself, or the words after
   the name until a zero or the type.  A subtype matches with the word before
   it as the offset of the subobject. *)
Scan(thrown, type) ==
    LET w == TypeTable[thrown]
        stop == Min({i \in 2..Len(w) : w[i] = 0 \/ w[i] = type}) IN
    IF thrown = type THEN [found |-> TRUE, cast |-> 0]
    ELSE [found |-> w[stop] = type, cast |-> w[stop - 1]]

Clauses(m, thrown) == {c \in 1..Len(mark[m].catches) : Scan(thrown, mark[m].catches[c]).found}
CtxOf(m) == CHOOSE i \in 1..Len(ctx) : ctx[i].try = m
(* An exception under way has its handler with it, for the history. *)
Context(kind, m, resume, w) == [kind |-> kind, try |-> m, resume |-> resume, want |-> w]
Drop(m) == SubSeq(ctx, 1, CtxOf(m) - 1)

(* FinCall or callfinally, then FinEnt *)
Finally(m, resume, link, w) ==
    /\ trystack' = link
    /\ mark' = [mark EXCEPT ![m].outer = Code]
    /\ ctx' = Append(Drop(m), Context("finally", m, resume, w))
    /\ fin' = [fin EXCEPT ![m] = @ + 1]

Raise_again(obj, typ, w) ==   \* a catch block may be entered again
    LET m == trystack IN
    IF m \notin DOMAIN mark
    THEN status' = "uncaught" /\ UNCHANGED <<trystack, mark, ctx, fin, got>>
    ELSE LET cs == Clauses(m, typ) IN
         /\ status' = status
         /\ IF cs # {}
            THEN LET c == Min(cs)
                     ptr == obj + Scan(typ, mark[m].catches[c]).cast IN
                 /\ mark' = [mark EXCEPT ![m] = [@ EXCEPT !.active = TRUE, !.obj = obj, !.typ = typ]]
                 /\ ctx' = Append(Drop(m), Context("catch", m, "end", w))
                 /\ got' = [try |-> m, clause |-> c, ptr |-> ptr]
                 /\ UNCHANGED <<trystack, fin>>
            ELSE /\ trystack' = mark[m].outer
                 /\ mark' = [mark EXCEPT ![m] = [@ EXCEPT !.outer = Code, !.obj = obj, !.typ = typ]]
                 /\ ctx' = Append(Drop(m), Context("finally", m, "rethrow", w))
                 /\ fin' = [fin EXCEPT ![m] = @ + 1]
                 /\ UNCHANGED got

(* __throw *)
Raise(obj, typ, w) ==
    LET m == trystack IN
    IF m \notin DOMAIN mark
    THEN status' = "uncaught" /\ UNCHANGED <<trystack, mark, ctx, fin, got>>
    ELSE LET cs == IF mark[m].active THEN {} ELSE Clauses(m, typ) IN
         /\ status' = status
         /\ IF cs # {}
            THEN LET c == Min(cs)
                     ptr == obj + Scan(typ, mark[m].catches[c]).cast IN
                 /\ mark' = [mark EXCEPT ![m] = [@ EXCEPT !.active = TRUE, !.obj = obj, !.typ = typ]]
                 /\ ctx' = Append(Drop(m), Context("catch", m, "end", w))
                 /\ got' = [try |-> m, clause |-> c, ptr |-> ptr]
                 /\ UNCHANGED <<trystack, fin>>
            ELSE /\ trystack' = mark[m].outer
                 /\ mark' = [mark EXCEPT ![m] = [@ EXCEPT !.outer = Code, !.obj = obj, !.typ = typ]]
                 /\ ctx' = Append(Drop(m), Context("finally", m, "rethrow", w))
                 /\ fin' = [fin EXCEPT ![m] = @ + 1]
                 /\ UNCHANGED got
-------------------------------------------------------------------------------
Top == ctx[Len(ctx)]
Running == status = "running" /\ ctx # << >>

(* What the language says: the innermost try block whose body throws and that
   catches the type or one that it extends, the first such clause, and the
   address of that part of the object. *)
Offset(thrown, type) ==
    LET w == TypeTable[thrown] IN
    IF thrown = type THEN 0
    ELSE w[1 + Min({i \in 2..(Len(w) - 2) : i % 2 = 0 /\ w[i] = type})]
Extends(thrown, type) ==
    thrown = type \/ \E i \in 2..(Len(TypeTable[thrown]) - 2) : i % 2 = 0 /\ TypeTable[thrown][i] = type
Handler(obj, typ, upto) ==
    LET able == {i \in 1..upto : ctx[i].kind = "body"
                     /\ \E t \in Range(mark[ctx[i].try].catches) : Extends(typ, t)} IN
    IF able = {} THEN Nobody
    ELSE LET m == ctx[Max(able)].try
             c == Min({k \in 1..Len(mark[m].catches) : Extends(typ, mark[m].catches[k])}) IN
         [try |-> m, clause |-> c, ptr |-> obj + Offset(typ, mark[m].catches[c])]
-------------------------------------------------------------------------------
Init ==
    /\ trystack = 0 /\ mark = << >> /\ ctx = <<Context("start", 0, "end", Nobody)>>
    /\ tries = 0 /\ throws = 0 /\ status = "running"
    /\ fin = << >> /\ want = Nobody /\ got = Nobody

(* TryBeg *)
BeginTry(catches) ==
    /\ Running /\ tries < MaxTries
    /\ tries' = tries + 1
    /\ mark' = Append(mark, [outer |-> trystack, catches |-> catches, active |-> FALSE, obj |-> 0, typ |-> 0])
    /\ trystack' = tries + 1
    /\ ctx' = Append(ctx, Context("body", tries + 1, "end", Nobody))
    /\ fin' = Append(fin, 0)
    /\ UNCHANGED <<throws, status, want, got>>

(* The end of a body or of a catch block. *)
EndBlock ==
    /\ Running /\ Top.kind \in {"body", "catch"}
    /\ Finally(Top.try, "end", mark[Top.try].outer, Nobody)
    /\ UNCHANGED <<tries, throws, status, want, got>>

(* break, continue or return out of a try: a label that TryScope wraps.  (It
   does inside the finally part too, which is then entered again; programs that
   leave a finally part are left out.) *)
Leave ==
    /\ Running /\ Top.kind \in {"body", "catch"}
    /\ Finally(Top.try, "leave", mark[Top.try].outer, Nobody)
    /\ UNCHANGED <<tries, throws, status, want, got>>

ThrowIt(obj, typ) ==
    /\ Running /\ throws < MaxThrows
    /\ throws' = throws + 1
    /\ want' = Handler(obj, typ, Len(ctx))
    /\ Raise(obj, typ, want')
    /\ UNCHANGED tries

(* __rethrow, from wherever a throw without operand may stand: the low bit of the
   word at 2 tells whether a handler is active (throw.asm:167-176), and throw.asm
   jumps to assertfail when none is, which ends the program. *)
Rethrow ==
    /\ Running /\ throws < MaxThrows /\ trystack \in DOMAIN mark
    /\ throws' = throws + 1
    /\ IF mark[trystack].active
       THEN /\ want' = Handler(mark[trystack].obj, mark[trystack].typ, CtxOf(trystack))
            /\ Finally(trystack, "rethrow", mark[trystack].outer, want')
            /\ UNCHANGED status
       ELSE status' = "uncaught" /\ UNCHANGED <<trystack, mark, ctx, fin, want>>
    /\ UNCHANGED <<tries, got>>

(* FinRet: to the end of the try, to the label outside, which may be in turn
   the wrapper of the try outside, or back into throw.asm. *)
EndFinally ==
    /\ Running /\ Top.kind = "finally"
    /\ CASE Top.resume = "rethrow" ->
              want' = Top.want /\ Raise(mark[Top.try].obj, mark[Top.try].typ, Top.want)
         [] Top.resume = "end" ->
              ctx' = Front(ctx) /\ UNCHANGED <<trystack, mark, fin, status, want, got>>
         [] Top.resume = "leave" ->
              LET below == ctx[Len(ctx) - 1] IN
              /\ want' = want
              /\ \/ ctx' = Front(ctx) /\ UNCHANGED <<trystack, mark, fin, status, got>>
                 \/ /\ below.kind \in {"body", "catch"}
                    /\ Finally(below.try, "leave", mark[below.try].outer, Nobody)
                    /\ UNCHANGED <<status, got>>
    /\ UNCHANGED <<tries, throws>>

Next ==
    \/ \E catches \in CatchLists : BeginTry(catches)
    \/ EndBlock \/ Leave \/ Rethrow \/ EndFinally
    \/ \E typ \in Types : ThrowIt(typ * 10, typ)

Spec == Init /\ [][Next]_vars
-------------------------------------------------------------------------------
OpenTries == {i \in 1..Len(ctx) : ctx[i].kind \in {"body", "catch"}}

(* The try block of the innermost of the first n contexts that is its body or
   its catch. *)
Innermost(n) ==
    LET open == {i \in OpenTries : i <= n} IN
    IF open = {} THEN 0 ELSE ctx[Max(open)].try

(* __trystack links exactly the try blocks whose body or catch the program is
   in, innermost first, whatever was thrown out of bodies, catch blocks and
   finally parts. *)
StackMatches ==
    /\ trystack = Innermost(Len(ctx))
    /\ \A i \in OpenTries : mark[ctx[i].try].outer = Innermost(i - 1)

(* The finally part of every try block that the program has left was entered
   exactly once, by whatever way it was left, and of no other. *)
FinallyOnce ==
    status = "running" =>
        \A m \in 1..Len(mark) :
            fin[m] = IF \E i \in OpenTries : ctx[i].try = m THEN 0 ELSE 1

(* The catch block that runs is the one that the language names for the last
   exception thrown, and it gets the address of the part it caught. *)
CaughtRight ==
    /\ (ctx # << >> /\ Top.kind = "catch" /\ got.try = Top.try) => got = want
    /\ (status = "uncaught" /\ trystack \notin DOMAIN mark) => want = Nobody

Unwinds == StackMatches /\ FinallyOnce /\ CaughtRight
===================================================================================
