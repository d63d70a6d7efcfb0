--------------------------------- MODULE Prims ---------------------------------
(***************************************************************************)
(* The primitives that the compiler makes of a function (cc/prim.h) and     *)
(* what a list of them computes.  A program is a sequence of primitives;    *)
(* the next one in the list is linext, a label that a primitive may go to   *)
(* besides is in its field l (flonexts[0]).                                 *)
(*                                                                          *)
(* The variables of a function are the user's, which have addresses, and    *)
(* temporaries.  What functions called from outside do is external.         *)
(***************************************************************************)
EXTENDS Integers, Bitwise, TLC, Sequences, SequencesExt
-------------------------------------------------------------------------------
(***************************************************************************)
(* The integer and pointer types of the compiler (cc/decl.h, cc/compiler.cc)*)
(* and what its operators do to their values.  Values of int32 stay within  *)
(* the integers of the model checker, which stops if one does not; 2^27 and *)
(* 2^28 stand for the number of values of uint32 and uint64.                *)
(***************************************************************************)

IntTypes == {"bool", "int8", "uint8", "int16", "uint16", "int32", "uint32", "int64", "uint64"}
PtrTypes == {"int16*", "int8*"}
Base == ("int16*" :> "int16") @@ ("int8*" :> "int8")
PtrTo(t) == CHOOSE p \in PtrTypes : Base[p] = t

Size(t) == CASE t \in {"bool", "int8", "uint8"} -> 1
             [] t \in {"int32", "uint32"} -> 4
             [] t \in {"int64", "uint64"} -> 8
             [] OTHER -> 2
Signed(t) == t \in {"int8", "int16", "int32", "int64"}
HostWords == 2 ^ 28     \* the 2^64 values of uint64
IsInt(t) == t \in IntTypes

(* What a location of the type holds of a number. *)
Narrow(t, v) ==
    LET m == CASE Size(t) <= 2 -> 2 ^ (8 * Size(t)) [] t = "uint32" -> HostWords \div 2 [] OTHER -> HostWords
        r == v % m IN
    IF Size(t) >= 4 /\ Signed(t) THEN v
    ELSE IF Signed(t) /\ r >= m \div 2 THEN r - m ELSE r

Truth(b) == IF b THEN 1 ELSE 0
CastTo(t, v) == IF t = "bool" THEN Truth(v # 0) ELSE Narrow(t, v)

CmpOps == {"==", "!=", "<", "<=", ">", ">="}
Compare(op, a, b) ==
    CASE op = "==" -> a = b [] op = "!=" -> a # b [] op = "<" -> a < b
      [] op = "<=" -> a <= b [] op = ">" -> a > b [] op = ">=" -> a >= b
RevCmp == [x \in CmpOps |->
    CASE x = "==" -> "!=" [] x = "!=" -> "==" [] x = "<" -> ">="
      [] x = "<=" -> ">" [] x = ">" -> "<=" [] x = ">=" -> "<"]

Abs(v) == IF v < 0 THEN -v ELSE v
Quot(a, b) == LET q == Abs(a) \div Abs(b) IN IF (a < 0) # (b < 0) THEN -q ELSE q
Word(v) == v % 65536

(* a op b as numbers; the callers narrow the result to its type *)
Arith(op, a, b) ==
    CASE op = "+" -> a + b [] op = "-" -> a - b [] op = "*" -> a * b
      [] op = "/" -> Quot(a, b)
      [] op = "%" -> a - (Quot(a, b) * b)
      [] op = "&" -> Word(a) & Word(b)
      [] op = "|" -> Word(a) | Word(b)
      [] op = "^" -> Word(a) ^^ Word(b)
      [] op = "<<" -> a * (2 ^ b)
      [] op = ">>" -> a \div (2 ^ b)

(* BinopPrim and UnopPrim on values of their types *)
Binop(op, t, a, b) == IF op \in CmpOps THEN Truth(Compare(op, a, b)) ELSE Narrow(t, Arith(op, a, b))
Unop(op, t, a) ==
    CASE op = "-" -> Narrow(t, -a)
      [] op = "~" -> Narrow(t, -a - 1)
      [] op = "!" -> Truth(a = 0)
-------------------------------------------------------------------------------

CONSTANTS
    UserVars,   \* the variables of the function: [n: name, t: type, st: isStaticMem]
    RetType,    \* the type that it returns
    Fuel        \* bound: primitives that a run executes

AddrOf(n) == 100 + (10 * CHOOSE i \in 1..Len(UserVars) : UserVars[i].n = n)
NameAt(a) == UserVars[(a - 100) \div 10].n
IsAddr(a) == a % 10 = 0 /\ (a - 100) \div 10 \in 1..Len(UserVars)
-------------------------------------------------------------------------------
(* The values that primitives work on (ValDecl and what extends it). *)
NoVal == [k |-> "none"]
Num(t, v) == [k |-> "num", t |-> t, v |-> v]                        \* NumDecl
Var(n, t, st) == [k |-> "var", n |-> n, t |-> t, st |-> st]         \* VarDecl
Ptr(of) == [k |-> "ptr", of |-> of, t |-> Base[of.t]]               \* PtrDecl
Asm(n, t) == [k |-> "asm", n |-> n, t |-> t]                        \* AsmDecl: the address of a static variable
Temp(id, t) == Var(id, t, FALSE)

IsVar(v) == v.k = "var"
IsPtrDeclOf(v, var) == v.k = "ptr" /\ v.of = var
ReplacePtrDeclOf(v, old, new) == IF IsPtrDeclOf(v, old) THEN [v EXCEPT !.of = new] ELSE v

(* The primitives.  o is what a primitive writes (aval of an AsnopPrim, ovar
   and retvar of the others), a and b are what it reads. *)
Prim(k, op, o, a, b, l, args) ==
    [k |-> k, op |-> op, o |-> o, a |-> a, b |-> b, l |-> l, args |-> args]
EntryPrim == Prim("entry", "", NoVal, NoVal, NoVal, "", << >>)
AsnopPrim(o, a) == Prim("asnop", "", o, a, NoVal, "", << >>)
BinopPrim(op, o, a, b) == Prim("binop", op, o, a, b, "", << >>)
UnopPrim(op, o, a) == Prim("unop", op, o, a, NoVal, "", << >>)
CastPrim(o, a) == Prim("cast", "", o, a, NoVal, "", << >>)
CompPrim(op, a, b, l) == Prim("comp", op, NoVal, a, b, l, << >>)
TestPrim(op, a, l) == Prim("test", op, NoVal, a, NoVal, l, << >>)
JumpPrim(l) == Prim("jump", "", NoVal, NoVal, NoVal, l, << >>)
LabelPrim(l) == Prim("label", "", NoVal, NoVal, NoVal, l, << >>)
CallStartPrim == Prim("callstart", "", NoVal, NoVal, NoVal, "", << >>)
CallPrim(f, o, args) == Prim("call", f, o, NoVal, NoVal, "", args)
RetPrim(a) == Prim("ret", "", NoVal, a, NoVal, "", << >>)

HasFallthru(p) == p.k \notin {"jump", "ret"}
WritesTemp(p) == p.o
HasSideEffects(p) == p.k \notin {"asnop", "binop", "unop", "cast"}
GoesTo(p) == IF p.k \in {"comp", "test", "jump"} THEN {p.l} ELSE {}

Mentions(v, var) == v = var \/ IsPtrDeclOf(v, var)
ReadsOrWritesVar(p, var) ==
    \/ Mentions(p.o, var) \/ Mentions(p.a, var) \/ Mentions(p.b, var)
    \/ \E i \in DOMAIN p.args : Mentions(p.args[i], var)

(* The arguments of a call are temporaries of its own, never replaced. *)
ReplaceReads(p, old, new) ==
    LET r(v) == IF v = old THEN new ELSE ReplacePtrDeclOf(v, old, new) IN
    [p EXCEPT !.o = ReplacePtrDeclOf(@, old, new), !.a = r(@), !.b = r(@)]

ReplaceWrites(p, old, new) == IF p.o = old THEN [p EXCEPT !.o = new] ELSE p
ReplaceLabel(p, old, new) == IF p.k # "label" /\ p.l = old THEN [p EXCEPT !.l = new] ELSE p
-------------------------------------------------------------------------------
(* What primitives compute.  A memory gives each variable its value; Undef is
   what an uninitialized one has.  A function called from outside may change
   the static variable g and what its argument points to. *)
Undef == 1073741824

ExtCall(f, args, mem) ==
    CASE f = "next" -> [mem |-> mem, ret |-> Narrow("int16", args[1] + 1)]
      [] f = "bump" -> [mem |-> [mem EXCEPT !["g"] = Narrow("int16", @ + 1)], ret |-> mem["g"]]
      [] f = "clear" -> [mem |-> (NameAt(args[1]) :> 0) @@ mem, ret |-> 0]

Value(v, mem) ==
    CASE v.k = "num" -> Narrow(v.t, v.v)
      [] v.k = "asm" -> AddrOf(v.n)
      [] v.k = "var" -> IF v.n \in DOMAIN mem THEN mem[v.n] ELSE Undef
      [] v.k = "ptr" ->
            IF v.of.n \in DOMAIN mem /\ IsAddr(mem[v.of.n]) /\ NameAt(mem[v.of.n]) \in DOMAIN mem
            THEN mem[NameAt(mem[v.of.n])] ELSE Undef
      [] v.k = "none" -> 0

Store(v, x, mem) ==
    IF v.k = "var" THEN (v.n :> x) @@ mem
    ELSE (NameAt(mem[v.of.n]) :> x) @@ mem

Outcome(status, ret, mem) ==
    [status |-> status, ret |-> ret,
     statics |-> [n \in {UserVars[i].n : i \in {j \in 1..Len(UserVars) : UserVars[j].st}} |-> mem[n]]]

LabelAt(prog, l) == CHOOSE i \in 1..Len(prog) : prog[i].k = "label" /\ prog[i].l = l

(* From pc on: what is returned and left in the static variables.  A use of an
   uninitialized variable makes the outcome undefined. *)
RECURSIVE RunFrom(_, _, _, _)
RunFrom(prog, pc, mem, fuel) ==
    LET p == prog[pc]
        a == Value(p.a, mem)
        b == Value(p.b, mem)
        args == [i \in 1..Len(p.args) |-> Value(p.args[i], mem)]
        goto(l) == RunFrom(prog, LabelAt(prog, l), mem, fuel - 1)
        next(m) == RunFrom(prog, pc + 1, m, fuel - 1)
        set(x) == next(Store(p.o, x, mem))
        stray == p.o.k = "ptr" /\ ~IsAddr(Value(p.o.of, mem)) IN
    IF fuel = 0 THEN Outcome("runs on", 0, mem)
    ELSE IF stray \/ b = Undef \/ (a = Undef /\ p.op # "&x") \/ (\E i \in DOMAIN args : args[i] = Undef)
       \/ (p.op = "clear" /\ ~IsAddr(args[1]))
    THEN Outcome("undefined", 0, mem)
    ELSE CASE p.k \in {"entry", "label", "callstart"} -> next(mem)
           [] p.k = "asnop" -> set(a)
           [] p.k = "binop" ->
                IF (p.op \in {"/", "%"} /\ b = 0) THEN Outcome("undefined", 0, mem)
                ELSE set(Binop(p.op, p.o.t, a, b))
           [] p.k = "unop" -> set(IF p.op = "&x" THEN AddrOf(p.a.n) ELSE Unop(p.op, p.o.t, a))
           [] p.k = "cast" -> set(CastTo(p.o.t, a))
           [] p.k = "comp" -> IF Compare(p.op, a, b) THEN goto(p.l) ELSE next(mem)
           [] p.k = "test" -> IF Compare(p.op, a, 0) THEN goto(p.l) ELSE next(mem)
           [] p.k = "jump" -> goto(p.l)
           [] p.k = "call" ->
                LET r == ExtCall(p.op, args, mem) IN
                next(IF p.o.k = "none" THEN r.mem ELSE Store(p.o, r.ret, r.mem))
           [] p.k = "ret" -> Outcome("returned", a, mem)

RunPrims(prog, mem) == RunFrom(prog, 1, mem, Fuel)
================================================================================
