------------------------------- MODULE Generate --------------------------------
(***************************************************************************)
(* From a parsed function to primitives: the lowering of statements to      *)
(* labels and gotos (cc/parsefunc.cc), the folding of constants             *)
(* (cc/numconst.cc), and the primitives that statements and expressions     *)
(* become (cc/generate.cc, cc/binop.cc, cc/unop.cc).                        *)
(*                                                                          *)
(* Expressions are as the parser of expressions leaves them: with types and *)
(* the casts that its rules ask for.  A path tells the labels and the       *)
(* temporaries that statements and expressions make from each other.        *)
(***************************************************************************)
EXTENDS Prims

Id(what, path) == what \o ToString(path)
-------------------------------------------------------------------------------
(* Expressions: [k, op, t, v, e: operands] *)
Expr(k, op, t, v, e) == [k |-> k, op |-> op, t |-> t, v |-> v, e |-> e]
EVal(v) == Expr("val", "", v.t, v, << >>)
ENum(t, n) == EVal(Num(t, n))
EAsn(l, r) == Expr("asn", "", l.t, NoVal, <<l, r>>)
EBin(op, l, r) == Expr("bin", op, IF op \in CmpOps \cup {"&&", "||"} THEN "bool" ELSE IF op = "," THEN r.t ELSE l.t,
                       NoVal, <<l, r>>)
EUn(op, x) ==
    Expr("un", op, CASE op = "&x" -> PtrTo(x.t) [] op = "*" -> Base[x.t] [] op = "!" -> "bool" [] OTHER -> x.t,
         NoVal, <<x>>)
ECall(f, args, t) == Expr("call", f, t, NoVal, args)
EQm(c, x, y) == Expr("qm", "", x.t, NoVal, <<c, x, y>>)
(* castToType *)
ECast(t, x) == IF x.t = t THEN x ELSE Expr("cast", "", t, NoVal, <<x>>)
EBool(x) == ECast("bool", x)
-------------------------------------------------------------------------------
(* Constant expressions: the value in the widest integers of the compiler.    *)
NotConst == [c |-> "none", n |-> 0]
Sint(n) == [c |-> "sint", n |-> n]
Uint(n) == [c |-> "uint", n |-> n % HostWords]
IsConst(nv) == nv.c # "none"
BoolRet(b) == Uint(Truth(b))
HostOf(t, n) == IF Signed(t) THEN Sint(n) ELSE Uint(n)

FoldBinop(op, l, r) ==
    LET uns == "uint" \in {l.c, r.c}
        conv(x) == IF uns THEN Uint(x.n).n ELSE x.n IN
    CASE op = "," -> r
      [] op \in CmpOps -> BoolRet(Compare(op, conv(l), conv(r)))
      [] op \in {"<<", ">>"} -> IF uns THEN Uint(Arith(op, l.n, r.n)) ELSE Sint(Arith(op, l.n, r.n))
      [] OTHER -> IF uns THEN Uint(Arith(op, conv(l), conv(r))) ELSE Sint(Arith(op, l.n, r.n))

RECURSIVE NumConst(_)
NumConst(x) ==
    LET sub(i) == NumConst(x.e[i]) IN
    CASE x.k = "val" -> IF x.v.k = "num" THEN HostOf(x.v.t, x.v.v) ELSE NotConst
      [] x.k = "cast" ->
            IF IsConst(sub(1)) /\ IsInt(x.t) THEN HostOf(x.t, sub(1).n) ELSE NotConst
      [] x.k = "qm" -> IF IsConst(sub(1)) THEN (IF sub(1).n # 0 THEN sub(2) ELSE sub(3)) ELSE NotConst
      [] x.k = "un" /\ IsConst(sub(1)) ->
            LET s == sub(1) IN
            (CASE x.op = "-" -> IF s.c = "sint" THEN Sint(-s.n) ELSE Uint(-s.n)
               [] x.op = "~" -> IF s.c = "sint" THEN Sint(-s.n - 1) ELSE Uint(-s.n - 1)
               [] x.op = "!" -> BoolRet(s.n # 0)
               [] OTHER -> NotConst)
      [] x.k = "bin" /\ IsConst(sub(1)) ->
            IF x.op = "||" THEN (IF sub(1).n # 0 THEN BoolRet(TRUE) ELSE sub(2))
            ELSE IF x.op = "&&" THEN (IF sub(1).n = 0 THEN BoolRet(FALSE) ELSE sub(2))
            ELSE IF IsConst(sub(2)) THEN FoldBinop(x.op, sub(1), sub(2))
            ELSE NotConst
      [] OTHER -> NotConst

(* The address of a static variable is known to the linker. *)
IsAsmConst(x) == x.k = "un" /\ x.op = "&x" /\ x.e[1].k = "val" /\ x.e[1].v.k = "var" /\ x.e[1].v.st
IsConstExpr(x) == IsConst(NumConst(x)) \/ IsAsmConst(x)
ConstValue(x) == IF IsAsmConst(x) THEN Asm(x.e[1].v.n, x.t) ELSE Num(x.t, NumConst(x).n)
IsConstZero(x) == IsConst(NumConst(x)) /\ NumConst(x).n = 0
PowOf2(x) == {i \in 0..15 : IsConst(NumConst(x)) /\ NumConst(x).n = 2 ^ i}
-------------------------------------------------------------------------------
(* The primitives of an expression and the value that it has; want says that
   the value is wanted. *)
Gen(c, v) == [c |-> c, v |-> v]
SizeInt(n) == ENum("uint16", n)

RECURSIVE GenExpr(_, _, _), IfGoto(_, _, _, _), ConstFreeBinop(_, _, _), GenBinop(_, _, _), GenArgs(_, _, _)

(* if (cond == sense) goto l *)
IfGoto(cond, sense, l, path) ==
    LET sub(i, s, to) == IfGoto(cond.e[i], s, to, Append(path, i))
        left == GenExpr(cond.e[1], TRUE, Append(path, 1))
        rite == GenExpr(cond.e[2], TRUE, Append(path, 2))
        op == IF sense THEN cond.op ELSE RevCmp[cond.op]
        cont == Id("cont", path) IN
    IF cond.k = "un" /\ cond.op = "!" THEN IfGoto(cond.e[1], ~sense, l, Append(path, 1))
    ELSE IF IsConst(NumConst(cond))
    THEN IF (NumConst(cond).n # 0) = sense THEN <<JumpPrim(l)>> ELSE << >>
    ELSE IF cond.k = "bin" /\ cond.op \in CmpOps /\ IsInt(cond.e[1].t)
    THEN IF ~IsConstZero(cond.e[2])
         THEN left.c \o rite.c \o <<CompPrim(op, left.v, rite.v, l)>>
         ELSE IF Signed(cond.e[1].t) \/ op \in {"==", "!="}
         THEN left.c \o <<TestPrim(op, left.v, l)>>
         ELSE (CASE op = "<" -> << >>
                 [] op = ">=" -> <<JumpPrim(l)>>
                 [] op = "<=" -> left.c \o <<TestPrim("==", left.v, l)>>
                 [] op = ">" -> left.c \o <<TestPrim("!=", left.v, l)>>)
    ELSE IF cond.k = "bin" /\ cond.op = "&&"
    THEN IF sense THEN sub(1, FALSE, cont) \o sub(2, TRUE, l) \o <<LabelPrim(cont)>>
         ELSE sub(1, FALSE, l) \o sub(2, FALSE, l)
    ELSE IF cond.k = "bin" /\ cond.op = "||"
    THEN IF sense THEN sub(1, TRUE, l) \o sub(2, TRUE, l)
         ELSE sub(1, TRUE, cont) \o sub(2, FALSE, l) \o <<LabelPrim(cont)>>
    ELSE LET g == GenExpr(EBool(cond), TRUE, Append(path, 0)) IN
         g.c \o <<TestPrim(IF sense THEN "!=" ELSE "==", g.v, l)>>

(* && and || *)
GenShortCirc(x, defval, path) ==
    LET res == Temp(Id("tmp", path), "bool")
        done == Id("shortcirc", path)
        rite == GenExpr(x.e[2], TRUE, Append(path, 2)) IN
    Gen(<<AsnopPrim(res, Num("bool", Truth(defval)))>> \o IfGoto(x.e[1], defval, done, Append(path, 1))
          \o rite.c \o <<AsnopPrim(res, rite.v), LabelPrim(done)>>, res)

(* Multiplications, divisions and moduli by powers of two *)
Reduced(x) ==
    LET l == x.e[1]
        r == x.e[2]
        uns == IsInt(l.t) /\ ~Signed(l.t)
        log(y) == SizeInt(CHOOSE i \in PowOf2(y) : TRUE) IN
    CASE x.op = "*" /\ PowOf2(r) # {} -> [x EXCEPT !.op = "<<", !.e = <<l, log(r)>>]
      [] x.op = "*" /\ PowOf2(r) = {} /\ PowOf2(l) # {} -> [x EXCEPT !.op = "<<", !.e = <<r, log(l)>>]
      [] x.op = "/" /\ uns /\ PowOf2(r) # {} -> [x EXCEPT !.op = ">>", !.e = <<l, log(r)>>]
      [] x.op = "%" /\ uns /\ PowOf2(r) # {} ->
            [x EXCEPT !.op = "&", !.e = <<l, SizeInt(NumConst(r).n - 1)>>]
      [] x.op \in {"<<", ">>"} -> [x EXCEPT !.e = <<l, ECast("uint16", r)>>]
      [] OTHER -> x

ConstFreeBinop(x, want, path) ==
    LET y == Reduced(x)
        left == GenExpr(y.e[1], want, Append(path, 1))
        rite == GenExpr(y.e[2], want, Append(path, 2))
        o == Temp(Id("tmp", path), y.t) IN
    IF want THEN Gen(left.c \o rite.c \o <<BinopPrim(y.op, o, left.v, rite.v)>>, o)
    ELSE Gen(left.c \o rite.c, NoVal)

GenBinop(x, want, path) ==
    LET l == x.e[1]
        r == x.e[2]
        left == GenExpr(l, want, Append(path, 1))
        rite == GenExpr(r, want, Append(path, 2)) IN
    IF x.op = "," THEN Gen(GenExpr(l, FALSE, Append(path, 1)).c \o rite.c, rite.v)
    ELSE IF x.op \in {"|", "^", "+"} /\ IsConstZero(l) THEN rite
    ELSE IF x.op \in {"|", "^", "+", "-", "<<", ">>"} /\ IsConstZero(r) THEN left
    ELSE IF x.op \in {"&", "*"} /\ IsConstZero(r) THEN rite
    ELSE IF x.op \in {"&", "*", "/", "%"} /\ IsConstZero(l) THEN left
    ELSE IF x.op = "||" THEN GenShortCirc(x, TRUE, path)
    ELSE IF x.op = "&&" THEN GenShortCirc(x, FALSE, path)
    ELSE ConstFreeBinop(x, want, path)

GenUnop(x, want, path) ==
    LET sub == GenExpr(x.e[1], want, Append(path, 1))
        p == GenExpr(x.e[1], TRUE, Append(path, 1))
        o == Temp(Id("tmp", path), x.t) IN
    IF x.op = "&x" /\ x.e[1].k = "un" /\ x.e[1].op = "*" THEN GenExpr(x.e[1].e[1], want, Append(path, 1))
    ELSE IF x.op = "*" /\ x.e[1].k = "un" /\ x.e[1].op = "&x" THEN GenExpr(x.e[1].e[1], want, Append(path, 1))
    ELSE IF x.op = "*" THEN Gen(p.c, IF want THEN Ptr(p.v) ELSE NoVal)
    ELSE IF want THEN Gen(sub.c \o <<UnopPrim(x.op, o, sub.v)>>, o)
    ELSE Gen(sub.c, NoVal)

GenAsnop(x, want, path) ==
    LET rite == GenExpr(x.e[2], TRUE, Append(path, 2))
        left == GenExpr(x.e[1], TRUE, Append(path, 1))
        o == Temp(Id("tmp", path), x.t) IN
    IF want THEN Gen(rite.c \o left.c \o <<AsnopPrim(o, rite.v), AsnopPrim(left.v, o)>>, o)
    ELSE Gen(rite.c \o left.c \o <<AsnopPrim(left.v, rite.v)>>, NoVal)

(* pushargval: each argument goes to a temporary of the call *)
GenArgs(args, i, path) ==
    IF i > Len(args) THEN << >>
    ELSE LET g == GenExpr(args[i], TRUE, Append(path, i)) IN
         g.c \o <<AsnopPrim(Temp(Id("arg", Append(path, i)), args[i].t), g.v)>> \o GenArgs(args, i + 1, path)

GenCall(x, want, path) ==
    LET o == IF want THEN Temp(Id("tmp", path), x.t) ELSE NoVal
        args == [i \in 1..Len(x.e) |-> Temp(Id("arg", Append(path, i)), x.e[i].t)] IN
    Gen(<<CallStartPrim>> \o GenArgs(x.e, 1, path) \o <<CallPrim(x.op, o, args)>>, o)

GenCast(x, want, path) ==
    LET sub == GenExpr(x.e[1], want, Append(path, 1))
        o == Temp(Id("tmp", path), x.t) IN
    IF ~want THEN sub
    ELSE IF IsConst(NumConst(x.e[1])) THEN Gen(<< >>, Num(x.t, HostOf(x.t, NumConst(x.e[1]).n).n))
    ELSE Gen(sub.c \o <<CastPrim(o, sub.v)>>, o)

GenQMark(x, want, path) ==
    LET else == Id("else", path)
        done == Id("done", path)
        o == Temp(Id("tmp", path), x.t)
        arm(i) == LET g == GenExpr(x.e[i], want, Append(path, i)) IN
                  g.c \o (IF want THEN <<AsnopPrim(o, g.v)>> ELSE << >>) IN
    Gen(IfGoto(x.e[1], FALSE, else, Append(path, 1)) \o arm(2) \o <<JumpPrim(done), LabelPrim(else)>>
          \o arm(3) \o <<LabelPrim(done)>>, IF want THEN o ELSE NoVal)

GenExpr(x, want, path) ==
    IF x.k = "val" THEN Gen(<< >>, IF want THEN (IF IsConstExpr(x) THEN ConstValue(x) ELSE x.v) ELSE NoVal)
    ELSE IF x.k = "cast" THEN GenCast(x, want, path)
    ELSE IF IsConstExpr(x) THEN Gen(<< >>, IF want THEN ConstValue(x) ELSE NoVal)
    ELSE CASE x.k = "asn" -> GenAsnop(x, want, path)
           [] x.k = "bin" -> GenBinop(x, want, path)
           [] x.k = "un" -> GenUnop(x, want, path)
           [] x.k = "call" -> GenCall(x, want, path)
           [] x.k = "qm" -> GenQMark(x, want, path)
--------------------------------------------------------------------------------
(***************************************************************************)
(* Statements: what the parser of statements makes of loops, ifs and jumps  *)
(* (FuncDecl::parseStatement) and the primitives of a whole function        *)
(* (FuncDecl::generfunc).  Parsed statements are                            *)
(*     [k, x: expression, ss: statements, l: label, more]                   *)
(***************************************************************************)

RetValue == Var("__retvalue", RetType, FALSE)
NoExpr == Expr("none", "", "int16", NoVal, << >>)
Stmt(k, x, ss, l) == [k |-> k, x |-> x, ss |-> ss, l |-> l]

(* What is written in the source *)
Block(ss) == Stmt("block", NoExpr, ss, "")
ExprStmt(x) == Stmt("expr", x, << >>, "")
If(c, then) == Stmt("if", c, <<then>>, "")
IfElse(c, then, else) == Stmt("if", c, <<then, else>>, "")
While(c, body) == Stmt("while", c, <<body>>, "")
Do(body, c) == Stmt("do", c, <<body>>, "")
For(init, c, step, body) == Stmt("for", c, <<init, step, body>>, "")
Switch(x, body) == Stmt("switch", x, body, "")
Case(lo, hi) == [Stmt("case", NoExpr, << >>, "") EXCEPT !.x = Expr("range", "", "int16", NoVal, <<lo, hi>>)]
Default == Stmt("default", NoExpr, << >>, "")
Break == Stmt("break", NoExpr, << >>, "")
Continue == Stmt("continue", NoExpr, << >>, "")
Return(x) == Stmt("return", x, << >>, "")
Null == Stmt("null", NoExpr, << >>, "")

(* What the parser keeps: gotos, labels, and ifs that go somewhere *)
Goto(l) == Stmt("goto", NoExpr, << >>, l)
Label(l) == Stmt("label", NoExpr, << >>, l)
IfStmt(c, condrev, l) == Stmt(IF condrev THEN "ifnot" ELSE "ifso", c, << >>, l)

(* env: where break, continue and return go *)
RECURSIVE Parse(_, _, _)
Parse(s, env, path) ==
    LET sub(i, e) == Parse(s.ss[i], e, Append(path, i))
        brk == Id("break", path)
        cont == Id("continue", path)
        loop == Id("loop", path)
        done == Id("endif", path)
        else == Id("else", path)
        inner == [env EXCEPT !.brk = brk, !.cont = cont] IN
    CASE s.k = "block" -> Block([i \in 1..Len(s.ss) |-> sub(i, env)])
      [] s.k = "break" -> Goto(env.brk)
      [] s.k = "continue" -> Goto(env.cont)
      [] s.k = "return" ->
            Block(<<ExprStmt(EAsn(EVal(RetValue), ECast(RetType, s.x))), Goto(env.ret)>>)
      [] s.k = "if" ->
            LET then == sub(1, env) IN
            (CASE then.k = "goto" -> IfStmt(s.x, FALSE, then.l)
               [] then.k # "goto" /\ Len(s.ss) = 1 ->
                    Block(<<IfStmt(s.x, TRUE, done), then, Label(done)>>)
               [] OTHER ->
                    Block(<<IfStmt(s.x, TRUE, else), then, Goto(done), Label(else), sub(2, env), Label(done)>>))
      [] s.k = "while" ->
            Block(<<Label(cont), IfStmt(s.x, TRUE, brk), sub(1, inner), Goto(cont), Label(brk)>>)
      [] s.k = "do" ->
            Block(<<Label(loop), sub(1, inner), Label(cont), IfStmt(s.x, FALSE, loop), Label(brk)>>)
      [] s.k = "for" ->
            Block(<<sub(1, env), Label(loop),
                    IF s.x.k = "none" THEN Null ELSE IfStmt(s.x, TRUE, brk),
                    sub(3, inner), Label(cont), sub(2, env), Goto(loop), Label(brk)>>)
      [] s.k = "switch" ->
            Stmt("switch", s.x, [i \in 1..Len(s.ss) |-> sub(i, [env EXCEPT !.brk = brk])], brk)
      [] s.k \in {"case", "default"} -> [s EXCEPT !.l = Id("case", path)]
      [] OTHER -> s
-------------------------------------------------------------------------------
(* Switches: a comparison for each case, the lowest first *)
CaseLow(c) == NumConst(c.x.e[1]).n
CaseHigh(c) == NumConst(c.x.e[2]).n
RECURSIVE CaseTests(_, _, _)
CaseTests(val, cases, path) ==
    IF cases = << >> THEN << >>
    ELSE LET i == CHOOSE i \in 1..Len(cases) :
                    \A j \in 1..Len(cases) :
                       CaseLow(cases[i]) < CaseLow(cases[j]) \/ (CaseLow(cases[i]) = CaseLow(cases[j]) /\ i <= j)
             c == cases[i]
             lo == ENum(val.t, CaseLow(c)) IN
         IfGoto(IF c.x.e[2].k = "none" THEN EBin("==", val, lo)
                ELSE EBin("&&", EBin("<=", val, ENum(val.t, CaseHigh(c))), EBin(">=", val, lo)),
                TRUE, c.l, Append(path, Len(cases)))
         \o CaseTests(val, SelectSeq(cases, LAMBDA d : d # c), path)

RECURSIVE GenStmt(_, _)
GenStmt(s, path) ==
    LET body == FlattenSeq([i \in 1..Len(s.ss) |-> GenStmt(s.ss[i], Append(path, i))]) IN
    CASE s.k = "block" -> body
      [] s.k = "expr" -> GenExpr(s.x, FALSE, path).c
      [] s.k = "decl" ->
            LET g == GenExpr(s.x.e[2], TRUE, path) IN g.c \o <<AsnopPrim(s.x.e[1].v, g.v)>>
      [] s.k = "goto" -> <<JumpPrim(s.l)>>
      [] s.k \in {"label", "case", "default"} -> <<LabelPrim(s.l)>>
      [] s.k = "ifnot" -> IfGoto(s.x, FALSE, s.l, path)
      [] s.k = "ifso" -> IfGoto(s.x, TRUE, s.l, path)
      [] s.k = "null" -> << >>
      [] s.k = "switch" ->
            LET g == GenExpr(s.x, TRUE, path)
                copy == Temp(Id("switch", path), s.x.t)
                val == IF g.v.k = "ptr" THEN copy ELSE g.v
                defs == SelectSeq(s.ss, LAMBDA c : c.k = "default") IN
            g.c \o (IF g.v.k = "ptr" THEN <<AsnopPrim(copy, g.v)>> ELSE << >>)
                \o CaseTests(EVal(val), SelectSeq(s.ss, LAMBDA c : c.k = "case"), path)
                \o <<JumpPrim(IF defs = << >> THEN s.l ELSE defs[1].l)>>
                \o body \o <<LabelPrim(s.l)>>

GenerFunc(body) ==
    <<EntryPrim>> \o GenStmt(Parse(body, [brk |-> "", cont |-> "", ret |-> "__return"], << >>), << >>)
      \o <<LabelPrim("__return"), RetPrim(RetValue)>>
-------------------------------------------------------------------------------
(* What the parser of expressions makes of an operator and its operands
   (Scope::parsexpression and the functions below it, cc/parsedecl.cc): the
   type of the result and the casts of the operands, and the expansion of the
   operators that have no expression of their own. *)
UnsignedOf == [s \in {1, 2, 4, 8} |->
    CASE s = 1 -> "uint8" [] s = 2 -> "uint16" [] s = 4 -> "uint32" [] s = 8 -> "uint64"]
SignedOf == [s \in {1, 2, 4, 8} |->
    CASE s = 1 -> "int8" [] s = 2 -> "int16" [] s = 4 -> "int32" [] s = 8 -> "int64"]
SizeType == "uint16"
SSizeType == "int16"

(* A constant without a type has the smallest that holds it (createtyped). *)
ConstType(nv) ==
    LET types == IF nv.c = "sint" THEN SignedOf ELSE UnsignedOf
        fits == {s \in {1, 2, 4} : Narrow(types[s], nv.n) = nv.n
                                   /\ (s = 4 => nv.c = "uint" \/ Abs(nv.n) < HostWords)} IN
    types[IF fits = {} THEN 8 ELSE CHOOSE s \in fits : \A r \in fits : s <= r]
ConstExpr(nv) == ENum(ConstType(nv), nv.n)
Literal(n) == ConstExpr(Sint(n))
ULiteral(n) == ConstExpr(Uint(n))

OfSize(l, r, s) == IF Signed(l) /\ Signed(r) THEN SignedOf[s] ELSE UnsignedOf[s]
getStrongerIArith(l, r) == OfSize(l, r, IF Size(l) > Size(r) THEN Size(l) ELSE Size(r))
getWeakerIArith(l, r) == OfSize(l, r, IF Size(l) < Size(r) THEN Size(l) ELSE Size(r))

(* x op y with an explicit type *)
EBinT(op, t, l, r) == Expr("bin", op, t, NoVal, <<l, r>>)
Stronger(op, l, r) ==
    LET t == getStrongerIArith(l.t, r.t) IN EBinT(op, t, ECast(t, l), ECast(t, r))
-------------------------------------------------------------------------------
ptrPlusMinusInt(op, p, i) ==
    LET scale == Size(Base[p.t]) IN
    EBinT(op, p.t, p,
          IF scale > 1 THEN EBinT("*", SizeType, ECast(SizeType, i), ENum(SizeType, scale)) ELSE i)

ptrMinusPtr(p, q) ==
    LET scale == Size(Base[p.t])
        diff == EBinT("-", SSizeType, ECast(SSizeType, p), ECast(SSizeType, q)) IN
    IF scale > 1 THEN EBinT("/", SSizeType, diff, ENum(SSizeType, scale)) ELSE diff

(* Of two constants the sum or difference is computed at once, as wide as it is. *)
BothConst(l, r) == IsConst(NumConst(l)) /\ IsConst(NumConst(r))
FoldedNow(op, l, r) == ConstExpr(FoldBinop(op, NumConst(l), NumConst(r)))

newBinopAdd(l, r) ==
    IF l.t \in PtrTypes THEN ptrPlusMinusInt("+", l, r)
    ELSE IF r.t \in PtrTypes THEN ptrPlusMinusInt("+", r, l)
    ELSE IF BothConst(l, r) THEN FoldedNow("+", l, r)
    ELSE Stronger("+", l, r)

newBinopSub(l, r) ==
    IF l.t \in PtrTypes /\ r.t \in PtrTypes THEN ptrMinusPtr(l, r)
    ELSE IF l.t \in PtrTypes THEN ptrPlusMinusInt("-", l, r)
    ELSE IF BothConst(l, r) THEN FoldedNow("-", l, r)
    ELSE Stronger("-", l, r)

(* The product of two constants is unsigned whatever they are: the case of two
   signed ones goes on into the next case. *)
newBinopMul(l, r) ==
    IF BothConst(l, r) THEN ConstExpr(Uint(NumConst(l).n * NumConst(r).n))
    ELSE EBinT("*", getStrongerIArith(l.t, r.t), l, r)

(* Of an operand of few bits that are no sign, only those are anded. *)
NoSign(x) == ~Signed(x.t) \/ (NumConst(x).c = "sint" /\ NumConst(x).n >= 0)
newBinopAnd(l, r) ==
    CASE Size(l.t) < Size(r.t) /\ NoSign(l) -> Stronger("&", l, ECast(l.t, r))
      [] Size(r.t) < Size(l.t) /\ NoSign(r) -> Stronger("&", ECast(r.t, l), r)
      [] OTHER -> Stronger("&", l, r)

newBinopArith(op, l, r) ==
    CASE op = "+" -> newBinopAdd(l, r)
      [] op = "-" -> newBinopSub(l, r)
      [] op = "*" -> newBinopMul(l, r)
      [] op = "&" -> newBinopAnd(l, r)
      [] op \in {"|", "^"} -> Stronger(op, l, r)
      [] op \in {"<<", ">>"} -> EBinT(op, l.t, l, r)
      [] op = "/" -> EBinT(op, getStrongerIArith(l.t, r.t), l, r)
      [] op = "%" -> EBinT(op, getWeakerIArith(l.t, r.t), l, r)
-------------------------------------------------------------------------------
Compared(op, l, r) ==
    IF l.t \in PtrTypes THEN EBinT(op, "bool", ECast(SizeType, l), ECast(SizeType, r))
    ELSE [Stronger(op, l, r) EXCEPT !.t = "bool"]

Logical(op, l, r) == EBinT(op, "bool", EBool(l), EBool(r))
LogNot(x) == EUn("!", EBool(x))
Comma(l, r) == EBinT(",", r.t, l, r)
Assigned(l, r) == EAsn(l, ECast(l.t, r))

QMark(c, x, y) ==
    LET t == IF IsInt(x.t) /\ IsInt(y.t) THEN getStrongerIArith(x.t, y.t) ELSE x.t IN
    EQm(c, ECast(t, x), ECast(t, y))

(* l op= r, ++x, x++: what is pointed to is accessed by way of a temporary.
   The number tells the temporaries of an expression from each other. *)
IsDeref(x) == x.k = "un" /\ x.op = "*"
PtrTemp(x, id) == EVal(Temp(Id("ptr", id), x.e[1].t))
ViaTemp(x, id) == EUn("*", EAsn(PtrTemp(x, id), x.e[1]))
getIncrement(x) == IF x.t \in PtrTypes THEN ENum(SizeType, Size(Base[x.t])) ELSE ENum(x.t, 1)

OpAssigned(op, l, r, id) ==
    IF IsDeref(l) THEN EAsn(EUn("*", PtrTemp(l, id)), ECast(l.t, newBinopArith(op, ViaTemp(l, id), r)))
    ELSE EAsn(l, ECast(l.t, newBinopArith(op, l, r)))

preIncDec(op, x, id) ==
    IF IsDeref(x) THEN EAsn(EUn("*", PtrTemp(x, id)), EBinT(op, x.t, ViaTemp(x, id), getIncrement(x)))
    ELSE EAsn(x, EBinT(op, x.t, x, getIncrement(x)))

postIncDec(op, x, id) ==
    LET old == EVal(Temp(Id("old", id), x.t))
        read == EAsn(old, IF IsDeref(x) THEN ViaTemp(x, id) ELSE x)
        place == IF IsDeref(x) THEN EUn("*", PtrTemp(x, id)) ELSE x IN
    Comma(EAsn(place, EBinT(op, x.t, read, getIncrement(x))), old)

(* The operators of two operands *)
TypedBinop(op, l, r) ==
    CASE op \in CmpOps -> Compared(op, l, r)
      [] op \in {"&&", "||"} -> Logical(op, l, r)
      [] op = "," -> Comma(l, r)
      [] op = "=" -> Assigned(l, r)
      [] OTHER -> newBinopArith(op, l, r)
================================================================================
