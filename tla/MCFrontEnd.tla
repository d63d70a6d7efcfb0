------------------------------ MODULE MCFrontEnd -------------------------------
(***************************************************************************)
(* Small functions with parameters n, u and c, locals x, y and p, and a      *)
(* static variable g.                                                       *)
(***************************************************************************)
EXTENDS FrontEnd

MCUserVars ==
    <<[n |-> "g", t |-> "int16", st |-> TRUE], [n |-> "n", t |-> "int16", st |-> FALSE],
      [n |-> "x", t |-> "int16", st |-> FALSE], [n |-> "y", t |-> "int16", st |-> FALSE],
      [n |-> "u", t |-> "uint16", st |-> FALSE], [n |-> "c", t |-> "int8", st |-> FALSE],
      [n |-> "p", t |-> "int16*", st |-> FALSE]>>
MCParams == <<Var("n", "int16", FALSE), Var("u", "uint16", FALSE), Var("c", "int8", FALSE)>>
Memory(gv, nv) == ("g" :> gv) @@ ("n" :> nv)
FlowInputs == {Memory(10, k) : k \in {-1, 0, 2}}
ExprInputs == {("u" :> k) @@ ("c" :> j) @@ Memory(10, j) : k \in {0, 5, 40000}, j \in {-1, 0, 7}}

UV(name) == LET i == CHOOSE i \in 1..Len(UserVars) : UserVars[i].n = name IN
            EVal(Var(name, UserVars[i].t, UserVars[i].st))
g == UV("g") n == UV("n") x == UV("x") y == UV("y") u == UV("u") c == UV("c") p == UV("p")
K(k) == Literal(k)
Set(v, e) == ExprStmt(Assigned(v, e))
Op(op, l, r) == TypedBinop(op, l, r)
Add(a, b) == Op("+", a, b)
Addr(v) == EUn("&x", v)
At_p == EUn("*", p)
Bump == ECall("bump", << >>, "int16")
Succ(e) == ECall("next", <<ECast("int16", e)>>, "int16")
Clear(v) == ExprStmt(ECall("clear", <<Addr(v)>>, "int16"))

(* straight code: every choice of three statements and a result *)
Simple == {Set(x, n), Set(x, Add(n, K(1))), Set(y, x), Set(y, Add(x, g)), Set(g, Add(g, n)), Set(x, g),
           Set(p, Addr(x)), Set(At_p, K(7)), Set(x, At_p), Set(y, Bump), Clear(x), Set(x, K(5)), Set(y, K(3))}
Straight == {Block(<<a, b, d, Return(r)>>) : a \in Simple, b \in Simple, d \in Simple, r \in {Add(x, y), x}}

(* jumps: a control structure around a few statements *)
Conds == {Op("<", x, n), Op("!=", n, K(0)), LogNot(n), Op("&&", n, Op(">", g, K(10))),
          Op("||", LogNot(x), Op("<=", u, K(0))), LogNot(Op("&&", x, n)), Op(">=", u, K(0)),
          Op("||", Op("==", n, K(2)), Op("<", Bump, x)), LogNot(Op("||", n, Op("<", u, K(0))))}
Tails == {Set(g, Add(g, x)), If(Op(">", x, K(1)), Break), If(Op("==", x, K(1)), Continue),
          If(n, Return(y)), IfElse(LogNot(u), Set(y, n), Set(u, K(0))), Null}
Step == ExprStmt(preIncDec("+", x, <<9>>))
Rounds == {Op("<", x, n), LogNot(Op(">=", x, n)), Op("&&", n, Op("<", x, K(2))),
           LogNot(Op("||", LogNot(u), Op(">", x, K(1)))), Op("&&", Op(">=", u, K(0)), Op("<=", x, K(0)))}
Loops == UNION {{While(b, Block(<<Step, t>>)), Do(Block(<<Step, t>>), b), For(Set(x, K(-1)), b, Step, Block(<<t>>))}
                : b \in Rounds, t \in Tails} \cup {While(LogNot(u), Null), Do(Null, u)}
Ifs == {If(b, Block(<<Step, IfElse(d, Return(x), Set(y, Bump))>>)) : b \in Conds, d \in Conds}
         \cup {IfElse(b, Set(x, QMark(d, n, y)), Set(y, Op("&&", d, b))) : b \in Conds, d \in Conds}
         \cup {Set(x, QMark(b, Op("||", d, Bump), Op("&&", Bump, d))) : b \in Conds, d \in Conds}
Arms == {<<Case(K(0), K(1)), Step, Break>>, <<Case(K(2), NoExpr), Set(g, x)>>, <<Default, Set(y, n), Break>>,
         <<Case(K(-1), NoExpr), Return(g)>>}
Switches == {Switch(n, a \o b \o d) : a \in Arms, b \in Arms, d \in Arms}
Distinct(s) == \A i, j \in DOMAIN s.ss : i # j /\ s.ss[i].k \in {"case", "default"} => s.ss[i] # s.ss[j]
Around(s) == Block(<<Set(x, K(0)), Set(y, K(1)), Set(u, K(1)), s, Return(Add(x, y))>>)

(* expressions *)
Atoms == {n, u, c, g, K(0), K(4), K(-3), ULiteral(200)}
IsLit(e) == e.v.k = "num"
Ops == CmpOps \cup {"+", "-", "*", "/", "%", "&", "|", "^", "<<", ">>", "&&", "||", ","}
(* Shifts are by small counts.  Two constants are put together by the compiler, in
   64 bits that nothing cuts down to the type (numconst.cc): left out is what the
   type would cut, a sign together with a type that has none, a quotient by zero, and
   a result of && and || that is neither 0 nor 1. *)
OwnType(op, l, r) ==
    /\ op = "<<" => l # ULiteral(200)
    /\ op \in {"/", "%", "|", "^"} => \A a, b \in {l, r} : a.v.v < 0 => Signed(b.v.t)
    /\ op \in {"/", "%"} => r.v.v # 0
Usual(op, l, r) ==
    /\ op \in {"<<", ">>"} => r = K(4)
    /\ op \in {"&&", "||"} => (IsLit(r) => IsLit(l) /\ r = K(0))
    /\ IsLit(l) /\ IsLit(r) => OwnType(op, l, r)
Exprs1 == UNION {{Op(op, l, r) : l \in {l \in Atoms : Usual(op, l, r)}} : op \in Ops, r \in Atoms}
Exprs2 == {LogNot(n), EUn("-", u), EUn("~", c), EUn("-", ECast("int8", n)), ECast("uint16", c), EBool(u),
           ECast("int8", u), Succ(c), Comma(Bump, u), Op("+", Op("*", K(4), n), c),
           Op("/", u, K(4)), postIncDec("+", n, <<1>>), OpAssigned("-", n, K(1), <<1>>),
           Add(postIncDec("+", g, <<1>>), preIncDec("-", n, <<2>>)), QMark(c, u, n)}
Mixed(ops) == {Op(op, a, b) : op \in ops, a \in Exprs2, b \in {n, u, c, g, Succ(Succ(c))}}
AsLong(e) == ECast("int32", e)
Longs(ops) == {Op(op, AsLong(a), AsLong(b)) : op \in ops, a \in {n, u, c}, b \in {n, u, K(5)}}
LongExprs ==
    Longs({"+", "-", "^", "*", "/", "==", "!="})
    \cup {EUn("-", AsLong(u)), EUn("~", AsLong(c)), EBool(AsLong(u)), Op("<<", AsLong(u), K(4)), Op(">>", AsLong(n), K(4)),
          Op("&&", AsLong(u), AsLong(n)), LogNot(AsLong(n))}
Returning(e) == Parsed(Block(<<Return(ECast("int16", e))>>), ExprInputs)

MCPrograms ==
    LET pointers == {Block(<<Set(p, Addr(x)), a, b, Return(Add(x, y))>>) : a \in Simple, b \in Simple}
        switches == {s \in Switches : Distinct(s)} IN
    {Parsed(b, FlowInputs) : b \in Straight \cup {Around(s) : s \in Ifs}}
    \cup {Returning(e) : e \in Exprs1 \cup Mixed({"<", "&", "||"})}
    \cup {ToMachs(Parsed(b, FlowInputs)) : b \in pointers \cup {Around(s) : s \in Loops \cup switches}}
    \cup {ToMachs(Returning(e)) : e \in Mixed({"+"}) \cup LongExprs}

(* what the runs that show a disagreement compile *)
LongOrder == LET less == Longs({"<"}) IN {ToMachs(Returning(e)) : e \in less}
CountDown ==
    LET body == Block(<<Do(Block(<<Set(n, Op("-", n, K(1))), Set(y, n)>>), Op(">", y, K(0))), Return(g)>>) IN
    {Parsed(body, FlowInputs)}
================================================================================
