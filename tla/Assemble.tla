-------------------------------- MODULE Assemble --------------------------------
(***************************************************************************)
(* The machine instructions that the compiler makes of primitives           *)
(* (cc/assemble.cc, cc/mach.cc) and what a list of them computes on the     *)
(* processor.  Registers are fake until hardware registers are assigned, and*)
(* variables have no place on the stack until the optimizer gives them one. *)
(*                                                                          *)
(* Integers of one, two and four bytes and pointers are translated; objects *)
(* of eight bytes, floating point, structs and arrays are not.  A label is a*)
(* number, which also stands for its address.                               *)
(***************************************************************************)
EXTENDS Prims, FiniteSetsExt

CONSTANTS
    Params,     \* the parameters of the function, variables in the order they are passed
    MachFuel    \* bound: instructions that a run executes

MaxAlign == 2
SpOffset == 64

(* Reg: fake ones can be in any of R0 to R5, p = 8 until one is assigned.  An
   id <<i, k>> is the k-th register made for primitive i. *)
Fake(i, k) == [id |-> <<i, k>>, fake |-> TRUE, p |-> 8]
Hard(i, k, p) == [id |-> <<i, k>>, fake |-> FALSE, p |-> p]
SPReg == Hard(0, 0, 6)
RegEq(r, s) == IF r.fake THEN r.id = s.id ELSE r.p = s.p
ReadsReg(m, r) == \E i \in DOMAIN m.r : RegEq(m.r[i], r)
WritesReg(m, r) == \E i \in DOMAIN m.w : RegEq(m.w[i], r)

(* The instructions: w and r are the registers written and read, n an offset or
   a constant, v a variable or a value with an address, sp what the stack
   pointer is below that of the function, l the label gone to and brl the
   label between the compare and the branch of one (0: none). *)
Mach(k, op, w, r) == [k |-> k, op |-> op, w |-> w, r |-> r, n |-> 0, v |-> NoVal, sp |-> 0, l |-> 0, brl |-> 0]
Clr(d) == Mach("a1", "CLR", <<d>>, << >>)
Arith2(op, d, a) == Mach("a2", op, <<d>>, <<a>>)
Arith3(op, d, a, b) == Mach("a3", op, <<d>>, <<a, b>>)
Lda(d, off, a) == [Mach("lda", "LDA", <<d>>, <<a>>) EXCEPT !.n = off]
LdaStk(d, v, sp, off) == [Mach("ldastk", "LDA", <<d>>, << >>) EXCEPT !.v = v, !.sp = sp, !.n = off]
LdLbl(d, l) == [Mach("ldlbl", "LDW", <<d>>, << >>) EXCEPT !.l = l]
LdStk(d, v, sp, off) == [Mach("ldstk", "LDW", <<d>>, << >>) EXCEPT !.v = v, !.sp = sp, !.n = off]
LdStr(d, v, off) == [Mach("ldstr", "LDW", <<d>>, << >>) EXCEPT !.v = v, !.n = off]
LdVal(op, d, x) == [Mach("ldval", op, <<d>>, << >>) EXCEPT !.n = Word(x)]
Load(op, d, off, a) == [Mach("load", op, <<d>>, <<a>>) EXCEPT !.n = off]
LoadStk(op, d, v, sp, off) == [Mach("loadstk", op, <<d>>, << >>) EXCEPT !.v = v, !.sp = sp, !.n = off]
StoreM(op, d, off, a) == [Mach("store", op, << >>, <<d, a>>) EXCEPT !.n = off]
StoreStk(op, d, v, sp, off) == [Mach("storestk", op, << >>, <<d>>) EXCEPT !.v = v, !.sp = sp, !.n = off]
Branch(l) == [Mach("br", "BR", << >>, << >>) EXCEPT !.l = l]
CmpBr(op, a, b, l, brl) == [Mach("cmpbr", op, << >>, <<a, b>>) EXCEPT !.l = l, !.brl = brl]
TstBr(op, a, l, brl) == [Mach("tstbr", op, << >>, <<a>>) EXCEPT !.l = l, !.brl = brl]
LabelHere(l, w) == [Mach("label", "", w, << >>) EXCEPT !.l = l]
CallImm(f, types, pop, w, r) == [Mach("call", f, w, r) EXCEPT !.v = types, !.n = pop]
Ent(w) == Mach("ent", "", w, << >>)
Ret(r) == Mach("ret", "", << >>, r)

FallsThrough(m) == m.k \notin {"br", "call", "ret"}
IsBrMach(m) == m.k \in {"br", "cmpbr", "tstbr"}
IsArithMach(m) == m.k \in {"a1", "a2", "a3"}
SideEffects(m) == m.k \in {"call", "ent", "label", "ret"}
-------------------------------------------------------------------------------
(* Places in a block of memory, each aligned as its type asks. *)
AlignUp(x, a) == ((x + a - 1) \div a) * a
TypeAlign(t) == IF Size(t) < MaxAlign THEN Size(t) ELSE MaxAlign
Layout(vs) ==
    FoldLeft(LAMBDA s, v : LET at == AlignUp(s.end, TypeAlign(v.t)) IN
                           [off |-> Append(s.off, at), end |-> at + Size(v.t)],
             [off |-> << >>, end |-> 0], vs)
BlockSize(vs) == AlignUp(Layout(vs).end, MaxAlign)

RetAddr == Var("__retaddr", "uint16", FALSE)
IsParam(v) == \E i \in DOMAIN Params : Params[i].n = v.n
ParamOffset(v) == Layout(Params).off[CHOOSE i \in DOMAIN Params : Params[i].n = v.n]

LoadOp(t) == IF Size(t) > 1 THEN "LDW" ELSE IF Signed(t) THEN "LDBS" ELSE "LDBU"
StoreOp(t) == IF Size(t) > 1 THEN "STW" ELSE "STB"
HighWord(v, off) == IF off = 0 THEN v ELSE v \div 65536      \* numval >> (raoffs * 8)

(* VarDecl::ldaIntoRn, loadIntoRn and storeFromRn.  The temporaries that they
   make for primitive i are numbered from k. *)
Indexed(i, k, sp, v, off) ==      \* what the stack pointer and LDW #stk:v add up to
    <<LdStk(Fake(i, k), v, sp, off), Arith3("ADD", Fake(i, k + 1), SPReg, Fake(i, k))>>
Pointed(i, k, v) == <<LdStr(Fake(i, k), v, 0)>>

VarLda(i, k, sp, v, d) ==
    IF v.st THEN <<LdStr(d, v, 0)>>
    ELSE <<LdStk(Fake(i, k), v, sp, 0), Arith3("ADD", d, SPReg, Fake(i, k))>>
VarLoad(i, k, sp, v, d, off) ==
    IF v.st THEN Append(Pointed(i, k, v), Load(LoadOp(v.t), d, off, Fake(i, k)))
    ELSE Append(Indexed(i, k, sp, v, off), Load(LoadOp(v.t), d, 0, Fake(i, k + 1)))
VarStore(i, k, sp, v, d, off) ==
    IF v.st THEN Append(Pointed(i, k, v), StoreM(StoreOp(v.t), d, off, Fake(i, k)))
    ELSE Append(Indexed(i, k, sp, v, off), StoreM(StoreOp(v.t), d, 0, Fake(i, k + 1)))

(* The same of any value: NumDecl, AsmDecl, PtrDecl and VarDecl. *)
LdaInto(i, k, sp, v, d) ==
    CASE v.k = "num" -> <<LdStr(d, v, 0)>>
      [] v.k = "ptr" -> VarLoad(i, k, sp, v.of, d, 0)
      [] v.k = "var" -> VarLda(i, k, sp, v, d)
LoadInto(i, k, sp, v, d, off) ==
    CASE v.k = "num" -> <<LdVal(LoadOp(v.t), d, HighWord(Narrow(v.t, v.v), off))>>
      [] v.k = "asm" -> <<LdStr(d, v, off)>>
      [] v.k = "ptr" -> Append(VarLoad(i, k, sp, v.of, Fake(i, k + 2), 0), Load(LoadOp(v.t), d, off, Fake(i, k + 2)))
      [] v.k = "var" -> VarLoad(i, k, sp, v, d, off)
StoreFrom(i, k, sp, v, d, off) ==
    IF v.k = "ptr"
    THEN Append(VarLoad(i, k, sp, v.of, Fake(i, k + 2), 0), StoreM(StoreOp(v.t), d, off, Fake(i, k + 2)))
    ELSE VarStore(i, k, sp, v, d, off)

BigLda(i, k, d, off, a) ==
    IF off >= -64 /\ off <= 63 THEN <<Lda(d, off, a)>>
    ELSE <<LdVal("LDW", Fake(i, k), off), Arith3("ADD", d, a, Fake(i, k))>>
-------------------------------------------------------------------------------
(* One primitive: the i-th of prog, where the stack pointer is sp below that of
   the function.  Each assemprim() is one operator.  Fake(i, 0), 1, ... are its
   registers ra, rb, ro ..., and LabelNum(i, 1), ... the labels it makes. *)
LabelNum(i, k) == 40000 + (10 * i) + k
LabelMach(prog, l) == LabelNum(LabelAt(prog, l), 0)

Long(t) == Size(t) = 4
ArithOp == ("+" :> "ADD") @@ ("-" :> "SUB") @@ ("&" :> "AND") @@ ("|" :> "OR") @@ ("^" :> "XOR")
WithCarry(mop) == IF mop = "ADD" THEN "ADC" ELSE IF mop = "SUB" THEN "SBB" ELSE mop
BranchOp(sined, op) ==
    CASE op = "==" -> "BEQ" [] op = "!=" -> "BNE"
      [] op = "<" -> IF sined THEN "BLT" ELSE "BLO"
      [] op = "<=" -> IF sined THEN "BLE" ELSE "BLOS"
      [] op = ">" -> IF sined THEN "BGT" ELSE "BHI"
      [] op = ">=" -> IF sined THEN "BGE" ELSE "BHIS"
UnsignedInt(t) == IsInt(t) /\ ~Signed(t)

Copy(i, sp, o, a, size, high) ==
    LET part(off, k, r) == LoadInto(i, k, sp, a, r, off) \o StoreFrom(i, k + 4, sp, o, r, off) IN
    part(0, 10, Fake(i, 0)) \o (IF size = 4 THEN part(2, 20, high) ELSE << >>)
AssemAsnop(i, sp, p) == Copy(i, sp, p.o, p.a, Size(p.a.t), Fake(i, 1))

LongArith(i, sp, p, mop) ==      \* through the addresses of the operands and of the result
    LET word(m, off) == <<Load("LDW", Fake(i, 3), off, Fake(i, 0)), Load("LDW", Fake(i, 4), off, Fake(i, 1)),
                          Arith3(m, Fake(i, 3), Fake(i, 3), Fake(i, 4)), StoreM("STW", Fake(i, 3), off, Fake(i, 2))>> IN
    LdaInto(i, 10, sp, p.a, Fake(i, 0)) \o LdaInto(i, 20, sp, p.b, Fake(i, 1)) \o LdaInto(i, 30, sp, p.o, Fake(i, 2))
    \o word(mop, 0) \o word(WithCarry(mop), 2)
AddSubAndXorOr(i, sp, p, mop) ==
    IF Size(p.a.t) <= 2
    THEN LoadInto(i, 10, sp, p.a, Fake(i, 0), 0) \o LoadInto(i, 20, sp, p.b, Fake(i, 1), 0)
         \o <<Arith3(mop, Fake(i, 2), Fake(i, 0), Fake(i, 1))>> \o StoreFrom(i, 30, sp, p.o, Fake(i, 2), 0)
    ELSE LongArith(i, sp, p, mop)

(* A call of the library.  The name of the routine tells how wide the result and
   the operands are and whether they have signs (a constant that is not negative
   has none); a long is passed by its address. *)
SizeChar(v) == [long |-> Long(v.t), sined |-> Signed(v.t) /\ ~(v.k = "num" /\ v.v >= 0)]
MulDivMod(i, sp, p) ==
    LET name == [k |-> "lib", o |-> SizeChar(p.o), a |-> SizeChar(p.a), b |-> SizeChar(p.b)]
        pass(k, v, reg) ==
            IF Long(v.t) THEN LdaInto(i, k, sp, v, Hard(i, reg, reg)) ELSE LoadInto(i, k, sp, v, Hard(i, reg, reg), 0)
        in == <<Hard(i, 3, 3), Hard(i, 2, 2), Hard(i, 1, 1)>>
        r0 == Hard(i, 0, 0) IN
    (IF Long(p.o.t) THEN LdaInto(i, 10, sp, p.o, r0) ELSE << >>)
    \o pass(20, p.a, 1) \o pass(30, p.b, 2)
    \o <<LdLbl(Hard(i, 3, 3), LabelNum(i, 1)),
         CallImm(p.op, name, 0, IF Long(p.o.t) THEN << >> ELSE <<r0>>, IF Long(p.o.t) THEN Append(in, r0) ELSE in),
         LabelHere(LabelNum(i, 1), << >>)>>
    \o (IF Long(p.o.t) THEN << >> ELSE StoreFrom(i, 40, sp, p.o, r0, 0))

Shifts(i, sp, p) ==
    LET count == p.b.v % (2 ^ (8 * Size(p.a.t)))
        mop == IF p.op = "<<" THEN "SHL" ELSE IF UnsignedInt(p.a.t) THEN "LSR" ELSE "ASR"
        r == Fake(i, 0) IN
    IF Size(p.a.t) <= 2 /\ p.b.k = "num" /\ count <= 4
    THEN LoadInto(i, 10, sp, p.a, r, 0) \o [j \in 1..count |-> Arith2(mop, r, r)] \o StoreFrom(i, 20, sp, p.o, r, 0)
    ELSE MulDivMod(i, sp, p)

CompareAndBranch(i, sp, p, bop, lbl, one) ==      \* the high words first, then the low ones
    LET words(k, off) == LoadInto(i, k, sp, p.a, Fake(i, 0), off) \o LoadInto(i, k + 5, sp, p.b, Fake(i, 1), off) IN
    (IF Long(p.a.t) THEN Append(words(10, 2), CmpBr("BNE", Fake(i, 0), Fake(i, 1), one, 0)) ELSE << >>)
    \o Append(words(20, 0), CmpBr(bop, Fake(i, 0), Fake(i, 1), lbl, IF Long(p.a.t) THEN one ELSE 0))
Compares(i, sp, p) ==
    LET bop == BranchOp(~UnsignedInt(p.a.t) /\ ~UnsignedInt(p.b.t), RevCmp[p.op])
        ro == Fake(i, 2)
        branch == CompareAndBranch(i, sp, p, bop, LabelNum(i, 1), LabelNum(i, 2)) IN
    (IF Long(p.a.t) THEN <<Clr(ro)>> \o branch
     ELSE SubSeq(branch, 1, Len(branch) - 1) \o <<Clr(ro), branch[Len(branch)]>>)
    \o <<Arith2("INC", ro, ro), LabelHere(LabelNum(i, 1), << >>)>> \o StoreFrom(i, 30, sp, p.o, ro, 0)

AssemBinop(i, sp, p) ==
    CASE p.op \in DOMAIN ArithOp -> AddSubAndXorOr(i, sp, p, ArithOp[p.op])
      [] p.op \in {"*", "/", "%"} -> MulDivMod(i, sp, p)
      [] p.op \in {"<<", ">>"} -> Shifts(i, sp, p)
      [] p.op \in CmpOps -> Compares(i, sp, p)

(* The call that a start of a call belongs to, and the room for its arguments. *)
CallOf(prog, i) ==
    CHOOSE j \in (i + 1)..Len(prog) :
        /\ prog[j].k = "call"
        /\ \A k \in i..(j - 1) : Cardinality({x \in i..k : prog[x].k = "callstart"})
                                    > Cardinality({x \in i..k : prog[x].k = "call"})
        /\ Cardinality({x \in i..j : prog[x].k = "callstart"}) = Cardinality({x \in i..j : prog[x].k = "call"})
StackSize(prog, i) == BlockSize(prog[CallOf(prog, i)].args)
AssemCallStart(i, room) == IF room > 0 THEN BigLda(i, 10, SPReg, -room, SPReg) ELSE << >>

AssemCall(i, sp, p) ==      \* the function pops its arguments
    LET pop == BlockSize(p.args)
        rv == IF p.o.k = "none" THEN << >> ELSE IF Long(p.o.t) THEN <<Hard(i, 0, 0), Hard(i, 1, 1)>> ELSE <<Hard(i, 0, 0)>>
        keep(j) == StoreFrom(i, 10 * j, sp - pop, p.o, rv[j], 2 * (j - 1)) IN
    <<LdLbl(Hard(i, 3, 3), LabelNum(i, 1)), CallImm(p.op, NoVal, pop, << >>, <<Hard(i, 3, 3)>>), LabelHere(LabelNum(i, 1), rv)>>
    \o (IF Len(rv) >= 1 THEN keep(1) ELSE << >>) \o (IF Len(rv) = 2 THEN keep(2) ELSE << >>)

ToBool(i, sp, p) ==
    LET ra == Fake(i, 0)
        ro == Fake(i, 1) IN
    LoadInto(i, 10, sp, p.a, ra, 0) \o <<Clr(ro)>>
    \o (IF Long(p.a.t) THEN Append(LoadInto(i, 20, sp, p.a, Fake(i, 2), 2), Arith3("OR", ra, ra, Fake(i, 2))) ELSE << >>)
    \o <<TstBr("BEQ", ra, LabelNum(i, 1), 0), Arith2("INC", ro, ro), LabelHere(LabelNum(i, 1), << >>)>>
    \o StoreFrom(i, 30, sp, p.o, ro, 0)
Widen(i, sp, p) ==      \* with the signedness of the source
    LET ra == Fake(i, 0)
        rb == Fake(i, 1) IN
    LoadInto(i, 10, sp, p.a, ra, 0) \o StoreFrom(i, 20, sp, p.o, ra, 0)
    \o (IF ~Long(p.o.t) THEN << >>
        ELSE (IF Signed(p.a.t) THEN <<Arith3("ADD", rb, ra, ra), Arith3("SBB", rb, rb, rb)>> ELSE <<Clr(rb)>>)
             \o StoreFrom(i, 30, sp, p.o, rb, 2))
AssemCast(i, sp, p) ==
    IF p.o.t = "bool" THEN ToBool(i, sp, p)
    ELSE IF Size(p.o.t) <= Size(p.a.t) THEN Copy(i, sp, p.o, p.a, Size(p.o.t), Fake(i, 0))
    ELSE Widen(i, sp, p)

AssemComp(i, sp, p, lbl) == CompareAndBranch(i, sp, p, BranchOp(Signed(p.a.t), p.op), lbl, LabelNum(i, 1))
AssemTest(i, sp, p, lbl) ==
    LET ra == Fake(i, 0) IN
    (IF Long(p.a.t) THEN Append(LoadInto(i, 10, sp, p.a, ra, 2), TstBr("BNE", ra, LabelNum(i, 1), 0)) ELSE << >>)
    \o Append(LoadInto(i, 20, sp, p.a, ra, 0),
              TstBr(BranchOp(Signed(p.a.t), p.op), ra, lbl, IF Long(p.a.t) THEN LabelNum(i, 1) ELSE 0))

AssemEntry(i) == <<Ent(<<SPReg, Hard(i, 3, 3)>>)>> \o VarStore(i, 10, 0, RetAddr, Hard(i, 3, 3), 0)
AssemRet(i, sp, p) ==
    LET rv == IF p.a.k = "none" THEN << >> ELSE IF Long(p.a.t) THEN <<Hard(i, 0, 0), Hard(i, 1, 1)>> ELSE <<Hard(i, 0, 0)>>
        value(j) == LoadInto(i, 10 * j, sp, p.a, rv[j], 2 * (j - 1)) IN
    (IF Len(rv) >= 1 THEN value(1) ELSE << >>) \o (IF Len(rv) = 2 THEN value(2) ELSE << >>)
    \o VarLoad(i, 30, sp, RetAddr, Hard(i, 3, 3), 0) \o <<Ret(<<SPReg, Hard(i, 3, 3)>> \o rv)>>

AssemUnop(i, sp, p) ==
    LET ra == Fake(i, 0)
        rb == Fake(i, 1)
        ro == Fake(i, 2)
        rp == Fake(i, 3)
        load == LoadInto(i, 10, sp, p.a, ra, 0)
        store == StoreFrom(i, 20, sp, p.o, ro, 0)
        high == LoadInto(i, 30, sp, p.a, rb, 2)
        both == store \o StoreFrom(i, 40, sp, p.o, rp, 2)
        bit == <<LdVal("LDW", ro, 1), Arith3("XOR", ro, ro, ra)>> IN
    CASE p.op = "&x" -> LdaInto(i, 10, sp, p.a, ro) \o store
      [] p.op # "&x" /\ p.a.t = "bool" -> load \o bit \o store
      [] p.op = "!" /\ p.a.t # "bool" ->
            load \o <<LdVal("LDW", rb, 1), Arith3("SUB", Fake(i, 4), ra, rb),
                      Arith3("SBB", rp, Fake(i, 4), Fake(i, 4)), Arith2("NEG", ro, rp)>> \o store
      [] p.op = "~" /\ p.a.t # "bool" ->
            IF ~Long(p.a.t) THEN load \o <<Arith2("COM", ro, ra)>> \o store
            ELSE load \o high \o <<Arith2("COM", ro, ra), Arith2("COM", rp, rb)>> \o both
      [] p.op = "-" /\ p.a.t # "bool" ->
            IF ~Long(p.a.t) THEN load \o <<Arith2("NEG", ro, ra)>> \o store
            ELSE <<Clr(Fake(i, 4))>> \o load \o high
                 \o <<Arith3("SUB", ro, Fake(i, 4), ra), Arith3("SBB", rp, Fake(i, 4), rb)>> \o both

AssemPrim(prog, i, sp) ==
    LET p == prog[i] IN
    CASE p.k = "asnop" -> AssemAsnop(i, sp, p)
      [] p.k = "binop" -> AssemBinop(i, sp, p)
      [] p.k = "unop" -> AssemUnop(i, sp, p)
      [] p.k = "cast" -> AssemCast(i, sp, p)
      [] p.k = "comp" -> AssemComp(i, sp, p, LabelMach(prog, p.l))
      [] p.k = "test" -> AssemTest(i, sp, p, LabelMach(prog, p.l))
      [] p.k = "jump" -> <<Branch(LabelMach(prog, p.l))>>
      [] p.k = "label" -> <<LabelHere(LabelNum(i, 0), << >>)>>
      [] p.k = "callstart" -> AssemCallStart(i, StackSize(prog, i))
      [] p.k = "call" -> AssemCall(i, sp, p)
      [] p.k = "ret" -> AssemRet(i, sp, p)
      [] p.k = "entry" -> AssemEntry(i)

(* What the stack pointer is below that of the function before primitive i, the
   places of the arguments of the calls, and the whole function (MachFile).  The
   variables on the stack have no place yet. *)
CurSpOffs(prog, i) ==
    LET starts == {j \in 1..(i - 1) : prog[j].k = "callstart" /\ CallOf(prog, j) >= i} IN
    FoldSet(LAMBDA j, n : n + StackSize(prog, j), 0, starts)
CallArgs(prog) ==
    FoldFunction(LAMBDA p, f : [n \in {p.args[j].n : j \in DOMAIN p.args} |->
                                  Layout(p.args).off[CHOOSE j \in DOMAIN p.args : p.args[j].n = n]] @@ f,
                 << >>, SelectSeq(prog, LAMBDA p : p.k = "call"))
MachFileOf(prog, s) ==
    LET of(k) == {s[i].v : i \in {j \in DOMAIN s : s[j].k = k}}
        listed(vs) == FoldSet(LAMBDA v, l : Append(l, v), << >>, vs) IN
    [ms |-> s, calar |-> CallArgs(prog), locn |-> << >>, ssize |-> 0,
     consts |-> listed({v \in of("ldstr") : v.k = "num"}),
     autos |-> listed({v.n : v \in {v \in of("ldstk") : ~IsParam(v)}})]
AssembleFunc(prog) ==
    MachFileOf(prog, FlattenSeq([i \in 1..Len(prog) |-> AssemPrim(prog, i, CurSpOffs(prog, i))]))
-------------------------------------------------------------------------------
(* What instructions compute.  The arithmetic, the branch conditions and the
   loads are those of the processor.  A function mf is its instructions ms, the
   places of its variables on the stack and the room ssize for them; a stack
   variable without a place has an address of its own. *)
Cpu(v) == INSTANCE Shadow WITH state <- v, ir <- v, regs <- v, psw <- v, alu <- v, newpsw <- v, fatal <- v

CallerSp == 20000
Returned == 39999       \* the address that the function is called from
PlaceIn(s, x) == CHOOSE i \in DOMAIN s : s[i] = x
StaticAddr(n) == 5000 + (10 * CHOOSE i \in DOMAIN UserVars : UserVars[i].n = n)
AddrOfValue(mf, v) == IF v.k = "num" THEN 6000 + (10 * PlaceIn(mf.consts, v)) ELSE StaticAddr(v.n)

(* VarLocn::getStkOffs: of a call argument, a parameter and a stack variable. *)
HasPlace(mf, v) == v.n \in DOMAIN mf.calar \/ IsParam(v) \/ v.n \in DOMAIN mf.locn
StkOffs(mf, v, sp) ==
    IF v.n \in DOMAIN mf.calar THEN mf.calar[v.n] - SpOffset
    ELSE IF IsParam(v) THEN mf.ssize + ParamOffset(v) - SpOffset + sp
    ELSE mf.locn[v.n] - SpOffset + sp

(* A run: pc, half of the compare and branch there has been done, the registers,
   the memory by address, the status word and whether its carry is unknown. *)
Key(r) == IF r.p = 8 THEN r.id ELSE <<r.p>>
Reg(c, r) == IF Key(r) \in DOMAIN c.regs THEN c.regs[Key(r)] ELSE Undef
MemAt(mem, a) == IF a \in DOMAIN mem THEN mem[a] ELSE Undef
Plus(x, y) == IF x = Undef THEN Undef ELSE Word(x + y)
SetReg(c, r, x) == [c EXCEPT !.regs = (Key(r) :> x) @@ @, !.pc = @ + 1]
Stuck(c) == [c EXCEPT !.st = "undefined"]

FromStack(mf, c, m) ==      \* the offset from the stack pointer
    IF HasPlace(mf, m.v) THEN Word(StkOffs(mf, m.v, m.sp) + m.n)
    ELSE Word(1000 + (10 * PlaceIn(mf.autos, m.v.n)) + m.n - Reg(c, SPReg))

LoadCode == ("LDW" :> 49152) @@ ("LDBU" :> 40960) @@ ("LDBS" :> 57344)
Loaded(op, w) == IF w = Undef THEN Undef ELSE Cpu(0)!LoadedWord(LoadCode[op], w)
DoLoad(c, op, d, a) == IF a = Undef THEN Stuck(c) ELSE SetReg(c, d, Loaded(op, MemAt(c.mem, a)))
DoStore(c, op, x, a) ==
    IF a = Undef THEN Stuck(c)
    ELSE [c EXCEPT !.mem = (a :> IF op = "STB" /\ x # Undef THEN x % 256 ELSE x) @@ @, !.pc = @ + 1]

AluCode == ("LSR" :> 0) @@ ("ASR" :> 1) @@ ("MOV" :> 4) @@ ("NEG" :> 5) @@ ("INC" :> 6) @@ ("COM" :> 7)
           @@ ("OR" :> 8) @@ ("AND" :> 9) @@ ("XOR" :> 10) @@ ("CLR" :> 10) @@ ("ADD" :> 12) @@ ("SHL" :> 12)
           @@ ("SUB" :> 13) @@ ("CMP" :> 13) @@ ("TST" :> 4) @@ ("ADC" :> 14) @@ ("SBB" :> 15)
KeepsCarry(op) == AluCode[op] \in 4..10
UsesCarry(op) == AluCode[op] \in {14, 15}
Alu(c, op, a, b) ==     \* the result, and c with the status word it leaves
    IF a = Undef \/ b = Undef \/ (UsesCarry(op) /\ c.nocy)
    THEN [res |-> Undef, c |-> [c EXCEPT !.psw = Undef, !.nocy = TRUE]]
    ELSE LET r == Cpu(0)!Arith(AluCode[op], a, b, IF c.psw = Undef THEN 0 ELSE c.psw) IN
         [res |-> r.res, c |-> [c EXCEPT !.psw = r.psw, !.nocy = @ /\ KeepsCarry(op)]]
DoArith(r, d) == SetReg(r.c, d, r.res)

BranchCode == ("BEQ" :> 1024) @@ ("BNE" :> 1025) @@ ("BLT" :> 2048) @@ ("BGE" :> 2049) @@ ("BLE" :> 3072)
              @@ ("BGT" :> 3073) @@ ("BLO" :> 4096) @@ ("BHIS" :> 4097) @@ ("BLOS" :> 5120) @@ ("BHI" :> 5121)
JumpTo(mf, c, l) ==
    LET i == CHOOSE i \in DOMAIN mf.ms : (mf.ms[i].k = "label" /\ mf.ms[i].l = l) \/ (l # 0 /\ mf.ms[i].brl = l) IN
    [c EXCEPT !.pc = i, !.half = mf.ms[i].k # "label"]
BranchOn(mf, c, m) ==
    IF c.psw = Undef \/ (c.nocy /\ m.op \in {"BLO", "BHIS", "BLOS", "BHI"}) THEN Stuck(c)
    ELSE IF Cpu(0)!BranchTrue(BranchCode[m.op], c.psw) THEN JumpTo(mf, [c EXCEPT !.half = FALSE], m.l)
    ELSE [c EXCEPT !.pc = @ + 1, !.half = FALSE]
Tested(mf, c, m) ==     \* no TST where the arithmetic just before has set the flags
    LET prev == mf.ms[c.pc - 1] IN
    IF IsArithMach(prev) /\ RegEq(prev.w[1], m.r[1]) THEN c ELSE Alu(c, "TST", Reg(c, m.r[1]), Reg(c, m.r[1])).c

(* What is called: the library's arithmetic, and the functions of the program. *)
SignedWord(w) == IF w < 32768 THEN w ELSE w - 65536
Read(c, a, char) ==
    IF ~char.long THEN IF char.sined /\ a # Undef THEN SignedWord(a) ELSE a
    ELSE IF MemAt(c.mem, a) = Undef \/ MemAt(c.mem, a + 2) = Undef THEN Undef
    ELSE MemAt(c.mem, a) + 65536 * SignedWord(MemAt(c.mem, a + 2))
LibCall(c, op, v) ==
    LET a == Read(c, Reg(c, Hard(0, 0, 1)), v.a)
        b == Read(c, Reg(c, Hard(0, 0, 2)), v.b)
        x == Arith(op, a, b)
        at == Reg(c, Hard(0, 0, 0)) IN
    IF a = Undef \/ b = Undef \/ (op \in {"/", "%"} /\ b = 0) \/ (v.o.long /\ at = Undef) THEN [ok |-> FALSE]
    ELSE IF v.o.long THEN [ok |-> TRUE, r0 |-> Undef, mem |-> (at :> Word(x)) @@ ((at + 2) :> Word(x \div 65536)) @@ c.mem]
    ELSE [ok |-> TRUE, r0 |-> Word(x), mem |-> c.mem]
FuncCall(c, f) ==
    LET arg == MemAt(c.mem, Reg(c, SPReg) - SpOffset)
        gaddr == StaticAddr("g")
        result(ok, r0, mem) == [ok |-> ok, r0 |-> r0, mem |-> mem] IN
    CASE f = "next" -> result(arg # Undef, Word(arg + 1), c.mem)
      [] f = "bump" -> result(TRUE, c.mem[gaddr], (gaddr :> Word(c.mem[gaddr] + 1)) @@ c.mem)
      [] f = "clear" -> result(arg # Undef, 0, (arg :> 0) @@ c.mem)
DoCall(mf, c, m) ==     \* R0 to R5 and the flags are lost, the arguments are popped, back to R3
    LET r == IF m.v.k = "lib" THEN LibCall(c, m.op, m.v) ELSE FuncCall(c, m.op)
        back == Reg(c, Hard(0, 0, 3))
        kept == [k \in {k \in DOMAIN c.regs : k \notin {<<p>> : p \in 0..5}} |-> c.regs[k]] IN
    IF ~r.ok \/ back = Undef THEN Stuck(c)
    ELSE JumpTo(mf, [c EXCEPT !.regs = (<<0>> :> r.r0) @@ (<<6>> :> Word(@[<<6>>] + m.n)) @@ kept, !.mem = r.mem,
                            !.psw = Undef, !.nocy = TRUE], back)
MoveSp(c, by) == [c EXCEPT !.regs = (<<6>> :> Word(@[<<6>>] + by)) @@ @, !.pc = @ + 1]
DoRet(c) ==
    IF Reg(c, Hard(0, 0, 3)) = Returned /\ Reg(c, SPReg) = CallerSp + BlockSize(Params)
    THEN [c EXCEPT !.st = "returned"] ELSE [c EXCEPT !.st = "lost"]

StepMach(mf, c) ==
    LET m == mf.ms[c.pc]
        ra == Reg(c, m.r[1])
        rb == Reg(c, m.r[Len(m.r)]) IN
    CASE m.k = "ent" -> MoveSp(c, -mf.ssize)
      [] m.k = "label" -> [c EXCEPT !.pc = @ + 1]
      [] m.k = "a1" -> DoArith(Alu(c, m.op, 0, 0), m.w[1])
      [] m.k \in {"a2", "a3"} -> DoArith(Alu(c, m.op, ra, rb), m.w[1])
      [] m.k = "lda" -> SetReg(c, m.w[1], Plus(ra, m.n))
      [] m.k = "ldastk" -> SetReg(c, m.w[1], Plus(Reg(c, SPReg), FromStack(mf, c, m)))
      [] m.k = "ldlbl" -> SetReg(c, m.w[1], m.l)
      [] m.k = "ldstk" -> SetReg(c, m.w[1], FromStack(mf, c, m))
      [] m.k = "ldstr" -> SetReg(c, m.w[1], AddrOfValue(mf, m.v) + m.n)
      [] m.k = "ldval" -> SetReg(c, m.w[1], Loaded(m.op, m.n))
      [] m.k = "load" -> DoLoad(c, m.op, m.w[1], Plus(ra, m.n))
      [] m.k = "loadstk" -> DoLoad(c, m.op, m.w[1], Plus(Reg(c, SPReg), FromStack(mf, c, m)))
      [] m.k = "store" -> DoStore(c, m.op, ra, Plus(rb, m.n))
      [] m.k = "storestk" -> DoStore(c, m.op, ra, Plus(Reg(c, SPReg), FromStack(mf, c, m)))
      [] m.k = "br" -> JumpTo(mf, c, m.l)
      [] m.k = "cmpbr" -> BranchOn(mf, IF c.half THEN c ELSE Alu(c, "CMP", ra, rb).c, m)
      [] m.k = "tstbr" -> BranchOn(mf, IF c.half THEN c ELSE Tested(mf, c, m), m)
      [] m.k = "call" -> DoCall(mf, c, m)
      [] m.k = "ret" -> DoRet(MoveSp(c, mf.ssize + BlockSize(Params)))

(* Words as the bytes of a number of type t, and back. *)
Stored(t, x) == x % (IF Size(t) = 1 THEN 256 ELSE 65536)
Shown(t, w) == IF w = Undef THEN Undef ELSE Narrow(t, w)

RECURSIVE RunMach(_, _, _)
RunMach(mf, c, fuel) ==
    IF c.st # "run" THEN c
    ELSE IF fuel = 0 THEN [c EXCEPT !.st = "runs on"]
    ELSE RunMach(mf, StepMach(mf, c), fuel - 1)

(* The function is called with its parameters on the stack and R3 saying where to
   return to.  input gives variables their values. *)
Start(mf, input) ==
    LET statics == {i \in DOMAIN UserVars : UserVars[i].st}
        given == {i \in DOMAIN Params : Params[i].n \in DOMAIN input}
        num(i) == Narrow(mf.consts[i].t, mf.consts[i].v) IN
    [pc |-> 1, half |-> FALSE, psw |-> Undef, nocy |-> TRUE, st |-> "run",
     regs |-> (<<3>> :> Returned) @@ (<<6>> :> CallerSp),
     mem |-> FoldSet(LAMBDA i, f : (StaticAddr(UserVars[i].n) :> Stored(UserVars[i].t, input[UserVars[i].n])) @@ f, << >>, statics)
          @@ FoldSet(LAMBDA i, f : (CallerSp + ParamOffset(Params[i]) - SpOffset
                                      :> Stored(Params[i].t, input[Params[i].n])) @@ f, << >>, given)
          @@ FoldSet(LAMBDA i, f : (6000 + 10 * i :> Word(num(i))) @@ (6002 + 10 * i :> Word(num(i) \div 65536)) @@ f,
                     << >>, DOMAIN mf.consts)]
MachOutcome(c) ==
    LET static(n) == UserVars[CHOOSE i \in DOMAIN UserVars : UserVars[i].n = n] IN
    [status |-> IF c.st = "run" THEN "runs on" ELSE c.st,
     ret |-> IF c.st = "returned" THEN Shown(RetType, Reg(c, Hard(0, 0, 0))) ELSE 0,
     statics |-> [n \in {UserVars[i].n : i \in {j \in DOMAIN UserVars : UserVars[j].st}} |->
                     Shown(static(n).t, MemAt(c.mem, StaticAddr(n)))]]
RunMachs(mf, input) == MachOutcome(RunMach(mf, Start(mf, input), MachFuel))
===============================================================================
