----------------------------- MODULE MCToolchain -----------------------------
(***************************************************************************)
(* Programs for the assembler and the linker, and what they mean: the      *)
(* bytes each line stands for, at the address the line has once all psects *)
(* have theirs.  And object files for the linker alone: chains of files    *)
(* that refer to each other, in both orders, with psects that grow beyond  *)
(* what their alignment leaves.  And struct types, that the compiler lays   *)
(* out in the source files it writes.                                      *)
(***************************************************************************)
EXTENDS Assembler, Structs

VARIABLE job

(* Lines. *)
Lit(n) == [t |-> "int", v |-> n]
Sym(n) == [t |-> "sym", s |-> n]
Neg(x) == [t |-> "neg", of |-> x]
Com(x) == [t |-> "com", of |-> x]
Par(e) == [t |-> "par", of |-> e]
Here == Sym(Dot)
Lbl(n) == [op |-> "label", name |-> n]
Set(n, e) == [op |-> "set", name |-> n, expr |-> e]
Expr(o, e) == [op |-> o, expr |-> e]
Exprs(o, es) == [op |-> o, exprs |-> es]
Bytes(o, bs) == [op |-> o, bytes |-> bs]
Glob(ns) == [op |-> "global", names |-> ns]
Sect(p, o) == [op |-> "psect", psect |-> p, ovr |-> o]
Bare(o) == [op |-> o]
Ins(o, mne, regs, e, b) == [op |-> o, mne |-> mne, regs |-> regs, expr |-> e, base |-> b]

(* Pieces of source files: code with a loop and data beside it; data in a psect
   of their own, unaligned first; conditionals, nested, with symbols; a block
   that other files have as well; expressions; a psect that is left and gone
   back to, with a gap made by way of ".".  ext is defined in another file. *)
Code == <<Lbl("loop"), Ins("regs", "add", 128 + 2 * 1024 + 16, <<>>, NoReg),
          Ins("ls", "lda", 384, <<Sym("tab")>>, NoReg),
          Ins("immed", "ldw", 128, <<Sym("ext"), "+", Lit(2)>>, NoReg),
          Ins("ls", "stw", 128, <<Neg(Lit(4))>>, 6),
          Ins("branch", "bne", 0, <<Sym("loop")>>, NoReg),
          Ins("branch", "br", 0, <<Sym("tab")>>, NoReg),
          Lbl("tab"), Exprs("word", <<<<Sym("ext")>>, <<Sym("tab"), "-", Sym("loop")>>>>)>>
Data == <<Sect(2, FALSE), Bytes("asciz", <<1, 2>>), Exprs("byte", <<<<Neg(Lit(1))>>>>),
          Expr("align", <<Lit(2)>>), Lbl("var"), Exprs("word", <<<<Sym("var"), "+", Lit(2)>>>>),
          Exprs("long", <<<<Lit(100000)>>>>), Expr("blkb", <<Lit(3)>>), Bytes("ascii", <<7, 8, 9>>)>>
Conditional ==
    <<Set("flag", <<Lit(1), "-", Sym("mode")>>),
      Expr("if", <<Sym("flag")>>), Exprs("byte", <<<<Lit(10)>>>>),
      Expr("if", <<Lit(0)>>), Exprs("byte", <<<<Lit(11)>>>>), Bare("else"),
      Exprs("byte", <<<<Lit(12)>>>>), Bare("endif"), Bare("else"),
      Exprs("word", <<<<Lit(13)>>>>), Expr("if", <<Lit(1)>>), Exprs("byte", <<<<Lit(14)>>>>),
      Bare("endif"), Bare("endif"), Exprs("byte", <<<<Lit(15)>>>>), Expr("p2align", <<Lit(1)>>)>>
Common == <<Sect(3, TRUE), Expr("align", <<Lit(2)>>), Lbl("block"),
            Exprs("word", <<<<Sym("block"), "+", Lit(1)>>>>), Sect(1, FALSE)>>
Sums == <<Lbl("sums"),
          Exprs("word", <<<<Lit(2), "+", Lit(3), "*", Lit(4)>>, <<Lit(9), "-", Par(<<Lit(2), "+", Lit(3)>>)>>,
                          <<Com(Lit(1)), "&", Lit(7)>>, <<Lit(1), "|", Lit(6), "^", Lit(3)>>>>),
          Exprs("word", <<<<Lit(17), "/", Lit(5)>>, <<Lit(17), "%", Lit(5)>>, <<Sym("sums"), "+", Lit(1), "-", Lit(3)>>>>)>>
Gap == <<Sect(2, FALSE), Exprs("byte", <<<<Lit(1)>>>>), Sect(1, FALSE), Exprs("byte", <<<<Lit(2)>>>>),
         Set(Dot, <<Here, "+", Lit(3)>>), Sect(2, FALSE), Exprs("byte", <<<<Lit(3)>>>>),
         Sect(1, FALSE), Exprs("word", <<<<Here>>>>)>>
Pieces == {Code, Data, Conditional, Common, Sums, Gap}

File(r, ls) == [ifrefd |-> r, lines |-> ls]
Main(mode, x, y) ==
    File(FALSE, <<Glob({"boot"}), Lbl("boot"), Set("mode", <<Lit(mode)>>)>> \o x \o y)
Member(n, x) == File(TRUE, <<Glob({n}), Set("mode", <<Lit(0)>>)>> \o x \o <<Lbl(n), Exprs("word", <<<<Sym(n)>>>>)>>)

(* Members of archives that refer to each other, in any order and with psects
   of every alignment. *)
Ref(n) == <<Exprs("word", <<<<Sym(n)>>>>)>>
Filled(p, o, p2, n) == <<Sect(p, o), Expr("p2align", <<Lit(p2)>>), Expr("blkb", <<Lit(n)>>)>>
Chains ==
    LET fs == {File(FALSE, <<Glob({"boot"}), Lbl("boot")>> \o Ref("ext")),
               Member("ext", Filled(2, FALSE, 1, 3) \o Ref("unused")),
               Member("unused", Filled(3, TRUE, 3, 5)),
               Member("other", Filled(3, TRUE, 2, 7) \o Filled(2, FALSE, 0, 1) \o Ref("boot"))}
    IN  {s \in [1 .. 4 -> fs] : \A f \in fs : \E i \in 1 .. 4 : s[i] = f}
        \cup {s \in [1 .. 3 -> fs] : \A f \in {g \in fs : ~g.ifrefd} : \E i \in 1 .. 3 : s[i] = f}

MCSources ==
    UNION {{<<Main(0, x, y), Member("unused", z), Member("ext", z)>> : y \in Pieces \ {x}, z \in {Data, Common}} : x \in Pieces}
    \cup {<<Member("ext", Conditional), Main(1, x, <<>>)>> : x \in Pieces}
    \cup Chains
(* Object files that another toolchain might have written. *)
PsectOf(p, size, p2al, ovr) == [kind |-> "psect", psect |-> p, size |-> size, p2al |-> p2al, ovr |-> ovr]
Defined(n, v, p) == [kind |-> "symbol", name |-> n, value |-> v, psect |-> p]
Refer(v, s) == [kind |-> "word", at |-> 0, psect |-> NoPsect, value |-> v, rel |-> NoPsect, sym |-> s]
Object(r, ls) == [ifrefd |-> r, lines |-> ls]
PsectSets ==
    {<<>>, <<PsectOf(1, 3, 0, FALSE)>>, <<PsectOf(1, 4, 3, FALSE)>>,
     <<PsectOf(1, 2, 1, FALSE), PsectOf(2, 3, 0, FALSE)>>,
     <<PsectOf(2, 4, 2, FALSE), PsectOf(3, 5, 1, TRUE)>>,
     <<PsectOf(3, 6, 0, TRUE), PsectOf(1, 65534, 3, FALSE)>>}
Defining(n, refs) ==
    {Object(TRUE, ps \o <<Defined(n, 0, NoPsect)>> \o w) :
        ps \in PsectSets, w \in {<<>>} \cup {<<Refer(4, r)>> : r \in refs}}
MCObjects ==
    LET booting == Object(FALSE, <<PsectOf(1, 2, 1, FALSE), Defined("boot", 0, 1), Refer(1, "ext")>>)
        chains == Defining("ext", {"unused"}) \X Defining("unused", {"other"}) \X Defining("other", {})
    IN  {<<booting, c[1], c[2], c[3]>> : c \in chains} \cup {<<c[3], c[2], c[1], booting>> : c \in chains}

(* Structs: bytes, odd and even in number, a word between them, and more than a lda
   reaches over; functions that are virtual, pure, or of another type. *)
Func(name, stor, sig) == [name |-> name, stor |-> stor, pure |-> FALSE, sig |-> sig]
OneByte(name) == [name |-> name, size |-> 1, align |-> 1]
OneWord(name) == [name |-> name, size |-> 2, align |-> 2]
Far == [name |-> "big", size |-> 70, align |-> 2]
Virtual == Func("f", "virtual", 9)
Ctor == Func("__ctor", "none", 0)
Dtor == Func("__dtor", "none", 0)
BodyOf(members, funcs) == [unyun |-> FALSE, vars |-> members, funcs |-> funcs]
MCBodies ==
    {BodyOf(<<OneByte("a")>>, << >>), BodyOf(<<OneByte("a"), OneWord("b"), OneByte("c"), OneByte("e")>>, <<Virtual>>),
     BodyOf(<<OneWord("d")>>, <<Virtual, Ctor>>),
     BodyOf(<<OneByte("a"), OneByte("e")>>, <<Func("g", "virtual", 9), Virtual, Ctor, Dtor>>),
     BodyOf(<<OneByte("c")>>, <<[Virtual EXCEPT !.pure = TRUE]>>),
     BodyOf(<< >>, <<Func("f", "virtual", 8), Dtor>>),
     BodyOf(<<Far>>, << >>), [BodyOf(<<OneByte("a"), OneWord("b")>>, << >>) EXCEPT !.unyun = TRUE]}
MCParentLists ==
    {<< >>, <<1>>, <<2>>, <<3>>, <<1, 2>>, <<1, 3>>, <<2, 1, 3>>}
MCInitialisers == {<< >>, <<"a">>, <<"b", "a">>, <<"", "c">>}

(* A build from sources, or from object files that are there; or structs. *)
Idle == sources = << >> /\ asmfile = 1 /\ asmline = 1 /\ asmpass = 0 /\ st = Start /\ objects = << >>
MCInit ==
    /\ StructsInit
    /\ \/ job = "build" /\ BuildInit
       \/ job = "build" /\ LinkInit /\ Idle
       \/ job = "structs" /\ LinkInit /\ objfiles = (CHOOSE o \in ObjectLists : TRUE) /\ Idle
MCNext ==
    \/ job = "build" /\ BuildNext /\ UNCHANGED <<job, types>>
    \/ job = "structs" /\ Declare /\ UNCHANGED <<job, asmVars, linkVars>>
MCSpec == MCInit /\ [][MCNext]_<<job, types, asmVars, linkVars>>
StructsOnly == MCInit /\ job = "structs" /\ [][MCNext]_<<job, types, asmVars, linkVars>>
-----------------------------------------------------------------------------
(* The meaning of a source file, from its text and the addresses alone. *)
Lns(f) == sources[f].lines

RECURSIVE Meaning(_, _, _), Term(_, _, _), At(_, _)

(* Where the lines before line i of file f lead: the psect, how far each is
   filled, how deep in conditionals, and at which level the outermost false
   one is (off, 0 if there is none). *)
Up(n, a) == ((n + a - 1) \div a) * a

At(f, i) ==
    IF i = 1 THEN [psect |-> TextPsect, offs |-> [p \in Psects |-> 0], level |-> 0, off |-> 0]
    ELSE LET w == At(f, i - 1)
             ln == Lns(f)[i - 1]
             m == Meaning(f, i - 1, ln.expr)
             To(n) == [w EXCEPT !.offs[w.psect] = n]
             On(n) == To(w.offs[w.psect] + n)
         IN  IF w.off > 0
             THEN CASE ln.op = "if" -> [w EXCEPT !.level = @ + 1]
                    [] ln.op = "else" /\ w.level = w.off -> [w EXCEPT !.off = 0]
                    [] ln.op = "endif" -> [w EXCEPT !.level = @ - 1, !.off = IF w.level = @ THEN 0 ELSE @]
                    [] OTHER -> w
             ELSE CASE ln.op = "if" -> [w EXCEPT !.level = @ + 1, !.off = IF m = 0 THEN w.level + 1 ELSE 0]
                    [] ln.op = "else" -> [w EXCEPT !.off = w.level]
                    [] ln.op = "endif" -> [w EXCEPT !.level = @ - 1]
                    [] ln.op = "psect" -> [w EXCEPT !.psect = ln.psect]
                    [] ln.op = "align" -> To(Up(w.offs[w.psect], m))
                    [] ln.op = "p2align" -> To(Up(w.offs[w.psect], 2 ^ m))
                    [] ln.op = "set" /\ ln.name = Dot -> To(m - PartBase(f, w.psect))
                    [] ln.op = "blkb" -> On(m)
                    [] ln.op = "ascii" -> On(Len(ln.bytes))
                    [] ln.op = "asciz" -> On(Len(ln.bytes) + 1)
                    [] ln.op = "byte" -> On(Len(ln.exprs))
                    [] ln.op = "word" -> On(2 * Len(ln.exprs))
                    [] ln.op = "long" -> On(4 * Len(ln.exprs))
                    [] ln.op = "immed" -> On(4)
                    [] ln.op \in {"ls", "branch", "regs"} -> On(2)
                    [] OTHER -> w

Active(f, i) == At(f, i).off = 0
Address(f, i) == LET w == At(f, i) IN PartBase(f, w.psect) + w.offs[w.psect]

(* Expressions on numbers: the last of the loosest operators comes last. *)
Meaning(f, i, e) ==
    IF Len(e) = 1 THEN Term(f, i, e[1])
    ELSE LET ops == {2 * k : k \in 1 .. Len(e) \div 2}
             k == CHOOSE k \in ops : \A j \in ops : Preced(e[j]) < Preced(e[k])
                                                    \/ (Preced(e[j]) = Preced(e[k]) /\ j <= k)
             a == Meaning(f, i, SubSeq(e, 1, k - 1))
             b == Meaning(f, i, SubSeq(e, k + 1, Len(e)))
         IN  CASE e[k] = "-" -> a - b
               [] e[k] \in {"|", "^", "&"} -> Arithmetic(e[k], a % Wide, b % Wide)
               [] OTHER -> Arithmetic(e[k], a, b)

(* A symbol is a label or an assignment of this file, or else of the file that
   makes it global. *)
Defines(f, n) == {i \in 1 .. Len(Lns(f)) : Lns(f)[i].op \in {"label", "set"} /\ Lns(f)[i].name = n}
Exports(f, n) == \E i \in 1 .. Len(Lns(f)) : Lns(f)[i].op = "global" /\ n \in Lns(f)[i].names

Term(f, i, x) ==
    CASE x.t = "int" -> x.v
      [] x.t = "neg" -> -Term(f, i, x.of)
      [] x.t = "com" -> -1 - Term(f, i, x.of)
      [] x.t = "par" -> Meaning(f, i, x.of)
      [] x.t = "sym" /\ x.s = Dot -> Address(f, i)
      [] x.t = "sym" /\ x.s # Dot ->
             LET g == IF Defines(f, x.s) # {} THEN f
                      ELSE CHOOSE h \in 1 .. Len(sources) : Exports(h, x.s)
                 j == CHOOSE j \in Defines(g, x.s) : TRUE
             IN  IF Lns(g)[j].op = "label" THEN Address(g, j) ELSE Meaning(g, j, Lns(g)[j].expr)

(* Memory as the output fills it; there must be one byte. *)
Memory(a) == {b \in 0 .. 255 : \E <<at, bs>> \in output :
                  a \in at .. at + Len(bs) - 1 /\ bs[a - at + 1] = b}
Holds(a, bytes) == \A k \in 1 .. Len(bytes) : Memory(a + k - 1) = {bytes[k]}
Num16(v) == WordBytes(v % WordSize)
WordAt(a) == (CHOOSE b \in Memory(a) : TRUE) + 256 * (CHOOSE b \in Memory(a + 1) : TRUE)
Sext(v, n) == IF v >= n \div 2 THEN v - n ELSE v

LineRight(f, i) ==
    LET ln == Lns(f)[i]
        a == Address(f, i)
        m(e) == Meaning(f, i, e)
        word == Opcodes(ln.mne).word + ln.regs
    IN  CASE ln.op = "ascii" -> Holds(a, ln.bytes)
          [] ln.op = "asciz" -> Holds(a, Append(ln.bytes, 0))
          [] ln.op = "byte" -> Holds(a, [k \in 1 .. Len(ln.exprs) |-> m(ln.exprs[k]) % 256])
          [] ln.op = "word" ->
                 \A k \in 1 .. Len(ln.exprs) : Holds(a + 2 * (k - 1), Num16(m(ln.exprs[k])))
          [] ln.op = "long" ->
                 \A k \in 1 .. Len(ln.exprs) : Holds(a + 4 * (k - 1), LongBytes(m(ln.exprs[k])))
          [] ln.op = "immed" -> Holds(a, Num16(word + 7 * 1024) \o Num16(m(ln.expr)))
          [] ln.op = "regs" -> Holds(a, Num16(word))
          [] ln.op = "branch" ->
                 WordAt(a) = word + (WordAt(a) % 1024) - (WordAt(a) % 2) - (word % 1024) + (word % 2)
                 /\ a + 2 + Sext((WordAt(a) % 1024) - (WordAt(a) % 2), 1024) = m(ln.expr)
          [] ln.op = "ls" ->
                 /\ WordAt(a) - (WordAt(a) % 128) = word + 1024 * (IF ln.base = NoReg THEN 7 ELSE ln.base)
                 /\ m(ln.expr) = Sext(WordAt(a) % 128, 128) + (IF ln.base = NoReg THEN a + 2 ELSE 0)
          [] OTHER -> TRUE

(* Every line of every file that is loaded is in memory with its meaning:
   labels that are used before they are defined, in other psects and in other
   files, bytes that are buffered while "." moves, psects that are left and
   gone back to (asm/assemble.c, asm/link.c). *)
ImageMeansSource ==
    passno = "done" /\ objfiles = objects /\ ~carried /\ Raised =>
        \A f \in Loaded : \A i \in 1 .. Len(Lns(f)) : Active(f, i) => LineRight(f, i)

=============================================================================
