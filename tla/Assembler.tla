------------------------------ MODULE Assembler ------------------------------
(***************************************************************************)
(* asm/assemble.c, and a build: source files are assembled one after the   *)
(* other and the object files linked.                                      *)
(*                                                                         *)
(* A source file is a sequence of lines as the tokens are understood:      *)
(* labels, assignments, directives, instructions.  A value in an           *)
(* expression is [t |-> "int", v |-> n], [t |-> "sym", s |-> name],        *)
(* "neg" or "com" of another, or an expression in parentheses; an          *)
(* expression is a sequence of values with operators between them.         *)
(*                                                                         *)
(* What the assembler keeps is one record, st; an action is a line of the  *)
(* source in a pass.  Values in expressions are Wide where the code has    *)
(* 32 bits.                                                                *)
(***************************************************************************)
EXTENDS Linker, Bitwise
LOCAL INSTANCE SequencesExt

CONSTANTS
    SourceLists,    \* what may be built: a sequence of [ifrefd, lines]
    TextPsect,      \* .50.text
    EMITBUF         \* bytes that emitbuf holds, 64 in the code

Wide == 2 ^ 24
Dot == "."

VARIABLES
    sources,
    asmfile, asmline,   \* the file being assembled and the line in it
    asmpass,            \* 1, 2; 0 when everything is assembled
    st,                 \* psects, symbols, ".", object so far
    objects             \* the object files written

asmVars == <<sources, asmfile, asmline, asmpass, st, objects>>

(* opcodelist: the instruction word and what follows the mnemonic: "regs"
   (registers only), "br" (a target), "ls" (offset or address), "ld" (that or
   an immediate value). *)
Op(word, args) == [word |-> word, args |-> args]
Opcodes(mne) ==
    CASE mne = "adc" -> Op(8206, "regs") [] mne = "add" -> Op(8204, "regs")
      [] mne = "and" -> Op(8201, "regs") [] mne = "asr" -> Op(8193, "regs")
      [] mne \in {"bcc", "bhis"} -> Op(4097, "br") [] mne \in {"bcs", "blo"} -> Op(4096, "br")
      [] mne = "beq" -> Op(1024, "br") [] mne = "bne" -> Op(1025, "br")
      [] mne = "bge" -> Op(2049, "br") [] mne = "blt" -> Op(2048, "br")
      [] mne = "bgt" -> Op(3073, "br") [] mne = "ble" -> Op(3072, "br")
      [] mne = "bhi" -> Op(5121, "br") [] mne = "blos" -> Op(5120, "br")
      [] mne = "bmi" -> Op(6144, "br") [] mne = "bpl" -> Op(6145, "br")
      [] mne = "bvs" -> Op(7168, "br") [] mne = "bvc" -> Op(7169, "br")
      [] mne = "br" -> Op(1, "br")
      [] mne = "bit" -> Op(9097, "regs") [] mne = "clr" -> Op(15482, "regs")
      [] mne = "cmp" -> Op(9101, "regs") [] mne = "com" -> Op(8199, "regs")
      [] mne = "halt" -> Op(0, "regs") [] mne = "inc" -> Op(8198, "regs")
      [] mne = "iret" -> Op(2, "regs") [] mne = "lda" -> Op(32768, "ls")
      [] mne = "ldbs" -> Op(57344, "ld") [] mne = "ldbu" -> Op(40960, "ld")
      [] mne = "ldw" -> Op(49152, "ld") [] mne = "lsr" -> Op(8192, "regs")
      [] mne = "mov" -> Op(8196, "regs") [] mne = "neg" -> Op(8197, "regs")
      [] mne = "or" -> Op(8200, "regs") [] mne = "rdps" -> Op(6, "regs")
      [] mne = "rol" -> Op(8206, "regs") [] mne = "ror" -> Op(8194, "regs")
      [] mne = "sbb" -> Op(8207, "regs") [] mne = "shl" -> Op(8204, "regs")
      [] mne = "stb" -> Op(24576, "ls") [] mne = "stw" -> Op(16384, "ls")
      [] mne = "sub" -> Op(8205, "regs") [] mne = "tst" -> Op(9092, "regs")
      [] mne = "wrps" -> Op(4, "regs") [] mne = "xor" -> Op(8202, "regs")
-----------------------------------------------------------------------------
(* Expressions.  A value is an offset in a psect, or absolute, and perhaps an
   undefined symbol; bad says that errortok was called. *)
Value(p, v, u, b) == [psect |-> p, value |-> v, undsym |-> u, bad |-> b]

OnAbsolute(x, v) ==
    Value(x.psect, v % Wide, x.undsym, x.bad \/ x.psect # NoPsect \/ x.undsym # NoSym)

Arithmetic(op, a, b) ==
    CASE op = "|" -> a | b
      [] op = "^" -> a ^^ b
      [] op = "&" -> a & b
      [] op = "*" -> a * b
      [] op = "/" -> IF b = 0 THEN a ELSE a \div b
      [] op = "%" -> IF b = 0 THEN a ELSE a % b
      [] op = "+" -> a + b
      [] op = "-" -> a + Wide - b

(* dostackop.  A difference is absolute. *)
MinusPsect(a, b) == IF b.psect # NoPsect THEN NoPsect ELSE a.psect

dostackop(op, a, b) ==
    LET v == Arithmetic(op, a.value, b.value) % Wide
        bad == a.bad \/ b.bad
    IN  CASE op = "+" ->
                 Value(IF a.psect = NoPsect THEN b.psect ELSE a.psect, v,
                       IF a.undsym = NoSym THEN b.undsym ELSE a.undsym,
                       bad \/ (a.psect # NoPsect /\ b.psect # NoPsect)
                           \/ (a.undsym # NoSym /\ b.undsym # NoSym))
          [] op = "-" ->
                 Value(MinusPsect(a, b), v, IF b.undsym # NoSym THEN NoSym ELSE a.undsym,
                       bad \/ b.psect \notin {NoPsect, a.psect} \/ b.undsym \notin {NoSym, a.undsym})
          [] OTHER ->
                 Value(a.psect, v, a.undsym,
                       bad \/ (op \in {"/", "%"} /\ b.value = 0)
                           \/ a.psect # NoPsect \/ b.psect # NoPsect
                           \/ a.undsym # NoSym \/ b.undsym # NoSym)

Preced(op) ==
    CASE op \in {"*", "/", "%"} -> 1 [] op \in {"+", "-"} -> 2
      [] op = "&" -> 3 [] op = "^" -> 4 [] op = "|" -> 5

Entry(preced, op, val) == [preced |-> preced, op |-> op, val |-> val]
Combine(stack) ==
    LET n == Len(stack)
    IN  SubSeq(stack, 1, n - 2)
        \o <<[stack[n - 1] EXCEPT !.val = dostackop(stack[n].op, @, stack[n].val)]>>

RECURSIVE Reduce(_), ReduceAll(_), decodexpr(_, _), decodeval(_, _), Stacked(_, _, _)
Reduce(stack) ==
    LET n == Len(stack)
    IN  IF stack[n].preced <= stack[n - 1].preced THEN Reduce(Combine(stack)) ELSE stack
ReduceAll(stack) == IF Len(stack) = 1 THEN stack[1].val ELSE ReduceAll(Combine(stack))

decodeval(s, x) ==
    CASE x.t = "int" -> Value(NoPsect, x.v, NoSym, FALSE)
      [] x.t = "sym" ->
             IF x.s = Dot THEN Value(s.dot.psect, s.dot.value, NoSym, FALSE)
             ELSE IF x.s \in DOMAIN s.symbols /\ s.symbols[x.s].defind
             THEN Value(s.symbols[x.s].psect, s.symbols[x.s].value, NoSym, FALSE)
             ELSE Value(NoPsect, 0, x.s, FALSE)
      [] x.t = "neg" -> LET y == decodeval(s, x.of) IN OnAbsolute(y, Wide - y.value)
      [] x.t = "com" -> LET y == decodeval(s, x.of) IN OnAbsolute(y, Wide - 1 - y.value)
      [] x.t = "par" -> decodexpr(s, x.of)

(* The stack when the first 2n + 1 tokens have been read: an operator is taken
   as soon as its right value is there, if the one before binds no tighter. *)
Stacked(s, e, n) ==
    IF n = 0 THEN <<Entry(0, "", decodeval(s, e[1]))>>
    ELSE Reduce(Append(Stacked(s, e, n - 1),
                       Entry(Preced(e[2 * n]), e[2 * n], decodeval(s, e[2 * n + 1]))))

decodexpr(s, e) == ReduceAll(Stacked(s, e, Len(e) \div 2))
-----------------------------------------------------------------------------
(* Output.  "." and the offset of its psect move together; pass 1 finds out
   how far. *)
Larger(m, n) == IF m > n THEN m ELSE n
Failed(s, bad) == [s EXCEPT !.error = @ \/ (bad /\ s.pass = 2)]

setdotsymval(s, val) ==
    LET v == val % WordSize
        p == s.dot.psect
    IN  [s EXCEPT !.dot.value = v, !.psects[p].offs = v, !.psects[p].size = Larger(@, v)]

(* Mutant: what is in the buffer is not written. *)
emitflush_none(s) == s
emitflush(s) ==
    IF s.pass = 2 /\ s.buf # << >>
    THEN [s EXCEPT !.buf = << >>,
                   !.object = Append(@, [kind |-> "bytes", psect |-> s.dot.psect, bytes |-> s.buf,
                                         at |-> (s.dot.value - Len(s.buf)) % WordSize])]
    ELSE [s EXCEPT !.buf = << >>]

(* emitbyte, emitword, emitlong *)
Emit(s, bytes) ==
    LET room == IF Len(s.buf) + Len(bytes) > EMITBUF THEN emitflush(s) ELSE s
    IN  setdotsymval([room EXCEPT !.buf = @ \o bytes], s.dot.value + Len(bytes))

WordBytes(w) == <<w % 256, (w \div 256) % 256>>
LongBytes(v) == WordBytes(v) \o WordBytes(v \div WordSize)

emitwordrel(s, x) ==
    IF x.psect = NoPsect /\ x.undsym = NoSym THEN Emit(s, WordBytes(x.value))
    ELSE LET flushed == emitflush(s)
             rel == [kind |-> "word", at |-> s.dot.value, psect |-> s.dot.psect,
                     value |-> x.value % WordSize, rel |-> x.psect, sym |-> x.undsym]
         IN  setdotsymval([flushed EXCEPT !.object = IF s.pass = 2 THEN Append(@, rel) ELSE @],
                          s.dot.value + 2)

definesymbol(s, name, psect, value) ==
    IF name = Dot
    THEN setdotsymval([emitflush(s) EXCEPT !.dot.psect = psect], value)
    ELSE LET known == name \in DOMAIN s.symbols
             old == s.symbols[name]
         IN  [Failed(s, known /\ old.defind /\ (old.psect # psect \/ old.value # value)) EXCEPT
                 !.symbols = With(@, name, [psect |-> psect, value |-> value, defind |-> TRUE,
                                            global |-> known /\ old.global])]
-----------------------------------------------------------------------------
(* Lines, when they are not blocked by an .if. *)
Label(s, ln) == definesymbol(s, ln.name, s.dot.psect, s.dot.value)

Assign(s, ln) ==
    LET x == decodexpr(s, ln.expr)
    IN  definesymbol(Failed(s, x.bad \/ x.undsym # NoSym), ln.name, x.psect, x.value % WordSize)

NotAbsolute(x) == x.bad \/ x.psect # NoPsect \/ x.undsym # NoSym

(* .align n, .p2align n: n' is the exponent. *)
Log2(n) == CHOOSE k \in 0 .. 24 : n % 2 ^ k = 0 /\ n % 2 ^ (k + 1) # 0
PowerOf2(n) == n # 0 /\ n = 2 ^ Log2(n)

AlignTo(s, p2, bad) ==
    LET mask == 2 ^ p2 - 1
        t == [Failed(emitflush(s), bad) EXCEPT !.psects[s.dot.psect].p2al = Larger(@, p2)]
    IN  setdotsymval(t, ((s.dot.value + mask) \div 2 ^ p2) * 2 ^ p2)

Align(s, ln) ==
    LET x == decodexpr(s, ln.expr)
    IN  AlignTo(s, IF PowerOf2(x.value) THEN Log2(x.value) ELSE 0,
                NotAbsolute(x) \/ ~PowerOf2(x.value))

P2align(s, ln) ==
    LET x == decodexpr(s, ln.expr)
    IN  AlignTo(s, IF x.value > 16 THEN 0 ELSE x.value, NotAbsolute(x) \/ x.value > 16)

Ascii(s, ln) ==
    LET t == FoldLeft(LAMBDA acc, b : Emit(acc, <<b>>), s, ln.bytes)
    IN  IF ln.op = "asciz" THEN Emit(t, <<0>>) ELSE t

Blkb(s, ln) ==
    LET x == decodexpr(s, ln.expr)
    IN  setdotsymval(Failed(emitflush(s), NotAbsolute(x)), s.dot.value + x.value)

EmitValue(s, op, x) ==
    CASE op = "byte" ->
             Emit(Failed(s, NotAbsolute(x) \/ (x.value > 255 /\ x.value < Wide - 128)), <<x.value % 256>>)
      [] op = "word" -> emitwordrel(Failed(s, x.bad), x)
      [] op = "long" -> Emit(Failed(s, NotAbsolute(x)), LongBytes(x.value))

Values(s, ln) == FoldLeft(LAMBDA acc, e : EmitValue(acc, ln.op, decodexpr(acc, e)), s, ln.exprs)

Global(s, ln) ==
    LET old(n) == IF n \in DOMAIN s.symbols THEN s.symbols[n]
                  ELSE [psect |-> NoPsect, value |-> 0, defind |-> FALSE, global |-> FALSE]
    IN  [s EXCEPT !.symbols =
            [n \in DOMAIN s.symbols \cup ln.names |-> [old(n) EXCEPT !.global = @ \/ n \in ln.names]]]

SectionAt(s, p) == s.psects[p].offs

Psect(s, ln) ==
    LET p == ln.psect
        t == emitflush([s EXCEPT !.psects =
                 IF p \in DOMAIN @ THEN @
                 ELSE With(@, p, [p2al |-> 0, offs |-> 0, size |-> 0, ovr |-> ln.ovr])])
    IN  [t EXCEPT !.dot = [psect |-> p, value |-> SectionAt(t, p)]]

If(s, ln) ==
    LET x == decodexpr(s, ln.expr)
        t == [Failed(s, NotAbsolute(x)) EXCEPT !.iflevel = @ + 1]
    IN  IF x.value = 0 THEN [t EXCEPT !.ifblock = t.iflevel] ELSE t

Else(s) == [Failed(s, s.iflevel <= 0) EXCEPT !.ifblock = s.iflevel]
Endif(s) == IF s.iflevel <= 0 THEN Failed(s, TRUE) ELSE [s EXCEPT !.iflevel = @ - 1]

(* Instructions.  regs is the sum of the register fields as given; base is the
   register in parentheses, or none. *)
PC == 7
NoReg == -1

Immediate(s, ln) ==
    LET x == decodexpr(s, ln.expr)
        op == Opcodes(ln.mne)
        t == Emit(Failed(s, x.bad \/ op.args # "ld"), WordBytes(op.word + ln.regs + PC * 1024))
    IN  emitwordrel(t, x)

LoadStore(s, ln) ==
    LET x == decodexpr(s, ln.expr)
        relative == ln.base = NoReg
        v == (IF relative THEN x.value + Wide - s.dot.value - 2 ELSE x.value) % WordSize
        bad == \/ x.bad \/ x.undsym # NoSym
               \/ x.psect # (IF relative THEN s.dot.psect ELSE NoPsect)
               \/ v \in 64 .. WordSize - 65
        word == Opcodes(ln.mne).word + ln.regs + (IF relative THEN PC ELSE ln.base) * 1024
    IN  Emit(Failed(s, bad), WordBytes(word + (v % 128)))

Branch(s, ln) ==
    LET x == decodexpr(s, ln.expr)
        v == (x.value + Wide - s.dot.value - 2) % Wide
        bad == \/ x.bad \/ x.undsym # NoSym \/ x.psect # s.dot.psect
               \/ v \in 512 .. Wide - 513 \/ v % 2 = 1
    IN  Emit(Failed(s, bad), WordBytes(Opcodes(ln.mne).word + 2 * ((v \div 2) % 512)))

Registers(s, ln) == Emit(s, WordBytes(Opcodes(ln.mne).word + ln.regs))

processline(s, ln) ==
    CASE ln.op = "label" -> Label(s, ln)
      [] ln.op = "set" -> Assign(s, ln)
      [] ln.op = "align" -> Align(s, ln)
      [] ln.op = "p2align" -> P2align(s, ln)
      [] ln.op \in {"ascii", "asciz"} -> Ascii(s, ln)
      [] ln.op = "blkb" -> Blkb(s, ln)
      [] ln.op \in {"byte", "word", "long"} -> Values(s, ln)
      [] ln.op = "global" -> Global(s, ln)
      [] ln.op = "psect" -> Psect(s, ln)
      [] ln.op = "if" -> If(s, ln)
      [] ln.op = "else" -> Else(s)
      [] ln.op = "endif" -> Endif(s)
      [] ln.op = "immed" -> Immediate(s, ln)
      [] ln.op = "ls" -> LoadStore(s, ln)
      [] ln.op = "branch" -> Branch(s, ln)
      [] ln.op = "regs" -> Registers(s, ln)

(* Lines while blocked. *)
Blocked(s, ln) ==
    CASE ln.op = "else" /\ s.iflevel = s.ifblock -> [s EXCEPT !.ifblock = 0]
      [] ln.op = "endif" -> [s EXCEPT !.iflevel = @ - 1,
                                      !.ifblock = IF s.iflevel - 1 < @ THEN 0 ELSE @]
      [] ln.op = "if" -> [s EXCEPT !.iflevel = @ + 1]
      [] OTHER -> s
-----------------------------------------------------------------------------
Start == [pass |-> 1, ifblock |-> 0, iflevel |-> 0, error |-> FALSE, buf |-> << >>,
          symbols |-> << >>, object |-> << >>, dot |-> [psect |-> TextPsect, value |-> 0],
          psects |-> With(<< >>, TextPsect, [p2al |-> 1, offs |-> 0, size |-> 0, ovr |-> FALSE])]

(* What main writes between the passes: psects and global symbols. *)
Header(s) ==
    LET psect(p) == [kind |-> "psect", psect |-> p, size |-> s.psects[p].size,
                     p2al |-> s.psects[p].p2al, ovr |-> s.psects[p].ovr]
        symbol(n) == [kind |-> "symbol", name |-> n, value |-> s.symbols[n].value,
                      psect |-> s.symbols[n].psect]
    IN  SetToSeq({psect(p) : p \in DOMAIN s.psects})
        \o SetToSeq({symbol(n) : n \in {m \in DOMAIN s.symbols :
                                        s.symbols[m].global /\ s.symbols[m].defind}})

(* The offsets go back to 0 for pass 2; the symbols stay, and so does an .if
   that was not closed. *)
Rewound(psects) == [p \in DOMAIN psects |-> [psects[p] EXCEPT !.offs = 0]]

SecondPass(s) ==
    LET t == setdotsymval([emitflush(s) EXCEPT !.dot.psect = TextPsect], 0)
    IN  [t EXCEPT !.pass = 2, !.object = Header(t), !.psects = Rewound(@)]

AsmInit ==
    /\ sources \in SourceLists
    /\ asmfile = 1 /\ asmline = 1 /\ asmpass = 1
    /\ st = Start /\ objects = << >>

Assembling == asmfile <= Len(sources) /\ asmpass # 0
SourceLine == sources[asmfile].lines[asmline]

Processline ==
    /\ Assembling /\ asmline <= Len(sources[asmfile].lines)
    /\ st' = IF st.ifblock > 0 THEN Blocked(st, SourceLine) ELSE processline(st, SourceLine)
    /\ asmline' = asmline + 1
    /\ UNCHANGED <<sources, asmfile, asmpass, objects>>

EndOfPass1 ==
    /\ Assembling /\ asmpass = 1 /\ asmline > Len(sources[asmfile].lines)
    /\ st' = SecondPass(st)
    /\ asmpass' = 2 /\ asmline' = 1
    /\ UNCHANGED <<sources, asmfile, objects>>

(* With an error the object file is removed, and the build ends. *)
EndOfPass2 ==
    /\ Assembling /\ asmpass = 2 /\ asmline > Len(sources[asmfile].lines)
    /\ LET s == emitflush(st)
       IN  IF s.error
           THEN /\ asmpass' = 0 /\ st' = s
                /\ UNCHANGED <<asmfile, asmline, objects>>
           ELSE /\ objects' = Append(objects, [ifrefd |-> sources[asmfile].ifrefd, lines |-> s.object])
                /\ asmfile' = asmfile + 1 /\ asmline' = 1 /\ asmpass' = 1
                /\ st' = Start
    /\ UNCHANGED sources

AsmNext == Processline \/ EndOfPass1 \/ EndOfPass2
-----------------------------------------------------------------------------
(* A build: the linker gets the object files. *)
BuildInit ==
    /\ AsmInit
    /\ objfiles = << >> /\ passno = "idle" /\ file = 1 /\ line = 1 /\ ifrefd = << >>
    /\ repeatpass2 = FALSE /\ error = FALSE
    /\ objpsects = << >> /\ allpsects = << >> /\ allsymbols = << >>
    /\ base = 0 /\ placed = {} /\ output = {} /\ carried = FALSE

CallLinker ==
    /\ passno = "idle" /\ asmfile > Len(sources)
    /\ objfiles' = objects /\ passno' = "pass1"
    /\ ifrefd' = [f \in 1 .. Len(objects) |-> objects[f].ifrefd]
    /\ UNCHANGED <<asmVars, file, line, repeatpass2, error, objpsects, allpsects, allsymbols,
                   base, placed, output, carried>>

BuildNext ==
    \/ AsmNext /\ UNCHANGED linkVars
    \/ CallLinker
    \/ LinkNext /\ UNCHANGED asmVars
=============================================================================
