-------------------------------- MODULE OptMachs --------------------------------
(***************************************************************************)
(* The optimizer of machine instructions (MachFile::optmachs,               *)
(* cc/optmachs.cc): passes over the list of instructions of a function, two *)
(* groups of them repeated until they change nothing, that also give the    *)
(* variables on the stack their places and the fake registers hardware ones.*)
(*                                                                          *)
(* A pass looks at one instruction after another; where several in a row    *)
(* need no change, one step goes over them.  The last two passes, which     *)
(* shorten branches and place constants, are not modelled.                  *)
(***************************************************************************)
EXTENDS Assemble

VARIABLES
    mf,         \* the function
    mpass,      \* the pass, or "none" before there are instructions and "done"
    at,         \* the instruction to look at next
    known,      \* what the pass knows of the registers
    mdid        \* didsomething

machvars == <<mf, mpass, at, known, mdid>>

ms == mf.ms

GoTo(p, did) == mpass' = p /\ at' = 1 /\ known' = << >> /\ mdid' = did
NextPass(p) == GoTo(p, mdid) /\ UNCHANGED mf
Change(s, i) == mf' = [mf EXCEPT !.ms = s] /\ at' = i /\ mdid' = TRUE /\ UNCHANGED <<mpass, known>>

FirstOf(S) == {i \in S : \A j \in S : i <= j}
Without(s, i, n) == SubSeq(s, 1, i - 1) \o SubSeq(s, i + n, Len(s))
Renamed(s, Name(_)) ==
    [i \in DOMAIN s |-> [s[i] EXCEPT !.w = [j \in DOMAIN @ |-> Name(@[j])], !.r = [j \in DOMAIN @ |-> Name(@[j])]]]
ReplaceReg(s, old, new) == Renamed(s, LAMBDA r : IF r = old THEN new ELSE r)
InShort(n) == n >= -SpOffset /\ n < SpOffset
-------------------------------------------------------------------------------
(* Accesses to a variable on the stack: one instruction, or
   LDW rt,#stk ; ADD ru,SP,rt ; LD? or ST? rd,0(ru). *)
Short == [load |-> "loadstk", store |-> "storestk"]
AddrReg(m) == m.r[Len(m.r)]
DataReg(m) == IF m.w # << >> THEN m.w[1] ELSE m.r[1]
Sums(i) == ms[i].k = "ldstk" /\ ms[i + 1].k = "a3" /\ ms[i + 1].r = <<SPReg, ms[i].w[1]>>
Uses(i, kinds) == ms[i + 2].k \in kinds /\ AddrReg(ms[i + 2]) = ms[i + 1].w[1]
Span(i, kind) ==    \* how many instructions the access at i has
    IF ms[i].k = Short[kind] THEN 1
    ELSE IF Sums(i) /\ Uses(i, {kind}) /\ ms[i + 2].n = 0 THEN 3 ELSE 0
Final(i, kind) == ms[i + Span(i, kind) - 1]
Loads(i) == Span(i, "load") > 0
Stores(i) == Span(i, "store") > 0
TakesAddr(i) == ms[i].k = "ldastk" \/ (Sums(i) /\ ~Uses(i, {"load", "store"}))
SamePlace(i, j) == ms[i].v = ms[j].v /\ ms[i].n = ms[j].n

(* What is known of the contents of registers (stepRegState): a constant, an
   offset from the stack pointer, a byte with its sign or zeros before it. *)
Unknown == [c |-> "other", v |-> 0]
Const(v) == [c |-> "const", v |-> Word(v)]
FromSp(v) == [c |-> "sp", v |-> Word(v)]
Byte(c) == [c |-> c, v |-> 0]
Contents(cs, r) == IF r.p = 6 THEN FromSp(0) ELSE IF r.id \in DOMAIN cs THEN cs[r.id] ELSE Unknown
StackAddr(m) == StkOffs(mf, m.v, m.sp) + m.n

Unary(op, x) ==
    CASE x.c = "const" -> Const(CASE op = "COM" -> -1 - x.v [] op = "NEG" -> -x.v [] op = "MOV" -> x.v [] op = "INC" -> x.v + 1
                                  [] op = "LSR" -> x.v \div 2 [] op = "ASR" -> SignedWord(x.v) \div 2 [] op = "SHL" -> 2 * x.v)
      [] x.c = "sp" /\ op = "INC" -> FromSp(x.v + 1)
      [] \/ op = "MOV" /\ x.c # "const"
         \/ x.c = "sext" /\ op \in {"COM", "ASR"}
         \/ x.c = "zext" /\ op = "LSR" -> x
      [] OTHER -> Unknown
Folds == ("ADD" :> "+") @@ ("SUB" :> "-") @@ ("AND" :> "&") @@ ("OR" :> "|") @@ ("XOR" :> "^")
Binary(op, x, y) ==
    CASE x.c = "const" /\ y.c = "const" -> IF op \in DOMAIN Folds THEN Const(Arith(Folds[op], x.v, y.v)) ELSE Unknown
      [] op = "ADD" /\ x.c = "sp" /\ y.c = "const" -> FromSp(x.v + y.v)
      [] op = "AND" /\ {x.c, y.c} # {"const"} /\ \E z \in {x, y} : z.c = "const" /\ z.v <= 255 -> Byte("zext")
      [] op \in {"AND", "OR", "XOR"} /\ x.c \in {"sext", "zext"} /\ x.c = y.c -> x
      [] OTHER -> Unknown
Result(cs, m) ==
    CASE m.k = "a1" -> Const(0)
      [] m.k = "a2" -> Unary(m.op, Contents(cs, m.r[1]))
      [] m.k = "a3" -> Binary(m.op, Contents(cs, m.r[1]), Contents(cs, m.r[2]))
      [] m.k = "lda" -> LET x == Contents(cs, m.r[1]) IN
                        IF x.c \in {"const", "sp"} THEN [x EXCEPT !.v = Word(@ + m.n)] ELSE Unknown
      [] m.k = "ldastk" -> IF HasPlace(mf, m.v) THEN FromSp(StackAddr(m)) ELSE Unknown
      [] m.k = "ldstk" -> IF HasPlace(mf, m.v) THEN Const(StackAddr(m)) ELSE Unknown
      [] m.k = "ldval" -> Const(m.n)
      [] m.k \in {"load", "loadstk"} ->
            IF m.op = "LDW" THEN Unknown ELSE Byte(IF m.op = "LDBS" THEN "sext" ELSE "zext")
      [] OTHER -> Unknown
StepRegState(cs, m) ==
    CASE m.k \in {"ent", "label", "call"} -> << >>      \* whatever is in R4, R5 is not used here
      [] m.k \notin {"ent", "label", "call"} /\ m.w = << >> -> cs
      [] m.k \in {"a3", "lda"} /\ m.w[1].p = 6 ->       \* the stack pointer moves
            LET by == Result(cs, m).v IN
            [r \in DOMAIN cs |-> IF cs[r].c = "sp" THEN FromSp(cs[r].v - by) ELSE cs[r]]
      [] OTHER -> (m.w[1].id :> Result(cs, m)) @@ cs
-------------------------------------------------------------------------------
(* opt_01: a load of what has just been stored; the register stored from becomes
   that loaded into. *)
Forwards(i, c) ==       \* the load, when c is in the register that the store at i stores from
    LET from == i + Span(i, "store")
        wide == Final(i, "store").op = "STW"
        got(j) == Loads(j) /\ SamePlace(i, j) /\ (CASE Final(j, "load").op = "LDW" -> wide
                                                    [] Final(j, "load").op = "LDBS" -> c \in {"const", "sext"}
                                                    [] Final(j, "load").op = "LDBU" -> c \in {"const", "zext"})
        stops(j) == got(j) \/ ms[j].k = "label" \/ ~FallsThrough(ms[j]) \/ (Stores(j) /\ SamePlace(i, j))
        ahead == {j \in from..Min({from + 14, Len(ms)}) : stops(j)}
        rn == DataReg(Final(i, "store"))
        rm(j) == DataReg(Final(j, "load")) IN
    {j \in FirstOf(ahead) :
        got(j) /\ \A h \in from..(j - 1) : ~ReadsReg(ms[h], rm(j)) /\ ~WritesReg(ms[h], rm(j)) /\ ~WritesReg(ms[h], rn)}
Forwardable(i, cs) ==
    IF ~Stores(i) \/ ~DataReg(Final(i, "store")).fake THEN {}
    ELSE LET c == Contents(cs, DataReg(Final(i, "store"))).c IN
         IF Final(i, "store").op = "STW" \/ c \in {"const", "sext", "zext"} THEN Forwards(i, c) ELSE {}

Opt01 ==
    /\ mpass = "opt_01"
    /\ IF at > Len(ms) THEN NextPass("opt_02")
       ELSE \E cs \in {StepRegState(known, ms[at])} : \E found \in {Forwardable(at, cs)} :
            /\ known' = cs /\ at' = at + 1 /\ UNCHANGED mpass
            /\ IF found = {} THEN UNCHANGED <<mf, mdid>>
               ELSE \E j \in found :
                    /\ mf' = [mf EXCEPT !.ms = Without(ReplaceReg(ms, DataReg(Final(at, "store")), DataReg(Final(j, "load"))),
                                                       j, Span(j, "load"))]
                    /\ mdid' = TRUE

(* opt_02: a store to a variable that is never loaded; not the argument of a call. *)
(* Mutant: a variable whose address is taken counts as never loaded. *)
NeverLoaded_direct(i) ==
    /\ Stores(i) /\ ms[i].v.n \notin DOMAIN mf.calar
    /\ \A j \in DOMAIN ms : ~(Loads(j) /\ SamePlace(i, j))
NeverLoaded(i) ==
    /\ Stores(i) /\ ms[i].v.n \notin DOMAIN mf.calar
    /\ \A j \in DOMAIN ms : ~(Loads(j) /\ SamePlace(i, j)) /\ ~(TakesAddr(j) /\ ms[j].v = ms[i].v)
Opt02 ==
    /\ mpass = "opt_02"
    /\ \E found \in {{i \in at..Len(ms) : NeverLoaded(i)}} :
          IF found = {} THEN NextPass("opt_03")
          ELSE \E i \in FirstOf(found) : Change(Without(ms, i, Span(i, "store")), i)

(* opt_03: a variable only there to pass a word from a register to another. *)
PassesOn(i) ==
    LET j == i + Span(i, "store") IN
    /\ Stores(i) /\ Final(i, "store").op = "STW"
    /\ Loads(j) /\ Final(j, "load").op = "LDW" /\ SamePlace(i, j)
    /\ \A h \in DOMAIN ms \ {i, j} :
          ~((Loads(h) \/ Stores(h)) /\ SamePlace(h, i)) /\ ~(TakesAddr(h) /\ ms[h].v = ms[i].v)
Moved(i) ==
    LET j == i + Span(i, "store")
        rn == DataReg(Final(i, "store"))
        rm == DataReg(Final(j, "load")) IN
    SubSeq(ms, 1, i - 1) \o (IF rn = rm THEN << >> ELSE <<Lda(rm, 0, rn)>>) \o SubSeq(ms, j + Span(j, "load"), Len(ms))
Opt03 ==
    /\ mpass = "opt_03"
    /\ \E found \in {{i \in at..Len(ms) : PassesOn(i)}} :
          IF found = {} THEN NextPass("opt_04")
          ELSE \E i \in FirstOf(found) : Change(Moved(i), i)

(* opt_04: a second load of the same thing, of the same block and within ten
   instructions; ry of the second becomes rx of the first. *)
LoadsValue(i) == Loads(i) \/ ms[i].k \in {"ldval", "ldstr"}
ValueSpan(i) == IF Loads(i) THEN Span(i, "load") ELSE 1
ValueLoad(i) == ms[i + ValueSpan(i) - 1]
SameValue(i, j) ==
    \/ Loads(i) /\ Loads(j) /\ SamePlace(i, j)
    \/ ms[i].k = "ldval" /\ ms[j].k = "ldval" /\ ms[i].n = ms[j].n
    \/ ms[i].k = "ldstr" /\ ms[j].k = "ldstr" /\ ms[i].v = ms[j].v
Modifies(h, i) ==       \* isModifyValue; words are told apart, bytes are not
    \/ Loads(i) /\ (Stores(h) \/ TakesAddr(h)) /\ ms[h].v = ms[i].v /\ (Stores(h) => ms[h].n \div 2 = ms[i].n \div 2)
    \/ ms[i].k = "ldstr" /\ ms[h].k = "ldstr" /\ ms[h].v = ms[i].v
LoadsAgain(i) ==
    LET last == i + ValueSpan(i) - 1
        again(j) == LoadsValue(j) /\ ValueLoad(j).op = ValueLoad(i).op /\ DataReg(ValueLoad(j)).fake /\ SameValue(i, j)
        reach == {j \in (last + 1)..Min({last + 10, Len(ms)}) :
                     (\A h \in last..(j - 1) : FallsThrough(ms[h])) /\ \A h \in (last + 1)..j : ~SideEffects(ms[h])}
        touches(m, r) == ReadsReg(m, r) \/ WritesReg(m, r)
        rx == DataReg(ValueLoad(i)) IN
    {j \in FirstOf({j \in reach : again(j)}) :
        /\ \A h \in (last + 1)..(j - 1) :
              ~Modifies(h, i) /\ ~WritesReg(ms[h], rx) /\ ~touches(ms[h], DataReg(ValueLoad(j)))
        /\ \A h \in DOMAIN ms \ (i..(j + ValueSpan(j) - 1)) : ~touches(ms[h], rx)}
RemoveAgain(i, j) ==
    Change(Without(ReplaceReg(ms, DataReg(ValueLoad(j)), DataReg(ValueLoad(i))), j, ValueSpan(j)), i + 1)
Opt04 ==
    /\ mpass = "opt_04"
    /\ \E found \in {{i \in at..Len(ms) : LoadsValue(i) /\ DataReg(ValueLoad(i)).fake /\ LoadsAgain(i) # {}}} :
          IF found = {} THEN NextPass("opt_06")      \* opt_05 does nothing
          ELSE \E i \in FirstOf(found) : \E j \in LoadsAgain(i) : RemoveAgain(i, j)

(* opt_06: the address of a label with a branch behind it becomes that of the
   branch's; then unused labels go, and what nothing leads to. *)
LabelPlace(s, l) == CHOOSE i \in DOMAIN s : s[i].k = "label" /\ s[i].l = l
Retargeted(s) ==
    [i \in DOMAIN s |-> IF s[i].k = "ldlbl" /\ IsBrMach(s[LabelPlace(s, s[i].l) + 1])
                        THEN [s[i] EXCEPT !.l = s[LabelPlace(s, @) + 1].l] ELSE s[i]]
Referred(s) == {s[i].l : i \in {i \in DOMAIN s : IsBrMach(s[i]) \/ s[i].k = "ldlbl"}}
Labelled(s) == SelectSeq(s, LAMBDA m : m.k # "label" \/ m.l \in Referred(s))
Alive(s, i) ==
    \E b \in 0..i : (b = 0 \/ s[b].k = "label") /\ \A h \in Max({b, 1})..(i - 1) : FallsThrough(s[h])
Living(s) == LET living == {i \in DOMAIN s : Alive(s, i)} IN
             [i \in 1..Cardinality(living) |-> s[CHOOSE j \in living : Cardinality({h \in living : h <= j}) = i]]
Opt06 ==
    /\ mpass = "opt_06"
    /\ \E s1 \in {Retargeted(ms)} : \E s2 \in {Labelled(s1)} : \E s3 \in {Living(s2)} :
          /\ mf' = [mf EXCEPT !.ms = s3]
          /\ GoTo(IF mdid \/ s3 # ms THEN "opt_01" ELSE "opt_asnstack", FALSE)

(* opt_asnstack: all the variables have had their addresses taken, by the LDW
   #stk: the small and then the much used ones come first, of equals either (the
   code compares the addresses of two objects). *)
InFrame(m) == m.k = "ldstk" /\ ~IsParam(m.v) /\ m.v.n \notin DOMAIN mf.calar
References(v) == Cardinality({i \in DOMAIN ms : InFrame(ms[i]) /\ ms[i].v = v})
Before(i, j) ==
    LET size(k) == Size(ms[k].v.t)
        refs(k) == References(ms[k].v) IN
    \/ size(i) < size(j)
    \/ size(i) = size(j) /\ refs(i) >= refs(j)
AsnStack ==
    /\ mpass = "opt_asnstack"
    /\ \E left \in {{i \in DOMAIN ms : InFrame(ms[i]) /\ ms[i].v.n \notin DOMAIN mf.locn}} :
          IF left = {} THEN mf' = [mf EXCEPT !.ssize = AlignUp(@, MaxAlign)] /\ GoTo("opt_20", FALSE)
          ELSE \E i \in {i \in left : \A j \in left : Before(i, j)} :
               LET v == ms[i].v
                   offset == AlignUp(mf.ssize, TypeAlign(v.t)) IN
               /\ mf' = [mf EXCEPT !.locn = (v.n :> offset) @@ @, !.ssize = offset + Size(v.t)]
               /\ UNCHANGED <<mpass, at, known, mdid>>
-------------------------------------------------------------------------------
(* opt_20, first loop: a place near the stack pointer is addressed directly.  A
   load is one more reference to ru, so it keeps its own instruction. *)
Near(i) ==
    /\ Sums(i) /\ ms[i + 1].op = "ADD" /\ HasPlace(mf, ms[i].v) /\ InShort(StackAddr(ms[i]))
    /\ \A h \in DOMAIN ms \ {i, i + 1} : ~ReadsReg(ms[h], ms[i].w[1]) /\ ~WritesReg(ms[h], ms[i].w[1])
Direct(i) ==
    LET m == ms[i]
        st == ms[i + 2] IN
    IF Uses(i, {"store"}) /\ st.n = 0
    THEN SubSeq(ms, 1, i - 1) \o <<StoreStk(st.op, st.r[1], m.v, m.sp, m.n)>> \o SubSeq(ms, i + 3, Len(ms))
    ELSE SubSeq(ms, 1, i - 1) \o <<LdaStk(ms[i + 1].w[1], m.v, m.sp, m.n)>> \o SubSeq(ms, i + 2, Len(ms))
Opt20 ==
    /\ mpass = "opt_20"
    /\ \E found \in {{i \in at..Len(ms) : Near(i)}} :
          IF found = {} THEN NextPass("opt_20sp")
          ELSE \E i \in FirstOf(found) : Change(Direct(i), i + 1)

(* Its second loop: what a register points to on the stack. *)
Rebased(m, off, r) == [m EXCEPT !.n = off, !.r[Len(m.r)] = r]
OffStack(cs, m) ==
    LET x == Contents(cs, AddrReg(m)) IN
    IF m.k \in {"load", "store", "lda"} /\ AddrReg(m).p # 6 /\ x.c = "sp" /\ InShort(SignedWord(Word(m.n + x.v)))
    THEN Rebased(m, SignedWord(Word(m.n + x.v)), SPReg) ELSE m
Opt20Sp ==
    /\ mpass = "opt_20sp"
    /\ IF at > Len(ms) THEN NextPass("opt_21")
       ELSE \E m \in {IF ms[at].r = << >> THEN ms[at] ELSE OffStack(known, ms[at])} :
            /\ mf' = [mf EXCEPT !.ms[at] = m]
            /\ mdid' = (mdid \/ m # ms[at])
            /\ known' = StepRegState(known, m) /\ at' = at + 1 /\ UNCHANGED mpass

(* opt_21: what only writes registers that are never read. *)
Opt21 ==
    /\ mpass = "opt_21"
    /\ \E read \in {UNION {{ms[i].r[j] : j \in DOMAIN ms[i].r} : i \in DOMAIN ms}} :
       \E s \in {SelectSeq(ms, LAMBDA m : SideEffects(m) \/ m.w = << >> \/ \E j \in DOMAIN m.w : m.w[j] \in read)} :
          mf' = [mf EXCEPT !.ms = s] /\ GoTo("opt_22", mdid \/ s # ms)

(* opt_22, first loop: adding a small constant. *)
AddsConst(m, cs) ==
    LET x == Contents(cs, m.r[2])
        by == SignedWord(IF m.op = "SUB" THEN Word(-x.v) ELSE x.v) IN
    IF m.k = "a3" /\ m.op \in {"ADD", "SUB"} /\ x.c = "const" /\ InShort(by) THEN Lda(m.w[1], by, m.r[1]) ELSE m
Opt22 ==
    /\ mpass = "opt_22"
    /\ IF at > Len(ms) THEN NextPass("opt_22b")
       ELSE \E cs \in {StepRegState(known, ms[at])} :
            \E m \in {IF ms[at].k = "a3" THEN AddsConst(ms[at], cs) ELSE ms[at]} :
            /\ mf' = [mf EXCEPT !.ms[at] = m]
            /\ mdid' = (mdid \/ m # ms[at])
            /\ known' = cs /\ at' = at + 1 /\ UNCHANGED mpass

(* Its second loop: a use of an address that was computed within the last five
   instructions is made from what the address was computed from. *)
Leads(i) == ms[i].k \in {"lda", "ldastk"}
Origin(i) == IF ms[i].k = "lda" THEN ms[i].r[1] ELSE SPReg
Offset(i) == IF ms[i].k = "lda" THEN ms[i].n ELSE StackAddr(ms[i])
Combined(i) ==      \* the use
    LET rt == ms[i].w[1]
        uses(j) == ms[j].k \in {"lda", "load", "store"} /\ AddrReg(ms[j]) = rt
        reach == {j \in (i + 1)..Min({i + 5, Len(ms)}) :
                     /\ \A h \in i..(j - 1) : FallsThrough(ms[h])
                     /\ \A h \in (i + 1)..j : ms[h].k # "label"
                     /\ \A h \in (i + 1)..(j - 1) : ~WritesReg(ms[h], rt) /\ ~WritesReg(ms[h], Origin(i))} IN
    IF RegEq(rt, Origin(i)) THEN {}
    ELSE {j \in FirstOf({j \in reach : uses(j)}) : InShort(SignedWord(Word(Offset(i) + ms[j].n)))}
Opt22b ==
    /\ mpass = "opt_22b"
    /\ \E found \in {{i \in at..Len(ms) : Leads(i) /\ Combined(i) # {}}} :
          IF found = {} THEN UNCHANGED mf /\ GoTo(IF mdid THEN "opt_20" ELSE "ranges", FALSE)
          ELSE \E i \in FirstOf(found) : \E j \in Combined(i) :
               Change([ms EXCEPT ![j] = Rebased(@, SignedWord(Word(Offset(i) + @.n)), Origin(i))], i + 1)
-------------------------------------------------------------------------------
(* opt_asnhregs: the ranges of the registers that are read, from the first write
   to the last read; then R0, R1 ... in turn go to those it is free for, the
   short ranges first. *)
Ranges ==
    /\ mpass = "ranges"
    /\ \E regs \in {UNION {{ms[i].w[j] : j \in DOMAIN ms[i].w} : i \in DOMAIN ms}} :
       LET writes(r) == {i \in DOMAIN ms : \E j \in DOMAIN ms[i].w : ms[i].w[j] = r}
           reads(r) == {i \in DOMAIN ms : \E j \in DOMAIN ms[i].r : ms[i].r[j] = r} IN
       known' = {[r |-> r, beg |-> Min(writes(r)), end |-> Max(reads(r))] : r \in {r \in regs : reads(r) # {}}}
    /\ mpass' = "opt_asnhregs" /\ at' = 0 /\ UNCHANGED <<mf, mdid>>

Free(x, p) ==
    /\ x.r.p = 8
    /\ \A y \in known : y.r.p = p => y.end <= x.beg \/ x.end <= y.beg
    /\ \A i \in x.beg..(x.end - 1) : ms[i].k # "call"
Shorter(x, y) ==
    LET span(z) == z.end - z.beg IN
    span(x) < span(y) \/ (span(x) = span(y) /\ x.beg <= y.beg)
HardReg(r) == IF \E x \in known : x.r.id = r.id THEN (CHOOSE x \in known : x.r.id = r.id).r ELSE r
AsnHRegs ==
    /\ mpass = "opt_asnhregs"
    /\ IF at > 5 THEN mf' = [mf EXCEPT !.ms = Renamed(ms, HardReg)] /\ GoTo("opt_40", mdid)
       ELSE \E free \in {{x \in known : Free(x, at)}} :
            /\ IF free = {} THEN at' = at + 1 /\ UNCHANGED known
               ELSE \E x \in {x \in free : \A y \in free : Shorter(x, y)} :
                    known' = (known \ {x}) \cup {[x EXCEPT !.r.p = at]} /\ UNCHANGED at
            /\ UNCHANGED <<mf, mpass, mdid>>

(* opt_40: post-increment needs one load, and LDA rn,0(rn) none. *)
LoadsTwice(i) ==
    /\ i + 2 \in DOMAIN ms
    /\ ms[i].k = "load" /\ ms[i + 1].k = "load" /\ ms[i + 2].k = "lda"
    /\ ms[i].op = ms[i + 1].op /\ ms[i].n = ms[i + 1].n /\ AddrReg(ms[i]).p = AddrReg(ms[i + 1]).p
    /\ AddrReg(ms[i + 2]).p = ms[i + 1].w[1].p /\ ms[i + 2].w[1].p = ms[i + 1].w[1].p
Idle(i) == ms[i].k = "lda" /\ ms[i].n = 0 /\ ms[i].w[1].p = ms[i].r[1].p
Opt40 ==
    /\ mpass = "opt_40"
    /\ \E found \in {{i \in at..Len(ms) : LoadsTwice(i) \/ Idle(i)}} :
          IF found = {} THEN NextPass("opt_41")
          ELSE \E i \in FirstOf(found) :
               IF Idle(i) THEN Change(Without(ms, i, 1), i)
               ELSE Change(Without([ms EXCEPT ![i + 2] = Rebased(@, @.n, ms[i].w[1])], i + 1, 1), i + 1)

(* opt_41: a constant is made from one that a register has.  known says which. *)
Nearby(m) == {p \in DOMAIN known \ {5} : InShort(SignedWord(Word(m.n - known[p].v)))}
FromNearby(m, p) == Lda(m.w[1], SignedWord(Word(m.n - known[p].v)), known[p].r)
Still(m) ==     \* what is known after m, which loads no constant
    IF m.k \in {"label", "call"} THEN << >>
    ELSE [p \in DOMAIN known \ {m.w[j].p : j \in DOMAIN m.w} |-> known[p]]
Opt41 ==
    /\ mpass = "opt_41"
    /\ IF at > Len(ms) THEN NextPass("opt_42")
       ELSE LET m == ms[at] IN
            /\ IF m.k # "ldval" THEN known' = Still(m) /\ UNCHANGED mf
               ELSE /\ known' = (m.w[1].p :> [v |-> m.n, r |-> m.w[1]]) @@ known
                    /\ mf' = [mf EXCEPT !.ms[at] = IF Nearby(m) = {} THEN m ELSE FromNearby(m, Min(Nearby(m)))]
            /\ at' = at + 1 /\ UNCHANGED <<mpass, mdid>>

(* opt_42: the stack pointer moves once instead of twice. *)
MovesSp(m) == m.k = "lda" /\ m.w[1].p = 6 /\ m.r[1].p = 6
Opt42 ==
    /\ mpass = "opt_42"
    /\ \E found \in {{i \in 1..(Len(ms) - 1) : MovesSp(ms[i]) /\ MovesSp(ms[i + 1]) /\ InShort(ms[i].n + ms[i + 1].n)}} :
          IF found = {} THEN NextPass("done")
          ELSE \E i \in FirstOf(found) : Change(Without([ms EXCEPT ![i].n = @ + ms[i + 1].n], i + 1, 1), i)

OptMachsNext ==
    \/ Opt01 \/ Opt02 \/ Opt03 \/ Opt04 \/ Opt06 \/ AsnStack
    \/ Opt20 \/ Opt20Sp \/ Opt21 \/ Opt22 \/ Opt22b
    \/ Ranges \/ AsnHRegs \/ Opt40 \/ Opt41 \/ Opt42
===============================================================================
