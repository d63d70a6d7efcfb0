------------------------------- MODULE FrontEnd --------------------------------
(***************************************************************************)
(* The compilation of a function (FuncDecl::parseFuncBody): its primitives  *)
(* are generated and then optimized in rounds until one changes nothing;    *)
(* instructions are made of them and optimized in their turn.               *)
(***************************************************************************)
EXTENDS Generate, OptMachs

(***************************************************************************)
(* The optimizer of primitives (FuncDecl::optprims, cc/optprims.cc): rounds *)
(* of three passes over the list until a round changes nothing.  The third  *)
(* pass tries five changes, in this order, at every primitive in turn.      *)
(***************************************************************************)

VARIABLES
    prims,      \* the list
    pass,       \* "labels" (the first two), "changes" (the third) or "done"
    next,       \* the primitive to look at next and, in the third pass, the change to try
    did         \* didsomething

optvars == <<prims, pass, next, did>>

At(i) == IF i \in DOMAIN prims THEN prims[i] ELSE EntryPrim
IsLabel(p) == p.k = "label"
(* A list with some of its primitives changed; the values are computed at once. *)
Map(code, Op(_, _)) == FoldLeft(LAMBDA done, p : Append(done, Op(Len(done) + 1, p)), << >>, code)
-------------------------------------------------------------------------------
(* The first pass: of two labels in a row the first replaces the second, and the
   pass goes on behind them: a third one stays for the next round. *)
RedundantAt == {i \in DOMAIN prims : i >= next[1] /\ IsLabel(prims[i]) /\ IsLabel(At(i + 1))}

(* Mutant: what went to the second label is left alone. *)
RemoveRedundantLabel_only ==
    /\ pass = "labels" /\ RedundantAt # {}
    /\ prims' = RemoveAt(prims, Min(RedundantAt) + 1)
    /\ next' = <<Min(RedundantAt) + 1, 1>>
    /\ did' = TRUE
    /\ UNCHANGED pass

RemoveRedundantLabel ==
    /\ pass = "labels" /\ RedundantAt # {}
    /\ LET i == Min(RedundantAt) IN
       /\ prims' = Map(RemoveAt(prims, i + 1), LAMBDA j, p : ReplaceLabel(p, prims[i + 1].l, prims[i].l))
       /\ next' = <<i + 1, 1>>
    /\ did' = TRUE
    /\ UNCHANGED pass

(* The second pass; what it removes is no reason for another round.  A label
   that is fallen into is referred to as well: setLinext puts the primitive that
   follows in flonexts if control gets there. *)
Flonexts(i) ==
    GoesTo(prims[i]) \cup {p.l : p \in {q \in {At(i + 1)} : HasFallthru(prims[i]) /\ IsLabel(q)}}
Referenced == UNION {Flonexts(i) : i \in DOMAIN prims}

RemoveUnreferencedLabels ==
    /\ pass = "labels" /\ RedundantAt = {}
    /\ prims' = SelectSeq(prims, LAMBDA p : ~IsLabel(p) \/ p.l \in Referenced)
    /\ pass' = "changes" /\ next' = <<1, 1>>
    /\ UNCHANGED did
-------------------------------------------------------------------------------
(* 1. ASNOP tempx = something, with no other references to tempx *)
IsWriteOnly(i) ==
    LET x == WritesTemp(prims[i]) IN
    /\ IsVar(x) /\ ~x.st /\ ~HasSideEffects(prims[i])
    /\ \A j \in DOMAIN prims \ {i} : ~ReadsOrWritesVar(prims[j], x)

(* 2. BINOP tempx = whatever; ASNOP vary = tempx *)
BlockEnd(i) ==    \* the next label, or past the end
    LET labels == {j \in DOMAIN prims : j > i /\ IsLabel(prims[j])} IN
    IF labels = {} THEN Len(prims) + 1 ELSE Min(labels)

CanMerge(i) ==
    LET x == WritesTemp(prims[i]) IN
    /\ IsVar(x)
    /\ At(i + 1).k = "asnop" /\ At(i + 1).a = x
    /\ \A j \in DOMAIN prims : (j < i \/ j >= BlockEnd(i)) => ~ReadsOrWritesVar(prims[j], x)

(* 3. COMP or TEST truelbl; JUMP falselbl; truelbl: *)
CanFlip(i) ==
    /\ prims[i].k \in {"comp", "test"}
    /\ At(i + 1).k = "jump"
    /\ IsLabel(At(i + 2)) /\ At(i + 2).l = prims[i].l

(* 4. JUMP somelabel; somelabel: *)
JumpsToNext(i) ==
    /\ At(i + 1).k = "jump"
    /\ IsLabel(At(i + 2)) /\ At(i + 2).l = At(i + 1).l

(* 5. what follows a primitive that does not fall through, up to a label *)
HasDeadCode(i) == ~HasFallthru(prims[i]) /\ BlockEnd(i) > i + 1

Can(change, i) ==
    CASE change = 1 -> IsWriteOnly(i) [] change = 2 -> CanMerge(i) [] change = 3 -> CanFlip(i)
      [] change = 4 -> JumpsToNext(i) [] change = 5 -> HasDeadCode(i)

NotBefore(i, change) == i > next[1] \/ (i = next[1] /\ change >= next[2])
NothingUpTo(i, change) ==
    \A j \in next[1]..i : \A c \in 1..5 :
        NotBefore(j, c) /\ (j < i \/ c < change) => ~Can(c, j)

(* The third pass has come to a change that it can make at primitive i. *)
Reaches(change, i) ==
    /\ pass = "changes" /\ NotBefore(i, change)
    /\ Can(change, i)
    /\ NothingUpTo(i, change)
    /\ did' = TRUE
    /\ UNCHANGED pass

RemoveWriteOnly(i) ==
    /\ Reaches(1, i)
    /\ prims' = RemoveAt(prims, i)
    /\ next' = <<i, 1>>

(* Mutant: to the end of the block *)
Merge_all(i) ==
    /\ Reaches(2, i)
    /\ LET x == WritesTemp(prims[i])
           y == At(i + 1).o IN
       prims' = RemoveAt(Map(prims, LAMBDA j, p : IF j = i THEN ReplaceWrites(p, x, y)
                                                  ELSE IF j > i /\ j < BlockEnd(i) THEN ReplaceReads(p, x, y)
                                                  ELSE p), i + 1)
    /\ next' = <<i, 3>>

(* The reads of tempx that follow become reads of vary up to its next write. *)
Merge(i) ==
    /\ Reaches(2, i)
    /\ LET x == WritesTemp(prims[i])
           y == At(i + 1).o
           again == {j \in DOMAIN prims : j > i + 1 /\ WritesTemp(prims[j]) = x}
           stop == Min({BlockEnd(i)} \cup again) IN
       prims' = RemoveAt(Map(prims, LAMBDA j, p : IF j = i THEN ReplaceWrites(p, x, y)
                                                  ELSE IF j > i /\ j < stop THEN ReplaceReads(p, x, y)
                                                  ELSE p), i + 1)
    /\ next' = <<i, 3>>

(* Mutant: the jump stays. *)
Flip_keep(i) ==
    /\ Reaches(3, i)
    /\ prims' = [prims EXCEPT ![i] = [@ EXCEPT !.op = RevCmp[@], !.l = At(i + 1).l]]
    /\ next' = <<i, 4>>

Flip(i) ==
    /\ Reaches(3, i)
    /\ prims' = RemoveAt(Map(prims, LAMBDA j, p : IF j = i THEN [p EXCEPT !.op = RevCmp[@], !.l = At(i + 1).l]
                                                  ELSE p), i + 1)
    /\ next' = <<i, 4>>

RemoveJump(i) ==
    /\ Reaches(4, i)
    /\ prims' = RemoveAt(prims, i + 1)
    /\ next' = <<i, 5>>

RemoveDeadCode(i) ==
    /\ Reaches(5, i)
    /\ prims' = SubSeq(prims, 1, i) \o SubSeq(prims, BlockEnd(i), Len(prims))
    /\ next' = <<i + 1, 1>>

EndRound ==
    /\ pass = "changes"
    /\ NothingUpTo(Len(prims), 6)
    /\ pass' = IF did THEN "labels" ELSE "done"
    /\ did' = FALSE
    /\ next' = <<1, 1>>
    /\ UNCHANGED prims
-------------------------------------------------------------------------------
(* Not in the code: the merge at i is right if tempx is a temporary indeed,
   that is not seen from outside, not read by whatever, and not read again
   through a pointer or after vary has changed. *)
UnsafeMerge(i) ==
    LET x == WritesTemp(prims[i])
        again == {j \in DOMAIN prims : j > i + 1 /\ WritesTemp(prims[j]) = x}
        stop == Min({BlockEnd(i)} \cup again) IN
    \/ x.st
    \/ ReadsOrWritesVar([prims[i] EXCEPT !.o = NoVal], x)
    \/ \E j \in (i + 2)..(BlockEnd(i) - 1) :
         \/ j <= stop /\ ReadsOrWritesVar([prims[j] EXCEPT !.o = IF IsVar(@) THEN NoVal ELSE @], x)
         \/ prims[j].op = "&x" /\ prims[j].a = x

-------------------------------------------------------------------------------
(* What a function means, told from its source: the reference that the
   primitives and the machine code are compared with.  Nothing of it is in the
   compiler. *)
Res(m, v) == [m |-> m, v |-> v]
Bad(m) == Res(m, Undef)
IsBad(r) == r.v = Undef

(* The value of an expression, and the memory after it.  Where C leaves the
   order open the programs do not depend on it. *)
RECURSIVE Ev(_, _), EvAll(_, _, _)
Place(x, m) ==      \* the variable that an lvalue names
    IF x.k = "val" THEN [m |-> m, n |-> x.v.n, ok |-> TRUE]
    ELSE LET r == Ev(x.e[1], m) IN
         IF IsAddr(r.v) THEN [m |-> r.m, n |-> NameAt(r.v), ok |-> TRUE] ELSE [m |-> m, n |-> "", ok |-> FALSE]

EvAll(xs, i, m) ==
    IF i > Len(xs) THEN [m |-> m, vs |-> << >>]
    ELSE LET r == Ev(xs[i], m)
             rest == EvAll(xs, i + 1, r.m) IN
         [m |-> rest.m, vs |-> <<r.v>> \o rest.vs]

Ev(x, m) ==
    CASE x.k = "val" -> Res(m, Value(x.v, m))
      [] x.k = "asn" ->
            LET r == Ev(x.e[2], m)
                p == Place(x.e[1], r.m) IN
            IF IsBad(r) \/ ~p.ok THEN Bad(m) ELSE Res((p.n :> r.v) @@ p.m, r.v)
      [] x.k = "cast" ->
            LET r == Ev(x.e[1], m) IN IF IsBad(r) THEN r ELSE Res(r.m, CastTo(x.t, r.v))
      [] x.k = "qm" ->
            LET c == Ev(x.e[1], m) IN
            IF IsBad(c) THEN c ELSE IF c.v # 0 THEN Ev(x.e[2], c.m) ELSE Ev(x.e[3], c.m)
      [] x.k = "call" ->
            LET a == EvAll(x.e, 1, m) IN
            IF Undef \in Range(a.vs) \/ (x.op = "clear" /\ ~IsAddr(a.vs[1])) THEN Bad(m)
            ELSE LET r == ExtCall(x.op, a.vs, a.m) IN Res(r.mem, r.ret)
      [] x.k = "un" /\ x.op = "&x" -> LET p == Place(x.e[1], m) IN Res(p.m, AddrOf(p.n))
      [] x.k = "un" /\ x.op = "*" ->
            LET p == Place(x, m) IN
            IF p.ok /\ p.n \in DOMAIN p.m THEN Res(p.m, p.m[p.n]) ELSE Bad(m)
      [] x.k = "un" /\ x.op \notin {"&x", "*"} ->
            LET r == Ev(x.e[1], m) IN IF IsBad(r) THEN r ELSE Res(r.m, Unop(x.op, x.t, r.v))
      [] x.k = "bin" ->
            LET l == Ev(x.e[1], m)
                r == Ev(x.e[2], l.m) IN
            IF IsBad(l) THEN l
            ELSE IF x.op = "&&" /\ l.v = 0 THEN l
            ELSE IF x.op = "||" /\ l.v # 0 THEN Res(l.m, 1)
            ELSE IF IsBad(r) \/ (x.op \in {"/", "%"} /\ r.v = 0) THEN Bad(m)
            ELSE IF x.op \in {"&&", "||"} THEN Res(r.m, Truth(r.v # 0))
            ELSE IF x.op = "," THEN r
            ELSE Res(r.m, Binop(x.op, x.t, l.v, r.v))

Went(m, sig, v, fuel) == [m |-> m, sig |-> sig, v |-> v, fuel |-> fuel]

RECURSIVE Exec(_, _, _), ExecSeq(_, _, _, _), Loop(_, _, _, _)
ExecSeq(ss, i, m, fuel) ==
    IF i > Len(ss) THEN Went(m, "go", 0, fuel)
    ELSE LET r == Exec(ss[i], m, fuel) IN
         IF r.sig = "go" THEN ExecSeq(ss, i + 1, r.m, r.fuel) ELSE r

(* while (c) { body; step }, with or without a test before the first round *)
Loop(s, m, fuel, first) ==
    LET body == s.ss[IF s.k = "for" THEN 3 ELSE 1]
        step == IF s.k = "for" THEN s.ss[2] ELSE Null
        c == IF first \/ s.x.k = "none" THEN Res(m, 1) ELSE Ev(s.x, m)
        b == Exec(body, c.m, fuel - 1)
        t == Exec(step, b.m, b.fuel) IN
    IF fuel = 0 THEN Went(m, "fuel", 0, 0)
    ELSE IF IsBad(c) THEN Went(m, "bad", 0, fuel)
    ELSE IF c.v = 0 \/ b.sig = "break" THEN Went(IF c.v = 0 THEN c.m ELSE b.m, "go", 0, fuel - 1)
    ELSE IF b.sig \in {"return", "bad", "fuel"} THEN b
    ELSE IF t.sig # "go" THEN t
    ELSE Loop(s, t.m, t.fuel, FALSE)

Exec(s, m, fuel) ==
    CASE s.k = "block" -> ExecSeq(s.ss, 1, m, fuel)
      [] s.k \in {"expr", "decl"} ->
            LET r == Ev(s.x, m) IN Went(r.m, IF IsBad(r) THEN "bad" ELSE "go", 0, fuel)
      [] s.k \in {"break", "continue"} -> Went(m, s.k, 0, fuel)
      [] s.k = "return" ->
            LET r == Ev(ECast(RetType, s.x), m) IN Went(r.m, IF IsBad(r) THEN "bad" ELSE "return", r.v, fuel)
      [] s.k \in {"null", "case", "default"} -> Went(m, "go", 0, fuel)
      [] s.k = "if" ->
            LET c == Ev(s.x, m) IN
            IF IsBad(c) THEN Went(m, "bad", 0, fuel)
            ELSE IF c.v # 0 THEN Exec(s.ss[1], c.m, fuel)
            ELSE IF Len(s.ss) = 2 THEN Exec(s.ss[2], c.m, fuel)
            ELSE Went(c.m, "go", 0, fuel)
      [] s.k = "while" -> Loop(s, m, fuel, FALSE)
      [] s.k = "do" -> Loop(s, m, fuel, TRUE)
      [] s.k = "for" ->
            LET i == Exec(s.ss[1], m, fuel) IN
            IF i.sig = "go" THEN Loop(s, i.m, i.fuel, FALSE) ELSE i
      [] s.k = "switch" ->
            LET c == Ev(s.x, m)
                hit == {i \in 1..Len(s.ss) : s.ss[i].k = "case" /\ CaseLow(s.ss[i]) <= c.v
                           /\ c.v <= IF s.ss[i].x.e[2].k = "none" THEN CaseLow(s.ss[i]) ELSE CaseHigh(s.ss[i])}
                def == {i \in 1..Len(s.ss) : s.ss[i].k = "default"}
                from == IF hit # {} THEN Min(hit) ELSE IF def # {} THEN Min(def) ELSE Len(s.ss) + 1
                r == ExecSeq(s.ss, from, c.m, fuel) IN
            IF IsBad(c) THEN Went(m, "bad", 0, fuel)
            ELSE IF r.sig = "break" THEN [r EXCEPT !.sig = "go"] ELSE r

(* The outcome of the whole function *)
RunSource(body, mem) ==
    LET r == Exec(body, mem, Fuel) IN
    Outcome(CASE r.sig = "return" -> "returned" [] r.sig = "fuel" -> "runs on" [] OTHER -> "undefined",
            IF r.sig = "return" THEN r.v ELSE 0, r.m)

(* The optimizers may do what they like with a function whose source uses what
   it never set; one that does not end need not end. *)
SameOutcome(ref, got) ==
    CASE ref.status = "undefined" -> TRUE
      [] ref.status = "runs on" -> got.status = "runs on"
      [] OTHER -> got = ref
-------------------------------------------------------------------------------
(* A function that has been parsed: the primitives generated for it, and what
   its source computes from each of the memories it is run with.  The model
   compiles some of them down to instructions. *)
Parsed(body, inputs) ==
    [prims |-> GenerFunc(body), means |-> [m \in inputs |-> RunSource(body, m)], whole |-> FALSE]
ToMachs(f) == [f EXCEPT !.whole = TRUE]

CONSTANTS
    Programs    \* the functions that are compiled: a set of Parsed(body, inputs)

VARIABLES
    means,      \* history: what the source computes from each input
    unsafe      \* history: the optimizer made a merge that UnsafeMerge describes

vars == <<optvars, machvars, means, unsafe>>

Init ==
    /\ \E f \in Programs :
          prims = f.prims /\ means = f.means /\ mpass = IF f.whole THEN "assemble" ELSE "none"
    /\ mf = << >> /\ at = 1 /\ known = << >> /\ mdid = FALSE
    /\ pass = "labels" /\ next = <<1, 1>> /\ did = FALSE
    /\ unsafe = FALSE

MergeAndTell(i) ==
    /\ Merge(i)
    /\ unsafe' = (unsafe \/ UnsafeMerge(i))
    /\ UNCHANGED <<means, machvars>>

AssemblePrims ==
    /\ pass = "done" /\ mpass = "assemble"
    /\ mf' = AssembleFunc(prims)
    /\ GoTo("opt_01", FALSE)

Done == pass = "done" /\ mpass \in {"none", "done"} /\ UNCHANGED vars

Next ==
    \/ \E i \in DOMAIN prims : MergeAndTell(i)
    \/ /\ \/ RemoveRedundantLabel
          \/ RemoveUnreferencedLabels
          \/ \E i \in DOMAIN prims : RemoveWriteOnly(i) \/ Flip(i) \/ RemoveJump(i) \/ RemoveDeadCode(i)
          \/ EndRound
       /\ UNCHANGED <<means, unsafe, machvars>>
    \/ /\ AssemblePrims \/ OptMachsNext
       /\ UNCHANGED <<optvars, means, unsafe>>
    \/ Done

Spec == Init /\ [][Next]_vars
-------------------------------------------------------------------------------
Computes(m) == SameOutcome(means[m], RunPrims(prims, m))

(* What was generated, and every list that the optimizer makes of it without an
   unsafe merge, computes what the source says: the result of the function and
   what it leaves in static variables, whatever it is called with
   (generate.cc, optprims.cc). *)
PrimsMeanSource == ~unsafe => \A m \in DOMAIN means : Computes(m)

(* Every label that something goes to is there once, and the list does not run
   off its end, whatever was removed (optprims.cc, resetLinext). *)
FlowIsSound ==
    /\ \A i \in DOMAIN prims : \A l \in Flonexts(i) :
          Cardinality({j \in DOMAIN prims : IsLabel(prims[j]) /\ prims[j].l = l}) = 1
    /\ ~HasFallthru(prims[Len(prims)])

(* Both together. *)
PrimsRight == PrimsMeanSource /\ FlowIsSound

(* The same of the optimizer as it is, which takes care that nothing else refers
   to the variable it removes (comments of optprims.cc). *)
OptimizerKeepsMeaning == \A m \in DOMAIN means : Computes(m)

(* What was assembled, and what every pass over the instructions leaves, computes
   on the processor what the source says; and after opt_asnhregs all registers
   are hardware registers (assemble.cc, optmachs.cc). *)
Runnable == mpass \in {"opt_40", "opt_41", "opt_42", "done"}
MachsMeanSource ==
    /\ ~unsafe /\ at = 1 /\ (Runnable \/ mpass \in {"opt_01", "opt_20"}) =>
          \A m \in DOMAIN means : SameOutcome(means[m], RunMachs(mf, m))
    /\ at = 1 /\ Runnable => \A i \in DOMAIN ms : \A r \in Range(ms[i].w) \cup Range(ms[i].r) : r.p # 8

(* Two longs are compared ("output assembly language to compare two byte/word/long
   integers and branch", comment at assemble.cc:918). *)
LongsCompareRight == mpass = "done" => \A m \in DOMAIN means : SameOutcome(means[m], RunMachs(mf, m))

(* The rounds of the optimizer end: whatever counts as having done something
   leaves a shorter list, so nothing undoes what another change did. *)
ChangesShorten == [][prims' # prims => Len(prims') < Len(prims)]_vars
================================================================================
