-------------------------------- MODULE Structs --------------------------------
(***************************************************************************)
(* The compiler's structs (structtype.cc): where their members and parents *)
(* lie, what virtual functions their vtables name, what __init and __term  *)
(* do to an object, what new, delete, a call and an initialiser mean.      *)
(*                                                                         *)
(* A type is known by its place in types, the sequence of the struct types *)
(* declared so far, and can only extend those before it; each is a record  *)
(* of what the compiler's methods return for it.  Sizes are in bytes.      *)
(***************************************************************************)
EXTENDS Integers, Sequences, SequencesExt, FiniteSetsExt

CONSTANTS
    Bodies,       \* what may be declared: [unyun, vars, funcs]
    ParentLists,  \* the lists of parents that may be extended
    MaxTypes,     \* bound: struct types of one program
    Initialisers  \* sequences of the names that .name = gives, or NoName

ASSUME StructAssumption ==
    /\ \A b \in Bodies :
        /\ b.unyun \in BOOLEAN
        /\ b.vars \in Seq([name : STRING, size : Nat \ {0}, align : {1, 2}])
        /\ b.funcs \in Seq([name : STRING, stor : {"none", "static", "virtual"}, pure : BOOLEAN, sig : Nat])
    /\ ParentLists \subseteq Seq(Nat)
    /\ MaxTypes \in Nat

VARIABLE types

NoName == ""
PtrSize == 2
LSOFFMIN == -64     \* the offset a lda reaches back
VTablePtr == [name |-> "__vtableptr", size |-> PtrSize, align |-> PtrSize]
TermFunc == [name |-> "__term", stor |-> "virtual", pure |-> FALSE, sig |-> 1]
InitFunc == [name |-> "__init", stor |-> "static", pure |-> FALSE, sig |-> 2]

(* The next multiple; mutant: the one before, over what is there. *)
Aligned_below(n, alin) == (n \div alin) * alin
Aligned(n, alin) == ((n + alin - 1) \div alin) * alin
Named(list, name) == {i \in DOMAIN list : list[i].name = name}
Has(list, name) == Named(list, name) # {}
Virtuals(list) == SelectSeq(list, LAMBDA f : f.stor = "virtual")
hasVirtFunc(t, name) == LET at == Named(t.funcs, name) IN at # {} /\ t.funcs[Min(at)].stor = "virtual"

------------------------------------------------------------------------------
(* Layout: the members' own variables, then the parents, each at the next  *)
(* multiple of its alignment; a union's all at 0.                          *)

Items(ts, exts, vars) == vars \o [k \in DOMAIN exts |-> ts[exts[k]]]

EndOf(items, unyun) ==
    LET end[k \in 0 .. Len(items)] ==
            IF k = 0 \/ unyun THEN 0 ELSE Aligned(end[k - 1], items[k].align) + items[k].size
    IN  end

OffsetsOf(items, unyun) ==
    LET end == EndOf(items, unyun) IN [k \in DOMAIN items |-> Aligned(end[k - 1], items[k].align)]

(* getExtOffset, of every parent: where what is before it ends, which is not *)
(* rounded up to the parent's own alignment; casts and entry points use it.  *)
getExtOffsets(items, nvars, nexts, unyun) ==
    LET end == EndOf(items, unyun) IN [k \in 1 .. nexts |-> end[nvars + k - 1]]

getTypeAlign(items) == Max({1} \cup {items[k].align : k \in DOMAIN items})
getTypeSize(items, unyun) ==
    Aligned(IF unyun THEN Max({0} \cup {items[k].size : k \in DOMAIN items})
                     ELSE EndOf(items, unyun)[Len(items)],
            getTypeAlign(items))

Total(list, F(_)) == FoldLeft(LAMBDA sum, e : sum + F(e), 0, list)
MembersOf(ts, exts) == Total(exts, LAMBDA e : ts[e].nummembers)

(* A list of every parent, and of its own list, that Of gives, shifted to  *)
(* where the parent is. *)
Inherited(exts, Of(_, _)) ==
    FlattenSeq([k \in DOMAIN exts |-> Of(exts[k], k)])
Shifted(list, by) == [i \in DOMAIN list |-> [list[i] EXCEPT !.off = @ + by]]

(* isLeafwardOf and gatherThrowSubIDs: this type and what it extends, in   *)
(* the order they are looked at. *)
Subs(ts, exts, extoffs) ==
    <<[type |-> Len(ts) + 1, off |-> 0]>>
        \o Inherited(exts, LAMBDA e, k : Shifted(ts[e].subs, extoffs[k]))
SubAt(subs, root) == subs[Min({i \in DOMAIN subs : subs[i].type = root})].off
isLeafwardOf(ts, leaf, root) == \E i \in DOMAIN ts[leaf].subs : ts[leaf].subs[i].type = root
CastOffset(ts, leaf, root) == SubAt(ts[leaf].subs, root)
ThrowSubIDs(ts, t) == Tail(ts[t].subs)

(* getMemberByName: own variables, own functions, then the parents. *)
NotFound == [kind |-> "none"]
Below(found, by, index) ==
    IF found.kind = "var" THEN [found EXCEPT !.off = @ + by, !.index = @ + index] ELSE found
OwnMember(self, vars, offs, funcs, name) ==
    IF Has(vars, name)
    THEN LET i == Min(Named(vars, name)) IN
         [kind |-> "var", struct |-> self, off |-> offs[i], index |-> i - 1, size |-> vars[i].size]
    ELSE IF Has(funcs, name)
    THEN [kind |-> "func", struct |-> self, func |-> funcs[Min(Named(funcs, name))]]
    ELSE NotFound
ParentsMember(ts, exts, offs, nvars, parenttype, name) ==
    LET holds == {k \in DOMAIN exts : /\ parenttype \in {0, exts[k]}
                                      /\ name \in DOMAIN ts[exts[k]].found}
    IN  IF holds = {} THEN NotFound
        ELSE LET k == Min(holds) IN
             Below(ts[exts[k]].found[name], offs[nvars + k], nvars + MembersOf(ts, SubSeq(exts, 1, k - 1)))
getMemberByName(ts, t, parenttype, name) ==
    LET s == ts[t]
        own == IF parenttype \in {0, t} THEN OwnMember(t, s.vars, s.offs, s.funcs, name) ELSE NotFound
    IN  IF own # NotFound THEN own
        ELSE ParentsMember(ts, s.exts, s.offs, Len(s.vars), parenttype, name)
Findable(ts, exts, vars, funcs) ==
    {vars[i].name : i \in DOMAIN vars} \cup {funcs[i].name : i \in DOMAIN funcs}
        \cup UNION {DOMAIN ts[exts[k]].found : k \in DOMAIN exts}

(* getMemberByIndex: the parents first, and own variables after them. *)
ByIndex(ts, exts, vars, unyun) ==
    LET parents == [k \in DOMAIN exts |-> ts[exts[k]]]
        places == OffsetsOf(parents \o vars, unyun)
        own == [i \in DOMAIN vars |-> [struct |-> Len(ts) + 1, name |-> vars[i].name,
                                       off |-> places[Len(exts) + i], size |-> vars[i].size]]
    IN  Inherited(exts, LAMBDA e, k : Shifted(ts[e].byindex, places[k])) \o own

(* A type's virtual functions take this much of a vtable; mutant: all its *)
(* functions do. *)
OwnEntries_all(funcs) == PtrSize * Len(funcs)
OwnEntries(funcs) == PtrSize * Len(Virtuals(funcs))

(* getVTableLabel: where it looks for vtable pointers; a parent's own ends *)
(* where its members do, before its size is rounded up. *)
Labels(ts, exts, vars, funcs, unyun, hasvt) ==
    LET start == [list |-> IF hasvt THEN <<[off |-> 0, voff |-> 0]>> ELSE << >>,
                  end |-> EndOf(vars, unyun)[Len(vars)], vend |-> OwnEntries(funcs)]
        Parent(sofar, e) ==
            LET from == Aligned(sofar.end, ts[e].align)
                theirs == [i \in DOMAIN ts[e].labels.list |->
                              [off |-> ts[e].labels.list[i].off + from,
                               voff |-> ts[e].labels.list[i].voff + sofar.vend]]
            IN  [list |-> sofar.list \o theirs, end |-> from + ts[e].labels.end,
                 vend |-> sofar.vend + ts[e].labels.vend]
    IN  FoldLeft(Parent, start, exts)

------------------------------------------------------------------------------
(* Virtual functions.  An entry of a vtable names the function of the type *)
(* enc or, where by overrides it, the entry point enc::by__name, which     *)
(* turns a pointer to the parent into one to the child.                    *)

Own(self, f) == [enc |-> self, by |-> 0, name |-> f.name, sig |-> f.sig]
Overridden(self, funcs, entry) ==
    IF entry.by = 0 /\ \E i \in DOMAIN funcs : funcs[i].name = entry.name /\ funcs[i].sig = entry.sig
    THEN [entry EXCEPT !.by = self] ELSE entry
fillvtableinit(ts, exts, funcs) ==
    LET self == Len(ts) + 1
        own == Virtuals(funcs)
    IN  [i \in DOMAIN own |-> Own(self, own[i])]
        \o Inherited(exts, LAMBDA e, k :
               [i \in DOMAIN ts[e].vt |-> Overridden(self, funcs, ts[e].vt[i])])

(* the vtable's parts, one for every parent that has a vtable *)
VTSubs(ts, exts, funcs) ==
    LET start == [list |-> <<[type |-> Len(ts) + 1, off |-> 0]>>, end |-> PtrSize * Len(Virtuals(funcs))]
        Parent(sofar, e) ==
            IF ~ts[e].hasvt THEN sofar
            ELSE [list |-> sofar.list \o Shifted(ts[e].vtsubs, sofar.end),
                  end |-> sofar.end + PtrSize * Len(ts[e].vt)]
    IN  FoldLeft(Parent, start, exts).list

(* EntMach::dumpmach: the parents whose function this type's overrides, in *)
(* whose order the entry points follow one another, last parent first. *)
Overrides(ts, t, name) ==
    IF ~hasVirtFunc(ts[t], name) THEN {}
    ELSE {k \in DOMAIN ts[t].exts : hasVirtFunc(ts[ts[t].exts[k]], name)}
HasLabel(ts, entry) ==
    IF entry.by = 0
    THEN ~ts[entry.enc].funcs[Min(Named(ts[entry.enc].funcs, entry.name))].pure
    ELSE \E k \in Overrides(ts, entry.by, entry.name) : ts[entry.by].exts[k] = entry.enc
(* From an entry point to the function: each step backs this up, over a    *)
(* gap, to where the step before it is; over a long one r2 is lost.        *)
(* Mutant: every step backs up to the start of the child. *)
StepOver_whole(ts, t, name, k) == - ts[t].extoffs[k]
StepOver(ts, t, name, k) ==
    LET before == {j \in Overrides(ts, t, name) : j < k} IN
    IF before = {} THEN - ts[t].extoffs[k] ELSE ts[t].extoffs[Max(before)] - ts[t].extoffs[k]
Lost == -1
Backed(ts, entry, this) ==
    LET t == entry.by
        ks == Overrides(ts, t, entry.name)
        from == Min({k \in ks : ts[t].exts[k] = entry.enc})
        passed == {k \in ks : k <= from}
    IN  IF \E k \in passed : StepOver(ts, t, entry.name, k) < LSOFFMIN THEN Lost
        ELSE this + FoldSet(LAMBDA k, sum : sum + StepOver(ts, t, entry.name, k), 0, passed)
EntrySize(ts, t, name) ==
    LET Lda(step) == IF step = 0 THEN 0 ELSE IF step < LSOFFMIN THEN 6 ELSE 2 IN
    FoldSet(LAMBDA k, sum : sum + Lda(StepOver(ts, t, name, k)), 0, Overrides(ts, t, name))

------------------------------------------------------------------------------
(* Construction and destruction, as what is done to one object: vtable     *)
(* pointers stored and constructors called by __init, destructors by       *)
(* __term, each at an offset of the object.                                *)

Moved(steps, by, vby) == [i \in DOMAIN steps |-> [steps[i] EXCEPT !.off = @ + by, !.voff = @ + vby]]
genInitFunc(ts, exts, subs, vtsubs, hasvt, hasctor) ==
    LET self == Len(ts) + 1
        Step(do) == <<[do |-> do, type |-> self, off |-> 0, voff |-> 0]>>
    IN  Inherited(exts, LAMBDA e, k :
            IF ts[e].hasinit THEN Moved(ts[e].inits, SubAt(subs, e), SubAt(vtsubs, e)) ELSE << >>)
        \o (IF hasvt THEN Step("vtableptr") ELSE << >>)
        \o (IF hasctor THEN Step("__ctor") ELSE << >>)
genTermFunc(ts, exts, subs, hasdtor) ==
    Inherited(exts, LAMBDA e, k : IF ts[e].hasterm THEN Shifted(ts[e].terms, SubAt(subs, e)) ELSE << >>)
        \o (IF hasdtor THEN <<[type |-> Len(ts) + 1, off |-> 0]>> ELSE << >>)

(* isAbstract: pure functions, own and of a parent, that the next type     *)
(* leafward does not override. *)
PureIn(funcs) == {funcs[i].name : i \in {i \in DOMAIN funcs : funcs[i].pure}}
ParentAbstract(ts, exts, funcs) ==
    \E k \in DOMAIN exts :
        \/ PureIn(ts[exts[k]].funcs) \ {Virtuals(funcs)[i].name : i \in DOMAIN Virtuals(funcs)} # {}
        \/ ts[exts[k]].parentabstract

------------------------------------------------------------------------------
(* setMembers: a struct type is declared. *)
setMembers(ts, unyun, exts, vars0, funcs0) ==
    LET parentinit == \E k \in DOMAIN exts : ts[exts[k]].hasinit
        parentterm == \E k \in DOMAIN exts : ts[exts[k]].hasterm
        hasctor == Has(funcs0, "__ctor")
        hasdtor == Has(funcs0, "__dtor")
        hasterm == hasdtor \/ parentterm
        funcs1 == IF hasterm THEN Append(funcs0, TermFunc) ELSE funcs0
        hasvt == Virtuals(funcs1) # << >>
        vars == IF hasvt THEN <<VTablePtr>> \o vars0 ELSE vars0
        hasinit == hasctor \/ hasvt \/ parentinit
        funcs == IF hasinit THEN Append(funcs1, InitFunc) ELSE funcs1
        items == Items(ts, exts, vars)
        offs == OffsetsOf(items, unyun)
        extoffs == getExtOffsets(items, Len(vars), Len(exts), unyun)
        subs == Subs(ts, exts, extoffs)
        vtsubs == VTSubs(ts, exts, funcs)
        Find(name) == LET own == OwnMember(Len(ts) + 1, vars, offs, funcs, name) IN
                      IF own # NotFound THEN own ELSE ParentsMember(ts, exts, offs, Len(vars), 0, name)
    IN  [unyun |-> unyun, exts |-> exts, vars |-> vars, funcs |-> funcs,
         hasctor |-> hasctor, hasdtor |-> hasdtor, hasterm |-> hasterm, hasvt |-> hasvt, hasinit |-> hasinit,
         align |-> getTypeAlign(items), size |-> getTypeSize(items, unyun),
         offs |-> offs, extoffs |-> extoffs, subs |-> subs, vtsubs |-> vtsubs,
         nummembers |-> Len(vars) + MembersOf(ts, exts),
         found |-> [name \in Findable(ts, exts, vars, funcs) |-> Find(name)],
         byindex |-> ByIndex(ts, exts, vars, unyun),
         labels |-> Labels(ts, exts, vars, funcs, unyun, hasvt),
         vt |-> fillvtableinit(ts, exts, funcs),
         inits |-> genInitFunc(ts, exts, subs, vtsubs, hasvt, hasctor),
         terms |-> genTermFunc(ts, exts, subs, hasdtor),
         abstract |-> PureIn(funcs) # {} \/ ParentAbstract(ts, exts, funcs),
         parentabstract |-> ParentAbstract(ts, exts, funcs)]

(* What the rest of the compiler accepts: structs are extended, and the    *)
(* __init that calls a parent's has a vtablep to pass and the parent's one *)
(* to receive it in. *)
Accepted(ts, t) ==
    \A k \in DOMAIN t.exts :
        LET e == ts[t.exts[k]] IN ~e.unyun /\ (e.hasinit => t.hasvt /\ e.hasvt)

Declare ==
    /\ Len(types) < MaxTypes
    /\ \E b \in Bodies, exts \in ParentLists :
        /\ \A k \in DOMAIN exts : exts[k] \in DOMAIN types
        /\ LET t == setMembers(types, b.unyun, exts, b.vars, b.funcs) IN
           /\ Accepted(types, t)
           /\ types' = Append(types, t)

StructsInit == types = << >>
StructsSpec == StructsInit /\ [][Declare]_types

------------------------------------------------------------------------------
(* An object at 0 that new has made of type t, and a call of its function  *)
(* name by a pointer to its part sub: lookupvirtualfunction reads the      *)
(* vtable pointer of the struct that declares the function.                *)

VTableAt(ts, t, off) ==
    LET stored == {i \in DOMAIN ts[t].inits : ts[t].inits[i].do = "vtableptr" /\ ts[t].inits[i].off = off}
    IN  ts[t].inits[Max(stored)].voff
Slot(ts, t, name) == Min(Named(Virtuals(ts[t].funcs), name))
Called(ts, t, sub, name) ==
    LET m == ts[sub.type].found[name].struct
        this == sub.off + CastOffset(ts, sub.type, m)
        entry == ts[t].vt[VTableAt(ts, t, this) \div PtrSize + Slot(ts, m, name)]
    IN  IF entry.by = 0 THEN [type |-> entry.enc, off |-> this]
        ELSE [type |-> entry.by, off |-> Backed(ts, entry, this)]

(* parseinitexpr: the members, by index, that a list of initialisers is    *)
(* for; each is .name = ... or follows the one before it.                  *)
Indexes(ts, t, inits) ==
    LET index[i \in 0 .. Len(inits)] ==
            IF i = 0 THEN -1
            ELSE IF inits[i] = NoName THEN index[i - 1] + 1
            ELSE ts[t].found[inits[i]].index
    IN  [i \in DOMAIN inits |-> index[i]]
MayInitialise(ts, t, inits) ==
    /\ \A i \in DOMAIN inits :
        inits[i] # NoName => inits[i] \in DOMAIN ts[t].found /\ ts[t].found[inits[i]].kind = "var"
    /\ \A i \in DOMAIN inits : Indexes(ts, t, inits)[i] < Len(ts[t].byindex)
    /\ IsInjective(Indexes(ts, t, inits))

(* StructInitExpr::outputStaticInit: what is put out next is the lowest    *)
(* member or vtable pointer that is not before what has been put out.      *)
outputStaticInit(ts, t, inits) ==
    LET at == Indexes(ts, t, inits)
        Member(i) == ts[t].byindex[at[i] + 1]
        labels == ts[t].labels.list
        From(off) == {i \in DOMAIN inits : Member(i).off >= off}
        Lowest(off) == CHOOSE i \in From(off) : \A j \in From(off) : Member(i).off <= Member(j).off
        Before(off) == {l \in DOMAIN labels : /\ labels[l].off >= off
                                              /\ From(off) # {} => labels[l].off < Member(Lowest(off)).off}
        out[off \in Nat] ==
            IF Before(off) # {}
            THEN LET l == labels[Min(Before(off))] IN
                 <<[off |-> l.off, what |-> "vtable", of |-> l.voff]>> \o out[l.off + PtrSize]
            ELSE IF From(off) = {} THEN << >>
            ELSE LET i == Lowest(off) IN
                 <<[off |-> Member(i).off, what |-> "value", of |-> i]>> \o out[Member(i).off + Member(i).size]
    IN  out[0]

------------------------------------------------------------------------------
(* Correctness. *)

Struct(t) == t \in DOMAIN types /\ ~types[t].unyun
OnceEach(t) == \A i, j \in DOMAIN types[t].subs : types[t].subs[i].type = types[t].subs[j].type => i = j
PlaceOf(t, s) == CastOffset(types, t, s)

(* The bytes of every variable of the object, in whichever part it is. *)
Fields(t) ==
    UNION {{[type |-> sub.type, off |-> sub.off + types[sub.type].offs[i],
             size |-> types[sub.type].vars[i].size, align |-> types[sub.type].vars[i].align] :
                i \in DOMAIN types[sub.type].vars} : sub \in Range(types[t].subs)}

(* Every variable of a struct and of all it extends has bytes of its own,  *)
(* aligned and inside the object, and a name means the same variable by    *)
(* whichever of the compiler's searches it is looked for: getMemberByName  *)
(* finds it in the part that isLeafwardOf casts to, and among the variables *)
(* of all parts no two have the same index.  A parent must begin where what *)
(* is before it ends: after an odd number of bytes getExtOffset is a byte   *)
(* before the word that getMemberByName begins a parent of words at.        *)
InPlace(t) ==
    \A s \in {types[t].subs[i].type : i \in DOMAIN types[t].subs} : \A k \in DOMAIN types[s].exts :
        types[s].extoffs[k] % types[types[s].exts[k]].align = 0
Apart(f, h) == f = h \/ f.off + f.size <= h.off \/ h.off + h.size <= f.off
MembersApart ==
    \A t \in DOMAIN types : Struct(t) /\ InPlace(t) =>
        /\ types[t].size % types[t].align = 0
        /\ \A f \in Fields(t) : /\ f.off % f.align = 0
                                 /\ f.off + f.size <= types[t].size
                                 /\ \A h \in Fields(t) : Apart(f, h)
NamesFindMembers ==
    \A t \in DOMAIN types : Struct(t) =>
        LET found == types[t].found
            vars == {name \in DOMAIN found : found[name].kind = "var"} IN
        /\ \A name \in vars :
            LET s == found[name].struct
                own == getMemberByName(types, s, 0, name) IN
            OnceEach(t) /\ InPlace(t) => found[name].off = PlaceOf(t, s) + own.off
        /\ \A name1, name2 \in vars : found[name1].index = found[name2].index => name1 = name2
        /\ \A name \in vars : found[name].index < types[t].nummembers

(* A static struct that is initialised by the names of its members has     *)
(* each value where a reader looks for the member and, in every part, the  *)
(* vtable pointer that __init stores; for a struct that extends none, or   *)
(* an empty initialiser where no parent is of single bytes. *)
WordAligned(t) == \A i \in 2 .. Len(types[t].subs) : types[types[t].subs[i].type].align = PtrSize
StaticsRight ==
    \A t \in DOMAIN types, inits \in Initialisers :
        LET named == \A i \in DOMAIN inits : inits[i] # NoName
            known == types[t].exts = << >> \/ (inits = << >> /\ WordAligned(t) /\ InPlace(t) /\ OnceEach(t)) IN
        Struct(t) /\ named /\ known /\ MayInitialise(types, t, inits) =>
            LET out == Range(outputStaticInit(types, t, inits)) IN
            out = {[off |-> types[t].found[inits[i]].off, what |-> "value", of |-> i] : i \in DOMAIN inits}
                  \cup {[off |-> step.off, what |-> "vtable", of |-> step.voff] :
                           step \in {step \in Range(types[t].inits) : step.do = "vtableptr"}}

LayoutRight == MembersApart /\ NamesFindMembers /\ StaticsRight

(* An object that new makes has in every part the vtable pointer of the    *)
(* part's own functions, and every constructor is called once, on its part, *)
(* after those of the parents and with the pointer in place; delete calls  *)
(* every destructor once.                                                  *)
Steps(t, do, sub) == {i \in DOMAIN types[t].inits : /\ types[t].inits[i].do = do
                                                    /\ types[t].inits[i].type = sub.type
                                                    /\ types[t].inits[i].off = sub.off}
Terms(t, sub) == {i \in DOMAIN types[t].terms : types[t].terms[i] = sub}
Once(set, if) == Cardinality(set) = IF if THEN 1 ELSE 0
ObjectsMade ==
    \A t \in DOMAIN types : Struct(t) /\ OnceEach(t) =>
        \A n \in DOMAIN types[t].subs :
            LET sub == types[t].subs[n]
                s == types[sub.type] IN
            /\ Once(Steps(t, "vtableptr", sub), s.hasvt)
            /\ Once(Steps(t, "__ctor", sub), s.hasctor)
            /\ Once(Terms(t, sub), s.hasdtor)
            /\ \A i \in Steps(t, "__ctor", sub), j \in Steps(t, "vtableptr", sub) : j < i
            /\ s.hasvt =>
                \A i \in DOMAIN Virtuals(s.funcs) :
                    LET entry == types[t].vt[VTableAt(types, t, sub.off) \div PtrSize + i] IN
                    entry.enc = sub.type /\ entry.name = Virtuals(s.funcs)[i].name
            /\ \A k \in DOMAIN s.exts :
                LET parent == [type |-> s.exts[k], off |-> sub.off + s.extoffs[k]] IN
                \A i \in Steps(t, "__ctor", sub), j \in Steps(t, "__ctor", parent) : j < i

(* A virtual function called by a pointer to any part of an object is that *)
(* of the leafmost struct that overrides it, with this pointing to that    *)
(* struct's part: also delete's call of __term, that returns what is to be *)
(* freed.  This is so of an object whose vtable the linker resolves, where *)
(* only a child of the part's own struct overrides it and no entry point   *)
(* has far to go. *)
Overriders(t, s, f) ==
    {c \in {sub.type : sub \in Range(types[t].subs)} \ {s} :
        /\ isLeafwardOf(types, c, s)
        /\ \E i \in DOMAIN types[c].funcs :
            LET g == types[c].funcs[i] IN g.name = f.name /\ g.sig = f.sig /\ g.stor = "virtual"}
Links(t) == \A i \in DOMAIN types[t].vt : HasLabel(types, types[t].vt[i])
NearBy(t) == \A s \in DOMAIN types : \A k \in DOMAIN types[s].extoffs : - types[s].extoffs[k] >= LSOFFMIN
CallsReach ==
    \A t \in DOMAIN types : Struct(t) /\ OnceEach(t) /\ ~types[t].abstract /\ Links(t) /\ NearBy(t) =>
        \A n \in DOMAIN types[t].subs :
            LET sub == types[t].subs[n]
                own == Virtuals(types[sub.type].funcs) IN
            \A i \in DOMAIN own :
                LET over == Overriders(t, sub.type, own[i])
                    call == Called(types, t, sub, own[i].name) IN
                /\ over = {} => call = sub
                /\ \A c \in over :
                    over = {c} /\ sub.type \in Range(types[c].exts) => call = [type |-> c, off |-> PlaceOf(t, c)]

DispatchRight == ObjectsMade /\ CallsReach

(* Where everything is and what becomes of it. *)
StructsRight == LayoutRight /\ DispatchRight

(* What structtype.cc says at the top of three structs that each extend the *)
(* one before and override its function: the leafmost one's is called. *)
LeafmostCalled ==
    \A t \in DOMAIN types : Struct(t) /\ OnceEach(t) /\ ~types[t].abstract /\ Links(t) /\ NearBy(t) =>
        \A n \in DOMAIN types[t].subs :
            LET sub == types[t].subs[n]
                own == Virtuals(types[sub.type].funcs) IN
            \A i \in DOMAIN own :
                t \in Overriders(t, sub.type, own[i]) =>
                    Called(types, t, sub, own[i].name) = [type |-> t, off |-> 0]
================================================================================
