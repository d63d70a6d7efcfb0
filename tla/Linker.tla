-------------------------------- MODULE Linker --------------------------------
(***************************************************************************)
(* asm/link.c.  An object file is a sequence of lines: a psect, a symbol   *)
(* that is defined, data to be placed.  The files are read three times:    *)
(* for psects and symbols, for the files that must be loaded (until none   *)
(* is added), and to write the output; in between psects get addresses.    *)
(*                                                                         *)
(* Psects are numbered in the order of their names; 0 is no psect, an      *)
(* absolute value.  A line of data is a word to be relocated or one that   *)
(* is copied.                                                              *)
(***************************************************************************)
EXTENDS HodeWords, Sequences

CONSTANTS
    Psects,         \* numbers above 0
    Symbols,
    BootSym,        \* __boot
    ObjectLists     \* what the command line may name

NoPsect == 0
NoSym == "none"

(* The lines of an object file: asm/assemble.c writes no others, and one for
   each psect (link.c:369 asserts it). *)
PsectLines == [kind : {"psect"}, psect : Psects, size : Word, p2al : 0 .. 3, ovr : BOOLEAN]
SymbolLines == [kind : {"symbol"}, name : Symbols, value : Word, psect : Psects \cup {NoPsect}]
WordLines == [kind : {"word"}, at : Word, psect : Psects \cup {NoPsect}, value : Word,
              rel : Psects \cup {NoPsect}, sym : Symbols \cup {NoSym}]
ByteLines == [kind : {"bytes"}, at : Word, psect : Psects \cup {NoPsect}, bytes : Seq(0 .. 255)]
Lines == PsectLines \cup SymbolLines \cup WordLines \cup ByteLines

PsectsOnce(ls) ==
    \A i, j \in 1 .. Len(ls) :
        ls[i].kind = "psect" /\ ls[j].kind = "psect" /\ ls[i].psect = ls[j].psect => i = j

Declares(ls, p) == \E i \in 1 .. Len(ls) : ls[i].kind = "psect" /\ ls[i].psect = p

Objects == [ifrefd : BOOLEAN, lines : {ls \in Seq(Lines) : PsectsOnce(ls)}]

ASSUME LinkerAssumption ==
    /\ Psects \subseteq Nat \ {NoPsect}
    /\ NoSym \notin Symbols /\ BootSym \in Symbols
    /\ ObjectLists \subseteq Seq(Objects)

VARIABLES
    objfiles,       \* the files in the order of the command line
    passno,         \* "pass1", "pass2", "assign", "place", "pass3"; "done", "stopped"
    file, line,     \* where the pass is
    ifrefd,         \* by file: load it only if it is referenced
    repeatpass2,
    error,
    objpsects,      \* by file and psect: size, alignment and offset in the psect
    allpsects,      \* by psect: size, alignment, flag and address
    allsymbols,     \* by name: value, psect and file of the first definition
    base, placed,   \* the next free address, the psects that have theirs
    output,         \* what has been written: address, value
    carried         \* history: sizes and alignments did not fit 16 bits

linkVars == <<objfiles, passno, file, line, ifrefd, repeatpass2, error, objpsects,
              allpsects, allsymbols, base, placed, output, carried>>

Files == 1 .. Len(objfiles)
Line == objfiles[file].lines[line]
Read(f) == passno = "pass1" \/ ~ifrefd[f]     \* the pass looks at the file at all
InFile == file \in Files /\ Read(file) /\ line <= Len(objfiles[file].lines)
AtLine(kind) == InFile /\ Line.kind = kind
Loaded == {f \in Files : ~ifrefd[f]}

(* 1U << p2al *)
Alignment(p2al) == <<1, 2, 4, 8>>[p2al + 1]

(* (n + alin - 1) & - alin *)
RoundUp(n, alin) == AndW((n + alin - 1) % WordSize, (WordSize - alin) % WordSize)

With(f, x, v) == [y \in DOMAIN f \cup {x} |-> IF y = x THEN v ELSE f[y]]

(* Where a part of a psect begins, and the value of a symbol. *)
PartBase(f, p) == objpsects[<<f, p>>].base + allpsects[p].base
Relocated(f, p, v) ==
    IF p # NoPsect /\ <<f, p>> \in DOMAIN objpsects THEN (v + PartBase(f, p)) % WordSize ELSE v
getsymval(s) ==
    Relocated(allsymbols[s].file, allsymbols[s].psect, allsymbols[s].value)

(* A psect named in a value is one of the same file. *)
BadPsect(p) == p # NoPsect /\ <<file, p>> \notin DOMAIN objpsects
-----------------------------------------------------------------------------
LinkInit ==
    /\ objfiles \in ObjectLists
    /\ passno = "pass1" /\ file = 1 /\ line = 1
    /\ ifrefd = [f \in Files |-> objfiles[f].ifrefd]
    /\ repeatpass2 = FALSE /\ error = FALSE
    /\ objpsects = << >> /\ allpsects = << >> /\ allsymbols = << >>
    /\ base = 0 /\ placed = {} /\ output = {} /\ carried = FALSE

(* Pass 1.  The alignment of a new psect is the exponent, as read. *)
PsectLine ==
    /\ passno = "pass1" /\ AtLine("psect")
    /\ LET p == Line.psect
       IN  /\ objpsects' = With(objpsects, <<file, p>>,
                  [size |-> Line.size, alin |-> Alignment(Line.p2al), base |-> 0])
           /\ allpsects' = With(allpsects, p,
                  IF p \in DOMAIN allpsects
                  THEN [allpsects[p] EXCEPT !.ovr = @ \/ Line.ovr]
                  ELSE [base |-> 0, size |-> 0, alin |-> Line.p2al, ovr |-> Line.ovr])
    /\ line' = line + 1
    /\ UNCHANGED <<objfiles, passno, file, ifrefd, repeatpass2, error, allsymbols, base,
                   output, placed, carried>>

(* The first definition counts.  Another is an error unless it is the same; to
   find out, the psects of both are looked at, which ends the program if one
   of them is NULL. *)
SameSymbol(s) == s.psect = Line.psect /\ s.value = Line.value

SymbolLine ==
    /\ passno = "pass1" /\ AtLine("symbol")
    /\ LET s == Line.name
           absolute(p) == p = NoPsect \/ BadPsect(p)
       IN  IF s \in DOMAIN allsymbols
           THEN /\ allsymbols' = allsymbols
                /\ passno' = IF /\ allsymbols[s].value = Line.value
                                /\ absolute(Line.psect) \/ allsymbols[s].psect = NoPsect
                             THEN "stopped" ELSE passno
                /\ error' = (error \/ BadPsect(Line.psect) \/ ~SameSymbol(allsymbols[s]))
           ELSE /\ allsymbols' = With(allsymbols, s,
                       [value |-> Line.value, file |-> file,
                        psect |-> IF BadPsect(Line.psect) THEN NoPsect ELSE Line.psect])
                /\ error' = (error \/ BadPsect(Line.psect))
                /\ passno' = passno
    /\ line' = line + 1
    /\ UNCHANGED <<objfiles, file, ifrefd, repeatpass2, objpsects, allpsects, base, output,
                   placed, carried>>

(* Pass 2: a symbol that is referenced has the file that defines it loaded.
   Mutant: files that were passed already are not gone through again. *)
Again_later(f) == repeatpass2 \/ (ifrefd[f] /\ f > file)
Again(f) == repeatpass2 \/ ifrefd[f]

WordLine2 ==
    /\ passno = "pass2" /\ AtLine("word")
    /\ LET s == Line.sym
           known == s \in DOMAIN allsymbols
           missing == s # NoSym /\ ~known
       IN  /\ error' = (error \/ BadPsect(Line.psect) \/ BadPsect(Line.rel) \/ missing)
           /\ IF known
              THEN /\ ifrefd' = [ifrefd EXCEPT ![allsymbols[s].file] = FALSE]
                   /\ repeatpass2' = Again(allsymbols[s].file)
              ELSE UNCHANGED <<ifrefd, repeatpass2>>
    /\ line' = line + 1
    /\ UNCHANGED <<objfiles, passno, file, objpsects, allpsects, allsymbols, base, output,
                   placed, carried>>

ByteLine2 ==
    /\ passno = "pass2" /\ AtLine("bytes")
    /\ error' = (error \/ BadPsect(Line.psect))
    /\ line' = line + 1
    /\ UNCHANGED <<objfiles, passno, file, ifrefd, repeatpass2, objpsects, allpsects,
                   allsymbols, base, output, placed, carried>>

(* Pass 3: the data are written to where they belong, low byte first. *)
LinkedWord ==
    LET v == Relocated(file, Line.rel, Line.value)
    IN  IF Line.sym \in DOMAIN allsymbols THEN (v + getsymval(Line.sym)) % WordSize ELSE v

DataLine3 ==
    /\ passno = "pass3"
    /\ AtLine("word") \/ AtLine("bytes")
    /\ LET at == Relocated(file, Line.psect, Line.at)
           bytes == IF Line.kind = "bytes" THEN Line.bytes
                    ELSE <<LinkedWord % 256, LinkedWord \div 256>>
       IN  output' = output \cup {<<at, bytes>>}
    /\ line' = line + 1
    /\ UNCHANGED <<objfiles, passno, file, ifrefd, repeatpass2, error, objpsects, allpsects,
                   allsymbols, base, placed, carried>>

(* A part of a psect gets its place behind those of the files before, or, in a
   psect with OVR, at the beginning.  Mutant: without its alignment. *)
PartAt_any(p, f) == allpsects[p].size
PartAt(p, f) == RoundUp(allpsects[p].size, objpsects[<<f, p>>].alin)

AssignLine ==
    /\ passno = "assign" /\ AtLine("psect")
    /\ LET p == Line.psect
           part == objpsects[<<file, p>>]
           at == IF allpsects[p].ovr THEN 0 ELSE PartAt(p, file)
           end == IF allpsects[p].ovr /\ allpsects[p].size >= part.size
                  THEN allpsects[p].size ELSE at + part.size
       IN  /\ objpsects' = [objpsects EXCEPT ![<<file, p>>].base = at % WordSize]
           /\ allpsects' = [allpsects EXCEPT
                  ![p].alin = IF @ < part.alin THEN part.alin ELSE @,
                  ![p].size = end % WordSize]
           /\ carried' = (carried \/ allpsects[p].size + part.alin + part.size > WordSize)
    /\ line' = line + 1
    /\ UNCHANGED <<objfiles, passno, file, ifrefd, repeatpass2, error, allsymbols, base, placed, output>>

(* Other lines of a pass; the end of a file; files that are not loaded.  In
   the code the parts are in a list, the last one first. *)
HasWork(kind) ==
    CASE passno = "pass1" -> kind \in {"psect", "symbol"}
      [] passno \in {"pass2", "pass3"} -> kind \in {"word", "bytes"}
      [] passno = "assign" -> kind = "psect"
      [] OTHER -> FALSE

Scanning == passno \in {"pass1", "pass2", "pass3", "assign"}

OtherLine ==
    /\ Scanning /\ InFile /\ ~HasWork(Line.kind)
    /\ line' = line + 1
    /\ UNCHANGED <<objfiles, passno, file, ifrefd, repeatpass2, error, objpsects, allpsects,
                   allsymbols, base, output, placed, carried>>

EndOfFile ==
    /\ Scanning /\ file \in Files /\ ~InFile
    /\ file' = file + 1 /\ line' = 1
    /\ UNCHANGED <<objfiles, passno, ifrefd, repeatpass2, error, objpsects, allpsects,
                   allsymbols, base, output, placed, carried>>

(* Pass 1 ends with the file that has __boot being loaded; pass 2 is repeated
   until it has no file loaded; pass 3 is left out after an error. *)
Rewind == file' = 1 /\ line' = 1

EndOfPass ==
    /\ Scanning /\ file > Len(objfiles)
    /\ Rewind
    /\ \/ /\ passno = "pass1"
          /\ IF BootSym \in DOMAIN allsymbols
             THEN ifrefd' = [ifrefd EXCEPT ![allsymbols[BootSym].file] = FALSE] /\ error' = error
             ELSE error' = TRUE /\ ifrefd' = ifrefd
          /\ passno' = "pass2"
       \/ passno = "pass2" /\ passno' = (IF repeatpass2 THEN "pass2" ELSE "assign") /\ UNCHANGED <<ifrefd, error>>
       \/ passno = "assign" /\ passno' = "place" /\ UNCHANGED <<ifrefd, error>>
       \/ passno = "pass3" /\ passno' = "done" /\ UNCHANGED <<ifrefd, error>>
    /\ repeatpass2' = FALSE
    /\ UNCHANGED <<objfiles, objpsects, allpsects, allsymbols, base, output, placed, carried>>

(* The psects follow each other in the order of their names.  One whose
   alignment is zero goes to address 0. *)
PlaceAt(p) == RoundUp(base, allpsects[p].alin)

Place ==
    /\ passno = "place"
    /\ \E p \in DOMAIN allpsects \ placed :
        /\ \A o \in DOMAIN allpsects \ placed : p <= o
        /\ allpsects' = [allpsects EXCEPT ![p].base = PlaceAt(p)]
        /\ base' = (PlaceAt(p) + allpsects[p].size) % WordSize
        /\ carried' = (carried \/ base + allpsects[p].alin + allpsects[p].size > WordSize)
        /\ placed' = placed \cup {p}
    /\ UNCHANGED <<objfiles, passno, file, line, ifrefd, repeatpass2, error, objpsects,
                   allsymbols, output>>

AllPlaced ==
    /\ passno = "place" /\ DOMAIN allpsects \subseteq placed
    /\ passno' = IF error THEN "stopped" ELSE "pass3"
    /\ UNCHANGED <<objfiles, file, line, ifrefd, repeatpass2, error, objpsects, allpsects,
                   allsymbols, base, placed, output, carried>>

LinkNext ==
    PsectLine \/ SymbolLine \/ WordLine2 \/ ByteLine2 \/ DataLine3 \/ AssignLine
    \/ OtherLine \/ EndOfFile \/ EndOfPass \/ Place \/ AllPlaced

LinkSpec == LinkInit /\ [][LinkNext]_linkVars
-----------------------------------------------------------------------------
(* The files a file needs: those that define what it refers to. *)
Definer(s) == allsymbols[s].file
Needs(f) ==
    {Definer(s) : s \in {n \in DOMAIN allsymbols : \E i \in 1 .. Len(objfiles[f].lines) :
        objfiles[f].lines[i].kind = "word" /\ objfiles[f].lines[i].sym = n}}

Roots == {f \in Files : ~objfiles[f].ifrefd}
         \cup {Definer(s) : s \in DOMAIN allsymbols \cap {BootSym}}

Complete(S) == Roots \subseteq S /\ \A f \in S : Needs(f) \subseteq S

(* What is loaded is the smallest set of files that has those of the command
   line and the one of __boot and in which nothing that a file refers to is
   missing, whatever the order of the archives and members (link.c:148-163). *)
LoadsWhatIsNeeded ==
    passno \in {"assign", "place", "pass3", "done"} =>
        /\ Complete(Loaded)
        /\ \A S \in SUBSET Files : Complete(S) => Loaded \subseteq S

(* The parts of psects, and where each has its first byte. *)
Parts == {fp \in DOMAIN objpsects : fp[1] \in Loaded}
First(fp) == PartBase(fp[1], fp[2])

(* The alignment of each psect is that of one of its parts, as it is unless no
   part has one as large as the exponent that was taken for the alignment. *)
Raised ==
    \A p \in DOMAIN allpsects : \E x \in Parts : x[2] = p /\ objpsects[x].alin = allpsects[p].alin

(* No two parts of psects share a byte, except those of one psect with OVR,
   which begin at the same place; each is aligned as its file asks
   (link.c:165-218).  Left out: more than 64K, of which the linker says
   nothing, and psects whose alignment is the exponent of one: with zero, of a
   psect that is loaded nowhere, addresses begin at 0 again. *)
PlacesApart ==
    passno \in {"pass3", "done"} /\ ~carried /\ Raised =>
        /\ \A x, y \in Parts : x # y =>
            \/ First(x) + objpsects[x].size <= First(y)
            \/ First(y) + objpsects[y].size <= First(x)
            \/ x[2] = y[2] /\ allpsects[x[2]].ovr /\ First(x) = First(y)
        /\ \A x \in Parts : First(x) % objpsects[x].alin = 0

(* Both together: what is loaded, and where it is. *)
LinksRight == LoadsWhatIsNeeded /\ PlacesApart
=============================================================================
