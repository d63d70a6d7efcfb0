----------------------------- MODULE Linker_proofs -----------------------------
(***************************************************************************)
(* What the linker loads and where it puts it, for any object files.       *)
(*                                                                         *)
(* Pass 2 goes through the files until one time none has another loaded.   *)
(* While that may be so, every reference that this time has been passed,   *)
(* in a file that is loaded, is to a file that is loaded.  No file is      *)
(* loaded but for a reference, so every set of files that has what it      *)
(* needs has all that are loaded.                                          *)
(***************************************************************************)
EXTENDS Linker, Words_proofs, TLAPS

Given == objfiles \in Seq(Objects)

(* The names that have been defined are defined by one of the files. *)
Known == \A s \in DOMAIN allsymbols : allsymbols[s].file \in Files

LinkTypes ==
    /\ Given /\ Known
    /\ file \in Nat \ {0} /\ line \in Nat \ {0}
    /\ ifrefd \in [Files -> BOOLEAN]

(* What pass 1 has not looked at is as the command line says. *)
AsGiven == passno = "pass1" => \A f \in Files : ifrefd[f] = objfiles[f].ifrefd

Linking == passno \in {"pass2", "assign", "place", "pass3", "done"}

Least == \A S \in SUBSET Files : Complete(S) => Loaded \subseteq S

(* A word of file f refers to s. *)
Refers(f, i, s) ==
    /\ i \in 1 .. Len(objfiles[f].lines)
    /\ objfiles[f].lines[i].kind = "word" /\ objfiles[f].lines[i].sym = s

Passed(f, i) == f < file \/ (f = file /\ i < line)

(* As long as nothing new has been loaded, all that was passed is there. *)
Followed ==
    passno = "pass2" /\ ~repeatpass2 =>
        \A f \in Loaded : \A i \in Nat : \A s \in DOMAIN allsymbols :
            Passed(f, i) /\ Refers(f, i, s) => Definer(s) \in Loaded

Closed ==
    passno \in {"assign", "place", "pass3", "done"} =>
        \A f \in Loaded : Needs(f) \subseteq Loaded

LoadInv ==
    /\ LinkTypes /\ AsGiven /\ Followed /\ Closed
    /\ Linking => Roots \subseteq Loaded /\ Least
-----------------------------------------------------------------------------
LEMMA LoadInit == LinkInit => LoadInv
<1> SUFFICES ASSUME LinkInit PROVE LoadInv
  OBVIOUS
<1>1. Given
  BY LinkerAssumption DEF Given, LinkInit
<1>2. \A f \in Files : objfiles[f].ifrefd \in BOOLEAN
  <2>1. \A o \in Objects : o.ifrefd \in BOOLEAN
    BY DEF Objects
  <2>2. \A f \in Files : objfiles[f] \in Objects
    BY <1>1 DEF Given, Files
  <2>3. QED
    BY <2>1, <2>2
<1>3. LinkTypes /\ AsGiven
  BY <1>1, <1>2 DEF LinkTypes, AsGiven, Known, LinkInit
<1>4. QED
  BY <1>3 DEF LoadInv, LinkInit, Followed, Closed, Linking

(* What a step leaves alone when it loads no file and defines no symbol. *)
Same ==
    /\ objfiles' = objfiles /\ ifrefd' = ifrefd /\ allsymbols' = allsymbols

LEMMA SameNeeds ==
  ASSUME objfiles' = objfiles, allsymbols' = allsymbols
  PROVE  /\ Files' = Files /\ Roots' = Roots
         /\ \A S : Complete(S)' <=> Complete(S)
         /\ \A f : Needs(f)' = Needs(f)
         /\ \A s : Definer(s)' = Definer(s)
         /\ \A f, i, s : Refers(f, i, s)' <=> Refers(f, i, s)
<1>1. Files' = Files
  BY DEF Files
<1>2. \A s : Definer(s)' = Definer(s)
  BY DEF Definer
<1>3. \A f : Needs(f)' = Needs(f)
  BY <1>2 DEF Needs
<1>4. Roots' = Roots
  BY <1>1, <1>2 DEF Roots
<1>5. \A S : Complete(S)' <=> Complete(S)
  BY <1>3, <1>4 DEF Complete
<1>6. QED
  BY <1>1, <1>2, <1>3, <1>4, <1>5 DEF Refers

(* Whoever needs what it has needs the definer of what a file of its refers to. *)
LEMMA ReferredIsNeeded ==
  ASSUME NEW f, NEW i, NEW s \in DOMAIN allsymbols, Refers(f, i, s)
  PROVE  Definer(s) \in Needs(f)
  BY DEF Refers, Needs

LEMMA NeededIsReferred ==
  ASSUME NEW f, NEW d \in Needs(f)
  PROVE  \E i \in Nat : \E s \in DOMAIN allsymbols : Refers(f, i, s) /\ Definer(s) = d
<1>1. PICK s \in DOMAIN allsymbols : d = Definer(s) /\ \E i \in 1 .. Len(objfiles[f].lines) :
          objfiles[f].lines[i].kind = "word" /\ objfiles[f].lines[i].sym = s
  BY DEF Needs
<1>2. PICK i \in 1 .. Len(objfiles[f].lines) :
          objfiles[f].lines[i].kind = "word" /\ objfiles[f].lines[i].sym = s
  BY <1>1
<1>3. QED
  BY <1>1, <1>2 DEF Refers

-----------------------------------------------------------------------------
LEMMA SamePassed ==
  ASSUME LinkTypes, Followed, Same, passno' = passno, repeatpass2' = repeatpass2,
         \A f \in Loaded : \A i \in Nat : \A s :
             passno = "pass2" /\ Passed(f, i)' /\ Refers(f, i, s) => Passed(f, i)
  PROVE  Followed'
<1>1. Loaded' = Loaded
  BY DEF Same, Loaded, Files
<1>2. \A f, i, s : Refers(f, i, s)' <=> Refers(f, i, s)
  BY SameNeeds DEF Same
<1>3. \A s : Definer(s)' = Definer(s)
  BY SameNeeds DEF Same
<1>4. QED
  BY <1>1, <1>2, <1>3 DEF Followed, Same

LEMMA SameClosed ==
  ASSUME Closed, Same, passno' = passno \/ passno = "place" \/ passno = "assign" \/ passno = "pass3"
  PROVE  Closed'
<1>1. Loaded' = Loaded
  BY DEF Same, Loaded, Files
<1>2. \A f : Needs(f)' = Needs(f)
  BY SameNeeds DEF Same
<1>3. QED
  BY <1>1, <1>2 DEF Closed

(* A step that loads no file keeps what is loaded the least that is complete. *)
LEMMA SameLoaded ==
  ASSUME LoadInv, Same, file' \in Nat \ {0}, line' \in Nat \ {0},
         passno' = "pass1" => passno = "pass1", Linking' => Linking,
         Followed', Closed'
  PROVE  LoadInv'
<1>1. Loaded' = Loaded /\ Files' = Files
  BY DEF Same, Loaded, Files
<1>2. LinkTypes'
  BY <1>1 DEF LoadInv, LinkTypes, Given, Known, Same
<1>3. AsGiven'
  BY <1>1 DEF LoadInv, AsGiven, Same
<1>4. Roots' = Roots /\ (Least' <=> Least)
  BY <1>1, SameNeeds DEF Same, Least
<1>5. QED
  BY <1>1, <1>2, <1>3, <1>4 DEF LoadInv

LEMMA LoadQuiet ==
  ASSUME LoadInv,
         PsectLine \/ ByteLine2 \/ DataLine3 \/ AssignLine \/ OtherLine \/ EndOfFile
         \/ Place \/ AllPlaced \/ UNCHANGED linkVars
  PROVE  LoadInv'
<1>1. /\ Same /\ repeatpass2' = repeatpass2
      /\ file' \in Nat \ {0} /\ line' \in Nat \ {0}
      /\ passno' = passno \/ (AllPlaced /\ passno' \in {"pass3", "stopped"})
  BY DEF LoadInv, LinkTypes, Same, PsectLine, ByteLine2, DataLine3, AssignLine, OtherLine,
         EndOfFile, Place, AllPlaced, linkVars
<1>2. AllPlaced => passno = "place"
  BY DEF AllPlaced
<1>3. Followed'
  <2>1. CASE passno = "pass2"
    <3>1. \/ ByteLine2
          \/ OtherLine
          \/ EndOfFile
          \/ UNCHANGED linkVars
      BY <2>1 DEF PsectLine, DataLine3, AssignLine, Place, AllPlaced
    <3>2. CASE ByteLine2 \/ OtherLine
      <4>1. /\ Line.kind # "word" /\ line' = line + 1 /\ file' = file
            /\ file \in Nat \ {0} /\ line \in Nat \ {0}
        BY <2>1, <3>2 DEF ByteLine2, OtherLine, AtLine, HasWork, LoadInv, LinkTypes
      <4>2. \A s : ~Refers(file, line, s)
        BY <4>1 DEF Refers, Line
      <4>3. ASSUME NEW f \in Loaded, NEW i \in Nat, NEW s, Passed(f, i)', Refers(f, i, s)
            PROVE  Passed(f, i)
        BY <4>1, <4>2, <4>3 DEF Passed, Loaded, Files
      <4>4. QED
        BY <1>1, <2>1, <4>3, SamePassed, <1>2 DEF LoadInv
    <3>3. CASE EndOfFile
      <4>1. /\ file' = file + 1 /\ line' = 1 /\ file \in Files /\ ~InFile
            /\ file \in Nat \ {0} /\ line \in Nat \ {0}
        BY <3>3 DEF EndOfFile, LoadInv, LinkTypes
      <4>2. file \in Loaded => line > Len(objfiles[file].lines)
        BY <2>1, <4>1 DEF InFile, Read, Loaded
      <4>3. ASSUME NEW f \in Loaded, NEW i \in Nat, NEW s, Passed(f, i)', Refers(f, i, s)
            PROVE  Passed(f, i)
        BY <4>1, <4>2, <4>3 DEF Passed, Loaded, Files, Refers
      <4>4. QED
        BY <1>1, <2>1, <4>3, SamePassed, <1>2 DEF LoadInv
    <3>4. CASE UNCHANGED linkVars
      <4>1. file' = file /\ line' = line
        BY <3>4 DEF linkVars
      <4>2. \A f, i : Passed(f, i)' => Passed(f, i)
        BY <4>1 DEF Passed
      <4>3. QED
        BY <1>1, <2>1, <4>2, SamePassed, <1>2 DEF LoadInv
    <3>5. QED
      BY <3>1, <3>2, <3>3, <3>4
  <2>2. CASE passno # "pass2"
    BY <1>1, <2>2 DEF Followed
  <2>3. QED
    BY <2>1, <2>2
<1>4. Closed'
  BY <1>1, <1>2, SameClosed DEF LoadInv
<1>5. (passno' = "pass1" => passno = "pass1") /\ (Linking' => Linking)
  BY <1>1, <1>2 DEF Linking
<1>6. QED
  BY <1>1, <1>3, <1>4, <1>5, SameLoaded

(* In pass 1 a symbol is defined by the file that is being read. *)
LEMMA LoadSymbol == LoadInv /\ SymbolLine => LoadInv'
<1> SUFFICES ASSUME LoadInv, SymbolLine PROVE LoadInv'
  OBVIOUS
<1>1. /\ passno = "pass1" /\ passno' \in {"pass1", "stopped"}
      /\ file \in Files /\ file' = file /\ line' = line + 1
      /\ objfiles' = objfiles /\ ifrefd' = ifrefd
  BY DEF SymbolLine, AtLine, InFile
<1>2. Files' = Files
  BY <1>1 DEF Files
<1>3. Known'
  <2>1. CASE Line.name \in DOMAIN allsymbols
    <3>1. allsymbols' = allsymbols
      BY <2>1 DEF SymbolLine
    <3>2. QED
      BY <3>1, <1>2 DEF Known, LoadInv, LinkTypes
  <2>2. CASE Line.name \notin DOMAIN allsymbols
    <3>1. PICK p : allsymbols' =
              With(allsymbols, Line.name, [value |-> Line.value, file |-> file, psect |-> p])
      BY <2>2 DEF SymbolLine
    <3>2. QED
      BY <3>1, <1>1, <1>2 DEF With, Known, LoadInv, LinkTypes
  <2>3. QED
    BY <2>1, <2>2
<1>4. LinkTypes'
  BY <1>1, <1>2, <1>3 DEF LinkTypes, Given, LoadInv
<1>5. AsGiven'
  BY <1>1, <1>2 DEF AsGiven, LoadInv
<1>6. Followed' /\ Closed' /\ ~Linking'
  BY <1>1 DEF Followed, Closed, Linking
<1>7. QED
  BY <1>4, <1>5, <1>6 DEF LoadInv

(* What a file that is loaded refers to is in every set that is complete. *)
LEMMA LoadWord == LoadInv /\ WordLine2 => LoadInv'
<1> SUFFICES ASSUME LoadInv, WordLine2 PROVE LoadInv'
  OBVIOUS
<1>1. /\ passno = "pass2" /\ passno' = "pass2"
      /\ file \in Loaded /\ file \in Files /\ file' = file /\ line' = line + 1
      /\ file \in Nat \ {0} /\ line \in Nat \ {0}
      /\ Line.kind = "word" /\ line <= Len(objfiles[file].lines)
      /\ objfiles' = objfiles /\ allsymbols' = allsymbols
  BY DEF WordLine2, AtLine, InFile, Read, Loaded, LoadInv, LinkTypes
<1>2. Closed' /\ AsGiven'
  BY <1>1 DEF Closed, AsGiven
<1>3. Files' = Files
  BY <1>1 DEF Files
<1>4. ASSUME NEW f \in Files, NEW i \in Nat, NEW s, Passed(f, i)', Refers(f, i, s)
      PROVE  Passed(f, i) \/ (f = file /\ i = line /\ s = Line.sym)
  BY <1>1, <1>4 DEF Passed, Files, Refers, Line
<1>5. CASE Line.sym \notin DOMAIN allsymbols
  <2>1. ifrefd' = ifrefd /\ repeatpass2' = repeatpass2
    BY <1>5 DEF WordLine2
  <2>2. Same /\ Loaded' = Loaded
    BY <1>1, <1>3, <2>1 DEF Same, Loaded
  <2>3. /\ \A f, i, s : Refers(f, i, s)' <=> Refers(f, i, s)
        /\ \A s : Definer(s)' = Definer(s)
    BY <1>1, SameNeeds
  <2>4. Followed'
    BY <1>1, <1>3, <1>4, <1>5, <2>1, <2>2, <2>3 DEF Followed, LoadInv, Loaded
  <2>5. Linking' => Linking
    BY <1>1 DEF Linking
  <2>6. QED
    BY <1>1, <1>2, <2>2, <2>4, <2>5, SameLoaded
<1>6. CASE Line.sym \in DOMAIN allsymbols
  <2>1. PICK d : d = Definer(Line.sym)
    OBVIOUS
  <2>2. d \in Files
    BY <1>6, <2>1 DEF Definer, LoadInv, LinkTypes, Known
  <2>3. ifrefd' = [ifrefd EXCEPT ![d] = FALSE] /\ repeatpass2' = (repeatpass2 \/ ifrefd[d])
    BY <1>6, <2>1 DEF WordLine2, Again, Definer
  <2>4. ifrefd' \in [Files -> BOOLEAN] /\ \A f \in Files : ifrefd'[f] <=> ifrefd[f] /\ f # d
    BY <2>2, <2>3 DEF LoadInv, LinkTypes
  <2>5. LinkTypes'
    BY <1>1, <1>3, <2>4 DEF LoadInv, LinkTypes, Given, Known
  <2>6. Loaded' = Loaded \cup {d}
    BY <1>3, <2>2, <2>4 DEF Loaded
  <2>7. /\ Roots' = Roots
        /\ \A S : Complete(S)' <=> Complete(S)
        /\ \A f, i, s : Refers(f, i, s)' <=> Refers(f, i, s)
        /\ \A s : Definer(s)' = Definer(s)
    BY <1>1, SameNeeds
  <2>8. Roots \subseteq Loaded /\ Least
    BY <1>1 DEF LoadInv, Linking
  <2>9. Refers(file, line, Line.sym)
    BY <1>1 DEF Refers, Line
  <2>10. d \in Needs(file)
    BY <1>6, <2>1, <2>9, ReferredIsNeeded
  <2>11. Least'
    <3>1. ASSUME NEW S \in SUBSET Files, Complete(S)
          PROVE  Loaded \cup {d} \subseteq S
      <4>1. Loaded \subseteq S
        BY <2>8, <3>1 DEF Least
      <4>2. Needs(file) \subseteq S
        BY <1>1, <3>1, <4>1 DEF Complete
      <4>3. QED
        BY <2>10, <4>1, <4>2
    <3>2. QED
      BY <1>3, <2>6, <2>7, <3>1 DEF Least
  <2>12. Followed'
    <3>1. CASE ifrefd[d]
      BY <2>3, <3>1 DEF Followed
    <3>2. CASE ~ifrefd[d]
      <4>1. Loaded' = Loaded /\ d \in Loaded /\ (repeatpass2' <=> repeatpass2)
        BY <2>2, <2>3, <2>6, <3>2 DEF Loaded
      <4>2. ASSUME ~repeatpass2, NEW f \in Loaded, NEW i \in Nat, NEW s \in DOMAIN allsymbols,
                   Passed(f, i)', Refers(f, i, s)
            PROVE  Definer(s) \in Loaded
        BY <1>1, <1>4, <2>1, <4>1, <4>2 DEF Followed, LoadInv, Loaded
      <4>3. QED
        BY <1>1, <2>7, <4>1, <4>2 DEF Followed
    <3>3. QED
      BY <3>1, <3>2
  <2>13. QED
    BY <1>2, <2>5, <2>6, <2>7, <2>8, <2>11, <2>12 DEF LoadInv
<1>7. QED
  BY <1>5, <1>6

(* Pass 1 leaves the roots loaded.  After a pass 2 that has loaded nothing all
   that was passed is there, which by then is everything. *)
LEMMA LoadPass == LoadInv /\ EndOfPass => LoadInv'
<1> SUFFICES ASSUME LoadInv, EndOfPass PROVE LoadInv'
  OBVIOUS
<1>1. /\ file > Len(objfiles) /\ file \in Nat \ {0} /\ file' = 1 /\ line' = 1
      /\ objfiles' = objfiles /\ allsymbols' = allsymbols
  BY DEF EndOfPass, Rewind, LoadInv, LinkTypes
<1>2. Files' = Files /\ passno' # "pass1"
  BY <1>1 DEF Files, EndOfPass
<1>3. \A f \in Files : \A i \in Nat : \A s : ~(Passed(f, i)' /\ Refers(f, i, s))
  BY <1>1 DEF Passed, Files, Refers
<1>4. /\ Roots' = Roots
      /\ \A S : Complete(S)' <=> Complete(S)
      /\ \A f : Needs(f)' = Needs(f)
      /\ \A f, i, s : Refers(f, i, s)' <=> Refers(f, i, s)
  BY <1>1, SameNeeds
<1>5. Followed'
  BY <1>1, <1>2, <1>3, <1>4 DEF Followed, Loaded
<1>6. AsGiven'
  BY <1>2 DEF AsGiven
<1>7. CASE passno = "pass1"
  <2>1. passno' = "pass2"
    BY <1>7 DEF EndOfPass
  <2>2. /\ BootSym \in DOMAIN allsymbols =>
               ifrefd' = [ifrefd EXCEPT ![allsymbols[BootSym].file] = FALSE]
        /\ BootSym \notin DOMAIN allsymbols => ifrefd' = ifrefd
    BY <1>7 DEF EndOfPass
  <2>3. /\ ifrefd' \in [Files -> BOOLEAN]
        /\ \A f \in Files : ~ifrefd'[f] <=>
               ~ifrefd[f] \/ (BootSym \in DOMAIN allsymbols /\ f = Definer(BootSym))
    BY <2>2 DEF LoadInv, LinkTypes, Known, Definer
  <2>4. LinkTypes'
    BY <1>1, <1>2, <2>3 DEF LoadInv, LinkTypes, Given, Known
  <2>5. \A s \in DOMAIN allsymbols : Definer(s) \in Files
    BY DEF LoadInv, LinkTypes, Known, Definer
  <2>6. \A f \in Files : ~ifrefd[f] <=> ~objfiles[f].ifrefd
    BY <1>7 DEF LoadInv, AsGiven
  <2>7. Loaded' = Roots
    <3>1. ASSUME NEW f \in Files PROVE f \in Loaded' <=> f \in Roots
      BY <1>2, <2>3, <2>5, <2>6 DEF Loaded, Roots
    <3>2. Loaded' \subseteq Files /\ Roots \subseteq Files
      BY <1>2, <2>5 DEF Loaded, Roots
    <3>3. QED
      BY <3>1, <3>2
  <2>8. Least'
    BY <1>4, <2>7 DEF Least, Complete
  <2>9. Closed'
    BY <2>1 DEF Closed
  <2>10. QED
    BY <1>4, <1>5, <1>6, <2>4, <2>7, <2>8, <2>9 DEF LoadInv
<1>8. CASE passno # "pass1"
  <2>1. ifrefd' = ifrefd /\ Loaded' = Loaded /\ Same
    BY <1>1, <1>2, <1>8 DEF EndOfPass, Loaded, Same
  <2>2. Linking
    BY <1>8 DEF EndOfPass, Linking
  <2>3. ASSUME passno = "pass2", passno' # "pass2", NEW f \in Loaded, NEW d \in Needs(f)
        PROVE  d \in Loaded
    <3>1. ~repeatpass2
      BY <2>3 DEF EndOfPass
    <3>2. PICK i \in Nat, s \in DOMAIN allsymbols : Refers(f, i, s) /\ Definer(s) = d
      BY NeededIsReferred
    <3>3. Passed(f, i)
      BY <1>1 DEF Passed, Loaded, Files
    <3>4. QED
      BY <2>3, <3>1, <3>2, <3>3 DEF LoadInv, Followed
  <2>4. Closed'
    <3>1. CASE passno = "pass2" /\ passno' # "pass2"
      BY <1>4, <2>1, <2>3, <3>1 DEF Closed
    <3>2. CASE passno = "pass2" /\ passno' = "pass2"
      BY <3>2 DEF Closed
    <3>3. CASE passno # "pass2"
      <4>1. passno \in {"assign", "pass3"}
        BY <1>8, <3>3 DEF EndOfPass
      <4>2. QED
        BY <2>1, <4>1, SameClosed DEF LoadInv
    <3>4. QED
      BY <3>1, <3>2, <3>3
  <2>5. QED
    BY <1>1, <1>2, <1>5, <2>1, <2>2, <2>4, SameLoaded
<1>9. QED
  BY <1>7, <1>8

(* What is loaded is the least set of files that needs no other, for any files
   in any order, whoever refers to whom (link.c:148-163). *)
THEOREM LoadsTheLeast == LinkSpec => []LoadsWhatIsNeeded
<1>1. LoadInv /\ [LinkNext]_linkVars => LoadInv'
  BY LoadQuiet, LoadSymbol, LoadWord, LoadPass DEF LinkNext
<1>2. LoadInv => LoadsWhatIsNeeded
  BY DEF LoadInv, Linking, Closed, Complete, Least, LoadsWhatIsNeeded
<1>3. QED
  BY LoadInit, <1>1, <1>2, PTL DEF LinkSpec
-----------------------------------------------------------------------------
(* Rounding up, as long as there is room. *)
LEMMA RoundsUp ==
  ASSUME NEW n \in Word, NEW a \in {1, 2, 4, 8}, n + a <= 65536
  PROVE  /\ RoundUp(n, a) \in Nat /\ RoundUp(n, a) % a = 0
         /\ n <= RoundUp(n, a) /\ RoundUp(n, a) < n + a
<1>1. n \in Nat /\ n < 65536
  BY WordIs
<1>2. PICK y : y = n + a - 1
  OBVIOUS
<1>3. y \in Word
  BY <1>1, <1>2, WordIs
<1>4. (n + a - 1) % WordSize = y
  BY <1>1, <1>2 DEF WordSize
<1>5. (WordSize - a) % WordSize = 65536 - a
  BY DEF WordSize
<1>6. RoundUp(n, a) = AndW(y, 65536 - a)
  BY <1>4, <1>5 DEF RoundUp
<1>7. PICK w : w = AndW(y, 65536 - a)
  OBVIOUS
<1>8. w \in Int /\ w % a = 0 /\ w <= y /\ y < w + a
  BY <1>3, <1>7, MaskedMultiple
<1>9. n <= w /\ w < n + a
  BY <1>1, <1>2, <1>8
<1>10. QED
  BY <1>1, <1>6, <1>7, <1>8, <1>9

Alignments == {1, 2, 4, 8}
PartRecord == [size : Word, alin : Alignments, base : Word]
PsectRecord == [base : Word, size : Word, alin : {0, 1, 2, 3, 4, 8}, ovr : BOOLEAN]

(* Line i of file f is psect p. *)
HasPsect(f, i, p) ==
    /\ i \in 1 .. Len(objfiles[f].lines)
    /\ objfiles[f].lines[i].kind = "psect" /\ objfiles[f].lines[i].psect = p

(* Every part comes from a line, and pass 1 has a part for every line. *)
Declared ==
    \A x \in DOMAIN objpsects : \E f \in Files : \E p \in DOMAIN allpsects : \E i \in Nat :
        x = <<f, p>> /\ HasPsect(f, i, p)

Entered ==
    passno = "pass1" \/ Linking =>
        \A f \in Files : \A i \in Nat : \A p :
            HasPsect(f, i, p) /\ (passno = "pass1" => Passed(f, i)) => <<f, p>> \in DOMAIN objpsects

PsectTypes ==
    /\ objpsects \in [DOMAIN objpsects -> PartRecord]
    /\ allpsects \in [DOMAIN allpsects -> PsectRecord]
    /\ base \in Word /\ carried \in BOOLEAN /\ placed \subseteq DOMAIN allpsects

Apart(b, n, c, m) == b + n <= c \/ c + m <= b

(* The parts of a psect lie in it, one behind the other unless it has OVR. *)
PackedIn(A) ==
    \A x \in A :
        /\ objpsects[x].base + objpsects[x].size <= allpsects[x[2]].size
        /\ objpsects[x].base % objpsects[x].alin = 0
        /\ objpsects[x].alin <= allpsects[x[2]].alin
        /\ allpsects[x[2]].ovr => objpsects[x].base = 0
        /\ \A y \in A :
            x # y /\ x[2] = y[2] /\ ~allpsects[x[2]].ovr =>
                Apart(objpsects[x].base, objpsects[x].size, objpsects[y].base, objpsects[y].size)

Assigned ==
    {x \in Parts : x[1] < file \/ (x[1] = file /\ \E i \in Nat : i < line /\ HasPsect(file, i, x[2]))}

Packed ==
    ~carried =>
        /\ passno = "assign" => PackedIn(Assigned)
        /\ passno \in {"place", "pass3", "done"} => PackedIn(Parts)

(* The psects lie one behind the other, if all alignments are powers of two. *)
Real == \A p \in DOMAIN allpsects : allpsects[p].alin \in Alignments

InOrder ==
    /\ \A p \in placed : /\ allpsects[p].base + allpsects[p].size <= base
                         /\ allpsects[p].base % allpsects[p].alin = 0
    /\ \A p, q \in placed :
        p # q => Apart(allpsects[p].base, allpsects[p].size, allpsects[q].base, allpsects[q].size)

Laid ==
    /\ passno \in {"pass1", "pass2", "assign"} => placed = {}
    /\ passno \in {"pass3", "done"} => placed = DOMAIN allpsects
    /\ ~carried /\ Real => InOrder

PlaceInv == Declared /\ Entered /\ PsectTypes /\ Packed /\ Laid

IInv == LoadInv /\ PlaceInv

LEMMA PlaceInit == LinkInit => PlaceInv
<1> SUFFICES ASSUME LinkInit PROVE PlaceInv
  OBVIOUS
<1>1. /\ passno = "pass1" /\ file = 1 /\ line = 1 /\ base = 0 /\ placed = {} /\ carried = FALSE
      /\ objpsects = << >> /\ allpsects = << >>
  BY DEF LinkInit
<1>2. DOMAIN objpsects = {} /\ DOMAIN allpsects = {}
  BY <1>1
<1>3. PsectTypes
  <2>1. \A S : << >> \in [{} -> S]
    OBVIOUS
  <2>2. 0 \in Word
    BY WordIs
  <2>3. QED
    BY <1>1, <1>2, <2>1, <2>2 DEF PsectTypes
<1>4. Declared
  BY <1>2 DEF Declared
<1>5. Entered
  BY <1>1 DEF Entered, Linking, Passed, Files, HasPsect
<1>6. Packed /\ Laid
  BY <1>1 DEF Packed, Laid, InOrder
<1>7. QED
  BY <1>3, <1>4, <1>5, <1>6 DEF PlaceInv

LEMMA PackedLess ==
  ASSUME NEW A, PackedIn(A), NEW B \in SUBSET A
  PROVE  PackedIn(B)
  BY DEF PackedIn

(* The steps that give no psect a size or a place. *)
Kept ==
    /\ objfiles' = objfiles /\ objpsects' = objpsects /\ allpsects' = allpsects
    /\ base' = base /\ carried' = carried /\ placed' = placed

LEMMA KeptFacts ==
  ASSUME Kept
  PROVE  /\ Files' = Files
         /\ \A f, i, p : HasPsect(f, i, p)' <=> HasPsect(f, i, p)
         /\ Declared' <=> Declared
         /\ PsectTypes' <=> PsectTypes
         /\ Real' <=> Real
         /\ InOrder' <=> InOrder
         /\ \A A : PackedIn(A)' <=> PackedIn(A)
<1>1. Files' = Files
  BY DEF Kept, Files
<1>2. \A f, i, p : HasPsect(f, i, p)' <=> HasPsect(f, i, p)
  BY DEF Kept, HasPsect
<1>3. Declared' <=> Declared
  BY <1>1, <1>2 DEF Kept, Declared
<1>4. (Real' <=> Real) /\ (InOrder' <=> InOrder)
  BY DEF Kept, Real, InOrder
<1>5. \A A : PackedIn(A)' <=> PackedIn(A)
  BY DEF Kept, PackedIn
<1>6. PsectTypes' <=> PsectTypes
  BY DEF Kept, PsectTypes
<1>7. QED
  BY <1>1, <1>2, <1>3, <1>4, <1>5, <1>6

Reading == SymbolLine \/ WordLine2 \/ ByteLine2 \/ DataLine3 \/ OtherLine \/ EndOfFile \/ UNCHANGED linkVars

(* No psect line is passed but by the two that read them. *)
LEMMA NoPsectPassed ==
  ASSUME IInv, Reading, passno \in {"pass1", "assign"},
         NEW f \in Files, NEW i \in Nat, NEW p, HasPsect(f, i, p), Passed(f, i)',
         passno = "assign" => f \in Loaded
  PROVE  Passed(f, i)
<1>1. file \in Nat \ {0} /\ line \in Nat \ {0}
  BY DEF IInv, LoadInv, LinkTypes
<1>2. f \in Nat /\ i \in 1 .. Len(objfiles[f].lines)
  BY DEF Files, HasPsect
<1>3. CASE SymbolLine \/ OtherLine
  <2>1. /\ Line.kind # "psect" /\ line' = line + 1 /\ file' = file
    BY <1>3 DEF SymbolLine, OtherLine, AtLine, HasWork
  <2>2. ~HasPsect(file, line, p)
    BY <2>1 DEF HasPsect, Line
  <2>3. QED
    BY <1>1, <1>2, <2>1, <2>2 DEF Passed
<1>4. CASE EndOfFile
  <2>1. file' = file + 1 /\ line' = 1 /\ file \in Files /\ ~InFile
    BY <1>4 DEF EndOfFile
  <2>2. CASE f = file
    <3>1. line > Len(objfiles[file].lines)
      BY <1>1, <2>1, <2>2 DEF InFile, Read, Loaded
    <3>2. QED
      BY <1>1, <1>2, <2>2, <3>1 DEF Passed
  <2>3. CASE f # file
    BY <1>1, <1>2, <2>1, <2>3 DEF Passed
  <2>4. QED
    BY <2>2, <2>3
<1>5. CASE UNCHANGED linkVars
  BY <1>5 DEF linkVars, Passed
<1>6. QED
  BY <1>3, <1>4, <1>5 DEF Reading, WordLine2, ByteLine2, DataLine3

LEMMA PlaceReading ==
  ASSUME IInv, Reading
  PROVE  PlaceInv'
<1>1. Kept
  BY DEF Reading, Kept, SymbolLine, WordLine2, ByteLine2, DataLine3, OtherLine, EndOfFile, linkVars
<1>2. passno' = passno \/ (passno = "pass1" /\ passno' = "stopped")
  BY DEF Reading, SymbolLine, WordLine2, ByteLine2, DataLine3, OtherLine, EndOfFile, linkVars
<1>3. Declared' /\ PsectTypes'
  BY <1>1, KeptFacts DEF IInv, PlaceInv
<1>4. Entered'
  <2>1. SUFFICES ASSUME passno' = "pass1" \/ Linking', NEW f \in Files, NEW i \in Nat, NEW p,
                        HasPsect(f, i, p), passno' = "pass1" => Passed(f, i)'
                 PROVE  <<f, p>> \in DOMAIN objpsects
    BY <1>1, KeptFacts DEF Entered, Kept
  <2>2. passno = "pass1" \/ Linking
    BY <1>2, <2>1 DEF Linking
  <2>3. passno = "pass1" => Passed(f, i)
    BY <1>2, <2>1, NoPsectPassed DEF Linking
  <2>4. QED
    BY <2>1, <2>2, <2>3 DEF IInv, PlaceInv, Entered
<1>5. Packed'
  <2>1. CASE passno \in {"assign", "place", "pass3", "done"} /\ ~carried'
    <3>1. ifrefd' = ifrefd /\ passno' = passno /\ ~carried
      BY <1>1, <1>2, <2>1 DEF Kept, Reading, SymbolLine, WordLine2, ByteLine2, DataLine3,
                              OtherLine, EndOfFile, linkVars
    <3>2. Loaded' = Loaded /\ Parts' = Parts
      BY <1>1, <3>1, KeptFacts DEF Loaded, Parts, Kept
    <3>3. CASE passno = "assign"
      <4>1. ASSUME NEW x \in Assigned' PROVE x \in Assigned
        <5>1. x \in Parts /\ x[1] \in Loaded /\ x \in DOMAIN objpsects
          BY <3>2, <4>1 DEF Assigned, Parts
        <5>2. PICK f \in Files, i \in Nat : x[1] = f /\ HasPsect(f, i, x[2])
          BY <5>1 DEF IInv, PlaceInv, Declared
        <5>3. CASE x[1] < file'
          <6>1. Passed(f, i)'
            BY <5>2, <5>3 DEF Passed
          <6>2. Passed(f, i)
            BY <3>3, <5>1, <5>2, <6>1, NoPsectPassed
          <6>3. QED
            BY <5>1, <5>2, <6>2 DEF Passed, Assigned
        <5>4. CASE ~(x[1] < file')
          <6>1. PICK j \in Nat : x[1] = file' /\ j < line' /\ HasPsect(file', j, x[2])
            BY <1>1, <4>1, <5>4, KeptFacts DEF Assigned
          <6>2. Passed(f, j)'
            BY <5>2, <6>1 DEF Passed
          <6>3. Passed(f, j)
            BY <3>3, <5>1, <5>2, <6>1, <6>2, NoPsectPassed
          <6>4. QED
            BY <5>1, <5>2, <6>1, <6>3 DEF Passed, Assigned
        <5>5. QED
          BY <5>3, <5>4
      <4>2. PackedIn(Assigned)
        BY <3>1, <3>3 DEF IInv, PlaceInv, Packed
      <4>3. PackedIn(Assigned')
        BY <4>1, <4>2, PackedLess
      <4>4. PICK A : A = Assigned'
        OBVIOUS
      <4>5. PackedIn(A)'
        BY <1>1, <4>3, <4>4, KeptFacts
      <4>6. QED
        BY <3>1, <3>3, <4>4, <4>5 DEF Packed, PackedIn
    <3>4. CASE passno # "assign"
      <4>1. PackedIn(Parts)
        BY <2>1, <3>1, <3>4 DEF IInv, PlaceInv, Packed
      <4>2. PICK A : A = Parts
        OBVIOUS
      <4>3. PackedIn(A)'
        BY <1>1, <4>1, <4>2, KeptFacts
      <4>4. QED
        BY <3>1, <3>2, <3>4, <4>2, <4>3 DEF Packed, PackedIn
    <3>5. QED
      BY <3>3, <3>4
  <2>2. CASE passno \notin {"assign", "place", "pass3", "done"} \/ carried'
    BY <1>2, <2>2 DEF Packed
  <2>3. QED
    BY <2>1, <2>2
<1>6. Laid'
  BY <1>1, <1>2, KeptFacts DEF Laid, IInv, PlaceInv, Kept
<1>7. QED
  BY <1>3, <1>4, <1>5, <1>6 DEF PlaceInv

(* After a pass all lines have been passed; before one, none. *)
LEMMA PlacePass == IInv /\ EndOfPass => PlaceInv'
<1> SUFFICES ASSUME IInv, EndOfPass PROVE PlaceInv'
  OBVIOUS
<1>1. Kept /\ file > Len(objfiles) /\ file \in Nat \ {0} /\ file' = 1 /\ line' = 1
  BY DEF EndOfPass, Rewind, Kept, IInv, LoadInv, LinkTypes
<1>2. /\ \/ passno = "pass1" /\ passno' = "pass2"
         \/ passno = "pass2" /\ passno' \in {"pass2", "assign"}
         \/ passno = "assign" /\ passno' = "place"
         \/ passno = "pass3" /\ passno' = "done"
  BY DEF EndOfPass
<1>3. \A f \in Files : \A i : Passed(f, i)
  BY <1>1 DEF Files, Passed
<1>4. Declared' /\ PsectTypes'
  BY <1>1, KeptFacts DEF IInv, PlaceInv
<1>5. Entered'
  <2>1. SUFFICES ASSUME NEW f \in Files, NEW i \in Nat, NEW p, HasPsect(f, i, p)
                 PROVE  <<f, p>> \in DOMAIN objpsects
    BY <1>1, KeptFacts DEF Entered, Kept
  <2>2. QED
    BY <1>2, <1>3, <2>1 DEF IInv, PlaceInv, Entered, Linking
<1>6. Laid'
  BY <1>1, <1>2, KeptFacts DEF Laid, IInv, PlaceInv, Kept
<1>7. Packed'
  <2>1. CASE passno' = "assign"
    <3>1. Assigned' = {}
      <4>1. ASSUME NEW x \in Assigned' PROVE FALSE
        <5>1. x \in DOMAIN objpsects
          BY <1>1, <4>1 DEF Assigned, Parts, Kept
        <5>2. x[1] \in Files
          BY <5>1 DEF IInv, PlaceInv, Declared
        <5>3. x[1] = 1 /\ \E i \in Nat : i < 1 /\ HasPsect(1, i, x[2])
          BY <1>1, <4>1, <5>2, KeptFacts DEF Assigned, Files
        <5>4. QED
          BY <5>3 DEF HasPsect
      <4>2. QED
        BY <4>1
    <3>2. QED
      BY <2>1, <3>1 DEF Packed, PackedIn
  <2>2. CASE passno' \in {"place", "done"} /\ ~carried'
    <3>1. /\ ifrefd' = ifrefd /\ ~carried /\ passno \in {"assign", "pass3"}
      BY <1>1, <1>2, <2>2 DEF EndOfPass, Kept
    <3>2. Loaded' = Loaded /\ Parts' = Parts
      BY <1>1, <3>1, KeptFacts DEF Loaded, Parts, Kept
    <3>3. passno = "assign" => Parts = Assigned
      <4>1. \A x \in Parts : x[1] \in Files
        BY DEF IInv, PlaceInv, Declared, Parts
      <4>2. \A x \in Parts : x[1] < file
        BY <1>1, <4>1 DEF Files
      <4>3. QED
        BY <4>2 DEF Assigned
    <3>4. PackedIn(Parts)
      BY <3>1, <3>3 DEF IInv, PlaceInv, Packed
    <3>5. PICK A : A = Parts
      OBVIOUS
    <3>6. PackedIn(A)'
      BY <1>1, <3>4, <3>5, KeptFacts
    <3>7. QED
      BY <2>2, <3>2, <3>5, <3>6 DEF Packed, PackedIn
  <2>3. CASE passno' = "pass2" \/ carried'
    BY <2>3 DEF Packed
  <2>4. QED
    BY <1>2, <2>1, <2>2, <2>3
<1>8. QED
  BY <1>4, <1>5, <1>6, <1>7 DEF PlaceInv

LEMMA PlaceDone == IInv /\ AllPlaced => PlaceInv'
<1> SUFFICES ASSUME IInv, AllPlaced PROVE PlaceInv'
  OBVIOUS
<1>1. /\ Kept /\ passno = "place" /\ passno' \in {"pass3", "stopped"}
      /\ ifrefd' = ifrefd /\ DOMAIN allpsects \subseteq placed
  BY DEF AllPlaced, Kept
<1>2. Declared' /\ PsectTypes' /\ placed = DOMAIN allpsects
  BY <1>1, KeptFacts DEF IInv, PlaceInv, PsectTypes
<1>3. Entered'
  BY <1>1, KeptFacts DEF Entered, Kept, IInv, PlaceInv, Linking
<1>4. Laid'
  BY <1>1, <1>2, KeptFacts DEF Laid, IInv, PlaceInv, Kept
<1>5. Packed'
  <2>1. Parts' = Parts
    BY <1>1, KeptFacts DEF Parts, Loaded, Kept
  <2>2. PICK A : A = Parts
    OBVIOUS
  <2>3. ~carried' => PackedIn(A)'
    BY <1>1, <2>2, KeptFacts DEF IInv, PlaceInv, Packed, Kept
  <2>4. QED
    BY <1>1, <2>1, <2>2, <2>3 DEF Packed, PackedIn
<1>6. QED
  BY <1>2, <1>3, <1>4, <1>5 DEF PlaceInv

(* A psect line is one. *)
LEMMA PsectLineIs ==
  ASSUME LinkTypes, AtLine("psect")
  PROVE  /\ file \in Files /\ Line = objfiles[file].lines[line]
         /\ HasPsect(file, line, Line.psect)
         /\ Line.size \in Word /\ Line.p2al \in 0 .. 3 /\ Line.ovr \in BOOLEAN
         /\ PsectsOnce(objfiles[file].lines)
<1>1. file \in Files /\ line \in Nat \ {0} /\ line <= Len(objfiles[file].lines) /\ Line.kind = "psect"
  BY DEF AtLine, InFile, LinkTypes
<1>2. PICK o \in Objects : o = objfiles[file]
  BY <1>1 DEF LinkTypes, Given, Files
<1>3. o.lines \in Seq(Lines) /\ PsectsOnce(o.lines)
  BY DEF Objects
<1>4. line \in 1 .. Len(o.lines)
  BY <1>1, <1>2, <1>3
<1>5. PICK l \in Lines : l = Line
  BY <1>2, <1>3, <1>4 DEF Line
<1>6. l \in PsectLines
  BY <1>1, <1>5 DEF Lines, SymbolLines, WordLines, ByteLines
<1>7. l.size \in Word /\ l.p2al \in 0 .. 3 /\ l.ovr \in BOOLEAN
  BY <1>6 DEF PsectLines
<1>8. QED
  BY <1>1, <1>2, <1>3, <1>4, <1>5, <1>7 DEF HasPsect, Line

LEMMA WithIs ==
  ASSUME NEW S, NEW D, NEW f \in [D -> S], NEW x, NEW v \in S
  PROVE  With(f, x, v) \in [D \cup {x} -> S]
  BY DEF With

LEMMA PlacePsect == IInv /\ PsectLine => PlaceInv'
<1> SUFFICES ASSUME IInv, PsectLine PROVE PlaceInv'
  OBVIOUS
<1>1. /\ passno = "pass1" /\ passno' = "pass1" /\ AtLine("psect") /\ placed' = placed
      /\ objfiles' = objfiles /\ base' = base /\ carried' = carried
      /\ file' = file /\ line' = line + 1 /\ file \in Nat /\ line \in Nat
      /\ placed = {}
  BY DEF PsectLine, IInv, LoadInv, LinkTypes, PlaceInv, Laid
<1>2. PICK p : p = Line.psect
  OBVIOUS
<1>3. /\ file \in Files /\ Line = objfiles[file].lines[line] /\ HasPsect(file, line, p)
      /\ Line.size \in Word /\ Line.p2al \in 0 .. 3 /\ Line.ovr \in BOOLEAN
  BY <1>1, <1>2, PsectLineIs DEF IInv, LoadInv
<1>4. PICK v \in PartRecord : objpsects' = With(objpsects, <<file, p>>, v)
  <2>1. Alignment(Line.p2al) \in Alignments
    <3>1. PICK n \in 0 .. 3 : n = Line.p2al
      BY <1>3
    <3>2. n = 0 \/ n = 1 \/ n = 2 \/ n = 3
      BY <3>1
    <3>3. QED
      BY <3>1, <3>2 DEF Alignment, Alignments
  <2>2. 0 \in Word
    BY WordIs
  <2>3. [size |-> Line.size, alin |-> Alignment(Line.p2al), base |-> 0] \in PartRecord
    BY <1>3, <2>1, <2>2 DEF PartRecord
  <2>4. QED
    BY <1>2, <2>3 DEF PsectLine
<1>5. PICK w \in PsectRecord : allpsects' = With(allpsects, p, w)
  <2>1. CASE p \in DOMAIN allpsects
    <3>1. allpsects[p] \in PsectRecord
      BY <2>1 DEF IInv, PlaceInv, PsectTypes
    <3>2. [allpsects[p] EXCEPT !.ovr = @ \/ Line.ovr] \in PsectRecord
      BY <1>3, <3>1 DEF PsectRecord
    <3>3. QED
      BY <1>2, <2>1, <3>2 DEF PsectLine
  <2>2. CASE p \notin DOMAIN allpsects
    <3>1. 0 \in Word
      BY WordIs
    <3>2. Line.p2al \in {0, 1, 2, 3, 4, 8}
      BY <1>3
    <3>3. [base |-> 0, size |-> 0, alin |-> Line.p2al, ovr |-> Line.ovr] \in PsectRecord
      BY <1>3, <3>1, <3>2 DEF PsectRecord
    <3>4. QED
      BY <1>2, <2>2, <3>3 DEF PsectLine
  <2>3. QED
    BY <2>1, <2>2
<1>6. /\ objpsects' \in [DOMAIN objpsects' -> PartRecord]
      /\ DOMAIN objpsects' = DOMAIN objpsects \cup {<<file, p>>}
  <2>1. PICK D : D = DOMAIN objpsects
    OBVIOUS
  <2>2. objpsects \in [D -> PartRecord]
    BY <2>1 DEF IInv, PlaceInv, PsectTypes
  <2>3. objpsects' \in [D \cup {<<file, p>>} -> PartRecord]
    BY <1>4, <2>2, WithIs
  <2>4. DOMAIN objpsects' = D \cup {<<file, p>>}
    BY <2>3
  <2>5. QED
    BY <2>1, <2>3, <2>4
<1>7. /\ allpsects' \in [DOMAIN allpsects' -> PsectRecord]
      /\ DOMAIN allpsects' = DOMAIN allpsects \cup {p}
  <2>1. PICK D : D = DOMAIN allpsects
    OBVIOUS
  <2>2. allpsects \in [D -> PsectRecord]
    BY <2>1 DEF IInv, PlaceInv, PsectTypes
  <2>3. allpsects' \in [D \cup {p} -> PsectRecord]
    BY <1>5, <2>2, WithIs
  <2>4. DOMAIN allpsects' = D \cup {p}
    BY <2>3
  <2>5. QED
    BY <2>1, <2>3, <2>4
<1>8. PsectTypes'
  BY <1>1, <1>6, <1>7 DEF IInv, PlaceInv, PsectTypes
<1>9. Files' = Files /\ \A f, i, o : HasPsect(f, i, o)' <=> HasPsect(f, i, o)
  BY <1>1 DEF Files, HasPsect
<1>10. Declared'
  <2>1. ASSUME NEW x \in DOMAIN objpsects'
        PROVE  \E f \in Files : \E o \in DOMAIN allpsects' : \E i \in Nat :
                   x = <<f, o>> /\ HasPsect(f, i, o)
    <3>1. CASE x \in DOMAIN objpsects
      BY <1>7, <3>1 DEF IInv, PlaceInv, Declared
    <3>2. CASE x = <<file, p>>
      BY <1>1, <1>3, <1>7, <3>2
    <3>3. QED
      BY <1>6, <2>1, <3>1, <3>2
  <2>2. QED
    BY <1>9, <2>1 DEF Declared
<1>11. Entered'
  <2>1. SUFFICES ASSUME NEW f \in Files, NEW i \in Nat, NEW o, HasPsect(f, i, o), Passed(f, i)'
                 PROVE  <<f, o>> \in DOMAIN objpsects'
    BY <1>1, <1>9 DEF Entered
  <2>2. CASE f = file /\ i = line
    BY <1>2, <1>3, <1>6, <2>1, <2>2 DEF HasPsect
  <2>3. CASE ~(f = file /\ i = line)
    <3>1. Passed(f, i)
      BY <1>1, <2>1, <2>3 DEF Passed, Files
    <3>2. QED
      BY <1>1, <1>6, <2>1, <3>1 DEF IInv, PlaceInv, Entered
  <2>4. QED
    BY <2>2, <2>3
<1>12. Packed' /\ Laid'
  BY <1>1 DEF Packed, Laid, InOrder
<1>13. QED
  BY <1>8, <1>10, <1>11, <1>12 DEF PlaceInv

(* One more part in a psect.  The others end before its size. *)
LEMMA PlacePart == IInv /\ AssignLine => PlaceInv'
<1> SUFFICES ASSUME IInv, AssignLine PROVE PlaceInv'
  OBVIOUS
<1>1. /\ passno = "assign" /\ passno' = "assign" /\ AtLine("psect") /\ placed' = placed
      /\ objfiles' = objfiles /\ base' = base /\ ifrefd' = ifrefd
      /\ file' = file /\ line' = line + 1 /\ file \in Nat \ {0} /\ line \in Nat \ {0}
      /\ placed = {} /\ file \in Loaded
  BY DEF AssignLine, IInv, LoadInv, LinkTypes, PlaceInv, Laid, AtLine, InFile, Read, Loaded
<1>2. PICK p : p = Line.psect
  OBVIOUS
<1>3. PICK x : x = <<file, p>>
  OBVIOUS
<1>4. /\ file \in Files /\ HasPsect(file, line, p) /\ PsectsOnce(objfiles[file].lines)
  BY <1>1, <1>2, PsectLineIs DEF IInv, LoadInv
<1>5. x \in DOMAIN objpsects
  BY <1>1, <1>3, <1>4 DEF IInv, PlaceInv, Entered, Linking
<1>6. p \in DOMAIN allpsects
  <2>1. PICK f \in Files, o \in DOMAIN allpsects : x = <<f, o>>
    BY <1>5 DEF IInv, PlaceInv, Declared
  <2>2. QED
    BY <1>3, <2>1
<1>7. PICK s, n, a, v, al :
          /\ s = allpsects[p].size /\ v = allpsects[p].ovr /\ al = allpsects[p].alin
          /\ n = objpsects[x].size /\ a = objpsects[x].alin
  OBVIOUS
<1>8. objpsects[x] \in PartRecord /\ allpsects[p] \in PsectRecord
  BY <1>5, <1>6 DEF IInv, PlaceInv, PsectTypes
<1>9. s \in Word /\ n \in Word /\ a \in Alignments /\ v \in BOOLEAN /\ al \in {0, 1, 2, 3, 4, 8}
  BY <1>7, <1>8 DEF PartRecord, PsectRecord
<1>10. PICK at : at = IF v THEN 0 ELSE RoundUp(s, a)
  OBVIOUS
<1>11. PICK end : end = IF v /\ s >= n THEN s ELSE at + n
  OBVIOUS
<1>12. PICK am : am = IF al < a THEN a ELSE al
  OBVIOUS
<1>13. /\ objpsects' = [objpsects EXCEPT ![x].base = at % WordSize]
       /\ allpsects' = [allpsects EXCEPT ![p].alin = am, ![p].size = end % WordSize]
       /\ carried' = (carried \/ s + a + n > WordSize)
  BY <1>2, <1>3, <1>7, <1>10, <1>11, <1>12 DEF AssignLine, PartAt
<1>14. PICK b, e : b = at % WordSize /\ e = end % WordSize
  OBVIOUS
<1>15. b \in Word /\ e \in Word /\ am \in {0, 1, 2, 3, 4, 8}
  <2>1. RoundUp(s, a) \in Int
    <3>1. (s + a - 1) % WordSize \in Word /\ (WordSize - a) % WordSize \in Word
      BY <1>9, WordIs DEF WordSize, Alignments
    <3>2. RoundUp(s, a) \in Word
      BY <3>1, BitwiseType DEF RoundUp
    <3>3. QED
      BY <3>2, WordIs
  <2>2. at \in Int
    BY <1>10, <2>1
  <2>3. end \in Int
    BY <1>9, <1>11, <2>2, WordIs
  <2>4. \A i \in Int : i % WordSize \in Word
    BY WordIs DEF WordSize
  <2>5. QED
    BY <1>9, <1>12, <1>14, <2>2, <2>3, <2>4 DEF Alignments
<1>16. /\ objpsects'[x] = [objpsects[x] EXCEPT !.base = b]
       /\ \A y \in DOMAIN objpsects : y # x => objpsects'[y] = objpsects[y]
       /\ DOMAIN objpsects' = DOMAIN objpsects
       /\ allpsects'[p] = [allpsects[p] EXCEPT !.alin = am, !.size = e]
       /\ \A o \in DOMAIN allpsects : o # p => allpsects'[o] = allpsects[o]
       /\ DOMAIN allpsects' = DOMAIN allpsects
  BY <1>5, <1>6, <1>13, <1>14 DEF IInv, PlaceInv, PsectTypes
<1>17. /\ objpsects'[x].size = n /\ objpsects'[x].alin = a /\ objpsects'[x].base = b
       /\ allpsects'[p].size = e /\ allpsects'[p].alin = am /\ allpsects'[p].ovr = v
       /\ objpsects'[x] \in PartRecord /\ allpsects'[p] \in PsectRecord
  BY <1>7, <1>8, <1>15, <1>16 DEF PartRecord, PsectRecord
<1>18. PsectTypes'
  <2>1. objpsects' \in [DOMAIN objpsects' -> PartRecord]
    BY <1>13, <1>16, <1>17 DEF IInv, PlaceInv, PsectTypes
  <2>2. allpsects' \in [DOMAIN allpsects' -> PsectRecord]
    BY <1>13, <1>16, <1>17 DEF IInv, PlaceInv, PsectTypes
  <2>3. carried' \in BOOLEAN
    BY <1>13
  <2>4. QED
    BY <1>1, <1>16, <2>1, <2>2, <2>3 DEF IInv, PlaceInv, PsectTypes
<1>19. Files' = Files /\ \A f, i, o : HasPsect(f, i, o)' <=> HasPsect(f, i, o)
  BY <1>1 DEF Files, HasPsect
<1>20. Declared'
  BY <1>16, <1>19 DEF IInv, PlaceInv, Declared
<1>21. Entered'
  BY <1>1, <1>16, <1>19 DEF IInv, PlaceInv, Entered, Linking
<1>22. Laid'
  BY <1>1 DEF Laid, InOrder
<1>23. Packed'
  <2>1. SUFFICES ASSUME ~carried' PROVE PackedIn(Assigned)'
    BY <1>1 DEF Packed
  <2>2. ~carried /\ s + a + n <= 65536
    <3>1. ~carried /\ ~(s + a + n > WordSize)
      BY <1>13, <2>1
    <3>2. s \in Int /\ n \in Int /\ a \in Int
      BY <1>9, WordIs DEF Alignments
    <3>3. QED
      BY <3>1, <3>2 DEF WordSize
  <2>3. PackedIn(Assigned)
    BY <1>1, <2>2 DEF IInv, PlaceInv, Packed
  <2>4. s \in Nat /\ n \in Nat /\ a \in {1, 2, 4, 8}
    BY <1>9, WordIs DEF Alignments
  <2>5. /\ at \in Nat /\ at % a = 0 /\ at + n < 65536 + 0
        /\ v => at = 0
        /\ ~v => s <= at
    <3>1. RoundUp(s, a) \in Nat /\ RoundUp(s, a) % a = 0 /\ s <= RoundUp(s, a) /\ RoundUp(s, a) < s + a
      BY <1>9, <2>2, <2>4, RoundsUp
    <3>2. CASE v
      <4>1. at = 0
        BY <1>10, <3>2
      <4>2. n < 65536
        BY <1>9, WordIs
      <4>3. 0 % a = 0
        BY <2>4
      <4>4. QED
        BY <2>4, <3>2, <4>1, <4>2, <4>3
    <3>3. CASE ~v
      <4>1. at = RoundUp(s, a)
        BY <1>10, <3>3
      <4>2. PICK r : r = RoundUp(s, a)
        OBVIOUS
      <4>3. r + n < 65536
        BY <2>2, <2>4, <3>1, <4>2
      <4>4. QED
        BY <3>1, <3>3, <4>1, <4>2, <4>3
    <3>4. QED
      BY <3>2, <3>3
  <2>6. end \in Nat /\ at + n <= end /\ s <= end /\ end < 65536
    <3>1. s < 65536
      BY <1>9, WordIs
    <3>2. CASE v /\ s >= n
      <4>1. end = s /\ at = 0
        BY <1>11, <2>5, <3>2
      <4>2. QED
        BY <2>4, <3>1, <3>2, <4>1
    <3>3. CASE ~(v /\ s >= n)
      <4>1. end = at + n
        BY <1>11, <3>3
      <4>2. v => s < n
        BY <2>4, <3>3
      <4>3. v \/ s <= at
        BY <2>5
      <4>4. QED
        BY <2>4, <2>5, <4>1, <4>2, <4>3
    <3>4. QED
      BY <3>2, <3>3
  <2>7. b = at /\ e = end
    BY <1>14, <2>4, <2>5, <2>6 DEF WordSize
  <2>8. am \in Nat /\ a <= am /\ al <= am
    BY <1>9, <1>12, <2>4
  <2>9. Parts' = Parts
    BY <1>1, <1>16, <1>19 DEF Parts, Loaded
  <2>10. x \in Parts /\ x \notin Assigned
    <3>1. \A i \in Nat : HasPsect(file, i, p) => i = line
      BY <1>4 DEF HasPsect, PsectsOnce
    <3>2. x[1] = file /\ x[2] = p
      BY <1>3
    <3>3. QED
      BY <1>1, <1>5, <3>1, <3>2 DEF Parts, Assigned
  <2>11. ASSUME NEW y \in Assigned' PROVE y \in Assigned \/ y = x
    <3>1. y \in Parts /\ y \in DOMAIN objpsects
      BY <2>9, <2>11 DEF Assigned, Parts
    <3>2. PICK f \in Files, o \in DOMAIN allpsects : y = <<f, o>>
      BY <3>1 DEF IInv, PlaceInv, Declared
    <3>3. CASE f < file
      BY <3>1, <3>2, <3>3 DEF Assigned
    <3>4. CASE ~(f < file)
      <4>1. PICK i \in Nat : f = file /\ i < line + 1 /\ HasPsect(file, i, o)
        BY <1>1, <1>19, <2>11, <3>2, <3>4 DEF Assigned
      <4>2. CASE i = line
        BY <1>3, <1>4, <3>2, <4>1, <4>2 DEF HasPsect
      <4>3. CASE i # line
        BY <1>1, <3>1, <3>2, <4>1, <4>3 DEF Assigned
      <4>4. QED
        BY <4>2, <4>3
    <3>5. QED
      BY <3>3, <3>4
  <2>12. ASSUME NEW y \in Assigned
         PROVE  /\ objpsects'[y] = objpsects[y] /\ y[2] \in DOMAIN allpsects
                /\ objpsects[y].base \in Nat /\ objpsects[y].size \in Nat /\ objpsects[y].alin \in Nat
                /\ allpsects'[y[2]].ovr = allpsects[y[2]].ovr
                /\ objpsects[y].base + objpsects[y].size <= allpsects[y[2]].size
                /\ objpsects[y].base + objpsects[y].size <= allpsects'[y[2]].size
                /\ objpsects[y].alin <= allpsects'[y[2]].alin
    <3>1. y \in DOMAIN objpsects /\ y # x
      BY <2>10 DEF Assigned, Parts
    <3>2. y[2] \in DOMAIN allpsects
      BY <3>1 DEF IInv, PlaceInv, Declared
    <3>3. objpsects[y] \in PartRecord /\ allpsects[y[2]] \in PsectRecord
      BY <3>1, <3>2 DEF IInv, PlaceInv, PsectTypes
    <3>4. /\ objpsects[y].base \in Nat /\ objpsects[y].size \in Nat /\ objpsects[y].alin \in Nat
          /\ allpsects[y[2]].size \in Nat /\ allpsects[y[2]].alin \in Nat
      BY <3>3, WordIs DEF PartRecord, PsectRecord, Alignments
    <3>5. /\ objpsects[y].base + objpsects[y].size <= allpsects[y[2]].size
          /\ objpsects[y].alin <= allpsects[y[2]].alin
      BY <2>3 DEF PackedIn
    <3>6. CASE y[2] # p
      BY <1>16, <3>1, <3>2, <3>4, <3>5, <3>6
    <3>7. CASE y[2] = p
      <4>1. allpsects[y[2]].size = s /\ allpsects[y[2]].alin = al /\ allpsects[y[2]].ovr = v
        BY <1>7, <3>7
      <4>2. allpsects'[y[2]].size = end /\ allpsects'[y[2]].alin = am /\ allpsects'[y[2]].ovr = v
        BY <1>17, <2>7, <3>7
      <4>3. objpsects'[y] = objpsects[y]
        BY <1>16, <3>1
      <4>4. /\ objpsects[y].base + objpsects[y].size <= end
            /\ objpsects[y].alin <= am
        BY <2>4, <2>6, <2>8, <3>4, <3>5, <4>1, <1>9
      <4>5. QED
        BY <3>2, <3>4, <3>5, <4>1, <4>2, <4>3, <4>4
    <3>8. QED
      BY <3>6, <3>7
  <2>13. x[2] = p
    BY <1>3
  <2>14. ASSUME NEW y \in Assigned, y[2] = p, ~v
         PROVE  objpsects[y].base + objpsects[y].size <= b
    BY <1>7, <2>4, <2>5, <2>7, <2>12, <2>14
  <2>15. ASSUME NEW y \in Assigned'
         PROVE  /\ objpsects'[y].base + objpsects'[y].size <= allpsects'[y[2]].size
                /\ objpsects'[y].base % objpsects'[y].alin = 0
                /\ objpsects'[y].alin <= allpsects'[y[2]].alin
                /\ allpsects'[y[2]].ovr => objpsects'[y].base = 0
    <3>1. CASE y \in Assigned
      BY <2>3, <2>12, <3>1 DEF PackedIn
    <3>2. CASE y = x
      <4>1. b + n <= e /\ b % a = 0 /\ a <= am /\ (v => b = 0)
        BY <2>5, <2>6, <2>7, <2>8
      <4>2. QED
        BY <1>17, <2>13, <3>2, <4>1
    <3>3. QED
      BY <2>11, <2>15, <3>1, <3>2
  <2>16. ASSUME NEW y \in Assigned', NEW z \in Assigned', y # z, y[2] = z[2], ~allpsects'[y[2]].ovr
         PROVE  Apart(objpsects'[y].base, objpsects'[y].size, objpsects'[z].base, objpsects'[z].size)
    <3>1. CASE y \in Assigned /\ z \in Assigned
      BY <2>3, <2>12, <2>16, <3>1 DEF PackedIn
    <3>2. CASE y = x /\ z \in Assigned
      <4>1. ~v /\ z[2] = p
        BY <1>17, <2>13, <2>16, <3>2
      <4>2. objpsects[z].base + objpsects[z].size <= b
        BY <2>14, <3>2, <4>1
      <4>3. QED
        BY <1>17, <2>12, <3>2, <4>2 DEF Apart
    <3>3. CASE y \in Assigned /\ z = x
      <4>1. ~v /\ y[2] = p
        BY <1>17, <2>13, <2>16, <3>3
      <4>2. objpsects[y].base + objpsects[y].size <= b
        BY <2>14, <3>3, <4>1
      <4>3. QED
        BY <1>17, <2>12, <3>3, <4>2 DEF Apart
    <3>4. QED
      BY <2>11, <2>16, <3>1, <3>2, <3>3
  <2>17. QED
    BY <2>15, <2>16 DEF PackedIn
<1>24. QED
  BY <1>18, <1>20, <1>21, <1>22, <1>23 DEF PlaceInv

(* One more psect behind the others. *)
LEMMA PlaceNext == IInv /\ Place => PlaceInv'
<1> SUFFICES ASSUME IInv, Place PROVE PlaceInv'
  OBVIOUS
<1>1. /\ passno = "place" /\ passno' = "place" /\ objfiles' = objfiles
      /\ objpsects' = objpsects /\ ifrefd' = ifrefd
  BY DEF Place
<1>2. PICK p \in DOMAIN allpsects \ placed :
          /\ allpsects' = [allpsects EXCEPT ![p].base = PlaceAt(p)]
          /\ base' = (PlaceAt(p) + allpsects[p].size) % WordSize
          /\ carried' = (carried \/ base + allpsects[p].alin + allpsects[p].size > WordSize)
          /\ placed' = placed \cup {p}
  BY DEF Place
<1>3. PICK at, n, a : at = PlaceAt(p) /\ n = allpsects[p].size /\ a = allpsects[p].alin
  OBVIOUS
<1>4. allpsects[p] \in PsectRecord /\ n \in Word /\ a \in {0, 1, 2, 3, 4, 8} /\ base \in Word
  BY <1>2, <1>3 DEF IInv, PlaceInv, PsectTypes, PsectRecord
<1>5. at \in Word
  <2>1. (base + a - 1) % WordSize \in Word /\ (WordSize - a) % WordSize \in Word
    BY <1>4, WordIs DEF WordSize
  <2>2. QED
    BY <1>3, <2>1, BitwiseType DEF PlaceAt, RoundUp
<1>6. /\ allpsects'[p] = [allpsects[p] EXCEPT !.base = at]
      /\ \A o \in DOMAIN allpsects : o # p => allpsects'[o] = allpsects[o]
      /\ DOMAIN allpsects' = DOMAIN allpsects
  BY <1>2, <1>3 DEF IInv, PlaceInv, PsectTypes
<1>7. /\ allpsects'[p] \in PsectRecord /\ allpsects'[p].base = at
      /\ allpsects'[p].size = n /\ allpsects'[p].alin = a /\ allpsects'[p].ovr = allpsects[p].ovr
  BY <1>3, <1>4, <1>5, <1>6 DEF PsectRecord
<1>8. \A o \in DOMAIN allpsects : /\ allpsects'[o].size = allpsects[o].size
                                  /\ allpsects'[o].alin = allpsects[o].alin
                                  /\ allpsects'[o].ovr = allpsects[o].ovr
  BY <1>3, <1>6, <1>7
<1>9. base' \in Word /\ carried' \in BOOLEAN
  <2>1. (at + n) % WordSize \in Word
    BY <1>4, <1>5, WordIs DEF WordSize
  <2>2. QED
    BY <1>2, <1>3, <2>1
<1>10. PsectTypes'
  <2>1. allpsects' \in [DOMAIN allpsects' -> PsectRecord]
    BY <1>2, <1>6, <1>7 DEF IInv, PlaceInv, PsectTypes
  <2>2. placed' \subseteq DOMAIN allpsects'
    BY <1>2, <1>6 DEF IInv, PlaceInv, PsectTypes
  <2>3. QED
    BY <1>1, <1>9, <2>1, <2>2 DEF IInv, PlaceInv, PsectTypes
<1>11. Files' = Files /\ \A f, i, o : HasPsect(f, i, o)' <=> HasPsect(f, i, o)
  BY <1>1 DEF Files, HasPsect
<1>12. Declared' /\ Entered'
  BY <1>1, <1>6, <1>11 DEF IInv, PlaceInv, Declared, Entered, Linking
<1>13. ~carried' => ~carried /\ base + a + n <= 65536
  <2>1. ~carried' => ~carried /\ ~(base + a + n > WordSize)
    BY <1>2, <1>3
  <2>2. base \in Int /\ n \in Int /\ a \in Int
    BY <1>4, WordIs
  <2>3. QED
    BY <2>1, <2>2 DEF WordSize
<1>14. Packed'
  <2>1. Parts' = Parts
    BY <1>1, <1>11 DEF Parts, Loaded
  <2>2. \A x \in Parts : x[2] \in DOMAIN allpsects
    BY DEF IInv, PlaceInv, Declared, Parts
  <2>3. PackedIn(Parts) => PackedIn(Parts)'
    BY <1>1, <1>8, <2>1, <2>2 DEF PackedIn
  <2>4. QED
    BY <1>1, <1>13, <2>3 DEF IInv, PlaceInv, Packed
<1>15. Laid'
  <2>1. SUFFICES ASSUME ~carried', Real' PROVE InOrder'
    BY <1>1 DEF Laid
  <2>2. Real
    BY <1>6, <1>8, <2>1 DEF Real
  <2>3. InOrder
    BY <1>13, <2>1, <2>2 DEF IInv, PlaceInv, Laid
  <2>4. a \in {1, 2, 4, 8}
    BY <1>2, <1>3, <2>2 DEF Real, Alignments
  <2>5. at \in Nat /\ at % a = 0 /\ base <= at /\ at + n < 65536
    <3>1. PICK r : r = RoundUp(base, a)
      OBVIOUS
    <3>2. r \in Nat /\ r % a = 0 /\ base <= r /\ r < base + a
      <4>1. base + a <= 65536
        <5>1. n \in Nat /\ base \in Nat
          BY <1>4, WordIs
        <5>2. QED
          BY <1>13, <2>1, <2>4, <5>1
      <4>2. QED
        BY <1>4, <2>4, <3>1, <4>1, RoundsUp
    <3>3. n \in Nat /\ base \in Nat
      BY <1>4, WordIs
    <3>4. r + n < 65536
      BY <1>13, <2>1, <2>4, <3>2, <3>3
    <3>5. at = r
      BY <1>3, <3>1 DEF PlaceAt
    <3>6. QED
      BY <3>2, <3>4, <3>5
  <2>6. n \in Nat /\ base \in Nat
    BY <1>4, WordIs
  <2>7. base' = at + n
    <3>1. base' = (at + n) % WordSize
      BY <1>2, <1>3
    <3>2. QED
      BY <2>5, <2>6, <3>1 DEF WordSize
  <2>8. ASSUME NEW o \in placed
        PROVE  /\ allpsects'[o] = allpsects[o]
               /\ allpsects[o].base \in Nat /\ allpsects[o].size \in Nat
               /\ allpsects[o].base + allpsects[o].size <= base
               /\ allpsects[o].base % allpsects[o].alin = 0
    <3>1. o \in DOMAIN allpsects /\ o # p
      BY <1>2 DEF IInv, PlaceInv, PsectTypes
    <3>2. allpsects[o] \in PsectRecord
      BY <3>1 DEF IInv, PlaceInv, PsectTypes
    <3>3. allpsects[o].base \in Nat /\ allpsects[o].size \in Nat
      BY <3>2, WordIs DEF PsectRecord
    <3>4. QED
      BY <1>6, <2>3, <3>1, <3>3 DEF InOrder
  <2>9. ASSUME NEW o \in placed'
        PROVE  /\ allpsects'[o].base + allpsects'[o].size <= base'
               /\ allpsects'[o].base % allpsects'[o].alin = 0
    <3>1. CASE o = p
      BY <1>7, <2>5, <2>6, <2>7, <3>1
    <3>2. CASE o \in placed
      <4>1. base <= base'
        BY <2>5, <2>6, <2>7
      <4>2. QED
        BY <2>5, <2>6, <2>7, <2>8, <3>2, <4>1
    <3>3. QED
      BY <1>2, <2>9, <3>1, <3>2
  <2>10. ASSUME NEW o \in placed', NEW r \in placed', o # r
         PROVE  Apart(allpsects'[o].base, allpsects'[o].size, allpsects'[r].base, allpsects'[r].size)
    <3>1. CASE o \in placed /\ r \in placed
      BY <2>3, <2>8, <2>10, <3>1 DEF InOrder
    <3>2. CASE o = p /\ r \in placed
      <4>1. allpsects'[r].base + allpsects'[r].size <= at
        BY <2>5, <2>6, <2>8, <3>2
      <4>2. QED
        BY <1>7, <3>2, <4>1 DEF Apart
    <3>3. CASE o \in placed /\ r = p
      <4>1. allpsects'[o].base + allpsects'[o].size <= at
        BY <2>5, <2>6, <2>8, <3>3
      <4>2. QED
        BY <1>7, <3>3, <4>1 DEF Apart
    <3>4. QED
      BY <1>2, <2>10, <3>1, <3>2, <3>3
  <2>11. QED
    BY <2>9, <2>10 DEF InOrder
<1>16. QED
  BY <1>10, <1>12, <1>14, <1>15 DEF PlaceInv

(* In the end the parts are where their psects are. *)
LEMMA PartsApart == IInv => PlacesApart
<1> SUFFICES ASSUME IInv, passno \in {"pass3", "done"}, ~carried, Raised
             PROVE  /\ \A x, y \in Parts : x # y =>
                        \/ First(x) + objpsects[x].size <= First(y)
                        \/ First(y) + objpsects[y].size <= First(x)
                        \/ x[2] = y[2] /\ allpsects[x[2]].ovr /\ First(x) = First(y)
                    /\ \A x \in Parts : First(x) % objpsects[x].alin = 0
  BY DEF PlacesApart
<1>1. \A x \in Parts : /\ x \in DOMAIN objpsects /\ x[2] \in DOMAIN allpsects
                       /\ x = <<x[1], x[2]>>
  BY DEF Parts, IInv, PlaceInv, Declared
<1>2. ASSUME NEW x \in Parts
      PROVE  /\ objpsects[x].base \in Nat /\ objpsects[x].size \in Nat
             /\ objpsects[x].alin \in Alignments
             /\ allpsects[x[2]].base \in Nat /\ allpsects[x[2]].size \in Nat
  <2>1. objpsects[x] \in PartRecord /\ allpsects[x[2]] \in PsectRecord
    BY <1>1 DEF IInv, PlaceInv, PsectTypes
  <2>2. QED
    BY <2>1, WordIs DEF PartRecord, PsectRecord
<1>3. Real
  BY <1>2 DEF Raised, Real
<1>4. PackedIn(Parts) /\ InOrder /\ placed = DOMAIN allpsects
  BY <1>3 DEF IInv, PlaceInv, Packed, Laid
<1>5. \A x \in Parts : First(x) = objpsects[x].base + allpsects[x[2]].base
  BY <1>1 DEF First, PartBase
<1>6. ASSUME NEW x \in Parts, NEW y \in Parts, x # y
      PROVE  \/ First(x) + objpsects[x].size <= First(y)
             \/ First(y) + objpsects[y].size <= First(x)
             \/ x[2] = y[2] /\ allpsects[x[2]].ovr /\ First(x) = First(y)
  <2>1. /\ objpsects[x].base + objpsects[x].size <= allpsects[x[2]].size
        /\ objpsects[y].base + objpsects[y].size <= allpsects[y[2]].size
    BY <1>4 DEF PackedIn
  <2>2. CASE x[2] # y[2]
    <3>1. Apart(allpsects[x[2]].base, allpsects[x[2]].size, allpsects[y[2]].base, allpsects[y[2]].size)
      BY <1>1, <1>4, <2>2 DEF InOrder
    <3>2. QED
      BY <1>2, <1>5, <2>1, <3>1 DEF Apart
  <2>3. CASE x[2] = y[2] /\ ~allpsects[x[2]].ovr
    <3>1. Apart(objpsects[x].base, objpsects[x].size, objpsects[y].base, objpsects[y].size)
      BY <1>4, <1>6, <2>3 DEF PackedIn
    <3>2. QED
      BY <1>2, <1>5, <2>3, <3>1 DEF Apart
  <2>4. CASE x[2] = y[2] /\ allpsects[x[2]].ovr
    <3>1. objpsects[x].base = 0 /\ objpsects[y].base = 0
      BY <1>4, <2>4 DEF PackedIn
    <3>2. QED
      BY <1>2, <1>5, <2>4, <3>1
  <2>5. QED
    BY <2>2, <2>3, <2>4
<1>7. ASSUME NEW x \in Parts PROVE First(x) % objpsects[x].alin = 0
  <2>1. PICK b, c, a, d : /\ b = objpsects[x].base /\ c = allpsects[x[2]].base
                          /\ a = objpsects[x].alin /\ d = allpsects[x[2]].alin
    OBVIOUS
  <2>2. b % a = 0 /\ a <= d
    BY <1>4, <2>1 DEF PackedIn
  <2>3. c % d = 0 /\ d \in {1, 2, 4, 8}
    BY <1>1, <1>3, <1>4, <2>1 DEF InOrder, Real, Alignments
  <2>4. a \in {1, 2, 4, 8} /\ b \in Nat /\ c \in Nat
    BY <1>2, <2>1 DEF Alignments
  <2>5. c % a = 0
    BY <2>2, <2>3, <2>4
  <2>6. (b + c) % a = 0
    BY <2>2, <2>4, <2>5
  <2>7. QED
    BY <1>5, <2>1, <2>6
<1>8. QED
  BY <1>6, <1>7

(* The linker gives every part of every psect its own place, aligned as its
   file asks, whatever the object files, as long as everything fits (link.c:165-218). *)
THEOREM NothingOverlaps == LinkSpec => []PlacesApart
<1>1. LinkInit => IInv
  BY LoadInit, PlaceInit DEF IInv
<1>2. IInv /\ [LinkNext]_linkVars => IInv'
  <2>1. LoadInv /\ [LinkNext]_linkVars => LoadInv'
    BY LoadQuiet, LoadSymbol, LoadWord, LoadPass DEF LinkNext
  <2>2. IInv /\ [LinkNext]_linkVars => PlaceInv'
    BY PlaceReading, PlacePass, PlaceDone, PlacePsect, PlacePart, PlaceNext DEF LinkNext, Reading
  <2>3. QED
    BY <2>1, <2>2 DEF IInv
<1>3. QED
  BY <1>1, <1>2, PartsApart, PTL DEF LinkSpec

(* Both: what is needed is loaded, and nothing lies on anything else. *)
THEOREM LinkerIsRight == LinkSpec => []LinksRight
BY LoadsTheLeast, NothingOverlaps, PTL DEF LinksRight
=============================================================================
