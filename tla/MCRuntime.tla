------------------------------ MODULE MCRuntime ------------------------------
(***************************************************************************)
(* The run-time library above the processor and the calls it makes of the  *)
(* host, one part at a time: a stream that is written, a stream that is    *)
(* read, exceptions, files and the terminal, the calls with buffers, a     *)
(* line that is edited, arrays that are sorted, conversions, arithmetic.   *)
(***************************************************************************)
EXTENDS Throw, Syscalls, FdFile, ReadLine, CLib

CONSTANTS chA, chB, nl      \* characters

VARIABLE part

(* The buffers, of three characters, are in the .cfg: a text that is longer,
   and lines shorter and longer than what gets is given room for. *)
MCTexts == {<<chA>>, <<nl>>, <<chA, chB>>, <<chB, nl, chA>>, <<chA, chB, chA, chB>>}
MCSources == {<<>>, <<chA, nl, chB>>, <<chA, chB, chA, chB, nl>>}

(* Five pointer types: 1 is void *, the last subtype of every other; 3 extends
   2, and 4 extends 2 and, at offset 6, 5.  The names are at the hundreds.
   Thrown and caught are 2 and 5, which extend nothing. *)
MCTypeTable ==
    [t \in 1 .. 5 |->
        CASE t = 1 -> <<100, 0>>
          [] t = 2 -> <<200, 1, 0, 0>>
          [] t = 3 -> <<300, 2, 0, 1, 0, 0>>
          [] t = 4 -> <<400, 2, 0, 5, 6, 1, 0, 0>>
          [] t = 5 -> <<500, 1, 0, 0>>]
MCCatchLists == {<< >>, <<2>>, <<5, 2>>}

(* Two arguments; a file and the terminal by name, two descriptors above the
   standard ones and a memory of four bytes below MAGIC are in the .cfg. *)
MCArgs == <<1, 2>>

(* Every day that 32 bits of seconds reach, times about midnight and ten. *)
MCDays == 0 .. 49710
MCTimes == {86400 * d + s : d \in {0, 1, 11016, 24854},
                            s \in {0, 59, 60, 3599, 3600, 35999, 68400, 86399}}

(* With longs of 8 bits: signs, blanks and 0x before digits of several bases,
   and before what is none, about where the values become too great. *)
MCNumerals ==
    {p \o d : p \in {<<>>, <<45>>, <<32>>, <<48, 120>>},
              d \in {<<x>> : x \in {48, 57, 65, 122, 46}}
                   \cup {<<49, x, y>> : x \in {48, 50, 53, 55, 97},
                                        y \in {48, 53, 54, 55, 102, 46}}
                   \cup {<<49, 50, 56>>, <<49, 50, 57>>, <<57, 57, 57>>}}

(* Parts of a format with their arguments: numbers where digits, sizes and
   signs change, texts with what cannot be printed, and fractions where they
   are rounded. *)
MCFlags == {<<>>} \cup {<<f>> : f \in {"#", "0", "-", " ", "+"}}
             \cup {<<f, g>> : f, g \in {"0", "-", " ", "+"}}
MCIntegers ==
    [conv : {"d", "u", "o", "x"}, size : {1, 2}, arg : {0, 9, 10, 255, 128, -1, 32767, -32768},
     flags : MCFlags, width : {0, 3, 7}, precision : {-1, 0, 4}]
MCStrings ==
    [conv : {"s", "S"}, text : {<<>>, <<97>>, <<97, 7, 200, 98>>},
     flags : {<<>>, <<"-">>, <<"0">>}, width : {0, 3, 7}, precision : {-1, 0, 2}]
MCFloats ==
    [conv : {"e", "f", "g"}, fnum : {1000, 1499, 1500, 4995, 5000, 9499, 9500, 9994, 9995, 9999},
     expon : -3 .. 2, negative : BOOLEAN, flags : {<<>>, <<"#">>, <<"0">>, <<"-">>, <<"+">>},
     width : {0, 9}, precision : {0, 1, 2, 3}]
MCLetter(width) == [conv |-> "c", text |-> <<97>>, flags |-> <<>>, width |-> width, precision |-> -1]
MCFormats ==
    {<<part1>> : part1 \in MCIntegers \cup MCStrings \cup MCFloats}
    \cup {<<[conv |-> "text", text |-> <<97, 98>>], MCLetter(w), s>> : w \in {0, 3}, s \in MCStrings}

(* Bound: the calls with buffers change little, and three in a row are enough. *)
MaxBufferCalls == 3

------------------------------------------------------------------------------
(* The arithmetic, one call of one routine: whole numbers with words of three
   bits, quads with words of two, and floating point numbers of two words of
   five bits and of four words of four. *)
VARIABLES
    unit,                       \* which of the four
    routine, inplace,           \* IntLib's own
    op, code,                   \* FpNative's own
    left, rite, called, out     \* both have

intVars == <<routine, inplace>>
fpVars == <<op, code>>
arithVars == <<unit, intVars, fpVars, left, rite, called, out>>

Words == INSTANCE IntLib WITH W <- 3, Routines <-
    {"div_WWW", "mod_WWW", "mul_WWW", "div_wwW", "mod_wwW", "mul_wwW", "div_www",
     "mod_www", "mul_www", "div_LLW", "mod_WLW", "mul_LLW", "mul_llw", "mul_LWL",
     "mul_LLL", "div_LLL", "mod_LLL", "shl_WWW", "shr_WWW", "shr_wwW", "shl_LLW",
     "shr_LLW", "shr_llW"}
Quads == INSTANCE IntLib WITH W <- 2, Routines <-
    {"div_QQW", "mod_WQW", "div_QQL", "neg_QQ", "sub_QQQ", "cmp_QQ", "shl_QQW", "shr_QQW",
     "shr_qqW", "div_QQQ", "mod_QQQ"}

(* Mantissas where the rounding and the normalizing change.  Signs differ
   enough with those of the left operand and with sub for add. *)
Fracs(h) == {0, 1, 2, h \div 2, h - 2, h - 1, (2 * h) \div 3}
AllOps == {"add", "sub", "mul", "div", "cmp"}
Single == INSTANCE FpNative WITH W <- 5, E <- 3, N <- 2, Ops <- AllOps,
    Lefts <- 0 .. 1023,
    Rites <- {e * 64 + f : e \in 0 .. 7, f \in Fracs(64)}

(* Mantissas of small and subnormal numbers, and where the words change. *)
Double == INSTANCE FpNative WITH W <- 4, E <- 2, N <- 4, Ops <- AllOps,
    Lefts <- {e * 8192 + f : e \in 0 .. 2,
                  f \in {x \in 0 .. 8191 : x % 97 = 0 \/ x >= 8176}},
    Rites <- {s * 32768 + e * 8192 + f : s \in {0, 1}, e \in 0 .. 3,
                  f \in Fracs(8192) \cup {15, 255, 8176, 8175, 53}}

NoFp == op = "none" /\ code = [rel |-> 0, opposite |-> FALSE]
NoInt == routine = "none" /\ inplace = FALSE

NoArith == unit = "none" /\ NoFp /\ NoInt /\ left = 0 /\ rite = 0 /\ called = FALSE /\ out = 0

ArithInit ==
    \/ unit = "words" /\ Words!Init /\ NoFp
    \/ unit = "quads" /\ Quads!Init /\ NoFp
    \/ unit = "single" /\ Single!Init /\ NoInt
    \/ unit = "double" /\ Double!Init /\ NoInt

ArithNext ==
    \/ unit = "words" /\ Words!Next /\ UNCHANGED <<unit, fpVars>>
    \/ unit = "quads" /\ Quads!Next /\ UNCHANGED <<unit, fpVars>>
    \/ unit = "single" /\ Single!Next /\ UNCHANGED <<unit, intVars>>
    \/ unit = "double" /\ Double!Next /\ UNCHANGED <<unit, intVars>>

-------------------------------------------------------------------------------
(* Quotients, remainders, products, shifts by the count modulo the number of
   bits, and comparisons word by word are those of the operands as numbers, and
   the host's calls that replace the routines give the same. *)
IntegersRight ==
    /\ unit = "words" => /\ Words!DividesRight /\ Words!MultipliesRight
                         /\ Words!ShiftsRight /\ Words!HostSame
    /\ unit = "quads" => Quads!DividesRight /\ Quads!ShiftsRight /\ Quads!ComparesRight

(* Floating point results are as close to the host's as fpmptest.c asks;
   differences of magnitudes keep their sign and are off by less than a unit in
   the last place of the larger operand; sums and products do not depend on the
   order of the operands; numbers compare as numbers for every code, and
   not-a-number goes through every operation. *)
FloatsRight ==
    /\ unit = "single" =>
           /\ Single!CloseEnuf /\ Single!DifferenceBounded /\ Single!Commutes
           /\ Single!ComparesRight /\ Single!NansStay
    /\ unit = "double" => Double!CloseEnuf /\ Double!ComparesRight /\ Double!NansStay

ArithmeticRight == IntegersRight /\ FloatsRight

------------------------------------------------------------------------------
MCVars == <<part, fileVars, vars, callVars, editVars, clibVars, arithVars>>

MCInit ==
    /\ part \in {"writer", "reader", "throw", "files", "buffers", "editor", "sort", "convert", "arithmetic"}
    /\ FileInit /\ (part # "reader" => source = <<>>)
    /\ Init
    /\ CallsInit
    /\ EditInit
    /\ CLibInit
    /\ IF part = "arithmetic" THEN ArithInit ELSE NoArith

MCNext ==
    /\ \/ part = "writer" /\ Writing /\ UNCHANGED <<vars, callVars>>
       \/ part = "reader" /\ (Reading \/ Fclose) /\ UNCHANGED <<vars, callVars>>
       \/ part = "throw" /\ Next /\ UNCHANGED <<fileVars, callVars>>
       \/ part = "files" /\ (FileCalls \/ Exit) /\ UNCHANGED <<fileVars, vars>>
       \/ /\ part = "buffers" /\ ncalls < MaxBufferCalls
          /\ CallsNext /\ UNCHANGED <<fileVars, vars>>
       \/ part \in {"editor", "sort", "convert", "arithmetic"} /\ UNCHANGED <<fileVars, vars, callVars>>
    /\ IF part = "editor" THEN EditNext ELSE UNCHANGED editVars
    /\ CASE part = "sort" -> Sorting
         [] part = "convert" -> Converting
         [] OTHER -> UNCHANGED clibVars
    /\ IF part = "arithmetic" THEN ArithNext ELSE UNCHANGED arithVars
    /\ UNCHANGED part

MCSpec == MCInit /\ [][MCNext]_MCVars
===============================================================================
