------------------------------- MODULE ReadLine -------------------------------
(***************************************************************************)
(* class ReadLine of crtl/library/readline.c: a line is edited key by key  *)
(* in a buffer that grows, and the terminal, which does not echo, is shown *)
(* what changes with backspaces, spaces and parts of the line.             *)
(*                                                                         *)
(* screen is what the terminal has right of the prompt.  stale is a        *)
(* history: up to where characters of a line that is gone may still be.    *)
(***************************************************************************)
EXTENDS Integers, Sequences

CONSTANTS
    Keys,           \* the characters that are inserted
    SP,             \* the space
    LINE,           \* size of the first buffer of a line
    Slack,          \* bound: malloc gives at most this much more than asked for
    MaxLine,        \* bound: no line gets longer by typing than this
    MaxHist         \* bound: no more lines are saved than this

ASSUME ReadLineAssumption ==
    LINE \in Nat /\ LINE >= 2 /\ Slack \in Nat /\ MaxLine \in Nat /\ MaxHist \in Nat

VARIABLES
    history,        \* histlines and histalloc
    edit,           \* the read that is going on: its line, buffer and positions
    result,         \* what the last read returned
    screen, stale

editVars == <<history, edit, result, screen, stale>>

NoLine == [reading |-> FALSE, line |-> <<>>, size |-> LINE, posn |-> 0, histindex |-> 0]
NoResult == [line |-> <<>>, there |-> FALSE]
Blank == [cells |-> <<>>, cursor |-> 0]
histcount == Len(history.lines)
lineused == Len(edit.line)
Before == SubSeq(edit.line, 1, edit.posn)
After == SubSeq(edit.line, edit.posn + 1, lineused)

(* A buffer of at least size characters, as allocsz tells. *)
Buffers(size) == size .. size + Slack

(* writeall, writespc and writebks: they write until all has been written. *)
writeall(scr, text) ==
    LET end == scr.cursor + Len(text)
        written == scr.cursor + 1 .. end
    IN [cells |-> [i \in 1 .. (IF end > Len(scr.cells) THEN end ELSE Len(scr.cells)) |->
                      IF i \in written THEN text[i - scr.cursor] ELSE scr.cells[i]],
        cursor |-> end]
writespc(scr, size) == writeall(scr, [i \in 1 .. size |-> SP])
writebks(scr, size) == IF size > 0 THEN [scr EXCEPT !.cursor = @ - size] ELSE scr

(* A read begins where the prompt ends. *)
Prompt ==
    /\ ~edit.reading
    /\ \E size \in Buffers(LINE) :
          edit' = [reading |-> TRUE, line |-> <<>>, size |-> size, posn |-> 0,
                   histindex |-> histcount]
    /\ screen' = Blank /\ stale' = 0 /\ result' = NoResult
    /\ UNCHANGED history

(* One key that leaves the line as it is and the cursor at posn. *)
Moves(posn) == edit' = [edit EXCEPT !.posn = posn] /\ UNCHANGED <<history, result, stale>>

LineBegin == edit.reading /\ screen' = writebks(screen, edit.posn) /\ Moves(0)
LineEnd == edit.reading /\ screen' = writeall(screen, After) /\ Moves(lineused)
Left ==
    /\ edit.reading /\ edit.posn > 0
    /\ screen' = writebks(screen, 1) /\ Moves(edit.posn - 1)
Right ==
    /\ edit.reading /\ edit.posn < lineused
    /\ screen' = writeall(screen, SubSeq(edit.line, edit.posn + 1, edit.posn + 1))
    /\ Moves(edit.posn + 1)

(* One key that changes the line. *)
Changes(line, posn, size, index) ==
    /\ edit' = [edit EXCEPT !.line = line, !.posn = posn, !.size = size, !.histindex = index]
    /\ UNCHANGED <<history, result>>

DeleteBefore ==
    /\ edit.reading /\ edit.posn > 0
    /\ screen' = writebks(writespc(writeall(writebks(screen, edit.posn), After), edit.posn),
                          lineused)
    /\ Changes(After, 0, edit.size, edit.histindex) /\ UNCHANGED stale

Rubbed_short(scr) == writebks(writeall(writebks(scr, 1), After), lineused - edit.posn)
Rubbed(scr) ==
    writebks(writespc(writeall(writebks(scr, 1), After), 1), lineused - edit.posn + 1)
DeleteChar ==
    /\ edit.reading /\ edit.posn > 0
    /\ screen' = Rubbed(screen)
    /\ Changes(SubSeq(edit.line, 1, edit.posn - 1) \o After, edit.posn - 1, edit.size,
               edit.histindex)
    /\ UNCHANGED stale

(* The buffer is grown while two more characters would not fit. *)
Grown(size) == IF lineused + 2 >= size THEN Buffers(size + size \div 2) ELSE {size}
Insert(ch) ==
    /\ edit.reading /\ lineused < MaxLine
    /\ \E size \in Grown(edit.size) :
          Changes(Before \o <<ch>> \o After, edit.posn + 1, size, edit.histindex)
    /\ screen' = writebks(writeall(screen, <<ch>> \o After), lineused - edit.posn)
    /\ UNCHANGED stale

(* newhistline: past the last line of the history there is an empty one.  Then *)
(* only what is left of the cursor is taken off the screen.                    *)
newhistline(index) ==
    IF index < histcount
      THEN LET line == history.lines[index + 1]
               hll == Len(line)
           IN /\ \E size \in IF edit.size < hll + 1 THEN Buffers(hll + 1) ELSE {edit.size} :
                    Changes(line, hll, size, index)
              /\ screen' = writebks(writespc(writeall(writebks(screen, edit.posn), line),
                                             lineused - hll), lineused - hll)
              /\ UNCHANGED stale
      ELSE /\ Changes(<<>>, 0, edit.size, index)
           /\ screen' = writebks(writespc(writebks(screen, edit.posn), edit.posn), edit.posn)
           /\ stale' = IF edit.posn < lineused /\ lineused > stale THEN lineused ELSE stale

NextLine == edit.reading /\ edit.histindex < histcount /\ newhistline(edit.histindex + 1)
PrevLine == edit.reading /\ edit.histindex > 0 /\ newhistline(edit.histindex - 1)

(* The read ends with a line, or without one: at end of file, when a read or a *)
(* write fails, where the buffer of the line is given up.                      *)
Returns(r) == edit' = NoLine /\ result' = r /\ UNCHANGED <<history, screen, stale>>
Done == edit.reading /\ Returns([line |-> edit.line, there |-> TRUE])
GivesUp == edit.reading /\ Returns(NoResult)

(* save: the list of lines grows by half and two. *)
Save ==
    /\ result.there /\ histcount < MaxHist
    /\ history' = [lines |-> Append(history.lines, result.line),
                   alloc |-> IF histcount >= history.alloc
                               THEN history.alloc + history.alloc \div 2 + 2
                               ELSE history.alloc]
    /\ result' = NoResult /\ UNCHANGED <<edit, screen, stale>>

Forget ==
    /\ ~edit.reading /\ history' = [lines |-> <<>>, alloc |-> 0]
    /\ UNCHANGED <<edit, result, screen, stale>>

EditInit ==
    /\ history = [lines |-> <<>>, alloc |-> 0]
    /\ edit = NoLine /\ result = NoResult /\ screen = Blank /\ stale = 0

EditNext ==
    \/ Prompt \/ LineBegin \/ LineEnd \/ Left \/ Right
    \/ DeleteBefore \/ DeleteChar \/ \E ch \in Keys : Insert(ch)
    \/ NextLine \/ PrevLine
    \/ Done \/ GivesUp \/ Save \/ Forget

EditSpec == EditInit /\ [][EditNext]_editVars

-------------------------------------------------------------------------------
Lines == Seq(Keys)
EditTypeOK ==
    /\ history.lines \in Seq(Lines) /\ history.alloc \in Nat /\ histcount <= history.alloc
    /\ edit.line \in Lines /\ edit.posn \in 0 .. lineused /\ edit.histindex \in Nat
    /\ edit.histindex <= histcount
    /\ result.line \in Lines /\ stale \in Nat

(***************************************************************************)
(* Whatever is typed, recalled and deleted, the line and the zero behind   *)
(* it fit in the buffer (the assertion of readline.c:128).                 *)
(***************************************************************************)
InsideBuffer == lineused < edit.size /\ edit.size >= 2

(***************************************************************************)
(* The screen shows the line, with the cursor where the next key acts, and *)
(* nothing of earlier lines behind it but what newhistline has left there. *)
(***************************************************************************)
ScreenShowsLine ==
    edit.reading =>
        /\ screen.cursor = edit.posn
        /\ lineused <= Len(screen.cells)
        /\ \A i \in DOMAIN screen.cells :
              /\ i <= lineused => screen.cells[i] = edit.line[i]
              /\ i > lineused /\ i > stale => screen.cells[i] = SP

EditorRight == EditTypeOK /\ InsideBuffer /\ ScreenShowsLine
===============================================================================
