-------------------------------- MODULE FdFile --------------------------------
(***************************************************************************)
(* struct FILE of crtl/library/fdfile.c: a write buffer, a read buffer and *)
(* the system calls under them.                                            *)
(*                                                                         *)
(* A put or gets that goes round its loop is several steps, any other call *)
(* one.  The operating system may write and read less than it was asked    *)
(* for, and may fail each time.  given, copied and taken are histories:    *)
(* what the program has put, what put has copied to the buffer for it, and *)
(* what getc and gets have returned; kept is where in what write was given *)
(* the characters are that a buffer let go.                                *)
(***************************************************************************)
EXTENDS Integers, Sequences

CONSTANTS
    BUFSIZ,         \* size of a buffer
    NL,             \* the newline character
    Texts,          \* what the program may put
    Sizes,          \* what it may pass to gets as size
    Sources,        \* what may be in the file it reads
    MaxGiven,       \* bound: the program puts no more characters than this
    MaxFails        \* bound: no more flushes fail than this

Chars == UNION {{text[i] : i \in DOMAIN text} : text \in Texts \cup Sources}

ASSUME FileAssumption ==
    /\ BUFSIZ \in Nat /\ MaxGiven \in Nat /\ MaxFails \in Nat /\ Sizes \subseteq Int
    /\ Texts \subseteq Seq(Chars) /\ Sources \subseteq Seq(Chars)

VARIABLES
    file,           \* the members of FILE
    sent, input,    \* what write has been given, what read has yet to return
    call, retcode,       \* the put or gets that is looping; the last return code
    given, copied, taken, source, kept,
    fails,          \* how many flushes have failed
    astray          \* the places in copied that puts filled in a later round

writeside == <<sent, kept, given, copied, fails, astray>>
putside == <<given, copied, astray>>
readside  == <<input, taken, source>>
fileVars == <<file, call, retcode, writeside, readside>>

Idle == [op |-> "none"]
_IONBF == 0     _IOLBF == 1     _IOFBF == 2
wused == Len(file.wbuff)
Least(a, b) == IF a < b THEN a ELSE b

LetGo == kept' = kept \o [i \in 1 .. wused |-> Len(sent) + i]

flush_restart(n) ==
    /\ LetGo
    /\ sent' = sent \o SubSeq(file.wbuff, 1, n) \o SubSeq(file.wbuff, 1, wused - n)
    /\ file' = [file EXCEPT !.wsize = BUFSIZ, !.wbuff = <<>>, !.wchkd = 0]
    /\ retcode' = 0 /\ UNCHANGED fails

(* flush: a buffer of which write has taken n characters before it failed is *)
(* kept whole.                                                               *)
flush(n) ==
    /\ sent' = sent \o SubSeq(file.wbuff, 1, n)
    /\ IF n = wused
         THEN /\ file' = [file EXCEPT !.wsize = BUFSIZ, !.wbuff = <<>>, !.wchkd = 0]
              /\ LetGo /\ retcode' = 0 /\ UNCHANGED fails
         ELSE file' = [file EXCEPT !.wsize = BUFSIZ] /\ retcode' = -1 /\ fails' = fails + 1
              /\ UNCHANGED kept

Flushes == \E n \in 0 .. wused : (n < wused => fails < MaxFails) /\ flush(n)

(* maybeflush: characters that have been looked at are passed over. *)
LooksFrom_end == wused - 1
LooksFrom == file.wchkd
NewLine == \E i \in LooksFrom + 1 .. wused : file.wbuff[i] = NL
maybeflush ==
    IF file.wmode = _IOFBF \/ (file.wmode = _IOLBF /\ ~NewLine)
      THEN /\ file' = IF file.wmode = _IOFBF THEN file ELSE [file EXCEPT !.wchkd = wused]
           /\ retcode' = 0 /\ UNCHANGED <<sent, kept, fails>>
      ELSE Flushes

(* put (putc is a put of one character), with buf where it is in the code: at *)
(* the beginning, each time round.                                            *)
Put(text) ==
    /\ call = Idle /\ Len(given) + Len(text) <= MaxGiven
    /\ call' = [op |-> "put", text |-> text, len |-> Len(text)]
    /\ UNCHANGED <<file, retcode, writeside, readside>>

Copied(text, room) == SubSeq(text, 1, room)

PutCopies ==
    /\ call.op = "put" /\ call.len > 0 /\ wused < file.wsize
    /\ LET room == Least(file.wsize - wused, call.len)
           done == Len(call.text) - call.len
       IN /\ file' = [file EXCEPT !.wbuff = @ \o Copied(call.text, room)]
          /\ given' = given \o SubSeq(call.text, done + 1, done + room)
          /\ copied' = copied \o Copied(call.text, room)
          /\ astray' = IF done > 0 THEN astray \cup (Len(given) + 1 .. Len(given) + room)
                                  ELSE astray
          /\ call' = [call EXCEPT !.len = @ - room]
    /\ UNCHANGED <<retcode, sent, kept, fails, readside>>

PutFlushes ==
    /\ call.op = "put" /\ call.len > 0 /\ wused >= file.wsize
    /\ Flushes
    /\ call' = IF retcode' < 0 THEN Idle ELSE call
    /\ UNCHANGED <<putside, readside>>

PutEnds ==
    /\ call.op = "put" /\ call.len = 0
    /\ maybeflush
    /\ call' = Idle
    /\ UNCHANGED <<putside, readside>>

(* fflush; and the program chooses how output is buffered. *)
Fflush == call = Idle /\ Flushes /\ UNCHANGED <<call, putside, readside>>
SetMode(mode) ==
    /\ call = Idle /\ file' = [file EXCEPT !.wmode = mode]
    /\ UNCHANGED <<call, retcode, writeside, readside>>

(* fill: characters are added behind those not used yet, which are moved to *)
(* the beginning; a read returns none at the end and -1 when it fails.      *)
fill ==
    LET room == BUFSIZ - Len(file.unread)
    IN \/ \E n \in 1 .. Least(room, Len(input)) :
            /\ file' = [file EXCEPT !.unread = @ \o SubSeq(input, 1, n)]
            /\ input' = SubSeq(input, n + 1, Len(input)) /\ retcode' = n
       \/ retcode' \in (IF input = <<>> THEN {0, -1} ELSE {-1}) /\ UNCHANGED <<file, input>>

(* gets; getc is a gets of a line of one character. *)
Gets(size) ==
    /\ call = Idle /\ size > 0
    /\ call' = [op |-> "gets", left |-> size - 1, line |-> <<>>]
    /\ UNCHANGED <<file, retcode, writeside, readside>>

LineEnds(line, left) == left = 0 \/ (line # <<>> /\ line[Len(line)] = NL)
GetsReturns(line) == call' = Idle /\ taken' = taken \o line

GetsTakes ==
    /\ call.op = "gets" /\ ~LineEnds(call.line, call.left) /\ file.unread # <<>>
    /\ file' = [file EXCEPT !.unread = Tail(@)]
    /\ call' = [call EXCEPT !.line = Append(@, Head(file.unread)), !.left = @ - 1]
    /\ UNCHANGED <<retcode, writeside, readside>>

GetsFills_null ==
    /\ call.op = "gets" /\ ~LineEnds(call.line, call.left) /\ file.unread = <<>>
    /\ fill
    /\ IF retcode' <= 0 THEN GetsReturns(<<>>) ELSE UNCHANGED <<call, taken>>
    /\ UNCHANGED <<writeside, source>>

GetsFills ==
    /\ call.op = "gets" /\ ~LineEnds(call.line, call.left) /\ file.unread = <<>>
    /\ fill
    /\ IF retcode' <= 0 THEN GetsReturns(call.line) ELSE UNCHANGED <<call, taken>>
    /\ UNCHANGED <<writeside, source>>

GetsEnds ==
    /\ call.op = "gets" /\ LineEnds(call.line, call.left)
    /\ GetsReturns(call.line)
    /\ UNCHANGED <<file, retcode, input, source, writeside>>

(* fclose: what could not be written is given up with the buffers. *)
FILE == [wbuff |-> <<>>, wsize |-> 0, wchkd |-> 0, wmode |-> _IOLBF, unread |-> <<>>]

Fclose ==
    /\ call = Idle
    /\ \E n \in 0 .. wused : /\ n < wused => fails < MaxFails
                             /\ sent' = sent \o SubSeq(file.wbuff, 1, n)
                             /\ fails' = IF n < wused THEN fails + 1 ELSE fails
    /\ call' = [op |-> "closed"] /\ retcode' = 0
    /\ file' = FILE
    /\ UNCHANGED <<kept, putside, readside>>

FileInit ==
    /\ file = FILE /\ call = Idle /\ retcode = 0
    /\ source \in Sources /\ input = source
    /\ given = <<>> /\ copied = <<>> /\ sent = <<>> /\ kept = <<>> /\ taken = <<>>
    /\ fails = 0 /\ astray = {}

Writing ==
    \/ \E text \in Texts : Put(text)
    \/ PutCopies \/ PutFlushes \/ PutEnds \/ Fflush \/ Fclose
    \/ \E mode \in {_IONBF, _IOLBF, _IOFBF} : SetMode(mode)

Reading ==
    \/ \E size \in Sizes : Gets(size)
    \/ GetsTakes \/ GetsFills \/ GetsEnds

FileNext == Writing \/ Reading

FileSpec == FileInit /\ [][FileNext]_fileVars

-------------------------------------------------------------------------------
FileTypeOK ==
    /\ file.wsize \in {0, BUFSIZ} /\ wused <= file.wsize /\ file.wchkd \in 0 .. wused
    /\ Len(file.unread) <= BUFSIZ
    /\ call.op \in {"none", "put", "gets", "closed"} /\ retcode \in Int

(***************************************************************************)
(* put copies as many characters as it is given, and the right ones but    *)
(* for those of a later round, when the buffer had less room than the      *)
(* text: there it copies the beginning of the text again (fdfile.c:121).   *)
(***************************************************************************)
CopiedRight ==
    /\ Len(copied) = Len(given)
    /\ \A i \in DOMAIN given : i \notin astray => copied[i] = given[i]

(***************************************************************************)
(* As long as no flush has failed, what write was given and what is in the *)
(* buffer together are what was copied to it, each character once.         *)
(***************************************************************************)
InOrder == fails = 0 => sent \o file.wbuff = copied

(***************************************************************************)
(* A flush that fails, with part of the buffer written, writes that part   *)
(* again the next time but loses nothing: until the file is closed, all    *)
(* that was copied is there in order, with repetitions between.            *)
(***************************************************************************)
Increasing(s) == \A i, j \in DOMAIN s : i < j => s[i] < s[j]

StillThere ==
    /\ kept \in Seq(1 .. Len(sent)) /\ Increasing(kept)
    /\ call.op # "closed" =>
          copied = [i \in DOMAIN kept |-> sent[kept[i]]] \o file.wbuff

NothingLost == FileTypeOK /\ CopiedRight /\ InOrder /\ StillThere

(***************************************************************************)
(* Buffered by lines, a put that reports success leaves no newline behind, *)
(* though it looks only at what it has not looked at before, and whatever  *)
(* failed or was buffered otherwise earlier.                               *)
(***************************************************************************)
LinesGoOut ==
    [][call.op = "put" /\ call'.op = "none" /\ retcode' = 0 /\ file.wmode = _IOLBF
         => \A i \in DOMAIN file'.wbuff : file'.wbuff[i] # NL]_fileVars

(***************************************************************************)
(* What the program reads is what the file holds, in order and complete,   *)
(* however it came in and however reads failed in between.                 *)
(***************************************************************************)
LineSoFar == IF call.op = "gets" THEN call.line ELSE <<>>
ReadInOrder ==
    call.op # "closed" => taken \o LineSoFar \o file.unread \o input = source

(* Both ways of a stream. *)
StreamsRight == NothingLost /\ ReadInOrder
===============================================================================
