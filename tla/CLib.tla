--------------------------------- MODULE CLib ---------------------------------
(***************************************************************************)
(* Routines of crtl/library that keep nothing from one call to the next:   *)
(* qsort, comparison by comparison, and the conversions of dates and of    *)
(* numbers to and from text, a call at a time.  Characters are their       *)
(* codes.                                                                  *)
(***************************************************************************)
EXTENDS Integers, Sequences, SequencesExt, FiniteSetsExt

CONSTANTS
    MaxSort,        \* bound: no more elements than this are sorted
    SortKeys,       \* what compar goes by
    Days,           \* the days since 1970 and the times that are converted
    Times,
    LONG,           \* 2^32 in the code: longs wrap there
    Numerals,       \* texts that strtoul and strtol are given
    Bases,
    Formats,        \* what vfprintf is given: sequences of parts with their arguments
    BufferSizes     \* sizes given to snprintf

ASSUME CLibAssumption ==
    /\ MaxSort \in Nat /\ SortKeys \subseteq Int
    /\ Days \subseteq Nat /\ Times \subseteq Nat     \* time_t is unsigned
    /\ LONG \in Nat /\ LONG > 0 /\ LONG % 2 = 0

VARIABLES
    sort,           \* the array and partsort's variables, and its callers'
    conv            \* a conversion, what it was given and what came out

clibVars == <<sort, conv>>

Lesser(i, j) == IF i < j THEN i ELSE j
Greater(i, j) == IF i > j THEN i ELSE j

-------------------------------------------------------------------------------
(* qsort.  elem says which element, as they were given, is where; its key is   *)
(* what compar sees.  pending are the ranges a partsort that called another    *)
(* has yet to sort, the innermost last.                                        *)
NotSorting == [at |-> "none"]

Qsort(nmemb, key) ==
    /\ sort' = [at |-> IF nmemb > 1 THEN "resort" ELSE "sorted", key |-> key,
                elem |-> [i \in 0 .. nmemb - 1 |-> i], pending |-> <<>>,
                beg |-> 0, end |-> nmemb - 1, bbb |-> 0, eee |-> 0]
    /\ UNCHANGED conv

compar(i, j) == sort.key[sort.elem[i]] - sort.key[sort.elem[j]]
swapelem(i, j) == [sort.elem EXCEPT ![i] = sort.elem[j], ![j] = sort.elem[i]]

(* partsort returns; its caller goes on with the other range. *)
Returned(s) ==
    IF s.pending = <<>>
      THEN [s EXCEPT !.at = "sorted"]
      ELSE LET range == s.pending[Len(s.pending)]
           IN [s EXCEPT !.at = "resort", !.beg = range.beg, !.end = range.end,
                        !.pending = SubSeq(@, 1, Len(@) - 1)]

Resort ==
    /\ sort.at = "resort"
    /\ sort' = IF sort.end > sort.beg + 3
                 THEN [sort EXCEPT !.at = "up", !.bbb = sort.beg, !.eee = sort.end - 1]
               ELSE IF sort.end > sort.beg
                 THEN [sort EXCEPT !.at = "bubble", !.bbb = sort.beg, !.eee = sort.end]
               ELSE Returned(sort)
    /\ UNCHANGED conv

(* The pivot is the last element.  bbb goes up to an element above it. *)
GoesUp ==
    /\ sort.at = "up"
    /\ sort' = IF sort.bbb = sort.end
                 THEN [sort EXCEPT !.at = "resort", !.end = @ - 1]
               ELSE IF compar(sort.bbb, sort.end) <= 0
                 THEN [sort EXCEPT !.bbb = @ + 1]
               ELSE [sort EXCEPT !.at = "down"]
    /\ UNCHANGED conv

Split_late(s) ==
    IF s.bbb > s.beg
      THEN [s EXCEPT !.at = "resort", !.end = s.bbb - 1,
                     !.pending = Append(@, [beg |-> s.bbb + 2, end |-> s.end])]
      ELSE [s EXCEPT !.at = "resort", !.beg = s.bbb + 1]

(* The pivot is in its place, the elements before it are sorted first. *)
Split(s) ==
    IF s.bbb > s.beg
      THEN [s EXCEPT !.at = "resort", !.end = s.bbb - 1,
                     !.pending = Append(@, [beg |-> s.bbb + 1, end |-> s.end])]
      ELSE [s EXCEPT !.at = "resort", !.beg = s.bbb + 1]

(* eee goes down to an element below the pivot; the two change places. *)
GoesDown ==
    /\ sort.at = "down"
    /\ sort' = IF sort.eee = sort.bbb
                 THEN Split([sort EXCEPT !.elem = swapelem(sort.bbb, sort.end)])
               ELSE IF compar(sort.eee, sort.end) >= 0
                 THEN [sort EXCEPT !.eee = @ - 1]
               ELSE [sort EXCEPT !.elem = swapelem(sort.bbb, sort.eee), !.bbb = @ + 1,
                                 !.at = "up"]
    /\ UNCHANGED conv

(* A few elements: each pass, from beg to eee, brings the greatest to the end. *)
Bubbled(elem) ==
    IF sort.bbb + 1 < sort.eee
      THEN [sort EXCEPT !.elem = elem, !.bbb = @ + 1]
    ELSE IF sort.eee > sort.beg + 1
      THEN [sort EXCEPT !.elem = elem, !.bbb = sort.beg, !.eee = @ - 1]
    ELSE Returned([sort EXCEPT !.elem = elem])

Bubbles ==
    /\ sort.at = "bubble"
    /\ sort' = Bubbled(IF compar(sort.bbb, sort.bbb + 1) > 0
                         THEN swapelem(sort.bbb, sort.bbb + 1) ELSE sort.elem)
    /\ UNCHANGED conv

Sorting ==
    \/ /\ sort = NotSorting
       /\ \E nmemb \in 0 .. MaxSort :
             \E key \in [0 .. nmemb - 1 -> SortKeys] : Qsort(nmemb, key)
    \/ Resort \/ GoesUp \/ GoesDown \/ Bubbles

-------------------------------------------------------------------------------
(* gmtime.  A day is counted from 1 March of year 0, where years of 400 years  *)
(* and leap days at their end begin.                                           *)
DaysTo1970 == 70 * 365 + (70 \div 4) + 300 * 365 + (300 \div 4) - 2
              + 1600 * 365 + (1600 \div 4) - 12 - 31 - 29
Century == 100 * 365 + (100 \div 4) - 1
QuadCentury == 400 * 365 + (400 \div 4) - 3
QuadYear == 4 * 365 + (4 \div 4)

isleapyear_julian(year) == IF year % 4 # 0 THEN 0 ELSE 1
isleapyear(year) ==
    IF year % 4 # 0 \/ (year \div 4) % 100 \in {25, 50, 75} THEN 0 ELSE 1

(* The year from March on and the day in it. *)
YearOfDay(day) ==
    LET qcent == day \div QuadCentury
        inqcent == day % QuadCentury
        cent == inqcent \div Century
        dic == inqcent % Century
        diqy == dic % QuadYear
        year == IF diqy \div 365 = 4 THEN 3 ELSE diqy \div 365
    IN IF inqcent = QuadCentury - 1
         THEN [year |-> ((qcent * 4 + 3) * 25 + 24) * 4 + 3, diy |-> 365]
         ELSE [year |-> ((qcent * 4 + cent) * 25 + (dic \div QuadYear)) * 4 + year,
               diy |-> diqy - year * 365]

QuintMonth == 31 + 30 + 31 + 30 + 31
dateconv(day) ==
    LET y == YearOfDay(day + DaysTo1970)
        inquint == y.diy % QuintMonth
        inbi == inquint % 61
        month == (inbi \div 31) + (y.diy \div QuintMonth) * 5 + (inquint \div 61) * 2
        year == IF month >= 10 THEN y.year + 1 ELSE y.year
    IN [tm_mday |-> (inbi % 31) + 1,
        tm_mon  |-> IF month >= 10 THEN month - 10 ELSE month + 2,
        tm_year |-> year - 1900,
        tm_yday |-> IF month >= 10 THEN y.diy - 306 ELSE y.diy + 59 + isleapyear(year)]

gmtime_r(t) ==
    [date |-> dateconv(t \div 86400), tm_wday |-> ((t \div 86400) + 4) % 7,
     tm_hour |-> (t \div 3600) % 24, tm_min |-> (t \div 60) % 60, tm_sec |-> t % 60]

(* timegm.  The month may be outside of the year either way, in 16 bits. *)
DayOf(tm) ==
    LET signed == tm.tm_mon - 2
        back == IF signed < 0 THEN (11 - signed) \div 12 ELSE 0
        over == (signed + 12 * back) \div 12
        year == tm.tm_year + 1900 - back + over
        month == signed + 12 * back - 12 * over
        cent == year \div 100
    IN (cent \div 4) * QuadCentury + (cent % 4) * Century
         + (year % 100) * 365 + ((year % 100) \div 4)
         + (month \div 5) * QuintMonth + (month % 5) * 31 - ((month % 5) \div 2)
         + tm.tm_mday - 1 - DaysTo1970

(* tm_hour * 3600 is a product of ints and wraps in their 16 bits before it is
   widened to the 32 of the sum, which wraps below zero. *)
AsInt(n) == ((n + 32768) % 65536) - 32768
timegm(tm) ==
    LET t == DayOf(tm.date) * 86400 + AsInt(tm.tm_hour * 3600) + tm.tm_min * 60 + tm.tm_sec
    IN IF t < 0 THEN t + 65536 * 65536 ELSE t

-------------------------------------------------------------------------------
(* strtoul and strtol.  A text is followed by a zero. *)
BLANK == 32     PLUS == 43     MINUS == 45     DOT == 46     ZERO == 48
At(text, i) == IF i \in DOMAIN text THEN text[i] ELSE 0
First(text, from, Stops(_)) ==
    CHOOSE i \in from .. Greater(from, Len(text) + 1) :
        /\ i > Len(text) \/ Stops(text[i])
        /\ \A j \in from .. i - 1 : ~Stops(text[j])
EINVAL == "EINVAL"
ERANGE == "ERANGE"

DigitOf(ch) ==
    IF ch \in 48 .. 57 THEN ch - 48
    ELSE IF ch \in 65 .. 90 THEN ch - 55
    ELSE IF ch \in 97 .. 122 THEN ch - 87
    ELSE LONG

(* A digit is lost when dividing does not give the old value back. *)
Digested_less(acc, digit, base) ==
    LET v == (acc.value * base + digit) % LONG
    IN [value |-> v, over |-> acc.over \/ v < acc.value]
Digested(acc, digit, base) ==
    LET v == (acc.value * base + digit) % LONG
    IN [value |-> v, over |-> acc.over \/ v \div base # acc.value]

strtoul(text, from, base) ==
    LET i == First(text, from, LAMBDA ch : ch > BLANK)
        hex == At(text, i) = ZERO /\ At(text, i + 1) \in {88, 120} /\ base \in {0, 16}
        b == IF hex THEN 16 ELSE IF base # 0 THEN base
             ELSE IF At(text, i) = ZERO THEN 8 ELSE 10
        j == IF hex THEN i + 2 ELSE i
        end == First(text, j, LAMBDA ch : DigitOf(ch) >= b)
        acc == FoldLeft(LAMBDA a, ch : Digested(a, DigitOf(ch), b),
                        [value |-> 0, over |-> FALSE], SubSeq(text, j, end - 1))
    IN [value |-> IF acc.over THEN LONG - 1 ELSE acc.value, end |-> end,
        errno |-> IF end = j THEN EINVAL ELSE IF acc.over THEN ERANGE ELSE ""]

(* Blanks before a sign are not skipped. *)
strtol(text, base) ==
    LET i == First(text, 1, LAMBDA ch : ch >= BLANK)
        neg == IF At(text, i) = MINUS THEN 1 ELSE 0
        r == strtoul(text, i + neg, base)
        most == (LONG \div 2) - 1 + neg
        over == r.value >= LONG \div 2 /\ r.value # most
        value == IF over THEN most ELSE r.value
    IN [value |-> IF neg = 1 THEN - value ELSE value, end |-> r.end,
        errno |-> IF over THEN ERANGE ELSE r.errno]

-------------------------------------------------------------------------------
(* vfprintf.  A stream is a buffer of a size that is given, of which what does *)
(* not fit is left out, or one that grows by half.                             *)
Fixed(size) == [grows |-> FALSE, wbuff |-> <<>>, wsize |-> size, total |-> 0]
Growing(size) == [grows |-> TRUE, wbuff |-> <<>>, wsize |-> size, total |-> 0]

Roomier(wsize, used) ==
    LET g[size \in Nat] == IF used >= size THEN g[size + (size \div 2)] ELSE size
    IN g[wsize]

StreamPut(stream, text) ==
    LET used == Len(stream.wbuff)
        room == IF stream.grows THEN Len(text) ELSE Lesser(stream.wsize - used, Len(text))
    IN [stream EXCEPT !.wbuff = @ \o SubSeq(text, 1, room), !.total = @ + Len(text),
                      !.wsize = IF stream.grows THEN Roomier(@, used + Len(text)) ELSE @]

(* The parameter block, and the routines that put text with it. *)
Fresh(p) ==
    [p EXCEPT !.altform = FALSE, !.zeropad = FALSE, !.leftjust = FALSE, !.posblank = FALSE,
              !.plussign = FALSE, !.minwidth = 0, !.precision = -1]
Zeroed(stream) ==
    [altform |-> FALSE, zeropad |-> FALSE, leftjust |-> FALSE, posblank |-> FALSE,
     plussign |-> FALSE, minwidth |-> 0, precision |-> -1, negative |-> FALSE,
     numout |-> 0, stream |-> stream]

Flagged(p, flag) ==
    CASE flag = "#" -> [p EXCEPT !.altform = TRUE]
      [] flag = "0" -> [p EXCEPT !.zeropad = @ \/ ~p.leftjust]
      [] flag = "-" -> [p EXCEPT !.leftjust = TRUE, !.zeropad = FALSE]
      [] flag = " " -> [p EXCEPT !.posblank = @ \/ ~p.plussign]
      [] flag = "+" -> [p EXCEPT !.plussign = TRUE, !.posblank = FALSE]
Prefixed(p, item) ==
    FoldLeft(Flagged, [Fresh(p) EXCEPT !.minwidth = item.width, !.precision = item.precision],
             item.flags)

putst(p, text) ==
    [p EXCEPT !.numout = @ + Len(text), !.minwidth = @ - Len(text),
              !.stream = StreamPut(@, text)]
putfc(p, s, ch) == putst(p, [i \in 1 .. s |-> ch])
LeftFill(p, n) == IF p.leftjust \/ p.zeropad THEN p ELSE putfc(p, p.minwidth - n, BLANK)
LeftZero(p, n) == IF ~p.leftjust /\ p.zeropad THEN putfc(p, p.minwidth - n, ZERO) ELSE p
RightFill(p) == putfc(p, p.minwidth, BLANK)
Blanked(p, text) ==
    RightFill(putst(IF p.leftjust THEN p ELSE putfc(p, p.minwidth - Len(text), BLANK), text))

Sign(p) ==
    IF p.negative THEN <<MINUS>>
    ELSE IF p.plussign THEN <<PLUS>>
    ELSE IF p.posblank THEN <<BLANK>>
    ELSE <<>>
putsign(p) == putst(p, Sign(p))

(* Numbers as digits, above nine as letters from ten on. *)
Digits(unum, base, ten) ==
    LET Digit(d) == IF d < 10 THEN ZERO + d ELSE ten + d - 10
        ncp[u \in 0 .. unum] ==
            IF u < base THEN <<Digit(u)>> ELSE Append(ncp[u \div base], Digit(u % base))
    IN ncp[unum]

putint(p, alt, digits) ==
    LET alts == IF p.altform THEN alt ELSE <<>>
        numzeroes == Greater(p.precision - Len(digits), 0)
        filled == LeftFill(p, Len(Sign(p)) + Len(alts) + numzeroes + Len(digits))
        zeroed == LeftZero(putst(putsign(filled), alts), numzeroes + Len(digits))
    IN RightFill(putst(putfc(zeroed, numzeroes, ZERO), digits))

(* An integer argument of item.size bytes, and what is made of it. *)
Unsigned(item) == item.arg % (2 ^ (8 * item.size))
SignedArg(item) ==
    IF 2 * Unsigned(item) >= 2 ^ (8 * item.size)
      THEN Unsigned(item) - 2 ^ (8 * item.size) ELSE Unsigned(item)

Number(p, item) ==
    CASE item.conv = "d" ->
           LET snum == SignedArg(item)
           IN putint([p EXCEPT !.negative = snum < 0], <<>>,
                     Digits(IF snum < 0 THEN - snum ELSE snum, 10, 65))
      [] item.conv = "u" -> putint([p EXCEPT !.negative = FALSE], <<>>,
                                   Digits(Unsigned(item), 10, 65))
      [] item.conv = "o" -> putint([p EXCEPT !.negative = FALSE], <<ZERO>>,
                                   Digits(Unsigned(item), 8, 65))
      [] item.conv = "x" -> putint([p EXCEPT !.negative = FALSE], <<ZERO, 120>>,
                                   Digits(Unsigned(item), 16, 97))

(* Strings: %S writes a dot for what cannot be printed. *)
Shown(ch) == IF ch >= 127 \/ ch < BLANK THEN DOT ELSE ch
Strings(p, item) ==
    LET i == Len(item.text)
        precision == IF p.precision < 0 \/ p.precision > i THEN i ELSE p.precision
        text == SubSeq(item.text, 1, precision)
    IN Blanked(p, IF item.conv = "S" THEN [k \in DOMAIN text |-> Shown(text[k])] ELSE text)

(* Floating point numbers with FIGURES decimal figures: fnum, from 1 up to 10, *)
(* is counted in units of the last, and the value is that times 10^expon.      *)
FIGURES == 4
SCALE == 10 ^ (FIGURES - 1)
roundflt(item, prec) ==
    LET fnum == item.fnum + (5 * SCALE) \div 10 ^ (Greater(prec, 0) + 1)
    IN IF fnum >= 10 * SCALE THEN [fnum |-> SCALE, expon |-> item.expon + 1]
       ELSE [fnum |-> fnum, expon |-> item.expon]
Figure(fnum, k) ==
    ZERO + (IF k \in 0 .. FIGURES - 1 THEN (fnum \div 10 ^ (FIGURES - 1 - k)) % 10 ELSE 0)
Figures(n, from, to) == [k \in 1 .. to - from + 1 |-> Figure(n.fnum, from + k - 1)]
Point(p, precision) == IF precision > 0 \/ p.altform THEN <<DOT>> ELSE <<>>

(* Zeroes are counted as if the sign were still to come. *)
Padded(p, numsize) == LeftZero(putsign(LeftFill(p, numsize)), numsize)

format_e(p, n, precision) ==
    LET e == [p EXCEPT !.negative = n.expon < 0]
        expon == IF n.expon < 0 THEN - n.expon ELSE n.expon
        point == Point(p, precision)
        numsize == precision + Len(point) + 1 + Len(Sign(p)) + 3 + Len(Sign(e))
        mantissa == Figures(n, 0, 0) \o point \o Figures(n, 1, precision)
        exponent == <<ZERO + (expon \div 10), ZERO + (expon % 10)>>
    IN RightFill(putst(putsign([putst(Padded(p, numsize), Append(mantissa, 101))
                                  EXCEPT !.negative = e.negative]), exponent))

format_f(p, n, precision) ==
    LET point == Point(p, precision)
        numsize == precision + Len(point) + 1 + Greater(n.expon, 0) + Len(Sign(p))
        whole == IF n.expon < 0 THEN <<ZERO>> ELSE Figures(n, 0, n.expon)
    IN RightFill(putst(Padded(p, numsize),
                       whole \o point \o Figures(n, n.expon + 1, n.expon + precision)))

vfprintf_fp(given, item) ==
    LET p == [given EXCEPT !.negative = item.negative]
        six == IF p.precision < 0 THEN 6 ELSE p.precision
        significant == IF six = 0 THEN 1 ELSE six
        g == roundflt(item, significant - 1)
    IN CASE item.conv = "e" -> format_e(p, roundflt(item, six), six)
         [] item.conv = "f" -> format_f(p, roundflt(item, six + item.expon), six)
         [] item.conv = "g" ->
              IF g.expon < -4 \/ g.expon >= significant
                THEN format_e(p, g, significant - 1)
                ELSE format_f(p, g, significant - g.expon - 1)

(* One part of a format, and a whole one.  A part that is no conversion is *)
(* copied.                                                                 *)
Converted(p, item) ==
    CASE item.conv = "text" -> putst(p, item.text)
      [] item.conv \in {"d", "u", "o", "x"} -> Number(Prefixed(p, item), item)
      [] item.conv = "c" -> Blanked(Prefixed(p, item), item.text)
      [] item.conv \in {"s", "S"} -> Strings(Prefixed(p, item), item)
      [] item.conv \in {"e", "f", "g"} -> vfprintf_fp(Prefixed(p, item), item)
vfprintf(stream, format) == FoldLeft(Converted, Zeroed(stream), format)

(* vsnprintf and vasprintf, which end the text with a zero. *)
vsnprintf(len, format) ==
    LET p == vfprintf(Fixed(len), format)
        kept == Lesser(p.stream.total, len - 1)
    IN [rc |-> p.stream.total,
        buf |-> IF len > 0 THEN Append(SubSeq(p.stream.wbuff, 1, kept), 0) ELSE <<>>]
ASPRINTF == 4       \* 64 in the code
vasprintf(format) ==
    LET p == vfprintf(Growing(ASPRINTF), format)
    IN [rc |-> p.numout, wsize |-> p.stream.wsize, buf |-> Append(p.stream.wbuff, 0)]

-------------------------------------------------------------------------------
NoConversion == [fn |-> "none"]

Converting ==
    /\ conv = NoConversion
    /\ \/ \E day \in Days : conv' = [fn |-> "day", day |-> day, date |-> dateconv(day)]
       \/ \E t \in Times : conv' = [fn |-> "time", t |-> t, tm |-> gmtime_r(t)]
       \/ \E text \in Numerals, base \in Bases :
             conv' = [fn |-> "numeral", text |-> text, base |-> base,
                      unsigned |-> strtoul(text, 1, base), signed |-> strtol(text, base)]
       \/ \E format \in Formats :
             conv' = [fn |-> "print", format |-> format, as |-> vasprintf(format),
                      sn |-> [len \in BufferSizes |-> vsnprintf(len, format)]]
    /\ UNCHANGED sort

CLibInit == sort = NotSorting /\ conv = NoConversion
CLibNext == Sorting \/ Converting
CLibSpec == CLibInit /\ [][CLibNext]_clibVars

-------------------------------------------------------------------------------
(***************************************************************************)
(* qsort leaves the elements it was given, each once, in the order of      *)
(* their keys; on the way no index leaves the part that is being sorted.   *)
(***************************************************************************)
Sorted(s) == \A i, j \in DOMAIN s.elem : i < j => s.key[s.elem[i]] <= s.key[s.elem[j]]
Permuted(s) ==
    /\ s.elem \in [DOMAIN s.key -> DOMAIN s.key]
    /\ \A i, j \in DOMAIN s.elem : s.elem[i] = s.elem[j] => i = j
SortsRight ==
    sort.at # "none" =>
        /\ Permuted(sort)
        /\ sort.at \in {"up", "down"} =>
              /\ sort.beg <= sort.bbb /\ sort.bbb <= sort.end
              /\ sort.bbb <= sort.eee + 1 /\ sort.eee < sort.end
        /\ sort.at = "sorted" => Sorted(sort)

(***************************************************************************)
(* A day gets the date that counting years of the Gregorian calendar gives *)
(* it, and timegm finds the day again, also when the month is given in     *)
(* years before or after.  A time gets hours, minutes and seconds that     *)
(* make it up with the day, and timegm gives it back up to ten o'clock: the *)
(* seconds of more hours are no int, and timegm is then 65536 too early,   *)
(* where gmtimetest.c, that tries midnights, does not look.                *)
(***************************************************************************)
Leap(year) == year % 4 = 0 /\ (year % 100 # 0 \/ year % 400 = 0)
MonthStart(year, month) ==
    <<0, 31, 59, 90, 120, 151, 181, 212, 243, 273, 304, 334, 365>>[month + 1]
      + IF Leap(year) /\ month >= 2 THEN 1 ELSE 0
YearStart(year) ==
    365 * (year - 1970) + ((year - 1) \div 4) - ((year - 1) \div 100)
      + ((year - 1) \div 400) - 477
DateIsRight(day, date) ==
    LET year == date.tm_year + 1900
    IN /\ date.tm_mon \in 0 .. 11 /\ date.tm_mday >= 1
       /\ date.tm_mday <= MonthStart(year, date.tm_mon + 1) - MonthStart(year, date.tm_mon)
       /\ date.tm_yday = MonthStart(year, date.tm_mon) + date.tm_mday - 1
       /\ day = YearStart(year) + date.tm_yday
DayComesBack(day, date) ==
    \A k \in -2 .. 2 :
        DayOf([date EXCEPT !.tm_mon = @ + 12 * k, !.tm_year = @ - k]) = day
DatesRight ==
    /\ conv.fn = "day" => DateIsRight(conv.day, conv.date) /\ DayComesBack(conv.day, conv.date)
    /\ conv.fn = "time" =>
          /\ conv.tm.tm_hour \in 0 .. 23 /\ conv.tm.tm_min \in 0 .. 59
          /\ conv.tm.tm_sec \in 0 .. 59
          /\ conv.t = DayOf(conv.tm.date) * 86400 + conv.tm.tm_hour * 3600
                        + conv.tm.tm_min * 60 + conv.tm.tm_sec
          /\ conv.tm.tm_hour < 10 => timegm(conv.tm) = conv.t

(***************************************************************************)
(* A numeral is read as the number its digits make, or found to be too     *)
(* great for a long, whatever the products that overflow look like.        *)
(***************************************************************************)
Exact(text, from, to, base) ==
    FoldLeft(LAMBDA n, ch : n * base + DigitOf(ch), 0, SubSeq(text, from, to))
NumeralRight(text, base, r) ==
    \A from \in 1 .. r.end - 1 :
        LET n == Exact(text, from, r.end - 1, base)
        IN (/\ \A i \in from .. r.end - 1 : DigitOf(text[i]) < base
            /\ \A i \in 1 .. from - 1 : text[i] <= BLANK)
           => IF n < LONG THEN r.value = n /\ r.errno = ""
              ELSE r.value = LONG - 1 /\ r.errno = ERANGE
NumeralsRight ==
    conv.fn = "numeral" /\ conv.base >= 2 =>
        /\ NumeralRight(conv.text, conv.base, conv.unsigned)
        /\ LET neg == At(conv.text, 1) = MINUS
               abs == strtoul(conv.text, IF neg THEN 2 ELSE 1, conv.base)
               half == LONG \div 2
           IN abs.errno = "" /\ At(conv.text, 1) # BLANK =>
                 IF abs.value < half \/ (neg /\ abs.value = half)
                   THEN conv.signed = [abs EXCEPT !.value = IF neg THEN - @ ELSE @]
                   ELSE conv.signed.errno = ERANGE

(***************************************************************************)
(* What printf makes of a number says that number, in the width that was   *)
(* asked for; a text is cut where its buffer ends and is always ended.  A  *)
(* signed floating point number padded with zeroes gets one too few, and a *)
(* blank behind it (vfprintf_fp.c:150).                                    *)
(***************************************************************************)
Body(text) == SelectSeq(text, LAMBDA ch : ch # BLANK /\ ch # PLUS)
OneItem(f) == Len(f) = 1
IntegerSays(item, out) ==
    LET body == Body(out)
        base == CASE item.conv \in {"d", "u"} -> 10 [] item.conv = "o" -> 8
                  [] item.conv = "x" -> 16
        neg == body[1] = MINUS
        skip == (IF neg THEN 1 ELSE 0)
                + (IF item.conv = "x" /\ At(body, 2) = 120 THEN 2 ELSE 0)
        n == Exact(body, skip + 1, Len(body), base)
        alt == IF item.conv = "o" /\ \E i \in DOMAIN item.flags : item.flags[i] = "#"
                 THEN 1 ELSE 0
        digits == Len(body) - skip - alt
    IN /\ (IF neg THEN - n ELSE n)
             = IF item.conv = "d" THEN SignedArg(item) ELSE Unsigned(item)
       /\ digits >= item.precision
       /\ item.width = 0 /\ digits > Greater(item.precision, 1) =>
             body[skip + alt + 1] # ZERO
FloatSays(item, out) ==
    LET body == SelectSeq(out, LAMBDA ch : ch \in 48 .. 57 \/ ch \in {DOT, 101})
        e == IF \E i \in DOMAIN body : body[i] = 101
               THEN CHOOSE i \in DOMAIN body : body[i] = 101 ELSE Len(body) + 1
        dot == IF \E i \in DOMAIN body : body[i] = DOT
               THEN CHOOSE i \in DOMAIN body : body[i] = DOT ELSE e
        digits == SelectSeq(SubSeq(body, 1, e - 1), LAMBDA ch : ch # DOT)
        frac == IF dot = e THEN 0 ELSE e - dot - 1
        abs == Exact(body, e + 1, Len(body), 10)
        expneg == \E i \in DOMAIN out : i > 1 /\ out[i - 1] = 101 /\ out[i] = MINUS
        expon == IF expneg THEN - abs ELSE abs
        unit == 10 ^ (6 + expon - frac)
        printed == Exact(digits, 1, Len(digits), 10) * unit
        value == item.fnum * 10 ^ (6 + item.expon - (FIGURES - 1))
        off == IF printed > value THEN printed - value ELSE value - printed
    IN IF item.conv = "f" /\ frac + item.expon < 0 THEN off < unit ELSE 2 * off <= unit

PrintSays(item, as) ==
    LET out == SubSeq(as.buf, 1, as.rc)
    IN /\ item.conv \in {"d", "u", "o", "x"} => IntegerSays(item, out)
       /\ item.conv \in {"e", "f", "g"} => FloatSays(item, out)
       /\ item.conv # "text" => Len(out) >= item.width
       /\ item.conv \in {"d", "u", "o", "x"} /\ item.flags = <<"-">> => out[1] # BLANK
       /\ item.conv \notin {"text", "s", "S"} /\ item.flags \in {<<>>, <<"0">>, <<"+">>}
            /\ (item.flags = <<"0">> /\ item.conv \in {"e", "f", "g"} => ~item.negative)
            => out[Len(out)] # BLANK
PrintsRight ==
    conv.fn = "print" =>
        /\ conv.as.rc < conv.as.wsize /\ Len(conv.as.buf) = conv.as.rc + 1
        /\ OneItem(conv.format) => PrintSays(conv.format[1], conv.as)
        /\ \A len \in BufferSizes :
              LET sn == conv.sn[len]
              IN /\ sn.rc = conv.as.rc /\ Len(sn.buf) <= len
                 /\ len > 0 => /\ sn.buf[Len(sn.buf)] = 0
                               /\ IsPrefix(Front(sn.buf), conv.as.buf)
                               /\ Len(sn.buf) < len => Len(sn.buf) = sn.rc + 1

TextRight == NumeralsRight /\ PrintsRight
===============================================================================
