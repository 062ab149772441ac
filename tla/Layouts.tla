------------------------------- MODULE Layouts -------------------------------
(***************************************************************************)
(* Inputs as tokens, the layouts compiled for them, and what executing a   *)
(* layout on an input yields (internal/compile, layout.go, whitespace.go). *)
(*                                                                         *)
(* An input is the sequence of its maximal runs of digits, its words and   *)
(* its single other bytes.  A layout is a sequence of fields, one for each *)
(* token of the input it was detected from, which is how detection lays    *)
(* fields over an input: the named fields first, then a skip over every    *)
(* byte left (coverGaps), so that no byte is unaccounted for.              *)
(***************************************************************************)
EXTENDS Calendar, Sequences, FiniteSets, FiniteSetsExt

-----------------------------------------------------------------------------
\* Tokens.  w is the number of bytes; v is a number's value or a month's.

Num(v, w)        == [t |-> "num",   v |-> v, w |-> w, c |-> "digits"]
Byte(c)          == [t |-> "byte",  v |-> 0, w |-> 1, c |-> c]
Month(m, w, loc) == [t |-> "month", v |-> m, w |-> w, c |-> loc]
Word(c, w)       == [t |-> "word",  v |-> 0, w |-> w, c |-> c]

\* What w digits can write; the widths of dates go up to four.
Most == <<9, 99, 999, 9999>>

\* No separator is a letter.
Separators == {"-", "/", ".", " ", ":"}

IsToken(x) ==
    \/ x = Num(x.v, x.w) /\ x.w >= 1 /\ (x.w <= 4 => x.v <= Most[x.w])
    \/ x = Byte(x.c)
    \/ x = Month(x.v, x.w, x.c) /\ x.c \notin Separators
    \/ x = Word(x.c, x.w) /\ x.c \notin Separators

\* Padding stands at either end of an input and is never part of its value.
IsPadding(tok) == tok = Byte(" ")

TrimPadding(s) ==
    LET kept == {i \in DOMAIN s : ~IsPadding(s[i])}
    IN  IF kept = {} THEN <<>> ELSE SubSeq(s, Min(kept), Max(kept))

\* What is left of s without what is in out.
Without(s, out) ==
    LET from[i \in 1..(Len(s) + 1)] ==
            IF i > Len(s) THEN <<>>
            ELSE IF s[i] \in out THEN from[i + 1]
            ELSE <<s[i]>> \o from[i + 1]
    IN  from[1]

-----------------------------------------------------------------------------
\* Fields.  aux is what a literal or a skip accepts: a class or one byte.

Field(kind, tok) == [kind |-> kind, w |-> tok.w, v |-> tok.v, aux |-> "none"]
Taking(kind, tok, aux) == [Field(kind, tok) EXCEPT !.aux = aux]

\* Everything a literal or a skip may ask for that tok provides.
ClassesOf(tok) ==
    IF tok.t = "num" THEN {}
    ELSE {"nondigit"}
         \cup (IF tok.t = "byte" THEN {tok.c} ELSE {"words", "letter"})
         \cup (IF tok.c \in {"-", "/", "."} THEN {"sep"} ELSE {})
         \cup (IF tok.c = " " THEN {"space", "words"} ELSE {})
         \cup (IF tok.c = ":" THEN {"colon"} ELSE {})

\* The skip laid over a token no field reads: a digit run is described as
\* "not a digit", which no digit satisfies; a word stands for any word of its
\* width; a byte stands for itself.
SkipRun(tok) ==
    Taking("Skip", tok, CASE tok.t = "num"  -> "nondigit"
                          [] tok.t = "byte" -> tok.c
                          [] OTHER          -> "words")

YearKinds  == {"Year4", "Year2"}
MonthKinds == {"Month2", "Month1or2", "MonthName"}
DayKinds   == {"Day2", "Day1or2"}
HourKinds  == {"Hour24", "Hour12"}

\* The English names are always accepted, a locale's when the program was
\* compiled with that locale.
MonthNameMatches(f, tok, locales) ==
    tok.t = "month" /\ tok.v = f.v /\ tok.w = f.w /\ tok.c \in {"en"} \cup locales

\* Does one instruction accept one token?
Bounded(tok, widths, lo, hi) == tok.t = "num" /\ tok.w \in widths /\ tok.v \in lo..hi

Accepts(f, tok, locales) ==
    CASE f.kind = "Year4"     -> Bounded(tok, {4}, 0, 9999)
      [] f.kind = "Year2"     -> Bounded(tok, {2}, 0, 99)
      [] f.kind = "Month2"    -> Bounded(tok, {2}, 1, 12)
      [] f.kind = "Month1or2" -> Bounded(tok, {1, 2}, 1, 12)
      [] f.kind = "MonthName" -> MonthNameMatches(f, tok, locales)
      [] f.kind = "Day2"      -> Bounded(tok, {2}, 1, 31)
      [] f.kind = "Day1or2"   -> Bounded(tok, {1, 2}, 1, 31)
      [] f.kind = "Hour24"    -> Bounded(tok, {2}, 0, 23)
      [] f.kind = "Hour12"    -> Bounded(tok, {2}, 1, 12)
      [] f.kind = "Minute2"   -> Bounded(tok, {2}, 0, 59)
      [] f.kind = "Second2"   -> Bounded(tok, {2}, 0, 59)
      [] f.kind = "AMPM"      -> tok \in {Word("am", 2), Word("pm", 2)}
      [] f.kind \in {"Literal", "Skip"} -> tok.w = f.w /\ f.aux \in ClassesOf(tok)

-----------------------------------------------------------------------------
\* Outcomes: a time, or a refusal.

Refused  == [ok |-> FALSE]
At(time) == [ok |-> TRUE, time |-> time]

\* The token the last field of these kinds reads, and the value it gives.
Reads(fields, kinds) == {i \in DOMAIN fields : fields[i].kind \in kinds}

ValueOf(fields, s, kinds, default) ==
    LET at == Reads(fields, kinds)
    IN  IF at = {} THEN default ELSE s[Max(at)].v

ApplyAMPM(hour, meridiem) ==
    CASE meridiem = "pm" /\ hour # 12 -> hour + 12
      [] meridiem = "am" /\ hour = 12 -> 0
      [] OTHER                        -> hour

\* The year a field wrote, or the program's base year when no field wrote one.
YearOf(l, s) ==
    LET at == Reads(l.fields, YearKinds)
        i  == Max(at)
    IN  CASE at = {} -> l.baseYear
          [] at # {} /\ l.fields[i].kind = "Year2" -> NormalizeTwoDigitYear(s[i].v)
          [] OTHER -> s[i].v

\* The program run on an input without padding: every token is accounted for,
\* and the day it names exists.
Execute(l, s) ==
    LET y  == YearOf(l, s)
        m  == ValueOf(l.fields, s, MonthKinds, 1)
        d  == ValueOf(l.fields, s, DayKinds, 1)
        ap == Reads(l.fields, {"AMPM"})
        h  == ApplyAMPM(ValueOf(l.fields, s, HourKinds, 0),
                        IF ap = {} THEN "none" ELSE s[Max(ap)].c)
    IN  IF /\ Len(s) = Len(l.fields)
           /\ \A i \in DOMAIN s : Accepts(l.fields[i], s[i], l.locales)
           /\ DayExists(y, m, d)
        THEN At([y |-> y, m |-> m, d |-> d, h |-> h,
                 mi |-> ValueOf(l.fields, s, {"Minute2"}, 0),
                 se |-> ValueOf(l.fields, s, {"Second2"}, 0)])
        ELSE Refused

-----------------------------------------------------------------------------
\* Layouts.  A layout without fields is a sentinel: it names how a value was
\* read and cannot read another.

NeedsBaseYear(fields) == Reads(fields, YearKinds) = {}

Layout(label, fields, ambig, prone, locales, baseYear) ==
    [label |-> label, fields |-> fields, ambig |-> ambig, prone |-> prone,
     locales |-> locales, baseYear |-> baseYear]

LayoutEpoch           == Layout("UNIX_TIMESTAMP", <<>>, "none", FALSE, {}, 0)
LayoutNaturalLanguage == Layout("NATURAL_LANGUAGE", <<>>, "none", FALSE, {}, 0)

\* Mutant of Compile: a format without a year is given back half compiled.
CompileUnfinished(label, fields, ambig, prone, locales, year) ==
    Layout(label, IF NeedsBaseYear(fields) THEN <<>> ELSE fields, ambig, prone, locales,
           IF NeedsBaseYear(fields) THEN year ELSE 0)

\* The program for a detected format: the base year is compiled in, and only
\* where the format writes no year.
Compile(label, fields, ambig, prone, locales, year) ==
    Layout(label, fields, ambig, prone, locales,
           IF NeedsBaseYear(fields) THEN year ELSE 0)

HasProgram(l) == l.fields # <<>>
Reusable(l)   == HasProgram(l) /\ ~l.prone

\* Mutant of LayoutParse: the padding is read as part of the value.
LayoutParsePadded(l, s) == IF HasProgram(l) THEN Execute(l, s) ELSE Refused

LayoutParse(l, s) == IF HasProgram(l) THEN Execute(l, TrimPadding(s)) ELSE Refused

=============================================================================
