---------------------------- MODULE Instructions ----------------------------
(***************************************************************************)
(* What one instruction of a compiled program reads from an input          *)
(* (internal/compile/instructions.go, execute.go, monthname.go).  An input *)
(* is a sequence of one-byte strings, in which "é" stands for every byte   *)
(* past ASCII and "NUL" for every control byte but the tab, and offsets    *)
(* count from 0 as in the code.                                            *)
(***************************************************************************)
EXTENDS Calendar, Sequences

\* A field of a format, which is also the instruction it compiles to.
Field(op, offset, len, aux) == [op |-> op, offset |-> offset, len |-> len, aux |-> aux]

CONSTANT MonthSpellings  \* the names of each month the program's locales allow

Digit ==
    [c \in {"0", "1", "2", "3", "4", "5", "6", "7", "8", "9"} |->
        CASE c = "0" -> 0 [] c = "1" -> 1 [] c = "2" -> 2 [] c = "3" -> 3 [] c = "4" -> 4
          [] c = "5" -> 5 [] c = "6" -> 6 [] c = "7" -> 7 [] c = "8" -> 8 [] c = "9" -> 9]

IsDigit(c) == c \in DOMAIN Digit

Alpha == {"A", "B", "C", "D", "E", "F", "G", "H", "I", "J", "K", "L", "M", "N", "O", "P", "Q",
          "R", "S", "T", "U", "V", "W", "X", "Y", "Z", "a", "b", "c", "d", "e", "f", "g", "h",
          "i", "j", "k", "l", "m", "n", "o", "p", "q", "r", "s", "t", "u", "v", "w", "x", "y",
          "z"}

ByteAt(s, off) == s[off + 1]

Within(s, off, n) == off + n <= Len(s)

Slice(s, off, n) == SubSeq(s, off + 1, off + n)

AllDigits(s, off, n) ==
    Within(s, off, n) /\ \A i \in off..(off + n - 1) : IsDigit(ByteAt(s, i))

\* The number that n digits write.
Number(s, off, n) ==
    LET value[i \in 0..n] ==
            IF i = 0 THEN 0 ELSE value[i - 1] * 10 + Digit[ByteAt(s, off + i - 1)]
    IN  value[n]

-----------------------------------------------------------------------------
\* What a literal, a skip or a fused separator accepts: one byte, or a class of
\* them by its name.  NoAux is the Aux of 0: any byte that is not a digit where
\* a byte is checked at all, and no separator on a numeric field.
NoAux == ""

Punctuation == {"-", "/", ".", " ", "\t", ":", "+", ","}

Class ==
    [Any     |-> Alpha \cup Punctuation \cup {"é", "NUL", "!", "(", ")"},
     Sep     |-> {"-", "/", "."},
     Space   |-> {" ", "\t"},
     Special |-> {"T", "Z", "-", "+", ","},
     Letter  |-> Alpha \cup {"é", "NUL", "!", "(", ")"},
     Alpha   |-> Alpha,
     Opaque  |-> {"é", "NUL"},
     Words   |-> Alpha \cup {"é", "NUL", " ", "\t"}]

\* The bytes of an input: digits, and those that are none.
Alphabet == DOMAIN Digit \cup Class.Any

LitAccepts(aux, c) ==
    CASE aux = NoAux        -> ~IsDigit(c)
      [] aux \in DOMAIN Class -> c \in Class[aux]
      [] OTHER              -> c = aux

AllAccepted(aux, s, off, n) ==
    Within(s, off, n) /\ \A i \in off..(off + n - 1) : LitAccepts(aux, ByteAt(s, i))

\* Is the separator fused onto a field where the field ends?
Separated(aux, s, off) == aux = NoAux \/ AllAccepted(aux, s, off, 1)

SeparatorWidth(aux) == IF aux = NoAux THEN 0 ELSE 1

-----------------------------------------------------------------------------
\* The fields of fixed numeric width, onto which Compile fuses a separator.
Fusible == {"Year4", "Year2", "Month2", "Day2", "DaySpacePad", "Hour24", "Hour12",
            "Minute2", "Second2", "ISOWeek"}

NumericWidth(kind) == IF kind = "Year4" THEN 4 ELSE 2

OneOrTwo == {"Month1or2", "Day1or2", "Hour1or2"}

\* The width that a field's kind alone decides, and the width it is declared with.
FixedKinds == Fusible \cup {"AMPM", "TZZ", "ISOWeekDay"}

FixedWidth(kind) ==
    CASE kind \in Fusible -> NumericWidth(kind)
      [] kind = "AMPM"    -> 2
      [] OTHER            -> 1

DeclaredWidth(f) == IF f.op \in FixedKinds THEN FixedWidth(f.op) ELSE f.len

Kinds ==
    FixedKinds \cup OneOrTwo
        \cup {"MonthName", "FracSec", "TZOffset", "TZName", "TZZOrOffset", "OrdinalDay",
              "Literal", "Skip", "Tail"}

Limits ==
    [Year4 |-> 0..9999, Year2 |-> 0..99, Month2 |-> 1..12, Month1or2 |-> 1..12,
     Day2 |-> 1..31, Day1or2 |-> 1..31, DaySpacePad |-> 1..31, Hour24 |-> 0..23,
     Hour12 |-> 1..12, Hour1or2 |-> 0..23, Minute2 |-> 0..59, Second2 |-> 0..59,
     ISOWeek |-> 1..53, ISOWeekDay |-> 1..7, OrdinalDay |-> 1..366]

Register ==
    [Year4 |-> "year", Year2 |-> "year", Month2 |-> "month", Month1or2 |-> "month",
     Day2 |-> "day", Day1or2 |-> "day", DaySpacePad |-> "day", Hour24 |-> "hour",
     Hour12 |-> "hour", Hour1or2 |-> "hour", Minute2 |-> "minute", Second2 |-> "second",
     ISOWeek |-> "isoWeek", ISOWeekDay |-> "isoWeekDay", OrdinalDay |-> "ordinalDay"]

\* The outcome of one read: how many bytes it took and what it sets to what.
NoRead == [ok |-> FALSE, w |-> 0, reg |-> "nothing", v |-> 0]

Got(w, reg, v) == [ok |-> TRUE, w |-> w, reg |-> reg, v |-> v]

ReadIf(cond, w, reg, v) == IF cond THEN Got(w, reg, v) ELSE NoRead

\* A number of n digits that accounts for w bytes.
ReadNumber(kind, s, off, n, w) ==
    IF AllDigits(s, off, n) /\ Number(s, off, n) \in Limits[kind]
    THEN Got(w, Register[kind], IF kind = "Year2" THEN NormalizeTwoDigitYear(Number(s, off, n))
                                                  ELSE Number(s, off, n))
    ELSE NoRead

\* Go's "_2": a space and a digit, or two digits.
ReadSpacePad(kind, s, off, w) ==
    IF Within(s, off, 2) /\ ByteAt(s, off) = " "
    THEN ReadNumber(kind, s, off + 1, 1, w)
    ELSE ReadNumber(kind, s, off, 2, w)

ReadNumeric(inst, s, off) ==
    LET n == NumericWidth(inst.op)
        w == n + SeparatorWidth(inst.aux)
    IN  IF ~Separated(inst.aux, s, off + n) THEN NoRead
        ELSE IF inst.op = "DaySpacePad" THEN ReadSpacePad(inst.op, s, off, w)
        ELSE ReadNumber(inst.op, s, off, n, w)

Read1or2(kind, s, off) ==
    LET n == IF AllDigits(s, off, 2) THEN 2 ELSE 1 IN ReadNumber(kind, s, off, n, n)

\* Exactly as many digits as a nanosecond can hold, or fewer.
MaxFracDigits == 9

ReadFracSec(s, off, n) ==
    ReadIf(n <= MaxFracDigits /\ AllDigits(s, off, n), n, "nsec",
           Number(s, off, n) * 10 ^ (MaxFracDigits - n))

\* A month name has to be a whole word, and the month the program names.
IsWordChar(c) == c \in Alpha \/ c = "é"

ReadMonthName(inst, s, off) ==
    ReadIf(/\ Within(s, off, inst.len)
           /\ off > 0 => ~IsWordChar(ByteAt(s, off - 1))
           /\ Within(s, off, inst.len + 1) => ~IsWordChar(ByteAt(s, off + inst.len))
           /\ Slice(s, off, inst.len) \in MonthSpellings[inst.aux],
           inst.len, "month", inst.aux)

ReadAMPM(s, off) ==
    IF Within(s, off, 2) /\ ByteAt(s, off) \in {"A", "a", "P", "p"}
           /\ ByteAt(s, off + 1) \in {"M", "m"}
    THEN Got(2, "ampm", IF ByteAt(s, off) \in {"A", "a"} THEN 1 ELSE -1)
    ELSE NoRead

-----------------------------------------------------------------------------
\* Zones, as minutes east of UTC.

\* An offset is +HH, +HHMM or +HH:MM.
OffsetMinutesAt(s, off, n) ==
    CASE n = 3 -> off + 3
      [] n = 5 -> off + 3
      [] n = 6 /\ ByteAt(s, off + 3) = ":" -> off + 4
      [] OTHER -> -1

Minutes(s, off, n, at) ==
    Number(s, off + 1, 2) * 60 + (IF n = 3 THEN 0 ELSE Number(s, at, 2))

ParseTZOffset(s, off, n, at) ==
    IF /\ at >= 0
       /\ ByteAt(s, off) \in {"+", "-"}
       /\ AllDigits(s, off + 1, 2) /\ Number(s, off + 1, 2) <= 23
       /\ n # 3 => AllDigits(s, at, 2) /\ Number(s, at, 2) <= 59
    THEN Got(n, "zone", (IF ByteAt(s, off) = "-" THEN -1 ELSE 1) * Minutes(s, off, n, at))
    ELSE NoRead

ReadTZOffset(s, off, n) ==
    IF n >= 3 /\ Within(s, off, n)
    THEN ParseTZOffset(s, off, n, OffsetMinutesAt(s, off, n)) ELSE NoRead

ReadZ(s, off) == ReadIf(Within(s, off, 1) /\ ByteAt(s, off) = "Z", 1, "zone", 0)

\* Every abbreviation is a fixed offset, taken as written, in hours.
TZAbbr == {
    <<<<"U", "T", "C">>, 0>>, <<<<"U", "C", "T">>, 0>>, <<<<"G", "M", "T">>, 0>>,
    <<<<"E", "S", "T">>, -5>>, <<<<"E", "D", "T">>, -4>>, <<<<"C", "S", "T">>, -6>>,
    <<<<"C", "D", "T">>, -5>>, <<<<"M", "S", "T">>, -7>>, <<<<"M", "D", "T">>, -6>>,
    <<<<"P", "S", "T">>, -8>>, <<<<"P", "D", "T">>, -7>>, <<<<"H", "S", "T">>, -10>>,
    <<<<"C", "E", "T">>, 1>>, <<<<"E", "E", "T">>, 2>>, <<<<"M", "E", "T">>, 1>>,
    <<<<"W", "E", "T">>, 0>>}

ReadTZName(s, off, n) ==
    IF Within(s, off, n) /\ \E z \in TZAbbr : z[1] = Slice(s, off, n)
    THEN Got(n, "zone", 60 * (CHOOSE z \in TZAbbr : z[1] = Slice(s, off, n))[2])
    ELSE NoRead

-----------------------------------------------------------------------------
\* What may follow the offset of a Go time string: a zone name, and perhaps the
\* monotonic clock.
MaxTailLen == 64

IsMonotonic(t) ==
    /\ Len(t) >= 3 /\ t[1] = "m" /\ t[2] = "="
    /\ \A i \in 3..Len(t) : IsDigit(t[i]) \/ t[i] \in {"+", "-", "."}

ValidTail(t) ==
    /\ Len(t) <= MaxTailLen
    /\ \/ t = <<>>
       \/ /\ Len(t) > 1 /\ t[1] = " " /\ t[2] # " "
          /\ \/ \A i \in 2..Len(t) : t[i] # " "
             \/ \E i \in 3..Len(t) : /\ t[i] = " " /\ \A j \in 2..(i - 1) : t[j] # " "
                                     /\ IsMonotonic(SubSeq(t, i + 1, Len(t)))

\* The fields before a tail have been read, so it starts inside the input.
ReadTail(s, off) ==
    ReadIf(off <= Len(s) /\ ValidTail(SubSeq(s, off + 1, Len(s))), Len(s) - off, "nothing", 0)

-----------------------------------------------------------------------------
Read(inst, s, off) ==
    CASE inst.op \in Fusible            -> ReadNumeric(inst, s, off)
      [] inst.op \in OneOrTwo          -> Read1or2(inst.op, s, off)
      [] inst.op = "MonthName"         -> ReadMonthName(inst, s, off)
      [] inst.op = "FracSec"           -> ReadFracSec(s, off, inst.len)
      [] inst.op = "AMPM"              -> ReadAMPM(s, off)
      [] inst.op = "TZZ"               -> ReadZ(s, off)
      [] inst.op = "TZOffset"          -> ReadTZOffset(s, off, inst.len)
      [] inst.op = "TZName"            -> ReadTZName(s, off, inst.len)
      [] inst.op = "TZZOrOffset"       ->
            IF ReadZ(s, off).ok THEN ReadZ(s, off) ELSE ReadTZOffset(s, off, inst.len)
      [] inst.op = "ISOWeekDay"        -> ReadNumber(inst.op, s, off, 1, 1)
      [] inst.op = "OrdinalDay"        -> ReadNumber(inst.op, s, off, inst.len, inst.len)
      [] inst.op \in {"Literal", "Skip"} ->
            ReadIf(AllAccepted(inst.aux, s, off, inst.len), inst.len, "nothing", 0)
      [] inst.op = "Tail"              -> ReadTail(s, off)

=============================================================================
