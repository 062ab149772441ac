------------------------------ MODULE ClockText ------------------------------
(***************************************************************************)
(* The time of day that a textual date carries, byte by byte: where it     *)
(* starts, and what follows it (internal/detect/detect.go,                 *)
(* parseTimeComponent and appendTimeSuffix).                               *)
(***************************************************************************)
EXTENDS SkippedRuns

\* The first byte at or after off that is not in bytes, or the end.
Past(s, off, bytes) ==
    Min({e \in off..Len(s) : e = Len(s) \/ ByteAt(s, e) \notin bytes})

IsByte(s, off, bytes) == Within(s, off, 1) /\ ByteAt(s, off) \in bytes

IsAt(s, off) ==
    /\ Within(s, off, 3)
    /\ ByteAt(s, off) \in {"a", "A"} /\ ByteAt(s, off + 1) \in {"t", "T"}
    /\ ByteAt(s, off + 2) = " "

PastAt(s, off) == IF IsAt(s, off) THEN off + 3 ELSE off

ClockStart(s, from) == PastAt(s, Past(s, from, {" ", ",", "\t", ":"}))

-----------------------------------------------------------------------------
\* What follows a time: am or pm, a zone, or nothing that detection reads.

IsMeridiem(s, j) ==
    ReadAMPM(s, j).ok /\ ~IsByte(s, j + 2, Alpha)

IsLoneZ(s, j) == IsByte(s, j, {"Z"}) /\ ~IsByte(s, j + 1, Alpha)

\* An offset of at least +HHMM, with its colon if it has one.
IsOffset(s, j) == IsByte(s, j, {"+", "-"}) /\ Within(s, j, 5)

ZoneOffset(s, j) ==
    Field("TZOffset", j, IF Within(s, j, 6) /\ ByteAt(s, j + 3) = ":" THEN 6 ELSE 5, NoAux)

NameEnd(s, j) == Past(s, j, Alpha)

\* The name before an offset: three letters or more may be any letters, fewer
\* only themselves, since "Z" and "am" would mean something.
ZoneNameSkips(s, j) ==
    LET n == NameEnd(s, j) - j
    IN  IF n >= 3 THEN <<Field("Skip", j, n, "Alpha")>>
        ELSE [i \in 1..n |-> Field("Skip", j + i - 1, 1, ByteAt(s, j + i - 1))]

TimeSuffix(s, j) ==
    CASE IsMeridiem(s, j) -> <<Field("AMPM", j, 2, NoAux)>>
      [] ~IsMeridiem(s, j) /\ IsLoneZ(s, j) -> <<Field("TZZ", j, 1, NoAux)>>
      [] IsOffset(s, j) -> <<ZoneOffset(s, j)>>
      [] /\ IsByte(s, j, Alpha) /\ ~IsMeridiem(s, j) /\ ~IsLoneZ(s, j) ->
            IF IsOffset(s, NameEnd(s, j))
            THEN Append(ZoneNameSkips(s, j), ZoneOffset(s, NameEnd(s, j)))
            ELSE <<Field("TZName", j, NameEnd(s, j) - j, NoAux)>>
      [] OTHER -> <<>>

-----------------------------------------------------------------------------
IsClock(s, i) ==
    AllDigits(s, i, 2) /\ IsByte(s, i + 2, {":"}) /\ AllDigits(s, i + 3, 2)

HasSeconds(s, i) == IsByte(s, i + 5, {":"}) /\ AllDigits(s, i + 6, 2)

\* How many digits of a second are written after its dot.
FractionWidth(s, i) ==
    IF HasSeconds(s, i) /\ IsByte(s, i + 8, {"."})
    THEN Past(s, i + 9, DOMAIN Digit) - (i + 9) ELSE 0

Seconds(s, i) ==
    IF HasSeconds(s, i) THEN <<Field("Second2", i + 6, 2, NoAux)>> ELSE <<>>

Fraction(s, i) ==
    IF FractionWidth(s, i) > 0
    THEN <<Field("FracSec", i + 9, FractionWidth(s, i), NoAux)>> ELSE <<>>

ClockEnd(s, i) ==
    CASE ~HasSeconds(s, i)       -> i + 5
      [] FractionWidth(s, i) > 0 -> i + 9 + FractionWidth(s, i)
      [] OTHER                   -> i + 8

SuffixAt(s, i) == TimeSuffix(s, Past(s, ClockEnd(s, i), {" "}))

\* am or pm makes the hour one of twelve.
HourKind(suffix) ==
    IF suffix # <<>> /\ suffix[1].op = "AMPM" THEN "Hour12" ELSE "Hour24"

ClockFields(s, i) ==
    <<Field(HourKind(SuffixAt(s, i)), i, 2, NoAux), Field("Minute2", i + 3, 2, NoAux)>>
        \o Seconds(s, i) \o Fraction(s, i) \o SuffixAt(s, i)

\* More digits than a nanosecond holds leave no time at all.
ParseTimeComponent(s, from) ==
    LET i == ClockStart(s, from)
    IN  IF IsClock(s, i) /\ FractionWidth(s, i) <= MaxFracDigits
        THEN ClockFields(s, i) ELSE <<>>

=============================================================================
