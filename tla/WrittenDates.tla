---------------------------- MODULE WrittenDates ----------------------------
(***************************************************************************)
(* What a date can mean, written down without regard to how detection      *)
(* finds it: every assignment of year, month and day to the numbers of an  *)
(* input that README.md allows and the calendar contains.  The reference   *)
(* the properties of Session compare an answer with.                       *)
(***************************************************************************)
EXTENDS Integers, Sequences, FiniteSets

Date(y, m, d) == [y |-> y, m |-> m, d |-> d]

DaysIn(y, m) ==
    CASE m = 2 -> IF y % 4 = 0 /\ (y % 100 = 0 => y % 400 = 0) THEN 29 ELSE 28
      [] m \in {4, 6, 9, 11} -> 30
      [] OTHER -> 31

Exists(date) == date.m \in 1..12 /\ date.d \in 1..DaysIn(date.y, date.m)

\* A year has two digits, of this century up to 68, or four.
YearLike(tok) == tok.t = "num" /\ tok.w \in {2, 4}
DayLike(tok)  == tok.t = "num" /\ tok.w \in {1, 2}

WrittenYear(tok) ==
    IF tok.w = 4 THEN tok.v ELSE tok.v + (IF tok.v > 68 THEN 1900 ELSE 2000)

-----------------------------------------------------------------------------
\* Three numbers between equal separators.  A year is first or last, and a
\* leading year has the month after it.
IsTriple(s) ==
    /\ Len(s) = 5
    /\ \A i \in {1, 3, 5} : s[i].t = "num"
    /\ s[2] = s[4] /\ s[2].t = "byte" /\ s[2].c \in {"/", "-", "."}

YearMonthDay == [y |-> 1, m |-> 3, d |-> 5]
MonthDayYear == [m |-> 1, d |-> 3, y |-> 5]
DayMonthYear == [d |-> 1, m |-> 3, y |-> 5]

Orders == {YearMonthDay, MonthDayYear, DayMonthYear}

DateIn(s, order) == Date(WrittenYear(s[order.y]), s[order.m].v, s[order.d].v)

IsReading(s, order) ==
    /\ YearLike(s[order.y]) /\ DayLike(s[order.m]) /\ DayLike(s[order.d])
    /\ Exists(DateIn(s, order))

TripleDates(s) == {DateIn(s, o) : o \in {p \in Orders : IsReading(s, p)}}

-----------------------------------------------------------------------------
\* A named month with one number, a day or a year, or with two, one of each.
\* No year is written with an ordinal suffix.
NumbersOf(s) == {i \in DOMAIN s : s[i].t = "num"}
MonthsOf(s)  == {i \in DOMAIN s : s[i].t = "month"}

IsOrdinal(s, i) == i < Len(s) /\ s[i + 1].c = "ord"

IsNamed(s) ==
    /\ Cardinality(MonthsOf(s)) = 1
    /\ Cardinality(NumbersOf(s)) \in 1..2
    /\ \A i \in DOMAIN s \ (NumbersOf(s) \cup MonthsOf(s)) :
          s[i].c \in {" ", ",", "-", "ord"}

CanBeYear(s, i) == YearLike(s[i]) /\ ~IsOrdinal(s, i)

NamedDates(s, baseYear) ==
    LET m  == s[CHOOSE i \in MonthsOf(s) : TRUE].v
        ns == NumbersOf(s)
        one == {Date(baseYear, m, s[i].v) : i \in {j \in ns : DayLike(s[j])}}
               \cup {Date(WrittenYear(s[i]), m, 1) : i \in {j \in ns : CanBeYear(s, j)}}
        two == {Date(WrittenYear(s[p[1]]), m, s[p[2]].v) :
                   p \in {q \in ns \X ns : /\ q[1] # q[2]
                                           /\ CanBeYear(s, q[1]) /\ DayLike(s[q[2]])}}
    IN  {date \in (IF Cardinality(ns) = 1 THEN one ELSE two) : Exists(date)}

-----------------------------------------------------------------------------
\* The inputs this reference speaks about, and the dates they can mean.
IsWritten(s) == IsTriple(s) \/ IsNamed(s)

DatesOf(s, baseYear) == IF IsTriple(s) THEN TripleDates(s) ELSE NamedDates(s, baseYear)

=============================================================================
