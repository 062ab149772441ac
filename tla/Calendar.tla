------------------------------ MODULE Calendar ------------------------------
(***************************************************************************)
(* The calendar facts the executor rests on: which days exist and what a   *)
(* two-digit year means (internal/compile/execute.go).                     *)
(***************************************************************************)
EXTENDS Integers

\* The year from which a two-digit year belongs to the 1900s.
CenturyPivot == 69

NormalizeTwoDigitYear(y) == IF y >= CenturyPivot THEN 1900 + y ELSE 2000 + y

IsLeap(y) == y % 4 = 0 /\ (y % 100 # 0 \/ y % 400 = 0)

MonthLengths == <<31, 28, 31, 30, 31, 30, 31, 31, 30, 31, 30, 31>>

\* Is there such a day?  The executor has already bounded month by 1..12.
DayExists(year, month, day) ==
    \/ day <= 28
    \/ month = 2 /\ day = 29 /\ IsLeap(year)
    \/ month # 2 /\ day <= MonthLengths[month]

DaysInYear(y) == IF IsLeap(y) THEN 366 ELSE 365

-----------------------------------------------------------------------------
\* The number of days from 1970-01-01 to a date, whose day need not exist.

\* In years that start in March, so that the leap day comes last.  A month
\* outside 1..12 is one of another year.
DaysFromCivilExact(year, month, day) ==
    LET y   == year + ((month - 1) \div 12) - (IF (month - 1) % 12 < 2 THEN 1 ELSE 0)
        mp  == (month + 9) % 12
        era == y \div 400
        yoe == y - era * 400
    IN  era * 146097 + yoe * 365 + (yoe \div 4) - (yoe \div 100)
            + ((153 * mp + 2) \div 5) + day - 1 - 719468

DayTableYears == 1800..2399

DaysBeforeMonth == <<0, 31, 59, 90, 120, 151, 181, 212, 243, 273, 304, 334>>

\* Mutant of DaysFromCivil: the table's years have no leap day.
DaysFromCivilCommon(year, month, day) ==
    IF year \in DayTableYears /\ month \in 1..12
    THEN DaysFromCivilExact(year, 1, 1) + DaysBeforeMonth[month] + day - 1
    ELSE DaysFromCivilExact(year, month, day)

\* By a table of the years that real timestamps carry.
DaysFromCivil(year, month, day) ==
    IF year \in DayTableYears /\ month \in 1..12
    THEN DaysFromCivilExact(year, 1, 1) + DaysBeforeMonth[month] + day - 1
            + (IF month > 2 /\ IsLeap(year) THEN 1 ELSE 0)
    ELSE DaysFromCivilExact(year, month, day)

-----------------------------------------------------------------------------
\* ISO weeks.  4 January is always in the first.

\* The day of the week of a day number, with Sunday 0 (time.Weekday).
Weekday(n) == (n + 4) % 7

\* Mutant of WeeksIn: every leap year has a week 53.
WeeksInLeap(isoYear) ==
    IF Weekday(DaysFromCivil(isoYear, 1, 1)) = 4 \/ IsLeap(isoYear) THEN 53 ELSE 52

\* Only a year with 53 Thursdays has a week 53.
WeeksIn(isoYear) ==
    LET jan1 == (Weekday(DaysFromCivil(isoYear, 1, 4)) + 4) % 7
    IN  IF jan1 = 4 \/ (IsLeap(isoYear) /\ jan1 = 3) THEN 53 ELSE 52

\* Mutant of Week1Monday: a Sunday belongs to the week after it.
Week1MondayAfter(isoYear) ==
    LET jan4 == DaysFromCivil(isoYear, 1, 4) IN jan4 + 1 - Weekday(jan4)

Week1Monday(isoYear) ==
    LET jan4   == DaysFromCivil(isoYear, 1, 4)
        offset == 1 - Weekday(jan4)
    IN  jan4 + (IF offset > 0 THEN offset - 7 ELSE offset)

\* The day number of a week and a day of the week, Sunday again 0.
IsoWeekToDate(monday, isoWeek, weekday) ==
    monday + (isoWeek - 1) * 7 + ((weekday - 1) % 7)

=============================================================================
