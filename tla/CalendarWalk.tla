---------------------------- MODULE CalendarWalk ----------------------------
(***************************************************************************)
(* The calendar as anyone counts it, one day after another, beside the     *)
(* arithmetic the executor uses.  The walk knows no formula: a month ends  *)
(* where the next day does not exist, a week begins every seven days, and  *)
(* the ISO year turns with the week of 4 January.                          *)
(***************************************************************************)
EXTENDS Calendar

CONSTANTS
    Starts,  \* Mondays that begin an ISO year: [year, month, day, isoYear, number]
    Span     \* how many days to walk from each; a bound on the model

ASSUME SpanAssumption == Span \in Nat

\* A walk begins on the Monday of an ISO year's first week, the one that has 4
\* January in it.
ASSUME StartsAssumption ==
    \A s \in Starts :
        /\ s.year \in Int
        /\ \/ s.month = 1 /\ s.day \in 1..4 /\ s.isoYear = s.year
           \/ s.month = 12 /\ s.day \in 29..31 /\ s.isoYear = s.year + 1
        /\ s.number = DaysFromCivilExact(s.year, s.month, s.day)
        /\ Weekday(s.number) = 1

VARIABLES
    year, month, day,           \* the date
    number,                     \* the days since 1970-01-01
    isoYear, isoWeek, weekday,  \* the same day as an ISO week date, Monday 1
    walked                      \* the days walked

vars == <<year, month, day, number, isoYear, isoWeek, weekday, walked>>

Init ==
    \E s \in Starts :
        /\ year = s.year /\ month = s.month /\ day = s.day
        /\ isoYear = s.isoYear /\ isoWeek = 1 /\ weekday = 1
        /\ number = s.number
        /\ walked = 0

\* The date of tomorrow.
NextDate ==
    \/ /\ DayExists(year, month, day + 1)
       /\ day' = day + 1
       /\ UNCHANGED <<year, month>>
    \/ /\ ~DayExists(year, month, day + 1)
       /\ day' = 1
       /\ IF month = 12 THEN month' = 1 /\ year' = year + 1
                        ELSE month' = month + 1 /\ UNCHANGED year

\* The week that begins tomorrow is the first of its year when 4 January is in it.
BeginsIsoYear == (month' = 1 /\ day' <= 4) \/ (month' = 12 /\ day' >= 29)

NextWeekday ==
    \/ /\ weekday < 7
       /\ weekday' = weekday + 1
       /\ UNCHANGED <<isoYear, isoWeek>>
    \/ /\ weekday = 7
       /\ weekday' = 1
       /\ IF BeginsIsoYear THEN isoWeek' = 1 /\ isoYear' = isoYear + 1
                           ELSE isoWeek' = isoWeek + 1 /\ UNCHANGED isoYear

NextDay ==
    /\ walked < Span
    /\ walked' = walked + 1
    /\ number' = number + 1
    /\ NextDate
    /\ NextWeekday

Next == NextDay

Spec == Init /\ [][Next]_vars

-----------------------------------------------------------------------------
\* The day number of every date, from the table and from the formula, is the
\* number of days counted (daysFromCivil, daysFromCivilExact).
DayNumbersCount ==
    /\ DaysFromCivil(year, month, day) = number
    /\ DaysFromCivilExact(year, month, day) = number

\* An ISO week date is the day its week and weekday are counted to be
\* (isoWeek1, isoWeekToDate).
WeekDatesCount ==
    IsoWeekToDate(Week1Monday(isoYear), isoWeek, weekday % 7) = number

\* An ISO year has as many weeks as were counted before the next one began, so
\* week 53 is refused in the years that have none (isoWeek1).
WeeksCount ==
    [][isoYear' # isoYear => isoWeek = WeeksIn(isoYear)]_vars

=============================================================================
