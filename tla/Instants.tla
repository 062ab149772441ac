------------------------------ MODULE Instants ------------------------------
(***************************************************************************)
(* The part of Go's time package that natural language is computed with:   *)
(* instants, the dates and clocks they show in a zone, and the way back.   *)
(*                                                                         *)
(* A time is an instant, in days since 1970-01-01 UTC, seconds of that day *)
(* and nanoseconds, and the zone it is shown in.  A zone's clock changes   *)
(* at most once: [before, after: seconds east of UTC, from: the instant].  *)
(***************************************************************************)
EXTENDS Calendar

DaySeconds == 86400

LastNano == 999999999

Time(day, sec, nano, zone) ==
    [day |-> day + (sec \div DaySeconds), sec |-> sec % DaySeconds, nano |-> nano, zone |-> zone]

EarlierIn(day1, sec1, day2, sec2) == day1 < day2 \/ (day1 = day2 /\ sec1 < sec2)

\* time.Time.Before.
Before(t, u) ==
    \/ EarlierIn(t.day, t.sec, u.day, u.sec)
    \/ t.day = u.day /\ t.sec = u.sec /\ t.nano < u.nano

\* The zone's offset at an instant, which may be out of its day.
Offset(zone, day, sec) ==
    IF EarlierIn(day + (sec \div DaySeconds), sec % DaySeconds, zone.from.day, zone.from.sec)
    THEN zone.before ELSE zone.after

\* What a clock and a calendar show: the number of the local day, and the
\* seconds since its midnight by the clock.
LocalDay(t) == t.day + ((t.sec + Offset(t.zone, t.day, t.sec)) \div DaySeconds)
LocalSec(t) == (t.sec + Offset(t.zone, t.day, t.sec)) % DaySeconds

\* The date doy days after the first of March.
FromMarch(year, doy) ==
    LET mp == (5 * doy + 2) \div 153
    IN  [y |-> year + (mp \div 10), m |-> ((mp + 2) % 12) + 1,
         d |-> doy - ((153 * mp + 2) \div 5) + 1]

\* The date doe days into a cycle of 400 years that begin in March.
InCycle(year, doe) ==
    LET yoe == (doe - (doe \div 1460) + (doe \div 36524) - (doe \div 146096)) \div 365
    IN  FromMarch(year + yoe, doe - (365 * yoe + (yoe \div 4) - (yoe \div 100)))

\* The date of a day number (time.Time.Date).
CivilOf(number) ==
    InCycle(400 * ((number + 719468) \div 146097), (number + 719468) % 146097)

DateOf(t) == CivilOf(LocalDay(t))

\* The time a clock shows on a local day.  The offset is looked up twice: at
\* the local time taken for an instant, and at the instant that gives.
TimeAt(number, sec, nano, zone) ==
    LET guess == Offset(zone, number, sec)
        off   == Offset(zone, number, sec - guess)
    IN  Time(number, sec - off, nano, zone)

\* time.Date: a month or a day out of range is one of another year or month.
TimeOf(y, m, d, sec, nano, zone) == TimeAt(DaysFromCivil(y, m, d), sec, nano, zone)

\* Another date at t's clock.
ClockOn(t, y, m, d) == TimeOf(y, m, d, LocalSec(t), t.nano, t.zone)

\* time.Time.AddDate keeps the clock, and lets a day the month lacks overflow.
Moved(t, c, years, months, days) == ClockOn(t, c.y + years, c.m + months, c.d + days)

AddDate(t, years, months, days) == Moved(t, DateOf(t), years, months, days)

\* time.Time.Add of n units, of which perDay make a day: elapsed time, whatever
\* the clock shows.
Add(t, n, perDay) ==
    Time(t.day + (n \div perDay), t.sec + (n % perDay) * (DaySeconds \div perDay), t.nano, t.zone)

\* The nanosecond before a full second.
NanoBefore(t) == Time(t.day, t.sec - 1, LastNano, t.zone)

=============================================================================
