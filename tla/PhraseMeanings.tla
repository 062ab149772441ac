--------------------------- MODULE PhraseMeanings ---------------------------
(***************************************************************************)
(* Phrases by what they mean.  Each is built with its text and its         *)
(* meaning, and a meaning is judged by counting days and months from a day *)
(* whose date and weekday were counted too: nothing here adds a month to a *)
(* date or looks for a weekday.                                            *)
(*                                                                         *)
(* A day is [year, month, day, weekday, number], Monday 1 and Sunday 7.    *)
(***************************************************************************)
EXTENDS NaturalLanguage

\* A phrase: its text and what it can mean, the likelier meaning first.  One
\* that means nothing is to be refused.
Phrased(text, meanings) == [text |-> text, meanings |-> meanings]

Spaced(texts) ==
    FoldLeft(LAMBDA sum, text : IF sum = <<>> THEN text ELSE sum \o <<Byte(" ")>> \o text,
             <<>>, texts)

Say(c) == <<Word(c, 5)>>
Digits(n, w) == <<Num(n, w)>>

NoClock == -1

\* A clock time as it is written, and the minutes since midnight it means.
Clock(text, minutes) == [text |-> text, minutes |-> minutes]

-----------------------------------------------------------------------------
\* Meanings.

NowMeant == [do |-> "now"]
DayMeant(days, minutes) == [do |-> "day", days |-> days, minutes |-> minutes]
ShiftMeant(n, unit, minutes) == [do |-> "shift", n |-> n, unit |-> unit, minutes |-> minutes]
HalfMeant(n, unit) == [do |-> "half", n |-> n, unit |-> unit]
WeekdayMeant(selector, day, minutes) ==
    [do |-> "weekday", selector |-> selector, weekday |-> day, minutes |-> minutes]
MonthMeant(selector, m) == [do |-> "month", selector |-> selector, month |-> m]
PeriodMeant(n, unit) == [do |-> "period", n |-> n, unit |-> unit]
EndMeant(unit) == [do |-> "end", unit |-> unit]
MonthDayMeant(m, d, minutes) == [do |-> "monthday", month |-> m, day |-> d, minutes |-> minutes]
CompoundMeant(first, second) == [do |-> "compound", first |-> first, second |-> second]

Directed(direction, n) == IF direction = "ago" THEN -n ELSE n

SayDirection(direction) ==
    IF direction = "from now" THEN <<Word("from", 4), Byte(" "), Word("now", 3)>>
                              ELSE Say(direction)

ShiftText(n, w, unit, direction) ==
    IF direction = "in" THEN Spaced(<<Say("in"), Digits(n, w), Say(unit)>>)
                        ELSE Spaced(<<Digits(n, w), Say(unit), SayDirection(direction)>>)

ShiftPhrase(n, w, unit, direction) ==
    Phrased(ShiftText(n, w, unit, direction),
            <<ShiftMeant(Directed(direction, n), unit, NoClock)>>)

CompoundPhrase(n, unit, k, other, direction) ==
    LET both == Spaced(<<Digits(n, 1), Say(unit), Say("and"), Digits(k, 1), Say(other)>>)
    IN  Phrased(IF direction = "in" THEN Spaced(<<Say("in"), both>>)
                                    ELSE Spaced(<<both, SayDirection(direction)>>),
                <<CompoundMeant(ShiftText(n, 1, unit, direction),
                                ShiftText(k, 1, other, direction))>>)

DayPhrase(c, days) == Phrased(Say(c), <<DayMeant(days, 0)>>)

DayAtPhrase(c, days, clock) ==
    Phrased(Spaced(<<Say(c), Say("at"), clock.text>>), <<DayMeant(days, clock.minutes)>>)

WeekdayPhrase(selector, day) ==
    Phrased(Spaced(<<Say(selector), Say(Weekdays[day + 1])>>),
            <<WeekdayMeant(selector, day, 0)>>)

MonthPhrase(selector, m) ==
    Phrased(Spaced(<<Say(selector), Say(MonthNames[m])>>), <<MonthMeant(selector, m)>>)

PeriodPhrase(selector, unit) ==
    Phrased(Spaced(<<Say(selector), Say(unit)>>),
            <<PeriodMeant([last |-> -1, this |-> 0, next |-> 1][selector], unit)>>)

StartPhrase(unit) ==
    Phrased(Spaced(<<Say("start"), Say("of"), Say(unit)>>), <<PeriodMeant(0, unit)>>)

EndPhrase(unit) ==
    Phrased(Spaced(<<Say("end"), Say("of"), Say(unit)>>), <<EndMeant(unit)>>)

MonthDayPhrase(m, d, clock) ==
    Phrased(Spaced(<<Say(MonthNames[m]), Digits(d, 2) \o <<Word("th", 2)>>, Say("at"), clock.text>>),
            <<MonthDayMeant(m, d, clock.minutes)>>)

HalfPhrase(unit, direction) ==
    Phrased(Spaced(<<Say("half"), <<Word("a", 1)>>, Say(unit), SayDirection(direction)>>),
            <<HalfMeant(Directed(direction, 1), unit)>>)

-----------------------------------------------------------------------------
\* Does time t, asked for at base on the day today, mean m?

Shows(t, minutes) == LocalSec(t) = 60 * minutes /\ t.nano = 0

\* Does t show the minutes, or base's clock where none were written?
ShowsOrKeeps(t, base, minutes) ==
    IF minutes = NoClock THEN LocalSec(t) = LocalSec(base) /\ t.nano = base.nano
                         ELSE Shows(t, minutes)

DaysAway(t, today) == LocalDay(t) - today.number

MonthsAway(t, today) == 12 * (DateOf(t).y - today.year) + DateOf(t).m - today.month

\* The same day of its month as today, or the last when the month is shorter.
KeepsDay(t, today) ==
    \/ DateOf(t).d = today.day
    \/ DateOf(t).d < today.day /\ ~DayExists(DateOf(t).y, DateOf(t).m, DateOf(t).d + 1)

\* Exactly n units, of which perDay make a day, pass from base to t.
Passes(base, t, n, perDay) ==
    LET unit == DaySeconds \div perDay
        days == t.day - base.day
        secs == t.sec - base.sec
    IN  t.nano = base.nano /\ secs % unit = 0 /\ days * perDay + (secs \div unit) = n

ShiftHolds(m, base, t, today) ==
    CASE m.unit = "second" -> Passes(base, t, m.n, DaySeconds)
      [] m.unit = "minute" -> Passes(base, t, m.n, 1440)
      [] m.unit = "hour"   -> Passes(base, t, m.n, 24)
      [] m.unit = "day"    -> DaysAway(t, today) = m.n /\ ShowsOrKeeps(t, base, m.minutes)
      [] m.unit = "week"   -> DaysAway(t, today) = 7 * m.n /\ ShowsOrKeeps(t, base, m.minutes)
      [] m.unit = "month"  -> /\ MonthsAway(t, today) = m.n /\ KeepsDay(t, today)
                              /\ ShowsOrKeeps(t, base, m.minutes)
      [] m.unit = "year"   -> /\ MonthsAway(t, today) = 12 * m.n /\ KeepsDay(t, today)
                              /\ ShowsOrKeeps(t, base, m.minutes)

\* How far away the thing selected may be, in days or in months.
Distance(selector, furthest) ==
    CASE selector = "next" -> 1..furthest
      [] selector = "last" -> -furthest..-1
      [] selector = "this" -> 0..(furthest - 1)

PeriodHolds(m, t, today) ==
    /\ Shows(t, 0)
    /\ CASE m.unit = "day"   -> DaysAway(t, today) = m.n
         [] m.unit = "week"  -> DaysAway(t, today) = 7 * m.n + 1 - today.weekday
         [] m.unit = "month" -> MonthsAway(t, today) = m.n /\ DateOf(t).d = 1
         [] m.unit = "year"  -> DateOf(t) = [y |-> today.year + m.n, m |-> 1, d |-> 1]

\* The last nanosecond of the last day.
EndHolds(m, t, today) ==
    /\ LocalSec(t) = DaySeconds - 1 /\ t.nano = LastNano
    /\ CASE m.unit = "day"   -> DaysAway(t, today) = 0
         [] m.unit = "week"  -> DaysAway(t, today) = 7 - today.weekday
         [] m.unit = "month" -> /\ MonthsAway(t, today) = 0
                                /\ ~DayExists(DateOf(t).y, DateOf(t).m, DateOf(t).d + 1)
         [] m.unit = "year"  -> DateOf(t) = [y |-> today.year, m |-> 12, d |-> 31]

Holds(m, base, t, today) ==
    CASE m.do = "now"      -> t = base
      [] m.do = "day"      -> DaysAway(t, today) = m.days /\ Shows(t, m.minutes)
      [] m.do = "shift"    -> ShiftHolds(m, base, t, today)
      [] m.do = "half"     -> LET seconds == [minute |-> 60, hour |-> 3600, day |-> DaySeconds,
                                              week |-> 7 * DaySeconds][m.unit]
                              IN  Passes(base, t, m.n * (seconds \div 2), DaySeconds)
      [] m.do = "weekday"  -> /\ DaysAway(t, today) \in Distance(m.selector, 7)
                              /\ (today.weekday + DaysAway(t, today)) % 7 = m.weekday
                              /\ Shows(t, m.minutes)
      [] m.do = "month"    -> /\ DateOf(t).m = m.month /\ DateOf(t).d = 1 /\ Shows(t, 0)
                              /\ IF m.selector = "this" THEN DateOf(t).y = today.year
                                 ELSE MonthsAway(t, today) \in Distance(m.selector, 12)
      [] m.do = "period"   -> PeriodHolds(m, t, today)
      [] m.do = "end"      -> EndHolds(m, t, today)
      [] m.do = "monthday" -> /\ DateOf(t) = [y |-> today.year, m |-> m.month, d |-> m.day]
                              /\ Shows(t, m.minutes)
      [] m.do = "compound" -> \* each part in its turn
             t = FoldLeft(LAMBDA at, part : ParsePhrase(part, <<>>, at, FALSE).time,
                          base, <<m.first, m.second>>)

=============================================================================
