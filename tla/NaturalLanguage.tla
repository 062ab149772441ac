--------------------------- MODULE NaturalLanguage ---------------------------
(***************************************************************************)
(* What a phrase means at a base time (internal/natural/eval.go and        *)
(* parser.go): the patterns in their order, of which the first that        *)
(* accounts for every token answers, and the two readings of a phrase that *)
(* its locale lists twice.                                                 *)
(***************************************************************************)
EXTENDS PhraseTokens, Instants

CONSTANT Tables  \* the phrases of each locale

Hours(t, n) == Add(t, n, 24)
Minutes(t, n) == Add(t, n, 1440)
Seconds(t, n) == Add(t, n, DaySeconds)

TruncateDay(t) == TimeAt(LocalDay(t), 0, 0, t.zone)

\* Monday begins a week.
StartOfWeek(t) == AddDate(TruncateDay(t), 0, 0, -((Weekday(LocalDay(t)) - 1) % 7))
StartOfMonth(t) == TimeOf(DateOf(t).y, DateOf(t).m, 1, 0, 0, t.zone)
StartOfYear(t) == TimeOf(DateOf(t).y, 1, 1, 0, 0, t.zone)

-----------------------------------------------------------------------------
\* Shifts.

DaysInMonth(y, m) == IF m = 2 /\ IsLeap(y) THEN 29
                     ELSE IF m = 2 THEN 28 ELSE MonthLengths[m]

\* Mutant of AddMonths: a day the month lacks overflows into the next.
AddMonthsOverflowing(t, n) == AddDate(t, 0, n, 0)

\* The day is clamped to the month it lands in.
Clamped(t, y, m, d) == ClockOn(t, y, m, Min({d, DaysInMonth(y, m)}))

\* The date c with its month counted on from January of its year.
InMonth(t, c, month) == Clamped(t, c.y + (month \div 12), (month % 12) + 1, c.d)

\* Mutant of AddMonths: division truncates toward zero.
AddMonthsTruncating(t, n) ==
    LET c == DateOf(t)
        total == c.m - 1 + n
    IN  Clamped(t, c.y + (IF total < 0 THEN -((-total) \div 12) ELSE total \div 12),
                (total % 12) + 1, c.d)

AddMonths(t, n) == InMonth(t, DateOf(t), DateOf(t).m - 1 + n)

\* Beyond this many hours their nanoseconds wrap, by 213503 days and a part of
\* one.  One turn is as far as the quantities of the model go.
MaxDurationHours == 2562047

AddHours(t, n) ==
    CASE n > MaxDurationHours  -> Hours(Seconds(t, -84873), n - 24 * 213503)
      [] n < -MaxDurationHours -> Hours(Seconds(t, 84873), n + 24 * 213503)
      [] OTHER                 -> Hours(t, n)

AddUnit(t, n, unit) ==
    CASE unit = "second" -> Seconds(t, n)
      [] unit = "minute" -> Minutes(t, n)
      [] unit = "hour"   -> AddHours(t, n)
      [] unit \in {"day", "week"}   -> AddDate(t, 0, 0, IF unit = "week" THEN 7 * n ELSE n)
      [] unit \in {"month", "year"} -> AddMonths(t, IF unit = "year" THEN 12 * n ELSE n)

Shift(t, n, unit, direction) == AddUnit(t, IF direction = "ago" THEN -n ELSE n, unit)

\* Mutant of ResolveWeekday: today counts as the next one.
ResolveWeekdayToday(base, target, selector) ==
    LET diff == target - Weekday(LocalDay(base))
    IN  AddDate(TruncateDay(base), 0, 0,
            CASE selector = "next" /\ diff < 0  -> diff + 7
              [] selector = "last" /\ diff >= 0 -> diff - 7
              [] selector = "this" /\ diff < 0  -> diff + 7
              [] OTHER -> diff)

ResolveWeekday(base, target, selector) ==
    LET diff == target - Weekday(LocalDay(base))
    IN  AddDate(TruncateDay(base), 0, 0,
            CASE selector = "next" /\ diff <= 0 -> diff + 7
              [] selector = "last" /\ diff >= 0 -> diff - 7
              [] selector = "this" /\ diff < 0  -> diff + 7
              [] OTHER -> diff)

ResolveMonth(base, target, selector) ==
    LET c == DateOf(base)
        y == CASE selector = "next" /\ c.m >= target -> c.y + 1
               [] selector = "last" /\ c.m <= target -> c.y - 1
               [] OTHER -> c.y
    IN  TimeOf(y, target, 1, 0, 0, base.zone)

-----------------------------------------------------------------------------
\* An answer: a time, and how many tokens it was read from.

NoAnswer == [used |-> 0]
Reading(time, kind, used) == [time |-> time, kind |-> kind, used |-> used]

\* Do the tokens begin with tokens of these kinds?
Begins(tokens, kinds) ==
    Len(kinds) <= Len(tokens) /\ \A i \in DOMAIN kinds : tokens[i].kind = kinds[i]

\* A bare number is an hour, with a meridiem after it or without.
BareHour(tokens, i, day) ==
    IF i < Len(tokens) /\ tokens[i + 1].kind = "AMPM"
    THEN Reading(Hours(day, ApplyAMPM(tokens[i].val, tokens[i + 1].val)), "relative", i + 1)
    ELSE Reading(Hours(day, tokens[i].val), "relative", i)

\* The time of day the tokens after the first skip write, as time elapsed since
\* the midnight of t's day; nothing read leaves t.
ApplyTimeSuffix(tokens, skip, t) ==
    LET i    == IF skip < Len(tokens) /\ tokens[skip + 1].kind = "At" THEN skip + 2 ELSE skip + 1
        kind == IF i > Len(tokens) THEN "none" ELSE tokens[i].kind
        day  == TruncateDay(t)
    IN  CASE kind = "Time"     -> Reading(Minutes(day, tokens[i].val), "relative", i)
          [] kind = "Noon"     -> Reading(Hours(day, 12), "relative", i)
          [] kind = "Midnight" -> Reading(day, "relative", i)
          [] kind = "Number" /\ tokens[i].val \in 0..23 -> BareHour(tokens, i, day)
          [] OTHER             -> Reading(t, "relative", skip)

-----------------------------------------------------------------------------
\* The patterns.

DayNamed(today, base, word) ==
    CASE word = "now"     -> base
      [] word = "today"   -> today
      [] word = "tonight" -> Hours(today, 21)
      [] word \in {"yesterday", "tomorrow"} ->
             AddDate(today, 0, 0, IF word = "tomorrow" THEN 1 ELSE -1)

EvalRelWord(tokens, base) ==
    LET word == tokens[1].val
    IN  IF tokens[1].kind = "RelWord"
        THEN [ApplyTimeSuffix(tokens, 1, DayNamed(TruncateDay(base), base, word)) EXCEPT
                 !.kind = IF word \in {"now", "today"} THEN "now" ELSE "relative"]
        ELSE NoAnswer

EvalTimeOfDay(tokens, base) ==
    LET today == TruncateDay(base)
    IN  CASE Begins(tokens, <<"Selector", "TimeOfDay">>) ->
                 Reading(Hours(IF tokens[1].val = "last" THEN AddDate(today, 0, 0, -1) ELSE today,
                             tokens[2].val), "relative", 2)
          [] Len(tokens) = 1 /\ tokens[1].kind = "TimeOfDay" ->
                 Reading(Hours(today, tokens[1].val), "relative", 1)
          [] OTHER -> NoAnswer

\* Half of a unit, in seconds.
HalfUnit == [minute |-> 30, hour |-> 1800, day |-> 43200, week |-> 302400]

EvalHalf(tokens, base) ==
    LET i == IF Begins(tokens, <<"Half", "Number">>) /\ tokens[2].val = 1 THEN 3 ELSE 2
    IN  IF /\ Begins(tokens, <<"Half">>)
           /\ Begins(SubSeq(tokens, i, Len(tokens)), <<"Unit", "Direction">>)
           /\ tokens[i].val \in DOMAIN HalfUnit
        THEN Reading(Seconds(base, IF tokens[i + 1].val = "ago" THEN -HalfUnit[tokens[i].val]
                                                              ELSE HalfUnit[tokens[i].val]),
                   "relative", i + 1)
        ELSE NoAnswer

\* The pairs of a number and a unit from start on, joined by "and".
Pairs(tokens, start) ==
    LET from[i \in 1..(Len(tokens) + 1)] ==
            LET rest == SubSeq(tokens, i, Len(tokens))
                pair == <<rest[1].val, rest[2].val>>
            IN  IF Begins(rest, <<"Number", "Unit", "And">>) THEN <<pair>> \o from[i + 3]
                ELSE IF Begins(rest, <<"Number", "Unit">>) THEN <<pair>> ELSE <<>>
    IN  from[start]

\* One part after the other.
ShiftAll(base, pairs, direction) ==
    FoldLeft(LAMBDA t, p : Shift(t, p[1], p[2], direction), base, pairs)

PrefixedParts(tokens, base, pairs) ==
    LET last == 3 * Len(pairs)
    IN  IF Len(pairs) >= 2 /\ ~(last < Len(tokens) /\ tokens[last + 1].kind = "And")
        THEN Reading(ShiftAll(base, pairs, "in"), "relative", last)
        ELSE NoAnswer

DirectedParts(tokens, base, pairs) ==
    LET end == 3 * Len(pairs)
    IN  IF Len(pairs) >= 2 /\ end <= Len(tokens) /\ tokens[end].kind = "Direction"
        THEN Reading(ShiftAll(base, pairs, tokens[end].val), "relative", end)
        ELSE NoAnswer

\* Two parts or more: "in" before them, or a direction after them.
EvalCompoundNAgo(tokens, base) ==
    IF Begins(tokens, <<"Direction">>) /\ tokens[1].val = "in"
    THEN PrefixedParts(tokens, base, Pairs(tokens, 2))
    ELSE DirectedParts(tokens, base, Pairs(tokens, 1))

EvalNAgo(tokens, base) ==
    IF Begins(tokens, <<"Number", "Unit", "Direction">>)
    THEN ApplyTimeSuffix(tokens, 3, Shift(base, tokens[1].val, tokens[2].val, tokens[3].val))
    ELSE NoAnswer

EvalPrefixAgo(tokens, base) ==
    IF Begins(tokens, <<"Direction", "Number", "Unit">>) /\ tokens[1].val = "ago"
    THEN Reading(Shift(base, tokens[2].val, tokens[3].val, "ago"), "relative", 3)
    ELSE NoAnswer

EvalInN(tokens, base) ==
    IF Begins(tokens, <<"Direction", "Number", "Unit">>) /\ tokens[1].val = "in"
    THEN ApplyTimeSuffix(tokens, 3, Shift(base, tokens[2].val, tokens[3].val, "in"))
    ELSE NoAnswer

EvalSelectorWeekday(tokens, base) ==
    IF Begins(tokens, <<"Selector", "Weekday">>)
    THEN ApplyTimeSuffix(tokens, 2, ResolveWeekday(base, tokens[2].val, tokens[1].val))
    ELSE NoAnswer

\* The day is not checked against its month: time.Date moves it on.
EvalMonthDay(tokens, base) ==
    IF Begins(tokens, <<"Month", "Number">>) /\ tokens[2].val \in 1..31
    THEN ApplyTimeSuffix(tokens, 2,
             TimeOf(DateOf(base).y, tokens[1].val, tokens[2].val, 0, 0, base.zone))
    ELSE NoAnswer

EvalSelectorMonth(tokens, base) ==
    IF Begins(tokens, <<"Selector", "Month">>)
    THEN Reading(ResolveMonth(base, tokens[2].val, tokens[1].val), "relative", 2)
    ELSE NoAnswer

Periods == {"day", "week", "month", "year"}

StartOf(base, unit) ==
    CASE unit = "day"   -> TruncateDay(base)
      [] unit = "week"  -> StartOfWeek(base)
      [] unit = "month" -> StartOfMonth(base)
      [] unit = "year"  -> StartOfYear(base)

\* The period n on from one that starts at t.
PeriodsOn(t, n, unit) ==
    AddDate(t, IF unit = "year" THEN n ELSE 0, IF unit = "month" THEN n ELSE 0,
            IF unit = "week" THEN 7 * n ELSE IF unit = "day" THEN n ELSE 0)

EvalSelectorUnit(tokens, base) ==
    IF Begins(tokens, <<"Selector", "Unit">>) /\ tokens[2].val \in Periods
    THEN Reading(PeriodsOn(StartOf(base, tokens[2].val),
                           [last |-> -1, this |-> 0, next |-> 1][tokens[1].val],
                           tokens[2].val), "relative", 2)
    ELSE NoAnswer

\* A day ends after 24 hours.
EndOf(base, unit) ==
    NanoBefore(IF unit = "day" THEN Hours(TruncateDay(base), 24)
                               ELSE PeriodsOn(StartOf(base, unit), 1, unit))

EvalBoundary(tokens, base) ==
    IF Begins(tokens, <<"Boundary", "Of", "Unit">>) /\ tokens[3].val \in Periods
    THEN Reading(IF tokens[1].val = "start" THEN StartOf(base, tokens[3].val)
                                          ELSE EndOf(base, tokens[3].val), "relative", 3)
    ELSE NoAnswer

EvalBareWeekday(tokens, base, preferFuture) ==
    IF Len(tokens) = 1 /\ tokens[1].kind = "Weekday"
    THEN Reading(ResolveWeekday(base, tokens[1].val, IF preferFuture THEN "next" ELSE "last"),
               "relative", 1)
    ELSE NoAnswer

-----------------------------------------------------------------------------
\* An article before a number says nothing.
IsArticle(tokens, i) ==
    /\ tokens[i].kind = "Number" /\ tokens[i].raw = <<Word("a", 1)>>
    /\ i < Len(tokens) /\ tokens[i + 1].kind = "Number"

CollapseNumbers(tokens) ==
    LET from[i \in 1..(Len(tokens) + 1)] ==
            IF i > Len(tokens) THEN <<>>
            ELSE IF IsArticle(tokens, i) THEN from[i + 1]
            ELSE <<tokens[i]>> \o from[i + 1]
    IN  from[1]

\* Mutant of IsWhole: what a pattern left unread is ignored.
IsWholeIfAny(answer, tokens) == answer.used > 0

\* Does the answer account for every token?
IsWhole(answer, tokens) == answer.used = Len(tokens)

UnknownsIn(tokens) == Cardinality({i \in DOMAIN tokens : tokens[i].kind = "Unknown"})

\* The first pattern that explains the whole input.
EvalPatterns(tokens, base, preferFuture) ==
    LET answers == <<EvalRelWord(tokens, base), EvalTimeOfDay(tokens, base),
                     EvalHalf(tokens, base), EvalCompoundNAgo(tokens, base),
                     EvalNAgo(tokens, base), EvalPrefixAgo(tokens, base),
                     EvalInN(tokens, base), EvalSelectorWeekday(tokens, base),
                     EvalMonthDay(tokens, base), EvalSelectorMonth(tokens, base),
                     EvalSelectorUnit(tokens, base), EvalBoundary(tokens, base),
                     EvalBareWeekday(tokens, base, preferFuture)>>
        whole   == {i \in DOMAIN answers : IsWhole(answers[i], tokens)}
    IN  IF whole = {} THEN NoAnswer ELSE answers[Min(whole)]

\* Numbers, and words without a meaning in time, are not an expression.
Meaningless == {"Number", "Of", "At", "AMPM", "Time", "And", "Unknown"}

TryParse(tokens, base, preferFuture) ==
    IF \/ \A i \in DOMAIN tokens : tokens[i].kind \in Meaningless
       \/ UnknownsIn(tokens) > Len(tokens) \div 2
    THEN NoAnswer
    ELSE EvalPatterns(CollapseNumbers(tokens), base, preferFuture)

-----------------------------------------------------------------------------
\* Readings: the answer, and the other one where there is one.

Answered(a, others) == [ok |-> TRUE, time |-> a.time, kind |-> a.kind, others |-> others]
NotAPhrase == [ok |-> FALSE]

SwapAlternates(tokens) ==
    [i \in DOMAIN tokens |->
        IF tokens[i].alt = <<>> THEN tokens[i]
        ELSE Token(tokens[i].kind, tokens[i].alt[1], tokens[i].raw)]

\* Two readings of one instant are no ambiguity, and neither is one refused.
BothReadings(read) ==
    CASE read[1] = NoAnswer -> NotAPhrase
      [] read[1] # NoAnswer /\ (read[2] = NoAnswer \/ read[2].time = read[1].time) ->
             Answered(read[1], <<>>)
      [] OTHER -> Answered(read[1], <<read[2].time>>)

ParseBothReadings(tokens, base, preferFuture) ==
    BothReadings([i \in 1..2 |->
        TryParse(IF i = 1 THEN tokens ELSE SwapAlternates(tokens), base, preferFuture)])

\* Longer inputs are not read at all.
MaxInputLen == 512

LengthOf(s) == FoldLeft(LAMBDA n, tok : n + tok.w, 0, s)

\* English first, and then each locale in the caller's order.
FirstReading(english, local) ==
    LET read == {i \in DOMAIN local : local[i].ok}
    IN  CASE english # NoAnswer -> Answered(english, <<>>)
          [] english = NoAnswer /\ read # {} -> local[Min(read)]
          [] english = NoAnswer /\ read = {} -> NotAPhrase

ParsePhrase(s, locales, base, preferFuture) ==
    IF LengthOf(s) > MaxInputLen THEN NotAPhrase
    ELSE FirstReading(TryParse(Scan(s), base, preferFuture),
                      [i \in DOMAIN locales |->
                          ParseBothReadings(ScanLocale(s, Tables[locales[i]]), base, preferFuture)])

=============================================================================
