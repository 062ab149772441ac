----------------------------- MODULE MCFallbacks -----------------------------
(***************************************************************************)
(* Walks of 28 years, in which every arrangement of weekdays and leap days *)
(* occurs, over the centuries where the leap rule bends, across both ends  *)
(* of the table of day numbers, before year 1 and past year 9999; and on   *)
(* some of their days, phrases in English, Hindi, Italian and French.      *)
(***************************************************************************)
EXTENDS Fallbacks

Monday(y, m, d, iso, n) ==
    [year |-> y, month |-> m, day |-> d, isoYear |-> iso, number |-> n]

FirstMondays == {
    Monday(-400, 1, 3, -400, -865623),
    Monday(0, 1, 3, 0, -719526),
    Monday(1798, 1, 1, 1798, -62821),
    Monday(1895, 12, 30, 1896, -27030),
    Monday(1969, 12, 29, 1970, -3),
    Monday(2394, 1, 3, 2394, 154865),
    Monday(9972, 1, 3, 9972, 2922672)}

AMonday == {Monday(1969, 12, 29, 1970, -3)}

\* The ends of January and February in 1900, 1972 and 2400; the turn of a year;
\* and the days on which the zones below change their clocks.
SomeDays == (-25540..-25538) \cup (-25513..-25507) \cup (757..761) \cup (786..792)
                \cup (1455..1464) \cup (1546..1552) \cup (157111..157116)

TurnOfTheMonth == 786..792

UTC == [before |-> 0, after |-> 0, from |-> [day |-> 0, sec |-> 0]]

\* On 31 March 1974 an hour ahead at one in the morning; on 30 March an hour back.
Spring == [before |-> 3600, after |-> 7200, from |-> [day |-> 1550, sec |-> 3600]]
Autumn == [before |-> 39600, after |-> 36000, from |-> [day |-> 1549, sec |-> 57600]]

SomeClocks == {[zone |-> UTC, sec |-> 37800, nano |-> 0],
               [zone |-> Spring, sec |-> 600, nano |-> 0],
               [zone |-> Autumn, sec |-> 86399, nano |-> LastNano]}

Midmorning == {[zone |-> UTC, sec |-> 37800, nano |-> 0]}

-----------------------------------------------------------------------------
\* The tables of three locales, in the order internal/natural lists a locale's
\* phrases; the first names a day by a word with two meanings, the second a unit
\* by the word for now, and the third writes "ago" as words of their own.

W(c) == <<Word(c, 5)>>
P(c, d) == W(c) \o <<Byte(" ")>> \o W(d)

\* Words of a script of three bytes to a letter.
S(c) == <<Script(c, 9)>>
SP(c, d) == S(c) \o <<Byte(" ")>> \o S(d)

LocaleTables == [
    hi |-> <<Phrase(S("abhi"), "RelWord", "now"), Phrase(S("aj"), "RelWord", "today"),
             Phrase(S("kal"), "RelWord", "yesterday"),
             Phrase(SP("bita", "kal"), "RelWord", "yesterday"),
             Phrase(S("kal"), "RelWord", "tomorrow"),
             Phrase(SP("anevala", "kal"), "RelWord", "tomorrow"),
             Phrase(S("pahle"), "Direction", "ago"), Phrase(S("din"), "Unit", "day")>>,
    it |-> <<Phrase(W("adesso"), "RelWord", "now"), Phrase(W("ora"), "RelWord", "now"),
             Phrase(W("ieri"), "RelWord", "yesterday"),
             Phrase(W("domani"), "RelWord", "tomorrow"),
             Phrase(W("fa"), "Direction", "ago"), Phrase(W("tra"), "Direction", "in"),
             Phrase(W("ora"), "Unit", "hour"), Phrase(W("giorno"), "Unit", "day")>>,
    fr |-> <<Phrase(W("hier"), "RelWord", "yesterday"),
             Phrase(W("demain"), "RelWord", "tomorrow"),
             Phrase(P("il", "ya"), "Direction", "ago"), Phrase(W("dans"), "Direction", "in"),
             Phrase(W("jour"), "Unit", "day"), Phrase(W("mois"), "Unit", "month")>>]

Options(locales, future, strict) == [locales |-> locales, future |-> future, strict |-> strict]

English == Options(<<>>, FALSE, FALSE)

Asking(phrases, options) == {[phrase |-> p, cfg |-> o] : p \in phrases, o \in options}

-----------------------------------------------------------------------------
\* The phrases asked, with what they mean.

Noon    == Clock(W("noon"), 720)
FivePM  == Clock(<<Num(5, 1), Word("pm", 2)>>, 1020)
TwelveAM == Clock(<<Num(12, 2), Word("am", 2)>>, 0)
TwelvePM == Clock(<<Num(12, 2), Byte(" "), Word("pm", 2)>>, 720)
TenThirty == Clock(<<Num(10, 2), Byte(":"), Num(30, 2)>>, 630)

NoMeaning(texts) == {Phrased(t, <<>>) : t \in texts}

Shifts ==
    {ShiftPhrase(p[1], 1, p[2], d) : p \in {<<1, "day">>, <<2, "week">>, <<1, "month">>,
                                            <<4, "year">>, <<8, "hour">>, <<9, "minute">>},
                                     d \in {"in", "ago", "from now"}}
    \cup {ShiftPhrase(13, 2, "month", d) : d \in {"in", "ago"}}
    \cup {ShiftPhrase(999999, 6, "hour", "ago"), ShiftPhrase(100, 3, "year", "in")}
    \cup {ShiftPhrase(2, 1, "second", "ago"), HalfPhrase("day", "ago"), HalfPhrase("hour", "from now")}

Compounds == {CompoundPhrase(1, "month", 1, "day", d) : d \in {"in", "ago"}}
                \cup {CompoundPhrase(1, "year", 3, "hour", "ago")}

Days == {Phrased(W("now"), <<NowMeant>>), DayPhrase("today", 0), DayPhrase("yesterday", -1),
         DayPhrase("tomorrow", 1), DayAtPhrase("yesterday", -1, FivePM),
         DayAtPhrase("tomorrow", 1, Noon), DayAtPhrase("today", 0, TwelveAM),
         DayAtPhrase("yesterday", -1, TwelvePM), DayAtPhrase("today", 0, TenThirty),
         Phrased(W("tonight"), <<DayMeant(0, 1260)>>)}

Selected == {WeekdayPhrase(s, d) : s \in {"last", "this", "next"}, d \in {0, 1, 4}}
                \cup {MonthPhrase(s, m) : s \in {"last", "this", "next"}, m \in {2, 3}}
                \cup {PeriodPhrase(s, u) : s \in {"last", "this", "next"},
                                          u \in {"day", "week", "month", "year"}}

Bounds == {StartPhrase(u) : u \in {"week", "year"}}
              \cup {EndPhrase(u) : u \in {"day", "week", "month", "year"}}

NamedDays == {MonthDayPhrase(3, 31, Noon), MonthDayPhrase(2, 28, FivePM)}

\* One token too many, one too few, or digits whose hours no duration holds.
Nonsense == NoMeaning({
    P("yesterday", "at"), W("kal"), P("hour", "ago"), P("next", "yesterday"),
    Spaced(<<W("yesterday"), Digits(2023, 4)>>),
    Spaced(<<Digits(1, 1), W("month"), W("and"), Digits(1, 1), W("day")>>),
    Spaced(<<Digits(2562048, 7), W("hour"), W("ago")>>)})

Future == {Phrased(W("monday"), <<WeekdayMeant("next", 1, 0)>>)}
Past   == {Phrased(W("monday"), <<WeekdayMeant("last", 1, 0)>>)}

Kal == Phrased(S("kal"), <<DayMeant(-1, 0), DayMeant(1, 0)>>)

Hindi == {Kal, Phrased(SP("bita", "kal"), <<DayMeant(-1, 0)>>),
          Phrased(SP("anevala", "kal"), <<DayMeant(1, 0)>>),
          Phrased(Spaced(<<Digits(3, 1), S("din"), S("pahle")>>), <<ShiftMeant(-3, "day", NoClock)>>)}

Italian == {Phrased(Spaced(<<Digits(1, 1), W("ora"), W("fa")>>), <<ShiftMeant(-1, "hour", NoClock)>>),
            Phrased(Spaced(<<W("tra"), Digits(2, 1), W("giorno")>>), <<ShiftMeant(2, "day", NoClock)>>),
            Phrased(W("ora"), <<>>), Phrased(W("adesso"), <<NowMeant>>)}

French == {Phrased(Spaced(<<P("il", "ya"), Digits(2, 1), W("mois")>>),
                   <<ShiftMeant(-2, "month", NoClock)>>),
           Phrased(W("demain"), <<DayMeant(1, 0)>>)}

SomeAsks ==
    Asking(Shifts \cup Compounds \cup Days \cup Selected \cup Bounds \cup NamedDays \cup Nonsense
               \cup Past, {English})
    \cup Asking(Future, {Options(<<>>, TRUE, FALSE)})
    \cup Asking(Hindi, {Options(<<"hi">>, FALSE, strict) : strict \in BOOLEAN})
    \cup Asking(Italian \cup French, {Options(<<"it", "fr">>, FALSE, FALSE)})
    \cup Asking({Kal}, {Options(<<"fr", "hi">>, FALSE, TRUE)})

ImpossibleAsks == Asking({MonthDayPhrase(2, 30, Noon)}, {English})

-----------------------------------------------------------------------------
\* Numbers around every power of ten, the range and the limit of an integer.
Around(n) == (n - 2)..(n + 2)

NearLimits ==
    0..320 \cup UNION {Around(Pow10[k]) : k \in 3..7}
        \cup UNION {Around(MaxSeconds * Pow10[k]) : k \in {2, 4}}
        \cup {370037, 370063, 9999950, MaxInt - 1, MaxInt}

SomeTyped == NearLimits \cup {-v : v \in NearLimits} \cup {MinInt}

WithZeros(v) == {Num(v, w) : w \in WidthOf(v)..Min({WidthOf(v) + 1, 9})}

NoFraction == Num(0, 0)

Fractions == {Num(0, 1), Num(1, 1), Num(5, 1), Num(50, 3), Num(999999, 6), Num(1, 6), Num(9999999, 7)}

SomeWritten ==
    {[neg |-> neg, n |-> n, frac |-> NoFraction] :
        neg \in BOOLEAN, n \in UNION {WithZeros(v) : v \in NearLimits \cup {MaxInt + 1, 99999949, 99999999}}}
    \cup {[neg |-> neg, n |-> n, frac |-> f] :
        neg \in BOOLEAN, n \in UNION {WithZeros(v) : v \in {0, 1, 9, 10, 99, 100, 101, 999}}, f \in Fractions}

Thousandths == {0, 1, 499, 500, 501, 999, 1500, 999999499, 999999500, 999999999}

SomeFloats ==
    {NaN} \cup {Float(v, f) : v \in {0, 1, 99, 100, 101, MaxInt}, f \in Thousandths}
          \cup {Float(-v, -f) : v \in {0, 1, 99, 100, 101, MaxInt}, f \in Thousandths}

NoNumbers == {}

=============================================================================
