------------------------------ MODULE Fallbacks ------------------------------
(***************************************************************************)
(* What is read when no format fits (dateparser.go): a timestamp, and then *)
(* a phrase at the base time, on every day of a walk through the calendar  *)
(* that knows today's date and weekday by counting.                        *)
(***************************************************************************)
EXTENDS CalendarWalk, Epoch, PhraseMeanings

CONSTANTS
    PhraseDays,  \* the days on which phrases are asked; a bound on the model
    Clocks,      \* what clocks show then: [zone, sec, nano]
    Asks,        \* the phrases, each with options: [phrase, cfg]
    Written,     \* timestamps written in digits: [neg, n, frac], frac.w 0 without one
    Typed,       \* timestamps that are integers
    Floats       \* timestamps that are floats

\* A run of digits has a value and at least as many digits as the value needs.
Numerals == {n \in [t : {"num"}, v : Nat, w : Nat, c : {"digits"}] : n.v < Pow10[n.w]}
WrittenNumbers == [neg : BOOLEAN, n : Numerals, frac : Numerals]

ASSUME NumbersAssumption ==
    /\ Written \subseteq WrittenNumbers
    /\ Typed \subseteq MinInt..MaxInt
    /\ Floats \subseteq {NaN} \cup [nan : {FALSE}, whole : Int, frac : Int]

\* What a phrase is written with, a word that no language has, and one in another
\* script that no locale's table has.  The two spellings named are strings: the
\* provers know of none that it is one.
Spellings == STRING \cup {" ", "xyzzy"}
Writing == [t : {"num", "word", "script", "byte"}, v : Nat, w : Nat, c : Spellings]
Nonword == Word("xyzzy", 5)
Foreign == Script("xyzzy", 10)

ASSUME PhrasesAssumption ==
    /\ \A ask \in Asks : /\ ask.phrase.text \in Seq(Writing)
                         /\ ask.cfg.locales \in Seq(DOMAIN Tables)
    /\ \A l \in DOMAIN Tables : \A i \in DOMAIN Tables[l] :
           LET text == Tables[l][i].phrase
           IN  text \in Seq(Writing) /\ text # <<>> /\ \A k \in DOMAIN text : text[k] \notin {Nonword, Foreign}

VARIABLE asked  \* the last question of the day, and the answer

fallbackVars == <<vars, asked>>

-----------------------------------------------------------------------------
\* A timestamp: a sign, digits, and at most one dot.
DetectEpoch(s) ==
    LET neg    == IsAt(s, 1, Byte("-"))
        digits == IF neg THEN Tail(s) ELSE s
        kinds  == [i \in DOMAIN digits |-> digits[i].t]
    IN  CASE kinds = <<"num">> -> ParseInteger(neg, digits[1])
          [] kinds = <<"num", "byte", "num">> /\ IsAt(digits, 2, Byte(".")) ->
                 ParseFractional(neg, digits[1], digits[3])
          [] OTHER -> NoInstant

NotRead(readings) == [ok |-> FALSE, readings |-> readings]
Read(time, kind, ambiguous) ==
    [ok |-> TRUE, time |-> time, kind |-> kind, ambiguous |-> ambiguous]

\* A phrase with two readings is reported, or in strict mode refused with both.
Reported(p, strict) ==
    CASE ~p.ok -> NotRead(<<>>)
      [] p.ok /\ p.others # <<>> /\ strict -> NotRead(<<p.time>> \o p.others)
      [] OTHER -> Read(p.time, IF p.kind = "now" THEN "now" ELSE "relative", p.others # <<>>)

\* Mutant of FallBackPhrase: strict mode is not asked.
FallBackPhraseLenient(s, cfg, base) ==
    Reported(ParsePhrase(s, cfg.locales, base, cfg.future), FALSE)

FallBackPhrase(s, cfg, base) ==
    Reported(ParsePhrase(s, cfg.locales, base, cfg.future), cfg.strict)

FallBack(s, cfg, base) ==
    LET epoch == DetectEpoch(s)
    IN  IF epoch.ok THEN Read(epoch.at, "absolute", FALSE) ELSE FallBackPhrase(s, cfg, base)

-----------------------------------------------------------------------------
Unasked == [what |-> "nothing"]

\* The moment a clock shows its time on a day.
BaseOn(dayNumber, clock) == TimeAt(dayNumber, clock.sec, clock.nano, clock.zone)

AskedOf(ask, clock, dayNumber) ==
    [what |-> "phrase", ask |-> ask, clock |-> clock,
     answer |-> FallBack(ask.phrase.text, ask.cfg, BaseOn(dayNumber, clock))]

Ask ==
    /\ asked = Unasked /\ number \in PhraseDays
    /\ \E ask \in Asks, clock \in Clocks : asked' = AskedOf(ask, clock, number)
    /\ UNCHANGED vars

\* The same phrase a day later, when the clock shows the same time.
AskTomorrow ==
    /\ asked.what = "phrase" /\ number + 1 \in PhraseDays
    /\ NextDay
    /\ asked' = AskedOf(asked.ask, asked.clock, number')

\* Numbers name the same instant on every day, and are asked about on the first
\* of January 1970.
TheEpoch == asked = Unasked /\ number = 0

AskNumber(what, n, answer) ==
    /\ asked' = [what |-> what, n |-> n, answer |-> answer]
    /\ UNCHANGED vars

DigitsOf(w) == IF w.frac.w = 0 THEN <<w.n>> ELSE <<w.n, Byte("."), w.frac>>

TextOf(w) == IF w.neg THEN <<Byte("-")>> \o DigitsOf(w) ELSE DigitsOf(w)

Plain == [locales |-> <<>>, future |-> FALSE, strict |-> FALSE]

\* The options and the base time have no part in a timestamp.
AskWritten ==
    /\ TheEpoch
    /\ \E w \in Written, clock \in Clocks :
          AskNumber("written", w, FallBack(TextOf(w), Plain, BaseOn(number, clock)))

AskTyped == TheEpoch /\ \E v \in Typed : AskNumber("typed", v, FromInt(v))

AskFloat == TheEpoch /\ \E f \in Floats : AskNumber("float", f, FromSeconds(f))

GoOn == NextDay /\ asked' = Unasked

FallbackInit == Init /\ asked = Unasked

FallbackNext == GoOn \/ Ask \/ AskTomorrow \/ AskWritten \/ AskTyped \/ AskFloat

FallbackSpec == FallbackInit /\ [][FallbackNext]_fallbackVars

-----------------------------------------------------------------------------
\* Phrases.

IsPhrase == asked.what = "phrase"
Meanings == asked.ask.phrase.meanings
Base     == BaseOn(number, asked.clock)
Today    == [year |-> year, month |-> month, day |-> day, weekday |-> weekday, number |-> number]

\* A time of day is counted in hours from midnight, and so is the end of a day.
CountsHours(m) ==
    \/ m.do = "end" /\ m.unit = "day"
    \/ m.do \in {"day", "shift", "weekday", "monthday"} /\ m.minutes > 0

\* Is the day t shows, and the day before, 24 hours long?
OrdinaryDay(t) ==
    \A n \in {LocalDay(t) - 1, LocalDay(t)} :
        Passes(TimeAt(n, 0, 0, t.zone), TimeAt(n + 1, 0, 0, t.zone), 1, 1)

Keeps(m, t) == (CountsHours(m) => OrdinaryDay(t)) => Holds(m, Base, t, Today)

\* A phrase is answered exactly when it means something, and then with the day
\* and the clock it means, counted from the caller's day, its weekday and its
\* clock: months clamp to their last day, weeks begin on Monday, "next" is never
\* today (internal/natural).  A zone's clock change moves no day counted in days
\* where it does not skip midnight; what is counted in hours is not held to its
\* clock on a day that is not 24 hours long (OrdinaryDay).
MeansWhatItSays ==
    IsPhrase =>
        /\ asked.answer.ok <=> Meanings # <<>> /\ ~(asked.ask.cfg.strict /\ Len(Meanings) > 1)
        /\ asked.answer.ok => Keeps(Meanings[1], asked.answer.time)

\* A phrase its locale lists twice is never answered silently: the flag is set,
\* or strict mode refuses and carries both days (dateparser.go, scanner.go).
GuessReported ==
    IsPhrase =>
        /\ asked.answer.ok => (asked.answer.ambiguous <=> Len(Meanings) > 1)
        /\ ~asked.answer.ok /\ Meanings # <<>> =>
              /\ Len(asked.answer.readings) = Len(Meanings)
              /\ \A i \in DOMAIN Meanings : Keeps(Meanings[i], asked.answer.readings[i])

\* The phrase asked, with a word between spaces put in after its first i tokens.
With(word, i) ==
    LET text == asked.ask.phrase.text
    IN  SubSeq(text, 1, i) \o <<Byte(" "), word, Byte(" ")>> \o SubSeq(text, i + 1, Len(text))

InEnglish(cfg) == [locales |-> <<>>, future |-> cfg.future, strict |-> cfg.strict]

\* What is answered then, and what with no locale.
AnswersWith(word, i) ==
    {FallBack(With(word, i), cfg, Base) : cfg \in {asked.ask.cfg, InEnglish(asked.ask.cfg)}}

\* A word of ASCII letters that means nothing is never passed over: wherever it
\* stands, the phrase is refused.  A word in another script is passed over by the
\* English scanner and by no other: no locale reads across one its table does not
\* list, so with it the answer is what English alone makes of the phrase (Scan,
\* scanLowered, Eval's whole).
WholeInputRead ==
    IsPhrase /\ asked.answer.ok =>
        \A i \in 0..Len(asked.ask.phrase.text) :
            \A word \in {Nonword, Foreign} : \A a, b \in AnswersWith(word, i) :
                a = b /\ (word = Nonword => ~a.ok)

\* Asked a day later, a phrase never names an earlier time (addMonths,
\* resolveWeekday).
NeverGoesBack ==
    [][IsPhrase /\ asked'.what = "phrase" /\ asked'.ask = asked.ask /\ asked'.clock = asked.clock
          /\ number' = number + 1 /\ asked.answer.ok /\ asked'.answer.ok =>
              ~Before(asked'.answer.time, asked.answer.time)]_fallbackVars

\* An answer to MONTH DAY is that day of that month (TestImpossibleDayIsRefused).
NamedDayKept ==
    IsPhrase /\ asked.answer.ok /\ Meanings[1].do = "monthday" =>
        LET c == DateOf(asked.answer.time)
        IN  c.m = Meanings[1].month /\ c.d = Meanings[1].day

-----------------------------------------------------------------------------
\* Timestamps.

\* How many units make a second in w digits: seconds in the fewest, and then one
\* precision for every StepDigits more.
UnitNamed(w) ==
    CASE w \in SecDigits..(SecDigits + StepDigits - 1) -> 1
      [] w \in {SecDigits + k * StepDigits : k \in 1..3} -> Pow10[w - SecDigits]
      [] OTHER -> NoPrecision

Instant(sec, nsec) ==
    IF InRange(sec) THEN [ok |-> TRUE, at |-> [sec |-> sec, nsec |-> nsec]] ELSE NoInstant

\* The instant v units after the epoch: a whole second, and nanoseconds after it.
Counted(v, unit) == Instant(v \div unit, (v % unit) * (Giga \div unit))

IntegerMeant(neg, v, w) ==
    IF UnitNamed(w) = NoPrecision \/ v > MaxInt THEN NoInstant
    ELSE Counted(IF neg THEN -v ELSE v, UnitNamed(w))

\* A negative fraction counts back from its whole second.
FractionMeant(neg, v, nanos) ==
    CASE neg /\ nanos > 0 -> Instant(-v - 1, Giga - nanos)
      [] neg /\ nanos = 0 -> Instant(-v, 0)
      [] ~neg             -> Instant(v, nanos)

WrittenMeant(w) ==
    CASE w.frac.w = 0 -> IntegerMeant(w.neg, w.n.v, w.n.w)
      [] w.frac.w > 0 /\ w.n.w \in (SecDigits - 1)..(SecDigits + StepDigits - 1) ->
             FractionMeant(w.neg, w.n.v, Nanoseconds(w.frac))
      [] OTHER -> NoInstant

\* The nearest nanosecond, and of two the one further from 1970.
Nearest(f, at) ==
    LET error == 1000 * (Giga * (at.sec - f.whole) + at.nsec) - f.frac
    IN  IF f.frac < 0 THEN error \in -500..499 ELSE error \in -499..500

\* Digits name exactly their value in the precision their width gives, before
\* 1970 too, a float the nearest nanosecond, and neither an instant out of range
\* (Detect, split, parseFractional, FromSeconds, withinRange).
NumbersAreTheirValue ==
    /\ asked.what = "written" =>
          asked.answer = LET i == WrittenMeant(asked.n)
                         IN  IF i.ok THEN Read(i.at, "absolute", FALSE) ELSE NotRead(<<>>)
    /\ asked.what = "float" /\ asked.answer.ok =>
          ~asked.n.nan /\ InRange(asked.answer.at.sec) /\ Nearest(asked.n, asked.answer.at)

\* The digits of v, counted by comparison; an int64 has at most nineteen.
WidthOf(v) ==
    CHOOSE w \in 1..19 : Magnitude(v) < Pow10[w] /\ (w = 1 \/ Magnitude(v) >= Pow10[w - 1])

\* A number means the same typed as written in digits wherever its digits name a
\* precision, and seconds where they are too few (FromInt, digitCount).
TypedAsWritten ==
    asked.what = "typed" =>
        asked.answer = IF WidthOf(asked.n) < SecDigits THEN Counted(asked.n, 1)
                       ELSE IntegerMeant(asked.n < 0, Magnitude(asked.n), WidthOf(asked.n))

=============================================================================
