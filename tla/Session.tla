------------------------------- MODULE Session -------------------------------
(***************************************************************************)
(* One caller of the library and the layout it holds (dateparser.go,       *)
(* layout.go).  Every call stands alone, except that Layout.Parse reads a  *)
(* value with the layout an earlier call returned, detected or offered as  *)
(* one of the readings of a value it refused to choose for.                *)
(***************************************************************************)
EXTENDS DateParser, WrittenDates

CONSTANTS
    Inputs,   \* the values the caller parses while it holds no layout
    Samples,  \* those it keeps a layout of and goes on with; a bound on the model
    Configs,  \* the options it passes
    ThisYear  \* what the clock shows

ASSUME SamplesAssumption == Samples \subseteq Inputs

ASSUME InputsAssumption ==
    Inputs \subseteq Seq([t : {"num", "byte", "month", "word"}, v : Nat, w : Nat, c : STRING])

ASSUME TokensAssumption == \A s \in Inputs : \A i \in DOMAIN s : IsToken(s[i])

ASSUME ConfigsAssumption ==
    Configs \subseteq [dayFirst : BOOLEAN, yearFirst : BOOLEAN, strict : BOOLEAN,
                      locales : SUBSET STRING, base : Nat]

VARIABLES
    held,  \* the layout the caller holds, with the value and options it is from
    last   \* the call just made and its outcome

vars == <<held, last>>

NoLayout == [label |-> "nil"]
NoCall   == [op |-> "none"]

Holding(l, s, cfg, own) == [layout |-> l, from |-> s, cfg |-> cfg, own |-> own]
HoldsNothing == Holding(NoLayout, <<>>, <<>>, FALSE)

CallOf(op, s, cfg, out) == [op |-> op, input |-> s, cfg |-> cfg, out |-> out]

-----------------------------------------------------------------------------
Init == held = HoldsNothing /\ last = NoCall

\* It makes one call at a time.
Ready == last = NoCall

ParseWith(s, cfg) ==
    /\ last' = CallOf("parse", s, cfg, ParseWithConfig(s, cfg, ThisYear))
    /\ UNCHANGED held

DetectLayout(s, cfg) ==
    /\ last' = CallOf("detect", s, cfg, Detect(s, cfg, ThisYear))
    /\ UNCHANGED held

\* Layout.Parse on the layout held.
ParseHeld(s) ==
    /\ held # HoldsNothing
    /\ last' = CallOf("reuse", s, held.cfg, LayoutParse(held.layout, s))
    /\ UNCHANGED held

\* The caller keeps the layout a call handed back.
Keep ==
    /\ last.op \in {"parse", "detect"}
    /\ last.out.ok /\ last.input \in Samples
    /\ held' = Holding(last.out.layout, last.input, last.cfg, TRUE)
    /\ last' = NoCall

\* It keeps the layout of the reading it wanted out of an AmbiguousDateError.
TakeReading ==
    /\ last.op = "parse" /\ ~last.out.ok /\ last.out.cause = "ambiguous"
    /\ last.input \in Samples
    /\ \E i \in DOMAIN last.out.interps :
          held' = Holding(last.out.interps[i].layout, last.input, last.cfg, FALSE)
    /\ last' = NoCall

\* It keeps what it had.
Return ==
    /\ last # NoCall
    /\ last' = NoCall
    /\ UNCHANGED held

Values == IF held = HoldsNothing THEN Inputs ELSE Samples

Next == \/ Ready /\ \E s \in Values, cfg \in Configs : ParseWith(s, cfg) \/ DetectLayout(s, cfg)
        \/ Ready /\ \E s \in Samples : ParseHeld(s)
        \/ Keep \/ TakeReading \/ Return

Spec == Init /\ [][Next]_vars

-----------------------------------------------------------------------------
HeldOK ==
    /\ held.from \in Samples
    /\ held.cfg \in Configs
    /\ held.own \in BOOLEAN
    /\ held.layout \in {LayoutEpoch, LayoutNaturalLanguage} \/ HasProgram(held.layout)

\* A layout held comes from a sample the caller parsed with one of its options.
TypeOK ==
    /\ held = HoldsNothing \/ HeldOK
    /\ last = NoCall \/ (last.op \in {"parse", "detect", "reuse"} /\ last.input \in Inputs)

\* The date a parse answered, when the answer is a date, and what the value
\* could mean.
ParsedDate == last.op = "parse" /\ last.out.ok /\ "epoch" \notin DOMAIN last.out.time
              /\ IsWritten(TrimPadding(last.input))

DateAnswered == Date(last.out.time.y, last.out.time.m, last.out.time.d)

DatesMeant == DatesOf(TrimPadding(last.input), BaseYear(last.cfg, ThisYear))

Lenient(cfg) == [cfg EXCEPT !.strict = FALSE]

\* Ambiguity is reported, never hidden (SECURITY.md): an answer that is not
\* flagged is the only date its value can mean.
NoHiddenReading ==
    ParsedDate /\ ~last.out.ambiguous => DatesMeant = {DateAnswered}

\* The preferences choose among the dates a value can mean: year first when
\* that is one of them and was asked for, otherwise day or month first, and a
\* dot asks for the day first.
PreferenceHonoured ==
    ParsedDate /\ IsTriple(TrimPadding(last.input)) =>
        LET s == TrimPadding(last.input)
            possible  == {o \in Orders : IsReading(s, o)}
            yearFirst == YearMonthDay \in possible /\ last.cfg.yearFirst
            yearLast  == ~yearFirst /\ {DayMonthYear, MonthDayYear} \subseteq possible
            dayFirst  == last.cfg.dayFirst \/ s[2].c = "."
        IN  /\ \E o \in possible : DateAnswered = DateIn(s, o)
            /\ yearFirst => DateAnswered = DateIn(s, YearMonthDay)
            /\ yearLast => DateAnswered = DateIn(s, IF dayFirst THEN DayMonthYear
                                                   ELSE MonthDayYear)

\* Strict mode refuses a guess with every date the value can mean, each under
\* a label of its own, and first the one lenient mode answers (README.md).
StrictCarriesEveryReading ==
    (last.op = "parse" /\ ~last.out.ok /\ last.out.cause = "ambiguous"
       /\ last.out.interps # <<>> /\ IsWritten(TrimPadding(last.input))) =>
        LET rs == last.out.interps
            lenient == ParseWithConfig(last.input, Lenient(last.cfg), ThisYear)
        IN  /\ {Date(rs[i].time.y, rs[i].time.m, rs[i].time.d) : i \in DOMAIN rs} = DatesMeant
            /\ \A i, j \in DOMAIN rs : i # j => rs[i].label # rs[j].label
            /\ lenient.ok => lenient.ambiguous /\ lenient.time = rs[1].time

\* A suffix settled the day of the value the layout is from.  The layout keeps
\* of it that two letters stand there, whichever they are.
SettledByOrdinal ==
    LET s == TrimPadding(held.from)
    IN  \E i \in NumbersOf(s) : IsOrdinal(s, i)

\* A layout that says it is reusable answers the next value as parsing that
\* value does, and no value that is a guess (layout.go, Reusable), unless it is
\* from an ordinal day: whichever the configuration, and whether it came from a
\* parse or from detection.
ReuseAgrees ==
    (last.op = "reuse" /\ held.own /\ Reusable(held.layout) /\ last.out.ok) =>
        LET p == ParseWithConfig(last.input, Lenient(held.cfg), ThisYear)
        IN  p.ok => p.time = last.out.time /\ (p.ambiguous => SettledByOrdinal)

\* A layout reads the value it came from: as the parse that returned it did,
\* and, when it was only detected, exactly when that value parses.
OwnValueRoundTrips ==
    (last.op = "reuse" /\ HasProgram(held.layout) /\ last.input = held.from) =>
        LET p == ParseWithConfig(last.input, Lenient(held.cfg), ThisYear)
        IN  IF held.own
            THEN p.ok = last.out.ok /\ (p.ok => p.time = last.out.time)
            ELSE last.out.ok

-----------------------------------------------------------------------------
\* The option stands aside rather than refusing the row (options.go): a value
\* that parses without WithPreferYearFirst parses with it.
YearFirstNeverRefuses ==
    (last.op = "parse" /\ last.cfg.yearFirst /\ ~last.out.ok) =>
        ~ParseWithConfig(last.input, [last.cfg EXCEPT !.yearFirst = FALSE], ThisYear).ok

\* A number with an ordinal suffix is a day, since no year is written with one
\* (README.md).
OrdinalIsTheDay ==
    ParsedDate /\ IsNamed(TrimPadding(last.input)) =>
        LET s == TrimPadding(last.input)
        IN  \A i \in NumbersOf(s) : IsOrdinal(s, i) => DateAnswered.d = s[i].v

\* Keeping a layout that says it is reusable for the rest of a column is sound
\* (layout.go, Reusable), a layout taken from an AmbiguousDateError included:
\* it answers no other value that strict mode refuses for being a guess.
ReusableNeverGuesses ==
    (last.op = "reuse" /\ last.input # held.from
       /\ Reusable(held.layout) /\ held.cfg.strict) =>
        LET p == ParseWithConfig(last.input, held.cfg, ThisYear)
        IN  last.out.ok => p.ok \/ p.cause # "ambiguous"

=============================================================================
