----------------------------- MODULE DateParser -----------------------------
(***************************************************************************)
(* One call of the library: trim, detect, fall back to epoch and natural   *)
(* language, refuse a guess in strict mode, compile, execute               *)
(* (dateparser.go).                                                        *)
(*                                                                         *)
(* A configuration is a record of the options: dayFirst, yearFirst,        *)
(* strict, locales, and base, the year of WithBaseTime or 0 without it.    *)
(*                                                                         *)
(* Two refusals are left out: of a format that does not compile            *)
(* (dateparser.go:152 and :325), since detection's stay below every limit  *)
(* for the tokens here, and of a base year outside an int32                *)
(* (dateparser.go:157), which the years here are not.                      *)
(***************************************************************************)
EXTENDS Formats

Err(cause) == [ok |-> FALSE, cause |-> cause]

Parsed(time, l, ambiguous, kind) ==
    [ok |-> TRUE, time |-> time, layout |-> l, ambiguous |-> ambiguous,
     kind |-> kind]

-----------------------------------------------------------------------------
\* What is read when no format fits.

\* A bare number of one of the widths that fix an epoch's precision.
EpochWidths == {10, 11, 12, 13, 16, 19}

IsEpoch(s) == Len(s) = 1 /\ s[1].t = "num" /\ s[1].w \in EpochWidths

EpochTime(s) == [epoch |-> s[1].v, width |-> s[1].w]

\* The days a phrase names, as the year it is counted from and an offset; a
\* word one locale lists twice names two.
NaturalReadings(s, locales, year) ==
    CASE s = <<Word("now", 3)>> -> <<[from |-> year, days |-> 0]>>
      [] s = <<Word("kal", 6)>> /\ "hi" \in locales ->
             <<[from |-> year, days |-> -1], [from |-> year, days |-> 1]>>
      [] OTHER -> <<>>

ParseNatural(s, cfg, year) ==
    LET r == NaturalReadings(s, cfg.locales, year)
    IN  CASE r = <<>> -> Err("noMatch")
          [] Len(r) > 1 /\ cfg.strict ->
                 [ok |-> FALSE, cause |-> "ambiguous",
                  interps |-> [i \in DOMAIN r |-> [time   |-> r[i],
                                                   layout |-> LayoutNaturalLanguage,
                                                   label  |-> r[i]]]]
          [] OTHER -> Parsed(r[1], LayoutNaturalLanguage, Len(r) > 1,
                             IF r[1].days = 0 THEN "now" ELSE "relative")

-----------------------------------------------------------------------------
\* Mutant of BaseYear: the caller's base time is forgotten.
BaseYearFromClock(cfg, thisYear) == thisYear

\* The year a format without one takes: the caller's, or the clock's.
BaseYear(cfg, thisYear) == IF cfg.base = 0 THEN thisYear ELSE cfg.base

CompileFor(r, cfg, thisYear) ==
    Compile("detected", r.fields, r.ambig, r.prone, cfg.locales, BaseYear(cfg, thisYear))

\* One reading of a value, unless its format does not execute on it.
Interpretation(x, l, label) ==
    IF x.ok THEN [time |-> x.time, layout |-> l, label |-> label] ELSE Refused

ReadAs(s, l, label) == Interpretation(Execute(l, s), l, label)

\* One reading left is not a choice, and is not offered.
AmbiguousError(interps) ==
    [ok |-> FALSE, cause |-> "ambiguous",
     interps |-> IF Len(interps) < 2 THEN <<>> ELSE interps]

\* Every reading of a guess that names a day, chosen first, as the error that
\* refuses to choose.
BuildAmbiguousError(s, r, cfg, thisYear) ==
    LET layoutOf(rd) == Compile("reading", rd.fields, "none", FALSE, cfg.locales,
                                BaseYear(cfg, thisYear))
        readAll(rds) == [i \in DOMAIN rds |-> ReadAs(s, layoutOf(rds[i]), rds[i].label)]
    IN  AmbiguousError(Without(readAll(Readings(r)), {Refused}))

\* The outcome of running the layout just compiled.
Executed(x, l, ambiguous) ==
    IF x.ok THEN Parsed(x.time, l, ambiguous, "absolute") ELSE Err("noMatch")

RunOn(s, l) == Executed(Execute(l, s), l, l.ambig # "none")

ParseDetected(s, r, cfg, thisYear) == RunOn(s, CompileFor(r, cfg, thisYear))

\* What follows detection, on a clock that shows this year.
ParseAfter(s, r, cfg, thisYear) ==
    CASE ~r.ok /\ IsEpoch(s) -> Parsed(EpochTime(s), LayoutEpoch, FALSE, "absolute")
      [] ~r.ok /\ ~IsEpoch(s) -> ParseNatural(s, cfg, BaseYear(cfg, thisYear))
      [] r.ok /\ cfg.strict /\ r.ambig # "none" -> BuildAmbiguousError(s, r, cfg, thisYear)
      [] r.ok /\ ~(cfg.strict /\ r.ambig # "none") -> ParseDetected(s, r, cfg, thisYear)

ParseTrimmed(s, cfg, thisYear) == ParseAfter(s, DetectShape(s, cfg), cfg, thisYear)

\* The whole call.
ParseWithConfig(input, cfg, thisYear) == ParseTrimmed(TrimPadding(input), cfg, thisYear)

\* Detection alone: a layout, whether or not the value it came from executes.
DetectedLayout(r, cfg, thisYear) ==
    IF r.ok THEN [ok |-> TRUE, layout |-> CompileFor(r, cfg, thisYear)] ELSE Err("noMatch")

Detect(input, cfg, thisYear) ==
    DetectedLayout(DetectShape(TrimPadding(input), cfg), cfg, thisYear)

=============================================================================
