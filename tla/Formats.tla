------------------------------- MODULE Formats -------------------------------
(***************************************************************************)
(* Format detection: the table of fixed shapes, then the detectors that    *)
(* look at values, then the veto on a skipped word that means something    *)
(* (internal/detect/detect.go, formats.go, trie.go, skipwords.go).         *)
(***************************************************************************)
EXTENDS NumericDate, TextualDate

NoFormat == [ok |-> FALSE]

-----------------------------------------------------------------------------
\* The table.  An entry is the kinds of its numbers and, between them, the
\* classes of its separators; its shape is the widths those kinds have.

Table == [
    ISO8601_DATE   |-> <<"Year4", "sep", "Month2", "sep", "Day2">>,
    SQL_DATETIME   |-> <<"Year4", "sep", "Month2", "sep", "Day2", "space",
                         "Hour24", "colon", "Minute2", "colon", "Second2">>,
    ISO_YEAR_MONTH |-> <<"Year4", "sep", "Month2">>,
    BARE_YEAR      |-> <<"Year4">>,
    TIME_HM        |-> <<"Hour24", "colon", "Minute2">>,
    TIME_HMS       |-> <<"Hour24", "colon", "Minute2", "colon", "Second2">>]

SeparatorClasses == {"sep", "space", "colon"}

FitsShape(s, entry) ==
    /\ Len(s) = Len(entry)
    /\ \A i \in DOMAIN s :
          IF entry[i] \in SeparatorClasses
          THEN entry[i] \in ClassesOf(s[i]) /\ s[i].t = "byte"
          ELSE s[i].t = "num" /\ s[i].w = IF entry[i] = "Year4" THEN 4 ELSE 2

TableFields(s, entry) ==
    [i \in DOMAIN s |-> IF entry[i] \in SeparatorClasses
                        THEN Taking("Literal", s[i], entry[i])
                        ELSE Field(entry[i], s[i])]

\* dd/dd/dddd is in the table as the one shape it cannot decide.
IsNumericSep(s) ==
    /\ Len(s) = 5
    /\ \A i \in {1, 3} : s[i].t = "num" /\ s[i].w = 2
    /\ s[5].t = "num" /\ s[5].w = 4
    /\ \A i \in {2, 4} : "sep" \in ClassesOf(s[i])

Parts(s) == <<s[1], s[3], s[5]>>

-----------------------------------------------------------------------------
\* Three numbers of any width between equal slashes or dashes, alone or before
\* a time of day.
IsVariableNumeric(s) ==
    /\ Len(s) >= 5
    /\ Len(s) > 5 => s[6] = Byte(" ")
    /\ \A i \in {1, 3, 5} : s[i].t = "num" /\ s[i].w <= 4
    /\ s[1].w <= 3
    /\ s[2] = s[4] /\ s[2] \in {Byte("/"), Byte("-")}

WithTimeSuffix(s, r, time) ==
    IF r.ok /\ Len(s) > 5 /\ DOMAIN time # {}
    THEN [r EXCEPT !.fields = CoverGaps(s, time @@ r.fields)]
    ELSE r

DetectVariableNumeric(s, cfg) ==
    IF ~IsVariableNumeric(s) THEN NoFormat
    ELSE WithTimeSuffix(s, ResolveAmbiguousFields(Parts(s), s[2].c, cfg), TimeComponent(s, 6))

\* The ambiguous shape of the table, once its separators agree.
ResolveAmbiguous(s, cfg) ==
    IF s[2] = s[4] THEN ResolveAmbiguousFields(Parts(s), s[2].c, cfg) ELSE NoFormat

HasLetter(s) == \E i \in DOMAIN s : s[i].t \in {"month", "word"}

FirstOf(r, other) == IF r.ok THEN r ELSE other

DetectFormat(s, cfg) ==
    LET entries == {n \in DOMAIN Table : FitsShape(s, Table[n])}
    IN  CASE IsNumericSep(s) -> ResolveAmbiguous(s, cfg)
          [] ~IsNumericSep(s) /\ entries # {} ->
                 [ok |-> TRUE, ambig |-> "none", prone |-> FALSE,
                  fields |-> TableFields(s, Table[CHOOSE n \in entries : TRUE])]
          [] OTHER -> FirstOf(IF HasLetter(s) THEN DetectTextualMonth(s, cfg.locales)
                                              ELSE NotTextual,
                              DetectVariableNumeric(s, cfg))

-----------------------------------------------------------------------------
\* Words that decide the day, in English or in a locale the caller chose.
MeaningWords(locales) ==
    {"now", "next"} \cup (IF "hi" \in locales THEN {"kal"} ELSE {})

SkipRunCarriesMeaning(s, fields, locales) ==
    \E i \in DOMAIN s : /\ i \in DOMAIN fields /\ fields[i].kind = "Skip"
                        /\ s[i].t = "word" /\ s[i].c \in MeaningWords(locales)

\* Detection: a shape that fits, and nothing meaningful skipped.
Meaningless(s, r, locales) ==
    IF r.ok /\ ~SkipRunCarriesMeaning(s, r.fields, locales) THEN r ELSE NoFormat

DetectShape(s, cfg) == Meaningless(s, DetectFormat(s, cfg), cfg.locales)

\* The layouts an ambiguous value could have been given, the chosen one first.
Readings(r) ==
    CASE r.ambig = "dayOrYear"                      -> DayOrYearReadings(r.fields)
      [] r.ambig \in {"fieldOrder", "yearPosition"} -> FieldOrderReadings(r.fields)
      [] OTHER                                      -> <<>>

=============================================================================
