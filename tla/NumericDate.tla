----------------------------- MODULE NumericDate -----------------------------
(***************************************************************************)
(* A date of three numbers: which part is the year, the month and the day, *)
(* and the readings it could have been given instead                       *)
(* (internal/detect/detect.go).                                            *)
(*                                                                         *)
(* p is the triple of number tokens; a part is named by its index in p.    *)
(* cfg carries dayFirst and yearFirst, the caller's two preferences.       *)
(***************************************************************************)
EXTENDS Layouts

NotNumeric == [ok |-> FALSE]
Roles(m, d, ambig) == [ok |-> TRUE, month |-> m, day |-> d, ambig |-> ambig]

-----------------------------------------------------------------------------
\* Could the parts after a leading year be a month and a day?
IsoOrderPossible(p) ==
    /\ p[2].v \in 1..12 /\ p[2].w <= 2
    /\ p[3].v \in 1..31 /\ p[3].w <= 2

\* Is year-first a reading of this value, whatever was asked for?
YearFirstReadingExists(p) == p[1].w = 2 /\ IsoOrderPossible(p)

\* Only a third part over 31 or of four digits puts the year last for certain;
\* only such a first part puts it first.
YearIsLast(p)  == p[3].v > 31 \/ p[3].w = 4
YearIsFirst(p) == p[1].v > 31 \/ p[1].w = 4

\* Month and day among the first two parts: a value over 12 is the day, and
\* otherwise the preference says which comes first.
SplitMonthDay(p, cfg) ==
    CASE p[1].v > 12                    -> Roles(2, 1, "none")
      [] p[1].v <= 12 /\ p[2].v > 12    -> Roles(1, 2, "none")
      [] p[1].v <= 12 /\ p[2].v <= 12   -> IF cfg.dayFirst
                                           THEN Roles(2, 1, "fieldOrder")
                                           ELSE Roles(1, 2, "fieldOrder")

\* The two parts of these roles can be a month and a day.
MonthAndDay(p, r) ==
    /\ p[r.month].v \in 1..12 /\ p[r.month].w <= 2
    /\ p[r.day].v \in 1..31   /\ p[r.day].w <= 2

\* Mutant of YearLast: settling month and day settles the year.
YearLastSettled(p, r, yearFirstAlt) == IF MonthAndDay(p, r) THEN r ELSE NotNumeric

\* The year is last.  A value that settled month and day still leaves open
\* which end the year is at, when year-first reads it too.
YearLast(p, r, yearFirstAlt) ==
    CASE ~MonthAndDay(p, r) -> NotNumeric
      [] MonthAndDay(p, r) /\ r.ambig = "none" /\ yearFirstAlt ->
             [r EXCEPT !.ambig = "yearPosition"]
      [] OTHER -> r

YearLastRoles(p, cfg, yearFirstAlt) == YearLast(p, SplitMonthDay(p, cfg), yearFirstAlt)

\* Mutant of ResolveYearMonthDay: asking for the day first overrules asking for
\* the year first.
ResolveYearMonthDayDayWins(p, cfg) ==
    CASE YearIsLast(p) -> YearLastRoles(p, cfg, FALSE)
      [] ~YearIsLast(p) /\ YearIsFirst(p) ->
             IF IsoOrderPossible(p) THEN Roles(2, 3, "none") ELSE NotNumeric
      [] ~YearIsLast(p) /\ ~YearIsFirst(p) ->
             IF cfg.yearFirst /\ ~cfg.dayFirst /\ YearFirstReadingExists(p)
             THEN Roles(2, 3, "yearPosition")
             ELSE YearLastRoles(p, cfg, YearFirstReadingExists(p))

ResolveYearMonthDay(p, cfg) ==
    CASE YearIsLast(p) -> YearLastRoles(p, cfg, FALSE)
      [] ~YearIsLast(p) /\ YearIsFirst(p) ->
             IF IsoOrderPossible(p) THEN Roles(2, 3, "none") ELSE NotNumeric
      [] ~YearIsLast(p) /\ ~YearIsFirst(p) ->
             IF cfg.yearFirst /\ YearFirstReadingExists(p)
             THEN Roles(2, 3, "yearPosition")
             ELSE YearLastRoles(p, cfg, YearFirstReadingExists(p))

-----------------------------------------------------------------------------
\* The part that is neither month nor day.
YearPart(r) == CHOOSE i \in 1..3 : i \notin {r.month, r.day}

\* The kind a part of this width has in a role; no kind, no reading.
YearKindFor(w)  == CASE w = 2 -> "Year2" [] w = 4 -> "Year4" [] OTHER -> "none"
MonthKindFor(w) == CASE w = 1 -> "Month1or2" [] w = 2 -> "Month2" [] OTHER -> "none"
DayKindFor(w)   == CASE w = 1 -> "Day1or2" [] w = 2 -> "Day2" [] OTHER -> "none"

KindForRole(role, w) ==
    CASE role = "Y" -> YearKindFor(w)
      [] role = "M" -> MonthKindFor(w)
      [] role = "D" -> DayKindFor(w)

RoleOf(r, i) == CASE i = r.month -> "M" [] i = r.day -> "D" [] OTHER -> "Y"

\* The date's five fields: three numbers and the separators between them,
\* each of which accepts any of the three date separators.
DatePartFields(p, roles) ==
    LET num(i) == Field(KindForRole(roles[i], p[i].w), p[i])
        sep    == Taking("Literal", Byte("/"), "sep")
    IN  <<num(1), sep, num(2), sep, num(3)>>

\* The format of settled roles, with prone as given.  A year is written with
\* two digits or four.
NumericFormat(p, r, prone) ==
    IF r.ok /\ p[YearPart(r)].w \in {2, 4}
    THEN [ok     |-> TRUE,
          ambig  |-> r.ambig,
          prone  |-> prone,
          fields |-> DatePartFields(p, [i \in 1..3 |-> RoleOf(r, i)])]
    ELSE NotNumeric

\* Mutant of NumericFields: the format is prone when this value is.
NumericFieldsByValue(p, r) == NumericFormat(p, r, r.ok /\ r.ambig # "none")

\* The shape can need a guess, whether or not this value does.
NumericFields(p, r) == NumericFormat(p, r, TRUE)

\* The whole decision for "p1<sep>p2<sep>p3": a dot means day first.
ResolveAmbiguousFields(p, sep, cfg) ==
    NumericFields(p, ResolveYearMonthDay(p,
        IF sep = "." THEN [cfg EXCEPT !.dayFirst = TRUE] ELSE cfg))

-----------------------------------------------------------------------------
\* The readings of an ambiguous numeric date: the chosen one, then the other
\* conventions whose roles this date's widths can carry.

\* Mutant of Conventions: the year-first convention is never offered.
ConventionsYearLast == <<<<"M", "D", "Y">>, <<"D", "M", "Y">>>>

Conventions == <<<<"M", "D", "Y">>, <<"D", "M", "Y">>, <<"Y", "M", "D">>>>

RoleOfKind(kind) ==
    CASE kind \in YearKinds  -> "Y"
      [] kind \in MonthKinds -> "M"
      [] kind \in DayKinds   -> "D"

\* Where a layout's three date numbers are; the fields after them are a time's.
DateParts == <<1, 3, 5>>

ChosenRoles(fields) == [i \in 1..3 |-> RoleOfKind(fields[DateParts[i]].kind)]

Carries(fields, roles) ==
    \A i \in 1..3 : KindForRole(roles[i], fields[DateParts[i]].w) # "none"

\* The same fields with the roles of another convention.
Rekinded(fields, roles) ==
    [j \in DOMAIN fields |->
        IF \E i \in 1..3 : DateParts[i] = j
        THEN LET i == CHOOSE k \in 1..3 : DateParts[k] = j
             IN  [fields[j] EXCEPT !.kind = KindForRole(roles[i], fields[j].w)]
        ELSE fields[j]]

FieldOrderReadings(fields) ==
    LET chosen == ChosenRoles(fields)
        others == Without(Conventions,
                          {r \in Range(Conventions) : r = chosen \/ ~Carries(fields, r)})
    IN  <<[fields |-> fields, label |-> chosen]>>
        \o [i \in DOMAIN others |-> [fields |-> Rekinded(fields, others[i]),
                                     label  |-> others[i]]]

=============================================================================
