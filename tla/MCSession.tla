------------------------------ MODULE MCSession ------------------------------
(***************************************************************************)
(* Values and options for Session: every combination of the numbers that   *)
(* sit on a boundary of the ambiguity rules, and the textual shapes.       *)
(***************************************************************************)
EXTENDS Session

Sp == Byte(" ")
Comma == Byte(",")
English(m) == Month(m, 3, "en")

Triple(p, sep) == <<p[1], sep, p[2], sep, p[3]>>

\* Around 12, 31, the length of February and a year that is not a day.
Boundaries == {Num(1, 1)} \cup {Num(v, 2) : v \in {1, 2, 12, 13, 29, 30, 31, 32}}
LastParts  == Boundaries \cup {Num(70, 2), Num(2023, 4), Num(2024, 4)}
FirstParts == Boundaries \cup {Num(70, 2)}

SlashDates == {Triple(p, Byte("/")) : p \in FirstParts \X Boundaries \X LastParts}

\* The shape of the table, which is the only one a dot can separate.
DotDates == {Triple(p, Byte(".")) :
                p \in {Num(v, 2) : v \in {1, 2, 12, 13, 29, 30, 31}}
                      \X {Num(v, 2) : v \in {1, 2, 12, 13}} \X {Num(2023, 4), Num(2024, 4)}}

NumericDates == SlashDates \cup DotDates

DayNumbers == {Num(1, 1), Num(1, 2), Num(10, 2), Num(29, 2), Num(31, 2),
               Num(32, 2), Num(70, 2), Num(2024, 4)}

\* One number or two around a month, apart from it, abutting it, or ordinal.
Textual(m, n, k) ==
    {<<m, Sp, n>>, <<n, Sp, m>>, <<m, n>>,
     <<n, m, k>>, <<n, Sp, m, Sp, k>>, <<m, n, Sp, k>>, <<m, Sp, n, Sp, k>>,
     <<m, Sp, n, Comma, Sp, k>>}

\* A day written with its suffix, alone or before the month and its year.
Ordinal(m, n, k) ==
    {<<m, Sp, n, Word("ord", 2)>>, <<n, Word("ord", 2), Sp, m, Sp, k>>}

\* The suffix after the month, and a year after the suffix.
OrdinalThenYear(m, n, k) == {<<m, Sp, n, Word("ord", 2), Comma, Sp, k>>}

Ordinals == {Num(1, 1), Num(10, 2), Num(29, 2)}

TextualDates ==
    UNION {Textual(English(m), n, k) : m \in {2, 5}, n \in DayNumbers, k \in DayNumbers}
        \cup UNION {Ordinal(English(m), n, k) : m \in {2, 5}, n \in Ordinals, k \in DayNumbers}

OrdinalDates ==
    UNION {Ordinal(English(5), n, k) \cup OrdinalThenYear(English(5), n, k) :
              n \in Ordinals, k \in {Num(24, 2), Num(70, 2), Num(2024, 4)}}

AllDates == NumericDates \cup TextualDates

Options(dayFirst, yearFirst, strict) ==
    [dayFirst |-> dayFirst, yearFirst |-> yearFirst, strict |-> strict,
     locales |-> {}, base |-> 0]

EveryConfigs == {Options(d, y, strict) : d, y, strict \in BOOLEAN}
DefaultConfigs == {Options(FALSE, FALSE, FALSE)}
StrictDefault  == {Options(FALSE, FALSE, TRUE)}
YearFirstConfigs == {Options(FALSE, TRUE, FALSE)}

\* A column's values, spelled alike and meaning different things.
ColumnValues ==
    {Triple(<<Num(25, 2), Num(12, 2), Num(2024, 4)>>, Byte("/")),
     Triple(<<Num(1, 2), Num(2, 2), Num(2024, 4)>>, Byte("/")),
     Triple(<<Num(1, 2), Num(2, 2), Num(3, 2)>>, Byte("/")),
     Triple(<<Num(70, 2), Num(1, 2), Num(2, 2)>>, Byte("/")),
     Triple(<<Num(2024, 4), Num(2, 2), Num(29, 2)>>, Byte("-")),
     Triple(<<Num(2023, 4), Num(2, 2), Num(29, 2)>>, Byte("-")),
     <<Sp>> \o Triple(<<Num(2024, 4), Num(3, 2), Num(15, 2)>>, Byte("-")) \o <<Sp>>,
     <<English(5), Num(70, 2)>>, <<English(5), Num(10, 2)>>, <<English(5), Num(12, 2)>>,
     <<English(5), Sp, Num(10, 2), Word("ord", 2)>>,
     <<English(5), Sp, Num(1, 1)>>, <<English(2), Sp, Num(30, 2)>>,
     <<Num(70, 2), English(5), Num(1, 1)>>, <<Num(1, 2), English(5), Num(10, 2)>>,
     <<Num(1, 2), Sp, Month(5, 4, "es"), Sp, Num(2024, 4)>>,
     <<Num(1, 2), Sp, Month(5, 4, "fr"), Sp, Num(2024, 4)>>,
     <<Word("now", 3), Comma, Sp, Num(2, 2), Sp, English(1), Sp, Num(2006, 4)>>,
     <<Word("mon", 3), Comma, Sp, Num(2, 2), Sp, English(1), Sp, Num(2006, 4)>>,
     <<English(5), Sp, Num(15, 2), Sp, Num(10, 2), Byte(":"), Num(30, 2)>>,
     <<English(5), Sp, Num(2024, 4), Sp, Num(15, 2), Byte(":"), Num(4, 2), Byte(":"), Num(5, 2)>>,
     <<Num(10, 2), Byte(":"), Num(30, 2)>>, <<Num(2024, 4)>>,
     <<Num(2024, 4), Byte("-"), Num(13, 2)>>,
     <<Num(1710505800, 10)>>, <<Word("now", 3)>>, <<Word("kal", 6)>>}

\* Two letters that are no suffix, where a value of the column has one.
NoSuffix == <<English(5), Sp, Num(24, 2), Word("xx", 2)>>

KeptValues == ColumnValues \cup {NoSuffix}

AllValues == AllDates \cup KeptValues

AllConfigs ==
    EveryConfigs \cup {[Options(FALSE, FALSE, FALSE) EXCEPT !.locales = {"hi", "es"}, !.base = 2023]}

NoSamples == {}

=============================================================================
