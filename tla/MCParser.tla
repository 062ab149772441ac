------------------------------ MODULE MCParser ------------------------------
(***************************************************************************)
(* A small Parser for TLC: named values, the tokens they stand for, and    *)
(* one call of the library computed for each of them by DateParser.        *)
(***************************************************************************)
EXTENDS Parser, DateParser

Sp == Byte(" ")

\* The values of the model: fixed shapes, shapes with a guess, values without
\* a year, a skipped word, and what only a fallback or nothing reads.
Tokens == [
    empty   |-> <<>>,
    iso     |-> <<Num(2024, 4), Byte("-"), Num(3, 2), Byte("-"), Num(15, 2)>>,
    iso13   |-> <<Num(2024, 4), Byte("-"), Num(13, 2), Byte("-"), Num(15, 2)>>,
    padded  |-> <<Sp, Num(2024, 4), Byte("/"), Num(2, 2), Byte("/"), Num(29, 2)>>,
    slash15 |-> <<Num(15, 2), Byte("/"), Num(3, 2), Byte("/"), Num(2024, 4)>>,
    slash1  |-> <<Num(1, 2), Byte("/"), Num(2, 2), Byte("/"), Num(2024, 4)>>,
    may70   |-> <<Month(5, 3, "en"), Num(70, 2)>>,
    may10   |-> <<Month(5, 3, "en"), Num(10, 2)>>,
    feb1st  |-> <<Month(2, 3, "en"), Sp, Num(1, 1), Word("ord", 2)>>,
    feb29th |-> <<Month(2, 3, "en"), Sp, Num(29, 2), Word("ord", 2)>>,
    hms     |-> <<Num(10, 2), Byte(":"), Num(30, 2), Byte(":"), Num(0, 2)>>,
    mon     |-> <<Word("mon", 3), Byte(","), Sp, Num(2, 2), Sp, Month(1, 3, "en"),
                  Sp, Num(2006, 4)>>,
    nowDate |-> <<Word("now", 3), Byte(","), Sp, Num(3, 2), Sp, Month(1, 3, "en"),
                  Sp, Num(2006, 4)>>,
    phrase  |-> <<Word("now", 3)>>,
    epoch   |-> <<Num(1710505800, 10)>>]

Options(base, strict) ==
    [dayFirst |-> FALSE, yearFirst |-> FALSE, strict |-> strict,
     locales |-> {}, base |-> base]

\* Every outcome of a configuration, computed once: @@ makes TLC evaluate the
\* function when it is built.
OutcomesUnder(cfg) ==
    <<>> @@ [p \in Inputs \X Years |->
            LET o == ParseWithConfig(Tokens[p[1]], cfg, p[2])
            IN  IF o.ok THEN o ELSE Err(o.cause)]

\* WithBaseTime in 2024, and no option at all.
Pinned   == OutcomesUnder(Options(2024, FALSE))
Strict   == OutcomesUnder(Options(2024, TRUE))
Floating == OutcomesUnder(Options(0, FALSE))

PinnedOutcome(s, y)   == Pinned[<<s, y>>]
StrictOutcome(s, y)   == Strict[<<s, y>>]
FloatingOutcome(s, y) == Floating[<<s, y>>]

ReparseTokens(l, s) == LayoutParse(l, Tokens[s])

\* A column whose first row settles what the second only guesses, with a hole
\* between them; and one whose rows are spelled alike and mean different things.
HoledColumn == <<"slash15", "empty", "slash1">>
MayColumn   == <<"may70", "may10">>

GuessColumns == {HoledColumn, MayColumn}
NoColumns    == {}

=============================================================================
