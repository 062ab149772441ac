------------------------------ MODULE GoParse ------------------------------
(***************************************************************************)
(* What Go's time.Parse reads: a layout given as bytes is cut into the     *)
(* longest reference tokens its tokenizer finds, and a value is read one   *)
(* of them after another.  The tokens are those of an entry's layout: no   *)
(* name of a month, a day or a zone is among them, and no fraction in a    *)
(* value whose layout writes none.                                         *)
(***************************************************************************)
EXTENDS GoFormat

BytesOf(piece) == [i \in 1..Len(piece) |-> SubSeq(piece, i, i)]

LayoutBytes(pieces) == FlattenSeq([k \in DOMAIN pieces |-> BytesOf(pieces[k])])

-----------------------------------------------------------------------------
\* The chunks of a layout: reference tokens, and single bytes.

TokenBytes == [t \in DOMAIN GoTokens \cup DOMAIN FractionDigits |-> BytesOf(t)]

Starts(layout, i, t) ==
    Within(layout, i - 1, Len(t)) /\ Slice(layout, i - 1, Len(t)) = TokenBytes[t]

\* A token of a fraction is not followed by a digit.
TokensAt(layout, i) ==
    {t \in DOMAIN GoTokens : Starts(layout, i, t)}
        \cup {t \in DOMAIN FractionDigits :
                 Starts(layout, i, t) /\ ~AllDigits(layout, i + Len(t) - 1, 1)}

ChunkAt(layout, i) ==
    IF TokensAt(layout, i) = {} THEN layout[i]
    ELSE CHOOSE t \in TokensAt(layout, i) : \A u \in TokensAt(layout, i) : Len(u) <= Len(t)

Chunks(layout) ==
    LET from[i \in 1..(Len(layout) + 1)] ==
            IF i > Len(layout) THEN <<>>
            ELSE <<ChunkAt(layout, i)>> \o from[i + Len(ChunkAt(layout, i))]
    IN  from[1]

-----------------------------------------------------------------------------
\* What is read of a value s: how far, and the time so far.  What no chunk reads
\* is the first of January of the year 0 in UTC.

NotParsed == [ok |-> FALSE]

Parsing(pos, tm, meridiem) == [ok |-> TRUE, pos |-> pos, tm |-> tm, meridiem |-> meridiem]

AtFirst == Parsing(0, Tm(0, 1, 1, 0, 0, 0, 0, ZoneSaid(<<>>, 0)), "none")

\* A literal space is any number of them, where anything is left.
ParseLiteral(p, byte, s) ==
    LET others == {i \in p.pos..(Len(s) - 1) : ByteAt(s, i) # " "}
        end    == IF byte # " " THEN p.pos + 1 ELSE Min(others \cup {Len(s)})
    IN  IF \/ Within(s, p.pos, 1) /\ ByteAt(s, p.pos) = byte
           \/ byte = " " /\ p.pos = Len(s)
        THEN [p EXCEPT !.pos = end] ELSE NotParsed

\* A day is held to its month at the end.
NumberLimits ==
    [t \in {"2006", "01", "02", "15", "03", "04", "05"} |->
        CASE t = "2006" -> 0..9999 [] t = "01" -> 1..12 [] t = "02" -> 0..99
          [] t = "15"   -> 0..23   [] t = "03" -> 0..12 [] OTHER    -> 0..59]

\* An hour of the 24-hour clock may have one digit.
ParseNumber(p, t, s) ==
    LET w == IF t = "15" /\ ~AllDigits(s, p.pos, 2) THEN 1 ELSE Len(t)
    IN  IF AllDigits(s, p.pos, w) /\ Number(s, p.pos, w) \in NumberLimits[t]
        THEN [p EXCEPT !.pos = @ + w,
                       !.tm[Register[GoTokens[t][1]]] = Number(s, p.pos, w)]
        ELSE NotParsed

\* The case of a meridiem is not folded.
ParseMeridiem(p, s) ==
    LET said == {m \in {"AM", "PM"} : Within(s, p.pos, 2) /\ Slice(s, p.pos, 2) = BytesOf(m)}
    IN  IF said = {} THEN NotParsed
        ELSE [p EXCEPT !.pos = @ + 2, !.meridiem = CHOOSE m \in said : TRUE]

\* Twenty-four hours and sixty minutes are still an offset.
ParseOffset(p, t, s) ==
    LET minutes == p.pos + (IF t = "-07:00" THEN 4 ELSE 3)
        east    == 60 * Number(s, p.pos + 1, 2) + (IF t = "-07" THEN 0 ELSE Number(s, minutes, 2))
    IN  IF /\ Within(s, p.pos, Len(t)) /\ ByteAt(s, p.pos) \in {"+", "-"}
           /\ AllDigits(s, p.pos + 1, 2) /\ Number(s, p.pos + 1, 2) <= 24
           /\ t # "-07" => AllDigits(s, minutes, 2) /\ Number(s, minutes, 2) <= 60
           /\ t = "-07:00" => ByteAt(s, p.pos + 3) = ":"
        THEN [p EXCEPT !.pos = @ + Len(t),
                       !.tm.zone = IF ByteAt(s, p.pos) = "-" THEN -east ELSE east]
        ELSE NotParsed

\* The value of a fraction's first nine digits.
NsecOf(s, off, n) == Number(s, off, Min({n, 9})) * 10 ^ (9 - Min({n, 9}))

\* As many digits as there are zeros, or with nines as many as come, or none.
ParseFraction(p, t, s) ==
    LET exact == FractionDigits[t]
        run   == {n \in 1..(Len(s) - p.pos - 1) : AllDigits(s, p.pos + 1, n)}
        n     == IF t \in {".999", ".999999", ".999999999"} THEN Max(run \cup {0}) ELSE exact
        dot   == Within(s, p.pos, 1) /\ ByteAt(s, p.pos) \in {".", ","}
    IN  CASE dot /\ n > 0 /\ AllDigits(s, p.pos + 1, n) ->
                 [p EXCEPT !.pos = @ + 1 + n, !.tm.nsec = NsecOf(s, p.pos + 1, n)]
          [] t \in {".999", ".999999", ".999999999"} /\ ~(dot /\ n > 0) -> p
          [] OTHER -> NotParsed

ParseChunk(p, c, s) ==
    CASE ~p.ok -> p
      [] p.ok /\ c \in DOMAIN NumberLimits   -> ParseNumber(p, c, s)
      [] p.ok /\ c = "PM"                    -> ParseMeridiem(p, s)
      [] p.ok /\ c \in {"-07", "-0700", "-07:00"} -> ParseOffset(p, c, s)
      [] p.ok /\ c \in DOMAIN FractionDigits -> ParseFraction(p, c, s)
      [] OTHER                               -> ParseLiteral(p, c, s)

HourOf(hour, meridiem) ==
    CASE meridiem = "PM" /\ hour < 12 -> hour + 12
      [] meridiem = "AM" /\ hour = 12 -> 0
      [] OTHER                        -> hour

\* A value is read to its end, and names a day that exists.
TimeParse(layout, s) ==
    LET p == FoldLeft(LAMBDA q, c : ParseChunk(q, c, s), AtFirst, Chunks(layout))
    IN  IF p.ok /\ p.pos = Len(s) /\ p.tm.day > 0 /\ DayExists(p.tm.year, p.tm.month, p.tm.day)
        THEN [ok |-> TRUE, tm |-> [p.tm EXCEPT !.hour = HourOf(@, p.meridiem)]]
        ELSE NotParsed

=============================================================================
