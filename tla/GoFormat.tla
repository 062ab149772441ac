------------------------------ MODULE GoFormat ------------------------------
(***************************************************************************)
(* What Go's time package writes for a time under a layout (time.Format),  *)
(* beside the parser: the meaning a compiled layout has to agree with.  A  *)
(* fraction is of the form that keeps its zeros, and a zone a numeric one. *)
(***************************************************************************)
EXTENDS GoLayouts

\* A time: year, month, day, hour, minute, second, nsec and zone, in minutes.
Tm(year, month, day, hour, minute, second, nsec, zone) ==
    [year |-> year, month |-> month, day |-> day, hour |-> hour, minute |-> minute,
     second |-> second, nsec |-> nsec, zone |-> zone]

DigitOf == [n \in 0..9 |-> CHOOSE c \in DOMAIN Digit : Digit[c] = n]

\* n as exactly w digits.
Padded(n, w) == [i \in 1..w |-> DigitOf[(n \div 10 ^ (w - i)) % 10]]

OneOr2(n) == IF n < 10 THEN Padded(n, 1) ELSE Padded(n, 2)

Hour12Of(hour) == IF hour % 12 = 0 THEN 12 ELSE hour % 12

Magnitude(zone) == IF zone < 0 THEN -zone ELSE zone

OffsetText(zone, colon) ==
    <<IF zone < 0 THEN "-" ELSE "+">> \o Padded(Magnitude(zone) \div 60, 2)
        \o colon \o Padded(Magnitude(zone) % 60, 2)

Written(t, tm) ==
    CASE t = "2006" -> Padded(tm.year, 4)
      [] t = "06"   -> Padded(tm.year % 100, 2)
      [] t = "01"   -> Padded(tm.month, 2)
      [] t = "1"    -> OneOr2(tm.month)
      [] t = "02"   -> Padded(tm.day, 2)
      [] t = "2"    -> OneOr2(tm.day)
      [] t = "_2"   -> IF tm.day < 10 THEN <<" ">> \o Padded(tm.day, 1) ELSE Padded(tm.day, 2)
      [] t = "15"   -> Padded(tm.hour, 2)
      [] t = "03"   -> Padded(Hour12Of(tm.hour), 2)
      [] t = "3"    -> OneOr2(Hour12Of(tm.hour))
      [] t = "04"   -> Padded(tm.minute, 2)
      [] t = "05"   -> Padded(tm.second, 2)
      [] t = "PM"   -> IF tm.hour >= 12 THEN <<"P", "M">> ELSE <<"A", "M">>
      [] t = "pm"   -> IF tm.hour >= 12 THEN <<"p", "m">> ELSE <<"a", "m">>
      [] t = "-07"  -> SubSeq(OffsetText(tm.zone, <<>>), 1, 3)
      [] t = "-0700"  -> OffsetText(tm.zone, <<>>)
      [] t = "-07:00" -> OffsetText(tm.zone, <<":">>)
      [] t = "Z0700"  -> IF tm.zone = 0 THEN <<"Z">> ELSE OffsetText(tm.zone, <<>>)
      [] t = "Z07:00" -> IF tm.zone = 0 THEN <<"Z">> ELSE OffsetText(tm.zone, <<":">>)
      [] t \in {".000", ".000000", ".000000000"} ->
            <<".">> \o SubSeq(Padded(tm.nsec, 9), 1, FractionDigits[t])
      [] OTHER -> <<t>>

Format(layout, tm) ==
    FoldLeft(LAMBDA text, t : text \o Written(t, tm), <<>>, layout)

-----------------------------------------------------------------------------
\* The time that Format's text says: what the layout does not write is as
\* time.Parse leaves it.

Writes(layout, ts) == \E i \in DOMAIN layout : layout[i] \in ts

Part(layout, ts, part, default) == IF Writes(layout, ts) THEN part ELSE default

\* A fraction says as many digits as it writes.
NsecSaid(layout, nsec) ==
    CASE Writes(layout, {".000000000"}) -> nsec
      [] Writes(layout, {".000000"})    -> nsec - (nsec % 1000)
      [] Writes(layout, {".000"})       -> nsec - (nsec % 1000000)
      [] OTHER                          -> 0

\* The short form of an offset says whole hours.
ZoneSaid(layout, zone) ==
    CASE Writes(layout, {"-0700", "-07:00", "Z0700", "Z07:00"}) -> zone
      [] Writes(layout, {"-07"}) -> (IF zone < 0 THEN -60 ELSE 60) * (Magnitude(zone) \div 60)
      [] OTHER -> 9999

Said(layout, tm) ==
    Tm(Part(layout, {"2006", "06"}, tm.year, 0),
       Part(layout, {"01", "1"}, tm.month, 1),
       Part(layout, {"02", "2", "_2"}, tm.day, 1),
       Part(layout, {"15", "03", "3"}, tm.hour, 0),
       Part(layout, {"04"}, tm.minute, 0),
       Part(layout, {"05"}, tm.second, 0),
       NsecSaid(layout, tm.nsec),
       ZoneSaid(layout, tm.zone))

=============================================================================
