----------------------------- MODULE TrieFormats -----------------------------
(***************************************************************************)
(* The formats that a signature picks (internal/detect/formats.go,         *)
(* signature.go, trie.go): the class of each byte of an input, the entry   *)
(* those classes lead to, the class its separators take, and the Go layout *)
(* that spells the input.  An entry is written as the pieces of a Go       *)
(* layout, in which "Z" is a zone and ",000" a fraction.                   *)
(***************************************************************************)
EXTENDS GoLayouts

MaxSigLen == 64

IsZoneColon(s, i) == i >= 8 /\ \E j \in (i - 7)..(i - 1) : ByteAt(s, j) = ":"

\* Is a '-' at i the sign of an offset, behind a 'Z' or a time?
IsTZSignPosition(s, i) == i > 0 /\ (ByteAt(s, i - 1) = "Z" \/ IsZoneColon(s, i))

Between(s, i, n) == i > 0 /\ i < n - 1 /\ IsDigit(ByteAt(s, i - 1)) /\ IsDigit(ByteAt(s, i + 1))

BeforeSignOrEnd(s, i, n) == i = n - 1 \/ ByteAt(s, i + 1) \in {"+", "-"}

\* The class of the byte at i, of which n are looked at.
ClassAt(s, i, n) ==
    LET c == ByteAt(s, i)
    IN  CASE IsDigit(c) -> "D"
          [] c = "T" -> IF Between(s, i, n) THEN "X" ELSE "L"
          [] c = "Z" -> IF BeforeSignOrEnd(s, i, n) THEN "X" ELSE "L"
          [] c = "-" -> IF IsTZSignPosition(s, i) THEN "X" ELSE "S"
          [] c \in {"/", "."} -> "S"
          [] c \in {" ", "\t"} -> "W"
          [] c = ":" -> "C"
          [] c \in {"+", ","} -> "X"
          [] OTHER -> "L"

Scan(s) == LET n == Min({Len(s), MaxSigLen}) IN [i \in 1..n |-> ClassAt(s, i - 1, n)]

-----------------------------------------------------------------------------
\* The entries: their pieces, their signature, and whether they have a Go layout.
Entry(pieces, sig, hasLayout) == [pieces |-> pieces, sig |-> sig, hasLayout |-> hasLayout]

D(n) == [i \in 1..n |-> "D"]

Date      == <<"2006", "-", "01", "-", "02">>
Clock     == <<"15", ":", "04", ":", "05">>
DateSig   == D(4) \o <<"S">> \o D(2) \o <<"S">> \o D(2)
ClockSig  == D(2) \o <<"C">> \o D(2) \o <<"C">> \o D(2)
IsoTime   == Date \o <<"T">> \o Clock
IsoSig    == DateSig \o <<"X">> \o ClockSig
SqlTime   == Date \o <<" ">> \o Clock
SqlSig    == DateSig \o <<"W">> \o ClockSig
OffsetSig == <<"X">> \o D(2) \o <<"C">> \o D(2)

Phase1 ==
    [ISO8601_DATE       |-> Entry(Date, DateSig, TRUE),
     ISO8601_DATETIME   |-> Entry(IsoTime, IsoSig, TRUE),
     ISO8601_DATETIME_Z |-> Entry(IsoTime \o <<"Z">>, IsoSig \o <<"X">>, TRUE),
     RFC3339            |-> Entry(IsoTime \o <<"-07:00">>, IsoSig \o OffsetSig, TRUE),
     RFC3339_NANO       |-> Entry(IsoTime \o <<".999999999", "Z">>,
                                  IsoSig \o <<"S">> \o D(9) \o <<"X">>, TRUE),
     SQL_DATETIME       |-> Entry(SqlTime, SqlSig, TRUE),
     TIME_HM            |-> Entry(<<"15", ":", "04">>, D(2) \o <<"C">> \o D(2), TRUE),
     TIME_HMS           |-> Entry(Clock, ClockSig, TRUE)]

CompactFormats ==
    [COMPACT_DATE           |-> Entry(<<"2006", "01", "02">>, D(8), TRUE),
     COMPACT_DATETIME       |-> Entry(<<"2006", "01", "02", "T", "15", "04", "05">>,
                                      D(8) \o <<"X">> \o D(6), FALSE),
     COMPACT_DATETIME_NOSEP |-> Entry(<<"2006", "01", "02", "15", "04", "05">>, D(14), FALSE),
     COMPACT_DATETIME_Z     |-> Entry(<<"2006", "01", "02", "T", "15", "04", "05", "Z">>,
                                      D(8) \o <<"X">> \o D(6) \o <<"X">>, FALSE),
     COMPACT_YYMMDD         |-> Entry(<<"06", "01", "02">>, D(6), FALSE),
     COMPACT_YYMMDD_TIME    |-> Entry(<<"06", "01", "02", " ">> \o Clock,
                                      D(6) \o <<"W">> \o ClockSig, FALSE)]

TimeFormats ==
    [TIME_HM_AMPM   |-> Entry(<<"03", ":", "04", " ", "PM">>,
                              D(2) \o <<"C">> \o D(2) \o <<"W", "L", "L">>, TRUE),
     TIME_HMS_AMPM  |-> Entry(<<"03", ":", "04", ":", "05", " ", "PM">>,
                              ClockSig \o <<"W", "L", "L">>, TRUE),
     TIME_HMS_FRAC3 |-> Entry(Clock \o <<".000">>, ClockSig \o <<"S">> \o D(3), TRUE),
     TIME_HMS_FRAC6 |-> Entry(Clock \o <<".000000">>, ClockSig \o <<"S">> \o D(6), TRUE)]

SqlFormats ==
    [SQL_DATETIME_FRAC6       |-> Entry(SqlTime \o <<".000000">>, SqlSig \o <<"S">> \o D(6), TRUE),
     SQL_DATETIME_FRAC3       |-> Entry(SqlTime \o <<".000">>, SqlSig \o <<"S">> \o D(3), TRUE),
     SQL_DATETIME_TZ_SHORT    |-> Entry(SqlTime \o <<"-07">>, SqlSig \o <<"X">> \o D(2), TRUE),
     SQL_DATETIME_TZ          |-> Entry(SqlTime \o <<"-07:00">>, SqlSig \o OffsetSig, TRUE),
     RFC3339_FRAC3_TZ         |-> Entry(IsoTime \o <<".000", "-07:00">>,
                                        IsoSig \o <<"S">> \o D(3) \o OffsetSig, FALSE),
     SQL_DATETIME_COMMA_FRAC3 |-> Entry(SqlTime \o <<",000">>, SqlSig \o <<"X">> \o D(3), FALSE),
     SQL_DATETIME_TZ_NAME     |-> Entry(SqlTime \o <<" ", "MST">>,
                                        SqlSig \o <<"W", "L", "L", "L">>, FALSE),
     SQL_DATETIME_AMPM        |-> Entry(Date \o <<" ", "03", ":", "04", ":", "05", " ", "PM">>,
                                        SqlSig \o <<"W", "L", "L">>, FALSE)]

PartialFormats ==
    [ISO_YEAR_MONTH    |-> Entry(<<"2006", "-", "01">>, D(4) \o <<"S">> \o D(2), FALSE),
     BARE_YEAR         |-> Entry(<<"2006">>, D(4), FALSE)]

ExifDate == <<"2006", ":", "01", ":", "02">>
ExifSig  == D(4) \o <<"C">> \o D(2) \o <<"C">> \o D(2)

ExifFormats ==
    [EXIF_DATE         |-> Entry(ExifDate, ExifSig, FALSE),
     EXIF_DATETIME_HM  |-> Entry(ExifDate \o <<" ", "15", ":", "04">>,
                                 ExifSig \o <<"W">> \o D(2) \o <<"C">> \o D(2), FALSE),
     EXIF_DATETIME_HMS |-> Entry(ExifDate \o <<" ">> \o Clock,
                                 ExifSig \o <<"W">> \o ClockSig, FALSE)]

Entries == Phase1 @@ CompactFormats @@ TimeFormats @@ SqlFormats @@ PartialFormats @@ ExifFormats

\* The entry that the classes of s lead to.
Matches(entry, s) == Scan(s) = entry.sig

-----------------------------------------------------------------------------
\* Mutant of AuxFor: the a special byte is the 'T' it usually is.
AuxForT ==
    [S |-> "Sep", W |-> "Space", C |-> ":", X |-> "T", L |-> "Letter"]

\* The byte or the class that a literal takes, from the class of its position.
AuxFor ==
    [S |-> "Sep", W |-> "Space", C |-> ":", X |-> "Special", L |-> "Letter"]

Stamp(field, sig) ==
    IF field.op = "Literal" THEN [field EXCEPT !.aux = AuxFor[sig[field.offset + 1]]] ELSE field

StampLiteralClasses(fields, sig) == [i \in DOMAIN fields |-> Stamp(fields[i], sig)]

\* What a piece becomes in an entry: as in a Go layout, but for "Z" and ",000".
EntryPieces(offset, t) ==
    CASE t = "Z"    -> <<Field("TZZ", offset, 1, NoAux)>>
      [] t = ",000" -> <<Literal(offset, ","), Field("FracSec", offset + 1, 3, NoAux)>>
      [] OTHER      -> FieldsOf(t, offset)

PieceWidth(t) == IF t = ",000" THEN 4 ELSE InputWidth(t)

EntryPiece(parsed, t) ==
    [fields |-> parsed.fields \o EntryPieces(parsed.offset, t),
     offset |-> parsed.offset + PieceWidth(t)]

EntryFields(entry) ==
    StampLiteralClasses(
        FoldLeft(EntryPiece, [fields |-> <<>>, offset |-> 0], entry.pieces).fields, entry.sig)

-----------------------------------------------------------------------------
\* The Go layout that spells s, an input of the entry's own.

\* Where each piece starts, in an entry and in what its layout describes alike.
PieceOffset(pieces, k) == FoldLeft(LAMBDA n, t : n + PieceWidth(t), 0, SubSeq(pieces, 1, k - 1))

IsVerbatim(t) == t \notin DOMAIN GoTokens \cup DOMAIN FractionDigits

PieceByte(pieces, k, s) == ByteAt(s, PieceOffset(pieces, k))

NoLayout == <<>>

RespellLiterals(pieces, s) ==
    [k \in DOMAIN pieces |-> IF IsVerbatim(pieces[k]) THEN PieceByte(pieces, k, s) ELSE pieces[k]]

\* The bytes of a fraction whose dot is spelled otherwise: no fraction at all.
Spelled(t, byte) ==
    IF IsVerbatim(t) \/ (t \in DOMAIN FractionDigits /\ byte # ".")
    THEN <<byte>> \o (IF IsVerbatim(t) THEN <<>> ELSE [i \in 1..FractionDigits[t] |-> "0"])
    ELSE <<t>>


\* An input that spells the dot of the fraction otherwise gets no layout.
GoLayoutFor(entry, s) ==
    IF /\ entry.hasLayout
       /\ \A k \in DOMAIN entry.pieces :
             entry.pieces[k] \in DOMAIN FractionDigits => PieceByte(entry.pieces, k, s) = "."
    THEN RespellLiterals(entry.pieces, s)
    ELSE NoLayout

=============================================================================
