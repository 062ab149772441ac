------------------------------ MODULE GoLayouts ------------------------------
(***************************************************************************)
(* The public Compile: a Go reference layout becomes the fields of a       *)
(* format (internal/compile/layout_parser.go).  A layout is a sequence of  *)
(* the pieces the longest-match tokenizer cuts it into: reference tokens,  *)
(* and one-byte literals for everything else.                              *)
(***************************************************************************)
EXTENDS Instructions, SequencesExt

Literal(offset, byte) == Field("Literal", offset, 1, byte)

\* The tokens that name a field, and how many input bytes each counts for.  A
\* token of varying width counts for its least.
GoTokens ==
    [t \in {"2006", "06", "01", "02", "_2", "15", "03", "04", "05", "PM", "pm", "MST",
            "1", "2", "3", "-07:00", "-0700", "-07", "Z07:00", "Z0700"} |->
        CASE t = "2006" -> <<"Year4", 4>>        [] t = "06"     -> <<"Year2", 2>>
          [] t = "01"   -> <<"Month2", 2>>       [] t = "1"      -> <<"Month1or2", 1>>
          [] t = "02"   -> <<"Day2", 2>>         [] t = "2"      -> <<"Day1or2", 1>>
          [] t = "_2"   -> <<"DaySpacePad", 2>>  [] t = "15"     -> <<"Hour24", 2>>
          [] t = "03"   -> <<"Hour12", 2>>       [] t = "3"      -> <<"Hour1or2", 1>>
          [] t = "04"   -> <<"Minute2", 2>>      [] t = "05"     -> <<"Second2", 2>>
          [] t \in {"PM", "pm"} -> <<"AMPM", 2>> [] t = "MST"    -> <<"TZName", 3>>
          [] t = "-07:00" -> <<"TZOffset", 6>>   [] t = "-0700"  -> <<"TZOffset", 5>>
          [] t = "-07"  -> <<"TZOffset", 3>>     [] t = "Z07:00" -> <<"TZZOrOffset", 6>>
          [] t = "Z0700" -> <<"TZZOrOffset", 5>>]

FractionDigits ==
    [t \in {".000", ".999", ".000000", ".999999", ".000000000", ".999999999"} |->
        CASE t \in {".000", ".999"}       -> 3
          [] t \in {".000000", ".999999"} -> 6
          [] OTHER                        -> 9]

Unsupported == {"January", "Jan", "Monday", "Mon"}

InputWidth(t) ==
    CASE t \in DOMAIN GoTokens       -> GoTokens[t][2]
      [] t \in DOMAIN FractionDigits -> 1 + FractionDigits[t]
      [] OTHER                       -> 1

\* A fraction is a literal dot and its digits; a byte that is no token a literal.
FieldsOf(t, offset) ==
    CASE t \in DOMAIN GoTokens       -> <<Field(GoTokens[t][1], offset, GoTokens[t][2], NoAux)>>
      [] t \in DOMAIN FractionDigits ->
            <<Literal(offset, "."), Field("FracSec", offset + 1, FractionDigits[t], NoAux)>>
      [] OTHER                       -> <<Literal(offset, t)>>

Advance(offset, t) == offset + InputWidth(t)

Compiles(layout) ==
    /\ \A i \in DOMAIN layout : layout[i] \notin Unsupported
    /\ \E i \in DOMAIN layout : layout[i] \in DOMAIN GoTokens \cup DOMAIN FractionDigits

\* The fields, and the offset the next one would have.
ParsePiece(parsed, t) ==
    [fields |-> parsed.fields \o FieldsOf(t, parsed.offset), offset |-> Advance(parsed.offset, t)]

ParseGoLayout(layout) ==
    FoldLeft(ParsePiece, [fields |-> <<>>, offset |-> 0], layout).fields

=============================================================================
