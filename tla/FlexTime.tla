------------------------------- MODULE FlexTime -------------------------------
(***************************************************************************)
(* A FlexTime, decoded into again and again: a column scanned row by row,  *)
(* or a JSON or text field read into the same variable (flextime).  Every  *)
(* goroutine has its own, and all that decode in one way share one Parser, *)
(* which belongs to the package.                                           *)
(***************************************************************************)
EXTENDS Parser, Epoch

CONSTANT Sources  \* what is decoded: [kind, v]

ASSUME SourcesAssumption == \A s \in Sources : s.kind = "text" => s.v \in Inputs

VARIABLES
    entry,    \* how values are decoded here: by Scan, UnmarshalJSON or UnmarshalText
    value,    \* every caller's FlexTime
    source,   \* what a caller is decoding
    decoded   \* the last source that was decoded without an error

flexVars == <<vars, entry, value, source, decoded>>
cells    == <<entry, value, source, decoded>>

Source(kind, v) == [kind |-> kind, v |-> v]
NoSource    == Source("none", 0)
Null        == Source("null", 0)
Unsupported == Source("unsupported", 0)
Text(s)     == Source("text", s)

ZeroTime == [zero |-> TRUE]

FlexTime(t, valid, ambiguous) == [t |-> t, valid |-> valid, ambiguous |-> ambiguous]
Invalid == FlexTime(ZeroTime, FALSE, FALSE)

\* Mutant of Set: the ambiguity of the row before stays.
SetTime(c, t, valid, ambiguous) ==
    value' = [value EXCEPT ![c] = FlexTime(t, valid, @.ambiguous)]

\* All three fields change together.
Set(c, t, valid, ambiguous) ==
    value' = [value EXCEPT ![c] = FlexTime(t, valid, ambiguous)]

-----------------------------------------------------------------------------
\* What each decoder is ever handed: a driver's values, a document's, or text.
Handed(s) ==
    CASE entry = "scan" -> TRUE
      [] entry = "json" -> s.kind # "time"
      [] entry = "text" -> s.kind = "text"

\* SQL NULL, JSON null, and the empty text.
IsNull(s) == IF entry = "text" THEN s = Text(Empty) ELSE s = Null

\* The empty string goes to the Parser from JSON, and nowhere from Scan.
IsRead(s) == s.kind = "text" /\ (s.v # Empty \/ entry = "json")

\* The instant a number names, if it names one.
NumberRead(s) ==
    CASE s.kind = "int"   -> FromInt(s.v)
      [] s.kind = "float" -> FromSeconds(s.v)
      [] OTHER            -> NoInstant

Takes(c, s) == pc[c] = "idle" /\ Handed(s)

Took(c, s) == decoded' = [decoded EXCEPT ![c] = s] /\ UNCHANGED <<vars, entry, source>>

DecodeNull(c, s) ==
    /\ Takes(c, s) /\ IsNull(s)
    /\ Set(c, ZeroTime, FALSE, FALSE)
    /\ Took(c, s)

DecodeTime(c, s) ==
    /\ Takes(c, s) /\ s.kind = "time"
    /\ Set(c, s.v, TRUE, FALSE)
    /\ Took(c, s)

DecodeNumber(c, s) ==
    /\ Takes(c, s) /\ NumberRead(s).ok
    /\ Set(c, NumberRead(s).at, TRUE, FALSE)
    /\ Took(c, s)

\* Nothing reads it: an error, and the FlexTime is as it was.
DecodeFails(c, s) ==
    /\ Takes(c, s)
    /\ ~IsNull(s) /\ s.kind # "time" /\ ~NumberRead(s).ok /\ ~IsRead(s)
    /\ UNCHANGED flexVars

DecodeText(c, s) ==
    /\ Takes(c, s) /\ IsRead(s) /\ ~IsNull(s)
    /\ Call(c, <<s.v>>, FALSE)
    /\ source' = [source EXCEPT ![c] = s]
    /\ UNCHANGED <<entry, value, decoded>>

Decode(c, s) == \/ DecodeNull(c, s) \/ DecodeTime(c, s) \/ DecodeNumber(c, s)
                \/ DecodeFails(c, s) \/ DecodeText(c, s)

\* Mutant of Finish: an error leaves a FlexTime that is not valid.
FinishInvalid(c) ==
    /\ Return(c)
    /\ source' = [source EXCEPT ![c] = NoSource]
    /\ LET o == res[c][1]
       IN  IF o.ok THEN Set(c, o.time, TRUE, o.ambiguous) /\ decoded' = [decoded EXCEPT ![c] = source[c]]
                   ELSE Set(c, value[c].t, FALSE, FALSE) /\ UNCHANGED decoded
    /\ UNCHANGED entry

\* The Parser answers: the value, or its error.
Finish(c) ==
    /\ Return(c)
    /\ source' = [source EXCEPT ![c] = NoSource]
    /\ LET o == res[c][1]
       IN  IF o.ok THEN Set(c, o.time, TRUE, o.ambiguous) /\ decoded' = [decoded EXCEPT ![c] = source[c]]
                   ELSE UNCHANGED <<value, decoded>>
    /\ UNCHANGED entry

\* The Parser at work on one value.
Parsing(c) == Load(c) \/ CacheHit(c) \/ CacheMiss(c) \/ DetectFails(c) \/ DetectSucceeds(c)
                 \/ Store(c)

FlexInit ==
    /\ Init
    /\ entry \in {"scan", "json", "text"}
    /\ value = [c \in Callers |-> Invalid]
    /\ source = [c \in Callers |-> NoSource]
    /\ decoded = [c \in Callers |-> NoSource]

FlexNext ==
    \/ \E c \in Callers :
          \/ \E s \in Sources : Decode(c, s)
          \/ Parsing(c) /\ UNCHANGED cells
          \/ Finish(c)
    \/ NewYear /\ UNCHANGED cells

FlexSpec == FlexInit /\ [][FlexNext]_flexVars

-----------------------------------------------------------------------------
\* Does f hold what text s reads as in a year that has come, by detection or, in
\* text detection refuses, by a layout the Parser may reuse?
HoldsText(f, s) ==
    \E y \in FirstYear..clock :
        LET d == DetectAndParse(s, y)
        IN  IF d.ok THEN f = FlexTime(d.time, TRUE, d.ambiguous)
            ELSE \E l \in Produced[y] : ~l.prone /\ Reparse(l, s).ok
                                           /\ f = FlexTime(Reparse(l, s).time, TRUE, l.ambig # "none")

\* A FlexTime is at every moment the last source that decoded, the time, the
\* validity and the ambiguity of that one row: not of the row before it, of a
\* row whose decoding failed, or of another goroutine's (FlexTime.set, Scan,
\* UnmarshalJSON, UnmarshalText).
ValueIsItsSource ==
    \A c \in Callers :
        LET s == decoded[c]
        IN  CASE s = NoSource \/ IsNull(s) -> value[c] = Invalid
              [] s.kind = "time"           -> value[c] = FlexTime(s.v, TRUE, FALSE)
              [] s.kind \in {"int", "float"} ->
                     value[c] = FlexTime(NumberRead(s).at, TRUE, FALSE)
              [] s.kind = "text" /\ ~IsNull(s) -> HoldsText(value[c], s.v)

=============================================================================
