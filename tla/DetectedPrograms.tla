-------------------------- MODULE DetectedPrograms --------------------------
(***************************************************************************)
(* Programs compiled from formats that detection built by locating fields  *)
(* in a sample, whose unread bytes it covered with skips (detect.go), then *)
(* given the other rows of the column.                                     *)
(***************************************************************************)
EXTENDS Program, ClockText

CONSTANTS
    Samples,  \* each text a format was detected in, with the fields found there
    Rows      \* the rows its layout is given, by the name of the sample

ASSUME RowsAssumption == DOMAIN Rows = DOMAIN Samples

\* The fields of a format: those detection located, and the clock after them
\* when it looked for one.
Located(sample) ==
    sample.fields
        \o (IF sample.from < 0 THEN <<>> ELSE ParseTimeComponent(sample.text, sample.from))

DetectedDefs ==
    [n \in DOMAIN Samples |-> CoverGaps(Located(Samples[n]), Samples[n].text)]

-----------------------------------------------------------------------------
\* A layout reads the text it was detected in, whatever the text's other bytes
\* are: every skip takes the bytes it was made from (SkipRun).
ReadsItsSample ==
    stage = "answered" /\ def \in DOMAIN Samples =>
        (input = Samples[def].text => outcome.ok)

Shape(fields) == [i \in DOMAIN fields |-> <<fields[i].op, fields[i].len>>]

\* What detection reads from a clock: its fields, and not the names it skips.
ClockShape(s, from) ==
    Shape(SelectSeq(ParseTimeComponent(s, from), LAMBDA f : f.op # "Skip"))

\* Only the day, before the clock, can move it.
ClockFrom == Samples[def].from + Len(input) - Len(Samples[def].text)

\* No byte that a skip lets through changes what detection would read behind the
\* time: a row that the layout accepts has the clock, meridiem and zone that its
\* sample had, or none that detection sees (appendSkip, appendZoneNameSkip).
ClockReadAsDetected ==
    outcome.ok /\ def \in DOMAIN Samples =>
        \/ Samples[def].from < 0
        \/ ClockShape(input, ClockFrom)
               \in {<<>>, ClockShape(Samples[def].text, Samples[def].from)}

=============================================================================
