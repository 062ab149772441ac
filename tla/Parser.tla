------------------------------- MODULE Parser -------------------------------
(***************************************************************************)
(* A Parser shared by concurrent callers (parser.go).  It keeps the layout *)
(* of the last value it detected in an atomic pointer and tries it on the  *)
(* next value before detecting again.                                      *)
(*                                                                         *)
(* What one call of the library computes is a parameter here, so that the  *)
(* theorems about the cache hold for every format and every configuration: *)
(* DetectAndParse(s, y) is parseWithConfig on input s under the Parser's   *)
(* own configuration in a year y; Reparse(l, s) is Layout.Parse.           *)
(***************************************************************************)
EXTENDS Integers, Sequences

CONSTANTS
    Callers,              \* goroutines sharing the Parser
    Inputs,               \* values passed to Parse, or as cells of a column
    Empty,                \* the empty string
    Columns,              \* the columns passed to ParseColumn
    FirstYear, LastYear,  \* the years the clock shows; a bound on the model
    NoLayout,             \* the nil pointer
    DetectAndParse(_, _),
    Reparse(_, _)

Years == FirstYear..LastYear

ASSUME YearsAssumption ==
    FirstYear \in Int /\ LastYear \in Int /\ FirstYear <= LastYear

ASSUME InputsAssumption == Empty \in Inputs /\ Columns \subseteq Seq(Inputs)

\* An empty cell's pair: the zero time and a nil error.
Skipped == [ok |-> TRUE, skipped |-> TRUE]

\* What detection accepts it accepts with a layout, which is not nil, and its
\* answer is not the pair of an empty cell.
ASSUME LayoutAssumption ==
    \A s \in Inputs, y \in Years :
        /\ DetectAndParse(s, y).ok \in BOOLEAN
        /\ DetectAndParse(s, y).ok => DetectAndParse(s, y).layout # NoLayout
        /\ DetectAndParse(s, y) # Skipped

VARIABLES
    layout,  \* the cached layout
    clock,   \* the year time.Now() is in
    pc,      \* where each caller is in its call
    column,  \* is the call a ParseColumn?
    job,     \* the values of the call: one for Parse, the column's cells otherwise
    res,     \* the answers so far, one per value
    seen,    \* the layout this caller loaded
    found,   \* what this caller's own detection returned
    begun    \* the year the call began in

vars == <<layout, clock, pc, column, job, res, seen, found, begun>>

-----------------------------------------------------------------------------
\* The layouts detection produces in a year.
Produced ==
    [y \in Years |->
        {DetectAndParse(s, y).layout : s \in {t \in Inputs : DetectAndParse(t, y).ok}}]

Detected == UNION {Produced[y] : y \in Years}

Nothing == [ok |-> FALSE, cause |-> "none"]

\* The answer a cached layout gives: its time for this input, its own flag.
Hit(l, s) == [ok |-> TRUE, time |-> Reparse(l, s).time, layout |-> l,
              ambiguous |-> l.ambig # "none", kind |-> "absolute"]

\* The value a caller is working on.
Value(c) == job[c][Len(res[c]) + 1]

AtRowEnd(c) == Len(res[c]) = Len(job[c])

\* Mutant of Usable: a gate that only asks whether there is a layout.
UsableUngated(l) == l # NoLayout

\* A format that can need a guess is never read from the cache.
Usable(l) == l # NoLayout /\ ~l.prone

Transition(c, from, to) == pc[c] = from /\ pc' = [pc EXCEPT ![c] = to]

\* The row is answered: back to the column's loop, which ends with its rows.
Answer(c, from, o) ==
    /\ Transition(c, from, IF column[c] THEN "rows" ELSE "done")
    /\ res' = [res EXCEPT ![c] = Append(@, o)]
    /\ seen' = [seen EXCEPT ![c] = NoLayout]
    /\ found' = [found EXCEPT ![c] = Nothing]
    /\ UNCHANGED <<clock, column, job, begun>>

-----------------------------------------------------------------------------
Init ==
    /\ layout = NoLayout
    /\ clock = FirstYear
    /\ pc = [c \in Callers |-> "idle"]
    /\ column = [c \in Callers |-> FALSE]
    /\ job = [c \in Callers |-> <<>>]
    /\ res = [c \in Callers |-> <<>>]
    /\ seen = [c \in Callers |-> NoLayout]
    /\ found = [c \in Callers |-> Nothing]
    /\ begun = [c \in Callers |-> FirstYear]

Call(c, values, isColumn) ==
    /\ Transition(c, "idle", IF isColumn THEN "rows" ELSE "load")
    /\ column' = [column EXCEPT ![c] = isColumn]
    /\ job' = [job EXCEPT ![c] = values]
    /\ begun' = [begun EXCEPT ![c] = clock]
    /\ UNCHANGED <<layout, clock, res, seen, found>>

CallParse(c) == \E s \in Inputs : Call(c, <<s>>, FALSE)

CallColumn(c) == \E col \in Columns : Call(c, col, TRUE)

\* The column's loop: an empty cell is skipped, any other goes through Parse.
SkipEmptyCell(c) ==
    /\ pc[c] = "rows"
    /\ ~AtRowEnd(c) /\ Value(c) = Empty
    /\ Answer(c, "rows", Skipped)
    /\ UNCHANGED layout

StartRow(c) ==
    /\ ~AtRowEnd(c) /\ Value(c) # Empty
    /\ Transition(c, "rows", "load")
    /\ UNCHANGED <<layout, clock, column, job, res, seen, found, begun>>

EndColumn(c) ==
    /\ AtRowEnd(c)
    /\ Transition(c, "rows", "done")
    /\ UNCHANGED <<layout, clock, column, job, res, seen, found, begun>>

\* One atomic load; the value loaded serves the whole fast path.
Load(c) ==
    /\ Transition(c, "load", IF Usable(layout) THEN "try" ELSE "detect")
    /\ seen' = [seen EXCEPT ![c] = IF Usable(layout) THEN layout ELSE NoLayout]
    /\ UNCHANGED <<layout, clock, column, job, res, found, begun>>

\* The fast path: the loaded layout either reads this value or hands it on.
CacheHit(c) ==
    /\ pc[c] = "try"
    /\ Reparse(seen[c], Value(c)).ok
    /\ Answer(c, "try", Hit(seen[c], Value(c)))
    /\ UNCHANGED layout

\* Mutants of CacheMiss: the fast path's error is the answer, and the fast path
\* is tried again.
CacheMissAnswers(c) ==
    /\ pc[c] = "try"
    /\ ~Reparse(seen[c], Value(c)).ok
    /\ Answer(c, "try", [ok |-> FALSE, cause |-> "noMatch"])
    /\ UNCHANGED layout

CacheMissRetries(c) ==
    /\ Transition(c, "try", "load")
    /\ ~Reparse(seen[c], Value(c)).ok
    /\ seen' = [seen EXCEPT ![c] = NoLayout]
    /\ UNCHANGED <<layout, clock, column, job, res, found, begun>>

CacheMiss(c) ==
    /\ Transition(c, "try", "detect")
    /\ ~Reparse(seen[c], Value(c)).ok
    /\ seen' = [seen EXCEPT ![c] = NoLayout]
    /\ UNCHANGED <<layout, clock, column, job, res, found, begun>>

\* The slow path: detect, compile and execute this value.
DetectFails(c) ==
    /\ pc[c] = "detect"
    /\ ~DetectAndParse(Value(c), clock).ok
    /\ Answer(c, "detect", DetectAndParse(Value(c), clock))
    /\ UNCHANGED layout

DetectSucceeds(c) ==
    /\ Transition(c, "detect", "store")
    /\ DetectAndParse(Value(c), clock).ok
    /\ found' = [found EXCEPT ![c] = DetectAndParse(Value(c), clock)]
    /\ UNCHANGED <<layout, clock, column, job, res, seen, begun>>

\* Mutant of Store: the whole result is stored where its layout belongs.
StoreResult(c) ==
    /\ pc[c] = "store"
    /\ layout' = found[c]
    /\ Answer(c, "store", found[c])

\* The last store wins.
Store(c) ==
    /\ pc[c] = "store"
    /\ layout' = found[c].layout
    /\ Answer(c, "store", found[c])

Return(c) ==
    /\ Transition(c, "done", "idle")
    /\ column' = [column EXCEPT ![c] = FALSE]
    /\ job' = [job EXCEPT ![c] = <<>>]
    /\ res' = [res EXCEPT ![c] = <<>>]
    /\ begun' = [begun EXCEPT ![c] = FirstYear]
    /\ UNCHANGED <<layout, clock, seen, found>>

Reset(c) ==
    /\ pc[c] = "idle"
    /\ layout' = NoLayout
    /\ UNCHANGED <<clock, pc, column, job, res, seen, found, begun>>

NewYear ==
    /\ clock < LastYear
    /\ clock' = clock + 1
    /\ UNCHANGED <<layout, pc, column, job, res, seen, found, begun>>

\* What a caller does inside a call.
Work(c) == \/ SkipEmptyCell(c) \/ StartRow(c) \/ EndColumn(c)
           \/ Load(c) \/ CacheHit(c) \/ CacheMiss(c)
           \/ DetectFails(c) \/ DetectSucceeds(c) \/ Store(c) \/ Return(c)

Next == \/ \E c \in Callers : CallParse(c) \/ CallColumn(c) \/ Reset(c) \/ Work(c)
        \/ NewYear

\* A goroutine that is inside a call keeps running; nobody has to call.
Fairness == \A c \in Callers : WF_vars(Work(c))

Spec == Init /\ [][Next]_vars /\ Fairness

-----------------------------------------------------------------------------
\* What a value can be answered with: its detection, or what a layout reads.
Detections == {DetectAndParse(s, y) : s \in Inputs, y \in Years}
Hits       == {Hit(p[1], p[2]) : p \in {q \in Detected \X Inputs : Reparse(q[1], q[2]).ok}}
Answers    == {Skipped} \cup Detections \cup Hits

\* Every variable has its type, and a layout in the cache or in a caller's
\* hands is one detection produced.
TypeOK ==
    /\ layout \in Detected \cup {NoLayout}
    /\ clock \in Years
    /\ pc \in [Callers -> {"idle", "rows", "load", "try", "detect", "store", "done"}]
    /\ column \in [Callers -> BOOLEAN]
    /\ job \in [Callers -> Seq(Inputs)]
    /\ res \in [Callers -> Seq(Answers)]
    /\ seen \in [Callers -> Detected \cup {NoLayout}]
    /\ found \in [Callers -> Detections \cup {Nothing}]
    /\ begun \in [Callers -> Years]

\* Does answer o to value s agree with what detecting s in year y gives?  A
\* layout that fits may accept more than detection does (README.md,
\* SECURITY.md), but not what strict mode refuses for being a guess.
Agrees(s, o, y) ==
    LET d == DetectAndParse(s, y)
    IN  /\ d.ok => /\ o.ok
                   /\ o.time = d.time
                   /\ o.ambiguous = d.ambiguous
                   /\ o.kind = d.kind
        /\ ~d.ok /\ d.cause = "ambiguous" => ~o.ok

\* Reuse is sound within a year: a layout that is not prone, wherever detection
\* also accepts the value, gives detection's answer.  It is what the detectors
\* promise of a format, and they break it in one place: the layout of a day with
\* an ordinal suffix and no year takes any two letters for the suffix, and so
\* values that are a guess without it.
ReuseSound ==
    \A y \in Years : \A l \in Produced[y] : \A s \in Inputs :
        ~l.prone /\ Reparse(l, s).ok => Agrees(s, Hit(l, s), y)

\* Whatever layout the cache holds for reuse, and whichever value meets it next,
\* what it reads there agrees with detection in a year that produced it.
CachedIsSound ==
    Usable(layout) =>
        \E y \in FirstYear..clock :
            /\ layout \in Produced[y]
            /\ \A s \in Inputs : Reparse(layout, s).ok => Agrees(s, Hit(layout, s), y)

\* The configuration fixes the base time, so no answer depends on the clock.
BaseTimeGiven ==
    \A s \in Inputs : \A y, z \in Years : DetectAndParse(s, y) = DetectAndParse(s, z)

\* Every answer of a call: an empty cell of a column is skipped, and any other
\* value is answered as detection would in a year that produced the layout
\* reported with the answer.
RowAgrees(c, i) ==
    IF column[c] /\ job[c][i] = Empty
    THEN res[c][i] = Skipped
    ELSE \E y \in FirstYear..clock :
            /\ res[c][i].ok => res[c][i].layout \in Produced[y]
            /\ Agrees(job[c][i], res[c][i], y)

AnswersAgree ==
    \A c \in Callers : \A i \in 1..Len(res[c]) : RowAgrees(c, i)

\* A guess is never reused: an answer given with a prone layout is the answer
\* of detecting that very value.
RowIsOwn(c, i) ==
    (res[c][i].ok /\ res[c][i] # Skipped) =>
        (res[c][i].layout.prone =>
            \E y \in FirstYear..clock : res[c][i] = DetectAndParse(job[c][i], y))

GuessIsOwn ==
    \A c \in Callers : \A i \in 1..Len(res[c]) : RowIsOwn(c, i)

\* A cache cannot change the instant a value parses to: an answer agrees with
\* detection of its value at some moment of the call.
AnswersAreCurrent ==
    [][\A c \in Callers : Len(res'[c]) > Len(res[c]) =>
          LET i == Len(res'[c])
          IN  \/ column[c] /\ job[c][i] = Empty
              \/ \E y \in begun[c]..clock : Agrees(job[c][i], res'[c][i], y)]_vars

-----------------------------------------------------------------------------
\* What a caller can see of an answer: not the layout it came by.
Visible(o) ==
    CASE o = Skipped            -> o
      [] o # Skipped /\ ~o.ok   -> o
      [] o # Skipped /\ o.ok    -> [ok |-> TRUE, time |-> o.time,
                                    ambiguous |-> o.ambiguous, kind |-> o.kind]

\* What reusable layouts read in a value, whichever value they came from.
ReadByLayouts(s) ==
    {Visible(Hit(l, s)) : l \in {k \in Detected : ~k.prone /\ Reparse(k, s).ok}}

DetectionSeen(s, y) == Visible(DetectAndParse(s, y))

Promise == INSTANCE ParserPromise WITH
    Detection <- DetectionSeen,
    Accepted  <- ReadByLayouts,
    inside    <- [c \in Callers |-> pc[c] # "idle"],
    answers   <- [c \in Callers |-> [i \in DOMAIN res[c] |-> Visible(res[c][i])]]

\* A shared, caching Parser is a Parser without a cache: it keeps every promise
\* of ParserPromise, other callers and earlier values notwithstanding.
KeepsPromise == Promise!Spec

\* Every call returns, however the cache is overwritten under it.
CallsReturn == \A c \in Callers : (pc[c] # "idle") ~> (pc[c] = "idle")

=============================================================================
