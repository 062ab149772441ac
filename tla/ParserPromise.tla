---------------------------- MODULE ParserPromise ----------------------------
(***************************************************************************)
(* What a Parser promises its callers, with no cache in sight: a call      *)
(* answers its values one by one and in order, each from that value alone, *)
(* whatever other calls do and whatever was parsed before (parser.go,      *)
(* README.md).  A layout that fits may accept a value detection would      *)
(* refuse, so such a value may be answered either way.                     *)
(***************************************************************************)
EXTENDS Integers, Sequences

CONSTANTS Callers, Inputs, Empty, Columns, FirstYear, LastYear,
          Detection(_, _),  \* what a value alone parses to in a year, or a refusal
          Accepted(_)       \* what layouts that fit a refused value read in it

VARIABLES clock, inside, column, job, answers, begun

vars == <<clock, inside, column, job, answers, begun>>

EmptyCell == [ok |-> TRUE, skipped |-> TRUE]

Init ==
    /\ clock = FirstYear
    /\ inside = [c \in Callers |-> FALSE]
    /\ column = [c \in Callers |-> FALSE]
    /\ job = [c \in Callers |-> <<>>]
    /\ answers = [c \in Callers |-> <<>>]
    /\ begun = [c \in Callers |-> FirstYear]

\* The answers a value may get while the clock shows year y.  What strict mode
\* refuses for being a guess is refused.
MayAnswer(s, o, y) ==
    \/ o = Detection(s, y)
    \/ /\ ~Detection(s, y).ok /\ Detection(s, y).cause # "ambiguous"
       /\ o \in Accepted(s)

Call(c) ==
    /\ ~inside[c]
    /\ inside' = [inside EXCEPT ![c] = TRUE]
    /\ column' = [column EXCEPT ![c] = column'[c]]
    /\ job' = [job EXCEPT ![c] = job'[c]]
    /\ IF column'[c] THEN job'[c] \in Columns ELSE \E s \in Inputs : job'[c] = <<s>>
    /\ begun' = [begun EXCEPT ![c] = clock]
    /\ UNCHANGED <<clock, answers>>

AnswerValue(c) ==
    LET s == job[c][Len(answers[c]) + 1]
        o == answers'[c][Len(answers'[c])]
    IN  /\ inside[c] /\ Len(answers[c]) < Len(job[c])
        /\ Len(answers'[c]) = Len(answers[c]) + 1
        /\ answers' = [answers EXCEPT ![c] = Append(@, o)]
        /\ IF column[c] /\ s = Empty
           THEN o = EmptyCell
           ELSE \E y \in begun[c]..clock : MayAnswer(s, o, y)
        /\ UNCHANGED <<clock, inside, column, job, begun>>

\* A call ends when every one of its values is answered.
Return(c) ==
    /\ inside[c] /\ Len(answers[c]) = Len(job[c])
    /\ inside' = [inside EXCEPT ![c] = FALSE]
    /\ column' = [column EXCEPT ![c] = FALSE]
    /\ job' = [job EXCEPT ![c] = <<>>]
    /\ answers' = [answers EXCEPT ![c] = <<>>]
    /\ begun' = [begun EXCEPT ![c] = FirstYear]
    /\ UNCHANGED clock

NewYear ==
    /\ clock < LastYear
    /\ clock' = clock + 1
    /\ UNCHANGED <<inside, column, job, answers, begun>>

Next == (\E c \in Callers : Call(c) \/ AnswerValue(c) \/ Return(c)) \/ NewYear

Spec == Init /\ [][Next]_vars

=============================================================================
