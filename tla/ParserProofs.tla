---------------------------- MODULE ParserProofs ----------------------------
(***************************************************************************)
(* Theorems about a shared Parser and about the FlexTimes that decode      *)
(* through it, for every number of callers, every set of values and every  *)
(* behaviour of detection and of layouts.                                  *)
(*                                                                         *)
(* The cache is sound because of two facts that no single step shows: the  *)
(* layout in it, and the one a caller took from it, was produced in a year *)
(* the clock has shown and is not a guess; and what a caller is about to   *)
(* store is the detection of the very value it is about to answer.         *)
(*                                                                         *)
(* It keeps the promise of a Parser without a cache: a step either answers *)
(* a value, begins or ends a call, or turns the year, each of them a step  *)
(* of ParserPromise, or it moves the cache and what a caller holds of it,  *)
(* which no caller can see.                                                *)
(*                                                                         *)
(* While a goroutine is inside the Parser its FlexTime still holds the row *)
(* before: what joins the two is that the answer it is waiting for is one  *)
(* its own source may be read as, whoever filled the cache meanwhile.      *)
(***************************************************************************)
EXTENDS FlexTime, TLAPS, SequenceTheorems

-----------------------------------------------------------------------------
\* The inductive invariant, in parts.

Past == FirstYear..clock

\* Was this layout produced in a year the clock has shown?
Known(l) == \E y \in Past : l \in Produced[y]

Working == {"load", "try", "detect", "store"}

\* A caller at work has a value left, and it is not an empty cell.
CallShape(c) ==
    /\ Len(res[c]) <= Len(job[c])
    /\ pc[c] = "idle" => res[c] = <<>>
    /\ pc[c] = "rows" => column[c]
    /\ pc[c] \in Working => Len(res[c]) < Len(job[c])
    /\ pc[c] \in Working /\ column[c] => Value(c) # Empty

\* What a caller holds: a layout that needs no guess, or its own detection.
Holds(c) ==
    /\ pc[c] = "try" => Usable(seen[c]) /\ Known(seen[c])
    /\ pc[c] = "store" => /\ found[c].ok
                          /\ \E y \in Past : found[c] = DetectAndParse(Value(c), y)

CacheKnown == layout # NoLayout => Known(layout)

TypeInv ==
    /\ TypeOK
    /\ CacheKnown
    /\ \A c \in Callers : CallShape(c) /\ begun[c] <= clock
    /\ \A c \in Callers : Holds(c)

-----------------------------------------------------------------------------
\* A layout detection returns is one of those produced that year, and not nil.
LEMMA DetectionProduces ==
    ASSUME NEW s \in Inputs, NEW y \in Years, DetectAndParse(s, y).ok
    PROVE  /\ DetectAndParse(s, y).layout \in Produced[y]
           /\ DetectAndParse(s, y).layout \in Detected
           /\ DetectAndParse(s, y).layout # NoLayout
BY LayoutAssumption DEF Produced, Detected

LEMMA KnownIsDetected ==
    ASSUME clock \in Years, NEW l, Known(l)
    PROVE  l \in Detected
BY YearsAssumption DEF Known, Past, Detected, Produced, Years

\* The value a caller works on is one of the inputs.
LEMMA ValueIsInput ==
    ASSUME TypeOK, NEW c \in Callers, CallShape(c), Len(res[c]) < Len(job[c])
    PROVE  Value(c) \in Inputs
BY LenProperties, ElementOfSeq DEF TypeOK, Value

\* Answering adds one answer and leaves those before it.
LEMMA Answered ==
    ASSUME TypeOK, NEW c \in Callers, NEW from, NEW o \in Answers, Answer(c, from, o)
    PROVE  /\ res' \in [Callers -> Seq(Answers)]
           /\ Len(res'[c]) = Len(res[c]) + 1
           /\ \A i \in 1..Len(res[c]) : res'[c][i] = res[c][i]
           /\ res'[c][Len(res[c]) + 1] = o
           /\ \A d \in Callers : d # c => res'[d] = res[d]
<1>1. res[c] \in Seq(Answers) /\ res'[c] = Append(res[c], o)
  BY DEF TypeOK, Answer
<1>2. /\ Append(res[c], o) \in Seq(Answers)
      /\ Len(Append(res[c], o)) = Len(res[c]) + 1
      /\ \A i \in 1..Len(res[c]) : Append(res[c], o)[i] = res[c][i]
      /\ Append(res[c], o)[Len(res[c]) + 1] = o
  BY <1>1, AppendProperties
<1>3. res' = [res EXCEPT ![c] = Append(res[c], o)]
  BY DEF Answer
<1> QED
  BY <1>1, <1>2, <1>3 DEF TypeOK

\* A later clock knows every layout an earlier one knew.
LEMMA KnownLater ==
    ASSUME clock \in Years, clock' \in Years, clock <= clock', NEW l, Known(l)
    PROVE  Known(l)'
BY YearsAssumption DEF Known, Past, Years, Produced

\* An answer keeps the types, whatever it does to the cache.
LEMMA AnswerKeepsTypes ==
    ASSUME TypeOK, NEW c \in Callers, NEW from, NEW o \in Answers, Answer(c, from, o),
           layout' \in Detected \cup {NoLayout}
    PROVE  TypeOK'
<1>1. res' \in [Callers -> Seq(Answers)]
  BY Answered
<1>2. pc' \in [Callers -> {"idle", "rows", "load", "try", "detect", "store", "done"}]
  BY DEF TypeOK, Answer, Transition
<1>3. seen' \in [Callers -> Detected \cup {NoLayout}]
  BY DEF TypeOK, Answer
<1>4. found' \in [Callers -> Detections \cup {Nothing}]
  BY DEF TypeOK, Answer
<1> QED
  BY <1>1, <1>2, <1>3, <1>4 DEF TypeOK, Answer

\* After an answer a caller has one value fewer left, and holds nothing.
LEMMA AnswerKeepsShape ==
    ASSUME TypeInv, NEW c \in Callers, NEW from \in {"rows", "try", "detect", "store"},
           NEW o \in Answers, Answer(c, from, o), Len(res[c]) < Len(job[c])
    PROVE  \A d \in Callers : CallShape(d)' /\ (begun[d] <= clock)' /\ Holds(d)'
<1> SUFFICES ASSUME NEW d \in Callers
             PROVE  CallShape(d)' /\ (begun[d] <= clock)' /\ Holds(d)'
  OBVIOUS
<1>1. clock' = clock /\ job' = job /\ column' = column /\ begun' = begun
  BY DEF Answer
<1>2. Known(seen[d]) => (d # c => Known(seen[d])')
  BY <1>1 DEF Answer, TypeInv, TypeOK, Known, Past
<1>3. CASE d = c
  <2>1. pc'[c] \in {"rows", "done"} /\ (pc'[c] = "rows" => column[c])
    BY DEF Answer, Transition, TypeInv, TypeOK
  <2>2. Len(res'[c]) = Len(res[c]) + 1
    BY Answered DEF TypeInv
  <2>3. Len(job[c]) \in Nat /\ Len(res[c]) \in Nat
    BY LenProperties DEF TypeInv, TypeOK
  <2> QED
    BY <1>1, <1>3, <2>1, <2>2, <2>3 DEF CallShape, Holds, Working, TypeInv
<1>4. CASE d # c
  <2>1. pc'[d] = pc[d] /\ res'[d] = res[d] /\ seen'[d] = seen[d] /\ found'[d] = found[d]
    BY <1>4, Answered DEF Answer, Transition, TypeInv, TypeOK
  <2>2. CallShape(d)'
    BY <1>1, <2>1 DEF CallShape, TypeInv, Value
  <2>3. Holds(d)'
    BY <1>1, <1>2, <1>4, <2>1 DEF Holds, TypeInv, Value, Usable, Past, Known
  <2> QED
    BY <1>1, <2>2, <2>3 DEF TypeInv
<1> QED
  BY <1>3, <1>4

LEMMA TypeInit == Init => TypeInv
<1> SUFFICES ASSUME Init PROVE TypeInv
  OBVIOUS
<1>1. FirstYear \in Years
  BY YearsAssumption DEF Years
<1>2. <<>> \in Seq(Inputs) /\ <<>> \in Seq(Answers) /\ Len(<<>>) = 0
  BY EmptySeq
<1>3. TypeOK
  BY <1>1, <1>2 DEF Init, TypeOK
<1>4. ASSUME NEW c \in Callers
      PROVE  CallShape(c) /\ begun[c] <= clock /\ Holds(c)
  <2>1. pc[c] = "idle" /\ res[c] = <<>> /\ job[c] = <<>> /\ begun[c] = FirstYear
    BY DEF Init
  <2> QED
    BY <1>2, <2>1, YearsAssumption DEF Init, CallShape, Holds, Working
<1> QED
  BY <1>3, <1>4 DEF Init, TypeInv, CacheKnown

\* A move inside a call: only the caller's pc and what it holds change.
LEMMA MoveKeepsTypeInv ==
    ASSUME TypeInv, NEW c \in Callers, NEW from, NEW to,
           Transition(c, from, to),
           to \in {"idle", "rows", "load", "try", "detect", "store", "done"},
           UNCHANGED <<layout, clock, column, job, res, begun>>,
           seen' \in [Callers -> Detected \cup {NoLayout}],
           found' \in [Callers -> Detections \cup {Nothing}],
           \A d \in Callers : d # c => seen'[d] = seen[d] /\ found'[d] = found[d],
           CallShape(c)', Holds(c)'
    PROVE  TypeInv'
<1>1. pc' \in [Callers -> {"idle", "rows", "load", "try", "detect", "store", "done"}]
      /\ \A d \in Callers : d # c => pc'[d] = pc[d]
  BY DEF TypeInv, TypeOK, Transition
<1>2. TypeOK'
  BY <1>1 DEF TypeInv, TypeOK
<1>3. CacheKnown'
  BY DEF TypeInv, CacheKnown, Known, Past
<1>4. ASSUME NEW d \in Callers
      PROVE  CallShape(d)' /\ (begun[d] <= clock)' /\ Holds(d)'
  <2>1. CASE d = c
    BY <2>1 DEF TypeInv
  <2>2. CASE d # c
    <3>1. CallShape(d)'
      BY <1>1, <2>2 DEF TypeInv, CallShape, Value
    <3>2. Holds(d)'
      BY <1>1, <2>2 DEF TypeInv, Holds, Value, Usable, Past, Known
    <3> QED
      BY <3>1, <3>2 DEF TypeInv
  <2> QED
    BY <2>1, <2>2
<1> QED
  BY <1>2, <1>3, <1>4 DEF TypeInv

\* An answer keeps the whole invariant, if what it leaves in the cache does.
LEMMA AnswerKeepsTypeInv ==
    ASSUME TypeInv, NEW c \in Callers, NEW from \in {"rows", "try", "detect", "store"},
           NEW o \in Answers, Answer(c, from, o), Len(res[c]) < Len(job[c]),
           layout' = layout \/ (Known(layout') /\ layout' \in Detected)
    PROVE  TypeInv'
<1>1. TypeOK'
  BY AnswerKeepsTypes DEF TypeInv, TypeOK
<1>2. CacheKnown'
  <2>1. clock' = clock
    BY DEF Answer
  <2> QED
    BY <2>1 DEF TypeInv, CacheKnown, Known, Past
<1> QED
  BY <1>1, <1>2, AnswerKeepsShape DEF TypeInv

\* A caller inside a call has a value left to answer.
LEMMA ValueLeft ==
    ASSUME TypeInv, NEW c \in Callers,
           pc[c] \in Working \/ (pc[c] = "rows" /\ ~AtRowEnd(c))
    PROVE  Len(res[c]) < Len(job[c]) /\ Value(c) \in Inputs
<1>1. Len(res[c]) < Len(job[c])
  <2>1. Len(res[c]) \in Nat /\ Len(job[c]) \in Nat
    BY LenProperties DEF TypeInv, TypeOK
  <2> QED
    BY <2>1 DEF TypeInv, CallShape, AtRowEnd
<1> QED
  BY <1>1, ValueIsInput DEF TypeInv

\* What the loaded layout reads is an answer.
LEMMA HitIsAnswer ==
    ASSUME TypeInv, NEW c \in Callers, pc[c] = "try", Value(c) \in Inputs,
           Reparse(seen[c], Value(c)).ok
    PROVE  Hit(seen[c], Value(c)) \in Answers
<1> DEFINE p == <<seen[c], Value(c)>>
<1>1. seen[c] \in Detected
  BY KnownIsDetected DEF TypeInv, TypeOK, Holds
<1>2. p \in {q \in Detected \X Inputs : Reparse(q[1], q[2]).ok}
  BY <1>1
<1>3. Hit(p[1], p[2]) \in Hits
  BY <1>2 DEF Hits
<1> QED
  BY <1>3 DEF Answers

\* A new call begins with values and no answers.
LEMMA CallKeepsTypeInv ==
    ASSUME TypeInv, NEW c \in Callers, NEW values \in Seq(Inputs), NEW isColumn \in BOOLEAN,
           Call(c, values, isColumn), ~isColumn => Len(values) = 1
    PROVE  TypeInv'
<1>1. Len(values) \in Nat /\ Len(<<>>) = 0
  BY LenProperties
<1>2. /\ pc[c] = "idle" /\ res[c] = <<>>
      /\ pc' \in [Callers -> {"idle", "rows", "load", "try", "detect", "store", "done"}]
      /\ pc'[c] = (IF isColumn THEN "rows" ELSE "load")
      /\ \A d \in Callers : d # c => pc'[d] = pc[d]
  BY DEF TypeInv, TypeOK, Call, Transition, CallShape
<1>3. TypeOK'
  BY <1>2 DEF TypeInv, TypeOK, Call
<1>4. CacheKnown'
  BY DEF Call, TypeInv, CacheKnown, Known, Past
<1>5. ASSUME NEW d \in Callers
      PROVE  CallShape(d)' /\ (begun[d] <= clock)' /\ Holds(d)'
  <2>1. CASE d = c
    <3>1. job'[c] = values /\ column'[c] = isColumn /\ begun'[c] = clock /\ res'[c] = <<>>
          /\ clock' = clock
      BY <1>2 DEF Call, TypeInv, TypeOK
    <3>2. clock <= clock
      BY DEF TypeInv, TypeOK, Years
    <3>3. pc'[c] \notin {"try", "store", "idle"} /\ (pc'[c] \in Working => ~isColumn)
      BY <1>2 DEF Working
    <3>4. Len(res'[c]) = 0 /\ Len(job'[c]) = Len(values)
      BY <1>1, <3>1
    <3>5. CallShape(c)'
      <4>1. Len(res'[c]) <= Len(job'[c]) /\ (Len(values) = 1 => Len(res'[c]) < Len(job'[c]))
        <5>1. \A m, n : m = 0 /\ n \in Nat => m <= n /\ (n = 1 => m < n)
          OBVIOUS
        <5> QED
          BY <1>1, <3>4, <5>1, Zenon
      <4>2. (pc'[c] \in Working => ~column'[c]) /\ (pc'[c] = "rows" => column'[c])
        BY <1>2, <3>1, <3>3
      <4> QED
        BY <3>3, <4>1, <4>2, Zenon DEF CallShape
    <3>6. Holds(c)'
      BY <3>3 DEF Holds
    <3> QED
      BY <2>1, <3>1, <3>2, <3>5, <3>6
  <2>2. CASE d # c
    <3>1. job'[d] = job[d] /\ column'[d] = column[d] /\ begun'[d] = begun[d]
      BY <2>2 DEF Call, TypeInv, TypeOK
    <3>2. CallShape(d)' /\ (begun[d] <= clock)'
      <4>1. CallShape(d)'
        BY <1>2, <2>2, <3>1 DEF Call, TypeInv, CallShape, Value
      <4> QED
        BY <3>1, <4>1 DEF Call, TypeInv
    <3>3. Holds(d)'
      BY <1>2, <2>2, <3>1 DEF Call, TypeInv, Holds, Value, Usable, Past, Known
    <3> QED
      BY <3>2, <3>3
  <2> QED
    BY <2>1, <2>2
<1> QED
  BY <1>3, <1>4, <1>5 DEF TypeInv

\* One step per action.
LEMMA TypeStep == TypeInv /\ [Next]_vars => TypeInv'
<1> SUFFICES ASSUME TypeInv, [Next]_vars PROVE TypeInv'
  OBVIOUS
<1>1. ASSUME NEW c \in Callers, CallParse(c) PROVE TypeInv'
  <2>1. PICK s \in Inputs : Call(c, <<s>>, FALSE)
    BY <1>1 DEF CallParse
  <2>2. <<s>> \in Seq(Inputs) /\ Len(<<s>>) = 1
    OBVIOUS
  <2> QED
    BY <2>1, <2>2, CallKeepsTypeInv
<1>2. ASSUME NEW c \in Callers, CallColumn(c) PROVE TypeInv'
  BY <1>2, CallKeepsTypeInv, InputsAssumption DEF CallColumn
<1>3. ASSUME NEW c \in Callers, Reset(c) PROVE TypeInv'
  <2>1. TypeOK' /\ CacheKnown'
    BY <1>3 DEF Reset, TypeInv, TypeOK, CacheKnown
  <2>2. \A d \in Callers : CallShape(d)' /\ (begun[d] <= clock)'
    BY <1>3 DEF Reset, TypeInv, CallShape, Value
  <2>3. \A d \in Callers : Holds(d)'
    BY <1>3 DEF Reset, TypeInv, Holds, Value, Usable, Past, Known
  <2> QED
    BY <2>1, <2>2, <2>3 DEF TypeInv
<1>4. ASSUME NEW c \in Callers, SkipEmptyCell(c) PROVE TypeInv'
  <2>1. Len(res[c]) < Len(job[c])
    BY <1>4, ValueLeft DEF SkipEmptyCell
  <2>2. Skipped \in Answers
    BY DEF Answers
  <2> QED
    BY <1>4, <2>1, <2>2, AnswerKeepsTypeInv DEF SkipEmptyCell
<1>5. ASSUME NEW c \in Callers, StartRow(c) PROVE TypeInv'
  <2>1. Len(res[c]) < Len(job[c])
    BY <1>5, ValueLeft DEF StartRow, Transition
  <2>2. pc'[c] = "load"
    BY <1>5 DEF StartRow, Transition, TypeInv, TypeOK
  <2>3. CallShape(c)' /\ Holds(c)'
    BY <1>5, <2>1, <2>2 DEF StartRow, TypeInv, CallShape, Holds, Value, Working
  <2> QED
    BY <1>5, <2>3, MoveKeepsTypeInv DEF StartRow, TypeInv, TypeOK
<1>6. ASSUME NEW c \in Callers, EndColumn(c) PROVE TypeInv'
  <2>1. pc'[c] = "done"
    BY <1>6 DEF EndColumn, Transition, TypeInv, TypeOK
  <2>2. CallShape(c)' /\ Holds(c)'
    BY <1>6, <2>1 DEF EndColumn, TypeInv, CallShape, Holds, Working
  <2> QED
    BY <1>6, <2>2, MoveKeepsTypeInv DEF EndColumn, TypeInv, TypeOK
<1>7. ASSUME NEW c \in Callers, Load(c) PROVE TypeInv'
  <2>1. pc[c] = "load" /\ pc'[c] = IF Usable(layout) THEN "try" ELSE "detect"
    BY <1>7 DEF Load, Transition, TypeInv, TypeOK
  <2>2. /\ seen' \in [Callers -> Detected \cup {NoLayout}]
        /\ \A d \in Callers : d # c => seen'[d] = seen[d]
        /\ Usable(layout) => seen'[c] = layout
    BY <1>7 DEF Load, TypeInv, TypeOK
  <2>3. CallShape(c)'
    BY <1>7, <2>1 DEF Load, TypeInv, CallShape, Value, Working
  <2>4. Holds(c)'
    BY <1>7, <2>1, <2>2 DEF Load, TypeInv, Holds, CacheKnown, Usable, Known, Past
  <2> QED
    BY <1>7, <2>2, <2>3, <2>4, MoveKeepsTypeInv DEF Load, TypeInv, TypeOK
<1>8. ASSUME NEW c \in Callers, CacheHit(c) PROVE TypeInv'
  <2>1. Len(res[c]) < Len(job[c]) /\ Value(c) \in Inputs
    BY <1>8, ValueLeft DEF CacheHit, Working
  <2>3. Hit(seen[c], Value(c)) \in Answers
    BY <1>8, <2>1, HitIsAnswer DEF CacheHit
  <2> QED
    BY <1>8, <2>1, <2>3, AnswerKeepsTypeInv DEF CacheHit
<1>9. ASSUME NEW c \in Callers, CacheMiss(c) PROVE TypeInv'
  <2>1. pc[c] = "try" /\ pc'[c] = "detect"
    BY <1>9 DEF CacheMiss, Transition, TypeInv, TypeOK
  <2>2. CallShape(c)' /\ Holds(c)'
    BY <1>9, <2>1 DEF CacheMiss, TypeInv, CallShape, Holds, Value, Working
  <2>3. /\ seen' \in [Callers -> Detected \cup {NoLayout}]
        /\ \A d \in Callers : d # c => seen'[d] = seen[d]
    BY <1>9 DEF CacheMiss, TypeInv, TypeOK
  <2> QED
    BY <1>9, <2>2, <2>3, MoveKeepsTypeInv DEF CacheMiss, TypeInv, TypeOK
<1>10. ASSUME NEW c \in Callers, DetectFails(c) PROVE TypeInv'
  <2>1. Len(res[c]) < Len(job[c]) /\ Value(c) \in Inputs
    BY <1>10, ValueLeft DEF DetectFails, Working
  <2>2. DetectAndParse(Value(c), clock) \in Answers
    BY <2>1 DEF Answers, Detections, TypeInv, TypeOK
  <2> QED
    BY <1>10, <2>1, <2>2, AnswerKeepsTypeInv DEF DetectFails
<1>11. ASSUME NEW c \in Callers, DetectSucceeds(c) PROVE TypeInv'
  <2>1. pc[c] = "detect" /\ pc'[c] = "store"
    BY <1>11 DEF DetectSucceeds, Transition, TypeInv, TypeOK
  <2>2. Value(c) \in Inputs
    BY <2>1, ValueLeft DEF Working
  <2>3. /\ found' \in [Callers -> Detections \cup {Nothing}]
        /\ found'[c] = DetectAndParse(Value(c), clock)
        /\ \A d \in Callers : d # c => found'[d] = found[d]
    BY <1>11, <2>2 DEF DetectSucceeds, TypeInv, TypeOK, Detections
  <2>4. CallShape(c)'
    BY <1>11, <2>1 DEF DetectSucceeds, TypeInv, CallShape, Value, Working
  <2>5. clock \in Past
    BY YearsAssumption DEF Past, TypeInv, TypeOK, Years
  <2>6. Holds(c)'
    BY <1>11, <2>1, <2>3, <2>5 DEF DetectSucceeds, Holds, Value, Past
  <2> QED
    BY <1>11, <2>3, <2>4, <2>6, MoveKeepsTypeInv DEF DetectSucceeds, TypeInv, TypeOK
<1>12. ASSUME NEW c \in Callers, Store(c) PROVE TypeInv'
  <2>1. Len(res[c]) < Len(job[c]) /\ Value(c) \in Inputs
    BY <1>12, ValueLeft DEF Store, Working
  <2>2. PICK y \in Past : found[c] = DetectAndParse(Value(c), y) /\ found[c].ok
    BY <1>12 DEF Store, TypeInv, Holds
  <2>3. y \in Years
    BY YearsAssumption DEF Past, TypeInv, TypeOK, Years
  <2>4. found[c].layout \in Produced[y] /\ found[c].layout \in Detected
    BY <2>1, <2>2, <2>3, DetectionProduces
  <2>5. found[c] \in Answers
    BY <2>1, <2>2, <2>3 DEF Answers, Detections
  <2>6. Known(layout') /\ layout' \in Detected
    BY <1>12, <2>2, <2>4 DEF Store, Known
  <2> QED
    BY <1>12, <2>1, <2>5, <2>6, AnswerKeepsTypeInv DEF Store
<1>13. ASSUME NEW c \in Callers, Return(c) PROVE TypeInv'
  <2>1. pc'[c] = "idle" /\ (\A d \in Callers : d # c => pc'[d] = pc[d])
        /\ pc' \in [Callers -> {"idle", "rows", "load", "try", "detect", "store", "done"}]
    BY <1>13 DEF Return, Transition, TypeInv, TypeOK
  <2>2. <<>> \in Seq(Inputs) /\ <<>> \in Seq(Answers) /\ Len(<<>>) = 0
    BY EmptySeq
  <2>3. FirstYear \in Years /\ FirstYear <= clock
    BY YearsAssumption DEF Years, TypeInv, TypeOK
  <2>4. TypeOK' /\ CacheKnown'
    BY <1>13, <2>1, <2>2, <2>3 DEF Return, TypeInv, TypeOK, CacheKnown, Known, Past
  <2>5. CallShape(c)' /\ (begun[c] <= clock)' /\ Holds(c)'
    BY <1>13, <2>1, <2>2, <2>3 DEF Return, TypeInv, TypeOK, CallShape, Holds, Working
  <2>6. ASSUME NEW d \in Callers, d # c
        PROVE  CallShape(d)' /\ (begun[d] <= clock)' /\ Holds(d)'
    <3>1. job'[d] = job[d] /\ column'[d] = column[d] /\ res'[d] = res[d] /\ begun'[d] = begun[d]
      BY <1>13, <2>6 DEF Return, TypeInv, TypeOK
    <3>2. CallShape(d)'
      BY <2>1, <2>6, <3>1 DEF TypeInv, CallShape, Value
    <3>3. Holds(d)'
      BY <1>13, <2>1, <2>6, <3>1 DEF Return, TypeInv, Holds, Value, Usable, Past, Known
    <3> QED
      BY <1>13, <3>1, <3>2, <3>3 DEF Return, TypeInv
  <2> QED
    BY <2>4, <2>5, <2>6 DEF TypeInv
<1>14. ASSUME NewYear PROVE TypeInv'
  <2>1. clock \in Years /\ clock' \in Years /\ clock <= clock' /\ clock' = clock + 1
    BY <1>14, YearsAssumption DEF NewYear, TypeInv, TypeOK, Years
  <2>2. TypeOK'
    BY <1>14, <2>1 DEF NewYear, TypeInv, TypeOK
  <2>3. CacheKnown'
    BY <1>14, <2>1, KnownLater DEF NewYear, TypeInv, CacheKnown, Known
  <2>4. ASSUME NEW d \in Callers
        PROVE  CallShape(d)' /\ (begun[d] <= clock)' /\ Holds(d)'
    <3>1. CallShape(d)'
      BY <1>14 DEF NewYear, TypeInv, CallShape, Value
    <3>2. (begun[d] <= clock)'
      BY <1>14, <2>1 DEF NewYear, TypeInv, TypeOK, Years
    <3>3. Past \subseteq Past'
      BY <2>1, YearsAssumption DEF Past, Years
    <3>4. Holds(d)'
      BY <1>14, <3>3 DEF NewYear, TypeInv, Holds, Value, Usable, Known
    <3> QED
      BY <3>1, <3>2, <3>4
  <2> QED
    BY <2>2, <2>3, <2>4 DEF TypeInv
<1>15. CASE UNCHANGED vars
  BY <1>15 DEF vars, TypeInv, TypeOK, CacheKnown, CallShape, Holds, Value, Usable, Known, Past
<1> QED
  BY <1>1, <1>2, <1>3, <1>4, <1>5, <1>6, <1>7, <1>8, <1>9, <1>10, <1>11, <1>12,
     <1>13, <1>14, <1>15 DEF Next, Work

\* The variables of a shared Parser keep their types, and every layout in the
\* cache or in a caller's hands is one detection produced.
THEOREM TypeCorrect == Spec => []TypeOK
<1>1. Init => TypeInv
  BY TypeInit
<1>2. TypeInv /\ [Next]_vars => TypeInv'
  BY TypeStep
<1>3. TypeInv => TypeOK
  BY DEF TypeInv
<1> QED
  BY <1>1, <1>2, <1>3, PTL DEF Spec

-----------------------------------------------------------------------------
\* What a step does to the answers.

\* The answer to a value: a hole of a column, what a layout that needs no guess
\* reads in it, or its own detection.
AnswerTo(c, o) ==
    \/ column[c] /\ Value(c) = Empty /\ o = Skipped
    \/ /\ ~(column[c] /\ Value(c) = Empty)
       /\ Usable(seen[c]) /\ Known(seen[c]) /\ Reparse(seen[c], Value(c)).ok
       /\ o = Hit(seen[c], Value(c))
    \/ /\ ~(column[c] /\ Value(c) = Empty)
       /\ \E y \in Past : o = DetectAndParse(Value(c), y)

\* Row i was there before the step, or is the answer the step gives.
RowKept(c, i) ==
    /\ i \in 1..Len(res[c])
    /\ res'[c][i] = res[c][i]

RowAdded(c, i) ==
    /\ i = Len(res[c]) + 1 /\ Value(c) \in Inputs
    /\ clock' = clock
    /\ AnswerTo(c, res'[c][i])

RowOf(c, i) ==
    /\ job'[c] = job[c] /\ column'[c] = column[c] /\ begun'[c] = begun[c]
    /\ RowKept(c, i) \/ RowAdded(c, i)

\* One answer is one more row for its caller and none for another.
LEMMA AnswerRows ==
    ASSUME TypeInv, NEW c \in Callers, NEW from, NEW o \in Answers, Answer(c, from, o),
           Value(c) \in Inputs, AnswerTo(c, o),
           NEW d \in Callers, NEW i \in 1..Len(res'[d])
    PROVE  RowOf(d, i)
<1>1. clock' = clock /\ job' = job /\ column' = column /\ begun' = begun
  BY DEF Answer
<1>2. CASE d = c
  <2>1. Len(res[c]) \in Nat
    BY LenProperties DEF TypeInv, TypeOK
  <2>2. i \in 1..Len(res[c]) \/ i = Len(res[c]) + 1
    BY <1>2, <2>1, Answered DEF TypeInv
  <2> QED
    BY <1>1, <1>2, <2>2, Answered DEF TypeInv, RowOf, RowKept, RowAdded
<1>3. CASE d # c
  BY <1>1, <1>3, Answered DEF TypeInv, RowOf, RowKept
<1> QED
  BY <1>2, <1>3

\* A value that is being worked on is answered by a layout or by detection.
LEMMA WorkingAnswer ==
    ASSUME TypeInv, NEW c \in Callers, pc[c] \in Working
    PROVE  ~(column[c] /\ Value(c) = Empty)
BY DEF TypeInv, CallShape

LEMMA EveryRow ==
    ASSUME TypeInv, [Next]_vars, NEW d \in Callers, NEW i \in 1..Len(res'[d])
    PROVE  RowOf(d, i)
<1>1. ASSUME UNCHANGED <<job, column, res, begun>> PROVE RowOf(d, i)
  BY <1>1 DEF RowOf, RowKept
<1>2. ASSUME NEW c \in Callers, NEW values, NEW isColumn, Call(c, values, isColumn)
      PROVE  RowOf(d, i)
  <2>1. res' = res /\ res[c] = <<>> /\ Len(<<>>) = 0
    BY <1>2 DEF Call, Transition, TypeInv, CallShape
  <2>2. d # c
    BY <2>1
  <2>3. job'[d] = job[d] /\ column'[d] = column[d] /\ begun'[d] = begun[d]
    BY <1>2, <2>2 DEF Call, TypeInv, TypeOK
  <2> QED
    BY <2>1, <2>3 DEF RowOf, RowKept
<1>3. ASSUME NEW c \in Callers, Return(c) PROVE RowOf(d, i)
  <2>1. res'[c] = <<>> /\ Len(<<>>) = 0
    BY <1>3 DEF Return, TypeInv, TypeOK
  <2>2. d # c
    BY <2>1
  <2> QED
    BY <1>3, <2>2 DEF Return, TypeInv, TypeOK, RowOf, RowKept
<1>4. ASSUME NEW c \in Callers, SkipEmptyCell(c) PROVE RowOf(d, i)
  <2>1. Value(c) \in Inputs
    BY <1>4, ValueLeft DEF SkipEmptyCell
  <2>2. column[c] /\ Value(c) = Empty
    BY <1>4 DEF SkipEmptyCell, TypeInv, CallShape
  <2> QED
    BY <1>4, <2>1, <2>2, AnswerRows DEF SkipEmptyCell, AnswerTo, Answers, TypeInv
<1>5. ASSUME NEW c \in Callers, CacheHit(c) PROVE RowOf(d, i)
  <2>1. Value(c) \in Inputs /\ pc[c] \in Working
    BY <1>5, ValueLeft DEF CacheHit, Working
  <2>2. AnswerTo(c, Hit(seen[c], Value(c)))
    BY <1>5, <2>1, WorkingAnswer DEF CacheHit, AnswerTo, TypeInv, Holds
  <2>3. Hit(seen[c], Value(c)) \in Answers
    BY <1>5, <2>1, HitIsAnswer DEF CacheHit
  <2> QED
    BY <1>5, <2>1, <2>2, <2>3, AnswerRows DEF CacheHit
<1>6. ASSUME NEW c \in Callers, DetectFails(c) PROVE RowOf(d, i)
  <2>1. Value(c) \in Inputs /\ pc[c] \in Working
    BY <1>6, ValueLeft DEF DetectFails, Working
  <2>2. clock \in Past /\ clock \in Years
    BY YearsAssumption DEF Past, TypeInv, TypeOK, Years
  <2>3. AnswerTo(c, DetectAndParse(Value(c), clock))
    BY <2>1, <2>2, WorkingAnswer DEF AnswerTo
  <2>4. DetectAndParse(Value(c), clock) \in Answers
    BY <2>1, <2>2 DEF Answers, Detections
  <2> QED
    BY <1>6, <2>1, <2>3, <2>4, AnswerRows DEF DetectFails
<1>7. ASSUME NEW c \in Callers, Store(c) PROVE RowOf(d, i)
  <2>1. Value(c) \in Inputs /\ pc[c] \in Working
    BY <1>7, ValueLeft DEF Store, Working
  <2>2. PICK y \in Past : found[c] = DetectAndParse(Value(c), y)
    BY <1>7 DEF Store, TypeInv, Holds
  <2>3. y \in Years
    BY YearsAssumption DEF Past, TypeInv, TypeOK, Years
  <2>4. AnswerTo(c, found[c])
    BY <2>1, <2>2, WorkingAnswer DEF AnswerTo
  <2>5. found[c] \in Answers
    BY <2>1, <2>2, <2>3 DEF Answers, Detections
  <2> QED
    BY <1>7, <2>1, <2>4, <2>5, AnswerRows DEF Store
<1> QED
  BY <1>1, <1>2, <1>3, <1>4, <1>5, <1>6, <1>7
     DEF Next, Work, CallParse, CallColumn, StartRow, EndColumn, Load, CacheMiss,
         DetectSucceeds, Reset, NewYear, vars

\* A year once in the past stays in it.
LEMMA PastGrows ==
    ASSUME TypeInv, [Next]_vars
    PROVE  /\ \A y \in FirstYear..clock : y \in FirstYear..clock'
           /\ Past = FirstYear..clock /\ Past \subseteq Years
<1>1. clock \in Int /\ clock' \in Int /\ clock <= clock'
  BY TypeStep, YearsAssumption DEF TypeInv, TypeOK, Years, Next, vars, Work, NewYear,
     CallParse, CallColumn, Call, SkipEmptyCell, StartRow, EndColumn, Load, CacheHit,
     CacheMiss, DetectFails, DetectSucceeds, Store, Return, Reset, Answer
<1> QED
  BY <1>1, YearsAssumption DEF Past, TypeInv, TypeOK, Years

-----------------------------------------------------------------------------
\* A guess is never reused, for any detection and any layouts whatever: it
\* needs no hypothesis, because a prone layout never leaves the gate.
LEMMA OwnStep == TypeInv /\ GuessIsOwn /\ [Next]_vars => GuessIsOwn'
<1> SUFFICES ASSUME TypeInv, GuessIsOwn, [Next]_vars,
                    NEW c \in Callers, NEW i \in 1..Len(res'[c])
             PROVE  RowIsOwn(c, i)'
  BY DEF GuessIsOwn
<1>1. RowOf(c, i)
  BY EveryRow
<1>2. CASE RowKept(c, i)
  BY <1>1, <1>2, PastGrows DEF RowOf, RowKept, GuessIsOwn, RowIsOwn
<1>3. CASE RowAdded(c, i)
  <2>1. job'[c][i] = Value(c)
    BY <1>1, <1>3 DEF RowOf, RowAdded, Value
  <2>2. CASE res'[c][i] = Skipped
    BY <2>2 DEF RowIsOwn
  <2>3. CASE Usable(seen[c]) /\ res'[c][i] = Hit(seen[c], Value(c))
    BY <2>3 DEF RowIsOwn, Hit, Usable
  <2>4. ASSUME NEW y \in Past, res'[c][i] = DetectAndParse(Value(c), y)
        PROVE  RowIsOwn(c, i)'
    BY <2>1, <2>4, PastGrows DEF RowIsOwn
  <2> QED
    BY <1>3, <2>2, <2>3, <2>4 DEF RowAdded, AnswerTo
<1> QED
  BY <1>1, <1>2, <1>3 DEF RowOf

LEMMA NoRowsAtFirst == Init => \A c \in Callers : 1..Len(res[c]) = {}
<1> SUFFICES ASSUME Init, NEW c \in Callers PROVE 1..Len(res[c]) = {}
  OBVIOUS
<1>1. res[c] = <<>>
  BY DEF Init
<1>2. Len(<<>>) = 0 /\ 1..0 = {}
  BY EmptySeq
<1> QED
  BY <1>1, <1>2

\* A guess is never reused across rows (SECURITY.md): an answer that comes with
\* an ambiguity-prone layout is the detection of that very value.
THEOREM GuessIsOwnAlways == Spec => []GuessIsOwn
<1>1. Init => TypeInv /\ GuessIsOwn
  BY TypeInit, NoRowsAtFirst DEF GuessIsOwn
<1>2. TypeInv /\ GuessIsOwn /\ [Next]_vars => (TypeInv /\ GuessIsOwn)'
  BY TypeStep, OwnStep
<1> QED
  BY <1>1, <1>2, PTL DEF Spec

-----------------------------------------------------------------------------
\* What detection answers agrees with detection, and what a produced layout
\* that needs no guess reads agrees with it in the year it was produced.
LEMMA DetectionAgrees ==
    ASSUME NEW s, NEW y
    PROVE  Agrees(s, DetectAndParse(s, y), y)
BY DEF Agrees

LEMMA HitAgrees ==
    ASSUME ReuseSound, NEW y \in Years, NEW l \in Produced[y], NEW s \in Inputs,
           Usable(l), Reparse(l, s).ok
    PROVE  Agrees(s, Hit(l, s), y) /\ Hit(l, s).layout \in Produced[y]
BY DEF ReuseSound, Usable, Hit

LEMMA AgreeStep ==
    ASSUME ReuseSound
    PROVE  TypeInv /\ AnswersAgree /\ [Next]_vars => AnswersAgree'
<1> SUFFICES ASSUME TypeInv, AnswersAgree, [Next]_vars,
                    NEW c \in Callers, NEW i \in 1..Len(res'[c])
             PROVE  RowAgrees(c, i)'
  BY DEF AnswersAgree
<1>1. RowOf(c, i)
  BY EveryRow
<1>2. CASE RowKept(c, i)
  BY <1>1, <1>2, PastGrows DEF RowOf, RowKept, AnswersAgree, RowAgrees
<1>3. CASE RowAdded(c, i)
  <2>1. /\ job'[c][i] = Value(c) /\ column'[c] = column[c] /\ Value(c) \in Inputs
        /\ AnswerTo(c, res'[c][i])
    BY <1>1, <1>3 DEF RowOf, RowAdded, Value
  <2>2. CASE column[c] /\ Value(c) = Empty /\ res'[c][i] = Skipped
    BY <2>1, <2>2 DEF RowAgrees
  <2>3. ASSUME ~(column[c] /\ Value(c) = Empty), NEW y \in Past,
               res'[c][i].ok => res'[c][i].layout \in Produced[y],
               Agrees(Value(c), res'[c][i], y)
        PROVE  RowAgrees(c, i)'
    BY <2>1, <2>3, PastGrows DEF RowAgrees
  <2>4. ASSUME Usable(seen[c]), Known(seen[c]), Reparse(seen[c], Value(c)).ok
        PROVE  \E y \in Past : /\ Hit(seen[c], Value(c)).layout \in Produced[y]
                               /\ Agrees(Value(c), Hit(seen[c], Value(c)), y)
    BY <2>1, <2>4, HitAgrees, PastGrows DEF Known
  <2>5. ASSUME NEW y \in Past
        PROVE  LET o == DetectAndParse(Value(c), y)
               IN  (o.ok => o.layout \in Produced[y]) /\ Agrees(Value(c), o, y)
    BY <2>1, <2>5, DetectionAgrees, DetectionProduces, PastGrows
  <2> QED
    BY <2>1, <2>2, <2>3, <2>4, <2>5 DEF AnswerTo
<1> QED
  BY <1>1, <1>2, <1>3 DEF RowOf

\* Every answer of a shared Parser is the one detection would have given in a
\* year that produced the layout reported with it, provided that a layout that
\* needs no guess, alone, reads no value otherwise than detection does.
THEOREM AnswersAgreeAlways ==
    ASSUME ReuseSound
    PROVE  Spec => []AnswersAgree
<1>1. Init => TypeInv /\ AnswersAgree
  BY TypeInit, NoRowsAtFirst DEF AnswersAgree
<1>2. TypeInv /\ AnswersAgree /\ [Next]_vars => (TypeInv /\ AnswersAgree)'
  BY TypeStep, AgreeStep
<1> QED
  BY <1>1, <1>2, PTL DEF Spec

\* And with a base time given, which makes a year no part of any answer, it is
\* the answer of detection now: a cache cannot change the instant a value
\* parses to.
THEOREM AnswersCurrentWithBaseTime ==
    ASSUME ReuseSound, BaseTimeGiven
    PROVE  Spec => AnswersAreCurrent
<1> DEFINE Current ==
        \A c \in Callers : Len(res'[c]) > Len(res[c]) =>
            LET i == Len(res'[c])
            IN  \/ column[c] /\ job[c][i] = Empty
                \/ \E y \in begun[c]..clock : Agrees(job[c][i], res'[c][i], y)
<1>1. Init => TypeInv /\ AnswersAgree
  BY TypeInit, NoRowsAtFirst DEF AnswersAgree
<1>2. TypeInv /\ AnswersAgree /\ [Next]_vars => (TypeInv /\ AnswersAgree)'
  BY TypeStep, AgreeStep
<1>3. ASSUME TypeInv, AnswersAgree, [Next]_vars PROVE [Current]_vars
  <2> SUFFICES ASSUME NEW c \in Callers, NEW i, i = Len(res'[c]), i > Len(res[c]),
                      ~(column[c] /\ job[c][i] = Empty)
               PROVE  \E y \in begun[c]..clock : Agrees(job[c][i], res'[c][i], y)
    OBVIOUS
  <2>1. Len(res[c]) \in Nat /\ i \in Nat /\ i \in 1..Len(res'[c]) /\ i \notin 1..Len(res[c])
    BY <1>3, TypeStep, LenProperties DEF TypeInv, TypeOK
  <2>2. RowOf(c, i) /\ RowAdded(c, i)
    BY <1>3, <2>1, EveryRow DEF RowOf, RowKept
  <2>3. job'[c][i] = Value(c) /\ job'[c] = job[c] /\ column'[c] = column[c]
        /\ Value(c) \in Inputs
    BY <2>2 DEF RowOf, RowAdded, Value
  <2>4. RowAgrees(c, i)'
    BY <1>2, <1>3, <2>1 DEF AnswersAgree
  <2>5. PICK y \in FirstYear..clock' : Agrees(job[c][i], res'[c][i], y)
    BY <2>3, <2>4 DEF RowAgrees
  <2>6. y \in Years /\ begun[c] \in Years /\ begun[c] \in begun[c]..clock
    BY <1>3, <2>2, YearsAssumption DEF TypeInv, TypeOK, Years, RowAdded
  <2>7. Agrees(job[c][i], res'[c][i], begun[c])
    BY <2>3, <2>5, <2>6 DEF Agrees, BaseTimeGiven
  <2> QED
    BY <2>6, <2>7
<1> QED
  BY <1>1, <1>2, <1>3, PTL DEF Spec, AnswersAreCurrent

-----------------------------------------------------------------------------
\* What a caller sees of its answers.
Shown(rows) == [i \in DOMAIN rows |-> Visible(rows[i])]

Views == {Visible(o) : o \in Answers}

LEMMA ShownIsASequence ==
    ASSUME NEW rows \in Seq(Answers)
    PROVE  Shown(rows) \in Seq(Views) /\ Len(Shown(rows)) = Len(rows)
<1>1. Len(rows) \in Nat /\ DOMAIN rows = 1..Len(rows)
  BY LenProperties
<1>2. \A i \in 1..Len(rows) : rows[i] \in Answers
  BY ElementOfSeq
<1>3. Shown(rows) = [i \in 1..Len(rows) |-> Visible(rows[i])]
  BY <1>1 DEF Shown
<1>4. \A i \in 1..Len(rows) : Visible(rows[i]) \in Views
  BY <1>2 DEF Views
<1>5. Shown(rows) \in [1..Len(rows) -> Views]
  BY <1>3, <1>4
<1>6. Shown(rows) \in Seq(Views)
  BY <1>1, <1>5
<1> QED
  BY <1>1, <1>3, <1>6, LenProperties

LEMMA ShownAppend ==
    ASSUME NEW rows \in Seq(Answers), NEW o \in Answers
    PROVE  /\ Shown(Append(rows, o)) = Append(Shown(rows), Visible(o))
           /\ Shown(Append(rows, o))[Len(rows) + 1] = Visible(o)
<1>1. /\ Append(rows, o) \in Seq(Answers) /\ Len(Append(rows, o)) = Len(rows) + 1
      /\ \A i \in 1..Len(rows) : Append(rows, o)[i] = rows[i]
      /\ Append(rows, o)[Len(rows) + 1] = o
      /\ Len(rows) \in Nat
  BY AppendProperties, LenProperties
<1>2. /\ Shown(rows) \in Seq(Views) /\ Len(Shown(rows)) = Len(rows)
      /\ Shown(Append(rows, o)) \in Seq(Views) /\ Len(Shown(Append(rows, o))) = Len(rows) + 1
  BY <1>1, ShownIsASequence
<1>3. Visible(o) \in Views
  BY DEF Views
<1>4. /\ Append(Shown(rows), Visible(o)) \in Seq(Views)
      /\ Len(Append(Shown(rows), Visible(o))) = Len(rows) + 1
      /\ \A i \in 1..Len(rows) : Append(Shown(rows), Visible(o))[i] = Shown(rows)[i]
      /\ Append(Shown(rows), Visible(o))[Len(rows) + 1] = Visible(o)
  BY <1>2, <1>3, AppendProperties
<1>5. DOMAIN rows = 1..Len(rows) /\ DOMAIN Append(rows, o) = 1..(Len(rows) + 1)
  BY <1>1, LenProperties
<1>6. /\ \A i \in 1..Len(rows) : Shown(Append(rows, o))[i] = Shown(rows)[i]
      /\ Shown(Append(rows, o))[Len(rows) + 1] = Visible(o)
  BY <1>1, <1>5 DEF Shown
<1>7. \A i \in 1..(Len(rows) + 1) : i \in 1..Len(rows) \/ i = Len(rows) + 1
  BY <1>1
<1>8. Shown(Append(rows, o)) = Append(Shown(rows), Visible(o))
  BY <1>2, <1>4, <1>6, <1>7, SeqEqual
<1> QED
  BY <1>6, <1>8

-----------------------------------------------------------------------------
\* A call ends with its values: the part of the invariant that returning needs.

CallEnds(c) ==
    /\ pc[c] = "done" => AtRowEnd(c)
    /\ ~column[c] /\ pc[c] # "idle" => Len(job[c]) = 1

PromiseInv == TypeInv /\ \A c \in Callers : CallEnds(c)

\* An answer to the only value of a call, or to a value of a column.
LEMMA AnswerKeepsEnds ==
    ASSUME PromiseInv, NEW c \in Callers, NEW from, NEW o \in Answers, Answer(c, from, o),
           Len(res[c]) < Len(job[c]), pc[c] # "idle"
    PROVE  \A d \in Callers : CallEnds(d)'
<1>1. column' = column /\ job' = job /\ Len(res[c]) \in Nat /\ Len(job[c]) \in Nat
  BY LenProperties DEF Answer, PromiseInv, TypeInv, TypeOK
<1>2. Len(res'[c]) = Len(res[c]) + 1
  BY Answered DEF PromiseInv, TypeInv
<1>3. pc'[c] = (IF column[c] THEN "rows" ELSE "done") /\ \A d \in Callers : d # c => pc'[d] = pc[d] /\ res'[d] = res[d]
  BY DEF Answer, Transition, PromiseInv, TypeInv, TypeOK
<1>4. CallEnds(c)'
  <2>1. CASE column[c]
    BY <1>1, <1>3, <2>1 DEF CallEnds
  <2>2. CASE ~column[c]
    <3>1. Len(job[c]) = 1
      BY <2>2 DEF CallEnds, PromiseInv
    <3>2. Len(res'[c]) = 1 /\ Len(job'[c]) = 1
      BY <1>1, <1>2, <3>1
    <3> QED
      BY <3>2 DEF CallEnds, AtRowEnd
  <2> QED
    BY <2>1, <2>2
<1>5. ASSUME NEW d \in Callers, d # c PROVE CallEnds(d)'
  BY <1>1, <1>3, <1>5 DEF CallEnds, AtRowEnd, PromiseInv
<1> QED
  BY <1>4, <1>5

\* What a caller is about to store is an answer.
LEMMA OwnDetection ==
    ASSUME PromiseInv, NEW c \in Callers, pc[c] = "store", Value(c) \in Inputs
    PROVE  /\ found[c] \in Answers /\ found[c].ok
           /\ \E y \in Years : found[c] = DetectAndParse(Value(c), y)
<1>1. PICK y \in Past : found[c] = DetectAndParse(Value(c), y)
  BY DEF PromiseInv, TypeInv, Holds
<1>2. y \in Years
  BY YearsAssumption DEF Past, PromiseInv, TypeInv, TypeOK, Years
<1>3. found[c].ok
  BY DEF PromiseInv, TypeInv, Holds
<1> QED
  BY <1>1, <1>2, <1>3 DEF Answers, Detections

LEMMA PromiseInvInit == Init => PromiseInv
BY TypeInit DEF Init, PromiseInv, CallEnds

LEMMA PromiseInvStep == PromiseInv /\ [Next]_vars => PromiseInv'
<1> SUFFICES ASSUME PromiseInv, [Next]_vars PROVE \A d \in Callers : CallEnds(d)'
  BY TypeStep DEF PromiseInv
<1>1. ASSUME NEW c \in Callers, NEW values, NEW isColumn, Call(c, values, isColumn),
             ~isColumn => Len(values) = 1
      PROVE  \A d \in Callers : CallEnds(d)'
  <2>1. /\ pc'[c] # "done" /\ column'[c] = isColumn /\ job'[c] = values /\ res' = res
        /\ \A d \in Callers : d # c => pc'[d] = pc[d] /\ column'[d] = column[d] /\ job'[d] = job[d]
    BY <1>1 DEF Call, Transition, PromiseInv, TypeInv, TypeOK
  <2> QED
    BY <1>1, <2>1 DEF CallEnds, AtRowEnd, PromiseInv
<1>2. ASSUME NEW c \in Callers, CallParse(c) PROVE \A d \in Callers : CallEnds(d)'
  <2>1. PICK s \in Inputs : Call(c, <<s>>, FALSE)
    BY <1>2 DEF CallParse
  <2>2. Len(<<s>>) = 1
    OBVIOUS
  <2> QED
    BY <1>1, <2>1, <2>2
<1>3. ASSUME NEW c \in Callers, CallColumn(c) PROVE \A d \in Callers : CallEnds(d)'
  BY <1>1, <1>3 DEF CallColumn
<1>4. ASSUME NEW c \in Callers,
             StartRow(c) \/ EndColumn(c) \/ Load(c) \/ CacheMiss(c) \/ DetectSucceeds(c)
      PROVE  \A d \in Callers : CallEnds(d)'
  <2>1. /\ pc[c] # "idle" /\ (pc'[c] = "done" => AtRowEnd(c))
        /\ \A d \in Callers : d # c => pc'[d] = pc[d]
        /\ column' = column /\ job' = job /\ res' = res
    BY <1>4 DEF StartRow, EndColumn, Load, CacheMiss, DetectSucceeds, Transition,
                PromiseInv, TypeInv, TypeOK
  <2> QED
    BY <2>1 DEF CallEnds, AtRowEnd, PromiseInv
<1>5. ASSUME NEW c \in Callers, NEW o \in Answers, NEW from, Answer(c, from, o),
             pc[c] \in Working \/ (pc[c] = "rows" /\ ~AtRowEnd(c))
      PROVE  \A d \in Callers : CallEnds(d)'
  <2>1. Len(res[c]) < Len(job[c]) /\ pc[c] # "idle"
    BY <1>5, ValueLeft DEF PromiseInv, Working
  <2> QED
    BY <1>5, <2>1, AnswerKeepsEnds
<1>6. ASSUME NEW c \in Callers, SkipEmptyCell(c) PROVE \A d \in Callers : CallEnds(d)'
  <2>1. Skipped \in Answers
    BY DEF Answers
  <2> QED
    BY <1>5, <1>6, <2>1 DEF SkipEmptyCell
<1>7. ASSUME NEW c \in Callers, CacheHit(c) PROVE \A d \in Callers : CallEnds(d)'
  <2>1. pc[c] \in Working /\ Value(c) \in Inputs
    BY <1>7, ValueLeft DEF CacheHit, PromiseInv, Working
  <2>2. Hit(seen[c], Value(c)) \in Answers
    BY <1>7, <2>1, HitIsAnswer DEF CacheHit, PromiseInv
  <2> QED
    BY <1>5, <1>7, <2>1, <2>2 DEF CacheHit
<1>8. ASSUME NEW c \in Callers, DetectFails(c) PROVE \A d \in Callers : CallEnds(d)'
  <2>1. pc[c] \in Working /\ Value(c) \in Inputs
    BY <1>8, ValueLeft DEF DetectFails, PromiseInv, Working
  <2>2. DetectAndParse(Value(c), clock) \in Answers
    BY <2>1 DEF Answers, Detections, PromiseInv, TypeInv, TypeOK
  <2> QED
    BY <1>5, <1>8, <2>1, <2>2 DEF DetectFails
<1>9. ASSUME NEW c \in Callers, Store(c) PROVE \A d \in Callers : CallEnds(d)'
  <2>1. pc[c] \in Working /\ Value(c) \in Inputs
    BY <1>9, ValueLeft DEF Store, PromiseInv, Working
  <2>2. found[c] \in Answers
    BY <1>9, <2>1, OwnDetection DEF Store
  <2> QED
    BY <1>5, <1>9, <2>1, <2>2 DEF Store
<1>10. ASSUME NEW c \in Callers, Return(c) PROVE \A d \in Callers : CallEnds(d)'
  <2>1. /\ pc'[c] = "idle"
        /\ \A d \in Callers : d # c => /\ pc'[d] = pc[d] /\ column'[d] = column[d]
                                       /\ job'[d] = job[d] /\ res'[d] = res[d]
    BY <1>10 DEF Return, Transition, PromiseInv, TypeInv, TypeOK
  <2> QED
    BY <2>1 DEF CallEnds, AtRowEnd, PromiseInv
<1>11. ASSUME UNCHANGED <<pc, column, job, res>> PROVE \A d \in Callers : CallEnds(d)'
  BY <1>11 DEF CallEnds, AtRowEnd, PromiseInv
<1> QED
  BY <1>2, <1>3, <1>4, <1>6, <1>7, <1>8, <1>9, <1>10, <1>11
     DEF Next, Work, Reset, NewYear, vars

-----------------------------------------------------------------------------
\* The answers a step gives are those ParserPromise allows.

AnswersShown == [c \in Callers |-> Shown(res[c])]

\* An answer to a value that may have it is a step of ParserPromise.
LEMMA AnsweringIsPromised ==
    ASSUME PromiseInv, NEW c \in Callers, NEW from, NEW o \in Answers, Answer(c, from, o),
           Len(res[c]) < Len(job[c]), pc[c] # "idle",
           IF column[c] /\ Value(c) = Empty
           THEN Visible(o) = Skipped
           ELSE Promise!MayAnswer(Value(c), Visible(o), clock)
    PROVE  Promise!AnswerValue(c)
<1>1. /\ res[c] \in Seq(Answers) /\ res' = [res EXCEPT ![c] = Append(res[c], o)]
      /\ res \in [Callers -> Seq(Answers)]
  BY DEF PromiseInv, TypeInv, TypeOK, Answer
<1>2. /\ Len(Shown(res[c])) = Len(res[c]) /\ Len(res[c]) \in Nat
      /\ Shown(Append(res[c], o)) = Append(Shown(res[c]), Visible(o))
      /\ Shown(Append(res[c], o))[Len(res[c]) + 1] = Visible(o)
  BY <1>1, ShownIsASequence, ShownAppend, LenProperties
<1>3. /\ Append(res[c], o) \in Seq(Answers) /\ Len(Append(res[c], o)) = Len(res[c]) + 1
  BY <1>1, AppendProperties
<1>4. Len(Shown(Append(res[c], o))) = Len(res[c]) + 1
  BY <1>3, ShownIsASequence
<1>5. /\ AnswersShown[c] = Shown(res[c]) /\ AnswersShown'[c] = Shown(Append(res[c], o))
      /\ AnswersShown' = [AnswersShown EXCEPT ![c] = Append(@, Visible(o))]
  BY <1>1, <1>2 DEF AnswersShown, Shown
<1>6. [d \in Callers |-> pc'[d] # "idle"] = [d \in Callers |-> pc[d] # "idle"]
  BY DEF PromiseInv, TypeInv, TypeOK, Answer, Transition
<1>7. clock' = clock /\ column' = column /\ job' = job /\ begun' = begun
  BY DEF Answer
<1>8. clock \in begun[c]..clock
  BY YearsAssumption DEF PromiseInv, TypeInv, TypeOK, Years
<1> QED
  BY <1>2, <1>4, <1>5, <1>6, <1>7, <1>8
     DEF Promise!AnswerValue, Promise!EmptyCell, Skipped, AnswersShown, Shown, Value

\* Detection's answer is always promised, whichever year gave it, when no answer
\* depends on the year.
LEMMA DetectionIsPromised ==
    ASSUME BaseTimeGiven, clock \in Years, NEW s \in Inputs, NEW y \in Years
    PROVE  Promise!MayAnswer(s, Visible(DetectAndParse(s, y)), clock)
BY DEF BaseTimeGiven, Promise!MayAnswer, DetectionSeen

\* What a reusable layout reads is what detection says, or, where detection
\* refuses the value for no guess, what layouts may read.
LEMMA ReuseIsPromised ==
    ASSUME ReuseSound, BaseTimeGiven, clock \in Years, NEW s \in Inputs,
           NEW y \in Years, NEW l \in Produced[y], Usable(l), Reparse(l, s).ok
    PROVE  Promise!MayAnswer(s, Visible(Hit(l, s)), clock)
<1> DEFINE d == DetectAndParse(s, clock)
           h == Hit(l, s)
<1>1. Agrees(s, h, y) /\ d = DetectAndParse(s, y)
  BY HitAgrees DEF BaseTimeGiven
<1>2. h.ok /\ h # Skipped
  BY DEF Hit, Skipped
<1>3. d.ok \in BOOLEAN /\ d # Skipped
  BY LayoutAssumption
<1>4. CASE d.ok
  <2>1. h.time = d.time /\ h.ambiguous = d.ambiguous /\ h.kind = d.kind
    BY <1>1, <1>4 DEF Agrees
  <2>2. Visible(d) = [ok |-> TRUE, time |-> d.time, ambiguous |-> d.ambiguous, kind |-> d.kind]
    BY <1>3, <1>4 DEF Visible
  <2>3. Visible(h) = [ok |-> TRUE, time |-> h.time, ambiguous |-> h.ambiguous, kind |-> h.kind]
    BY <1>2 DEF Visible
  <2>4. Visible(h) = Visible(d)
    BY <2>1, <2>2, <2>3
  <2> QED
    BY <2>4 DEF Promise!MayAnswer, DetectionSeen
<1>5. CASE ~d.ok
  <2>1. d.cause # "ambiguous"
    BY <1>1, <1>2, <1>5 DEF Agrees
  <2>2. Visible(d) = d
    BY <1>3, <1>5 DEF Visible
  <2>3. l \in Detected /\ ~l.prone
    BY DEF Detected, Usable
  <2>4. Visible(h) \in ReadByLayouts(s)
    BY <2>3 DEF ReadByLayouts
  <2> QED
    BY <1>5, <2>1, <2>2, <2>4 DEF Promise!MayAnswer, DetectionSeen
<1> QED
  BY <1>3, <1>4, <1>5

-----------------------------------------------------------------------------
\* Every step of the Parser is a step of ParserPromise or changes nothing a
\* caller sees.

LEMMA PromiseStarts == Init => Promise!Init
<1> SUFFICES ASSUME Init PROVE Promise!Init
  OBVIOUS
<1>1. \A c \in Callers : res[c] = <<>> /\ pc[c] = "idle"
  BY DEF Init
<1>2. [c \in Callers |-> pc[c] # "idle"] = [c \in Callers |-> FALSE]
  BY <1>1
<1>3. [c \in Callers |-> [i \in DOMAIN res[c] |-> Visible(res[c][i])]] = [c \in Callers |-> <<>>]
  <2>1. ASSUME NEW c \in Callers PROVE [i \in DOMAIN res[c] |-> Visible(res[c][i])] = <<>>
    BY <1>1
  <2> QED
    BY <2>1
<1> QED
  BY <1>2, <1>3 DEF Init, Promise!Init

LEMMA CallIsPromised ==
    ASSUME PromiseInv, NEW c \in Callers, NEW values, NEW isColumn \in BOOLEAN,
           Call(c, values, isColumn),
           IF isColumn THEN values \in Columns ELSE \E s \in Inputs : values = <<s>>
    PROVE  Promise!Call(c)
<1>1. /\ pc[c] = "idle" /\ pc'[c] # "idle"
      /\ \A d \in Callers : d # c => pc'[d] = pc[d]
  BY DEF Call, Transition, PromiseInv, TypeInv, TypeOK
<1>2. [d \in Callers |-> pc'[d] # "idle"] = [[d \in Callers |-> pc[d] # "idle"] EXCEPT ![c] = TRUE]
  BY <1>1
<1>3. /\ column'[c] = isColumn /\ column' = [column EXCEPT ![c] = isColumn]
      /\ job'[c] = values /\ job' = [job EXCEPT ![c] = values]
      /\ begun' = [begun EXCEPT ![c] = clock] /\ clock' = clock /\ res' = res
  BY DEF Call, PromiseInv, TypeInv, TypeOK
<1> QED
  BY <1>1, <1>2, <1>3 DEF Promise!Call

\* What a caller cannot see.
LEMMA MovingIsUnseen ==
    ASSUME UNCHANGED <<clock, column, job, res, begun>>,
           \A c \in Callers : (pc'[c] # "idle") <=> (pc[c] # "idle")
    PROVE  UNCHANGED Promise!vars
<1>1. [c \in Callers |-> pc'[c] # "idle"] = [c \in Callers |-> pc[c] # "idle"]
  OBVIOUS
<1> QED
  BY <1>1 DEF Promise!vars

LEMMA ReturnIsPromised ==
    ASSUME PromiseInv, NEW c \in Callers, Return(c)
    PROVE  Promise!Return(c)
<1>1. /\ pc[c] = "done" /\ pc'[c] = "idle"
      /\ \A d \in Callers : d # c => pc'[d] = pc[d]
  BY DEF Return, Transition, PromiseInv, TypeInv, TypeOK
<1>2. [d \in Callers |-> pc'[d] # "idle"] = [[d \in Callers |-> pc[d] # "idle"] EXCEPT ![c] = FALSE]
  BY <1>1
<1>3. res[c] \in Seq(Answers) /\ Len(Shown(res[c])) = Len(job[c])
  <2>1. res[c] \in Seq(Answers) /\ AtRowEnd(c)
    BY <1>1 DEF PromiseInv, CallEnds, TypeInv, TypeOK
  <2> QED
    BY <2>1, ShownIsASequence DEF AtRowEnd
<1>4. AnswersShown[c] = Shown(res[c]) /\ AnswersShown' = [AnswersShown EXCEPT ![c] = <<>>]
  <2>1. Shown(<<>>) = <<>>
    BY DEF Shown
  <2> QED
    BY <2>1 DEF AnswersShown, Shown, Return, PromiseInv, TypeInv, TypeOK
<1> QED
  BY <1>1, <1>2, <1>3, <1>4 DEF Return, Promise!Return, AnswersShown, Shown

LEMMA PromiseStep ==
    ASSUME ReuseSound, BaseTimeGiven
    PROVE  PromiseInv /\ [Next]_vars => [Promise!Next]_(Promise!vars)
<1> SUFFICES ASSUME PromiseInv, [Next]_vars
             PROVE  Promise!Next \/ UNCHANGED Promise!vars
  OBVIOUS
<1>0. clock \in Years
  BY DEF PromiseInv, TypeInv, TypeOK
<1>1. ASSUME NEW c \in Callers, CallParse(c) PROVE Promise!Call(c)
  <2>1. PICK s \in Inputs : Call(c, <<s>>, FALSE)
    BY <1>1 DEF CallParse
  <2> QED
    BY <2>1, CallIsPromised
<1>2. ASSUME NEW c \in Callers, CallColumn(c) PROVE Promise!Call(c)
  BY <1>2, CallIsPromised DEF CallColumn
<1>3. ASSUME NEW c \in Callers, SkipEmptyCell(c) PROVE Promise!AnswerValue(c)
  <2>1. Len(res[c]) < Len(job[c]) /\ pc[c] # "idle"
    BY <1>3, ValueLeft DEF SkipEmptyCell, PromiseInv
  <2>2. Skipped \in Answers /\ Visible(Skipped) = Skipped
    BY DEF Answers, Visible
  <2>3. column[c] /\ Value(c) = Empty
    BY <1>3 DEF SkipEmptyCell, PromiseInv, TypeInv, CallShape
  <2> QED
    BY <1>3, <2>1, <2>2, <2>3, AnsweringIsPromised DEF SkipEmptyCell
<1>4. ASSUME NEW c \in Callers, pc[c] \in Working, NEW from, NEW o \in Answers,
             Answer(c, from, o), Promise!MayAnswer(Value(c), Visible(o), clock)
      PROVE  Promise!AnswerValue(c)
  <2>1. Len(res[c]) < Len(job[c]) /\ pc[c] # "idle"
    BY <1>4, ValueLeft DEF PromiseInv, Working
  <2>2. ~(column[c] /\ Value(c) = Empty)
    BY <1>4 DEF PromiseInv, TypeInv, CallShape
  <2> QED
    BY <1>4, <2>1, <2>2, AnsweringIsPromised
<1>5. ASSUME NEW c \in Callers, CacheHit(c) PROVE Promise!AnswerValue(c)
  <2>1. pc[c] \in Working /\ Value(c) \in Inputs
    BY <1>5, ValueLeft DEF CacheHit, PromiseInv, Working
  <2>2. Hit(seen[c], Value(c)) \in Answers
    BY <1>5, <2>1, HitIsAnswer DEF CacheHit, PromiseInv
  <2>3. PICK y \in Past : seen[c] \in Produced[y] /\ Usable(seen[c])
    BY <1>5 DEF CacheHit, PromiseInv, TypeInv, Holds, Known
  <2>4. y \in Years
    BY <1>0, YearsAssumption DEF Past, Years
  <2>5. Promise!MayAnswer(Value(c), Visible(Hit(seen[c], Value(c))), clock)
    BY <1>0, <1>5, <2>1, <2>3, <2>4, ReuseIsPromised DEF CacheHit
  <2> QED
    BY <1>4, <1>5, <2>1, <2>2, <2>5 DEF CacheHit
<1>6. ASSUME NEW c \in Callers, DetectFails(c) PROVE Promise!AnswerValue(c)
  <2>1. pc[c] \in Working /\ Value(c) \in Inputs
    BY <1>6, ValueLeft DEF DetectFails, PromiseInv, Working
  <2>2. DetectAndParse(Value(c), clock) \in Answers
    BY <1>0, <2>1 DEF Answers, Detections
  <2>3. Promise!MayAnswer(Value(c), Visible(DetectAndParse(Value(c), clock)), clock)
    BY <1>0, <2>1, DetectionIsPromised
  <2> QED
    BY <1>4, <1>6, <2>1, <2>2, <2>3 DEF DetectFails
<1>7. ASSUME NEW c \in Callers, Store(c) PROVE Promise!AnswerValue(c)
  <2>1. pc[c] \in Working /\ Value(c) \in Inputs /\ pc[c] = "store"
    BY <1>7, ValueLeft DEF Store, PromiseInv, Working
  <2>2. found[c] \in Answers
    BY <2>1, OwnDetection
  <2>3. PICK y \in Years : found[c] = DetectAndParse(Value(c), y)
    BY <2>1, OwnDetection
  <2>4. Promise!MayAnswer(Value(c), Visible(found[c]), clock)
    BY <1>0, <2>1, <2>3, DetectionIsPromised
  <2> QED
    BY <1>4, <1>7, <2>1, <2>2, <2>4 DEF Store
<1>8. ASSUME NEW c \in Callers, Return(c) PROVE Promise!Return(c)
  BY <1>8, ReturnIsPromised
<1>9. ASSUME NEW c \in Callers,
             StartRow(c) \/ EndColumn(c) \/ Load(c) \/ CacheMiss(c) \/ DetectSucceeds(c)
      PROVE  UNCHANGED Promise!vars
  <2>1. \A d \in Callers : (pc'[d] # "idle") <=> (pc[d] # "idle")
    BY <1>9 DEF StartRow, EndColumn, Load, CacheMiss, DetectSucceeds, Transition,
                PromiseInv, TypeInv, TypeOK
  <2> QED
    BY <1>9, <2>1, MovingIsUnseen DEF StartRow, EndColumn, Load, CacheMiss, DetectSucceeds
<1>10. ASSUME NEW c \in Callers, Reset(c) PROVE UNCHANGED Promise!vars
  BY <1>10, MovingIsUnseen DEF Reset
<1>11. NewYear => Promise!NewYear
  BY DEF NewYear, Promise!NewYear
<1>12. UNCHANGED vars => UNCHANGED Promise!vars
  BY MovingIsUnseen DEF vars
<1> QED
  BY <1>1, <1>2, <1>3, <1>5, <1>6, <1>7, <1>8, <1>9, <1>10, <1>11, <1>12
     DEF Next, Work, Promise!Next

\* A shared, caching Parser is a Parser without a cache (ParserPromise): with a
\* base time given, and layouts that need no guess reading no value otherwise
\* than detection does, every value is answered in order and from itself alone.
THEOREM CachingKeepsPromise ==
    ASSUME ReuseSound, BaseTimeGiven
    PROVE  Spec => KeepsPromise
<1>1. Init => PromiseInv /\ Promise!Init
  BY PromiseInvInit, PromiseStarts
<1>2. PromiseInv /\ [Next]_vars => PromiseInv'
  BY PromiseInvStep
<1>3. PromiseInv /\ [Next]_vars => [Promise!Next]_(Promise!vars)
  BY PromiseStep
<1> QED
  BY <1>1, <1>2, <1>3, PTL DEF Spec, KeepsPromise, Promise!Spec


-----------------------------------------------------------------------------
\* FlexTimes: the inductive invariant, in parts.

\* One value for every goroutine.
FlexFunctions ==
    /\ value = [c \in Callers |-> value[c]]
    /\ source = [c \in Callers |-> source[c]]
    /\ decoded = [c \in Callers |-> decoded[c]]

\* A goroutine inside the Parser parses its source's text and nothing else.
ParsesItsSource(c) ==
    /\ ~column[c] /\ pc[c] # "rows"
    /\ pc[c] # "idle" => /\ source[c].kind = "text" /\ ~IsNull(source[c])
                         /\ job[c] = <<source[c].v>>
    /\ pc[c] = "done" => Len(res[c]) = 1

\* What the Parser has answered is what the text reads as.
AnswersHoldText(c) ==
    \A i \in 1..Len(res[c]) :
        res[c][i].ok => HoldsText(FlexTime(res[c][i].time, TRUE, res[c][i].ambiguous), job[c][i])

\* One goroutine's part of ValueIsItsSource.
IsVoid(s) == s = NoSource \/ IsNull(s)

HoldsItsSource(c) ==
    LET s == decoded[c]
    IN  /\ IsVoid(s) \/ s.kind \in {"time", "int", "float", "text"}
        /\ IsVoid(s) => value[c] = Invalid
        /\ ~IsVoid(s) /\ s.kind = "time" => value[c] = FlexTime(s.v, TRUE, FALSE)
        /\ ~IsVoid(s) /\ s.kind \in {"int", "float"} =>
               value[c] = FlexTime(NumberRead(s).at, TRUE, FALSE)
        /\ ~IsVoid(s) /\ s.kind = "text" => HoldsText(value[c], s.v)

FlexInv ==
    /\ TypeInv /\ FlexFunctions
    /\ \A c \in Callers : ParsesItsSource(c) /\ AnswersHoldText(c) /\ HoldsItsSource(c)

-----------------------------------------------------------------------------
\* What a FlexTime does to the Parser, the Parser's callers may do.
LEMMA DecodingIsParsing == [FlexNext]_flexVars => [Next]_vars
<1> SUFFICES ASSUME [FlexNext]_flexVars PROVE [Next]_vars
  OBVIOUS
<1>1. ASSUME NEW c \in Callers, NEW s \in Sources, Decode(c, s) PROVE [Next]_vars
  <2>1. CASE DecodeText(c, s)
    <3>1. s.v \in Inputs /\ Call(c, <<s.v>>, FALSE)
      BY <2>1, SourcesAssumption DEF DecodeText, IsRead
    <3> QED
      BY <3>1 DEF CallParse, Next
  <2>2. CASE DecodeNull(c, s) \/ DecodeTime(c, s) \/ DecodeNumber(c, s)
    BY <2>2 DEF DecodeNull, DecodeTime, DecodeNumber, Took
  <2>3. CASE DecodeFails(c, s)
    BY <2>3 DEF DecodeFails, flexVars
  <2> QED
    BY <1>1, <2>1, <2>2, <2>3 DEF Decode
<1>2. ASSUME NEW c \in Callers, Parsing(c) PROVE Next
  BY <1>2 DEF Parsing, Work, Next
<1>3. ASSUME NEW c \in Callers, Finish(c) PROVE Next
  BY <1>3 DEF Finish, Work, Next
<1>4. CASE UNCHANGED flexVars
  BY <1>4 DEF flexVars
<1> QED
  BY <1>1, <1>2, <1>3, <1>4 DEF FlexNext, Next

\* What a text may be read as it may still be read as a year later.
LEMMA TextHoldsLater ==
    ASSUME TypeInv, [Next]_vars, NEW f, NEW s, HoldsText(f, s)
    PROVE  HoldsText(f, s)'
BY PastGrows DEF HoldsText

\* An answer of the Parser to a value is one the value may be read as.
LEMMA AnswerHoldsText ==
    ASSUME ReuseSound, TypeInv, NEW c \in Callers, ~column[c], Value(c) \in Inputs,
           NEW o, AnswerTo(c, o), o.ok
    PROVE  HoldsText(FlexTime(o.time, TRUE, o.ambiguous), Value(c))
<1>1. Past = FirstYear..clock /\ Past \subseteq Years
  BY YearsAssumption DEF Past, TypeInv, TypeOK, Years
<1>2. ASSUME Usable(seen[c]), Known(seen[c]), Reparse(seen[c], Value(c)).ok,
             o = Hit(seen[c], Value(c))
      PROVE  HoldsText(FlexTime(o.time, TRUE, o.ambiguous), Value(c))
  <2>1. PICK y \in Past : seen[c] \in Produced[y]
    BY <1>2 DEF Known
  <2>2. Agrees(Value(c), o, y)
    BY <1>1, <1>2, <2>1, HitAgrees
  <2>3. o.time = Reparse(seen[c], Value(c)).time /\ o.ambiguous = (seen[c].ambig # "none")
    BY <1>2 DEF Hit
  <2>4. ~seen[c].prone
    BY <1>2 DEF Usable
  <2> QED
    BY <1>1, <1>2, <2>1, <2>2, <2>3, <2>4 DEF HoldsText, Agrees
<1>3. ASSUME NEW y \in Past, o = DetectAndParse(Value(c), y)
      PROVE  HoldsText(FlexTime(o.time, TRUE, o.ambiguous), Value(c))
  BY <1>1, <1>3 DEF HoldsText
<1> QED
  BY <1>2, <1>3 DEF AnswerTo

LEMMA AnswersStep ==
    ASSUME ReuseSound, FlexInv, [Next]_vars, NEW c \in Callers
    PROVE  AnswersHoldText(c)'
<1> SUFFICES ASSUME NEW i \in 1..Len(res'[c]), res'[c][i].ok
             PROVE  HoldsText(FlexTime(res[c][i].time, TRUE, res[c][i].ambiguous), job[c][i])'
  BY DEF AnswersHoldText
<1>1. RowOf(c, i)
  BY EveryRow DEF FlexInv
<1>2. HoldsText(FlexTime(res'[c][i].time, TRUE, res'[c][i].ambiguous), job[c][i])
  <2>1. CASE RowKept(c, i)
    BY <2>1 DEF RowKept, FlexInv, AnswersHoldText
  <2>2. CASE RowAdded(c, i)
    <3>1. job[c][i] = Value(c)
      BY <2>2 DEF RowAdded, Value
    <3> QED
      BY <2>2, <3>1, AnswerHoldsText DEF RowAdded, FlexInv, ParsesItsSource
  <2> QED
    BY <1>1, <2>1, <2>2 DEF RowOf
<1>3. job'[c] = job[c]
  BY <1>1 DEF RowOf
<1> QED
  BY <1>2, <1>3, TextHoldsLater DEF FlexInv

-----------------------------------------------------------------------------
\* A goroutine that a step leaves alone.

LEMMA StillParses ==
    ASSUME NEW c \in Callers, ParsesItsSource(c), entry' = entry,
           pc'[c] = pc[c], column'[c] = column[c], job'[c] = job[c], res'[c] = res[c],
           source'[c] = source[c]
    PROVE  ParsesItsSource(c)'
BY DEF ParsesItsSource, IsNull

LEMMA StillHolds ==
    ASSUME FlexInv, [Next]_vars, NEW c \in Callers, entry' = entry,
           value'[c] = value[c], decoded'[c] = decoded[c]
    PROVE  HoldsItsSource(c)'
<1>1. /\ IsVoid(decoded[c])' <=> IsVoid(decoded[c])
      /\ NumberRead(decoded[c])' = NumberRead(decoded[c])
  BY DEF IsVoid, IsNull, NumberRead
<1>2. ASSUME HoldsText(value[c], decoded[c].v) PROVE HoldsText(value[c], decoded[c].v)'
  BY <1>2, TextHoldsLater DEF FlexInv
<1> QED
  BY <1>1, <1>2 DEF FlexInv, HoldsItsSource

\* What a decoder that does not need the Parser leaves.
LEMMA TookKeeps ==
    ASSUME FlexInv, [Next]_vars, NEW c \in Callers, NEW s \in Sources, Took(c, s),
           NEW f, value' = [value EXCEPT ![c] = f],
           \/ IsNull(s) /\ f = Invalid
           \/ ~IsNull(s) /\ s.kind = "time" /\ f = FlexTime(s.v, TRUE, FALSE)
           \/ ~IsNull(s) /\ s.kind \in {"int", "float"} /\ f = FlexTime(NumberRead(s).at, TRUE, FALSE)
    PROVE  FlexFunctions' /\ \A d \in Callers : ParsesItsSource(d)' /\ HoldsItsSource(d)'
<1>1. /\ value'[c] = f /\ decoded'[c] = s /\ entry' = entry
      /\ \A d \in Callers : d # c => value'[d] = value[d] /\ decoded'[d] = decoded[d]
  BY DEF FlexInv, FlexFunctions, Took
<1>2. FlexFunctions'
  BY DEF FlexInv, FlexFunctions, Took
<1>3. ASSUME NEW d \in Callers PROVE ParsesItsSource(d)'
  BY StillParses DEF FlexInv, Took, vars
<1>4. HoldsItsSource(c)'
  <2>1. (IsVoid(s)' <=> IsVoid(s)) /\ NumberRead(s)' = NumberRead(s)
    BY <1>1 DEF IsVoid, IsNull, NumberRead
  <2>2. CASE IsNull(s)
    <3>1. IsVoid(s)
      BY <2>2 DEF IsVoid
    <3>2. f = Invalid
      BY <2>2
    <3> QED
      BY <1>1, <2>1, <3>1, <3>2 DEF HoldsItsSource, Invalid
  <2>3. CASE ~IsNull(s)
    <3>1. s.kind \in {"time", "int", "float"}
      BY <2>3
    <3>2. s # NoSource
      <4>1. NoSource.kind = "none"
        BY DEF NoSource, Source
      <4> QED
        BY <3>1, <4>1
    <3> QED
      BY <1>1, <2>1, <2>3, <3>1, <3>2 DEF HoldsItsSource, IsVoid
  <2> QED
    BY <2>2, <2>3
<1>5. ASSUME NEW d \in Callers, d # c PROVE HoldsItsSource(d)'
  BY <1>1, <1>5, StillHolds
<1> QED
  BY <1>2, <1>3, <1>4, <1>5

\* The Parser's answer to a text is the only one: a step that answers ends it.
LEMMA AnsweringEnds ==
    ASSUME FlexInv, NEW c \in Callers, NEW from, NEW o \in Answers, Answer(c, from, o),
           pc[c] \in Working
    PROVE  pc'[c] = "done" /\ Len(res'[c]) = 1
<1>1. Len(res[c]) < Len(job[c]) /\ Len(res[c]) \in Nat
  BY ValueLeft, LenProperties DEF FlexInv, TypeInv, TypeOK
<1>2. Len(job[c]) = 1
  <2>1. job[c] = <<source[c].v>>
    BY DEF FlexInv, ParsesItsSource, Working
  <2> QED
    BY <2>1
<1>3. Len(res'[c]) = Len(res[c]) + 1
  BY Answered DEF FlexInv, TypeInv
<1>4. pc'[c] = "done"
  BY DEF Answer, Transition, FlexInv, ParsesItsSource, TypeInv, TypeOK
<1> QED
  BY <1>1, <1>2, <1>3, <1>4

LEMMA ParsingKeeps ==
    ASSUME FlexInv, NEW c \in Callers, Parsing(c), UNCHANGED cells
    PROVE  \A d \in Callers : ParsesItsSource(d)'
<1>1. pc[c] \in Working /\ pc[c] # "idle"
  BY DEF Parsing, Load, CacheHit, CacheMiss, DetectFails, DetectSucceeds, Store, Transition,
         Working
<1>2. column' = column /\ job' = job /\ Value(c) \in Inputs
  <2>1. Value(c) \in Inputs
    BY <1>1, ValueLeft DEF FlexInv
  <2> QED
    BY <2>1 DEF Parsing, Load, CacheHit, CacheMiss, DetectFails, DetectSucceeds, Store, Answer
<1>3. \A d \in Callers : d # c => pc'[d] = pc[d] /\ res'[d] = res[d]
  BY DEF Parsing, Load, CacheHit, CacheMiss, DetectFails, DetectSucceeds, Store, Transition,
         Answer, FlexInv, TypeInv, TypeOK
<1>4. pc'[c] # "rows" /\ pc'[c] # "idle" /\ (pc'[c] = "done" => Len(res'[c]) = 1)
  <2>1. CASE Load(c) \/ CacheMiss(c) \/ DetectSucceeds(c)
    BY <2>1 DEF Load, CacheMiss, DetectSucceeds, Transition, FlexInv, TypeInv, TypeOK
  <2>2. CASE CacheHit(c)
    <3>1. Hit(seen[c], Value(c)) \in Answers
      BY <1>2, <2>2, HitIsAnswer DEF CacheHit, FlexInv
    <3> QED
      BY <1>1, <2>2, <3>1, AnsweringEnds DEF CacheHit
  <2>3. CASE DetectFails(c)
    <3>1. DetectAndParse(Value(c), clock) \in Answers
      BY <1>2 DEF Answers, Detections, FlexInv, TypeInv, TypeOK
    <3> QED
      BY <1>1, <2>3, <3>1, AnsweringEnds DEF DetectFails
  <2>4. CASE Store(c)
    <3>1. PICK y \in Past : found[c] = DetectAndParse(Value(c), y)
      BY <2>4 DEF Store, FlexInv, TypeInv, Holds
    <3>2. y \in Years
      BY YearsAssumption DEF Past, FlexInv, TypeInv, TypeOK, Years
    <3>3. found[c] \in Answers
      BY <1>2, <3>1, <3>2 DEF Answers, Detections
    <3> QED
      BY <1>1, <2>4, <3>3, AnsweringEnds DEF Store
  <2> QED
    BY <2>1, <2>2, <2>3, <2>4 DEF Parsing
<1>5. ParsesItsSource(c)'
  BY <1>1, <1>2, <1>4 DEF FlexInv, ParsesItsSource, cells, IsNull
<1>6. ASSUME NEW d \in Callers, d # c PROVE ParsesItsSource(d)'
  BY <1>2, <1>3, <1>6, StillParses DEF FlexInv, cells
<1> QED
  BY <1>5, <1>6

-----------------------------------------------------------------------------
LEMMA FlexStart == FlexInit => FlexInv
<1> SUFFICES ASSUME FlexInit PROVE FlexInv
  OBVIOUS
<1>1. TypeInv
  BY TypeInit DEF FlexInit
<1>2. FlexFunctions
  BY DEF FlexInit, FlexFunctions
<1>3. ASSUME NEW c \in Callers
      PROVE  ParsesItsSource(c) /\ AnswersHoldText(c) /\ HoldsItsSource(c)
  <2>1. pc[c] = "idle" /\ column[c] = FALSE /\ 1..Len(res[c]) = {}
    BY NoRowsAtFirst DEF FlexInit, Init
  <2>2. value[c] = Invalid /\ decoded[c] = NoSource
    BY DEF FlexInit
  <2> QED
    BY <2>1, <2>2 DEF ParsesItsSource, AnswersHoldText, HoldsItsSource, IsVoid
<1> QED
  BY <1>1, <1>2, <1>3 DEF FlexInv

\* One step per action.
LEMMA FlexStep ==
    ASSUME ReuseSound
    PROVE  FlexInv /\ [FlexNext]_flexVars => FlexInv'
<1> SUFFICES ASSUME FlexInv, [FlexNext]_flexVars PROVE FlexInv'
  OBVIOUS
<1>1. [Next]_vars
  BY DecodingIsParsing
<1>2. TypeInv' /\ \A c \in Callers : AnswersHoldText(c)'
  BY <1>1, TypeStep, AnswersStep DEF FlexInv
<1> SUFFICES FlexFunctions' /\ \A d \in Callers : ParsesItsSource(d)' /\ HoldsItsSource(d)'
  BY <1>2 DEF FlexInv
<1>3. ASSUME NEW c \in Callers, NEW s \in Sources, DecodeNull(c, s)
      PROVE  FlexFunctions' /\ \A d \in Callers : ParsesItsSource(d)' /\ HoldsItsSource(d)'
  BY <1>1, <1>3, TookKeeps DEF DecodeNull, Set, Invalid
<1>4. ASSUME NEW c \in Callers, NEW s \in Sources, DecodeTime(c, s)
      PROVE  FlexFunctions' /\ \A d \in Callers : ParsesItsSource(d)' /\ HoldsItsSource(d)'
  <2>1. ~IsNull(s)
    BY <1>4 DEF DecodeTime, IsNull, Text, Null, Source
  <2> QED
    BY <1>1, <1>4, <2>1, TookKeeps DEF DecodeTime, Set
<1>5. ASSUME NEW c \in Callers, NEW s \in Sources, DecodeNumber(c, s)
      PROVE  FlexFunctions' /\ \A d \in Callers : ParsesItsSource(d)' /\ HoldsItsSource(d)'
  <2>1. s.kind \in {"int", "float"}
    BY <1>5 DEF DecodeNumber, NumberRead, NoInstant
  <2>2. ~IsNull(s)
    BY <2>1 DEF IsNull, Text, Null, Source
  <2> QED
    BY <1>1, <1>5, <2>1, <2>2, TookKeeps DEF DecodeNumber, Set
<1>6. ASSUME NEW c \in Callers, NEW s \in Sources, DecodeText(c, s)
      PROVE  FlexFunctions' /\ \A d \in Callers : ParsesItsSource(d)' /\ HoldsItsSource(d)'
  <2>1. /\ pc'[c] = "load" /\ column'[c] = FALSE /\ job'[c] = <<s.v>> /\ source'[c] = s
        /\ \A d \in Callers : d # c => /\ pc'[d] = pc[d] /\ column'[d] = column[d]
                                       /\ job'[d] = job[d] /\ source'[d] = source[d]
        /\ res' = res /\ entry' = entry /\ value' = value /\ decoded' = decoded
    BY <1>6 DEF DecodeText, Call, Transition, FlexInv, FlexFunctions, TypeInv, TypeOK
  <2>2. FlexFunctions'
    BY <1>6, <2>1 DEF DecodeText, FlexInv, FlexFunctions
  <2>3. s.kind = "text" /\ ~IsNull(s)
    BY <1>6 DEF DecodeText, IsRead
  <2>4. ParsesItsSource(c)'
    BY <2>1, <2>3 DEF ParsesItsSource, IsNull
  <2>5. ASSUME NEW d \in Callers, d # c PROVE ParsesItsSource(d)'
    BY <2>1, <2>5, StillParses DEF FlexInv
  <2>6. ASSUME NEW d \in Callers PROVE HoldsItsSource(d)'
    BY <1>1, <2>1, StillHolds
  <2> QED
    BY <2>2, <2>4, <2>5, <2>6
<1>7. ASSUME NEW c \in Callers, Parsing(c), UNCHANGED cells
      PROVE  FlexFunctions' /\ \A d \in Callers : ParsesItsSource(d)' /\ HoldsItsSource(d)'
  BY <1>1, <1>7, ParsingKeeps, StillHolds DEF cells, FlexInv, FlexFunctions
<1>8. ASSUME NEW c \in Callers, Finish(c)
      PROVE  FlexFunctions' /\ \A d \in Callers : ParsesItsSource(d)' /\ HoldsItsSource(d)'
  <2> DEFINE o == res[c][1]
             s == source[c]
  <2>1. /\ pc[c] = "done" /\ pc'[c] = "idle" /\ column'[c] = FALSE /\ entry' = entry
        /\ \A d \in Callers : d # c => /\ pc'[d] = pc[d] /\ column'[d] = column[d]
                                       /\ job'[d] = job[d] /\ source'[d] = source[d]
                                       /\ res'[d] = res[d]
    BY <1>8 DEF Finish, Return, Transition, FlexInv, FlexFunctions, TypeInv, TypeOK
  <2>2. /\ o.ok => /\ value' = [value EXCEPT ![c] = FlexTime(o.time, TRUE, o.ambiguous)]
                   /\ decoded' = [decoded EXCEPT ![c] = s]
        /\ ~o.ok => value' = value /\ decoded' = decoded
    BY <1>8 DEF Finish, Set
  <2>3. FlexFunctions'
    BY <1>8, <2>2 DEF Finish, FlexInv, FlexFunctions
  <2>4. ASSUME NEW d \in Callers PROVE ParsesItsSource(d)'
    <3>1. CASE d = c
      BY <2>1, <3>1 DEF ParsesItsSource
    <3>2. CASE d # c
      BY <2>1, <3>2, StillParses DEF FlexInv
    <3> QED
      BY <3>1, <3>2
  <2>5. CASE ~o.ok
    BY <1>1, <2>1, <2>2, <2>3, <2>4, <2>5, StillHolds
  <2>6. CASE o.ok
    <3>1. ASSUME NEW d \in Callers, d # c PROVE HoldsItsSource(d)'
      BY <1>1, <2>1, <2>2, <2>6, <3>1, StillHolds DEF FlexInv, FlexFunctions
    <3>2. s.kind = "text" /\ ~IsNull(s) /\ job[c] = <<s.v>> /\ 1 \in 1..Len(res[c])
      BY <2>1 DEF FlexInv, ParsesItsSource
    <3>3. PICK f, t : f = FlexTime(o.time, TRUE, o.ambiguous) /\ t = s
      OBVIOUS
    <3>4. HoldsText(f, t.v)
      <4>1. HoldsText(FlexTime(o.time, TRUE, o.ambiguous), job[c][1])
        BY <2>6, <3>2 DEF FlexInv, AnswersHoldText
      <4>2. job[c][1] = t.v
        BY <3>2, <3>3
      <4> QED
        BY <3>3, <4>1, <4>2
    <3>5. HoldsText(f, t.v)'
      BY <1>1, <3>4, TextHoldsLater DEF FlexInv
    <3>6. value'[c] = f /\ decoded'[c] = t
      BY <2>2, <2>6, <3>3 DEF FlexInv, FlexFunctions
    <3>7. t.kind = "text" /\ ~IsVoid(t)'
      <4>1. t.kind = "text" /\ ~IsNull(t) /\ t # NoSource
        BY <3>2, <3>3 DEF NoSource, Source
      <4> QED
        BY <2>1, <4>1 DEF IsVoid, IsNull
    <3>8. HoldsItsSource(c)'
      BY <3>5, <3>6, <3>7 DEF HoldsItsSource
    <3> QED
      BY <2>3, <2>4, <3>1, <3>8
  <2> QED
    BY <2>5, <2>6
<1>9. CASE NewYear /\ UNCHANGED cells
  <2>1. FlexFunctions' /\ \A d \in Callers : ParsesItsSource(d)'
    BY <1>9, StillParses DEF NewYear, cells, FlexInv, FlexFunctions
  <2> QED
    BY <1>1, <1>9, <2>1, StillHolds DEF cells
<1>10. CASE UNCHANGED flexVars
  <2>1. FlexFunctions' /\ \A d \in Callers : ParsesItsSource(d)'
    BY <1>10, StillParses DEF flexVars, vars, FlexInv, FlexFunctions
  <2> QED
    BY <1>1, <1>10, <2>1, StillHolds DEF flexVars
<1>11. ASSUME NEW c \in Callers, NEW s \in Sources, DecodeFails(c, s) PROVE UNCHANGED flexVars
  BY <1>11 DEF DecodeFails
<1> QED
  BY <1>3, <1>4, <1>5, <1>6, <1>7, <1>8, <1>9, <1>10, <1>11 DEF FlexNext, Decode

LEMMA EachHoldsItsSource == FlexInv => ValueIsItsSource
<1> SUFFICES ASSUME FlexInv, NEW c \in Callers
             PROVE  LET s == decoded[c]
                    IN  CASE s = NoSource \/ IsNull(s) -> value[c] = Invalid
                          [] s.kind = "time" -> value[c] = FlexTime(s.v, TRUE, FALSE)
                          [] s.kind \in {"int", "float"} ->
                                 value[c] = FlexTime(NumberRead(s).at, TRUE, FALSE)
                          [] s.kind = "text" /\ ~IsNull(s) -> HoldsText(value[c], s.v)
  BY DEF ValueIsItsSource
<1> DEFINE s == decoded[c]
<1>1. HoldsItsSource(c)
  BY DEF FlexInv
<1>2. CASE IsVoid(s)
  <2>1. s.kind \notin {"time", "int", "float"} /\ ~(s.kind = "text" /\ ~IsNull(s))
    BY <1>2 DEF IsVoid, NoSource, IsNull, Null, Text, Source
  <2> QED
    BY <1>1, <1>2, <2>1 DEF HoldsItsSource, IsVoid
<1>3. CASE ~IsVoid(s)
  BY <1>1, <1>3 DEF HoldsItsSource, IsVoid
<1> QED
  BY <1>2, <1>3

\* Decoding rows is calling the Parser as its callers may, so what is proved of
\* a shared Parser holds of the package's (flextime.parser).
THEOREM FlexTimesShareAParser == FlexSpec => Init /\ [][Next]_vars
<1>1. FlexInit => Init
  BY DEF FlexInit
<1>2. [FlexNext]_flexVars => [Next]_vars
  BY DecodingIsParsing
<1> QED
  BY <1>1, <1>2, PTL DEF FlexSpec

\* A FlexTime is at every moment the last source that decoded, whichever rows
\* other goroutines are decoding through the same Parser, provided that a layout
\* that needs no guess reads no value otherwise than detection does.
THEOREM ValueIsItsSourceAlways ==
    ASSUME ReuseSound
    PROVE  FlexSpec => []ValueIsItsSource
<1>1. FlexInit => FlexInv
  BY FlexStart
<1>2. FlexInv /\ [FlexNext]_flexVars => FlexInv'
  BY FlexStep
<1>3. FlexInv => ValueIsItsSource
  BY EachHoldsItsSource
<1> QED
  BY <1>1, <1>2, <1>3, PTL DEF FlexSpec

=============================================================================
