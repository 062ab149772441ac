----------------------------- MODULE TextualDate -----------------------------
(***************************************************************************)
(* A date that names its month: which number is the day, which the year    *)
(* and which an hour, and whether that was a guess                         *)
(* (internal/detect/detect.go).                                            *)
(***************************************************************************)
EXTENDS Layouts, SequencesExt, TLC

NotTextual == [ok |-> FALSE]

Numbers(s) == SelectSeq([i \in DOMAIN s |-> i], LAMBDA i : s[i].t = "num")

NumbersIn(s, range) == Cardinality({i \in range : s[i].t = "num"})

HasFourDigitYear(s, range) == \E i \in range : s[i].t = "num" /\ s[i].w = 4

Follows(s, i, tok) == i + 1 \in DOMAIN s /\ s[i + 1] = tok

-----------------------------------------------------------------------------
\* The month an input names, in English or in one of the caller's locales.
MonthsNamed(s, locales) ==
    {i \in DOMAIN s : s[i].t = "month" /\ s[i].c \in {"en"} \cup locales}

\* Two different months: a weekday that is spelled like a month, perhaps, and
\* nothing says which of the two the date is in.
HasRivalMonthName(s, at) == \E i, j \in at : s[i].v # s[j].v

\* " at " between i and its time.
AtWord(s, i) == /\ i \in 2..(Len(s) - 1)
                /\ s[i] = Word("at", 2) /\ s[i - 1] = Byte(" ") /\ s[i + 1] = Byte(" ")

\* The part of the text after the month that counts as the date: up to " at ",
\* unless a year and another number stand before it.
BeforeAt(s, mi) ==
    LET after == (mi + 1)..Len(s)
        ats   == {i \in after : AtWord(s, i)}
        date  == (mi + 1)..(Min(ats) - 1)
    IN  IF ats = {} \/ (NumbersIn(s, date) > 1 /\ HasFourDigitYear(s, date))
        THEN after
        ELSE date

\* Some arrangement of numbers around the month names a day or a year.
NamesADate(s, mi) ==
    \/ NumbersIn(s, BeforeAt(s, mi)) >= 1
    \/ NumbersIn(s, 1..(mi - 1)) = 1

-----------------------------------------------------------------------------
\* Fields placed on tokens: a function from a token's index to its field.

Nowhere == <<>>

YearField(s, i) == i :> Field(IF s[i].w <= 2 THEN "Year2" ELSE "Year4", s[i])
DayField(s, i)  == i :> Field(IF s[i].w = 1 THEN "Day1or2" ELSE "Day2", s[i])

\* Every token no field reads is skipped.
CoverGaps(s, placed) ==
    [i \in DOMAIN s |-> IF i \in DOMAIN placed THEN placed[i] ELSE SkipRun(s[i])]

TwoDigits(s, i) == i \in DOMAIN s /\ s[i].t = "num" /\ s[i].w = 2

\* am or pm after the time, which makes its hour a twelve-hour one.
TimeSuffix(s, j, placed, hourAt) ==
    LET rest == {i \in DOMAIN s : i >= j /\ s[i] # Byte(" ")}
        k    == Min(rest)
    IN  IF rest # {} /\ s[k] \in {Word("am", 2), Word("pm", 2)}
        THEN (k :> Field("AMPM", s[k])) @@ (hourAt :> Field("Hour12", s[hourAt])) @@ placed
        ELSE placed

\* hh:mm or hh:mm:ss written from token h on.
HourMinute(s, h) == (h :> Field("Hour24", s[h])) @@ (h + 2 :> Field("Minute2", s[h + 2]))

ClockAt(s, h) ==
    CASE ~(TwoDigits(s, h) /\ Follows(s, h, Byte(":")) /\ TwoDigits(s, h + 2)) -> Nowhere
      [] Follows(s, h + 2, Byte(":")) /\ TwoDigits(s, h + 4) ->
             TimeSuffix(s, h + 5,
                        (h + 4 :> Field("Second2", s[h + 4])) @@ HourMinute(s, h), h)
      [] OTHER -> TimeSuffix(s, h + 3, HourMinute(s, h), h)

PastAt(s, i) == IF s[i] = Word("at", 2) /\ Follows(s, i, Byte(" ")) THEN i + 2 ELSE i

\* The time of day that starts at or after token from, past spaces, commas,
\* colons and an "at".
TimeComponent(s, from) ==
    LET stops == {i \in DOMAIN s : i >= from
                     /\ s[i] \notin {Byte(" "), Byte(","), Byte(":")}}
    IN  IF stops = {} THEN Nowhere ELSE ClockAt(s, PastAt(s, Min(stops)))

-----------------------------------------------------------------------------
IsYear4(tok) == tok.w = 4 /\ tok.v >= 1000

\* A four-digit number after the first that the time did not take.
TrailingYears(s, nums, time) ==
    {i \in Range(nums) : /\ i > nums[1] /\ s[i].v \in 1000..9999
                         /\ i \notin DOMAIN time}

\* One number: a year when it cannot be a day.
OneNumber(s, nums) ==
    (IF s[nums[1]].v > 31 THEN YearField(s, nums[1]) ELSE DayField(s, nums[1]))
        @@ TimeComponent(s, nums[1] + 1)

\* Two numbers: the first is the year when it cannot be a day, or when both
\* stand after the month, apart from it, and the second could be a day.
TwoNumbers(s, mi, nums) ==
    (IF s[nums[1]].v > 31 \/ (s[nums[2]].v <= 31 /\ nums[1] > mi + 1)
     THEN YearField(s, nums[1]) @@ DayField(s, nums[2])
     ELSE DayField(s, nums[1]) @@ YearField(s, nums[2]))
        @@ TimeComponent(s, nums[2] + 1)

\* Three or more, the second with a colon right after it: it is an hour, and
\* the year, if one is written, comes after the time.
HourSecond(s, nums, time) ==
    LET years == TrailingYears(s, nums, time)
    IN  IF s[nums[1]].v > 31
        THEN YearField(s, nums[1]) @@ time
        ELSE DayField(s, nums[1]) @@ time
             @@ (IF years = {} THEN Nowhere ELSE YearField(s, Min(years)))

\* Three or more otherwise: day and year first, then the time.
DateFirst(s, nums) ==
    (IF s[nums[2]].v <= 31 /\ s[nums[1]].v > 31
     THEN YearField(s, nums[1]) @@ DayField(s, nums[2])
     ELSE DayField(s, nums[1]) @@ YearField(s, nums[2]))
        @@ TimeComponent(s, nums[2] + 1)

IsTimeAtSecond(s, nums) == Follows(s, nums[2], Byte(":")) /\ ~IsYear4(s[nums[2]])

\* No reading: the number that must be an hour is not one.
HourImpossible(s, nums) ==
    Len(nums) >= 3 /\ IsTimeAtSecond(s, nums) /\ s[nums[2]].v > 23

NumberFields(s, mi, nums) ==
    CASE Len(nums) = 0 -> Nowhere
      [] Len(nums) = 1 -> OneNumber(s, nums)
      [] Len(nums) = 2 -> TwoNumbers(s, mi, nums)
      [] Len(nums) >= 3 -> IF IsTimeAtSecond(s, nums)
                           THEN HourSecond(s, nums, TimeComponent(s, nums[1] + 1))
                           ELSE DateFirst(s, nums)

TextualFields(s, mi) ==
    CoverGaps(s, (mi :> Field("MonthName", s[mi])) @@ NumberFields(s, mi, Numbers(s)))

-----------------------------------------------------------------------------
\* Mutant of TextualDayIsAGuess: the shape is judged by this value alone.
TextualDayIsAGuessHere(s, fields) ==
    LET days  == {i \in Reads(fields, DayKinds) : ~Follows(s, i, Word("ord", 2))}
        years == Reads(fields, YearKinds)
        guess == /\ \A i \in years : fields[i].kind # "Year4"
                 /\ \E i \in days : fields[i].kind = "Day2" /\ fields[i].w = 2
                 /\ \A i \in years : fields[i].w \in 1..2 /\ s[i].v <= 31
    IN  [prone |-> guess, guess |-> guess]

\* Was the day a guess?  prone is a property of the shape: some value in this
\* shape would have been one.  guess is a property of this value.

TextualDayIsAGuess(s, fields) ==
    LET days  == {i \in Reads(fields, DayKinds) : ~Follows(s, i, Word("ord", 2))}
        years == Reads(fields, YearKinds)
        prone == /\ \A i \in years : fields[i].kind # "Year4"
                 /\ days # {} \/ years # {}
        guess == /\ prone
                 /\ \E i \in days : fields[i].kind = "Day2" /\ fields[i].w = 2
                 /\ \A i \in years : fields[i].w \in 1..2 /\ s[i].v <= 31
    IN  [prone |-> prone, guess |-> guess]

Judged(fields, g) ==
    [ok     |-> TRUE,
     ambig  |-> IF g.guess THEN "dayOrYear" ELSE "none",
     prone  |-> g.prone,
     fields |-> fields]

TextualFormat(s, fields) == Judged(fields, TextualDayIsAGuess(s, fields))

\* A phrase with a time and no year is left to natural language.
IsPhrase(s, after) == (\E i \in after : AtWord(s, i)) /\ ~HasFourDigitYear(s, after)

DetectAround(s, mi) ==
    IF IsPhrase(s, (mi + 1)..Len(s)) \/ ~NamesADate(s, mi) \/ HourImpossible(s, Numbers(s))
    THEN NotTextual
    ELSE TextualFormat(s, TextualFields(s, mi))

DetectIn(s, months) ==
    IF months = {} \/ HasRivalMonthName(s, months) THEN NotTextual
    ELSE DetectAround(s, Min(months))

DetectTextualMonth(s, locales) == DetectIn(s, MonthsNamed(s, locales))

-----------------------------------------------------------------------------
\* The two readings of a day that may be a year: as detected, and the other
\* way round.
DayOrYearReadings(fields) ==
    LET day  == Reads(fields, {"Day2"})
        year == Reads(fields, {"Year2"})
        swap == [i \in DOMAIN fields |->
                    CASE i \in day  -> [fields[i] EXCEPT !.kind = "Year2"]
                      [] i \in year -> [fields[i] EXCEPT !.kind = "Day2"]
                      [] OTHER      -> fields[i]]
        label(fs) == SelectSeq([i \in DOMAIN fs |-> fs[i].kind],
                               LAMBDA k : k \in YearKinds \cup DayKinds \cup MonthKinds)
    IN  IF day = {} \/ Reads(fields, {"MonthName"}) = {}
        THEN <<>>
        ELSE <<[fields |-> fields, label |-> label(fields)],
               [fields |-> swap,   label |-> label(swap)]>>

=============================================================================
