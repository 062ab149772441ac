----------------------------- MODULE MCPrograms -----------------------------
(***************************************************************************)
(* Programs from Go layouts, from what detection located in a sample, and  *)
(* from the entries of the trie.  The layouts have fields that widen before*)
(* and after others and a zone of two widths in the middle and at the end; *)
(* the unread bytes of the samples are words, accents, control bytes,      *)
(* brackets and repeated punctuation.                                      *)
(***************************************************************************)
EXTENDS TriePrograms, DetectedPrograms

Filler(n) == [i \in 1..n |-> "x"]

PlannedLayouts ==
    [date     |-> Date,
     rfc3339  |-> Date \o <<"T">> \o Clock \o <<"Z07:00">>,
     stamp    |-> Date \o <<" ">> \o Clock \o <<".000", "-0700">>,
     kitchen  |-> <<"03", ":", "04", " ", "PM">>,
     padded   |-> <<"_2", "/", "01", "/", "06", " ", "15", "04">>,
     micro    |-> Clock \o <<".000000">>]

InterpretedLayouts ==
    [american |-> <<"1", "/", "2", "/", "2006", " ", "3", ":", "04", "PM">>,
     zoneMid  |-> <<"15", ":", "04", "Z07:00", " ", "2006", "-", "1", "-", "2">>,
     zoneYear |-> <<"15", "04", "Z0700", "06", "01", "02">>,
     zoneTwo  |-> <<"2", ".", "1", ".", "2006", " ", "Z07:00">> \o Clock,
     nano     |-> <<"o", "n", " ", "2006", "01", "02", "T", "15", ".000000000", "-07">>,
     twice    |-> <<"02", " ", "02", "/", "01", "/", "2006">>]

RefusedLayouts == [wordy |-> Filler(20) \o Date]

ManyLayouts == PlannedLayouts @@ InterpretedLayouts @@ RefusedLayouts

\* The hour of a 24-hour clock beside a meridiem.
MeridiemLayouts == [both |-> <<"15", ":", "04", " ", "PM">>]

SomeTimes == {
    Tm(2024, 2, 29, 23, 59, 58, 123456789, -330),
    Tm(1969, 12, 31, 0, 0, 0, 0, 0),
    Tm(2000, 10, 9, 12, 30, 5, 90000000, 330)}

SomeNoise == {"0", "7", "Z", "T", "-", ":", ".", " ", "é"}

-----------------------------------------------------------------------------
F(op, offset, len) == Field(op, offset, len, NoAux)
May(offset) == Field("MonthName", offset, 3, 5)
Lit(offset, byte) == Field("Literal", offset, 1, byte)

Sample(text, from, fields) == [text |-> text, from |-> from, fields |-> fields]

MayText == <<"M", "A", "Y">>
MaySpellings == [m \in 1..12 |-> IF m = 5 THEN {MayText, <<"m", "a", "y">>} ELSE {}]

HalfPastTen == <<"1", "0", ":", "3", "0">>

ManySamples ==
    [controlByte |->
        Sample(<<"NUL">> \o MayText \o <<"1">>, -1, <<May(1), F("Day1or2", 4, 1)>>),
     word |->
        Sample(<<"A", " ">> \o MayText \o <<"1">>, -1, <<May(2), F("Day1or2", 5, 1)>>),
     bang |->
        Sample(MayText \o <<"1", " ">> \o HalfPastTen \o <<"!", " ", "1", "0", "0", "0">>, 4,
               <<May(0), F("Day1or2", 3, 1), F("Year4", 12, 4)>>),
     accent |->
        Sample(MayText \o <<"1", " ">> \o HalfPastTen \o <<"é", " ", "1", "0", "0", "0">>, 4,
               <<May(0), F("Day1or2", 3, 1), F("Year4", 12, 4)>>),
     gap |->
        Sample(MayText \o <<"1", " ">> \o HalfPastTen \o <<" ", " ", "1", "0", "0", "0">>, 4,
               <<May(0), F("Day1or2", 3, 1), F("Year4", 12, 4)>>),
     shortName |->
        Sample(MayText \o <<"1", " ">> \o HalfPastTen \o <<"A", "-", "0", "0", "0", "0">>, 4,
               <<May(0), F("Day1or2", 3, 1)>>),
     longName |->
        Sample(MayText \o <<"1", " ">> \o HalfPastTen \o <<"E", "S", "T", "+", "0", "1", "0", "0">>, 4,
               <<May(0), F("Day1or2", 3, 1)>>),
     zone |->
        Sample(MayText \o <<"1", " ">> \o HalfPastTen \o <<" ", "E", "S", "T">>, 4,
               <<May(0), F("Day1or2", 3, 1)>>),
     meridiem |->
        Sample(<<"F", "r", "i", ",", " ", "1", " ">> \o MayText \o <<" ", "2", "0", "2", "4">>
                   \o <<" ", "a", "t", " ">> \o HalfPastTen \o <<":", "0", "5", ".", "5", " ", "p", "m">>,
               15, <<May(7), F("Day1or2", 5, 1), F("Year4", 11, 4)>>)]

OtherSamples ==
    [isoWeek |->
        Sample(<<"2", "0", "2", "0", "-", "W", "5", "3", "-", "5">>, -1,
               <<F("Year4", 0, 4), Lit(4, "-"), Lit(5, "W"), F("ISOWeek", 6, 2), Lit(8, "-"),
                 F("ISOWeekDay", 9, 1)>>),
     ordinal |->
        Sample(<<"2", "0", "2", "4", "-", "3", "6", "6">>, -1,
               <<F("Year4", 0, 4), Lit(4, "-"), F("OrdinalDay", 5, 3)>>),
     goString |->
        Sample(<<"2", "0", "2", "4", "-", "0", "2", "-", "2", "9", " ">> \o HalfPastTen
                   \o <<" ", "+", "0", "1", "0", "0", " ", "C", "E", "T">>, -1,
               <<F("Year4", 0, 4), Lit(4, "-"), F("Month2", 5, 2), Lit(7, "-"), F("Day2", 8, 2),
                 Lit(10, " "), F("Hour24", 11, 2), Lit(13, ":"), F("Minute2", 14, 2),
                 Lit(16, " "), F("TZOffset", 17, 5), F("Tail", 22, 4)>>),
     farAway |->
        Sample([i \in 1..256 |-> IF i <= 200 THEN "!" ELSE "("] \o MayText \o <<"1">>, -1,
               <<May(256), F("Day1or2", 259, 1)>>)]

AllSamples == ManySamples @@ OtherSamples

RowNoise == {"1", " ", "\t", "+", "A", "M", "Z", "!", "é", "NUL"}

\* The unread bytes of a sample, of which as many as three are varied.
Unread(sample) ==
    LET gap == (0..(Len(sample.text) - 1)) \ Covered(Located(sample))
    IN  {off \in gap : Cardinality({g \in gap : g > off}) < 2}

Replaced(text, by) ==
    [i \in DOMAIN text |-> IF i - 1 \in DOMAIN by THEN by[i - 1] ELSE text[i]]

\* A byte more at the day, which is where a row is wider than its sample.
Widened(sample) ==
    {SubSeq(sample.text, 1, i) \o <<b>> \o SubSeq(sample.text, i + 1, Len(sample.text)) :
        i \in DOMAIN sample.text, b \in RowNoise}

\* A wider day, and a digit where the sample had what no field reads.
Shifted == {<<"1">> \o MayText \o <<"1", "0">>, <<"1", " ">> \o MayText \o <<"1", "0">>}

RowsOf(sample) ==
    {sample.text} \cup {Replaced(sample.text, by) : by \in [Unread(sample) -> RowNoise]}
        \cup {Replaced(sample.text, i :> b) : i \in 0..(Len(sample.text) - 1), b \in RowNoise}
        \cup Widened(sample)

ManyRows ==
    [n \in DOMAIN AllSamples |->
        IF n = "farAway" THEN {} ELSE RowsOf(AllSamples[n]) \cup Shifted]

-----------------------------------------------------------------------------
AllDefs   == CompiledDefs @@ DetectedDefs @@ TrieDefs
AllInputs == NearTexts @@ ManyRows @@ TrieInputs

\* Only detection has a base year to give (compile.go:58).
BaseYears == [n \in DOMAIN AllDefs |-> IF n \in DOMAIN AllSamples THEN 2026 ELSE 0]

NoSamples == <<>>
NoBaseYear == [n \in DOMAIN CompiledDefs |-> 0]

=============================================================================
