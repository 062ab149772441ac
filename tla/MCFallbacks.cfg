CONSTANTS
    Starts <- FirstMondays
    Span = 10228
    PhraseDays <- SomeDays
    Clocks <- SomeClocks
    Asks <- SomeAsks
    Tables <- LocaleTables
    SecDigits = 2
    StepDigits = 2
    Step = 100
    MaxInt = 67108863
    MaxSeconds = 100
    Written <- SomeWritten
    Typed <- SomeTyped
    Floats <- SomeFloats
SPECIFICATION FallbackSpec
INVARIANTS DayNumbersCount WeekDatesCount MeansWhatItSays GuessReported WholeInputRead NumbersAreTheirValue TypedAsWritten
PROPERTIES WeeksCount NeverGoesBack
CHECK_DEADLOCK FALSE
