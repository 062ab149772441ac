CONSTANTS
    Starts <- AMonday
    Span = 790
    PhraseDays <- TurnOfTheMonth
    Clocks <- Midmorning
    Asks <- ImpossibleAsks
    Tables <- LocaleTables
    SecDigits = 2
    StepDigits = 2
    Step = 100
    MaxInt = 67108863
    MaxSeconds = 100
    Written <- NoNumbers
    Typed <- NoNumbers
    Floats <- NoNumbers
SPECIFICATION FallbackSpec
INVARIANT NamedDayKept
CHECK_DEADLOCK FALSE
