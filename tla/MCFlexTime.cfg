CONSTANTS
    Callers = {g1, g2}
    Inputs = {"empty", "slash1", "feb29th"}
    Empty = "empty"
    Columns <- NoColumns
    FirstYear = 2024
    LastYear = 2025
    NoLayout = NoLayout
    DetectAndParse <- FloatingOutcome
    Reparse <- ReparseTokens
    SecDigits = 2
    StepDigits = 2
    Step = 100
    MaxInt = 67108863
    MaxSeconds = 100
    Sources <- SomeSources
SYMMETRY Goroutines
SPECIFICATION FlexSpec
INVARIANTS ValueIsItsSource AnswersAgree
