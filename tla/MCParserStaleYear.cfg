CONSTANTS
    Callers = {g1}
    Inputs = {"empty", "iso", "feb1st", "feb29th", "hms"}
    Empty = "empty"
    Columns <- NoColumns
    FirstYear = 2024
    LastYear = 2025
    NoLayout = NoLayout
    DetectAndParse <- FloatingOutcome
    Reparse <- ReparseTokens
SPECIFICATION Spec
PROPERTY AnswersAreCurrent
