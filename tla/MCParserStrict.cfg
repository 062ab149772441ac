CONSTANTS
    Callers = {g1, g2}
    Inputs = {"empty", "padded", "slash15", "slash1", "may70", "may10", "hms"}
    Empty = "empty"
    Columns <- GuessColumns
    FirstYear = 2024
    LastYear = 2025
    NoLayout = NoLayout
    DetectAndParse <- StrictOutcome
    Reparse <- ReparseTokens
SPECIFICATION Spec
INVARIANT AnswersAgree
PROPERTIES AnswersAreCurrent CallsReturn
