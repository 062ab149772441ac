CONSTANTS
    Callers = {g1, g2}
    Inputs = {"empty", "iso", "iso13", "slash15", "slash1", "may70", "may10", "mon", "nowDate", "phrase", "epoch"}
    Empty = "empty"
    Columns <- GuessColumns
    FirstYear = 2024
    LastYear = 2024
    NoLayout = NoLayout
    DetectAndParse <- PinnedOutcome
    Reparse <- ReparseTokens
SPECIFICATION Spec
INVARIANTS TypeOK GuessIsOwn CachedIsSound
PROPERTY KeepsPromise
