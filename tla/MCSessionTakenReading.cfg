CONSTANTS
    Inputs <- ColumnValues
    Samples <- ColumnValues
    Configs <- StrictDefault
    ThisYear = 2024
SPECIFICATION Spec
INVARIANTS ReusableNeverGuesses
