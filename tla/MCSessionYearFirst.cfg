CONSTANTS
    Inputs <- NumericDates
    Samples <- NoSamples
    Configs <- YearFirstConfigs
    ThisYear = 2024
SPECIFICATION Spec
INVARIANTS YearFirstNeverRefuses
