CONSTANTS
    Inputs <- OrdinalDates
    Samples <- NoSamples
    Configs <- DefaultConfigs
    ThisYear = 2024
SPECIFICATION Spec
INVARIANTS OrdinalIsTheDay
