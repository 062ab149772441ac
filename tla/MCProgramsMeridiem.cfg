CONSTANTS
    MonthSpellings <- MaySpellings
    Layouts <- MeridiemLayouts
    Times <- SomeTimes
    Noise <- SomeNoise
    Samples <- NoSamples
    Rows <- NoSamples
    Defs <- CompiledDefs
    Inputs <- NearTexts
    BaseYear <- NoBaseYear
    MaxInstructions = 24
    MaxFieldByte = 255
    FastMaxWidth = 64
SPECIFICATION Spec
INVARIANT AgreesWithTimeParse
CHECK_DEADLOCK FALSE
