CONSTANTS
    MonthSpellings <- MaySpellings
    Layouts <- ManyLayouts
    Times <- SomeTimes
    Noise <- SomeNoise
    Samples <- AllSamples
    Rows <- ManyRows
    Defs <- AllDefs
    Inputs <- AllInputs
    BaseYear <- BaseYears
    MaxInstructions = 24
    MaxFieldByte = 255
    FastMaxWidth = 64
SPECIFICATION Spec
INVARIANTS TypeOK FieldsAdjoin EveryByteOnce ReadsInOrder AgreesWithTimeParse ReadsItsSample ClockReadAsDetected EntryReadsItsSpellings 
CHECK_DEADLOCK FALSE
