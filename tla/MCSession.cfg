CONSTANTS
    Inputs <- AllValues
    Samples <- KeptValues
    Configs <- AllConfigs
    ThisYear = 2024
SPECIFICATION Spec
INVARIANTS TypeOK ReuseAgrees OwnValueRoundTrips NoHiddenReading PreferenceHonoured StrictCarriesEveryReading
