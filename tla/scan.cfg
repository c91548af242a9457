SPECIFICATION FairSpec
CONSTANTS
    NumFactories = 2
    MaxChunk = 4
    Lookback = 2
    Confirmations = 1
    MaxBlock = 6
    MaxRestarts = 1
INVARIANTS
    NoGap
    ScannedOnce
PROPERTIES
    ScanTerminates
