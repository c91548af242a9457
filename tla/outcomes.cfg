SPECIFICATION FairSpec
CONSTANTS
    Tokens = {t1, t2}
    NoToken = NoToken
    MaxTime = 5
    MaxCrashes = 1
    MaxFailures = 1
INVARIANTS
    AdvancedMeansStored
    RepeatsNeedFaults
    InTimeAndOrder
    QueuedTokenHasRow
PROPERTIES
    QueueDrains
    EverySnapshotTaken
CONSTANT Intervals <- SmallIntervals
