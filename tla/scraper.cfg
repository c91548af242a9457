SPECIFICATION FairSpec
CONSTANTS
    Pairs = {p1, p2, p3}
    NoPair = NoPair
    MaxAttempts = 2
    MaxRestarts = 1
INVARIANTS
    SettledOnceByPoller
    GivesUpAfterWindow
    NoSilentLoss
    OneReportPerWorker
    AttemptsBounded
PROPERTIES
    EventuallySettled
    ImplementsLedger
CHECK_DEADLOCK FALSE
