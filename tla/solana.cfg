SPECIFICATION FairSpec
CONSTANTS
    NumLaunches = 4
    MaxBuffer = 3
    MaxDelay = 4
INVARIANTS
    NothingOutlivesConnection
    LaunchesAccounted
    PauseFollowsFailures
PROPERTIES
    ListensAgain
    StopEnds
    CancelEnds
    VanishedPeerNoticed
CHECK_DEADLOCK FALSE
