SPECIFICATION FairSpec
CONSTANTS
    Handlers = {listener, retrier}
    Tokens = {t1, t2}
    NoToken = NoToken
    NumChunks = 1
    Listener = listener
    Shared = {t1}
    ChunkSize = 2
    MaxChunks = 2
    MaxTransfers = 3
    MaxHeight = 5
    Flags = {"owner_change_balance", "external_call"}
INVARIANTS
    AlertsFollowVerdicts
    DeployersOnRecord
    DangersNeverLowerLevel
    LevelsKeepTheirWord
    HolderReportExact
PROPERTIES
    EveryTokenHandled
CONSTANTS
    Brings <- UnevenBrings
    Wallets <- TwoWallets
    Blocks <- SampleBlocks
CHECK_DEADLOCK FALSE
