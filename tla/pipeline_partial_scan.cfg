SPECIFICATION Spec
CONSTANTS
    Handlers = {listener}
    Tokens = {t1}
    NoToken = NoToken
    NumChunks = 2
    Listener = listener
    Shared = {t1}
    ChunkSize = 2
    MaxChunks = 2
    MaxTransfers = 3
    MaxHeight = 5
    Flags = {"owner_change_balance", "external_call"}
INVARIANTS
    PassIsNoBundle
CONSTANTS
    Brings <- UnevenBrings
    Wallets <- TwoWallets
    Blocks <- SampleBlocks
CHECK_DEADLOCK FALSE
