SPECIFICATION Spec
CONSTANTS
    Callers = {trader, reader}
    Trader = trader
    NumEndpoints = 2
    MaxRetries = 3
    DisableAfter = 3
    DisableTicks = 1
    MaxTime = 1
INVARIANTS
    RetryableMeansUnsent
