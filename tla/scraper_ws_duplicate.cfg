SPECIFICATION Spec
CONSTANTS
    Pairs = {p1, p2}
    NoPair = NoPair
    MaxAttempts = 2
    MaxRestarts = 0
INVARIANTS
    SettledOnce
SYMMETRY PairSymmetry
CHECK_DEADLOCK FALSE
