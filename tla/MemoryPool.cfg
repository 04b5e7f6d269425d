SPECIFICATION PoolSpec
CONSTANTS
    t1 = t1
    t2 = t2
    t3 = t3
    Callers <- MCCallers
    SlotsPerBlock = 2
    MaxBlocks = 2
    MaxFree = 2
SYMMETRY AnyCaller
INVARIANTS
    OneOwner
    OverrunBound
\* The model runs out of blocks.
CHECK_DEADLOCK FALSE
