SPECIFICATION Spec
CONSTANTS
    Threads = {t1, t2}
    Keys = {k1, k2, k3, k4, k5}
    Nodes = {n1, n2, n3, n4}
    NULL = NULL
    Capacity = 2
    MaxFreq = 3
    MaxTwice = 2
INVARIANT CacheIsConsistent 
PROPERTY EvictsLeastUsed
SYMMETRY Symmetry
