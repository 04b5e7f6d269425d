SPECIFICATION FairSpec
CONSTANTS
    Writers = {w1, w2}
    Buffers = {1, 2, 3, 4, 5, 6, 7, 8, 9, 10, 11}
    FirstBuffers <- MCFirstBuffers
    NULL = NULL
    Capacity = 21
    MaxBatch = 3
    KeptOfBatch = 2
    FlushEvery = 3
    DiskFull = TRUE
    Statements <- MCStatements
    Offered <- MCOffered
    LineSize = 20
    NumberSize = 5
    TimeSize = 2
    NameSize = 2
    LevelSize = 3
    Levels = {0, 1, 2, 3, 4}
    MinLevel = 1
INVARIANTS
    OneHolder
    AssertionsHold
    InOrderOnce
    LinesWhole
PROPERTIES
    EventuallyWritten
    StopEnds
\* The worker may be stopped, and the number of records is bounded.
CHECK_DEADLOCK FALSE
