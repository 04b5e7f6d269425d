SPECIFICATION BenchSpec
CONSTANTS
    Lines <- MCLines
    MaxClients = 2
    MaxRounds = 2
    MaxLost = 1
INVARIANTS
    TotalsAreReal
PROPERTIES
    ParentEnds
CHECK_DEADLOCK FALSE
