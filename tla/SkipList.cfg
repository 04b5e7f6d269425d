SPECIFICATION Spec
CONSTANTS
    Keys = {1, 2, 3}
    KeyText <- MCKeyText
    Null = 1000
    Char <- MCChar
    Colon = ":"
    Newline = "newline"
    Values <- MCValues
    Pairs <- MCPairs
    MaxLevel = 1
    Files <- MCFiles
    Dumpers = {d1, d2}
SYMMETRY
    Symmetry
INVARIANTS
    WellLinked
    SearchIsRight
PROPERTIES
    Reloaded
