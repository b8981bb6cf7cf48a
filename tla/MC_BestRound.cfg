CONSTANTS
    s = s
    g = g
    a = a
    b = b
    NoRound = NoRound
    Ids <- MCIds
    Genesis <- MCGenesis
    Self = s
    RefThreshold = 1
    RoundGap = 1
    Numbers = {8, 9}
    Starts = {0, 1}
    MaxLen = 2
    MaxNow = 3

INIT MCInit
NEXT Next

INVARIANTS
    BestBetweenClocks
