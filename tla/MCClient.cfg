\* Five short lives of a client, under fairness.
SPECIFICATION FairSpec
CONSTANTS
    Tile <- MCTile
    Place <- MCPlace
    InitialTimeout = 1
    MaxTimeout = 2
    StableTime = 1
    KeepAliveTime = 2
    SilenceTime = 3
    OutCap = 2
    WireCap = 2
    Plan <- MCPlan
INVARIANTS
    ClientSound
    HeardOnce
    InGoodTime
PROPERTIES
    GetsThrough
