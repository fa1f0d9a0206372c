\* One page and what may happen to it, under fairness.
CONSTANTS
    MaxFailures = 2
    Place = {p1, p2}
    Plays <- MCPlays
    MaxSaid = 2
    MaxDrags = 2
    MaxBreaks = 2
    Cap = 2

SPECIFICATION FairSpec

INVARIANTS
    WebSound
    TileIsShown

PROPERTY GetsIn

CHECK_DEADLOCK FALSE
