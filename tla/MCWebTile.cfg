\* A page whose player drags a tile.
CONSTANTS
    MaxFailures = 2
    Place = {p1, p2}
    Plays <- MCDrag
    MaxSaid = 1
    MaxDrags = 2
    MaxBreaks = 0
    Cap = 2

SPECIFICATION Spec

INVARIANT MovesAreSent

CHECK_DEADLOCK FALSE
