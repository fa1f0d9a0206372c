\* A page whose connection breaks while others talk.
CONSTANTS
    MaxFailures = 2
    Place = {p1, p2}
    Plays <- MCChat
    MaxSaid = 2
    MaxDrags = 2
    MaxBreaks = 1
    Cap = 2

SPECIFICATION Spec

INVARIANT ShownOnce

CHECK_DEADLOCK FALSE
