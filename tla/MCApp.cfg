\* Two lives of the activity and what comes between them.
CONSTANTS
    None = None
    Url = {u1, u2}
    LastPage = 1
    MaxPersons = 2
    MaxLives = 2
    MaxInvites = 1

SYMMETRY MCSymmetry

SPECIFICATION Spec

INVARIANTS
    AppSound

PROPERTY SeatIsKept

CHECK_DEADLOCK FALSE
