\* One frame with as many bytes as a message may have, then another frame.
SPECIFICATION Spec
CONSTANTS
    MaxLine = 7
    MaxPayload = 7
    MaxControl = 1
    BufSize = 7
    Plans <- LargePlans
    MaxPiece = 3
INVARIANTS
    AllowedFrameFits
CHECK_DEADLOCK FALSE
