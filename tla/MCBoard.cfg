\* Gestures, other players and faults on a small board.
CONSTANTS
    Tile <- MCTile
    Width = 2
    DownCap = 1
    Plans <- MCPlans

SPECIFICATION FairSpec

INVARIANTS
    BoardSound

PROPERTIES
    StaysWhereItIsPut
    ShownInTheEnd

\* Nothing more to do: the system may stop.
CHECK_DEADLOCK FALSE
