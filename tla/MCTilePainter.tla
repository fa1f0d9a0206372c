--------------------------- MODULE MCTilePainter ----------------------------
\* Two tiles on a board that is two tiles wide.
EXTENDS TilePainter

MCTile == {"t1", "t2"}

Plan(first, second, dialog, presses, moves, others, breaks) ==
    [dealt |-> [t \in MCTile |-> IF t = "t1" THEN first ELSE second],
     dialog |-> dialog, presses |-> presses, moves |-> moves,
     others |-> others, breaks |-> breaks]

MCPlans ==
    {Plan(0, 0, "none", 1, 1, 0, 0),    \* a game begins
     Plan(0, 1, "INVITE", 2, 1, 0, 0),  \* behind a dialog
     Plan(0, 0, "INVITE", 1, 1, 0, 0),
     Plan(1, 2, "none", 2, 2, 0, 0),    \* two tiles are moved
     Plan(1, 2, "none", 2, 1, 1, 0),    \* while another player acts
     Plan(1, 2, "none", 1, 2, 1, 0),
     Plan(1, 2, "none", 1, 1, 0, 1),    \* with the connection or the game lost
     Plan(0, 1, "none", 1, 1, 0, 1)}
=============================================================================
