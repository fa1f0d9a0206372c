------------------------- MODULE MCClientConnection -------------------------
(* ClientConnection for TLC: a player, in several short lives.              *)
EXTENDS ClientConnection

MCTile == {1, 2}
MCPlace == {"here", "there"}

Quiet == [calls |-> {}, budget |-> 0, faults |-> 0, others |-> 0, fresh |-> FALSE]

\* Talking and typing, over a connection that is lost.
Chat == [Quiet EXCEPT !.calls = {"SAY", "TYPE"}, !.budget = 2, !.faults = 1]
\* Playing.
Play == [Quiet EXCEPT !.calls = {"MOVE"}, !.budget = 3]
\* Leaving, when it is told and when it is lost.
Part == [Quiet EXCEPT !.calls = {"LEAVE", "FLAG"}, !.budget = 2,
                      !.faults = 1]
\* Another game, or the one of before the application was restarted.
Again == [Quiet EXCEPT !.calls = {"RESTORE", "RESET", "STOP"}, !.budget = 1,
                       !.faults = 1, !.others = 1, !.fresh = TRUE]
\* Trouble.
Trouble == [Quiet EXCEPT !.faults = 3, !.others = 1]

MCPlan == {Chat, Play, Part, Again, Trouble}

\* The player goes away when the connection is lost.
MCStopPlan == {[Quiet EXCEPT !.calls = {"STOP"}, !.budget = 1, !.faults = 1]}
=============================================================================
