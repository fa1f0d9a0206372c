---- MODULE MCWebClient ----
(* A page in small games, each with what happens in it: chat and a tile that *)
(* others move, a tile that the player drags, and shouts.                    *)
EXTENDS WebClient

MCPlays == {{"JOIN", "CHAT", "TYPE"}, {"TURN", "NUDGE", "QUIT"}, {"TURN", "DRAG"},
            {"JOIN", "TURN", "SHOUT"}}
MCChat == {{"CHAT"}}
MCDrag == {{"TURN", "DRAG"}}
====
