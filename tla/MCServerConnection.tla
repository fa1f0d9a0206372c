------------------------- MODULE MCServerConnection -------------------------
(* ServerConnection for TLC: one observed client, alice.                   *)
EXTENDS ServerConnection

CONSTANTS alice, english, esperanto

MCClient == {alice}
MCPlace == {"centre", "edge"}
MCOnePlace == {"centre"}
MCBothLanguages == {english, esperanto}
MCOneLanguage == {english}
MCText == {"hello"}

\* Chat and turnover of players; the game as it is played; each of the
\* settings, up to the moment it no longer can be changed.
MCPlays == {{"JOIN", "LEAVE", "MESSAGE", "REENTER"},
            {"TYPING", "MESSAGE"},
            {"TURN", "MOVE", "SHOUT"},
            {"TURN", "N_TILES"},
            {"TURN", "LANGUAGE"}}

\* A client that leaves, or comes by JOIN_GAME after something was said.
MCLeavePlays == {{"MESSAGE", "LEAVE"}}
MCJoinPlays == {{"JOIN", "MESSAGE"}}
=============================================================================
