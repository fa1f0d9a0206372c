--------------------------- MODULE MCConversation ---------------------------
(* Conversation for TLC: a table of three, three tiles, two languages.     *)
EXTENDS Conversation, TLC

CONSTANTS english, esperanto, centre, edge

\* Three seats are the fewest for which the player after the next one is not
\* the player before, and for which somebody can be skipped.
MCMaxPlayers == 3
MCMaxTiles == 3
MCDefaultTiles == 2
MCShoutTime == 1
MCLanguage == {english, esperanto}
MCPlace == {centre, edge}
MCText == {"hello"}
MCMaxMessages == 1

\* No rule looks at which language or which place it is.
MCSymmetry == Permutations(MCLanguage) \cup Permutations(MCPlace)
=============================================================================
