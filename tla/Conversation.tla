---------------------------- MODULE Conversation ----------------------------
(***************************************************************************)
(* The rules of one game, as the server keeps them: VsxConversation of     *)
(* src/server/vsx-conversation.c and the players in it (vsx-player.c).     *)
(*                                                                         *)
(* Every command a client sends about its game ends in one of the          *)
(* operations below.  The server is single threaded, so an operation runs  *)
(* to its end before the next one starts and each is one action.  An       *)
(* operation tells its observers what it changed by emitting               *)
(* changed_signal; the variable changed holds what the last operation      *)
(* emitted, so that a module which composes the conversation with its      *)
(* observers can react to it in the same step.                             *)
(***************************************************************************)
EXTENDS Integers, Sequences, FiniteSets

CONSTANTS
    MaxPlayers,    \* VSX_CONVERSATION_MAX_PLAYERS (6)
    MaxTiles,      \* VSX_TILE_DATA_N_TILES (122)
    DefaultTiles,  \* VSX_CONVERSATION_DEFAULT_N_TILES (50)
    ShoutTime,     \* VSX_CONVERSATION_SHOUT_TIME, in ticks of the clock
    Language,      \* the languages there are tile data for
    Place,         \* where a tile can be on the board
    Text,          \* what can be said in the chat
    MaxMessages    \* bound of the model: how many chat messages are sent

Seat == 0 .. MaxPlayers - 1
Nobody == -1          \* last_player of a tile that nobody has moved
NoBag == "no bag"     \* the bag is filled just before the first turn

Flag == {"CONNECTED", "TYPING", "NEXT_TURN"}
State == {"AWAITING_START", "IN_PROGRESS"}

ASSUME ConversationAssumption ==
    /\ MaxPlayers \in Nat \ {0}
    /\ MaxTiles \in Nat \ {0}
    /\ DefaultTiles \in 1 .. MaxTiles
    /\ ShoutTime \in Nat
    /\ MaxMessages \in Nat
    /\ NoBag \notin Language

VARIABLES
    state,        \* AWAITING_START until the first tile, or until full
    nPlayers,     \* seats handed out so far; a seat is never reused
    nConnected,   \* n_connected_players, counted by hand in the code
    flags,        \* flags[p]: the flags of the player in seat p
    tiles,        \* the tiles in play, in the order they were turned
    totalNTiles,  \* how many tiles this game will use
    language,     \* tile_data: the language chosen for the game
    bag,          \* the language of the letters the bag was filled with
    messages,     \* the chat, oldest first
    shoutAge,     \* ticks since last_shout_time, saturating at ShoutTime
    changed       \* what the last operation emitted on changed_signal

\* The game itself; changed is a signal that lasts for one step.
game == <<state, nPlayers, nConnected, flags, tiles, totalNTiles, language,
          bag, messages, shoutAge>>

Tile == [place : Place, lastPlayer : Seat \cup {Nobody}]
Message == [player : Seat, text : Text]

TypeOK ==
    /\ state \in State
    /\ nPlayers \in 0 .. MaxPlayers
    /\ nConnected \in 0 .. MaxPlayers
    /\ flags \in [Seat -> SUBSET Flag]
    /\ tiles \in Seq(Tile)
    /\ totalNTiles \in 1 .. MaxTiles
    /\ language \in Language
    /\ bag \in Language \cup {NoBag}
    /\ messages \in Seq(Message)
    /\ shoutAge \in 0 .. ShoutTime

-----------------------------------------------------------------------------
(* What an operation can tell the observers of the conversation:           *)
(* VsxConversationChangedType, with the number of a player or a tile.      *)

ChangeOf(type) == [type |-> type, num |-> 0]
PlayerChanged(p) == [type |-> "PLAYER", num |-> p]
TileChanged(i) == [type |-> "TILE", num |-> i]
Shouted(p) == [type |-> "SHOUTED", num |-> p]

\* vsx_conversation_set_flags: only a player whose flags differ is announced.
FlagChanges(newFlags) ==
    {PlayerChanged(p) : p \in {q \in Seat : newFlags[q] # flags[q]}}

-----------------------------------------------------------------------------
(* Helpers of the operations.                                              *)

InSeats == 0 .. nPlayers - 1
IsConnected(p) == "CONNECTED" \in flags[p]
HasNextTurn(p) == "NEXT_TURN" \in flags[p]
ConnectedSeats == {p \in Seat : IsConnected(p)}
IsFirstTurn == Len(tiles) = 0
IsShouting == shoutAge < ShoutTime

\* How many seats after seat p one comes to seat q, going round the table.
StepsRound(p, q) == IF q > p THEN q - p ELSE q - p + nPlayers

\* The first of the seats that one meets going round the table from p.
NextSeat(seats, p) ==
    CHOOSE q \in seats : \A r \in seats : StepsRound(p, q) <= StepsRound(p, r)

GiveTurn(fl, p) == [fl EXCEPT ![p] = @ \cup {"NEXT_TURN"}]
TakeTurn(fl, p) == [fl EXCEPT ![p] = @ \ {"NEXT_TURN"}]

\* Faults for the mutants of PassTurn: the flag of the old player is not
\* cleared; the scan starts again from the first seat of the table.
PassTurnKeepingOld(fl, old, inPlay) ==
    LET others == {p \in InSeats : p # old /\ "CONNECTED" \in fl[p]} IN
    IF inPlay >= totalNTiles THEN TakeTurn(fl, old)
    ELSE IF others = {} THEN fl
    ELSE GiveTurn(fl, NextSeat(others, old))
PassTurnFromFirstSeat(fl, old, inPlay) ==
    LET others == {p \in InSeats : p # old /\ "CONNECTED" \in fl[p]} IN
    IF inPlay >= totalNTiles THEN TakeTurn(fl, old)
    ELSE IF others = {} THEN fl
    ELSE GiveTurn(TakeTurn(fl, old),
                  CHOOSE p \in others : \A q \in others : p <= q)

\* set_next_player: from the flags fl and with inPlay tiles on the board the
\* turn leaves old.  With no tiles left it becomes nobody's; if nobody else is
\* connected it stays where it is.
PassTurn(fl, old, inPlay) ==
    LET others == {p \in InSeats : p # old /\ "CONNECTED" \in fl[p]} IN
    IF inPlay >= totalNTiles THEN TakeTurn(fl, old)
    ELSE IF others = {} THEN fl
    ELSE GiveTurn(TakeTurn(fl, old), NextSeat(others, old))

-----------------------------------------------------------------------------
(* vsx_conversation_new.  shoutAge: last_shout_time starts at zero, so the  *)
(* age of the last shout is at first the uptime of the machine.            *)

Init ==
    /\ state = "AWAITING_START"
    /\ nPlayers = 0
    /\ nConnected = 0
    /\ flags = [p \in Seat |-> {}]
    /\ tiles = <<>>
    /\ totalNTiles = DefaultTiles
    /\ language \in Language
    /\ bag = NoBag
    /\ messages = <<>>
    /\ shoutAge \in 0 .. ShoutTime
    /\ changed = {}

\* vsx_conversation_start as the last part of an operation that also emits
\* what is in others.
StartAndEmit(others) ==
    /\ state' = "IN_PROGRESS"
    /\ changed' = others \cup (IF state = "AWAITING_START"
                               THEN {ChangeOf("STATE")} ELSE {})

\* vsx_conversation_add_player.  A person gets here with a conversation that
\* was just made for them, or with one that is still in the conversation set
\* because somebody is connected to it; it may have started (JOIN_GAME).
AddPlayer ==
    /\ nPlayers < MaxPlayers
    /\ nPlayers = 0 \/ ConnectedSeats # {}
    /\ flags' = [flags EXCEPT ![nPlayers] = {"CONNECTED"}]
    /\ nPlayers' = nPlayers + 1
    /\ nConnected' = nConnected + 1
    /\ \/ /\ nPlayers + 1 >= MaxPlayers
          /\ StartAndEmit({PlayerChanged(nPlayers)})
       \/ /\ nPlayers + 1 < MaxPlayers
          /\ state' = state
          /\ changed' = {PlayerChanged(nPlayers)}
    /\ UNCHANGED <<tiles, totalNTiles, language, bag, messages, shoutAge>>

\* Fault for a mutant: a player that has already left may leave again.
PlayerLeftAgain(p) ==
    /\ p \in InSeats
    /\ nConnected > 0
    /\ LET cleared == [flags EXCEPT ![p] = {}] IN
       flags' = IF HasNextTurn(p) THEN PassTurn(cleared, p, Len(tiles))
                ELSE cleared
    /\ nConnected' = nConnected - 1
    /\ changed' = FlagChanges(flags')
    /\ UNCHANGED <<state, nPlayers, tiles, totalNTiles, language, bag,
                   messages, shoutAge>>

\* vsx_conversation_player_left, for LEAVE and for a person gone silent.
PlayerLeft(p) ==
    /\ IsConnected(p)
    /\ LET cleared == [flags EXCEPT ![p] = {}] IN
       flags' = IF HasNextTurn(p) THEN PassTurn(cleared, p, Len(tiles))
                ELSE cleared
    /\ nConnected' = nConnected - 1
    /\ changed' = FlagChanges(flags')
    /\ UNCHANGED <<state, nPlayers, tiles, totalNTiles, language, bag,
                   messages, shoutAge>>

\* vsx_conversation_set_typing.
SetTyping(p, typing) ==
    /\ IsConnected(p)
    /\ flags' = [flags EXCEPT ![p] = IF typing THEN @ \cup {"TYPING"}
                                     ELSE @ \ {"TYPING"}]
    /\ changed' = FlagChanges(flags')
    /\ UNCHANGED <<state, nPlayers, nConnected, tiles, totalNTiles, language,
                   bag, messages, shoutAge>>

\* handle_send_message: vsx_conversation_add_message, and the sender is then
\* taken to have stopped typing.
SendMessage(p, text) ==
    /\ IsConnected(p)
    /\ Len(messages) < MaxMessages
    /\ messages' = Append(messages, [player |-> p, text |-> text])
    /\ flags' = [flags EXCEPT ![p] = @ \ {"TYPING"}]
    /\ changed' = {ChangeOf("MESSAGE")} \cup FlagChanges(flags')
    /\ UNCHANGED <<state, nPlayers, nConnected, tiles, totalNTiles, language,
                   bag, shoutAge>>

\* Fault for a mutant: only the upper end of the range is looked at.
ClampFromAbove(low, high, n) == IF n > high THEN high ELSE n

Clamp(low, high, n) == IF n < low THEN low ELSE IF n > high THEN high ELSE n

\* vsx_conversation_set_n_tiles.
SetNTiles(p, n) ==
    /\ IsConnected(p)
    /\ state = "AWAITING_START"
    /\ totalNTiles' = Clamp(1, MaxTiles, n)
    /\ changed' = IF totalNTiles' # totalNTiles THEN {ChangeOf("N_TILES")}
                  ELSE {}
    /\ UNCHANGED <<state, nPlayers, nConnected, flags, tiles, language, bag,
                   messages, shoutAge>>

\* Fault for a mutant: the language may change until the bag is empty.
SetTileDataAnyTime(p, lang) ==
    /\ IsConnected(p)
    /\ lang # language
    /\ language' = lang
    /\ changed' = {ChangeOf("TILE_DATA")}
    /\ UNCHANGED <<state, nPlayers, nConnected, flags, tiles, totalNTiles, bag,
                   messages, shoutAge>>

\* vsx_conversation_set_tile_data.
SetTileData(p, lang) ==
    /\ IsConnected(p)
    /\ state = "AWAITING_START"
    /\ lang # language
    /\ language' = lang
    /\ changed' = {ChangeOf("TILE_DATA")}
    /\ UNCHANGED <<state, nPlayers, nConnected, flags, tiles, totalNTiles, bag,
                   messages, shoutAge>>

\* Fault for a mutant: the special case of a single player is forgotten.
FirstTurnForgetsSolo(p) == PassTurn(flags, p, Len(tiles) + 1)

\* Who has the turn once p has turned a tile: a player who turns the first
\* tile alone gets the turn, since set_next_player would find nobody.
FlagsAfterTurn(p) ==
    IF IsFirstTurn /\ nConnected = 1 THEN GiveTurn(flags, p)
    ELSE PassTurn(flags, p, Len(tiles) + 1)

\* vsx_conversation_turn.  The search for a free place on the board is
\* abstracted to any place.
Turn(p) ==
    /\ IsConnected(p)
    /\ IsFirstTurn \/ HasNextTurn(p)
    /\ ~IsShouting
    /\ Len(tiles) < totalNTiles
    /\ \E place \in Place :
         tiles' = Append(tiles, [place |-> place, lastPlayer |-> Nobody])
    /\ bag' = IF IsFirstTurn THEN language ELSE bag
    /\ flags' = FlagsAfterTurn(p)
    /\ StartAndEmit({TileChanged(Len(tiles))} \cup FlagChanges(flags'))
    /\ UNCHANGED <<nPlayers, nConnected, totalNTiles, language, messages,
                   shoutAge>>

\* handle_move_tile and vsx_conversation_move_tile: tile i is in play; whether
\* the player has left is not looked at.
MoveTile(p, i, place) ==
    /\ p \in InSeats
    /\ i < Len(tiles)
    /\ tiles[i + 1].place # place
    /\ tiles' = [tiles EXCEPT ![i + 1] = [place |-> place, lastPlayer |-> p]]
    /\ changed' = {TileChanged(i)}
    /\ UNCHANGED <<state, nPlayers, nConnected, flags, totalNTiles, language,
                   bag, messages, shoutAge>>

\* vsx_conversation_shout.
Shout(p) ==
    /\ IsConnected(p)
    /\ ~IsShouting
    /\ shoutAge' = 0
    /\ changed' = {Shouted(p)}
    /\ UNCHANGED <<state, nPlayers, nConnected, flags, tiles, totalNTiles,
                   language, bag, messages>>

\* The monotonic clock.
Tick ==
    /\ IsShouting
    /\ shoutAge' = shoutAge + 1
    /\ changed' = {}
    /\ UNCHANGED <<state, nPlayers, nConnected, flags, tiles, totalNTiles,
                   language, bag, messages>>

Next ==
    \/ AddPlayer
    \/ \E p \in Seat : PlayerLeft(p)
    \/ \E p \in Seat, typing \in BOOLEAN : SetTyping(p, typing)
    \/ \E p \in Seat, text \in Text : SendMessage(p, text)
    \/ \E p \in Seat, n \in 0 .. MaxTiles + 1 : SetNTiles(p, n)
    \/ \E p \in Seat, lang \in Language : SetTileData(p, lang)
    \/ \E p \in Seat : Turn(p)
    \/ \E p \in Seat, i \in 0 .. MaxTiles - 1, place \in Place :
         MoveTile(p, i, place)
    \/ \E p \in Seat : Shout(p)
    \/ Tick

\* A step of something else leaves the game as it is and emits nothing.
NoOperation == UNCHANGED game /\ changed' = {}

Spec == Init /\ [][Next]_game
-----------------------------------------------------------------------------
(* Properties.                                                             *)

\* A flag is only ever set on a connected player, nobody holds the turn
\* before the first tile, and never two players at once.  set_next_player
\* moves the flag with two calls of set_flag, the second of which is for a
\* player it has looked up.
TurnFlagsSound ==
    /\ \A p \in Seat : flags[p] # {} => p < nPlayers /\ IsConnected(p)
    /\ \A p \in Seat : HasNextTurn(p) => ~IsFirstTurn
    /\ \A p, q \in Seat : HasNextTurn(p) /\ HasNextTurn(q) => p = q

\* The turn is never lost: while there are tiles on the board and tiles left
\* to turn, and somebody is connected, a connected player has the turn.  If
\* it were lost no tile could be turned again, because only the first turn
\* is free for all.
TurnNeverLost ==
    0 < Len(tiles) /\ Len(tiles) < totalNTiles /\ ConnectedSeats # {} =>
        \E p \in ConnectedSeats : HasNextTurn(p)

\* n_connected_players, which decides the special case of the first turn, is
\* the number of players whose flags say that they are connected.
CountExact == nConnected = Cardinality(ConnectedSeats)

\* The letters that are dealt are those of the language the players were
\* last told, and no more tiles are dealt than they were told: the bag is
\* filled late, so that the language can change until the game starts.
BagMatchesSettings ==
    ~IsFirstTurn => /\ state = "IN_PROGRESS"
                    /\ bag = language
                    /\ Len(tiles) <= totalNTiles

\* The turn goes round the table: when it moves from one player to another,
\* the first one turned a tile or left, and every seat between the two is
\* the seat of a player that has left.
TurnGoesRound ==
    [][\A p, q \in Seat :
         /\ p # q
         /\ HasNextTurn(p) /\ ~HasNextTurn(q) /\ HasNextTurn(q)'
         => /\ Len(tiles') = Len(tiles) + 1 \/ ~IsConnected(p)'
            /\ \A r \in InSeats \ {p, q} :
                 StepsRound(p, r) < StepsRound(p, q) => ~IsConnected(r)
      ]_game

\* What the comment in set_next_player says of the end of a game: with no
\* tiles left it is nobody's turn.
NobodysTurnAtTheEnd ==
    Len(tiles) >= totalNTiles => \A p \in Seat : ~HasNextTurn(p)

\* What doc/protocol.txt says of SET_N_TILES: the value is clamped to the
\* range 0 to 122.
ClampedAsDocumented ==
    [][\A p \in Seat, n \in 0 .. MaxTiles + 1 :
         SetNTiles(p, n) => totalNTiles' = Clamp(0, MaxTiles, n)]_game
=============================================================================
