----------------------- MODULE ServerConnectionProofs -----------------------
(***************************************************************************)
(* What the runs of MCConversation check for a table of three holds for    *)
(* every number of seats, tiles, languages and places.                     *)
(*                                                                         *)
(* And what the run of MCLink checks for one client and five short games   *)
(* holds for any number of clients, for buffers of any size and whatever   *)
(* the players do: nothing that a client has to be told is forgotten, and  *)
(* the chat is delivered in order and once, across any number of           *)
(* connections.                                                            *)
(***************************************************************************)
EXTENDS ServerConnection, FiniteSetTheorems, SequenceTheorems,
        WellFoundedInduction, TLAPS

-----------------------------------------------------------------------------
(* The conversation: the rules of one game.                                *)

\* A non-empty set of natural numbers has a least element.
LEMMA LeastNatural ==
    ASSUME NEW S \in SUBSET Nat, S # {}
    PROVE  \E m \in S : \A n \in S : m <= n
<1>1. IsWellFoundedOn(OpToRel(<, Nat), Nat)
  BY NatLessThanWellFounded
<1>2. PICK m \in S : \A n \in S : ~(<<n, m>> \in OpToRel(<, Nat))
  BY <1>1, WFMin, Zenon
<1>3. \A n \in S : ~(n < m)
  BY <1>2 DEF OpToRel
<1>. QED
  BY <1>3

\* NextSeat returns one of the seats it is given, and nobody among them sits
\* closer to p going round the table.
LEMMA NextSeatIsNearest ==
    ASSUME nPlayers \in 0 .. MaxPlayers,
           NEW p \in Seat, NEW seats \in SUBSET InSeats, seats # {}
    PROVE  /\ NextSeat(seats, p) \in seats
           /\ \A r \in seats :
                StepsRound(p, NextSeat(seats, p)) <= StepsRound(p, r)
<1>a. MaxPlayers \in Nat
  BY ConversationAssumption
<1>b. \A q \in seats : StepsRound(p, q) + MaxPlayers \in Nat
  BY <1>a DEF Seat, InSeats, StepsRound
<1>. DEFINE steps == {StepsRound(p, q) + MaxPlayers : q \in seats}
<1>1. steps \in SUBSET Nat /\ steps # {}
  BY <1>b, Zenon
<1>2. PICK m \in steps : \A n \in steps : m <= n
  <2>. HIDE DEF steps
  <2>. QED  BY <1>1, LeastNatural
<1>3. \A q \in seats : StepsRound(p, q) \in Int
  BY DEF Seat, InSeats, StepsRound
<1>4. \E q \in seats : \A r \in seats : StepsRound(p, q) <= StepsRound(p, r)
  BY <1>2, <1>3, <1>a
<1>. QED
  BY <1>4 DEF NextSeat

-----------------------------------------------------------------------------
(* set_next_player.                                                        *)

\* What the function that moves the flag does to each player: it leaves old
\* without the turn and gives it to one connected player in a seat, or to
\* nobody at the end of the game, or it changes nothing because nobody else
\* is connected.
LEMMA PassTurnCases ==
    ASSUME nPlayers \in 0 .. MaxPlayers,
           NEW fl \in [Seat -> SUBSET Flag], NEW old \in InSeats,
           NEW inPlay \in Nat
    PROVE  LET others == {p \in InSeats : p # old /\ "CONNECTED" \in fl[p]}
               nf == PassTurn(fl, old, inPlay)
               taken == [q \in Seat |-> IF q = old THEN fl[q] \ {"NEXT_TURN"}
                                        ELSE fl[q]]
           IN
           \/ inPlay >= totalNTiles /\ nf = taken
           \/ ~(inPlay >= totalNTiles) /\ others = {} /\ nf = fl
           \/ /\ ~(inPlay >= totalNTiles)
              /\ \E next \in others :
                   nf = [q \in Seat |-> IF q = next
                                        THEN taken[q] \cup {"NEXT_TURN"}
                                        ELSE taken[q]]
<1>. DEFINE others == {p \in InSeats : p # old /\ "CONNECTED" \in fl[p]}
            taken == [q \in Seat |-> IF q = old THEN fl[q] \ {"NEXT_TURN"}
                                     ELSE fl[q]]
<1>1. MaxPlayers \in Nat /\ InSeats \subseteq Seat
  BY ConversationAssumption DEF InSeats, Seat
<1>2. TakeTurn(fl, old) = taken
  BY <1>1 DEF TakeTurn
<1>3. CASE inPlay >= totalNTiles
  BY <1>2, <1>3 DEF PassTurn
<1>4. CASE ~(inPlay >= totalNTiles) /\ others = {}
  BY <1>4 DEF PassTurn
<1>5. CASE ~(inPlay >= totalNTiles) /\ others # {}
  <2>. DEFINE next == NextSeat(others, old)
  <2>1. next \in others
    <3>1. old \in Seat /\ others \in SUBSET InSeats
      BY <1>1
    <3>. HIDE DEF others
    <3>. QED  BY <3>1, <1>5, NextSeatIsNearest
  <2>2. PassTurn(fl, old, inPlay) = GiveTurn(taken, next)
    BY <1>2, <1>5 DEF PassTurn
  <2>3. GiveTurn(taken, next)
          = [q \in Seat |-> IF q = next THEN taken[q] \cup {"NEXT_TURN"}
                            ELSE taken[q]]
    BY <2>1, <1>1 DEF GiveTurn
  <2>. QED
    BY <1>5, <2>1, <2>2, <2>3
<1>. QED
  BY <1>3, <1>4, <1>5

\* Passing the turn connects and disconnects nobody, gives nothing but the
\* turn, and that only to a connected player in a seat.
LEMMA PassTurnGivesOnlyTheTurn ==
    ASSUME nPlayers \in 0 .. MaxPlayers,
           NEW fl \in [Seat -> SUBSET Flag], NEW old \in InSeats,
           NEW inPlay \in Nat,
           NEW nf, nf = PassTurn(fl, old, inPlay)
    PROVE  /\ nf \in [Seat -> SUBSET Flag]
           /\ \A q \in Seat : "CONNECTED" \in nf[q] <=> "CONNECTED" \in fl[q]
           /\ \A q \in Seat : nf[q] # {} =>
                \/ fl[q] # {}
                \/ "CONNECTED" \in fl[q] /\ q \in InSeats
BY PassTurnCases DEF Flag

\* If nobody but old has the turn, then afterwards at most one player has it.
LEMMA PassTurnToOne ==
    ASSUME nPlayers \in 0 .. MaxPlayers,
           NEW fl \in [Seat -> SUBSET Flag], NEW old \in InSeats,
           NEW inPlay \in Nat,
           \A q \in Seat : "NEXT_TURN" \in fl[q] => q = old,
           NEW nf, nf = PassTurn(fl, old, inPlay)
    PROVE  \A q, r \in Seat :
             "NEXT_TURN" \in nf[q] /\ "NEXT_TURN" \in nf[r] => q = r
BY PassTurnCases

\* While tiles are left the turn reaches a connected player, if there is one
\* besides old or old has it and is connected.
LEMMA PassTurnReachesSomeone ==
    ASSUME nPlayers \in 0 .. MaxPlayers,
           NEW fl \in [Seat -> SUBSET Flag], NEW old \in InSeats,
           NEW inPlay \in Nat, ~(inPlay >= totalNTiles),
           NEW q \in InSeats, "CONNECTED" \in fl[q],
           q = old => "NEXT_TURN" \in fl[q],
           NEW nf, nf = PassTurn(fl, old, inPlay)
    PROVE  \E r \in Seat : "CONNECTED" \in nf[r] /\ "NEXT_TURN" \in nf[r]
<1>1. InSeats \subseteq Seat
  BY ConversationAssumption DEF InSeats, Seat
<1>. QED
  BY <1>1, PassTurnCases

\* Whoever is given the turn sits nearer to old, going round the table, than
\* every other connected player.
LEMMA PassTurnGoesRound ==
    ASSUME nPlayers \in 0 .. MaxPlayers,
           NEW fl \in [Seat -> SUBSET Flag], NEW old \in InSeats,
           NEW inPlay \in Nat,
           NEW q \in Seat, q # old, "NEXT_TURN" \notin fl[q],
           "NEXT_TURN" \in PassTurn(fl, old, inPlay)[q],
           NEW r \in InSeats, r # old, "CONNECTED" \in fl[r]
    PROVE  StepsRound(old, q) <= StepsRound(old, r)
<1>. DEFINE others == {p \in InSeats : p # old /\ "CONNECTED" \in fl[p]}
            next == NextSeat(others, old)
<1>1. old \in Seat /\ r \in others
  BY ConversationAssumption DEF InSeats, Seat
<1>2. TakeTurn(fl, old) \in [Seat -> SUBSET Flag]
      /\ "NEXT_TURN" \notin TakeTurn(fl, old)[q]
  BY <1>1 DEF TakeTurn, Flag
<1>3. PassTurn(fl, old, inPlay) = GiveTurn(TakeTurn(fl, old), next)
  <2>1. PassTurn(fl, old, inPlay) # TakeTurn(fl, old)
    BY <1>2
  <2>. QED
    BY <1>1, <2>1 DEF PassTurn
<1>4. q = next
  BY <1>2, <1>3 DEF GiveTurn
<1>5. StepsRound(old, next) <= StepsRound(old, r)
  <2>. HIDE DEF others
  <2>1. others \in SUBSET InSeats
    BY DEF others
  <2>. QED
    BY <1>1, <2>1, NextSeatIsNearest
<1>. QED
  BY <1>4, <1>5

-----------------------------------------------------------------------------
(* The inductive invariant.                                                *)

\* Somebody has sat down before the first tile is turned, so that a player
\* who joins an abandoned table never finds tiles that nobody may follow.
SeatsBeforeTiles == ~IsFirstTurn => nPlayers > 0

GameInv ==
    /\ TypeOK
    /\ TurnFlagsSound
    /\ TurnNeverLost
    /\ CountExact
    /\ BagMatchesSettings
    /\ SeatsBeforeTiles

\* A set of seats is finite and no larger than the table.
LEMMA SeatsAreFinite ==
    ASSUME NEW S \in SUBSET Seat
    PROVE  IsFiniteSet(S) /\ Cardinality(S) \in 0 .. MaxPlayers
<1>1. MaxPlayers \in Nat
  BY ConversationAssumption
<1>2. IsFiniteSet(Seat) /\ Cardinality(Seat) = MaxPlayers
  BY <1>1, FS_Interval DEF Seat
<1>3. IsFiniteSet(S) /\ Cardinality(S) <= Cardinality(Seat)
  BY <1>2, FS_Subset
<1>. QED
  BY <1>1, <1>2, <1>3, FS_CardinalityType

LEMMA InitGameInv == Init => GameInv
<1>. SUFFICES ASSUME Init PROVE GameInv
  OBVIOUS
<1>1. TypeOK
  BY ConversationAssumption DEF Init, TypeOK, State
<1>2. ConnectedSeats = {}
  BY DEF Init, ConnectedSeats, IsConnected
<1>3. CountExact
  BY <1>2, FS_EmptySet DEF Init, CountExact
<1>4. /\ TurnFlagsSound
      /\ TurnNeverLost
      /\ BagMatchesSettings
      /\ SeatsBeforeTiles
  BY DEF Init, TurnFlagsSound, TurnNeverLost, BagMatchesSettings,
         SeatsBeforeTiles, HasNextTurn, IsFirstTurn, InSeats
<1>. QED
  BY <1>1, <1>3, <1>4 DEF GameInv

-----------------------------------------------------------------------------
(* One lemma for each operation that moves a flag, or for those that move   *)
(* none of the flags that matter.                                          *)

\* Operations that leave the flags and the tiles in play alone.
LEMMA SettingsKeepInv ==
    ASSUME GameInv,
           \/ \E p \in Seat, n \in 0 .. MaxTiles + 1 : SetNTiles(p, n)
           \/ \E p \in Seat, lang \in Language : SetTileData(p, lang)
           \/ \E p \in Seat : Shout(p)
           \/ Tick
           \/ UNCHANGED game
    PROVE  GameInv'
<1>. USE DEF GameInv, SetNTiles, SetTileData, Shout, Tick, game
<1>1. /\ flags' = flags /\ tiles' = tiles /\ nPlayers' = nPlayers
      /\ nConnected' = nConnected /\ messages' = messages /\ state' = state
      /\ bag' = bag
  OBVIOUS
<1>2. TypeOK'
  <2>1. totalNTiles' \in 1 .. MaxTiles
    BY ConversationAssumption DEF TypeOK, Clamp
  <2>2. language' \in Language
    BY DEF TypeOK
  <2>3. shoutAge' \in 0 .. ShoutTime
    BY ConversationAssumption DEF TypeOK, IsShouting
  <2>. QED
    BY <1>1, <2>1, <2>2, <2>3 DEF TypeOK
<1>3. ConnectedSeats' = ConnectedSeats
  BY <1>1 DEF ConnectedSeats, IsConnected
<1>4. TurnFlagsSound' /\ CountExact' /\ SeatsBeforeTiles'
  BY <1>1, <1>3 DEF TurnFlagsSound, CountExact, SeatsBeforeTiles, HasNextTurn,
                    IsConnected, IsFirstTurn
<1>5. ~IsFirstTurn => totalNTiles' = totalNTiles /\ language' = language
  BY DEF BagMatchesSettings
<1>6. BagMatchesSettings'
  BY <1>1, <1>5 DEF BagMatchesSettings, IsFirstTurn
<1>7. TurnNeverLost'
  BY <1>1, <1>3, <1>5 DEF TurnNeverLost, HasNextTurn, IsFirstTurn, TypeOK
<1>. QED
  BY <1>2, <1>4, <1>6, <1>7

\* Typing and the chat: only the flag TYPING of a connected player moves.
LEMMA ChatKeepsInv ==
    ASSUME GameInv,
           NEW p \in Seat,
           \/ \E typing \in BOOLEAN : SetTyping(p, typing)
           \/ \E text \in Text : SendMessage(p, text)
    PROVE  GameInv'
<1>. USE DEF GameInv
<1>1. /\ IsConnected(p)
      /\ flags' \in [Seat -> SUBSET Flag]
      /\ \A q \in Seat : /\ IsConnected(q)' <=> IsConnected(q)
                         /\ HasNextTurn(q)' <=> HasNextTurn(q)
                         /\ q # p => flags'[q] = flags[q]
  <2>1. CASE \E typing \in BOOLEAN : SetTyping(p, typing)
    <3>1. PICK typing \in BOOLEAN : SetTyping(p, typing)
      BY <2>1
    <3>. QED
      BY <3>1 DEF SetTyping, TypeOK, Flag, IsConnected, HasNextTurn
  <2>2. CASE \E text \in Text : SendMessage(p, text)
    <3>1. PICK text \in Text : SendMessage(p, text)
      BY <2>2
    <3>. QED
      BY <3>1 DEF SendMessage, TypeOK, Flag, IsConnected, HasNextTurn
  <2>. QED
    BY <2>1, <2>2
<1>2. /\ tiles' = tiles /\ nPlayers' = nPlayers /\ nConnected' = nConnected
      /\ state' = state /\ bag' = bag /\ totalNTiles' = totalNTiles
      /\ language' = language /\ shoutAge' = shoutAge
  BY DEF SetTyping, SendMessage
<1>3. messages' \in Seq(Message)
  <2>1. \A text \in Text : [player |-> p, text |-> text] \in Message
    BY DEF Message
  <2>2. \/ messages' = messages
        \/ \E text \in Text :
             messages' = Append(messages, [player |-> p, text |-> text])
    BY DEF SetTyping, SendMessage
  <2>3. CASE messages' = messages
    BY <2>3 DEF TypeOK
  <2>4. ASSUME NEW text \in Text,
               messages' = Append(messages, [player |-> p, text |-> text])
        PROVE  messages' \in Seq(Message)
    BY <2>1, <2>4, AppendProperties DEF TypeOK
  <2>. QED
    BY <2>2, <2>3, <2>4
<1>4. TypeOK'
  BY <1>1, <1>2, <1>3 DEF TypeOK
<1>5. ConnectedSeats' = ConnectedSeats
  BY <1>1 DEF ConnectedSeats
<1>6. TurnFlagsSound'
  BY <1>1, <1>2 DEF TurnFlagsSound, IsFirstTurn, IsConnected
<1>7. CountExact' /\ SeatsBeforeTiles' /\ BagMatchesSettings'
  BY <1>2, <1>5 DEF CountExact, SeatsBeforeTiles, BagMatchesSettings,
                    IsFirstTurn
<1>8. TurnNeverLost'
  BY <1>1, <1>2, <1>5 DEF TurnNeverLost, ConnectedSeats
<1>. QED
  BY <1>4, <1>6, <1>7, <1>8

\* Moving a tile changes neither the flags nor how many tiles are in play.
LEMMA MoveTileKeepsInv ==
    ASSUME GameInv,
           NEW p \in Seat, NEW i \in 0 .. MaxTiles - 1, NEW place \in Place,
           MoveTile(p, i, place)
    PROVE  GameInv'
<1>. USE DEF GameInv
<1>1. /\ flags' = flags /\ nPlayers' = nPlayers /\ nConnected' = nConnected
      /\ state' = state /\ bag' = bag /\ totalNTiles' = totalNTiles
      /\ language' = language /\ shoutAge' = shoutAge /\ messages' = messages
  BY DEF MoveTile
<1>2. tiles' \in Seq(Tile) /\ Len(tiles') = Len(tiles)
  <2>1. [place |-> place, lastPlayer |-> p] \in Tile
    BY DEF Tile
  <2>2. tiles \in Seq(Tile)
    BY DEF TypeOK
  <2>3. tiles' = [tiles EXCEPT ![i + 1] = [place |-> place, lastPlayer |-> p]]
    BY DEF MoveTile
  <2>4. i + 1 \in 1 .. Len(tiles)
    BY DEF MoveTile, TypeOK
  <2>. HIDE DEF GameInv
  <2>. QED
    BY <2>1, <2>2, <2>3, <2>4, ExceptSeq
<1>3. TypeOK'
  BY <1>1, <1>2 DEF TypeOK
<1>4. ConnectedSeats' = ConnectedSeats
  BY <1>1 DEF ConnectedSeats, IsConnected
<1>5. TurnFlagsSound' /\ CountExact' /\ SeatsBeforeTiles'
  BY <1>1, <1>2, <1>4 DEF TurnFlagsSound, CountExact, SeatsBeforeTiles,
                          HasNextTurn, IsConnected, IsFirstTurn
<1>6. BagMatchesSettings' /\ TurnNeverLost'
  BY <1>1, <1>2, <1>4 DEF BagMatchesSettings, TurnNeverLost, HasNextTurn,
                          IsFirstTurn
<1>. QED
  BY <1>3, <1>5, <1>6

\* A new player sits down in a seat that nobody had before.
LEMMA AddPlayerKeepsInv ==
    ASSUME GameInv, AddPlayer
    PROVE  GameInv'
<1>. USE DEF GameInv
<1>1. /\ MaxPlayers \in Nat /\ nPlayers \in Seat /\ nPlayers \in Nat
      /\ nPlayers' = nPlayers + 1
      /\ nPlayers' \in 0 .. MaxPlayers
  BY ConversationAssumption DEF AddPlayer, TypeOK, Seat
<1>2. /\ tiles' = tiles /\ bag' = bag /\ totalNTiles' = totalNTiles
      /\ language' = language /\ shoutAge' = shoutAge /\ messages' = messages
      /\ nConnected' = nConnected + 1
      /\ state' \in {state, "IN_PROGRESS"}
  BY DEF AddPlayer, StartAndEmit
<1>3. /\ flags' = [flags EXCEPT ![nPlayers] = {"CONNECTED"}]
      /\ flags' \in [Seat -> SUBSET Flag]
      /\ flags[nPlayers] = {}
  BY <1>1 DEF AddPlayer, TypeOK, Flag, TurnFlagsSound
<1>4. /\ ConnectedSeats' = ConnectedSeats \cup {nPlayers}
      /\ nPlayers \notin ConnectedSeats
  BY <1>1, <1>3 DEF ConnectedSeats, IsConnected, TypeOK
<1>5. Cardinality(ConnectedSeats') = Cardinality(ConnectedSeats) + 1
  BY <1>4, SeatsAreFinite, FS_AddElement DEF ConnectedSeats
<1>6. CountExact'
  BY <1>2, <1>5 DEF CountExact
<1>7. TypeOK'
  <2>1. nConnected' \in 0 .. MaxPlayers
    <3>1. Cardinality(ConnectedSeats') \in 0 .. MaxPlayers
      BY SeatsAreFinite DEF ConnectedSeats
    <3>. QED
      BY <3>1, <1>6 DEF CountExact
  <2>. QED
    BY <1>1, <1>2, <1>3, <2>1 DEF TypeOK, State
<1>8. TurnFlagsSound'
  <2>1. \A q \in Seat : q # nPlayers => flags'[q] = flags[q]
    BY <1>1, <1>3 DEF TypeOK
  <2>2. flags'[nPlayers] = {"CONNECTED"}
    BY <1>1, <1>3 DEF TypeOK
  <2>. QED
    BY <1>1, <1>2, <2>1, <2>2
    DEF TurnFlagsSound, IsConnected, HasNextTurn, IsFirstTurn, Seat
<1>9. BagMatchesSettings' /\ SeatsBeforeTiles'
  BY <1>1, <1>2 DEF BagMatchesSettings, SeatsBeforeTiles, IsFirstTurn
<1>10. TurnNeverLost'
  <2>1. SUFFICES ASSUME 0 < Len(tiles), Len(tiles) < totalNTiles
                 PROVE  \E q \in ConnectedSeats' : HasNextTurn(q)'
    BY <1>2 DEF TurnNeverLost
  <2>2. ConnectedSeats # {}
    BY <1>1, <2>1 DEF AddPlayer, SeatsBeforeTiles, IsFirstTurn
  <2>3. PICK q \in ConnectedSeats : HasNextTurn(q)
    BY <2>1, <2>2 DEF TurnNeverLost
  <2>4. flags'[q] = flags[q]
    BY <1>1, <1>3, <1>4, <2>3 DEF TypeOK, ConnectedSeats
  <2>. QED
    BY <1>4, <2>3, <2>4 DEF HasNextTurn
<1>. QED
  BY <1>6, <1>7, <1>8, <1>9, <1>10

\* A player leaves and hands over the turn, if it was theirs.
LEMMA PlayerLeftKeepsInv ==
    ASSUME GameInv, NEW p \in Seat, PlayerLeft(p)
    PROVE  GameInv'
<1>. USE DEF GameInv
<1>. DEFINE cleared == [flags EXCEPT ![p] = {}]
<1>1. /\ tiles' = tiles /\ bag' = bag /\ totalNTiles' = totalNTiles
      /\ language' = language /\ shoutAge' = shoutAge /\ messages' = messages
      /\ nConnected' = nConnected - 1 /\ nPlayers' = nPlayers
      /\ state' = state
  BY DEF PlayerLeft
<1>2. /\ IsConnected(p) /\ p \in InSeats /\ nPlayers \in 0 .. MaxPlayers
      /\ Len(tiles) \in Nat /\ MaxPlayers \in Nat
      /\ cleared \in [Seat -> SUBSET Flag]
      /\ totalNTiles \in Nat
  BY ConversationAssumption
  DEF PlayerLeft, TurnFlagsSound, IsConnected, TypeOK, InSeats, Seat
<1>3. /\ cleared[p] = {}
      /\ \A q \in Seat : q # p => cleared[q] = flags[q]
  BY DEF TypeOK
<1>4. flags' = IF HasNextTurn(p) THEN PassTurn(cleared, p, Len(tiles))
               ELSE cleared
  BY DEF PlayerLeft
\* What holds of the flags afterwards, whether or not the turn was passed.
<1>5. /\ flags' \in [Seat -> SUBSET Flag]
      /\ \A q \in Seat : "CONNECTED" \in flags'[q] <=> "CONNECTED" \in cleared[q]
      /\ \A q \in Seat : flags'[q] # {} =>
           \/ cleared[q] # {}
           \/ "CONNECTED" \in cleared[q] /\ q \in InSeats
  <2>. HIDE DEF cleared
  <2>1. CASE HasNextTurn(p)
    BY <1>2, <1>4, <2>1, PassTurnGivesOnlyTheTurn
  <2>2. CASE ~HasNextTurn(p)
    BY <1>2, <1>4, <2>2
  <2>. QED
    BY <2>1, <2>2
<1>6. \A q, r \in Seat : HasNextTurn(q)' /\ HasNextTurn(r)' => q = r
  <2>1. CASE HasNextTurn(p)
    <3>1. \A q \in Seat : "NEXT_TURN" \in cleared[q] => q = p
      BY <1>3, <2>1 DEF TurnFlagsSound, HasNextTurn
    <3>2. flags' = PassTurn(cleared, p, Len(tiles))
      BY <1>4, <2>1
    <3>. HIDE DEF cleared, GameInv
    <3>. QED
      BY <1>2, <3>1, <3>2, PassTurnToOne DEF HasNextTurn
  <2>2. CASE ~HasNextTurn(p)
    BY <1>3, <1>4, <2>2 DEF TurnFlagsSound, HasNextTurn
  <2>. QED
    BY <2>1, <2>2
<1>7. ConnectedSeats' = ConnectedSeats \ {p} /\ p \in ConnectedSeats
  BY <1>2, <1>3, <1>5 DEF ConnectedSeats, IsConnected
<1>8. CountExact' /\ nConnected' \in 0 .. MaxPlayers
  <2>1. Cardinality(ConnectedSeats') = Cardinality(ConnectedSeats) - 1
    BY <1>7, SeatsAreFinite, FS_RemoveElement DEF ConnectedSeats
  <2>2. Cardinality(ConnectedSeats') \in 0 .. MaxPlayers
    BY SeatsAreFinite DEF ConnectedSeats
  <2>. QED
    BY <1>1, <2>1, <2>2 DEF CountExact
<1>9. TypeOK'
  BY <1>1, <1>5, <1>8 DEF TypeOK
<1>10. TurnFlagsSound'
  <2>1. \A q \in Seat : flags'[q] # {} =>
          q < nPlayers /\ "CONNECTED" \in flags'[q]
    BY <1>2, <1>3, <1>5 DEF TurnFlagsSound, IsConnected, InSeats
  <2>2. \A q \in Seat : HasNextTurn(q)' => ~IsFirstTurn
    BY <1>3, <1>4, <1>5 DEF TurnFlagsSound, HasNextTurn
  <2>. QED
    BY <1>1, <1>6, <2>1, <2>2
    DEF TurnFlagsSound, IsConnected, IsFirstTurn
<1>11. BagMatchesSettings' /\ SeatsBeforeTiles'
  BY <1>1 DEF BagMatchesSettings, SeatsBeforeTiles, IsFirstTurn
<1>12. TurnNeverLost'
  <2>1. SUFFICES ASSUME 0 < Len(tiles), Len(tiles) < totalNTiles,
                        NEW q \in ConnectedSeats'
                 PROVE  \E r \in ConnectedSeats' : HasNextTurn(r)'
    BY <1>1 DEF TurnNeverLost
  <2>2. q \in InSeats /\ q # p /\ "CONNECTED" \in cleared[q]
    <3>1. q \in Seat /\ q # p /\ "CONNECTED" \in flags[q]
      BY <1>7 DEF ConnectedSeats, IsConnected
    <3>2. q < nPlayers
      BY <3>1 DEF TurnFlagsSound
    <3>. QED
      BY <1>2, <1>3, <3>1, <3>2 DEF InSeats, Seat
  <2>3. CASE HasNextTurn(p)
    <3>1. flags' = PassTurn(cleared, p, Len(tiles))
      BY <1>4, <2>3
    <3>2. \E r \in Seat : "CONNECTED" \in flags'[r] /\ "NEXT_TURN" \in flags'[r]
      <4>. HIDE DEF cleared, GameInv
      <4>. QED
        BY <1>2, <2>1, <2>2, <3>1, PassTurnReachesSomeone
    <3>. QED
      BY <3>2 DEF ConnectedSeats, IsConnected, HasNextTurn
  <2>4. CASE ~HasNextTurn(p)
    <3>1. PICK r \in ConnectedSeats : HasNextTurn(r)
      BY <1>7, <2>1 DEF TurnNeverLost
    <3>2. r # p /\ flags'[r] = flags[r]
      BY <1>3, <1>4, <2>4, <3>1 DEF ConnectedSeats
    <3>. QED
      BY <1>7, <3>1, <3>2 DEF HasNextTurn
  <2>. QED
    BY <2>3, <2>4
<1>. QED
  BY <1>8, <1>9, <1>10, <1>11, <1>12

\* What the new flags must satisfy for a turn to keep the invariant.
LEMMA FlagsAfterTurnKeepInv ==
    ASSUME GameInv, NEW p \in Seat, Turn(p),
           p \in InSeats, "CONNECTED" \in flags[p],
           tiles' \in Seq(Tile), Len(tiles') = Len(tiles) + 1,
           flags' \in [Seat -> SUBSET Flag],
           \A q \in Seat : "CONNECTED" \in flags'[q] <=> "CONNECTED" \in flags[q],
           \A q \in Seat : flags'[q] # {} =>
             \/ flags[q] # {}
             \/ "CONNECTED" \in flags[q] /\ q \in InSeats,
           \A q, r \in Seat :
             "NEXT_TURN" \in flags'[q] /\ "NEXT_TURN" \in flags'[r] => q = r,
           Len(tiles) + 1 < totalNTiles =>
             \E r \in Seat : "CONNECTED" \in flags'[r] /\ "NEXT_TURN" \in flags'[r]
    PROVE  GameInv'
<1>. USE DEF GameInv
<1>1. /\ totalNTiles' = totalNTiles /\ language' = language
      /\ shoutAge' = shoutAge /\ messages' = messages
      /\ nConnected' = nConnected /\ nPlayers' = nPlayers
      /\ bag' = IF IsFirstTurn THEN language ELSE bag
      /\ state' = "IN_PROGRESS"
      /\ Len(tiles) < totalNTiles
  BY DEF Turn, StartAndEmit
<1>2. Len(tiles) \in Nat /\ nPlayers \in Nat /\ totalNTiles \in Nat
  BY ConversationAssumption DEF TypeOK
<1>3. TypeOK'
  <2>1. bag' \in Language \cup {NoBag}
    BY <1>1 DEF TypeOK
  <2>. QED
    BY <1>1, <2>1 DEF TypeOK, State
<1>4. ConnectedSeats' = ConnectedSeats
  BY DEF ConnectedSeats, IsConnected
<1>5. CountExact' /\ SeatsBeforeTiles'
  BY <1>1, <1>2, <1>4 DEF CountExact, SeatsBeforeTiles, InSeats
<1>6. TurnFlagsSound'
  BY <1>1, <1>2 DEF TurnFlagsSound, IsConnected, HasNextTurn, IsFirstTurn,
                    InSeats
<1>7. BagMatchesSettings'
  BY <1>1, <1>2 DEF BagMatchesSettings, IsFirstTurn
<1>8. TurnNeverLost'
  BY <1>1, <1>2 DEF TurnNeverLost, ConnectedSeats, IsConnected, HasNextTurn
<1>. QED
  BY <1>3, <1>5, <1>6, <1>7, <1>8

\* A player turns a tile: the first one, or in their turn.
LEMMA TurnKeepsInv ==
    ASSUME GameInv, NEW p \in Seat, Turn(p)
    PROVE  GameInv'
<1>. USE DEF GameInv
<1>1. /\ totalNTiles' = totalNTiles /\ language' = language
      /\ shoutAge' = shoutAge /\ messages' = messages
      /\ nConnected' = nConnected /\ nPlayers' = nPlayers
      /\ bag' = IF IsFirstTurn THEN language ELSE bag
      /\ state' = "IN_PROGRESS"
      /\ IsConnected(p)
      /\ IsFirstTurn \/ HasNextTurn(p)
      /\ flags' = FlagsAfterTurn(p)
  BY DEF Turn, StartAndEmit
<1>2. /\ p \in InSeats /\ nPlayers \in 0 .. MaxPlayers
      /\ MaxPlayers \in Nat /\ InSeats \subseteq Seat
      /\ Len(tiles) \in Nat /\ Len(tiles) + 1 \in Nat
      /\ totalNTiles \in Nat /\ Len(tiles) < totalNTiles
      /\ flags \in [Seat -> SUBSET Flag]
  BY <1>1, ConversationAssumption
  DEF Turn, TurnFlagsSound, IsConnected, TypeOK, InSeats, Seat
<1>3. tiles' \in Seq(Tile) /\ Len(tiles') = Len(tiles) + 1
  <2>1. PICK place \in Place :
          tiles' = Append(tiles, [place |-> place, lastPlayer |-> Nobody])
    BY DEF Turn
  <2>2. [place |-> place, lastPlayer |-> Nobody] \in Tile
    BY DEF Tile
  <2>. QED
    BY <2>1, <2>2, AppendProperties DEF TypeOK
\* Before the turn is passed at most the player who turned the tile has it.
<1>4. \A q \in Seat : "NEXT_TURN" \in flags[q] => q = p
  BY <1>1 DEF TurnFlagsSound, HasNextTurn
<1>5. CASE IsFirstTurn /\ nConnected = 1
  <2>1. flags' = [flags EXCEPT ![p] = @ \cup {"NEXT_TURN"}]
    BY <1>1, <1>5 DEF FlagsAfterTurn, GiveTurn
  <2>2. /\ flags' \in [Seat -> SUBSET Flag]
        /\ \A q \in Seat : "CONNECTED" \in flags'[q] <=> "CONNECTED" \in flags[q]
        /\ \A q \in Seat : "NEXT_TURN" \in flags'[q] <=> q = p
        /\ \A q \in Seat : q # p => flags'[q] = flags[q]
    <3>1. /\ flags'[p] = flags[p] \cup {"NEXT_TURN"}
          /\ \A q \in Seat : q # p => flags'[q] = flags[q]
      BY <1>2, <2>1
    <3>2. flags' \in [Seat -> SUBSET Flag]
      BY <1>2, <2>1 DEF Flag
    <3>3. ASSUME NEW q \in Seat
          PROVE  /\ "CONNECTED" \in flags'[q] <=> "CONNECTED" \in flags[q]
                 /\ "NEXT_TURN" \in flags'[q] <=> q = p
      <4>1. CASE q = p
        BY <3>1, <4>1
      <4>2. CASE q # p
        BY <1>4, <3>1, <4>2
      <4>. QED
        BY <4>1, <4>2
    <3>. HIDE DEF GameInv
    <3>. QED
      BY <3>1, <3>2, <3>3
  <2>. QED
    BY <1>1, <1>2, <1>3, <2>2, FlagsAfterTurnKeepInv DEF IsConnected
<1>6. CASE ~(IsFirstTurn /\ nConnected = 1)
  <2>. DEFINE inPlay == Len(tiles) + 1
  <2>1. flags' = PassTurn(flags, p, inPlay)
    BY <1>1, <1>6 DEF FlagsAfterTurn
  <2>a. inPlay \in Nat /\ (inPlay < totalNTiles => ~(inPlay >= totalNTiles))
    BY <1>2
  <2>. HIDE DEF inPlay
  <2>2. /\ flags' \in [Seat -> SUBSET Flag]
        /\ \A q \in Seat : "CONNECTED" \in flags'[q] <=> "CONNECTED" \in flags[q]
        /\ \A q \in Seat : flags'[q] # {} =>
             \/ flags[q] # {}
             \/ "CONNECTED" \in flags[q] /\ q \in InSeats
    BY <1>2, <2>1, <2>a, PassTurnGivesOnlyTheTurn
  <2>3. \A q, r \in Seat :
          "NEXT_TURN" \in flags'[q] /\ "NEXT_TURN" \in flags'[r] => q = r
    BY <1>2, <1>4, <2>1, <2>a, PassTurnToOne
  <2>4. ASSUME inPlay < totalNTiles
        PROVE  \E r \in Seat : "CONNECTED" \in flags'[r] /\ "NEXT_TURN" \in flags'[r]
    <3>1. PICK q \in InSeats : "CONNECTED" \in flags[q]
                             /\ (q = p => "NEXT_TURN" \in flags[q])
      <4>1. CASE HasNextTurn(p)
        BY <1>1, <1>2, <4>1 DEF HasNextTurn, IsConnected
      <4>2. CASE ~HasNextTurn(p)
        <5>1. Cardinality(ConnectedSeats) # 1
          BY <1>1, <1>6, <4>2 DEF CountExact
        <5>2. p \in ConnectedSeats /\ ConnectedSeats # {p}
          BY <1>1, <5>1, FS_Singleton DEF ConnectedSeats
        <5>3. PICK q \in ConnectedSeats : q # p
          BY <5>2
        <5>4. q \in Seat /\ "CONNECTED" \in flags[q]
          BY <5>3 DEF ConnectedSeats, IsConnected
        <5>5. q < nPlayers
          BY <5>4 DEF TurnFlagsSound
        <5>. QED
          BY <1>2, <5>3, <5>4, <5>5 DEF InSeats, Seat
      <4>. QED
        BY <4>1, <4>2
    <3>. QED
      BY <1>2, <2>1, <2>a, <2>4, <3>1, PassTurnReachesSomeone
  <2>. QED
    BY <1>1, <1>2, <1>3, <2>2, <2>3, <2>4, FlagsAfterTurnKeepInv
    DEF IsConnected, inPlay
<1>. QED
  BY <1>5, <1>6

LEMMA NextKeepsInv == GameInv /\ [Next]_game => GameInv'
<1>. SUFFICES ASSUME GameInv, [Next]_game PROVE GameInv'
  OBVIOUS
<1>1. CASE AddPlayer
  BY <1>1, AddPlayerKeepsInv
<1>2. CASE \E p \in Seat : PlayerLeft(p)
  BY <1>2, PlayerLeftKeepsInv
<1>3. CASE \E p \in Seat, typing \in BOOLEAN : SetTyping(p, typing)
  BY <1>3, ChatKeepsInv
<1>4. CASE \E p \in Seat, text \in Text : SendMessage(p, text)
  BY <1>4, ChatKeepsInv
<1>5. CASE \/ \E p \in Seat, n \in 0 .. MaxTiles + 1 : SetNTiles(p, n)
           \/ \E p \in Seat, lang \in Language : SetTileData(p, lang)
           \/ \E p \in Seat : Shout(p)
           \/ Tick
           \/ UNCHANGED game
  BY <1>5, SettingsKeepInv
<1>6. CASE \E p \in Seat : Turn(p)
  BY <1>6, TurnKeepsInv
<1>7. CASE \E p \in Seat, i \in 0 .. MaxTiles - 1, place \in Place :
             MoveTile(p, i, place)
  BY <1>7, MoveTileKeepsInv
<1>. QED
  BY <1>1, <1>2, <1>3, <1>4, <1>5, <1>6, <1>7 DEF Next

-----------------------------------------------------------------------------
(* The theorems.                                                           *)

\* Every step of vsx-conversation.c keeps the invariant, for any number of
\* seats, tiles, languages, places and texts.
THEOREM GameInvariant == Spec => []GameInv
<1>. QED
  BY InitGameInv, NextKeepsInv, PTL DEF Spec

\* The fields of a conversation keep their types and ranges: the counters
\* n_players and n_connected_players never leave the range of the seats.
THEOREM TypeCorrect == Spec => []TypeOK
<1>1. GameInv => TypeOK
  BY DEF GameInv
<1>. QED
  BY <1>1, GameInvariant, PTL

\* set_next_player, player_left and turn together never give the turn to two
\* players, to one that has left or to anybody before the first tile.
THEOREM TurnFlagsAreSound == Spec => []TurnFlagsSound
<1>1. GameInv => TurnFlagsSound
  BY DEF GameInv
<1>. QED
  BY <1>1, GameInvariant, PTL

\* A game with tiles left in which somebody is connected can always go on:
\* a connected player has the turn once the first tile is on the board.
THEOREM TurnIsNeverLost == Spec => []TurnNeverLost
<1>1. GameInv => TurnNeverLost
  BY DEF GameInv
<1>. QED
  BY <1>1, GameInvariant, PTL

\* The counter that vsx_conversation_turn looks at is the number of
\* connected players.
THEOREM CountIsExact == Spec => []CountExact
<1>1. GameInv => CountExact
  BY DEF GameInv
<1>. QED
  BY <1>1, GameInvariant, PTL

\* The bag that init_tile_data filled late is the one of the language and
\* the number of tiles that the players were last told.
THEOREM BagFollowsSettings == Spec => []BagMatchesSettings
<1>1. GameInv => BagMatchesSettings
  BY DEF GameInv
<1>. QED
  BY <1>1, GameInvariant, PTL

\* The turn goes round the table: a player is passed over only if they have
\* left, and the turn is taken only from one who turned a tile or left.
THEOREM TurnPassesRound == Spec => TurnGoesRound
<1>. DEFINE Round ==
       \A p, q \in Seat :
         /\ p # q
         /\ HasNextTurn(p) /\ ~HasNextTurn(q) /\ HasNextTurn(q)'
         => /\ Len(tiles') = Len(tiles) + 1 \/ ~IsConnected(p)'
            /\ \A r \in InSeats \ {p, q} :
                 StepsRound(p, r) < StepsRound(p, q) => ~IsConnected(r)
<1>1. GameInv /\ [Next]_game => [Round]_game
  <2>1. SUFFICES ASSUME GameInv, Next,
                        NEW p \in Seat, NEW q \in Seat, p # q,
                        HasNextTurn(p), ~HasNextTurn(q), HasNextTurn(q)'
                 PROVE  /\ Len(tiles') = Len(tiles) + 1 \/ ~IsConnected(p)'
                        /\ \A r \in InSeats \ {p, q} :
                             IsConnected(r) => ~(StepsRound(p, r) < StepsRound(p, q))
    BY Zenon DEF Round
  <2>2. /\ nPlayers \in 0 .. MaxPlayers /\ flags \in [Seat -> SUBSET Flag]
        /\ Len(tiles) \in Nat /\ Len(tiles) + 1 \in Nat
        /\ p \in InSeats /\ ~IsFirstTurn
        /\ \A l \in Seat : HasNextTurn(l) => l = p
    BY <2>1, ConversationAssumption
    DEF GameInv, TypeOK, TurnFlagsSound, HasNextTurn, InSeats, Seat
  <2>3. \A r \in InSeats : StepsRound(p, r) \in Int /\ StepsRound(p, q) \in Int
    BY <2>2, ConversationAssumption DEF InSeats, Seat, StepsRound
  <2>4. CASE \E l \in Seat : Turn(l)
    <3>1. Turn(p)
      BY <2>2, <2>4 DEF Turn
    <3>2. Len(tiles') = Len(tiles) + 1
      BY <3>1, <2>2, AppendProperties DEF Turn, GameInv, TypeOK
    <3>3. flags' = PassTurn(flags, p, Len(tiles) + 1)
      BY <3>1, <2>2 DEF Turn, FlagsAfterTurn
    <3>4. ASSUME NEW r \in InSeats \ {p, q}, IsConnected(r)
          PROVE  StepsRound(p, q) <= StepsRound(p, r)
      BY <2>1, <2>2, <3>3, <3>4, PassTurnGoesRound DEF HasNextTurn, IsConnected
    <3>. QED
      BY <2>3, <3>2, <3>4
  <2>5. CASE \E l \in Seat : PlayerLeft(l)
    <3>1. PICK l \in Seat : PlayerLeft(l)
      BY <2>5
    <3>. DEFINE cleared == [flags EXCEPT ![l] = {}]
    <3>2. /\ cleared \in [Seat -> SUBSET Flag] /\ cleared[l] = {}
          /\ \A r \in Seat : r # l => cleared[r] = flags[r]
      BY <2>2
    <3>3. flags' = IF HasNextTurn(l) THEN PassTurn(cleared, l, Len(tiles))
                   ELSE cleared
      BY <3>1 DEF PlayerLeft
    <3>4. HasNextTurn(l)
      BY <2>1, <3>2, <3>3 DEF HasNextTurn
    <3>5. l = p /\ flags' = PassTurn(cleared, p, Len(tiles))
      BY <2>2, <3>3, <3>4
    <3>6. ~IsConnected(p)'
      <4>. HIDE DEF cleared
      <4>. QED
        BY <2>2, <3>2, <3>5, PassTurnGivesOnlyTheTurn DEF IsConnected
    <3>7. ASSUME NEW r \in InSeats \ {p, q}, IsConnected(r)
          PROVE  StepsRound(p, q) <= StepsRound(p, r)
      <4>1. r \in Seat /\ "CONNECTED" \in cleared[r]
        BY <2>2, <3>2, <3>5, <3>7, ConversationAssumption
        DEF IsConnected, InSeats, Seat
      <4>2. "NEXT_TURN" \notin cleared[q] /\ "NEXT_TURN" \in flags'[q]
        BY <2>1, <3>2, <3>5 DEF HasNextTurn
      <4>. HIDE DEF cleared
      <4>. QED
        BY <2>1, <2>2, <3>2, <3>5, <4>1, <4>2, PassTurnGoesRound
    <3>. QED
      BY <2>3, <3>6, <3>7
  <2>6. ASSUME ~(\E l \in Seat : Turn(l)), ~(\E l \in Seat : PlayerLeft(l))
        PROVE  FALSE
    <3>1. CASE AddPlayer
      BY <2>1, <2>2, <3>1 DEF AddPlayer, HasNextTurn
    <3>2. ASSUME NEW l \in Seat,
                 \/ \E typing \in BOOLEAN : SetTyping(l, typing)
                 \/ \E text \in Text : SendMessage(l, text)
          PROVE  FALSE
      <4>1. \/ flags' = [flags EXCEPT ![l] = @ \cup {"TYPING"}]
            \/ flags' = [flags EXCEPT ![l] = @ \ {"TYPING"}]
        BY <3>2 DEF SetTyping, SendMessage
      <4>. QED
        BY <2>1, <2>2, <4>1 DEF HasNextTurn
    <3>3. CASE flags' = flags
      BY <2>1, <3>3 DEF HasNextTurn
    <3>. QED
      BY <2>1, <2>6, <3>1, <3>2, <3>3
      DEF Next, SetNTiles, SetTileData, MoveTile, Shout, Tick
  <2>. QED
    BY <2>4, <2>5, <2>6
<1>. QED
  BY <1>1, GameInvariant, PTL DEF TurnGoesRound, Spec

-----------------------------------------------------------------------------
(* The connections of its clients.                                         *)

\* Induction, for sets of numbers.
LEMMA SetInduction ==
    ASSUME NEW S \in SUBSET Nat, 0 \in S, \A n \in S : n + 1 \in S
    PROVE  S = Nat
<1>1. SUFFICES ASSUME Nat \ S # {} PROVE FALSE
  OBVIOUS
<1>2. PICK m \in Nat \ S : \A n \in Nat \ S : m <= n
  BY <1>1, LeastNatural
<1>3. m - 1 \in Nat /\ m - 1 \notin Nat \ S
  BY <1>2
<1>. QED
  BY <1>2, <1>3

-----------------------------------------------------------------------------
(* What a client has been told after a number of commands.                 *)

\* The views that a client passes through.
Views(v, sent) ==
    CHOOSE f : f = [i \in 0 .. Len(sent) |-> IF i = 0 THEN v ELSE Told(f[i - 1], sent[i])]

LEMMA ViewsExist ==
    ASSUME NEW v, NEW sent, Len(sent) \in Nat
    PROVE  /\ Views(v, sent) =
                [i \in 0 .. Len(sent) |->
                   IF i = 0 THEN v ELSE Told(Views(v, sent)[i - 1], sent[i])]
           /\ ViewAfter(v, sent) = Views(v, sent)[Len(sent)]
<1>. DEFINE Upto(n, f) == f = [i \in 0 .. n |-> IF i = 0 THEN v ELSE Told(f[i - 1], sent[i])]
            S == {n \in Nat : \E f : Upto(n, f)}
<1>1. 0 \in S
  <2>. DEFINE f == [i \in 0 .. 0 |-> v]
  <2>1. Upto(0, f)
    BY Z3
  <2>. QED
    BY <2>1
<1>2. ASSUME NEW n \in S PROVE n + 1 \in S
  <2>1. PICK f : Upto(n, f)
    OBVIOUS
  <2>. DEFINE g == [i \in 0 .. n + 1 |-> IF i <= n THEN f[i] ELSE Told(f[n], sent[n + 1])]
  <2>2. \A i \in 0 .. n + 1 : g[i] = IF i = 0 THEN v ELSE Told(g[i - 1], sent[i])
    BY <2>1
  <2>3. Upto(n + 1, g)
    BY <2>2
  <2>. HIDE DEF Upto, g
  <2>. QED
    BY <2>3
<1>3. S = Nat
  <2>. HIDE DEF S
  <2>1. S \in SUBSET Nat
    BY DEF S
  <2>. QED
    BY <1>1, <1>2, <2>1, SetInduction
<1>4. \E f : Upto(Len(sent), f)
  BY <1>3
<1>5. Upto(Len(sent), Views(v, sent))
  BY <1>4 DEF Views
<1>6. ViewAfter(v, sent) = Views(v, sent)[Len(sent)]
  BY DEF ViewAfter, Views
<1>. QED
  BY <1>5, <1>6

\* No command changes nothing; one more is told last; and what a client is told
\* first makes no difference to what it knows in the end.
LEMMA ViewAfterNothing ==
    ASSUME NEW v
    PROVE  ViewAfter(v, <<>>) = v
<1>1. Len(<<>>) = 0
  OBVIOUS
<1>2. /\ Views(v, <<>>) = [i \in 0 .. 0 |->
                             IF i = 0 THEN v ELSE Told(Views(v, <<>>)[i - 1], <<>>[i])]
      /\ ViewAfter(v, <<>>) = Views(v, <<>>)[0]
  <2>. DEFINE none == <<>>
  <2>1. Len(none) = 0 /\ Len(none) \in Nat
    OBVIOUS
  <2>. HIDE DEF none
  <2>2. /\ Views(v, none) = [i \in 0 .. Len(none) |->
                               IF i = 0 THEN v ELSE Told(Views(v, none)[i - 1], none[i])]
        /\ ViewAfter(v, none) = Views(v, none)[Len(none)]
    BY <2>1, ViewsExist
  <2>. QED
    BY <2>1, <2>2 DEF none
<1>. QED
  BY <1>2

LEMMA ViewAfterOneMore ==
    ASSUME NEW v, NEW S, NEW sent \in Seq(S), NEW command \in S
    PROVE  ViewAfter(v, Append(sent, command)) = Told(ViewAfter(v, sent), command)
<1>. DEFINE n == Len(sent)
            more == Append(sent, command)
            f == Views(v, sent)
            g == Views(v, more)
<1>1. n \in Nat /\ Len(more) = n + 1 /\ more[n + 1] = command
      /\ \A i \in 1 .. n : more[i] = sent[i]
  BY AppendProperties, LenProperties
<1>2. /\ f = [i \in 0 .. n |-> IF i = 0 THEN v ELSE Told(f[i - 1], sent[i])]
      /\ ViewAfter(v, sent) = f[n]
  BY <1>1, ViewsExist
<1>3. /\ g = [i \in 0 .. n + 1 |-> IF i = 0 THEN v ELSE Told(g[i - 1], more[i])]
      /\ ViewAfter(v, more) = g[n + 1]
  <2>. HIDE DEF n, more
  <2>1. Len(more) \in Nat
    BY <1>1
  <2>2. /\ Views(v, more) = [i \in 0 .. Len(more) |->
             IF i = 0 THEN v ELSE Told(Views(v, more)[i - 1], more[i])]
        /\ ViewAfter(v, more) = Views(v, more)[Len(more)]
    BY <2>1, ViewsExist
  <2>. QED
    BY <1>1, <2>2
<1>. HIDE DEF f, g, n, more
<1>. DEFINE S0 == {i \in Nat : i <= n => g[i] = f[i]}
<1>4. 0 \in S0
  BY <1>1, <1>2, <1>3
<1>5. ASSUME NEW i \in S0 PROVE i + 1 \in S0
  BY <1>1, <1>2, <1>3
<1>6. S0 = Nat
  <2>1. S0 \in SUBSET Nat
    OBVIOUS
  <2>. HIDE DEF S0
  <2>. QED
    BY <1>4, <1>5, <2>1, SetInduction
<1>7. g[n] = f[n]
  BY <1>1, <1>6
<1>. QED
  BY <1>1, <1>2, <1>3, <1>7 DEF more

LEMMA ViewAfterFirst ==
    ASSUME NEW v, NEW S, NEW sent \in Seq(S), sent # <<>>
    PROVE  ViewAfter(v, sent) = ViewAfter(Told(v, Head(sent)), Tail(sent))
<1>. DEFINE n == Len(sent)
            rest == Tail(sent)
            w == Told(v, sent[1])
            f == Views(v, sent)
            g == Views(w, rest)
<1>1. n \in Nat \ {0} /\ Len(rest) = n - 1 /\ Head(sent) = sent[1]
      /\ \A i \in 1 .. n - 1 : rest[i] = sent[i + 1]
  BY HeadTailProperties, EmptySeq
<1>2. /\ f = [i \in 0 .. n |-> IF i = 0 THEN v ELSE Told(f[i - 1], sent[i])]
      /\ ViewAfter(v, sent) = f[n]
  BY <1>1, ViewsExist
<1>3. /\ g = [i \in 0 .. n - 1 |-> IF i = 0 THEN w ELSE Told(g[i - 1], rest[i])]
      /\ ViewAfter(w, rest) = g[n - 1]
  <2>. HIDE DEF n, rest
  <2>1. Len(rest) \in Nat
    BY <1>1
  <2>2. /\ Views(w, rest) = [i \in 0 .. Len(rest) |->
             IF i = 0 THEN w ELSE Told(Views(w, rest)[i - 1], rest[i])]
        /\ ViewAfter(w, rest) = Views(w, rest)[Len(rest)]
    BY <2>1, ViewsExist
  <2>. QED
    BY <1>1, <2>2
<1>. HIDE DEF f, g, n, rest
<1>. DEFINE S0 == {i \in Nat : i < n => g[i] = f[i + 1]}
<1>4. 0 \in S0
  BY <1>1, <1>2, <1>3
<1>. HIDE DEF w
<1>5. ASSUME NEW i \in S0 PROVE i + 1 \in S0
  <2>. SUFFICES ASSUME i + 1 < n PROVE g[i + 1] = f[i + 2]
    OBVIOUS
  <2>1. g[i + 1] = Told(g[i], rest[i + 1])
    BY <1>1, <1>3
  <2>2. f[i + 2] = Told(f[i + 1], sent[i + 2])
    BY <1>1, <1>2
  <2>3. g[i] = f[i + 1] /\ rest[i + 1] = sent[i + 2]
    BY <1>1
  <2>. QED
    BY <2>1, <2>2, <2>3
<1>6. S0 = Nat
  <2>1. S0 \in SUBSET Nat
    OBVIOUS
  <2>. HIDE DEF S0
  <2>. QED
    BY <1>4, <1>5, <2>1, SetInduction
<1>7. g[n - 1] = f[n]
  BY <1>1, <1>6
<1>. QED
  BY <1>1, <1>2, <1>3, <1>7 DEF w, rest

-----------------------------------------------------------------------------
(* The invariant.                                                          *)

Command ==
    [kind : {"PLAYER_ID", "PLAYER_NAME", "PLAYER_SHOUTED"}, num : Seat]
      \cup [kind : {"CONVERSATION_ID", "SYNC", "END", "ERROR"}]
      \cup [kind : {"N_TILES"}, value : 1 .. MaxTiles]
      \cup [kind : {"LANGUAGE"}, value : Language]
      \cup [kind : {"PLAYER"}, num : Seat, value : SUBSET Flag]
      \cup [kind : {"TILE"}, num : 0 .. MaxTiles - 1, value : Tile]
      \cup [kind : {"MESSAGE"}, num : Nat]

Link == [state : {"CLOSED", "OPEN", "DONE", "REFUSED"}, follows : BOOLEAN,
         messageNum : Nat, namedPlayers : Nat, dirtyPlayers : SUBSET Seat,
         dirtyTiles : SUBSET (0 .. MaxTiles - 1), dirtyFlags : SUBSET DirtyFlag,
         pendingShout : Seat]

View == [self : Seat \cup {Nobody}, names : SUBSET Seat,
         flags : [Seat -> SUBSET Flag], nTiles : 0 .. MaxTiles,
         language : Language \cup {NoBag},
         tiles : [0 .. MaxTiles - 1 -> Tile \cup {NoTile}],
         log : Seq(Nat), synced : BOOLEAN, over : BOOLEAN]

Person == [seat : Seat \cup {Nobody}, offset : Nat, known : BOOLEAN, byId : BOOLEAN]

PersonOK(c) ==
    /\ person[c] \in Person
    /\ person[c].offset <= Len(messages)
    /\ person[c] # NoPerson => person[c].seat \in InSeats

\* A connection is in range of the game, and one that follows nobody has
\* nothing but an error to tell.
LinkOK(c, k) ==
    /\ k \in Link
    /\ k.namedPlayers \in 0 .. nPlayers
    /\ k.messageNum \in 0 .. Len(messages)
    /\ k.dirtyPlayers \subseteq InSeats
    /\ k.dirtyTiles \subseteq 0 .. Len(tiles) - 1
    /\ k.follows => person[c].seat \in InSeats /\ "ERROR" \notin k.dirtyFlags
    /\ ~k.follows =>
         k.dirtyPlayers = {} /\ k.dirtyTiles = {} /\ k.dirtyFlags \subseteq {"ERROR"}

\* What the client of k will know is what is not noted in k.
KnowsOrNoted(c, k, w) ==
    /\ w \in View
    /\ k.follows =>
         /\ \A p \in InSeats \ k.dirtyPlayers : w.flags[p] = flags[p]
         /\ \A p \in InSeats : p >= k.namedPlayers \/ p \in w.names
         /\ \A i \in (0 .. Len(tiles) - 1) \ k.dirtyTiles : w.tiles[i] = tiles[i + 1]
         /\ "N_TILES" \notin k.dirtyFlags => w.nTiles = totalNTiles
         /\ "LANGUAGE" \notin k.dirtyFlags => w.language = language
         /\ "PLAYER_ID" \notin k.dirtyFlags => w.self = person[c].seat

IsMessage(command) == command.kind = "MESSAGE"
IsId(command) == command.kind = "PLAYER_ID"

\* Who has no id yet has not been told anything that was said, and the id is
\* on its way before that.
IdFirst(k, v, s) ==
    v.self = Nobody =>
      /\ v.log = <<>>
      /\ \A i \in 1 .. Len(s) : IsMessage(s[i]) => \E j \in 1 .. i - 1 : IsId(s[j])
      /\ k.follows => "PLAYER_ID" \in k.dirtyFlags \/ \E j \in 1 .. Len(s) : IsId(s[j])

\* The client has the first messages after it came, the next ones are on their
\* way, each once and in order, and then come those that are still to be told.
ChatInOrder(c, k, v, s) ==
    Counted(c) =>
      LET had == person[c].offset + Len(v.log) IN
      /\ had <= Len(messages)
      /\ \A i \in 1 .. Len(v.log) : v.log[i] = person[c].offset + i
      /\ k.follows =>
           /\ had <= k.messageNum
           /\ \A i \in 1 .. Len(s) : IsMessage(s[i]) => s[i].num \in had + 1 .. k.messageNum
           /\ \A m \in had + 1 .. k.messageNum :
                \E i \in 1 .. Len(s) : IsMessage(s[i]) /\ s[i].num = m
           /\ \A i, j \in 1 .. Len(s) :
                i < j /\ IsMessage(s[i]) /\ IsMessage(s[j]) => s[i].num < s[j].num

\* RECONNECT can count what is said in the game.
CountFits == MaxMessages < CountModulus

\* All of it, for a connection k and its output buffer.
Filled(c, k, o) ==
    LET s == wire[c] \o o IN
    /\ o \in Seq(Command)
    /\ LinkOK(c, k)
    /\ KnowsOrNoted(c, k, ViewAfter(view[c], s))
    /\ IdFirst(k, view[c], s)
    /\ CountFits => ChatInOrder(c, k, view[c], s)
    /\ ~k.follows => \A i \in 1 .. Len(s) : s[i].kind = "ERROR"

Linked(c) ==
    /\ PersonOK(c)
    /\ wire[c] \in Seq(Command) /\ Len(wire[c]) <= WireCap
    /\ Len(out[c]) <= OutCap
    /\ view[c] \in View
    /\ conn[c].state \in {"CLOSED", "REFUSED"} =>
         ~conn[c].follows /\ out[c] = <<>> /\ wire[c] = <<>>
    /\ Filled(c, conn[c], out[c])

LinkInvariant ==
    /\ GameInv
    /\ Len(messages) <= MaxMessages
    /\ person \in [Client -> Person] /\ DOMAIN conn = Client
    /\ DOMAIN out = Client /\ DOMAIN wire = Client /\ DOMAIN view = Client
    /\ \A c \in Client : Linked(c)

-----------------------------------------------------------------------------
(* What the commands tell.                                                 *)

LEMMA CommandKinds ==
    ASSUME NEW m \in Command
    PROVE  /\ m.kind \in {"PLAYER_ID", "PLAYER_NAME", "PLAYER_SHOUTED", "PLAYER"} => m.num \in Seat
           /\ m.kind = "N_TILES" => m.value \in 1 .. MaxTiles
           /\ m.kind = "LANGUAGE" => m.value \in Language
           /\ m.kind = "PLAYER" => m.value \in SUBSET Flag
           /\ m.kind = "TILE" => m.num \in 0 .. MaxTiles - 1 /\ m.value \in Tile
           /\ m.kind = "MESSAGE" => m.num \in Nat
BY DEF Command

\* What a command does not tell, the client keeps.
LEMMA ToldTyped ==
    ASSUME NEW v \in View, NEW m \in Command
    PROVE  LET w == Told(v, m) IN
           /\ w \in View
           /\ w.self = IF m.kind = "PLAYER_ID" THEN m.num ELSE v.self
           /\ w.nTiles = IF m.kind = "N_TILES" THEN m.value ELSE v.nTiles
           /\ w.language = IF m.kind = "LANGUAGE" THEN m.value ELSE v.language
           /\ w.names = IF m.kind = "PLAYER_NAME" THEN v.names \cup {m.num} ELSE v.names
           /\ w.flags = IF m.kind = "PLAYER" THEN [v.flags EXCEPT ![m.num] = m.value] ELSE v.flags
           /\ w.tiles = IF m.kind = "TILE" THEN [v.tiles EXCEPT ![m.num] = m.value] ELSE v.tiles
           /\ w.log = IF m.kind = "MESSAGE" THEN Append(v.log, m.num) ELSE v.log
<1>. DEFINE w == Told(v, m)
<1>1. CASE m.kind = "PLAYER_ID"
  <2>1. w = [v EXCEPT !.self = m.num] /\ m.num \in Seat
    BY <1>1, CommandKinds DEF Told, HandlePlayerId
  <2>. QED
    BY <1>1, <2>1 DEF View
<1>2. CASE m.kind = "N_TILES"
  <2>1. w = [v EXCEPT !.nTiles = m.value] /\ m.value \in 0 .. MaxTiles
    BY <1>2, CommandKinds DEF Told, HandleNTiles
  <2>. QED
    BY <1>2, <2>1 DEF View
<1>3. CASE m.kind = "LANGUAGE"
  <2>1. w = [v EXCEPT !.language = m.value] /\ m.value \in Language
    BY <1>3, CommandKinds DEF Told, HandleLanguage
  <2>. QED
    BY <1>3, <2>1 DEF View
<1>4. CASE m.kind = "PLAYER_NAME"
  <2>. DEFINE names == v.names \cup {m.num}
  <2>1. w = [v EXCEPT !.names = names] /\ m.num \in Seat
    BY <1>4, CommandKinds DEF Told, HandlePlayerName, View
  <2>2. names \in SUBSET Seat
    BY <2>1 DEF View
  <2>. HIDE DEF names
  <2>3. w \in View /\ w.names = names
    BY <2>1, <2>2 DEF View
  <2>4. /\ w.self = v.self /\ w.nTiles = v.nTiles /\ w.language = v.language
        /\ w.flags = v.flags /\ w.tiles = v.tiles /\ w.log = v.log
    BY <2>1 DEF View
  <2>. QED
    BY <1>4, <2>3, <2>4 DEF names
<1>5. CASE m.kind = "PLAYER"
  <2>1. w = [v EXCEPT !.flags[m.num] = m.value] /\ m.num \in Seat /\ m.value \in SUBSET Flag
    BY <1>5, CommandKinds DEF Told, HandlePlayer
  <2>2. [v.flags EXCEPT ![m.num] = m.value] \in [Seat -> SUBSET Flag]
    BY <2>1 DEF View
  <2>. QED
    BY <1>5, <2>1, <2>2 DEF View
<1>6. CASE m.kind = "TILE"
  <2>1. w = [v EXCEPT !.tiles[m.num] = m.value] /\ m.num \in 0 .. MaxTiles - 1 /\ m.value \in Tile
    BY <1>6, CommandKinds DEF Told, HandleTile
  <2>2. [v.tiles EXCEPT ![m.num] = m.value] \in [0 .. MaxTiles - 1 -> Tile \cup {NoTile}]
    BY <2>1 DEF View
  <2>. QED
    BY <1>6, <2>1, <2>2 DEF View
<1>7. CASE m.kind = "MESSAGE"
  <2>1. w = [v EXCEPT !.log = Append(@, m.num)] /\ m.num \in Nat
    BY <1>7, CommandKinds DEF Told, HandleMessage
  <2>2. Append(v.log, m.num) \in Seq(Nat)
    BY <2>1, AppendProperties DEF View
  <2>. QED
    BY <1>7, <2>1, <2>2 DEF View
<1>8. CASE m.kind \in {"SYNC", "END", "ERROR"}
  <2>1. w = [v EXCEPT !.synced = TRUE] \/ w = [v EXCEPT !.over = TRUE]
    BY <1>8 DEF Told, HandleSync, HandleEnd
  <2>. QED
    BY <1>8, <2>1 DEF View
<1>9. CASE m.kind \in {"CONVERSATION_ID", "PLAYER_SHOUTED"}
  <2>1. w = v
    BY <1>9 DEF Told
  <2>. QED
    BY <1>9, <2>1 DEF View
<1>. QED
  <2>1. m.kind \in {"PLAYER_ID", "PLAYER_NAME", "PLAYER_SHOUTED", "CONVERSATION_ID", "SYNC",
                    "END", "ERROR", "N_TILES", "LANGUAGE", "PLAYER", "TILE", "MESSAGE"}
    BY DEF Command
  <2>. QED
    BY <1>1, <1>2, <1>3, <1>4, <1>5, <1>6, <1>7, <1>8, <1>9, <2>1

-----------------------------------------------------------------------------
(* fill_output_buffer.                                                     *)

LEMMA MinIsLeast ==
    ASSUME NEW S \in SUBSET Nat, S # {}
    PROVE  Min(S) \in S /\ \A n \in S : Min(S) <= n
BY LeastNatural DEF Min

\* The loop takes something that is pending, the id of the player first.
LEMMA FirstIsPending ==
    ASSUME NEW c, NEW k \in Link, Pending(c, k) # {}
    PROVE  /\ FirstPending(c, k) \in Pending(c, k)
           /\ "PLAYER_ID" \in k.dirtyFlags => FirstPending(c, k) = "PLAYER_ID"
<1>. DEFINE R == {r \in DOMAIN WriteOrder : WriteOrder[r] \in Pending(c, k)}
<1>1. DOMAIN WriteOrder = 1 .. 12 /\ WriteOrder[1] = "PLAYER_ID"
  BY DEF WriteOrder
<1>2. \A kind \in Pending(c, k) :
        kind \in {"PLAYER_ID", "PLAYER_NAME", "PLAYER_SHOUTED", "CONVERSATION_ID", "SYNC",
                  "END", "ERROR", "N_TILES", "LANGUAGE", "PLAYER", "TILE", "MESSAGE"}
  BY DEF Pending, Link, DirtyFlag
<1>3. \A kind \in Pending(c, k) : \E r \in 1 .. 12 : WriteOrder[r] = kind
  BY <1>2 DEF WriteOrder
<1>4. R \in SUBSET Nat /\ R # {}
  BY <1>1, <1>3
<1>5. Min(R) \in R /\ \A n \in R : Min(R) <= n
  <2>. HIDE DEF R
  <2>. QED
    BY <1>4, MinIsLeast
<1>6. FirstPending(c, k) = WriteOrder[Min(R)]
  BY DEF FirstPending
<1>7. "PLAYER_ID" \in k.dirtyFlags => Min(R) = 1
  <2>. SUFFICES ASSUME "PLAYER_ID" \in k.dirtyFlags PROVE Min(R) = 1
    OBVIOUS
  <2>1. 1 \in R
    BY <1>1 DEF Pending
  <2>. QED
    BY <1>1, <1>5, <2>1
<1>. QED
  BY <1>1, <1>5, <1>6, <1>7

LEMMA GameTyped ==
    ASSUME GameInv
    PROVE  /\ nPlayers \in 0 .. MaxPlayers /\ MaxPlayers \in Nat \ {0}
           /\ InSeats \subseteq Seat
           /\ flags \in [Seat -> SUBSET Flag]
           /\ tiles \in Seq(Tile) /\ Len(tiles) \in 0 .. MaxTiles
           /\ MaxTiles \in Nat \ {0}
           /\ \A i \in 0 .. Len(tiles) - 1 : i \in 0 .. MaxTiles - 1 /\ tiles[i + 1] \in Tile
           /\ totalNTiles \in 1 .. MaxTiles
           /\ language \in Language
           /\ messages \in Seq(Message) /\ Len(messages) \in Nat
<1>1. TypeOK /\ BagMatchesSettings
  BY DEF GameInv
<1>2. Len(tiles) \in Nat /\ Len(messages) \in Nat
  BY <1>1, LenProperties DEF TypeOK
<1>3. Len(tiles) \in 0 .. MaxTiles
  BY <1>1, <1>2, ConversationAssumption DEF TypeOK, BagMatchesSettings, IsFirstTurn
<1>4. \A i \in 0 .. Len(tiles) - 1 : i \in 0 .. MaxTiles - 1 /\ tiles[i + 1] \in Tile
  BY <1>1, <1>3, ElementOfSeq, ConversationAssumption DEF TypeOK
<1>. QED
  BY <1>1, <1>2, <1>3, <1>4, ConversationAssumption DEF TypeOK, InSeats, Seat

\* A writer that clears a flag changes nothing else.
LEMMA CleanOK ==
    ASSUME NEW c, NEW k, LinkOK(c, k), NEW flag \in DirtyFlag
    PROVE  LET j == Clean(k, flag) IN
           /\ LinkOK(c, j)
           /\ j.follows = k.follows /\ j.state = k.state /\ j.messageNum = k.messageNum
           /\ j.namedPlayers = k.namedPlayers
           /\ j.dirtyPlayers = k.dirtyPlayers /\ j.dirtyTiles = k.dirtyTiles
           /\ j.dirtyFlags = k.dirtyFlags \ {flag}
<1>. DEFINE j == Clean(k, flag)
            rest == k.dirtyFlags \ {flag}
<1>1. k \in Link /\ j = [k EXCEPT !.dirtyFlags = rest]
  BY DEF LinkOK, Clean, Link
<1>2. rest \in SUBSET DirtyFlag
  BY <1>1 DEF Link
<1>. HIDE DEF rest
<1>3. /\ j \in Link
      /\ j.follows = k.follows /\ j.state = k.state /\ j.messageNum = k.messageNum
      /\ j.namedPlayers = k.namedPlayers
      /\ j.dirtyPlayers = k.dirtyPlayers /\ j.dirtyTiles = k.dirtyTiles
      /\ j.dirtyFlags = rest
  BY <1>1, <1>2 DEF Link
<1>. HIDE DEF j
<1>4. LinkOK(c, j)
  BY <1>3 DEF LinkOK, rest
<1>. QED
  BY <1>3, <1>4 DEF j, rest

\* What a writer has put into the buffer need not be noted any more.
WroteWell(c, k, w, kind, r) ==
    /\ r.command \in Command /\ r.command.kind = kind
    /\ LinkOK(c, r.conn) /\ KnowsOrNoted(c, r.conn, Told(w, r.command))
    /\ r.conn.follows = k.follows
    /\ r.conn.state \in {"OPEN", "DONE"}
    /\ kind # "MESSAGE" => r.conn.messageNum = k.messageNum
    /\ kind = "MESSAGE" =>
         /\ k.follows /\ k.messageNum < Len(messages)
         /\ r.command.num = k.messageNum + 1 /\ r.conn.messageNum = k.messageNum + 1
    /\ kind # "PLAYER_ID" /\ "PLAYER_ID" \in k.dirtyFlags
         => "PLAYER_ID" \in r.conn.dirtyFlags
    /\ ~k.follows => kind = "ERROR"

LEMMA WriteWritesWell ==
    ASSUME GameInv, NEW c, NEW k, LinkOK(c, k), k.state = "OPEN",
           NEW w, KnowsOrNoted(c, k, w), NEW kind \in Pending(c, k)
    PROVE  WroteWell(c, k, w, kind, Write(c, k, kind))
<1>. DEFINE r == Write(c, k, kind)
            m == r.command
            j == r.conn
<1>1. k \in Link /\ w \in View
  BY DEF LinkOK, KnowsOrNoted
<1>2. k.follows \/ kind = "ERROR"
  BY DEF LinkOK, Pending
<1>3. k.follows => person[c].seat \in Seat /\ kind # "ERROR"
  BY GameTyped, ConversationAssumption DEF LinkOK, Pending
\* The writers of one flag, that tell the present value of something or nothing.
<1>4. ASSUME kind \in DirtyFlag \ {"ERROR"},
             r = Wrote(m, Clean(k, kind)), m \in Command, m.kind = kind,
             kind = "N_TILES" => m.value = totalNTiles,
             kind = "LANGUAGE" => m.value = language,
             kind = "PLAYER_ID" => m.num = person[c].seat
      PROVE  WroteWell(c, k, w, kind, r)
  <2>1. j = Clean(k, kind)
    BY <1>4 DEF Wrote
  <2>2. /\ LinkOK(c, j)
        /\ j.follows = k.follows /\ j.state = k.state /\ j.messageNum = k.messageNum
        /\ j.namedPlayers = k.namedPlayers
        /\ j.dirtyPlayers = k.dirtyPlayers /\ j.dirtyTiles = k.dirtyTiles
        /\ j.dirtyFlags = k.dirtyFlags \ {kind}
    BY <1>4, <2>1, CleanOK
  <2>. HIDE DEF r
  <2>3. LET u == Told(w, m) IN
        /\ u \in View
        /\ u.self = IF kind = "PLAYER_ID" THEN m.num ELSE w.self
        /\ u.nTiles = IF kind = "N_TILES" THEN m.value ELSE w.nTiles
        /\ u.language = IF kind = "LANGUAGE" THEN m.value ELSE w.language
        /\ u.names = w.names /\ u.flags = w.flags /\ u.tiles = w.tiles
    <3>1. kind \notin {"PLAYER_NAME", "PLAYER", "TILE", "MESSAGE"}
      BY <1>4 DEF DirtyFlag
    <3>. QED
      BY <1>1, <1>4, <3>1, ToldTyped
  <2>4. KnowsOrNoted(c, j, Told(w, m))
    BY <1>4, <2>2, <2>3 DEF KnowsOrNoted
  <2>5. kind # "MESSAGE"
    BY <1>4 DEF DirtyFlag
  <2>. QED
    BY <1>2, <1>4, <2>2, <2>4, <2>5 DEF WroteWell
<1>5. CASE kind = "PLAYER_ID"
  <2>1. r = Wrote([kind |-> "PLAYER_ID", num |-> person[c].seat], Clean(k, "PLAYER_ID"))
    BY <1>5 DEF Write, WritePlayerId
  <2>2. m = [kind |-> "PLAYER_ID", num |-> person[c].seat]
    BY <2>1 DEF Wrote
  <2>3. m \in Command
    BY <1>2, <1>3, <1>5, <2>2 DEF Command
  <2>. QED
    BY <1>4, <1>5, <2>1, <2>2, <2>3 DEF DirtyFlag
<1>6. CASE kind \in {"CONVERSATION_ID", "SYNC"}
  <2>1. r = Wrote([kind |-> kind], Clean(k, kind))
    BY <1>6 DEF Write, WriteConversationId, WriteSync
  <2>2. m = [kind |-> kind]
    BY <2>1 DEF Wrote
  <2>3. m \in Command
    BY <1>6, <2>2 DEF Command
  <2>. QED
    BY <1>4, <1>6, <2>1, <2>2, <2>3 DEF DirtyFlag
<1>7. CASE kind = "N_TILES"
  <2>1. r = Wrote([kind |-> "N_TILES", value |-> totalNTiles], Clean(k, "N_TILES"))
    BY <1>7 DEF Write, WriteNTiles
  <2>2. m = [kind |-> "N_TILES", value |-> totalNTiles]
    BY <2>1 DEF Wrote
  <2>3. m \in Command
    BY <2>2, GameTyped DEF Command
  <2>. QED
    BY <1>4, <1>7, <2>1, <2>2, <2>3 DEF DirtyFlag
<1>8. CASE kind = "LANGUAGE"
  <2>1. r = Wrote([kind |-> "LANGUAGE", value |-> language], Clean(k, "LANGUAGE"))
    BY <1>8 DEF Write, WriteLanguage
  <2>2. m = [kind |-> "LANGUAGE", value |-> language]
    BY <2>1 DEF Wrote
  <2>3. m \in Command
    BY <2>2, GameTyped DEF Command
  <2>. QED
    BY <1>4, <1>8, <2>1, <2>2, <2>3 DEF DirtyFlag
<1>9. CASE kind = "PLAYER_SHOUTED"
  <2>1. r = Wrote([kind |-> "PLAYER_SHOUTED", num |-> k.pendingShout],
                  Clean(k, "PLAYER_SHOUTED"))
    BY <1>9 DEF Write, WritePendingShout
  <2>2. m = [kind |-> "PLAYER_SHOUTED", num |-> k.pendingShout]
    BY <2>1 DEF Wrote
  <2>3. m \in Command
    BY <1>1, <2>2 DEF Command, Link
  <2>. QED
    BY <1>4, <1>9, <2>1, <2>2, <2>3 DEF DirtyFlag
<1>10. CASE kind = "PLAYER_NAME"
  <2>1. r = Wrote([kind |-> "PLAYER_NAME", num |-> k.namedPlayers],
                  [k EXCEPT !.namedPlayers = @ + 1])
    BY <1>10 DEF Write, WritePlayerName
  <2>2. k.namedPlayers \in Nat /\ k.namedPlayers < nPlayers
    BY <1>1, <1>10 DEF Pending, Link, DirtyFlag
  <2>3. /\ m = [kind |-> "PLAYER_NAME", num |-> k.namedPlayers]
        /\ j = [k EXCEPT !.namedPlayers = @ + 1]
    BY <2>1 DEF Wrote
  <2>4. m \in Command /\ m.kind = kind /\ m.num = k.namedPlayers
    BY <1>10, <2>2, <2>3, GameTyped DEF Command, Seat
  <2>5. /\ j \in Link /\ j.namedPlayers = k.namedPlayers + 1
        /\ j.follows = k.follows /\ j.state = k.state /\ j.messageNum = k.messageNum
        /\ j.dirtyPlayers = k.dirtyPlayers /\ j.dirtyTiles = k.dirtyTiles
        /\ j.dirtyFlags = k.dirtyFlags
    BY <1>1, <2>2, <2>3 DEF Link
  <2>. HIDE DEF r
  <2>6. LinkOK(c, j)
    BY <2>2, <2>5, GameTyped DEF LinkOK
  <2>7. LET u == Told(w, m) IN
        /\ u \in View /\ u.names = w.names \cup {k.namedPlayers}
        /\ u.self = w.self /\ u.nTiles = w.nTiles /\ u.language = w.language
        /\ u.flags = w.flags /\ u.tiles = w.tiles
    <3>. HIDE DEF m
    <3>1. m \in Command /\ m.kind = "PLAYER_NAME" /\ m.num = k.namedPlayers
      BY <1>10, <2>4
    <3>. QED
      BY <1>1, <3>1, ToldTyped
  <2>8. KnowsOrNoted(c, j, Told(w, m))
    BY <2>2, <2>5, <2>7, GameTyped DEF KnowsOrNoted, InSeats
  <2>. QED
    BY <1>2, <1>10, <2>4, <2>5, <2>6, <2>8 DEF WroteWell, r
<1>11. CASE kind = "PLAYER"
  <2>. DEFINE p == Min(k.dirtyPlayers)
  <2>1. r = Wrote([kind |-> "PLAYER", num |-> p, value |-> flags[p]],
                  [k EXCEPT !.dirtyPlayers = @ \ {p}])
    BY <1>11 DEF Write, WritePlayer
  <2>2. p \in k.dirtyPlayers
    <3>1. k.dirtyPlayers # {}
      BY <1>1, <1>11 DEF Pending, Link, DirtyFlag
    <3>2. k.dirtyPlayers \in SUBSET Nat
      BY <1>1, GameTyped DEF Link, Seat
    <3>. QED
      BY <3>1, <3>2, MinIsLeast
  <2>3. p \in Seat /\ k.dirtyPlayers \in SUBSET Seat
    BY <1>1, <2>2 DEF Link
  <2>. HIDE DEF p
  <2>4. /\ m = [kind |-> "PLAYER", num |-> p, value |-> flags[p]]
        /\ j = [k EXCEPT !.dirtyPlayers = @ \ {p}]
    BY <2>1 DEF Wrote
  <2>5. m \in Command /\ m.kind = kind /\ m.num = p /\ m.value = flags[p]
    BY <1>11, <2>3, <2>4, GameTyped DEF Command
  <2>6. /\ j \in Link /\ j.dirtyPlayers = k.dirtyPlayers \ {p}
        /\ j.follows = k.follows /\ j.state = k.state /\ j.messageNum = k.messageNum
        /\ j.namedPlayers = k.namedPlayers /\ j.dirtyTiles = k.dirtyTiles
        /\ j.dirtyFlags = k.dirtyFlags
    <3>. DEFINE rest == k.dirtyPlayers \ {p}
    <3>1. j = [k EXCEPT !.dirtyPlayers = rest] /\ rest \in SUBSET Seat
      BY <1>1, <2>3, <2>4 DEF Link
    <3>. HIDE DEF rest, r
    <3>. QED
      BY <1>1, <3>1 DEF Link, rest
  <2>. HIDE DEF r
  <2>7. LinkOK(c, j)
    BY <2>6 DEF LinkOK
  <2>8. LET u == Told(w, m) IN
        /\ u \in View /\ u.flags = [w.flags EXCEPT ![p] = flags[p]]
        /\ u.self = w.self /\ u.nTiles = w.nTiles /\ u.language = w.language
        /\ u.names = w.names /\ u.tiles = w.tiles
    <3>1. LET u == Told(w, m) IN
          /\ u \in View /\ u.flags = [w.flags EXCEPT ![m.num] = m.value]
          /\ u.self = w.self /\ u.nTiles = w.nTiles /\ u.language = w.language
          /\ u.names = w.names /\ u.tiles = w.tiles
      <4>1. m \in Command /\ m.kind = "PLAYER"
        BY <1>11, <2>5
      <4>. HIDE DEF m
      <4>. QED
        BY <1>1, <4>1, ToldTyped
    <3>. QED
      BY <2>5, <3>1
  <2>9. \A q \in InSeats \ j.dirtyPlayers :
          k.follows => [w.flags EXCEPT ![p] = flags[p]][q] = flags[q]
    BY <1>1, <2>3, <2>6, GameTyped DEF KnowsOrNoted, View
  <2>10. KnowsOrNoted(c, j, Told(w, m))
    BY <2>6, <2>8, <2>9 DEF KnowsOrNoted
  <2>. QED
    BY <1>2, <1>11, <2>5, <2>6, <2>7, <2>10 DEF WroteWell, r
<1>12. CASE kind = "TILE"
  <2>. DEFINE i == Min(k.dirtyTiles)
  <2>1. r = Wrote([kind |-> "TILE", num |-> i, value |-> tiles[i + 1]],
                  [k EXCEPT !.dirtyTiles = @ \ {i}])
    BY <1>12 DEF Write, WriteTile
  <2>2. i \in k.dirtyTiles
    <3>1. k.dirtyTiles # {}
      BY <1>1, <1>12 DEF Pending, Link, DirtyFlag
    <3>2. k.dirtyTiles \in SUBSET Nat
      BY <1>1, GameTyped DEF Link
    <3>. QED
      BY <3>1, <3>2, MinIsLeast
  <2>3. i \in 0 .. Len(tiles) - 1 /\ k.dirtyTiles \in SUBSET (0 .. MaxTiles - 1)
    BY <1>1, <2>2 DEF Link, LinkOK
  <2>. HIDE DEF i
  <2>4. /\ m = [kind |-> "TILE", num |-> i, value |-> tiles[i + 1]]
        /\ j = [k EXCEPT !.dirtyTiles = @ \ {i}]
    BY <2>1 DEF Wrote
  <2>5. i \in 0 .. MaxTiles - 1 /\ tiles[i + 1] \in Tile
    BY <2>3, GameTyped
  <2>6. m \in Command /\ m.kind = kind /\ m.num = i /\ m.value = tiles[i + 1]
    BY <1>12, <2>4, <2>5 DEF Command
  <2>7. /\ j \in Link /\ j.dirtyTiles = k.dirtyTiles \ {i}
        /\ j.follows = k.follows /\ j.state = k.state /\ j.messageNum = k.messageNum
        /\ j.namedPlayers = k.namedPlayers /\ j.dirtyPlayers = k.dirtyPlayers
        /\ j.dirtyFlags = k.dirtyFlags
    <3>. DEFINE rest == k.dirtyTiles \ {i}
    <3>1. j = [k EXCEPT !.dirtyTiles = rest] /\ rest \in SUBSET (0 .. MaxTiles - 1)
      BY <1>1, <2>3, <2>4 DEF Link
    <3>. HIDE DEF rest, r
    <3>. QED
      BY <1>1, <3>1 DEF Link, rest
  <2>. HIDE DEF r
  <2>8. LinkOK(c, j)
    BY <2>7 DEF LinkOK
  <2>9. LET u == Told(w, m) IN
        /\ u \in View /\ u.tiles = [w.tiles EXCEPT ![i] = tiles[i + 1]]
        /\ u.self = w.self /\ u.nTiles = w.nTiles /\ u.language = w.language
        /\ u.names = w.names /\ u.flags = w.flags
    <3>1. LET u == Told(w, m) IN
          /\ u \in View /\ u.tiles = [w.tiles EXCEPT ![m.num] = m.value]
          /\ u.self = w.self /\ u.nTiles = w.nTiles /\ u.language = w.language
          /\ u.names = w.names /\ u.flags = w.flags
      <4>1. m \in Command /\ m.kind = "TILE"
        BY <1>12, <2>6
      <4>. HIDE DEF m
      <4>. QED
        BY <1>1, <4>1, ToldTyped
    <3>. QED
      BY <2>6, <3>1
  <2>10. \A n \in (0 .. Len(tiles) - 1) \ j.dirtyTiles :
           k.follows => [w.tiles EXCEPT ![i] = tiles[i + 1]][n] = tiles[n + 1]
    BY <1>1, <2>5, <2>7, GameTyped DEF KnowsOrNoted, View
  <2>11. KnowsOrNoted(c, j, Told(w, m))
    BY <2>7, <2>9, <2>10 DEF KnowsOrNoted
  <2>. QED
    BY <1>2, <1>12, <2>6, <2>7, <2>8, <2>11 DEF WroteWell, r
<1>13. CASE kind = "MESSAGE"
  <2>1. r = Wrote([kind |-> "MESSAGE", num |-> k.messageNum + 1],
                  [k EXCEPT !.messageNum = @ + 1])
    BY <1>13 DEF Write, WriteMessage
  <2>2. /\ k.messageNum \in Nat /\ k.messageNum + 1 \in Nat
        /\ k.messageNum < Len(messages) /\ k.follows
    BY <1>1, <1>13 DEF Pending, Link, DirtyFlag
  <2>3. /\ m = [kind |-> "MESSAGE", num |-> k.messageNum + 1]
        /\ j = [k EXCEPT !.messageNum = @ + 1]
    BY <2>1 DEF Wrote
  <2>4. m \in Command /\ m.kind = kind /\ m.num = k.messageNum + 1
    BY <1>13, <2>2, <2>3 DEF Command
  <2>5. /\ j \in Link /\ j.messageNum = k.messageNum + 1
        /\ j.follows = k.follows /\ j.state = k.state /\ j.namedPlayers = k.namedPlayers
        /\ j.dirtyPlayers = k.dirtyPlayers /\ j.dirtyTiles = k.dirtyTiles
        /\ j.dirtyFlags = k.dirtyFlags
    <3>. DEFINE n == k.messageNum + 1
    <3>1. n \in Nat /\ j = [k EXCEPT !.messageNum = n]
      BY <2>2, <2>3
    <3>. HIDE DEF n, j
    <3>2. /\ j \in Link /\ j.messageNum = n
          /\ j.follows = k.follows /\ j.state = k.state /\ j.namedPlayers = k.namedPlayers
          /\ j.dirtyPlayers = k.dirtyPlayers /\ j.dirtyTiles = k.dirtyTiles
          /\ j.dirtyFlags = k.dirtyFlags
      BY <1>1, <3>1 DEF Link
    <3>. QED
      BY <3>2 DEF n
  <2>. HIDE DEF r
  <2>6. LinkOK(c, j)
    BY <2>2, <2>5, GameTyped DEF LinkOK
  <2>7. LET u == Told(w, m) IN
        /\ u \in View /\ u.names = w.names
        /\ u.self = w.self /\ u.nTiles = w.nTiles /\ u.language = w.language
        /\ u.flags = w.flags /\ u.tiles = w.tiles
    BY <1>1, <1>13, <2>4, ToldTyped
  <2>8. KnowsOrNoted(c, j, Told(w, m))
    BY <2>5, <2>7 DEF KnowsOrNoted
  <2>. QED
    BY <1>13, <2>2, <2>4, <2>5, <2>6, <2>8 DEF WroteWell, r
<1>14. CASE kind = "END"
  <2>1. r = Wrote([kind |-> "END"], [k EXCEPT !.state = "DONE"])
    BY <1>14 DEF Write, WriteEnd
  <2>2. m = [kind |-> "END"] /\ j = [k EXCEPT !.state = "DONE"]
    BY <2>1 DEF Wrote
  <2>3. m \in Command /\ m.kind = kind
    BY <1>14, <2>2 DEF Command
  <2>4. /\ j \in Link /\ j.messageNum = k.messageNum /\ j.state = "DONE"
        /\ j.follows = k.follows /\ j.namedPlayers = k.namedPlayers
        /\ j.dirtyPlayers = k.dirtyPlayers /\ j.dirtyTiles = k.dirtyTiles
        /\ j.dirtyFlags = k.dirtyFlags
    BY <1>1, <2>2 DEF Link
  <2>. HIDE DEF r
  <2>5. LinkOK(c, j)
    BY <2>4 DEF LinkOK
  <2>6. LET u == Told(w, m) IN
        /\ u \in View /\ u.names = w.names
        /\ u.self = w.self /\ u.nTiles = w.nTiles /\ u.language = w.language
        /\ u.flags = w.flags /\ u.tiles = w.tiles
    BY <1>1, <1>14, <2>3, ToldTyped
  <2>7. KnowsOrNoted(c, j, Told(w, m))
    BY <2>4, <2>6 DEF KnowsOrNoted
  <2>. QED
    BY <1>2, <1>14, <2>3, <2>4, <2>5, <2>7 DEF WroteWell, r
<1>15. CASE kind = "ERROR"
  <2>1. r = Wrote([kind |-> "ERROR"], [Clean(k, "ERROR") EXCEPT !.state = "DONE"])
    BY <1>15 DEF Write, WriteError
  <2>. DEFINE cleaned == Clean(k, "ERROR")
  <2>2. m = [kind |-> "ERROR"] /\ j = [cleaned EXCEPT !.state = "DONE"]
    BY <2>1 DEF Wrote
  <2>3. m \in Command /\ m.kind = kind
    BY <1>15, <2>2 DEF Command
  <2>4. /\ LinkOK(c, cleaned)
        /\ cleaned.follows = k.follows /\ cleaned.messageNum = k.messageNum
        /\ cleaned.dirtyFlags = k.dirtyFlags \ {"ERROR"}
    BY CleanOK DEF DirtyFlag
  <2>. HIDE DEF cleaned, r
  <2>5. /\ j \in Link /\ j.state = "DONE" /\ j.messageNum = cleaned.messageNum
        /\ j.follows = cleaned.follows /\ j.namedPlayers = cleaned.namedPlayers
        /\ j.dirtyPlayers = cleaned.dirtyPlayers /\ j.dirtyTiles = cleaned.dirtyTiles
        /\ j.dirtyFlags = cleaned.dirtyFlags
    BY <2>2, <2>4 DEF Link, LinkOK
  <2>6. LinkOK(c, j)
    BY <2>4, <2>5 DEF LinkOK
  <2>7. Told(w, m) \in View /\ ~k.follows
    BY <1>1, <1>3, <1>15, <2>3, ToldTyped
  <2>8. KnowsOrNoted(c, j, Told(w, m))
    BY <2>4, <2>5, <2>7 DEF KnowsOrNoted
  <2>. QED
    BY <1>15, <2>3, <2>4, <2>5, <2>6, <2>7, <2>8 DEF WroteWell, r
<1>. QED
  <2>1. kind \in {"PLAYER_ID", "PLAYER_NAME", "PLAYER_SHOUTED", "CONVERSATION_ID", "SYNC",
                  "END", "ERROR", "N_TILES", "LANGUAGE", "PLAYER", "TILE", "MESSAGE"}
    BY <1>1 DEF Pending, Link, DirtyFlag
  <2>. QED
    BY <1>5, <1>6, <1>7, <1>8, <1>9, <1>10, <1>11, <1>12, <1>13, <1>14, <1>15, <2>1

\* One more command in the stream of a client.
LEMMA IdStaysFirst ==
    ASSUME NEW k \in Link, NEW j \in Link, NEW v \in View,
           NEW s \in Seq(Command), NEW m \in Command, IdFirst(k, v, s),
           j.follows = k.follows,
           IsMessage(m) => k.follows /\ "PLAYER_ID" \notin k.dirtyFlags,
           IsId(m) \/ ("PLAYER_ID" \in k.dirtyFlags => "PLAYER_ID" \in j.dirtyFlags)
    PROVE  IdFirst(j, v, Append(s, m))
<1>. DEFINE t == Append(s, m)
            n == Len(s)
<1>1. /\ n \in Nat /\ Len(t) = n + 1 /\ t[n + 1] = m
      /\ \A i \in 1 .. n : t[i] = s[i]
  BY AppendProperties, LenProperties
<1>. HIDE DEF n, t
<1>. SUFFICES ASSUME v.self = Nobody
              PROVE  /\ v.log = <<>>
                     /\ \A i \in 1 .. n + 1 :
                          IsMessage(t[i]) => \E l \in 1 .. i - 1 : IsId(t[l])
                     /\ j.follows => \/ "PLAYER_ID" \in j.dirtyFlags
                                     \/ \E l \in 1 .. n + 1 : IsId(t[l])
  BY <1>1 DEF IdFirst, t
<1>2. /\ v.log = <<>>
      /\ \A i \in 1 .. n : IsMessage(s[i]) => \E l \in 1 .. i - 1 : IsId(s[l])
      /\ k.follows => "PLAYER_ID" \in k.dirtyFlags \/ \E l \in 1 .. n : IsId(s[l])
  BY DEF IdFirst, n
<1>3. ASSUME NEW i \in 1 .. n + 1, IsMessage(t[i])
      PROVE  \E l \in 1 .. i - 1 : IsId(t[l])
  <2>1. CASE i <= n
    <3>1. PICK l \in 1 .. i - 1 : IsId(s[l])
      BY <1>1, <1>2, <1>3, <2>1
    <3>. QED
      BY <1>1, <2>1, <3>1
  <2>2. CASE i = n + 1
    BY <1>1, <1>2, <1>3, <2>2
  <2>. QED
    BY <1>1, <2>1, <2>2
<1>4. j.follows => \/ "PLAYER_ID" \in j.dirtyFlags
                   \/ \E l \in 1 .. n + 1 : IsId(t[l])
  <2>1. n + 1 \in 1 .. n + 1 /\ \A l \in 1 .. n : l \in 1 .. n + 1
    BY <1>1
  <2>. QED
    BY <1>1, <1>2, <2>1
<1>. QED
  BY <1>2, <1>3, <1>4

LEMMA ChatStaysInOrder ==
    ASSUME NEW c, NEW k \in Link, NEW j \in Link, NEW v \in View,
           NEW s \in Seq(Command), NEW m \in Command, ChatInOrder(c, k, v, s),
           person[c].offset \in Nat, Len(messages) \in Nat,
           j.follows = k.follows,
           ~IsMessage(m) => j.messageNum = k.messageNum,
           IsMessage(m) => m.num = k.messageNum + 1 /\ j.messageNum = k.messageNum + 1
    PROVE  ChatInOrder(c, j, v, Append(s, m))
<1>. DEFINE t == Append(s, m)
            n == Len(s)
            had == person[c].offset + Len(v.log)
<1>1. /\ n \in Nat /\ Len(t) = n + 1 /\ t[n + 1] = m
      /\ \A i \in 1 .. n : t[i] = s[i]
  BY AppendProperties, LenProperties
<1>2. had \in Nat
  BY LenProperties DEF View
<1>3. k.messageNum \in Nat /\ j.messageNum \in Nat
  BY DEF Link
<1>. HIDE DEF n, t, had
<1>. SUFFICES ASSUME Counted(c)
              PROVE  /\ had <= Len(messages)
                     /\ \A i \in 1 .. Len(v.log) : v.log[i] = person[c].offset + i
                     /\ j.follows =>
                          /\ had <= j.messageNum
                          /\ \A i \in 1 .. n + 1 :
                               IsMessage(t[i]) => t[i].num \in had + 1 .. j.messageNum
                          /\ \A q \in had + 1 .. j.messageNum :
                               \E i \in 1 .. n + 1 : IsMessage(t[i]) /\ t[i].num = q
                          /\ \A i, l \in 1 .. n + 1 :
                               i < l /\ IsMessage(t[i]) /\ IsMessage(t[l]) => t[i].num < t[l].num
  BY <1>1 DEF ChatInOrder, t, had
<1>4. /\ had <= Len(messages)
      /\ \A i \in 1 .. Len(v.log) : v.log[i] = person[c].offset + i
      /\ k.follows =>
           /\ had <= k.messageNum
           /\ \A i \in 1 .. n : IsMessage(s[i]) => s[i].num \in had + 1 .. k.messageNum
           /\ \A q \in had + 1 .. k.messageNum :
                \E i \in 1 .. n : IsMessage(s[i]) /\ s[i].num = q
           /\ \A i, l \in 1 .. n :
                i < l /\ IsMessage(s[i]) /\ IsMessage(s[l]) => s[i].num < s[l].num
  BY DEF ChatInOrder, n, had
<1>5. ASSUME j.follows
      PROVE  /\ had <= j.messageNum
             /\ \A i \in 1 .. n + 1 :
                  IsMessage(t[i]) => t[i].num \in had + 1 .. j.messageNum
             /\ \A q \in had + 1 .. j.messageNum :
                  \E i \in 1 .. n + 1 : IsMessage(t[i]) /\ t[i].num = q
             /\ \A i, l \in 1 .. n + 1 :
                  i < l /\ IsMessage(t[i]) /\ IsMessage(t[l]) => t[i].num < t[l].num
  <2>1. had <= j.messageNum
    BY <1>2, <1>3, <1>4, <1>5
  <2>2. ASSUME NEW i \in 1 .. n + 1, IsMessage(t[i])
        PROVE  t[i].num \in had + 1 .. j.messageNum
    <3>1. CASE i <= n
      <4>1. t[i] = s[i] /\ s[i].num \in had + 1 .. k.messageNum
        BY <1>1, <1>4, <1>5, <2>2, <3>1
      <4>. QED
        BY <1>2, <1>3, <4>1
    <3>2. CASE i = n + 1
      BY <1>1, <1>2, <1>3, <1>4, <1>5, <2>2, <3>2
    <3>. QED
      BY <1>1, <3>1, <3>2
  <2>3. ASSUME NEW q \in had + 1 .. j.messageNum
        PROVE  \E i \in 1 .. n + 1 : IsMessage(t[i]) /\ t[i].num = q
    <3>1. CASE q <= k.messageNum
      <4>1. PICK i \in 1 .. n : IsMessage(s[i]) /\ s[i].num = q
        BY <1>2, <1>3, <1>4, <1>5, <3>1
      <4>2. i \in 1 .. n + 1 /\ t[i] = s[i]
        BY <1>1
      <4>. QED
        BY <4>1, <4>2
    <3>2. CASE q > k.messageNum
      <4>1. IsMessage(m) /\ q = m.num
        BY <1>2, <1>3, <3>2
      <4>2. n + 1 \in 1 .. n + 1
        BY <1>1
      <4>. QED
        BY <1>1, <4>1, <4>2
    <3>. QED
      BY <1>2, <1>3, <3>1, <3>2
  <2>4. ASSUME NEW i \in 1 .. n + 1, NEW l \in 1 .. n + 1,
               i < l, IsMessage(t[i]), IsMessage(t[l])
        PROVE  t[i].num < t[l].num
    <3>1. i \in 1 .. n /\ t[i] = s[i]
      BY <1>1, <2>4
    <3>2. CASE l <= n
      BY <1>1, <1>4, <1>5, <2>4, <3>1, <3>2
    <3>3. CASE l = n + 1
      <4>1. s[i].num \in had + 1 .. k.messageNum
        BY <1>4, <1>5, <2>4, <3>1
      <4>2. t[l].num = k.messageNum + 1
        BY <1>1, <2>4, <3>3
      <4>. QED
        BY <1>2, <1>3, <3>1, <4>1, <4>2
    <3>. QED
      BY <1>1, <3>2, <3>3
  <2>. QED
    BY <2>1, <2>2, <2>3, <2>4
<1>. QED
  BY <1>4, <1>5

LEMMA ConcatAppend ==
    ASSUME NEW S, NEW s \in Seq(S), NEW t \in Seq(S), NEW x \in S
    PROVE  s \o Append(t, x) = Append(s \o t, x)
<1>1. Append(t, x) = t \o <<x>> /\ <<x>> \in Seq(S)
  BY AppendIsConcat
<1>2. s \o t \in Seq(S)
  BY ConcatProperties
<1>3. Append(s \o t, x) = (s \o t) \o <<x>>
  BY <1>2, AppendIsConcat
<1>. QED
  BY <1>1, <1>3, ConcatAssociative

\* A round of the loop keeps the connection and its stream in order.
LEMMA WriteOneKeeps ==
    ASSUME GameInv, NEW c, PersonOK(c), wire[c] \in Seq(Command), view[c] \in View,
           NEW f, Filled(c, f.conn, f.out), f.conn.state \in {"OPEN", "DONE"},
           NEW g, g = WriteOne(c, f)
    PROVE  /\ Filled(c, g.conn, g.out) /\ g.conn.state \in {"OPEN", "DONE"}
           /\ Len(f.out) \in Nat /\ Len(g.out) \in Nat /\ Len(g.out) <= Len(f.out) + 1
<1>1. f.out \in Seq(Command) /\ Len(f.out) \in Nat
  BY LenProperties DEF Filled
<1>2. CASE NothingToWrite(c, f.conn)
  BY <1>1, <1>2 DEF WriteOne
<1>3. CASE ~NothingToWrite(c, f.conn)
  <2>. DEFINE k == f.conn
              kind == FirstPending(c, k)
              r == Write(c, k, kind)
              s == wire[c] \o f.out
              w == ViewAfter(view[c], s)
              m == r.command
              j == r.conn
  <2>1. k.state = "OPEN" /\ Pending(c, k) # {}
    BY <1>3 DEF NothingToWrite
  <2>2. LinkOK(c, k) /\ k \in Link /\ KnowsOrNoted(c, k, w)
    BY DEF Filled, LinkOK
  <2>3. kind \in Pending(c, k) /\ ("PLAYER_ID" \in k.dirtyFlags => kind = "PLAYER_ID")
    <3>. HIDE DEF k
    <3>. QED
      BY <2>1, <2>2, FirstIsPending
  <2>4. WroteWell(c, k, w, kind, r)
    <3>. HIDE DEF k, kind, w
    <3>. QED
      BY <2>1, <2>2, <2>3, WriteWritesWell
  <2>5. g = [conn |-> j, out |-> Append(f.out, m)]
    BY <1>3 DEF WriteOne
  <2>6. g.conn = j /\ g.out = Append(f.out, m)
    BY <2>5
  <2>. HIDE DEF k, kind, r, w
  <2>7. /\ m \in Command /\ m.kind = kind /\ LinkOK(c, j) /\ KnowsOrNoted(c, j, Told(w, m))
        /\ j.follows = k.follows /\ j.state \in {"OPEN", "DONE"}
        /\ kind # "MESSAGE" => j.messageNum = k.messageNum
        /\ kind = "MESSAGE" =>
             k.follows /\ m.num = k.messageNum + 1 /\ j.messageNum = k.messageNum + 1
        /\ kind # "PLAYER_ID" /\ "PLAYER_ID" \in k.dirtyFlags => "PLAYER_ID" \in j.dirtyFlags
        /\ ~k.follows => kind = "ERROR"
    BY <2>4 DEF WroteWell
  <2>. HIDE DEF m, j
  <2>8. /\ g.out \in Seq(Command) /\ Len(g.out) = Len(f.out) + 1
        /\ s \in Seq(Command) /\ wire[c] \o g.out = Append(s, m)
    <3>1. g.out \in Seq(Command) /\ Len(g.out) = Len(f.out) + 1
      BY <1>1, <2>6, <2>7, AppendProperties
    <3>2. s \in Seq(Command)
      BY <1>1, ConcatProperties
    <3>3. wire[c] \o Append(f.out, m) = Append(wire[c] \o f.out, m)
      <4>. DEFINE a == wire[c]
                  o == f.out
      <4>1. m \in Command /\ a \in Seq(Command) /\ o \in Seq(Command)
        BY <1>1, <2>7
      <4>. HIDE DEF a, o
      <4>2. a \o Append(o, m) = Append(a \o o, m)
        BY <4>1, ConcatAppend
      <4>. QED
        BY <4>2 DEF a, o
    <3>. QED
      BY <2>6, <3>1, <3>2, <3>3
  <2>. HIDE DEF s
  <2>9. ViewAfter(view[c], Append(s, m)) = Told(w, m)
    BY <2>7, <2>8, ViewAfterOneMore DEF w
  <2>10. /\ IdFirst(k, view[c], s)
         /\ CountFits => ChatInOrder(c, k, view[c], s)
         /\ ~k.follows => \A i \in 1 .. Len(s) : s[i].kind = "ERROR"
    BY DEF Filled, s, k
  <2>11. j \in Link
    BY <2>7 DEF LinkOK
  <2>12. IdFirst(j, view[c], Append(s, m))
    <3>1. IsMessage(m) => k.follows /\ "PLAYER_ID" \notin k.dirtyFlags
      BY <2>3, <2>7 DEF IsMessage
    <3>2. IsId(m) \/ ("PLAYER_ID" \in k.dirtyFlags => "PLAYER_ID" \in j.dirtyFlags)
      BY <2>7 DEF IsId
    <3>. QED
      BY <2>2, <2>7, <2>8, <2>10, <2>11, <3>1, <3>2, IdStaysFirst
  <2>13. CountFits => ChatInOrder(c, j, view[c], Append(s, m))
    <3>1. person[c].offset \in Nat /\ Len(messages) \in Nat
      BY GameTyped DEF PersonOK, Person
    <3>2. /\ ~IsMessage(m) => j.messageNum = k.messageNum
          /\ IsMessage(m) => m.num = k.messageNum + 1 /\ j.messageNum = k.messageNum + 1
      BY <2>7 DEF IsMessage
    <3>. QED
      BY <2>2, <2>7, <2>8, <2>10, <2>11, <3>1, <3>2, ChatStaysInOrder
  <2>14. ~j.follows => \A i \in 1 .. Len(Append(s, m)) : Append(s, m)[i].kind = "ERROR"
    BY <2>7, <2>8, <2>10, AppendProperties, LenProperties
  <2>. QED
    BY <1>1, <2>6, <2>7, <2>8, <2>9, <2>12, <2>13, <2>14 DEF Filled
<1>. QED
  BY <1>2, <1>3

\* The loop, round by round.
Rounds(c, n) ==
    CHOOSE f : f = [i \in 0 .. n |->
      IF i = 0 THEN {[conn |-> conn[c], out |-> out[c]]}
      ELSE f[i - 1] \cup {WriteOne(c, g) : g \in f[i - 1]}]

LEMMA RoundsExist ==
    ASSUME NEW c, NEW n \in Nat
    PROVE  /\ Rounds(c, n) =
                [i \in 0 .. n |->
                   IF i = 0 THEN {[conn |-> conn[c], out |-> out[c]]}
                   ELSE Rounds(c, n)[i - 1] \cup {WriteOne(c, g) : g \in Rounds(c, n)[i - 1]}]
           /\ Fillings(c, n) = Rounds(c, n)[n]
<1>. DEFINE first == {[conn |-> conn[c], out |-> out[c]]}
            More(F) == F \cup {WriteOne(c, g) : g \in F}
            Upto(q, f) == f = [i \in 0 .. q |-> IF i = 0 THEN first ELSE More(f[i - 1])]
            S == {q \in Nat : \E f : Upto(q, f)}
<1>1. Fillings(c, n) = Rounds(c, n)[n]
  BY DEF Fillings, Rounds
<1>2. Rounds(c, n) = CHOOSE f : Upto(n, f)
  BY DEF Rounds
<1>. HIDE DEF first, More
<1>3. 0 \in S
  <2>. DEFINE f == [i \in 0 .. 0 |-> first]
  <2>1. Upto(0, f)
    BY Z3
  <2>. QED
    BY <2>1
<1>4. ASSUME NEW q \in S PROVE q + 1 \in S
  <2>1. PICK f : Upto(q, f)
    OBVIOUS
  <2>. DEFINE h == [i \in 0 .. q + 1 |-> IF i <= q THEN f[i] ELSE More(f[q])]
  <2>2. \A i \in 0 .. q + 1 : h[i] = IF i = 0 THEN first ELSE More(h[i - 1])
    BY <2>1
  <2>3. Upto(q + 1, h)
    BY <2>2
  <2>. HIDE DEF Upto, h
  <2>. QED
    BY <2>3
<1>5. S = Nat
  <2>. HIDE DEF S
  <2>1. S \in SUBSET Nat
    BY DEF S
  <2>. QED
    BY <1>3, <1>4, <2>1, SetInduction
<1>6. \E f : Upto(n, f)
  BY <1>5
<1>7. Upto(n, Rounds(c, n))
  <2>. HIDE DEF Upto
  <2>. QED
    BY <1>2, <1>6
<1>. QED
  BY <1>1, <1>7 DEF More, first

\* What the loop passes through is in order, and has grown by no more than the rounds.
LEMMA FillingsKeep ==
    ASSUME GameInv, NEW c, PersonOK(c), wire[c] \in Seq(Command), view[c] \in View,
           Filled(c, conn[c], out[c]), conn[c].state \in {"OPEN", "DONE"},
           NEW n \in Nat, NEW f \in Fillings(c, n)
    PROVE  /\ Filled(c, f.conn, f.out) /\ f.conn.state \in {"OPEN", "DONE"}
           /\ Len(f.out) \in Nat /\ Len(f.out) <= Len(out[c]) + n
<1>. DEFINE A == Rounds(c, n)
            b == Len(out[c])
            Good(g, i) == /\ Filled(c, g.conn, g.out) /\ g.conn.state \in {"OPEN", "DONE"}
                          /\ Len(g.out) \in Nat /\ Len(g.out) <= b + i
            S == {i \in Nat : i <= n => \A g \in A[i] : Good(g, i)}
<1>1. /\ A = [i \in 0 .. n |-> IF i = 0 THEN {[conn |-> conn[c], out |-> out[c]]}
                               ELSE A[i - 1] \cup {WriteOne(c, g) : g \in A[i - 1]}]
      /\ Fillings(c, n) = A[n]
  BY RoundsExist
<1>2. b \in Nat
  BY LenProperties DEF Filled
<1>. HIDE DEF A, b
<1>3. 0 \in S
  <2>1. A[0] = {[conn |-> conn[c], out |-> out[c]]}
    BY <1>1
  <2>2. Len(out[c]) = b
    BY DEF b
  <2>. QED
    BY <1>2, <2>1, <2>2
<1>4. ASSUME NEW i \in S PROVE i + 1 \in S
  <2>. SUFFICES ASSUME i + 1 <= n, NEW g \in A[i + 1] PROVE Good(g, i + 1)
    OBVIOUS
  <2>1. A[i + 1] = A[i] \cup {WriteOne(c, h) : h \in A[i]}
    <3>. DEFINE q == i + 1
    <3>1. q \in 0 .. n /\ q # 0 /\ q - 1 = i
      OBVIOUS
    <3>. HIDE DEF q
    <3>2. A[q] = A[q - 1] \cup {WriteOne(c, h) : h \in A[q - 1]}
      BY <1>1, <3>1
    <3>. QED
      BY <3>1, <3>2 DEF q
  <2>2. \A h \in A[i] : Good(h, i)
    OBVIOUS
  <2>3. CASE g \in A[i]
    <3>1. Good(g, i)
      BY <2>2, <2>3
    <3>. QED
      BY <1>2, <3>1
  <2>4. CASE \E h \in A[i] : g = WriteOne(c, h)
    <3>1. PICK h \in A[i] : g = WriteOne(c, h)
      BY <2>4
    <3>2. Good(h, i)
      BY <2>2
    <3>3. /\ Filled(c, g.conn, g.out) /\ g.conn.state \in {"OPEN", "DONE"}
          /\ Len(g.out) \in Nat /\ Len(h.out) \in Nat /\ Len(g.out) <= Len(h.out) + 1
      BY <3>1, <3>2, WriteOneKeeps
    <3>. QED
      BY <1>2, <3>2, <3>3
  <2>. QED
    BY <2>1, <2>3, <2>4
<1>5. S = Nat
  <2>. HIDE DEF S
  <2>1. S \in SUBSET Nat
    BY DEF S
  <2>. QED
    BY <1>3, <1>4, <2>1, SetInduction
<1>6. Good(f, n)
  <2>. HIDE DEF Good
  <2>1. n \in S
    <3>. HIDE DEF S
    <3>. QED
      BY <1>5
  <2>2. f \in A[n]
    BY <1>1
  <2>. QED
    BY <2>1, <2>2
<1>. QED
  BY <1>6 DEF b

\* A link that nothing happens to; its person may be forgotten.
LEMMA LinkStays ==
    ASSUME GameInv, NEW c, Linked(c), UNCHANGED game,
           UNCHANGED <<conn[c], out[c], wire[c], view[c]>>,
           person'[c] = person[c]
             \/ /\ person'[c] = [person[c] EXCEPT !.known = FALSE]
                /\ person[c] # NoPerson
    PROVE  Linked(c)'
<1>1. /\ nPlayers' = nPlayers /\ flags' = flags /\ tiles' = tiles /\ messages' = messages
      /\ totalNTiles' = totalNTiles /\ language' = language
  BY DEF game
<1>2. /\ person'[c] \in Person
      /\ person'[c].seat = person[c].seat /\ person'[c].offset = person[c].offset
      /\ person'[c].byId = person[c].byId
      /\ person'[c] # NoPerson => person[c] # NoPerson
  BY DEF Linked, PersonOK, Person
<1>3. PersonOK(c)'
  BY <1>1, <1>2 DEF Linked, PersonOK, InSeats
<1>4. LinkOK(c, conn[c])'
  BY <1>1, <1>2 DEF Linked, Filled, LinkOK, InSeats
<1>5. KnowsOrNoted(c, conn[c], ViewAfter(view[c], wire[c] \o out[c]))'
  BY <1>1, <1>2 DEF Linked, Filled, KnowsOrNoted, InSeats
<1>6. IdFirst(conn[c], view[c], wire[c] \o out[c])'
  BY DEF Linked, Filled, IdFirst
<1>7. CountFits => ChatInOrder(c, conn[c], view[c], wire[c] \o out[c])'
  <2>1. CountFits => ChatInOrder(c, conn[c], view[c], wire[c] \o out[c])
    BY DEF Linked, Filled
  <2>2. Counted(c)' => Counted(c)
    BY <1>2 DEF Counted
  <2>. DEFINE k == conn[c]
              v == view[c]
              s == wire[c] \o out[c]
              o == person[c].offset
  <2>3. /\ conn'[c] = k /\ view'[c] = v /\ wire'[c] \o out'[c] = s /\ person'[c].offset = o
        /\ CountFits => ChatInOrder(c, k, v, s)
    BY <1>2, <2>1
  <2>. HIDE DEF k, v, s
  <2>4. ChatInOrder(c, k, v, s) => ChatInOrder(c, conn[c], view[c], wire[c] \o out[c])'
    BY <1>1, <2>2, <2>3 DEF ChatInOrder
  <2>. QED
    BY <2>3, <2>4
<1>8. Filled(c, conn[c], out[c])'
  BY <1>4, <1>5, <1>6, <1>7 DEF Linked, Filled
<1>. QED
  BY <1>3, <1>8 DEF Linked

-----------------------------------------------------------------------------
(* What the operations on the conversation emit.                           *)

\* Whatever an operation changes of what clients are told, it emits, and what
\* it emits is about players and tiles that there are.
Tells ==
    /\ nPlayers <= nPlayers' /\ Len(tiles) <= Len(tiles')
    /\ messages' = messages \/ \E m \in Message : messages' = Append(messages, m)
    /\ Len(messages') <= MaxMessages
    /\ \A p \in InSeats' :
         (p \in InSeats /\ flags'[p] = flags[p]) \/ PlayerChanged(p) \in changed'
    /\ \A i \in 0 .. Len(tiles') - 1 :
         (i < Len(tiles) /\ tiles'[i + 1] = tiles[i + 1]) \/ TileChanged(i) \in changed'
    /\ totalNTiles' = totalNTiles \/ ChangeOf("N_TILES") \in changed'
    /\ language' = language \/ ChangeOf("TILE_DATA") \in changed'
    /\ \A e \in changed' : /\ e.type = "PLAYER" => e.num \in InSeats'
                           /\ e.type = "TILE" => e.num \in 0 .. Len(tiles') - 1
                           /\ e.type = "SHOUTED" => e.num \in Seat

\* Flags that differ are those of players who sit at the table.
LEMMA FlagChangesAreTold ==
    ASSUME GameInv, GameInv', nPlayers' = nPlayers
    PROVE  /\ \A p \in InSeats' :
                (p \in InSeats /\ flags'[p] = flags[p]) \/ PlayerChanged(p) \in FlagChanges(flags')
           /\ \A e \in FlagChanges(flags') : e.type = "PLAYER" /\ e.num \in InSeats'
<1>1. InSeats' = InSeats /\ InSeats \subseteq Seat
  BY GameTyped DEF InSeats
<1>2. \A p \in Seat : flags'[p] # flags[p] => p < nPlayers
  BY DEF GameInv, TurnFlagsSound
<1>3. \A p \in Seat : p < nPlayers => p \in InSeats
  BY GameTyped DEF InSeats, Seat
<1>4. \A e \in FlagChanges(flags') : \E p \in Seat : flags'[p] # flags[p] /\ e = PlayerChanged(p)
  BY DEF FlagChanges
<1>5. \A p \in Seat : flags'[p] # flags[p] => PlayerChanged(p) \in FlagChanges(flags')
  BY DEF FlagChanges
<1>6. \A p : PlayerChanged(p).type = "PLAYER" /\ PlayerChanged(p).num = p
  BY DEF PlayerChanged
<1>. QED
  BY <1>1, <1>2, <1>3, <1>4, <1>5, <1>6

LEMMA OperationsTell ==
    ASSUME GameInv, GameInv', Len(messages) <= MaxMessages, Next
    PROVE  Tells
<1>. USE DEF Tells
<1>1. /\ nPlayers \in Nat /\ Len(tiles) \in Nat /\ Len(messages) \in Nat /\ MaxPlayers \in Nat
      /\ nPlayers' \in Nat /\ InSeats' = 0 .. nPlayers' - 1 /\ InSeats = 0 .. nPlayers - 1
  <2>1. nPlayers \in Nat /\ nPlayers' \in Nat
    BY ConversationAssumption DEF GameInv, TypeOK
  <2>. QED
    BY <2>1, GameTyped DEF InSeats
<1>2. \A t : ChangeOf(t).type = t
  BY DEF ChangeOf
<1>3. CASE AddPlayer
  <2>1. /\ nPlayers' = nPlayers + 1 /\ flags' = [flags EXCEPT ![nPlayers] = {"CONNECTED"}]
        /\ UNCHANGED <<tiles, totalNTiles, language, bag, messages, shoutAge>>
        /\ PlayerChanged(nPlayers) \in changed'
        /\ \A e \in changed' : e = PlayerChanged(nPlayers) \/ e = ChangeOf("STATE")
    BY <1>3 DEF AddPlayer, StartAndEmit
  <2>2. \A p \in InSeats' : p \in InSeats \/ p = nPlayers
    BY <1>1, <2>1
  <2>3. \A p \in InSeats : flags'[p] = flags[p]
    BY <1>1, <2>1, GameTyped
  <2>4. nPlayers \in InSeats' /\ PlayerChanged(nPlayers).type = "PLAYER"
        /\ PlayerChanged(nPlayers).num = nPlayers
    BY <1>1, <2>1 DEF PlayerChanged
  <2>. QED
    BY <1>1, <1>2, <2>1, <2>2, <2>3, <2>4
\* The operations that change flags and nothing else, or something else as well.
<1>4. CASE \/ \E p \in Seat : PlayerLeft(p)
           \/ \E p \in Seat, typing \in BOOLEAN : SetTyping(p, typing)
  <2>1. /\ changed' = FlagChanges(flags')
        /\ UNCHANGED <<nPlayers, tiles, totalNTiles, language, messages>>
    BY <1>4 DEF PlayerLeft, SetTyping
  <2>. QED
    BY <1>1, <2>1, FlagChangesAreTold
<1>5. CASE \E p \in Seat, text \in Text : SendMessage(p, text)
  <2>1. /\ changed' = {ChangeOf("MESSAGE")} \cup FlagChanges(flags')
        /\ UNCHANGED <<nPlayers, tiles, totalNTiles, language>>
        /\ Len(messages) < MaxMessages
        /\ \E m \in Message : messages' = Append(messages, m)
    BY <1>5 DEF SendMessage, Message
  <2>2. Len(messages') = Len(messages) + 1
    BY <2>1, GameTyped, AppendProperties
  <2>. QED
    BY <1>1, <1>2, <2>1, <2>2, FlagChangesAreTold, ConversationAssumption
<1>6. CASE \E p \in Seat, n \in 0 .. MaxTiles + 1 : SetNTiles(p, n)
  BY <1>1, <1>2, <1>6 DEF SetNTiles
<1>7. CASE \E p \in Seat, lang \in Language : SetTileData(p, lang)
  BY <1>1, <1>2, <1>7 DEF SetTileData
<1>8. CASE \E p \in Seat : Turn(p)
  <2>1. /\ changed' \subseteq {TileChanged(Len(tiles))} \cup FlagChanges(flags')
                                \cup {ChangeOf("STATE")}
        /\ {TileChanged(Len(tiles))} \cup FlagChanges(flags') \subseteq changed'
        /\ \E place \in Place : tiles' = Append(tiles, [place |-> place, lastPlayer |-> Nobody])
        /\ UNCHANGED <<nPlayers, totalNTiles, language, messages>>
    BY <1>8 DEF Turn, StartAndEmit
  <2>2. Len(tiles') = Len(tiles) + 1 /\ \A i \in 1 .. Len(tiles) : tiles'[i] = tiles[i]
    <3>1. \A place \in Place : [place |-> place, lastPlayer |-> Nobody] \in Tile
      BY DEF Tile
    <3>. QED
      BY <2>1, <3>1, GameTyped, AppendProperties
  <2>3. TileChanged(Len(tiles)).type = "TILE" /\ TileChanged(Len(tiles)).num = Len(tiles)
    BY DEF TileChanged
  <2>4. \A i \in 0 .. Len(tiles') - 1 :
          (i < Len(tiles) /\ tiles'[i + 1] = tiles[i + 1]) \/ TileChanged(i) \in changed'
    BY <1>1, <2>1, <2>2
  <2>. QED
    BY <1>1, <1>2, <2>1, <2>2, <2>3, <2>4, FlagChangesAreTold
<1>9. CASE \E p \in Seat, i \in 0 .. MaxTiles - 1, place \in Place : MoveTile(p, i, place)
  <2>1. PICK p \in Seat, i \in 0 .. MaxTiles - 1, place \in Place : MoveTile(p, i, place)
    BY <1>9
  <2>2. /\ p \in InSeats /\ i < Len(tiles)
        /\ tiles' = [tiles EXCEPT ![i + 1] = [place |-> place, lastPlayer |-> p]]
        /\ changed' = {TileChanged(i)}
        /\ UNCHANGED <<nPlayers, flags, totalNTiles, language, messages>>
    BY <2>1 DEF MoveTile
  <2>3. /\ Len(tiles') = Len(tiles)
        /\ \A j \in 1 .. Len(tiles) : j # i + 1 => tiles'[j] = tiles[j]
    <3>1. [place |-> place, lastPlayer |-> p] \in Tile
      BY DEF Tile
    <3>2. i + 1 \in 1 .. Len(tiles)
      BY <1>1, <2>2, GameTyped
    <3>. QED
      BY <2>2, <3>1, <3>2, GameTyped, ExceptSeq
  <2>4. TileChanged(i).type = "TILE" /\ TileChanged(i).num = i /\ i \in Nat
    BY GameTyped DEF TileChanged
  <2>. QED
    BY <1>1, <2>2, <2>3, <2>4
<1>10. CASE \E p \in Seat : Shout(p)
  <2>1. PICK p \in Seat : Shout(p)
    BY <1>10
  <2>2. Shouted(p).type = "SHOUTED" /\ Shouted(p).num = p
    BY DEF Shouted
  <2>. QED
    BY <1>1, <2>1, <2>2 DEF Shout
<1>11. CASE Tick
  BY <1>1, <1>11 DEF Tick
<1>. QED
  BY <1>3, <1>4, <1>5, <1>6, <1>7, <1>8, <1>9, <1>10, <1>11 DEF Next

-----------------------------------------------------------------------------
(* Every step keeps the invariant.                                         *)

\* As an implication it also holds of the next state.
Fits ==
    /\ Len(tiles) \in 0 .. MaxTiles /\ Len(messages) \in Nat
    /\ nPlayers \in Nat /\ InSeats = 0 .. nPlayers - 1 /\ InSeats \subseteq Seat
    /\ MaxTiles \in Nat
LEMMA GameFits == GameInv => Fits
BY GameTyped DEF Fits, InSeats

\* A connection that has noted what an operation emitted.
LEMMA NotifiedNotes ==
    ASSUME GameInv', NEW k \in Link, Tells, InSeats' \subseteq Seat
    PROVE  LET j == Notified(k)
               told(type) == {e.num : e \in {d \in changed' : d.type = type}}
           IN /\ j \in Link
              /\ j.follows = k.follows /\ j.state = k.state /\ j.messageNum = k.messageNum
              /\ j.namedPlayers = k.namedPlayers
              /\ ~k.follows => j = k
              /\ k.follows =>
                   /\ j.dirtyPlayers = k.dirtyPlayers \cup told("PLAYER")
                   /\ j.dirtyTiles = k.dirtyTiles \cup told("TILE")
                   /\ k.dirtyFlags \subseteq j.dirtyFlags
                   /\ "ERROR" \in j.dirtyFlags => "ERROR" \in k.dirtyFlags
                   /\ told("N_TILES") # {} => "N_TILES" \in j.dirtyFlags
                   /\ told("TILE_DATA") # {} => "LANGUAGE" \in j.dirtyFlags
<1>. DEFINE told(type) == {e.num : e \in {d \in changed' : d.type = type}}
            j == Notified(k)
<1>1. CASE ~k.follows
  BY <1>1 DEF Notified
<1>2. CASE k.follows
  <2>. DEFINE players == k.dirtyPlayers \cup told("PLAYER")
              noted == k.dirtyTiles \cup told("TILE")
              fl == k.dirtyFlags \cup {f \in {"N_TILES"} : told("N_TILES") # {}}
                                 \cup {f \in {"LANGUAGE"} : told("TILE_DATA") # {}}
                                 \cup {f \in {"PLAYER_SHOUTED"} : told("SHOUTED") # {}}
              shout == IF told("SHOUTED") # {} THEN CHOOSE p \in told("SHOUTED") : TRUE
                       ELSE k.pendingShout
  <2>1. j = [k EXCEPT !.dirtyPlayers = players, !.dirtyTiles = noted, !.dirtyFlags = fl,
                      !.pendingShout = shout]
    BY <1>2 DEF Notified, Link
  <2>2. players \in SUBSET Seat
    BY DEF Tells, Link
  <2>3. noted \in SUBSET (0 .. MaxTiles - 1)
    <3>0. Len(tiles') \in 0 .. MaxTiles /\ MaxTiles \in Nat
      <4>1. Fits'
        BY GameFits, PTL
      <4>. QED
        BY <4>1 DEF Fits
    <3>1. \A i \in 0 .. Len(tiles') - 1 : i \in 0 .. MaxTiles - 1
      BY <3>0
    <3>2. told("TILE") \subseteq 0 .. Len(tiles') - 1
      BY DEF Tells
    <3>. QED
      BY <3>1, <3>2 DEF Link
  <2>4. fl \in SUBSET DirtyFlag
    BY DEF Link, DirtyFlag
  <2>5. shout \in Seat
    <3>1. told("SHOUTED") \subseteq Seat
      BY DEF Tells
    <3>. HIDE DEF told
    <3>. QED
      BY <3>1 DEF Link
  <2>. HIDE DEF players, noted, fl, shout, j
  <2>6. /\ j \in Link
        /\ j.follows = k.follows /\ j.state = k.state /\ j.messageNum = k.messageNum
        /\ j.namedPlayers = k.namedPlayers
        /\ j.dirtyPlayers = players /\ j.dirtyTiles = noted /\ j.dirtyFlags = fl
    BY <2>1, <2>2, <2>3, <2>4, <2>5 DEF Link
  <2>7. /\ k.dirtyFlags \subseteq fl
        /\ "ERROR" \in fl => "ERROR" \in k.dirtyFlags
        /\ told("N_TILES") # {} => "N_TILES" \in fl
        /\ told("TILE_DATA") # {} => "LANGUAGE" \in fl
    BY DEF fl
  <2>. QED
    BY <1>2, <2>6, <2>7 DEF j, players, noted
<1>. QED
  BY <1>1, <1>2

\* An operation on the game, of which the connection of c is told.
LEMMA NotifiedKeeps ==
    ASSUME GameInv, GameInv', NEW c, Linked(c), Tells, conn'[c] = Notified(conn[c]),
           UNCHANGED <<out[c], wire[c], view[c]>>,
           person'[c] = person[c]
             \/ /\ person'[c] = [person[c] EXCEPT !.known = FALSE]
                /\ person[c] # NoPerson
    PROVE  Linked(c)'
<1>. DEFINE k == conn[c]
            j == conn'[c]
            s == wire[c] \o out[c]
            w == ViewAfter(view[c], s)
            told(type) == {e.num : e \in {d \in changed' : d.type = type}}
<1>1. /\ nPlayers \in Nat /\ nPlayers' \in Nat /\ nPlayers <= nPlayers'
      /\ InSeats = 0 .. nPlayers - 1 /\ InSeats' = 0 .. nPlayers' - 1 /\ InSeats' \subseteq Seat
      /\ Len(messages) \in Nat /\ Len(messages') \in Nat /\ Len(messages) <= Len(messages')
      /\ Len(tiles) \in Nat /\ Len(tiles') \in Nat /\ Len(tiles) <= Len(tiles')
  <2>1. Len(messages) <= Len(messages')
    BY GameTyped, AppendProperties DEF Tells
  <2>2. /\ Len(tiles') \in 0 .. MaxTiles /\ Len(messages') \in Nat
        /\ nPlayers' \in Nat /\ InSeats' = 0 .. nPlayers' - 1 /\ InSeats' \subseteq Seat
        /\ MaxTiles \in Nat
    <3>1. Fits'
      BY GameFits, PTL
    <3>. QED
      BY <3>1 DEF Fits
  <2>. QED
    BY <2>1, <2>2, GameFits DEF Tells, Fits
<1>2. /\ person[c] \in Person /\ person'[c] \in Person
      /\ person'[c].seat = person[c].seat /\ person'[c].offset = person[c].offset
      /\ person'[c].byId = person[c].byId
      /\ person'[c] # NoPerson => person[c] # NoPerson
  BY DEF Linked, PersonOK, Person
<1>3. k \in Link /\ LinkOK(c, k) /\ KnowsOrNoted(c, k, w)
  BY DEF Linked, Filled, LinkOK
<1>4. /\ j \in Link
      /\ j.follows = k.follows /\ j.state = k.state /\ j.messageNum = k.messageNum
      /\ j.namedPlayers = k.namedPlayers
      /\ ~k.follows => j = k
      /\ k.follows =>
           /\ j.dirtyPlayers = k.dirtyPlayers \cup told("PLAYER")
           /\ j.dirtyTiles = k.dirtyTiles \cup told("TILE")
           /\ k.dirtyFlags \subseteq j.dirtyFlags
           /\ "ERROR" \in j.dirtyFlags => "ERROR" \in k.dirtyFlags
           /\ told("N_TILES") # {} => "N_TILES" \in j.dirtyFlags
           /\ told("TILE_DATA") # {} => "LANGUAGE" \in j.dirtyFlags
  <2>. HIDE DEF k
  <2>1. j = Notified(k)
    BY DEF k
  <2>. HIDE DEF j
  <2>. QED
    BY <1>1, <1>3, <2>1, NotifiedNotes
<1>5. /\ \A p : PlayerChanged(p) \in changed' => p \in told("PLAYER")
      /\ \A i : TileChanged(i) \in changed' => i \in told("TILE")
      /\ \A t : ChangeOf(t) \in changed' => told(t) # {}
      /\ told("PLAYER") \subseteq InSeats' /\ told("TILE") \subseteq 0 .. Len(tiles') - 1
  <2>1. /\ \A p : PlayerChanged(p).type = "PLAYER" /\ PlayerChanged(p).num = p
        /\ \A i : TileChanged(i).type = "TILE" /\ TileChanged(i).num = i
        /\ \A t : ChangeOf(t).type = t
    BY DEF PlayerChanged, TileChanged, ChangeOf
  <2>. QED
    BY <2>1 DEF Tells
<1>. HIDE DEF told
<1>6. PersonOK(c)'
  <2>1. /\ person[c].offset <= Len(messages) /\ person[c].offset \in Nat
        /\ person[c] # NoPerson => person[c].seat \in InSeats
    BY <1>2 DEF Linked, PersonOK, Person
  <2>2. person'[c].offset <= Len(messages')
    BY <1>1, <1>2, <2>1
  <2>3. person'[c] # NoPerson => person'[c].seat \in InSeats'
    BY <1>1, <1>2, <2>1
  <2>. QED
    BY <1>2, <2>2, <2>3 DEF PersonOK
<1>7. LinkOK(c, conn[c])'
  <2>1. /\ j.namedPlayers \in 0 .. nPlayers' /\ j.messageNum \in 0 .. Len(messages')
        /\ j.dirtyPlayers \subseteq InSeats' /\ j.dirtyTiles \subseteq 0 .. Len(tiles') - 1
    BY <1>1, <1>3, <1>4, <1>5 DEF LinkOK
  <2>2. /\ j.follows => person'[c].seat \in InSeats' /\ "ERROR" \notin j.dirtyFlags
        /\ ~j.follows =>
             j.dirtyPlayers = {} /\ j.dirtyTiles = {} /\ j.dirtyFlags \subseteq {"ERROR"}
    BY <1>1, <1>2, <1>3, <1>4 DEF LinkOK
  <2>. QED
    BY <1>4, <2>1, <2>2 DEF LinkOK
<1>8. KnowsOrNoted(c, conn[c], ViewAfter(view[c], wire[c] \o out[c]))'
  <2>. SUFFICES ASSUME k.follows
                PROVE  /\ \A p \in InSeats' \ j.dirtyPlayers : w.flags[p] = flags'[p]
                       /\ \A p \in InSeats' : p >= k.namedPlayers \/ p \in w.names
                       /\ \A i \in (0 .. Len(tiles') - 1) \ j.dirtyTiles :
                            w.tiles[i] = tiles'[i + 1]
                       /\ "N_TILES" \notin j.dirtyFlags => w.nTiles = totalNTiles'
                       /\ "LANGUAGE" \notin j.dirtyFlags => w.language = language'
                       /\ "PLAYER_ID" \notin j.dirtyFlags => w.self = person'[c].seat
    BY <1>3, <1>4 DEF KnowsOrNoted
  <2>1. \A p \in InSeats' \ j.dirtyPlayers : w.flags[p] = flags'[p]
    BY <1>3, <1>4, <1>5 DEF KnowsOrNoted, Tells
  <2>2. \A p \in InSeats' : p >= k.namedPlayers \/ p \in w.names
    BY <1>1, <1>3 DEF KnowsOrNoted, LinkOK
  <2>3. \A i \in (0 .. Len(tiles') - 1) \ j.dirtyTiles : w.tiles[i] = tiles'[i + 1]
    <3>. SUFFICES ASSUME NEW i \in (0 .. Len(tiles') - 1) \ j.dirtyTiles
                  PROVE  w.tiles[i] = tiles'[i + 1]
      OBVIOUS
    <3>1. i < Len(tiles) /\ tiles'[i + 1] = tiles[i + 1]
      BY <1>4, <1>5 DEF Tells
    <3>2. i \in (0 .. Len(tiles) - 1) \ k.dirtyTiles
      BY <1>1, <1>4, <3>1
    <3>. QED
      BY <1>3, <3>1, <3>2 DEF KnowsOrNoted
  <2>4. "N_TILES" \notin j.dirtyFlags => w.nTiles = totalNTiles'
    BY <1>3, <1>4, <1>5 DEF KnowsOrNoted, Tells
  <2>5. "LANGUAGE" \notin j.dirtyFlags => w.language = language'
    BY <1>3, <1>4, <1>5 DEF KnowsOrNoted, Tells
  <2>6. "PLAYER_ID" \notin j.dirtyFlags => w.self = person'[c].seat
    BY <1>2, <1>3, <1>4 DEF KnowsOrNoted
  <2>. QED
    BY <2>1, <2>2, <2>3, <2>4, <2>5, <2>6
<1>9. IdFirst(conn[c], view[c], wire[c] \o out[c])'
  <2>1. "PLAYER_ID" \in k.dirtyFlags => "PLAYER_ID" \in j.dirtyFlags
    BY <1>3, <1>4 DEF LinkOK
  <2>2. IdFirst(k, view[c], s)
    BY DEF Linked, Filled
  <2>. QED
    BY <1>4, <2>1, <2>2 DEF IdFirst
<1>10. CountFits => ChatInOrder(c, conn[c], view[c], wire[c] \o out[c])'
  <2>1. CountFits => ChatInOrder(c, k, view[c], s)
    BY DEF Linked, Filled
  <2>2. Len(view[c].log) \in Nat
    BY LenProperties DEF Linked, View
  <2>3. person[c].offset \in Nat
    BY <1>2 DEF Person
  <2>4. person'[c] # NoPerson => person[c] # NoPerson
    BY <1>2
  <2>5. ChatInOrder(c, k, view[c], s) => ChatInOrder(c, conn[c], view[c], wire[c] \o out[c])'
    <3>. DEFINE had == person[c].offset + Len(view[c].log)
    <3>1. had \in Nat /\ (had <= Len(messages) => had <= Len(messages'))
      <4>1. had \in Nat
        BY <2>2, <2>3
      <4>2. Len(messages) \in Nat /\ Len(messages') \in Nat /\ Len(messages) <= Len(messages')
        BY <1>1
      <4>. HIDE DEF had
      <4>. QED
        BY <4>1, <4>2
    <3>2. /\ person'[c].offset + Len(view'[c].log) = had
          /\ person'[c].offset = person[c].offset /\ view'[c] = view[c]
          /\ wire'[c] \o out'[c] = s
          /\ Counted(c)' => Counted(c)
      BY <1>2, <2>4 DEF Counted
    <3>. HIDE DEF k, j, s, had
    <3>. QED
      BY <1>4, <3>1, <3>2 DEF ChatInOrder, had, j
  <2>. QED
    BY <2>1, <2>5
<1>11. Filled(c, conn[c], out[c])'
  <2>1. out'[c] \in Seq(Command)
    BY DEF Linked, Filled
  <2>2. ~j.follows => \A i \in 1 .. Len(s) : s[i].kind = "ERROR"
    BY <1>4 DEF Linked, Filled
  <2>. QED
    BY <1>7, <1>8, <1>9, <1>10, <2>1, <2>2 DEF Filled
<1>. QED
  BY <1>4, <1>6, <1>11 DEF Linked

\* What the socket takes is what is first in the buffer: the stream is the same.
LEMMA SameStream ==
    ASSUME NEW S, NEW a \in Seq(S), NEW b \in Seq(S), NEW m \in 0 .. Len(b)
    PROVE  /\ a \o SubSeq(b, 1, m) \in Seq(S) /\ Len(a \o SubSeq(b, 1, m)) = Len(a) + m
           /\ SubSeq(b, m + 1, Len(b)) \in Seq(S)
           /\ Len(SubSeq(b, m + 1, Len(b))) = Len(b) - m
           /\ (a \o SubSeq(b, 1, m)) \o SubSeq(b, m + 1, Len(b)) = a \o b
<1>. DEFINE taken == SubSeq(b, 1, m)
            left == SubSeq(b, m + 1, Len(b))
<1>1. Len(a) \in Nat /\ Len(b) \in Nat /\ m \in Nat /\ \A i \in 1 .. Len(b) : b[i] \in S
  BY LenProperties
<1>2. taken \in Seq(S) /\ Len(taken) = m
  <2>1. \A i \in 1 .. m : b[i] \in S
    BY <1>1
  <2>. QED
    BY <1>1, <2>1, SubSeqProperties
<1>3. left \in Seq(S) /\ Len(left) = Len(b) - m
  <2>1. \A i \in m + 1 .. Len(b) : b[i] \in S
    BY <1>1
  <2>2. m + 1 \in Int /\ Len(b) \in Int
    BY <1>1
  <2>3. /\ SubSeq(b, m + 1, Len(b)) \in Seq(S)
        /\ Len(SubSeq(b, m + 1, Len(b))) =
             IF m + 1 <= Len(b) THEN Len(b) - (m + 1) + 1 ELSE 0
    BY <2>1, <2>2, SubSeqProperties
  <2>. QED
    BY <1>1, <2>3
<1>4. taken \o left = b
  <2>1. 1 \in 1 .. Len(b) + 1 /\ m \in 1 - 1 .. Len(b) /\ Len(b) \in m .. Len(b)
    BY <1>1
  <2>2. SubSeq(b, 1, m) \o SubSeq(b, m + 1, Len(b)) = SubSeq(b, 1, Len(b))
    BY <2>1, ConcatAdjacentSubSeq
  <2>. QED
    BY <2>2, SubSeqFull
<1>. HIDE DEF taken, left
<1>5. a \o taken \in Seq(S) /\ Len(a \o taken) = Len(a) + m
  BY <1>2, ConcatProperties
<1>6. (a \o taken) \o left = a \o (taken \o left)
  <2>1. \A x, y, z \in Seq(S) : (x \o y) \o z = x \o (y \o z)
    BY ConcatAssociative
  <2>. QED
    BY <1>2, <1>3, <2>1
<1>. QED
  BY <1>3, <1>4, <1>5, <1>6 DEF taken, left

LEMMA HandleWriteKeeps ==
    ASSUME LinkInvariant, NEW c \in Client, HandleWrite(c)
    PROVE  LinkInvariant'
<1>1. UNCHANGED game /\ UNCHANGED <<person, view, play>>
  BY DEF HandleWrite, NoOperation
<1>2. GameInv /\ Linked(c)
  BY DEF LinkInvariant
<1>3. PICK f \in Fillings(c, OutCap - Len(out[c])) :
        /\ conn' = [conn EXCEPT ![c] = f.conn]
        /\ \E m \in 0 .. Min({Len(f.out), WireCap - Len(wire[c])}) :
             /\ wire' = [wire EXCEPT ![c] = @ \o SubSeq(f.out, 1, m)]
             /\ out' = [out EXCEPT ![c] = SubSeq(f.out, m + 1, Len(f.out))]
  BY DEF HandleWrite
<1>4. PICK m \in 0 .. Min({Len(f.out), WireCap - Len(wire[c])}) :
        /\ wire' = [wire EXCEPT ![c] = @ \o SubSeq(f.out, 1, m)]
        /\ out' = [out EXCEPT ![c] = SubSeq(f.out, m + 1, Len(f.out))]
  BY <1>3
<1>5. /\ wire[c] \in Seq(Command) /\ Len(wire[c]) \in Nat /\ Len(wire[c]) <= WireCap
      /\ Len(out[c]) \in Nat /\ Len(out[c]) <= OutCap /\ OutCap \in Nat /\ WireCap \in Nat
      /\ PersonOK(c) /\ view[c] \in View
  BY <1>2, LenProperties, ConnectionAssumption DEF Linked, Filled
<1>6. /\ Filled(c, f.conn, f.out) /\ f.conn.state \in {"OPEN", "DONE"}
      /\ Len(f.out) \in Nat /\ Len(f.out) <= OutCap
  <2>1. Filled(c, conn[c], out[c]) /\ conn[c].state \in {"OPEN", "DONE"}
    BY <1>2 DEF Linked, HandleWrite, CanWrite
  <2>. DEFINE n == OutCap - Len(out[c])
  <2>2. n \in Nat /\ f \in Fillings(c, n)
    BY <1>5
  <2>. HIDE DEF n
  <2>3. /\ Filled(c, f.conn, f.out) /\ f.conn.state \in {"OPEN", "DONE"}
        /\ Len(f.out) \in Nat /\ Len(f.out) <= Len(out[c]) + n
    BY <1>2, <1>5, <2>1, <2>2, FillingsKeep
  <2>. QED
    BY <1>5, <2>3 DEF n
<1>7. m \in 0 .. Len(f.out) /\ Len(wire[c]) + m <= WireCap
  <2>. DEFINE room == WireCap - Len(wire[c])
              size == Len(f.out)
  <2>1. room \in Nat /\ size \in Nat /\ m \in 0 .. Min({size, room})
    BY <1>5, <1>6
  <2>2. Min({size, room}) \in {size, room} /\ \A n \in {size, room} : Min({size, room}) <= n
    <3>. HIDE DEF room, size
    <3>. QED
      BY <2>1, MinIsLeast
  <2>3. m \in Nat /\ m <= size /\ m <= room
    <3>. HIDE DEF room, size
    <3>. QED
      BY <2>1, <2>2
  <2>. QED
    BY <1>5, <2>1, <2>3
<1>. DEFINE a == wire[c]
            b == f.out
            k == f.conn
<1>8. /\ conn'[c] = k /\ wire'[c] = a \o SubSeq(b, 1, m)
      /\ out'[c] = SubSeq(b, m + 1, Len(b))
  BY <1>3, <1>4 DEF LinkInvariant
<1>9. /\ wire'[c] \in Seq(Command) /\ Len(wire'[c]) <= WireCap
      /\ out'[c] \in Seq(Command) /\ Len(out'[c]) <= OutCap
      /\ wire'[c] \o out'[c] = a \o b
  <2>1. a \in Seq(Command) /\ b \in Seq(Command) /\ m \in 0 .. Len(b)
    BY <1>5, <1>6, <1>7 DEF Filled
  <2>2. Len(a) + m <= WireCap /\ Len(b) - m <= OutCap
    BY <1>5, <1>6, <1>7
  <2>. HIDE DEF a, b
  <2>3. /\ a \o SubSeq(b, 1, m) \in Seq(Command) /\ Len(a \o SubSeq(b, 1, m)) = Len(a) + m
        /\ SubSeq(b, m + 1, Len(b)) \in Seq(Command)
        /\ Len(SubSeq(b, m + 1, Len(b))) = Len(b) - m
        /\ (a \o SubSeq(b, 1, m)) \o SubSeq(b, m + 1, Len(b)) = a \o b
    <3>1. \A x, y \in Seq(Command) : \A n \in 0 .. Len(y) :
            /\ x \o SubSeq(y, 1, n) \in Seq(Command) /\ Len(x \o SubSeq(y, 1, n)) = Len(x) + n
            /\ SubSeq(y, n + 1, Len(y)) \in Seq(Command)
            /\ Len(SubSeq(y, n + 1, Len(y))) = Len(y) - n
            /\ (x \o SubSeq(y, 1, n)) \o SubSeq(y, n + 1, Len(y)) = x \o y
      BY SameStream
    <3>. QED
      BY <2>1, <3>1
  <2>. QED
    BY <1>8, <2>2, <2>3
<1>10. Filled(c, k, b)
  BY <1>6
<1>11. k.state \in {"OPEN", "DONE"}
  BY <1>6
<1>12. /\ nPlayers' = nPlayers /\ flags' = flags /\ tiles' = tiles /\ messages' = messages
       /\ totalNTiles' = totalNTiles /\ language' = language
  BY <1>1 DEF game
<1>. HIDE DEF a, b, k
<1>13. Filled(c, conn[c], out[c])'
  <2>. DEFINE s == wire[c] \o b
  <2>0. s = wire'[c] \o out'[c]
    BY <1>9 DEF a
  <2>1. /\ LinkOK(c, k) /\ KnowsOrNoted(c, k, ViewAfter(view[c], s)) /\ IdFirst(k, view[c], s)
        /\ CountFits => ChatInOrder(c, k, view[c], s)
        /\ ~k.follows => \A i \in 1 .. Len(s) : s[i].kind = "ERROR"
    BY <1>10 DEF Filled
  <2>. HIDE DEF s
  <2>2. LinkOK(c, conn[c])'
    BY <1>1, <1>8, <1>12, <2>1 DEF LinkOK, InSeats
  <2>3. KnowsOrNoted(c, conn[c], ViewAfter(view[c], wire[c] \o out[c]))'
    BY <1>1, <1>8, <1>12, <2>0, <2>1 DEF KnowsOrNoted, InSeats
  <2>4. IdFirst(conn[c], view[c], wire[c] \o out[c])'
    BY <1>1, <1>8, <2>0, <2>1 DEF IdFirst
  <2>5. CountFits => ChatInOrder(c, conn[c], view[c], wire[c] \o out[c])'
    BY <1>1, <1>8, <1>12, <2>0, <2>1 DEF ChatInOrder, Counted
  <2>. QED
    BY <1>8, <1>9, <2>0, <2>1, <2>2, <2>3, <2>4, <2>5 DEF Filled
<1>14. Linked(c)'
  <2>1. PersonOK(c)'
    BY <1>1, <1>5, <1>12 DEF PersonOK, InSeats
  <2>. QED
    BY <1>1, <1>5, <1>8, <1>9, <1>11, <1>13, <2>1 DEF Linked
<1>15. ASSUME NEW d \in Client, d # c PROVE Linked(d)'
  <2>1. conn'[d] = conn[d] /\ wire'[d] = wire[d] /\ out'[d] = out[d]
    BY <1>3, <1>4, <1>15 DEF LinkInvariant
  <2>. QED
    BY <1>1, <1>2, <2>1, LinkStays DEF LinkInvariant
<1>16. GameInv'
  BY <1>1, <1>2, NextKeepsInv
<1>. QED
  BY <1>1, <1>3, <1>4, <1>12, <1>14, <1>15, <1>16 DEF LinkInvariant

\* The client takes the first command of the stream.
LEMMA IdStaysFirstWhenTaken ==
    ASSUME NEW k \in Link, NEW v \in View, NEW s \in Seq(Command), s # <<>>, IdFirst(k, v, s)
    PROVE  IdFirst(k, Told(v, Head(s)), Tail(s))
<1>. DEFINE h == Head(s)
            t == Tail(s)
            w == Told(v, h)
            n == Len(s)
<1>1. /\ n \in Nat \ {0} /\ h = s[1] /\ h \in Command /\ Len(t) = n - 1
      /\ \A i \in 1 .. n - 1 : t[i] = s[i + 1]
  BY HeadTailProperties, EmptySeq
<1>. HIDE DEF h, t, n
<1>2. /\ w.self = IF h.kind = "PLAYER_ID" THEN h.num ELSE v.self
      /\ w.log = IF h.kind = "MESSAGE" THEN Append(v.log, h.num) ELSE v.log
      /\ h.kind = "PLAYER_ID" => h.num \in Seat
  BY <1>1, ToldTyped, CommandKinds
<1>. HIDE DEF w
<1>. SUFFICES ASSUME w.self = Nobody
              PROVE  /\ w.log = <<>>
                     /\ \A i \in 1 .. Len(t) :
                          IsMessage(t[i]) => \E j \in 1 .. i - 1 : IsId(t[j])
                     /\ k.follows =>
                          "PLAYER_ID" \in k.dirtyFlags \/ \E j \in 1 .. Len(t) : IsId(t[j])
  BY DEF IdFirst, w, t, h
<1>3. ~IsId(s[1]) /\ v.self = Nobody
  <2>1. h.kind # "PLAYER_ID"
    BY <1>2 DEF Seat, Nobody
  <2>. QED
    BY <1>1, <1>2, <2>1 DEF IsId
<1>4. /\ v.log = <<>>
      /\ \A i \in 1 .. n : IsMessage(s[i]) => \E j \in 1 .. i - 1 : IsId(s[j])
      /\ k.follows => "PLAYER_ID" \in k.dirtyFlags \/ \E j \in 1 .. n : IsId(s[j])
  BY <1>3 DEF IdFirst, n
<1>5. w.log = <<>>
  <2>1. ~IsMessage(s[1])
    BY <1>1, <1>4
  <2>. QED
    BY <1>1, <1>2, <1>4, <2>1 DEF IsMessage
<1>6. ASSUME NEW i \in 1 .. Len(t), IsMessage(t[i])
      PROVE  \E j \in 1 .. i - 1 : IsId(t[j])
  <2>1. i + 1 \in 1 .. n /\ IsMessage(s[i + 1])
    BY <1>1, <1>6
  <2>2. PICK j \in 1 .. i : IsId(s[j])
    BY <1>4, <2>1
  <2>3. j - 1 \in 1 .. i - 1 /\ t[j - 1] = s[j]
    BY <1>1, <1>3, <2>1, <2>2
  <2>. QED
    BY <2>2, <2>3
<1>7. ASSUME NEW j \in 1 .. n, IsId(s[j])
      PROVE  \E i \in 1 .. Len(t) : IsId(t[i])
  <2>1. j - 1 \in 1 .. Len(t) /\ t[j - 1] = s[j]
    BY <1>1, <1>3, <1>7
  <2>. QED
    BY <1>7, <2>1
<1>. QED
  BY <1>4, <1>5, <1>6, <1>7

LEMMA ChatStaysInOrderWhenTaken ==
    ASSUME NEW c, NEW k \in Link, NEW v \in View, NEW s \in Seq(Command), s # <<>>,
           ChatInOrder(c, k, v, s), person[c].offset \in Nat, Len(messages) \in Nat,
           k.messageNum <= Len(messages),
           ~k.follows => \A i \in 1 .. Len(s) : s[i].kind = "ERROR"
    PROVE  /\ ChatInOrder(c, k, Told(v, Head(s)), Tail(s))
           /\ Counted(c) /\ IsMessage(Head(s)) =>
                /\ Head(s).num = person[c].offset + Len(v.log) + 1
                /\ Head(s).num <= Len(messages)
<1>. DEFINE h == Head(s)
            t == Tail(s)
            w == Told(v, h)
            n == Len(s)
            had == person[c].offset + Len(v.log)
            has == person[c].offset + Len(w.log)
<1>1. /\ n \in Nat \ {0} /\ h = s[1] /\ h \in Command /\ Len(t) = n - 1
      /\ \A i \in 1 .. n - 1 : t[i] = s[i + 1]
  BY HeadTailProperties, EmptySeq
<1>2. Len(v.log) \in Nat /\ v.log \in Seq(Nat) /\ had \in Nat /\ k.messageNum \in Nat
  BY LenProperties DEF View, Link
<1>. HIDE DEF h, t, n
<1>3. /\ w.log = IF h.kind = "MESSAGE" THEN Append(v.log, h.num) ELSE v.log
      /\ h.kind = "MESSAGE" => h.num \in Nat
  BY <1>1, ToldTyped, CommandKinds
<1>. HIDE DEF w
<1>4. SUFFICES ASSUME Counted(c)
               PROVE  /\ has <= Len(messages)
                      /\ \A i \in 1 .. Len(w.log) : w.log[i] = person[c].offset + i
                      /\ k.follows =>
                           /\ has <= k.messageNum
                           /\ \A i \in 1 .. Len(t) :
                                IsMessage(t[i]) => t[i].num \in has + 1 .. k.messageNum
                           /\ \A m \in has + 1 .. k.messageNum :
                                \E i \in 1 .. Len(t) : IsMessage(t[i]) /\ t[i].num = m
                           /\ \A i, j \in 1 .. Len(t) :
                                i < j /\ IsMessage(t[i]) /\ IsMessage(t[j]) => t[i].num < t[j].num
                      /\ IsMessage(h) => h.num = had + 1 /\ h.num <= Len(messages)
  BY DEF ChatInOrder, w, t, h
<1>5. /\ had <= Len(messages)
      /\ \A i \in 1 .. Len(v.log) : v.log[i] = person[c].offset + i
      /\ k.follows =>
           /\ had <= k.messageNum
           /\ \A i \in 1 .. n : IsMessage(s[i]) => s[i].num \in had + 1 .. k.messageNum
           /\ \A m \in had + 1 .. k.messageNum : \E i \in 1 .. n : IsMessage(s[i]) /\ s[i].num = m
           /\ \A i, j \in 1 .. n : i < j /\ IsMessage(s[i]) /\ IsMessage(s[j]) => s[i].num < s[j].num
  BY <1>4 DEF ChatInOrder, n
<1>6. CASE ~IsMessage(h)
  <2>1. w.log = v.log
    BY <1>3, <1>6 DEF IsMessage
  <2>2. ASSUME k.follows, NEW m \in had + 1 .. k.messageNum
        PROVE  \E i \in 1 .. Len(t) : IsMessage(t[i]) /\ t[i].num = m
    <3>1. PICK i \in 1 .. n : IsMessage(s[i]) /\ s[i].num = m
      BY <1>5, <2>2
    <3>2. i - 1 \in 1 .. Len(t) /\ t[i - 1] = s[i]
      BY <1>1, <1>6, <3>1
    <3>. QED
      BY <3>1, <3>2
  <2>3. k.follows => \A i \in 1 .. Len(t) : IsMessage(t[i]) => t[i].num \in had + 1 .. k.messageNum
    BY <1>1, <1>5
  <2>4. ASSUME k.follows, NEW i \in 1 .. Len(t), NEW j \in 1 .. Len(t),
             i < j, IsMessage(t[i]), IsMessage(t[j])
      PROVE  t[i].num < t[j].num
    <3>1. /\ i + 1 \in 1 .. n /\ j + 1 \in 1 .. n /\ i + 1 < j + 1
          /\ t[i] = s[i + 1] /\ t[j] = s[j + 1]
      BY <1>1, <2>4
    <3>. QED
      BY <1>5, <2>4, <3>1
  <2>. QED
    BY <1>5, <1>6, <2>1, <2>2, <2>3, <2>4
<1>7. CASE IsMessage(h)
  <2>1. k.follows
    BY <1>1, <1>7 DEF IsMessage, n
  <2>2. h.num \in had + 1 .. k.messageNum
    BY <1>1, <1>5, <1>7, <2>1
  <2>3. h.num = had + 1
    <3>0. had + 1 \in had + 1 .. k.messageNum
      <4>. HIDE DEF had
      <4>. QED
        BY <1>2, <2>2
    <3>1. PICK i \in 1 .. n : IsMessage(s[i]) /\ s[i].num = had + 1
      BY <1>5, <2>1, <3>0
    <3>2. i > 1 => s[1].num < s[i].num
      BY <1>1, <1>5, <1>7, <2>1, <3>1
    <3>. QED
      BY <1>1, <1>2, <2>2, <3>1, <3>2
  <2>4. /\ w.log = Append(v.log, had + 1) /\ Len(w.log) = Len(v.log) + 1
        /\ \A i \in 1 .. Len(v.log) : w.log[i] = v.log[i]
        /\ w.log[Len(v.log) + 1] = had + 1
    <3>1. w.log = Append(v.log, had + 1) /\ had + 1 \in Nat
      BY <1>2, <1>3, <1>7, <2>3 DEF IsMessage
    <3>. HIDE DEF had
    <3>. QED
      BY <1>2, <3>1, AppendProperties
  <2>5. has = had + 1 /\ has <= k.messageNum /\ has <= Len(messages)
    <3>1. has = had + 1
      <4>. DEFINE o == person[c].offset
                  l == Len(v.log)
                  m == Len(w.log)
      <4>1. o \in Nat /\ l \in Nat /\ m = l + 1
        BY <1>2, <2>4
      <4>. HIDE DEF o, l, m
      <4>2. o + m = (o + l) + 1
        BY <4>1
      <4>. QED
        BY <4>2 DEF o, l, m
    <3>. HIDE DEF has, had
    <3>. QED
      BY <1>2, <2>2, <3>1
  <2>6. ASSUME NEW i \in 1 .. Len(w.log)
        PROVE  w.log[i] = person[c].offset + i
    <3>1. CASE i \in 1 .. Len(v.log)
      BY <1>5, <2>4, <3>1
    <3>2. CASE i = Len(v.log) + 1
      BY <1>2, <2>4, <3>2
    <3>. QED
      BY <1>2, <2>4, <3>1, <3>2
  <2>7. ASSUME NEW i \in 1 .. Len(t), IsMessage(t[i])
        PROVE  t[i].num \in has + 1 .. k.messageNum
    <3>1. i + 1 \in 1 .. n /\ t[i] = s[i + 1]
      BY <1>1
    <3>2. s[i + 1].num \in had + 1 .. k.messageNum /\ s[1].num < s[i + 1].num
      BY <1>1, <1>5, <1>7, <2>1, <2>7, <3>1
    <3>3. h.num = s[1].num /\ has = had + 1 /\ h.num = had + 1
      BY <1>1, <2>3, <2>5
    <3>. HIDE DEF had, has
    <3>. QED
      BY <1>2, <3>1, <3>2, <3>3
  <2>8. ASSUME NEW m \in has + 1 .. k.messageNum
        PROVE  \E i \in 1 .. Len(t) : IsMessage(t[i]) /\ t[i].num = m
    <3>1. m \in had + 1 .. k.messageNum /\ m # had + 1
      BY <1>2, <2>5
    <3>2. PICK i \in 1 .. n : IsMessage(s[i]) /\ s[i].num = m
      BY <1>5, <2>1, <3>1
    <3>3. i - 1 \in 1 .. Len(t) /\ t[i - 1] = s[i]
      BY <1>1, <2>3, <3>1, <3>2
    <3>. QED
      BY <3>2, <3>3
  <2>9. ASSUME NEW i \in 1 .. Len(t), NEW j \in 1 .. Len(t),
             i < j, IsMessage(t[i]), IsMessage(t[j])
      PROVE  t[i].num < t[j].num
    <3>1. /\ i + 1 \in 1 .. n /\ j + 1 \in 1 .. n /\ i + 1 < j + 1
          /\ t[i] = s[i + 1] /\ t[j] = s[j + 1]
      BY <1>1, <2>9
    <3>. QED
      BY <1>5, <2>9, <3>1, <2>1
  <2>. QED
    BY <2>3, <2>5, <2>6, <2>7, <2>8, <2>9
<1>. QED
  BY <1>6, <1>7

\* A link with nothing on its way: that of a client without a connection, and a
\* new one, that notes everything.
Fresh(c) ==
    /\ PersonOK(c) /\ view[c] \in View
    /\ wire[c] = <<>> /\ out[c] = <<>>
    /\ LinkOK(c, conn[c])
    /\ conn[c].state \in {"CLOSED", "REFUSED"} => ~conn[c].follows
    /\ conn[c].follows =>
         /\ conn[c].dirtyPlayers = InSeats /\ conn[c].dirtyTiles = 0 .. Len(tiles) - 1
         /\ conn[c].namedPlayers = 0
         /\ {"PLAYER_ID", "N_TILES", "LANGUAGE"} \subseteq conn[c].dirtyFlags
    /\ view[c].self = Nobody => view[c].log = <<>>
    /\ CountFits /\ Counted(c) =>
         LET had == person[c].offset + Len(view[c].log) IN
         /\ had <= Len(messages)
         /\ \A i \in 1 .. Len(view[c].log) : view[c].log[i] = person[c].offset + i
         /\ conn[c].follows => conn[c].messageNum = had

FreshLinksAreLinked == \A c : Fresh(c) => Linked(c)

LEMMA FreshIsLinked == GameInv => FreshLinksAreLinked
<1>. SUFFICES ASSUME GameInv, NEW c, Fresh(c) PROVE Linked(c)
  BY DEF FreshLinksAreLinked
<1>. DEFINE k == conn[c]
            v == view[c]
            none == <<>>
<1>1. wire[c] \o out[c] = none /\ none \in Seq(Command) /\ Len(none) = 0
  BY DEF Fresh
<1>2. ViewAfter(v, none) = v
  BY ViewAfterNothing
<1>3. k \in Link /\ LinkOK(c, k) /\ v \in View /\ PersonOK(c)
  BY DEF Fresh, LinkOK
<1>4. KnowsOrNoted(c, k, v)
  BY <1>3, GameTyped DEF Fresh, KnowsOrNoted, InSeats
<1>. HIDE DEF none
<1>5. IdFirst(k, v, none)
  BY <1>1 DEF Fresh, IdFirst
<1>6. CountFits => ChatInOrder(c, k, v, none)
  <2>. SUFFICES ASSUME CountFits, Counted(c) PROVE ChatInOrder(c, k, v, none)
    BY DEF ChatInOrder
  <2>. DEFINE had == person[c].offset + Len(v.log)
  <2>1. /\ had <= Len(messages)
        /\ \A i \in 1 .. Len(v.log) : v.log[i] = person[c].offset + i
        /\ k.follows => k.messageNum = had
    BY DEF Fresh
  <2>2. had \in Nat
    BY <1>3, LenProperties DEF PersonOK, Person, View
  <2>3. k.follows => had + 1 .. k.messageNum = {}
    <3>. HIDE DEF had
    <3>. QED
      BY <2>1, <2>2
  <2>. QED
    BY <1>1, <2>1, <2>2, <2>3 DEF ChatInOrder
<1>7. Filled(c, k, out[c])
  BY <1>1, <1>2, <1>3, <1>4, <1>5, <1>6 DEF Fresh, Filled, none
<1>. QED
  BY <1>1, <1>3, <1>7, ConnectionAssumption DEF Fresh, Linked, none

\* What there is to say of a client that has a link, in the terms of Fresh.
LEMMA WhatWasTold ==
    ASSUME LinkInvariant, NEW c \in Client
    PROVE  /\ GameInv /\ Linked(c) /\ PersonOK(c) /\ view[c] \in View
           /\ Len(messages) \in Nat /\ Len(messages) <= MaxMessages
           /\ person[c].offset \in Nat /\ Len(view[c].log) \in Nat
           /\ view[c].self = Nobody => view[c].log = <<>>
           /\ CountFits /\ Counted(c) =>
                /\ person[c].offset + Len(view[c].log) <= Len(messages)
                /\ \A i \in 1 .. Len(view[c].log) : view[c].log[i] = person[c].offset + i
<1>1. GameInv /\ Linked(c) /\ Len(messages) <= MaxMessages
  BY DEF LinkInvariant
<1>2. PersonOK(c) /\ view[c] \in View
  BY <1>1 DEF Linked
<1>3. Len(messages) \in Nat /\ person[c].offset \in Nat /\ Len(view[c].log) \in Nat
  BY <1>1, <1>2, GameTyped, LenProperties DEF PersonOK, Person, View
<1>4. view[c].self = Nobody => view[c].log = <<>>
  BY <1>1 DEF Linked, Filled, IdFirst
<1>5. CountFits /\ Counted(c) =>
        /\ person[c].offset + Len(view[c].log) <= Len(messages)
        /\ \A i \in 1 .. Len(view[c].log) : view[c].log[i] = person[c].offset + i
  BY <1>1 DEF Linked, Filled, ChatInOrder
<1>. QED
  BY <1>1, <1>2, <1>3, <1>4, <1>5

\* A step about client c alone.
LEMMA OnlyOne ==
    ASSUME LinkInvariant, NEW c \in Client, UNCHANGED game, UNCHANGED person, Linked(c)',
           DOMAIN conn' = Client, DOMAIN out' = Client, DOMAIN wire' = Client,
           DOMAIN view' = Client,
           \A d \in Client \ {c} : /\ conn'[d] = conn[d] /\ out'[d] = out[d]
                                   /\ wire'[d] = wire[d] /\ view'[d] = view[d]
    PROVE  LinkInvariant'
<1>1. GameInv' /\ messages' = messages
  BY NextKeepsInv DEF LinkInvariant, game
<1>2. ASSUME NEW d \in Client, d # c PROVE Linked(d)'
  <2>1. GameInv /\ Linked(d)
    BY DEF LinkInvariant
  <2>. QED
    BY <1>2, <2>1, LinkStays
<1>. QED
  BY <1>1, <1>2 DEF LinkInvariant

LEMMA ReceiveKeeps ==
    ASSUME LinkInvariant, NEW c \in Client, Receive(c)
    PROVE  LinkInvariant'
<1>. DEFINE a == wire[c]
            b == out[c]
            k == conn[c]
            v == view[c]
            s == a \o b
            w == Told(v, Head(s))
<1>1. UNCHANGED game /\ UNCHANGED <<person, conn, out>>
  BY DEF Receive, NoOperation
<1>2. /\ wire'[c] = Tail(a) /\ view'[c] = Told(v, Head(a)) /\ a # <<>>
      /\ DOMAIN wire' = Client /\ DOMAIN view' = Client
      /\ \A d \in Client \ {c} : wire'[d] = wire[d] /\ view'[d] = view[d]
  BY DEF Receive, LinkInvariant
<1>3. /\ nPlayers' = nPlayers /\ flags' = flags /\ tiles' = tiles /\ messages' = messages
      /\ totalNTiles' = totalNTiles /\ language' = language
  BY <1>1 DEF game
<1>4. /\ PersonOK(c) /\ v \in View /\ Len(messages) \in Nat /\ person[c].offset \in Nat
      /\ Linked(c)
  BY WhatWasTold
<1>5. /\ a \in Seq(Command) /\ b \in Seq(Command) /\ Len(a) <= WireCap /\ Len(b) <= OutCap
      /\ LinkOK(c, k) /\ KnowsOrNoted(c, k, ViewAfter(v, s)) /\ IdFirst(k, v, s)
      /\ CountFits => ChatInOrder(c, k, v, s)
      /\ ~k.follows => \A i \in 1 .. Len(s) : s[i].kind = "ERROR"
      /\ k.state \notin {"CLOSED", "REFUSED"}
  BY <1>2, <1>4 DEF Linked, Filled
<1>6. /\ s \in Seq(Command) /\ s # <<>> /\ Head(s) = Head(a) /\ Tail(s) = Tail(a) \o b
      /\ Tail(a) \in Seq(Command) /\ Len(Tail(a)) <= WireCap /\ Head(s) \in Command
  <2>. HIDE DEF a, b
  <2>1. Len(a) \in Nat \ {0} /\ Len(b) \in Nat
    BY <1>2, <1>5, EmptySeq, LenProperties
  <2>2. /\ s \in Seq(Command) /\ Len(s) = Len(a) + Len(b)
        /\ \A i \in 1 .. Len(a) + Len(b) : s[i] = IF i <= Len(a) THEN a[i] ELSE b[i - Len(a)]
    BY <1>5, ConcatProperties
  <2>. HIDE DEF s
  <2>3. /\ Tail(a) \in Seq(Command) /\ Len(Tail(a)) = Len(a) - 1 /\ Head(a) = a[1]
        /\ \A i \in 1 .. Len(Tail(a)) : Tail(a)[i] = a[i + 1]
    BY <1>2, <1>5, HeadTailProperties
  <2>4. s # <<>>
    BY <2>1, <2>2
  <2>5. /\ Tail(s) \in Seq(Command) /\ Len(Tail(s)) = Len(s) - 1 /\ Head(s) = s[1]
        /\ Head(s) \in Command /\ \A i \in 1 .. Len(Tail(s)) : Tail(s)[i] = s[i + 1]
    BY <2>2, <2>4, HeadTailProperties
  <2>6. Head(s) = Head(a)
    BY <2>1, <2>2, <2>3, <2>5
  <2>7. /\ Tail(a) \o b \in Seq(Command) /\ Len(Tail(a) \o b) = Len(a) - 1 + Len(b)
        /\ \A i \in 1 .. Len(Tail(a)) + Len(b) :
             (Tail(a) \o b)[i] = IF i <= Len(Tail(a)) THEN Tail(a)[i] ELSE b[i - Len(Tail(a))]
    BY <1>5, <2>3, ConcatProperties
  <2>8. ASSUME NEW i \in 1 .. Len(Tail(s)) PROVE Tail(s)[i] = (Tail(a) \o b)[i]
    <3>1. i \in 1 .. Len(a) + Len(b) - 1 /\ Tail(s)[i] = s[i + 1]
      BY <2>2, <2>5
    <3>2. CASE i <= Len(a) - 1
      BY <2>1, <2>2, <2>3, <2>7, <3>1, <3>2
    <3>3. CASE i > Len(a) - 1
      <4>1. s[i + 1] = b[i + 1 - Len(a)]
        BY <2>1, <2>2, <3>1, <3>3
      <4>2. (Tail(a) \o b)[i] = b[i - (Len(a) - 1)]
        BY <2>1, <2>3, <2>7, <3>1, <3>3
      <4>3. i + 1 - Len(a) = i - (Len(a) - 1)
        BY <2>1, <3>1
      <4>. QED
        BY <3>1, <4>1, <4>2, <4>3
    <3>. QED
      BY <2>1, <3>1, <3>2, <3>3
  <2>9. Len(Tail(s)) = Len(Tail(a) \o b)
    BY <2>1, <2>2, <2>5, <2>7
  <2>10. Tail(s) = Tail(a) \o b
    <3>. DEFINE x == Tail(s)
                y == Tail(a) \o b
    <3>1. x \in Seq(Command) /\ y \in Seq(Command) /\ Len(x) = Len(y)
          /\ \A i \in 1 .. Len(x) : x[i] = y[i]
      BY <2>5, <2>7, <2>8, <2>9
    <3>. HIDE DEF x, y
    <3>2. x = y
      BY <3>1, SeqEqual
    <3>. QED
      BY <3>2 DEF x, y
  <2>11. Len(Tail(a)) <= WireCap
    BY <1>5, <2>1, <2>3, ConnectionAssumption
  <2>. QED
    BY <2>2, <2>3, <2>4, <2>5, <2>6, <2>10, <2>11
<1>7. /\ view'[c] = w /\ wire'[c] \o out'[c] = Tail(s) /\ w \in View
      /\ out'[c] = b /\ conn'[c] = k
  BY <1>1, <1>2, <1>4, <1>6, ToldTyped
<1>8. k \in Link /\ k.messageNum <= Len(messages)
  BY <1>4, <1>5 DEF LinkOK
<1>9. /\ Len(s) \in Nat /\ Len(Tail(s)) = Len(s) - 1
      /\ \A i \in 1 .. Len(Tail(s)) : Tail(s)[i] = s[i + 1]
  BY <1>6, HeadTailProperties, LenProperties
<1>. HIDE DEF a, b, k, v, s, w
<1>10. ViewAfter(v, s) = ViewAfter(w, Tail(s))
  BY <1>6, ViewAfterFirst DEF w
<1>11. IdFirst(k, w, Tail(s))
  BY <1>4, <1>5, <1>6, <1>8, IdStaysFirstWhenTaken DEF w
<1>12. CountFits => ChatInOrder(c, k, w, Tail(s))
  BY <1>4, <1>5, <1>6, <1>8, ChatStaysInOrderWhenTaken DEF w
<1>13. ~k.follows => \A i \in 1 .. Len(Tail(s)) : Tail(s)[i].kind = "ERROR"
  BY <1>5, <1>9
<1>14. Filled(c, conn[c], out[c])'
  <2>1. LinkOK(c, conn[c])'
    BY <1>1, <1>3, <1>5, <1>7 DEF LinkOK, InSeats
  <2>2. KnowsOrNoted(c, conn[c], ViewAfter(view[c], wire[c] \o out[c]))'
    BY <1>1, <1>3, <1>5, <1>7, <1>10 DEF KnowsOrNoted, InSeats
  <2>3. IdFirst(conn[c], view[c], wire[c] \o out[c])'
    BY <1>7, <1>11 DEF IdFirst
  <2>4. CountFits => ChatInOrder(c, conn[c], view[c], wire[c] \o out[c])'
    <3>1. Counted(c)' = Counted(c) /\ person'[c].offset = person[c].offset
      BY <1>1 DEF Counted
    <3>. DEFINE z == Tail(s)
    <3>2. wire'[c] \o out'[c] = z /\ view'[c] = w /\ conn'[c] = k
          /\ (CountFits => ChatInOrder(c, k, w, z))
      BY <1>7, <1>12
    <3>. HIDE DEF z
    <3>. QED
      BY <1>3, <3>1, <3>2 DEF ChatInOrder
  <2>. QED
    BY <1>5, <1>7, <1>13, <2>1, <2>2, <2>3, <2>4 DEF Filled
<1>15. Linked(c)'
  <2>1. PersonOK(c)'
    BY <1>1, <1>3, <1>4 DEF PersonOK, InSeats
  <2>. QED
    BY <1>2, <1>5, <1>6, <1>7, <1>14, <2>1 DEF Linked, a
<1>16. DOMAIN conn' = Client /\ DOMAIN out' = Client
  BY <1>1 DEF LinkInvariant
<1>. QED
  BY <1>1, <1>2, <1>15, <1>16, OnlyOne

\* A step after which the link of c is new or gone.
LEMMA FreshNext ==
    ASSUME GameInv', NEW c, Fresh(c)'
    PROVE  Linked(c)'
<1>1. FreshLinksAreLinked'
  BY FreshIsLinked, PTL
<1>. QED
  BY <1>1 DEF FreshLinksAreLinked

\* A connection that follows nobody has been told all it will be told.
LEMMA ClosedIsOK ==
    ASSUME NEW c, NEW st \in {"CLOSED", "REFUSED"}, nPlayers' \in Nat, Len(messages') \in Nat
    PROVE  LET k == [ClosedConn EXCEPT !.state = st] IN
           conn'[c] = k => LinkOK(c, conn[c])' /\ ~conn'[c].follows /\ conn'[c].state = st
<1>. DEFINE k == [ClosedConn EXCEPT !.state = st]
<1>1. /\ ClosedConn \in Link
      /\ ClosedConn.follows = FALSE /\ ClosedConn.messageNum = 0 /\ ClosedConn.namedPlayers = 0
      /\ ClosedConn.dirtyPlayers = {} /\ ClosedConn.dirtyTiles = {} /\ ClosedConn.dirtyFlags = {}
  <2>1. 0 \in Seat
    BY ConversationAssumption DEF Seat
  <2>. QED
    BY <2>1 DEF ClosedConn, Link
<1>3. k \in Link /\ k.state = st /\ k.follows = ClosedConn.follows
      /\ k.messageNum = ClosedConn.messageNum /\ k.namedPlayers = ClosedConn.namedPlayers
      /\ k.dirtyPlayers = ClosedConn.dirtyPlayers /\ k.dirtyTiles = ClosedConn.dirtyTiles
      /\ k.dirtyFlags = ClosedConn.dirtyFlags
  BY <1>1 DEF Link
<1>4. SUFFICES ASSUME conn'[c] = k
               PROVE  LinkOK(c, conn[c])' /\ ~conn'[c].follows /\ conn'[c].state = st
  OBVIOUS
<1>. HIDE DEF k
<1>. QED
  BY <1>1, <1>3, <1>4 DEF LinkOK

LEMMA RefusingIsOK ==
    ASSUME NEW c, nPlayers' \in Nat, Len(messages') \in Nat, conn'[c] = Refusing
    PROVE  LinkOK(c, conn[c])' /\ ~conn'[c].follows /\ conn'[c].state = "OPEN"
<1>1. Refusing = [state |-> "OPEN", follows |-> FALSE, messageNum |-> 0, namedPlayers |-> 0,
                  dirtyPlayers |-> {}, dirtyTiles |-> {}, dirtyFlags |-> {"ERROR"},
                  pendingShout |-> 0]
  BY DEF Refusing, ClosedConn
<1>2. 0 \in Seat
  BY ConversationAssumption DEF Seat
<1>3. Refusing \in Link
  BY <1>1, <1>2 DEF Link, DirtyFlag
<1>4. /\ Refusing.state = "OPEN" /\ Refusing.follows = FALSE
      /\ Refusing.messageNum = 0 /\ Refusing.namedPlayers = 0
      /\ Refusing.dirtyPlayers = {} /\ Refusing.dirtyTiles = {} /\ Refusing.dirtyFlags = {"ERROR"}
  BY <1>1
<1>. QED
  BY <1>3, <1>4 DEF LinkOK

LEMMA FollowingIsOK ==
    ASSUME Fits', NEW c, NEW n \in 0 .. Len(messages'), person'[c].seat \in InSeats',
           conn'[c] = Following(n)
    PROVE  /\ LinkOK(c, conn[c])'
           /\ conn'[c].follows /\ conn'[c].state = "OPEN" /\ conn'[c].messageNum = n
           /\ conn'[c].dirtyPlayers = InSeats' /\ conn'[c].dirtyTiles = 0 .. Len(tiles') - 1
           /\ conn'[c].namedPlayers = 0
           /\ {"PLAYER_ID", "N_TILES", "LANGUAGE"} \subseteq conn'[c].dirtyFlags
<1>. DEFINE fl == {"PLAYER_ID", "CONVERSATION_ID", "N_TILES", "LANGUAGE", "SYNC"}
            k == Following(n)
            ps == 0 .. nPlayers' - 1
            is == 0 .. Len(tiles') - 1
<1>1. k = [state |-> "OPEN", follows |-> TRUE, messageNum |-> n, namedPlayers |-> 0,
           dirtyPlayers |-> ps, dirtyTiles |-> is, dirtyFlags |-> fl, pendingShout |-> 0]
  BY DEF Following, ClosedConn
<1>2. /\ nPlayers' \in Nat /\ Len(messages') \in Nat /\ Len(tiles') \in 0 .. MaxTiles
      /\ MaxTiles \in Nat /\ ps = InSeats' /\ ps \subseteq Seat
  BY DEF Fits
<1>3. /\ 0 \in Seat /\ is \in SUBSET (0 .. MaxTiles - 1) /\ ps \in SUBSET Seat
      /\ fl \in SUBSET DirtyFlag /\ n \in Nat
  <2>1. 0 \in Seat
    BY ConversationAssumption DEF Seat
  <2>2. fl \subseteq DirtyFlag
    BY DEF DirtyFlag
  <2>3. is \subseteq 0 .. MaxTiles - 1
    BY <1>2
  <2>4. n \in Nat
    BY <1>2
  <2>. HIDE DEF fl, is, ps
  <2>. QED
    BY <1>2, <2>1, <2>2, <2>3, <2>4
<1>4. "ERROR" \notin fl /\ {"PLAYER_ID", "N_TILES", "LANGUAGE"} \subseteq fl
  OBVIOUS
<1>. HIDE DEF fl, ps, is, k
<1>5. k \in Link
  BY <1>1, <1>3 DEF Link
<1>6. /\ k.state = "OPEN" /\ k.follows = TRUE /\ k.messageNum = n /\ k.namedPlayers = 0
      /\ k.dirtyPlayers = ps /\ k.dirtyTiles = is /\ k.dirtyFlags = fl
  BY <1>1
<1>7. conn'[c] = k
  BY DEF k
<1>8. LinkOK(c, conn[c])'
  BY <1>2, <1>4, <1>5, <1>6, <1>7 DEF LinkOK, is
<1>. QED
  BY <1>2, <1>4, <1>6, <1>7, <1>8 DEF is

LEMMA LoseKeeps ==
    ASSUME LinkInvariant, NEW c \in Client, Lose(c)
    PROVE  LinkInvariant'
<1>1. UNCHANGED game /\ UNCHANGED <<person, view>>
  BY DEF Lose, NoOperation
<1>2. /\ conn'[c] = ClosedConn /\ out'[c] = <<>> /\ wire'[c] = <<>>
      /\ DOMAIN conn' = Client /\ DOMAIN out' = Client /\ DOMAIN wire' = Client
      /\ DOMAIN view' = Client
      /\ \A d \in Client \ {c} : conn'[d] = conn[d] /\ out'[d] = out[d] /\ wire'[d] = wire[d]
  BY <1>1 DEF Lose, LinkInvariant
<1>3. /\ GameInv' /\ nPlayers' = nPlayers /\ messages' = messages
  BY <1>1, NextKeepsInv DEF game, LinkInvariant
<1>4. /\ nPlayers \in Nat /\ Len(messages) \in Nat
  BY GameTyped DEF LinkInvariant
<1>5. LinkOK(c, conn[c])' /\ ~conn'[c].follows /\ conn'[c].state = "CLOSED"
  <2>1. [ClosedConn EXCEPT !.state = "CLOSED"] = ClosedConn
    BY DEF ClosedConn
  <2>. QED
    BY <1>2, <1>3, <1>4, <2>1, ClosedIsOK
<1>6. Fresh(c)'
  <2>1. PersonOK(c)'
    BY <1>1, <1>3, WhatWasTold DEF PersonOK, InSeats
  <2>. QED
    BY <1>1, <1>2, <1>3, <1>5, <2>1, WhatWasTold DEF Fresh, Counted
<1>7. Linked(c)'
  BY <1>3, <1>6, FreshNext
<1>. QED
  BY <1>1, <1>2, <1>7, OnlyOne

\* A client that connects again has nothing on its way.
LEMMA ConnectingClears ==
    ASSUME LinkInvariant, NEW c \in Client, CanConnect(c), Connecting(c)
    PROVE  /\ out'[c] = <<>> /\ wire'[c] = <<>>
           /\ view'[c] \in View /\ view'[c].self = view[c].self /\ view'[c].log = view[c].log
           /\ DOMAIN out' = Client /\ DOMAIN wire' = Client /\ DOMAIN view' = Client
           /\ \A d \in Client \ {c} :
                out'[d] = out[d] /\ wire'[d] = wire[d] /\ view'[d] = view[d]
<1>1. view[c] \in View /\ out[c] = <<>> /\ wire[c] = <<>>
  BY DEF LinkInvariant, Linked, CanConnect
<1>2. view'[c] = [view[c] EXCEPT !.synced = FALSE]
  BY DEF Connecting, LinkInvariant
<1>3. view'[c] \in View /\ view'[c].self = view[c].self /\ view'[c].log = view[c].log
  BY <1>1, <1>2 DEF View
<1>. QED
  BY <1>1, <1>3 DEF Connecting, LinkInvariant

LEMMA JoinRefusedKeeps ==
    ASSUME LinkInvariant, NEW c \in Client, JoinRefused(c)
    PROVE  LinkInvariant'
<1>1. /\ UNCHANGED game /\ UNCHANGED person /\ CanConnect(c) /\ Connecting(c)
      /\ conn' = [conn EXCEPT ![c] = Refusing]
  BY DEF JoinRefused, NoOperation
<1>2. /\ GameInv' /\ nPlayers' = nPlayers /\ messages' = messages
      /\ nPlayers \in Nat /\ Len(messages) \in Nat
  BY <1>1, NextKeepsInv, GameTyped DEF game, LinkInvariant
<1>3. /\ conn'[c] = Refusing /\ DOMAIN conn' = Client
      /\ \A d \in Client \ {c} : conn'[d] = conn[d]
  BY <1>1 DEF LinkInvariant
<1>4. LinkOK(c, conn[c])' /\ ~conn'[c].follows /\ conn'[c].state = "OPEN"
  BY <1>2, <1>3, RefusingIsOK
<1>5. Fresh(c)'
  <2>1. PersonOK(c)'
    BY <1>1, <1>2, WhatWasTold DEF PersonOK, InSeats
  <2>. QED
    BY <1>1, <1>2, <1>4, <2>1, WhatWasTold, ConnectingClears DEF Fresh, Counted
<1>6. Linked(c)'
  BY <1>2, <1>5, FreshNext
<1>. QED
  BY <1>1, <1>3, <1>6, OnlyOne, ConnectingClears

LEMMA Remainder ==
    ASSUME NEW n \in Nat, NEW m \in Nat \ {0}
    PROVE  n % m \in Nat /\ (n < m => n % m = n)
OBVIOUS

\* The count that RECONNECT sends is that of the messages received, as long as
\* 16 bits can count them.
LEMMA ReconnectKeeps ==
    ASSUME LinkInvariant, NEW c \in Client, Reconnect(c)
    PROVE  LinkInvariant'
<1>. DEFINE received == Len(view[c].log) % CountModulus
<1>1. /\ UNCHANGED game /\ UNCHANGED person /\ CanConnect(c) /\ Connecting(c)
      /\ conn' = [conn EXCEPT ![c] =
                    IF ~person[c].known THEN Refusing
                    ELSE IF received > Available(c)
                    THEN [ClosedConn EXCEPT !.state = "REFUSED"]
                    ELSE Following(ResumeAt(c))]
  BY DEF Reconnect, NoOperation
<1>2. /\ GameInv' /\ nPlayers' = nPlayers /\ messages' = messages /\ tiles' = tiles
      /\ nPlayers \in Nat /\ Len(messages) \in Nat
  BY <1>1, NextKeepsInv, GameTyped DEF game, LinkInvariant
<1>3. /\ conn'[c] = IF ~person[c].known THEN Refusing
                    ELSE IF received > Available(c)
                    THEN [ClosedConn EXCEPT !.state = "REFUSED"]
                    ELSE Following(ResumeAt(c))
      /\ DOMAIN conn' = Client /\ \A d \in Client \ {c} : conn'[d] = conn[d]
  BY <1>1 DEF LinkInvariant
<1>4. PersonOK(c) /\ PersonOK(c)'
  BY <1>1, <1>2, WhatWasTold DEF PersonOK, InSeats
<1>5. /\ received \in Nat /\ person[c].offset \in Nat /\ Len(view[c].log) \in Nat
      /\ CountFits /\ Counted(c) => received = Len(view[c].log)
  <2>1. CountModulus \in Nat \ {0} /\ Len(view[c].log) \in Nat /\ person[c].offset \in Nat
    BY ConnectionAssumption, WhatWasTold
  <2>2. received \in Nat
    BY <2>1, Remainder
  <2>3. CountFits /\ Counted(c) => Len(view[c].log) < CountModulus
    BY <2>1, WhatWasTold, ConversationAssumption DEF CountFits
  <2>4. Len(view[c].log) < CountModulus => received = Len(view[c].log)
    BY <2>1, Remainder
  <2>. HIDE DEF received
  <2>. QED
    BY <2>1, <2>2, <2>3, <2>4
<1>. HIDE DEF received
<1>6. CASE ~person[c].known
  <2>1. LinkOK(c, conn[c])' /\ ~conn'[c].follows /\ conn'[c].state = "OPEN"
    BY <1>2, <1>3, <1>6, RefusingIsOK
  <2>2. Fresh(c)'
    BY <1>1, <1>2, <1>4, <2>1, WhatWasTold, ConnectingClears DEF Fresh, Counted
  <2>. QED
    BY <1>1, <1>2, <1>3, <2>2, FreshNext, OnlyOne, ConnectingClears
<1>7. CASE person[c].known /\ received > Available(c)
  <2>1. LinkOK(c, conn[c])' /\ ~conn'[c].follows /\ conn'[c].state = "REFUSED"
    BY <1>2, <1>3, <1>7, ClosedIsOK
  <2>2. Fresh(c)'
    BY <1>1, <1>2, <1>4, <2>1, WhatWasTold, ConnectingClears DEF Fresh, Counted
  <2>. QED
    BY <1>1, <1>2, <1>3, <2>2, FreshNext, OnlyOne, ConnectingClears
<1>8. CASE person[c].known /\ ~(received > Available(c))
  <2>. DEFINE n == received + person[c].offset
  <2>1. n \in 0 .. Len(messages') /\ conn'[c] = Following(n)
    BY <1>2, <1>3, <1>5, <1>8 DEF Available, ResumeAt, received
  <2>2. person'[c].seat \in InSeats'
    <3>1. person[c] # NoPerson
      BY <1>8 DEF NoPerson
    <3>. QED
      BY <1>1, <1>2, <1>4, <3>1 DEF PersonOK, InSeats
  <2>3. Fits'
    BY <1>2, GameFits, PTL
  <2>. HIDE DEF n
  <2>4. /\ LinkOK(c, conn[c])'
        /\ conn'[c].follows /\ conn'[c].state = "OPEN" /\ conn'[c].messageNum = n
        /\ conn'[c].dirtyPlayers = InSeats' /\ conn'[c].dirtyTiles = 0 .. Len(tiles') - 1
        /\ conn'[c].namedPlayers = 0
        /\ {"PLAYER_ID", "N_TILES", "LANGUAGE"} \subseteq conn'[c].dirtyFlags
    BY <2>1, <2>2, <2>3, FollowingIsOK
  <2>5. CountFits /\ Counted(c) => n = person[c].offset + Len(view[c].log)
    BY <1>5 DEF n
  <2>6. Fresh(c)'
    BY <1>1, <1>2, <1>4, <2>4, <2>5, WhatWasTold, ConnectingClears DEF Fresh, Counted
  <2>. QED
    BY <1>1, <1>2, <1>3, <2>6, FreshNext, OnlyOne, ConnectingClears
<1>. QED
  BY <1>6, <1>7, <1>8

\* A step of the game of which every connection is told, and which changes
\* nothing else of client c.
LEMMA ToldKeeps ==
    ASSUME LinkInvariant, Next, NEW c \in Client, conn'[c] = Notified(conn[c]),
           UNCHANGED <<out[c], wire[c], view[c]>>,
           person'[c] = person[c]
             \/ /\ person'[c] = [person[c] EXCEPT !.known = FALSE]
                /\ person[c] # NoPerson
    PROVE  Linked(c)'
<1>1. GameInv /\ GameInv' /\ Linked(c) /\ Len(messages) <= MaxMessages
  BY NextKeepsInv DEF LinkInvariant
<1>2. Tells
  BY <1>1, OperationsTell
<1>. QED
  BY <1>1, <1>2, NotifiedKeeps

LEMMA EnterKeeps ==
    ASSUME LinkInvariant, NEW c \in Client, NEW n, NEW byId \in BOOLEAN, Enter(c, n, byId),
           n = IF byId THEN 0 ELSE Len(messages)
    PROVE  LinkInvariant'
<1>1. /\ CanConnect(c) /\ Connecting(c) /\ AddPlayer /\ view[c].self = Nobody
      /\ person' = [person EXCEPT ![c] = [seat |-> nPlayers, offset |-> Len(messages),
                                          known |-> TRUE, byId |-> byId]]
      /\ conn' = [d \in Client |-> IF d = c THEN Following(n) ELSE Notified(conn[d])]
  BY DEF Enter
<1>2. Next /\ GameInv /\ GameInv' /\ nPlayers' = nPlayers + 1 /\ messages' = messages
  BY <1>1, NextKeepsInv DEF Next, AddPlayer, LinkInvariant
<1>3. /\ person'[c] = [seat |-> nPlayers, offset |-> Len(messages), known |-> TRUE,
                       byId |-> byId]
      /\ conn'[c] = Following(n) /\ DOMAIN conn' = Client
      /\ \A d \in Client \ {c} : person'[d] = person[d] /\ conn'[d] = Notified(conn[d])
  BY <1>1 DEF LinkInvariant
<1>4. /\ person'[c].seat = nPlayers /\ person'[c].offset = Len(messages)
      /\ person'[c].byId = byId
  BY <1>3
<1>5. Fits'
  BY <1>2, GameFits, PTL
<1>6. nPlayers \in InSeats' /\ nPlayers \in Seat /\ Len(messages) \in Nat
  BY <1>2, <1>5, GameTyped DEF Fits
<1>7. PersonOK(c)'
  <2>1. person'[c] \in Person
    BY <1>3, <1>6 DEF Person
  <2>. QED
    BY <1>2, <1>4, <1>6, <2>1 DEF PersonOK
<1>8. n \in 0 .. Len(messages') /\ person' \in [Client -> Person]
  BY <1>1, <1>2, <1>3, <1>6, <1>7 DEF LinkInvariant, PersonOK
<1>9. /\ LinkOK(c, conn[c])'
      /\ conn'[c].follows /\ conn'[c].state = "OPEN" /\ conn'[c].messageNum = n
      /\ conn'[c].dirtyPlayers = InSeats' /\ conn'[c].dirtyTiles = 0 .. Len(tiles') - 1
      /\ conn'[c].namedPlayers = 0
      /\ {"PLAYER_ID", "N_TILES", "LANGUAGE"} \subseteq conn'[c].dirtyFlags
  BY <1>3, <1>4, <1>5, <1>6, <1>8, FollowingIsOK
<1>10. /\ out'[c] = <<>> /\ wire'[c] = <<>>
       /\ view'[c] \in View /\ view'[c].log = <<>> /\ Len(view'[c].log) = 0
  BY <1>1, ConnectingClears, WhatWasTold
<1>11. Fresh(c)'
  <2>1. Counted(c)' => ~byId
    BY <1>4 DEF Counted
  <2>2. CountFits /\ Counted(c)' =>
          LET had == person'[c].offset + Len(view'[c].log) IN
          /\ had <= Len(messages')
          /\ \A i \in 1 .. Len(view'[c].log) : view'[c].log[i] = person'[c].offset + i
          /\ conn'[c].follows => conn'[c].messageNum = had
    BY <1>2, <1>4, <1>6, <1>9, <1>10, <2>1
  <2>. QED
    BY <1>7, <1>9, <1>10, <2>2 DEF Fresh
<1>12. Linked(c)'
  BY <1>2, <1>11, FreshNext
<1>13. ASSUME NEW d \in Client, d # c PROVE Linked(d)'
  <2>1. UNCHANGED <<out[d], wire[d], view[d]>>
    BY <1>1, <1>13, ConnectingClears
  <2>2. conn'[d] = Notified(conn[d]) /\ person'[d] = person[d]
    BY <1>3, <1>13
  <2>. QED
    BY <1>2, <2>1, <2>2, ToldKeeps
<1>. QED
  BY <1>1, <1>2, <1>3, <1>8, <1>12, <1>13, ConnectingClears DEF LinkInvariant

LEMMA GoneSilentKeeps ==
    ASSUME LinkInvariant, NEW c \in Client, GoneSilent(c)
    PROVE  LinkInvariant'
<1>1. /\ UNCHANGED <<out, wire, view>> /\ person[c].known
      /\ person' = [person EXCEPT ![c].known = FALSE]
  BY DEF GoneSilent
<1>2. /\ person'[c] = [person[c] EXCEPT !.known = FALSE] /\ person' \in [Client -> Person]
      /\ \A d \in Client \ {c} : person'[d] = person[d]
      /\ person[c] # NoPerson
  <2>1. person[c] \in Person /\ person \in [Client -> Person]
    BY DEF LinkInvariant
  <2>2. [person[c] EXCEPT !.known = FALSE] \in Person /\ person[c] # NoPerson
    <3>. DEFINE a == person[c]
    <3>1. a \in Person /\ a.known
      BY <1>1, <2>1
    <3>. HIDE DEF a
    <3>2. [a EXCEPT !.known = FALSE] \in Person
      BY <3>1 DEF Person
    <3>3. a # NoPerson
      BY <3>1 DEF NoPerson
    <3>. QED
      BY <3>2, <3>3 DEF a
  <2>3. person'[c] = [person[c] EXCEPT !.known = FALSE]
    BY <1>1, <2>1
  <2>. QED
    BY <1>1, <2>1, <2>2, <2>3
<1>3. CASE PlayerLeft(person[c].seat) /\ NotifyAll
  <2>1. person[c].seat \in Seat
    BY <1>2, WhatWasTold, GameTyped DEF PersonOK
  <2>2. Next
    BY <1>3, <2>1 DEF Next
  <2>3. /\ DOMAIN conn' = Client /\ \A d \in Client : conn'[d] = Notified(conn[d])
    BY <1>3 DEF NotifyAll
  <2>4. \A d \in Client : Linked(d)'
    BY <1>1, <1>2, <2>2, <2>3, ToldKeeps
  <2>5. GameInv' /\ messages' = messages
    BY <1>3, <2>2, NextKeepsInv DEF LinkInvariant, PlayerLeft
  <2>. QED
    BY <1>1, <1>2, <2>3, <2>4, <2>5 DEF LinkInvariant
<1>4. CASE NoOperation /\ UNCHANGED conn
  <2>1. UNCHANGED game /\ GameInv' /\ messages' = messages
    BY <1>4, NextKeepsInv DEF NoOperation, LinkInvariant, game
  <2>2. \A d \in Client : Linked(d)'
    BY <1>1, <1>2, <1>4, <2>1, LinkStays DEF LinkInvariant
  <2>. QED
    BY <1>1, <1>2, <1>4, <2>1, <2>2 DEF LinkInvariant
<1>. QED
  BY <1>3, <1>4 DEF GoneSilent

LEMMA OperationKeeps ==
    ASSUME LinkInvariant, Operation
    PROVE  LinkInvariant'
<1>1. Next
  <2>1. 1 .. MaxTiles \subseteq 0 .. MaxTiles + 1
    BY ConversationAssumption
  <2>. QED
    BY <2>1 DEF Operation, HandleLeave, HandleTyping, HandleSendMessage, HandleSetNTiles,
                HandleSetLanguage, HandleTurn, HandleMoveTile, HandleShout, Next
<1>2. /\ UNCHANGED <<person, out, wire, view>> /\ DOMAIN conn' = Client
      /\ \A c \in Client : conn'[c] = Notified(conn[c])
  BY DEF Operation, NotifyAll
<1>3. \A c \in Client : Linked(c)'
  BY <1>1, <1>2, ToldKeeps
<1>4. GameInv' /\ Len(messages') <= MaxMessages
  BY <1>1, NextKeepsInv, OperationsTell DEF LinkInvariant, Tells
<1>. QED
  BY <1>2, <1>3, <1>4 DEF LinkInvariant

LEMMA LinkInitially == LinkInit => LinkInvariant
<1>. SUFFICES ASSUME LinkInit PROVE LinkInvariant
  OBVIOUS
<1>1. GameInv
  BY InitGameInv DEF LinkInit
<1>2. /\ messages = <<>> /\ Len(messages) = 0 /\ nPlayers \in Nat /\ InSeats = 0 .. nPlayers - 1
  BY <1>1, GameFits DEF LinkInit, Init, Fits
<1>3. ASSUME NEW c \in Client PROVE Linked(c)
  <2>1. /\ person[c] = NoPerson /\ conn[c] = ClosedConn /\ out[c] = <<>> /\ wire[c] = <<>>
        /\ view[c] = NothingTold
    BY DEF LinkInit, InitLinks
  <2>2. NoPerson \in Person /\ NoPerson.offset = 0
    BY DEF NoPerson, Person
  <2>3. /\ NothingTold \in View /\ NothingTold.log = <<>>
    BY ConversationAssumption, EmptySeq DEF NothingTold, View
  <2>4. /\ ClosedConn \in Link /\ ClosedConn.follows = FALSE /\ ClosedConn.state = "CLOSED"
        /\ ClosedConn.messageNum = 0 /\ ClosedConn.namedPlayers = 0
        /\ ClosedConn.dirtyPlayers = {} /\ ClosedConn.dirtyTiles = {} /\ ClosedConn.dirtyFlags = {}
    <3>1. 0 \in Seat
      BY ConversationAssumption DEF Seat
    <3>. QED
      BY <3>1 DEF ClosedConn, Link
  <2>5. LinkOK(c, conn[c]) /\ PersonOK(c)
    BY <1>2, <2>1, <2>2, <2>4 DEF LinkOK, PersonOK
  <2>6. Fresh(c)
    BY <2>1, <2>3, <2>4, <2>5 DEF Fresh, Counted
  <2>. QED
    BY <1>1, <2>6, FreshIsLinked DEF FreshLinksAreLinked
<1>4. person \in [Client -> Person]
  BY DEF LinkInit, InitLinks, NoPerson, Person
<1>. QED
  BY <1>1, <1>2, <1>3, <1>4, ConversationAssumption DEF LinkInit, InitLinks, LinkInvariant

LEMMA LinkStep == LinkInvariant /\ [LinkNext]_allVars => LinkInvariant'
<1>. SUFFICES ASSUME LinkInvariant, [LinkNext]_allVars PROVE LinkInvariant'
  OBVIOUS
<1>1. CASE UNCHANGED allVars
  <2>1. UNCHANGED game /\ UNCHANGED <<person, conn, out, wire, view>>
    BY <1>1 DEF allVars, linkVars
  <2>2. GameInv' /\ messages' = messages
    BY <2>1, NextKeepsInv DEF LinkInvariant, game
  <2>3. \A c \in Client : Linked(c)'
    BY <2>1, LinkStays DEF LinkInvariant
  <2>. QED
    BY <2>1, <2>2, <2>3 DEF LinkInvariant
<1>2. CASE Operation
  BY <1>2, OperationKeeps
<1>3. ASSUME NEW c \in Client, HandleNewPrivateGame(c) \/ HandleNewPlayer(c)
      PROVE  LinkInvariant'
  BY <1>3, EnterKeeps DEF HandleNewPrivateGame, HandleNewPlayer
<1>4. ASSUME NEW c \in Client, HandleJoinGame(c)
      PROVE  LinkInvariant'
  BY <1>4, EnterKeeps DEF HandleJoinGame
<1>5. ASSUME NEW c \in Client, JoinRefused(c) PROVE LinkInvariant'
  BY <1>5, JoinRefusedKeeps
<1>6. ASSUME NEW c \in Client, Reconnect(c) PROVE LinkInvariant'
  BY <1>6, ReconnectKeeps
<1>7. ASSUME NEW c \in Client, GoneSilent(c) PROVE LinkInvariant'
  BY <1>7, GoneSilentKeeps
<1>8. ASSUME NEW c \in Client, HandleWrite(c) PROVE LinkInvariant'
  BY <1>8, HandleWriteKeeps
<1>9. ASSUME NEW c \in Client, Receive(c) PROVE LinkInvariant'
  BY <1>9, ReceiveKeeps
<1>10. ASSUME NEW c \in Client, Lose(c) PROVE LinkInvariant'
  BY <1>10, LoseKeeps
<1>. QED
  BY <1>1, <1>2, <1>3, <1>4, <1>5, <1>6, <1>7, <1>8, <1>9, <1>10 DEF LinkNext

LEMMA LinkIsSound == LinkInvariant => LinkSound
<1>. SUFFICES ASSUME LinkInvariant PROVE LinkSound
  OBVIOUS
<1>1. \A c \in Client : Linked(c)
  BY DEF LinkInvariant
<1>2. ASSUME NEW c \in Client
      PROVE  /\ person[c] \in Person /\ view[c] \in View /\ LinkOK(c, conn[c])
             /\ conn[c] \in Link
             /\ Len(out[c]) <= OutCap /\ Len(wire[c]) <= WireCap
             /\ KnowsOrNoted(c, conn[c], ViewToBe(c))
  BY <1>1 DEF Linked, Filled, PersonOK, LinkOK, ViewToBe
<1>3. person \in [Client -> Person]
  BY DEF LinkInvariant
<1>4. LinkTypeOK
  BY <1>2, <1>3 DEF LinkTypeOK, LinkOK, Link, View, Person
<1>5. NothingForgotten
  BY <1>2 DEF NothingForgotten, KnowsOrNoted
<1>. QED
  BY <1>4, <1>5 DEF LinkSound

\* Whatever the players do, however often connections are lost, and however
\* large the buffers are: what a client of vsx-connection.c has not been told of
\* its game is noted as still to be told.
THEOREM LinksAreSound == LinkSpec => []LinkSound
<1>1. LinkSpec => []LinkInvariant
  BY LinkInitially, LinkStep, PTL DEF LinkSpec
<1>. QED
  BY <1>1, LinkIsSound, PTL

-----------------------------------------------------------------------------
(* The chat is delivered: every step is one of the abstract channel.       *)

ChatStaysFor(c) == SentTo(c)' = SentTo(c) /\ ReceivedBy(c)' = ReceivedBy(c)
ChatStartsOverFor(c) == SentTo(c)' = <<>> /\ ReceivedBy(c)' = <<>>
ChatGrowsFor(c) ==
    /\ \E m \in Message : SentTo(c)' = Append(SentTo(c), m)
    /\ ReceivedBy(c)' = ReceivedBy(c)
ChatIsTakenBy(c) ==
    /\ Len(ReceivedBy(c)) < Len(SentTo(c))
    /\ ReceivedBy(c)' = Append(ReceivedBy(c), SentTo(c)[Len(ReceivedBy(c)) + 1])
    /\ SentTo(c)' = SentTo(c)

\* Nothing is said, and c takes no message.
LEMMA ChatStays ==
    ASSUME NEW c, messages' = messages, view'[c].log = view[c].log,
           Counted(c)' = Counted(c), person'[c].offset = person[c].offset
    PROVE  ChatStaysFor(c)
BY DEF ChatStaysFor, SentTo, ReceivedBy

\* What a counted client has received, as a sequence of messages.
LEMMA ReceivedTyped ==
    ASSUME LinkInvariant, CountFits, NEW c \in Client, Counted(c)
    PROVE  LET o == person[c].offset
               l == Len(view[c].log)
           IN /\ o \in Nat /\ l \in Nat /\ Len(messages) \in Nat /\ o + l <= Len(messages)
              /\ messages \in Seq(Message)
              /\ view[c].log \in Seq(Nat) /\ DOMAIN view[c].log = 1 .. l
              /\ \A i \in 1 .. l : view[c].log[i] = o + i
              /\ ReceivedBy(c) = [i \in 1 .. l |-> messages[o + i]]
              /\ ReceivedBy(c) \in Seq(Message) /\ Len(ReceivedBy(c)) = l
              /\ SentTo(c) \in Seq(Message) /\ Len(SentTo(c)) = Len(messages) - o
              /\ \A i \in 1 .. Len(messages) - o : SentTo(c)[i] = messages[o + i]
<1>. DEFINE o == person[c].offset
            l == Len(view[c].log)
            r == [i \in 1 .. l |-> messages[o + i]]
<1>1. /\ o \in Nat /\ l \in Nat /\ Len(messages) \in Nat /\ o + l <= Len(messages)
      /\ \A i \in 1 .. l : view[c].log[i] = o + i
  BY WhatWasTold
<1>2. messages \in Seq(Message) /\ \A i \in 1 .. Len(messages) : messages[i] \in Message
  BY GameTyped, LenProperties DEF LinkInvariant
<1>3. view[c].log \in Seq(Nat) /\ DOMAIN view[c].log = 1 .. l
  BY WhatWasTold, LenProperties DEF View
<1>4. ReceivedBy(c) = r
  BY <1>1, <1>3 DEF ReceivedBy
<1>5. r \in Seq(Message) /\ Len(r) = l
  <2>. HIDE DEF o, l
  <2>1. \A i \in 1 .. l : messages[o + i] \in Message
    BY <1>1, <1>2
  <2>. QED
    BY <1>1, <2>1
<1>6. /\ SentTo(c) \in Seq(Message) /\ Len(SentTo(c)) = Len(messages) - o
      /\ \A i \in 1 .. Len(messages) - o : SentTo(c)[i] = messages[o + i]
  <2>. DEFINE n == Len(messages)
              m == o + 1
  <2>1. SentTo(c) = SubSeq(messages, m, n)
    BY DEF SentTo
  <2>. HIDE DEF o, l
  <2>2. m \in Int /\ n \in Int /\ o <= n
    BY <1>1
  <2>3. \A i \in m .. n : messages[i] \in Message
    BY <1>1, <1>2
  <2>. HIDE DEF m, n
  <2>4. /\ SubSeq(messages, m, n) \in Seq(Message)
        /\ Len(SubSeq(messages, m, n)) = IF m <= n THEN n - m + 1 ELSE 0
        /\ \A i \in 1 .. n - m + 1 : SubSeq(messages, m, n)[i] = messages[m + i - 1]
    BY <2>2, <2>3, SubSeqProperties
  <2>5. n \in Nat /\ m = o + 1 /\ n = Len(messages)
    BY <1>1 DEF m, n
  <2>. QED
    BY <1>1, <2>1, <2>2, <2>4, <2>5
<1>. HIDE DEF o, l, r
<1>. QED
  BY <1>1, <1>2, <1>3, <1>4, <1>5, <1>6 DEF o, l, r

\* Somebody says something.
LEMMA ChatGrows ==
    ASSUME LinkInvariant, LinkInvariant', CountFits, NEW c \in Client, NEW m \in Message,
           messages' = Append(messages, m), view'[c] = view[c], person'[c] = person[c]
    PROVE  ChatGrowsFor(c) \/ ChatStaysFor(c)
<1>1. CASE ~Counted(c)
  BY <1>1 DEF Counted, ChatStaysFor, SentTo, ReceivedBy
<1>2. CASE Counted(c)
  <2>. DEFINE o == person[c].offset
              l == Len(view[c].log)
              n == Len(messages)
  <2>1. /\ o \in Nat /\ l \in Nat /\ n \in Nat /\ o + l <= n
        /\ messages \in Seq(Message)
        /\ DOMAIN view[c].log = 1 .. l /\ \A i \in 1 .. l : view[c].log[i] = o + i
        /\ SentTo(c) \in Seq(Message) /\ Len(SentTo(c)) = n - o
        /\ \A i \in 1 .. n - o : SentTo(c)[i] = messages[o + i]
    BY <1>2, ReceivedTyped
  <2>2. /\ messages' \in Seq(Message) /\ Len(messages') = n + 1 /\ messages'[n + 1] = m
        /\ \A i \in 1 .. n : messages'[i] = messages[i]
    BY <2>1, AppendProperties
  <2>3. Counted(c)'
    BY <1>2 DEF Counted
  <2>4. ReceivedBy(c)' = ReceivedBy(c)
    <3>1. \A i \in 1 .. l : messages'[view[c].log[i]] = messages[view[c].log[i]]
      <4>. HIDE DEF o, l, n
      <4>1. \A i \in 1 .. l : view[c].log[i] = o + i /\ o + i \in 1 .. n
        BY <2>1
      <4>. QED
        BY <2>2, <4>1
    <3>. QED
      BY <1>2, <2>1, <2>3, <3>1 DEF ReceivedBy
  <2>5. SentTo(c)' = SubSeq(messages', o + 1, n + 1)
    BY <2>2, <2>3 DEF SentTo
  <2>. DEFINE S == SentTo(c)
              T == SubSeq(messages', o + 1, n + 1)
  <2>6. /\ T \in Seq(Message) /\ Len(T) = n - o + 1
        /\ \A i \in 1 .. n - o + 1 : T[i] = messages'[o + i]
    <3>. HIDE DEF o, l, n
    <3>1. \A i \in o + 1 .. n + 1 : messages'[i] \in Message
      BY <2>1, <2>2, LenProperties
    <3>2. /\ SubSeq(messages', o + 1, n + 1) \in Seq(Message)
          /\ Len(SubSeq(messages', o + 1, n + 1)) =
               IF o + 1 <= n + 1 THEN (n + 1) - (o + 1) + 1 ELSE 0
          /\ \A i \in 1 .. (n + 1) - (o + 1) + 1 :
               SubSeq(messages', o + 1, n + 1)[i] = messages'[(o + 1) + i - 1]
      <4>. DEFINE q == messages'
                  a == o + 1
                  z == n + 1
      <4>1. a \in Int /\ z \in Int
        BY <2>1
      <4>3. \A i \in a .. z : q[i] \in Message
        BY <3>1
      <4>. HIDE DEF q, a, z
      <4>2. /\ SubSeq(q, a, z) \in Seq(Message)
            /\ Len(SubSeq(q, a, z)) = IF a <= z THEN z - a + 1 ELSE 0
            /\ \A i \in 1 .. z - a + 1 : SubSeq(q, a, z)[i] = q[a + i - 1]
        BY <4>1, <4>3, SubSeqProperties
      <4>. QED
        BY <4>2 DEF q, a, z
    <3>3. (n + 1) - (o + 1) + 1 = n - o + 1 /\ o + 1 <= n + 1
      BY <2>1
    <3>4. \A i \in 1 .. n - o + 1 : (o + 1) + i - 1 = o + i
      BY <2>1
    <3>. QED
      BY <3>2, <3>3, <3>4
  <2>. HIDE DEF o, l, n, S, T
  <2>7. T = Append(S, m)
    <3>1. /\ Append(S, m) \in Seq(Message) /\ Len(Append(S, m)) = n - o + 1
          /\ Append(S, m)[n - o + 1] = m
          /\ \A i \in 1 .. n - o : Append(S, m)[i] = S[i]
      BY <2>1, AppendProperties DEF S
    <3>2. ASSUME NEW i \in 1 .. Len(T) PROVE T[i] = Append(S, m)[i]
      <4>1. CASE i \in 1 .. n - o
        BY <2>1, <2>2, <2>6, <3>1, <4>1 DEF S
      <4>2. CASE i = n - o + 1
        BY <2>1, <2>2, <2>6, <3>1, <4>2
      <4>. DEFINE d == n - o
      <4>3. d \in Nat /\ i \in 1 .. d + 1
        BY <2>1, <2>6
      <4>. HIDE DEF d
      <4>4. i \in 1 .. d \/ i = d + 1
        BY <4>3
      <4>. QED
        BY <4>1, <4>2, <4>4 DEF d
    <3>. QED
      BY <2>6, <3>1, <3>2, SeqEqual
  <2>. QED
    BY <2>4, <2>5, <2>7 DEF ChatGrowsFor, S, T, o, n
<1>. QED
  BY <1>1, <1>2

\* The client takes a command: if it is a message, the next one of the chat.
LEMMA ChatIsTaken ==
    ASSUME LinkInvariant, CountFits, NEW c \in Client, Receive(c)
    PROVE  ChatIsTakenBy(c) \/ ChatStaysFor(c)
<1>. DEFINE h == Head(wire[c])
            v == view[c]
            w == Told(v, h)
            s == wire[c] \o out[c]
            o == person[c].offset
            l == Len(v.log)
<1>1. /\ UNCHANGED person /\ messages' = messages /\ view'[c] = w /\ wire[c] # <<>>
  BY DEF Receive, NoOperation, game, LinkInvariant
<1>2. /\ wire[c] \in Seq(Command) /\ out[c] \in Seq(Command) /\ v \in View /\ o \in Nat
      /\ conn[c] \in Link /\ conn[c].messageNum <= Len(messages) /\ Len(messages) \in Nat
      /\ ChatInOrder(c, conn[c], v, s)
      /\ ~conn[c].follows => \A i \in 1 .. Len(s) : s[i].kind = "ERROR"
  <2>1. Linked(c) /\ v \in View /\ o \in Nat /\ Len(messages) \in Nat
    BY WhatWasTold
  <2>2. /\ wire[c] \in Seq(Command) /\ out[c] \in Seq(Command) /\ LinkOK(c, conn[c])
        /\ CountFits => ChatInOrder(c, conn[c], v, s)
        /\ ~conn[c].follows => \A i \in 1 .. Len(s) : s[i].kind = "ERROR"
    BY <2>1 DEF Linked, Filled
  <2>3. conn[c] \in Link /\ conn[c].messageNum <= Len(messages)
    BY <2>1, <2>2 DEF LinkOK
  <2>. HIDE DEF v, s, o
  <2>. QED
    BY <2>1, <2>2, <2>3
<1>3. s \in Seq(Command) /\ s # <<>> /\ Head(s) = h /\ h \in Command
  <2>. DEFINE a == wire[c]
              b == out[c]
  <2>1. a \in Seq(Command) /\ b \in Seq(Command) /\ a # <<>>
    BY <1>1, <1>2
  <2>. HIDE DEF a, b
  <2>2. Len(a) \in Nat \ {0} /\ Len(b) \in Nat /\ Head(a) \in Command /\ Head(a) = a[1]
    BY <2>1, EmptySeq, LenProperties, HeadTailProperties
  <2>. DEFINE q == a \o b
  <2>3. /\ q \in Seq(Command) /\ Len(q) = Len(a) + Len(b) /\ q[1] = a[1]
    BY <2>1, <2>2, ConcatProperties
  <2>. HIDE DEF q
  <2>4. q # <<>> /\ Head(q) = q[1]
    BY <2>2, <2>3
  <2>. QED
    BY <2>2, <2>3, <2>4 DEF q, a, b
<1>. HIDE DEF v, w, s, h
<1>4. /\ w.log = IF h.kind = "MESSAGE" THEN Append(v.log, h.num) ELSE v.log
      /\ h.kind = "MESSAGE" => h.num \in Nat
  BY <1>2, <1>3, ToldTyped, CommandKinds DEF w
<1>5. CASE ~Counted(c) \/ ~IsMessage(h)
  <2>1. Counted(c)' = Counted(c) /\ person'[c] = person[c]
    BY <1>1 DEF Counted
  <2>2. CASE ~Counted(c)
    BY <2>1, <2>2 DEF ChatStaysFor, SentTo, ReceivedBy
  <2>3. CASE ~IsMessage(h)
    <3>1. view'[c].log = view[c].log
      BY <1>1, <1>4, <2>3 DEF IsMessage, v
    <3>. QED
      BY <1>1, <2>1, <3>1, ChatStays
  <2>. QED
    BY <1>5, <2>2, <2>3
<1>6. CASE Counted(c) /\ IsMessage(h)
  <2>1. h.num = o + l + 1 /\ h.num <= Len(messages)
    BY <1>2, <1>3, <1>6, ChatStaysInOrderWhenTaken
  <2>2. /\ l \in Nat /\ v.log \in Seq(Nat) /\ DOMAIN v.log = 1 .. l
        /\ \A i \in 1 .. l : v.log[i] = o + i
        /\ messages \in Seq(Message)
        /\ ReceivedBy(c) = [i \in 1 .. l |-> messages[o + i]]
        /\ ReceivedBy(c) \in Seq(Message) /\ Len(ReceivedBy(c)) = l
        /\ SentTo(c) \in Seq(Message) /\ Len(SentTo(c)) = Len(messages) - o
        /\ \A i \in 1 .. Len(messages) - o : SentTo(c)[i] = messages[o + i]
    BY <1>6, ReceivedTyped DEF v
  <2>3. /\ w.log \in Seq(Nat) /\ Len(w.log) = l + 1 /\ DOMAIN w.log = 1 .. l + 1
        /\ \A i \in 1 .. l + 1 : w.log[i] = o + i
    <3>1. w.log = Append(v.log, h.num) /\ h.num \in Nat
      BY <1>4, <1>6 DEF IsMessage
    <3>. DEFINE x == Append(v.log, h.num)
    <3>2. x \in Seq(Nat) /\ Len(x) = l + 1 /\ x[l + 1] = h.num /\ \A i \in 1 .. l : x[i] = v.log[i]
      BY <2>2, <3>1, AppendProperties
    <3>. HIDE DEF x
    <3>3. DOMAIN x = 1 .. l + 1
      BY <3>2, LenProperties
    <3>. HIDE DEF l, o
    <3>4. ASSUME NEW i \in 1 .. l + 1 PROVE x[i] = o + i
      <4>1. CASE i \in 1 .. l
        BY <2>2, <3>2, <4>1
      <4>2. CASE i = l + 1
        BY <1>2, <2>1, <2>2, <3>2, <4>2
      <4>. QED
        BY <2>2, <4>1, <4>2
    <3>. QED
      BY <3>1, <3>2, <3>3, <3>4 DEF x
  <2>4. SentTo(c)' = SentTo(c) /\ Counted(c)'
    BY <1>1, <1>6 DEF SentTo, Counted
  <2>5. ReceivedBy(c)' = [i \in 1 .. l + 1 |-> messages[o + i]]
    <3>1. ReceivedBy(c)' = [i \in DOMAIN w.log |-> messages[w.log[i]]]
      BY <1>1, <2>4 DEF ReceivedBy
    <3>. HIDE DEF l, o
    <3>. QED
      BY <2>3, <3>1
  <2>. DEFINE R == ReceivedBy(c)
              S == SentTo(c)
              n == Len(messages)
              g == [i \in 1 .. l + 1 |-> messages[o + i]]
  <2>6. l + 1 <= n - o /\ n \in Nat /\ S[l + 1] = messages[o + l + 1]
        /\ messages[o + l + 1] \in Message
    <3>1. o + l + 1 \in 1 .. n /\ l + 1 \in 1 .. n - o
      <4>. HIDE DEF l, o, n
      <4>. QED
        BY <1>2, <2>1, <2>2 DEF n
    <3>2. S[l + 1] = messages[o + (l + 1)]
      BY <2>2, <3>1
    <3>3. o + (l + 1) = o + l + 1
      <4>. HIDE DEF l, o
      <4>. QED
        BY <1>2, <2>2
    <3>4. messages[o + l + 1] \in Message
      BY <2>2, <3>1, LenProperties
    <3>. QED
      BY <1>2, <3>1, <3>2, <3>3, <3>4
  <2>7. g = Append(R, S[l + 1])
    <3>. DEFINE m == S[l + 1]
    <3>0. o + (l + 1) = o + l + 1
      <4>. HIDE DEF o, l
      <4>. QED
        BY <1>2, <2>2
    <3>1. m \in Message /\ R \in Seq(Message) /\ Len(R) = l /\ m = messages[o + (l + 1)]
          /\ \A i \in 1 .. l : R[i] = messages[o + i]
      BY <2>2, <2>6, <3>0
    <3>. HIDE DEF m, R, S
    <3>2. /\ Append(R, m) \in Seq(Message) /\ Len(Append(R, m)) = l + 1
          /\ Append(R, m)[l + 1] = m /\ \A i \in 1 .. l : Append(R, m)[i] = R[i]
          /\ DOMAIN Append(R, m) = 1 .. l + 1
      BY <3>1, AppendProperties, LenProperties
    <3>. HIDE DEF l, o
    <3>3. ASSUME NEW i \in 1 .. l + 1 PROVE Append(R, m)[i] = messages[o + i]
      <4>1. CASE i \in 1 .. l
        BY <3>1, <3>2, <4>1
      <4>2. CASE i = l + 1
        BY <3>1, <3>2, <4>2
      <4>3. l \in Nat
        BY <2>2
      <4>4. i \in 1 .. l \/ i = l + 1
        BY <4>3
      <4>. QED
        BY <4>1, <4>2, <4>4
    <3>4. Append(R, m) = [i \in 1 .. l + 1 |-> Append(R, m)[i]]
      BY <3>2, LenProperties
    <3>. QED
      BY <3>3, <3>4 DEF m
  <2>8. Len(R) < Len(S) /\ Len(R) = l
    BY <1>2, <2>2, <2>6
  <2>. QED
    BY <2>4, <2>5, <2>7, <2>8 DEF ChatIsTakenBy
<1>. QED
  BY <1>5, <1>6

\* Every step, for every client.
ChatMoves(c) ==
    ChatStaysFor(c) \/ ChatStartsOverFor(c) \/ ChatGrowsFor(c) \/ ChatIsTakenBy(c)

\* A step of the game in which nobody says anything.
LEMMA ChatOfOthersStays ==
    ASSUME NEW c, messages' = messages, view'[c].log = view[c].log,
           person'[c] = person[c]
             \/ /\ person'[c] = [person[c] EXCEPT !.known = FALSE]
                /\ person[c] # NoPerson /\ person[c].seat \in Seat /\ person[c] \in Person
    PROVE  ChatStaysFor(c)
<1>1. person'[c].offset = person[c].offset
  BY DEF Person
<1>2. Counted(c)' = Counted(c)
  <2>1. CASE person'[c] = person[c]
    BY <2>1 DEF Counted
  <2>2. CASE /\ person'[c] = [person[c] EXCEPT !.known = FALSE]
             /\ person[c] # NoPerson /\ person[c].seat \in Seat /\ person[c] \in Person
    <3>1. person'[c].seat = person[c].seat /\ person'[c].byId = person[c].byId
      BY <2>2 DEF Person
    <3>2. person'[c] # NoPerson
      BY <2>2, <3>1 DEF NoPerson, Seat, Nobody
    <3>. QED
      BY <2>2, <3>1, <3>2 DEF Counted
  <2>. QED
    BY <2>1, <2>2
<1>. QED
  BY <1>1, <1>2, ChatStays

LEMMA EnterStartsChatOver ==
    ASSUME LinkInvariant, LinkInvariant', CountFits,
           NEW c \in Client, NEW n, NEW byId \in BOOLEAN, Enter(c, n, byId), NEW d \in Client
    PROVE  ChatMoves(d)
<1>1. messages' = messages /\ Connecting(c) /\ CanConnect(c) /\ view[c].self = Nobody
  BY DEF Enter, AddPlayer
<1>2. person' = [person EXCEPT ![c] = [seat |-> nPlayers, offset |-> Len(messages),
                                       known |-> TRUE, byId |-> byId]]
  BY DEF Enter
<1>3. CASE d # c
  <2>1. view'[d] = view[d] /\ person'[d] = person[d]
    BY <1>1, <1>2, <1>3, ConnectingClears DEF LinkInvariant
  <2>. QED
    BY <1>1, <2>1, ChatOfOthersStays DEF ChatMoves
<1>4. CASE d = c
  <2>1. view'[c].log = <<>> /\ Len(messages) \in Nat
    BY <1>1, ConnectingClears, WhatWasTold
  <2>2. person'[c].offset = Len(messages)
    BY <1>2 DEF LinkInvariant
  <2>3. SentTo(c)' = <<>>
    <3>1. SubSeq(messages, Len(messages) + 1, Len(messages)) = <<>>
      BY <2>1, SubSeqEmpty
    <3>. QED
      BY <1>1, <2>2, <3>1 DEF SentTo
  <2>4. ReceivedBy(c)' = <<>>
    <3>1. \A f : [i \in DOMAIN <<>> |-> f[i]] = <<>>
      OBVIOUS
    <3>. QED
      BY <1>1, <2>1, <3>1 DEF ReceivedBy
  <2>. QED
    BY <1>4, <2>3, <2>4 DEF ChatMoves, ChatStartsOverFor
<1>. QED
  BY <1>3, <1>4

LEMMA OperationMovesChat ==
    ASSUME LinkInvariant, LinkInvariant', CountFits, Operation, NEW c \in Client
    PROVE  ChatMoves(c)
<1>1. UNCHANGED person /\ UNCHANGED view
  BY DEF Operation
<1>2. CASE messages' = messages
  BY <1>1, <1>2, ChatOfOthersStays DEF ChatMoves
<1>3. CASE \E p \in Seat, text \in Text : SendMessage(p, text)
  <2>1. PICK m \in Message : messages' = Append(messages, m)
    BY <1>3 DEF SendMessage, Message
  <2>. QED
    BY <1>1, <2>1, ChatGrows DEF ChatMoves
<1>4. (\E p \in Seat, text \in Text : SendMessage(p, text)) \/ messages' = messages
  <2>1. AddPlayer => messages' = messages
    BY DEF AddPlayer
  <2>2. Tick => messages' = messages
    BY DEF Tick
  <2>3. ASSUME NEW p \in Seat PROVE
          /\ HandleLeave(p) => messages' = messages
          /\ HandleTyping(p) => messages' = messages
          /\ HandleSetNTiles(p) => messages' = messages
          /\ HandleSetLanguage(p) => messages' = messages
          /\ HandleTurn(p) => messages' = messages
          /\ HandleMoveTile(p) => messages' = messages
          /\ HandleShout(p) => messages' = messages
    BY DEF HandleLeave, HandleTyping, HandleSetNTiles, HandleSetLanguage, HandleTurn,
           HandleMoveTile, HandleShout, PlayerLeft, SetTyping, SetNTiles, SetTileData, Turn,
           MoveTile, Shout
  <2>4. \A p \in Seat : HandleSendMessage(p) => \E text \in Text : SendMessage(p, text)
    BY DEF HandleSendMessage
  <2>. QED
    BY <2>1, <2>2, <2>3, <2>4 DEF Operation
<1>. QED
  BY <1>2, <1>3, <1>4

LEMMA LinkStepMovesChat ==
    ASSUME LinkInvariant, LinkInvariant', CountFits, [LinkNext]_allVars, NEW d \in Client
    PROVE  ChatMoves(d)
<1>1. CASE UNCHANGED allVars
  BY <1>1, ChatOfOthersStays DEF allVars, linkVars, game, ChatMoves
<1>2. CASE Operation
  BY <1>2, OperationMovesChat
<1>3. ASSUME NEW c \in Client,
             HandleNewPrivateGame(c) \/ HandleNewPlayer(c) \/ HandleJoinGame(c)
      PROVE  ChatMoves(d)
  <2>1. \E n, byId : byId \in BOOLEAN /\ Enter(c, n, byId)
    BY <1>3 DEF HandleNewPrivateGame, HandleNewPlayer, HandleJoinGame
  <2>. QED
    BY <2>1, EnterStartsChatOver
<1>4. ASSUME NEW c \in Client, JoinRefused(c) \/ Reconnect(c) PROVE ChatMoves(d)
  <2>1. UNCHANGED game /\ UNCHANGED person /\ CanConnect(c) /\ Connecting(c)
    BY <1>4 DEF JoinRefused, Reconnect, NoOperation
  <2>2. view'[d].log = view[d].log
    BY <2>1, ConnectingClears
  <2>. QED
    BY <2>1, <2>2, ChatOfOthersStays DEF game, ChatMoves
<1>5. ASSUME NEW c \in Client, GoneSilent(c) PROVE ChatMoves(d)
  <2>1. view' = view /\ messages' = messages
    BY <1>5 DEF GoneSilent, PlayerLeft, NoOperation, game
  <2>2. person' = [person EXCEPT ![c].known = FALSE] /\ person[c].known
    BY <1>5 DEF GoneSilent
  <2>3. person[c] \in Person /\ person[c] # NoPerson /\ person[c].seat \in Seat
    BY <2>2, WhatWasTold, GameTyped DEF NoPerson, PersonOK
  <2>. QED
    BY <2>1, <2>2, <2>3, ChatOfOthersStays DEF ChatMoves, LinkInvariant
<1>6. ASSUME NEW c \in Client, HandleWrite(c) \/ Lose(c) PROVE ChatMoves(d)
  <2>1. UNCHANGED game /\ UNCHANGED person /\ UNCHANGED view
    BY <1>6 DEF HandleWrite, Lose, NoOperation
  <2>. QED
    BY <2>1, ChatOfOthersStays DEF game, ChatMoves
<1>7. ASSUME NEW c \in Client, Receive(c) PROVE ChatMoves(d)
  <2>1. CASE d = c
    BY <1>7, <2>1, ChatIsTaken DEF ChatMoves
  <2>2. CASE d # c
    <3>1. UNCHANGED game /\ UNCHANGED person /\ view'[d] = view[d]
      BY <1>7, <2>2 DEF Receive, NoOperation, LinkInvariant
    <3>. QED
      BY <3>1, ChatOfOthersStays DEF game, ChatMoves
  <2>. QED
    BY <2>1, <2>2
<1>. QED
  BY <1>1, <1>2, <1>3, <1>4, <1>5, <1>6, <1>7 DEF LinkNext

LEMMA ChatInitially == LinkInit => Chat!Init
<1>. SUFFICES ASSUME LinkInit PROVE Chat!Init
  OBVIOUS
<1>1. \A c \in Client : SentTo(c) = <<>> /\ ReceivedBy(c) = <<>>
  BY DEF LinkInit, InitLinks, SentTo, ReceivedBy, Counted
<1>. QED
  BY <1>1 DEF Chat!Init

\* Whatever the players do and however often connections are lost, each client
\* is delivered the chat of its game in order and each message once, from the
\* first one said after it entered: the connections and the counting of
\* vsx-connection.c on both sides implement the abstract channel InOrder, as
\* long as RECONNECT's 16 bits can count the messages of a game.
THEOREM ChatIsInOrder ==
    ASSUME CountFits
    PROVE  LinkSpec => ChatIsDelivered
<1>1. LinkSpec => []LinkInvariant
  BY LinkInitially, LinkStep, PTL DEF LinkSpec
<1>2. LinkInvariant /\ LinkInvariant' /\ [LinkNext]_allVars =>
        [Chat!Next]_<<[c \in Client |-> SentTo(c)], [c \in Client |-> ReceivedBy(c)]>>
  <2>. SUFFICES ASSUME LinkInvariant, LinkInvariant', [LinkNext]_allVars PROVE Chat!Next
    OBVIOUS
  <2>1. \A c \in Client : ChatMoves(c)
    BY LinkStepMovesChat
  <2>. QED
    BY <2>1 DEF ChatMoves, ChatStaysFor, ChatStartsOverFor, ChatGrowsFor, ChatIsTakenBy,
                Chat!Next, Chat!Send, Chat!Receive, Chat!StartOver, Chat!Stay
<1>. QED
  BY <1>1, <1>2, ChatInitially, PTL DEF LinkSpec, ChatIsDelivered, Chat!Spec

-----------------------------------------------------------------------------
(***************************************************************************)
(* What a client is told comes in an order it can follow, for any number   *)
(* of clients, buffers of any size and whatever the players do: what a     *)
(* command refers to comes before it, and SYNC and END come last.          *)
(***************************************************************************)

(* The strengthening.                                                      *)

\* Who is named in the game sits at its table.
PlayersAreSeated ==
    /\ \A i \in 1 .. Len(tiles) : tiles[i].lastPlayer \in InSeats \cup {Nobody}
    /\ \A i \in 1 .. Len(messages) : messages[i].player \in InSeats

ShoutIsSeated(k) ==
    k.follows /\ "PLAYER_SHOUTED" \in k.dirtyFlags => k.pendingShout \in InSeats

\* A client has only been told of flags of players at the table.
FlagsAreSeated(v) == \A p \in Seat \ InSeats : v.flags[p] = {}

\* A client that has been told v can follow the command m.
CanFollow(v, m) ==
    /\ m.kind \notin {"PLAYER_ID", "ERROR"} => v.self # Nobody
    /\ m.kind \in {"PLAYER", "PLAYER_SHOUTED"} => m.num \in v.names /\ m.num \in InSeats
    /\ m.kind = "MESSAGE" =>
         m.num \in 1 .. Len(messages) /\ messages[m.num].player \in v.names
    /\ m.kind = "TILE" =>
         /\ m.num < Len(tiles) /\ m.num < v.nTiles /\ v.language = bag
         /\ m.value.lastPlayer \in v.names \cup {Nobody}

\* So it is with each command of s when its turn comes.
InGoodOrder(v, s) ==
    \A i \in 1 .. Len(s) : CanFollow(ViewAfter(v, SubSeq(s, 1, i - 1)), s[i])

\* A connection k and its output buffer o, with the client that reads it.
Follows(c, k, o) ==
    /\ ShoutIsSeated(k)
    /\ InGoodOrder(view[c], wire[c] \o o)
    /\ FlagsAreSeated(ViewAfter(view[c], wire[c] \o o))

OrderInvariant ==
    /\ LinkInvariant
    /\ PlayersAreSeated
    /\ \A c \in Client : FlagsAreSeated(view[c]) /\ Follows(c, conn[c], out[c])

-----------------------------------------------------------------------------
(* What a step does to the game.                                           *)

\* Players stay at the table and tiles on it, the bag is only filled before the
\* first tile, what was said stays said, and only players at the table shout.
Continues ==
    /\ InSeats \subseteq InSeats' /\ Len(tiles) <= Len(tiles')
    /\ Len(tiles) > 0 => bag' = bag
    /\ Len(messages) <= Len(messages')
    /\ \A i \in 1 .. Len(messages) : messages'[i] = messages[i]
    /\ \A e \in changed' : e.type = "SHOUTED" => e.num \in InSeats'
    /\ \A p \in Seat \ InSeats' : flags'[p] = {}

LEMMA NothingContinues ==
    ASSUME GameInv, PlayersAreSeated, UNCHANGED game
    PROVE  PlayersAreSeated'
BY DEF PlayersAreSeated, game, InSeats

\* Nobody sits down, nothing is said, and no tile is moved.
LEMMA SeatedStay ==
    ASSUME GameInv, PlayersAreSeated, InSeats \subseteq InSeats', UNCHANGED <<tiles, messages>>
    PROVE  PlayersAreSeated'
BY DEF PlayersAreSeated

LEMMA OutOfSeats ==
    ASSUME GameInv
    PROVE  \A p \in Seat \ InSeats : flags[p] = {}
<1>1. \A p \in Seat : p \notin InSeats => ~(p < nPlayers)
  BY GameTyped DEF InSeats, Seat
<1>. QED
  BY <1>1 DEF GameInv, TurnFlagsSound

LEMMA ConnectedSit ==
    ASSUME GameInv, NEW p \in Seat, IsConnected(p)
    PROVE  p \in InSeats
BY OutOfSeats DEF IsConnected

LEMMA OperationsContinue ==
    ASSUME GameInv, GameInv', PlayersAreSeated, Next
    PROVE  Continues /\ PlayersAreSeated'
<1>. USE DEF Continues
<1>1. /\ nPlayers \in Nat /\ Len(tiles) \in Nat /\ Len(messages) \in Nat
      /\ nPlayers' \in Int /\ nPlayers' >= 0
      /\ tiles \in Seq(Tile) /\ messages \in Seq(Message)
      /\ InSeats = 0 .. nPlayers - 1 /\ InSeats' = 0 .. nPlayers' - 1
  BY GameTyped, ConversationAssumption DEF GameInv, TypeOK, InSeats
<1>2. \A t : ChangeOf(t).type = t
  BY DEF ChangeOf
<1>3. \A p : PlayerChanged(p).type = "PLAYER" /\ TileChanged(p).type = "TILE"
  BY DEF PlayerChanged, TileChanged
<1>4. \A e \in FlagChanges(flags') : e.type = "PLAYER"
  BY <1>3 DEF FlagChanges
<1>5. \A p \in Seat \ InSeats' : flags'[p] = {}
  <2>0. Seat \subseteq Nat
    BY ConversationAssumption DEF Seat
  <2>1. PICK m \in Nat : m = nPlayers' /\ InSeats' = 0 .. m - 1
    BY <1>1
  <2>2. \A p \in Seat : p \notin 0 .. m - 1 => ~(p < m)
    BY <2>0
  <2>3. \A p \in Seat : p \notin InSeats' => ~(p < nPlayers')
    BY <2>1, <2>2
  <2>. QED
    BY <2>3 DEF GameInv, TurnFlagsSound
<1>6. CASE AddPlayer
  <2>1. /\ nPlayers' = nPlayers + 1 /\ UNCHANGED <<tiles, bag, messages>>
        /\ \A e \in changed' : e = PlayerChanged(nPlayers) \/ e = ChangeOf("STATE")
    BY <1>6 DEF AddPlayer, StartAndEmit
  <2>2. InSeats \subseteq InSeats'
    BY <1>1, <2>1
  <2>. QED
    BY <1>1, <1>2, <1>3, <1>5, <2>1, <2>2, SeatedStay
<1>7. CASE \/ \E p \in Seat : PlayerLeft(p)
           \/ \E p \in Seat, typing \in BOOLEAN : SetTyping(p, typing)
           \/ \E p \in Seat, n \in 0 .. MaxTiles + 1 : SetNTiles(p, n)
           \/ \E p \in Seat, lang \in Language : SetTileData(p, lang)
           \/ Tick
  <2>1. /\ UNCHANGED <<nPlayers, tiles, bag, messages>>
        /\ \A e \in changed' : e \in FlagChanges(flags') \/ e = ChangeOf("N_TILES")
                                 \/ e = ChangeOf("TILE_DATA")
    BY <1>7 DEF PlayerLeft, SetTyping, SetNTiles, SetTileData, Tick
  <2>2. InSeats \subseteq InSeats'
    BY <1>1, <2>1
  <2>. QED
    BY <1>1, <1>2, <1>4, <1>5, <2>1, <2>2, SeatedStay
<1>8. CASE \E p \in Seat, text \in Text : SendMessage(p, text)
  <2>1. PICK p \in Seat, text \in Text : SendMessage(p, text)
    BY <1>8
  <2>. DEFINE m == [player |-> p, text |-> text]
  <2>2. /\ messages' = Append(messages, m) /\ m \in Message /\ m.player = p /\ p \in InSeats
        /\ UNCHANGED <<nPlayers, tiles, bag>>
        /\ \A e \in changed' : e \in FlagChanges(flags') \/ e = ChangeOf("MESSAGE")
    BY <2>1, ConnectedSit DEF SendMessage, Message
  <2>. HIDE DEF m
  <2>3. /\ Len(messages') = Len(messages) + 1 /\ messages'[Len(messages) + 1] = m
        /\ \A i \in 1 .. Len(messages) : messages'[i] = messages[i]
    BY <1>1, <2>2, AppendProperties
  <2>4. \A i \in 1 .. Len(messages') : messages'[i].player \in InSeats
    BY <1>1, <2>2, <2>3 DEF PlayersAreSeated
  <2>5. PlayersAreSeated'
    BY <1>1, <2>2, <2>4 DEF PlayersAreSeated
  <2>. QED
    <3>1. InSeats' = InSeats /\ Len(tiles') = Len(tiles) /\ bag' = bag
      BY <1>1, <2>2
    <3>2. \A e \in changed' : e.type # "SHOUTED"
      BY <1>2, <1>4, <2>2
    <3>3. /\ InSeats \subseteq InSeats' /\ Len(tiles) <= Len(tiles')
          /\ Len(messages) <= Len(messages')
      <4>1. \A n \in Nat : n <= n /\ n <= n + 1
        OBVIOUS
      <4>. QED
        BY <1>1, <2>3, <3>1, <4>1
    <3>. QED
      BY <1>5, <2>3, <2>5, <3>1, <3>2, <3>3
<1>9. CASE \E p \in Seat : Turn(p)
  <2>1. PICK p \in Seat : Turn(p)
    BY <1>9
  <2>2. PICK place \in Place : tiles' = Append(tiles, [place |-> place, lastPlayer |-> Nobody])
    BY <2>1 DEF Turn
  <2>. DEFINE t == [place |-> place, lastPlayer |-> Nobody]
  <2>3. /\ tiles' = Append(tiles, t) /\ t \in Tile /\ t.lastPlayer = Nobody
        /\ Len(tiles) > 0 => bag' = bag
        /\ UNCHANGED <<nPlayers, messages>>
        /\ \A e \in changed' : e \in FlagChanges(flags') \/ e = ChangeOf("STATE")
                                 \/ e = TileChanged(Len(tiles))
    BY <1>1, <2>1, <2>2 DEF Turn, StartAndEmit, Tile, IsFirstTurn
  <2>. HIDE DEF t
  <2>4. /\ Len(tiles') = Len(tiles) + 1 /\ tiles'[Len(tiles) + 1] = t
        /\ \A i \in 1 .. Len(tiles) : tiles'[i] = tiles[i]
    BY <1>1, <2>3, AppendProperties
  <2>5. \A i \in 1 .. Len(tiles') : tiles'[i].lastPlayer \in InSeats \cup {Nobody}
    BY <1>1, <2>3, <2>4 DEF PlayersAreSeated
  <2>6. PlayersAreSeated'
    BY <1>1, <2>3, <2>5 DEF PlayersAreSeated
  <2>. QED
    BY <1>1, <1>2, <1>3, <1>4, <1>5, <2>3, <2>4, <2>6
<1>10. CASE \E p \in Seat, i \in 0 .. MaxTiles - 1, place \in Place : MoveTile(p, i, place)
  <2>1. PICK p \in Seat, i \in 0 .. MaxTiles - 1, place \in Place : MoveTile(p, i, place)
    BY <1>10
  <2>. DEFINE t == [place |-> place, lastPlayer |-> p]
  <2>2. /\ tiles' = [tiles EXCEPT ![i + 1] = t] /\ t \in Tile /\ t.lastPlayer = p /\ p \in InSeats
        /\ i + 1 \in 1 .. Len(tiles)
        /\ UNCHANGED <<nPlayers, messages, bag>> /\ changed' = {TileChanged(i)}
    BY <1>1, <2>1, GameTyped DEF MoveTile, Tile
  <2>. HIDE DEF t
  <2>3. /\ Len(tiles') = Len(tiles) /\ tiles'[i + 1] = t
        /\ \A j \in 1 .. Len(tiles) : j # i + 1 => tiles'[j] = tiles[j]
    BY <1>1, <2>2, ExceptSeq
  <2>4. \A j \in 1 .. Len(tiles') : tiles'[j].lastPlayer \in InSeats \cup {Nobody}
    BY <1>1, <2>2, <2>3 DEF PlayersAreSeated
  <2>5. PlayersAreSeated'
    BY <1>1, <2>2, <2>4 DEF PlayersAreSeated
  <2>. QED
    BY <1>1, <1>3, <1>5, <2>2, <2>3, <2>5
<1>11. CASE \E p \in Seat : Shout(p)
  <2>1. PICK p \in Seat : Shout(p)
    BY <1>11
  <2>2. /\ changed' = {Shouted(p)} /\ Shouted(p).num = p /\ p \in InSeats
        /\ UNCHANGED <<nPlayers, tiles, messages, bag>>
    BY <2>1, ConnectedSit DEF Shout, Shouted
  <2>3. InSeats' = InSeats
    BY <1>1, <2>2
  <2>. QED
    BY <1>1, <1>5, <2>2, <2>3, SeatedStay
<1>. QED
  BY <1>6, <1>7, <1>8, <1>9, <1>10, <1>11 DEF Next

-----------------------------------------------------------------------------
(* Commands in a row.                                                      *)

LEMMA CanStillFollow ==
    ASSUME GameInv, Continues, NEW v, NEW m \in Command, CanFollow(v, m)
    PROVE  CanFollow(v, m)'
<1>1. Len(tiles) \in Nat /\ Len(messages) \in Nat
  BY GameTyped
<1>2. m.kind = "MESSAGE" =>
        m.num \in 1 .. Len(messages') /\ messages'[m.num] = messages[m.num]
  <2>1. ASSUME NEW n \in 1 .. Len(messages)
        PROVE  n \in 1 .. Len(messages') /\ messages'[n] = messages[n]
    BY <1>1, <2>1 DEF Continues
  <2>. QED
    BY <2>1 DEF CanFollow
<1>3. m.kind = "TILE" => m.num < Len(tiles') /\ bag' = bag
  <2>1. m.kind = "TILE" => m.num \in 0 .. MaxTiles - 1 /\ m.num < Len(tiles)
    BY CommandKinds DEF CanFollow
  <2>2. \A n \in 0 .. MaxTiles - 1 : n < Len(tiles) => n < Len(tiles') /\ Len(tiles) > 0
    BY <1>1, GameTyped DEF Continues
  <2>. QED
    BY <2>1, <2>2 DEF Continues
<1>. QED
  BY <1>2, <1>3 DEF CanFollow, Continues

LEMMA GoodOrderStays ==
    ASSUME GameInv, Continues, NEW v, NEW s \in Seq(Command), InGoodOrder(v, s)
    PROVE  InGoodOrder(v, s)'
<1>1. \A i \in 1 .. Len(s) : s[i] \in Command
  BY ElementOfSeq
<1>2. ASSUME NEW i \in 1 .. Len(s)
      PROVE  CanFollow(ViewAfter(v, SubSeq(s, 1, i - 1)), s[i])'
  <2>. DEFINE w == ViewAfter(v, SubSeq(s, 1, i - 1))
              m == s[i]
  <2>1. CanFollow(w, m) /\ m \in Command
    BY <1>1, <1>2 DEF InGoodOrder
  <2>. HIDE DEF w, m
  <2>2. CanFollow(w, m)'
    BY <2>1, CanStillFollow
  <2>. QED
    BY <2>2 DEF w, m
<1>. QED
  BY <1>2 DEF InGoodOrder

LEMMA FlagsStaySeated ==
    ASSUME Continues, NEW v, FlagsAreSeated(v)
    PROVE  FlagsAreSeated(v)'
BY DEF FlagsAreSeated, Continues

LEMMA FirstCommands ==
    ASSUME NEW s \in Seq(Command), NEW n \in 0 .. Len(s)
    PROVE  /\ SubSeq(s, 1, n) \in Seq(Command) /\ Len(SubSeq(s, 1, n)) = n
           /\ \A i \in 1 .. n : SubSeq(s, 1, n)[i] = s[i]
<1>1. Len(s) \in Nat /\ n \in Nat /\ \A i \in 1 .. n : s[i] \in Command
  BY ElementOfSeq, LenProperties
<1>. QED
  BY <1>1, SubSeqProperties

\* One more command.
LEMMA GoodOrderGrows ==
    ASSUME NEW v, NEW s \in Seq(Command), NEW m \in Command,
           InGoodOrder(v, s), CanFollow(ViewAfter(v, s), m)
    PROVE  InGoodOrder(v, Append(s, m))
<1>. DEFINE n == Len(s)
            t == Append(s, m)
<1>1. /\ n \in Nat /\ Len(t) = n + 1 /\ t[n + 1] = m /\ t \in Seq(Command)
      /\ \A i \in 1 .. n : t[i] = s[i]
  BY AppendProperties, LenProperties
<1>. HIDE DEF t
<1>2. ASSUME NEW i \in 1 .. n + 1
      PROVE  SubSeq(t, 1, i - 1) = SubSeq(s, 1, i - 1)
  <2>. DEFINE j == i - 1
              a == SubSeq(t, 1, j)
              b == SubSeq(s, 1, j)
  <2>1. j \in 0 .. n
    BY <1>1
  <2>2. \A q \in 1 .. j : s[q] \in Command /\ t[q] \in Command /\ t[q] = s[q]
    BY <1>1, <2>1, ElementOfSeq
  <2>. HIDE DEF j
  <2>3. /\ a \in Seq(Command) /\ Len(a) = j /\ \A q \in 1 .. j : a[q] = t[q]
        /\ b \in Seq(Command) /\ Len(b) = j /\ \A q \in 1 .. j : b[q] = s[q]
    BY <2>1, <2>2, FirstCommands
  <2>4. a = b
    <3>. HIDE DEF a, b
    <3>. QED
      BY <2>2, <2>3, SeqEqual
  <2>. QED
    BY <2>4 DEF j
<1>3. SubSeq(s, 1, n) = s
  BY SubSeqFull
<1>4. ASSUME NEW i \in 1 .. n + 1
      PROVE  CanFollow(ViewAfter(v, SubSeq(t, 1, i - 1)), t[i])
  <2>1. CASE i = n + 1
    <3>. DEFINE j == i - 1
    <3>1. j = n /\ t[i] = m
      BY <1>1, <2>1
    <3>2. SubSeq(t, 1, j) = SubSeq(s, 1, j)
      BY <1>2
    <3>. HIDE DEF j
    <3>3. SubSeq(t, 1, j) = s
      BY <1>3, <3>1, <3>2
    <3>4. CanFollow(ViewAfter(v, SubSeq(t, 1, j)), t[i])
      BY <3>1, <3>3
    <3>. QED
      BY <3>4 DEF j
  <2>2. CASE i # n + 1
    <3>1. i \in 1 .. n /\ t[i] = s[i] /\ SubSeq(t, 1, i - 1) = SubSeq(s, 1, i - 1)
      BY <1>1, <1>2, <2>2
    <3>. QED
      BY <3>1 DEF InGoodOrder
  <2>. QED
    BY <2>1, <2>2
<1>. QED
  BY <1>1, <1>4 DEF InGoodOrder, t

\* The first command is taken.
LEMMA GoodOrderTaken ==
    ASSUME NEW v, NEW s \in Seq(Command), s # <<>>, InGoodOrder(v, s)
    PROVE  CanFollow(v, Head(s)) /\ InGoodOrder(Told(v, Head(s)), Tail(s))
<1>. DEFINE n == Len(s)
            t == Tail(s)
            w == Told(v, Head(s))
<1>1. /\ n \in Nat \ {0} /\ t \in Seq(Command) /\ Len(t) = n - 1 /\ Head(s) = s[1]
      /\ \A i \in 1 .. n - 1 : t[i] = s[i + 1]
  BY HeadTailProperties, EmptySeq
<1>. HIDE DEF t
<1>2. SubSeq(s, 1, 0) = <<>>
  BY <1>1, FirstCommands, EmptySeq
<1>3. CanFollow(v, s[1])
  <2>. DEFINE j == 1
              z == j - 1
  <2>1. j \in 1 .. n /\ z = 0
    BY <1>1
  <2>. HIDE DEF j
  <2>2. CanFollow(ViewAfter(v, SubSeq(s, 1, z)), s[j])
    BY <2>1 DEF InGoodOrder
  <2>. HIDE DEF z
  <2>3. CanFollow(ViewAfter(v, <<>>), s[j])
    BY <1>2, <2>1, <2>2
  <2>. QED
    BY <2>3, ViewAfterNothing DEF j
<1>4. ASSUME NEW i \in 1 .. n - 1
      PROVE  ViewAfter(v, SubSeq(s, 1, i)) = ViewAfter(w, SubSeq(t, 1, i - 1))
  <2>. DEFINE a == SubSeq(s, 1, i)
              b == SubSeq(t, 1, i - 1)
  <2>1. a \in Seq(Command) /\ Len(a) = i /\ \A q \in 1 .. i : a[q] = s[q]
    BY <1>1, FirstCommands
  <2>2. b \in Seq(Command) /\ Len(b) = i - 1 /\ \A q \in 1 .. i - 1 : b[q] = t[q]
    <3>. DEFINE j == i - 1
    <3>1. j \in 0 .. Len(t)
      BY <1>1
    <3>. HIDE DEF j
    <3>2. /\ SubSeq(t, 1, j) \in Seq(Command) /\ Len(SubSeq(t, 1, j)) = j
          /\ \A q \in 1 .. j : SubSeq(t, 1, j)[q] = t[q]
      BY <1>1, <3>1, FirstCommands
    <3>. QED
      BY <3>2 DEF j
  <2>. HIDE DEF a, b
  <2>3. a # <<>> /\ Head(a) = s[1]
    <3>1. a # <<>>
      BY <2>1, EmptySeq
    <3>. QED
      BY <1>1, <2>1, <3>1, HeadTailProperties
  <2>4. Tail(a) = b
    <3>1. /\ Tail(a) \in Seq(Command) /\ Len(Tail(a)) = i - 1
          /\ \A q \in 1 .. i - 1 : Tail(a)[q] = a[q + 1]
      BY <2>1, <2>3, HeadTailProperties
    <3>2. \A q \in 1 .. i - 1 : Tail(a)[q] = b[q]
      BY <1>1, <2>1, <2>2, <3>1
    <3>. QED
      BY <2>2, <3>1, <3>2, SeqEqual
  <2>5. ViewAfter(v, a) = ViewAfter(Told(v, Head(a)), Tail(a))
    BY <2>1, <2>3, ViewAfterFirst
  <2>. QED
    BY <1>1, <2>3, <2>4, <2>5 DEF a, b
<1>. HIDE DEF w
<1>5. ASSUME NEW i \in 1 .. n - 1
      PROVE  CanFollow(ViewAfter(w, SubSeq(t, 1, i - 1)), t[i])
  <2>. DEFINE j == i + 1
  <2>1. j \in 1 .. n /\ j - 1 = i /\ t[i] = s[j]
    BY <1>1
  <2>. HIDE DEF j
  <2>2. CanFollow(ViewAfter(v, SubSeq(s, 1, j - 1)), s[j])
    BY <2>1 DEF InGoodOrder
  <2>. QED
    BY <1>4, <2>1, <2>2
<1>6. InGoodOrder(w, t)
  BY <1>1, <1>5 DEF InGoodOrder
<1>. QED
  BY <1>1, <1>3, <1>6 DEF w, t

-----------------------------------------------------------------------------
(* What is written next.                                                   *)

\* Nothing that comes before it in the order is pending.
LEMMA FirstIsFirst ==
    ASSUME NEW c, NEW k \in Link, Pending(c, k) # {}
    PROVE  LET P == Pending(c, k)
               kind == FirstPending(c, k)
           IN /\ kind \in P
              /\ kind # "PLAYER_ID" => "PLAYER_ID" \notin P
              /\ kind \notin {"PLAYER_ID", "CONVERSATION_ID", "N_TILES"} => "N_TILES" \notin P
              /\ kind \in {"TILE", "END", "SYNC"} => "LANGUAGE" \notin P
              /\ kind \in {"PLAYER", "PLAYER_SHOUTED", "TILE", "MESSAGE", "END", "SYNC"}
                   => "PLAYER_NAME" \notin P
              /\ kind \in {"END", "SYNC"} => P \cap {"PLAYER", "TILE", "MESSAGE"} = {}
<1>. DEFINE P == Pending(c, k)
            R == {r \in DOMAIN WriteOrder : WriteOrder[r] \in P}
            a == Min(R)
<1>1. DOMAIN WriteOrder = 1 .. 12
  BY DEF WriteOrder
<1>2. /\ WriteOrder[1] = "PLAYER_ID" /\ WriteOrder[2] = "CONVERSATION_ID"
      /\ WriteOrder[3] = "N_TILES" /\ WriteOrder[4] = "LANGUAGE"
      /\ WriteOrder[5] = "PLAYER_NAME" /\ WriteOrder[6] = "PLAYER"
      /\ WriteOrder[7] = "PLAYER_SHOUTED" /\ WriteOrder[8] = "TILE"
      /\ WriteOrder[9] = "MESSAGE" /\ WriteOrder[10] = "END"
      /\ WriteOrder[11] = "SYNC" /\ WriteOrder[12] = "ERROR"
  BY DEF WriteOrder
<1>3. \A kind \in P :
        kind \in {"PLAYER_ID", "PLAYER_NAME", "PLAYER_SHOUTED", "CONVERSATION_ID", "SYNC",
                  "END", "ERROR", "N_TILES", "LANGUAGE", "PLAYER", "TILE", "MESSAGE"}
  BY DEF Pending, Link, DirtyFlag
<1>4. FirstPending(c, k) = WriteOrder[a] /\ P # {}
  BY DEF FirstPending
<1>. HIDE DEF P
<1>5. \A kind \in P : \E r \in 1 .. 12 : WriteOrder[r] = kind
  BY <1>2, <1>3
<1>6. R \in SUBSET Nat /\ R # {}
  BY <1>1, <1>4, <1>5
<1>7. a \in R /\ \A n \in R : a <= n
  <2>. HIDE DEF R
  <2>. QED
    BY <1>6, MinIsLeast
<1>. HIDE DEF a
<1>8. a \in 1 .. 12 /\ WriteOrder[a] \in P /\ \A r \in 1 .. 12 : WriteOrder[r] \in P => a <= r
  BY <1>1, <1>7
<1>9. /\ "PLAYER_ID" \in P => a <= 1
      /\ "N_TILES" \in P => a <= 3
      /\ "LANGUAGE" \in P => a <= 4
      /\ "PLAYER_NAME" \in P => a <= 5
      /\ "PLAYER" \in P => a <= 6
      /\ "TILE" \in P => a <= 8
      /\ "MESSAGE" \in P => a <= 9
  BY <1>2, <1>8
<1>10. \/ a = 1 \/ a = 2 \/ a = 3 \/ a = 4 \/ a = 5 \/ a = 6
       \/ a = 7 \/ a = 8 \/ a = 9 \/ a = 10 \/ a = 11 \/ a = 12
  BY <1>8
<1>. QED
  BY <1>2, <1>4, <1>8, <1>9, <1>10 DEF P

\* What a writer leaves alone, and whom or what it tells of.
LEMMA WriterTouchesLittle ==
    ASSUME GameInv, NEW c, NEW k, LinkOK(c, k), NEW kind \in Pending(c, k)
    PROVE  LET r == Write(c, k, kind)
               m == r.command
               j == r.conn
           IN /\ j.pendingShout = k.pendingShout /\ j.dirtyFlags \subseteq k.dirtyFlags
              /\ kind \in {"SYNC", "END"} =>
                   /\ j.dirtyPlayers = k.dirtyPlayers /\ j.dirtyTiles = k.dirtyTiles
                   /\ j.namedPlayers = k.namedPlayers
              /\ kind = "PLAYER" => m.num \in k.dirtyPlayers
              /\ kind = "PLAYER_SHOUTED" =>
                   m.num = k.pendingShout /\ "PLAYER_SHOUTED" \in k.dirtyFlags
              /\ kind = "TILE" => m.num \in k.dirtyTiles /\ m.value = tiles[m.num + 1]
<1>. DEFINE r == Write(c, k, kind)
            m == r.command
            j == r.conn
<1>1. k \in Link /\ \A command, q : /\ Wrote(command, q).command = command
                                    /\ Wrote(command, q).conn = q
  BY DEF LinkOK, Wrote
<1>2. k.dirtyPlayers \in SUBSET Nat /\ k.dirtyTiles \in SUBSET Nat
  BY <1>1, GameTyped DEF Link, Seat
<1>3. /\ kind = "PLAYER" => k.dirtyPlayers # {}
      /\ kind = "TILE" => k.dirtyTiles # {}
      /\ kind = "PLAYER_SHOUTED" => "PLAYER_SHOUTED" \in k.dirtyFlags
  BY <1>1 DEF Pending, Link, DirtyFlag
<1>4. \A flag : /\ Clean(k, flag).pendingShout = k.pendingShout
                /\ Clean(k, flag).dirtyFlags \subseteq k.dirtyFlags
                /\ Clean(k, flag).dirtyPlayers = k.dirtyPlayers
                /\ Clean(k, flag).dirtyTiles = k.dirtyTiles
                /\ Clean(k, flag).namedPlayers = k.namedPlayers
  BY <1>1 DEF Clean, Link
<1>5. CASE kind \in {"PLAYER_ID", "CONVERSATION_ID", "N_TILES", "LANGUAGE", "SYNC"}
  <2>1. j = Clean(k, kind)
    BY <1>1, <1>5 DEF Write, WritePlayerId, WriteConversationId, WriteNTiles, WriteLanguage,
                      WriteSync
  <2>. QED
    BY <1>4, <1>5, <2>1
<1>6. CASE kind = "PLAYER_SHOUTED"
  <2>1. j = Clean(k, kind) /\ m = [kind |-> "PLAYER_SHOUTED", num |-> k.pendingShout]
    BY <1>1, <1>6 DEF Write, WritePendingShout
  <2>. QED
    BY <1>3, <1>4, <1>6, <2>1
<1>7. CASE kind = "PLAYER_NAME"
  <2>1. j = [k EXCEPT !.namedPlayers = @ + 1]
    BY <1>1, <1>7 DEF Write, WritePlayerName
  <2>. QED
    BY <1>1, <1>7, <2>1 DEF Link
<1>8. CASE kind = "PLAYER"
  <2>. DEFINE p == Min(k.dirtyPlayers)
  <2>1. /\ j = [k EXCEPT !.dirtyPlayers = @ \ {p}]
        /\ m = [kind |-> "PLAYER", num |-> p, value |-> flags[p]]
    BY <1>1, <1>8 DEF Write, WritePlayer
  <2>2. p \in k.dirtyPlayers
    BY <1>2, <1>3, <1>8, MinIsLeast
  <2>. QED
    BY <1>1, <1>8, <2>1, <2>2 DEF Link
<1>9. CASE kind = "TILE"
  <2>. DEFINE i == Min(k.dirtyTiles)
  <2>1. /\ j = [k EXCEPT !.dirtyTiles = @ \ {i}]
        /\ m = [kind |-> "TILE", num |-> i, value |-> tiles[i + 1]]
    BY <1>1, <1>9 DEF Write, WriteTile
  <2>2. i \in k.dirtyTiles
    BY <1>2, <1>3, <1>9, MinIsLeast
  <2>. QED
    BY <1>1, <1>9, <2>1, <2>2 DEF Link
<1>10. CASE kind = "MESSAGE"
  <2>1. j = [k EXCEPT !.messageNum = @ + 1]
    BY <1>1, <1>10 DEF Write, WriteMessage
  <2>. QED
    BY <1>1, <1>10, <2>1 DEF Link
<1>11. CASE kind = "END"
  <2>1. j = [k EXCEPT !.state = "DONE"]
    BY <1>1, <1>11 DEF Write, WriteEnd
  <2>. QED
    BY <1>1, <1>11, <2>1 DEF Link
<1>12. CASE kind = "ERROR"
  <2>. DEFINE q == Clean(k, "ERROR")
  <2>1. j = [q EXCEPT !.state = "DONE"]
    BY <1>1, <1>12 DEF Write, WriteError
  <2>2. j.pendingShout = q.pendingShout /\ j.dirtyFlags = q.dirtyFlags
    <3>1. q \in Link
      <4>1. q = [k EXCEPT !.dirtyFlags = k.dirtyFlags \ {"ERROR"}]
        BY <1>1 DEF Clean, Link
      <4>2. k.dirtyFlags \ {"ERROR"} \in SUBSET DirtyFlag
        BY <1>1 DEF Link
      <4>. QED
        BY <1>1, <4>1, <4>2 DEF Link
    <3>. HIDE DEF q
    <3>. QED
      BY <2>1, <3>1 DEF Link
  <2>. QED
    BY <1>4, <1>12, <2>2
<1>. QED
  <2>1. kind \in {"PLAYER_ID", "PLAYER_NAME", "PLAYER_SHOUTED", "CONVERSATION_ID", "SYNC",
                  "END", "ERROR", "N_TILES", "LANGUAGE", "PLAYER", "TILE", "MESSAGE"}
    BY <1>1 DEF Pending, Link, DirtyFlag
  <2>. QED
    BY <1>5, <1>6, <1>7, <1>8, <1>9, <1>10, <1>11, <1>12, <2>1

\* There is nothing to tell about the game.
Complete(k) ==
    /\ k.dirtyPlayers = {} /\ k.dirtyTiles = {}
    /\ k.dirtyFlags \cap {"N_TILES", "LANGUAGE"} = {}
    /\ k.namedPlayers >= nPlayers /\ k.messageNum >= Len(messages)

LEMMA FlagsOfTheSeated ==
    ASSUME NEW w \in View, NEW m \in Command, CanFollow(w, m), FlagsAreSeated(w)
    PROVE  FlagsAreSeated(Told(w, m))
<1>1. m.kind = "PLAYER" => m.num \in Seat /\ m.num \in InSeats
  BY CommandKinds DEF CanFollow
<1>2. Told(w, m).flags = IF m.kind = "PLAYER" THEN [w.flags EXCEPT ![m.num] = m.value]
                         ELSE w.flags
  BY ToldTyped
<1>3. w.flags \in [Seat -> SUBSET Flag]
  BY DEF View
<1>. QED
  BY <1>1, <1>2, <1>3 DEF FlagsAreSeated

\* A client that has been told all but what is noted can follow what is written
\* next, and SYNC and END are only written when all the rest has been told.
LEMMA WrittenCanBeFollowed ==
    ASSUME GameInv, PlayersAreSeated, NEW c, NEW k, LinkOK(c, k), k.state = "OPEN",
           ShoutIsSeated(k), NEW w, KnowsOrNoted(c, k, w), Pending(c, k) # {},
           NEW kind, kind = FirstPending(c, k), NEW r, r = Write(c, k, kind)
    PROVE  /\ CanFollow(w, r.command) /\ ShoutIsSeated(r.conn)
           /\ r.conn.follows /\ kind \in {"SYNC", "END"} => Complete(r.conn)
<1>. DEFINE P == Pending(c, k)
            m == r.command
            j == r.conn
<1>1. /\ k \in Link /\ w \in View
      /\ k.follows => person[c].seat \in InSeats
      /\ k.dirtyPlayers \subseteq InSeats /\ k.dirtyTiles \subseteq 0 .. Len(tiles) - 1
      /\ k.namedPlayers \in 0 .. nPlayers /\ k.messageNum \in 0 .. Len(messages)
  BY DEF LinkOK, KnowsOrNoted
<1>2. /\ kind \in P
      /\ kind # "PLAYER_ID" => "PLAYER_ID" \notin P
      /\ kind \notin {"PLAYER_ID", "CONVERSATION_ID", "N_TILES"} => "N_TILES" \notin P
      /\ kind \in {"TILE", "END", "SYNC"} => "LANGUAGE" \notin P
      /\ kind \in {"PLAYER", "PLAYER_SHOUTED", "TILE", "MESSAGE", "END", "SYNC"}
           => "PLAYER_NAME" \notin P
      /\ kind \in {"END", "SYNC"} => P \cap {"PLAYER", "TILE", "MESSAGE"} = {}
  BY <1>1, FirstIsFirst
<1>3. WroteWell(c, k, w, kind, r)
  BY <1>2, WriteWritesWell
<1>4. /\ m \in Command /\ m.kind = kind /\ j.follows = k.follows
      /\ kind # "MESSAGE" => j.messageNum = k.messageNum
      /\ kind = "MESSAGE" => k.messageNum < Len(messages) /\ m.num = k.messageNum + 1
      /\ ~k.follows => kind = "ERROR"
  BY <1>3 DEF WroteWell
<1>5. /\ j.pendingShout = k.pendingShout /\ j.dirtyFlags \subseteq k.dirtyFlags
      /\ kind \in {"SYNC", "END"} =>
           /\ j.dirtyPlayers = k.dirtyPlayers /\ j.dirtyTiles = k.dirtyTiles
           /\ j.namedPlayers = k.namedPlayers
      /\ kind = "PLAYER" => m.num \in k.dirtyPlayers
      /\ kind = "PLAYER_SHOUTED" =>
           m.num = k.pendingShout /\ "PLAYER_SHOUTED" \in k.dirtyFlags
      /\ kind = "TILE" => m.num \in k.dirtyTiles /\ m.value = tiles[m.num + 1]
  BY <1>2, WriterTouchesLittle
<1>6. /\ k.dirtyFlags \subseteq P
      /\ k.follows /\ k.namedPlayers < nPlayers => "PLAYER_NAME" \in P
      /\ k.dirtyPlayers # {} => "PLAYER" \in P
      /\ k.dirtyTiles # {} => "TILE" \in P
      /\ k.follows /\ k.messageNum < Len(messages) => "MESSAGE" \in P
  BY DEF Pending
<1>7. nPlayers \in Nat /\ InSeats = 0 .. nPlayers - 1 /\ Len(messages) \in Nat
  BY GameTyped DEF InSeats
<1>. HIDE DEF P
<1>8. kind \notin {"PLAYER_ID", "ERROR"} => w.self # Nobody
  <2>1. \A p \in InSeats : p # Nobody
    BY <1>7 DEF Nobody
  <2>. QED
    BY <1>1, <1>2, <1>4, <1>6, <2>1 DEF KnowsOrNoted
<1>9. kind \in {"PLAYER", "PLAYER_SHOUTED", "TILE", "MESSAGE", "END", "SYNC"} =>
        /\ k.follows => k.namedPlayers >= nPlayers /\ InSeats \subseteq w.names
        /\ kind # "ERROR"
  <2>. SUFFICES ASSUME kind \in {"PLAYER", "PLAYER_SHOUTED", "TILE", "MESSAGE", "END", "SYNC"},
                       k.follows
                PROVE  k.namedPlayers >= nPlayers /\ InSeats \subseteq w.names
    OBVIOUS
  <2>1. ~(k.namedPlayers < nPlayers) /\ k.namedPlayers \in Nat
    BY <1>1, <1>2, <1>6, <1>7
  <2>2. \A p \in InSeats : ~(p >= k.namedPlayers)
    BY <1>7, <2>1
  <2>. QED
    BY <1>7, <2>1, <2>2 DEF KnowsOrNoted
<1>10. kind \in {"PLAYER", "PLAYER_SHOUTED"} => m.num \in w.names /\ m.num \in InSeats
  BY <1>1, <1>4, <1>5, <1>9 DEF ShoutIsSeated
<1>11. kind = "MESSAGE" => m.num \in 1 .. Len(messages) /\ messages[m.num].player \in w.names
  <2>. SUFFICES ASSUME kind = "MESSAGE"
                PROVE  m.num \in 1 .. Len(messages) /\ messages[m.num].player \in w.names
    OBVIOUS
  <2>1. m.num \in 1 .. Len(messages)
    BY <1>1, <1>4, <1>7
  <2>2. messages[m.num].player \in InSeats
    BY <2>1 DEF PlayersAreSeated
  <2>. QED
    BY <1>4, <1>9, <2>1, <2>2
<1>12. kind = "TILE" =>
         /\ m.num < Len(tiles) /\ m.num < w.nTiles /\ w.language = bag
         /\ m.value.lastPlayer \in w.names \cup {Nobody}
  <2>. SUFFICES ASSUME kind = "TILE"
                PROVE  /\ m.num < Len(tiles) /\ m.num < w.nTiles /\ w.language = bag
                       /\ m.value.lastPlayer \in w.names \cup {Nobody}
    OBVIOUS
  <2>. DEFINE i == m.num
              n == Len(tiles)
  <2>1. i \in 0 .. n - 1 /\ n \in Nat /\ m.value = tiles[i + 1]
    BY <1>1, <1>5, GameTyped
  <2>2. w.nTiles = totalNTiles /\ w.language = language /\ k.follows
    BY <1>2, <1>4, <1>6 DEF KnowsOrNoted
  <2>3. n # 0 => bag = language /\ n <= totalNTiles
    BY DEF GameInv, BagMatchesSettings, IsFirstTurn
  <2>4. totalNTiles \in Nat
    BY GameTyped
  <2>. HIDE DEF i, n
  <2>5. i < n /\ i < totalNTiles /\ n # 0 /\ i + 1 \in 1 .. n
    BY <2>1, <2>3, <2>4
  <2>6. tiles[i + 1].lastPlayer \in InSeats \cup {Nobody}
    BY <2>5 DEF PlayersAreSeated, n
  <2>. QED
    BY <1>9, <2>1, <2>2, <2>3, <2>5, <2>6 DEF i, n
<1>13. CanFollow(w, m)
  BY <1>4, <1>8, <1>10, <1>11, <1>12 DEF CanFollow
<1>14. ShoutIsSeated(j)
  BY <1>4, <1>5 DEF ShoutIsSeated
<1>15. ASSUME j.follows, kind \in {"SYNC", "END"} PROVE Complete(j)
  <2>1. k.dirtyPlayers = {} /\ k.dirtyTiles = {} /\ ~(k.messageNum < Len(messages))
    BY <1>2, <1>4, <1>6, <1>15
  <2>2. k.dirtyFlags \cap {"N_TILES", "LANGUAGE"} = {}
    BY <1>2, <1>6, <1>15
  <2>3. k.namedPlayers >= nPlayers /\ k.messageNum >= Len(messages)
    BY <1>1, <1>4, <1>7, <1>9, <1>15, <2>1
  <2>. QED
    BY <1>4, <1>5, <1>15, <2>1, <2>2, <2>3 DEF Complete
<1>. QED
  BY <1>4, <1>13, <1>14, <1>15
-----------------------------------------------------------------------------
(* HandleWrite.                                                            *)

\* What SYNC or END closes, when it is the last of more than n commands in the
\* output buffer, is complete.
LastIsLast(n, f) ==
    Len(f.out) > n /\ Last(f.out).kind \in {"SYNC", "END"} /\ f.conn.follows => Complete(f.conn)

LEMMA WriteOneFollows ==
    ASSUME GameInv, PlayersAreSeated, NEW c, PersonOK(c), wire[c] \in Seq(Command),
           view[c] \in View, NEW f, Filled(c, f.conn, f.out), f.conn.state \in {"OPEN", "DONE"},
           Follows(c, f.conn, f.out), NEW n, LastIsLast(n, f), NEW g, g = WriteOne(c, f)
    PROVE  Follows(c, g.conn, g.out) /\ LastIsLast(n, g)
<1>1. CASE NothingToWrite(c, f.conn)
  BY <1>1 DEF WriteOne
<1>2. CASE ~NothingToWrite(c, f.conn)
  <2>. DEFINE k == f.conn
              kind == FirstPending(c, k)
              r == Write(c, k, kind)
              s == wire[c] \o f.out
              w == ViewAfter(view[c], s)
              m == r.command
              j == r.conn
  <2>1. k.state = "OPEN" /\ Pending(c, k) # {}
    BY <1>2 DEF NothingToWrite
  <2>2. LinkOK(c, k) /\ k \in Link /\ KnowsOrNoted(c, k, w) /\ w \in View /\ f.out \in Seq(Command)
    BY DEF Filled, LinkOK, KnowsOrNoted
  <2>3. ShoutIsSeated(k) /\ InGoodOrder(view[c], s) /\ FlagsAreSeated(w)
    BY DEF Follows
  <2>4. g = [conn |-> j, out |-> Append(f.out, m)]
    BY <1>2 DEF WriteOne
  <2>5. g.conn = j /\ g.out = Append(f.out, m)
    BY <2>4
  <2>6. WroteWell(c, k, w, kind, r)
    <3>1. kind \in Pending(c, k)
      <4>. HIDE DEF k
      <4>. QED
        BY <2>1, <2>2, FirstIsPending
    <3>. HIDE DEF k, kind, w
    <3>. QED
      BY <2>1, <2>2, <3>1, WriteWritesWell
  <2>7. /\ CanFollow(w, m) /\ ShoutIsSeated(j)
        /\ j.follows /\ kind \in {"SYNC", "END"} => Complete(j)
    <3>1. kind = FirstPending(c, k) /\ r = Write(c, k, kind)
      OBVIOUS
    <3>. HIDE DEF k, kind, w, r
    <3>. QED
      BY <2>1, <2>2, <2>3, <3>1, WrittenCanBeFollowed
  <2>. HIDE DEF k, kind, r, w
  <2>8. m \in Command /\ m.kind = kind
    BY <2>6 DEF WroteWell
  <2>. HIDE DEF m, j
  <2>9. /\ s \in Seq(Command) /\ wire[c] \o g.out = Append(s, m)
    <3>1. s \in Seq(Command)
      BY <2>2, ConcatProperties
    <3>2. wire[c] \o Append(f.out, m) = Append(wire[c] \o f.out, m)
      <4>. DEFINE a == wire[c]
                  o == f.out
      <4>1. m \in Command /\ a \in Seq(Command) /\ o \in Seq(Command)
        BY <2>2, <2>8
      <4>. HIDE DEF a, o
      <4>2. a \o Append(o, m) = Append(a \o o, m)
        BY <4>1, ConcatAppend
      <4>. QED
        BY <4>2 DEF a, o
    <3>. QED
      BY <2>5, <3>1, <3>2
  <2>10. Len(g.out) = Len(f.out) + 1 /\ Len(f.out) \in Nat /\ g.out[Len(f.out) + 1] = m
    BY <2>2, <2>5, <2>8, AppendProperties, LenProperties
  <2>. HIDE DEF s
  <2>11. ViewAfter(view[c], Append(s, m)) = Told(w, m)
    BY <2>8, <2>9, ViewAfterOneMore DEF w
  <2>12. InGoodOrder(view[c], Append(s, m))
    BY <2>3, <2>7, <2>8, <2>9, GoodOrderGrows DEF w
  <2>13. FlagsAreSeated(Told(w, m))
    BY <2>2, <2>3, <2>7, <2>8, FlagsOfTheSeated
  <2>14. Last(g.out) = m
    BY <2>10 DEF Last
  <2>. QED
    BY <2>5, <2>7, <2>8, <2>9, <2>11, <2>12, <2>13, <2>14 DEF Follows, LastIsLast
<1>. QED
  BY <1>1, <1>2

LEMMA FillingsFollow ==
    ASSUME GameInv, PlayersAreSeated, NEW c, PersonOK(c), wire[c] \in Seq(Command),
           view[c] \in View, Filled(c, conn[c], out[c]), conn[c].state \in {"OPEN", "DONE"},
           Follows(c, conn[c], out[c]), NEW n \in Nat, NEW f \in Fillings(c, n)
    PROVE  Follows(c, f.conn, f.out) /\ LastIsLast(Len(out[c]), f)
<1>. DEFINE A == Rounds(c, n)
            b == Len(out[c])
            Good(g) == /\ Filled(c, g.conn, g.out) /\ g.conn.state \in {"OPEN", "DONE"}
                       /\ Follows(c, g.conn, g.out) /\ LastIsLast(b, g)
            S == {i \in Nat : i <= n => \A g \in A[i] : Good(g)}
<1>1. /\ A = [i \in 0 .. n |-> IF i = 0 THEN {[conn |-> conn[c], out |-> out[c]]}
                               ELSE A[i - 1] \cup {WriteOne(c, g) : g \in A[i - 1]}]
      /\ Fillings(c, n) = A[n]
  BY RoundsExist
<1>2. b \in Nat
  BY LenProperties DEF Filled
<1>. HIDE DEF A
<1>3. 0 \in S
  <2>1. A[0] = {[conn |-> conn[c], out |-> out[c]]}
    BY <1>1
  <2>2. ASSUME NEW g \in A[0] PROVE Good(g)
    <3>1. g.conn = conn[c] /\ g.out = out[c]
      BY <2>1
    <3>2. ~(Len(g.out) > b)
      BY <1>2, <3>1
    <3>. QED
      BY <3>1, <3>2 DEF LastIsLast
  <2>. QED
    BY <2>2
<1>. HIDE DEF b
<1>4. ASSUME NEW i \in S PROVE i + 1 \in S
  <2>. SUFFICES ASSUME i + 1 <= n, NEW g \in A[i + 1] PROVE Good(g)
    OBVIOUS
  <2>1. A[i + 1] = A[i] \cup {WriteOne(c, h) : h \in A[i]}
    <3>. DEFINE q == i + 1
    <3>1. q \in 0 .. n /\ q # 0 /\ q - 1 = i
      OBVIOUS
    <3>. HIDE DEF q
    <3>2. A[q] = A[q - 1] \cup {WriteOne(c, h) : h \in A[q - 1]}
      BY <1>1, <3>1
    <3>. QED
      BY <3>1, <3>2 DEF q
  <2>2. \A h \in A[i] : Good(h)
    OBVIOUS
  <2>3. CASE g \in A[i]
    BY <2>2, <2>3
  <2>4. CASE \E h \in A[i] : g = WriteOne(c, h)
    <3>1. PICK h \in A[i] : g = WriteOne(c, h)
      BY <2>4
    <3>2. Good(h)
      BY <2>2
    <3>3. Filled(c, g.conn, g.out) /\ g.conn.state \in {"OPEN", "DONE"}
      BY <3>1, <3>2, WriteOneKeeps
    <3>4. Follows(c, g.conn, g.out) /\ LastIsLast(b, g)
      BY <3>1, <3>2, WriteOneFollows
    <3>. QED
      BY <3>3, <3>4
  <2>. QED
    BY <2>1, <2>3, <2>4
<1>5. S = Nat
  <2>. HIDE DEF S
  <2>1. S \in SUBSET Nat
    BY DEF S
  <2>. QED
    BY <1>3, <1>4, <2>1, SetInduction
<1>6. Good(f)
  <2>. HIDE DEF Good
  <2>1. n \in S
    <3>. HIDE DEF S
    <3>. QED
      BY <1>5
  <2>2. f \in A[n]
    BY <1>1
  <2>. QED
    BY <2>1, <2>2
<1>. QED
  BY <1>6 DEF b

\* A write appends to the stream of its client, in an order that can be followed.
Extends(c, f) ==
    /\ f.out \in Seq(Command) /\ Filled(c, f.conn, f.out) /\ Follows(c, f.conn, f.out)
    /\ LastIsLast(Len(out[c]), f)
    /\ conn'[c] = f.conn /\ wire'[c] \o out'[c] = wire[c] \o f.out

LEMMA WriteExtends ==
    ASSUME OrderInvariant, NEW c \in Client, HandleWrite(c)
    PROVE  /\ \E f : Extends(c, f)
           /\ \A d \in Client \ {c} :
                conn'[d] = conn[d] /\ out'[d] = out[d] /\ wire'[d] = wire[d]
<1>1. LinkInvariant /\ PlayersAreSeated /\ Follows(c, conn[c], out[c])
  BY DEF OrderInvariant
<1>2. GameInv /\ Linked(c)
  BY <1>1 DEF LinkInvariant
<1>3. PICK f \in Fillings(c, OutCap - Len(out[c])) :
        /\ conn' = [conn EXCEPT ![c] = f.conn]
        /\ \E m \in 0 .. Min({Len(f.out), WireCap - Len(wire[c])}) :
             /\ wire' = [wire EXCEPT ![c] = @ \o SubSeq(f.out, 1, m)]
             /\ out' = [out EXCEPT ![c] = SubSeq(f.out, m + 1, Len(f.out))]
  BY DEF HandleWrite
<1>4. PICK m \in 0 .. Min({Len(f.out), WireCap - Len(wire[c])}) :
        /\ wire' = [wire EXCEPT ![c] = @ \o SubSeq(f.out, 1, m)]
        /\ out' = [out EXCEPT ![c] = SubSeq(f.out, m + 1, Len(f.out))]
  BY <1>3
<1>5. /\ wire[c] \in Seq(Command) /\ Len(wire[c]) \in Nat /\ Len(wire[c]) <= WireCap
      /\ Len(out[c]) \in Nat /\ Len(out[c]) <= OutCap /\ OutCap \in Nat /\ WireCap \in Nat
      /\ PersonOK(c) /\ view[c] \in View
  BY <1>2, LenProperties, ConnectionAssumption DEF Linked, Filled
<1>6. /\ Filled(c, f.conn, f.out) /\ Len(f.out) \in Nat
      /\ Follows(c, f.conn, f.out) /\ LastIsLast(Len(out[c]), f)
  <2>1. Filled(c, conn[c], out[c]) /\ conn[c].state \in {"OPEN", "DONE"}
    BY <1>2 DEF Linked, HandleWrite, CanWrite
  <2>. DEFINE n == OutCap - Len(out[c])
  <2>2. n \in Nat /\ f \in Fillings(c, n)
    BY <1>5
  <2>. HIDE DEF n
  <2>3. Filled(c, f.conn, f.out) /\ Len(f.out) \in Nat
    BY <1>2, <1>5, <2>1, <2>2, FillingsKeep
  <2>4. Follows(c, f.conn, f.out) /\ LastIsLast(Len(out[c]), f)
    BY <1>1, <1>2, <1>5, <2>1, <2>2, FillingsFollow
  <2>. QED
    BY <2>3, <2>4
<1>7. m \in 0 .. Len(f.out)
  <2>. DEFINE room == WireCap - Len(wire[c])
              size == Len(f.out)
  <2>1. room \in Nat /\ size \in Nat /\ m \in 0 .. Min({size, room})
    BY <1>5, <1>6
  <2>. HIDE DEF room, size
  <2>2. Min({size, room}) \in {size, room} /\ \A n \in {size, room} : Min({size, room}) <= n
    BY <2>1, MinIsLeast
  <2>3. m \in 0 .. size
    BY <2>1, <2>2
  <2>. QED
    BY <2>3 DEF size
<1>8. /\ conn'[c] = f.conn /\ wire'[c] = wire[c] \o SubSeq(f.out, 1, m)
      /\ out'[c] = SubSeq(f.out, m + 1, Len(f.out))
      /\ \A d \in Client \ {c} : conn'[d] = conn[d] /\ out'[d] = out[d] /\ wire'[d] = wire[d]
  BY <1>1, <1>3, <1>4 DEF LinkInvariant
<1>9. f.out \in Seq(Command)
  BY <1>6 DEF Filled
<1>10. wire'[c] \o out'[c] = wire[c] \o f.out
  <2>1. \A x, y \in Seq(Command) : \A n \in 0 .. Len(y) :
          /\ x \o SubSeq(y, 1, n) \in Seq(Command) /\ Len(x \o SubSeq(y, 1, n)) = Len(x) + n
          /\ SubSeq(y, n + 1, Len(y)) \in Seq(Command)
          /\ Len(SubSeq(y, n + 1, Len(y))) = Len(y) - n
          /\ (x \o SubSeq(y, 1, n)) \o SubSeq(y, n + 1, Len(y)) = x \o y
    BY SameStream
  <2>2. \A x, y \in Seq(Command) : \A n \in 0 .. Len(y) :
          (x \o SubSeq(y, 1, n)) \o SubSeq(y, n + 1, Len(y)) = x \o y
    BY <2>1
  <2>. QED
    BY <1>5, <1>7, <1>8, <1>9, <2>2
<1>. QED
  BY <1>6, <1>8, <1>9, <1>10 DEF Extends
-----------------------------------------------------------------------------
(* Every step.                                                             *)

Follower(c) == FlagsAreSeated(view[c]) /\ Follows(c, conn[c], out[c])

\* Nothing happens to the game nor to the link.
LEMMA FollowerStays ==
    ASSUME NEW c, Follower(c), UNCHANGED game,
           UNCHANGED <<conn[c], out[c], wire[c], view[c]>>
    PROVE  Follower(c)'
BY DEF Follower, Follows, FlagsAreSeated, InGoodOrder, CanFollow, ShoutIsSeated, InSeats, game

\* An operation on the game, which the connection notes.
LEMMA FollowerGoesOn ==
    ASSUME GameInv, Continues, NEW c, Linked(c), Follower(c), conn'[c] = Notified(conn[c]),
           UNCHANGED <<out[c], wire[c], view[c]>>
    PROVE  Follower(c)'
<1>. DEFINE v == view[c]
            s == wire[c] \o out[c]
            w == ViewAfter(v, s)
            k == conn[c]
<1>1. s \in Seq(Command) /\ k \in Link
  BY ConcatProperties DEF Linked, Filled, LinkOK
<1>2. /\ InGoodOrder(v, s) /\ FlagsAreSeated(v) /\ FlagsAreSeated(w) /\ ShoutIsSeated(k)
  BY DEF Follower, Follows
<1>3. v' = v /\ s' = s
  OBVIOUS
<1>. HIDE DEF v, s
<1>4. InGoodOrder(v, s)'
  <2>1. PICK a, b : a = v /\ b = s
    OBVIOUS
  <2>2. b \in Seq(Command) /\ InGoodOrder(a, b)
    BY <1>1, <1>2, <2>1
  <2>3. InGoodOrder(a, b)'
    BY <2>2, GoodOrderStays
  <2>. QED
    BY <1>3, <2>1, <2>3 DEF InGoodOrder
<1>5. FlagsAreSeated(v)' /\ FlagsAreSeated(w)'
  BY <1>2, <1>3 DEF FlagsAreSeated, Continues
<1>6. ShoutIsSeated(conn[c])'
  <2>. DEFINE shouts == {e.num : e \in {d \in changed' : d.type = "SHOUTED"}}
              j == Notified(k)
  <2>1. j.follows = k.follows
    BY <1>1 DEF Notified, Link
  <2>2. CASE ~k.follows
    BY <2>1, <2>2 DEF ShoutIsSeated, k
  <2>3. CASE k.follows
    <3>1. shouts # {} => (CHOOSE p \in shouts : TRUE) \in shouts
      OBVIOUS
    <3>2. \A p \in shouts : p \in InSeats'
      BY DEF Continues
    <3>3. j.pendingShout = IF shouts # {} THEN CHOOSE p \in shouts : TRUE ELSE k.pendingShout
      BY <1>1, <2>3 DEF Notified, Link
    <3>4. "PLAYER_SHOUTED" \in j.dirtyFlags =>
            "PLAYER_SHOUTED" \in k.dirtyFlags \/ shouts # {}
      BY <1>1, <2>3 DEF Notified, Link
    <3>. HIDE DEF shouts, j
    <3>5. "PLAYER_SHOUTED" \in j.dirtyFlags => j.pendingShout \in InSeats'
      <4>1. CASE shouts # {}
        BY <3>1, <3>2, <3>3, <4>1
      <4>2. CASE shouts = {}
        BY <1>2, <2>3, <3>3, <3>4, <4>2 DEF ShoutIsSeated, Continues
      <4>. QED
        BY <4>1, <4>2
    <3>. QED
      BY <3>5 DEF ShoutIsSeated, j, k
  <2>. QED
    BY <2>2, <2>3
<1>. QED
  BY <1>3, <1>4, <1>5, <1>6 DEF Follower, Follows, v, s

\* Nothing is on its way, on a connection that has no shout to tell.
LEMMA FollowerStartsAgain ==
    ASSUME NEW c, out'[c] = <<>>, wire'[c] = <<>>, FlagsAreSeated(view[c])',
           ~conn'[c].follows \/ "PLAYER_SHOUTED" \notin conn'[c].dirtyFlags
    PROVE  Follower(c)'
<1>. DEFINE v == view'[c]
            s == wire'[c] \o out'[c]
<1>1. s = <<>> /\ Len(s) = 0
  OBVIOUS
<1>2. ViewAfter(v, s) = v
  BY <1>1, ViewAfterNothing
<1>. HIDE DEF s, v
<1>3. InGoodOrder(view[c], wire[c] \o out[c])'
  BY <1>1 DEF InGoodOrder, s
<1>. QED
  BY <1>2, <1>3 DEF Follower, Follows, ShoutIsSeated, FlagsAreSeated, s, v

LEMMA ReceiveFollows ==
    ASSUME OrderInvariant, NEW c \in Client, Receive(c)
    PROVE  CanFollow(view[c], Head(wire[c])) /\ Follower(c)'
<1>. DEFINE a == wire[c]
            o == out[c]
            v == view[c]
            m == Head(a)
<1>1. /\ a \in Seq(Command) /\ a # <<>> /\ o \in Seq(Command) /\ v \in View
      /\ InGoodOrder(v, a \o o) /\ FlagsAreSeated(v) /\ FlagsAreSeated(ViewAfter(v, a \o o))
      /\ ShoutIsSeated(conn[c])
  BY DEF OrderInvariant, LinkInvariant, Linked, Filled, Follows, Receive
<1>2. /\ view'[c] = Told(v, m) /\ wire'[c] = Tail(a) /\ out'[c] = o /\ conn'[c] = conn[c]
      /\ UNCHANGED game
  BY DEF Receive, NoOperation, OrderInvariant, LinkInvariant
<1>. HIDE DEF a, o, v
<1>3. /\ a \o o \in Seq(Command) /\ a \o o # <<>> /\ Head(a \o o) = m
      /\ Tail(a \o o) = Tail(a) \o o /\ m \in Command
  <2>. DEFINE n == Len(a)
              q == a \o o
              t == Tail(a)
              u == Tail(q)
  <2>1. /\ n \in Nat \ {0} /\ Len(o) \in Nat /\ m = a[1] /\ m \in Command
        /\ t \in Seq(Command) /\ Len(t) = n - 1 /\ \A i \in 1 .. n - 1 : t[i] = a[i + 1]
    BY <1>1, EmptySeq, LenProperties, HeadTailProperties, ElementOfSeq
  <2>2. /\ q \in Seq(Command) /\ Len(q) = n + Len(o)
        /\ \A i \in 1 .. n + Len(o) : q[i] = IF i <= n THEN a[i] ELSE o[i - n]
    BY <1>1, ConcatProperties
  <2>. HIDE DEF q
  <2>3. q # <<>> /\ Head(q) = q[1] /\ q[1] = m
    <3>1. 1 \in 1 .. n + Len(o) /\ 1 <= n
      BY <2>1
    <3>2. q # <<>>
      BY <2>1, <2>2, EmptySeq
    <3>. QED
      BY <2>1, <2>2, <3>1, <3>2, HeadTailProperties
  <2>4. /\ u \in Seq(Command) /\ Len(u) = n + Len(o) - 1
        /\ \A i \in 1 .. n + Len(o) - 1 : u[i] = q[i + 1]
    BY <2>2, <2>3, HeadTailProperties
  <2>. DEFINE x == t \o o
  <2>5. /\ x \in Seq(Command) /\ Len(x) = (n - 1) + Len(o)
        /\ \A i \in 1 .. (n - 1) + Len(o) : x[i] = IF i <= n - 1 THEN t[i] ELSE o[i - (n - 1)]
    <3>1. t \in Seq(Command) /\ Len(t) = n - 1 /\ o \in Seq(Command)
      BY <1>1, <2>1
    <3>. HIDE DEF t, n
    <3>2. /\ t \o o \in Seq(Command) /\ Len(t \o o) = Len(t) + Len(o)
          /\ \A i \in 1 .. Len(t) + Len(o) :
               (t \o o)[i] = IF i <= Len(t) THEN t[i] ELSE o[i - Len(t)]
      BY <3>1, ConcatProperties
    <3>. QED
      BY <3>1, <3>2
  <2>. HIDE DEF u, x, t
  <2>6. ASSUME NEW i \in 1 .. Len(u) PROVE u[i] = x[i]
    <3>1. i \in 1 .. n + Len(o) - 1 /\ i + 1 \in 1 .. n + Len(o)
          /\ i \in 1 .. (n - 1) + Len(o)
      BY <2>1, <2>4
    <3>2. u[i] = q[i + 1]
      BY <2>4, <3>1
    <3>3. CASE i <= n - 1
      <4>1. i \in 1 .. n - 1 /\ i + 1 <= n
        BY <2>1, <3>1, <3>3
      <4>. QED
        BY <2>1, <2>2, <2>5, <3>1, <3>2, <4>1
    <3>4. CASE ~(i <= n - 1)
      <4>1. ~(i + 1 <= n) /\ (i + 1) - n = i - (n - 1)
        BY <2>1, <3>1, <3>4
      <4>. QED
        BY <2>2, <2>5, <3>1, <3>2, <3>4, <4>1
    <3>. QED
      BY <3>3, <3>4
  <2>7. u = x
    <3>1. Len(u) = Len(x)
      <4>. DEFINE y == Len(o)
      <4>1. n \in Nat /\ y \in Nat
        BY <2>1
      <4>. HIDE DEF n, y
      <4>2. n + y - 1 = (n - 1) + y
        BY <4>1
      <4>. QED
        BY <2>4, <2>5, <4>2 DEF y
    <3>2. u \in Seq(Command) /\ x \in Seq(Command)
      BY <2>4, <2>5
    <3>. QED
      BY <2>6, <3>1, <3>2, SeqEqual
  <2>. QED
    BY <2>1, <2>2, <2>3, <2>7 DEF q, t, u, x
<1>. HIDE DEF m
<1>4. CanFollow(v, m) /\ InGoodOrder(Told(v, m), Tail(a) \o o)
  <2>. DEFINE q == a \o o
  <2>1. q \in Seq(Command) /\ q # <<>> /\ Head(q) = m /\ InGoodOrder(v, q)
    BY <1>1, <1>3
  <2>. HIDE DEF q
  <2>2. CanFollow(v, Head(q)) /\ InGoodOrder(Told(v, Head(q)), Tail(q))
    BY <2>1, GoodOrderTaken
  <2>3. Tail(q) = Tail(a) \o o
    BY <1>3 DEF q
  <2>. QED
    BY <2>1, <2>2, <2>3
<1>5. ViewAfter(v, a \o o) = ViewAfter(Told(v, m), Tail(a) \o o)
  BY <1>3, ViewAfterFirst
<1>6. FlagsAreSeated(Told(v, m))
  BY <1>1, <1>3, <1>4, FlagsOfTheSeated
<1>7. UNCHANGED <<nPlayers, messages, tiles, bag>>
  BY <1>2 DEF game
<1>8. ShoutIsSeated(conn[c])'
  BY <1>1, <1>2, <1>7 DEF ShoutIsSeated, InSeats
<1>9. /\ FlagsAreSeated(view[c])'
      /\ FlagsAreSeated(ViewAfter(view[c], wire[c] \o out[c]))'
  BY <1>1, <1>2, <1>5, <1>6, <1>7 DEF FlagsAreSeated, InSeats
<1>10. InGoodOrder(view[c], wire[c] \o out[c])'
  BY <1>2, <1>4, <1>7 DEF InGoodOrder, CanFollow, InSeats
<1>. QED
  BY <1>4, <1>8, <1>9, <1>10 DEF Follower, Follows, v, m, a

\* What SyncIsLast says of client c.
SyncIsLastFor(c) ==
    LET sent == wire'[c] \o out'[c] IN
    /\ Len(sent) > Len(wire[c] \o out[c])
    /\ Last(sent).kind \in {"SYNC", "END"}
    /\ conn'[c].follows
    => LET v == ViewToBe(c)' IN
       /\ v.flags = flags
       /\ InSeats \subseteq v.names
       /\ \A i \in 0 .. Len(tiles) - 1 : v.tiles[i] = tiles[i + 1]
       /\ v.nTiles = totalNTiles
       /\ v.language = language
       /\ conn'[c].messageNum = Len(messages)

LEMMA WriteFollows ==
    ASSUME OrderInvariant, NEW c \in Client, HandleWrite(c)
    PROVE  Follower(c)' /\ SyncIsLastFor(c)
<1>1. UNCHANGED <<nPlayers, messages, tiles, bag>> /\ view'[c] = view[c]
  BY DEF HandleWrite, NoOperation, game
<1>2. PICK f : Extends(c, f)
  BY WriteExtends
<1>. DEFINE s == wire[c] \o f.out
            w == ViewAfter(view[c], s)
            k == f.conn
<1>3. /\ f.out \in Seq(Command) /\ LinkOK(c, k) /\ KnowsOrNoted(c, k, w)
      /\ ShoutIsSeated(k) /\ InGoodOrder(view[c], s) /\ FlagsAreSeated(w)
      /\ LastIsLast(Len(out[c]), f) /\ conn'[c] = k /\ wire'[c] \o out'[c] = s
  BY <1>2 DEF Extends, Filled, Follows
<1>4. GameInv /\ FlagsAreSeated(view[c]) /\ wire[c] \in Seq(Command) /\ out[c] \in Seq(Command)
  BY DEF OrderInvariant, LinkInvariant, Linked, Filled
<1>. HIDE DEF s, k
<1>5. Follower(c)'
  BY <1>1, <1>3, <1>4 DEF Follower, Follows, FlagsAreSeated, InGoodOrder, CanFollow,
                          ShoutIsSeated, InSeats
<1>6. ASSUME Len(s) > Len(wire[c] \o out[c]), Last(s).kind \in {"SYNC", "END"}, k.follows
      PROVE  /\ w.flags = flags
             /\ InSeats \subseteq w.names
             /\ \A i \in 0 .. Len(tiles) - 1 : w.tiles[i] = tiles[i + 1]
             /\ w.nTiles = totalNTiles
             /\ w.language = language
             /\ k.messageNum = Len(messages)
  <2>. DEFINE a == wire[c]
              b == out[c]
              o == f.out
  <2>1. Len(o) > Len(b) /\ Last(s) = Last(o)
    <3>1. /\ a \in Seq(Command) /\ b \in Seq(Command) /\ o \in Seq(Command) /\ s = a \o o
          /\ Len(s) > Len(a \o b)
      BY <1>3, <1>4, <1>6 DEF s
    <3>. HIDE DEF a, b, o
    <3>2. /\ Len(a) \in Nat /\ Len(b) \in Nat /\ Len(o) \in Nat
          /\ Len(s) = Len(a) + Len(o) /\ Len(a \o b) = Len(a) + Len(b)
          /\ \A i \in 1 .. Len(a) + Len(o) :
               s[i] = IF i <= Len(a) THEN a[i] ELSE o[i - Len(a)]
      BY <3>1, ConcatProperties, LenProperties
    <3>. DEFINE x == Len(a)
                y == Len(o)
    <3>3. /\ x \in Nat /\ y \in Nat /\ Len(b) \in Nat /\ x + y > x + Len(b)
      BY <3>1, <3>2
    <3>4. s[x + y] = IF x + y <= x THEN a[x + y] ELSE o[(x + y) - x]
      <4>1. x + y \in 1 .. x + y
        BY <3>3
      <4>. QED
        BY <3>2, <4>1
    <3>5. y > Len(b) /\ ~(x + y <= x) /\ (x + y) - x = y
      <4>. HIDE DEF x, y
      <4>. QED
        BY <3>3
    <3>. QED
      BY <3>2, <3>4, <3>5 DEF Last
  <2>2. Complete(k)
    BY <1>3, <1>6, <2>1 DEF LastIsLast, k
  <2>3. /\ k.dirtyPlayers = {} /\ k.dirtyTiles = {}
        /\ "N_TILES" \notin k.dirtyFlags /\ "LANGUAGE" \notin k.dirtyFlags
        /\ k.namedPlayers >= nPlayers /\ k.messageNum >= Len(messages)
    BY <2>2 DEF Complete
  <2>4. /\ k \in Link /\ k.namedPlayers \in 0 .. nPlayers /\ k.messageNum \in 0 .. Len(messages)
        /\ w \in View
    BY <1>3 DEF LinkOK, KnowsOrNoted
  <2>5. /\ nPlayers \in Nat /\ InSeats = 0 .. nPlayers - 1 /\ Len(messages) \in Nat
        /\ flags \in [Seat -> SUBSET Flag] /\ InSeats \subseteq Seat
    BY <1>4, GameTyped DEF InSeats
  <2>. HIDE DEF w
  <2>6. w.flags = flags
    <3>1. \A p \in InSeats : w.flags[p] = flags[p]
      BY <1>3, <1>6, <2>3 DEF KnowsOrNoted
    <3>2. \A p \in Seat \ InSeats : w.flags[p] = {} /\ flags[p] = {}
      BY <1>3, <1>4, OutOfSeats DEF FlagsAreSeated
    <3>3. w.flags \in [Seat -> SUBSET Flag]
      BY <2>4 DEF View
    <3>4. \A p \in Seat : w.flags[p] = flags[p]
      BY <3>1, <3>2
    <3>. QED
      BY <2>5, <3>3, <3>4
  <2>7. InSeats \subseteq w.names
    <3>1. \A p \in InSeats : ~(p >= k.namedPlayers)
      BY <2>3, <2>4, <2>5
    <3>. QED
      BY <1>3, <1>6, <3>1 DEF KnowsOrNoted
  <2>8. k.messageNum = Len(messages)
    BY <2>3, <2>4, <2>5
  <2>9. /\ \A i \in 0 .. Len(tiles) - 1 : w.tiles[i] = tiles[i + 1]
        /\ w.nTiles = totalNTiles /\ w.language = language
    BY <1>3, <1>6, <2>3 DEF KnowsOrNoted
  <2>. QED
    BY <2>6, <2>7, <2>8, <2>9
<1>7. ViewToBe(c)' = w
  BY <1>1, <1>3 DEF ViewToBe
<1>8. SyncIsLastFor(c)
  <2>. HIDE DEF w
  <2>. QED
    BY <1>3, <1>6, <1>7 DEF SyncIsLastFor
<1>. QED
  BY <1>5, <1>8
\* What ReferentsFirst says of client c.
ReferentsFirstFor(c) ==
    view'[c] # view[c] /\ wire'[c] # wire[c] =>
      LET command == Head(wire[c]) IN
      /\ command.kind # "PLAYER_ID" /\ command.kind # "ERROR"
           => view[c].self # Nobody
      /\ command.kind \in {"PLAYER", "PLAYER_SHOUTED"}
           => command.num \in view[c].names
      /\ command.kind = "MESSAGE"
           => messages[command.num].player \in view[c].names
      /\ command.kind = "TILE" =>
           /\ command.num < view[c].nTiles
           /\ view[c].language = bag
           /\ command.value.lastPlayer \in view[c].names \cup {Nobody}

InOrderFor(c) == Follower(c)' /\ SyncIsLastFor(c) /\ ReferentsFirstFor(c)

\* Where nothing is written nothing is last, and what is not taken need not be
\* followed.
LEMMA NothingIsWritten ==
    ASSUME LinkInvariant, NEW c \in Client,
           \/ wire'[c] = wire[c] /\ out'[c] = out[c]
           \/ wire'[c] = <<>> /\ out'[c] = <<>>,
           wire'[c] = wire[c] \/ view'[c] = view[c]
    PROVE  SyncIsLastFor(c) /\ ReferentsFirstFor(c)
<1>1. wire[c] \o out[c] \in Seq(Command)
  BY ConcatProperties DEF LinkInvariant, Linked, Filled
<1>2. Len(wire[c] \o out[c]) \in Nat
  BY <1>1, LenProperties
<1>3. ~(Len(wire'[c] \o out'[c]) > Len(wire[c] \o out[c]))
  <2>1. CASE wire'[c] = wire[c] /\ out'[c] = out[c]
    <3>. DEFINE n == Len(wire[c] \o out[c])
    <3>1. Len(wire'[c] \o out'[c]) = n /\ n \in Nat
      BY <1>2, <2>1
    <3>. HIDE DEF n
    <3>2. ~(Len(wire'[c] \o out'[c]) > n)
      BY <3>1
    <3>. QED
      BY <3>2 DEF n
  <2>2. CASE wire'[c] = <<>> /\ out'[c] = <<>>
    <3>. DEFINE n == Len(wire[c] \o out[c])
    <3>1. Len(wire'[c] \o out'[c]) = 0
      BY <2>2
    <3>2. n \in Nat
      BY <1>2
    <3>. HIDE DEF n
    <3>3. ~(0 > n)
      BY <3>2
    <3>. QED
      BY <3>1, <3>3 DEF n
  <2>. QED
    BY <2>1, <2>2
<1>. QED
  BY <1>3 DEF SyncIsLastFor, ReferentsFirstFor

LEMMA UntouchedInOrder ==
    ASSUME OrderInvariant, NEW c \in Client, UNCHANGED game,
           UNCHANGED <<conn[c], out[c], wire[c], view[c]>>
    PROVE  InOrderFor(c)
<1>1. LinkInvariant /\ Follower(c)
  BY DEF OrderInvariant, Follower
<1>2. Follower(c)'
  BY <1>1, FollowerStays
<1>. QED
  BY <1>1, <1>2, NothingIsWritten DEF InOrderFor

LEMMA NotedInOrder ==
    ASSUME OrderInvariant, Continues, NEW c \in Client, conn'[c] = Notified(conn[c]),
           UNCHANGED <<out[c], wire[c], view[c]>>
    PROVE  InOrderFor(c)
<1>1. LinkInvariant /\ Follower(c) /\ GameInv /\ Linked(c)
  BY DEF OrderInvariant, LinkInvariant, Follower
<1>2. Follower(c)'
  BY <1>1, FollowerGoesOn
<1>. QED
  BY <1>1, <1>2, NothingIsWritten DEF InOrderFor

\* A connection that is new, or closed.
LEMMA StartedInOrder ==
    ASSUME OrderInvariant, NEW c \in Client, InSeats \subseteq InSeats',
           out'[c] = <<>>, wire'[c] = <<>>,
           \/ view'[c] = view[c]
           \/ wire'[c] = wire[c] /\ view'[c] = [view[c] EXCEPT !.synced = FALSE],
           \/ \E n : conn'[c] = Following(n)
           \/ \E st : conn'[c] = [ClosedConn EXCEPT !.state = st]
           \/ conn'[c] \in {Refusing, ClosedConn}
    PROVE  InOrderFor(c)
<1>1. LinkInvariant /\ view[c] \in View /\ FlagsAreSeated(view[c])
  BY DEF OrderInvariant, LinkInvariant, Linked
<1>2. view'[c].flags = view[c].flags
  BY <1>1 DEF View
<1>3. FlagsAreSeated(view[c])'
  BY <1>1, <1>2 DEF FlagsAreSeated
<1>4. ~conn'[c].follows \/ "PLAYER_SHOUTED" \notin conn'[c].dirtyFlags
  <2>1. \A n : "PLAYER_SHOUTED" \notin Following(n).dirtyFlags
    BY DEF Following, ClosedConn
  <2>2. \A st : ~[ClosedConn EXCEPT !.state = st].follows
    BY DEF ClosedConn
  <2>3. ~Refusing.follows /\ ~ClosedConn.follows
    BY DEF Refusing, ClosedConn
  <2>. QED
    BY <2>1, <2>2, <2>3
<1>5. Follower(c)'
  BY <1>3, <1>4, FollowerStartsAgain
<1>. QED
  BY <1>1, <1>5, NothingIsWritten DEF InOrderFor

LEMMA TakenInOrder ==
    ASSUME OrderInvariant, NEW c \in Client, Receive(c)
    PROVE  InOrderFor(c)
<1>1. CanFollow(view[c], Head(wire[c])) /\ Follower(c)'
  BY ReceiveFollows
<1>2. ReferentsFirstFor(c)
  BY <1>1 DEF ReferentsFirstFor, CanFollow
<1>3. /\ wire[c] \in Seq(Command) /\ wire[c] # <<>> /\ out[c] \in Seq(Command)
      /\ wire'[c] = Tail(wire[c]) /\ out'[c] = out[c]
  BY DEF OrderInvariant, LinkInvariant, Linked, Filled, Receive
<1>4. ~(Len(wire'[c] \o out'[c]) > Len(wire[c] \o out[c]))
  <2>. DEFINE a == wire[c]
              b == out[c]
              t == Tail(a)
  <2>1. a \in Seq(Command) /\ b \in Seq(Command) /\ a # <<>>
    BY <1>3
  <2>. HIDE DEF a, b
  <2>2. /\ t \in Seq(Command) /\ Len(t) = Len(a) - 1 /\ Len(a) \in Nat /\ Len(b) \in Nat
    BY <2>1, HeadTailProperties, LenProperties
  <2>. HIDE DEF t
  <2>3. Len(t \o b) = Len(t) + Len(b) /\ Len(a \o b) = Len(a) + Len(b)
    BY <2>1, <2>2, ConcatProperties
  <2>4. ~(Len(t \o b) > Len(a \o b))
    BY <2>2, <2>3
  <2>. QED
    BY <1>3, <2>4 DEF a, b, t
<1>. QED
  BY <1>1, <1>2, <1>4 DEF InOrderFor, SyncIsLastFor

LEMMA WrittenInOrder ==
    ASSUME OrderInvariant, NEW c \in Client, HandleWrite(c)
    PROVE  InOrderFor(c)
BY WriteFollows DEF InOrderFor, ReferentsFirstFor, HandleWrite

\* What is asked of a step.
StepInOrder == PlayersAreSeated' /\ \A c \in Client : InOrderFor(c)

LEMMA OperationInOrder ==
    ASSUME OrderInvariant, Operation
    PROVE  StepInOrder
<1>1. GameInv /\ PlayersAreSeated
  BY DEF OrderInvariant, LinkInvariant
<1>2. Next
  <2>1. 1 .. MaxTiles \subseteq 0 .. MaxTiles + 1
    BY ConversationAssumption
  <2>. QED
    BY <2>1 DEF Operation, HandleLeave, HandleTyping, HandleSendMessage, HandleSetNTiles,
                HandleSetLanguage, HandleTurn, HandleMoveTile, HandleShout, Next
<1>3. Continues /\ PlayersAreSeated'
  BY <1>1, <1>2, NextKeepsInv, OperationsContinue
<1>4. /\ UNCHANGED <<out, wire, view>>
      /\ \A c \in Client : conn'[c] = Notified(conn[c])
  BY DEF Operation, NotifyAll
<1>. QED
  BY <1>3, <1>4, NotedInOrder DEF StepInOrder

LEMMA EnterInOrder ==
    ASSUME OrderInvariant, NEW c \in Client, NEW n, NEW byId, Enter(c, n, byId)
    PROVE  StepInOrder
<1>1. GameInv /\ PlayersAreSeated /\ LinkInvariant
  BY DEF OrderInvariant, LinkInvariant
<1>2. /\ AddPlayer /\ CanConnect(c) /\ Connecting(c)
      /\ conn' = [d \in Client |-> IF d = c THEN Following(n) ELSE Notified(conn[d])]
  BY DEF Enter
<1>3. Continues /\ PlayersAreSeated'
  BY <1>1, <1>2, NextKeepsInv, OperationsContinue DEF Next
<1>4. /\ out'[c] = <<>> /\ wire'[c] = <<>>
      /\ \A d \in Client \ {c} : out'[d] = out[d] /\ wire'[d] = wire[d] /\ view'[d] = view[d]
  BY <1>1, <1>2, ConnectingClears
<1>5. wire'[c] = wire[c] /\ view'[c] = [view[c] EXCEPT !.synced = FALSE]
  BY <1>1, <1>2 DEF Connecting, LinkInvariant
<1>6. InOrderFor(c)
  BY <1>2, <1>3, <1>4, <1>5, StartedInOrder DEF Continues
<1>7. ASSUME NEW d \in Client \ {c} PROVE InOrderFor(d)
  BY <1>2, <1>3, <1>4, NotedInOrder
<1>. QED
  BY <1>3, <1>6, <1>7 DEF StepInOrder

LEMMA OneInOrder ==
    ASSUME OrderInvariant, NEW c \in Client, UNCHANGED game, InOrderFor(c),
           \A d \in Client \ {c} : UNCHANGED <<conn[d], out[d], wire[d], view[d]>>
    PROVE  StepInOrder
<1>1. PlayersAreSeated'
  BY NothingContinues DEF OrderInvariant, LinkInvariant
<1>2. \A d \in Client \ {c} : InOrderFor(d)
  BY UntouchedInOrder
<1>. QED
  BY <1>1, <1>2 DEF StepInOrder

LEMMA GoneSilentInOrder ==
    ASSUME OrderInvariant, NEW c \in Client, GoneSilent(c)
    PROVE  StepInOrder
<1>1. GameInv /\ PlayersAreSeated /\ LinkInvariant /\ UNCHANGED <<out, wire, view>>
  BY DEF OrderInvariant, LinkInvariant, GoneSilent
<1>2. CASE PlayerLeft(person[c].seat) /\ NotifyAll
  <2>1. person[c].seat \in Seat
    <3>1. person[c] # NoPerson
      BY DEF GoneSilent, NoPerson
    <3>. QED
      BY <1>1, <3>1, WhatWasTold, GameTyped DEF PersonOK
  <2>2. Continues /\ PlayersAreSeated'
    BY <1>1, <1>2, <2>1, NextKeepsInv, OperationsContinue DEF Next
  <2>. QED
    BY <1>1, <1>2, <2>2, NotedInOrder DEF StepInOrder, NotifyAll
<1>3. CASE NoOperation /\ UNCHANGED conn
  <2>1. UNCHANGED game /\ PlayersAreSeated'
    BY <1>1, <1>3, NothingContinues DEF NoOperation
  <2>. QED
    BY <1>1, <1>3, <2>1, UntouchedInOrder DEF StepInOrder
<1>. QED
  BY <1>2, <1>3 DEF GoneSilent

LEMMA EveryStepInOrder ==
    ASSUME OrderInvariant, [LinkNext]_allVars
    PROVE  StepInOrder
<1>1. CASE UNCHANGED allVars
  <2>1. UNCHANGED game /\ UNCHANGED <<conn, out, wire, view>> /\ PlayersAreSeated'
    BY <1>1, NothingContinues DEF allVars, linkVars, OrderInvariant, LinkInvariant
  <2>. QED
    BY <2>1, UntouchedInOrder DEF StepInOrder
<1>2. CASE Operation
  BY <1>2, OperationInOrder
<1>3. ASSUME NEW c \in Client,
             HandleNewPrivateGame(c) \/ HandleNewPlayer(c) \/ HandleJoinGame(c)
      PROVE  StepInOrder
  BY <1>3, EnterInOrder DEF HandleNewPrivateGame, HandleNewPlayer, HandleJoinGame
<1>4. ASSUME NEW c \in Client, JoinRefused(c) \/ Reconnect(c) PROVE StepInOrder
  <2>1. /\ UNCHANGED game /\ CanConnect(c) /\ Connecting(c) /\ LinkInvariant
        /\ UNCHANGED <<out, wire>>
    BY <1>4 DEF JoinRefused, Reconnect, NoOperation, Connecting, OrderInvariant
  <2>2. /\ out'[c] = <<>> /\ wire'[c] = <<>>
        /\ \A d \in Client \ {c} : view'[d] = view[d]
    BY <2>1, ConnectingClears
  <2>3. view'[c] = [view[c] EXCEPT !.synced = FALSE]
    BY <2>1 DEF Connecting, LinkInvariant
  <2>4. \/ \E n : conn'[c] = Following(n)
        \/ \E st : conn'[c] = [ClosedConn EXCEPT !.state = st]
        \/ conn'[c] \in {Refusing, ClosedConn}
    <3>1. CASE JoinRefused(c)
      BY <2>1, <3>1 DEF JoinRefused, LinkInvariant
    <3>2. CASE Reconnect(c)
      <4>1. \/ conn'[c] = Refusing
            \/ conn'[c] = [ClosedConn EXCEPT !.state = "REFUSED"]
            \/ conn'[c] = Following(ResumeAt(c))
        BY <2>1, <3>2 DEF Reconnect, LinkInvariant
      <4>. QED
        BY <4>1
    <3>. QED
      BY <1>4, <3>1, <3>2
  <2>5. \A d \in Client \ {c} : conn'[d] = conn[d]
    BY <1>4, <2>1 DEF JoinRefused, Reconnect, LinkInvariant
  <2>6. InSeats \subseteq InSeats'
    BY <2>1 DEF game, InSeats
  <2>7. InOrderFor(c)
    BY <2>1, <2>2, <2>3, <2>4, <2>6, StartedInOrder
  <2>. QED
    BY <2>1, <2>2, <2>5, <2>7, OneInOrder
<1>5. ASSUME NEW c \in Client, GoneSilent(c) PROVE StepInOrder
  BY <1>5, GoneSilentInOrder
<1>6. ASSUME NEW c \in Client, HandleWrite(c) PROVE StepInOrder
  <2>1. UNCHANGED game /\ UNCHANGED view
    BY <1>6 DEF HandleWrite, NoOperation
  <2>. QED
    BY <1>6, <2>1, WriteExtends, WrittenInOrder, OneInOrder
<1>7. ASSUME NEW c \in Client, Receive(c) PROVE StepInOrder
  <2>1. /\ UNCHANGED game
        /\ \A d \in Client \ {c} : UNCHANGED <<conn[d], out[d], wire[d], view[d]>>
    BY <1>7 DEF Receive, NoOperation, OrderInvariant, LinkInvariant
  <2>. QED
    BY <1>7, <2>1, TakenInOrder, OneInOrder
<1>8. ASSUME NEW c \in Client, Lose(c) PROVE StepInOrder
  <2>1. /\ UNCHANGED game /\ UNCHANGED view
        /\ conn'[c] = ClosedConn /\ out'[c] = <<>> /\ wire'[c] = <<>>
        /\ \A d \in Client \ {c} : UNCHANGED <<conn[d], out[d], wire[d], view[d]>>
    BY <1>8 DEF Lose, NoOperation, OrderInvariant, LinkInvariant
  <2>2. InSeats \subseteq InSeats'
    BY <2>1 DEF game, InSeats
  <2>3. InOrderFor(c)
    BY <2>1, <2>2, StartedInOrder
  <2>. QED
    BY <2>1, <2>3, OneInOrder
<1>. QED
  BY <1>1, <1>2, <1>3, <1>4, <1>5, <1>6, <1>7, <1>8 DEF LinkNext

LEMMA OrderInitially == LinkInit => OrderInvariant
<1>. SUFFICES ASSUME LinkInit PROVE OrderInvariant
  OBVIOUS
<1>1. LinkInvariant
  BY LinkInitially
<1>2. PlayersAreSeated
  <2>1. tiles = <<>> /\ messages = <<>>
    BY DEF LinkInit, Init
  <2>2. Len(tiles) = 0 /\ Len(messages) = 0
    BY <2>1
  <2>. QED
    BY <2>2 DEF PlayersAreSeated
<1>3. ASSUME NEW c \in Client PROVE FlagsAreSeated(view[c]) /\ Follows(c, conn[c], out[c])
  <2>. DEFINE s == wire[c] \o out[c]
              v == view[c]
  <2>1. /\ conn[c] = ClosedConn /\ s = <<>> /\ Len(s) = 0 /\ v = NothingTold
    BY DEF LinkInit, InitLinks
  <2>2. FlagsAreSeated(v)
    BY <2>1 DEF FlagsAreSeated, NothingTold
  <2>. HIDE DEF v, s
  <2>3. ViewAfter(v, s) = v
    BY <2>1, ViewAfterNothing
  <2>4. InGoodOrder(v, s)
    BY <2>1 DEF InGoodOrder
  <2>5. ShoutIsSeated(conn[c])
    BY <2>1 DEF ShoutIsSeated, ClosedConn
  <2>. QED
    BY <2>2, <2>3, <2>4, <2>5 DEF Follows, v, s
<1>. QED
  BY <1>1, <1>2, <1>3 DEF OrderInvariant

LEMMA OrderStep == OrderInvariant /\ [LinkNext]_allVars => OrderInvariant'
<1>. SUFFICES ASSUME OrderInvariant, [LinkNext]_allVars PROVE OrderInvariant'
  OBVIOUS
<1>1. LinkInvariant'
  BY LinkStep DEF OrderInvariant
<1>2. StepInOrder
  BY EveryStepInOrder
<1>. QED
  BY <1>1, <1>2 DEF OrderInvariant, StepInOrder, InOrderFor, Follower

\* A client is told what a command refers to before the command: the names
\* before flags, shouts, messages and moves of their players, the number of
\* tiles and the language before the first tile, its own id first of all, and
\* SYNC and END last, when there is nothing left to tell about the game.
THEOREM ToldInOrderHolds == LinkSpec => ToldInOrder
<1>1. LinkSpec => []OrderInvariant
  BY OrderInitially, OrderStep, PTL DEF LinkSpec
<1>2. OrderInvariant /\ [LinkNext]_allVars => \A c \in Client : SyncIsLastFor(c)
  BY EveryStepInOrder DEF StepInOrder, InOrderFor
<1>3. OrderInvariant /\ [LinkNext]_allVars => \A c \in Client : ReferentsFirstFor(c)
  BY EveryStepInOrder DEF StepInOrder, InOrderFor
<1>4. LinkSpec => SyncIsLast
  BY <1>1, <1>2, PTL DEF LinkSpec, SyncIsLast, SyncIsLastFor
<1>5. LinkSpec => ReferentsFirst
  BY <1>1, <1>3, PTL DEF LinkSpec, ReferentsFirst, ReferentsFirstFor
<1>. QED
  BY <1>4, <1>5 DEF ToldInOrder
=============================================================================
