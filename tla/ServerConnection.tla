-------------------------- MODULE ServerConnection --------------------------
(***************************************************************************)
(* How the clients of a game come to know it: the connections of           *)
(* src/server/vsx-connection.c composed with the conversation they follow, *)
(* the persons that outlive them (vsx-person.c, vsx-person-set.c) and the  *)
(* part of the client that receives and reconnects                         *)
(* (src/client/vsx-connection.c).                                          *)
(*                                                                         *)
(* A connection never queues what it has to tell its client.  It remembers *)
(* what has changed since it last told (dirty bits, the number of players  *)
(* named, the number of messages sent) and, whenever there is room in the  *)
(* output buffer, writes the current value of the first pending kind of    *)
(* data in a fixed order.  The client can lose the connection at any time, *)
(* with what is on its way, and asks to go on from the number of messages  *)
(* it has received.                                                        *)
(***************************************************************************)
EXTENDS Conversation, SequencesExt

CONSTANTS
    Client,        \* the observed clients; other players act without one
    OutCap,        \* bound of the model: commands in an output buffer
    WireCap,       \* bound of the model: commands on their way to a client
    Plays,         \* bound of the model: what the players do in an instance
    CountModulus   \* RECONNECT sends a message count of 16 bits (65536)

ASSUME ConnectionAssumption ==
    /\ OutCap \in Nat \ {0}
    /\ WireCap \in Nat \ {0}
    /\ CountModulus \in Nat \ {0}
    /\ Plays \subseteq SUBSET {"JOIN", "LEAVE", "TYPING", "MESSAGE", "N_TILES",
                              "LANGUAGE", "TURN", "MOVE", "SHOUT", "REENTER"}

VARIABLES
    person,  \* person[c]: the VsxPerson the server keeps for client c
    conn,    \* conn[c]: the server's side of the connection of client c
    out,     \* out[c]: its output buffer
    wire,    \* wire[c]: what the socket took from it, not yet received
    view,    \* view[c]: what client c has been told
    play     \* what the players of this instance do, that never changes

linkVars == <<person, conn, out, wire, view, play>>
allVars == <<game, changed, linkVars>>

\* The commands of the server in the order in which fill_output_buffer looks
\* for something to write.
WriteOrder ==
    <<"PLAYER_ID", "CONVERSATION_ID", "N_TILES", "LANGUAGE", "PLAYER_NAME",
      "PLAYER", "PLAYER_SHOUTED", "TILE", "MESSAGE", "END", "SYNC", "ERROR">>
DirtyFlag == {"PLAYER_ID", "CONVERSATION_ID", "N_TILES", "LANGUAGE",
              "PLAYER_SHOUTED", "SYNC", "ERROR"}

NoPerson == [seat |-> Nobody, offset |-> 0, known |-> FALSE,
             byId |-> FALSE]

\* vsx_connection_new: calloc.  REFUSED is a connection that the server has
\* closed because of a protocol error.
ClosedConn == [state |-> "CLOSED", follows |-> FALSE, messageNum |-> 0,
               namedPlayers |-> 0, dirtyPlayers |-> {}, dirtyTiles |-> {},
               dirtyFlags |-> {}, pendingShout |-> 0]

NoTile == [place |-> "none", lastPlayer |-> Nobody]
NothingTold == [self |-> Nobody, names |-> {},
                flags |-> [p \in Seat |-> {}], nTiles |-> 0,
                language |-> NoBag,
                tiles |-> [i \in 0 .. MaxTiles - 1 |-> NoTile],
                log |-> <<>>, synced |-> FALSE, over |-> FALSE]

InitLinks ==
    /\ person = [c \in Client |-> NoPerson]
    /\ conn = [c \in Client |-> ClosedConn]
    /\ out = [c \in Client |-> <<>>]
    /\ wire = [c \in Client |-> <<>>]
    /\ view = [c \in Client |-> NothingTold]
    /\ play \in Plays

-----------------------------------------------------------------------------
(* What the server does when the conversation changes.                     *)

\* Fault for a mutant: moving a tile that is already in play is not noted.
NotifiedOfNewTilesOnly(k) ==
    IF ~k.follows THEN k ELSE
    [k EXCEPT
       !.dirtyPlayers = @ \cup {e.num : e \in {d \in changed' : d.type = "PLAYER"}},
       !.dirtyTiles = @ \cup {e.num : e \in {d \in changed' :
                                 d.type = "TILE" /\ d.num >= Len(tiles)}},
       !.dirtyFlags = @ \cup ({"N_TILES", "LANGUAGE"} \cap
                              {IF e.type = "TILE_DATA" THEN "LANGUAGE" ELSE e.type
                                 : e \in changed'})]

\* conversation_changed_cb, for all that one operation emits.  STATE and
\* MESSAGE change nothing: the messages to send are counted.
Notified(k) ==
    LET emitted(type) == {e.num : e \in {d \in changed' : d.type = type}} IN
    IF ~k.follows THEN k ELSE
    [k EXCEPT
       !.dirtyPlayers = @ \cup emitted("PLAYER"),
       !.dirtyTiles = @ \cup emitted("TILE"),
       !.dirtyFlags = @ \cup {f \in {"N_TILES"} : emitted("N_TILES") # {}}
                        \cup {f \in {"LANGUAGE"} : emitted("TILE_DATA") # {}}
                        \cup {f \in {"PLAYER_SHOUTED"} : emitted("SHOUTED") # {}},
       !.pendingShout = IF emitted("SHOUTED") # {}
                        THEN CHOOSE p \in emitted("SHOUTED") : TRUE ELSE @]

NotifyAll == conn' = [c \in Client |-> Notified(conn[c])]

\* start_following_person on a new connection: everything is to be told.
Following(messageNum) ==
    [ClosedConn EXCEPT
       !.state = "OPEN",
       !.follows = TRUE,
       !.messageNum = messageNum,
       !.dirtyPlayers = 0 .. nPlayers' - 1,
       !.dirtyTiles = 0 .. Len(tiles') - 1,
       !.dirtyFlags = {"PLAYER_ID", "CONVERSATION_ID", "N_TILES", "LANGUAGE",
                       "SYNC"}]

\* A connection that only has an error to report and then closes.
Refusing == [ClosedConn EXCEPT !.state = "OPEN", !.dirtyFlags = {"ERROR"}]

-----------------------------------------------------------------------------
(* fill_output_buffer, with k the connection of client c.                   *)

\* Which of the writers would write something.
Pending(c, k) ==
    k.dirtyFlags
      \cup {kind \in {"PLAYER_NAME"} : k.follows /\ k.namedPlayers < nPlayers}
      \cup {kind \in {"PLAYER"} : k.dirtyPlayers # {}}
      \cup {kind \in {"TILE"} : k.dirtyTiles # {}}
      \cup {kind \in {"MESSAGE"} : k.follows /\ k.messageNum < Len(messages)}
      \cup {kind \in {"END"} : k.follows /\ ~IsConnected(person[c].seat)}

\* Fault for a mutant: the chat is not looked at.
HasPendingDataButChat(c) == Pending(c, conn[c]) \ {"MESSAGE", "END"} # {}

\* has_pending_data, which the server looks at to decide whether to wait for
\* the socket to become writable.  It does not look for an END to be sent.
HasPendingData(c) == Pending(c, conn[c]) \ {"END"} # {}

\* Fault for a mutant: the names of the players go last.
FirstPendingNamesLast(c, k) ==
    LET others == Pending(c, k) \ {"PLAYER_NAME"} IN
    IF others = {} THEN "PLAYER_NAME"
    ELSE WriteOrder[Min({r \in DOMAIN WriteOrder : WriteOrder[r] \in others})]

\* The first one in the order, whose data is written next.
FirstPending(c, k) ==
    WriteOrder[Min({r \in DOMAIN WriteOrder :
                        WriteOrder[r] \in Pending(c, k)})]

\* What a writer does: it puts a command with the present value into the buffer
\* and the connection no longer has it to tell.
Wrote(command, k) == [command |-> command, conn |-> k]
Clean(k, flag) == [k EXCEPT !.dirtyFlags = @ \ {flag}]

WritePlayerId(c, k) ==
    Wrote([kind |-> "PLAYER_ID", num |-> person[c].seat], Clean(k, "PLAYER_ID"))
WriteConversationId(k) ==
    Wrote([kind |-> "CONVERSATION_ID"], Clean(k, "CONVERSATION_ID"))
WriteNTiles(k) ==
    Wrote([kind |-> "N_TILES", value |-> totalNTiles], Clean(k, "N_TILES"))
WriteLanguage(k) ==
    Wrote([kind |-> "LANGUAGE", value |-> language], Clean(k, "LANGUAGE"))
WritePlayerName(k) ==
    Wrote([kind |-> "PLAYER_NAME", num |-> k.namedPlayers],
          [k EXCEPT !.namedPlayers = @ + 1])
WritePlayer(k) ==
    LET p == Min(k.dirtyPlayers) IN
    Wrote([kind |-> "PLAYER", num |-> p, value |-> flags[p]],
          [k EXCEPT !.dirtyPlayers = @ \ {p}])
WritePendingShout(k) ==
    Wrote([kind |-> "PLAYER_SHOUTED", num |-> k.pendingShout],
          Clean(k, "PLAYER_SHOUTED"))
WriteTile(k) ==
    LET i == Min(k.dirtyTiles) IN
    Wrote([kind |-> "TILE", num |-> i, value |-> tiles[i + 1]],
          [k EXCEPT !.dirtyTiles = @ \ {i}])
WriteMessage(k) ==
    Wrote([kind |-> "MESSAGE", num |-> k.messageNum + 1],
          [k EXCEPT !.messageNum = @ + 1])
WriteEnd(k) == Wrote([kind |-> "END"], [k EXCEPT !.state = "DONE"])
WriteSync(k) == Wrote([kind |-> "SYNC"], Clean(k, "SYNC"))
\* Like after END, nothing more is written.
WriteError(k) ==
    Wrote([kind |-> "ERROR"], [Clean(k, "ERROR") EXCEPT !.state = "DONE"])

Write(c, k, kind) ==
    CASE kind = "PLAYER_ID" -> WritePlayerId(c, k)
      [] kind = "CONVERSATION_ID" -> WriteConversationId(k)
      [] kind = "N_TILES" -> WriteNTiles(k)
      [] kind = "LANGUAGE" -> WriteLanguage(k)
      [] kind = "PLAYER_NAME" -> WritePlayerName(k)
      [] kind = "PLAYER" -> WritePlayer(k)
      [] kind = "PLAYER_SHOUTED" -> WritePendingShout(k)
      [] kind = "TILE" -> WriteTile(k)
      [] kind = "MESSAGE" -> WriteMessage(k)
      [] kind = "END" -> WriteEnd(k)
      [] kind = "SYNC" -> WriteSync(k)
      [] kind = "ERROR" -> WriteError(k)

\* Nothing is left to write: the loop ends.
NothingToWrite(c, k) == k.state # "OPEN" \/ Pending(c, k) = {}

\* One round of the loop, on the connection and its output buffer.
WriteOne(c, f) ==
    IF NothingToWrite(c, f.conn) THEN f
    ELSE LET wrote == Write(c, f.conn, FirstPending(c, f.conn)) IN
         [conn |-> wrote.conn, out |-> Append(f.out, wrote.command)]

\* What the loop passes through in at most n rounds.
Fillings(c, n) ==
    LET after[i \in 0 .. n] ==
          IF i = 0 THEN {[conn |-> conn[c], out |-> out[c]]}
          ELSE after[i - 1] \cup {WriteOne(c, f) : f \in after[i - 1]}
    IN after[n]

\* How a message compares with the buffer is left open: it may fit into the
\* empty buffer only.  OutCap of the other commands fit.
NoRoom(c, f) ==
    \/ Len(f.out) = OutCap
    \/ /\ f.out # <<>>
       /\ \/ FirstPending(c, f.conn) = "MESSAGE"
          \/ \E i \in DOMAIN f.out : f.out[i].kind = "MESSAGE"

\* handle_write of vsx-server.c, when the socket is writable and update_poll
\* has asked to know.  The buffer is filled until nothing is pending or there
\* is no room for the next command; the socket takes some of it.
CanWrite(c) ==
    /\ conn[c].state \in {"OPEN", "DONE"}
    /\ out[c] # <<>> \/ (conn[c].state = "OPEN" /\ HasPendingData(c))

HandleWrite(c) ==
    /\ CanWrite(c)
    /\ \E f \in Fillings(c, OutCap - Len(out[c])) :
         /\ ~NothingToWrite(c, f.conn) => NoRoom(c, f)
         /\ conn' = [conn EXCEPT ![c] = f.conn]
         /\ \E m \in 0 .. Min({Len(f.out), WireCap - Len(wire[c])}) :
              /\ wire' = [wire EXCEPT ![c] = @ \o SubSeq(f.out, 1, m)]
              /\ out' = [out EXCEPT ![c] = SubSeq(f.out, m + 1, Len(f.out))]
    /\ NoOperation
    /\ UNCHANGED <<person, view, play>>

-----------------------------------------------------------------------------
(* The client's end.                                                       *)

\* What each command tells, and the game state it feeds.  A message stands for
\* its position in the chat.
HandlePlayerId(v, command) == [v EXCEPT !.self = command.num]
HandleNTiles(v, command) == [v EXCEPT !.nTiles = command.value]
HandleLanguage(v, command) == [v EXCEPT !.language = command.value]
HandlePlayerName(v, command) == [v EXCEPT !.names = @ \cup {command.num}]
HandlePlayer(v, command) == [v EXCEPT !.flags[command.num] = command.value]
HandleTile(v, command) == [v EXCEPT !.tiles[command.num] = command.value]
HandleMessage(v, command) == [v EXCEPT !.log = Append(@, command.num)]
HandleSync(v) == [v EXCEPT !.synced = TRUE]
HandleEnd(v) == [v EXCEPT !.over = TRUE]

\* process_message of the client.  The id of the conversation and a shout only
\* raise events.
Told(v, command) ==
    CASE command.kind = "PLAYER_ID" -> HandlePlayerId(v, command)
      [] command.kind = "N_TILES" -> HandleNTiles(v, command)
      [] command.kind = "LANGUAGE" -> HandleLanguage(v, command)
      [] command.kind = "PLAYER_NAME" -> HandlePlayerName(v, command)
      [] command.kind = "PLAYER" -> HandlePlayer(v, command)
      [] command.kind = "TILE" -> HandleTile(v, command)
      [] command.kind = "MESSAGE" -> HandleMessage(v, command)
      [] command.kind = "SYNC" -> HandleSync(v)
      [] command.kind \in {"END", "ERROR"} -> HandleEnd(v)
      [] OTHER -> v

Receive(c) ==
    /\ wire[c] # <<>>
    /\ view' = [view EXCEPT ![c] = Told(@, Head(wire[c]))]
    /\ wire' = [wire EXCEPT ![c] = Tail(@)]
    /\ NoOperation
    /\ UNCHANGED <<person, conn, out, play>>

\* The connection is lost with all that is on its way.
Lose(c) ==
    /\ conn[c].state \in {"OPEN", "DONE"}
    /\ ~view[c].over
    /\ conn' = [conn EXCEPT ![c] = ClosedConn]
    /\ out' = [out EXCEPT ![c] = <<>>]
    /\ wire' = [wire EXCEPT ![c] = <<>>]
    /\ NoOperation
    /\ UNCHANGED <<person, view, play>>

\* try_reconnect of the client.
CanConnect(c) ==
    /\ conn[c].state \in {"CLOSED", "REFUSED"}
    /\ ~view[c].over
Connecting(c) ==
    /\ view' = [view EXCEPT ![c].synced = FALSE]
    /\ UNCHANGED <<out, wire, play>>

\* write_header of the client without a person id.  A client whose PLAYER_ID
\* was lost enters again, as another player.
Enter(c, messageNum, byId) ==
    /\ CanConnect(c) /\ view[c].self = Nobody
    /\ person[c] = NoPerson \/ "REENTER" \in play
    /\ AddPlayer
    /\ person' = [person EXCEPT ![c] = [seat |-> nPlayers,
                                        offset |-> Len(messages),
                                        known |-> TRUE,
                                        byId |-> byId]]
    /\ conn' = [d \in Client |-> IF d = c THEN Following(messageNum)
                                          ELSE Notified(conn[d])]
    /\ Connecting(c)

\* The game is a new one that nobody else is shown.
HandleNewPrivateGame(c) == nPlayers = 0 /\ Enter(c, Len(messages), FALSE)

\* The game is the pending one of its room.
HandleNewPlayer(c) ==
    state = "AWAITING_START" /\ Enter(c, Len(messages), FALSE)

\* The game is named by its id.  message_num stays at zero: the whole chat is
\* told.
HandleJoinGame(c) == nPlayers > 0 /\ Enter(c, 0, TRUE)

\* handle_join_game of a conversation that is gone or full.
JoinRefused(c) ==
    /\ CanConnect(c) /\ view[c].self = Nobody
    /\ nPlayers > 0
    /\ ConnectedSeats = {} \/ nPlayers >= MaxPlayers
    /\ conn' = [conn EXCEPT ![c] = Refusing]
    /\ Connecting(c)
    /\ NoOperation
    /\ UNCHANGED person

\* Fault for a mutant: the count of the client is taken as it is.
ResumeAtWithoutOffset(c) == Len(view[c].log) % CountModulus

\* n_messages_received, offset by what was said before the person came.
ResumeAt(c) == (Len(view[c].log) % CountModulus) + person[c].offset

\* How many messages the client can have received.
Available(c) == Len(messages) - person[c].offset

\* write_header of the client with a person id, and handle_reconnect.
Reconnect(c) ==
    /\ CanConnect(c) /\ view[c].self # Nobody
    /\ NoOperation
    /\ LET received == Len(view[c].log) % CountModulus IN
       conn' = [conn EXCEPT ![c] =
                  IF ~person[c].known THEN Refusing
                  ELSE IF received > Available(c)
                  THEN [ClosedConn EXCEPT !.state = "REFUSED"]
                  ELSE Following(ResumeAt(c))]
    /\ Connecting(c)
    /\ UNCHANGED person

\* remove_silent_people_timer_cb: the person is forgotten and their player
\* leaves; a connection that still follows the person keeps doing so.
GoneSilent(c) ==
    /\ person[c].known
    /\ person' = [person EXCEPT ![c].known = FALSE]
    /\ \/ PlayerLeft(person[c].seat) /\ NotifyAll
       \/ ~IsConnected(person[c].seat) /\ NoOperation /\ UNCHANGED conn
    /\ UNCHANGED <<out, wire, view, play>>

-----------------------------------------------------------------------------
(* The commands of the players, who all may play at any time: what a client  *)
(* sent before it lost its connection may still be read.                     *)

HandleLeave(p) == "LEAVE" \in play /\ PlayerLeft(p)
HandleTyping(p) == "TYPING" \in play /\ \E typing \in BOOLEAN : SetTyping(p, typing)
HandleSendMessage(p) == "MESSAGE" \in play /\ \E text \in Text : SendMessage(p, text)
HandleSetNTiles(p) == "N_TILES" \in play /\ \E n \in 1 .. MaxTiles : SetNTiles(p, n)
HandleSetLanguage(p) ==
    "LANGUAGE" \in play /\ \E lang \in Language : SetTileData(p, lang)
HandleTurn(p) == "TURN" \in play /\ Turn(p)
HandleMoveTile(p) ==
    /\ "MOVE" \in play
    /\ \E i \in 0 .. MaxTiles - 1, place \in Place : MoveTile(p, i, place)
HandleShout(p) == "SHOUT" \in play /\ Shout(p)

\* What a player or the clock does to the conversation, and what the
\* connections note of it.
Operation ==
    /\ \/ "JOIN" \in play /\ AddPlayer
       \/ \E p \in Seat :
            \/ HandleLeave(p)
            \/ HandleTyping(p)
            \/ HandleSendMessage(p)
            \/ HandleSetNTiles(p)
            \/ HandleSetLanguage(p)
            \/ HandleTurn(p)
            \/ HandleMoveTile(p)
            \/ HandleShout(p)
       \/ Tick
    /\ NotifyAll
    /\ UNCHANGED <<person, out, wire, view, play>>

\* Who does not shout starts long after the last shout, and who does not choose
\* the language plays in the first one.
LinkInit ==
    /\ Init /\ InitLinks
    /\ "SHOUT" \notin play => shoutAge = ShoutTime
    /\ "LANGUAGE" \notin play => language = CHOOSE lang \in Language : TRUE

LinkNext ==
    \/ Operation
    \/ \E c \in Client :
         \/ HandleNewPrivateGame(c)
         \/ HandleNewPlayer(c)
         \/ HandleJoinGame(c)
         \/ JoinRefused(c)
         \/ Reconnect(c)
         \/ GoneSilent(c)
         \/ HandleWrite(c)
         \/ Receive(c)
         \/ Lose(c)

LinkSpec == LinkInit /\ [][LinkNext]_allVars

-----------------------------------------------------------------------------
(* Properties.                                                             *)

LinkTypeOK ==
    /\ person \in [Client -> [seat : Seat \cup {Nobody}, offset : Nat,
                             known : BOOLEAN, byId : BOOLEAN]]
    /\ \A c \in Client :
         /\ conn[c].state \in {"CLOSED", "OPEN", "DONE", "REFUSED"}
         /\ conn[c].namedPlayers \in 0 .. nPlayers
         /\ conn[c].messageNum \in 0 .. Len(messages)
         /\ conn[c].dirtyPlayers \subseteq InSeats
         /\ conn[c].dirtyTiles \subseteq 0 .. Len(tiles) - 1
         /\ conn[c].dirtyFlags \subseteq DirtyFlag
         /\ Len(out[c]) <= OutCap
         /\ Len(wire[c]) <= WireCap
         /\ view[c].self \in Seat \cup {Nobody}

\* What a client that has been told v knows after the commands in sent.
ViewAfter(v, sent) ==
    LET after[i \in 0 .. Len(sent)] ==
          IF i = 0 THEN v ELSE Told(after[i - 1], sent[i])
    IN after[Len(sent)]

\* What client c will have been told once it has received all that has been
\* written for it.
ViewToBe(c) == ViewAfter(view[c], wire[c] \o out[c])

\* Everything that a client which follows the game has not been told is
\* noted as still to be told.  A change that is neither told nor noted is
\* never told: no later change of something else would make up for it.
NothingForgotten ==
    \A c \in Client : conn[c].follows =>
      LET k == conn[c]
          v == ViewToBe(c)
      IN /\ \A p \in InSeats \ k.dirtyPlayers : v.flags[p] = flags[p]
         /\ \A p \in InSeats : p >= k.namedPlayers \/ p \in v.names
         /\ \A i \in (0 .. Len(tiles) - 1) \ k.dirtyTiles :
              v.tiles[i] = tiles[i + 1]
         /\ "N_TILES" \notin k.dirtyFlags => v.nTiles = totalNTiles
         /\ "LANGUAGE" \notin k.dirtyFlags => v.language = language
         /\ "PLAYER_ID" \notin k.dirtyFlags => v.self = person[c].seat

\* The two together: the values are of their types, and nothing is forgotten.
LinkSound == LinkTypeOK /\ NothingForgotten

\* Across its connections the chat is delivered to a client in order, each
\* message once, from the first one after it entered: the connections and the
\* client's counting implement the abstract channel.
Counted(c) == person[c] # NoPerson /\ ~person[c].byId

SentTo(c) ==
    IF Counted(c) THEN SubSeq(messages, person[c].offset + 1, Len(messages)) ELSE <<>>

ReceivedBy(c) ==
    IF Counted(c) THEN [i \in DOMAIN view[c].log |-> messages[view[c].log[i]]] ELSE <<>>

Chat ==
    INSTANCE InOrder WITH
      Receiver <- Client,
      Thing <- Message,
      sent <- [c \in Client |-> SentTo(c)],
      received <- [c \in Client |-> ReceivedBy(c)]

ChatIsDelivered == Chat!Spec

\* SYNC and END are the last thing to be told: when either is written there is
\* nothing about the game that the client has not been told before it.
SyncIsLast ==
    [][\A c \in Client :
         LET sent == wire'[c] \o out'[c] IN
         /\ Len(sent) > Len(wire[c] \o out[c])
         /\ Last(sent).kind \in {"SYNC", "END"}
         /\ conn'[c].follows
         => LET v == ViewToBe(c)' IN
            /\ v.flags = flags
            /\ InSeats \subseteq v.names
            /\ \A i \in 0 .. Len(tiles) - 1 : v.tiles[i] = tiles[i + 1]
            /\ v.nTiles = totalNTiles
            /\ v.language = language
            /\ conn'[c].messageNum = Len(messages)
      ]_<<out, wire>>

\* What a command refers to comes before the command.
ReferentsFirst ==
    [][\A c \in Client : view'[c] # view[c] /\ wire'[c] # wire[c] =>
         LET command == Head(wire[c]) IN
         /\ command.kind # "PLAYER_ID" /\ command.kind # "ERROR"
              => view[c].self # Nobody
         /\ command.kind \in {"PLAYER", "PLAYER_SHOUTED"}
              => command.num \in view[c].names
         /\ command.kind = "MESSAGE"
              => messages[command.num].player \in view[c].names
         /\ command.kind = "TILE" =>
              /\ command.num < view[c].nTiles
              /\ view[c].language = bag
              /\ command.value.lastPlayer \in view[c].names \cup {Nobody}
      ]_view

\* A client is told what a command refers to before the command: the names
\* before flags, shouts, messages and moves of their players, the number of
\* tiles and the language before the first tile, its own id first of all, and
\* SYNC and END last.
ToldInOrder == SyncIsLast /\ ReferentsFirst

\* What doc/protocol.txt says of RECONNECT: a player the server recognises
\* goes on from the last message received.
ReconnectResumes ==
    \A c \in Client :
      LET log == ViewToBe(c).log IN
      /\ conn[c].state # "REFUSED"
      /\ \A i \in 1 .. Len(log) - 1 : log[i + 1] = log[i] + 1

\* The server keeps writing and the network keeps carrying; a client that
\* lost its connection tries again.
Fairness ==
    \A c \in Client :
      /\ <>[]CanWrite(c) => []<><<HandleWrite(c)>>_allVars
      /\ WF_allVars(Receive(c))
      /\ <>[](CanConnect(c) /\ view[c].self # Nobody) => []<><<Reconnect(c)>>_allVars

FairSpec == LinkSpec /\ Fairness

\* Once the game is quiet and connections hold, a client that has an id has
\* been told all there is about the game and keeps its chat complete.
UpToDate(c) ==
    \/ view[c].over
    \/ /\ view[c].flags = flags
       /\ InSeats \subseteq view[c].names
       /\ \A i \in 0 .. Len(tiles) - 1 : view[c].tiles[i] = tiles[i + 1]
       /\ view[c].nTiles = totalNTiles
       /\ view[c].language = language
       /\ Len(view[c].log) = Len(messages) - person[c].offset

Quiet == UNCHANGED game /\ \A c \in Client : ~Lose(c)

EventuallyUpToDate ==
    <>[][Quiet]_allVars =>
      <>[](\A c \in Client : view[c].self # Nobody /\ ~person[c].byId
                               => UpToDate(c))

\* What doc/protocol.txt says of END: it is sent when the player has left.
LeaverIsTold ==
    \A c \in Client :
      conn[c].follows /\ ~IsConnected(person[c].seat)
        ~> view[c].over \/ conn[c].state = "CLOSED"
=============================================================================
