------------------------------ MODULE WebClient ------------------------------
(***************************************************************************)
(* The client in a web page (web/verda-sxtelo.js): one ChatSession, whose  *)
(* callbacks (the WebSocket's, the timers' and the player's) each run to   *)
(* their end, and a server that answers as src/server does.  The socket    *)
(* keeps what was sent in order but may break at any time with all that is *)
(* on its way; the page hears of that later, and tries again after a       *)
(* while, until it has failed MaxFailures times in a row.                  *)
(***************************************************************************)
EXTENDS Integers, Sequences, SequencesExt

CONSTANTS
    MaxFailures,   \* failures in a row after which the page gives up (20)
    Place,         \* where the tile can lie
    Plays,         \* bound: what players do in an instance, sets of acts
    MaxSaid,       \* bound: messages of the chat
    MaxDrags,      \* bound: times that the tile is dragged to another place
    MaxBreaks,     \* bound: connections that break or cannot be made
    Cap            \* bound: commands on their way, in each direction

Nowhere == "nowhere"

ASSUME WebAssumption ==
    /\ MaxFailures \in Nat \ {0} /\ Cap \in Nat \ {0}
    /\ Nowhere \notin Place
    /\ MaxSaid \in Nat /\ MaxDrags \in Nat /\ MaxBreaks \in Nat
    /\ Plays \subseteq SUBSET {"JOIN", "CHAT", "TURN", "DRAG", "NUDGE", "TYPE",
                             "SHOUT", "QUIT"}

VARIABLES
    page,   \* the ChatSession and what the page shows of the game
    net,    \* the socket: commands each way, and how many wait in the browser
    srv,    \* the server: the game and the person and connection of the page
    play    \* what the players do, that never changes

vars == <<page, net, srv, play>>

NoOne == "no one"
Me == "me"
Other == "other"

-----------------------------------------------------------------------------
(* The page: its constructor, the socket and the timers.                   *)

NewPage ==
    [state |-> "welcome", sock |-> "none", wait |-> FALSE, failures |-> 0,
     keepAlive |-> FALSE, person |-> FALSE, synced |-> FALSE, shown |-> <<>>,
     at |-> Nowhere, drawn |-> Nowhere, drag |-> "none", dirty |-> FALSE,
     resend |-> FALSE, drags |-> 0, text |-> FALSE, typing |-> FALSE,
     shouting |-> NoOne, shoutTimer |-> FALSE, threw |-> FALSE]

NoNet == [state |-> "none", up |-> <<>>, buffered |-> 0, down |-> <<>>, breaks |-> 0]
Unlinked(n) == [NoNet EXCEPT !.breaks = n.breaks]

Connecting(p) == [p EXCEPT !.sock = "connecting"]

\* disconnect: the socket goes, with the timers that would write to it.
Disconnected(p) ==
    [p EXCEPT !.wait = FALSE, !.sock = "none",
              !.keepAlive = IF p.sock = "none" THEN @ ELSE FALSE,
              !.resend = IF p.sock = "none" THEN @ ELSE FALSE]

\* setError ends the game for this page.
InError(p) == [Disconnected(p) EXCEPT !.state = "error"]

\* Fault for a mutant: a page that has given up once more counts on.
AfterFailureForEver(p) ==
    [Disconnected(p) EXCEPT !.failures = @ + 1, !.state = "connecting",
                            !.wait = p.failures + 1 < MaxFailures]

\* sockErrorCb
AfterFailure(p) ==
    LET failed == [Disconnected(p) EXCEPT !.failures = @ + 1] IN
    IF failed.failures >= MaxFailures THEN InError(failed)
    ELSE [failed EXCEPT !.state = "connecting", !.wait = TRUE]

\* sendMessage: a socket that is not open throws, one that has broken swallows
\* the command; the time to the next KEEP_ALIVE starts again.
Sends(p) == [p EXCEPT !.keepAlive = @ \/ p.sock = "open",
                      !.threw = @ \/ p.sock # "open"]
Carries(n, command) ==
    IF n.state = "up"
    THEN [n EXCEPT !.up = Append(@, command), !.buffered = @ + 1] ELSE n
HasRoom == Len(net.up) < Cap

Send(p, command) ==
    /\ HasRoom
    /\ page' = Sends(p)
    /\ net' = Carries(net, command)

-----------------------------------------------------------------------------
(* Callbacks of the socket and of the timers.                              *)

\* start
Start ==
    /\ page.state = "welcome"
    /\ page' = [Connecting(page) EXCEPT !.state = "connecting"]
    /\ net' = [Unlinked(net) EXCEPT !.state = "connecting"]
    /\ UNCHANGED <<srv, play>>

ReconnectTimeout ==
    /\ page.wait
    /\ page' = Connecting([page EXCEPT !.wait = FALSE])
    /\ net' = [Unlinked(net) EXCEPT !.state = "connecting"]
    /\ UNCHANGED <<srv, play>>

\* The number of messages received that sockOpenCb sends: it names a field
\* that nothing sets, and setUint16 writes 0 for it.
NumMessagesReceived == 0

Header ==
    IF page.person THEN [kind |-> "RECONNECT", value |-> NumMessagesReceived]
    ELSE IF "JOIN" \in play THEN [kind |-> "JOIN_GAME"] ELSE [kind |-> "NEW_PLAYER"]

SockOpen ==
    /\ net.state = "connecting"
    /\ page' = Sends([page EXCEPT !.sock = "open"])
    /\ net' = Carries([net EXCEPT !.state = "up"], Header)
    /\ srv' = [srv EXCEPT !.conn = "new"]
    /\ UNCHANGED play

SockError ==
    /\ net.state = "broken"
    /\ page' = AfterFailure(page)
    /\ net' = Unlinked(net)
    /\ UNCHANGED <<srv, play>>

KeepAlive ==
    /\ page.keepAlive
    /\ IF page.sock = "none" THEN page' = [page EXCEPT !.keepAlive = FALSE] /\ UNCHANGED net
       ELSE Send([page EXCEPT !.keepAlive = FALSE], [kind |-> "KEEP_ALIVE"])
    /\ UNCHANGED <<srv, play>>

\* trySendTiles: the position is the one that is known when it is sent.
Flooded == net.buffered > 0
TrySendTiles(p) ==
    IF p.state # "in-progress" \/ ~p.dirty
    THEN page' = [p EXCEPT !.resend = FALSE] /\ UNCHANGED net
    ELSE IF Flooded THEN page' = [p EXCEPT !.resend = TRUE] /\ UNCHANGED net
    ELSE Send([p EXCEPT !.resend = FALSE, !.dirty = FALSE],
              [kind |-> "MOVE_TILE", value |-> p.at])

\* A timer that finds the socket still flooded starts again: a stutter.
ResendTimeout ==
    /\ page.resend /\ ~Flooded
    /\ TrySendTiles(page)
    /\ UNCHANGED <<srv, play>>

\* stopShout, from its timer
ShoutStops ==
    /\ page.shoutTimer
    /\ page' = [page EXCEPT !.shoutTimer = FALSE, !.shouting = NoOne]
    /\ UNCHANGED <<net, srv, play>>

-----------------------------------------------------------------------------
(* messageCb: what a command of the server does to the page.               *)

InPlay(p) == [p EXCEPT !.person = TRUE, !.failures = 0, !.state = "in-progress"]

\* Fault for a mutant: tiles move when the game is known.
TileMovedAfterSync(p, tile) ==
    [p EXCEPT !.at = tile.at,
              !.drawn = IF p.synced /\ tile.by # Me THEN tile.at ELSE @]

\* handleTile moves the element only for others, and only away from where the
\* page believes the tile to be; what it believes always changes.
TileMoved(p, tile) ==
    [p EXCEPT !.at = tile.at,
              !.drawn = IF p.at = Nowhere
                        THEN IF tile.by = Me THEN Nowhere ELSE tile.at
                        ELSE IF tile.by # Me /\ tile.at # p.at THEN tile.at ELSE @]

Received(p, command) ==
    CASE command.kind = "PLAYER_ID" -> InPlay(p)
      [] command.kind = "MESSAGE" -> [p EXCEPT !.shown = Append(@, command.value)]
      [] command.kind = "TILE" -> TileMoved(p, command.value)
      [] command.kind = "PLAYER_SHOUTED" ->
           [p EXCEPT !.shouting = command.value, !.shoutTimer = TRUE]
      [] command.kind = "SYNC" -> [p EXCEPT !.synced = TRUE]
      [] OTHER -> InError(p)

Over(command) == command.kind \in {"END", "BAD_PLAYER_ID", "BAD_CONVERSATION_ID",
                                   "CONVERSATION_FULL"}

Message ==
    /\ page.sock = "open" /\ net.state = "up" /\ net.down # <<>>
    /\ page' = Received(page, Head(net.down))
    /\ net' = IF Over(Head(net.down)) THEN Unlinked(net)
              ELSE [net EXCEPT !.down = Tail(@)]
    /\ srv' = IF Over(Head(net.down)) THEN [srv EXCEPT !.conn = "none"] ELSE srv
    /\ UNCHANGED play

-----------------------------------------------------------------------------
(* The player.                                                             *)

Playing == page.state = "in-progress"

\* canTurn: before the first tile anybody may turn.
Turn ==
    /\ "TURN" \in play /\ Playing
    /\ page.at = Nowhere /\ page.shouting = NoOne
    /\ Send(page, [kind |-> "TURN"])
    /\ UNCHANGED <<srv, play>>

DragStart ==
    /\ "DRAG" \in play /\ Playing
    /\ page.drawn # Nowhere /\ page.drag = "none"
    /\ page.shouting \in {NoOne, Me}
    /\ page' = [page EXCEPT !.drag = "held"]
    /\ UNCHANGED <<net, srv, play>>

\* dirtyTile for a tile that is put somewhere: it may also be where it was.
PutAt(p, place) ==
    TrySendTiles([p EXCEPT !.at = place, !.drawn = place, !.dirty = TRUE,
                           !.drags = @ + 1])

DragMove ==
    /\ page.drag # "none" /\ Playing /\ page.drags < MaxDrags
    /\ \E place \in Place : PutAt([page EXCEPT !.drag = "moved"], place)
    /\ UNCHANGED <<srv, play>>

\* dragCancel, and dragEnd when the tile was moved or no other was before
DragEnd ==
    /\ page.drag # "none"
    /\ page' = [page EXCEPT !.drag = "none"]
    /\ UNCHANGED <<net, srv, play>>

\* dragEnd for a tile that was only touched: it goes beside the tile that was
\* moved last, which is any other tile of the board.
DragEndBesideAnother ==
    /\ page.drag = "held" /\ Playing /\ page.drags < MaxDrags
    /\ \E place \in Place : PutAt([page EXCEPT !.drag = "none"], place)
    /\ UNCHANGED <<srv, play>>

\* inputCb: the message box, enabled while the game is in progress, is filled
\* or emptied.
Input ==
    /\ "TYPE" \in play /\ Playing
    /\ LET p == [page EXCEPT !.text = ~@] IN
       IF p.text # p.typing
       THEN Send([p EXCEPT !.typing = p.text],
                 [kind |-> "TYPING", value |-> p.text])
       ELSE page' = p /\ UNCHANGED net
    /\ UNCHANGED <<srv, play>>

\* The messages that were said and those that are on their way.
Spoken == srv.said + Len(SelectSeq(net.up, LAMBDA c : c.kind = "SEND_MESSAGE"))

\* Fault for a mutant: the page does not know that a message ends the typing.
SentStillTyping(p) == [p EXCEPT !.text = FALSE]

\* sendCurrentMessage: the server takes it that whoever sends a message has
\* stopped typing.
Sent(p) == [p EXCEPT !.text = FALSE, !.typing = FALSE]

SendCurrentMessage ==
    /\ page.sock = "open" /\ Playing
    /\ page.text \/ "CHAT" \in play
    /\ Spoken < MaxSaid
    /\ Send(Sent(page), [kind |-> "SEND_MESSAGE"])
    /\ UNCHANGED <<srv, play>>

Shout ==
    /\ "SHOUT" \in play /\ Playing /\ page.shouting = NoOne
    /\ Send(page, [kind |-> "SHOUT"])
    /\ UNCHANGED <<srv, play>>

\* unloadCb: the socket still delivers what was sent before it was closed, but
\* its handlers are gone.
Unload ==
    /\ "QUIT" \in play /\ page.state \in {"connecting", "in-progress"}
    /\ IF page.sock = "open"
       THEN /\ HasRoom
            /\ page' = [Disconnected(Sends(page)) EXCEPT !.state = "unloaded"]
            /\ net' = IF net.state = "up" THEN Carries(net, [kind |-> "LEAVE"])
                      ELSE Unlinked(net)
       ELSE /\ page' = [Disconnected(page) EXCEPT !.state = "unloaded"]
            /\ net' = Unlinked(net)
    /\ UNCHANGED <<srv, play>>

-----------------------------------------------------------------------------
(* The server, as far as the page can tell.  The connection tells what is  *)
(* due in the order of fill_output_buffer.                                 *)

NewServer == [person |-> "none", offset |-> 0, next |-> 0, conn |-> "none",
              todo |-> {}, said |-> 0, tile |-> [at |-> Nowhere, by |-> NoOne],
              shouting |-> NoOne, typing |-> FALSE]

Init ==
    /\ page = NewPage
    /\ net = NoNet
    /\ srv = NewServer
    /\ play \in Plays

\* start_following_person
Following(next) ==
    [srv EXCEPT !.conn = "open", !.next = next,
                !.todo = {"PLAYER_ID", "SYNC"}
                           \cup {t \in {"TILE"} : srv.tile.at # Nowhere}]
Refusing(kind) == [srv EXCEPT !.conn = "open", !.todo = {kind}, !.next = srv.said]

Entered(next) == [Following(next) EXCEPT !.person = "known", !.offset = srv.said]

Told(s, kind) == IF s.conn = "open" THEN [s EXCEPT !.todo = @ \cup {kind}] ELSE s

Moved(s, place, by) ==
    IF s.tile.at = place THEN s
    ELSE Told([s EXCEPT !.tile = [at |-> place, by |-> by]], "TILE")

Shouted(s, by) == Told([s EXCEPT !.shouting = by], "PLAYER_SHOUTED")

\* The commands of a player in the game.
Obeyed(command) ==
    CASE command.kind = "TURN" ->
           IF srv.tile.at # Nowhere THEN {srv}
           ELSE {Moved(srv, place, NoOne) : place \in Place}
      [] command.kind = "MOVE_TILE" -> {Moved(srv, command.value, Me)}
      [] command.kind = "SEND_MESSAGE" ->
           {[srv EXCEPT !.said = @ + 1, !.typing = FALSE]}
      [] command.kind = "TYPING" -> {[srv EXCEPT !.typing = command.value]}
      [] command.kind = "SHOUT" -> {srv, Shouted(srv, Me)}
      [] command.kind = "LEAVE" -> {Told([srv EXCEPT !.person = "gone"], "END")}
      [] command.kind = "KEEP_ALIVE" -> {srv}

Heard(command) ==
    CASE command.kind = "NEW_PLAYER" -> {Entered(srv.said)}
      [] command.kind = "JOIN_GAME" ->
           {Entered(0), Refusing("BAD_CONVERSATION_ID"), Refusing("CONVERSATION_FULL")}
      [] command.kind = "RECONNECT" ->
           {IF srv.person = "known" THEN Following(srv.offset + command.value)
            ELSE Refusing("BAD_PLAYER_ID")}
      [] OTHER -> IF srv.person = "known" THEN Obeyed(command) ELSE {Told(srv, "END")}

ServerReads ==
    /\ net.state = "up" /\ srv.conn # "none"
    /\ Len(net.up) > net.buffered
    /\ srv' \in Heard(Head(net.up))
    /\ net' = [net EXCEPT !.up = Tail(@)]
    /\ UNCHANGED <<page, play>>

Order == <<"PLAYER_ID", "PLAYER_SHOUTED", "TILE", "MESSAGE", "END", "BAD_PLAYER_ID",
           "BAD_CONVERSATION_ID", "CONVERSATION_FULL", "SYNC">>
Due == srv.todo \cup {t \in {"MESSAGE"} : srv.next < srv.said}
First == Order[CHOOSE i \in DOMAIN Order :
                 Order[i] \in Due /\ \A j \in 1..(i - 1) : Order[j] \notin Due]

CanTell == /\ net.state = "up" /\ srv.conn = "open"
           /\ Due # {} /\ Len(net.down) < Cap

ServerTells ==
    /\ CanTell
    /\ LET value == CASE First = "MESSAGE" -> srv.next + 1
                      [] First = "TILE" -> srv.tile
                      [] First = "PLAYER_SHOUTED" -> srv.shouting
                      [] OTHER -> 0
       IN net' = [net EXCEPT !.down = Append(@, [kind |-> First, value |-> value])]
    /\ srv' = [srv EXCEPT !.todo = @ \ {First},
                          !.next = IF First = "MESSAGE" THEN @ + 1 ELSE @]
    /\ UNCHANGED <<page, play>>

\* Other players, and a person who was silent for too long.
OtherPlays ==
    /\ \/ /\ "CHAT" \in play /\ Spoken < MaxSaid
          /\ srv' = [srv EXCEPT !.said = @ + 1]
       \/ /\ "NUDGE" \in play /\ srv.tile.at # Nowhere /\ srv.tile.by # Other
          /\ \E place \in Place \ {srv.tile.at} : srv' = Moved(srv, place, Other)
       \/ /\ "SHOUT" \in play /\ srv.shouting # Other
          /\ srv' = Shouted(srv, Other)
    /\ UNCHANGED <<page, net, play>>

Forgotten ==
    /\ srv.person = "known" /\ srv.conn = "none"
    /\ srv' = [srv EXCEPT !.person = "gone"]
    /\ UNCHANGED <<page, net, play>>

Transmit ==
    /\ net.buffered > 0
    /\ net' = [net EXCEPT !.buffered = @ - 1]
    /\ UNCHANGED <<page, srv, play>>

Break ==
    /\ net.state \in {"connecting", "up"}
    /\ net.breaks < MaxBreaks \/ page.state = "unloaded"
    /\ net' = IF page.state = "unloaded" THEN Unlinked(net)
              ELSE [NoNet EXCEPT !.state = "broken", !.breaks = net.breaks + 1]
    /\ srv' = [srv EXCEPT !.conn = "none", !.todo = {}]
    /\ UNCHANGED <<page, play>>

Player == Turn \/ DragStart \/ DragMove \/ DragEnd \/ DragEndBesideAnother
            \/ Input \/ SendCurrentMessage \/ Shout \/ Unload
Callback == ReconnectTimeout \/ SockOpen \/ SockError \/ Message \/ ResendTimeout
              \/ ShoutStops

Next == \/ Start \/ Callback \/ KeepAlive \/ Player
        \/ ServerReads \/ ServerTells \/ OtherPlays \/ Forgotten
        \/ Transmit \/ Break

Spec == Init /\ [][Next]_vars

\* Timers and the socket call back, the browser transmits and the server
\* answers; what players do, and what breaks, is not certain.
FairSpec ==
    /\ Spec
    /\ WF_vars(Callback) /\ WF_vars(Transmit)
    /\ WF_vars(ServerReads) /\ WF_vars(ServerTells)

-----------------------------------------------------------------------------
(* Properties.                                                             *)

\* The state has its type, and the timers are those that the state calls for:
\* while it connects, either a socket or the timer for the next one exists, and
\* a timer that would write to the socket only while the socket is open, so that
\* no callback ever throws and leaves its work half done.
WebTypeOK ==
    /\ page.state \in {"welcome", "connecting", "in-progress", "error", "unloaded"}
    /\ page.sock \in {"none", "connecting", "open"}
    /\ page.failures \in 0..MaxFailures
    /\ page.at \in Place \cup {Nowhere} /\ page.drawn \in Place \cup {Nowhere}
    /\ net.buffered \in 0..Len(net.up) /\ Len(net.down) <= Cap
    /\ page.state = "connecting" => (page.wait <=> page.sock = "none")
    /\ page.state \in {"error", "unloaded"} => ~page.wait /\ page.sock = "none"
    /\ Playing => page.sock = "open"
    /\ page.keepAlive => page.sock = "open"
    /\ page.resend => Playing /\ page.dirty
    /\ page.shoutTimer <=> page.shouting # NoOne
    /\ ~page.threw

\* Nothing is on its way between a page in the game and the server.
AtRest ==
    /\ Playing /\ net.state = "up" /\ srv.person = "known"
    /\ net.up = <<>> /\ net.down = <<>> /\ srv.todo = {}

\* As long as the connection has not broken, the server comes to know whether
\* there is text in the message box, though the page tells only changes and
\* sending the text is not one.
TypingIsKnown == AtRest /\ net.breaks = 0 => (srv.typing <=> page.text)

\* The timers and sockets are those that the state calls for, and what the
\* server thinks of the typing is right once all is at rest.
WebSound == WebTypeOK /\ TypingIsKnown

\* Someone who only watches is shown the tile where it is on the server, also
\* after connections were lost and what happened meanwhile was not told.
TileIsShown == AtRest /\ "DRAG" \notin play => page.drawn = srv.tile.at

\* A page that connects is in the game in the end, or says that it cannot be.
GetsIn == (page.state = "connecting") ~> (page.state # "connecting")

\* doc/protocol.txt has the client say at a RECONNECT how many messages it has
\* received, so that it shows each message since it joined once and in order.
ShownOnce ==
    srv.person = "known" =>
        IsPrefix(page.shown, [i \in 1..(srv.said - srv.offset) |-> srv.offset + i])

\* dirtyTiles is the "Set of the tile numbers that need their position to be
\* sent to the server": while the connection lasts and nobody else moves the
\* tile, it comes to lie on the server where this page shows it.
MovesAreSent ==
    AtRest /\ net.breaks = 0 /\ "NUDGE" \notin play /\ ~page.dirty
        => page.drawn = srv.tile.at
=============================================================================
