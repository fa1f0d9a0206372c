---------------------------- MODULE TilePainter -----------------------------
(***************************************************************************)
(* Moving tiles on the board of the C client: the gestures of               *)
(* src/client/vsx-game-painter.c, the tiles of vsx-tile-painter.c and the   *)
(* dialog above them (vsx-dialog-painter.c).                                *)
(*                                                                          *)
(* A tile that the player moves is shown where it was put before the server *)
(* has heard of it.  Until then its position overrides the server's, and    *)
(* the override ends when somebody else moves the tile, when somebody       *)
(* shouts or three seconds after the last move.  What is shown changes with *)
(* the input, with the events of the connection and with the frames of the  *)
(* animations, and reaches the screen only when a frame is drawn.           *)
(***************************************************************************)
EXTENDS Naturals, Sequences

CONSTANTS
    Tile,         \* the tiles of a game
    Width,        \* how many tiles the board is wide
    DownCap,      \* bound of the model: tiles on their way to the client
    Plans         \* bound of the model: what may happen, and how often

None == "none"

ASSUME BoardAssumption ==
    /\ None \notin Tile
    /\ Width \in Nat \ {0}
    /\ DownCap \in Nat \ {0}
    /\ \A plan \in Plans :
         /\ {plan.presses, plan.moves, plan.others, plan.breaks} \subseteq Nat
         /\ plan.dialog \in {None, "INVITE"}
         /\ plan.dealt \in [Tile -> 0 .. Width]

VARIABLES
    board,  \* the tiles as the tile painter keeps them
    hand,   \* the fingers on the screen
    ui,     \* the dialog, the shout and the frames
    net,    \* the moves to send, the server's tiles and what it tells
    put,    \* where the player has left a tile, as long as nobody disturbs it
    fresh,  \* whether the last frame shows the tiles where they now are
    left    \* what may still happen within the bounds

state == <<board, hand, ui, net, put, left>>
vars == <<state, fresh>>

Place == 1 .. Width
\* Beside the board: where the buttons are and where new tiles come from.  Of
\* a history, that there is nothing to remember.
Aside == 0
\* On the way from one place to another.
Between == Width + 1
Finger == {1, 2}

NoTile == [known |-> FALSE, shown |-> Aside, target |-> Aside,
           server |-> Aside, overridden |-> FALSE, animating |-> FALSE]
NoSnap == [tile |-> None, place |-> Aside]

EmptyBoard == [tile |-> [t \in Tile |-> NoTile], dragging |-> None,
               snap |-> NoSnap, timeout |-> FALSE]
NoHand == [pressed |-> {}, at |-> [f \in Finger |-> Aside], maybeClick |-> FALSE]
NotPlaying == [at |-> Aside, by |-> None]
NewGame == [unsent |-> [t \in Tile |-> Aside],
            server |-> [t \in Tile |-> NotPlaying],
            dirty |-> {}, down |-> <<>>, synced |-> TRUE]

\* The tiles of a game that a painter created now would show: where the game
\* state last heard that they are.
Created(places) ==
    [EmptyBoard EXCEPT
       !.tile = [t \in Tile |->
                   IF places[t] = Aside THEN NoTile
                   ELSE [NoTile EXCEPT !.known = TRUE, !.shown = places[t],
                                       !.target = places[t],
                                       !.server = places[t]]]]

\* create_cb.  Some tiles are already in play, or the invitation is shown that
\* follows the name of the player.
Init ==
    /\ left \in Plans
    /\ board = Created(left.dealt)
    /\ hand = NoHand
    /\ ui = [dialog |-> left.dialog, child |-> None, shouting |-> FALSE,
             redraw |-> TRUE, ready |-> FALSE]
    /\ net = [NewGame EXCEPT !.server = [t \in Tile |->
                 IF left.dealt[t] = Aside THEN NotPlaying
                 ELSE [at |-> left.dealt[t], by |-> "them"]]]
    /\ put = [t \in Tile |-> Aside]
    /\ fresh = FALSE

Known == {t \in Tile : board.tile[t].known}
Redraw == ui' = [ui EXCEPT !.redraw = TRUE]
Use(what) == left[what] > 0 /\ left' = [left EXCEPT ![what] = @ - 1]
NothingMoves == UNCHANGED <<board, ui, net, put>>

-----------------------------------------------------------------------------
(* The tiles of the tile painter.                                           *)

StartAnimation(x) == [x EXCEPT !.animating = (x.shown # x.target)]

\* Fault for a mutant: the tile stays where the player has it.
CancelOverrideInPlace(b, t) ==
    [b EXCEPT !.tile[t].overridden = FALSE,
              !.dragging = IF @ = t THEN None ELSE @]

CancelOverride(b, t) ==
    IF ~b.tile[t].overridden THEN b
    ELSE [b EXCEPT !.tile[t] = StartAnimation([@ EXCEPT !.overridden = FALSE,
                                                        !.target = b.tile[t].server]),
                   !.dragging = IF @ = t THEN None ELSE @]

CancelAllOverrides(b) ==
    [b EXCEPT !.tile = [t \in Tile |-> CancelOverride(b, t).tile[t]],
              !.dragging = IF @ # None /\ b.tile[@].overridden THEN None ELSE @,
              !.timeout = FALSE]

\* override_tile: and the three seconds start again.
OverrideTile(b, t) == [b EXCEPT !.timeout = TRUE, !.tile[t].overridden = TRUE]

\* Fault for a mutant: the server has the last word at once.
EventAlwaysMoves(b, e) ==
    [b EXCEPT !.tile[e.tile] =
       StartAnimation([@ EXCEPT !.known = TRUE, !.server = e.place, !.target = e.place])]

\* handle_tile_event.  A new tile comes from the side of the board.  What the
\* player has moved stays where it is unless somebody else moves it too.
HandleTileEvent(b, e) ==
    LET t == e.tile
        heard == [b.tile[t] EXCEPT !.known = TRUE, !.server = e.place]
        moved == [heard EXCEPT !.target = e.place]
        after == IF ~heard.overridden
                 THEN [b EXCEPT !.tile[t] =
                         IF net.synced THEN StartAnimation(moved)
                         ELSE [moved EXCEPT !.shown = e.place, !.animating = FALSE]]
                 ELSE IF e.by = "me" THEN [b EXCEPT !.tile[t] = heard]
                 ELSE CancelOverride([b EXCEPT !.tile[t] = heard], t)
    IN IF ~b.tile[t].known \/ e.by # "me"
       THEN [after EXCEPT !.snap = NoSnap]
       ELSE after

\* The tiles that a finger can have found: one that is there, one that is
\* passing or, at the edge, one that waits beside the board.  Which tile lies
\* on top of which is left open.
TilesAt(place) ==
    LET there == {t \in Known : board.tile[t].shown = place}
        near == {t \in Known : \/ board.tile[t].shown = Between
                               \/ /\ board.tile[t].shown = Aside
                                  /\ place = Width}
    IN IF place = Aside THEN {None}
       ELSE there \cup near \cup {n \in {None} : there = {}}

\* What is on its way about a tile, and whether it comes from somebody else.
Outstanding(t) ==
    \/ net.unsent[t] # Aside
    \/ t \in net.dirty
    \/ \E i \in DOMAIN net.down : net.down[i].tile = t
Contested(t) ==
    \/ ui.shouting
    \/ t \in net.dirty /\ net.server[t].by # "me"
    \/ \E i \in DOMAIN net.down : net.down[i].tile = t /\ net.down[i].by # "me"

\* What the player has put somewhere stays put only if the server knows of it.
Forget(some) == put' = [t \in Tile |-> IF t \in some THEN Aside ELSE put[t]]
Unsettled == {t \in Tile : Outstanding(t)}

\* vsx_connection_move_tile: only the last place of a tile is kept.
SendMove(t, place) ==
    /\ net' = [net EXCEPT !.unsent[t] = place]
    /\ put' = [put EXCEPT ![t] = IF Contested(t) THEN Aside ELSE place]

-----------------------------------------------------------------------------
(* Input events, which the topmost painter sees first.                      *)

\* A dialog takes every drag.
Blocked == ui.child # None

DragStart(place) ==
    IF Blocked THEN NothingMoves
    ELSE /\ \E t \in (IF ui.shouting THEN {None} ELSE TilesAt(place)) :
              IF t = None
              THEN /\ board' = [board EXCEPT !.dragging = None]
                   /\ UNCHANGED ui
              ELSE /\ board' = [OverrideTile(board, t) EXCEPT
                                  !.dragging = t, !.tile[t].animating = FALSE]
                   /\ Redraw
         /\ UNCHANGED <<net, put>>

\* handle_drag: the tile follows the finger and the next one will be snapped to
\* its right.
Drag(place, maybeClick) ==
    LET t == board.dragging IN
    IF \/ Blocked
       \/ t = None
       \/ maybeClick
       \/ place = Aside
       \/ board.tile[t].shown = place
    THEN NothingMoves
    ELSE /\ board' = [OverrideTile(board, t) EXCEPT
                        !.tile[t].shown = place,
                        !.snap = [tile |-> t, place |-> place + 1]]
         /\ SendMove(t, place)
         /\ Redraw

\* The clicked tile goes next to the last one.
Snap(t) ==
    LET place == board.snap.place IN
    /\ board' = [OverrideTile(board, t) EXCEPT
                    !.tile[t] = StartAnimation([@ EXCEPT !.target = place]),
                    !.snap = [tile |-> t, place |-> place + 1]]
    /\ SendMove(t, place)
    /\ Redraw

\* handle_click of the tile painter.
ClickTile(place) ==
    IF ui.shouting \/ board.snap = NoSnap THEN NothingMoves
    ELSE IF board.snap.place > Width
    THEN /\ board' = [board EXCEPT !.snap = NoSnap]
         /\ UNCHANGED <<ui, net, put>>
    ELSE \E t \in TilesAt(place) :
           IF t \in {None, board.snap.tile} THEN NothingMoves ELSE Snap(t)

SetDialog(dialog) ==
    /\ ui' = [ui EXCEPT !.dialog = dialog, !.redraw = @ \/ ui.dialog # dialog]
    /\ UNCHANGED <<board, net, put>>

\* The dialog closes, stays or, from the menu, leads to another one.  Before its
\* texture is made the one with the invitation lets clicks through.
ClickDialog(place) ==
    \/ SetDialog(None)
    \/ ui.child = "MENU" /\ (NothingMoves \/ SetDialog("INVITE"))
    \/ ui.child = "INVITE" /\ (NothingMoves \/ ClickTile(place))

Click(place) ==
    IF ui.child # None THEN ClickDialog(place)
    ELSE IF place = Aside THEN NothingMoves \/ SetDialog("MENU")
    ELSE ClickTile(place)

-----------------------------------------------------------------------------
(* The gestures of vsx-game-painter.c, as the shells report them.           *)

\* store_drag_start: with one finger left on the screen a drag starts from where
\* it is, with two the board is zoomed.
StoreDragStart ==
    IF \E f \in Finger : hand'.pressed = {f}
    THEN DragStart(hand'.at[CHOOSE f \in Finger : hand'.pressed = {f}])
    ELSE NothingMoves

\* vsx_game_painter_press_finger.
PressFinger(f, place) ==
    /\ f \notin hand.pressed
    /\ Use("presses")
    /\ hand' = [pressed |-> hand.pressed \cup {f},
                at |-> [hand.at EXCEPT ![f] = place],
                maybeClick |-> hand.pressed = {} /\ f = 1]
    /\ StoreDragStart

\* vsx_game_painter_release_finger.
ReleaseFinger(f) ==
    LET others == hand.pressed \ {f} IN
    /\ f \in hand.pressed
    /\ hand' = [pressed |-> others, at |-> [hand.at EXCEPT ![f] = Aside],
                maybeClick |-> FALSE]
    /\ IF others = {} /\ hand.maybeClick THEN Click(hand.at[1]) ELSE StoreDragStart
    /\ UNCHANGED left

\* vsx_game_painter_move_finger.  How far from its start a finger is can be more
\* than a click allows, or not.
MoveFinger(f, place, far) ==
    LET maybeClick == hand.maybeClick /\ ~(f = 1 /\ far) IN
    /\ f \in hand.pressed
    /\ Use("moves")
    /\ hand' = [hand EXCEPT !.at[f] = place, !.maybeClick = maybeClick]
    /\ IF hand.pressed = {f} THEN Drag(place, maybeClick) ELSE NothingMoves

\* vsx_game_painter_cancel_gesture.
CancelGesture ==
    /\ hand.pressed # {}
    /\ hand' = NoHand
    /\ NothingMoves
    /\ UNCHANGED left

\* click_timeout_cb: the finger is held too long for a click.
ClickTimeout ==
    /\ hand.maybeClick
    /\ hand' = [hand EXCEPT !.maybeClick = FALSE]
    /\ Drag(hand.at[1], FALSE)
    /\ UNCHANGED left

-----------------------------------------------------------------------------
(* Time and frames.                                                         *)

\* Fault for a mutant: nobody asks for a frame.
OverrideTimeoutUnseen ==
    /\ board.timeout
    /\ board' = CancelAllOverrides(board)
    /\ Forget(Unsettled)
    /\ UNCHANGED <<hand, ui, net, left>>

\* cancel_overrides_cb, three seconds after the last move.
OverrideTimeout ==
    /\ board.timeout
    /\ board' = CancelAllOverrides(board)
    /\ IF \E t \in Known : board.tile[t].overridden THEN Redraw ELSE UNCHANGED ui
    /\ Forget(Unsettled)
    /\ UNCHANGED <<hand, net, left>>

\* remove_shout_cb of the game state; the names on the board are drawn again.
ShoutEnds ==
    /\ ui.shouting
    /\ ui' = [ui EXCEPT !.shouting = FALSE, !.redraw = TRUE]
    /\ UNCHANGED <<board, hand, net, put, left>>

\* The image of the tiles has been loaded.
ToolReady ==
    /\ ~ui.ready
    /\ ui' = [ui EXCEPT !.ready = TRUE, !.redraw = @ \/ Known # {}]
    /\ UNCHANGED <<board, hand, net, put, left>>

Drawn == ui.ready /\ Known # {}
CancelsToDraw == Drawn /\ ui.shouting
ToDraw == IF CancelsToDraw THEN CancelAllOverrides(board) ELSE board

\* update_tile_animations, when those of the tiles in over have come to their
\* end.
Animated(b, over) ==
    [b EXCEPT !.tile = [t \in Tile |->
        IF ~b.tile[t].animating THEN b.tile[t]
        ELSE IF t \in over
        THEN [b.tile[t] EXCEPT !.shown = b.tile[t].target,
                               !.animating = FALSE]
        ELSE [b.tile[t] EXCEPT !.shown = Between]]]

\* vsx_game_painter_paint: the dialog painter takes the dialog that is to be
\* shown, and the tile painter draws the tiles and asks for another frame as
\* long as some are on their way.
PaintWith(over) ==
    LET animating == {t \in Tile : ToDraw.tile[t].animating} IN
    /\ ui.redraw
    /\ over \subseteq animating
    /\ board' = IF Drawn THEN Animated(ToDraw, over) ELSE board
    /\ ui' = [ui EXCEPT !.child = ui.dialog, !.redraw = Drawn /\ over # animating]
    /\ Forget(IF CancelsToDraw THEN Unsettled ELSE {})
    /\ fresh' = (Drawn \/ Known = {})
    /\ UNCHANGED <<hand, net, left>>

Paint == \E over \in SUBSET Tile : PaintWith(over)
\* A frame after the time of all the animations.
LastFrame == PaintWith({t \in Tile : ToDraw.tile[t].animating})

-----------------------------------------------------------------------------
(* The connection, the server and the other players.                        *)

\* A move reaches the server, which tells nobody of one that changes nothing.
Write(t) ==
    LET place == net.unsent[t]
        known == [net EXCEPT !.unsent[t] = Aside] IN
    /\ place # Aside
    /\ net' = IF net.server[t].at = place THEN known
              ELSE [known EXCEPT !.server[t] = [at |-> place, by |-> "me"],
                                 !.dirty = @ \cup {t}]
    /\ UNCHANGED <<board, hand, ui, put, left>>

\* The server tells where a tile is now.
Tell(t) ==
    /\ t \in net.dirty
    /\ Len(net.down) < DownCap
    /\ net' = [net EXCEPT !.dirty = @ \ {t},
                 !.down = Append(@, [tile |-> t, place |-> net.server[t].at,
                                     by |-> net.server[t].by])]
    /\ UNCHANGED <<board, hand, ui, put, left>>

\* The event reaches the game state, which closes the invitation when the first
\* tile comes, and the tile painter.
HandleEvent ==
    /\ net.down # <<>>
    /\ net' = [net EXCEPT !.down = Tail(@)]
    /\ board' = HandleTileEvent(board, Head(net.down))
    /\ ui' = [ui EXCEPT !.redraw = TRUE,
                        !.dialog = IF Known = {} /\ @ = "INVITE" THEN None ELSE @]
    /\ UNCHANGED <<hand, put, left>>

Sync ==
    /\ ~net.synced /\ net.dirty = {} /\ net.down = <<>>
    /\ net' = [net EXCEPT !.synced = TRUE]
    /\ UNCHANGED <<board, hand, ui, put, left>>

TellAbout(t, place) ==
    net' = [net EXCEPT !.server[t] = [at |-> place, by |-> "them"],
                       !.dirty = @ \cup {t}]

\* A tile is turned over where no other one lies.
NewTile(t, place) ==
    /\ net.server[t] = NotPlaying
    /\ \A u \in Tile : net.server[u].at # place
    /\ TellAbout(t, place)
    /\ UNCHANGED <<board, hand, ui, put, left>>

\* Another player moves a tile.
OtherMoves(t, place) ==
    /\ net.server[t].at \notin {place, Aside}
    /\ Use("others")
    /\ TellAbout(t, place)
    /\ Forget({t})
    /\ UNCHANGED <<board, hand, ui>>

\* Another player's shout reaches the game state, and the board is drawn again
\* with their name.
OtherShouts ==
    /\ Use("others")
    /\ ui' = [ui EXCEPT !.shouting = TRUE, !.redraw = TRUE]
    /\ UNCHANGED <<board, hand, net, put>>

\* The connection is lost with what the server told last and perhaps with a move
\* in the output buffer; the server tells everything again.
Lose ==
    /\ Use("breaks")
    /\ \E lost \in {{}} \cup {{t} : t \in {u \in Tile : net.unsent[u] # Aside}},
          n \in 0 .. Len(net.down) :
         net' = [net EXCEPT
                   !.unsent = [t \in Tile |-> IF t \in lost THEN Aside ELSE @[t]],
                   !.dirty = {t \in Tile : net.server[t] # NotPlaying},
                   !.down = SubSeq(@, 1, n),
                   !.synced = FALSE]
    /\ Forget(Unsettled)
    /\ UNCHANGED <<board, hand, ui>>

\* vsx_game_state_reset and clear_tiles: another game.
Reset ==
    /\ Use("breaks")
    /\ board' = EmptyBoard
    /\ net' = NewGame
    /\ ui' = [ui EXCEPT !.shouting = FALSE, !.redraw = TRUE]
    /\ Forget(Tile)
    /\ UNCHANGED hand

\* The surface is gone and everything that draws is created again: the tiles
\* are where the game state last heard that they are.
Recreate ==
    /\ Use("breaks")
    /\ board' = Created([t \in Tile |-> board.tile[t].server])
    /\ hand' = NoHand
    /\ ui' = [ui EXCEPT !.child = None, !.redraw = TRUE, !.ready = FALSE]
    /\ Forget(Unsettled)
    /\ UNCHANGED net

ShownOn(b) == [t \in Tile |-> <<b.tile[t].known, b.tile[t].shown>>]

Next ==
    \/ Paint
    \/ /\ \/ \E f \in Finger :
               \/ \E place \in {Aside} \cup Place :
                    \/ PressFinger(f, place)
                    \/ \E far \in BOOLEAN : MoveFinger(f, place, far)
               \/ ReleaseFinger(f)
          \/ CancelGesture
          \/ ClickTimeout
          \/ OverrideTimeout
          \/ ShoutEnds
          \/ ToolReady
          \/ \E t \in Tile :
               \/ Write(t)
               \/ Tell(t)
               \/ \E place \in Place : NewTile(t, place) \/ OtherMoves(t, place)
          \/ HandleEvent
          \/ Sync
          \/ OtherShouts
          \/ Lose
          \/ Reset
          \/ Recreate
       /\ fresh' = (fresh /\ ShownOn(board') = ShownOn(board))

Spec == Init /\ [][Next]_vars

-----------------------------------------------------------------------------
(* Properties.                                                              *)

TypeOK ==
    /\ board.dragging \in Tile \cup {None}
    /\ board.snap.tile \in Tile \cup {None}
    /\ \A t \in Tile :
         /\ board.tile[t].shown \in Aside .. Between
         /\ {board.tile[t].target, board.tile[t].server} \subseteq Aside .. Width
    /\ hand.pressed \subseteq Finger
    /\ ui.dialog \in {None, "MENU", "INVITE"}
    /\ Len(net.down) <= DownCap

\* Nothing is shown for ever in the place of what the server says: what is
\* overridden or held will be given up (the assertions of
\* cancel_all_overrides), and whatever the screen does not show yet has a frame
\* asked for.
FrameIsDue ==
    /\ board.dragging # None => board.tile[board.dragging].overridden
    /\ (\E t \in Tile : board.tile[t].overridden) => board.timeout
    /\ ui.ready /\ ~ui.redraw =>
         /\ fresh
         /\ \A t \in Tile : ~board.tile[t].animating
         /\ ui.shouting => \A t \in Tile : ~board.tile[t].overridden
    /\ ~ui.redraw => ui.child = ui.dialog

\* The tiles, the frames and the fingers fit together.
BoardSound == TypeOK /\ FrameIsDue

\* A tile rests where the player has put it.
Rests(t) ==
    put[t] # Aside /\ board.tile[t].shown = put[t] /\ ~board.tile[t].animating

\* A tile that nobody else moves and that has come to rest where the player put
\* it stays there: neither the echoes of earlier moves nor the end of the
\* override take it away.
StaysWhereItIsPut ==
    [][\A t \in Tile : Rests(t) /\ put'[t] = put[t] => Rests(t)']_<<board, put>>

\* Frames are drawn and animations end, the network and the server keep working
\* and the timeouts come.  Nothing is asked of the players.
Fairness ==
    /\ WF_state(LastFrame)
    /\ WF_state(HandleEvent)
    /\ WF_state(OverrideTimeout)
    /\ WF_state(ToolReady)
    /\ WF_state(Sync)
    /\ \A t \in Tile : WF_state(Write(t)) /\ WF_state(Tell(t))

FairSpec == Spec /\ Fairness

\* In the end the screen shows every tile where the server has it.
ShownInTheEnd ==
    <>[](fresh /\ \A t \in Tile :
           board.tile[t].known => board.tile[t].shown = net.server[t].at)

\* What the comment on dragging_tile says (vsx-tile-painter.c:88): NULL if there
\* is no tile that is being dragged.
DraggedWhileHeld == hand.pressed = {} => board.dragging = None
=============================================================================
