------------------------- MODULE TilePainterProofs --------------------------
(***************************************************************************)
(* Proofs about TilePainter: whatever is held or overridden is given up,   *)
(* whatever is not shown yet has a frame asked for (BoardSound), and a tile*)
(* that rests where the player has put it stays there (StaysWhereItIsPut). *)
(*                                                                         *)
(* The second needs to know what is on its way about each tile: the last   *)
(* event about it tells where the server has it (Told), nothing is known of*)
(* a tile that is not in play (OutOfPlay), and a tile that was put         *)
(* somewhere is either there for the server and in all that is on its way  *)
(* (Settled), or still overridden, with only the player's own moves on     *)
(* their way (Mine).                                                       *)
(***************************************************************************)
EXTENDS TilePainter, TLAPS

Spot == Aside .. Width
Tiles == [known : BOOLEAN, shown : Aside .. Between, target : Spot,
          server : Spot, overridden : BOOLEAN, animating : BOOLEAN]
Boards == [tile : [Tile -> Tiles], dragging : Tile \cup {None},
           snap : [tile : Tile \cup {None}, place : Nat], timeout : BOOLEAN]
Hands == [pressed : SUBSET Finger, at : [Finger -> Spot], maybeClick : BOOLEAN]
Dialog == {None, "MENU", "INVITE"}
Uis == [dialog : Dialog, child : Dialog, shouting : BOOLEAN, redraw : BOOLEAN,
        ready : BOOLEAN]
Who == {None, "me", "them"}
Played == [at : Spot, by : Who]
Event == [tile : Tile, place : Spot, by : Who]
Nets == [unsent : [Tile -> Spot], server : [Tile -> Played], dirty : SUBSET Tile,
         down : Seq(Event), synced : BOOLEAN]

\* Types, without the hand and the history of the frames.
PartTypes ==
    /\ board \in Boards
    /\ ui \in Uis
    /\ net \in Nets
    /\ put \in [Tile -> Spot]
    /\ Len(net.down) <= DownCap
Types == PartTypes /\ hand \in Hands /\ fresh \in BOOLEAN

\* Only tiles that are known are held, overridden or moved, and what is
\* overridden will be given up.
HeldOn(b) ==
    /\ \A t \in Tile : ~b.tile[t].known => b.tile[t] = NoTile
    /\ \A t \in Tile : b.tile[t].overridden => b.timeout
    /\ b.dragging # None => b.tile[b.dragging].overridden
Held == HeldOn(board)

\* When no frame has been asked for, the last one shows the dialog and, if the
\* tiles can be drawn or there are none, all the tiles where they now are.
Seen ==
    /\ ~ui.redraw => ui.child = ui.dialog
    /\ ~ui.redraw /\ (ui.ready \/ Known = {}) =>
         /\ fresh
         /\ \A t \in Tile : ~board.tile[t].animating
         /\ ui.shouting => \A t \in Tile : ~board.tile[t].overridden

BoardInv == Types /\ Held /\ Seen

\* The events about a tile that are on their way.
About(t) == {i \in 1 .. Len(net.down) : net.down[i].tile = t}

\* Unless the server still has to tell of a tile, the last that it told is where
\* the tile is.
Told(t) ==
    t \notin net.dirty =>
       /\ About(t) = {} => board.tile[t].server = net.server[t].at
       /\ \A i \in About(t) : (\A j \in About(t) : j <= i) =>
             net.down[i].place = net.server[t].at

\* Nobody knows of a tile that is not in play.
OutOfPlay(t) ==
    net.server[t] = NotPlaying =>
       /\ ~board.tile[t].known
       /\ net.unsent[t] = Aside
       /\ t \notin net.dirty
       /\ About(t) = {}
       /\ put[t] = Aside

\* The server knows where the player has put the tile, and all that it has told
\* since says so.
Settled(t) ==
    /\ net.unsent[t] = Aside
    /\ net.server[t].at = put[t]
    /\ \A i \in About(t) : net.down[i].place = put[t]

\* The server will know, and only the player's own moves are on their way, which
\* do not end the override.
Mine(t) ==
    /\ board.tile[t].overridden
    /\ \/ net.unsent[t] = put[t]
       \/ net.unsent[t] = Aside /\ net.server[t].at = put[t]
    /\ t \in net.dirty => net.server[t].by = "me"
    /\ \A i \in About(t) : net.down[i].by = "me"

Kept(t) == put[t] # Aside => Settled(t) \/ Mine(t)

PutInv == \A t \in Tile : Told(t) /\ OutOfPlay(t) /\ Kept(t)

Inv == BoardInv /\ PutInv

\* What each step keeps.  A step either asks for a frame or changes nothing that
\* is shown.
StaysPut == \A t \in Tile : Rests(t) /\ put'[t] = put[t] => Rests(t)'
Looks == ui'.redraw \/ (ui' = ui /\ board'.tile = board.tile)
Solid == PartTypes' /\ Held' /\ PutInv' /\ StaysPut
Fine == Solid /\ Looks

-----------------------------------------------------------------------------
(* What the operators on tiles and boards return.                           *)

LEMMA Const == /\ Width \in Nat /\ Width # 0 /\ None \notin Tile /\ DownCap \in Nat
               /\ Aside \in Spot /\ Aside = 0
               /\ Spot \subseteq Aside .. Between /\ Between \in Aside .. Between
               /\ Spot \subseteq Nat
               /\ Place \subseteq Spot /\ Aside \notin Place
BY BoardAssumption DEF Spot, Aside, Between, Place

LEMMA NoTileFits == NoTile \in Tiles
BY Const DEF NoTile, Tiles

LEMMA OverrideTileFits ==
  ASSUME NEW b \in Boards, HeldOn(b), NEW t \in Tile, b.tile[t].known
  PROVE  LET new == OverrideTile(b, t) IN
         /\ new \in Boards /\ HeldOn(new)
         /\ new.tile[t] = [b.tile[t] EXCEPT !.overridden = TRUE]
         /\ \A u \in Tile : u # t => new.tile[u] = b.tile[u]
         /\ new.dragging = b.dragging /\ new.snap = b.snap /\ new.timeout
<1>. DEFINE new == OverrideTile(b, t)
            x == [b.tile[t] EXCEPT !.overridden = TRUE]
<1>1. b.tile \in [Tile -> Tiles]
  BY DEF Boards
<1>2. x \in Tiles /\ x.known = b.tile[t].known /\ x.overridden
  BY <1>1 DEF Tiles
<1>3. new = [b EXCEPT !.timeout = TRUE, !.tile = [b.tile EXCEPT ![t] = x]]
  BY DEF OverrideTile, Boards
<1>. HIDE DEF new, x
<1>4. /\ new \in Boards /\ new.tile = [b.tile EXCEPT ![t] = x]
      /\ new.dragging = b.dragging /\ new.snap = b.snap /\ new.timeout
  BY <1>1, <1>2, <1>3 DEF Boards
<1>5. new.tile[t] = x /\ \A u \in Tile : u # t => new.tile[u] = b.tile[u]
  BY <1>1, <1>4
<1>6. HeldOn(new)
  <2>1. \A u \in Tile : ~new.tile[u].known => new.tile[u] = NoTile
    BY <1>2, <1>5 DEF HeldOn
  <2>2. new.dragging # None => new.dragging \in Tile /\ b.tile[new.dragging].overridden
    BY <1>4 DEF HeldOn, Boards
  <2>. QED
    BY <1>2, <1>4, <1>5, <2>1, <2>2 DEF HeldOn
<1>. QED
  BY <1>4, <1>5, <1>6 DEF new, x

\* What becomes of a tile whose override ends.
Back(x) == [x EXCEPT !.overridden = FALSE, !.target = x.server,
                     !.animating = (x.shown # x.server)]
CancelledTile(x) == IF x.overridden THEN Back(x) ELSE x

LEMMA CancelledFits ==
  ASSUME NEW x \in Tiles, ~x.known => x = NoTile
  PROVE  LET new == CancelledTile(x) IN
         /\ new \in Tiles /\ ~new.overridden
         /\ new.known = x.known /\ new.shown = x.shown /\ new.server = x.server
         /\ ~x.overridden => new = x
         /\ x.overridden => new.target = x.server /\ new.animating = (x.shown # x.server)
         /\ ~new.known => new = NoTile
<1>. DEFINE new == CancelledTile(x)
<1>1. CASE x.overridden
  <2>1. new = Back(x)
    BY <1>1 DEF CancelledTile
  <2>2. x.server \in Aside .. Width /\ (x.shown # x.server) \in BOOLEAN
    BY DEF Tiles, Spot
  <2>3. x.known
    BY <1>1 DEF NoTile
  <2>4. /\ Back(x) \in Tiles /\ ~Back(x).overridden
        /\ Back(x).known = x.known /\ Back(x).shown = x.shown
        /\ Back(x).server = x.server /\ Back(x).target = x.server
        /\ Back(x).animating = (x.shown # x.server)
    BY <2>2 DEF Back, Tiles, Spot
  <2>. QED
    BY <1>1, <2>1, <2>3, <2>4
<1>2. CASE ~x.overridden
  BY <1>2 DEF CancelledTile
<1>. QED
  BY <1>1, <1>2

LEMMA CancelOverrideIs ==
  ASSUME NEW b \in Boards, NEW t \in Tile
  PROVE  CancelOverride(b, t) =
           [b EXCEPT !.tile = [b.tile EXCEPT ![t] = CancelledTile(b.tile[t])],
                     !.dragging = IF b.tile[t].overridden /\ b.dragging = t
                                  THEN None ELSE b.dragging]
<1>1. b.tile \in [Tile -> Tiles] /\ b.tile[t] \in Tiles
  BY DEF Boards
<1>2. CASE ~b.tile[t].overridden
  BY <1>1, <1>2 DEF CancelOverride, CancelledTile, Boards
<1>3. CASE b.tile[t].overridden
  BY <1>1, <1>3 DEF CancelOverride, CancelledTile, Back, StartAnimation, Boards, Tiles
<1>. QED
  BY <1>2, <1>3

LEMMA CancelOverrideFits ==
  ASSUME NEW b \in Boards, HeldOn(b), NEW t \in Tile
  PROVE  LET new == CancelOverride(b, t) IN
         /\ new \in Boards /\ HeldOn(new)
         /\ new.tile[t] = CancelledTile(b.tile[t])
         /\ \A u \in Tile : u # t => new.tile[u] = b.tile[u]
         /\ new.snap = b.snap /\ new.timeout = b.timeout
<1>. DEFINE new == CancelOverride(b, t)
            x == CancelledTile(b.tile[t])
            held == IF b.tile[t].overridden /\ b.dragging = t THEN None ELSE b.dragging
<1>1. b.tile \in [Tile -> Tiles] /\ b.tile[t] \in Tiles
      /\ b.dragging \in Tile \cup {None}
  BY DEF Boards
<1>2. ~b.tile[t].known => b.tile[t] = NoTile
  BY DEF HeldOn
<1>3. /\ x \in Tiles /\ ~x.overridden /\ (~x.known => x = NoTile)
      /\ held \in Tile \cup {None}
  BY <1>1, <1>2, CancelledFits
<1>4. new = [b EXCEPT !.tile = [b.tile EXCEPT ![t] = x], !.dragging = held]
  BY CancelOverrideIs
<1>. HIDE DEF new, x, held
<1>5. /\ new \in Boards /\ new.tile = [b.tile EXCEPT ![t] = x] /\ new.dragging = held
      /\ new.snap = b.snap /\ new.timeout = b.timeout
  BY <1>1, <1>3, <1>4 DEF Boards
<1>6. new.tile[t] = x /\ \A u \in Tile : u # t => new.tile[u] = b.tile[u]
  BY <1>1, <1>5
<1>7. HeldOn(new)
  <2>1. \A u \in Tile : ~new.tile[u].known => new.tile[u] = NoTile
    BY <1>3, <1>6 DEF HeldOn
  <2>2. \A u \in Tile : new.tile[u].overridden => new.timeout
    BY <1>3, <1>5, <1>6 DEF HeldOn
  <2>3. held # None => held \in Tile /\ held # t /\ b.tile[held].overridden
    BY <1>1 DEF HeldOn, held
  <2>. QED
    BY <1>5, <1>6, <2>1, <2>2, <2>3 DEF HeldOn
<1>. QED
  BY <1>5, <1>6, <1>7 DEF new, x

LEMMA CancelAllFits ==
  ASSUME NEW b \in Boards, HeldOn(b)
  PROVE  LET new == CancelAllOverrides(b) IN
         /\ new \in Boards /\ HeldOn(new)
         /\ \A t \in Tile : new.tile[t] = CancelledTile(b.tile[t])
         /\ new.dragging = None /\ new.snap = b.snap /\ ~new.timeout
<1>. DEFINE new == CancelAllOverrides(b)
            tiles == [t \in Tile |-> CancelledTile(b.tile[t])]
<1>1. b.tile \in [Tile -> Tiles] /\ b.dragging \in Tile \cup {None}
  BY DEF Boards
<1>2. \A t \in Tile : CancelOverride(b, t).tile[t] = CancelledTile(b.tile[t])
  BY CancelOverrideFits
<1>3. tiles \in [Tile -> Tiles]
      /\ \A t \in Tile : ~tiles[t].overridden /\ (~tiles[t].known => tiles[t] = NoTile)
  <2>1. ASSUME NEW t \in Tile
        PROVE  LET x == CancelledTile(b.tile[t]) IN
               x \in Tiles /\ ~x.overridden /\ (~x.known => x = NoTile)
    BY <1>1, CancelledFits DEF HeldOn
  <2>. QED
    BY <2>1
<1>4. (IF b.dragging # None /\ b.tile[b.dragging].overridden THEN None ELSE b.dragging) = None
  BY DEF HeldOn
<1>5. [t \in Tile |-> CancelOverride(b, t).tile[t]] = tiles
  BY <1>2
<1>. HIDE DEF tiles
<1>6. new = [b EXCEPT !.tile = tiles, !.dragging = None, !.timeout = FALSE]
  BY <1>4, <1>5 DEF CancelAllOverrides, Boards
<1>. HIDE DEF new
<1>7. /\ new \in Boards /\ new.tile = tiles /\ new.dragging = None
      /\ new.snap = b.snap /\ ~new.timeout
  BY <1>3, <1>6 DEF Boards
<1>8. HeldOn(new)
  BY <1>3, <1>7 DEF HeldOn
<1>9. \A t \in Tile : new.tile[t] = CancelledTile(b.tile[t])
  BY <1>7 DEF tiles
<1>. QED
  BY <1>7, <1>8, <1>9 DEF new

LEMMA StartedFits ==
  ASSUME NEW x \in Tiles
  PROVE  LET new == StartAnimation(x) IN
         /\ new \in Tiles /\ new.known = x.known /\ new.shown = x.shown
         /\ new.target = x.target /\ new.server = x.server
         /\ new.overridden = x.overridden
         /\ new.animating = (x.shown # x.target)
BY DEF StartAnimation, Tiles

HeardTile(x, e) == [x EXCEPT !.known = TRUE, !.server = e.place]
EventTile(x, e) ==
    IF x.overridden
    THEN IF e.by = "me" THEN HeardTile(x, e) ELSE Back(HeardTile(x, e))
    ELSE IF net.synced
    THEN StartAnimation([x EXCEPT !.known = TRUE, !.server = e.place, !.target = e.place])
    ELSE [x EXCEPT !.known = TRUE, !.server = e.place, !.target = e.place,
                   !.shown = e.place, !.animating = FALSE]

LEMMA EventTileFits ==
  ASSUME NEW x \in Tiles, NEW e \in Event
  PROVE  LET new == EventTile(x, e) IN
         /\ new \in Tiles /\ new.known /\ new.server = e.place
         /\ new.overridden <=> (x.overridden /\ e.by = "me")
         /\ new.overridden => new.shown = x.shown /\ new.animating = x.animating
         /\ ~new.overridden =>
              \/ new.shown = x.shown /\ new.animating = (x.shown # e.place)
              \/ new.shown = e.place /\ ~new.animating
<1>. DEFINE new == EventTile(x, e)
            place == e.place
            heard == [x EXCEPT !.known = TRUE, !.server = place]
            moved == [x EXCEPT !.known = TRUE, !.server = place, !.target = place]
            jumped == [x EXCEPT !.known = TRUE, !.server = place, !.target = place,
                                !.shown = place, !.animating = FALSE]
<1>. SUFFICES
       /\ new \in Tiles /\ new.known /\ new.server = place
       /\ new.overridden <=> (x.overridden /\ e.by = "me")
       /\ new.overridden => new.shown = x.shown /\ new.animating = x.animating
       /\ ~new.overridden =>
            \/ new.shown = x.shown /\ new.animating = (x.shown # place)
            \/ new.shown = place /\ ~new.animating
  OBVIOUS
<1>1. place \in Aside .. Width /\ place \in Aside .. Between
  BY Const DEF Event, Spot
<1>. HIDE DEF place
<1>2. /\ heard \in Tiles /\ heard.known /\ heard.server = place
      /\ heard.overridden = x.overridden /\ heard.shown = x.shown
      /\ heard.animating = x.animating
  BY <1>1 DEF Tiles, Spot
<1>3. /\ moved \in Tiles /\ moved.known /\ moved.server = place /\ moved.target = place
      /\ moved.overridden = x.overridden /\ moved.shown = x.shown
  BY <1>1 DEF Tiles, Spot
<1>4. /\ jumped \in Tiles /\ jumped.known /\ jumped.server = place
      /\ jumped.overridden = x.overridden /\ jumped.shown = place /\ ~jumped.animating
  BY <1>1 DEF Tiles, Spot
<1>5. new = IF x.overridden THEN IF e.by = "me" THEN heard ELSE Back(heard)
            ELSE IF net.synced THEN StartAnimation(moved) ELSE jumped
  BY DEF EventTile, HeardTile, place
<1>. HIDE DEF new, heard, moved, jumped
<1>6. CASE x.overridden /\ e.by = "me"
  BY <1>2, <1>5, <1>6
<1>7. CASE x.overridden /\ e.by # "me"
  <2>1. new = CancelledTile(heard)
    BY <1>2, <1>5, <1>7 DEF CancelledTile
  <2>2. /\ new \in Tiles /\ ~new.overridden /\ new.known = heard.known
        /\ new.shown = heard.shown /\ new.server = heard.server
        /\ new.animating = (heard.shown # heard.server)
    BY <1>2, <1>7, <2>1, CancelledFits
  <2>. QED
    BY <1>2, <1>7, <2>2
<1>8. CASE ~x.overridden /\ net.synced
  <2>1. /\ new \in Tiles /\ new.known = moved.known /\ new.shown = moved.shown
        /\ new.server = moved.server /\ new.overridden = moved.overridden
        /\ new.animating = (moved.shown # moved.target)
    BY <1>3, <1>5, <1>8, StartedFits
  <2>. QED
    BY <1>3, <1>8, <2>1
<1>9. CASE ~x.overridden /\ ~net.synced
  BY <1>4, <1>5, <1>9
<1>. QED
  BY <1>6, <1>7, <1>8, <1>9

EventSnap(b, e) ==
    IF ~b.tile[e.tile].known \/ e.by # "me" THEN NoSnap ELSE b.snap
EventHeld(b, e) ==
    IF b.tile[e.tile].overridden /\ e.by # "me" /\ b.dragging = e.tile
    THEN None ELSE b.dragging

LEMMA HandleTileEventIs ==
  ASSUME NEW b \in Boards, NEW e \in Event
  PROVE  HandleTileEvent(b, e) =
           [b EXCEPT !.tile = [b.tile EXCEPT ![e.tile] = EventTile(b.tile[e.tile], e)],
                     !.dragging = EventHeld(b, e),
                     !.snap = EventSnap(b, e)]
<1>. DEFINE t == e.tile
            place == e.place
            heard == HeardTile(b.tile[t], e)
            heardBoard == [b EXCEPT !.tile = [b.tile EXCEPT ![t] = heard]]
            moved == [heard EXCEPT !.target = place]
            after == IF ~heard.overridden
                     THEN [b EXCEPT !.tile[t] =
                             IF net.synced THEN StartAnimation(moved)
                             ELSE [moved EXCEPT !.shown = place, !.animating = FALSE]]
                     ELSE IF e.by = "me" THEN heardBoard ELSE CancelOverride(heardBoard, t)
            afterIs == [b EXCEPT !.tile = [b.tile EXCEPT ![t] = EventTile(b.tile[t], e)],
                                 !.dragging = EventHeld(b, e)]
<1>1. /\ b.tile \in [Tile -> Tiles] /\ t \in Tile /\ b.tile[t] \in Tiles
      /\ place \in Aside .. Width /\ place \in Spot
  BY DEF Boards, Event, Spot
<1>2. heard \in Tiles /\ heard.overridden = b.tile[t].overridden /\ heard.server = place
  BY <1>1 DEF HeardTile, Tiles, Spot
<1>3. HandleTileEvent(b, e) = IF ~b.tile[t].known \/ e.by # "me"
                              THEN [after EXCEPT !.snap = NoSnap] ELSE after
  BY DEF HandleTileEvent, HeardTile
<1>4. after = afterIs
  <2>1. CASE b.tile[t].overridden /\ e.by = "me"
    <3>1. EventTile(b.tile[t], e) = heard /\ EventHeld(b, e) = b.dragging
      BY <2>1 DEF EventTile, EventHeld
    <3>2. after = heardBoard
      BY <1>2, <2>1
    <3>. DEFINE x == EventTile(b.tile[t], e)
    <3>. HIDE DEF after, x, heard
    <3>. QED
      BY <1>1, <3>1, <3>2 DEF Boards, x
  <2>2. CASE b.tile[t].overridden /\ e.by # "me"
    <3>1. heardBoard \in Boards /\ heardBoard.tile = [b.tile EXCEPT ![t] = heard]
          /\ heardBoard.tile[t] = heard /\ heardBoard.dragging = b.dragging
      <4>. HIDE DEF heard
      <4>. QED
        BY <1>1, <1>2 DEF Boards
    <3>5. after = CancelOverride(heardBoard, t)
      BY <1>2, <2>2
    <3>0. heardBoard = [b EXCEPT !.tile = [b.tile EXCEPT ![t] = heard]]
      OBVIOUS
    <3>. HIDE DEF heardBoard, heard, after
    <3>2. CancelOverride(heardBoard, t) =
           [heardBoard EXCEPT !.tile = [heardBoard.tile EXCEPT ![t] = CancelledTile(heard)],
                     !.dragging = IF heard.overridden /\ b.dragging = t
                                  THEN None ELSE b.dragging]
      <4>1. CancelOverride(heardBoard, t) =
             [heardBoard EXCEPT
                !.tile = [heardBoard.tile EXCEPT ![t] = CancelledTile(heardBoard.tile[t])],
                !.dragging = IF heardBoard.tile[t].overridden /\ heardBoard.dragging = t
                             THEN None ELSE heardBoard.dragging]
        BY <1>1, <3>1, CancelOverrideIs, Zenon
      <4>. QED
        BY <3>1, <4>1, Zenon
    <3>3. CancelledTile(heard) = EventTile(b.tile[t], e)
      BY <1>2, <2>2 DEF CancelledTile, EventTile, heard
    <3>4. (IF heard.overridden /\ b.dragging = t THEN None ELSE b.dragging) = EventHeld(b, e)
      BY <1>2, <2>2 DEF EventHeld
    <3>. DEFINE x == EventTile(b.tile[t], e)
                held == EventHeld(b, e)
    <3>. HIDE DEF x, held
    <3>6. [heardBoard.tile EXCEPT ![t] = x] = [b.tile EXCEPT ![t] = x]
      BY <1>1, <3>1
    <3>7. [heardBoard EXCEPT !.tile = [b.tile EXCEPT ![t] = x], !.dragging = held]
           = [b EXCEPT !.tile = [b.tile EXCEPT ![t] = x], !.dragging = held]
      BY <3>0 DEF Boards
    <3>. QED
      BY <3>2, <3>3, <3>4, <3>5, <3>6, <3>7 DEF x, held
  <2>3. CASE ~b.tile[t].overridden
    <3>1. EventTile(b.tile[t], e) =
            IF net.synced THEN StartAnimation(moved)
            ELSE [moved EXCEPT !.shown = place, !.animating = FALSE]
      <4>1. moved = [b.tile[t] EXCEPT !.known = TRUE, !.server = place, !.target = place]
        BY <1>1 DEF HeardTile, Tiles
      <4>. HIDE DEF moved
      <4>. QED
        BY <2>3, <4>1 DEF EventTile
    <3>2. after = [b EXCEPT !.tile[t] = EventTile(b.tile[t], e)]
      BY <1>2, <2>3, <3>1
    <3>3. EventHeld(b, e) = b.dragging
      BY <2>3 DEF EventHeld
    <3>. DEFINE x == EventTile(b.tile[t], e)
    <3>. HIDE DEF after, x
    <3>. QED
      BY <1>1, <3>2, <3>3 DEF Boards, x
  <2>. QED
    BY <2>1, <2>2, <2>3
<1>. HIDE DEF after
<1>5. CASE ~b.tile[t].known \/ e.by # "me"
  BY <1>3, <1>4, <1>5 DEF EventSnap, Boards
<1>6. CASE ~(~b.tile[t].known \/ e.by # "me")
  BY <1>3, <1>4, <1>6 DEF EventSnap, Boards
<1>. QED
  BY <1>5, <1>6

LEMMA HandleTileEventFits ==
  ASSUME NEW b \in Boards, HeldOn(b), NEW e \in Event
  PROVE  LET new == HandleTileEvent(b, e) IN
         /\ new \in Boards /\ HeldOn(new)
         /\ new.tile[e.tile] = EventTile(b.tile[e.tile], e)
         /\ \A u \in Tile : u # e.tile => new.tile[u] = b.tile[u]
<1>. DEFINE new == HandleTileEvent(b, e)
            t == e.tile
            x == EventTile(b.tile[t], e)
            held == EventHeld(b, e)
            snap == EventSnap(b, e)
<1>1. /\ b.tile \in [Tile -> Tiles] /\ t \in Tile /\ b.tile[t] \in Tiles
      /\ b.dragging \in Tile \cup {None}
  BY DEF Boards, Event
<1>2. x \in Tiles /\ x.known /\ (x.overridden <=> b.tile[t].overridden /\ e.by = "me")
  BY <1>1, EventTileFits
<1>3. held \in Tile \cup {None} /\ snap \in [tile : Tile \cup {None}, place : Nat]
  BY <1>1, Const DEF EventHeld, EventSnap, NoSnap, Boards
<1>4. new = [b EXCEPT !.tile = [b.tile EXCEPT ![t] = x], !.dragging = held, !.snap = snap]
  BY HandleTileEventIs
<1>5. held # None => held \in Tile /\ b.tile[held].overridden /\ (held = t => e.by = "me")
  BY <1>1 DEF HeldOn, EventHeld
<1>. HIDE DEF new, x, held, snap, t
<1>6. /\ new \in Boards /\ new.tile = [b.tile EXCEPT ![t] = x] /\ new.dragging = held
      /\ new.timeout = b.timeout
  BY <1>1, <1>2, <1>3, <1>4 DEF Boards
<1>7. new.tile[t] = x /\ \A u \in Tile : u # t => new.tile[u] = b.tile[u]
  BY <1>1, <1>6
<1>8. HeldOn(new)
  <2>1. \A u \in Tile : ~new.tile[u].known => new.tile[u] = NoTile
    BY <1>2, <1>7 DEF HeldOn
  <2>2. \A u \in Tile : new.tile[u].overridden => b.tile[u].overridden
    BY <1>2, <1>7
  <2>3. held # None => held \in Tile /\ new.tile[held].overridden
    BY <1>2, <1>5, <1>7
  <2>. QED
    BY <1>6, <2>1, <2>2, <2>3 DEF HeldOn
<1>. QED
  BY <1>6, <1>7, <1>8 DEF new, x, t

-----------------------------------------------------------------------------
(* What is on its way about a tile.                                         *)

LEMMA BoardParts ==
  ASSUME PartTypes
  PROVE  /\ board.tile \in [Tile -> Tiles] /\ board.dragging \in Tile \cup {None}
         /\ board.snap.tile \in Tile \cup {None} /\ board.snap.place \in Nat
         /\ \A t \in Tile : board.tile[t] \in Tiles
BY DEF PartTypes, Boards

LEMMA NetParts ==
  ASSUME PartTypes
  PROVE  /\ net.unsent \in [Tile -> Spot] /\ net.server \in [Tile -> Played]
         /\ net.dirty \in SUBSET Tile /\ net.down \in Seq(Event)
         /\ Len(net.down) \in Nat
         /\ \A t \in Tile : /\ net.unsent[t] \in Spot /\ net.server[t] \in Played
                            /\ net.server[t].at \in Spot /\ net.server[t].by \in Who
                            /\ put[t] \in Spot
         /\ \A i \in 1 .. Len(net.down) :
              /\ net.down[i] \in Event /\ net.down[i].tile \in Tile
              /\ net.down[i].place \in Spot /\ net.down[i].by \in Who
<1>1. net.unsent \in [Tile -> Spot] /\ net.server \in [Tile -> Played]
      /\ net.dirty \in SUBSET Tile /\ net.down \in Seq(Event) /\ put \in [Tile -> Spot]
  BY DEF PartTypes, Nets
<1>2. Len(net.down) \in Nat /\ \A i \in 1 .. Len(net.down) : net.down[i] \in Event
  BY <1>1
<1>3. \A e \in Event : e.tile \in Tile /\ e.place \in Spot /\ e.by \in Who
  BY DEF Event
<1>4. \A x \in Played : x.at \in Spot /\ x.by \in Who
  BY DEF Played
<1>5. \A t \in Tile : net.unsent[t] \in Spot /\ net.server[t] \in Played /\ put[t] \in Spot
  BY <1>1
<1>. QED
  BY <1>1, <1>2, <1>3, <1>4, <1>5

LEMMA OutstandingIs ==
  ASSUME PartTypes, NEW t \in Tile
  PROVE  /\ Outstanding(t) <=> \/ net.unsent[t] # Aside
                               \/ t \in net.dirty
                               \/ About(t) # {}
         /\ Contested(t) <=> \/ ui.shouting
                             \/ t \in net.dirty /\ net.server[t].by # "me"
                             \/ \E i \in About(t) : net.down[i].by # "me"
<1>1. DOMAIN net.down = 1 .. Len(net.down)
  BY NetParts
<1>. QED
  BY <1>1 DEF Outstanding, Contested, About

LEMMA SettledServer ==
  ASSUME Inv, NEW t \in Tile, put[t] # Aside, ~Outstanding(t)
  PROVE  Settled(t) /\ board.tile[t].server = put[t]
<1>1. PartTypes /\ Told(t) /\ Kept(t)
  BY DEF Inv, BoardInv, Types, PutInv
<1>2. net.unsent[t] = Aside /\ t \notin net.dirty /\ About(t) = {}
  BY <1>1, OutstandingIs
<1>3. net.server[t].at = put[t]
  BY <1>1, <1>2 DEF Kept, Settled, Mine
<1>. QED
  BY <1>1, <1>2, <1>3 DEF Told, Settled

\* What does not concern the network keeps what is said of the server, unless
\* it gives up a tile of which something is outstanding.
LEMMA PutKept ==
  ASSUME PutInv, Inv, net' = net,
         \A t \in Tile :
            /\ board'.tile[t].server = board.tile[t].server
            /\ board'.tile[t].known => board.tile[t].known
            /\ put'[t] \in {put[t], Aside}
            /\ put'[t] # Aside =>
                 \/ board.tile[t].overridden => board'.tile[t].overridden
                 \/ ~Outstanding(t)
  PROVE  PutInv'
<1>. SUFFICES ASSUME NEW t \in Tile PROVE Told(t)' /\ OutOfPlay(t)' /\ Kept(t)'
  BY DEF PutInv
<1>1. Told(t) /\ OutOfPlay(t) /\ Kept(t)
  BY DEF PutInv
<1>2. About(t)' = About(t)
  BY DEF About
<1>3. Told(t)'
  BY <1>1, <1>2 DEF Told
<1>4. OutOfPlay(t)'
  BY <1>1, <1>2 DEF OutOfPlay
<1>5. Kept(t)'
  <2>. SUFFICES ASSUME put'[t] # Aside PROVE Settled(t)' \/ Mine(t)'
    BY DEF Kept
  <2>1. put'[t] = put[t] /\ put[t] # Aside
    OBVIOUS
  <2>2. CASE Settled(t)
    BY <1>2, <2>1, <2>2 DEF Settled
  <2>3. CASE Mine(t) /\ (board.tile[t].overridden => board'.tile[t].overridden)
    BY <1>2, <2>1, <2>3 DEF Mine
  <2>4. CASE ~Outstanding(t)
    BY <2>1, <2>2, <2>4, SettledServer
  <2>. QED
    BY <1>1, <2>1, <2>2, <2>3, <2>4 DEF Kept
<1>. QED
  BY <1>3, <1>4, <1>5

\* The end of the overrides leaves what is known to the server where it is.
LEMMA CancelRests ==
  ASSUME Inv, NEW t \in Tile, Rests(t), ~Outstanding(t)
  PROVE  CancelledTile(board.tile[t]).shown = put[t]
         /\ ~CancelledTile(board.tile[t]).animating
<1>1. board.tile[t] \in Tiles /\ (~board.tile[t].known => board.tile[t] = NoTile)
  BY BoardParts DEF Inv, BoardInv, Types, Held, HeldOn
<1>2. put[t] # Aside /\ board.tile[t].shown = put[t] /\ ~board.tile[t].animating
  BY DEF Rests
<1>3. board.tile[t].server = put[t]
  BY <1>2, SettledServer
<1>. QED
  BY <1>1, <1>2, <1>3, CancelledFits

LEMMA NothingIsFine ==
  ASSUME Inv, NothingMoves
  PROVE  Fine
<1>1. PartTypes /\ Held /\ PutInv
  BY DEF Inv, BoardInv, Types
<1>2. PartTypes' /\ Held'
  BY <1>1 DEF PartTypes, Held, NothingMoves
<1>3. PutInv'
  BY <1>1, PutKept DEF NothingMoves
<1>4. StaysPut /\ Looks
  BY DEF StaysPut, Looks, Rests, NothingMoves
<1>. QED
  BY <1>2, <1>3, <1>4 DEF Fine, Solid

-----------------------------------------------------------------------------
(* What the player does to the board.                                       *)

LEMMA InvParts ==
  ASSUME Inv
  PROVE  /\ PartTypes /\ Held /\ HeldOn(board) /\ PutInv /\ Seen
         /\ board \in Boards /\ ui \in Uis /\ net \in Nets /\ put \in [Tile -> Spot]
         /\ hand \in Hands /\ fresh \in BOOLEAN
BY DEF Inv, BoardInv, Types, PartTypes, Held

LEMMA RedrawFits ==
  ASSUME ui \in Uis, Redraw
  PROVE  ui' \in Uis /\ ui'.redraw /\ ui'.shouting = ui.shouting
BY DEF Uis, Redraw

LEMMA TilesAtKnown ==
  ASSUME NEW place, NEW t \in TilesAt(place), t # None
  PROVE  t \in Tile /\ board.tile[t].known
BY DEF TilesAt, Known

LEMMA DragStartIsFine ==
  ASSUME Inv, NEW place, DragStart(place)
  PROVE  Fine
<1>1. CASE Blocked
  BY <1>1, NothingIsFine DEF DragStart
<1>2. CASE ~Blocked
  <2>1. net' = net /\ put' = put
    BY <1>2 DEF DragStart
  <2>2. PICK t \in (IF ui.shouting THEN {None} ELSE TilesAt(place)) :
          IF t = None
          THEN /\ board' = [board EXCEPT !.dragging = None]
               /\ UNCHANGED ui
          ELSE /\ board' = [OverrideTile(board, t) EXCEPT
                              !.dragging = t, !.tile[t].animating = FALSE]
               /\ Redraw
    BY <1>2 DEF DragStart
  <2>3. CASE t = None
    <3>1. /\ board' \in Boards /\ board'.tile = board.tile /\ board'.dragging = None
          /\ board'.timeout = board.timeout /\ ui' = ui
      BY <2>2, <2>3, InvParts DEF Boards
    <3>2. HeldOn(board')
      BY <3>1, InvParts DEF HeldOn
    <3>3. PutInv'
      BY <2>1, <3>1, InvParts, PutKept
    <3>4. PartTypes'
      BY <2>1, <3>1, InvParts DEF PartTypes
    <3>5. StaysPut /\ Looks
      BY <2>1, <3>1 DEF StaysPut, Looks, Rests
    <3>. QED
      BY <3>2, <3>3, <3>4, <3>5 DEF Fine, Solid, Held
  <2>4. CASE t # None
    <3>. DEFINE b == OverrideTile(board, t)
                x == [b.tile[t] EXCEPT !.animating = FALSE]
    <3>1. t \in Tile /\ board.tile[t].known
      <4>1. t \in TilesAt(place)
        BY <2>2, <2>4
      <4>. QED
        BY <2>4, <4>1, TilesAtKnown
    <3>2. /\ b \in Boards /\ HeldOn(b)
          /\ b.tile[t] = [board.tile[t] EXCEPT !.overridden = TRUE]
          /\ \A u \in Tile : u # t => b.tile[u] = board.tile[u]
          /\ b.timeout
      BY <3>1, InvParts, OverrideTileFits
    <3>3. board' = [b EXCEPT !.dragging = t, !.tile[t].animating = FALSE] /\ Redraw
      BY <2>2, <2>4
    <3>. HIDE DEF b
    <3>4. board.tile[t] \in Tiles /\ b.tile \in [Tile -> Tiles]
      BY <3>1, <3>2, InvParts DEF Boards
    <3>5. /\ x \in Tiles /\ x.known /\ x.overridden /\ ~x.animating
          /\ x.shown = board.tile[t].shown /\ x.server = board.tile[t].server
      BY <3>1, <3>2, <3>4 DEF Tiles
    <3>6. board' = [b EXCEPT !.dragging = t, !.tile = [b.tile EXCEPT ![t] = x]]
      BY <3>2, <3>3 DEF Boards
    <3>. HIDE DEF x
    <3>7. /\ board' \in Boards /\ board'.dragging = t /\ board'.timeout
          /\ board'.tile = [b.tile EXCEPT ![t] = x]
      BY <3>1, <3>2, <3>4, <3>5, <3>6 DEF Boards
    <3>8. board'.tile[t] = x /\ \A u \in Tile : u # t => board'.tile[u] = board.tile[u]
      BY <3>1, <3>2, <3>4, <3>7
    <3>9. HeldOn(board')
      BY <3>1, <3>5, <3>7, <3>8, InvParts DEF HeldOn
    <3>10. ui' \in Uis /\ ui'.redraw
      BY <3>3, InvParts, RedrawFits
    <3>11. PutInv'
      BY <2>1, <3>1, <3>5, <3>8, InvParts, PutKept
    <3>12. PartTypes'
      BY <2>1, <3>7, <3>10, InvParts DEF PartTypes
    <3>13. StaysPut
      BY <2>1, <3>1, <3>5, <3>8 DEF StaysPut, Rests
    <3>. QED
      BY <3>9, <3>10, <3>11, <3>12, <3>13 DEF Fine, Solid, Held, Looks
  <2>. QED
    BY <2>3, <2>4
<1>. QED
  BY <1>1, <1>2

\* The player moves a tile: only that tile changes, it is overridden, and where
\* it is shown or goes to is what is sent.
LEMMA SendIsFine ==
  ASSUME Inv, NEW t \in Tile, NEW place \in Spot, SendMove(t, place),
         board.tile[t].known,
         board' \in Boards, board'.timeout,
         \A u \in Tile : u # t => board'.tile[u] = board.tile[u],
         board'.dragging = board.dragging,
         /\ board'.tile[t].known /\ board'.tile[t].overridden
         /\ board'.tile[t].server = board.tile[t].server,
         Rests(t) /\ put'[t] = put[t] => Rests(t)',
         Redraw
  PROVE  Fine
<1>1. ui' \in Uis /\ ui'.redraw
  BY InvParts, RedrawFits
<1>2. put' = [put EXCEPT ![t] = IF Contested(t) THEN Aside ELSE place]
  BY DEF SendMove
<1>3. /\ put' \in [Tile -> Spot] /\ \A u \in Tile : u # t => put'[u] = put[u]
      /\ put'[t] # Aside => ~Contested(t) /\ put'[t] = place
  <2>1. (IF Contested(t) THEN Aside ELSE place) \in Spot
    BY Const
  <2>. QED
    BY <1>2, <2>1, InvParts
<1>4. /\ net' \in Nets /\ net'.server = net.server /\ net'.dirty = net.dirty
      /\ net'.down = net.down /\ net'.unsent = [net.unsent EXCEPT ![t] = place]
  BY InvParts DEF SendMove, Nets
<1>5. net'.unsent[t] = place /\ \A u \in Tile : u # t => net'.unsent[u] = net.unsent[u]
  BY <1>4, InvParts, NetParts
<1>6. PartTypes'
  BY <1>1, <1>3, <1>4, InvParts DEF PartTypes
<1>7. HeldOn(board')
  <2>1. HeldOn(board) /\ board.dragging \in Tile \cup {None}
    BY InvParts, BoardParts
  <2>. QED
    BY <2>1 DEF HeldOn
<1>8. \A u \in Tile : About(u)' = About(u)
  BY <1>4 DEF About
<1>9. ASSUME NEW u \in Tile PROVE Told(u)' /\ OutOfPlay(u)' /\ Kept(u)'
  <2>1. Told(u) /\ OutOfPlay(u) /\ Kept(u)
    BY InvParts DEF PutInv
  <2>2. board'.tile[u].server = board.tile[u].server
    OBVIOUS
  <2>3. Told(u)'
    BY <1>4, <1>8, <2>1, <2>2 DEF Told
  <2>4. CASE u = t
    <3>1. OutOfPlay(u)'
      BY <1>4, <2>1, <2>4 DEF OutOfPlay
    <3>2. Kept(u)'
      <4>. SUFFICES ASSUME put'[t] # Aside PROVE Mine(t)'
        BY <2>4 DEF Kept
      <4>1. ~Contested(t) /\ put'[t] = place
        BY <1>3
      <4>2. /\ t \in net.dirty => net.server[t].by = "me"
            /\ \A i \in About(t) : net.down[i].by = "me"
        BY <4>1, InvParts, OutstandingIs
      <4>. QED
        BY <1>4, <1>5, <1>8, <4>1, <4>2 DEF Mine
    <3>. QED
      BY <2>3, <3>1, <3>2
  <2>5. CASE u # t
    <3>1. OutOfPlay(u)'
      BY <1>3, <1>4, <1>5, <1>8, <2>1, <2>5 DEF OutOfPlay
    <3>2. Kept(u)'
      BY <1>3, <1>4, <1>5, <1>8, <2>1, <2>5 DEF Kept, Settled, Mine
    <3>. QED
      BY <2>3, <3>1, <3>2
  <2>. QED
    BY <2>4, <2>5
<1>10. PutInv'
  BY <1>9 DEF PutInv
<1>11. StaysPut
  <2>1. \A u \in Tile : u # t => (Rests(u) /\ put'[u] = put[u] => Rests(u)')
    BY <1>3 DEF Rests
  <2>. QED
    BY <2>1 DEF StaysPut
<1>. QED
  BY <1>1, <1>6, <1>7, <1>10, <1>11 DEF Fine, Solid, Held, Looks

LEMMA DragIsFine ==
  ASSUME Inv, NEW place \in Spot, NEW maybeClick, Drag(place, maybeClick)
  PROVE  Fine
<1>. PICK t : t = board.dragging
  OBVIOUS
<1>. DEFINE b == OverrideTile(board, t)
            x == [b.tile[t] EXCEPT !.shown = place]
            snap == [tile |-> t, place |-> place + 1]
<1>1. CASE Blocked \/ t = None \/ maybeClick \/ place = Aside
           \/ board.tile[t].shown = place
  BY <1>1, NothingIsFine DEF Drag
<1>2. CASE ~(Blocked \/ t = None \/ maybeClick \/ place = Aside
             \/ board.tile[t].shown = place)
  <2>1. /\ board' = [b EXCEPT !.tile[t].shown = place, !.snap = snap]
        /\ SendMove(t, place) /\ Redraw
    BY <1>2 DEF Drag
  <2>2. t \in Tile /\ board.tile[t].known /\ board.tile[t] \in Tiles
    <3>1. t \in Tile /\ board.tile[t].overridden
      BY <1>2, InvParts, BoardParts DEF HeldOn
    <3>. QED
      BY <3>1, InvParts, BoardParts DEF HeldOn, NoTile
  <2>3. /\ b \in Boards /\ HeldOn(b) /\ b.timeout /\ b.dragging = t
        /\ b.tile[t] = [board.tile[t] EXCEPT !.overridden = TRUE]
        /\ \A u \in Tile : u # t => b.tile[u] = board.tile[u]
    BY <2>2, InvParts, OverrideTileFits
  <2>4. place \in Aside .. Between /\ place + 1 \in Nat
    BY Const
  <2>. HIDE DEF b
  <2>5. b.tile \in [Tile -> Tiles]
    BY <2>3 DEF Boards
  <2>6. /\ x \in Tiles /\ x.known /\ x.overridden /\ x.shown = place
        /\ x.server = board.tile[t].server
    BY <2>2, <2>3, <2>4, ZenonT(40) DEF Tiles
  <2>7. snap \in [tile : Tile \cup {None}, place : Nat]
    BY <2>2, <2>4
  <2>8. board' = [b EXCEPT !.tile = [b.tile EXCEPT ![t] = x], !.snap = snap]
    BY <2>1, <2>3 DEF Boards
  <2>. HIDE DEF x, snap
  <2>9. /\ board' \in Boards /\ board'.timeout /\ board'.dragging = t
        /\ board'.tile = [b.tile EXCEPT ![t] = x]
    BY <2>3, <2>5, <2>6, <2>7, <2>8 DEF Boards
  <2>10. board'.tile[t] = x /\ \A u \in Tile : u # t => board'.tile[u] = board.tile[u]
    BY <2>2, <2>3, <2>5, <2>9
  <2>11. Rests(t) /\ put'[t] = put[t] => Rests(t)'
    <3>1. put'[t] \in {Aside, place}
      BY <2>1, <2>2, InvParts DEF SendMove
    <3>2. board.tile[t].shown # place
      BY <1>2
    <3>. QED
      BY <3>1, <3>2 DEF Rests
  <2>12. board'.dragging = board.dragging
    BY <2>9
  <2>13. /\ board'.tile[t].known /\ board'.tile[t].overridden
         /\ board'.tile[t].server = board.tile[t].server
    BY <2>6, <2>10
  <2>14. SendMove(t, place) /\ Redraw /\ t \in Tile /\ board.tile[t].known
    BY <2>1, <2>2
  <2>15. /\ board' \in Boards /\ board'.timeout
         /\ \A u \in Tile : u # t => board'.tile[u] = board.tile[u]
    BY <2>9, <2>10
  <2>. QED
    BY <2>11, <2>12, <2>13, <2>14, <2>15, SendIsFine
<1>. QED
  BY <1>1, <1>2

LEMMA SnapIsFine ==
  ASSUME Inv, NEW t \in Tile, board.tile[t].known, board.snap.place <= Width, Snap(t)
  PROVE  Fine
<1>. DEFINE place == board.snap.place
            b == OverrideTile(board, t)
            moved == [b.tile[t] EXCEPT !.target = place]
            x == StartAnimation(moved)
            snap == [tile |-> t, place |-> place + 1]
<1>1. /\ board' = [b EXCEPT !.tile[t] = x, !.snap = snap]
      /\ SendMove(t, place) /\ Redraw
  <2>1. b \in Boards
    BY InvParts, OverrideTileFits
  <2>. QED
    BY <2>1 DEF Snap, Boards
<1>2. place \in Spot /\ place + 1 \in Nat
  BY Const, InvParts, BoardParts DEF Spot, Aside
<1>3. /\ b \in Boards /\ HeldOn(b) /\ b.timeout /\ b.dragging = board.dragging
      /\ b.tile[t] = [board.tile[t] EXCEPT !.overridden = TRUE]
      /\ \A u \in Tile : u # t => b.tile[u] = board.tile[u]
  BY InvParts, OverrideTileFits
<1>. HIDE DEF b
<1>4. b.tile \in [Tile -> Tiles] /\ board.tile[t] \in Tiles
  BY <1>3, InvParts DEF Boards
<1>. HIDE DEF place
<1>5. /\ moved \in Tiles /\ moved.known /\ moved.overridden /\ moved.target = place
      /\ moved.shown = board.tile[t].shown /\ moved.server = board.tile[t].server
  BY <1>2, <1>3, <1>4, ZenonT(40) DEF Tiles
<1>. HIDE DEF moved
<1>6. /\ x \in Tiles /\ x.known /\ x.overridden
      /\ x.shown = board.tile[t].shown /\ x.server = board.tile[t].server
      /\ x.animating = (board.tile[t].shown # place)
  BY <1>5, StartedFits
<1>7. snap \in [tile : Tile \cup {None}, place : Nat]
  BY <1>2
<1>. HIDE DEF x, snap
<1>8. /\ board' \in Boards /\ board'.timeout /\ board'.dragging = board.dragging
      /\ board'.tile = [b.tile EXCEPT ![t] = x]
  BY <1>1, <1>3, <1>4, <1>6, <1>7 DEF Boards
<1>9. board'.tile[t] = x /\ \A u \in Tile : u # t => board'.tile[u] = board.tile[u]
  BY <1>3, <1>4, <1>8
<1>10. Rests(t) /\ put'[t] = put[t] => Rests(t)'
  <2>1. put'[t] \in {Aside, place}
    BY <1>1, InvParts DEF SendMove
  <2>. QED
    BY <1>6, <1>9, <2>1 DEF Rests
<1>. QED
  BY <1>1, <1>2, <1>6, <1>8, <1>9, <1>10, SendIsFine

LEMMA ClickTileIsFine ==
  ASSUME Inv, NEW place, ClickTile(place)
  PROVE  Fine
<1>1. CASE ui.shouting \/ board.snap = NoSnap
  BY <1>1, NothingIsFine DEF ClickTile
<1>2. CASE ~(ui.shouting \/ board.snap = NoSnap) /\ board.snap.place > Width
  <2>1. board' = [board EXCEPT !.snap = NoSnap] /\ UNCHANGED <<ui, net, put>>
    BY <1>2 DEF ClickTile
  <2>2. NoSnap \in [tile : Tile \cup {None}, place : Nat]
    BY Const DEF NoSnap
  <2>. DEFINE snap == NoSnap
  <2>. HIDE DEF snap
  <2>3. /\ board' \in Boards /\ board'.tile = board.tile
        /\ board'.dragging = board.dragging /\ board'.timeout = board.timeout
    <3>1. board' = [board EXCEPT !.snap = snap]
      BY <2>1 DEF snap
    <3>2. snap \in [tile : Tile \cup {None}, place : Nat]
      BY <2>2 DEF snap
    <3>. QED
      BY <3>1, <3>2, InvParts DEF Boards
  <2>4. HeldOn(board')
    BY <2>3, InvParts DEF HeldOn
  <2>5. PutInv'
    BY <2>1, <2>3, InvParts, PutKept
  <2>6. PartTypes'
    BY <2>1, <2>3, InvParts DEF PartTypes
  <2>7. StaysPut /\ Looks
    BY <2>1, <2>3 DEF StaysPut, Looks, Rests
  <2>. QED
    BY <2>4, <2>5, <2>6, <2>7 DEF Fine, Solid, Held
<1>3. CASE ~(ui.shouting \/ board.snap = NoSnap) /\ ~(board.snap.place > Width)
  <2>1. PICK t \in TilesAt(place) :
          IF t \in {None, board.snap.tile} THEN NothingMoves ELSE Snap(t)
    BY <1>3 DEF ClickTile
  <2>2. CASE t \in {None, board.snap.tile}
    BY <2>1, <2>2, NothingIsFine
  <2>3. CASE t \notin {None, board.snap.tile}
    <3>1. t \in Tile /\ board.tile[t].known
      BY <2>3, TilesAtKnown
    <3>2. board.snap.place <= Width
      BY <1>3, Const, InvParts, BoardParts
    <3>. QED
      BY <2>1, <2>3, <3>1, <3>2, SnapIsFine
  <2>. QED
    BY <2>2, <2>3
<1>. QED
  BY <1>1, <1>2, <1>3

LEMMA SetDialogIsFine ==
  ASSUME Inv, NEW dialog \in Dialog, SetDialog(dialog)
  PROVE  Fine
<1>1. ui' \in Uis /\ (ui'.redraw \/ ui' = ui)
  <2>1. ui' = [ui EXCEPT !.dialog = dialog, !.redraw = @ \/ ui.dialog # dialog]
    BY DEF SetDialog
  <2>2. ui'.redraw \/ (ui.dialog = dialog /\ ~ui.redraw)
    BY <2>1, InvParts DEF Uis
  <2>3. ui.dialog = dialog /\ ~ui.redraw => ui' = ui
    BY <2>1, InvParts DEF Uis
  <2>4. ui' \in Uis
    BY <2>1, InvParts DEF Uis
  <2>. QED
    BY <2>2, <2>3, <2>4
<1>2. UNCHANGED <<board, net, put>>
  BY DEF SetDialog
<1>3. PartTypes' /\ Held'
  BY <1>1, <1>2, InvParts DEF PartTypes, Held
<1>4. PutInv'
  BY <1>2, InvParts, PutKept
<1>5. StaysPut /\ Looks
  BY <1>1, <1>2 DEF StaysPut, Looks, Rests
<1>. QED
  BY <1>3, <1>4, <1>5 DEF Fine, Solid

LEMMA ClickIsFine ==
  ASSUME Inv, NEW place, Click(place)
  PROVE  Fine
<1>0. None \in Dialog /\ "MENU" \in Dialog /\ "INVITE" \in Dialog
  BY DEF Dialog
<1>1. CASE ui.child # None
  <2>1. ClickDialog(place)
    BY <1>1 DEF Click
  <2>2. \/ SetDialog(None) \/ NothingMoves \/ SetDialog("INVITE") \/ ClickTile(place)
    BY <2>1 DEF ClickDialog
  <2>. QED
    BY <1>0, <2>2, NothingIsFine, SetDialogIsFine, ClickTileIsFine
<1>2. CASE ui.child = None
  <2>1. NothingMoves \/ SetDialog("MENU") \/ ClickTile(place)
    BY <1>2 DEF Click
  <2>. QED
    BY <1>0, <2>1, NothingIsFine, SetDialogIsFine, ClickTileIsFine
<1>. QED
  BY <1>1, <1>2

LEMMA StoreDragStartIsFine ==
  ASSUME Inv, StoreDragStart
  PROVE  Fine
BY NothingIsFine, DragStartIsFine DEF StoreDragStart

-----------------------------------------------------------------------------
(* What the fingers do.                                                     *)

LEMMA HandParts ==
  ASSUME Inv
  PROVE  /\ hand.pressed \in SUBSET Finger /\ hand.at \in [Finger -> Spot]
         /\ hand.maybeClick \in BOOLEAN /\ \A f \in Finger : hand.at[f] \in Spot
BY InvParts DEF Hands

LEMMA NoHandFits == NoHand \in Hands
<1>. DEFINE at == [f \in Finger |-> Aside]
<1>1. at \in [Finger -> Spot]
  BY Const
<1>. HIDE DEF at
<1>. QED
  BY <1>1 DEF NoHand, Hands, at

LEMMA GestureIsFine ==
  ASSUME Inv, NEW f \in Finger, NEW place \in Spot, NEW far \in BOOLEAN,
         \/ PressFinger(f, place) \/ MoveFinger(f, place, far) \/ ReleaseFinger(f)
         \/ CancelGesture \/ ClickTimeout
  PROVE  Fine /\ hand' \in Hands
<1>. DEFINE at == [hand.at EXCEPT ![f] = place]
            away == [hand.at EXCEPT ![f] = Aside]
            maybeClick == hand.maybeClick /\ ~(f = 1 /\ far)
<1>0. at \in [Finger -> Spot] /\ away \in [Finger -> Spot] /\ maybeClick \in BOOLEAN
  BY Const, HandParts
<1>1. CASE PressFinger(f, place)
  <2>1. hand' = [pressed |-> hand.pressed \cup {f}, at |-> at,
                 maybeClick |-> hand.pressed = {} /\ f = 1] /\ StoreDragStart
    BY <1>1 DEF PressFinger
  <2>. HIDE DEF at
  <2>. QED
    BY <1>0, <2>1, HandParts, StoreDragStartIsFine DEF Hands
<1>2. CASE MoveFinger(f, place, far)
  <2>1. hand' = [hand EXCEPT !.at = at, !.maybeClick = maybeClick]
    BY <1>2, InvParts DEF MoveFinger, Hands
  <2>2. Drag(place, maybeClick) \/ NothingMoves
    BY <1>2 DEF MoveFinger
  <2>. HIDE DEF at, maybeClick
  <2>3. hand' \in Hands
    BY <1>0, <2>1, InvParts DEF Hands
  <2>. QED
    BY <2>2, <2>3, DragIsFine, NothingIsFine
<1>3. CASE ReleaseFinger(f)
  <2>1. hand' = [pressed |-> hand.pressed \ {f}, at |-> away, maybeClick |-> FALSE]
    BY <1>3 DEF ReleaseFinger
  <2>2. Click(hand.at[1]) \/ StoreDragStart
    BY <1>3 DEF ReleaseFinger
  <2>. HIDE DEF away
  <2>. QED
    BY <1>0, <2>1, <2>2, HandParts, ClickIsFine, StoreDragStartIsFine DEF Hands
<1>4. CASE CancelGesture
  BY <1>4, NoHandFits, NothingIsFine DEF CancelGesture
<1>5. CASE ClickTimeout
  <2>1. hand' = [hand EXCEPT !.maybeClick = FALSE] /\ Drag(hand.at[1], FALSE)
    BY <1>5 DEF ClickTimeout
  <2>2. hand.at[1] \in Spot
    BY HandParts DEF Finger
  <2>3. hand' \in Hands
    BY <2>1, InvParts DEF Hands
  <2>. QED
    BY <2>1, <2>2, <2>3, DragIsFine
<1>. QED
  BY <1>1, <1>2, <1>3, <1>4, <1>5

-----------------------------------------------------------------------------
(* Timeouts, shouts and images.                                             *)

LEMMA NoTileParts ==
  /\ NoTile.known = FALSE /\ NoTile.overridden = FALSE /\ NoTile.animating = FALSE
  /\ NoTile.server = Aside
BY DEF NoTile

LEMMA ForgetFits ==
  ASSUME Inv, NEW some \in SUBSET Tile, Forget(some)
  PROVE  /\ put' \in [Tile -> Spot]
         /\ \A t \in Tile : put'[t] = IF t \in some THEN Aside ELSE put[t]
<1>1. \A t \in Tile : put[t] \in Spot /\ Aside \in Spot
  BY Const, InvParts
<1>. QED
  BY <1>1 DEF Forget

LEMMA UnsettledFits ==
  ASSUME Inv, Forget(Unsettled)
  PROVE  /\ put' \in [Tile -> Spot]
         /\ \A t \in Tile : put'[t] = IF Outstanding(t) THEN Aside ELSE put[t]
<1>1. Unsettled \in SUBSET Tile /\ \A t \in Tile : t \in Unsettled <=> Outstanding(t)
  BY DEF Unsettled
<1>. QED
  BY <1>1, ForgetFits

LEMMA SameBoard ==
  ASSUME Inv, board' = board
  PROVE  /\ board' \in Boards /\ Held'
         /\ (\A t \in Tile : put'[t] \in {put[t], Aside}) => StaysPut
<1>1. board' \in Boards /\ Held'
  BY InvParts DEF Held
<1>. QED
  BY <1>1 DEF StaysPut, Rests

LEMMA OverrideTimeoutIsFine ==
  ASSUME Inv, OverrideTimeout
  PROVE  Fine /\ hand' \in Hands
<1>1. /\ board' = CancelAllOverrides(board) /\ Forget(Unsettled) /\ net' = net
      /\ hand' = hand
      /\ IF \E t \in Known : board.tile[t].overridden THEN Redraw ELSE UNCHANGED ui
  BY DEF OverrideTimeout
<1>2. /\ board' \in Boards /\ HeldOn(board')
      /\ \A t \in Tile : board'.tile[t] = CancelledTile(board.tile[t])
  BY <1>1, InvParts, CancelAllFits
<1>3. /\ put' \in [Tile -> Spot]
      /\ \A t \in Tile : put'[t] = IF Outstanding(t) THEN Aside ELSE put[t]
  BY <1>1, UnsettledFits
<1>4. ASSUME NEW t \in Tile
      PROVE  /\ board'.tile[t].server = board.tile[t].server
             /\ board'.tile[t].known = board.tile[t].known
             /\ ~board.tile[t].overridden => board'.tile[t] = board.tile[t]
  <2>1. board.tile[t] \in Tiles /\ (~board.tile[t].known => board.tile[t] = NoTile)
    BY InvParts, BoardParts DEF HeldOn
  <2>. QED
    BY <1>2, <2>1, CancelledFits
<1>5. PutInv'
  BY <1>1, <1>3, <1>4, InvParts, PutKept
<1>6. StaysPut
  <2>1. ASSUME NEW t \in Tile, Rests(t), put'[t] = put[t] PROVE Rests(t)'
    <3>1. ~Outstanding(t) /\ put[t] # Aside
      BY <1>3, <2>1 DEF Rests
    <3>2. CancelledTile(board.tile[t]).shown = put[t]
          /\ ~CancelledTile(board.tile[t]).animating
      BY <2>1, <3>1, CancelRests
    <3>. QED
      BY <1>2, <2>1, <3>1, <3>2 DEF Rests
  <2>. QED
    BY <2>1 DEF StaysPut
<1>7. ui' \in Uis /\ Looks
  <2>1. CASE \E t \in Known : board.tile[t].overridden
    BY <1>1, <2>1, InvParts, RedrawFits DEF Looks
  <2>2. CASE ~\E t \in Known : board.tile[t].overridden
    <3>1. \A t \in Tile : ~board.tile[t].overridden
      BY <2>2, InvParts, NoTileParts DEF Known, HeldOn
    <3>2. \A t \in Tile : board'.tile[t] = board.tile[t]
      BY <1>4, <3>1
    <3>3. board.tile \in [Tile -> Tiles] /\ board'.tile \in [Tile -> Tiles]
      BY <1>2, InvParts DEF Boards
    <3>4. board.tile = [t \in Tile |-> board.tile[t]]
          /\ board'.tile = [t \in Tile |-> board'.tile[t]]
      BY <3>3
    <3>5. board'.tile = board.tile
      BY <3>2, <3>4
    <3>. QED
      BY <1>1, <2>2, <3>5, InvParts DEF Looks
  <2>. QED
    BY <2>1, <2>2
<1>8. PartTypes'
  BY <1>1, <1>2, <1>3, <1>7, InvParts DEF PartTypes
<1>. QED
  BY <1>1, <1>2, <1>5, <1>6, <1>7, <1>8, InvParts DEF Fine, Solid, Held

LEMMA ShoutsAreFine ==
  ASSUME Inv, ShoutEnds \/ OtherShouts
  PROVE  Fine /\ hand' \in Hands
<1>1. /\ board' = board /\ hand' = hand /\ net' = net /\ put' = put
      /\ \E shouting \in BOOLEAN : ui' = [ui EXCEPT !.shouting = shouting, !.redraw = TRUE]
  BY DEF ShoutEnds, OtherShouts
<1>2. ui' \in Uis /\ ui'.redraw
  BY <1>1, InvParts DEF Uis
<1>3. PutInv'
  BY <1>1, InvParts, PutKept
<1>4. PartTypes' /\ Held' /\ StaysPut
  BY <1>1, <1>2, InvParts, SameBoard DEF PartTypes
<1>. QED
  BY <1>1, <1>2, <1>3, <1>4, InvParts DEF Fine, Solid, Looks

LEMMA ToolReadyIsSolid ==
  ASSUME Inv, ToolReady, fresh' = (fresh /\ ShownOn(board') = ShownOn(board))
  PROVE  Solid /\ hand' \in Hands /\ Seen'
<1>1. /\ board' = board /\ hand' = hand /\ net' = net /\ put' = put
      /\ ui' = [ui EXCEPT !.ready = TRUE, !.redraw = @ \/ Known # {}]
  BY DEF ToolReady
<1>2. /\ ui' \in Uis /\ ui'.child = ui.child /\ ui'.dialog = ui.dialog
      /\ ui'.shouting = ui.shouting /\ (~ui'.redraw => ~ui.redraw /\ Known = {})
  BY <1>1, InvParts DEF Uis
<1>3. PutInv'
  BY <1>1, InvParts, PutKept
<1>4. PartTypes' /\ Held' /\ StaysPut
  BY <1>1, <1>2, InvParts, SameBoard DEF PartTypes
<1>5. fresh' = fresh
  BY <1>1, InvParts
<1>6. Seen'
  BY <1>1, <1>2, <1>5, InvParts DEF Seen
<1>. QED
  BY <1>1, <1>3, <1>4, <1>6, InvParts DEF Solid

\* What looks the same needs no new frame.
LEMMA SeenStays ==
  ASSUME Inv, PartTypes', Looks, fresh' = (fresh /\ ShownOn(board') = ShownOn(board))
  PROVE  Seen' /\ fresh' \in BOOLEAN
<1>1. fresh' \in BOOLEAN
  BY InvParts
<1>2. CASE ui'.redraw
  BY <1>1, <1>2 DEF Seen
<1>3. CASE ui' = ui /\ board'.tile = board.tile
  <2>1. ShownOn(board') = ShownOn(board) /\ Known' = Known
    BY <1>3 DEF ShownOn, Known
  <2>2. fresh' = fresh
    BY <2>1, InvParts
  <2>. QED
    BY <1>1, <1>3, <2>1, <2>2, InvParts DEF Seen
<1>. QED
  BY <1>2, <1>3 DEF Looks

-----------------------------------------------------------------------------
(* The network and what makes the board anew.                               *)

\* The network changes and the board does not.
LEMMA NetIsFine ==
  ASSUME Inv, UNCHANGED <<board, hand, ui>>, net' \in Nets, put' \in [Tile -> Spot],
         \A t \in Tile : put'[t] \in {put[t], Aside},
         Len(net'.down) <= DownCap, PutInv'
  PROVE  Fine /\ hand' \in Hands
<1>1. PartTypes' /\ Held' /\ StaysPut
  BY InvParts, SameBoard DEF PartTypes
<1>. QED
  BY <1>1, InvParts DEF Fine, Solid, Looks

LEMMA WriteIsFine ==
  ASSUME Inv, NEW t \in Tile, Write(t)
  PROVE  Fine /\ hand' \in Hands
<1>. DEFINE place == net.unsent[t]
            unsent == [net.unsent EXCEPT ![t] = Aside]
            new == [at |-> place, by |-> "me"]
<1>1. /\ place # Aside /\ UNCHANGED <<board, hand, ui, put>>
      /\ net' = IF net.server[t].at = place THEN [net EXCEPT !.unsent[t] = Aside]
                ELSE [[net EXCEPT !.unsent[t] = Aside] EXCEPT !.server[t] = new,
                                                     !.dirty = @ \cup {t}]
  BY DEF Write
<1>2. PartTypes /\ place \in Spot /\ new \in Played /\ unsent \in [Tile -> Spot]
      /\ new.at = place /\ new.by = "me" /\ new # NotPlaying
  BY <1>1, InvParts, NetParts, Const DEF Played, Who, NotPlaying
<1>3. unsent[t] = Aside /\ \A u \in Tile : u # t => unsent[u] = net.unsent[u]
  BY <1>2, NetParts
<1>4. Told(t) /\ OutOfPlay(t) /\ Kept(t)
  BY InvParts DEF PutInv
<1>. HIDE DEF new, unsent
<1>5. CASE net.server[t].at = place
  <2>1. net' = [net EXCEPT !.unsent = unsent]
    BY <1>1, <1>5 DEF unsent
  <2>2. /\ net' \in Nets /\ net'.unsent = unsent /\ net'.server = net.server
        /\ net'.dirty = net.dirty /\ net'.down = net.down
    BY <1>2, <2>1, InvParts DEF Nets
  <2>3. \A u \in Tile : About(u)' = About(u)
    BY <2>2 DEF About
  <2>4. ASSUME NEW u \in Tile PROVE Told(u)' /\ OutOfPlay(u)' /\ Kept(u)'
    <3>1. Told(u) /\ OutOfPlay(u) /\ Kept(u)
      BY InvParts DEF PutInv
    <3>2. Told(u)'
      BY <1>1, <2>2, <2>3, <3>1 DEF Told
    <3>3. OutOfPlay(u)'
      BY <1>1, <1>3, <2>2, <2>3, <3>1 DEF OutOfPlay
    <3>4. CASE u # t
      <4>1. Kept(u)'
        BY <1>1, <1>3, <2>2, <2>3, <3>1, <3>4 DEF Kept, Settled, Mine
      <4>. QED
        BY <3>2, <3>3, <4>1
    <3>5. CASE u = t
      <4>1. ASSUME put[t] # Aside PROVE Mine(t)'
        <5>1. Mine(t) /\ net.unsent[t] = put[t]
          BY <1>1, <1>4, <4>1 DEF Kept, Settled, Mine
        <5>. QED
          BY <1>1, <1>3, <1>5, <2>2, <2>3, <5>1 DEF Mine
      <4>2. Kept(u)'
        BY <1>1, <3>5, <4>1 DEF Kept
      <4>. QED
        BY <3>2, <3>3, <4>2
    <3>. QED
      BY <3>4, <3>5
  <2>5. PutInv'
    BY <2>4 DEF PutInv
  <2>. QED
    BY <1>1, <2>2, <2>5, InvParts, NetIsFine DEF PartTypes
<1>6. CASE net.server[t].at # place
  <2>. DEFINE server == [net.server EXCEPT ![t] = new]
              dirty == net.dirty \cup {t}
  <2>1. net' = [net EXCEPT !.unsent = unsent, !.server = server, !.dirty = dirty]
    BY <1>1, <1>6, InvParts DEF unsent, Nets
  <2>2. /\ server \in [Tile -> Played] /\ dirty \in SUBSET Tile
        /\ server[t] = new /\ \A u \in Tile : u # t => server[u] = net.server[u]
    BY <1>2, NetParts
  <2>. HIDE DEF server, dirty
  <2>3. /\ net' \in Nets /\ net'.unsent = unsent /\ net'.server = server
        /\ net'.dirty = dirty /\ net'.down = net.down
    BY <1>2, <2>1, <2>2, InvParts DEF Nets
  <2>4. \A u \in Tile : About(u)' = About(u)
    BY <2>3 DEF About
  <2>5. ASSUME NEW u \in Tile, u # t PROVE Told(u)' /\ OutOfPlay(u)' /\ Kept(u)'
    <3>1. Told(u) /\ OutOfPlay(u) /\ Kept(u)
      BY InvParts DEF PutInv
    <3>2. u \in dirty <=> u \in net.dirty
      BY <2>5 DEF dirty
    <3>3. Told(u)'
      BY <1>1, <2>2, <2>3, <2>4, <2>5, <3>1, <3>2 DEF Told
    <3>4. OutOfPlay(u)'
      BY <1>1, <1>3, <2>2, <2>3, <2>4, <2>5, <3>1, <3>2 DEF OutOfPlay
    <3>5. Kept(u)'
      BY <1>1, <1>3, <2>2, <2>3, <2>4, <2>5, <3>1, <3>2 DEF Kept, Settled, Mine
    <3>. QED
      BY <3>3, <3>4, <3>5
  <2>6. Told(t)' /\ OutOfPlay(t)'
    BY <1>2, <2>2, <2>3 DEF Told, OutOfPlay, dirty
  <2>7. Kept(t)'
    <3>1. ASSUME put[t] # Aside PROVE Mine(t)'
      <4>1. Mine(t) /\ net.unsent[t] = put[t]
        BY <1>1, <1>4, <3>1 DEF Kept, Settled, Mine
      <4>. QED
        BY <1>1, <1>2, <1>3, <2>2, <2>3, <2>4, <4>1 DEF Mine
    <3>. QED
      BY <1>1, <3>1 DEF Kept
  <2>8. PutInv'
    BY <2>5, <2>6, <2>7 DEF PutInv
  <2>. QED
    BY <1>1, <2>3, <2>8, InvParts, NetIsFine DEF PartTypes
<1>. QED
  BY <1>5, <1>6

LEMMA TellIsFine ==
  ASSUME Inv, NEW t \in Tile, Tell(t)
  PROVE  Fine /\ hand' \in Hands
<1>. DEFINE e == [tile |-> t, place |-> net.server[t].at, by |-> net.server[t].by]
            down == Append(net.down, e)
            dirty == net.dirty \ {t}
            n == Len(net.down)
<1>1. /\ t \in net.dirty /\ n < DownCap /\ UNCHANGED <<board, hand, ui, put>>
      /\ net' = [net EXCEPT !.dirty = dirty, !.down = down]
  BY DEF Tell
<1>2. /\ e \in Event /\ e.tile = t /\ e.place = net.server[t].at /\ e.by = net.server[t].by
      /\ net.down \in Seq(Event) /\ n \in Nat /\ dirty \in SUBSET Tile
  BY InvParts, NetParts DEF Event
<1>. HIDE DEF e
<1>3. /\ down \in Seq(Event) /\ Len(down) = n + 1 /\ down[n + 1] = e
      /\ \A i \in 1 .. n : down[i] = net.down[i]
  BY <1>2
<1>. HIDE DEF down, dirty, n
<1>4. /\ net' \in Nets /\ net'.down = down /\ net'.dirty = dirty
      /\ net'.unsent = net.unsent /\ net'.server = net.server
  BY <1>1, <1>2, <1>3, InvParts DEF Nets
<1>5. \A u \in Tile : u # t => About(u)' = About(u)
  BY <1>2, <1>3, <1>4 DEF About, n
<1>6. About(t)' = About(t) \cup {n + 1}
  BY <1>2, <1>3, <1>4 DEF About, n
<1>7. \A u \in Tile : About(u) \subseteq 1 .. n
  BY DEF About, n
<1>8. ASSUME NEW u \in Tile, u # t PROVE Told(u)' /\ OutOfPlay(u)' /\ Kept(u)'
  <2>1. Told(u) /\ OutOfPlay(u) /\ Kept(u)
    BY InvParts DEF PutInv
  <2>2. u \in dirty <=> u \in net.dirty
    BY <1>8 DEF dirty
  <2>3. \A i \in About(u) : net'.down[i] = net.down[i]
    BY <1>3, <1>4, <1>7
  <2>4. Told(u)'
    BY <1>1, <1>4, <1>5, <1>8, <2>1, <2>2, <2>3 DEF Told
  <2>5. OutOfPlay(u)'
    BY <1>1, <1>4, <1>5, <1>8, <2>1, <2>2 DEF OutOfPlay
  <2>6. Kept(u)'
    BY <1>1, <1>4, <1>5, <1>8, <2>1, <2>2, <2>3 DEF Kept, Settled, Mine
  <2>. QED
    BY <2>4, <2>5, <2>6
<1>9. Told(t)'
  <2>1. ASSUME NEW i \in About(t)', \A j \in About(t)' : j <= i
        PROVE  net'.down[i].place = net'.server[t].at
    <3>1. i = n + 1
      BY <1>2, <1>6, <1>7, <2>1
    <3>. QED
      BY <1>2, <1>3, <1>4, <3>1
  <2>2. About(t)' # {}
    BY <1>6
  <2>. QED
    BY <2>1, <2>2 DEF Told
<1>10. OutOfPlay(t)'
  <2>1. net.server[t] # NotPlaying
    BY <1>1, InvParts DEF PutInv, OutOfPlay
  <2>. QED
    BY <1>4, <2>1 DEF OutOfPlay
<1>11. Kept(t)'
  <2>. SUFFICES ASSUME put[t] # Aside PROVE Settled(t)' \/ Mine(t)'
    BY <1>1 DEF Kept
  <2>0. \A i \in About(t) : net'.down[i] = net.down[i]
    BY <1>3, <1>4, <1>7
  <2>1. CASE Settled(t)
    <3>1. \A i \in About(t)' : net'.down[i].place = put[t]
      BY <1>2, <1>3, <1>4, <1>6, <2>0, <2>1 DEF Settled
    <3>. QED
      BY <1>1, <1>4, <2>1, <3>1 DEF Settled
  <2>2. CASE Mine(t)
    <3>1. \A i \in About(t)' : net'.down[i].by = "me"
      BY <1>1, <1>2, <1>3, <1>4, <1>6, <2>0, <2>2 DEF Mine
    <3>2. t \notin net'.dirty
      BY <1>4 DEF dirty
    <3>. QED
      BY <1>1, <1>4, <2>2, <3>1, <3>2 DEF Mine
  <2>. QED
    BY <2>1, <2>2, InvParts DEF PutInv, Kept
<1>12. PutInv'
  BY <1>8, <1>9, <1>10, <1>11 DEF PutInv
<1>13. Len(net'.down) <= DownCap
  BY <1>1, <1>2, <1>3, <1>4, Const
<1>. QED
  BY <1>1, <1>4, <1>12, <1>13, InvParts, NetIsFine

LEMMA SyncIsFine ==
  ASSUME Inv, Sync
  PROVE  Fine /\ hand' \in Hands
<1>1. UNCHANGED <<board, hand, ui, put>> /\ net' = [net EXCEPT !.synced = TRUE]
  BY DEF Sync
<1>2. /\ net' \in Nets /\ net'.unsent = net.unsent /\ net'.server = net.server
      /\ net'.dirty = net.dirty /\ net'.down = net.down
  BY <1>1, InvParts DEF Nets
<1>3. \A u \in Tile : About(u)' = About(u)
  BY <1>2 DEF About
<1>4. ASSUME NEW u \in Tile PROVE Told(u)' /\ OutOfPlay(u)' /\ Kept(u)'
  <2>1. Told(u) /\ OutOfPlay(u) /\ Kept(u)
    BY InvParts DEF PutInv
  <2>2. Told(u)' /\ OutOfPlay(u)'
    BY <1>1, <1>2, <1>3, <2>1 DEF Told, OutOfPlay
  <2>3. Kept(u)'
    BY <1>1, <1>2, <1>3, <2>1 DEF Kept, Settled, Mine
  <2>. QED
    BY <2>2, <2>3
<1>5. PutInv'
  BY <1>4 DEF PutInv
<1>. QED
  BY <1>1, <1>2, <1>5, InvParts, NetIsFine DEF PartTypes

\* Somebody else puts a tile somewhere: the player's place is forgotten.
LEMMA TellAboutIsFine ==
  ASSUME Inv, NEW t \in Tile, NEW place \in Place, TellAbout(t, place),
         UNCHANGED <<board, hand, ui>>, put' \in [Tile -> Spot], put'[t] = Aside,
         \A u \in Tile : u # t => put'[u] = put[u]
  PROVE  Fine /\ hand' \in Hands
<1>. DEFINE new == [at |-> place, by |-> "them"]
            server == [net.server EXCEPT ![t] = new]
            dirty == net.dirty \cup {t}
<1>1. net' = [net EXCEPT !.server = server, !.dirty = dirty]
  BY InvParts DEF TellAbout, Nets
<1>2. new \in Played /\ new # NotPlaying
  BY Const DEF Played, Who, NotPlaying
<1>. HIDE DEF new
<1>3. /\ server \in [Tile -> Played] /\ dirty \in SUBSET Tile
      /\ server[t] = new /\ \A u \in Tile : u # t => server[u] = net.server[u]
  BY <1>2, InvParts, NetParts
<1>. HIDE DEF server, dirty
<1>4. /\ net' \in Nets /\ net'.unsent = net.unsent /\ net'.server = server
      /\ net'.dirty = dirty /\ net'.down = net.down
  BY <1>1, <1>3, InvParts DEF Nets
<1>5. \A u \in Tile : About(u)' = About(u)
  BY <1>4 DEF About
<1>6. ASSUME NEW u \in Tile, u # t PROVE Told(u)' /\ OutOfPlay(u)' /\ Kept(u)'
  <2>1. Told(u) /\ OutOfPlay(u) /\ Kept(u)
    BY InvParts DEF PutInv
  <2>2. u \in dirty <=> u \in net.dirty
    BY <1>6 DEF dirty
  <2>3. Told(u)' /\ OutOfPlay(u)'
    BY <1>3, <1>4, <1>5, <1>6, <2>1, <2>2 DEF Told, OutOfPlay
  <2>4. Kept(u)'
    BY <1>3, <1>4, <1>5, <1>6, <2>1, <2>2 DEF Kept, Settled, Mine
  <2>. QED
    BY <2>3, <2>4
<1>7. Told(t)' /\ OutOfPlay(t)' /\ Kept(t)'
  <2>1. t \in net'.dirty /\ net'.server[t] # NotPlaying
    BY <1>2, <1>3, <1>4 DEF dirty
  <2>. QED
    BY <2>1 DEF Told, OutOfPlay, Kept
<1>8. PutInv'
  BY <1>6, <1>7 DEF PutInv
<1>9. \A u \in Tile : put'[u] \in {put[u], Aside}
  OBVIOUS
<1>. QED
  BY <1>4, <1>8, <1>9, InvParts, NetIsFine DEF PartTypes

LEMMA NewTileIsFine ==
  ASSUME Inv, NEW t \in Tile, NEW place \in Place, NewTile(t, place)
  PROVE  Fine /\ hand' \in Hands
<1>1. net.server[t] = NotPlaying /\ TellAbout(t, place) /\ UNCHANGED <<board, hand, ui, put>>
  BY DEF NewTile
<1>2. put[t] = Aside
  BY <1>1, InvParts DEF PutInv, OutOfPlay
<1>3. put' \in [Tile -> Spot] /\ put'[t] = Aside /\ \A u \in Tile : u # t => put'[u] = put[u]
  BY <1>1, <1>2, InvParts
<1>. QED
  BY <1>1, <1>3, TellAboutIsFine

LEMMA OtherMovesIsFine ==
  ASSUME Inv, NEW t \in Tile, NEW place \in Place, OtherMoves(t, place)
  PROVE  Fine /\ hand' \in Hands
<1>1. Forget({t}) /\ TellAbout(t, place) /\ UNCHANGED <<board, hand, ui>>
  BY DEF OtherMoves
<1>2. put' \in [Tile -> Spot] /\ put'[t] = Aside /\ \A u \in Tile : u # t => put'[u] = put[u]
  BY <1>1, ForgetFits
<1>. QED
  BY <1>1, <1>2, TellAboutIsFine

LEMMA HandleEventIsFine ==
  ASSUME Inv, HandleEvent
  PROVE  Fine /\ hand' \in Hands
<1>. DEFINE n == Len(net.down)
            down == Tail(net.down)
<1>0. PICK e : e = Head(net.down)
  OBVIOUS
<1>1. /\ net.down # <<>> /\ net' = [net EXCEPT !.down = down]
      /\ board' = HandleTileEvent(board, e)
      /\ ui' = [ui EXCEPT !.redraw = TRUE,
                     !.dialog = IF Known = {} /\ @ = "INVITE" THEN None ELSE @]
      /\ hand' = hand /\ put' = put
  BY <1>0 DEF HandleEvent
<1>2. /\ e \in Event /\ e = net.down[1] /\ n \in Nat /\ n >= 1
      /\ down \in Seq(Event) /\ Len(down) = n - 1
      /\ \A i \in 1 .. n - 1 : down[i] = net.down[i + 1]
  BY <1>0, <1>1, InvParts, NetParts
<1>. HIDE DEF down, n
<1>3. PICK t \in Tile : t = e.tile
  BY <1>2 DEF Event
<1>4. /\ net' \in Nets /\ net'.down = down /\ net'.dirty = net.dirty
      /\ net'.unsent = net.unsent /\ net'.server = net.server
  BY <1>1, <1>2, InvParts DEF Nets
<1>5. ui' \in Uis /\ ui'.redraw
  BY <1>1, InvParts DEF Uis, Dialog
<1>. DEFINE old == board.tile[t]
            x == EventTile(old, e)
<1>6. /\ board' \in Boards /\ HeldOn(board') /\ board'.tile[t] = x
      /\ \A u \in Tile : u # t => board'.tile[u] = board.tile[u]
  BY <1>1, <1>2, <1>3, InvParts, HandleTileEventFits
<1>7. /\ x \in Tiles /\ x.known /\ x.server = e.place
      /\ x.overridden <=> (board.tile[t].overridden /\ e.by = "me")
      /\ x.overridden => x.shown = board.tile[t].shown
                           /\ x.animating = board.tile[t].animating
      /\ ~x.overridden =>
           \/ x.shown = board.tile[t].shown
                /\ x.animating = (board.tile[t].shown # e.place)
           \/ x.shown = e.place /\ ~x.animating
  <2>1. old \in Tiles /\ e \in Event
    BY <1>2, InvParts, BoardParts
  <2>. HIDE DEF old
  <2>2. /\ x \in Tiles /\ x.known /\ x.server = e.place
        /\ x.overridden <=> (old.overridden /\ e.by = "me")
        /\ x.overridden => x.shown = old.shown /\ x.animating = old.animating
        /\ ~x.overridden =>
             \/ x.shown = old.shown /\ x.animating = (old.shown # e.place)
             \/ x.shown = e.place /\ ~x.animating
    BY <2>1, EventTileFits
  <2>. HIDE DEF x
  <2>. QED
    BY <2>2 DEF old
<1>. HIDE DEF x
<1>8. \A u \in Tile, i \in 1 .. n - 1 :
         /\ i \in About(u)' <=> i + 1 \in About(u)
         /\ net'.down[i] = net.down[i + 1]
  BY <1>2, <1>4 DEF About, n
<1>9. \A u \in Tile : About(u) \subseteq 1 .. n /\ About(u)' \subseteq 1 .. n - 1
  BY <1>2, <1>4 DEF About, n
<1>10. \A u \in Tile : 1 \in About(u) <=> u = t
  BY <1>2, <1>3 DEF About, n
<1>11. \A u \in Tile : \A i \in About(u) : i = 1 \/ (i - 1 \in About(u)' /\ i - 1 \in 1 .. n - 1)
  <2>1. ASSUME NEW u \in Tile, NEW i \in About(u), i # 1
        PROVE  i - 1 \in About(u)' /\ i - 1 \in 1 .. n - 1
    <3>1. i - 1 \in 1 .. n - 1 /\ (i - 1) + 1 = i
      BY <1>2, <1>9, <2>1
    <3>. QED
      BY <1>8, <3>1
  <2>. QED
    BY <2>1
<1>12. \A u \in Tile : \A i \in About(u)' :
         i + 1 \in About(u) /\ net'.down[i] = net.down[i + 1] /\ i \in 1 .. n - 1
  BY <1>8, <1>9
<1>13. ASSUME NEW u \in Tile PROVE Told(u)' /\ OutOfPlay(u)' /\ Kept(u)'
  <2>1. Told(u) /\ OutOfPlay(u) /\ Kept(u)
    BY InvParts DEF PutInv
  <2>2. \A i \in About(u)' : (\A j \in About(u)' : j <= i) => \A j \in About(u) : j <= i + 1
    <3>1. ASSUME NEW i \in About(u)', \A j \in About(u)' : j <= i, NEW j \in About(u)
          PROVE  j <= i + 1
      <4>1. i \in Nat /\ j \in Nat
        BY <1>2, <1>9, <3>1
      <4>2. CASE j = 1
        BY <4>1, <4>2
      <4>3. CASE j # 1
        BY <1>11, <3>1, <4>1, <4>3
      <4>. QED
        BY <4>2, <4>3
    <3>. QED
      BY <3>1
  <2>3. ASSUME u \notin net.dirty, NEW i \in About(u)', \A j \in About(u)' : j <= i
        PROVE  net'.down[i].place = net'.server[u].at
    <3>1. i + 1 \in About(u) /\ \A j \in About(u) : j <= i + 1
      BY <1>12, <2>2, <2>3
    <3>2. net.down[i + 1].place = net.server[u].at
      BY <2>1, <2>3, <3>1 DEF Told
    <3>. QED
      BY <1>4, <1>12, <2>3, <3>2
  <2>4. ASSUME u \notin net.dirty, About(u)' = {}
        PROVE  board'.tile[u].server = net'.server[u].at
    <3>1. \A i \in About(u) : i = 1
      BY <1>11, <2>4
    <3>2. CASE u = t
      <4>1. 1 \in About(u) /\ \A j \in About(u) : j <= 1
        BY <1>10, <3>1, <3>2
      <4>2. net.down[1].place = net.server[u].at
        BY <2>1, <2>4, <4>1 DEF Told
      <4>. QED
        BY <1>2, <1>4, <1>6, <1>7, <3>2, <4>2
    <3>3. CASE u # t
      <4>1. About(u) = {}
        BY <1>10, <3>1, <3>3
      <4>. QED
        BY <1>4, <1>6, <2>1, <2>4, <3>3, <4>1 DEF Told
    <3>. QED
      BY <3>2, <3>3
  <2>5. Told(u)'
    BY <1>4, <2>3, <2>4 DEF Told
  <2>6. OutOfPlay(u)'
    <3>. SUFFICES ASSUME net.server[u] = NotPlaying PROVE OutOfPlay(u)'
      BY <1>4 DEF OutOfPlay
    <3>1. About(u) = {} /\ u # t
      BY <1>10, <2>1 DEF OutOfPlay
    <3>2. About(u)' = {}
      BY <1>12, <3>1
    <3>. QED
      BY <1>1, <1>4, <1>6, <2>1, <3>1, <3>2 DEF OutOfPlay
  <2>7. Kept(u)'
    <3>. SUFFICES ASSUME put[u] # Aside PROVE Settled(u)' \/ Mine(u)'
      BY <1>1 DEF Kept
    <3>1. CASE Settled(u)
      BY <1>1, <1>4, <1>12, <3>1 DEF Settled
    <3>2. CASE Mine(u)
      <4>1. board'.tile[u].overridden
        <5>1. CASE u = t
          <6>1. e.by = "me"
            BY <1>2, <1>10, <3>2, <5>1 DEF Mine
          <6>. QED
            BY <1>6, <1>7, <3>2, <5>1, <6>1 DEF Mine
        <5>2. CASE u # t
          BY <1>6, <3>2, <5>2 DEF Mine
        <5>. QED
          BY <5>1, <5>2
      <4>2. \A i \in About(u)' : net'.down[i].by = "me"
        BY <1>12, <3>2 DEF Mine
      <4>. QED
        BY <1>1, <1>4, <3>2, <4>1, <4>2 DEF Mine
    <3>. QED
      BY <2>1, <3>1, <3>2 DEF Kept
  <2>. QED
    BY <2>5, <2>6, <2>7
<1>14. PutInv'
  BY <1>13 DEF PutInv
<1>15. Rests(t) => Rests(t)'
  <2>. SUFFICES ASSUME Rests(t) PROVE Rests(t)'
    OBVIOUS
  <2>1. put[t] # Aside /\ board.tile[t].shown = put[t] /\ ~board.tile[t].animating
    BY DEF Rests
  <2>2. CASE Settled(t)
    <3>1. e.place = put[t]
      BY <1>2, <1>10, <2>2 DEF Settled
    <3>. QED
      BY <1>1, <1>6, <1>7, <2>1, <3>1 DEF Rests
  <2>3. CASE Mine(t)
    <3>1. e.by = "me" /\ board.tile[t].overridden
      BY <1>2, <1>10, <2>3 DEF Mine
    <3>. QED
      BY <1>1, <1>6, <1>7, <2>1, <3>1 DEF Rests
  <2>. QED
    BY <2>1, <2>2, <2>3, InvParts DEF PutInv, Kept
<1>16. StaysPut
  BY <1>1, <1>6, <1>15 DEF StaysPut, Rests
<1>17. PartTypes'
  <2>1. Len(net'.down) <= DownCap
    BY <1>2, <1>4, Const, InvParts DEF PartTypes, n
  <2>. QED
    BY <1>1, <1>4, <1>5, <1>6, <2>1, InvParts DEF PartTypes
<1>. QED
  BY <1>1, <1>5, <1>6, <1>14, <1>16, <1>17, InvParts DEF Fine, Solid, Looks, Held

LEMMA LoseIsFine ==
  ASSUME Inv, Lose
  PROVE  Fine /\ hand' \in Hands
<1>. DEFINE dirty == {t \in Tile : net.server[t] # NotPlaying}
<1>1. UNCHANGED <<board, hand, ui>> /\ Forget(Unsettled)
  BY DEF Lose
<1>2. PICK lost \in {{}} \cup {{t} : t \in {u \in Tile : net.unsent[u] # Aside}},
           n \in 0 .. Len(net.down) :
        net' = [net EXCEPT
                  !.unsent = [t \in Tile |-> IF t \in lost THEN Aside ELSE @[t]],
                  !.dirty = {t \in Tile : net.server[t] # NotPlaying},
                  !.down = SubSeq(@, 1, n),
                  !.synced = FALSE]
  BY DEF Lose
<1>. DEFINE unsent == [t \in Tile |-> IF t \in lost THEN Aside ELSE net.unsent[t]]
            down == SubSeq(net.down, 1, n)
<1>3. net' = [net EXCEPT !.unsent = unsent, !.dirty = dirty, !.down = down, !.synced = FALSE]
  BY <1>2
<1>4. /\ unsent \in [Tile -> Spot] /\ dirty \in SUBSET Tile
      /\ \A t \in Tile : net.unsent[t] = Aside => unsent[t] = Aside
  BY Const, InvParts, NetParts
<1>5. /\ down \in Seq(Event) /\ Len(down) = n /\ n \in Nat /\ n <= Len(net.down)
      /\ Len(net.down) \in Nat
      /\ \A i \in 1 .. n : down[i] = net.down[i]
  BY <1>2, InvParts, NetParts
<1>. HIDE DEF unsent, dirty, down
<1>6. /\ net' \in Nets /\ net'.unsent = unsent /\ net'.dirty = dirty /\ net'.down = down
      /\ net'.server = net.server
  BY <1>3, <1>4, <1>5, InvParts DEF Nets
<1>7. \A u \in Tile : About(u)' \subseteq About(u)
  BY <1>5, <1>6 DEF About
<1>8. /\ put' \in [Tile -> Spot]
      /\ \A t \in Tile : put'[t] = IF Outstanding(t) THEN Aside ELSE put[t]
  BY <1>1, UnsettledFits
<1>9. ASSUME NEW u \in Tile PROVE Told(u)' /\ OutOfPlay(u)' /\ Kept(u)'
  <2>1. Told(u) /\ OutOfPlay(u) /\ Kept(u)
    BY InvParts DEF PutInv
  <2>2. u \in dirty <=> net.server[u] # NotPlaying
    BY DEF dirty
  <2>3. OutOfPlay(u)'
    BY <1>1, <1>4, <1>6, <1>7, <1>8, <2>1, <2>2 DEF OutOfPlay
  <2>4. Told(u)'
    <3>1. CASE net.server[u] # NotPlaying
      BY <1>6, <2>2, <3>1 DEF Told
    <3>2. CASE net.server[u] = NotPlaying
      <4>1. About(u)' = {} /\ ~board.tile[u].known
        BY <1>7, <2>1, <3>2 DEF OutOfPlay
      <4>2. board.tile[u].server = Aside
        BY <4>1, InvParts, NoTileParts DEF HeldOn
      <4>3. net.server[u].at = Aside
        BY <3>2 DEF NotPlaying
      <4>. QED
        BY <1>1, <1>6, <4>1, <4>2, <4>3 DEF Told
    <3>. QED
      BY <3>1, <3>2
  <2>5. Kept(u)'
    <3>. SUFFICES ASSUME put'[u] # Aside PROVE Settled(u)'
      BY DEF Kept
    <3>1. put'[u] = put[u] /\ put[u] # Aside /\ ~Outstanding(u)
      BY <1>8
    <3>2. Settled(u) /\ About(u) = {}
      BY <3>1, InvParts, SettledServer, OutstandingIs
    <3>. QED
      BY <1>4, <1>6, <1>7, <3>1, <3>2 DEF Settled
  <2>. QED
    BY <2>3, <2>4, <2>5
<1>10. PutInv'
  BY <1>9 DEF PutInv
<1>11. Len(net'.down) <= DownCap
  BY <1>5, <1>6, Const, InvParts DEF PartTypes
<1>12. \A t \in Tile : put'[t] \in {put[t], Aside}
  BY <1>8
<1>. QED
  BY <1>1, <1>6, <1>8, <1>10, <1>11, <1>12, NetIsFine

LEMMA NewGameFits ==
  /\ NewGame \in Nets /\ NewGame.down = <<>> /\ NewGame.dirty = {}
  /\ NewGame.unsent \in [Tile -> Spot]
  /\ \A t \in Tile : NewGame.server[t] = NotPlaying /\ NewGame.unsent[t] = Aside
<1>. DEFINE unsent == [t \in Tile |-> Aside]
            server == [t \in Tile |-> NotPlaying]
            dirty == {}
            down == <<>>
<1>1. NotPlaying \in Played
  BY Const DEF NotPlaying, Played, Who
<1>2. /\ unsent \in [Tile -> Spot] /\ server \in [Tile -> Played]
      /\ dirty \in SUBSET Tile /\ down \in Seq(Event)
      /\ \A t \in Tile : server[t] = NotPlaying /\ unsent[t] = Aside
  BY Const, <1>1
<1>3. NewGame = [unsent |-> unsent, server |-> server, dirty |-> dirty, down |-> down,
                 synced |-> TRUE]
  BY DEF NewGame
<1>4. dirty = {} /\ down = <<>>
  OBVIOUS
<1>. HIDE DEF unsent, server, dirty, down
<1>. QED
  BY <1>2, <1>3, <1>4 DEF Nets

\* The tiles of a painter that has been created.
CreatedTile(place) ==
    IF place = Aside THEN NoTile
    ELSE [NoTile EXCEPT !.known = TRUE, !.shown = place, !.target = place,
                        !.server = place]

LEMMA CreatedTileFits ==
  ASSUME NEW place \in Spot
  PROVE  LET new == CreatedTile(place) IN
         /\ new \in Tiles /\ ~new.overridden /\ ~new.animating
         /\ new.server = place /\ new.shown = place
         /\ new.known <=> place # Aside
         /\ ~new.known => new = NoTile
<1>. DEFINE made == [NoTile EXCEPT !.known = TRUE, !.shown = place, !.target = place,
                                   !.server = place]
<1>1. place \in Aside .. Width /\ place \in Aside .. Between
  BY Const DEF Spot
<1>2. /\ made \in Tiles /\ ~made.overridden /\ ~made.animating /\ made.server = place
      /\ made.shown = place /\ made.known
  BY <1>1, NoTileFits, NoTileParts DEF Tiles, Spot
<1>3. /\ NoTile \in Tiles /\ ~NoTile.overridden /\ ~NoTile.animating
      /\ NoTile.server = Aside /\ NoTile.shown = Aside /\ ~NoTile.known
  BY NoTileFits DEF NoTile
<1>4. CreatedTile(place) = IF place = Aside THEN NoTile ELSE made
  BY DEF CreatedTile
<1>. HIDE DEF made
<1>5. CASE place = Aside
  BY <1>3, <1>4, <1>5
<1>6. CASE place # Aside
  BY <1>2, <1>4, <1>6
<1>. QED
  BY <1>5, <1>6

LEMMA CreatedFits ==
  ASSUME NEW places \in [Tile -> Spot]
  PROVE  LET new == Created(places) IN
         /\ new \in Boards /\ HeldOn(new)
         /\ \A t \in Tile : new.tile[t] = CreatedTile(places[t])
<1>. DEFINE new == Created(places)
            tiles == [t \in Tile |-> CreatedTile(places[t])]
            snap == NoSnap
<1>1. /\ tiles \in [Tile -> Tiles]
      /\ \A t \in Tile : /\ ~tiles[t].overridden /\ tiles[t] = CreatedTile(places[t])
                         /\ ~tiles[t].known => tiles[t] = NoTile
  <2>1. \A t \in Tile : /\ CreatedTile(places[t]) \in Tiles
                        /\ ~CreatedTile(places[t]).overridden
                        /\ ~CreatedTile(places[t]).known => CreatedTile(places[t]) = NoTile
    BY CreatedTileFits
  <2>. QED
    BY <2>1
<1>2. snap \in [tile : Tile \cup {None}, place : Nat]
  BY Const DEF NoSnap
<1>3. new = [tile |-> tiles, dragging |-> None, snap |-> snap, timeout |-> FALSE]
  <2>. DEFINE made == [t \in Tile |->
                        IF places[t] = Aside THEN NoTile
                        ELSE [NoTile EXCEPT !.known = TRUE, !.shown = places[t],
                                            !.target = places[t],
                                            !.server = places[t]]]
              none == [t \in Tile |-> NoTile]
  <2>1. made = tiles
    BY DEF CreatedTile
  <2>2. new = [EmptyBoard EXCEPT !.tile = made]
    BY DEF Created
  <2>3. EmptyBoard = [tile |-> none, dragging |-> None, snap |-> snap, timeout |-> FALSE]
    BY DEF EmptyBoard
  <2>. HIDE DEF made, tiles, none, new, snap
  <2>. QED
    BY <2>1, <2>2, <2>3
<1>. HIDE DEF new, tiles, snap
<1>4. new \in Boards /\ new.tile = tiles /\ new.dragging = None
  BY <1>1, <1>2, <1>3 DEF Boards
<1>5. HeldOn(new)
  BY <1>1, <1>4 DEF HeldOn
<1>6. \A t \in Tile : new.tile[t] = CreatedTile(places[t])
  BY <1>1, <1>4
<1>. QED
  BY <1>4, <1>5, <1>6 DEF new

LEMMA ResetIsFine ==
  ASSUME Inv, Reset
  PROVE  Fine /\ hand' \in Hands
<1>. DEFINE nowhere == [t \in Tile |-> Aside]
<1>1. /\ board' = EmptyBoard /\ net' = NewGame /\ hand' = hand /\ Forget(Tile)
      /\ ui' = [ui EXCEPT !.shouting = FALSE, !.redraw = TRUE]
  BY DEF Reset
<1>2. board' = Created(nowhere)
  <2>. DEFINE none == [t \in Tile |-> NoTile]
  <2>1. Created(nowhere) = [EmptyBoard EXCEPT !.tile = none]
    BY DEF Created
  <2>2. EmptyBoard = [tile |-> none, dragging |-> None, snap |-> NoSnap, timeout |-> FALSE]
    BY DEF EmptyBoard
  <2>. HIDE DEF none
  <2>. QED
    BY <1>1, <2>1, <2>2
<1>3. nowhere \in [Tile -> Spot] /\ \A t \in Tile : nowhere[t] = Aside
  BY Const
<1>. HIDE DEF nowhere
<1>4. /\ board' \in Boards /\ HeldOn(board')
      /\ \A t \in Tile : board'.tile[t] = CreatedTile(nowhere[t])
  BY <1>2, <1>3, CreatedFits
<1>5. \A t \in Tile : board'.tile[t] = NoTile
  BY <1>3, <1>4 DEF CreatedTile
<1>6. put' \in [Tile -> Spot] /\ \A t \in Tile : put'[t] = Aside
  BY <1>1, ForgetFits
<1>7. ui' \in Uis /\ ui'.redraw
  BY <1>1, InvParts DEF Uis
<1>8. \A t \in Tile : About(t)' = {}
  BY <1>1, NewGameFits DEF About
<1>9. ASSUME NEW t \in Tile PROVE Told(t)' /\ OutOfPlay(t)' /\ Kept(t)'
  <2>1. net'.server[t].at = Aside
    BY <1>1, NewGameFits DEF NotPlaying
  <2>2. Told(t)'
    BY <1>5, <1>8, <2>1, NoTileParts DEF Told
  <2>3. OutOfPlay(t)'
    BY <1>1, <1>5, <1>6, <1>8, NoTileParts, NewGameFits DEF OutOfPlay
  <2>4. Kept(t)'
    BY <1>6 DEF Kept
  <2>. QED
    BY <2>2, <2>3, <2>4
<1>10. PutInv'
  BY <1>9 DEF PutInv
<1>11. StaysPut
  BY <1>6 DEF StaysPut, Rests
<1>12. Len(net'.down) <= DownCap /\ net' \in Nets
  BY <1>1, Const, NewGameFits
<1>. QED
  BY <1>1, <1>4, <1>6, <1>7, <1>10, <1>11, <1>12, InvParts
  DEF Fine, Solid, PartTypes, Held, Looks

LEMMA RecreateIsFine ==
  ASSUME Inv, Recreate
  PROVE  Fine /\ hand' \in Hands
<1>. DEFINE places == [t \in Tile |-> board.tile[t].server]
<1>1. /\ board' = Created(places) /\ net' = net /\ hand' = NoHand /\ Forget(Unsettled)
      /\ ui' = [ui EXCEPT !.child = None, !.redraw = TRUE, !.ready = FALSE]
  BY DEF Recreate
<1>2. places \in [Tile -> Spot] /\ \A t \in Tile : places[t] = board.tile[t].server
  <2>1. \A t \in Tile : board.tile[t].server \in Spot
    BY InvParts, BoardParts DEF Tiles
  <2>. QED
    BY <2>1
<1>. HIDE DEF places
<1>3. /\ board' \in Boards /\ HeldOn(board')
      /\ \A t \in Tile : board'.tile[t] = CreatedTile(places[t])
  BY <1>1, <1>2, CreatedFits
<1>4. ASSUME NEW t \in Tile
      PROVE  /\ board'.tile[t].server = board.tile[t].server
             /\ board'.tile[t].shown = board.tile[t].server
             /\ ~board'.tile[t].animating
             /\ board'.tile[t].known => board.tile[t].known
  <2>1. places[t] \in Spot
    BY <1>2
  <2>2. /\ board'.tile[t].server = places[t] /\ board'.tile[t].shown = places[t]
        /\ ~board'.tile[t].animating /\ (board'.tile[t].known <=> places[t] # Aside)
    BY <1>3, <2>1, CreatedTileFits
  <2>3. ~board.tile[t].known => board.tile[t].server = Aside
    BY InvParts, NoTileParts DEF HeldOn
  <2>. QED
    BY <1>2, <2>2, <2>3
<1>5. /\ put' \in [Tile -> Spot]
      /\ \A t \in Tile : put'[t] = IF Outstanding(t) THEN Aside ELSE put[t]
  BY <1>1, UnsettledFits
<1>6. PutInv'
  BY <1>1, <1>4, <1>5, InvParts, PutKept
<1>7. StaysPut
  <2>1. ASSUME NEW t \in Tile, Rests(t), put'[t] = put[t] PROVE Rests(t)'
    <3>1. ~Outstanding(t) /\ put[t] # Aside
      BY <1>5, <2>1 DEF Rests
    <3>2. board.tile[t].server = put[t]
      BY <3>1, SettledServer
    <3>. QED
      BY <1>4, <2>1, <3>1, <3>2 DEF Rests
  <2>. QED
    BY <2>1 DEF StaysPut
<1>8. ui' \in Uis /\ ui'.redraw
  BY <1>1, InvParts DEF Uis, Dialog
<1>. QED
  BY <1>1, <1>3, <1>5, <1>6, <1>7, <1>8, NoHandFits, InvParts
  DEF Fine, Solid, PartTypes, Held, Looks

AnimatedTile(x, t, over) ==
    IF ~x.animating THEN x
    ELSE IF t \in over THEN [x EXCEPT !.shown = x.target, !.animating = FALSE]
    ELSE [x EXCEPT !.shown = Between]

LEMMA AnimatedTileFits ==
  ASSUME NEW x \in Tiles, NEW t, NEW over
  PROVE  LET new == AnimatedTile(x, t, over) IN
         /\ new \in Tiles /\ new.known = x.known /\ new.server = x.server
         /\ new.overridden = x.overridden
         /\ ~x.animating => new = x
         /\ t \in over => ~new.animating
<1>1. x.target \in Aside .. Between /\ Between \in Aside .. Between
  BY Const DEF Tiles, Spot
<1>. QED
  BY <1>1 DEF AnimatedTile, Tiles

LEMMA AnimatedFits ==
  ASSUME NEW b \in Boards, HeldOn(b), NEW over \in SUBSET Tile
  PROVE  LET new == Animated(b, over) IN
         /\ new \in Boards /\ HeldOn(new)
         /\ \A t \in Tile : new.tile[t] = AnimatedTile(b.tile[t], t, over)
<1>. DEFINE new == Animated(b, over)
            tiles == [t \in Tile |-> AnimatedTile(b.tile[t], t, over)]
<1>1. b.tile \in [Tile -> Tiles] /\ b.dragging \in Tile \cup {None}
      /\ \A t \in Tile : b.tile[t] \in Tiles
  BY DEF Boards
<1>2. ASSUME NEW t \in Tile
      PROVE  /\ tiles[t] \in Tiles /\ tiles[t] = AnimatedTile(b.tile[t], t, over)
             /\ tiles[t].known = b.tile[t].known
             /\ tiles[t].overridden = b.tile[t].overridden
             /\ ~b.tile[t].known => tiles[t] = NoTile
  <2>1. tiles[t] = AnimatedTile(b.tile[t], t, over)
    OBVIOUS
  <2>2. ~b.tile[t].known => b.tile[t] = NoTile /\ ~b.tile[t].animating
    BY NoTileParts DEF HeldOn
  <2>. HIDE DEF tiles
  <2>. QED
    BY <1>1, <2>1, <2>2, AnimatedTileFits
<1>3. tiles \in [Tile -> Tiles]
  BY <1>2
<1>4. new = [b EXCEPT !.tile = tiles]
  BY DEF Animated, AnimatedTile
<1>. HIDE DEF new, tiles
<1>5. /\ new \in Boards /\ new.tile = tiles /\ new.dragging = b.dragging
      /\ new.timeout = b.timeout
  BY <1>3, <1>4 DEF Boards
<1>6. HeldOn(new)
  BY <1>1, <1>2, <1>5 DEF HeldOn
<1>. QED
  BY <1>2, <1>5, <1>6 DEF new

\* A frame: the tiles that it shows are those that are left when the overrides
\* have been cancelled for a shout, and it asks for the next one as long as some
\* are on their way.
LEMMA PaintIsSolid ==
  ASSUME Inv, Paint
  PROVE  Solid /\ hand' \in Hands /\ Seen' /\ fresh' \in BOOLEAN
<1>0. PICK over \in SUBSET Tile : PaintWith(over)
  BY DEF Paint
<1>. PICK b : b = ToDraw
  OBVIOUS
<1>. DEFINE animating == {t \in Tile : b.tile[t].animating}
<1>1. /\ over \subseteq animating
      /\ board' = IF Drawn THEN Animated(b, over) ELSE board
      /\ ui' = [ui EXCEPT !.child = ui.dialog, !.redraw = Drawn /\ over # animating]
      /\ Forget(IF CancelsToDraw THEN Unsettled ELSE {})
      /\ fresh' = (Drawn \/ Known = {})
      /\ hand' = hand /\ net' = net
  BY <1>0 DEF PaintWith
<1>2. /\ ui' \in Uis /\ ui'.child = ui'.dialog /\ ui'.ready = ui.ready
      /\ ui'.shouting = ui.shouting
      /\ ~ui'.redraw => (~Drawn \/ over = animating)
  BY <1>1, InvParts DEF Uis
<1>3. /\ put' \in [Tile -> Spot]
      /\ \A t \in Tile : put'[t] = IF CancelsToDraw /\ Outstanding(t) THEN Aside ELSE put[t]
  <2>1. CASE CancelsToDraw
    BY <1>1, <2>1, UnsettledFits
  <2>2. CASE ~CancelsToDraw
    <3>1. Forget({})
      BY <1>1, <2>2
    <3>. QED
      BY <2>2, <3>1, ForgetFits
  <2>. QED
    BY <2>1, <2>2
\* The tiles that are drawn.
<1>4. /\ b \in Boards /\ HeldOn(b)
      /\ \A t \in Tile :
           b.tile[t] = IF CancelsToDraw THEN CancelledTile(board.tile[t]) ELSE board.tile[t]
  <2>1. CASE CancelsToDraw
    BY <2>1, InvParts, CancelAllFits DEF ToDraw
  <2>2. CASE ~CancelsToDraw
    BY <2>2, InvParts DEF ToDraw
  <2>. QED
    BY <2>1, <2>2
<1>5. ASSUME NEW t \in Tile
      PROVE  /\ b.tile[t] \in Tiles
             /\ b.tile[t].server = board.tile[t].server
             /\ b.tile[t].known = board.tile[t].known
             /\ CancelsToDraw => ~b.tile[t].overridden
             /\ ~CancelsToDraw => b.tile[t] = board.tile[t]
  <2>1. board.tile[t] \in Tiles /\ (~board.tile[t].known => board.tile[t] = NoTile)
    BY InvParts, BoardParts DEF HeldOn
  <2>. QED
    BY <1>4, <2>1, CancelledFits
<1>6. Drawn =>
        /\ board' \in Boards /\ HeldOn(board')
        /\ \A t \in Tile : board'.tile[t] = AnimatedTile(b.tile[t], t, over)
  BY <1>1, <1>4, AnimatedFits
<1>7. ~Drawn => board' = board /\ ~CancelsToDraw
  BY <1>1 DEF CancelsToDraw
<1>8. board' \in Boards /\ HeldOn(board')
  BY <1>6, <1>7, InvParts
<1>9. ASSUME NEW t \in Tile
      PROVE  /\ board'.tile[t].server = board.tile[t].server
             /\ board'.tile[t].known = board.tile[t].known
             /\ CancelsToDraw => ~board'.tile[t].overridden
             /\ ~CancelsToDraw => board'.tile[t].overridden = board.tile[t].overridden
             /\ Drawn /\ t \in over => ~board'.tile[t].animating
             /\ Drawn /\ ~b.tile[t].animating => board'.tile[t] = b.tile[t]
  <2>2. CASE Drawn
    <3>1. board'.tile[t] = AnimatedTile(b.tile[t], t, over)
      BY <1>6, <2>2
    <3>. DEFINE new == AnimatedTile(b.tile[t], t, over)
    <3>2. /\ new.known = b.tile[t].known /\ new.server = b.tile[t].server
          /\ new.overridden = b.tile[t].overridden
          /\ ~b.tile[t].animating => new = b.tile[t]
          /\ t \in over => ~new.animating
      BY <1>5, AnimatedTileFits
    <3>. HIDE DEF new
    <3>3. board'.tile[t] = new
      BY <3>1 DEF new
    <3>. QED
      BY <1>5, <2>2, <3>2, <3>3
  <2>3. CASE ~Drawn
    BY <1>7, <2>3
  <2>. QED
    BY <2>2, <2>3
<1>10. PutInv'
  BY <1>1, <1>3, <1>9, InvParts, PutKept
<1>11. StaysPut
  <2>1. ASSUME NEW t \in Tile, Rests(t), put'[t] = put[t] PROVE Rests(t)'
    <3>0. put[t] # Aside /\ board.tile[t].shown = put[t] /\ ~board.tile[t].animating
      BY <2>1 DEF Rests
    <3>1. b.tile[t].shown = put[t] /\ ~b.tile[t].animating
      <4>1. CASE CancelsToDraw
        <5>1. ~Outstanding(t)
          BY <1>3, <2>1, <3>0, <4>1
        <5>2. CancelledTile(board.tile[t]).shown = put[t]
              /\ ~CancelledTile(board.tile[t]).animating
          BY <2>1, <5>1, CancelRests
        <5>. QED
          BY <1>4, <4>1, <5>2
      <4>2. CASE ~CancelsToDraw
        BY <1>5, <3>0, <4>2
      <4>. QED
        BY <4>1, <4>2
    <3>2. board'.tile[t].shown = put[t] /\ ~board'.tile[t].animating
      BY <1>7, <1>9, <3>0, <3>1
    <3>. QED
      BY <2>1, <3>0, <3>2 DEF Rests
  <2>. QED
    BY <2>1 DEF StaysPut
<1>12. Known' = Known
  BY <1>9 DEF Known
<1>13. Known = {} => \A t \in Tile : ~board.tile[t].animating /\ ~board.tile[t].overridden
  BY InvParts, NoTileParts DEF Known, HeldOn
<1>14. ASSUME ~ui'.redraw, ui'.ready \/ Known' = {}
       PROVE  /\ fresh'
              /\ \A t \in Tile : ~board'.tile[t].animating
              /\ ui'.shouting => \A t \in Tile : ~board'.tile[t].overridden
  <2>1. CASE Drawn
    <3>1. over = animating
      BY <1>2, <1>14, <2>1
    <3>2. \A t \in Tile : ~board'.tile[t].animating
      BY <1>9, <2>1, <3>1
    <3>3. ui'.shouting => CancelsToDraw
      BY <1>2, <2>1 DEF CancelsToDraw
    <3>. QED
      BY <1>1, <1>9, <2>1, <3>2, <3>3
  <2>2. CASE ~Drawn
    <3>1. Known = {}
      BY <1>2, <1>12, <1>14, <2>2 DEF Drawn
    <3>. QED
      BY <1>1, <1>7, <1>13, <2>2, <3>1
  <2>. QED
    BY <2>1, <2>2
<1>15. Seen'
  BY <1>2, <1>14 DEF Seen
<1>16. PartTypes' /\ Held'
  BY <1>1, <1>2, <1>3, <1>8, InvParts DEF PartTypes, Held
<1>. QED
  BY <1>1, <1>10, <1>11, <1>15, <1>16, InvParts DEF Solid

-----------------------------------------------------------------------------
LEMMA InitFits ==
  ASSUME Init
  PROVE  Inv
<1>1. /\ left.dealt \in [Tile -> Spot] /\ left.dialog \in {None, "INVITE"}
      /\ board = Created(left.dealt) /\ hand = NoHand /\ fresh = FALSE
      /\ ui = [dialog |-> left.dialog, child |-> None, shouting |-> FALSE,
               redraw |-> TRUE, ready |-> FALSE]
      /\ put = [t \in Tile |-> Aside]
      /\ net = [NewGame EXCEPT !.server = [t \in Tile |->
                 IF left.dealt[t] = Aside THEN NotPlaying
                 ELSE [at |-> left.dealt[t], by |-> "them"]]]
  BY BoardAssumption DEF Init, Spot, Aside
<1>2. /\ board \in Boards /\ HeldOn(board)
      /\ \A t \in Tile : board.tile[t] = CreatedTile(left.dealt[t])
  BY <1>1, CreatedFits
<1>3. ui \in Uis /\ ui.redraw
  BY <1>1 DEF Uis, Dialog
<1>4. put \in [Tile -> Spot] /\ \A t \in Tile : put[t] = Aside
  BY <1>1, Const
<1>. DEFINE server == [t \in Tile |-> IF left.dealt[t] = Aside THEN NotPlaying
                                      ELSE [at |-> left.dealt[t], by |-> "them"]]
<1>5. /\ server \in [Tile -> Played]
      /\ \A t \in Tile : /\ server[t].at = left.dealt[t]
                         /\ server[t] = NotPlaying => left.dealt[t] = Aside
  <2>1. ASSUME NEW t \in Tile
        PROVE  /\ server[t] \in Played /\ server[t].at = left.dealt[t]
               /\ server[t] = NotPlaying => left.dealt[t] = Aside
    <3>1. left.dealt[t] \in Spot
      BY <1>1
    <3>2. CASE left.dealt[t] = Aside
      BY <3>1, <3>2, Const DEF NotPlaying, Played, Who
    <3>3. CASE left.dealt[t] # Aside
      BY <3>1, <3>3, Const DEF NotPlaying, Played, Who
    <3>. QED
      BY <3>2, <3>3
  <2>. QED
    BY <2>1
<1>6. net = [NewGame EXCEPT !.server = server]
  BY <1>1
<1>. HIDE DEF server
<1>7. /\ net \in Nets /\ net.server = server /\ net.down = <<>> /\ net.dirty = {}
      /\ net.unsent = NewGame.unsent
  BY <1>5, <1>6, NewGameFits DEF Nets
<1>8. \A t \in Tile : About(t) = {}
  BY <1>7 DEF About
<1>9. ASSUME NEW t \in Tile PROVE Told(t) /\ OutOfPlay(t) /\ Kept(t)
  <2>1. /\ board.tile[t].server = left.dealt[t]
        /\ board.tile[t].known <=> left.dealt[t] # Aside
    <3>1. left.dealt[t] \in Spot
      BY <1>1
    <3>. QED
      BY <1>2, <3>1, CreatedTileFits
  <2>2. Told(t)
    BY <1>5, <1>7, <1>8, <2>1 DEF Told
  <2>3. OutOfPlay(t)
    BY <1>4, <1>5, <1>7, <1>8, <2>1, NewGameFits DEF OutOfPlay
  <2>4. Kept(t)
    BY <1>4 DEF Kept
  <2>. QED
    BY <2>2, <2>3, <2>4
<1>10. PutInv
  BY <1>9 DEF PutInv
<1>11. Len(net.down) <= DownCap
  BY <1>7, Const
<1>12. Types /\ Held
  BY <1>1, <1>2, <1>3, <1>4, <1>7, <1>11, NoHandFits DEF Types, PartTypes, Held
<1>13. Seen
  BY <1>3 DEF Seen
<1>. QED
  BY <1>10, <1>12, <1>13 DEF Inv, BoardInv

LEMMA NextFits ==
  ASSUME Inv, Next
  PROVE  Inv' /\ StaysPut
<1>. DEFINE Watched == fresh' = (fresh /\ ShownOn(board') = ShownOn(board))
<1>1. ASSUME Fine, hand' \in Hands, Watched PROVE Inv' /\ StaysPut
  <2>1. Seen' /\ fresh' \in BOOLEAN
    BY <1>1, SeenStays DEF Fine, Solid
  <2>. QED
    BY <1>1, <2>1 DEF Fine, Solid, Inv, BoardInv, Types
<1>2. CASE Paint
  BY <1>2, PaintIsSolid DEF Solid, Inv, BoardInv, Types
<1>3. CASE Watched /\ ToolReady
  <2>1. fresh' \in BOOLEAN
    BY <1>3, InvParts
  <2>. QED
    BY <1>3, <2>1, ToolReadyIsSolid DEF Solid, Inv, BoardInv, Types
<1>4. CASE Watched /\ \E f \in Finger, place \in Spot, far \in BOOLEAN :
             \/ PressFinger(f, place) \/ MoveFinger(f, place, far) \/ ReleaseFinger(f)
             \/ CancelGesture \/ ClickTimeout
  BY <1>1, <1>4, GestureIsFine
<1>5. CASE Watched /\ \E t \in Tile, place \in Place :
             \/ Write(t) \/ Tell(t) \/ NewTile(t, place) \/ OtherMoves(t, place)
  BY <1>1, <1>5, WriteIsFine, TellIsFine, NewTileIsFine, OtherMovesIsFine
<1>6. CASE Watched /\ (\/ OverrideTimeout \/ ShoutEnds \/ OtherShouts \/ HandleEvent
                       \/ Sync \/ Lose \/ Reset \/ Recreate)
  BY <1>1, <1>6, OverrideTimeoutIsFine, ShoutsAreFine, HandleEventIsFine, SyncIsFine,
     LoseIsFine, ResetIsFine, RecreateIsFine
<1>7. {Aside} \cup Place = Spot /\ 1 \in Place /\ 1 \in Finger
  BY BoardAssumption DEF Spot, Place, Aside, Finger
<1>. HIDE DEF Watched
<1>8. \/ Paint
      \/ Watched /\ ToolReady
      \/ Watched /\ \E f \in Finger, place \in Spot, far \in BOOLEAN :
             \/ PressFinger(f, place) \/ MoveFinger(f, place, far) \/ ReleaseFinger(f)
             \/ CancelGesture \/ ClickTimeout
      \/ Watched /\ \E t \in Tile, place \in Place :
             \/ Write(t) \/ Tell(t) \/ NewTile(t, place) \/ OtherMoves(t, place)
      \/ Watched /\ (\/ OverrideTimeout \/ ShoutEnds \/ OtherShouts \/ HandleEvent
                     \/ Sync \/ Lose \/ Reset \/ Recreate)
  BY <1>7 DEF Next, Watched
<1>. QED
  BY <1>2, <1>3, <1>4, <1>5, <1>6, <1>8

LEMMA StutterFits ==
  ASSUME Inv, vars' = vars
  PROVE  Inv'
<1>1. /\ board' = board /\ hand' = hand /\ ui' = ui /\ net' = net /\ put' = put
      /\ fresh' = fresh
  BY DEF vars, state
<1>2. Types' /\ Held' /\ Seen'
  BY <1>1 DEF Inv, BoardInv, Types, PartTypes, Held, Seen, Known
<1>3. PutInv'
  BY <1>1, InvParts, PutKept
<1>. QED
  BY <1>2, <1>3 DEF Inv, BoardInv

\* The inductive invariant.
THEOREM InvHolds == Spec => []Inv
<1>1. Init => Inv
  BY InitFits
<1>2. Inv /\ [Next]_vars => Inv'
  BY NextFits, StutterFits
<1>. QED
  BY <1>1, <1>2, PTL DEF Spec

LEMMA InvIsSound ==
  ASSUME Inv
  PROVE  BoardSound
<1>1. TypeOK
  <2>1. \A t \in Tile : /\ board.tile[t].shown \in Aside .. Between
                        /\ board.tile[t].target \in Aside .. Width
                        /\ board.tile[t].server \in Aside .. Width
    BY InvParts, BoardParts DEF Tiles, Spot
  <2>2. hand.pressed \subseteq Finger /\ ui.dialog \in {None, "MENU", "INVITE"}
    BY InvParts, HandParts DEF Uis, Dialog
  <2>3. Len(net.down) <= DownCap
    BY InvParts DEF PartTypes
  <2>. QED
    BY <2>1, <2>2, <2>3, InvParts, BoardParts DEF TypeOK
<1>2. FrameIsDue
  <2>1. board.dragging # None => board.tile[board.dragging].overridden
    BY InvParts DEF HeldOn
  <2>2. (\E t \in Tile : board.tile[t].overridden) => board.timeout
    BY InvParts DEF HeldOn
  <2>3. Seen
    BY InvParts
  <2>. QED
    BY <2>1, <2>2, <2>3 DEF FrameIsDue, Seen
<1>. QED
  BY <1>1, <1>2 DEF BoardSound

\* Types; what is held is overridden and what is overridden has a timeout (the
\* assertions of cancel_all_overrides); when no frame has been asked for, the
\* last one shows the tiles and the dialog as they are and no tile moves.
THEOREM BoardIsSound == Spec => []BoardSound
<1>1. Inv => BoardSound
  BY InvIsSound
<1>. QED
  BY <1>1, InvHolds, PTL

\* A tile that rests where the player put it is not moved by the echoes of the
\* player's moves, the end of the override, a shout, a lost connection or new
\* graphics, unless another player or the player moves it.
THEOREM StaysWhereItIsPutHolds == Spec => StaysWhereItIsPut
<1>. DEFINE Stays == \A t \in Tile : Rests(t) /\ put'[t] = put[t] => Rests(t)'
<1>1. ASSUME Inv, [Next]_vars PROVE [Stays]_<<board, put>>
  <2>1. CASE Next
    BY <1>1, <2>1, NextFits DEF StaysPut
  <2>2. CASE UNCHANGED vars
    BY <2>2 DEF vars, state
  <2>. QED
    BY <1>1, <2>1, <2>2
<1>. QED
  BY <1>1, InvHolds, PTL DEF Spec, StaysWhereItIsPut
=============================================================================
