----------------------------- MODULE Painters ------------------------------
(***************************************************************************)
(* The painters of the C client (src/client/vsx-*-painter.c): what each of *)
(* them keeps from one frame to the next, what it reads while it paints,   *)
(* which events make it throw away what it keeps and which make it ask for *)
(* a frame.  A picture is abstract: it consists of the facts that it was   *)
(* made from.  The tiles on the board are the module TilePainter's.        *)
(*                                                                         *)
(* The painters are a record; an operator gives the record after a call,   *)
(* with `queued` set if the shell has been asked for a frame.  The dialog  *)
(* painter has at most one child, named after its dialog.                  *)
(***************************************************************************)
EXTENDS GameState

Nothing == [nothing |-> TRUE]

Children == Dialogs \ {"NONE"}
Painter == {"board", "button", "fireworks", "note", "error"} \cup Children

\* The shadow and the tiles stand for tools that load an image each.
Image == {"board", "buttons", "firework", "shadow", "tiles", "menu", "cursor",
          "page", "connection-lost"}

PagesWithImage == Pages \ {3}
PagesWithAnimation == 1 .. 6
PagesThatMove == {1, 2, 3, 5}

(******************************* what is kept ******************************)
\* What the layouts, the vertices and the textures are made from.
BoardKeeps == {"size", "name"}
ButtonKeeps == {"size", "remaining", "hasName"}
NoteKeeps == {"size", "text"}
NameKeeps == {"size", "language", "start", "height"}
MenuKeeps == {"size", "language", "nTiles"}
InviteKeeps == {"size", "language", "conversation"}
GuideKeeps == {"size", "language", "page"}
CopyrightKeeps == {"size"}

Keeps == [board |-> BoardKeeps, button |-> ButtonKeeps, note |-> NoteKeeps,
          fireworks |-> {}, error |-> {}, NAME |-> NameKeeps,
          MENU |-> MenuKeeps, INVITE_LINK |-> InviteKeeps, LANGUAGE |-> {},
          GUIDE |-> GuideKeeps, COPYRIGHT |-> CopyrightKeeps]

(***************************** what is read anew ***************************)
\* What is asked for in each frame.
BoardReads == {"size", "name", "flags", "shouter"}
ButtonReads == {"size"}
NoteReads == {"size"}
FireworksReads == {"size"}
ErrorReads == {"size"}
NameReads == {}
MenuReads == {"size"}
InviteReads == {"size"}
LanguageReads == {"size"}
GuideReads == {"page", "image", "cursor"}
CopyrightReads == {"size"}

Reads == [board |-> BoardReads, button |-> ButtonReads, note |-> NoteReads,
          fireworks |-> FireworksReads, error |-> ErrorReads,
          NAME |-> NameReads, MENU |-> MenuReads, INVITE_LINK |-> InviteReads,
          LANGUAGE |-> LanguageReads, GUIDE |-> GuideReads,
          COPYRIGHT |-> CopyrightReads]

(******************************** the events *******************************)
\* Events after which what a painter keeps is to be made again.
BoardDirtied == {"PLAYER_NAME"}
ButtonDirtied == {"REMAINING_TILES", "HAS_PLAYER_NAME"}
NameDirtied == {"START_TYPE", "LANGUAGE"}
MenuDirtied == {"LANGUAGE", "N_TILES"}
InviteDirtied == {"LANGUAGE"}
GuideDirtied == {"LANGUAGE"}

Dirtied == [q \in Painter |->
              CASE q = "board" -> BoardDirtied [] q = "button" -> ButtonDirtied
                [] q = "NAME" -> NameDirtied [] q = "MENU" -> MenuDirtied
                [] q = "INVITE_LINK" -> InviteDirtied
                [] q = "GUIDE" -> GuideDirtied [] OTHER -> {}]

\* Fault for a mutant: who has the turn is drawn with the next frame.
BoardRedrawnButFlags == BoardDirtied \cup {"SHOUTING_PLAYER"}

\* Events after which a painter asks for a frame.
BoardRedrawn == BoardDirtied \cup {"SHOUTING_PLAYER", "PLAYER_FLAGS"}
InviteRedrawn == InviteDirtied \cup {"CONVERSATION_ID"}

Redrawn == [Dirtied EXCEPT !.board = BoardRedrawn,
                           !.INVITE_LINK = InviteRedrawn]

\* The painters that lay themselves out for the size of the framebuffer.
Resized == {"board", "button", "note", "NAME", "MENU", "INVITE_LINK", "GUIDE",
            "COPYRIGHT"}

(******************************** the images *******************************)
\* The painters start to load these when they are created.
BoardLoads == {"board"}
ButtonLoads == {"buttons"}
FireworksLoads == {"firework"}
ToolsLoad == {"shadow", "tiles"}
MenuLoads == {"menu"}
GuideLoads == {"cursor", "page"}

FirstLoads == BoardLoads \cup ButtonLoads \cup FireworksLoads \cup ToolsLoad
LoadedBy == [c \in Dialogs |-> CASE c = "MENU" -> MenuLoads
                                 [] c = "GUIDE" -> GuideLoads [] OTHER -> {}]

Needs == [board |-> BoardLoads, button |-> ButtonLoads, note |-> {},
          fireworks |-> FireworksLoads, error |-> {"connection-lost", "shadow"},
          NAME |-> {"shadow"}, MENU |-> {"menu", "shadow"},
          INVITE_LINK |-> {"shadow"}, LANGUAGE |-> {"shadow"},
          GUIDE |-> {"tiles", "shadow"}, COPYRIGHT |-> {"shadow"}]

Live(p) == (Painter \ Children) \cup (Children \cap {p.child})

IsLoaded(p, images) == \A i \in images : p.load[i] = "loaded"

\* What has to be there besides the images.
Occasion(p, q) ==
    /\ q = "note" => p.text # NoText
    /\ q = "error" => p.error
    /\ q = "fireworks" => p.burning
    /\ q = "INVITE_LINK" => p.invited # NoId

CanPaint(p, q) == q \in Live(p) /\ Occasion(p, q) /\ IsLoaded(p, Needs[q])

\* The icon is drawn with its image and the shadow.
ErrorCanPaint(p) == CanPaint(p, "error")

(****************************** the facts **********************************)
Facts(g, p, height) ==
    [size |-> p.size, name |-> g.name, flags |-> g.flags,
     shouter |-> g.shouter, remaining |-> RemainingTiles(g),
     hasName |-> g.hasName, language |-> g.language, start |-> g.start,
     nTiles |-> g.nTiles, conversation |-> g.conversation, page |-> g.page,
     height |-> height, text |-> p.text,
     image |-> IsLoaded(p, {"page"}), cursor |-> IsLoaded(p, {"cursor"})]

Chosen(facts, names) == [f \in names |-> facts[f]]

Picture(p, q, facts) ==
    IF CanPaint(p, q)
    THEN [kept |-> p.kept[q], read |-> Chosen(facts, Reads[q])]
    ELSE Nothing

\* What the painter would show if it made everything anew.
UpToDate(p, q, facts) ==
    IF CanPaint(p, q)
    THEN [kept |-> Chosen(facts, Keeps[q]), read |-> Chosen(facts, Reads[q])]
    ELSE Nothing

(****************************** asking for a frame *************************)
Queue(p) == [p EXCEPT !.queued = TRUE]
QueueIf(p, condition) == IF condition THEN Queue(p) ELSE p

Dirty(p, painters) == [p EXCEPT !.dirty = @ \cup painters]

(****************************** the error icon *****************************)
\* Fault for a mutant: the timeout is left running.
UpdateErrorKeepingDelay(p, g) ==
    IF g.hasName /\ ~g.connected THEN [p EXCEPT !.delay = TRUE]
    ELSE QueueIf([p EXCEPT !.error = FALSE], ErrorCanPaint(p))

\* That the connection is lost is shown after a while.
UpdateErrorVisible(p, g) ==
    IF g.hasName /\ ~g.connected
    THEN [p EXCEPT !.delay = TRUE]
    ELSE QueueIf([p EXCEPT !.delay = FALSE, !.error = FALSE], ErrorCanPaint(p))

\* The image is loaded when it is needed first, and again if that failed.
SetVisible(p) ==
    LET visible == [p EXCEPT !.delay = FALSE, !.error = TRUE]
    IN  IF p.load["connection-lost"] \in {"none", "failed"}
        THEN [visible EXCEPT !.load["connection-lost"] = "loading"]
        ELSE QueueIf(visible, ErrorCanPaint(visible))

(********************************* the note ********************************)
SetNoteText(p, text) ==
    Queue(Dirty([p EXCEPT !.text = text, !.noteTimer = TRUE], {"note"}))

RemoveNote(p) ==
    IF p.text = NoText THEN p
    ELSE Queue([p EXCEPT !.text = NoText])

NoteTimeout(p) == RemoveNote([p EXCEPT !.noteTimer = FALSE])

(****************************** the fireworks ******************************)
StartFireworks(p) ==
    LET burning == [p EXCEPT !.burning = TRUE]
    IN  QueueIf(burning, CanPaint(burning, "fireworks"))

FireworksEvent(p, shouted) == IF shouted THEN StartFireworks(p) ELSE p

(********************************* the guide *******************************)
PageImage(page) == IF page \in PagesWithImage THEN "loading" ELSE "none"

\* A page with an image asks for a frame only once the image has been loaded.
PageChanged(p, g) ==
    LET turned == Dirty([p EXCEPT !.load["page"] = PageImage(g.page)], {"GUIDE"})
    IN  QueueIf(turned, g.page \notin PagesWithImage)

\* A page without animations leaves the duration of the page before.
Moves(p, g) ==
    IF g.page \in PagesWithAnimation THEN g.page \in PagesThatMove ELSE p.moving

(******************************* the listeners *****************************)
NoteHears(p, g, events) ==
    IF "NOTE" \in events THEN SetNoteText(p, g.said) ELSE p

ErrorHears(p, g, events) ==
    IF events \cap {"CONNECTED", "HAS_PLAYER_NAME"} = {} THEN p
    ELSE UpdateErrorVisible(p, g)

GuideHears(p, g, events) ==
    IF p.child = "GUIDE" /\ "PAGE" \in events THEN PageChanged(p, g) ELSE p

DialogHears(p, events) == QueueIf(p, "DIALOG" \in events)

Modified(p, g, events) ==
    LET heard == {q \in Live(p) : Redrawn[q] \cap events # {}}
        stale == {q \in Live(p) : Dirtied[q] \cap events # {}}
        drawn == DialogHears(QueueIf(Dirty(p, stale), heard # {}), events)
    IN  GuideHears(ErrorHears(NoteHears(drawn, g, events), g, events), g, events)

\* The size of the field for the name has changed.
NameSizeChanged(p) ==
    IF p.child = "NAME" THEN Queue(Dirty(p, {"NAME"})) ELSE p

SetFbSize(p, size) ==
    Dirty([p EXCEPT !.size = size], Resized \cap Live(p))

(********************************* the images ******************************)
\* Some ask for a frame in any case, others only if they can be painted now.
BoardAsks(image) == image = "board"
ButtonAsks(image) == image = "buttons"
FireworksAsk(p, image) == image = "firework" /\ CanPaint(p, "fireworks")
ErrorAsks(p, image) == image \in {"connection-lost", "shadow"} /\ ErrorCanPaint(p)
MenuAsks(p, image) == image \in {"menu", "shadow"} /\ CanPaint(p, "MENU")
GuideAsks(p, image) == image \in {"page", "cursor"} \/ (image = "tiles" /\ p.child = "GUIDE")
OthersAsk(p, image) == image = "shadow" /\ p.child \in Children \ {"MENU"}

AsksWhenLoaded(p, image) ==
    \/ BoardAsks(image) \/ ButtonAsks(image) \/ FireworksAsk(p, image)
    \/ ErrorAsks(p, image) \/ MenuAsks(p, image) \/ GuideAsks(p, image)
    \/ OthersAsk(p, image)

ImageLoaded(p, image) ==
    LET loaded == [p EXCEPT !.load[image] = "loaded"]
    IN  QueueIf(loaded, AsksWhenLoaded(loaded, image))

\* An image that cannot be loaded is logged and left out.
ImageFailed(p, image) == [p EXCEPT !.load[image] = "failed"]

(********************************* a frame *********************************)
Unmade(q) == IF Keeps[q] = {} THEN [f \in {} |-> f] ELSE Nothing

NewPainters(g, size) ==
    UpdateErrorVisible(
      [alive |-> TRUE, size |-> size, child |-> "NONE",
       dirty |-> Painter \ Children, kept |-> [q \in Painter |-> Unmade(q)],
       load |-> [i \in Image |->
                   IF i \in FirstLoads THEN "loading" ELSE "none"],
       text |-> NoText, noteTimer |-> FALSE, error |-> FALSE, delay |-> FALSE,
       burning |-> FALSE, moving |-> FALSE, invited |-> NoId,
       queued |-> FALSE], g)

NoPainters == [NewPainters(NewGame("en"), "none") EXCEPT
                 !.alive = FALSE, !.load = [i \in Image |-> "none"]]

FreeChild(p) ==
    LET images == LoadedBy[p.child]
    IN  [p EXCEPT !.child = "NONE", !.invited = NoId, !.moving = FALSE,
           !.dirty = @ \ {p.child},
           !.load = [i \in Image |-> IF i \in images THEN "none" ELSE @[i]],
           !.kept = [q \in Painter |-> IF q = p.child THEN Unmade(q) ELSE @[q]]]

CreateChild(p, g) ==
    [p EXCEPT !.child = g.dialog, !.dirty = @ \cup ({g.dialog} \cap Children),
       !.load = [i \in Image |->
                   IF i \notin LoadedBy[g.dialog] THEN @[i]
                   ELSE IF i = "page" THEN PageImage(g.page) ELSE "loading"]]

UpdateChild(p, g) ==
    IF p.child = g.dialog THEN p ELSE CreateChild(FreeChild(p), g)

\* The invitation has a texture for the conversation, if there is one.
InviteTexture(p, g) ==
    IF p.child # "INVITE_LINK" \/ p.invited = g.conversation THEN p
    ELSE Dirty([p EXCEPT !.invited = g.conversation], {"INVITE_LINK"})

\* Not everything is laid out when it cannot be painted.
LaysOut(p, q) ==
    /\ q \in Live(p) \cap p.dirty
    /\ q \in {"button", "COPYRIGHT"} => IsLoaded(p, Needs[q])
    /\ q = "MENU" => IsLoaded(p, {"menu"})
    /\ q \in {"note", "INVITE_LINK"} => Occasion(p, q)

LayOut(p, g, painters, facts) ==
    [p EXCEPT !.dirty = @ \ painters,
       !.moving = IF "GUIDE" \in painters THEN Moves(p, g) ELSE @,
       !.kept = [q \in Painter |-> IF q \in painters THEN Chosen(facts, Keeps[q])
                                   ELSE @[q]]]

Prepare(p, g, facts) ==
    LET new == InviteTexture(UpdateChild(p, g), g)
    IN  LayOut(new, g, {q \in Painter : LaysOut(new, q)}, facts)

\* Fault for a mutant: a page that does not move asks for frames as well.
PaintGuideAgain(p) ==
    QueueIf(p, CanPaint(p, "fireworks") \/ CanPaint(p, "GUIDE"))

\* The fireworks and a page that moves ask for the next frame.
Paint(p) ==
    QueueIf(p, CanPaint(p, "fireworks") \/ (CanPaint(p, "GUIDE") /\ p.moving))

Shown(p, facts) == [q \in Painter |-> Picture(p, q, facts)]
=============================================================================
