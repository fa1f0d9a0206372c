------------------------------- MODULE Screen ------------------------------
(***************************************************************************)
(* What the player sees: the game state (GameState), the painters          *)
(* (Painters) and the shell around them, which is one of three programs:   *)
(* the SDL client (src/client/vsx-main.c), the Android application         *)
(* (vsx-jni.c, GameView.java, GameLayout.java) and the iOS application     *)
(* (GameViewController.m).  The shells differ in how a frame is asked for, *)
(* in how the graphics are lost and made again and in the field into which *)
(* the player types their name.                                            *)
(*                                                                         *)
(* The state of the game is changed by what the server says, by clicks and *)
(* by timeouts, all on the thread that also paints.                        *)
(***************************************************************************)
EXTENDS Painters, Sequences

CONSTANTS Plan,      \* what happens in a behaviour
          PostCap    \* the most messages to the Android user interface

(* A plan is a record: the shell; whether this is the first run; the saved *)
(* state; the kinds of messages from the server; the parts of the screen   *)
(* that are clicked; what happens to the shell; the images that are slow   *)
(* to load and those that cannot be loaded; and how many such events there *)
(* are.                                                                    *)
VARIABLES plan, left,
          game,      \* the game state
          painter,   \* the painters
          shell,     \* the shell
          field,     \* the native field for the name
          shown      \* the picture of the last frame

vars == <<plan, left, game, painter, shell, field, shown>>

Is(kind) == plan.shell = kind

\* The field has not been placed yet.
NoPlace == <<"no size", "no type", "no language">>

Blank == [q \in Painter |-> Nothing]

(******************************** the shell ********************************)
(* `due` says that a frame will be drawn: the flag of the main loop (SDL), *)
(* a render request (Android), a view that is not paused (iOS).  `flag` is *)
(* redraw_queued of the mobile shells.                                     *)
QueueRedraw(s, inRedraw) ==
    CASE Is("SDL") -> [s EXCEPT !.due = TRUE]
      [] Is("ANDROID") -> IF s.flag THEN s ELSE [s EXCEPT !.due = TRUE, !.flag = TRUE]
      [] Is("IOS") -> IF inRedraw THEN [s EXCEPT !.flag = TRUE]
                      ELSE [s EXCEPT !.due = @ \/ s.awake]

NameProperties(g, s) ==
    [what |-> "properties", visible |-> g.dialog = "NAME", place |-> s.place]

UpdateNameProperties(g, s) ==
    CASE Is("SDL") -> UNCHANGED field /\ shell' = s
      [] Is("IOS") -> /\ field' = [field EXCEPT !.visible = g.dialog = "NAME",
                                                !.place = s.place]
                      /\ shell' = s
      [] Is("ANDROID") ->
           /\ shell' = [s EXCEPT !.posts = Append(@, NameProperties(g, s))]
           /\ UNCHANGED field

(* What follows a change of the game or of the painters: the listeners of  *)
(* the painters and of the shell hear the events, and a frame is asked for *)
(* if a painter wants one.                                                 *)
Settle(g, p) ==
    LET heard == IF p.alive THEN Modified(p, g, g.out) ELSE p
        s == IF heard.queued THEN QueueRedraw(shell, FALSE) ELSE shell
    IN  /\ game' = [g EXCEPT !.out = {}]
        /\ painter' = [heard EXCEPT !.queued = FALSE]
        /\ IF "DIALOG" \in g.out THEN UpdateNameProperties(g, s)
           ELSE shell' = s /\ UNCHANGED field

Room == Len(shell.posts) < PostCap

\* Images that are not slow are there before anything else happens.
SlowOnly == \A i \in Image : painter.load[i] = "loading" => i \in plan.slow

Ready == Room /\ SlowOnly
Outside == Ready /\ left > 0 /\ left' = left - 1 /\ UNCHANGED plan
Inside == Ready /\ UNCHANGED <<plan, left>>

(******************************** the start ********************************)
StartedGame(pl) ==
    LET new == NewGame("en")
        first == IF pl.first THEN SetDialog(new, "GUIDE") ELSE new
        loaded == IF pl.saved.id = "NONE" THEN first ELSE LoadState(first, pl.saved)
    IN  [(IF pl.invited THEN Reset(loaded, "C") ELSE loaded) EXCEPT !.out = {}]

\* The window of the SDL client owes the events that show it and expose it.
StartedShell(pl, g) ==
    [due |-> pl.shell = "IOS", flag |-> FALSE, awake |-> pl.shell # "ANDROID",
     size |-> "none", real |-> "wide", height |-> 0, told |-> FALSE,
     place |-> NoPlace, typed |-> FALSE,
     owed |-> IF pl.shell = "SDL" THEN <<"SHOWN", "EXPOSED">> ELSE <<>>,
     posts |-> IF pl.shell = "ANDROID"
               THEN <<[what |-> "properties", visible |-> g.dialog = "NAME",
                   place |-> NoPlace]>>
               ELSE <<>>]

\* The field of the iOS application is always laid out, also while it is hidden.
StartedField(pl, g) ==
    [visible |-> pl.shell = "IOS" /\ g.dialog = "NAME", place |-> NoPlace,
     layout |-> pl.shell = "IOS"]

Init ==
    /\ plan \in Plan
    /\ left = plan.events
    /\ game = StartedGame(plan)
    /\ painter = IF plan.shell = "SDL" THEN [NewPainters(game, "none") EXCEPT !.queued = FALSE]
                 ELSE NoPainters
    /\ shell = StartedShell(plan, game)
    /\ field = StartedField(plan, game)
    /\ shown = Blank

(************************** what the server says ***************************)
(* The player has been announced to the server once they have a name; a    *)
(* game that is over is forgotten before the next message.                 *)
Said(kind) ==
    CASE kind = "header" -> HandleHeader(game)
      [] kind = "conversation" -> HandleConversationId(game, "C")
      [] kind = "name" -> HandlePlayerName(game, "Ann")
      [] kind = "shout" -> HandleShout(game, Other)
      [] kind = "tile" -> HandleTile(game, TRUE)
      [] kind = "nTiles" -> HandleNTiles(game, 10)
      [] kind = "language" -> HandleLanguage(game, "fr")
      [] kind = "error" -> HandleError(game, FALSE)
      [] kind = "bad" -> HandleError(game, TRUE)
      [] kind = "end" -> HandleEnd(game)

MayCome(kind) ==
    /\ kind \in plan.kinds
    /\ game.hasName /\ ~game.reset
    /\ (kind = "header") => ~game.connected
    /\ kind \notin {"header", "error", "bad"} => game.connected

Hear(kind) ==
    /\ Outside
    /\ kind # "flags" /\ MayCome(kind)
    /\ Settle(Said(kind),
              FireworksEvent(painter, kind = "shout" /\ painter.alive))
    /\ UNCHANGED shown

HearFlags(flags, synced) ==
    /\ Outside
    /\ MayCome("flags")
    /\ Settle(HandlePlayerFlags(game, flags, synced), painter)
    /\ UNCHANGED shown

ShoutOver ==
    /\ Inside
    /\ game.shoutTimer
    /\ Settle(RemoveShout(game), painter)
    /\ UNCHANGED shown

ResetComes ==
    /\ Inside
    /\ game.reset
    /\ Settle(Reset(game, NoId), painter)
    /\ UNCHANGED shown

(*********************** what happens to the painters **********************)
NoteOver ==
    /\ Inside
    /\ painter.noteTimer
    /\ Settle(game, NoteTimeout(painter))
    /\ UNCHANGED shown

ErrorShows ==
    /\ Inside
    /\ painter.delay
    /\ Settle(game, SetVisible(painter))
    /\ UNCHANGED shown

FireOver ==
    /\ Inside
    /\ painter.burning
    /\ painter' = [painter EXCEPT !.burning = FALSE]
    /\ UNCHANGED <<game, shell, field, shown>>

\* Images that are not slow come one after the other.
Prompt(i) == i = CHOOSE j \in Image : painter.load[j] = "loading" /\ j \notin plan.slow

Comes(i) ==
    /\ painter.load[i] = "loading"
    /\ IF i \in plan.slow THEN SlowOnly ELSE Prompt(i)
    /\ UNCHANGED <<plan, left, shown>>

Loads(i) == Comes(i) /\ i \notin plan.fails /\ Settle(game, ImageLoaded(painter, i))

Fails(i) == Comes(i) /\ i \in plan.fails /\ Settle(game, ImageFailed(painter, i))

(********************************** clicks *********************************)
Targets == [NONE |-> {}, NAME |-> {"enter", "copyright"},
            MENU |-> {"outside", "language", "share", "length", "help"},
            INVITE_LINK |-> {"outside", "link"},
            LANGUAGE |-> {"outside", "language"},
            COPYRIGHT |-> {"outside"}, GUIDE |-> {"outside", "left", "right"}]

\* The invitation lets a click through when there is no link to show.
ChildTakes == /\ painter.child # "NONE"
              /\ painter.child = "INVITE_LINK" => game.conversation # NoId

ClickMenu(target) ==
    CASE target = "outside" -> CloseDialog(game)
      [] target = "share" -> SetDialog(game, "INVITE_LINK")
      [] target = "help" -> SetDialog(SetPage(game, 0), "GUIDE")
      [] target = "language" -> IF Started(game) THEN SetNote(game, "started")
                                ELSE SetDialog(game, "LANGUAGE")
      [] target = "length" -> IF Started(game) THEN SetNote(game, "started") ELSE game

ClickGuide(target) ==
    CASE target = "outside" -> CloseDialog(game)
      [] target = "right" -> IF game.page < 7 THEN SetPage(game, game.page + 1) ELSE game
      [] target = "left" -> IF game.page > 0 THEN SetPage(game, game.page - 1) ELSE game

ClickInvite(target) == IF target = "outside" THEN CloseDialog(game) ELSE game

ClickLanguage(target) ==
    IF target = "outside" THEN CloseDialog(game) ELSE SetDialog(game, "MENU")

ClickCopyright == CloseDialog(game)

\* Only the SDL client has a name at hand; the others ask their user interface.
ClickName(target) ==
    CASE target = "copyright" -> SetDialog(game, "COPYRIGHT")
      [] target = "enter" -> IF Is("SDL") THEN NameEntered(game) ELSE game

ClickDialog(target) ==
    CASE painter.child = "NAME" -> ClickName(target)
      [] painter.child = "MENU" -> ClickMenu(target)
      [] painter.child = "INVITE_LINK" -> ClickInvite(target)
      [] painter.child = "LANGUAGE" -> ClickLanguage(target)
      [] painter.child = "COPYRIGHT" -> ClickCopyright
      [] painter.child = "GUIDE" -> ClickGuide(target)

CurrentFacts(p) == Facts(game, p, shell.height)

\* These lay themselves out before they look where the click is.
LaidOutForClick(p, q) ==
    IF q \in p.dirty THEN LayOut(p, game, {q}, CurrentFacts(p)) ELSE p

ClickedPainter ==
    LET p == RemoveNote(painter)
    IN  CASE p.child \in {"MENU", "GUIDE"} -> LaidOutForClick(p, p.child)
          [] p.child = "INVITE_LINK" ->
               LET new == InviteTexture(p, game)
               IN  IF ChildTakes THEN LaidOutForClick(new, p.child) ELSE new
          [] OTHER -> p

Click(target) ==
    /\ Outside
    /\ painter.alive /\ ChildTakes
    /\ target \in plan.clicks \cap Targets[painter.child]
    /\ (painter.child = "NAME" /\ target = "enter") => Is("SDL")
    /\ Settle(ClickDialog(target), ClickedPainter)
    /\ UNCHANGED shown

\* The buttons for a turn and a shout only speak to the server.
ClickButton(target) ==
    /\ Outside
    /\ painter.alive /\ ~ChildTakes /\ game.hasName
    /\ target \in plan.clicks \cap {"menu", "shout"}
    /\ Settle(IF target = "menu" THEN SetDialog(game, "MENU") ELSE game,
              LaidOutForClick(ClickedPainter, "button"))
    /\ UNCHANGED shown

\* The finger moves, or stays down for too long to be a click.
Drag ==
    /\ Outside
    /\ "drag" \in plan.clicks /\ painter.alive
    /\ Settle(game, RemoveNote(painter))
    /\ UNCHANGED shown

(********************************** a frame ********************************)
NoEventPending == shell.owed = <<>> /\ shell.size = shell.real

FrameDue == shell.due /\ shell.awake /\ (Is("SDL") => NoEventPending)

(* The iOS application makes the painters with the first frame.            *)
PaintersForFrame ==
    CASE Is("IOS") ->
           LET p == IF painter.alive THEN painter ELSE NewPainters(game, shell.size)
           IN  IF shell.size # shell.real THEN SetFbSize(p, shell.real) ELSE p
      [] OTHER -> painter

\* Where the name painter wants the field, when it has laid itself out.
NamePlace(kept) == <<kept.size, kept.start, kept.language>>

Frame ==
    LET old == PaintersForFrame
        prepared == Prepare([old EXCEPT !.queued = FALSE], game, CurrentFacts(old))
        painted == Paint(prepared)
        placed == /\ LaysOut(UpdateChild(old, game), "NAME")
                  /\ NamePlace(prepared.kept["NAME"]) # shell.place
        cleared == [shell EXCEPT !.due = FALSE, !.flag = FALSE,
                      !.size = IF Is("IOS") THEN shell.real ELSE @,
                      !.place = IF placed THEN NamePlace(prepared.kept["NAME"]) ELSE @]
        asked == IF painted.queued THEN QueueRedraw(cleared, TRUE) ELSE cleared
        s == IF Is("IOS") THEN [asked EXCEPT !.due = asked.flag] ELSE asked
    IN  /\ Ready
        /\ FrameDue
        /\ painter' = [painted EXCEPT !.queued = FALSE]
        /\ shown' = Shown(painted, CurrentFacts(painted))
        /\ IF placed THEN UpdateNameProperties(game, s)
           ELSE shell' = s /\ UNCHANGED field
        /\ UNCHANGED <<plan, left, game>>

(**************************** the life of a shell **************************)
MayHappen(what) == Outside /\ what \in plan.happens

\* The window or the view gets another size.  A view is laid out then.
Resize ==
    /\ MayHappen("resize")
    /\ shell.size = shell.real
    /\ LET s == [shell EXCEPT !.real = IF @ = "wide" THEN "tall" ELSE "wide"]
       IN  shell' = IF Is("IOS") THEN QueueRedraw(s, FALSE) ELSE s
    /\ UNCHANGED <<game, painter, field, shown>>

(* The SDL client sets the size when the window is shown and when its size *)
(* changes; only the latter asks for a frame.  A surface of the Android    *)
(* application whose size has changed is always drawn.                     *)
SizeChanged ==
    /\ Inside
    /\ ~Is("IOS") /\ shell.awake /\ painter.alive
    /\ shell.owed = <<>> /\ shell.size # shell.real
    /\ painter' = SetFbSize(painter, shell.real)
    /\ shell' = [shell EXCEPT !.size = shell.real, !.due = TRUE]
    /\ UNCHANGED <<game, field, shown>>

WindowEvent ==
    /\ Inside
    /\ shell.owed # <<>>
    /\ IF Head(shell.owed) = "SHOWN"
       THEN /\ painter' = SetFbSize(painter, shell.real)
            /\ shell' = [shell EXCEPT !.owed = Tail(@), !.size = shell.real]
       ELSE /\ shell' = [shell EXCEPT !.owed = Tail(@), !.due = TRUE]
            /\ UNCHANGED painter
    /\ UNCHANGED <<game, field, shown>>

\* The key G.
NewGameKey ==
    /\ MayHappen("new game") /\ Is("SDL")
    /\ Settle(Reset(game, NoId), painter)
    /\ UNCHANGED shown

\* The key R: all is thrown away but the state that is saved.
Recreate ==
    /\ MayHappen("recreate") /\ Is("SDL")
    /\ LET new == StartedGame([plan EXCEPT !.saved.id = "NONE"])
           loaded == LoadState(new, SavedState(game))
           p == Modified([NewPainters(new, "none") EXCEPT !.queued = FALSE],
                         loaded, loaded.out)
           s == [shell EXCEPT !.owed = <<"SHOWN", "EXPOSED">>, !.size = "none"]
       IN  /\ game' = [loaded EXCEPT !.out = {}]
           /\ painter' = [p EXCEPT !.queued = FALSE]
           /\ shell' = IF p.queued THEN QueueRedraw(s, FALSE) ELSE s
    /\ shown' = Blank
    /\ UNCHANGED field

\* The Android surface goes away, and with it the context of the graphics.
SurfaceGoes ==
    /\ MayHappen("pause")
    /\ Is("ANDROID") /\ shell.awake
    /\ shell' = [shell EXCEPT !.awake = FALSE]
    /\ shown' = Blank
    /\ UNCHANGED <<game, painter, field>>

\* It is there again: initContext, then resize, then a frame.
SurfaceComes ==
    /\ Inside
    /\ Is("ANDROID") /\ ~shell.awake
    /\ painter' = [SetFbSize(NewPainters(game, shell.size), shell.real)
                     EXCEPT !.queued = FALSE]
    /\ shell' = [shell EXCEPT !.awake = TRUE, !.size = shell.real, !.due = TRUE]
    /\ UNCHANGED <<game, field, shown>>

EnterBackground ==
    /\ MayHappen("pause")
    /\ Is("IOS") /\ shell.awake
    /\ painter' = NoPainters
    /\ shell' = [shell EXCEPT !.awake = FALSE, !.due = FALSE]
    /\ shown' = Blank
    /\ UNCHANGED <<game, field>>

EnterForeground ==
    /\ Inside
    /\ Is("IOS") /\ ~shell.awake
    /\ shell' = [shell EXCEPT !.awake = TRUE, !.due = TRUE]
    /\ UNCHANGED <<game, painter, field, shown>>

\* A link to a game is opened while the application runs.
SetInviteUrl ==
    /\ MayHappen("invite") /\ ~Is("SDL")
    /\ Settle(Reset(game, "C"), painter)
    /\ UNCHANGED shown

(**************************** the field for the name ***********************)
\* The user interface of the Android application looks for what was typed.
RequestName ==
    /\ Outside
    /\ Is("ANDROID") /\ painter.alive /\ painter.child = "NAME"
    /\ "enter" \in plan.clicks
    /\ painter' = RemoveNote(painter)
    /\ shell' = [shell EXCEPT !.posts = Append(@, [what |-> "request"])]
    /\ UNCHANGED <<game, field, shown>>

\* A field with only blanks in it is not a name.
UiRequest(blank) ==
    /\ shell' = [shell EXCEPT !.posts = Tail(@), !.typed = @ \/ ~blank]
    /\ UNCHANGED field

UiProperties(properties) ==
    /\ field' = [visible |-> properties.visible, place |-> properties.place,
                 layout |-> TRUE]
    /\ shell' = [shell EXCEPT !.posts = Tail(@)]

UiRuns ==
    /\ shell.posts # <<>>
    /\ IF Head(shell.posts).what = "request"
       THEN \E blank \in BOOLEAN : UiRequest(blank)
       ELSE UiProperties(Head(shell.posts))
    /\ UNCHANGED <<plan, left, game, painter, shown>>

SetPlayerName ==
    /\ Inside
    /\ shell.typed
    /\ LET s == [shell EXCEPT !.typed = FALSE]
           g == NameEntered(game)
           p == IF painter.alive THEN Modified(painter, g, g.out) ELSE painter
       IN  /\ game' = [g EXCEPT !.out = {}]
           /\ painter' = [p EXCEPT !.queued = FALSE]
           /\ UpdateNameProperties(g, IF p.queued THEN QueueRedraw(s, FALSE) ELSE s)
    /\ UNCHANGED shown

\* The iOS application reads the field at once.
EnterName ==
    /\ Outside
    /\ Is("IOS") /\ painter.alive /\ painter.child = "NAME"
    /\ "enter" \in plan.clicks
    /\ Settle(NameEntered(game), RemoveNote(painter))
    /\ UNCHANGED shown

RealHeight == 1

HeightIs(height, s) ==
    LET p == IF painter.alive THEN NameSizeChanged(painter) ELSE painter
    IN  IF height = s.height THEN shell' = s /\ UNCHANGED painter
        ELSE /\ painter' = [p EXCEPT !.queued = FALSE]
             /\ shell' = LET new == [s EXCEPT !.height = height]
                         IN  IF p.queued THEN QueueRedraw(new, FALSE) ELSE new

\* A field that is not visible is not laid out by Android.
OnLayout ==
    /\ Inside
    /\ field.layout
    /\ field' = [field EXCEPT !.layout = FALSE]
    /\ IF Is("IOS") THEN HeightIs(RealHeight, QueueRedraw(shell, FALSE))
       ELSE /\ shell' = [shell EXCEPT !.told = @ \/ field.visible]
            /\ UNCHANGED painter
    /\ UNCHANGED <<game, shown>>

SetNameHeight ==
    /\ Inside
    /\ shell.told
    /\ HeightIs(RealHeight, [shell EXCEPT !.told = FALSE])
    /\ UNCHANGED <<game, field, shown>>

(***************************************************************************)
Kinds == {"header", "conversation", "name", "flags", "shout", "tile", "nTiles",
          "language", "error", "bad", "end"}

AllTargets == UNION {Targets[c] : c \in Dialogs} \cup {"menu", "shout"}

Server == \/ \E kind \in Kinds : Hear(kind)
          \/ \E flags \in SUBSET Flags, synced \in BOOLEAN : HearFlags(flags, synced)

Player == \/ \E target \in AllTargets : Click(target) \/ ClickButton(target)
          \/ Drag \/ RequestName \/ EnterName

Timers == ShoutOver \/ ResetComes \/ NoteOver \/ ErrorShows \/ FireOver

Images == \E i \in Image : Loads(i) \/ Fails(i)

ShellLife == \/ Resize \/ NewGameKey \/ Recreate \/ SurfaceGoes
             \/ EnterBackground \/ SetInviteUrl \/ SurfaceComes \/ EnterForeground

ShellAnswers == \/ SizeChanged \/ WindowEvent \/ SetPlayerName
                \/ OnLayout \/ SetNameHeight

Next == \/ Server \/ Player \/ Timers \/ Images \/ Frame
        \/ ShellLife \/ ShellAnswers \/ UiRuns

Spec == Init /\ [][Next]_vars

(* A frame that asks for the next one and changes nothing.                 *)
Idle == /\ Paint(painter).queued
        /\ painter.child = game.dialog
        /\ painter.invited = game.conversation \/ painter.child # "INVITE_LINK"
        /\ \A q \in Painter : ~LaysOut(painter, q)
        /\ shell.size = shell.real
        /\ shown = Shown(painter, CurrentFacts(painter))

(* Frames are drawn, timeouts come, images load or fail, and the main      *)
(* loops and user interfaces of the shells run: none of these steps stays  *)
(* possible for ever without being taken.  Each makes itself impossible,   *)
(* so that weak fairness is said of the states in which it is possible.    *)
FairSpec ==
    /\ Spec
    /\ []<>~(FrameDue /\ ~Idle)
    /\ []<>(\A i \in Image : painter.load[i] # "loading")
    /\ []<>~game.shoutTimer /\ []<>~game.reset
    /\ []<>~painter.noteTimer /\ []<>~painter.delay /\ []<>~painter.burning
    /\ []<>(shell.posts = <<>>) /\ []<>~field.layout
    /\ []<>~shell.typed /\ []<>~shell.told /\ []<>(shell.owed = <<>>)
    /\ []<>(shell.awake /\ ~Is("IOS") => shell.size = shell.real)

(***************************************************************************)
(* Nothing is due: no frame, no event of the window, no new size.          *)
AtRest == /\ shell.awake /\ painter.alive /\ ~shell.due /\ shell.owed = <<>>
          /\ Is("IOS") \/ shell.size = shell.real

PresentFacts == [CurrentFacts(painter) EXCEPT !.size = shell.real]

\* A page of the guide whose image is not there leaves the page before.
LeavesThePage(q) == q = "GUIDE" /\ painter.load["page"] \in {"loading", "failed"}

ShowsThePresent ==
    /\ painter.child = game.dialog
    /\ painter.child = "INVITE_LINK" => painter.invited = game.conversation
    /\ \A q \in Painter : LeavesThePage(q)
                           \/ shown[q] = UpToDate(painter, q, PresentFacts)

(* A frame that was not asked for is never drawn.  Each painter keeps what *)
(* it made from the state of the game (layouts, textures, vertices) until  *)
(* it marks it dirty, and each of them decides for each event whether it   *)
(* asks the shell for a frame; the shells in turn drop a request when they *)
(* think that one is under way (redraw_queued, in_redraw, in_background).  *)
(* If no frame is due, then the last one shows the present state.          *)
ScreenIsCurrent == AtRest => ShowsThePresent

\* Nothing is on its way between the game, the painters and the field.
FieldAtRest == AtRest /\ shell.posts = <<>> /\ ~shell.told /\ ~field.layout

(* The field for the name is a native one, which the name painter has to   *)
(* leave room for.  Its visibility and place go through the user interface *)
(* and its height comes back (set_name_position_cb, setNameProperties,     *)
(* onLayout, setNameHeight, name_size_signal).  When all has arrived, it is*)
(* there if and only if the dialog is the one for the name, at the place   *)
(* that suits the present state, with the dialog laid out for its height.  *)
FieldFits ==
    (FieldAtRest /\ ~Is("SDL")) =>
        /\ field.visible <=> game.dialog = "NAME"
        /\ field.visible =>
              /\ field.place = <<shell.real, game.start, game.language>>
              /\ shell.height = RealHeight

(* Types, and what the timers stand for: somebody who shouts does not do   *)
(* so for ever, a note goes away, and a player whose connection is lost    *)
(* is going to be told or has been told (update_error_visible).  The       *)
(* native field is where it has to be.                                     *)
ScreenSound ==
    /\ game.dialog \in Dialogs /\ game.page \in Pages /\ game.flags \subseteq Flags
    /\ game.out = {} /\ painter.dirty \subseteq Painter
    /\ painter.child \in Dialogs /\ ~painter.queued
    /\ game.shouter # Nobody => game.shoutTimer
    /\ painter.text # NoText => painter.noteTimer
    /\ painter.alive => (painter.delay \/ painter.error <=>
                             game.hasName /\ ~game.connected)
    /\ Len(shell.posts) <= PostCap
    /\ FieldFits

(* Only the fireworks and the pages of the guide that move are drawn again *)
(* and again; otherwise frames, loads and layouts do not go on asking for  *)
(* each other, and what is on the screen in the end is the present state.  *)
ComesToRest ==
    <>[](shell.awake => /\ painter.moving \/ AtRest
                        /\ ShowsThePresent)
=============================================================================
