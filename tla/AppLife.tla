------------------------------- MODULE AppLife -------------------------------
(***************************************************************************)
(* The life of the game on a telephone: the activity that Android makes,   *)
(* stops, makes anew when the screen is turned, and whose process it kills *)
(* while nobody looks (GameActivity.java); the queue of what the activity  *)
(* has the render thread do (GameView.java); and the render thread, that   *)
(* owns the game (vsx-jni.c) and the dialog that the player sees.  Between *)
(* two lives of the activity there is only the bundle that it has saved:   *)
(* the invitation, and the game as vsx-instance-state.c writes it.         *)
(*                                                                         *)
(* The worker and the server are drawn with a broad brush: ClientThreads   *)
(* and ClientConnection have them in detail.                               *)
(***************************************************************************)
EXTENDS Integers, Sequences

CONSTANTS
    None,          \* no invitation, bundle, game, person...
    Url,           \* invitations, each to a conversation of its own
    LastPage,      \* number of the last page of the guide
    MaxPersons,    \* bound: persons that the server makes
    MaxLives,      \* bound: activities that are made
    MaxInvites     \* bound: invitations that reach an activity that is there

ASSUME AppAssumption ==
    /\ LastPage \in Nat /\ MaxPersons \in Nat /\ MaxLives \in Nat /\ MaxInvites \in Nat

VARIABLES
    phone,   \* what outlives the activity: the task's bundle and intents, and
             \* whether a player name is in the preferences
    act,     \* the activity and what it has queued for the render thread
    native,  \* struct data: what initContext is to begin with
    game,    \* the game state and its connection, or None
    server   \* the persons that the server knows, and how many it ever made

vars == <<phone, act, native, game, server>>

-----------------------------------------------------------------------------
(* The types.                                                              *)

Dialogs == {"none", "name", "menu", "invite", "language", "guide", "copyright"}
Invitation == Url \cup {None}

\* Whom a saved game belongs to
Owner == [type : {"none"}, id : {None}]
         \cup [type : {"conversation"}, id : Url]
         \cup [type : {"person"}, id : Nat]
InstanceState == [id : Owner, dialog : Dialogs, page : 0..LastPage]
Bundle == [state : InstanceState \cup {None}, url : Invitation]

Call == [op : {"setFirstRun", "setPlayerName"}]
        \cup [op : {"setInstanceState"}, state : InstanceState]
        \cup [op : {"setInviteUrl"}, url : Url]

Task == [exists : BOOLEAN, bundle : Bundle \cup {None}, launched : Invitation,
         last : Invitation]
Phone == [task : Task, named : BOOLEAN, lives : Nat, invites : Nat]
Activity == [state : {"none", "shown", "stopped"}, intent : Invitation,
             queue : Seq(Call), from : Bundle \cup {None}, called : BOOLEAN]
Native == [firstRun : BOOLEAN, state : InstanceState \cup {None}, conv : Invitation]
Game == [dialog : Dialogs, page : 0..LastPage, hasName : BOOLEAN,
         saved : InstanceState, name : BOOLEAN, person : Nat \cup {None},
         conv : Invitation, joined : BOOLEAN,
         ending : {"no", "heard", "resetting"}, renewed : BOOLEAN]

\* Nothing is not something.
ASSUME NoneAssumption ==
    /\ None \notin Url /\ None \notin Nat
    /\ None \notin InstanceState /\ None \notin Bundle /\ None \notin Game

-----------------------------------------------------------------------------
(* The instance state, and the dialogs of the game state.                  *)

NoId == [type |-> "none", id |-> None]
NewState == [id |-> NoId, dialog |-> "none", page |-> 0]

\* vsx_instance_state_save followed by _load: the page is written only for the
\* guide.
Reloaded(state) ==
    [state EXCEPT !.page = IF state.dialog = "guide" THEN @ ELSE 0]

SetDialog(g, dialog) == [g EXCEPT !.dialog = dialog, !.saved.dialog = dialog]
SetPage(g, page) == [g EXCEPT !.page = page, !.saved.page = page]

\* Fault for a mutant: the dialog is closed whatever is still missing.
CloseDialogAnyway(g) == SetDialog(g, "none")

\* vsx_game_state_close_dialog: without a name the game cannot start.
CloseDialog(g) == SetDialog(g, IF g.hasName THEN "none" ELSE "name")

\* vsx_game_state_new, with the connection that ensure_game_state makes
NewGame ==
    [dialog |-> "name", page |-> 0, hasName |-> FALSE,
     saved |-> [NewState EXCEPT !.dialog = "name"],
     name |-> FALSE, person |-> None, conv |-> None, joined |-> FALSE,
     ending |-> "no", renewed |-> FALSE]

Renewed(g, conv) ==
    [SetDialog(g, "name") EXCEPT
        !.name = FALSE, !.person = None, !.conv = conv, !.joined = FALSE,
        !.saved.id = IF conv = None THEN NoId
                     ELSE [type |-> "conversation", id |-> conv],
        !.ending = "no", !.renewed = TRUE]

\* reset_full, for another game or for the conversation of an invitation
Reset(g, conv) == [Renewed(g, conv) EXCEPT !.hasName = FALSE]

\* vsx_game_state_load_instance_state
Loaded(g, state) ==
    SetPage(SetDialog([g EXCEPT
        !.saved = state,
        !.conv = IF state.id.type = "conversation" THEN state.id.id ELSE @,
        !.person = IF state.id.type = "person" THEN state.id.id ELSE @,
        !.hasName = @ \/ state.id.type = "person"], state.dialog), state.page)

-----------------------------------------------------------------------------
(* The activity, on the thread of the user interface.                      *)

NoTask == [exists |-> FALSE, bundle |-> None, launched |-> None, last |-> None]
NoAct == [state |-> "none", intent |-> None, queue |-> <<>>, from |-> None,
          called |-> FALSE]
NewNative == [firstRun |-> FALSE, state |-> None, conv |-> None]

Queue(a, call) == [a EXCEPT !.queue = Append(@, call)]
Invite(a, url) == Queue(a, [op |-> "setInviteUrl", url |-> url])

\* Fault for a mutant: an invitation always comes first.
SameInvitationNever(bundle, intent) == intent = None

\* The invitation, if any, is the one that the saved game came from.
SameInvitation(bundle, intent) == intent = None \/ bundle.url = intent

\* onCreate
Created(bundle, intent, named) ==
    LET new == [NoAct EXCEPT !.state = "shown", !.intent = intent, !.from = bundle]
        first == IF named THEN new ELSE Queue(new, [op |-> "setFirstRun"])
    IN IF bundle # None /\ SameInvitation(bundle, intent)
       THEN IF bundle.state = None THEN first
            ELSE Queue(first, [op |-> "setInstanceState", state |-> bundle.state])
       ELSE IF intent # None THEN Invite(first, intent) ELSE first

\* onSaveInstanceState: the game state is read at once, past the queue.
Saved == [state |-> IF game = None THEN None ELSE Reloaded(game.saved),
          url |-> act.intent]

Create(bundle, intent) ==
    /\ phone.lives < MaxLives
    /\ act' = Created(bundle, intent, phone.named)
    /\ native' = NewNative
    /\ game' = None

Launch(intent) ==
    /\ ~phone.task.exists
    /\ Create(None, intent)
    /\ phone' = [phone EXCEPT !.lives = @ + 1,
                   !.task = [exists |-> TRUE, bundle |-> None,
                             launched |-> intent, last |-> intent]]
    /\ UNCHANGED server

\* onNewIntent
NewIntent(url) ==
    /\ act.state # "none" /\ phone.invites < MaxInvites
    /\ act' = Invite([act EXCEPT !.intent = url, !.state = "shown", !.called = TRUE],
                      url)
    /\ phone' = [phone EXCEPT !.task.last = url, !.invites = @ + 1]
    /\ UNCHANGED <<native, game, server>>

Stop ==
    /\ act.state = "shown"
    /\ act' = [act EXCEPT !.state = "stopped"]
    /\ phone' = [phone EXCEPT !.task.bundle = Saved]
    /\ UNCHANGED <<native, game, server>>

Restart ==
    /\ act.state = "stopped"
    /\ act' = [act EXCEPT !.state = "shown"]
    /\ UNCHANGED <<phone, native, game, server>>

\* The screen is turned: the activity is saved and another one made.
Turned ==
    /\ act.state = "shown"
    /\ Create(Saved, act.intent)
    /\ phone' = [phone EXCEPT !.lives = @ + 1, !.task.bundle = Saved]
    /\ UNCHANGED server

Killed ==
    /\ act.state = "stopped"
    /\ act' = NoAct /\ native' = NewNative /\ game' = None
    /\ UNCHANGED <<phone, server>>

\* Android gives the new activity the intent that the task was launched with
\* or the last one: the code must do with either.
Revived ==
    /\ phone.task.exists /\ act.state = "none"
    /\ \E intent \in {phone.task.launched, phone.task.last} :
         Create(phone.task.bundle, intent)
    /\ phone' = [phone EXCEPT !.lives = @ + 1]
    /\ UNCHANGED server

\* The player leaves the activity for good.
Finished ==
    /\ act.state = "shown"
    /\ act' = NoAct /\ native' = NewNative /\ game' = None
    /\ phone' = [phone EXCEPT !.task = NoTask]
    /\ UNCHANGED server

\* setPlayerName, when the player has asked for it with the button of the name
\* dialog or the keyboard (bound: one name at a time in the queue).
NameEntered ==
    /\ act.state = "shown" /\ game # None /\ game.dialog = "name"
    /\ act.queue = <<>>
    /\ act' = Queue(act, [op |-> "setPlayerName"])
    /\ phone' = [phone EXCEPT !.named = TRUE]
    /\ UNCHANGED <<native, game, server>>

-----------------------------------------------------------------------------
(* The render thread: what was queued, the first frame, and the dialogs.   *)

\* The native functions of the renderer
Done(call) ==
    CASE call.op = "setFirstRun" ->
           native' = [native EXCEPT !.firstRun = TRUE] /\ UNCHANGED game
      [] call.op = "setInstanceState" ->
           native' = [native EXCEPT !.state = call.state] /\ UNCHANGED game
      [] call.op = "setInviteUrl" ->
           /\ native' = [native EXCEPT !.conv = call.url]
           /\ game' = IF game = None THEN None ELSE Reset(game, call.url)
      [] call.op = "setPlayerName" ->
           /\ game' = IF game = None THEN None
                      ELSE SetDialog([game EXCEPT !.name = TRUE, !.hasName = TRUE],
                                     "invite")
           /\ UNCHANGED native

RunQueued ==
    /\ act.queue # <<>>
    /\ Done(Head(act.queue))
    /\ act' = [act EXCEPT !.queue = Tail(@)]
    /\ UNCHANGED <<phone, server>>

\* initContext with ensure_game_state; the queue comes before the first frame.
InitContext ==
    /\ act.state = "shown" /\ act.queue = <<>> /\ game = None
    /\ LET new == IF native.firstRun THEN SetDialog(NewGame, "guide") ELSE NewGame
           loaded == IF native.state = None THEN new ELSE Loaded(new, native.state)
       IN game' = IF native.conv = None THEN loaded ELSE Reset(loaded, native.conv)
    /\ native' = [native EXCEPT !.state = None]
    /\ UNCHANGED <<phone, act, server>>

Click(from, next) ==
    /\ act.state = "shown" /\ game # None /\ game.dialog = from
    /\ game' = next
    /\ UNCHANGED <<phone, act, native, server>>

\* A click beside the dialog, and anywhere for the copyright.
ClickBeside ==
    \E dialog \in {"guide", "invite", "menu", "language", "copyright"} :
        Click(dialog, CloseDialog(game))

ClickInGuide ==
    game # None /\ \E page \in (0..LastPage) \cap {game.page - 1, game.page + 1} :
        Click("guide", SetPage(game, page))

ClickCopyright == Click("name", SetDialog(game, "copyright"))

\* The button of the board, that is there once there is a name
ClickMenuButton == game # None /\ game.hasName /\ Click("none", SetDialog(game, "menu"))

\* handle_click of the menu; the language is offered until the game has started.
ClickInMenu ==
    \/ \E dialog \in {"language", "invite"} : Click("menu", SetDialog(game, dialog))
    \/ Click("menu", SetDialog(SetPage(game, 0), "guide"))

ClickLanguage == Click("language", SetDialog(game, "menu"))

\* The leave button: the server ends the game, that the flush of the queue and
\* reset_on_idle_cb hear of later.
ClickLeave ==
    /\ act.state = "shown" /\ game # None /\ game.dialog = "menu" /\ game.joined
    /\ game.ending = "no"
    /\ game' = [game EXCEPT !.ending = "heard"]
    /\ server' = [server EXCEPT !.persons = @ \ {game.person}]
    /\ UNCHANGED <<phone, act, native>>

FlushQueue ==
    /\ game # None
    /\ game.ending = "heard"
    /\ game' = [game EXCEPT !.ending = "resetting"]
    /\ UNCHANGED <<phone, act, native, server>>

ResetOnIdle ==
    /\ game # None
    /\ game.ending = "resetting"
    /\ game' = Reset(game, None)
    /\ UNCHANGED <<phone, act, native, server>>

-----------------------------------------------------------------------------
(* The worker and the server.                                              *)

HasConfiguration(g) == g.name \/ g.person # None

\* HEADER: handle_instance_state_event_locked notes the person at once.
Joins(person) ==
    game' = [game EXCEPT !.joined = TRUE, !.person = person,
                         !.saved.id = [type |-> "person", id |-> person]]

GetsIn ==
    /\ game # None /\ HasConfiguration(game) /\ ~game.joined /\ game.ending = "no"
    /\ IF game.person # None
       THEN game.person \in server.persons /\ Joins(game.person) /\ UNCHANGED server
       ELSE /\ server.made < MaxPersons
            /\ Joins(server.made + 1)
            /\ server' = [made |-> server.made + 1,
                          persons |-> server.persons \cup {server.made + 1}]
    /\ UNCHANGED <<phone, act, native>>

\* BAD_PLAYER_ID, BAD_CONVERSATION_ID and CONVERSATION_FULL
Refused ==
    /\ game # None /\ HasConfiguration(game) /\ ~game.joined /\ game.ending = "no"
    /\ IF game.person # None THEN game.person \notin server.persons
                             ELSE game.conv # None
    /\ game' = [game EXCEPT !.ending = "heard"]
    /\ UNCHANGED <<phone, act, native, server>>

\* The server forgets a person whose connection was silent for too long.
Forgets ==
    /\ \E person \in server.persons :
         /\ ~(game # None /\ game.person = person /\ game.joined)
         /\ server' = [server EXCEPT !.persons = @ \ {person}]
    /\ UNCHANGED <<phone, act, native, game>>

-----------------------------------------------------------------------------
Init ==
    /\ phone = [task |-> NoTask, named |-> FALSE, lives |-> 0, invites |-> 0]
    /\ act = NoAct
    /\ native = NewNative
    /\ game = None
    /\ server = [made |-> 0, persons |-> {}]

Android == \/ \E url \in Url \cup {None} : Launch(url)
           \/ \E url \in Url : NewIntent(url)
           \/ Stop \/ Restart \/ Turned \/ Killed \/ Revived \/ Finished

Player == \/ NameEntered \/ ClickBeside \/ ClickInGuide \/ ClickCopyright
          \/ ClickMenuButton \/ ClickInMenu \/ ClickLanguage \/ ClickLeave

Next == \/ Android \/ RunQueued \/ InitContext
        \/ Player \/ FlushQueue \/ ResetOnIdle
        \/ GetsIn \/ Refused \/ Forgets

Spec == Init /\ [][Next]_vars

-----------------------------------------------------------------------------
(* Properties.                                                             *)

\* The state has its type, and what a save would write is what is shown.
AppTypeOK ==
    /\ phone \in Phone /\ act \in Activity /\ native \in Native
    /\ game \in Game \cup {None}
    /\ server \in [made : Nat, persons : SUBSET Nat]
    /\ server.persons \subseteq 1..server.made
    /\ game # None =>
         /\ game.saved.dialog = game.dialog /\ game.saved.page = game.page
         /\ game.joined => game.saved.id = [type |-> "person", id |-> game.person]

\* The game believes to have a name exactly when its connection has one to
\* enter with, or a person who has one on the server: else the player is not
\* asked for the name that the connection waits for.
NameIsKnown == game # None => (game.hasName <=> HasConfiguration(game))

\* Whoever has no name yet sees a dialog, and every way out of a dialog leads
\* to the one that asks for the name, unless the game came from a bundle that
\* was saved before the person was known (that is NameIsAlwaysAsked).  The game
\* itself always knows whether it has a name to enter with.
NameIsAsked ==
    /\ NameIsKnown
    /\ game # None /\ ~game.hasName /\ (game.renewed \/ act.from = None)
         => game.dialog # "none"

\* What a save would write is what is shown, and nobody plays without a name
\* and without being asked for it.
AppSound == AppTypeOK /\ NameIsAsked

\* A game that was saved with its person begins as that person, with a name,
\* in the next life of the activity: the invitation that it came from is not
\* followed again, but another one is.
SeatIsKept ==
    [][ /\ game = None /\ game' # None
        /\ act.from # None /\ act.from.state # None
        /\ act.from.state.id.type = "person"
        /\ act.intent \in {None, act.from.url} /\ ~act.called
        => game'.person = act.from.state.id.id /\ game'.hasName ]_vars

\* The comment of vsx_game_state_close_dialog: "If the game state doesn't have
\* a player name yet then we want to show the name dialog instead because the
\* game can't start without the name".
NameIsAlwaysAsked == game # None /\ ~game.hasName => game.dialog # "none"
=============================================================================
