---------------------------- MODULE AppLifeProofs ---------------------------
(***************************************************************************)
(* What the run of MCAppLife checks for two lives and one invitation holds *)
(* for any number of lives, invitations, persons and pages.                *)
(***************************************************************************)
EXTENDS AppLife, SequenceTheorems, TLAPS

-----------------------------------------------------------------------------
(* The strengthening.                                                      *)

IsRestore(call) == call.op = "setInstanceState"

\* An activity that was made from nothing has no game to restore.
FromNothing ==
    act.from = None =>
      /\ native.state = None
      /\ \A i \in 1..Len(act.queue) : ~IsRestore(act.queue[i])

\* The premise of SeatIsKept: the activity was made to go on with a saved game.
GoesOn ==
    /\ game = None /\ act.from # None /\ act.from.state # None
    /\ act.intent \in {None, act.from.url} /\ ~act.called

\* Until its first frame the saved game has been handed over, or is the last
\* thing in the queue, and nothing in the queue comes in its way.
StateIsOnItsWay ==
    LET restore == [op |-> "setInstanceState", state |-> act.from.state]
        n == Len(act.queue)
    IN  GoesOn =>
          /\ native.conv = None
          /\ \A i \in 1..n : act.queue[i].op = "setFirstRun" \/ act.queue[i] = restore
          /\ \/ native.state = act.from.state
             \/ n > 0 /\ act.queue[n] = restore

AppInvariant == AppSound /\ FromNothing /\ StateIsOnItsWay

-----------------------------------------------------------------------------
(* The operators on the game state.                                        *)

LEMMA PageZero == 0 \in 0..LastPage
BY AppAssumption

LEMMA OwnerTyped ==
    /\ NoId \in Owner
    /\ \A u \in Url : [type |-> "conversation", id |-> u] \in Owner
    /\ \A p \in Nat : [type |-> "person", id |-> p] \in Owner
BY DEF Owner, NoId

LEMMA SetDialogTyped ==
    ASSUME NEW g \in Game, NEW dialog \in Dialogs
    PROVE  /\ SetDialog(g, dialog) \in Game
           /\ SetDialog(g, dialog).dialog = dialog
           /\ SetDialog(g, dialog).saved.dialog = dialog
           /\ SetDialog(g, dialog).saved.id = g.saved.id
           /\ SetDialog(g, dialog).saved.page = g.saved.page
           /\ \A f \in {"page", "hasName", "name", "person", "conv", "joined", "ending", "renewed"} :
                SetDialog(g, dialog)[f] = g[f]
BY DEF SetDialog, Game, InstanceState

LEMMA SetPageTyped ==
    ASSUME NEW g \in Game, NEW page \in 0..LastPage
    PROVE  /\ SetPage(g, page) \in Game
           /\ SetPage(g, page).page = page
           /\ SetPage(g, page).saved.page = page
           /\ SetPage(g, page).saved.id = g.saved.id
           /\ SetPage(g, page).saved.dialog = g.saved.dialog
           /\ \A f \in {"dialog", "hasName", "name", "person", "conv", "joined", "ending", "renewed"} :
                SetPage(g, page)[f] = g[f]
BY DEF SetPage, Game, InstanceState

\* What AppSound says of a game.
GameSound(g) ==
    /\ g \in Game
    /\ g.saved.dialog = g.dialog /\ g.saved.page = g.page
    /\ g.joined => g.saved.id = [type |-> "person", id |-> g.person]
    /\ g.hasName <=> HasConfiguration(g)

LEMMA SetDialogSound ==
    ASSUME NEW g, GameSound(g), NEW dialog \in Dialogs
    PROVE  GameSound(SetDialog(g, dialog))
BY SetDialogTyped DEF GameSound, HasConfiguration

LEMMA SetPageSound ==
    ASSUME NEW g, GameSound(g), NEW page \in 0..LastPage
    PROVE  GameSound(SetPage(g, page))
BY SetPageTyped DEF GameSound, HasConfiguration

LEMMA NewGameSound == GameSound(NewGame) /\ ~NewGame.joined /\ NewGame.dialog = "name"
BY PageZero, OwnerTyped
   DEF GameSound, NewGame, NewState, Game, InstanceState, Invitation, Dialogs, HasConfiguration

LEMMA ResetSound ==
    ASSUME NEW g, GameSound(g), NEW conv \in Invitation
    PROVE  /\ GameSound(Reset(g, conv))
           /\ Reset(g, conv).dialog = "name"
<1>. DEFINE d == SetDialog(g, "name")
            id == IF conv = None THEN NoId ELSE [type |-> "conversation", id |-> conv]
<1>1. "name" \in Dialogs
  BY DEF Dialogs
<1>2. GameSound(d) /\ d.dialog = "name"
  BY <1>1, SetDialogSound, SetDialogTyped DEF GameSound
<1>3. id \in Owner
  BY OwnerTyped DEF Invitation
<1>. DEFINE saved == [d.saved EXCEPT !.id = id]
<1>4. Reset(g, conv) = [d EXCEPT !.name = FALSE, !.person = None, !.conv = conv,
                                 !.joined = FALSE, !.saved = saved, !.ending = "no",
                                 !.renewed = TRUE, !.hasName = FALSE]
  BY <1>2 DEF Reset, Renewed, GameSound, Game
<1>5. saved \in InstanceState /\ saved.dialog = d.saved.dialog /\ saved.page = d.saved.page
  BY <1>2, <1>3 DEF GameSound, Game, InstanceState
<1>. HIDE DEF d, id, saved
<1>. DEFINE r == Reset(g, conv)
<1>6. d \in Game /\ d.dialog = "name" /\ d.saved.dialog = d.dialog /\ d.saved.page = d.page
  BY <1>2 DEF GameSound
<1>7. r \in Game
  BY <1>4, <1>5, <1>6 DEF Game
<1>8. /\ r.dialog = d.dialog /\ r.page = d.page /\ r.saved = saved
      /\ ~r.joined /\ ~r.hasName /\ ~r.name /\ r.person = None
  BY <1>4, <1>6 DEF Game
<1>. QED
  BY <1>5, <1>6, <1>7, <1>8 DEF GameSound, HasConfiguration

\* A game that is loaded has the dialog and the page of its state, and its
\* person and a name if it had one.
LEMMA LoadedSound ==
    ASSUME NEW g, GameSound(g), ~g.joined, NEW state \in InstanceState
    PROVE  /\ GameSound(Loaded(g, state)) /\ Loaded(g, state).renewed = g.renewed
           /\ state.id.type = "person" =>
                Loaded(g, state).person = state.id.id /\ Loaded(g, state).hasName
<1>. DEFINE h == [g EXCEPT
              !.saved = state,
              !.conv = IF state.id.type = "conversation" THEN state.id.id ELSE @,
              !.person = IF state.id.type = "person" THEN state.id.id ELSE @,
              !.hasName = @ \/ state.id.type = "person"]
            d == SetDialog(h, state.dialog)
<1>1. h \in Game
  <2>1. state.id.type = "conversation" => state.id.id \in Url
    BY DEF InstanceState, Owner
  <2>2. state.id.type = "person" => state.id.id \in Nat
    BY DEF InstanceState, Owner
  <2>. QED
    BY <2>1, <2>2 DEF GameSound, Game, Invitation
<1>2. /\ h.hasName <=> HasConfiguration(h)
      /\ ~h.joined /\ h.renewed = g.renewed
      /\ state.id.type = "person" => h.person = state.id.id /\ h.hasName
  <2>1. state.id.type = "person" => state.id.id # None
    BY NoneAssumption DEF InstanceState, Owner
  <2>. QED
    BY <2>1 DEF GameSound, Game, HasConfiguration
<1>3. state.dialog \in Dialogs /\ state.page \in 0..LastPage
  BY DEF InstanceState
<1>. HIDE DEF h
<1>4. /\ d \in Game
      /\ d.dialog = state.dialog /\ d.saved.dialog = state.dialog
      /\ d.hasName <=> HasConfiguration(d)
      /\ ~d.joined /\ d.renewed = g.renewed
      /\ state.id.type = "person" => d.person = state.id.id /\ d.hasName
  BY <1>1, <1>2, <1>3, SetDialogTyped DEF HasConfiguration
<1>5. Loaded(g, state) = SetPage(d, state.page)
  BY DEF Loaded, d, h
<1>. HIDE DEF d
<1>. QED
  BY <1>3, <1>4, <1>5, SetPageTyped DEF GameSound, HasConfiguration

-----------------------------------------------------------------------------
(* A new activity and its queue.                                           *)

LEMMA QueueTyped ==
    ASSUME NEW a \in Activity, NEW call \in Call
    PROVE  /\ Queue(a, call) \in Activity
           /\ Queue(a, call).state = a.state /\ Queue(a, call).intent = a.intent
           /\ Queue(a, call).from = a.from /\ Queue(a, call).called = a.called
           /\ Len(Queue(a, call).queue) = Len(a.queue) + 1
           /\ \A i \in 1..Len(a.queue) : Queue(a, call).queue[i] = a.queue[i]
           /\ Queue(a, call).queue[Len(a.queue) + 1] = call
<1>1. a.queue \in Seq(Call)
  BY DEF Activity
<1>2. /\ Append(a.queue, call) \in Seq(Call)
      /\ Len(Append(a.queue, call)) = Len(a.queue) + 1
      /\ \A i \in 1..Len(a.queue) : Append(a.queue, call)[i] = a.queue[i]
      /\ Append(a.queue, call)[Len(a.queue) + 1] = call
  BY <1>1, AppendProperties
<1>. QED
  BY <1>2 DEF Queue, Activity

\* A new activity has in its queue what it was made from: nothing that restores
\* a game if it was made from nothing, and the saved game at the end if it is
\* to go on with it.
LEMMA CreatedTyped ==
    ASSUME NEW bundle \in Bundle \cup {None}, NEW intent \in Invitation,
           NEW named \in BOOLEAN,
           NEW a, a = Created(bundle, intent, named)
    PROVE  /\ a \in Activity /\ a.from = bundle /\ a.intent = intent
           /\ bundle = None => \A i \in 1..Len(a.queue) : ~IsRestore(a.queue[i])
           /\ bundle # None /\ bundle.state # None /\ intent \in {None, bundle.url} =>
                LET restore == [op |-> "setInstanceState", state |-> bundle.state]
                IN  /\ Len(a.queue) > 0 /\ a.queue[Len(a.queue)] = restore
                    /\ \A i \in 1..Len(a.queue) :
                         a.queue[i].op = "setFirstRun" \/ a.queue[i] = restore
<1>. DEFINE new == [NoAct EXCEPT !.state = "shown", !.intent = intent, !.from = bundle]
            first == IF named THEN new ELSE Queue(new, [op |-> "setFirstRun"])
            restore == [op |-> "setInstanceState", state |-> bundle.state]
<1>1. new \in Activity /\ new.from = bundle /\ new.intent = intent /\ Len(new.queue) = 0
  BY EmptySeq DEF NoAct, Activity, Invitation
<1>2. [op |-> "setFirstRun"] \in Call
  BY DEF Call
<1>3. /\ first \in Activity /\ first.from = bundle /\ first.intent = intent
      /\ Len(first.queue) \in Nat
      /\ \A i \in 1..Len(first.queue) : first.queue[i].op = "setFirstRun"
  <2>. HIDE DEF new
  <2>1. CASE named
    BY <1>1, <2>1
  <2>2. CASE ~named
    BY <1>1, <1>2, <2>2, QueueTyped
  <2>. QED
    BY <2>1, <2>2
<1>. HIDE DEF first
<1>4. CASE bundle # None /\ SameInvitation(bundle, intent) /\ bundle.state = None
  <2>1. a = first
    BY <1>4 DEF Created, first, new
  <2>. QED
    BY <1>3, <1>4, <2>1
<1>5. CASE bundle # None /\ SameInvitation(bundle, intent) /\ bundle.state # None
  <2>1. a = Queue(first, restore)
    BY <1>5 DEF Created, first, new
  <2>2. restore \in Call
    BY <1>5 DEF Call, Bundle
  <2>. HIDE DEF restore
  <2>3. /\ a \in Activity /\ a.from = bundle /\ a.intent = intent
        /\ Len(a.queue) = Len(first.queue) + 1
        /\ \A i \in 1..Len(first.queue) : a.queue[i] = first.queue[i]
        /\ a.queue[Len(first.queue) + 1] = restore
    BY <1>3, <2>1, <2>2, QueueTyped
  <2>. QED
    BY <1>3, <1>5, <2>3 DEF restore
<1>6. CASE ~(bundle # None /\ SameInvitation(bundle, intent))
  <2>1. bundle # None => intent # None /\ intent # bundle.url
    BY <1>6 DEF SameInvitation
  <2>2. CASE intent = None
    <3>1. a = first
      BY <1>6, <2>2 DEF Created, first, new
    <3>. QED
      BY <1>3, <2>1, <2>2, <3>1 DEF IsRestore
  <2>3. CASE intent # None
    <3>. DEFINE invite == [op |-> "setInviteUrl", url |-> intent]
    <3>1. a = Queue(first, invite)
      BY <1>6, <2>3 DEF Created, Invite, first, new
    <3>2. invite \in Call /\ invite.op = "setInviteUrl"
      BY <2>3 DEF Call, Invitation
    <3>. HIDE DEF invite
    <3>3. /\ a \in Activity /\ a.from = bundle /\ a.intent = intent
          /\ Len(a.queue) = Len(first.queue) + 1
          /\ \A i \in 1..Len(first.queue) : a.queue[i] = first.queue[i]
          /\ a.queue[Len(first.queue) + 1] = invite
      BY <1>3, <3>1, <3>2, QueueTyped
    <3>4. ASSUME NEW i \in 1..Len(a.queue) PROVE ~IsRestore(a.queue[i])
      <4>1. Len(first.queue) \in Nat /\ \A j \in 1..Len(first.queue) : ~IsRestore(first.queue[j])
        BY <1>3, "setFirstRun" # "setInstanceState" DEF IsRestore
      <4>2. ~IsRestore(invite)
        BY <3>2 DEF IsRestore
      <4>3. i \in 1..Len(first.queue) \/ i = Len(first.queue) + 1
        BY <3>3, <4>1
      <4>. QED
        BY <3>3, <4>1, <4>2, <4>3
    <3>. QED
      BY <2>1, <2>3, <3>3, <3>4
  <2>. QED
    BY <2>2, <2>3
<1>. QED
  BY <1>4, <1>5, <1>6

-----------------------------------------------------------------------------
(* Every step keeps the invariant.                                         *)

LEMMA AppInitially == Init => AppInvariant
<1>. SUFFICES ASSUME Init PROVE AppInvariant
  OBVIOUS
<1>1. phone \in Phone
  BY DEF Init, Phone, Task, NoTask, Invitation
<1>2. act \in Activity /\ Len(act.queue) = 0 /\ act.from = None
  BY EmptySeq DEF Init, Activity, NoAct, Invitation
<1>3. native \in Native /\ native.state = None
  BY DEF Init, Native, NewNative, Invitation
<1>4. /\ server \in [made : Nat, persons : SUBSET Nat]
      /\ server.persons \subseteq 1..server.made
  BY DEF Init
<1>. QED
  BY <1>1, <1>2, <1>3, <1>4
     DEF Init, AppInvariant, AppSound, AppTypeOK, NameIsAsked, NameIsKnown, FromNothing,
         StateIsOnItsWay, GoesOn

\* Whatever makes an activity.
LEMMA CreateKeeps ==
    ASSUME AppInvariant, NEW bundle \in Bundle \cup {None}, NEW intent \in Invitation,
           Create(bundle, intent), phone' \in Phone, UNCHANGED server
    PROVE  AppInvariant'
<1>1. phone.named \in BOOLEAN
  BY DEF AppInvariant, AppSound, AppTypeOK, Phone
<1>2. act' = Created(bundle, intent, phone.named) /\ native' = NewNative /\ game' = None
  BY DEF Create
<1>3. /\ act' \in Activity /\ act'.from = bundle /\ act'.intent = intent
      /\ bundle = None => \A i \in 1..Len(act'.queue) : ~IsRestore(act'.queue[i])
      /\ bundle # None /\ bundle.state # None /\ intent \in {None, bundle.url} =>
           LET restore == [op |-> "setInstanceState", state |-> bundle.state]
           IN  /\ Len(act'.queue) > 0 /\ act'.queue[Len(act'.queue)] = restore
               /\ \A i \in 1..Len(act'.queue) :
                    act'.queue[i].op = "setFirstRun" \/ act'.queue[i] = restore
  BY <1>1, <1>2, CreatedTyped
<1>4. native' \in Native /\ native'.state = None /\ native'.conv = None
  BY <1>2 DEF NewNative, Native, Invitation
<1>5. AppSound'
  BY <1>2, <1>3, <1>4 DEF AppInvariant, AppSound, AppTypeOK, NameIsAsked, NameIsKnown
<1>6. FromNothing'
  BY <1>3, <1>4 DEF FromNothing
<1>7. StateIsOnItsWay'
  BY <1>3, <1>4 DEF StateIsOnItsWay, GoesOn
<1>. QED
  BY <1>5, <1>6, <1>7 DEF AppInvariant

\* Whatever changes the game and its server, but not the rest.
LEMMA GameStepKeeps ==
    ASSUME AppInvariant, game # None, UNCHANGED <<phone, act, native>>,
           server' \in [made : Nat, persons : SUBSET Nat],
           server'.persons \subseteq 1..server'.made,
           GameSound(game'),
           ~game'.hasName /\ (game'.renewed \/ act.from = None) => game'.dialog # "none"
    PROVE  AppInvariant'
<1>1. game' # None
  BY NoneAssumption DEF GameSound
<1>2. AppSound'
  BY <1>1 DEF AppInvariant, AppSound, AppTypeOK, NameIsAsked, NameIsKnown, GameSound
<1>. QED
  BY <1>1, <1>2 DEF AppInvariant, FromNothing, StateIsOnItsWay, GoesOn

\* What the invariant says of a game that is there.
LEMMA GameIsSound ==
    ASSUME AppInvariant, game # None
    PROVE  /\ GameSound(game)
           /\ ~game.hasName /\ (game.renewed \/ act.from = None) => game.dialog # "none"
           /\ server \in [made : Nat, persons : SUBSET Nat]
           /\ server.persons \subseteq 1..server.made
BY DEF AppInvariant, AppSound, AppTypeOK, NameIsAsked, NameIsKnown, GameSound

LEMMA BundlesAreTyped ==
    ASSUME AppInvariant
    PROVE  /\ Saved \in Bundle
           /\ phone.task.bundle \in Bundle \cup {None}
           /\ phone.task.launched \in Invitation /\ phone.task.last \in Invitation
           /\ act.intent \in Invitation
<1>1. phone \in Phone /\ act \in Activity
  BY DEF AppInvariant, AppSound, AppTypeOK
<1>2. CASE game = None
  BY <1>1, <1>2 DEF Saved, Bundle, Activity, Phone, Task
<1>3. CASE game # None
  <2>1. game.saved \in InstanceState
    BY <1>3, GameIsSound DEF GameSound, Game
  <2>2. Reloaded(game.saved) \in InstanceState
    BY <2>1, PageZero DEF Reloaded, InstanceState
  <2>. QED
    BY <1>1, <1>3, <2>2 DEF Saved, Bundle, Activity, Phone, Task
<1>. QED
  BY <1>2, <1>3

LEMMA StateIsTyped ==
    ASSUME AppInvariant
    PROVE  /\ phone \in Phone /\ act \in Activity /\ native \in Native
           /\ act.queue \in Seq(Call) /\ Len(act.queue) \in Nat
BY LenProperties DEF AppInvariant, AppSound, AppTypeOK, Activity

LEMMA LaunchKeeps ==
    ASSUME AppInvariant, NEW intent \in Invitation, Launch(intent)
    PROVE  AppInvariant'
<1>1. phone' \in Phone
  <2>. DEFINE task == [exists |-> TRUE, bundle |-> None, launched |-> intent, last |-> intent]
  <2>1. task \in Task
    BY DEF Task
  <2>2. phone' = [phone EXCEPT !.lives = @ + 1, !.task = task]
    BY DEF Launch
  <2>3. phone \in Phone /\ phone.lives + 1 \in Nat
    BY StateIsTyped DEF Phone
  <2>. HIDE DEF task
  <2>. QED
    BY <2>1, <2>2, <2>3 DEF Phone
<1>. QED
  BY <1>1, CreateKeeps DEF Launch

LEMMA TurnedKeeps == AppInvariant /\ Turned => AppInvariant'
<1>. SUFFICES ASSUME AppInvariant, Turned PROVE AppInvariant'
  OBVIOUS
<1>1. phone' \in Phone
  <2>. DEFINE task == [phone.task EXCEPT !.bundle = Saved]
  <2>1. task \in Task
    BY StateIsTyped, BundlesAreTyped DEF Phone, Task
  <2>2. phone' = [phone EXCEPT !.lives = @ + 1, !.task = task]
    BY StateIsTyped DEF Turned, Phone
  <2>3. phone \in Phone /\ phone.lives + 1 \in Nat
    BY StateIsTyped DEF Phone
  <2>. HIDE DEF task
  <2>. QED
    BY <2>1, <2>2, <2>3 DEF Phone
<1>. QED
  BY <1>1, BundlesAreTyped, CreateKeeps DEF Turned

LEMMA RevivedKeeps == AppInvariant /\ Revived => AppInvariant'
<1>. SUFFICES ASSUME AppInvariant, Revived PROVE AppInvariant'
  OBVIOUS
<1>1. phone' \in Phone
  BY StateIsTyped DEF Revived, Phone
<1>. QED
  BY <1>1, BundlesAreTyped, CreateKeeps DEF Revived

\* The activity goes, and with it the game.
LEMMA EndKeeps == AppInvariant /\ (Killed \/ Finished) => AppInvariant'
<1>. SUFFICES ASSUME AppInvariant, Killed \/ Finished PROVE AppInvariant'
  OBVIOUS
<1>1. phone' \in Phone
  <2>1. CASE Killed
    BY <2>1, StateIsTyped DEF Killed
  <2>2. CASE Finished
    BY <2>2, StateIsTyped DEF Finished, Phone, Task, NoTask, Invitation
  <2>. QED
    BY <2>1, <2>2
<1>2. act' = NoAct /\ native' = NewNative /\ game' = None /\ UNCHANGED server
  BY DEF Killed, Finished
<1>3. /\ act' \in Activity /\ Len(act'.queue) = 0 /\ act'.from = None
      /\ native' \in Native /\ native'.state = None
  BY <1>2, EmptySeq DEF Activity, NoAct, Invitation, Native, NewNative
<1>4. AppSound'
  BY <1>1, <1>2, <1>3 DEF AppInvariant, AppSound, AppTypeOK, NameIsAsked, NameIsKnown
<1>. QED
  BY <1>2, <1>3, <1>4 DEF AppInvariant, FromNothing, StateIsOnItsWay, GoesOn

\* An activity that is stopped or shown again keeps everything it has.
LEMMA StopKeeps == AppInvariant /\ (Stop \/ Restart) => AppInvariant'
<1>. SUFFICES ASSUME AppInvariant, Stop \/ Restart PROVE AppInvariant'
  OBVIOUS
<1>1. phone' \in Phone
  BY BundlesAreTyped DEF AppInvariant, AppSound, AppTypeOK, Stop, Restart, Phone, Task
<1>2. act' \in Activity /\ UNCHANGED <<act.queue, act.from, act.intent, act.called>>
  BY DEF AppInvariant, AppSound, AppTypeOK, Stop, Restart, Activity
<1>3. UNCHANGED <<native, game, server>>
  BY DEF Stop, Restart
<1>4. AppSound'
  BY <1>1, <1>2, <1>3
     DEF AppInvariant, AppSound, AppTypeOK, NameIsAsked, NameIsKnown, HasConfiguration
<1>. QED
  BY <1>2, <1>3, <1>4 DEF AppInvariant, FromNothing, StateIsOnItsWay, GoesOn, IsRestore

\* A call that restores nothing is queued, by an activity that does not go on
\* with a saved game, or not any more.
LEMMA QueueKeeps ==
    ASSUME AppInvariant, phone' \in Phone, UNCHANGED <<native, game, server>>,
           NEW a \in Activity, a.queue = act.queue, a.from = act.from,
           a.called \/ game # None,
           NEW call \in Call, ~IsRestore(call), act' = Queue(a, call)
    PROVE  AppInvariant'
<1>1. /\ act' \in Activity /\ act'.from = act.from /\ act'.called = a.called
      /\ Len(act'.queue) = Len(act.queue) + 1
      /\ \A i \in 1..Len(act.queue) : act'.queue[i] = act.queue[i]
      /\ act'.queue[Len(act.queue) + 1] = call
  BY QueueTyped
<1>2. Len(act.queue) \in Nat
  BY LenProperties DEF AppInvariant, AppSound, AppTypeOK, Activity
<1>3. AppSound'
  BY <1>1 DEF AppInvariant, AppSound, AppTypeOK, NameIsAsked, NameIsKnown, HasConfiguration
<1>4. FromNothing'
  <2>. DEFINE n == Len(act.queue)
              q == act'.queue
  <2>1. n \in Nat /\ Len(q) = n + 1
    BY <1>1, <1>2
  <2>2. \A i \in 1..n : q[i] = act.queue[i]
    BY <1>1
  <2>3. q[n + 1] = call
    BY <1>1
  <2>4. SUFFICES ASSUME act'.from = None
                 PROVE  /\ native'.state = None
                        /\ \A i \in 1..Len(q) : ~IsRestore(q[i])
    BY DEF FromNothing, IsRestore
  <2>5. native.state = None /\ \A i \in 1..n : ~IsRestore(act.queue[i])
    BY <1>1, <2>4 DEF AppInvariant, FromNothing
  <2>. HIDE DEF n, q
  <2>6. ASSUME NEW i \in 1..Len(q) PROVE ~IsRestore(q[i])
    <3>1. CASE i \in 1..n
      BY <2>2, <2>5, <3>1
    <3>2. CASE i = n + 1
      BY <2>3, <3>2
    <3>. QED
      BY <2>1, <3>1, <3>2
  <2>. QED
    BY <2>5, <2>6
<1>. QED
  BY <1>1, <1>3, <1>4 DEF AppInvariant, StateIsOnItsWay, GoesOn

LEMMA NewIntentKeeps ==
    ASSUME AppInvariant, NEW url \in Url, NewIntent(url)
    PROVE  AppInvariant'
<1>. DEFINE a == [act EXCEPT !.intent = url, !.state = "shown", !.called = TRUE]
            call == [op |-> "setInviteUrl", url |-> url]
<1>1. phone' \in Phone
  <2>. DEFINE task == [phone.task EXCEPT !.last = url]
  <2>1. task \in Task
    BY StateIsTyped DEF Phone, Task, Invitation
  <2>2. phone' = [phone EXCEPT !.task = task, !.invites = @ + 1]
    BY StateIsTyped DEF NewIntent, Phone
  <2>3. phone \in Phone /\ phone.invites + 1 \in Nat
    BY StateIsTyped DEF Phone
  <2>. HIDE DEF task
  <2>. QED
    BY <2>1, <2>2, <2>3 DEF Phone
<1>2. a \in Activity /\ a.queue = act.queue /\ a.from = act.from /\ a.called
  BY DEF AppInvariant, AppSound, AppTypeOK, Activity, Invitation
<1>3. call \in Call /\ ~IsRestore(call)
  BY DEF Call, IsRestore
<1>4. act' = Queue(a, call) /\ UNCHANGED <<native, game, server>>
  BY DEF NewIntent, Invite
<1>. HIDE DEF a, call
<1>. QED
  BY <1>1, <1>2, <1>3, <1>4, QueueKeeps

LEMMA NameEnteredKeeps == AppInvariant /\ NameEntered => AppInvariant'
<1>. SUFFICES ASSUME AppInvariant, NameEntered PROVE AppInvariant'
  OBVIOUS
<1>. DEFINE call == [op |-> "setPlayerName"]
<1>1. phone' \in Phone /\ act \in Activity
  BY DEF AppInvariant, AppSound, AppTypeOK, NameEntered, Phone
<1>2. call \in Call /\ ~IsRestore(call)
  BY DEF Call, IsRestore
<1>3. act' = Queue(act, call) /\ game # None /\ UNCHANGED <<native, game, server>>
  BY DEF NameEntered
<1>. HIDE DEF call
<1>. QED
  BY <1>1, <1>2, <1>3, QueueKeeps

\* The render thread takes the next call from the queue.
LEMMA RunQueuedKeeps == AppInvariant /\ RunQueued => AppInvariant'
<1>. SUFFICES ASSUME AppInvariant, RunQueued PROVE AppInvariant'
  OBVIOUS
<1>. DEFINE call == Head(act.queue)
<1>1. /\ call \in Call /\ call = act.queue[1]
      /\ Len(act.queue) \in Nat \ {0}
      /\ Tail(act.queue) \in Seq(Call)
      /\ Len(Tail(act.queue)) = Len(act.queue) - 1
      /\ \A i \in 1..Len(Tail(act.queue)) : Tail(act.queue)[i] = act.queue[i + 1]
  BY StateIsTyped, HeadTailProperties, EmptySeq DEF RunQueued
<1>2. act \in Activity /\ act' = [act EXCEPT !.queue = Tail(@)]
  BY StateIsTyped DEF RunQueued
<1>3. /\ act' \in Activity /\ act'.queue = Tail(act.queue)
      /\ UNCHANGED <<act.state, act.intent, act.from, act.called>>
  BY <1>1, <1>2 DEF Activity
<1>4. UNCHANGED <<phone, server>> /\ phone \in Phone /\ native \in Native
  BY StateIsTyped DEF RunQueued
<1>5. /\ \A i \in 1..Len(act'.queue) : act'.queue[i] = act.queue[i + 1]
      /\ \A i \in 1..Len(act'.queue) : i + 1 \in 1..Len(act.queue)
      /\ Len(act'.queue) + 1 = Len(act.queue)
      /\ 1 \in 1..Len(act.queue)
  BY <1>1, <1>3
<1>6. Done(call)
  BY DEF RunQueued
<1>. HIDE DEF call
\* What each call does to the native data and to the game.
<1>7. CASE call.op = "setFirstRun"
  <2>1. /\ native' \in Native /\ native'.state = native.state /\ native'.conv = native.conv
        /\ UNCHANGED game
    BY <1>4, <1>6, <1>7 DEF Done, Native
  <2>2. AppSound'
    BY <1>3, <1>4, <2>1
       DEF AppInvariant, AppSound, AppTypeOK, NameIsAsked, NameIsKnown, HasConfiguration
  <2>3. FromNothing'
    BY <1>3, <1>5, <2>1 DEF AppInvariant, FromNothing
  <2>4. StateIsOnItsWay'
    <3>. SUFFICES ASSUME GoesOn'
                  PROVE  LET restore == [op |-> "setInstanceState", state |-> act.from.state]
                             n == Len(act'.queue)
                         IN  /\ native.conv = None
                             /\ \A i \in 1..n : \/ act'.queue[i].op = "setFirstRun"
                                                 \/ act'.queue[i] = restore
                             /\ \/ native.state = act.from.state
                                \/ n > 0 /\ act'.queue[n] = restore
      BY <1>3, <2>1 DEF StateIsOnItsWay
    <3>. DEFINE restore == [op |-> "setInstanceState", state |-> act.from.state]
    <3>1. GoesOn
      BY <1>3, <2>1 DEF GoesOn
    <3>2. /\ native.conv = None
          /\ \A i \in 1..Len(act.queue) :
               act.queue[i].op = "setFirstRun" \/ act.queue[i] = restore
          /\ \/ native.state = act.from.state
             \/ Len(act.queue) > 0 /\ act.queue[Len(act.queue)] = restore
      BY <3>1 DEF AppInvariant, StateIsOnItsWay
    <3>3. call # restore
      BY <1>7
    <3>. HIDE DEF restore
    <3>4. \/ native.state = act.from.state
          \/ Len(act'.queue) > 0 /\ act'.queue[Len(act'.queue)] = restore
      <4>1. CASE native.state = act.from.state
        BY <4>1
      <4>2. CASE Len(act.queue) > 0 /\ act.queue[Len(act.queue)] = restore
        <5>1. Len(act.queue) > 1
          BY <1>1, <3>3, <4>2
        <5>2. Len(act'.queue) \in 1..Len(act'.queue)
          BY <1>1, <1>3, <5>1
        <5>. QED
          BY <1>5, <4>2, <5>2
      <4>. QED
        BY <3>2, <4>1, <4>2
    <3>5. \A i \in 1..Len(act'.queue) :
            act'.queue[i].op = "setFirstRun" \/ act'.queue[i] = restore
      BY <1>5, <3>2
    <3>. QED
      BY <3>2, <3>4, <3>5 DEF restore
  <2>. QED
    BY <2>2, <2>3, <2>4 DEF AppInvariant
<1>8. CASE call.op = "setInstanceState"
  <2>1. call.state \in InstanceState
    BY <1>1, <1>8 DEF Call
  <2>2. /\ native' \in Native /\ native'.state = call.state /\ native'.conv = native.conv
        /\ UNCHANGED game
    BY <1>4, <1>6, <1>8, <2>1 DEF Done, Native
  <2>3. AppSound'
    BY <1>3, <1>4, <2>2
       DEF AppInvariant, AppSound, AppTypeOK, NameIsAsked, NameIsKnown, HasConfiguration
  <2>4. FromNothing'
    <3>1. IsRestore(act.queue[1])
      BY <1>1, <1>8 DEF IsRestore
    <3>2. act.from # None
      BY <1>5, <3>1 DEF AppInvariant, FromNothing
    <3>. QED
      BY <1>3, <3>2 DEF FromNothing
  <2>5. StateIsOnItsWay'
    <3>. DEFINE restore == [op |-> "setInstanceState", state |-> act.from.state]
    <3>. SUFFICES ASSUME GoesOn'
                  PROVE  /\ native'.conv = None /\ native'.state = act.from.state
                         /\ \A i \in 1..Len(act'.queue) :
                              act'.queue[i].op = "setFirstRun" \/ act'.queue[i] = restore
      BY <1>3 DEF StateIsOnItsWay
    <3>1. GoesOn
      BY <1>3, <2>2 DEF GoesOn
    <3>2. /\ native.conv = None
          /\ \A i \in 1..Len(act.queue) :
               act.queue[i].op = "setFirstRun" \/ act.queue[i] = restore
      BY <3>1 DEF AppInvariant, StateIsOnItsWay
    <3>3. call = restore
      BY <1>1, <1>5, <1>8, <3>2
    <3>. QED
      BY <1>5, <2>2, <3>2, <3>3
  <2>. QED
    BY <2>3, <2>4, <2>5 DEF AppInvariant
\* The other two leave what is to be restored as it is, and are not in a queue that is
\* to restore something, or come when there is a game.
<1>9. ASSUME call.op \in {"setInviteUrl", "setPlayerName"},
             native' \in Native, UNCHANGED native.state,
             game = None => game' = None,
             game # None => /\ GameSound(game')
                            /\ ~game'.hasName => game'.dialog # "none"
      PROVE  AppInvariant'
  <2>1. game = None \/ game' # None
    BY <1>9, NoneAssumption DEF GameSound
  <2>2. AppSound'
    <3>1. CASE game = None
      BY <1>3, <1>4, <1>9, <3>1
         DEF AppInvariant, AppSound, AppTypeOK, NameIsAsked, NameIsKnown
    <3>2. CASE game # None
      BY <1>3, <1>4, <1>9, <2>1, <3>2
         DEF AppInvariant, AppSound, AppTypeOK, NameIsAsked, NameIsKnown, GameSound
    <3>. QED
      BY <3>1, <3>2
  <2>3. FromNothing'
    BY <1>3, <1>5, <1>9 DEF AppInvariant, FromNothing
  <2>4. ~GoesOn'
    <3>1. GoesOn' => GoesOn
      BY <1>3, <2>1 DEF GoesOn
    <3>2. ~(act.queue[1].op = "setFirstRun"
              \/ act.queue[1] = [op |-> "setInstanceState", state |-> act.from.state])
      BY <1>1, <1>9
    <3>. QED
      BY <1>5, <3>1, <3>2 DEF AppInvariant, StateIsOnItsWay
  <2>. QED
    BY <2>2, <2>3, <2>4 DEF AppInvariant, StateIsOnItsWay
<1>10. CASE call.op = "setInviteUrl"
  <2>1. call.url \in Url
    BY <1>1, <1>10 DEF Call
  <2>2. native' = [native EXCEPT !.conv = call.url]
    BY <1>6, <1>10 DEF Done
  <2>3. game' = IF game = None THEN None ELSE Reset(game, call.url)
    BY <1>6, <1>10 DEF Done
  <2>4. native' \in Native /\ UNCHANGED native.state
    BY <1>4, <2>1, <2>2 DEF Native, Invitation
  <2>5. game # None => GameSound(game') /\ game'.dialog = "name"
    BY <2>1, <2>3, GameIsSound, ResetSound DEF Invitation
  <2>. QED
    BY <1>9, <1>10, <2>3, <2>4, <2>5
<1>11. CASE call.op = "setPlayerName"
  <2>1. UNCHANGED native
    BY <1>6, <1>11 DEF Done
  <2>. DEFINE g == [game EXCEPT !.name = TRUE, !.hasName = TRUE]
  <2>2. game' = IF game = None THEN None ELSE SetDialog(g, "invite")
    BY <1>6, <1>11 DEF Done
  <2>3. game # None => GameSound(g) /\ g.hasName
    BY GameIsSound DEF GameSound, Game, HasConfiguration
  <2>. HIDE DEF g
  <2>4. "invite" \in Dialogs
    BY DEF Dialogs
  <2>5. game # None => GameSound(SetDialog(g, "invite"))
    BY <2>3, <2>4, SetDialogSound
  <2>6. game # None => SetDialog(g, "invite").hasName
    BY <2>3, <2>4, SetDialogTyped DEF GameSound
  <2>. QED
    BY <1>4, <1>9, <1>11, <2>1, <2>2, <2>5, <2>6
<1>12. call.op \in {"setFirstRun", "setInstanceState", "setInviteUrl", "setPlayerName"}
  BY <1>1 DEF Call
<1>. QED
  BY <1>7, <1>8, <1>10, <1>11, <1>12

\* The first frame makes the game: from the saved state if there is one, and for
\* the conversation of the invitation if there is one.
LEMMA InitContextGame ==
    ASSUME AppInvariant, InitContext
    PROVE  /\ GameSound(game')
           /\ act.from = None => game'.dialog # "none"
           /\ game'.renewed => game'.dialog # "none"
           /\ /\ native.conv = None /\ native.state # None
              /\ native.state.id.type = "person"
              => game'.person = native.state.id.id /\ game'.hasName
<1>. DEFINE new == IF native.firstRun THEN SetDialog(NewGame, "guide") ELSE NewGame
            loaded == IF native.state = None THEN new ELSE Loaded(new, native.state)
<1>1. native \in Native
  BY StateIsTyped
<1>2. native.state \in InstanceState \cup {None} /\ native.conv \in Invitation
  BY <1>1 DEF Native
<1>3. GameSound(new) /\ ~new.joined /\ new.dialog # "none" /\ ~new.renewed
  <2>1. "guide" \in Dialogs /\ ~NewGame.renewed
    BY DEF Dialogs, NewGame
  <2>2. /\ GameSound(SetDialog(NewGame, "guide"))
        /\ ~SetDialog(NewGame, "guide").joined
        /\ SetDialog(NewGame, "guide").dialog = "guide"
        /\ ~SetDialog(NewGame, "guide").renewed
    BY <2>1, NewGameSound, SetDialogSound, SetDialogTyped DEF GameSound
  <2>. QED
    BY <2>1, <2>2, NewGameSound
<1>4. game' = IF native.conv = None THEN loaded ELSE Reset(loaded, native.conv)
  BY DEF InitContext
<1>. HIDE DEF new
<1>5. /\ GameSound(loaded) /\ ~loaded.renewed
      /\ native.state = None => loaded.dialog # "none"
      /\ native.state # None /\ native.state.id.type = "person"
           => loaded.person = native.state.id.id /\ loaded.hasName
  <2>1. CASE native.state = None
    BY <1>3, <2>1
  <2>2. CASE native.state # None
    BY <1>2, <1>3, <2>2, LoadedSound
  <2>. QED
    BY <2>1, <2>2
<1>. HIDE DEF loaded
<1>6. act.from = None => native.state = None
  BY DEF AppInvariant, FromNothing
<1>7. CASE native.conv = None
  BY <1>4, <1>5, <1>6, <1>7
<1>8. CASE native.conv # None
  <2>1. GameSound(game') /\ game'.dialog = "name"
    BY <1>2, <1>4, <1>5, <1>8, ResetSound
  <2>. QED
    BY <1>8, <2>1
<1>. QED
  BY <1>7, <1>8

LEMMA InitContextKeeps == AppInvariant /\ InitContext => AppInvariant'
<1>. SUFFICES ASSUME AppInvariant, InitContext PROVE AppInvariant'
  OBVIOUS
<1>1. /\ GameSound(game')
      /\ game'.renewed \/ act.from = None => game'.dialog # "none"
  BY InitContextGame
<1>2. UNCHANGED <<phone, act, server>> /\ native' = [native EXCEPT !.state = None]
  BY DEF InitContext
<1>3. native' \in Native /\ native'.state = None
  BY <1>2, StateIsTyped DEF Native
<1>4. game' # None
  BY <1>1, NoneAssumption DEF GameSound
<1>5. AppSound'
  BY <1>1, <1>2, <1>3, <1>4
     DEF AppInvariant, AppSound, AppTypeOK, NameIsAsked, NameIsKnown, GameSound
<1>6. FromNothing'
  BY <1>2, <1>3 DEF AppInvariant, FromNothing
<1>. QED
  BY <1>4, <1>5, <1>6 DEF AppInvariant, StateIsOnItsWay, GoesOn

-----------------------------------------------------------------------------
(* The player's steps, and those of the worker and the server.             *)

LEMMA CloseDialogSound ==
    ASSUME NEW g, GameSound(g)
    PROVE  /\ GameSound(CloseDialog(g))
           /\ ~CloseDialog(g).hasName => CloseDialog(g).dialog = "name"
<1>1. {"none", "name"} \subseteq Dialogs
  BY DEF Dialogs
<1>2. CASE g.hasName
  <2>1. CloseDialog(g) = SetDialog(g, "none") /\ "none" \in Dialogs
    BY <1>1, <1>2 DEF CloseDialog
  <2>2. GameSound(SetDialog(g, "none")) /\ SetDialog(g, "none").hasName
    BY <1>2, <2>1, SetDialogSound, SetDialogTyped DEF GameSound
  <2>. QED
    BY <2>1, <2>2
<1>3. CASE ~g.hasName
  <2>1. CloseDialog(g) = SetDialog(g, "name") /\ "name" \in Dialogs
    BY <1>1, <1>3 DEF CloseDialog
  <2>2. GameSound(SetDialog(g, "name")) /\ SetDialog(g, "name").dialog = "name"
    BY <2>1, SetDialogSound, SetDialogTyped DEF GameSound
  <2>. QED
    BY <2>1, <2>2
<1>. QED
  BY <1>2, <1>3

\* A click opens a dialog, turns a page or closes a dialog.
LEMMA ClickKeeps ==
    ASSUME AppInvariant, NEW from, NEW next, Click(from, next),
           game # None => /\ GameSound(next)
                          /\ ~next.hasName => next.dialog # "none"
    PROVE  AppInvariant'
BY GameIsSound, GameStepKeeps DEF Click

LEMMA OpenSound ==
    ASSUME NEW g, GameSound(g), NEW dialog \in Dialogs \ {"none"}
    PROVE  GameSound(SetDialog(g, dialog)) /\ SetDialog(g, dialog).dialog # "none"
BY SetDialogSound, SetDialogTyped DEF GameSound

LEMMA ClicksKeep ==
    /\ AppInvariant
    /\ \/ ClickBeside \/ ClickInGuide \/ ClickCopyright
       \/ ClickMenuButton \/ ClickInMenu \/ ClickLanguage
    => AppInvariant'
<1>. SUFFICES ASSUME AppInvariant,
                     \/ ClickBeside \/ ClickInGuide \/ ClickCopyright
                     \/ ClickMenuButton \/ ClickInMenu \/ ClickLanguage
              PROVE  AppInvariant'
  OBVIOUS
<1>1. {"menu", "invite", "language", "guide", "copyright"} \subseteq Dialogs \ {"none"}
  BY DEF Dialogs
<1>2. ASSUME NEW from, NEW dialog \in Dialogs \ {"none"},
             Click(from, SetDialog(game, dialog))
      PROVE  AppInvariant'
  <2>1. game # None => GameSound(game)
    BY GameIsSound
  <2>2. game # None => GameSound(SetDialog(game, dialog)) /\ SetDialog(game, dialog).dialog # "none"
    BY <2>1, OpenSound
  <2>. QED
    BY <1>2, <2>2, ClickKeeps
<1>3. CASE ClickBeside
  <2>1. PICK from : Click(from, CloseDialog(game))
    BY <1>3 DEF ClickBeside
  <2>2. game # None => GameSound(game)
    BY GameIsSound
  <2>3. game # None => /\ GameSound(CloseDialog(game))
                       /\ ~CloseDialog(game).hasName => CloseDialog(game).dialog = "name"
    BY <2>2, CloseDialogSound
  <2>. QED
    BY <2>1, <2>3, ClickKeeps
<1>4. CASE ClickInGuide
  <2>1. PICK page \in 0..LastPage : Click("guide", SetPage(game, page))
    BY <1>4 DEF ClickInGuide
  <2>2. game # None /\ game.dialog = "guide" /\ GameSound(game)
    BY <2>1, GameIsSound DEF Click
  <2>3. GameSound(SetPage(game, page)) /\ SetPage(game, page).dialog = "guide"
    BY <2>2, SetPageSound, SetPageTyped DEF GameSound
  <2>. QED
    BY <2>1, <2>3, ClickKeeps
<1>5. CASE ClickCopyright
  BY <1>1, <1>2, <1>5 DEF ClickCopyright
<1>6. CASE ClickMenuButton
  BY <1>1, <1>2, <1>6 DEF ClickMenuButton
<1>7. CASE ClickInMenu
  <2>1. CASE \E dialog \in {"language", "invite"} : Click("menu", SetDialog(game, dialog))
    BY <1>1, <1>2, <2>1
  <2>2. CASE Click("menu", SetDialog(SetPage(game, 0), "guide"))
    <3>1. game # None => GameSound(SetPage(game, 0))
      BY GameIsSound, SetPageSound, PageZero
    <3>. DEFINE g == SetPage(game, 0)
    <3>. HIDE DEF g
    <3>2. game # None => GameSound(SetDialog(g, "guide")) /\ SetDialog(g, "guide").dialog # "none"
      BY <1>1, <3>1, OpenSound DEF g
    <3>. QED
      BY <2>2, <3>2, ClickKeeps DEF g
  <2>. QED
    BY <1>7, <2>1, <2>2 DEF ClickInMenu
<1>8. CASE ClickLanguage
  BY <1>1, <1>2, <1>8 DEF ClickLanguage
<1>. QED
  BY <1>3, <1>4, <1>5, <1>6, <1>7, <1>8

\* The game ends, and the game state hears of it.
LEMMA EndingKeeps ==
    ASSUME AppInvariant, game # None, UNCHANGED <<phone, act, native>>,
           NEW ending \in {"heard", "resetting"}, game' = [game EXCEPT !.ending = ending],
           server' = server \/ server' = [server EXCEPT !.persons = @ \ {game.person}]
    PROVE  AppInvariant'
<1>1. GameSound(game')
  BY GameIsSound DEF GameSound, Game, HasConfiguration
<1>2. UNCHANGED <<game.hasName, game.renewed, game.dialog>>
  BY GameIsSound DEF GameSound, Game
<1>3. /\ server' \in [made : Nat, persons : SUBSET Nat]
      /\ server'.persons \subseteq 1..server'.made
  BY GameIsSound
<1>. QED
  BY <1>1, <1>2, <1>3, GameIsSound, GameStepKeeps

LEMMA ResetOnIdleKeeps == AppInvariant /\ ResetOnIdle => AppInvariant'
<1>. SUFFICES ASSUME AppInvariant, ResetOnIdle PROVE AppInvariant'
  OBVIOUS
<1>1. None \in Invitation
  BY DEF Invitation
<1>2. GameSound(game') /\ game'.dialog = "name"
  BY <1>1, GameIsSound, ResetSound DEF ResetOnIdle
<1>. QED
  BY <1>2, GameIsSound, GameStepKeeps DEF ResetOnIdle

\* The server lets the game in, and the game state notes its person.
LEMMA GetsInKeeps == AppInvariant /\ GetsIn => AppInvariant'
<1>. SUFFICES ASSUME AppInvariant, GetsIn PROVE AppInvariant'
  OBVIOUS
<1>1. game # None /\ HasConfiguration(game) /\ UNCHANGED <<phone, act, native>>
  BY DEF GetsIn
<1>2. /\ GameSound(game) /\ game.hasName
      /\ server \in [made : Nat, persons : SUBSET Nat]
      /\ server.persons \subseteq 1..server.made
  BY <1>1, GameIsSound DEF GameSound
<1>3. ASSUME NEW person \in Nat, Joins(person)
      PROVE  GameSound(game') /\ game'.hasName
  <2>. DEFINE saved == [game.saved EXCEPT !.id = [type |-> "person", id |-> person]]
  <2>1. [type |-> "person", id |-> person] \in Owner
    BY OwnerTyped
  <2>2. /\ saved \in InstanceState
        /\ saved.id = [type |-> "person", id |-> person]
        /\ saved.dialog = game.saved.dialog /\ saved.page = game.saved.page
    BY <1>2, <2>1 DEF GameSound, Game, InstanceState
  <2>3. game \in Game
    BY <1>2 DEF GameSound
  <2>4. game' = [game EXCEPT !.joined = TRUE, !.person = person, !.saved = saved]
    BY <1>3, <2>3 DEF Joins, Game
  <2>. HIDE DEF saved
  <2>5. game' \in Game
    BY <2>2, <2>3, <2>4 DEF Game
  <2>6. /\ game'.saved = saved /\ game'.person = person
        /\ UNCHANGED <<game.dialog, game.page, game.hasName, game.name>>
    BY <2>3, <2>4 DEF Game
  <2>7. person # None
    BY NoneAssumption
  <2>. QED
    BY <1>2, <2>2, <2>5, <2>6, <2>7 DEF GameSound, HasConfiguration
<1>4. CASE game.person # None
  <2>1. game.person \in Nat
    BY <1>2, <1>4 DEF GameSound, Game
  <2>2. Joins(game.person) /\ UNCHANGED server
    BY <1>4 DEF GetsIn
  <2>. QED
    BY <1>1, <1>2, <1>3, <2>1, <2>2, GameStepKeeps
<1>5. CASE game.person = None
  <2>1. /\ Joins(server.made + 1)
        /\ server' = [made |-> server.made + 1,
                      persons |-> server.persons \cup {server.made + 1}]
    BY <1>5 DEF GetsIn
  <2>2. server.made \in Nat
    BY <1>2
  <2>3. /\ server' \in [made : Nat, persons : SUBSET Nat]
        /\ server'.persons \subseteq 1..server'.made
    BY <1>2, <2>1, <2>2
  <2>. QED
    BY <1>1, <1>3, <2>1, <2>2, <2>3, GameStepKeeps
<1>. QED
  BY <1>4, <1>5

LEMMA ForgetsKeeps == AppInvariant /\ Forgets => AppInvariant'
<1>. SUFFICES ASSUME AppInvariant, Forgets PROVE AppInvariant'
  OBVIOUS
<1>1. /\ server' \in [made : Nat, persons : SUBSET Nat]
      /\ server'.persons \subseteq 1..server'.made
  BY DEF AppInvariant, AppSound, AppTypeOK, Forgets
<1>2. UNCHANGED <<phone, act, native, game>>
  BY DEF Forgets
<1>. QED
  BY <1>1, <1>2
     DEF AppInvariant, AppSound, AppTypeOK, NameIsAsked, NameIsKnown, HasConfiguration,
         FromNothing, StateIsOnItsWay, GoesOn, IsRestore

-----------------------------------------------------------------------------
LEMMA AppStep == AppInvariant /\ [Next]_vars => AppInvariant'
<1>. SUFFICES ASSUME AppInvariant, [Next]_vars PROVE AppInvariant'
  OBVIOUS
<1>1. CASE Android
  <2>1. Url \subseteq Invitation /\ Url \cup {None} = Invitation
    BY DEF Invitation
  <2>. QED
    BY <1>1, <2>1, LaunchKeeps, NewIntentKeeps, StopKeeps, TurnedKeeps, EndKeeps,
       RevivedKeeps DEF Android
<1>2. CASE RunQueued \/ InitContext
  BY <1>2, RunQueuedKeeps, InitContextKeeps
<1>3. CASE Player
  <2>1. CASE ClickLeave
    BY <2>1, EndingKeeps DEF ClickLeave
  <2>. QED
    BY <1>3, <2>1, NameEnteredKeeps, ClicksKeep DEF Player
<1>4. CASE FlushQueue \/ Refused
  BY <1>4, EndingKeeps DEF FlushQueue, Refused
<1>5. CASE ResetOnIdle \/ GetsIn \/ Forgets
  BY <1>5, ResetOnIdleKeeps, GetsInKeeps, ForgetsKeeps
<1>6. CASE UNCHANGED vars
  BY <1>6 DEF vars, AppInvariant, AppSound, AppTypeOK, NameIsAsked, NameIsKnown,
              HasConfiguration, FromNothing, StateIsOnItsWay, GoesOn, IsRestore
<1>. QED
  BY <1>1, <1>2, <1>3, <1>4, <1>5, <1>6 DEF Next

LEMMA AppInvariantHolds == Spec => []AppInvariant
<1>. QED
  BY AppInitially, AppStep, PTL DEF Spec

\* However often the activity is made, stopped, killed and made anew, and
\* whatever invitations come in between: what a save would write is what the
\* player sees, the game knows whether it has a name, and whoever has none is
\* asked for it (vsx-jni.c, vsx-game-state.c, GameActivity.java).
THEOREM AppIsSound == Spec => []AppSound
<1>1. AppInvariant => AppSound
  BY DEF AppInvariant
<1>. QED
  BY <1>1, AppInvariantHolds, PTL

\* A game that was saved with its person begins as that person in the next life
\* of the activity: the saved state is the last thing in the queue of the new
\* activity, or has been handed over, until the first frame makes the game from
\* it (onCreate of GameActivity.java, initContext of vsx-jni.c).
THEOREM SeatIsKeptHolds == Spec => SeatIsKept
<1>. DEFINE Kept == /\ game = None /\ game' # None
                    /\ act.from # None /\ act.from.state # None
                    /\ act.from.state.id.type = "person"
                    /\ act.intent \in {None, act.from.url} /\ ~act.called
                    => game'.person = act.from.state.id.id /\ game'.hasName
<1>1. AppInvariant /\ [Next]_vars => [Kept]_vars
  <2>. SUFFICES ASSUME AppInvariant, Next, game = None, game' # None,
                       act.from # None, act.from.state # None,
                       act.from.state.id.type = "person",
                       act.intent \in {None, act.from.url}, ~act.called
                PROVE  game'.person = act.from.state.id.id /\ game'.hasName
    OBVIOUS
  <2>1. InitContext
    <3>1. ~RunQueued
      <4>. SUFFICES ASSUME RunQueued PROVE FALSE
        OBVIOUS
      <4>1. Head(act.queue) \in Call
        BY StateIsTyped, HeadTailProperties DEF RunQueued
      <4>2. Done(Head(act.queue))
        BY DEF RunQueued
      <4>. QED
        BY <4>1, <4>2 DEF Done, Call
    <3>2. ~Android
      BY DEF Android, Launch, NewIntent, Stop, Restart, Turned, Killed, Revived, Finished, Create
    <3>3. ~Player
      BY DEF Player, NameEntered, ClickBeside, ClickInGuide, ClickCopyright, ClickMenuButton,
             ClickInMenu, ClickLanguage, ClickLeave, Click
    <3>. QED
      BY <3>1, <3>2, <3>3 DEF Next, FlushQueue, ResetOnIdle, GetsIn, Refused, Forgets
  <2>2. native.conv = None /\ native.state = act.from.state
    <3>1. GoesOn
      BY DEF GoesOn
    <3>2. Len(act.queue) = 0
      BY <2>1 DEF InitContext
    <3>. QED
      BY <3>1, <3>2 DEF AppInvariant, StateIsOnItsWay
  <2>. QED
    BY <2>1, <2>2, InitContextGame
<1>2. SeatIsKept <=> [][Kept]_vars
  BY DEF SeatIsKept
<1>. QED
  BY <1>1, <1>2, AppInvariantHolds, PTL DEF Spec
=============================================================================
