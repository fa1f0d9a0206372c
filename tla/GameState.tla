----------------------------- MODULE GameState -----------------------------
(***************************************************************************)
(* The client's copy of the game (src/client/vsx-game-state.c) as the      *)
(* drawing code sees it: the facts that can be asked for, the dialog, and  *)
(* for each handler the facts it changes and the events it emits.  The     *)
(* game is a record; a handler is an operator from the game to the game    *)
(* after it, with the types of the events it emitted in the field `out`.   *)
(* There is one other player; the player themself is Self.                 *)
(***************************************************************************)
EXTENDS Integers

Nobody == "nobody"
Self == "self"
Other == "other"
NoId == "no id"
NoText == "no text"

Dialogs == {"NONE", "NAME", "MENU", "INVITE_LINK", "LANGUAGE", "GUIDE",
            "COPYRIGHT"}

Flags == {"CONNECTED", "NEXT_TURN"}

Pages == 0..7

(* A new game state: no name, no connection, the name dialog is open.      *)
NewGame(language) ==
  [language |-> language, nTiles |-> 0, length |-> 0,
   conversation |-> NoId, start |-> "NEW_GAME", dialog |-> "NAME", page |-> 0,
   hasName |-> FALSE, hasPerson |-> FALSE, connected |-> FALSE,
   name |-> NoText, flags |-> {}, shouter |-> Nobody,
   said |-> NoText, shoutTimer |-> FALSE, reset |-> FALSE, out |-> {}]

Emit(g, events) == [g EXCEPT !.out = @ \cup events]

(* Most setters do nothing when the value is the old one.                  *)
Assign(g, fact, value, events) ==
  IF g[fact] = value THEN g ELSE Emit([g EXCEPT ![fact] = value], events)

SetConnected(g, value) == Assign(g, "connected", value, {"CONNECTED"})
SetConversation(g, id) == Assign(g, "conversation", id, {"CONVERSATION_ID"})
SetHasName(g, value) == Assign(g, "hasName", value, {"HAS_PLAYER_NAME"})
SetStart(g, type) == Assign(g, "start", type, {"START_TYPE"})
SetDialog(g, dialog) == Assign(g, "dialog", dialog, {"DIALOG"})
SetPage(g, page) == Assign(g, "page", page, {"PAGE"})

CloseDialog(g) == SetDialog(g, IF g.hasName THEN "NONE" ELSE "NAME")

(* A note is only an event, which carries the text.                        *)
SetNote(g, text) == Emit([g EXCEPT !.said = text], {"NOTE"})

RemainingTiles(g) == g.nTiles - g.length

Started(g) == g.length > 0

(*************************** what the server says **************************)
HandleHeader(g) == SetConnected([g EXCEPT !.hasPerson = TRUE], TRUE)

HandleConversationId(g, id) == SetConversation(g, id)

HandlePlayerName(g, name) == Emit([g EXCEPT !.name = name], {"PLAYER_NAME"})

(* Somebody who comes or goes is announced, but not while the state of the *)
(* game is still being sent and not before the player's name is known.     *)
PlayerNote(g) ==
  IF g.name = NoText THEN g
  ELSE SetNote(g, IF "CONNECTED" \in g.flags THEN "joined" ELSE "left")

HandlePlayerFlags(g, flags, synced) ==
  LET new == [g EXCEPT !.flags = flags]
      cameOrWent == ("CONNECTED" \in flags) # ("CONNECTED" \in g.flags)
  IN  IF flags = g.flags THEN g
      ELSE Emit(IF synced /\ cameOrWent THEN PlayerNote(new) ELSE new,
                {"PLAYER_FLAGS"})

(* The timeout is set again by every shout, also by one of the player who  *)
(* is shown as shouting already.                                           *)
HandleShout(g, player) ==
  Assign([g EXCEPT !.shoutTimer = TRUE], "shouter", player,
         {"SHOUTING_PLAYER"})

RemoveShout(g) ==
  IF g.shouter = Nobody THEN g
  ELSE Assign([g EXCEPT !.shoutTimer = FALSE], "shouter", Nobody,
              {"SHOUTING_PLAYER"})

(* The first tile closes the invitation.                                   *)
HandleTile(g, new) ==
  LET placed == [g EXCEPT !.length = IF new THEN @ + 1 ELSE @]
      closed == IF g.length = 0 /\ g.dialog = "INVITE_LINK"
                THEN CloseDialog(placed) ELSE placed
  IN  IF new THEN Emit(closed, {"REMAINING_TILES"}) ELSE closed

HandleNTiles(g, n) == Assign(g, "nTiles", n, {"N_TILES", "REMAINING_TILES"})

HandleLanguage(g, language) == Assign(g, "language", language, {"LANGUAGE"})

HandleError(g, isJoinError) ==
  LET lost == SetConnected(g, FALSE)
  IN  IF isJoinError THEN SetNote([lost EXCEPT !.reset = TRUE], "bad game")
      ELSE lost

HandleEnd(g) == [g EXCEPT !.reset = TRUE]

(****************************** the whole game *****************************)
ResetPlayers(g) ==
  LET unnamed == IF g.name = NoText THEN g
                 ELSE Emit([g EXCEPT !.name = NoText], {"PLAYER_NAME"})
  IN  Assign(unnamed, "flags", {}, {"PLAYER_FLAGS"})

ResetTiles(g) == Assign(g, "length", 0, {"REMAINING_TILES"})

(* The language and the number of tiles of the old game are kept.          *)
Reset(g, id) ==
  LET asked == ResetPlayers(SetConversation(
                 RemoveShout(SetHasName([g EXCEPT !.reset = FALSE,
                                                 !.hasPerson = FALSE], FALSE)),
                 id))
      start == IF id = NoId THEN "NEW_GAME" ELSE "JOIN_GAME"
  IN  Emit(SetConnected(ResetTiles(SetStart(SetDialog(asked, "NAME"), start)),
                        FALSE),
           {"RESET"})

(* A state that was saved names a person, a conversation or nothing.       *)
LoadState(g, saved) ==
  LET named == IF saved.id = "PERSON"
               THEN SetHasName([g EXCEPT !.hasPerson = TRUE], TRUE) ELSE g
      start == IF saved.id = "CONVERSATION" THEN "JOIN_GAME" ELSE "NEW_GAME"
  IN  SetPage(SetDialog(SetStart(named, start), saved.dialog), saved.page)

(* What is remembered of the game for the next run.                        *)
SavedState(g) ==
  [id |-> IF g.hasPerson THEN "PERSON"
          ELSE IF g.start = "JOIN_GAME" THEN "CONVERSATION" ELSE "NONE",
   dialog |-> g.dialog, page |-> g.page]

(* What the shell does with the name that the player has typed in.         *)
NameEntered(g) == SetDialog(SetHasName(g, TRUE), "INVITE_LINK")
=============================================================================
