--------------------------- MODULE WebClientProofs ---------------------------
(***************************************************************************)
(* What the run of MCWebClient checks for two failures and two messages    *)
(* holds for any number of failures, places, messages and lost connections *)
(* and whatever the players do: the timers and sockets of the page are     *)
(* those its state calls for, the server knows of the typing, and who only *)
(* watches sees the tile where it is.                                      *)
(***************************************************************************)
EXTENDS WebClient, SequenceTheorems, TLAPS

-----------------------------------------------------------------------------
(* The types.                                                              *)

Spot == Place \cup {Nowhere}
Who == {NoOne, Me, Other}
BadKinds == {"END", "BAD_PLAYER_ID", "BAD_CONVERSATION_ID", "CONVERSATION_FULL"}
Kinds == {"PLAYER_ID", "PLAYER_SHOUTED", "TILE", "MESSAGE", "SYNC"} \cup BadKinds

Page ==
    [state : {"welcome", "connecting", "in-progress", "error", "unloaded"},
     sock : {"none", "connecting", "open"}, wait : BOOLEAN, failures : Nat,
     keepAlive : BOOLEAN, person : BOOLEAN, synced : BOOLEAN, shown : Seq(Nat),
     at : Spot, drawn : Spot, drag : {"none", "held", "moved"}, dirty : BOOLEAN,
     resend : BOOLEAN, drags : Nat, text : BOOLEAN, typing : BOOLEAN,
     shouting : Who, shoutTimer : BOOLEAN, threw : BOOLEAN]

Headers == {"RECONNECT", "JOIN_GAME", "NEW_PLAYER"}
Command ==
    [kind : {"RECONNECT"}, value : Nat]
      \cup [kind : {"JOIN_GAME", "NEW_PLAYER", "KEEP_ALIVE", "TURN", "SEND_MESSAGE",
                    "SHOUT", "LEAVE"}]
      \cup [kind : {"MOVE_TILE"}, value : Place]
      \cup [kind : {"TYPING"}, value : BOOLEAN]

Telling ==
    [kind : {"TILE"}, value : [at : Place, by : Who]]
      \cup [kind : {"PLAYER_SHOUTED"}, value : {Me, Other}]
      \cup [kind : {"MESSAGE"}, value : Nat]
      \cup [kind : {"PLAYER_ID", "SYNC"} \cup BadKinds, value : {0}]

Net == [state : {"none", "connecting", "up", "broken"}, up : Seq(Command),
        buffered : Nat, down : Seq(Telling), breaks : Nat]

Server == [person : {"none", "known", "gone"}, offset : Nat, next : Nat,
           conn : {"none", "new", "open"}, todo : SUBSET Kinds, said : Nat,
           tile : [at : Spot, by : Who], shouting : Who, typing : BOOLEAN]

-----------------------------------------------------------------------------
(* The strengthening.                                                      *)

\* The timers and the socket of the page are those of its state.
PageSound(p) ==
    /\ p \in Page
    /\ p.failures <= MaxFailures /\ (p.state # "error" => p.failures < MaxFailures)
    /\ p.state = "connecting" => (p.wait <=> p.sock = "none")
    /\ p.state \in {"welcome", "error", "unloaded"} => ~p.wait /\ p.sock = "none"
    /\ p.state = "in-progress" => p.sock = "open" /\ ~p.wait
    /\ p.keepAlive => p.sock = "open"
    /\ p.resend => p.state = "in-progress" /\ p.dirty
    /\ p.dirty => p.at # Nowhere
    /\ p.drawn # Nowhere => p.at # Nowhere
    /\ p.shoutTimer <=> p.shouting # NoOne
    /\ p.text <=> p.typing
    /\ ~p.threw

\* A socket holds nothing unless it is up.
NetSound(n) ==
    /\ n \in Net
    /\ n.buffered <= Len(n.up) /\ Len(n.down) <= Cap
    /\ n.state # "up" => n.up = <<>> /\ n.down = <<>> /\ n.buffered = 0
    /\ n.state = "broken" => n.breaks > 0

\* What is due to be told is there.
ServerSound(s) ==
    /\ s \in Server
    /\ "TILE" \in s.todo => s.tile.at # Nowhere
    /\ "PLAYER_SHOUTED" \in s.todo => s.shouting # NoOne

\* The socket of the page, unless the page has gone.
SocketsAgree(p, n) ==
    /\ p.sock = "none" => n.state = "none" \/ (p.state = "unloaded" /\ n.state = "up")
    /\ p.sock = "connecting" => n.state \in {"connecting", "broken"}
    /\ p.sock = "open" => n.state \in {"up", "broken"}

\* The server serves a connection that is up, hears its header first and
\* tells nothing before.
HeaderFirst(n, s) ==
    /\ n.state = "up" <=> s.conn # "none"
    /\ s.conn = "new" => n.up # <<>> /\ n.up[1].kind \in Headers
    /\ \A i \in 1..Len(n.up) : n.up[i].kind \in Headers => i = 1 /\ s.conn = "new"
    /\ s.conn # "open" => n.down = <<>>

\* A page in the game has been heard.
InGameWhenHeard(p, s) == p.state = "in-progress" => s.conn # "new"

Linked(p, n, s) ==
    /\ PageSound(p) /\ NetSound(n) /\ ServerSound(s)
    /\ SocketsAgree(p, n) /\ HeaderFirst(n, s) /\ InGameWhenHeard(p, s)

\* What the last command about the typing says, or the server believes.
SaysTyping(c) == c.kind \in {"TYPING", "SEND_MESSAGE"}
TypingSaid(c) == c.kind = "TYPING" /\ c.value
Silent(q) == \A i \in 1..Len(q) : ~SaysTyping(q[i])
TypingTold(typing, q, believed) ==
    /\ Silent(q) => (believed <=> typing)
    /\ \A i \in 1..Len(q) :
         SaysTyping(q[i]) /\ (\A j \in (i + 1)..Len(q) : ~SaysTyping(q[j]))
           => (TypingSaid(q[i]) <=> typing)

\* Until the first connection breaks the server is told of the typing.
TypingFollows(p, n, s) ==
    n.breaks = 0 =>
      /\ p.state \in {"welcome", "connecting"} => ~p.typing /\ ~s.typing /\ Silent(n.up)
      /\ p.state = "in-progress" /\ s.person = "known" => TypingTold(p.typing, n.up, s.typing)

\* Nobody drags the tile on this page.
OnlyWatches(p, n, s) ==
    /\ p.drawn = p.at /\ p.drag = "none" /\ ~p.dirty /\ s.tile.by # Me
    /\ \A i \in 1..Len(n.up) : n.up[i].kind # "MOVE_TILE"
    /\ \A i \in 1..Len(n.down) : n.down[i].kind = "TILE" => n.down[i].value.by # Me

\* A tile never goes back into the bag.
NoTileYet(p, n, s) ==
    s.tile.at = Nowhere =>
      /\ p.at = Nowhere
      /\ \A i \in 1..Len(n.down) : n.down[i].kind # "TILE"

\* The place of the tile is due to be told, or is the last that is on its way
\* or was shown.
NoTileIn(q) == \A i \in 1..Len(q) : q[i].kind # "TILE"
LastTileAt(q, place) ==
    \E i \in 1..Len(q) : /\ q[i].kind = "TILE" /\ q[i].value.at = place
                         /\ \A j \in (i + 1)..Len(q) : q[j].kind # "TILE"
TileFresh(p, n, s) ==
    \/ "TILE" \in s.todo
    \/ LastTileAt(n.down, s.tile.at)
    \/ p.at = s.tile.at /\ NoTileIn(n.down)

\* The server has refused the page, which will not get into the game.
Refused(p, n, s) ==
    /\ p.state # "in-progress" /\ "PLAYER_ID" \notin s.todo
    /\ \A i \in 1..Len(n.down) : n.down[i].kind # "PLAYER_ID"

TileFollows(p, n, s) ==
    /\ OnlyWatches(p, n, s) /\ NoTileYet(p, n, s)
    /\ s.conn = "open" => TileFresh(p, n, s) \/ Refused(p, n, s)

Fits(p, n, s, watching) ==
    Linked(p, n, s) /\ TypingFollows(p, n, s) /\ (watching => TileFollows(p, n, s))

Watching == "DRAG" \notin play
WebInvariant == Fits(page, net, srv, Watching)

-----------------------------------------------------------------------------
(* The operators on the page.                                              *)

LEMMA DisconnectedSound ==
    ASSUME NEW p, PageSound(p)
    PROVE  /\ Disconnected(p) \in Page
           /\ Disconnected(p).sock = "none" /\ ~Disconnected(p).wait
           /\ ~Disconnected(p).keepAlive /\ ~Disconnected(p).resend
           /\ \A f \in {"state", "failures", "at", "drawn", "drag", "dirty", "text", "typing",
                        "shouting", "shoutTimer", "threw"} :
                Disconnected(p)[f] = p[f]
BY DEF Disconnected, PageSound, Page

LEMMA SendsSound ==
    ASSUME NEW p, PageSound(p), p.sock = "open"
    PROVE  /\ PageSound(Sends(p))
           /\ \A f \in {"state", "sock", "wait", "failures", "at", "drawn", "drag", "dirty",
                        "resend", "text", "typing", "shouting", "shoutTimer", "threw"} :
                Sends(p)[f] = p[f]
<1>. DEFINE q == Sends(p)
<1>1. p \in Page /\ p.threw = FALSE
  BY DEF PageSound, Page
<1>2. q = [p EXCEPT !.keepAlive = TRUE, !.threw = FALSE]
  BY <1>1 DEF Sends, Page
<1>. HIDE DEF q
<1>3. q \in Page
  BY <1>1, <1>2 DEF Page
<1>4. /\ q.threw = FALSE
      /\ \A f \in {"state", "sock", "wait", "failures", "at", "drawn", "drag", "dirty",
                   "resend", "text", "typing", "shouting", "shoutTimer"} : q[f] = p[f]
  BY <1>1, <1>2 DEF Page
<1>5. PageSound(q)
  BY <1>3, <1>4 DEF PageSound
<1>. QED
  BY <1>1, <1>4, <1>5 DEF q

LEMMA InErrorSound ==
    ASSUME NEW p, PageSound(p)
    PROVE  /\ PageSound(InError(p))
           /\ InError(p).state = "error" /\ InError(p).sock = "none"
           /\ \A f \in {"at", "drawn", "drag", "dirty", "text", "typing"} :
                InError(p)[f] = p[f]
<1>. DEFINE d == Disconnected(p)
<1>1. /\ d \in Page /\ d.sock = "none" /\ ~d.wait /\ ~d.keepAlive /\ ~d.resend
      /\ \A f \in {"state", "failures", "at", "drawn", "drag", "dirty", "text", "typing",
                   "shouting", "shoutTimer", "threw"} : d[f] = p[f]
  BY DisconnectedSound
<1>2. InError(p) = [d EXCEPT !.state = "error"]
  BY DEF InError
<1>. HIDE DEF d
<1>. DEFINE e == InError(p)
<1>3. e \in Page
  BY <1>1, <1>2 DEF Page
<1>4. /\ e.state = "error" /\ e.sock = "none" /\ ~e.wait /\ ~e.keepAlive /\ ~e.resend
      /\ \A f \in {"failures", "at", "drawn", "drag", "dirty", "text", "typing",
                   "shouting", "shoutTimer", "threw"} : e[f] = p[f]
  BY <1>1, <1>2 DEF Page
<1>. HIDE DEF e
<1>5. PageSound(e)
  BY <1>3, <1>4 DEF PageSound
<1>. QED
  BY <1>4, <1>5 DEF e

LEMMA AfterFailureSound ==
    ASSUME NEW p, PageSound(p), p.state # "error"
    PROVE  /\ PageSound(AfterFailure(p))
           /\ AfterFailure(p).state \in {"connecting", "error"}
           /\ AfterFailure(p).sock = "none"
           /\ \A f \in {"at", "drawn", "drag", "dirty", "text", "typing"} :
                AfterFailure(p)[f] = p[f]
<1>. DEFINE d == Disconnected(p)
            f == [d EXCEPT !.failures = @ + 1]
            e == Disconnected(f)
<1>1. /\ d \in Page /\ d.sock = "none" /\ ~d.wait /\ ~d.keepAlive /\ ~d.resend
      /\ \A k \in {"state", "failures", "at", "drawn", "drag", "dirty", "text", "typing",
                   "shouting", "shoutTimer", "threw"} : d[k] = p[k]
  BY DisconnectedSound
<1>2. AfterFailure(p) = IF f.failures >= MaxFailures THEN InError(f)
                        ELSE [f EXCEPT !.state = "connecting", !.wait = TRUE]
  BY DEF AfterFailure
<1>. HIDE DEF d
<1>3. /\ f \in Page /\ f.failures = p.failures + 1
      /\ f.sock = "none" /\ ~f.wait /\ ~f.keepAlive /\ ~f.resend
      /\ \A k \in {"state", "at", "drawn", "drag", "dirty", "text", "typing",
                   "shouting", "shoutTimer", "threw"} : f[k] = p[k]
  BY <1>1 DEF Page
<1>. HIDE DEF f
<1>4. p.failures \in Nat /\ p.failures < MaxFailures /\ MaxFailures \in Nat
  BY WebAssumption DEF PageSound, Page
<1>5. CASE f.failures >= MaxFailures
  <2>1. AfterFailure(p) = [e EXCEPT !.state = "error"]
    BY <1>2, <1>5 DEF InError
  <2>2. e = [f EXCEPT !.wait = FALSE, !.sock = "none",
                      !.keepAlive = f.keepAlive, !.resend = f.resend]
    BY <1>3 DEF Disconnected
  <2>. HIDE DEF e
  <2>3. /\ e \in Page /\ e.failures = f.failures
        /\ e.sock = "none" /\ ~e.wait /\ ~e.keepAlive /\ ~e.resend
        /\ \A k \in {"at", "drawn", "drag", "dirty", "text", "typing",
                     "shouting", "shoutTimer", "threw"} : e[k] = p[k]
    BY <2>2, <1>3 DEF Page
  <2>. DEFINE g == AfterFailure(p)
  <2>4. g \in Page
    BY <2>1, <2>3 DEF Page
  <2>5. /\ g.state = "error" /\ g.failures = f.failures
        /\ g.sock = "none" /\ ~g.wait /\ ~g.keepAlive /\ ~g.resend
        /\ \A k \in {"at", "drawn", "drag", "dirty", "text", "typing",
                     "shouting", "shoutTimer", "threw"} : g[k] = p[k]
    BY <2>1, <2>3 DEF Page
  <2>. HIDE DEF g
  <2>6. PageSound(g)
    BY <2>4, <2>5, <1>3, <1>4 DEF PageSound
  <2>. QED
    BY <2>5, <2>6 DEF g
<1>6. CASE f.failures < MaxFailures
  <2>1. AfterFailure(p) = [f EXCEPT !.state = "connecting", !.wait = TRUE]
    BY <1>2, <1>3, <1>4, <1>6
  <2>. DEFINE g == AfterFailure(p)
  <2>2. g \in Page
    BY <2>1, <1>3 DEF Page
  <2>3. /\ g.state = "connecting" /\ g.failures = f.failures
        /\ g.sock = "none" /\ g.wait /\ ~g.keepAlive /\ ~g.resend
        /\ \A k \in {"at", "drawn", "drag", "dirty", "text", "typing",
                     "shouting", "shoutTimer", "threw"} : g[k] = p[k]
    BY <2>1, <1>3 DEF Page
  <2>. HIDE DEF g
  <2>4. PageSound(g)
    BY <2>2, <2>3, <1>3, <1>4, <1>6 DEF PageSound
  <2>. QED
    BY <2>3, <2>4 DEF g
<1>. QED
  BY <1>3, <1>4, <1>5, <1>6

\* What a command of the server says.
LEMMA TellingTyped ==
    ASSUME NEW c \in Telling
    PROVE  /\ c.kind \in Kinds
           /\ c.kind = "TILE" => c.value \in [at : Place, by : Who]
           /\ c.kind = "PLAYER_SHOUTED" => c.value \in {Me, Other}
           /\ c.kind = "MESSAGE" => c.value \in Nat
BY DEF Telling, Kinds, BadKinds

LEMMA TileMovedSound ==
    ASSUME NEW p, PageSound(p), NEW tile \in [at : Place, by : Who]
    PROVE  /\ PageSound(TileMoved(p, tile))
           /\ TileMoved(p, tile).at = tile.at
           /\ p.drawn = p.at /\ tile.by # Me => TileMoved(p, tile).drawn = tile.at
           /\ \A f \in {"state", "sock", "drag", "dirty", "text", "typing"} :
                TileMoved(p, tile)[f] = p[f]
<1>. DEFINE drawn == IF p.at = Nowhere
                     THEN IF tile.by = Me THEN Nowhere ELSE tile.at
                     ELSE IF tile.by # Me /\ tile.at # p.at THEN tile.at ELSE p.drawn
<1>1. p \in Page /\ tile.at \in Place /\ tile.at # Nowhere /\ tile.at \in Spot
  BY WebAssumption DEF PageSound, Spot
<1>2. drawn \in Spot
  BY <1>1 DEF Page, Spot
<1>3. TileMoved(p, tile) = [p EXCEPT !.at = tile.at, !.drawn = drawn]
  BY <1>1 DEF TileMoved, Page
<1>4. p.drawn = p.at /\ tile.by # Me => drawn = tile.at
  BY <1>1
<1>. HIDE DEF drawn
<1>. DEFINE q == TileMoved(p, tile)
<1>5. q \in Page
  BY <1>1, <1>2, <1>3 DEF Page
<1>6. /\ q.at = tile.at /\ q.drawn = drawn
      /\ \A f \in {"state", "sock", "wait", "failures", "keepAlive", "resend", "drag", "dirty",
                   "text", "typing", "shouting", "shoutTimer", "threw"} : q[f] = p[f]
  BY <1>1, <1>3 DEF Page
<1>. HIDE DEF q
<1>7. PageSound(q)
  BY <1>1, <1>5, <1>6 DEF PageSound
<1>. QED
  BY <1>4, <1>6, <1>7 DEF q

LEMMA ReceivedSound ==
    ASSUME NEW p, PageSound(p), p.sock = "open", NEW c \in Telling
    PROVE  /\ PageSound(Received(p, c))
           /\ c.kind = "PLAYER_ID" =>
                Received(p, c).state = "in-progress" /\ Received(p, c).sock = "open"
           /\ c.kind \in BadKinds =>
                Received(p, c).state = "error" /\ Received(p, c).sock = "none"
           /\ c.kind \notin BadKinds \cup {"PLAYER_ID"} =>
                Received(p, c).state = p.state /\ Received(p, c).sock = "open"
           /\ c.kind = "TILE" =>
                /\ Received(p, c).at = c.value.at
                /\ p.drawn = p.at /\ c.value.by # Me => Received(p, c).drawn = c.value.at
           /\ c.kind # "TILE" => Received(p, c).at = p.at /\ Received(p, c).drawn = p.drawn
           /\ \A f \in {"drag", "dirty", "text", "typing"} : Received(p, c)[f] = p[f]
<1>1. c.kind \in Kinds
  BY TellingTyped
<1>2. CASE c.kind = "PLAYER_ID"
  <2>1. Received(p, c) = [p EXCEPT !.person = TRUE, !.failures = 0, !.state = "in-progress"]
    BY <1>2 DEF Received, InPlay
  <2>2. MaxFailures \in Nat \ {0} /\ p.state \in {"connecting", "in-progress"}
    BY WebAssumption DEF PageSound, Page
  <2>. DEFINE q == Received(p, c)
  <2>. p \in Page
    BY DEF PageSound
  <2>. DEFINE r == [p EXCEPT !.person = TRUE, !.failures = 0]
  <2>a. r \in Page /\ q = [r EXCEPT !.state = "in-progress"]
    BY <2>1 DEF Page
  <2>. HIDE DEF r
  <2>3. q \in Page
    BY <2>1, <2>a DEF Page
  <2>4. /\ q.state = "in-progress" /\ q.failures = 0
        /\ \A f \in {"sock", "wait", "keepAlive", "resend", "at", "drawn", "drag", "dirty",
                     "text", "typing", "shouting", "shoutTimer", "threw"} : q[f] = p[f]
    BY <2>1 DEF Page
  <2>. HIDE DEF q
  <2>5. PageSound(q)
    BY <2>2, <2>3, <2>4 DEF PageSound
  <2>. QED
    BY <2>4, <2>5, <1>2 DEF q, BadKinds
<1>3. CASE c.kind = "MESSAGE"
  <2>1. Received(p, c) = [p EXCEPT !.shown = Append(@, c.value)]
    BY <1>3 DEF Received
  <2>2. p \in Page /\ p.shown \in Seq(Nat)
    BY DEF PageSound, Page
  <2>3. Append(p.shown, c.value) \in Seq(Nat)
    BY <2>2, <1>3, TellingTyped
  <2>. DEFINE shown == Append(p.shown, c.value)
  <2>4. Received(p, c) = [p EXCEPT !.shown = shown]
    BY <2>1, <2>2 DEF Page
  <2>. HIDE DEF shown
  <2>5. shown \in Seq(Nat)
    BY <2>3 DEF shown
  <2>. DEFINE q == Received(p, c)
  <2>6. q \in Page
    BY <2>2, <2>4, <2>5 DEF Page
  <2>7. \A f \in {"state", "sock", "wait", "failures", "keepAlive", "resend", "at", "drawn",
                 "drag", "dirty", "text", "typing", "shouting", "shoutTimer", "threw"} :
          q[f] = p[f]
    BY <2>2, <2>4 DEF Page
  <2>. HIDE DEF q
  <2>8. PageSound(q)
    BY <2>6, <2>7 DEF PageSound
  <2>. QED
    BY <2>7, <2>8, <1>3 DEF q, BadKinds
<1>4. CASE c.kind = "TILE"
  <2>1. Received(p, c) = TileMoved(p, c.value)
    BY <1>4 DEF Received
  <2>. QED
    BY <2>1, <1>4, TellingTyped, TileMovedSound DEF BadKinds
<1>5. CASE c.kind = "PLAYER_SHOUTED"
  <2>1. Received(p, c) = [p EXCEPT !.shouting = c.value, !.shoutTimer = TRUE]
    BY <1>5 DEF Received
  <2>2. c.value \in Who /\ c.value # NoOne
    BY <1>5, TellingTyped DEF Who, NoOne, Me, Other
  <2>. DEFINE q == Received(p, c)
  <2>3. p \in Page
    BY DEF PageSound
  <2>4. q \in Page
    BY <2>1, <2>2, <2>3 DEF Page
  <2>5. /\ q.shouting # NoOne /\ q.shoutTimer
        /\ \A f \in {"state", "sock", "wait", "failures", "keepAlive", "resend", "at", "drawn",
                     "drag", "dirty", "text", "typing", "threw"} : q[f] = p[f]
    BY <2>1, <2>2, <2>3 DEF Page
  <2>. HIDE DEF q
  <2>6. PageSound(q)
    BY <2>4, <2>5 DEF PageSound
  <2>. QED
    BY <2>5, <2>6, <1>5 DEF q, BadKinds
<1>6. CASE c.kind = "SYNC"
  <2>1. Received(p, c) = [p EXCEPT !.synced = TRUE]
    BY <1>6 DEF Received
  <2>. DEFINE q == Received(p, c)
  <2>2. p \in Page
    BY DEF PageSound
  <2>3. q \in Page
    BY <2>1, <2>2 DEF Page
  <2>4. \A f \in {"state", "sock", "wait", "failures", "keepAlive", "resend", "at", "drawn",
                 "drag", "dirty", "text", "typing", "shouting", "shoutTimer", "threw"} :
          q[f] = p[f]
    BY <2>1, <2>2 DEF Page
  <2>. HIDE DEF q
  <2>5. PageSound(q)
    BY <2>3, <2>4 DEF PageSound
  <2>. QED
    BY <2>4, <2>5, <1>6 DEF q, BadKinds
<1>7. CASE c.kind \in BadKinds
  <2>1. Received(p, c) = InError(p)
    BY <1>7 DEF Received, BadKinds
  <2>. QED
    BY <2>1, <1>7, InErrorSound DEF BadKinds
<1>. QED
  BY <1>1, <1>2, <1>3, <1>4, <1>5, <1>6, <1>7 DEF Kinds

-----------------------------------------------------------------------------
(* Queues that gain a last element or lose their first.                    *)

LEMMA AppendFacts ==
    ASSUME NEW S, NEW q \in Seq(S), NEW x \in S
    PROVE  /\ Append(q, x) \in Seq(S) /\ Len(Append(q, x)) = Len(q) + 1 /\ Len(q) \in Nat
           /\ \A i \in 1..Len(q) : Append(q, x)[i] = q[i]
           /\ Append(q, x)[Len(q) + 1] = x
OBVIOUS

LEMMA TailFacts ==
    ASSUME NEW S, NEW q \in Seq(S), q # <<>>
    PROVE  /\ Tail(q) \in Seq(S) /\ Len(q) \in Nat \ {0} /\ Len(Tail(q)) = Len(q) - 1
           /\ \A i \in 1..Len(q) - 1 : Tail(q)[i] = q[i + 1]
           /\ Head(q) = q[1] /\ q[1] \in S
OBVIOUS

LEMMA TypingAppend ==
    ASSUME NEW S, NEW q \in Seq(S), NEW x \in S, NEW old, NEW new, NEW believed,
           TypingTold(old, q, believed),
           \/ SaysTyping(x) /\ (TypingSaid(x) <=> new)
           \/ ~SaysTyping(x) /\ new = old
    PROVE  TypingTold(new, Append(q, x), believed)
<1>. DEFINE a == Append(q, x)
            n == Len(q)
<1>1. /\ Len(a) = n + 1 /\ n \in Nat
      /\ \A i \in 1..n : a[i] = q[i]
      /\ a[n + 1] = x
  BY AppendFacts
<1>. HIDE DEF a, n
<1>2. CASE SaysTyping(x) /\ (TypingSaid(x) <=> new)
  <2>1. ~Silent(a)
    BY <1>1, <1>2 DEF Silent
  <2>2. ASSUME NEW i \in 1..Len(a), \A j \in (i + 1)..Len(a) : ~SaysTyping(a[j])
        PROVE  i = n + 1
    BY <1>1, <1>2, <2>2
  <2>. QED
    BY <1>1, <1>2, <2>1, <2>2 DEF TypingTold, a
<1>3. CASE ~SaysTyping(x) /\ new = old
  <2>1. Silent(a) => Silent(q)
    BY <1>1 DEF Silent, n
  <2>2. ASSUME NEW i \in 1..Len(a), SaysTyping(a[i]),
               \A j \in (i + 1)..Len(a) : ~SaysTyping(a[j])
        PROVE  TypingSaid(a[i]) <=> new
    <3>1. i \in 1..n /\ a[i] = q[i]
      BY <1>1, <1>3, <2>2
    <3>2. \A j \in (i + 1)..n : ~SaysTyping(q[j])
      BY <1>1, <2>2, <3>1
    <3>. QED
      BY <1>3, <2>2, <3>1, <3>2 DEF TypingTold, n
  <2>. QED
    BY <1>3, <2>1, <2>2 DEF TypingTold, a
<1>. QED
  BY <1>2, <1>3

LEMMA TypingTail ==
    ASSUME NEW S, NEW q \in Seq(S), q # <<>>, NEW typing, NEW believed, NEW then,
           TypingTold(typing, q, believed),
           \/ SaysTyping(q[1]) /\ (TypingSaid(q[1]) <=> then)
           \/ ~SaysTyping(q[1]) /\ then = believed
    PROVE  TypingTold(typing, Tail(q), then)
<1>. DEFINE t == Tail(q)
            n == Len(q)
<1>1. /\ Len(t) = n - 1 /\ n \in Nat \ {0}
      /\ \A i \in 1..(n - 1) : t[i] = q[i + 1]
  BY TailFacts
<1>. HIDE DEF t, n
<1>2. \A j \in 2..n : q[j] = t[j - 1] /\ j - 1 \in 1..Len(t)
  BY <1>1
<1>3. ASSUME Silent(t) PROVE then <=> typing
  <2>1. \A j \in 2..n : ~SaysTyping(q[j])
    BY <1>2, <1>3 DEF Silent
  <2>2. CASE SaysTyping(q[1]) /\ (TypingSaid(q[1]) <=> then)
    BY <1>1, <2>1, <2>2 DEF TypingTold, n
  <2>3. CASE ~SaysTyping(q[1]) /\ then = believed
    <3>1. Silent(q)
      BY <1>1, <2>1, <2>3 DEF Silent, n
    <3>. QED
      BY <2>3, <3>1 DEF TypingTold
  <2>. QED
    BY <2>2, <2>3
<1>4. ASSUME NEW i \in 1..Len(t), SaysTyping(t[i]),
             \A j \in (i + 1)..Len(t) : ~SaysTyping(t[j])
      PROVE  TypingSaid(t[i]) <=> typing
  <2>1. i + 1 \in 1..n /\ t[i] = q[i + 1]
    BY <1>1
  <2>2. \A j \in (i + 1 + 1)..n : ~SaysTyping(q[j])
    BY <1>1, <1>2, <1>4
  <2>. QED
    BY <1>4, <2>1, <2>2 DEF TypingTold, n
<1>. QED
  BY <1>3, <1>4 DEF TypingTold, t

LEMMA SilentAppend ==
    ASSUME NEW S, NEW q \in Seq(S), NEW x \in S, Silent(q), ~SaysTyping(x)
    PROVE  Silent(Append(q, x))
BY AppendFacts DEF Silent

LEMMA SilentTail ==
    ASSUME NEW S, NEW q \in Seq(S), q # <<>>, Silent(q)
    PROVE  Silent(Tail(q)) /\ ~SaysTyping(q[1])
BY TailFacts DEF Silent

LEMMA SilentIsTold ==
    ASSUME NEW q, Silent(q), NEW typing, NEW believed, believed <=> typing
    PROVE  TypingTold(typing, q, believed)
BY DEF Silent, TypingTold

LEMMA TileAppend ==
    ASSUME NEW S, NEW q \in Seq(S), NEW x \in S, NEW place
    PROVE  /\ x.kind = "TILE" /\ x.value.at = place => LastTileAt(Append(q, x), place)
           /\ x.kind # "TILE" /\ LastTileAt(q, place) => LastTileAt(Append(q, x), place)
           /\ x.kind # "TILE" /\ NoTileIn(q) => NoTileIn(Append(q, x))
<1>. DEFINE a == Append(q, x)
            n == Len(q)
<1>1. /\ Len(a) = n + 1 /\ n \in Nat
      /\ \A i \in 1..n : a[i] = q[i]
      /\ a[n + 1] = x
  BY AppendFacts
<1>. HIDE DEF a, n
<1>2. ASSUME x.kind = "TILE", x.value.at = place PROVE LastTileAt(a, place)
  <2>1. n + 1 \in 1..Len(a) /\ (n + 1 + 1)..Len(a) = {}
    BY <1>1
  <2>. QED
    BY <1>1, <1>2, <2>1 DEF LastTileAt
<1>3. ASSUME x.kind # "TILE", LastTileAt(q, place) PROVE LastTileAt(a, place)
  <2>1. PICK i \in 1..n : /\ q[i].kind = "TILE" /\ q[i].value.at = place
                          /\ \A j \in (i + 1)..n : q[j].kind # "TILE"
    BY <1>3 DEF LastTileAt, n
  <2>2. i \in 1..Len(a) /\ a[i] = q[i]
    BY <1>1
  <2>3. \A j \in (i + 1)..Len(a) : a[j].kind # "TILE"
    BY <1>1, <1>3, <2>1
  <2>. QED
    BY <2>1, <2>2, <2>3 DEF LastTileAt
<1>4. ASSUME x.kind # "TILE", NoTileIn(q) PROVE NoTileIn(a)
  BY <1>1, <1>4 DEF NoTileIn, n
<1>. QED
  BY <1>2, <1>3, <1>4 DEF a

LEMMA TileTail ==
    ASSUME NEW S, NEW q \in Seq(S), q # <<>>, NEW place
    PROVE  /\ NoTileIn(q) => NoTileIn(Tail(q)) /\ q[1].kind # "TILE"
           /\ LastTileAt(q, place) =>
                \/ LastTileAt(Tail(q), place)
                \/ q[1].kind = "TILE" /\ q[1].value.at = place /\ NoTileIn(Tail(q))
<1>. DEFINE t == Tail(q)
            n == Len(q)
<1>1. /\ Len(t) = n - 1 /\ n \in Nat \ {0}
      /\ \A i \in 1..(n - 1) : t[i] = q[i + 1]
  BY TailFacts
<1>. HIDE DEF t, n
<1>2. ASSUME NoTileIn(q) PROVE NoTileIn(t) /\ q[1].kind # "TILE"
  BY <1>1, <1>2 DEF NoTileIn, n
<1>3. ASSUME LastTileAt(q, place)
      PROVE  \/ LastTileAt(t, place)
             \/ q[1].kind = "TILE" /\ q[1].value.at = place /\ NoTileIn(t)
  <2>1. PICK i \in 1..n : /\ q[i].kind = "TILE" /\ q[i].value.at = place
                          /\ \A j \in (i + 1)..n : q[j].kind # "TILE"
    BY <1>3 DEF LastTileAt, n
  <2>2. ASSUME NEW j \in i..Len(t) PROVE t[j].kind # "TILE"
    <3>1. j + 1 \in (i + 1)..n /\ j \in 1..(n - 1)
      BY <1>1
    <3>. QED
      BY <1>1, <2>1, <3>1
  <2>3. CASE i = 1
    BY <2>1, <2>2, <2>3 DEF NoTileIn
  <2>4. CASE i > 1
    <3>1. i - 1 \in 1..Len(t) /\ t[i - 1] = q[i]
      BY <1>1, <2>4
    <3>2. i - 1 + 1 = i
      BY <2>4
    <3>. QED
      BY <2>1, <2>2, <3>1, <3>2 DEF LastTileAt
  <2>. QED
    BY <2>3, <2>4
<1>. QED
  BY <1>2, <1>3 DEF t

-----------------------------------------------------------------------------
(* A command that the page sends.                                          *)

LEMMA CommandTyped ==
    ASSUME NEW c \in Command
    PROVE  /\ c.kind \in Headers \cup {"KEEP_ALIVE", "TURN", "SEND_MESSAGE", "SHOUT", "LEAVE",
                                       "MOVE_TILE", "TYPING"}
           /\ c.kind = "RECONNECT" => c.value \in Nat
           /\ c.kind = "MOVE_TILE" => c.value \in Place
           /\ c.kind = "TYPING" => c.value \in BOOLEAN
BY DEF Command, Headers

LEMMA CarriesSound ==
    ASSUME NEW n, NetSound(n), NEW c \in Command
    PROVE  /\ NetSound(Carries(n, c))
           /\ Carries(n, c).state = n.state /\ Carries(n, c).breaks = n.breaks
           /\ Carries(n, c).down = n.down
           /\ n.state = "up" => Carries(n, c).up = Append(n.up, c)
           /\ n.state # "up" => Carries(n, c) = n
<1>1. n \in Net /\ n.up \in Seq(Command)
  BY DEF NetSound, Net
<1>2. CASE n.state = "up"
  <2>. DEFINE a == Append(n.up, c)
              m == Carries(n, c)
  <2>1. a \in Seq(Command) /\ Len(a) = Len(n.up) + 1 /\ Len(n.up) \in Nat
    BY <1>1, AppendFacts
  <2>. DEFINE b == n.buffered + 1
  <2>2. m = [n EXCEPT !.up = a, !.buffered = b] /\ b \in Nat
    BY <1>1, <1>2 DEF Carries, Net
  <2>. HIDE DEF a, m, b
  <2>3. m \in Net
    BY <1>1, <2>1, <2>2 DEF Net
  <2>4. /\ m.state = "up" /\ m.up = a /\ m.buffered = n.buffered + 1
        /\ m.down = n.down /\ m.breaks = n.breaks /\ n.buffered \in Nat
    BY <1>1, <1>2, <2>2 DEF Net, b
  <2>5. n.buffered <= Len(n.up) /\ Len(n.down) <= Cap
    BY DEF NetSound
  <2>6. NetSound(m)
    BY <2>1, <2>3, <2>4, <2>5 DEF NetSound
  <2>. QED
    BY <1>2, <2>4, <2>6 DEF a, m
<1>3. CASE n.state # "up"
  BY <1>3 DEF Carries
<1>. QED
  BY <1>2, <1>3

\* The page changes nothing but what it thinks of the game.
LEMMA PageLinked ==
    ASSUME NEW p, NEW n, NEW s, Linked(p, n, s),
           NEW q, PageSound(q), q.state = p.state, q.sock = p.sock
    PROVE  Linked(q, n, s)
BY DEF Linked, SocketsAgree, InGameWhenHeard

LEMMA SendLinked ==
    ASSUME NEW p, NEW n, NEW s, Linked(p, n, s),
           NEW q, PageSound(q), q.state = p.state, q.sock = p.sock,
           NEW c \in Command, c.kind \notin Headers
    PROVE  Linked(q, Carries(n, c), s)
<1>. DEFINE m == Carries(n, c)
<1>1. /\ NetSound(m) /\ m.state = n.state /\ m.breaks = n.breaks /\ m.down = n.down
      /\ n.state = "up" => m.up = Append(n.up, c)
      /\ n.state # "up" => m = n
  BY CarriesSound DEF Linked
<1>. HIDE DEF m
<1>2. n.up \in Seq(Command)
  BY DEF Linked, NetSound, Net
<1>3. HeaderFirst(m, s)
  <2>1. CASE n.state = "up"
    <3>. DEFINE a == Append(n.up, c)
    <3>1. /\ Len(a) = Len(n.up) + 1 /\ Len(n.up) \in Nat
          /\ \A i \in 1..Len(n.up) : a[i] = n.up[i]
          /\ a[Len(n.up) + 1] = c
      BY <1>2, AppendFacts
    <3>a. m.up = a
      BY <1>1, <2>1
    <3>. HIDE DEF a
    <3>2. m.up = a /\ a # <<>>
      BY <3>1, <3>a
    <3>3. s.conn = "new" => a[1].kind \in Headers
      <4>1. s.conn = "new" => n.up # <<>> /\ n.up[1].kind \in Headers
        BY DEF Linked, HeaderFirst
      <4>2. n.up # <<>> => 1 \in 1..Len(n.up)
        BY <1>2
      <4>. QED
        BY <3>1, <4>1, <4>2
    <3>4. ASSUME NEW i \in 1..Len(a), a[i].kind \in Headers PROVE i = 1 /\ s.conn = "new"
      <4>1. i \in 1..Len(n.up) /\ a[i] = n.up[i]
        BY <3>1, <3>4
      <4>. QED
        BY <3>4, <4>1 DEF Linked, HeaderFirst
    <3>. QED
      BY <1>1, <3>2, <3>3, <3>4 DEF Linked, HeaderFirst
  <2>2. CASE n.state # "up"
    BY <1>1, <2>2 DEF Linked
  <2>. QED
    BY <2>1, <2>2
<1>4. SocketsAgree(q, m) /\ InGameWhenHeard(q, s) /\ ServerSound(s)
  BY <1>1 DEF Linked, SocketsAgree, InGameWhenHeard
<1>. QED
  BY <1>1, <1>3, <1>4 DEF Linked, m

LEMMA SendTyping ==
    ASSUME NEW p, NEW n, NEW s, Linked(p, n, s), TypingFollows(p, n, s),
           NEW q, q.state = p.state, NEW c \in Command,
           \/ ~SaysTyping(c) /\ q.typing = p.typing
           \/ SaysTyping(c) /\ p.state = "in-progress" /\ (TypingSaid(c) <=> q.typing)
    PROVE  TypingFollows(q, Carries(n, c), s)
<1>. DEFINE m == Carries(n, c)
<1>1. /\ m.breaks = n.breaks
      /\ n.state = "up" => m.up = Append(n.up, c)
      /\ n.state # "up" => m = n /\ n.up = <<>>
  BY CarriesSound DEF Linked, NetSound
<1>. HIDE DEF m
<1>2. n.up \in Seq(Command)
  BY DEF Linked, NetSound, Net
<1>3. SUFFICES ASSUME n.breaks = 0
               PROVE  /\ q.state \in {"welcome", "connecting"} =>
                           ~q.typing /\ ~s.typing /\ Silent(m.up)
                      /\ q.state = "in-progress" /\ s.person = "known" =>
                           TypingTold(q.typing, m.up, s.typing)
  BY <1>1 DEF TypingFollows, m
<1>4. /\ p.state \in {"welcome", "connecting"} => ~p.typing /\ ~s.typing /\ Silent(n.up)
      /\ p.state = "in-progress" /\ s.person = "known" => TypingTold(p.typing, n.up, s.typing)
  BY <1>3 DEF TypingFollows
<1>5. CASE n.state = "up"
  <2>1. m.up = Append(n.up, c)
    BY <1>1, <1>5
  <2>2. p.state \in {"welcome", "connecting"} => Silent(m.up)
    BY <1>2, <1>4, <2>1, SilentAppend
  <2>3. p.state = "in-progress" /\ s.person = "known" => TypingTold(q.typing, m.up, s.typing)
    BY <1>2, <1>4, <2>1, TypingAppend
  <2>. QED
    BY <1>4, <2>2, <2>3
<1>6. CASE n.state # "up"
  <2>1. p.state # "in-progress"
    BY <1>3, <1>6 DEF Linked, NetSound, Net, PageSound, SocketsAgree
  <2>. QED
    BY <1>1, <1>4, <1>6, <2>1
<1>. QED
  BY <1>5, <1>6

LEMMA SendTile ==
    ASSUME NEW p, NEW n, NEW s, NetSound(n), TileFollows(p, n, s),
           NEW q, q.state = p.state, q.at = p.at, q.drawn = p.drawn, q.drag = p.drag,
           q.dirty = p.dirty, NEW c \in Command, c.kind # "MOVE_TILE"
    PROVE  TileFollows(q, Carries(n, c), s)
<1>. DEFINE m == Carries(n, c)
<1>1. /\ m.down = n.down
      /\ n.state = "up" => m.up = Append(n.up, c)
      /\ n.state # "up" => m = n
  BY CarriesSound
<1>. HIDE DEF m
<1>2. n.up \in Seq(Command)
  BY DEF NetSound, Net
<1>3. \A i \in 1..Len(m.up) : m.up[i].kind # "MOVE_TILE"
  <2>1. \A i \in 1..Len(n.up) : n.up[i].kind # "MOVE_TILE"
    BY DEF TileFollows, OnlyWatches
  <2>2. CASE n.state = "up"
    <3>. DEFINE a == Append(n.up, c)
    <3>1. /\ Len(a) = Len(n.up) + 1 /\ Len(n.up) \in Nat
          /\ \A i \in 1..Len(n.up) : a[i] = n.up[i]
          /\ a[Len(n.up) + 1] = c
      BY <1>2, AppendFacts
    <3>2. m.up = a
      BY <1>1, <2>2
    <3>. HIDE DEF a
    <3>. QED
      BY <2>1, <3>1, <3>2
  <2>. QED
    BY <1>1, <2>1, <2>2
<1>4. OnlyWatches(q, m, s)
  BY <1>1, <1>3 DEF TileFollows, OnlyWatches
<1>5. NoTileYet(q, m, s)
  BY <1>1 DEF TileFollows, NoTileYet
<1>6. s.conn = "open" => TileFresh(q, m, s) \/ Refused(q, m, s)
  BY <1>1 DEF TileFollows, TileFresh, Refused
<1>. QED
  BY <1>4, <1>5, <1>6 DEF TileFollows, m

LEMMA PageTyping ==
    ASSUME NEW p, NEW n, NEW s, TypingFollows(p, n, s),
           NEW q, q.state = p.state, q.typing = p.typing
    PROVE  TypingFollows(q, n, s)
BY DEF TypingFollows

LEMMA PageTile ==
    ASSUME NEW p, NEW n, NEW s, TileFollows(p, n, s),
           NEW q, q.state = p.state, q.at = p.at, q.drawn = p.drawn, q.drag = p.drag,
           q.dirty = p.dirty
    PROVE  TileFollows(q, n, s)
BY DEF TileFollows, OnlyWatches, NoTileYet, TileFresh, Refused

\* A page that differs in nothing but its timers and what it shows.
LEMMA PageFits ==
    ASSUME NEW p, NEW n, NEW s, NEW w, Fits(p, n, s, w),
           NEW q, PageSound(q), q.sock = p.sock, q.state = p.state, q.typing = p.typing,
           w => q.at = p.at /\ q.drawn = p.drawn /\ q.drag = p.drag /\ q.dirty = p.dirty
    PROVE  Fits(q, n, s, w)
BY PageLinked, PageTyping, PageTile DEF Fits

\* Such a page that also sends a command of the game.
LEMMA SendFits ==
    ASSUME NEW p, NEW n, NEW s, NEW w, Fits(p, n, s, w),
           NEW q, PageSound(q), q.sock = "open", p.sock = "open", q.state = p.state,
           w => q.at = p.at /\ q.drawn = p.drawn /\ q.drag = p.drag /\ q.dirty = p.dirty,
           NEW c \in Command, c.kind \notin Headers, w => c.kind # "MOVE_TILE",
           \/ ~SaysTyping(c) /\ q.typing = p.typing
           \/ SaysTyping(c) /\ p.state = "in-progress" /\ (TypingSaid(c) <=> q.typing)
    PROVE  Fits(Sends(q), Carries(n, c), s, w)
<1>. DEFINE r == Sends(q)
<1>1. /\ PageSound(r)
      /\ \A f \in {"state", "sock", "at", "drawn", "drag", "dirty", "typing"} : r[f] = q[f]
  BY SendsSound
<1>. HIDE DEF r
<1>2. Linked(r, Carries(n, c), s)
  BY <1>1, SendLinked DEF Fits
<1>3. TypingFollows(r, Carries(n, c), s)
  BY <1>1, SendTyping DEF Fits
<1>4. w => TileFollows(r, Carries(n, c), s)
  BY <1>1, SendTile DEF Fits, Linked
<1>. QED
  BY <1>2, <1>3, <1>4 DEF Fits, r

-----------------------------------------------------------------------------
(* The socket is made, opens, fails and breaks.                            *)

LEMMA NetTyped ==
    ASSUME NEW state \in {"none", "connecting", "up", "broken"}, NEW breaks \in Nat
    PROVE  LET m == [state |-> state, up |-> <<>>, buffered |-> 0, down |-> <<>>,
                     breaks |-> breaks]
           IN  m \in Net
<1>. DEFINE no == <<>>
<1>1. no \in Seq(Command) /\ no \in Seq(Telling) /\ 0 \in Nat
  OBVIOUS
<1>. HIDE DEF no
<1>2. [state |-> state, up |-> no, buffered |-> 0, down |-> no, breaks |-> breaks] \in Net
  BY <1>1 DEF Net
<1>. QED
  BY <1>2 DEF no

LEMMA UnlinkedFacts ==
    ASSUME NEW n \in Net, NEW state \in {"none", "connecting", "up", "broken"}
    PROVE  LET m == [Unlinked(n) EXCEPT !.state = state] IN
           /\ m \in Net /\ m.state = state /\ m.up = <<>> /\ m.buffered = 0
           /\ m.down = <<>> /\ m.breaks = n.breaks
           /\ Unlinked(n) \in Net /\ Unlinked(n).state = "none" /\ Unlinked(n).up = <<>>
           /\ Unlinked(n).buffered = 0 /\ Unlinked(n).down = <<>>
           /\ Unlinked(n).breaks = n.breaks
<1>. DEFINE u == Unlinked(n)
<1>1. n.breaks \in Nat
  BY DEF Net
<1>2. u = [state |-> "none", up |-> <<>>, buffered |-> 0, down |-> <<>>, breaks |-> n.breaks]
  BY DEF Unlinked, NoNet
<1>3. /\ u \in Net /\ u.state = "none" /\ u.up = <<>> /\ u.buffered = 0
      /\ u.down = <<>> /\ u.breaks = n.breaks
  BY <1>1, <1>2, NetTyped
<1>. HIDE DEF u
<1>. DEFINE m == [u EXCEPT !.state = state]
<1>4. /\ m \in Net /\ m.state = state /\ m.up = <<>> /\ m.buffered = 0
      /\ m.down = <<>> /\ m.breaks = n.breaks
  BY <1>3 DEF Net
<1>. QED
  BY <1>3, <1>4 DEF u

LEMMA NothingInIt ==
    ASSUME NEW m, m.up = <<>>
    PROVE  /\ Silent(m.up)
           /\ \A i \in 1..Len(m.up) : FALSE
BY DEF Silent

\* A socket that holds nothing, before or after a connection.
LEMMA EmptySocketFits ==
    ASSUME NEW p, NEW n, NEW s, NEW w, Fits(p, n, s, w),
           NEW q, PageSound(q), q.typing = p.typing,
           q.at = p.at /\ q.drawn = p.drawn /\ q.drag = p.drag /\ q.dirty = p.dirty,
           NEW m \in Net, m.state # "up", m.up = <<>>, m.down = <<>>, m.buffered = 0,
           m.state = "broken" => m.breaks > 0, SocketsAgree(q, m),
           NEW t, ServerSound(t), t.conn = "none", t.tile = s.tile, t.typing = s.typing,
           \/ m.breaks > 0
           \/ q.state \in {"error", "unloaded"}
           \/ /\ m.breaks = n.breaks /\ q.state = "connecting"
              /\ p.state \in {"welcome", "connecting"}
    PROVE  Fits(q, m, t, w)
<1>1. Len(m.up) = 0 /\ Len(m.down) = 0 /\ 1..0 = {}
  OBVIOUS
<1>2. NetSound(m)
  BY <1>1, WebAssumption DEF NetSound
<1>3. HeaderFirst(m, t) /\ InGameWhenHeard(q, t)
  BY <1>1 DEF HeaderFirst, InGameWhenHeard
<1>4. Linked(q, m, t)
  BY <1>2, <1>3 DEF Linked
<1>5. TypingFollows(q, m, t)
  <2>1. q.state \in {"welcome", "connecting", "in-progress"} \/ q.state \in {"error", "unloaded"}
    BY DEF PageSound, Page
  <2>2. q.state = "in-progress" => m.state = "broken"
    BY DEF PageSound, SocketsAgree
  <2>3. m.breaks \in Nat
    BY DEF Net
  <2>4. Silent(m.up)
    BY NothingInIt
  <2>5. CASE m.breaks > 0
    BY <2>3, <2>5 DEF TypingFollows
  <2>6. CASE q.state \in {"error", "unloaded"}
    BY <2>6 DEF TypingFollows
  <2>7. CASE m.breaks = n.breaks /\ q.state = "connecting" /\ p.state \in {"welcome", "connecting"}
    BY <2>4, <2>7 DEF Fits, TypingFollows
  <2>. QED
    BY <2>5, <2>6, <2>7
<1>6. w => TileFollows(q, m, t)
  BY <1>1 DEF Fits, TileFollows, OnlyWatches, NoTileYet
<1>. QED
  BY <1>4, <1>5, <1>6 DEF Fits

LEMMA StartKeeps ==
    ASSUME WebInvariant, Start
    PROVE  Fits(page', net', srv', Watching)
<1>. DEFINE q == [page EXCEPT !.sock = "connecting", !.state = "connecting"]
            m == [Unlinked(net) EXCEPT !.state = "connecting"]
<1>1. /\ PageSound(page) /\ net \in Net /\ ServerSound(srv) /\ page.state = "welcome"
      /\ page.sock = "none" /\ ~page.wait
      /\ net.state # "up" /\ srv.conn = "none"
  <2>1. /\ PageSound(page) /\ NetSound(net) /\ ServerSound(srv) /\ page.state = "welcome"
        /\ SocketsAgree(page, net) /\ HeaderFirst(net, srv)
    BY DEF WebInvariant, Fits, Linked, Start
  <2>2. page.sock = "none" /\ ~page.wait
    BY <2>1 DEF PageSound
  <2>3. net.state = "none"
    BY <2>1, <2>2 DEF SocketsAgree
  <2>. QED
    BY <2>1, <2>2, <2>3 DEF NetSound, HeaderFirst
<1>2. /\ m \in Net /\ m.state = "connecting" /\ m.up = <<>> /\ m.buffered = 0
      /\ m.down = <<>> /\ m.breaks = net.breaks
  BY <1>1, UnlinkedFacts
<1>3. page' = q /\ net' = m /\ srv' = srv
  BY <1>1 DEF Start, Connecting, PageSound, Page
<1>4. /\ q \in Page /\ q.state = "connecting" /\ q.sock = "connecting"
      /\ \A f \in {"wait", "failures", "keepAlive", "resend", "at", "drawn", "drag", "dirty",
                   "text", "typing", "shouting", "shoutTimer", "threw"} : q[f] = page[f]
  BY <1>1 DEF PageSound, Page
<1>. HIDE DEF q, m
<1>5. PageSound(q)
  BY <1>1, <1>4 DEF PageSound
<1>6. SocketsAgree(q, m)
  BY <1>2, <1>4 DEF SocketsAgree
<1>. QED
  BY <1>1, <1>2, <1>3, <1>4, <1>5, <1>6, EmptySocketFits DEF WebInvariant

LEMMA ReconnectTimeoutKeeps ==
    ASSUME WebInvariant, ReconnectTimeout
    PROVE  Fits(page', net', srv', Watching)
<1>. DEFINE q == [page EXCEPT !.wait = FALSE, !.sock = "connecting"]
            m == [Unlinked(net) EXCEPT !.state = "connecting"]
<1>1. /\ PageSound(page) /\ net \in Net /\ ServerSound(srv) /\ page.state = "connecting"
      /\ page.sock = "none" /\ page.wait
      /\ net.state # "up" /\ srv.conn = "none"
  <2>1. /\ PageSound(page) /\ NetSound(net) /\ ServerSound(srv) /\ page.wait
        /\ SocketsAgree(page, net) /\ HeaderFirst(net, srv)
    BY DEF WebInvariant, Fits, Linked, ReconnectTimeout
  <2>2. page.state = "connecting" /\ page.sock = "none"
    BY <2>1 DEF PageSound, Page
  <2>3. net.state = "none"
    BY <2>1, <2>2 DEF SocketsAgree
  <2>. QED
    BY <2>1, <2>2, <2>3 DEF NetSound, HeaderFirst
<1>2. /\ m \in Net /\ m.state = "connecting" /\ m.up = <<>> /\ m.buffered = 0
      /\ m.down = <<>> /\ m.breaks = net.breaks
  BY <1>1, UnlinkedFacts
<1>3. page' = q /\ net' = m /\ srv' = srv
  BY <1>1 DEF ReconnectTimeout, Connecting, PageSound, Page
<1>4. /\ q \in Page /\ ~q.wait /\ q.sock = "connecting"
      /\ \A f \in {"state", "failures", "keepAlive", "resend", "at", "drawn", "drag", "dirty",
                   "text", "typing", "shouting", "shoutTimer", "threw"} : q[f] = page[f]
  BY <1>1 DEF PageSound, Page
<1>. HIDE DEF q, m
<1>5. PageSound(q)
  BY <1>1, <1>4 DEF PageSound
<1>6. SocketsAgree(q, m)
  BY <1>2, <1>4 DEF SocketsAgree
<1>. QED
  BY <1>1, <1>2, <1>3, <1>4, <1>5, <1>6, EmptySocketFits DEF WebInvariant

LEMMA SockErrorKeeps ==
    ASSUME WebInvariant, SockError
    PROVE  Fits(page', net', srv', Watching)
<1>. DEFINE q == AfterFailure(page)
            m == Unlinked(net)
<1>1. /\ PageSound(page) /\ net \in Net /\ ServerSound(srv)
      /\ page.state # "error" /\ net.breaks > 0 /\ srv.conn = "none"
  <2>1. /\ PageSound(page) /\ NetSound(net) /\ ServerSound(srv) /\ net.state = "broken"
        /\ SocketsAgree(page, net) /\ HeaderFirst(net, srv)
    BY DEF WebInvariant, Fits, Linked, SockError
  <2>2. page.sock # "none" /\ page.state # "error"
    BY <2>1 DEF PageSound, SocketsAgree
  <2>. QED
    BY <2>1, <2>2 DEF NetSound, HeaderFirst
<1>2. /\ m \in Net /\ m.state = "none" /\ m.up = <<>> /\ m.buffered = 0
      /\ m.down = <<>> /\ m.breaks = net.breaks
  BY <1>1, UnlinkedFacts
<1>3. page' = q /\ net' = m /\ srv' = srv
  BY DEF SockError
<1>4. /\ PageSound(q) /\ q.sock = "none"
      /\ \A f \in {"at", "drawn", "drag", "dirty", "text", "typing"} : q[f] = page[f]
  BY <1>1, AfterFailureSound
<1>. HIDE DEF q, m
<1>5. SocketsAgree(q, m)
  BY <1>2, <1>4 DEF SocketsAgree
<1>. QED
  BY <1>1, <1>2, <1>3, <1>4, <1>5, EmptySocketFits DEF WebInvariant

LEMMA BreakKeeps ==
    ASSUME WebInvariant, Break
    PROVE  Fits(page', net', srv', Watching)
<1>. DEFINE m == IF page.state = "unloaded" THEN Unlinked(net)
                 ELSE [NoNet EXCEPT !.state = "broken", !.breaks = net.breaks + 1]
            t == [srv EXCEPT !.conn = "none", !.todo = {}]
<1>1. /\ PageSound(page) /\ net \in Net /\ srv \in Server /\ SocketsAgree(page, net)
      /\ net.state \in {"connecting", "up"} /\ net.breaks \in Nat
  BY DEF WebInvariant, Fits, Linked, NetSound, ServerSound, Net, Break
<1>2. page' = page /\ net' = m /\ srv' = t
  BY DEF Break
<1>3. /\ m \in Net /\ m.up = <<>> /\ m.buffered = 0 /\ m.down = <<>>
      /\ page.state = "unloaded" => m.state = "none"
      /\ page.state # "unloaded" => m.state = "broken" /\ m.breaks > 0
  <2>1. CASE page.state = "unloaded"
    BY <1>1, <2>1, UnlinkedFacts
  <2>2. CASE page.state # "unloaded"
    <3>. DEFINE b == net.breaks + 1
    <3>1. b \in Nat /\ b > 0
      BY <1>1
    <3>. HIDE DEF b
    <3>2. m = [state |-> "broken", up |-> <<>>, buffered |-> 0, down |-> <<>>, breaks |-> b]
      BY <2>2 DEF NoNet, b
    <3>. QED
      BY <2>2, <3>1, <3>2, NetTyped
  <2>. QED
    BY <2>1, <2>2
<1>4. /\ ServerSound(t) /\ t.conn = "none" /\ t.tile = srv.tile /\ t.typing = srv.typing
  BY <1>1 DEF ServerSound, Server
<1>. HIDE DEF m, t
<1>5. SocketsAgree(page, m)
  BY <1>1, <1>3 DEF SocketsAgree, PageSound
<1>6. m.breaks > 0 \/ page.state \in {"error", "unloaded"}
  BY <1>3
<1>7. m.state # "up" /\ (m.state = "broken" => m.breaks > 0)
  BY <1>3 DEF PageSound
<1>. QED
  BY <1>1, <1>2, <1>3, <1>4, <1>5, <1>6, <1>7, EmptySocketFits DEF WebInvariant

LEMMA SockOpenKeeps ==
    ASSUME WebInvariant, SockOpen
    PROVE  Fits(page', net', srv', Watching)
<1>. DEFINE o == [page EXCEPT !.sock = "open"]
            q == Sends(o)
            u == [net EXCEPT !.state = "up"]
            m == Carries(u, Header)
            t == [srv EXCEPT !.conn = "new"]
<1>1. /\ PageSound(page) /\ NetSound(net) /\ ServerSound(srv)
      /\ net.state = "connecting" /\ page.sock = "connecting" /\ page.state = "connecting"
  <2>1. /\ PageSound(page) /\ NetSound(net) /\ ServerSound(srv) /\ net.state = "connecting"
        /\ SocketsAgree(page, net)
    BY DEF WebInvariant, Fits, Linked, SockOpen
  <2>2. page.sock = "connecting"
    BY <2>1 DEF PageSound, Page, SocketsAgree
  <2>3. page.state = "connecting"
    BY <2>1, <2>2 DEF PageSound, Page
  <2>. QED
    BY <2>1, <2>2, <2>3
<1>2. page' = q /\ net' = m /\ srv' = t
  BY DEF SockOpen
<1>3. Header \in Command /\ Header.kind \in Headers
  BY DEF Header, NumMessagesReceived, Command, Headers
<1>4. /\ PageSound(o) /\ o.sock = "open"
      /\ \A f \in {"state", "at", "drawn", "drag", "dirty", "typing"} : o[f] = page[f]
  <2>1. /\ o \in Page /\ o.sock = "open"
        /\ \A f \in {"state", "wait", "failures", "keepAlive", "resend", "at", "drawn", "drag",
                     "dirty", "text", "typing", "shouting", "shoutTimer", "threw"} : o[f] = page[f]
    BY <1>1 DEF PageSound, Page
  <2>. HIDE DEF o
  <2>. QED
    BY <1>1, <2>1 DEF PageSound
<1>. HIDE DEF o
<1>5. /\ PageSound(q) /\ q.sock = "open" /\ q.state = "connecting"
      /\ \A f \in {"at", "drawn", "drag", "dirty", "typing"} : q[f] = page[f]
  BY <1>1, <1>4, SendsSound
<1>6. /\ NetSound(u) /\ u.state = "up" /\ u.up = <<>> /\ u.down = <<>> /\ u.breaks = net.breaks
  <2>1. net \in Net /\ net.up = <<>> /\ net.down = <<>> /\ net.buffered = 0
    BY <1>1 DEF NetSound
  <2>2. u \in Net
    BY <2>1 DEF Net
  <2>3. /\ u.state = "up" /\ u.up = <<>> /\ u.down = <<>> /\ u.buffered = 0
        /\ u.breaks = net.breaks
    BY <2>1 DEF Net
  <2>. HIDE DEF u
  <2>4. NetSound(u)
    BY <2>2, <2>3, WebAssumption DEF NetSound
  <2>. QED
    BY <2>3, <2>4
<1>. HIDE DEF q, u
<1>. DEFINE h == Header
<1>7. h \in Command /\ h.kind \in Headers
  BY <1>3
<1>. HIDE DEF h
<1>8. /\ NetSound(m) /\ m.state = "up" /\ m.breaks = net.breaks /\ m.down = <<>>
      /\ m.up = Append(<<>>, h)
  BY <1>6, <1>7, CarriesSound DEF h
<1>. HIDE DEF m
<1>9. Len(m.up) = 1 /\ m.up[1] = h /\ m.up # <<>>
  BY <1>8
<1>10. /\ ServerSound(t) /\ t.conn = "new" /\ t.tile = srv.tile /\ t.typing = srv.typing
  BY <1>1 DEF ServerSound, Server
<1>. HIDE DEF t
<1>11. Linked(q, m, t)
  <2>1. HeaderFirst(m, t)
    BY <1>7, <1>8, <1>9, <1>10 DEF HeaderFirst
  <2>2. SocketsAgree(q, m) /\ InGameWhenHeard(q, t)
    BY <1>5, <1>8 DEF SocketsAgree, InGameWhenHeard
  <2>. QED
    BY <1>5, <1>8, <1>10, <2>1, <2>2 DEF Linked
<1>12. TypingFollows(q, m, t)
  <2>1. Silent(m.up)
    BY <1>7, <1>9 DEF Silent, SaysTyping, Headers
  <2>. QED
    BY <1>1, <1>5, <1>8, <1>10, <2>1 DEF WebInvariant, Fits, TypingFollows
<1>13. Watching => TileFollows(q, m, t)
  <2>1. \A i \in 1..Len(m.up) : m.up[i].kind # "MOVE_TILE"
    BY <1>7, <1>9 DEF Headers
  <2>2. 1..Len(m.down) = {}
    BY <1>8
  <2>. QED
    BY <1>5, <1>10, <2>1, <2>2
       DEF WebInvariant, Fits, TileFollows, OnlyWatches, NoTileYet
<1>. QED
  BY <1>2, <1>11, <1>12, <1>13 DEF Fits

-----------------------------------------------------------------------------
(* The timers and the player.                                              *)

LEMMA Parts ==
    ASSUME WebInvariant
    PROVE  /\ PageSound(page) /\ page \in Page /\ NetSound(net) /\ net \in Net
           /\ ServerSound(srv) /\ srv \in Server
           /\ SocketsAgree(page, net) /\ HeaderFirst(net, srv) /\ InGameWhenHeard(page, srv)
           /\ Playing => page.sock = "open"
BY DEF WebInvariant, Fits, Linked, PageSound, NetSound, ServerSound, Playing

LEMMA CommandsOfTheGame ==
    /\ \A kind \in {"KEEP_ALIVE", "TURN", "SEND_MESSAGE", "SHOUT", "LEAVE"} :
         [kind |-> kind] \in Command
    /\ \A place \in Place : [kind |-> "MOVE_TILE", value |-> place] \in Command
    /\ \A b \in BOOLEAN : [kind |-> "TYPING", value |-> b] \in Command
BY DEF Command

LEMMA KeepAliveKeeps ==
    ASSUME WebInvariant, KeepAlive
    PROVE  Fits(page', net', srv', Watching)
<1>. DEFINE q == [page EXCEPT !.keepAlive = FALSE]
            c == [kind |-> "KEEP_ALIVE"]
<1>1. PageSound(page) /\ page \in Page /\ page.sock = "open"
  BY Parts DEF KeepAlive, PageSound
<1>2. page' = Sends(q) /\ net' = Carries(net, c) /\ srv' = srv
  BY <1>1 DEF KeepAlive, Send
<1>3. /\ q \in Page
      /\ \A f \in {"state", "sock", "wait", "failures", "resend", "at", "drawn", "drag",
                   "dirty", "text", "typing", "shouting", "shoutTimer", "threw"} : q[f] = page[f]
      /\ ~q.keepAlive
  BY <1>1 DEF Page
<1>. HIDE DEF q
<1>4. PageSound(q)
  BY <1>1, <1>3 DEF PageSound
<1>5. c \in Command /\ c.kind = "KEEP_ALIVE"
  BY CommandsOfTheGame
<1>. HIDE DEF c
<1>6. ~SaysTyping(c) /\ c.kind \notin Headers /\ c.kind # "MOVE_TILE"
  BY <1>5 DEF SaysTyping, Headers
<1>. QED
  BY <1>1, <1>2, <1>3, <1>4, <1>5, <1>6, SendFits DEF WebInvariant

\* The tile is sent if the socket has room, or will be.
LEMMA TrySendTilesFits ==
    ASSUME WebInvariant, Playing, ~Watching, NEW q, PageSound(q), q.state = page.state,
           q.sock = page.sock, q.typing = page.typing, TrySendTiles(q)
    PROVE  Fits(page', net', srv, Watching)
<1>1. q \in Page /\ page.sock = "open" /\ page.state = "in-progress" /\ q.state = "in-progress"
  BY Parts DEF PageSound, Playing
<1>2. CASE ~q.dirty
  <2>. DEFINE r == [q EXCEPT !.resend = FALSE]
  <2>1. page' = r /\ net' = net
    BY <1>1, <1>2 DEF TrySendTiles
  <2>2. /\ r \in Page /\ ~r.resend
        /\ \A f \in {"state", "sock", "wait", "failures", "keepAlive", "at", "drawn", "drag",
                     "dirty", "text", "typing", "shouting", "shoutTimer", "threw"} : r[f] = q[f]
    BY <1>1 DEF Page
  <2>. HIDE DEF r
  <2>3. PageSound(r)
    BY <2>2 DEF PageSound
  <2>. QED
    BY <2>1, <2>2, <2>3, PageFits DEF WebInvariant
<1>3. CASE q.dirty /\ Flooded
  <2>. DEFINE r == [q EXCEPT !.resend = TRUE]
  <2>1. page' = r /\ net' = net
    BY <1>1, <1>3 DEF TrySendTiles
  <2>2. /\ r \in Page /\ r.resend
        /\ \A f \in {"state", "sock", "wait", "failures", "keepAlive", "at", "drawn", "drag",
                     "dirty", "text", "typing", "shouting", "shoutTimer", "threw"} : r[f] = q[f]
    BY <1>1 DEF Page
  <2>. HIDE DEF r
  <2>3. PageSound(r)
    BY <1>1, <1>3, <2>2 DEF PageSound
  <2>. QED
    BY <2>1, <2>2, <2>3, PageFits DEF WebInvariant
<1>4. CASE q.dirty /\ ~Flooded
  <2>. DEFINE r == [q EXCEPT !.resend = FALSE, !.dirty = FALSE]
              c == [kind |-> "MOVE_TILE", value |-> q.at]
  <2>1. page' = Sends(r) /\ net' = Carries(net, c)
    BY <1>1, <1>4 DEF TrySendTiles, Send
  <2>2. /\ r \in Page /\ ~r.resend /\ ~r.dirty
        /\ \A f \in {"state", "sock", "wait", "failures", "keepAlive", "at", "drawn", "drag",
                     "text", "typing", "shouting", "shoutTimer", "threw"} : r[f] = q[f]
    BY <1>1 DEF Page
  <2>. HIDE DEF r
  <2>3. PageSound(r)
    BY <1>1, <2>2 DEF PageSound
  <2>4. q.at \in Place
    BY <1>1, <1>4 DEF PageSound, Page, Spot
  <2>5. c \in Command /\ c.kind = "MOVE_TILE"
    BY <2>4, CommandsOfTheGame
  <2>. HIDE DEF c
  <2>6. ~SaysTyping(c) /\ c.kind \notin Headers
    BY <2>5 DEF SaysTyping, Headers
  <2>. QED
    BY <1>1, <2>1, <2>2, <2>3, <2>5, <2>6, SendFits DEF WebInvariant
<1>. QED
  BY <1>2, <1>3, <1>4

LEMMA ResendTimeoutKeeps ==
    ASSUME WebInvariant, ResendTimeout
    PROVE  Fits(page', net', srv', Watching)
<1>1. page.resend /\ TrySendTiles(page) /\ srv' = srv
  BY DEF ResendTimeout
<1>2. Playing /\ page.dirty /\ PageSound(page)
  BY <1>1, Parts DEF PageSound, Playing
<1>3. ~Watching
  BY <1>2 DEF WebInvariant, Fits, TileFollows, OnlyWatches
<1>. QED
  BY <1>1, <1>2, <1>3, TrySendTilesFits

LEMMA ShoutStopsKeeps ==
    ASSUME WebInvariant, ShoutStops
    PROVE  Fits(page', net', srv', Watching)
<1>. DEFINE q == [page EXCEPT !.shoutTimer = FALSE, !.shouting = NoOne]
<1>1. PageSound(page) /\ page \in Page
  BY Parts
<1>2. page' = q /\ net' = net /\ srv' = srv
  BY DEF ShoutStops
<1>3. /\ q \in Page /\ ~q.shoutTimer /\ q.shouting = NoOne
      /\ \A f \in {"state", "sock", "wait", "failures", "keepAlive", "resend", "at", "drawn",
                   "drag", "dirty", "text", "typing", "threw"} : q[f] = page[f]
  BY <1>1 DEF Page, Who
<1>. HIDE DEF q
<1>4. PageSound(q)
  BY <1>1, <1>3 DEF PageSound
<1>. QED
  BY <1>2, <1>3, <1>4, PageFits DEF WebInvariant

LEMMA TurnKeeps ==
    ASSUME WebInvariant, Turn
    PROVE  Fits(page', net', srv', Watching)
<1>. DEFINE c == [kind |-> "TURN"]
<1>1. PageSound(page) /\ page.sock = "open"
  BY Parts DEF Turn
<1>2. page' = Sends(page) /\ net' = Carries(net, c) /\ srv' = srv
  BY DEF Turn, Send
<1>3. c \in Command /\ c.kind = "TURN"
  BY CommandsOfTheGame
<1>. HIDE DEF c
<1>4. ~SaysTyping(c) /\ c.kind \notin Headers /\ c.kind # "MOVE_TILE"
  BY <1>3 DEF SaysTyping, Headers
<1>. QED
  BY <1>1, <1>2, <1>3, <1>4, SendFits DEF WebInvariant

LEMMA ShoutKeeps ==
    ASSUME WebInvariant, Shout
    PROVE  Fits(page', net', srv', Watching)
<1>. DEFINE c == [kind |-> "SHOUT"]
<1>1. PageSound(page) /\ page.sock = "open"
  BY Parts DEF Shout
<1>2. page' = Sends(page) /\ net' = Carries(net, c) /\ srv' = srv
  BY DEF Shout, Send
<1>3. c \in Command /\ c.kind = "SHOUT"
  BY CommandsOfTheGame
<1>. HIDE DEF c
<1>4. ~SaysTyping(c) /\ c.kind \notin Headers /\ c.kind # "MOVE_TILE"
  BY <1>3 DEF SaysTyping, Headers
<1>. QED
  BY <1>1, <1>2, <1>3, <1>4, SendFits DEF WebInvariant

LEMMA DraggedSound ==
    ASSUME PageSound(page), NEW drag \in {"none", "held", "moved"}
    PROVE  LET q == [page EXCEPT !.drag = drag] IN
           /\ PageSound(q)
           /\ \A f \in {"state", "sock", "typing"} : q[f] = page[f]
<1>. DEFINE q == [page EXCEPT !.drag = drag]
<1>1. /\ q \in Page
      /\ \A f \in {"state", "sock", "wait", "failures", "keepAlive", "resend", "at", "drawn",
                   "dirty", "text", "typing", "shouting", "shoutTimer", "threw"} : q[f] = page[f]
  BY DEF PageSound, Page
<1>. HIDE DEF q
<1>2. PageSound(q)
  BY <1>1 DEF PageSound
<1>. QED
  BY <1>1, <1>2 DEF q

LEMMA DragStartKeeps ==
    ASSUME WebInvariant, DragStart
    PROVE  Fits(page', net', srv', Watching)
<1>. DEFINE q == [page EXCEPT !.drag = "held"]
<1>1. PageSound(page) /\ page' = q /\ net' = net /\ srv' = srv /\ ~Watching
  BY Parts DEF DragStart, Watching
<1>2. PageSound(q) /\ \A f \in {"state", "sock", "typing"} : q[f] = page[f]
  BY <1>1, DraggedSound
<1>. HIDE DEF q
<1>. QED
  BY <1>1, <1>2, PageFits DEF WebInvariant

\* Who only watches has hold of nothing.
LEMMA NobodyDrags ==
    ASSUME WebInvariant, page.drag # "none"
    PROVE  ~Watching
BY DEF WebInvariant, Fits, TileFollows, OnlyWatches

LEMMA DragEndKeeps ==
    ASSUME WebInvariant, DragEnd
    PROVE  Fits(page', net', srv', Watching)
<1>. DEFINE q == [page EXCEPT !.drag = "none"]
<1>1. PageSound(page) /\ page' = q /\ net' = net /\ srv' = srv /\ ~Watching
  BY Parts, NobodyDrags DEF DragEnd
<1>2. PageSound(q) /\ \A f \in {"state", "sock", "typing"} : q[f] = page[f]
  BY <1>1, DraggedSound
<1>. HIDE DEF q
<1>. QED
  BY <1>1, <1>2, PageFits DEF WebInvariant

LEMMA PutAtFits ==
    ASSUME WebInvariant, Playing, ~Watching, NEW p, PageSound(p), p.state = page.state,
           p.sock = page.sock, p.typing = page.typing, NEW place \in Place, PutAt(p, place)
    PROVE  Fits(page', net', srv, Watching)
<1>. DEFINE drags == p.drags + 1
            q == [p EXCEPT !.at = place, !.drawn = place, !.dirty = TRUE, !.drags = drags]
<1>1. p \in Page /\ place \in Spot /\ place # Nowhere
  BY WebAssumption DEF PageSound, Spot
<1>2. drags \in Nat
  BY <1>1 DEF Page
<1>3. TrySendTiles(q)
  BY <1>1 DEF PutAt, Page
<1>. HIDE DEF drags
<1>4. /\ q \in Page /\ q.at = place /\ q.drawn = place /\ q.dirty
      /\ \A f \in {"state", "sock", "wait", "failures", "keepAlive", "resend",
                   "text", "typing", "shouting", "shoutTimer", "threw"} : q[f] = p[f]
  BY <1>1, <1>2 DEF Page
<1>. HIDE DEF q
<1>5. PageSound(q)
  BY <1>1, <1>4 DEF PageSound
<1>. QED
  BY <1>3, <1>4, <1>5, TrySendTilesFits

LEMMA DragMoveKeeps ==
    ASSUME WebInvariant, DragMove \/ DragEndBesideAnother
    PROVE  Fits(page', net', srv', Watching)
<1>1. /\ PageSound(page) /\ Playing /\ ~Watching /\ srv' = srv
      /\ \E drag \in {"none", "held", "moved"}, place \in Place :
           PutAt([page EXCEPT !.drag = drag], place)
  <2>1. PageSound(page) /\ Playing /\ page.drag # "none" /\ srv' = srv
    BY Parts DEF DragMove, DragEndBesideAnother
  <2>2. CASE DragMove
    BY <2>1, <2>2, NobodyDrags DEF DragMove
  <2>3. CASE DragEndBesideAnother
    BY <2>1, <2>3, NobodyDrags DEF DragEndBesideAnother
  <2>. QED
    BY <2>2, <2>3
<1>2. PICK drag \in {"none", "held", "moved"}, place \in Place :
        PutAt([page EXCEPT !.drag = drag], place)
  BY <1>1
<1>. DEFINE q == [page EXCEPT !.drag = drag]
<1>3. PageSound(q) /\ \A f \in {"state", "sock", "typing"} : q[f] = page[f]
  BY <1>1, DraggedSound
<1>4. PutAt(q, place)
  BY <1>2
<1>. HIDE DEF q
<1>. QED
  BY <1>1, <1>3, <1>4, PutAtFits

LEMMA InputKeeps ==
    ASSUME WebInvariant, Input
    PROVE  Fits(page', net', srv', Watching)
<1>. DEFINE text == ~page.text
            q == [page EXCEPT !.text = text, !.typing = text]
            c == [kind |-> "TYPING", value |-> text]
<1>1. /\ PageSound(page) /\ page \in Page /\ Playing /\ page.sock = "open"
      /\ (page.text <=> page.typing) /\ text \in BOOLEAN
  BY Parts DEF Input, PageSound
<1>2. page' = Sends(q) /\ net' = Carries(net, c) /\ srv' = srv
  <2>. DEFINE p == [page EXCEPT !.text = ~@]
  <2>1. p.text = text /\ p.typing = page.typing
    BY <1>1 DEF Page
  <2>2. p.text # p.typing
    BY <1>1, <2>1 DEF Page
  <2>3. Send([p EXCEPT !.typing = p.text], [kind |-> "TYPING", value |-> p.text])
    BY <2>2 DEF Input
  <2>4. [p EXCEPT !.typing = p.text] = q
    BY <1>1, <2>1 DEF Page
  <2>. QED
    BY <2>1, <2>3, <2>4 DEF Input, Send
<1>. HIDE DEF text
<1>3. /\ q \in Page /\ (q.text <=> q.typing) /\ (q.typing <=> text)
      /\ \A f \in {"state", "sock", "wait", "failures", "keepAlive", "resend", "at", "drawn",
                   "drag", "dirty", "shouting", "shoutTimer", "threw"} : q[f] = page[f]
  BY <1>1 DEF Page
<1>. HIDE DEF q
<1>4. PageSound(q)
  BY <1>1, <1>3 DEF PageSound
<1>5. c \in Command /\ c.kind = "TYPING" /\ c.value = text
  BY <1>1, CommandsOfTheGame
<1>. HIDE DEF c
<1>6. /\ SaysTyping(c) /\ (TypingSaid(c) <=> q.typing) /\ c.kind \notin Headers
      /\ c.kind # "MOVE_TILE" /\ page.state = "in-progress"
  BY <1>1, <1>3, <1>5 DEF SaysTyping, TypingSaid, Headers, Playing
<1>. QED
  BY <1>1, <1>2, <1>3, <1>4, <1>5, <1>6, SendFits DEF WebInvariant

LEMMA SendCurrentMessageKeeps ==
    ASSUME WebInvariant, SendCurrentMessage
    PROVE  Fits(page', net', srv', Watching)
<1>. DEFINE q == [page EXCEPT !.text = FALSE, !.typing = FALSE]
            c == [kind |-> "SEND_MESSAGE"]
<1>1. /\ PageSound(page) /\ page \in Page /\ page.sock = "open" /\ page.state = "in-progress"
  BY Parts DEF SendCurrentMessage, Playing
<1>2. page' = Sends(q) /\ net' = Carries(net, c) /\ srv' = srv
  BY DEF SendCurrentMessage, Send, Sent
<1>3. /\ q \in Page /\ ~q.text /\ ~q.typing
      /\ \A f \in {"state", "sock", "wait", "failures", "keepAlive", "resend", "at", "drawn",
                   "drag", "dirty", "shouting", "shoutTimer", "threw"} : q[f] = page[f]
  BY <1>1 DEF Page
<1>. HIDE DEF q
<1>4. PageSound(q)
  BY <1>1, <1>3 DEF PageSound
<1>5. c \in Command /\ c.kind = "SEND_MESSAGE"
  BY CommandsOfTheGame
<1>. HIDE DEF c
<1>6. /\ SaysTyping(c) /\ (TypingSaid(c) <=> q.typing) /\ c.kind \notin Headers
      /\ c.kind # "MOVE_TILE"
  BY <1>3, <1>5 DEF SaysTyping, TypingSaid, Headers
<1>. QED
  BY <1>1, <1>2, <1>3, <1>4, <1>5, <1>6, SendFits DEF WebInvariant

\* A page that has gone leaves the socket to deliver what it holds.
LEMMA GoneFits ==
    ASSUME NEW p, NEW n, NEW s, NEW w, Fits(p, n, s, w), n.state = "up",
           NEW q, PageSound(q), q.state = "unloaded",
           q.at = p.at /\ q.drawn = p.drawn /\ q.drag = p.drag /\ q.dirty = p.dirty
    PROVE  Fits(q, n, s, w)
<1>1. q.sock = "none"
  BY DEF PageSound
<1>2. Linked(q, n, s)
  BY <1>1 DEF Fits, Linked, SocketsAgree, InGameWhenHeard
<1>3. TypingFollows(q, n, s)
  BY DEF TypingFollows
<1>4. w => TileFollows(q, n, s)
  BY DEF Fits, TileFollows, OnlyWatches, NoTileYet, TileFresh, Refused
<1>. QED
  BY <1>2, <1>3, <1>4 DEF Fits

LEMMA UnloadedSound ==
    ASSUME NEW p, PageSound(p), p.state # "error"
    PROVE  LET q == [Disconnected(p) EXCEPT !.state = "unloaded"] IN
           /\ PageSound(q) /\ q.state = "unloaded" /\ q.sock = "none"
           /\ \A f \in {"at", "drawn", "drag", "dirty", "text", "typing"} : q[f] = p[f]
<1>. DEFINE d == Disconnected(p)
            q == [d EXCEPT !.state = "unloaded"]
<1>1. /\ d \in Page /\ d.sock = "none" /\ ~d.wait /\ ~d.keepAlive /\ ~d.resend
      /\ \A f \in {"failures", "at", "drawn", "drag", "dirty", "text", "typing",
                   "shouting", "shoutTimer", "threw"} : d[f] = p[f]
  BY DisconnectedSound
<1>. HIDE DEF d
<1>2. q \in Page
  BY <1>1 DEF Page
<1>3. /\ q.state = "unloaded" /\ q.sock = "none" /\ ~q.wait /\ ~q.keepAlive /\ ~q.resend
      /\ \A f \in {"failures", "at", "drawn", "drag", "dirty", "text", "typing",
                   "shouting", "shoutTimer", "threw"} : q[f] = p[f]
  BY <1>1 DEF Page
<1>. HIDE DEF q
<1>4. PageSound(q)
  BY <1>2, <1>3 DEF PageSound
<1>. QED
  BY <1>3, <1>4 DEF q, d

LEMMA UnloadKeeps ==
    ASSUME WebInvariant, Unload
    PROVE  Fits(page', net', srv', Watching)
<1>1. /\ PageSound(page) /\ net \in Net /\ SocketsAgree(page, net) /\ ServerSound(srv)
      /\ HeaderFirst(net, srv) /\ page.state \in {"connecting", "in-progress"} /\ srv' = srv
  BY Parts DEF Unload
<1>2. CASE page.sock = "open" /\ net.state = "up"
  <2>. DEFINE c == [kind |-> "LEAVE"]
              p == Sends(page)
              q == [Disconnected(p) EXCEPT !.state = "unloaded"]
              m == Carries(net, c)
  <2>1. page' = q /\ net' = m
    BY <1>2 DEF Unload
  <2>2. c \in Command /\ c.kind = "LEAVE"
    BY CommandsOfTheGame
  <2>. HIDE DEF c
  <2>3. ~SaysTyping(c) /\ c.kind \notin Headers /\ c.kind # "MOVE_TILE"
    BY <2>2 DEF SaysTyping, Headers
  <2>4. Fits(p, m, srv, Watching)
    BY <1>1, <1>2, <2>2, <2>3, SendFits DEF WebInvariant
  <2>5. /\ PageSound(p)
        /\ \A f \in {"state", "at", "drawn", "drag", "dirty"} : p[f] = page[f]
    BY <1>1, <1>2, SendsSound
  <2>. HIDE DEF p
  <2>6. /\ PageSound(q) /\ q.state = "unloaded"
        /\ \A f \in {"at", "drawn", "drag", "dirty"} : q[f] = p[f]
    BY <1>1, <2>5, UnloadedSound
  <2>7. m.state = "up"
    BY <1>2, <2>2, CarriesSound, Parts
  <2>. HIDE DEF q, m
  <2>. QED
    BY <1>1, <2>1, <2>4, <2>6, <2>7, GoneFits
<1>3. CASE ~(page.sock = "open" /\ net.state = "up")
  <2>. DEFINE q == page'
              m == Unlinked(net)
  <2>1. net' = m
    BY <1>3 DEF Unload
  <2>2. /\ PageSound(q) /\ q.state = "unloaded" /\ q.sock = "none"
        /\ \A f \in {"at", "drawn", "drag", "dirty", "typing"} : q[f] = page[f]
    <3>1. CASE page.sock = "open"
      <4>. DEFINE p == Sends(page)
      <4>1. /\ PageSound(p)
            /\ \A f \in {"state", "at", "drawn", "drag", "dirty", "typing"} : p[f] = page[f]
        BY <1>1, <3>1, SendsSound
      <4>2. page' = [Disconnected(p) EXCEPT !.state = "unloaded"]
        BY <3>1 DEF Unload
      <4>. HIDE DEF p
      <4>. QED
        BY <1>1, <4>1, <4>2, UnloadedSound
    <3>2. CASE page.sock # "open"
      <4>1. page' = [Disconnected(page) EXCEPT !.state = "unloaded"]
        BY <3>2 DEF Unload
      <4>. QED
        BY <1>1, <4>1, UnloadedSound
    <3>. QED
      BY <3>1, <3>2
  <2>3. /\ m \in Net /\ m.state = "none" /\ m.up = <<>> /\ m.buffered = 0
        /\ m.down = <<>> /\ m.breaks = net.breaks
    BY <1>1, UnlinkedFacts
  <2>4. srv.conn = "none"
    BY <1>1, <1>3 DEF SocketsAgree, HeaderFirst, PageSound, Page
  <2>. HIDE DEF q, m
  <2>5. SocketsAgree(q, m)
    BY <2>2, <2>3 DEF SocketsAgree
  <2>6. Fits(q, m, srv, Watching)
    BY <1>1, <2>2, <2>3, <2>4, <2>5, EmptySocketFits DEF WebInvariant
  <2>. QED
    BY <1>1, <2>1, <2>6 DEF q
<1>. QED
  BY <1>2, <1>3

LEMMA TransmitKeeps ==
    ASSUME WebInvariant, Transmit
    PROVE  Fits(page', net', srv', Watching)
<1>. DEFINE b == net.buffered - 1
            m == [net EXCEPT !.buffered = b]
<1>1. /\ net \in Net /\ NetSound(net) /\ net.buffered \in Nat /\ net.buffered > 0
  BY Parts DEF Transmit, Net
<1>2. page' = page /\ net' = m /\ srv' = srv
  BY <1>1 DEF Transmit, Net
<1>3. b \in Nat /\ b <= net.buffered
  BY <1>1
<1>. HIDE DEF b
<1>4. /\ m \in Net /\ m.buffered = b
      /\ \A f \in {"state", "up", "down", "breaks"} : m[f] = net[f]
  BY <1>1, <1>3 DEF Net
<1>. HIDE DEF m
<1>5. Len(net.up) \in Nat
  BY <1>1 DEF Net
<1>6. NetSound(m)
  BY <1>1, <1>3, <1>4, <1>5 DEF NetSound
<1>7. Linked(page, m, srv)
  BY <1>4, <1>6 DEF WebInvariant, Fits, Linked, SocketsAgree, HeaderFirst
<1>8. TypingFollows(page, m, srv)
  BY <1>4 DEF WebInvariant, Fits, TypingFollows
<1>9. Watching => TileFollows(page, m, srv)
  BY <1>4 DEF WebInvariant, Fits, TileFollows, OnlyWatches, NoTileYet, TileFresh, Refused
<1>. QED
  BY <1>2, <1>7, <1>8, <1>9 DEF Fits

-----------------------------------------------------------------------------
(* The server.                                                             *)

LEMMA ToldSound ==
    ASSUME NEW s \in Server, NEW kind \in Kinds
    PROVE  /\ Told(s, kind) \in Server
           /\ \A f \in {"person", "offset", "next", "conn", "said", "tile", "shouting",
                        "typing"} : Told(s, kind)[f] = s[f]
           /\ s.conn = "open" => Told(s, kind).todo = s.todo \cup {kind}
           /\ s.conn # "open" => Told(s, kind) = s
<1>1. CASE s.conn = "open"
  <2>. DEFINE todo == s.todo \cup {kind}
  <2>1. todo \in SUBSET Kinds
    BY DEF Server
  <2>2. Told(s, kind) = [s EXCEPT !.todo = todo]
    BY <1>1 DEF Told, Server
  <2>. HIDE DEF todo
  <2>3. Told(s, kind).todo = todo
    BY <2>2 DEF Server
  <2>. QED
    BY <1>1, <2>1, <2>2, <2>3 DEF Server, todo
<1>2. CASE s.conn # "open"
  BY <1>2 DEF Told
<1>. QED
  BY <1>1, <1>2

\* The game changes for everybody but for the typing of this player.
Newer(s, t, w) ==
    /\ ServerSound(t) /\ t.conn = s.conn
    /\ t.person = "known" => s.person = "known"
    /\ w => t.tile.by # Me
    /\ t.tile.at = Nowhere => s.tile.at = Nowhere
    /\ s.conn = "open" => \/ "TILE" \in t.todo
                          \/ t.tile.at = s.tile.at /\ "TILE" \notin s.todo
    /\ "PLAYER_ID" \in t.todo => "PLAYER_ID" \in s.todo

LEMMA ToldNewer ==
    ASSUME NEW s, ServerSound(s), NEW w, w => s.tile.by # Me, NEW kind \in {"END"}
    PROVE  Newer(s, Told(s, kind), w) /\ Told(s, kind).typing = s.typing
<1>. DEFINE t == Told(s, kind)
<1>1. /\ t \in Server /\ s \in Server
      /\ \A f \in {"person", "conn", "tile", "shouting", "typing"} : t[f] = s[f]
      /\ s.conn = "open" => t.todo = s.todo \cup {kind}
      /\ s.conn # "open" => t = s
  BY ToldSound DEF ServerSound, Kinds, BadKinds
<1>. HIDE DEF t
<1>2. ServerSound(t)
  BY <1>1 DEF ServerSound
<1>. QED
  BY <1>1, <1>2 DEF Newer, t

LEMMA MovedNewer ==
    ASSUME NEW s, ServerSound(s), NEW w, w => s.tile.by # Me, NEW place \in Place,
           NEW by \in Who, w => by # Me
    PROVE  Newer(s, Moved(s, place, by), w) /\ Moved(s, place, by).typing = s.typing
<1>1. s \in Server /\ place \in Spot /\ place # Nowhere
  BY WebAssumption DEF ServerSound, Spot
<1>2. CASE s.tile.at = place
  BY <1>2, <1>1 DEF Moved, Newer
<1>3. CASE s.tile.at # place
  <2>. DEFINE tile == [at |-> place, by |-> by]
              u == [s EXCEPT !.tile = tile]
              t == Told(u, "TILE")
  <2>1. Moved(s, place, by) = t
    BY <1>3 DEF Moved
  <2>2. tile \in [at : Spot, by : Who] /\ tile.at = place /\ tile.by = by
    BY <1>1
  <2>. HIDE DEF tile
  <2>3. /\ u \in Server /\ u.tile = tile
        /\ \A f \in {"person", "conn", "todo", "shouting", "typing"} : u[f] = s[f]
    BY <1>1, <2>2 DEF Server
  <2>. HIDE DEF u
  <2>4. /\ t \in Server
        /\ \A f \in {"person", "conn", "tile", "shouting", "typing"} : t[f] = u[f]
        /\ u.conn = "open" => t.todo = u.todo \cup {"TILE"}
        /\ u.conn # "open" => t = u
    BY <2>3, ToldSound DEF Kinds
  <2>. HIDE DEF t
  <2>5. ServerSound(t)
    BY <1>1, <2>2, <2>3, <2>4 DEF ServerSound
  <2>6. Newer(s, t, w)
    BY <1>1, <2>2, <2>3, <2>4, <2>5 DEF Newer
  <2>. QED
    BY <2>1, <2>3, <2>4, <2>6
<1>. QED
  BY <1>2, <1>3

LEMMA ShoutedNewer ==
    ASSUME NEW s, ServerSound(s), NEW w, w => s.tile.by # Me, NEW by \in {Me, Other}
    PROVE  Newer(s, Shouted(s, by), w) /\ Shouted(s, by).typing = s.typing
<1>. DEFINE u == [s EXCEPT !.shouting = by]
            t == Told(u, "PLAYER_SHOUTED")
<1>1. s \in Server /\ by \in Who /\ by # NoOne
  BY DEF ServerSound, Who, NoOne, Me, Other
<1>2. Shouted(s, by) = t
  BY DEF Shouted
<1>3. /\ u \in Server /\ u.shouting = by
      /\ \A f \in {"person", "conn", "todo", "tile", "typing"} : u[f] = s[f]
  BY <1>1 DEF Server
<1>. HIDE DEF u
<1>4. /\ t \in Server
      /\ \A f \in {"person", "conn", "tile", "shouting", "typing"} : t[f] = u[f]
      /\ u.conn = "open" => t.todo = u.todo \cup {"PLAYER_SHOUTED"}
      /\ u.conn # "open" => t = u
  BY <1>3, ToldSound DEF Kinds
<1>. HIDE DEF t
<1>5. ServerSound(t)
  BY <1>1, <1>3, <1>4 DEF ServerSound
<1>6. Newer(s, t, w)
  BY <1>1, <1>3, <1>4, <1>5 DEF Newer
<1>. QED
  BY <1>2, <1>3, <1>4, <1>6

LEMMA NewerTile ==
    ASSUME NEW p, NEW n, NEW s, NEW t, NEW w, Newer(s, t, w), w, TileFollows(p, n, s)
    PROVE  TileFollows(p, n, t)
<1>1. OnlyWatches(p, n, t)
  BY DEF TileFollows, OnlyWatches, Newer
<1>2. NoTileYet(p, n, t)
  BY DEF TileFollows, NoTileYet, Newer
<1>3. t.conn = "open" => TileFresh(p, n, t) \/ Refused(p, n, t)
  BY DEF TileFollows, TileFresh, Refused, Newer
<1>. QED
  BY <1>1, <1>2, <1>3 DEF TileFollows

LEMMA NewerFits ==
    ASSUME NEW p, NEW n, NEW s, NEW w, Fits(p, n, s, w),
           NEW t, Newer(s, t, w), t.typing = s.typing
    PROVE  Fits(p, n, t, w)
<1>1. Linked(p, n, t)
  BY DEF Fits, Linked, HeaderFirst, InGameWhenHeard, Newer
<1>2. TypingFollows(p, n, t)
  BY DEF Fits, TypingFollows, Newer
<1>3. w => TileFollows(p, n, t)
  BY NewerTile DEF Fits
<1>. QED
  BY <1>1, <1>2, <1>3 DEF Fits

LEMMA NotMine ==
    ASSUME WebInvariant
    PROVE  /\ ServerSound(srv) /\ srv \in Server /\ Fits(page, net, srv, Watching)
           /\ Watching => srv.tile.by # Me
BY Parts DEF WebInvariant, Fits, TileFollows, OnlyWatches

LEMMA ForgottenKeeps ==
    ASSUME WebInvariant, Forgotten
    PROVE  Fits(page', net', srv', Watching)
<1>. DEFINE t == [srv EXCEPT !.person = "gone"]
<1>1. page' = page /\ net' = net /\ srv' = t /\ srv.conn = "none"
  BY DEF Forgotten
<1>2. /\ t \in Server /\ t.person = "gone"
      /\ \A f \in {"conn", "todo", "tile", "shouting", "typing"} : t[f] = srv[f]
  BY NotMine DEF Server
<1>. HIDE DEF t
<1>3. Newer(srv, t, Watching)
  BY <1>1, <1>2, NotMine DEF Newer, ServerSound
<1>. QED
  BY <1>1, <1>2, <1>3, NotMine, NewerFits

LEMMA OtherPlaysKeeps ==
    ASSUME WebInvariant, OtherPlays
    PROVE  Fits(page', net', srv', Watching)
<1>1. page' = page /\ net' = net
  BY DEF OtherPlays
<1>2. Other \in Who /\ Other # Me
  BY DEF Who, Other, Me
<1>3. CASE srv' = [srv EXCEPT !.said = @ + 1]
  <2>. DEFINE said == srv.said + 1
              t == [srv EXCEPT !.said = said]
  <2>1. said \in Nat /\ srv' = t
    BY <1>3, NotMine DEF Server
  <2>. HIDE DEF said
  <2>2. /\ t \in Server
        /\ \A f \in {"person", "conn", "todo", "tile", "shouting", "typing"} : t[f] = srv[f]
    BY <2>1, NotMine DEF Server
  <2>. HIDE DEF t
  <2>3. Newer(srv, t, Watching)
    BY <2>2, NotMine DEF Newer, ServerSound
  <2>. QED
    BY <1>1, <2>1, <2>2, <2>3, NotMine, NewerFits
<1>4. CASE \E place \in Place \ {srv.tile.at} : srv' = Moved(srv, place, Other)
  BY <1>1, <1>2, <1>4, NotMine, MovedNewer, NewerFits
<1>5. CASE srv' = Shouted(srv, Other)
  BY <1>1, <1>5, NotMine, ShoutedNewer, NewerFits
<1>. QED
  BY <1>3, <1>4, <1>5 DEF OtherPlays

\* The server takes the first command from the socket.
LEMMA ReadSound ==
    ASSUME NEW n, NetSound(n), n.state = "up", n.up # <<>>, Len(n.up) > n.buffered
    PROVE  LET m == [n EXCEPT !.up = Tail(@)] IN
           /\ NetSound(m) /\ m.state = "up" /\ m.breaks = n.breaks /\ m.down = n.down
           /\ m.up = Tail(n.up)
           /\ n.up \in Seq(Command) /\ Head(n.up) = n.up[1] /\ n.up[1] \in Command
<1>. DEFINE up == Tail(n.up)
            m == [n EXCEPT !.up = up]
<1>1. n \in Net /\ n.up \in Seq(Command)
  BY DEF NetSound, Net
<1>2. /\ up \in Seq(Command) /\ Len(n.up) \in Nat /\ Len(up) = Len(n.up) - 1
      /\ Head(n.up) = n.up[1] /\ n.up[1] \in Command
  BY <1>1, TailFacts
<1>3. [n EXCEPT !.up = Tail(@)] = m
  BY <1>1 DEF Net
<1>. HIDE DEF up
<1>4. /\ m \in Net /\ m.up = up
      /\ \A f \in {"state", "buffered", "down", "breaks"} : m[f] = n[f]
  BY <1>1, <1>2 DEF Net
<1>. HIDE DEF m
<1>5. n.buffered \in Nat
  BY <1>1 DEF Net
<1>6. NetSound(m)
  BY <1>2, <1>4, <1>5 DEF NetSound
<1>. QED
  BY <1>1, <1>2, <1>3, <1>4, <1>6 DEF up

\* It hears the header: the page is in the game, or refused.
LEMMA HeaderFits ==
    ASSUME NEW p, NEW n, NEW s, NEW w, Fits(p, n, s, w), s.conn = "new",
           Len(n.up) > n.buffered,
           NEW t, ServerSound(t), t.conn = "open", t.tile = s.tile, t.typing = s.typing,
           \/ t.tile.at # Nowhere => "TILE" \in t.todo
           \/ "PLAYER_ID" \notin t.todo
    PROVE  Fits(p, [n EXCEPT !.up = Tail(@)], t, w)
<1>. DEFINE m == [n EXCEPT !.up = Tail(@)]
<1>1. /\ PageSound(p) /\ NetSound(n) /\ HeaderFirst(n, s) /\ SocketsAgree(p, n)
      /\ p.state # "in-progress" /\ n.state = "up" /\ n.up # <<>> /\ n.down = <<>>
  BY DEF Fits, Linked, InGameWhenHeard, HeaderFirst
<1>2. /\ NetSound(m) /\ m.state = "up" /\ m.breaks = n.breaks /\ m.down = n.down
      /\ m.up = Tail(n.up) /\ n.up \in Seq(Command)
  BY <1>1, ReadSound
<1>. HIDE DEF m
<1>3. /\ Len(n.up) \in Nat \ {0} /\ Len(m.up) = Len(n.up) - 1
      /\ \A i \in 1..Len(n.up) - 1 : m.up[i] = n.up[i + 1]
  BY <1>1, <1>2, TailFacts
<1>4. HeaderFirst(m, t)
  <2>1. ASSUME NEW i \in 1..Len(m.up) PROVE m.up[i].kind \notin Headers
    <3>1. m.up[i] = n.up[i + 1] /\ i + 1 \in 1..Len(n.up) /\ i + 1 # 1
      BY <1>3
    <3>. QED
      BY <1>1, <3>1 DEF HeaderFirst
  <2>. QED
    BY <1>2, <2>1 DEF HeaderFirst
<1>5. Linked(p, m, t)
  BY <1>1, <1>2, <1>4 DEF Linked, SocketsAgree, InGameWhenHeard
<1>6. TypingFollows(p, m, t)
  BY <1>1, <1>2, SilentTail DEF Fits, TypingFollows
<1>7. ASSUME w PROVE TileFollows(p, m, t)
  <2>1. TileFollows(p, n, s)
    BY <1>7 DEF Fits
  <2>2. OnlyWatches(p, m, t)
    <3>1. ASSUME NEW i \in 1..Len(m.up) PROVE m.up[i].kind # "MOVE_TILE"
      <4>1. m.up[i] = n.up[i + 1] /\ i + 1 \in 1..Len(n.up)
        BY <1>3
      <4>. QED
        BY <2>1, <4>1 DEF TileFollows, OnlyWatches
    <3>. QED
      BY <1>2, <2>1, <3>1 DEF TileFollows, OnlyWatches
  <2>3. NoTileYet(p, m, t)
    BY <1>2, <2>1 DEF TileFollows, NoTileYet
  <2>4. 1..Len(m.down) = {}
    BY <1>1, <1>2
  <2>5. TileFresh(p, m, t) \/ Refused(p, m, t)
    <3>1. CASE t.tile.at # Nowhere /\ "TILE" \in t.todo
      BY <3>1 DEF TileFresh
    <3>2. CASE t.tile.at = Nowhere
      BY <2>1, <2>4, <3>2 DEF TileFollows, NoTileYet, TileFresh, NoTileIn
    <3>3. CASE "PLAYER_ID" \notin t.todo
      BY <1>1, <2>4, <3>3 DEF Refused
    <3>. QED
      BY <3>1, <3>2, <3>3
  <2>. QED
    BY <2>2, <2>3, <2>5 DEF TileFollows
<1>. QED
  BY <1>5, <1>6, <1>7 DEF Fits, m

\* It hears a command of the game.
LEMMA CommandFits ==
    ASSUME NEW p, NEW n, NEW s, NEW w, Fits(p, n, s, w), s.conn = "open",
           n.up # <<>>, Len(n.up) > n.buffered, NEW t, Newer(s, t, w),
           \/ /\ SaysTyping(n.up[1]) /\ s.person = "known"
              /\ TypingSaid(n.up[1]) <=> t.typing
              /\ t.typing \in BOOLEAN
           \/ ~SaysTyping(n.up[1]) /\ t.typing = s.typing
           \/ s.person # "known" /\ t.typing = s.typing
    PROVE  Fits(p, [n EXCEPT !.up = Tail(@)], t, w)
<1>. DEFINE m == [n EXCEPT !.up = Tail(@)]
<1>1. /\ PageSound(p) /\ NetSound(n) /\ HeaderFirst(n, s) /\ SocketsAgree(p, n)
      /\ n.state = "up"
  BY DEF Fits, Linked, HeaderFirst
<1>2. /\ NetSound(m) /\ m.state = "up" /\ m.breaks = n.breaks /\ m.down = n.down
      /\ m.up = Tail(n.up) /\ n.up \in Seq(Command)
  BY <1>1, ReadSound
<1>. HIDE DEF m
<1>3. /\ Len(n.up) \in Nat \ {0} /\ Len(m.up) = Len(n.up) - 1
      /\ \A i \in 1..Len(n.up) - 1 : m.up[i] = n.up[i + 1]
  BY <1>2, TailFacts
<1>a. t.conn = "open" /\ ServerSound(t) /\ (t.person = "known" => s.person = "known")
  BY DEF Newer
<1>4. HeaderFirst(m, t)
  <2>1. ASSUME NEW i \in 1..Len(m.up) PROVE m.up[i].kind \notin Headers
    <3>1. m.up[i] = n.up[i + 1] /\ i + 1 \in 1..Len(n.up)
      BY <1>3
    <3>. QED
      BY <1>1, <3>1 DEF HeaderFirst
  <2>. QED
    BY <1>2, <1>a, <2>1 DEF HeaderFirst
<1>5. Linked(p, m, t)
  BY <1>1, <1>2, <1>4, <1>a DEF Linked, SocketsAgree, InGameWhenHeard
<1>6. TypingFollows(p, m, t)
  <2>1. SUFFICES ASSUME n.breaks = 0
                 PROVE  /\ p.state \in {"welcome", "connecting"} =>
                             ~p.typing /\ ~t.typing /\ Silent(m.up)
                        /\ p.state = "in-progress" /\ t.person = "known" =>
                             TypingTold(p.typing, m.up, t.typing)
    BY <1>2 DEF TypingFollows
  <2>2. /\ p.state \in {"welcome", "connecting"} => ~p.typing /\ ~s.typing /\ Silent(n.up)
        /\ p.state = "in-progress" /\ s.person = "known" =>
             TypingTold(p.typing, n.up, s.typing)
    BY <2>1 DEF Fits, TypingFollows
  <2>3. ASSUME p.state \in {"welcome", "connecting"}
        PROVE  ~p.typing /\ ~t.typing /\ Silent(m.up)
    BY <1>2, <2>2, <2>3, SilentTail
  <2>4. ASSUME p.state = "in-progress", t.person = "known"
        PROVE  TypingTold(p.typing, m.up, t.typing)
    BY <1>2, <1>a, <2>2, <2>4, TypingTail
  <2>. QED
    BY <2>3, <2>4
<1>7. ASSUME w PROVE TileFollows(p, m, t)
  <2>1. TileFollows(p, n, t)
    BY <1>7, NewerTile DEF Fits
  <2>2. OnlyWatches(p, m, t)
    <3>1. ASSUME NEW i \in 1..Len(m.up) PROVE m.up[i].kind # "MOVE_TILE"
      <4>1. m.up[i] = n.up[i + 1] /\ i + 1 \in 1..Len(n.up)
        BY <1>3
      <4>. QED
        BY <2>1, <4>1 DEF TileFollows, OnlyWatches
    <3>. QED
      BY <1>2, <2>1, <3>1 DEF TileFollows, OnlyWatches
  <2>3. NoTileYet(p, m, t)
    BY <1>2, <2>1 DEF TileFollows, NoTileYet
  <2>4. t.conn = "open" => TileFresh(p, m, t) \/ Refused(p, m, t)
    BY <1>2, <2>1 DEF TileFollows, TileFresh, Refused
  <2>. QED
    BY <2>2, <2>3, <2>4 DEF TileFollows
<1>. QED
  BY <1>5, <1>6, <1>7 DEF Fits, m

\* What the server makes of a header.
LEMMA FollowingSound ==
    ASSUME NEW next \in Nat, WebInvariant
    PROVE  /\ Following(next) \in Server /\ ServerSound(Following(next))
           /\ Following(next).conn = "open" /\ Following(next).tile = srv.tile
           /\ Following(next).typing = srv.typing
           /\ srv.tile.at # Nowhere => "TILE" \in Following(next).todo
<1>. DEFINE todo == {"PLAYER_ID", "SYNC"} \cup {t \in {"TILE"} : srv.tile.at # Nowhere}
            f == [srv EXCEPT !.conn = "open", !.next = next, !.todo = todo]
<1>1. srv \in Server /\ todo \in SUBSET Kinds
  BY Parts DEF Kinds
<1>2. /\ "PLAYER_SHOUTED" \notin todo /\ ("TILE" \in todo <=> srv.tile.at # Nowhere)
  OBVIOUS
<1>3. Following(next) = f
  BY DEF Following
<1>. HIDE DEF todo
<1>4. f \in Server /\ f.conn = "open" /\ f.tile = srv.tile /\ f.typing = srv.typing /\ f.todo = todo
  BY <1>1 DEF Server
<1>. HIDE DEF f
<1>. QED
  BY <1>2, <1>3, <1>4 DEF ServerSound

LEMMA EnteredSound ==
    ASSUME NEW next \in Nat, WebInvariant
    PROVE  /\ ServerSound(Entered(next))
           /\ Entered(next).conn = "open" /\ Entered(next).tile = srv.tile
           /\ Entered(next).typing = srv.typing
           /\ srv.tile.at # Nowhere => "TILE" \in Entered(next).todo
<1>. DEFINE f == Following(next)
            e == [f EXCEPT !.person = "known", !.offset = srv.said]
<1>1. /\ f \in Server /\ ServerSound(f) /\ f.conn = "open" /\ f.tile = srv.tile
      /\ f.typing = srv.typing /\ (srv.tile.at # Nowhere => "TILE" \in f.todo)
  BY FollowingSound
<1>2. Entered(next) = e
  BY DEF Entered
<1>3. srv.said \in Nat
  BY Parts DEF Server
<1>. HIDE DEF f
<1>4. /\ e \in Server
      /\ \A k \in {"conn", "tile", "typing", "todo", "shouting"} : e[k] = f[k]
  BY <1>1, <1>3 DEF Server
<1>. HIDE DEF e
<1>. QED
  BY <1>1, <1>2, <1>4 DEF ServerSound

LEMMA RefusingSound ==
    ASSUME NEW kind \in BadKinds, WebInvariant
    PROVE  /\ ServerSound(Refusing(kind))
           /\ Refusing(kind).conn = "open" /\ Refusing(kind).tile = srv.tile
           /\ Refusing(kind).typing = srv.typing
           /\ "PLAYER_ID" \notin Refusing(kind).todo
<1>. DEFINE todo == {kind}
            f == [srv EXCEPT !.conn = "open", !.todo = todo, !.next = srv.said]
<1>1. srv \in Server /\ todo \in SUBSET Kinds /\ srv.said \in Nat
  BY Parts DEF Kinds, Server
<1>2. {"PLAYER_SHOUTED", "TILE", "PLAYER_ID"} \cap todo = {}
  BY DEF BadKinds
<1>3. Refusing(kind) = f
  BY DEF Refusing
<1>. HIDE DEF todo
<1>4. f \in Server /\ f.conn = "open" /\ f.tile = srv.tile /\ f.typing = srv.typing /\ f.todo = todo
  BY <1>1 DEF Server
<1>. HIDE DEF f
<1>. QED
  BY <1>2, <1>3, <1>4 DEF ServerSound

LEMMA HeaderKeeps ==
    ASSUME WebInvariant, ServerReads, srv.conn = "new"
    PROVE  Fits(page', net', srv', Watching)
<1>. DEFINE c == Head(net.up)
<1>1. /\ page' = page /\ net' = [net EXCEPT !.up = Tail(@)] /\ srv' \in Heard(c)
      /\ net.state = "up" /\ Len(net.up) > net.buffered /\ net.up # <<>>
      /\ net.up[1].kind \in Headers
  BY Parts DEF ServerReads, HeaderFirst
<1>2. c = net.up[1] /\ c \in Command
  BY <1>1, Parts, ReadSound
<1>3. c.kind \in Headers /\ (c.kind = "RECONNECT" => c.value \in Nat)
  BY <1>1, <1>2, CommandTyped
<1>. HIDE DEF c
<1>4. srv.said \in Nat /\ srv.offset \in Nat
  BY Parts DEF Server
<1>5. \/ \E next \in Nat : srv' \in {Entered(next), Following(next)}
      \/ \E kind \in BadKinds : srv' = Refusing(kind)
  <2>1. CASE c.kind = "NEW_PLAYER"
    BY <1>1, <1>4, <2>1 DEF Heard
  <2>2. CASE c.kind = "JOIN_GAME"
    <3>1. srv' \in {Entered(0), Refusing("BAD_CONVERSATION_ID"), Refusing("CONVERSATION_FULL")}
      BY <1>1, <2>2 DEF Heard
    <3>. QED
      BY <3>1 DEF BadKinds
  <2>3. CASE c.kind = "RECONNECT"
    <3>1. srv' = IF srv.person = "known" THEN Following(srv.offset + c.value)
                 ELSE Refusing("BAD_PLAYER_ID")
      BY <1>1, <2>3 DEF Heard
    <3>2. srv.offset + c.value \in Nat
      BY <1>3, <1>4, <2>3
    <3>. QED
      BY <3>1, <3>2 DEF BadKinds
  <2>. QED
    BY <1>3, <2>1, <2>2, <2>3 DEF Headers
<1>6. /\ ServerSound(srv') /\ srv'.conn = "open" /\ srv'.tile = srv.tile
      /\ srv'.typing = srv.typing
      /\ \/ srv'.tile.at # Nowhere => "TILE" \in srv'.todo
         \/ "PLAYER_ID" \notin srv'.todo
  BY <1>5, EnteredSound, FollowingSound, RefusingSound
<1>. DEFINE t == srv'
<1>7. /\ ServerSound(t) /\ t.conn = "open" /\ t.tile = srv.tile /\ t.typing = srv.typing
      /\ \/ t.tile.at # Nowhere => "TILE" \in t.todo
         \/ "PLAYER_ID" \notin t.todo
  BY <1>6
<1>. HIDE DEF t
<1>8. Fits(page, [net EXCEPT !.up = Tail(@)], t, Watching)
  BY <1>1, <1>7, HeaderFits DEF WebInvariant
<1>. QED
  BY <1>1, <1>8 DEF t

\* What the server makes of a command of the game.
LEMMA ObeyedNewer ==
    ASSUME WebInvariant, NEW c \in Command, Watching => c.kind # "MOVE_TILE",
           c.kind \notin Headers, NEW t \in Obeyed(c)
    PROVE  /\ Newer(srv, t, Watching)
           /\ SaysTyping(c) => (TypingSaid(c) <=> t.typing) /\ t.typing \in BOOLEAN
           /\ ~SaysTyping(c) => t.typing = srv.typing
<1>1. /\ ServerSound(srv) /\ srv \in Server /\ (Watching => srv.tile.by # Me)
  BY NotMine
<1>2. c.kind \in {"KEEP_ALIVE", "TURN", "SEND_MESSAGE", "SHOUT", "LEAVE", "MOVE_TILE", "TYPING"}
  BY CommandTyped
<1>3. NoOne \in Who /\ NoOne # Me /\ Me \in Who /\ Me \in {Me, Other}
  BY DEF Who, NoOne, Me
<1>4. Newer(srv, srv, Watching)
  BY <1>1 DEF Newer
<1>5. CASE c.kind = "TURN"
  <2>1. t = srv \/ \E place \in Place : t = Moved(srv, place, NoOne)
    BY <1>5 DEF Obeyed
  <2>2. ~SaysTyping(c)
    BY <1>5 DEF SaysTyping
  <2>. QED
    BY <1>1, <1>3, <1>4, <2>1, <2>2, MovedNewer
<1>6. CASE c.kind = "MOVE_TILE"
  <2>1. t = Moved(srv, c.value, Me) /\ c.value \in Place /\ ~Watching
    BY <1>6, CommandTyped DEF Obeyed
  <2>2. ~SaysTyping(c)
    BY <1>6 DEF SaysTyping
  <2>. QED
    BY <1>1, <1>3, <2>1, <2>2, MovedNewer
<1>7. CASE c.kind = "SEND_MESSAGE"
  <2>. DEFINE said == srv.said + 1
  <2>1. t = [srv EXCEPT !.said = said, !.typing = FALSE]
    BY <1>1, <1>7 DEF Obeyed, Server
  <2>2. said \in Nat
    BY <1>1 DEF Server
  <2>. HIDE DEF said
  <2>3. /\ t \in Server /\ t.typing = FALSE
        /\ \A f \in {"person", "conn", "todo", "tile", "shouting"} : t[f] = srv[f]
    BY <1>1, <2>1, <2>2 DEF Server
  <2>4. SaysTyping(c) /\ ~TypingSaid(c)
    BY <1>7 DEF SaysTyping, TypingSaid
  <2>5. Newer(srv, t, Watching)
    BY <1>1, <2>3 DEF Newer, ServerSound
  <2>. QED
    BY <2>3, <2>4, <2>5
<1>8. CASE c.kind = "TYPING"
  <2>1. t = [srv EXCEPT !.typing = c.value] /\ c.value \in BOOLEAN
    BY <1>8, CommandTyped DEF Obeyed
  <2>2. /\ t \in Server /\ t.typing = c.value
        /\ \A f \in {"person", "conn", "todo", "tile", "shouting"} : t[f] = srv[f]
    BY <1>1, <2>1 DEF Server
  <2>3. SaysTyping(c) /\ (TypingSaid(c) <=> t.typing)
    BY <1>8, <2>1, <2>2 DEF SaysTyping, TypingSaid
  <2>4. Newer(srv, t, Watching)
    BY <1>1, <2>2 DEF Newer, ServerSound
  <2>. QED
    BY <2>1, <2>2, <2>3, <2>4
<1>9. CASE c.kind = "SHOUT"
  <2>1. t = srv \/ t = Shouted(srv, Me)
    BY <1>9 DEF Obeyed
  <2>2. ~SaysTyping(c)
    BY <1>9 DEF SaysTyping
  <2>. QED
    BY <1>1, <1>3, <1>4, <2>1, <2>2, ShoutedNewer
<1>10. CASE c.kind = "LEAVE"
  <2>. DEFINE g == [srv EXCEPT !.person = "gone"]
  <2>1. t = Told(g, "END")
    BY <1>10 DEF Obeyed
  <2>2. /\ g \in Server /\ g.person = "gone"
        /\ \A f \in {"conn", "todo", "tile", "shouting", "typing"} : g[f] = srv[f]
    BY <1>1 DEF Server
  <2>. HIDE DEF g
  <2>3. /\ t \in Server /\ "END" \in Kinds
        /\ \A f \in {"person", "conn", "tile", "shouting", "typing"} : t[f] = g[f]
        /\ g.conn = "open" => t.todo = g.todo \cup {"END"}
        /\ g.conn # "open" => t = g
    BY <2>1, <2>2, ToldSound DEF Kinds, BadKinds
  <2>4. ServerSound(t)
    BY <1>1, <2>2, <2>3 DEF ServerSound
  <2>5. Newer(srv, t, Watching)
    BY <1>1, <2>2, <2>3, <2>4 DEF Newer
  <2>6. ~SaysTyping(c)
    BY <1>10 DEF SaysTyping
  <2>. QED
    BY <2>2, <2>3, <2>5, <2>6
<1>11. CASE c.kind = "KEEP_ALIVE"
  <2>1. t = srv /\ ~SaysTyping(c)
    BY <1>11 DEF Obeyed, SaysTyping
  <2>. QED
    BY <1>4, <2>1
<1>. QED
  BY <1>2, <1>5, <1>6, <1>7, <1>8, <1>9, <1>10, <1>11

LEMMA CommandKeeps ==
    ASSUME WebInvariant, ServerReads, srv.conn = "open"
    PROVE  Fits(page', net', srv', Watching)
<1>. DEFINE c == Head(net.up)
            t == srv'
<1>1. /\ page' = page /\ net' = [net EXCEPT !.up = Tail(@)] /\ t \in Heard(c)
      /\ net.state = "up" /\ Len(net.up) > net.buffered /\ net.buffered \in Nat
      /\ net.up \in Seq(Command)
  BY Parts DEF ServerReads, Net
<1>2. net.up # <<>> /\ 1 \in 1..Len(net.up)
  BY <1>1
<1>3. c = net.up[1] /\ c \in Command
  BY <1>1, <1>2, TailFacts
<1>. HIDE DEF c, t
<1>4. c.kind \notin Headers
  BY <1>2, <1>3, Parts DEF HeaderFirst
<1>5. Watching => c.kind # "MOVE_TILE"
  BY <1>2, <1>3 DEF WebInvariant, Fits, TileFollows, OnlyWatches
<1>6. t \in IF srv.person = "known" THEN Obeyed(c) ELSE {Told(srv, "END")}
  BY <1>1, <1>4 DEF Heard, Headers
<1>7. /\ Newer(srv, t, Watching)
      /\ \/ /\ SaysTyping(c) /\ srv.person = "known"
            /\ TypingSaid(c) <=> t.typing
            /\ t.typing \in BOOLEAN
         \/ ~SaysTyping(c) /\ t.typing = srv.typing
         \/ srv.person # "known" /\ t.typing = srv.typing
  <2>1. CASE srv.person = "known"
    BY <1>3, <1>4, <1>5, <1>6, <2>1, ObeyedNewer
  <2>2. CASE srv.person # "known"
    BY <1>6, <2>2, NotMine, ToldNewer
  <2>. QED
    BY <2>1, <2>2
<1>8. Fits(page, [net EXCEPT !.up = Tail(@)], t, Watching)
  BY <1>1, <1>2, <1>3, <1>7, CommandFits DEF WebInvariant
<1>. QED
  BY <1>1, <1>8 DEF t

LEMMA ServerReadsKeeps ==
    ASSUME WebInvariant, ServerReads
    PROVE  Fits(page', net', srv', Watching)
<1>1. srv.conn = "new" \/ srv.conn = "open"
  BY Parts DEF ServerReads, Server
<1>. QED
  BY <1>1, HeaderKeeps, CommandKeeps

\* The CHOOSE of First finds something that is due.
LEMMA FirstIsDue ==
    ASSUME WebInvariant, Due # {}
    PROVE  First \in Due /\ Due \in SUBSET Kinds
<1>1. Due \in SUBSET Kinds
  BY Parts DEF Due, Server, Kinds
<1>. DEFINE P(i) == Order[i] \in Due /\ \A j \in 1..(i - 1) : Order[j] \notin Due
<1>2. DOMAIN Order = 1..9
  BY DEF Order
<1>3. \E i \in 1..9 : Order[i] \in Due
  <2>1. PICK kind \in Due : TRUE
    OBVIOUS
  <2>2. kind \in Kinds
    BY <1>1
  <2>3. kind \in {Order[1], Order[2], Order[3], Order[4], Order[5], Order[6], Order[7],
                  Order[8], Order[9]}
    BY <2>2 DEF Kinds, BadKinds, Order
  <2>. QED
    BY <2>3
<1>4. \E i \in 1..9 : P(i)
  <2>. DEFINE D(i) == Order[i] \in Due
  <2>1. D(1) \/ D(2) \/ D(3) \/ D(4) \/ D(5) \/ D(6) \/ D(7) \/ D(8) \/ D(9)
    BY <1>3
  <2>2. \A i \in 1..9 : P(i) <=> D(i) /\ \A j \in 1..(i - 1) : ~D(j)
    OBVIOUS
  <2>. HIDE DEF P, D
  <2>3. D(1) => P(1)
    BY <2>2
  <2>4. ~D(1) /\ D(2) => P(2)
    BY <2>2
  <2>5. ~D(1) /\ ~D(2) /\ D(3) => P(3)
    BY <2>2
  <2>6. ~D(1) /\ ~D(2) /\ ~D(3) /\ D(4) => P(4)
    BY <2>2
  <2>7. ~D(1) /\ ~D(2) /\ ~D(3) /\ ~D(4) /\ D(5) => P(5)
    BY <2>2
  <2>8. ~D(1) /\ ~D(2) /\ ~D(3) /\ ~D(4) /\ ~D(5) /\ D(6) => P(6)
    BY <2>2
  <2>9. ~D(1) /\ ~D(2) /\ ~D(3) /\ ~D(4) /\ ~D(5) /\ ~D(6) /\ D(7) => P(7)
    BY <2>2
  <2>10. ~D(1) /\ ~D(2) /\ ~D(3) /\ ~D(4) /\ ~D(5) /\ ~D(6) /\ ~D(7) /\ D(8) => P(8)
    BY <2>2
  <2>11. ~D(1) /\ ~D(2) /\ ~D(3) /\ ~D(4) /\ ~D(5) /\ ~D(6) /\ ~D(7) /\ ~D(8) /\ D(9) => P(9)
    BY <2>2
  <2>. QED
    BY <2>1, <2>3, <2>4, <2>5, <2>6, <2>7, <2>8, <2>9, <2>10, <2>11
<1>. DEFINE first == CHOOSE i \in DOMAIN Order : P(i)
<1>5. P(first)
  BY <1>2, <1>4
<1>6. First = Order[first]
  BY DEF First
<1>. QED
  BY <1>1, <1>5, <1>6

\* What the server says of it.
Value(kind) ==
    CASE kind = "MESSAGE" -> srv.next + 1
      [] kind = "TILE" -> srv.tile
      [] kind = "PLAYER_SHOUTED" -> srv.shouting
      [] OTHER -> 0

LEMMA ToldTyped ==
    ASSUME WebInvariant, NEW kind \in Due
    PROVE  /\ [kind |-> kind, value |-> Value(kind)] \in Telling
           /\ kind = "TILE" => Value(kind) = srv.tile /\ srv.tile.at # Nowhere
<1>1. /\ srv \in Server /\ ServerSound(srv) /\ kind \in Kinds
      /\ kind = "MESSAGE" \/ kind \in srv.todo
  BY Parts DEF Due, Server, Kinds
<1>2. CASE kind = "MESSAGE"
  <2>1. Value(kind) \in Nat
    BY <1>1, <1>2 DEF Value, Server
  <2>. QED
    BY <1>2, <2>1 DEF Telling
<1>3. CASE kind = "TILE"
  <2>1. srv.tile.at # Nowhere /\ srv.tile \in [at : Spot, by : Who] /\ Value(kind) = srv.tile
    BY <1>1, <1>3 DEF Value, Server, ServerSound
  <2>2. srv.tile \in [at : Place, by : Who]
    BY <2>1 DEF Spot
  <2>. QED
    BY <1>3, <2>1, <2>2 DEF Telling
<1>4. CASE kind = "PLAYER_SHOUTED"
  <2>1. Value(kind) \in {Me, Other}
    BY <1>1, <1>4 DEF Value, Server, ServerSound, Who
  <2>. QED
    BY <1>4, <2>1 DEF Telling
<1>5. CASE kind \notin {"MESSAGE", "TILE", "PLAYER_SHOUTED"}
  <2>1. Value(kind) = 0 /\ kind \in {"PLAYER_ID", "SYNC"} \cup BadKinds
    BY <1>1, <1>5 DEF Value, Kinds
  <2>. QED
    BY <1>5, <2>1 DEF Telling
<1>. QED
  BY <1>2, <1>3, <1>4, <1>5

LEMMA ServerTellsKeeps ==
    ASSUME WebInvariant, ServerTells
    PROVE  Fits(page', net', srv', Watching)
<1>. DEFINE kind == First
            c == [kind |-> kind, value |-> Value(kind)]
            down == Append(net.down, c)
            m == [net EXCEPT !.down = down]
            todo == srv.todo \ {kind}
            next == IF kind = "MESSAGE" THEN srv.next + 1 ELSE srv.next
            t == [srv EXCEPT !.todo = todo, !.next = next]
<1>1. /\ net \in Net /\ NetSound(net) /\ srv \in Server /\ ServerSound(srv)
      /\ HeaderFirst(net, srv) /\ SocketsAgree(page, net) /\ PageSound(page)
      /\ net.down \in Seq(Telling) /\ srv.next \in Nat
      /\ net.state = "up" /\ srv.conn = "open" /\ Due # {} /\ Len(net.down) < Cap
  BY Parts DEF ServerTells, CanTell, Net, Server
<1>2. kind \in Due
  BY <1>1, FirstIsDue
<1>3. page' = page /\ net' = m /\ srv' = t
  <2>1. Value(kind) = CASE First = "MESSAGE" -> srv.next + 1
                        [] First = "TILE" -> srv.tile
                        [] First = "PLAYER_SHOUTED" -> srv.shouting
                        [] OTHER -> 0
    BY DEF Value
  <2>2. net' = [net EXCEPT !.down = Append(@, c)]
    BY <2>1 DEF ServerTells
  <2>3. net' = m
    BY <1>1, <2>2 DEF Net
  <2>4. srv' = t
    BY <1>1 DEF ServerTells, Server
  <2>. QED
    BY <2>3, <2>4 DEF ServerTells
<1>4. /\ c \in Telling /\ c.kind = kind
      /\ kind = "TILE" => c.value = srv.tile /\ srv.tile.at # Nowhere
      /\ kind \in Kinds /\ (kind = "MESSAGE" \/ kind \in srv.todo)
  BY <1>1, <1>2, FirstIsDue, ToldTyped DEF Due
<1>. HIDE DEF kind, c
<1>5. /\ down \in Seq(Telling) /\ Len(down) = Len(net.down) + 1 /\ Len(net.down) \in Nat
      /\ \A i \in 1..Len(net.down) : down[i] = net.down[i]
      /\ down[Len(net.down) + 1] = c
  BY <1>1, <1>4, AppendFacts
<1>6. \A place : /\ c.kind = "TILE" /\ c.value.at = place => LastTileAt(down, place)
                 /\ c.kind # "TILE" /\ LastTileAt(net.down, place) => LastTileAt(down, place)
                 /\ c.kind # "TILE" /\ NoTileIn(net.down) => NoTileIn(down)
  BY <1>1, <1>4, TileAppend
<1>. HIDE DEF down
<1>7. /\ m \in Net /\ m.down = down
      /\ \A f \in {"state", "up", "buffered", "breaks"} : m[f] = net[f]
  BY <1>1, <1>5 DEF Net
<1>. HIDE DEF m
<1>8. NetSound(m)
  BY <1>1, <1>5, <1>7, WebAssumption DEF NetSound
<1>9. todo \in SUBSET Kinds /\ next \in Nat
  BY <1>1 DEF Server
<1>10. todo \subseteq srv.todo /\ (\A k \in srv.todo : k # kind => k \in todo)
  OBVIOUS
<1>. HIDE DEF todo, next
<1>11. /\ t \in Server /\ t.todo = todo
       /\ \A f \in {"person", "conn", "tile", "shouting", "typing"} : t[f] = srv[f]
  BY <1>1, <1>9 DEF Server
<1>. HIDE DEF t
<1>12. ServerSound(t)
  BY <1>1, <1>10, <1>11 DEF ServerSound
<1>13. Linked(page, m, t)
  BY <1>1, <1>7, <1>8, <1>11, <1>12
     DEF WebInvariant, Fits, Linked, HeaderFirst, SocketsAgree, InGameWhenHeard
<1>14. TypingFollows(page, m, t)
  BY <1>7, <1>11 DEF WebInvariant, Fits, TypingFollows
<1>15. ASSUME Watching PROVE TileFollows(page, m, t)
  <2>1. TileFollows(page, net, srv)
    BY <1>15 DEF WebInvariant, Fits
  <2>2. OnlyWatches(page, m, t)
    <3>1. ASSUME NEW i \in 1..Len(down), down[i].kind = "TILE"
          PROVE  down[i].value.by # Me
      <4>1. CASE i \in 1..Len(net.down)
        BY <1>5, <2>1, <3>1, <4>1 DEF TileFollows, OnlyWatches
      <4>2. CASE i = Len(net.down) + 1
        BY <1>4, <1>5, <2>1, <3>1, <4>2 DEF TileFollows, OnlyWatches
      <4>. QED
        BY <1>5, <4>1, <4>2
    <3>. QED
      BY <1>7, <1>11, <2>1, <3>1 DEF TileFollows, OnlyWatches
  <2>3. NoTileYet(page, m, t)
    <3>1. ASSUME srv.tile.at = Nowhere, NEW i \in 1..Len(down) PROVE down[i].kind # "TILE"
      <4>1. CASE i \in 1..Len(net.down)
        BY <1>5, <2>1, <3>1, <4>1 DEF TileFollows, NoTileYet
      <4>2. CASE i = Len(net.down) + 1
        BY <1>4, <1>5, <3>1, <4>2
      <4>. QED
        BY <1>5, <4>1, <4>2
    <3>. QED
      BY <1>7, <1>11, <2>1, <3>1 DEF TileFollows, NoTileYet
  <2>4. TileFresh(page, net, srv) \/ Refused(page, net, srv)
    BY <1>1, <2>1 DEF TileFollows
  <2>5. CASE TileFresh(page, net, srv)
    <3>1. CASE kind = "TILE"
      <4>1. TileFresh(page, m, t)
        BY <1>4, <1>6, <1>7, <1>11, <3>1 DEF TileFresh
      <4>. QED
        BY <2>2, <2>3, <4>1 DEF TileFollows
    <3>2. CASE kind # "TILE"
      <4>1. TileFresh(page, m, t)
        BY <1>4, <1>6, <1>7, <1>10, <1>11, <2>5, <3>2 DEF TileFresh
      <4>. QED
        BY <2>2, <2>3, <4>1 DEF TileFollows
    <3>. QED
      BY <3>1, <3>2
  <2>6. CASE Refused(page, net, srv)
    <3>1. kind # "PLAYER_ID"
      BY <1>4, <2>6 DEF Refused
    <3>2. ASSUME NEW i \in 1..Len(down) PROVE down[i].kind # "PLAYER_ID"
      <4>1. CASE i \in 1..Len(net.down)
        BY <1>5, <2>6, <4>1 DEF Refused
      <4>2. CASE i = Len(net.down) + 1
        BY <1>4, <1>5, <3>1, <4>2
      <4>. QED
        BY <1>5, <4>1, <4>2
    <3>3. Refused(page, m, t)
      BY <1>7, <1>10, <1>11, <2>6, <3>2 DEF Refused
    <3>. QED
      BY <2>2, <2>3, <3>3 DEF TileFollows
  <2>. QED
    BY <2>4, <2>5, <2>6
<1>. QED
  BY <1>3, <1>13, <1>14, <1>15 DEF Fits

-----------------------------------------------------------------------------
(* The page hears the server.                                              *)

LEMMA OverKeeps ==
    ASSUME WebInvariant, Message, Over(Head(net.down))
    PROVE  Fits(page', net', srv', Watching)
<1>. DEFINE c == Head(net.down)
            q == Received(page, c)
            m == Unlinked(net)
            t == [srv EXCEPT !.conn = "none"]
<1>1. /\ PageSound(page) /\ net \in Net /\ srv \in Server /\ ServerSound(srv)
      /\ page.sock = "open" /\ net.down \in Seq(Telling) /\ net.down # <<>>
      /\ page' = q /\ net' = m /\ srv' = t
  BY Parts DEF Message, Net
<1>2. c \in Telling /\ c.kind \in BadKinds
  BY <1>1, TailFacts DEF Over, BadKinds
<1>. HIDE DEF c
<1>3. /\ PageSound(q) /\ q.state = "error" /\ q.sock = "none"
      /\ \A f \in {"at", "drawn", "drag", "dirty", "typing"} : q[f] = page[f]
  <2>1. c.kind # "TILE"
    BY <1>2 DEF BadKinds
  <2>. QED
    BY <1>1, <1>2, <2>1, ReceivedSound
<1>4. /\ m \in Net /\ m.state = "none" /\ m.up = <<>> /\ m.buffered = 0
      /\ m.down = <<>> /\ m.breaks = net.breaks
  BY <1>1, UnlinkedFacts
<1>5. ServerSound(t) /\ t.conn = "none" /\ t.tile = srv.tile /\ t.typing = srv.typing
  BY <1>1 DEF ServerSound, Server
<1>. HIDE DEF q, m, t
<1>6. SocketsAgree(q, m)
  BY <1>3, <1>4 DEF SocketsAgree
<1>7. Fits(q, m, t, Watching)
  BY <1>1, <1>3, <1>4, <1>5, <1>6, EmptySocketFits DEF WebInvariant
<1>. QED
  BY <1>1, <1>7

LEMMA MessageKeeps ==
    ASSUME WebInvariant, Message
    PROVE  Fits(page', net', srv', Watching)
<1>1. CASE Over(Head(net.down))
  BY <1>1, OverKeeps
<1>2. CASE ~Over(Head(net.down))
  <2>. DEFINE c == Head(net.down)
              q == Received(page, c)
              down == Tail(net.down)
              m == [net EXCEPT !.down = down]
  <2>1. /\ PageSound(page) /\ net \in Net /\ NetSound(net) /\ ServerSound(srv)
        /\ HeaderFirst(net, srv) /\ SocketsAgree(page, net)
        /\ page.sock = "open" /\ net.state = "up"
        /\ net.down \in Seq(Telling) /\ net.down # <<>>
    BY Parts DEF Message, Net
  <2>2. page' = q /\ net' = m /\ srv' = srv
    BY <1>2, <2>1 DEF Message, Net
  <2>3. /\ c = net.down[1] /\ c \in Telling /\ down \in Seq(Telling)
        /\ Len(net.down) \in Nat \ {0} /\ Len(down) = Len(net.down) - 1
        /\ \A i \in 1..Len(net.down) - 1 : down[i] = net.down[i + 1]
    BY <2>1, TailFacts
  <2>4. c.kind \notin BadKinds
    BY <1>2 DEF Over, BadKinds
  <2>5. /\ NoTileIn(net.down) => NoTileIn(down) /\ c.kind # "TILE"
        /\ LastTileAt(net.down, srv.tile.at) =>
             \/ LastTileAt(down, srv.tile.at)
             \/ c.kind = "TILE" /\ c.value.at = srv.tile.at /\ NoTileIn(down)
    BY <2>1, <2>3, TileTail
  <2>. HIDE DEF c, down
  <2>6. /\ PageSound(q) /\ q.sock = "open"
        /\ c.kind = "PLAYER_ID" => q.state = "in-progress"
        /\ c.kind # "PLAYER_ID" => q.state = page.state
        /\ c.kind = "TILE" =>
             q.at = c.value.at /\ (page.drawn = page.at /\ c.value.by # Me => q.drawn = q.at)
        /\ c.kind # "TILE" => q.at = page.at /\ q.drawn = page.drawn
        /\ q.typing = page.typing /\ q.drag = page.drag /\ q.dirty = page.dirty
    BY <2>1, <2>3, <2>4, ReceivedSound
  <2>. HIDE DEF q
  <2>7. /\ m \in Net /\ m.down = down
        /\ \A f \in {"state", "up", "buffered", "breaks"} : m[f] = net[f]
    BY <2>1, <2>3 DEF Net
  <2>. HIDE DEF m
  <2>8. NetSound(m)
    BY <2>1, <2>3, <2>7, WebAssumption DEF NetSound
  <2>9. srv.conn = "open"
    BY <2>1 DEF HeaderFirst
  <2>10. HeaderFirst(m, srv)
    BY <2>1, <2>7, <2>9 DEF HeaderFirst
  <2>11. Linked(q, m, srv)
    BY <2>1, <2>6, <2>7, <2>8, <2>9, <2>10 DEF Linked, SocketsAgree, InGameWhenHeard
  <2>12. TypingFollows(q, m, srv)
    <3>1. page.state \in {"connecting", "in-progress"}
      BY <2>1 DEF PageSound, Page
    <3>2. SUFFICES ASSUME net.breaks = 0
                   PROVE  /\ q.state \in {"welcome", "connecting"} =>
                               ~q.typing /\ ~srv.typing /\ Silent(net.up)
                          /\ q.state = "in-progress" /\ srv.person = "known" =>
                               TypingTold(q.typing, net.up, srv.typing)
      BY <2>7 DEF TypingFollows
    <3>3. /\ page.state = "connecting" => ~page.typing /\ ~srv.typing /\ Silent(net.up)
          /\ page.state = "in-progress" /\ srv.person = "known" =>
               TypingTold(page.typing, net.up, srv.typing)
      BY <3>2 DEF WebInvariant, Fits, TypingFollows
    <3>4. CASE page.state = "in-progress"
      BY <2>6, <3>3, <3>4
    <3>5. CASE page.state = "connecting"
      <4>1. TypingTold(q.typing, net.up, srv.typing)
        BY <2>6, <3>3, <3>5, SilentIsTold
      <4>. QED
        BY <2>6, <3>3, <3>5, <4>1
    <3>. QED
      BY <3>1, <3>4, <3>5
  <2>13. ASSUME Watching PROVE TileFollows(q, m, srv)
    <3>1. TileFollows(page, net, srv)
      BY <2>13 DEF WebInvariant, Fits
    <3>2. 1 \in 1..Len(net.down)
      BY <2>3
    <3>3. OnlyWatches(q, m, srv)
      <4>1. ASSUME NEW i \in 1..Len(down), down[i].kind = "TILE"
            PROVE  down[i].value.by # Me
        <5>1. down[i] = net.down[i + 1] /\ i + 1 \in 1..Len(net.down)
          BY <2>3
        <5>. QED
          BY <3>1, <4>1, <5>1 DEF TileFollows, OnlyWatches
      <4>2. q.drawn = q.at
        BY <2>3, <2>6, <3>1, <3>2 DEF TileFollows, OnlyWatches
      <4>. QED
        BY <2>6, <2>7, <3>1, <4>1, <4>2 DEF TileFollows, OnlyWatches
    <3>4. NoTileYet(q, m, srv)
      <4>1. ASSUME srv.tile.at = Nowhere
            PROVE  q.at = Nowhere /\ \A i \in 1..Len(down) : down[i].kind # "TILE"
        <5>1. page.at = Nowhere /\ \A i \in 1..Len(net.down) : net.down[i].kind # "TILE"
          BY <3>1, <4>1 DEF TileFollows, NoTileYet
        <5>2. ASSUME NEW i \in 1..Len(down) PROVE down[i].kind # "TILE"
          <6>1. down[i] = net.down[i + 1] /\ i + 1 \in 1..Len(net.down)
            BY <2>3
          <6>. QED
            BY <5>1, <6>1
        <5>. QED
          BY <2>3, <2>6, <3>2, <5>1, <5>2
      <4>. QED
        BY <2>7, <4>1 DEF NoTileYet
    <3>5. CASE TileFresh(page, net, srv)
      <4>1. TileFresh(q, m, srv)
        BY <2>5, <2>6, <2>7, <3>5 DEF TileFresh
      <4>. QED
        BY <3>3, <3>4, <4>1 DEF TileFollows
    <3>6. CASE Refused(page, net, srv)
      <4>1. c.kind # "PLAYER_ID"
        BY <2>3, <3>2, <3>6 DEF Refused
      <4>2. ASSUME NEW i \in 1..Len(down) PROVE down[i].kind # "PLAYER_ID"
        <5>1. down[i] = net.down[i + 1] /\ i + 1 \in 1..Len(net.down)
          BY <2>3
        <5>. QED
          BY <3>6, <5>1 DEF Refused
      <4>3. Refused(q, m, srv)
        BY <2>6, <2>7, <3>6, <4>1, <4>2 DEF Refused
      <4>. QED
        BY <3>3, <3>4, <4>3 DEF TileFollows
    <3>. QED
      BY <2>9, <3>1, <3>5, <3>6 DEF TileFollows
  <2>14. Fits(q, m, srv, Watching)
    BY <2>11, <2>12, <2>13 DEF Fits
  <2>. QED
    BY <2>2, <2>14
<1>. QED
  BY <1>1, <1>2

-----------------------------------------------------------------------------
(* The theorems.                                                           *)

LEMMA InitFits == Init => WebInvariant
<1>. SUFFICES ASSUME Init PROVE Fits(page, net, srv, Watching)
  BY DEF WebInvariant
<1>. DEFINE p == page
            n == net
            s == srv
            none == <<>>
<1>1. /\ p = NewPage /\ n = NoNet /\ s = NewServer
  BY DEF Init
<1>2. /\ MaxFailures \in Nat \ {0} /\ Cap \in Nat \ {0} /\ Nowhere \in Spot
      /\ NoOne \in Who /\ NoOne # Me
      /\ none \in Seq(Nat) /\ none \in Seq(Command) /\ none \in Seq(Telling) /\ Len(none) = 0
  BY WebAssumption DEF Spot, Who, NoOne, Me
<1>3. /\ p.state = "welcome" /\ p.sock = "none" /\ ~p.wait /\ p.failures = 0
      /\ ~p.keepAlive /\ ~p.resend /\ ~p.dirty /\ p.at = Nowhere /\ p.drawn = Nowhere
      /\ p.drag = "none" /\ ~p.shoutTimer /\ p.shouting = NoOne /\ ~p.text /\ ~p.typing
      /\ ~p.threw
  BY <1>1 DEF NewPage
<1>4. p \in Page
  <2>1. p = [state |-> "welcome", sock |-> "none", wait |-> FALSE, failures |-> 0,
             keepAlive |-> FALSE, person |-> FALSE, synced |-> FALSE, shown |-> none,
             at |-> Nowhere, drawn |-> Nowhere, drag |-> "none", dirty |-> FALSE,
             resend |-> FALSE, drags |-> 0, text |-> FALSE, typing |-> FALSE,
             shouting |-> NoOne, shoutTimer |-> FALSE, threw |-> FALSE]
    BY <1>1 DEF NewPage
  <2>. HIDE DEF p, none
  <2>. QED
    BY <1>2, <2>1 DEF Page
<1>5. /\ n.state = "none" /\ n.up = none /\ n.buffered = 0 /\ n.down = none /\ n.breaks = 0
  BY <1>1 DEF NoNet
<1>6. n \in Net
  BY <1>1, NetTyped DEF NoNet
<1>7. /\ s.person = "none" /\ s.conn = "none" /\ s.todo = {} /\ s.tile.at = Nowhere
      /\ s.tile.by = NoOne /\ s.shouting = NoOne /\ ~s.typing
  BY <1>1 DEF NewServer
<1>8. s \in Server
  BY <1>1, <1>2 DEF NewServer, Server
<1>. HIDE DEF p, n, s, none
<1>9. PageSound(p)
  BY <1>2, <1>3, <1>4 DEF PageSound
<1>10. NetSound(n)
  BY <1>2, <1>5, <1>6 DEF NetSound, none
<1>11. ServerSound(s)
  BY <1>7, <1>8 DEF ServerSound
<1>12. 1..Len(n.up) = {} /\ 1..Len(n.down) = {}
  BY <1>2, <1>5
<1>13. Linked(p, n, s)
  BY <1>2, <1>3, <1>5, <1>7, <1>9, <1>10, <1>11, <1>12
     DEF Linked, SocketsAgree, HeaderFirst, InGameWhenHeard, none
<1>14. TypingFollows(p, n, s)
  BY <1>3, <1>7, <1>12 DEF TypingFollows, Silent
<1>15. TileFollows(p, n, s)
  BY <1>2, <1>3, <1>7, <1>12 DEF TileFollows, OnlyWatches, NoTileYet
<1>. QED
  BY <1>13, <1>14, <1>15 DEF Fits, p, n, s

LEMMA StepKeeps ==
    ASSUME WebInvariant, [Next]_vars
    PROVE  WebInvariant'
<1>1. CASE Next
  <2>1. Fits(page', net', srv', Watching)
    BY <1>1, StartKeeps, ReconnectTimeoutKeeps, SockOpenKeeps, SockErrorKeeps, MessageKeeps,
       ResendTimeoutKeeps, ShoutStopsKeeps, KeepAliveKeeps, TurnKeeps, DragStartKeeps,
       DragMoveKeeps, DragEndKeeps, InputKeeps, SendCurrentMessageKeeps, ShoutKeeps,
       UnloadKeeps, ServerReadsKeeps, ServerTellsKeeps, OtherPlaysKeeps, ForgottenKeeps,
       TransmitKeeps, BreakKeeps
       DEF Next, Callback, Player
  <2>2. play' = play
    BY <1>1 DEF Next, Callback, Player, Start, ReconnectTimeout, SockOpen, SockError, Message,
       ResendTimeout, ShoutStops, KeepAlive, Turn, DragStart, DragMove, DragEnd,
       DragEndBesideAnother, Input, SendCurrentMessage, Shout, Unload, ServerReads,
       ServerTells, OtherPlays, Forgotten, Transmit, Break
  <2>. QED
    BY <2>1, <2>2 DEF WebInvariant, Watching
<1>2. CASE UNCHANGED vars
  BY <1>2 DEF vars, WebInvariant, Watching
<1>. QED
  BY <1>1, <1>2

LEMMA InvariantIsSound == WebInvariant => WebSound
<1>. SUFFICES ASSUME WebInvariant PROVE WebTypeOK /\ TypingIsKnown
  BY DEF WebSound
<1>1. /\ PageSound(page) /\ page \in Page /\ NetSound(net) /\ net \in Net
      /\ HeaderFirst(net, srv) /\ TypingFollows(page, net, srv)
  BY Parts DEF WebInvariant, Fits
<1>2. WebTypeOK
  <2>1. page.failures \in 0..MaxFailures
    BY <1>1, WebAssumption DEF PageSound, Page
  <2>2. net.buffered \in 0..Len(net.up) /\ Len(net.down) <= Cap
    BY <1>1 DEF NetSound, Net
  <2>3. page.at \in Place \cup {Nowhere} /\ page.drawn \in Place \cup {Nowhere}
    BY <1>1 DEF Page, Spot
  <2>4. /\ page.state \in {"welcome", "connecting", "in-progress", "error", "unloaded"}
        /\ page.sock \in {"none", "connecting", "open"}
    BY <1>1 DEF Page
  <2>5. /\ page.state = "connecting" => (page.wait <=> page.sock = "none")
        /\ page.state \in {"error", "unloaded"} => ~page.wait /\ page.sock = "none"
        /\ Playing => page.sock = "open"
        /\ page.keepAlive => page.sock = "open"
        /\ page.resend => Playing /\ page.dirty
        /\ page.shoutTimer <=> page.shouting # NoOne
        /\ ~page.threw
    BY <1>1 DEF PageSound, Playing
  <2>. QED
    BY <2>1, <2>2, <2>3, <2>4, <2>5 DEF WebTypeOK
<1>3. ASSUME AtRest, net.breaks = 0 PROVE srv.typing <=> page.text
  <2>1. TypingTold(page.typing, net.up, srv.typing)
    BY <1>1, <1>3 DEF AtRest, Playing, TypingFollows
  <2>2. Silent(net.up)
    BY <1>3, NothingInIt DEF AtRest
  <2>3. page.text <=> page.typing
    BY <1>1 DEF PageSound
  <2>. QED
    BY <2>1, <2>2, <2>3 DEF TypingTold
<1>. QED
  BY <1>2, <1>3 DEF TypingIsKnown

LEMMA InvariantShowsTile == WebInvariant => TileIsShown
<1>. SUFFICES ASSUME WebInvariant, AtRest, Watching PROVE page.drawn = srv.tile.at
  BY DEF TileIsShown, Watching
<1>1. TileFollows(page, net, srv) /\ HeaderFirst(net, srv) /\ srv \in Server
  BY Parts DEF WebInvariant, Fits
<1>2. srv.conn = "open"
  BY <1>1 DEF AtRest, HeaderFirst, Server
<1>3. TileFresh(page, net, srv)
  BY <1>1, <1>2 DEF TileFollows, AtRest, Playing, Refused
<1>4. 1..Len(net.down) = {}
  BY DEF AtRest
<1>5. page.at = srv.tile.at
  BY <1>3, <1>4 DEF TileFresh, AtRest, LastTileAt
<1>. QED
  BY <1>1, <1>5 DEF TileFollows, OnlyWatches

\* The strengthening is inductive: whatever the page, its socket and the server
\* do, the three parts stay as WebInvariant says.
THEOREM WebInvariantHolds == Spec => []WebInvariant
<1>1. Init => WebInvariant
  BY InitFits
<1>2. WebInvariant /\ [Next]_vars => WebInvariant'
  BY StepKeeps
<1>. QED
  BY <1>1, <1>2, PTL DEF Spec

\* The timers and sockets of the page are those that its state calls for, no
\* callback ever writes to a socket that is not open, and what the server
\* believes of the typing is right.
THEOREM WebIsSound == Spec => []WebSound
BY WebInvariantHolds, InvariantIsSound, PTL

\* Who only watches is shown the tile where it is on the server.
THEOREM TileIsShownHolds == Spec => []TileIsShown
BY WebInvariantHolds, InvariantShowsTile, PTL
=============================================================================
