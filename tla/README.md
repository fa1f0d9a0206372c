# Verda Ŝtelo: a verification project

Verda Ŝtelo is an anagram game for several players.  A server (C, one thread,
epoll) keeps the games; clients (C with OpenGL for the desktop, Android and
iOS; JavaScript for the web) connect to it over WebSocket and speak the
protocol of `doc/protocol.txt`.  This directory holds TLA+ models of the parts
whose correctness depends on orders of events, on failures and on time, the
TLC configurations that check them, and proofs of the theorems that matter most.

All paths below are relative to the repository.

## 1. The system

### Server

| part | state | operations | talks to |
|---|---|---|---|
| conversation: `vsx-conversation.c`, `vsx-player.c` | state, players and their flags, tiles, number of tiles, language, chat, last shout | add player, player left, typing, message, number of tiles, language, turn, move tile, shout | emits `changed_signal` |
| conversation set: `vsx-conversation-set.c` | hash table of games, list of those open to a room | generate, find, find pending | listens to every game |
| person, person set: `vsx-person.c`, `vsx-person-set.c` | persons by id, time of the last noise, game and player, message offset; a timer | generate, activate, remove silent | holds a reference to the game |
| connection: `vsx-connection.c` | person, dirty flags and bits, counts of what was sent, input buffer | a handler per command, `fill_output_buffer`, notifications | listens to its person's game |
| server: `vsx-server.c` | connections, their sockets, output buffers, what has finished | accept, read, write, shut down, collect the dead | main context, connections |
| main context: `vsx-main-context.c` | epoll, timers in buckets of minutes | add, modify, remove source; poll | calls back into the server |
| handshake: `vsx-ws-parser.c` | the line that is being read | parse a piece | the connection |
| start: `vsx-main.c`, `vsx-config.c`, `vsx-log.c` | configuration, the log's buffer and thread | load, open, log, stop | everything above |

A command arrives as a frame, is dispatched by `process_message` to a handler,
which calls one operation of the conversation; the operation emits
`changed_signal`; every connection that follows the game marks what it has to
tell, and asks for its socket to be polled; when the socket is writable the
connection writes as much as fits.  All of this happens in one thread: what is
concurrent is the order of messages, writable sockets, timers and lost
connections, and the nesting of callbacks.

### Client

| part | state | operations |
|---|---|---|
| connection: `client/vsx-connection.c` | socket, running state, person id, counts, reconnect and keep alive times, buffers | read, write, reconnect with back-off, set running, reset, one handler per command |
| worker: `client/vsx-worker.c` | a thread, its poll set, the address it resolves | queue work, wake up, resolve |
| main thread: `client/vsx-main-thread.c` | idle and timeout callbacks, a timeout thread | queue, cancel, flush |
| game state: `client/vsx-game-state.c` | players, tiles, settings, dialog, queue of events from the connection | one handler per event, reset |
| painters: `client/vsx-*-painter.c` | what each keeps of the game from frame to frame, images, animations | prepare, paint, press, move, release |
| tools: layout, font, glyph hash, quad tool, mipmaps | textures and buffers that painters share | place, look up, draw |
| shells: `vsx-main.c` (SDL), `app/` (Android), `ios-app/` | window or activity, requests for frames, saved state | events of the system |

### The rest

`common/` has the containers, encodings and the QR code; `cgi/` prints QR
codes; `web/` is the JavaScript client, a second implementation of the protocol.

### What is hard here, and what would make it correct

* **Turn.**  The turn is a flag on a player, passed by every turn, by every
  player that leaves, and handed out specially on the first turn.  Never two
  players may have it, and it may never be lost, or the game stands still.
* **Telling what changed.**  The server queues nothing.  What was not marked is
  never told; what is written must be complete, in an order the client can
  understand, and must survive lost connections without a gap or a repetition.
* **Waiting for the socket.**  What did not fit is written when the socket is
  writable, if somebody asks for that; TLS may want the opposite direction.
* **Who is alive.**  A person outlives connections and is forgotten by a timer;
  a game lives as long as somebody plays it; references are counted by hand,
  and callbacks drop them while they are in use.
* **Threads of the client.**  Four threads, three mutexes, tokens that are
  cancelled while their callback is being called, and a reset between games.
* **A picture that is kept.**  Painters redraw only what some event told them
  to; a frame is drawn only if somebody asked for one.
* **A life in pieces.**  Android ends and revives the activity at any time; what
  is not in the bundle is gone.
* **Boundaries.**  Games of one tile, one player, a full table, a message that
  just fits, a count of 16 bits, bytes that come one by one.

`PROJECT.json` lists these at the lines where they bite ("hazards").

## 2. Modules

| module | models | built on |
|---|---|---|
| `Conversation` | the rules of one game | |
| `InOrder` | abstract: what a chain of buffers and connections promises to each receiver | |
| `ServerConnection` | one game with the connections that follow it and the receiving end of each client; implements `InOrder` | `Conversation`, `InOrder` |
| `Lobby` | games, persons, connections, references and timers of the whole server | |
| `ServerSocket` | sockets, TLS and the main loop of the server | |
| `WebSocket` | handshake and frames, byte by byte | |
| `ServerStart`, `Config` | the start and end of the server with its log thread; its configuration file | |
| `ClientConnection` | the client's connection with its worker's loop, timers and a network that fails | |
| `ClientThreads` | main thread, worker, timeout thread and image loader; implements `InOrder` | `InOrder` |
| `GameState`, `Painters`, `Screen` | facts that are drawn, what the painters keep of them, and the shells that ask for frames | each on the one before |
| `TilePainter` | gestures on the board, overrides, animation of tiles | |
| `AppLife` | the life of the Android activity and what is saved | |
| `WebClient` | the page `web/verda-sxtelo.js` against a server | |
| `Codecs`, `QrCode`, `Textures`, `Glyphs`, `Formats` | encodings, QR codes, places in textures, layouts with shared buffers; `Formats` runs them all and adds the hash table | |
| `ServerConnectionProofs`, `ServerSocketProofs`, `LobbyProofs`, `ClientConnectionProofs`, `ClientThreadsProofs`, `AppLifeProofs`, `TilePainterProofs`, `WebClientProofs` | theorems (section 4); the first one has those about `Conversation` too | the module of the name, `TLAPS` |
| `MC...` | instances for TLC | the module of the name; `MCEdges` extends four |

### Conversation

The variables are the fields of `VsxConversation` (`state`, `nPlayers` =
`n_players`, `nConnected` = `n_connected_players`, `tiles` = the first
`n_tiles_in_play` tiles, `totalNTiles`, `language` = `tile_data`, `messages`,
`shoutAge` = the time since `last_shout_time`) and the flags of the players.
There is one action for each operation, guarded by the early returns of the
function.  `changed` holds what the operation emitted; it is overwritten by the
next one and is not part of the state in the sense of `Spec`.  `bag` is the
language of the letters that `init_tile_data` put into the bag, so that one can
say that the letters are those of the language the players were told.

Left open: the letters and their shuffle; the search for a free place, which
may return any place; names; a chat message is a value of `Text`.
`PassTurn` is `set_next_player`: its loop over the players becomes "the
connected player fewest steps round the table from the old one" (`NextSeat`).

### InOrder and ServerConnection

`InOrder` has two variables, what was sent to each receiver and what it has
taken, and says that a receiver has taken, in order and each once, the first of
what was sent; it may start over with an empty list.

`conn[c]` is the `VsxConnection` of client `c`: the person it follows, its
dirty bits, `named_players`, `message_num`, and the state.  `out[c]` is the
output buffer, `wire[c]` what the socket took, `view[c]` what the client was
told, `person[c]` what the server keeps of the person, `play` what the players
of an instance do.

* `Operation` is any operation on the game with `NotifyAll`
  (`conversation_changed_cb` of every connection) in the same step, as the
  signal is emitted inside the operation.
* `HandleWrite` is `handle_write` with the moment `update_poll` asks for it:
  output left in the buffer, or `has_pending_data`.  It runs the loop of
  `fill_output_buffer` until nothing is pending or the next command does not
  fit, and then the socket takes any part of the buffer.  Whether a chat message
  fits behind something else is left open; other commands are small, and
  `OutCap` of them fit.
* `Lose` cuts the connection with everything on its way.  `Reconnect` sends
  the number of messages received, modulo `CountModulus`, and
  `handle_reconnect` answers.
* `GoneSilent` is the person set's timer, for one person.

The chat implements `InOrder` (`Chat`, property `ChatIsDelivered`): sent to a
client are the messages since its person's offset, taken is the chat the client
has.  Left out: the answer to the handshake and `PONG`, which are written before
anything of the game; the conversation's id; a second connection of the same
person while the first is half open.

### Lobby

`games`, `persons` and `conns` are the memory of the server: a slot is free or
holds an object with its reference count.  `Ref`, `Unref`, `Unlist`
(`remove_listener`), `Changed` (`conversation_changed_cb` of the conversation
set), `Start`, `AddPlayer`, `PlayerLeft`, `PersonFreed`, `RemovedFromSet` take
and return the games, in the order in which the functions call each other; so
`PlayerLeft` counts the players *after* the observers were told, and a game
freed by an observer would be written to afterwards and no longer be equal to
`NoGame`.  Actions are the handlers that create persons, the noise every command
makes, leaving, the first turn, bad input, the removal of a connection for
whatever reason, the two timers, the clock, and `vsx_server_free`.
Left out: reading and writing (a connection is removed at any time), and what
has no part in the life of an object.

### ServerSocket

`conn` and `net` are a `VsxServerConnection` with the client's end of its
socket; `waiting`, `listening`, `batch`, `phase` are the loop of
`vsx_main_context_poll`; `gcSet`, `passed`, `elapsed` its timers; `faults` what
may still go wrong, `quit` the signal.  The actions are `Poll`, which takes a
batch of ready events, `Dispatch`, which calls back for one of them, and
`Timers`.  A callback is one step: accept, the TLS handshake, one read with
everything that it parses, one write, then `update_poll`, which also shuts down
and frees.  `Both`, `Secure`, `Plain` and `Full` are the plans of the run.

### WebSocket

A byte is a record with a tag, a piece of input any part of what is left.  The
parser keeps `pos` and `piece`; `hs` is the handshake, `conn` the input buffer
with `parse_data`, `process_frames` and `parse_eof`.  The model has buffers of
seven bytes instead of 1024, which keeps the sizes' relations.

### ClientConnection

`c` is the `VsxConnection` of the client, `polled` what the worker is polling
for, `net` the socket, `server` and `link` the other end, `hist` what was heard
and when, `plan` and `left` what may still happen.  The worker polls *without*
the lock what was published before and passes what it saw afterwards; so calls
of the application come between a poll and its events.

### ClientThreads

`pc` says where each thread is, at the grain of the locks W (worker), G (game
state) and M (main thread), always taken in this order.  Callbacks are tokens;
`mt` has the queues and the batch being called; `worker` the addresses and the
wake-up pipe; `loader` the images.  What is read without a lock in the code is a
step of its own here.  The queue of events from the connection to the game
state implements `InOrder` (`Events`, property `EventsAreDelivered`); a reset
starts it over.

### GameState, Painters, Screen, TilePainter

A picture is the set of the facts it was made from.  `GameState` has a handler
for each event with the events it emits; `Painters` has what each painter keeps,
what it reads while it paints, which events make it throw away or ask for a
frame; `Screen` adds the three shells with their requests for frames, losing
surfaces, changing sizes and the field for the name.
`TilePainter` has one more actor, the server with its other players, and
positions that are coarser than the margin of a click; which of two tiles lies
on top is left open; zooming is left out.

### AppLife

`phone` is what Android and the invitations do, `act` the activity and its
queue to the render thread, `native` the data of a life, `game` the instance
state, `server` who has which seat.  Turning, stopping, killing and reviving may
come between any two steps.

### WebClient

`page` is the session and what the page shows, `net` the socket with commands
each way and the part that waits in the browser, `srv` the server as far as the
page can tell, `play` what the players of an instance do.  Every callback is one
step.

### ServerStart, Config, formats

`ServerStart` is a sequence of steps of `main`, any of which may fail, with the
log thread beside it.  The formats (`Config`, `Codecs`, `QrCode`, `Textures`,
`Glyphs` and the hash table) are operators, compared with what they should mean
on inputs that grow token by token: a decoder with what it decodes, a QR code
with a reader written from the standard, the lines of a text with a definition by
what they must not exceed.

## 3. Runs

| run | module, cfg | properties | distinct states |
|---|---|---|---|
| `rules` | `MCConversation` | `TypeOK`, `TurnFlagsSound`, `TurnNeverLost`, `CountExact`, `BagMatchesSettings`, `TurnGoesRound` | 700,000 |
| `link` | `MCServerConnection`, `MCLink.cfg` | `LinkSound`, `ChatIsDelivered`, `ToldInOrder`, `EventuallyUpToDate` | 435,000 |
| `lobby` | `MCLobby` | `LobbySound`, `PlayersAreWatched`, `OnlySilentAreForgotten`, `EverythingEnds` | 84,000 |
| `socket` | `MCServerSocket`, `MCSocket.cfg` | `SocketSound`, `NobodyStaysForEver`, `AnsweredInTheEnd` | 145,000 |
| `client` | `MCClientConnection`, `MCClient.cfg` | `ClientSound`, `HeardOnce`, `InGoodTime`, `GetsThrough` | 618,000 |
| `threads` | `MCClientThreads`, `MCThreads.cfg` | `ThreadsSound`, `NothingIsMissed`, `EventsAreDelivered`, `ThreadsGetThere` | 221,000 |
| `web` | `MCWebClient`, `MCWeb.cfg` | `WebSound`, `TileIsShown`, `GetsIn` | 411,000 |
| `app` | `MCAppLife`, `MCApp.cfg` | `AppSound`, `SeatIsKept` | 2,951,000 |
| `board` | `MCTilePainter`, `MCBoard.cfg` | `BoardSound`, `StaysWhereItIsPut`, `ShownInTheEnd` | 276,000 |
| `screen` | `MCScreen` | `ScreenSound`, `ScreenIsCurrent`, `ComesToRest` | 255,000 |
| `edges` | `MCEdges` | `WebSocketSound`, `MessagesAreWhole`, `FormatsSound`, `Started` | 344,000 |
| `join_game` | `MCServerConnection`, `MCJoinGame.cfg` | `ReconnectResumes`, violated | |

What they show:

* **rules**: whatever the order of turns, departures, arrivals, shouts and
  settings, exactly one connected player has the turn while there are tiles;
  it goes to the next connected player round the table; the letters are those
  of the language last announced.
* **link**: whatever a client has not been told is on its way or still marked as
  to be told, in spite of lost connections (`LinkSound`); the chat arrives
  complete and in order (`ChatIsDelivered`, a refinement); nothing arrives before
  what it refers to and `SYNC` comes after everything (`ToldInOrder`); once the
  players stop and connections hold, everybody knows everything.
* **lobby**: reference counts are the numbers of references, so nothing is used
  after it was freed and nothing leaks, even at shutdown; strangers are only sent
  to a game that is open; a person is forgotten only if all their connections
  were silent; once all clients are silent everything is freed.
* **socket**: a socket is polled for what its connection needs, no callback is
  made for what has been freed by an earlier one of the same batch, the
  listening socket is silent exactly while there is no room; nobody who stays
  silent keeps a connection, and what was asked is answered over a connection
  that holds.
* **client**: one socket and one timer for each state, a stopped connection is
  quiet, no message is heard twice over reconnections, and pauses between
  attempts and keep-alives keep their times; a command gets through if
  connections hold.
* **threads**: locks are taken in order and released, no callback after its
  token was cancelled, no lost wake-up; the events reach the main thread in order
  and each once, none of the game before a reset.
* **web**: timers and sockets follow the state of the page and no callback
  throws; the server knows whether somebody is typing; a page that only watches
  shows each tile where it lies.
* **app**: whatever Android does with the activity, what was saved is the state
  shown; a player only loses the seat by leaving it.
* **board**: a frame is due whenever something moves; a tile stays where its
  player put it until the server says otherwise; in the end it is shown where
  the server has it.
* **screen**: what is drawn is what holds, or a frame has been asked for; the
  field for the name is where the dialog has its box; frames end.
* **edges**: a handshake or a frame is understood the same however its bytes are
  cut in pieces; encodings, QR codes, textures and layouts do what they should;
  a server starts, and its log is written to the end, or says why it did not.

One invariant of a run is often the conjunction of several, which are named in
its definition: `LinkSound`, `LobbySound`, `ClientSound`, `ThreadsSound`,
`WebSocketSound`, `SocketSound`, `WebSound`, `AppSound`, `BoardSound`,
`ScreenSound`, `FormatsSound`; `ToldInOrder` is `SyncIsLast` and
`ReferentsFirst`.

### Bounds

* Conversation: three seats are the fewest for which somebody can be skipped
  when the turn passes and for which the next player is not the previous one;
  three tiles give a first turn, one between and a last one; two languages and
  two places, which are symmetric since no rule looks at which one it is; one
  message; `ShoutTime` one tick.
* Link: one client is observed at a table of two, so a full table starts the
  game and another player acts beside it; five plays; two messages
  show a gap, a repetition and a swap; `OutCap = 2` and `WireCap = 1`: the buffer
  fills in the middle of a kind of data, and commands are lost in both places.
  `CountModulus = 65536`, as in the protocol; no run reaches it.  The plans
  combine those operations whose dirty bits are written side by side.
* Lobby: two connections (two of one person, or one each), two persons, two
  games of two seats, one room; `SilenceTime = 0` and `ResponseTime = 1`, since
  one is compared with `>` and the other with `>=`.
* Socket: `OutCap = 1`, `GcTime` and `ResponseTime` one tick; one plan each for
  two connections, for TLS, for a plain one and for a table that is full.
* Client: `InitialTimeout` and `StableTime` one tick, `KeepAliveTime` and
  `MaxTimeout` two, `SilenceTime` three, buffers of two commands; five plans, for
  chat, tiles, leaving, resets and failures.  The orders of the times are those
  of the code.
* Threads: seven tokens are enough for every kind of callback and a reset in the
  middle; five plans, one for each thing that is handed between threads.
* Web: two failures, two commands said, two drags, two breaks, two commands in
  each queue; four sets of acts.
* App: two lives of the activity, two persons, one invitation, one page of the
  guide to turn.
* Board: two places in a row, two tiles, one command on its way, eight plans of
  gestures and of what others do.
* Screen: five plans for each of the three shells, with three to five events
  from outside; queues of three.
* Edges: buffers of seven bytes, so that a line, a frame of one byte and a frame
  that just fits are all below each other; up to three headers or frames in
  pieces of up to three bytes; four lines of log.  In `Glyphs` a texture of four
  pixels and buffers of one quad stand for those of 1024 pixels and 32 quads,
  in `Formats` a hash table of two buckets for one of eight; each grows twice.

Deadlock is checked in `client` and `threads`, where somebody can always do
something.  Elsewhere the bounds are reached, or everybody has gone and the
server has stopped, and nothing can happen any more.

### Fairness

Nothing is asked of players or of clients.  The fair specifications ask:

* `ServerConnection`: a connection whose socket is writable is called, the
  network carries what was sent until the connection is lost, and a client that
  lost its connection tries again.
* `Lobby`: time passes, and the main context calls both timers, as it does
  whenever it polls.
* `ServerSocket`: the main loop goes on, and time passes.
* `ClientConnection`: the worker's loop goes on, connecting ends in one way or
  the other, the server reads and writes, time passes.
* `ClientThreads`: a thread that can run does; time passes.
* `TilePainter`: frames that were asked for are drawn, events are handled,
  timers fire, tools are loaded, the server reads and writes.
* `Screen`: no step that stays possible is put off for ever.  Each of these
  steps makes itself impossible, so that it is enough to say this of them together.
* `WebClient`: the browser calls back and sends, the server reads and tells.
* `ServerStart`: `main` and the log thread go on; nobody has to log, to stop, or
  to fail.

Some are written out as "possible from some time on implies taken again and
again" instead of `WF_`, which TLC handles faster.

### Disagreements between code and documentation

The run `join_game` shows `ReconnectResumes` violated: `handle_join_game` does
not start the connection's `message_num` at the person's `message_offset`, as
`handle_new_player` does.  The client is sent, and counts, messages from before
it joined.  When it loses its connection the server refuses the count as too
large, again and again, or continues behind messages that were never sent.

More of them, each with a configuration that can be run by hand and ends in a
violation:

| cfg, module | property | what |
|---|---|---|
| `MCWebChat`, `MCWebClient` | `ShownOnce` | the page never counts its messages (`verda-sxtelo.js:1155`), so a reconnection shows the chat twice; `doc/protocol.txt:74` |
| `MCWebTile`, `MCWebClient` | `MovesAreSent` | a tile marked dirty while the connection is broken has no timer after it is back |
| `MCLeave`, `MCServerConnection` | `LeaverIsTold` | `has_pending_data` (`vsx-connection.c:867`) does not know of `END`: if the commands before it fill the buffer and the socket takes all of them, `END` waits for something else to change; `doc/protocol.txt:293` |
| `MCStaleEvent`, `MCServerSocket` | `NoEventForTheGone` | a callback may remove a source whose event comes later in the same batch; the comment at `vsx-main-context.c:411` |
| `MCLargeFrame`, `MCWebSocket` | `AllowedFrameFits` | `read_buf` of 1024 bytes has no room for the header of a frame with a payload of 1017 to 1024, which `VSX_PROTO_MAX_PAYLOAD_SIZE` allows |

and some without a configuration of their own: `INVARIANT NobodysTurnAtTheEnd`
in `MCConversation.cfg` (who turns the only tile of a game of one alone gets the
turn, with no tiles left); `PROPERTY ClampedAsDocumented` there (`SET_N_TILES`
clamps to 1..122, the document says 0..122); `INVARIANT NameIsAlwaysAsked` in
`MCApp.cfg` (a name that was given, an invitation that was closed and a turn of
the phone before the header: no name and no dialog); `INVARIANT
DraggedWhileHeld` with `Spec` in `MCBoard.cfg` (the comment at
`vsx-tile-painter.c:88`); `INVARIANT StopsWhenTold` with `Spec` and `Plan <-
MCStopPlan` in `MCClient.cfg` (a connection told to stop may go on;
`client/vsx-connection.h:35`); `GroupsAreDrawn` in `Glyphs` (the comment at
`vsx-layout.c:313`).

### Also met while modelling

Not violations of anything that is written down, but worth knowing:

* Server: a write of zero bytes counts as a sign of life.  TLS reads at most
  1024 bytes with `SSL_read` and polls again, although a record may hold more;
  `SSL_write` is called after `SSL_shutdown` has begun.  A failing `fcntl`
  leaks the socket (`vsx-server.c:661`).  When TLS fails for the only connection,
  a timer that is not set is removed.  `main` returns 0 after failing to start.
  An empty address is searched beyond its end.  The 16 bits of `RECONNECT` limit
  a game to 65,535 messages.
* Client: a player who types and stops typing between the return of `poll` and
  the write has nothing written, and yet `handle_write` puts the next keep alive
  off by its full time.  Who does so again and again, without more ever being
  written, is forgotten while connected; the comment at
  `client/vsx-connection.c:80` counts the time from the last message.  `KeptAlive`
  excepts this case (`putOff`); without the exception TLC finds it violated once a
  player may begin and stop typing twice.
  A finished client whose connection fails connects again.  `LEAVE` is
  written before messages that were queued earlier; commands that were written to
  the buffer are lost with it.  The worker polls descriptor 0 until it was first
  told another; `wakeup_timestamp` is overwritten when the thread starts
  (`vsx-worker.c:195`); events may belong to an earlier socket (line 268); an
  error of `poll` ends the thread without a word.  `token->cancelled` is read
  without the mutex.  A reset keeps the number of tiles and the language.
* Board: `handle_drag` moves a tile without clearing `animating`, which only
  `handle_drag_start` does (`vsx-tile-painter.c:644`).  An invitation that comes
  while a tile is held swallows the next press, so that a tile that was sent off by
  a click in between may be dragged while it still has a target; the next frame
  takes it there, away from the finger.  `Rests` therefore asks that the
  tile is not animating.
* Screen: a wake-up is lost when the surface has gone; an animation of the guide
  keeps its old duration; an image of the guide that fails leaves the old page; a
  dialog that was replaced takes clicks until the next frame.
* Web: `newX == tile.y` in `dragMove` (line 670); `sentTypingState` survives a
  lost connection; an own move that was lost stays drawn.
* Formats: `score_bad_pattern` of the QR code looks at the pattern's own bits
  (which only touches the choice of the mask); extra blank lines in layouts; the
  document's keep-alive time is one minute, the code's five.

## 4. Proofs

Each module of proofs holds for every value of the constants, from the named
assumptions of the module it extends.  In each, an inductive invariant is found
that implies the one that a run checks; TLC checked it on that run's instance
before it was proved; and there is one lemma for each action, whose leaves rest
on lemmas about the operators.

| module | theorem | property |
|---|---|---|
| `ServerConnectionProofs` | `GameInvariant` | `GameInv`, below |
| | `TypeCorrect` | `TypeOK` |
| | `TurnFlagsAreSound` | `TurnFlagsSound` |
| | `TurnIsNeverLost` | `TurnNeverLost` |
| | `CountIsExact` | `CountExact` |
| | `BagFollowsSettings` | `BagMatchesSettings` |
| | `TurnPassesRound` | `TurnGoesRound` (action property) |
| | `LinksAreSound` | `LinkSound` |
| | `ChatIsInOrder` | `ChatIsDelivered` (refinement of `InOrder`) |
| | `ToldInOrderHolds` | `ToldInOrder` (two action properties) |
| `ServerSocketProofs` | `SocketIsSound` | `SocketSound` |
| | `ShutIsFinalHolds` | `ShutIsFinal` (action property, in `AnsweredInTheEnd`) |
| `LobbyProofs` | `LobbyIsSound` | `LobbySound` |
| | `PlayersAreWatchedHolds` | `PlayersAreWatched` |
| | `OnlySilentAreForgottenHolds` | `OnlySilentAreForgotten` (action property) |
| `ClientConnectionProofs` | `ClientIsSound` | `ClientSound` |
| | `ClientIsHeardOnce` | `HeardOnce` |
| | `ClientInGoodTime` | `InGoodTime` |
| `ClientThreadsProofs` | `ThreadsAreSound` | `ThreadsSound` |
| | `NothingIsMissedHolds` | `NothingIsMissed` |
| | `EventsAreInOrder` | `EventsAreDelivered` (refinement of `InOrder`) |
| | `NotCutShortHolds` | `NotCutShort` (action property, in `ThreadsGetThere`) |
| `AppLifeProofs` | `AppIsSound` | `AppSound` |
| | `SeatIsKeptHolds` | `SeatIsKept` (action property) |
| `TilePainterProofs` | `BoardIsSound` | `BoardSound` |
| | `StaysWhereItIsPutHolds` | `StaysWhereItIsPut` (action property) |
| `WebClientProofs` | `WebInvariantHolds` | `WebInvariant`, below |
| | `WebIsSound` | `WebSound` |
| | `TileIsShownHolds` | `TileIsShown` |

### Conversation

From `ConversationAssumption`: any number of seats, tiles, languages, places and
texts and any shout time.
The inductive invariant `GameInv` is the conjunction of the type invariant, the
four safety properties and `SeatsBeforeTiles`: there are tiles only
if somebody has ever sat down.  Without it the induction step of `AddPlayer`
fails at a table with tiles and no seats, where the first player would find
tiles left and nobody with the turn.  The properties
need each other: that the counter is not zero when a player leaves follows from
`CountExact`, that a first turn finds nobody holding the turn from
`TurnFlagsSound`, and `TurnNeverLost` needs both.

The argument has three layers.  `NextSeatIsNearest` says what the `CHOOSE` of
`NextSeat` returns, from the least element of a set of naturals.
`PassTurnCases` says what `set_next_player` does to the flags in each of its
three cases; `PassTurnToOne`, `PassTurnReachesSomeone` and `PassTurnGoesRound`
draw the consequences.  Then there is one lemma per action or group of actions
(`TurnKeepsInv`, `PlayerLeftKeepsInv`, ...), combined by `NextKeepsInv`.

### ServerConnection

For any number of clients, seats, tiles and messages and any size of the
buffers, with one hypothesis: `CountFits`, that the number of messages stays
below `CountModulus`.  It is needed for the chat, since `RECONNECT` sends a count
of 16 bits; `LinkSound` and `ToldInOrder` hold without it.

`LinkInvariant` adds to `LinkSound`: for each fact that a client may be told,
it knows it, it will know it once it has read what is on its way, or the fact is
noted as to be told (`KnowsOrNoted`); who has no id yet has been told nothing
that was said, and the id is on its way before that (`IdFirst`); and the messages
received, on the wire and in the buffer are consecutive and end where
`message_num` says (`ChatInOrder`).  What a client
will know is `ViewAfter`, a recursive function over a queue, and what the
connection writes is `Fillings`, another one; both are reasoned about by
induction on the set of numbers for which the claim holds (`SetInduction`), which
is a property of naturals and needs no operator as a parameter.

`ChatIsInOrder` shows that the initial states map to initial states of
`InOrder`, and each step to a step or a stutter, for each client; the mapping
takes the messages since the person's offset as sent.

`ToldInOrder` needs more: that a command can be followed *when its turn comes*.
`OrderInvariant` says of each command of a client's stream, on the wire or in the
buffer, that what it refers to is known after the commands before it
(`InGoodOrder`); that whoever is named, in a tile, a message or a pending shout,
sits at the table (`PlayersAreSeated`, `ShoutIsSeated`); and that a client has
only been told of flags of players at the table (`FlagsAreSeated`).  The last one
is needed for `SYNC`: the flags of seats that nobody has are compared too.
`FirstIsFirst` says that what comes before a kind of data in the order of
`fill_output_buffer` is no longer pending when that kind is written;
`WrittenCanBeFollowed` concludes from this and `KnowsOrNoted` that the client can
follow it, and that nothing is left when it is `SYNC` or `END`.  `Continues` is
what every operation on the game leaves as it was for what is already on its way:
players stay, messages stay, and once a tile is in play the bag does.

### ServerSocket

From `SocketAssumption` alone: any number of connections and requests and
buffers of any size, with TLS or without.  `SocketInvariant` says of each
connection that its flags, buffers and stages go together and that it is polled
for what it has to do next (`ConnsFit`), of the loop that what it does is what is
left to do (`LoopFits`), and of the batch of epoll events that an event whose turn
has not come still says something true of its connection (`BatchFits`).  The
last one is what makes the others inductive: the batch is as old as the
`epoll_wait` that returned it, and the callbacks before may have changed what is
polled or removed connections.  That a connection said to take data still has
something to write when its turn comes (`Writable`) holds because other callbacks
only give it more to say.  `OutcomesFit` and `FillingsFit` say what one read or one filling of a
buffer leaves; `FinishCallsBack`, `RemoveCallsBack`, `HandleReadCallsBack` and
`HandleWriteCallsBack` what one callback leaves of the connections, the loop and
the batch.

### Lobby

For finite sets of connections and persons, and any number of games, seats and
rooms.  `LobbyInvariant` says that references fit (`GamesFit`, `PersonsFit`:
each count is the cardinality of the set of its holders), that the timers are
set exactly while there is work (`TimersRight`), and that nothing is left when
the server has stopped.  The folds of the timers over the dead are reasoned
about by `FoldExists` and `SubsetInduction`: a fold is a chain of steps, one for
each element, whatever the order of the `CHOOSE`.  Each call (`Ref`, `Unref`,
`PlayerLeft`, ...) is first shown to change one record in one way, and what is
counted is a set that gains or loses one element.

### ClientConnection

From `ClientAssumption` alone: any number of tiles and places, any times in which
`InitialTimeout <= MaxTimeout` and `KeepAliveTime < SilenceTime`, buffers of any
size, any number of calls, faults and messages of others.  There are three
invariants, each proved inductive with the help of those before it.

`ClientInvariant` is about the client by itself.  `Machine`: there is one socket or
one timer for each state, a header only with what it says.  `Polling`: what is
published is what is waited for, *or poll returns at once*, or the socket can be
written to; the second case is why `NothingWaitsForAPoll` is not inductive by
itself, since an event of a socket that is gone leaves a poll that is stale until
the worker has come round.  `Wired`: the client has a socket exactly when there is
a connection.  `Backing`: the second attempt in an instant has set a timer.
`ClientIsSound` and `BacksOff` follow.

`TalkInvariant` is about what is under way.  `Stages`: what was written and not
read begins with the rest of the handshake, then the header, then commands, and
the server's end is as far as that; it is the reason why the server never finds a
command without a person, or a header twice.  `Tellings`: what was told and not
read has the person's id before any message, and of the messages all that the
client has not had, in order, which is what `next_message_num` counts in the next
`RECONNECT`.  `Breathing`: the time since the server heard of the client and the
time until the next keep alive make up no more than `KeepAliveTime`.
`MessagesShownInOrder` and `ClientInGoodTime` follow.

`SayInvariant` is about what the player does.  `InLine`: the numbers of the messages
go up through what was heard, what is on the line and what waits, also across
games and lost connections.  `NothingForgotten`: if no connection was lost with
something in it, each message is in one of these three (`AllSaid`), and for each
tile and for typing the last command of this kind says what the player did last
(`LastMove`, `LastTyping`), in which a header that is still on the line stands for
a person of whom nothing is known.  `ClientIsHeardOnce` follows.

Each step is reduced to what it does to the line: a command is appended
(`WriteOneItem`, by cases of what is pending), the first is taken, or all of it is
lost.  What `fill_output_buffer` and `process_frames` do is a recursive function of
the number of items or frames; `FillInduction` and `ReadInduction` say that
they preserve whatever one item or one frame does.

### ClientThreads

From `DurationAssumption` and `PlansAssumption`: any plan of games, events,
addresses and images, any durations and any number of tokens.  The number of
tokens bounds the model, not the code: where the code allocates one the step has
the guard `HasRoom`, which holds whenever it is asked for in the run and so stops
nothing there.

`ThreadsInvariant` has seven parts.  `ListsFit`: the idle queue, the timeouts and
the batch that is being called have each token at most once, a token that is not
cancelled is in one of them and has not been called, the timeouts are in the order
of their time and what is to be called is due.  `Held`: the four kinds of pointers
to tokens and the tokens that are not cancelled are in a one-to-one
correspondence, so that a token that was called, or given back and used again, is
never cancelled through an old pointer.  `Awake` and `WorkerFits` say what each
thread has been told of while it sleeps, and that the address given last is the
connection's, the worker's next, or the one being looked up (`OnItsWay`).
`TimesFit`: the time for which something has been shown and what is left of its
timeout make up its `Duration`; `NotCutShort` follows, since the token that takes
it down is the one that is held, and is due.  `EventsFit`: the events that the main
thread has taken and those that still wait, one after the other, are the last
that the connection said, consecutively numbered (`InTurn`), with the change of
state that a reset queues at most in front.

Each operation on the lists is shown to keep `ListsFit` for any record (`QueueIdleFits`,
`QueueTimeoutFits`, `CancelFits`, `CallFits`, `FlushReadyFits`, ...), and what it
does to the holders (`GivenOut`, `GivenUp`, `CancelHeld`).  `Only`, the recursive
function behind the insertion and removal of timeouts, is described by the
increasing function that says where its elements were (`OnlySelects`).  For
`EventsAreInOrder` each step is one of the channel (`EventsMove`): the next event is
the one that follows what was seen, by `InTurn`; and the numbers of the games and
events are in the set `Thing`, as a finite set of plans has a greatest one
(`HasMost`).

### AppLife

From `AppAssumption` and `NoneAssumption`: any number of persons, lives and
invitations.  `AppInvariant` is `AppSound`, `FromNothing` (an activity that was
made from nothing has no game to restore, neither in its queue nor handed over)
and `StateIsOnItsWay` (until its first frame, the saved game of an activity that
goes on has been handed over or is the last thing in its queue, and nothing
before it comes in its way).

### TilePainter

From `BoardAssumption` alone: any number of tiles, a board of any width, any
plans and any number of tiles on their way.  `Inv` is `BoardInv`, which is about
the client by itself, and `PutInv`, which is about what is on its way.

`Held`: a tile of which nothing is known is as `NoTile`; the one being dragged is
overridden, and while one is there is a timeout.  `Seen`: when no frame has been
asked for, the last one shows the dialog and all tiles.  It says so of a board
without tiles even before the image of the tiles has been loaded, which
`BoardSound` does not: no frame is asked for when the image is ready and there is
nothing to draw, so that what held before must be enough.

`StaysWhereItIsPut` cannot be seen from the board: what takes a tile away is an
event that was sent before.  `Told`: unless a tile is still to be told of, the last
event about it, or the client if there is none on its way, says where the server
has it.  `OutOfPlay`: nothing is known or under way about a tile that is not in
play.  `Kept`: a tile that the player put somewhere is either there for the server
and in all that is on its way (`Settled`), or it is still overridden, with
only the player's own moves on their way, which do not end the override
(`Mine`).  So whenever the override ends the place is `Settled`; the timeout
may come before that, and from then on nobody can promise anything of the tile.

Each step is shown to be `Fine`: it keeps the types, `Held`, `PutInv` and where
tiles rest, and asks for a frame or changes nothing that is shown (`Looks`), from
which `SeenStays` concludes that `Seen` is kept.  `Paint` and `ToolReady`, which
do neither, are `Solid` and have a proof of `Seen` of their own.

### WebClient

From `WebAssumption` alone: any number of commands, failures, drags and breaks,
and any size of the queues.  `WebInvariant` has three parts.  `Linked`: the
page, its socket and the server agree about who is connected; the header comes
first and nothing of a game before it.  `TypingFollows`: until the first break,
the last command about typing on its way, or the server if there is none, says
what the page says.  `TileFollows`, when nobody drags: the tile's place is due to
be told, is the last on its way, or is shown, or the server has refused the page.
The lemmas are about what `Append` and `Tail` do to "the last one in a queue"
(`TypingAppend`, `TypingTail`, `TileAppend`, `TileTail`); each action is reduced to
one of a few lemmas about what fits (`PageFits`, `SendFits`, `EmptySocketFits`,
`NewerFits`, `HeaderFits`, `CommandFits`).

### Only model-checked

* Liveness: `EventuallyUpToDate`, `EverythingEnds`, `NobodyStaysForEver`,
  `AnsweredInTheEnd`, `GetsThrough`, `ThreadsGetThere`, `GetsIn`,
  `ShownInTheEnd`, `ComesToRest`, `Started`.  The prover has no reasoning about
  fairness and `ENABLED`.
* `FormatsSound`, `MessagesAreWhole`, `WebSocketSound`: what recursive
  operators compute for every input needs induction over data.
* Not proved so far: `ScreenSound` and `ScreenIsCurrent`.  They need an inductive
  invariant about what each of the eleven painters keeps.

## 5. Not modelled

* OpenGL beyond who owns textures and buffers: how something looks is what one
  sees; sounds.
* `stb_image.h` (vendored), and the tests: together a third of the lines.
* Frames with a length of 64 bits.  The long form of 16 bits is modelled; the
  other goes the same way and is refused as too long.
* The search for a free place for a new tile: which place is free is left open.
* Containers other than the hash table (lists, buffers, signals): they are
  sequences and sets here; the order of callbacks is modelled where it matters.
* `vsx_key_value_parse_int_value`, which nobody calls (and which compares a pointer
  with zero); `sd_listen_fds`, built only on request.
* The tables in `vsx-qr-data.h` are generated; they were compared with those
  that `QrCode` computes.

## 6. What is left

All parts in section 2 are modelled and checked.  What is left is to prove
`ScreenSound` and `ScreenIsCurrent` of `Screen`.
