---- MODULE ClientThreads ----
(***************************************************************************)
(* The threads of the native client and what they share:                   *)
(*   - the worker (client/vsx-worker.c) polls the socket and runs the      *)
(*     connection with the mutex W of the worker held;                     *)
(*   - the main thread (the render thread on Android) runs the game state  *)
(*     (client/vsx-game-state.c), takes W to give the connection a         *)
(*     command, and calls the callbacks others queue for it;               *)
(*   - the timeout thread (client/vsx-main-thread.c) sleeps until a        *)
(*     timeout is due and moves it to the queue of the main thread;        *)
(*   - the loader (client/vsx-image-loader.c) loads the images that the    *)
(*     painters ask for and gives them to the main thread one by one.      *)
(* The event queue and the saved state of the game state have the mutex G, *)
(* the queues of vsx-main-thread.c the mutex M, always taken in the order  *)
(* W, G, M.  A section of G or M changes what it changes in one step: it   *)
(* takes no mutex but those below it.  W stays with the worker over        *)
(* several steps (WAKING), while the connection emits events.              *)
(***************************************************************************)
EXTENDS Integers, SequencesExt, FiniteSets

CONSTANTS MaxTokens,     \* bound: tokens ever allocated by vsx-main-thread.c
          Duration,      \* ticks that each kind of timeout lasts
          Plans          \* bounds of what happens, chosen at the start: records of
                         \*   games      resets and restarts of the client,
                         \*   joins      what the player resets to,
                         \*   events     events of one game,
                         \*   says       their types besides the header,
                         \*   addresses  addresses given to the worker,
                         \*   failures   failed look-ups of an address,
                         \*   polls      what the socket is polled for,
                         \*   images     images that painters ask for,
                         \*   losses     times that the graphics context is lost

Uses == {"shout", "note"}

ASSUME DurationAssumption == Duration \in [Uses -> Nat \ {0}]

\* Of the events, "other" stands for all that need no timeout.
ASSUME PlansAssumption ==
  /\ IsFiniteSet(Plans)
  /\ Plans \subseteq [games : Nat, joins : SUBSET {"none", "conversation"}, events : Nat,
                      says : SUBSET {"shout", "note", "end", "refused", "other"},
                      addresses : Nat, failures : Nat, polls : SUBSET {"read", "write"},
                      images : Nat, losses : Nat]

VARIABLES pc,      \* where each thread is
          conn,    \* the connection (W)
          worker,  \* struct vsx_worker (W)
          game,    \* the part of struct vsx_game_state that G protects
          mt,      \* struct vsx_main_thread (M)
          loader,  \* struct vsx_image_loader
          ui,      \* what only the main thread uses
          plan     \* the bounds, that never change

vars == <<pc, conn, worker, game, mt, loader, ui, plan>>

NoToken == 0
NoAddress == 0
Never == -1
Nobody == [kind |-> "none", id |-> 0]

(* The idle queue and the timeouts *)

(* A token is either in one of the lists or free to be used again; what it *)
(* says is not read any more once it has been called or cancelled          *)
Blank == [use |-> "none", of |-> 0, left |-> 0, cancelled |-> TRUE]
Ids == 1..MaxTokens
Unused(m) == Ids \ (ToSet(m.queue) \cup ToSet(m.timeouts) \cup ToSet(m.batch))
HasRoom(m) == Unused(m) # {}
NewId(m) == CHOOSE i \in Unused(m) : TRUE

Created(m, use, of, left) ==
  [m EXCEPT !.token[NewId(m)] = [use |-> use, of |-> of, left |-> left, cancelled |-> FALSE]]

QueueIdle(m, use, of) ==
  [Created(m, use, of, 0) EXCEPT !.queue = <<NewId(m)>> \o @,
                                 !.woken = @ \/ m.queue = <<>>]

Signalled(m) ==
  CASE m.timer = "NONE" -> [m EXCEPT !.timer = "STARTING"]
    [] m.timer = "WAITING" -> [m EXCEPT !.timer = "SIGNALLED"]
    [] OTHER -> m

(* The tokens of a list that are in a set, in their order *)
Only(s, tokens) ==
  LET F[n \in 0..Len(s)] == IF n = 0 THEN <<>>
                            ELSE IF s[n] \in tokens THEN Append(F[n - 1], s[n])
                            ELSE F[n - 1]
  IN F[Len(s)]

QueueTimeout(m, use, of) ==
  LET sooner == {i \in Ids : m.token[i].left < Duration[use]}
  IN Signalled([Created(m, use, of, Duration[use]) EXCEPT
                  !.timeouts = Only(@, sooner) \o <<NewId(m)>> \o Only(@, Ids \ sooner)])

Cancel(m, ids) ==
  [m EXCEPT !.token = [i \in Ids |-> IF i \in ids THEN [Blank EXCEPT !.left = m.token[i].left]
                                     ELSE m.token[i]]]

(* The cancelled ones of the due tokens are given back, the others queued, *)
(* the last one first                                                      *)
FlushReady(m) ==
  LET due == {i \in Ids : m.token[i].left = 0}
      moved == Reverse(Only(m.timeouts, {i \in due : ~m.token[i].cancelled}))
  IN [m EXCEPT !.timeouts = Only(@, Ids \ due),
               !.queue = moved \o @,
               !.woken = @ \/ moved # <<>>]

(* The sleep of the timeout thread: until the first timeout or a signal *)
Asleep(m) ==
  [m EXCEPT !.timer = IF m.ending THEN "DONE" ELSE "WAITING",
            !.until = IF m.timeouts = <<>> THEN Never
                      ELSE m.token[Head(m.timeouts)].left]

TimerStarts ==
  /\ mt.timer = "STARTING"
  /\ mt' = Asleep(mt)
  /\ UNCHANGED <<pc, conn, worker, game, ui, loader, plan>>

TimerWakes ==
  /\ mt.timer = "SIGNALLED" \/ (mt.timer = "WAITING" /\ mt.until = 0)
  /\ mt' = IF mt.ending THEN [mt EXCEPT !.timer = "DONE"] ELSE Asleep(FlushReady(mt))
  /\ UNCHANGED <<pc, conn, worker, game, ui, loader, plan>>

(* The loader: one image at a time waits in its slot for the main thread,  *)
(* the one asked for last is loaded first                                  *)

Wanted(image) == ui.images[image] = "asked"
(* Mutant: the loader is only told of an image when it has one to give *)
ToldIfIdle(l) == IF l.at = "WAITING" /\ l.slot # 0 THEN [l EXCEPT !.at = "SIGNALLED"] ELSE l

Told(l) == IF l.at = "WAITING" THEN [l EXCEPT !.at = "SIGNALLED"] ELSE l

(* The loop of its thread_func up to where it waits or starts to load      *)
Round(l) ==
  LET wanted == {i \in DOMAIN l.queue : Wanted(l.queue[i])}
      first == Min(wanted)
  IN IF l.quit THEN [l EXCEPT !.at = "DONE"]
     ELSE IF l.slot # 0 THEN [l EXCEPT !.at = "WAITING"]
     ELSE IF wanted = {} THEN [l EXCEPT !.at = "WAITING", !.queue = <<>>]
     ELSE [l EXCEPT !.at = "LOADING", !.image = l.queue[first],
                    !.queue = SubSeq(@, first + 1, Len(@))]

LoaderWakes ==
  /\ loader.at \in {"START", "SIGNALLED"}
  /\ loader' = Round(loader)
  /\ UNCHANGED <<pc, conn, worker, game, mt, ui, plan>>

Loaded ==
  /\ loader.at = "LOADING" /\ HasRoom(mt)
  /\ mt' = QueueIdle(mt, "image", 0)
  /\ loader' = Round([loader EXCEPT !.slot = loader.image, !.image = 0, !.idle = NewId(mt)])
  /\ UNCHANGED <<pc, conn, worker, game, ui, plan>>

NewLoader == [at |-> IF plan.images = 0 THEN "DONE" ELSE "START", queue |-> <<>>, image |-> 0,
              slot |-> 0, idle |-> NoToken, quit |-> FALSE]

(* The worker, the connection and the events it emits *)

Wake(w) == IF w.queued THEN w ELSE [w EXCEPT !.queued = TRUE, !.pipe = TRUE]

HasConfiguration(c) ==
  c.running /\ c.address # NoAddress /\ (c.named \/ c.who.kind = "person")

(* What the connection wants polled: nothing until it may connect, then a  *)
(* reading or a writing socket                                             *)
Polls(c) == IF HasConfiguration(c) THEN plan.polls ELSE {"nothing"}

Published(w, c, c2) == IF c2.poll = c.poll THEN w ELSE Wake([w EXCEPT !.poll = c2.poll])

(* event_cb of the game state: the event waits for the main thread, which  *)
(* is told with a token unless one is waiting already                      *)
Notify(event) ==
  /\ ui.alive /\ game.flush = NoToken => HasRoom(mt)
  /\ mt' = IF ui.alive /\ game.flush = NoToken THEN QueueIdle(mt, "flush", event.game) ELSE mt
  /\ game' = IF ~ui.alive THEN game
             ELSE [game EXCEPT !.events = Append(@, event),
                               !.flush = IF @ = NoToken THEN NewId(mt) ELSE @,
                               !.saved = IF event.type = "header" THEN event.who ELSE @]

Says(c) ==
  IF ~HasConfiguration(c) \/ c.finished \/ c.said = plan.events THEN {}
  ELSE (IF c.said = 0 THEN {"header"} \cup (plan.says \cap {"refused"})
        ELSE plan.says \ {"refused"})
         \ (IF c.game = plan.games THEN {"refused", "end"} ELSE {})

Snapshot(w) == [w EXCEPT !.polled = w.poll, !.tries = w.toResolve # NoAddress]

(* The head of the loop of thread_func, up to the call of poll *)
Loop(w) ==
  /\ worker' = IF w.quit THEN w ELSE Snapshot(w)
  /\ pc' = [pc EXCEPT !.worker = IF w.quit THEN "DONE" ELSE "POLLING"]

WorkerStarts ==
  /\ pc.worker = "START"
  /\ Loop(worker)
  /\ UNCHANGED <<conn, game, mt, ui, loader, plan>>

(* poll returns: for the pipe, the socket, or the delay of the resolver *)
PollReturns ==
  /\ pc.worker = "POLLING"
  /\ worker.pipe \/ worker.polled \in {"read", "write"} \/ (worker.tries /\ ~worker.delay)
  /\ worker' = [worker EXCEPT !.saw = worker.pipe, !.polled = "none", !.tries = FALSE]
  /\ pc' = [pc EXCEPT !.worker = "POLLED"]
  /\ UNCHANGED <<conn, game, mt, ui, loader, plan>>

Interrupted ==
  /\ pc.worker = "POLLING"
  /\ Loop(worker)
  /\ UNCHANGED <<conn, game, mt, ui, loader, plan>>

(* Mutant: the flag that a byte is in the pipe is not cleared with it *)
ReadPipeStillQueued(w) == IF w.saw THEN [w EXCEPT !.saw = FALSE, !.pipe = FALSE] ELSE w

ReadPipe(w) == IF w.saw THEN [w EXCEPT !.saw = FALSE, !.pipe = FALSE, !.queued = FALSE] ELSE w

Resolves == worker.toResolve # NoAddress /\ ~worker.delay

WorkerWakes ==
  /\ pc.worker = "POLLED"
  /\ pc' = [pc EXCEPT !.worker = IF worker.quit THEN "DONE"
                                 ELSE IF Resolves THEN "RESOLVING" ELSE "WAKING"]
  /\ worker' = IF worker.quit THEN worker
               ELSE IF Resolves THEN [worker EXCEPT !.delay = TRUE,
                                                    !.stolen = worker.toResolve,
                                                    !.toResolve = NoAddress]
               ELSE ReadPipe(worker)
  /\ UNCHANGED <<conn, game, mt, ui, loader, plan>>

(* What is left to resolve: an address that failed only if there is no newer one *)
LeftToResolve(found) ==
  IF worker.toResolve # NoAddress \/ found THEN worker.toResolve ELSE worker.stolen

(* The end of resolve_address_locked, and on with the mutex held *)
Resolved(found) ==
  LET again == worker.toResolve # NoAddress
      w == [worker EXCEPT !.stolen = NoAddress,
                          !.toResolve = LeftToResolve(found),
                          !.failures = IF found THEN @ ELSE @ + 1]
  IN /\ pc.worker = "RESOLVING"
     /\ found \/ worker.failures < plan.failures
     /\ conn' \in IF again \/ ~found THEN {conn}
                  ELSE LET c == [conn EXCEPT !.address = worker.stolen]
                       IN {[c EXCEPT !.poll = p] : p \in Polls(c)}
     /\ worker' = ReadPipe(Published(w, conn, conn'))
     /\ pc' = [pc EXCEPT !.worker = "WAKING"]
     /\ UNCHANGED <<game, mt, ui, loader, plan>>

(* vsx_connection_wake_up: the connection emits events of its game, then   *)
(* says what to poll                                                       *)
Emit ==
  /\ pc.worker = "WAKING"
  /\ \E t \in Says(conn) :
       LET who == IF t = "header" /\ conn.who.kind # "person"
                  THEN [kind |-> "person", id |-> conn.game] ELSE conn.who
       IN /\ conn' = [conn EXCEPT !.said = @ + 1, !.who = who,
                                 !.finished = t \in {"refused", "end"}]
          /\ Notify([type |-> t, game |-> conn.game, n |-> conn.said + 1, who |-> who])
  /\ UNCHANGED <<pc, worker, ui, loader, plan>>

WorkerGoesRound ==
  /\ pc.worker = "WAKING"
  /\ conn' \in {[conn EXCEPT !.poll = p] : p \in Polls(conn)}
  /\ Loop(Published(worker, conn, conn'))
  /\ UNCHANGED <<game, mt, ui, loader, plan>>

DelayPasses ==
  /\ worker.delay
  /\ worker' = [worker EXCEPT !.delay = FALSE]
  /\ UNCHANGED <<pc, conn, game, mt, ui, loader, plan>>

(* The main thread: starting, commands of the player, and the end *)

WFree == pc.worker # "WAKING"
At(label) == pc.main = label
Goes(label) == pc' = [pc EXCEPT !.main = label]
Restful == [alive |-> FALSE, shown |-> [u \in Uses |-> FALSE], age |-> [u \in Uses |-> 0],
            timer |-> [u \in Uses |-> NoToken], reset |-> NoToken, asked |-> NoAddress,
            seen |-> 0, local |-> <<>>, images |-> <<>>, losses |-> 0]
NewConn(n) == [game |-> n, who |-> Nobody, named |-> FALSE, running |-> FALSE,
               address |-> NoAddress, said |-> 0,
               finished |-> FALSE, poll |-> "nothing"]
NewWorker == [poll |-> "stdin", polled |-> "none", tries |-> FALSE, toResolve |-> NoAddress,
              stolen |-> NoAddress, delay |-> FALSE, failures |-> 0, pipe |-> FALSE,
              queued |-> FALSE, saw |-> FALSE, quit |-> FALSE]

Init ==
  /\ plan \in Plans
  /\ pc = [main |-> "BOOT", worker |-> "START"]
  /\ conn = NewConn(0)
  /\ worker = NewWorker
  /\ game = [events |-> <<>>, flush |-> NoToken, saved |-> Nobody]
  /\ mt = [queue |-> <<>>, timeouts |-> <<>>, woken |-> FALSE,
           token |-> [i \in Ids |-> Blank], batch |-> <<>>, next |-> 1,
           timer |-> "NONE", until |-> Never, ending |-> FALSE]
  /\ ui = Restful
  /\ loader = NewLoader

QueueAddress ==
  /\ At("BOOT") \/ At("IDLE")
  /\ WFree
  /\ ui.asked < plan.addresses
  /\ worker' = Wake([worker EXCEPT !.toResolve = ui.asked + 1])
  /\ ui' = [ui EXCEPT !.asked = @ + 1]
  /\ Goes(IF At("BOOT") THEN "STARTING" ELSE "IDLE")
  /\ UNCHANGED <<conn, game, mt, loader, plan>>

(* The game state listens and is added, the saved identity loaded *)
Listen ==
  /\ At("STARTING") /\ WFree /\ ~ui.alive
  /\ ui' = [ui EXCEPT !.alive = TRUE]
  /\ conn' = [conn EXCEPT !.who = game.saved]
  /\ UNCHANGED <<pc, worker, game, mt, loader, plan>>

StateChanged(n) == [type |-> "running", game |-> n, n |-> 0, who |-> Nobody]

SetRunning ==
  /\ At("STARTING") /\ WFree /\ ui.alive
  /\ LET c == [conn EXCEPT !.running = TRUE]
     IN conn' \in {[c EXCEPT !.poll = p] : p \in Polls(c)}
  /\ worker' = Published(worker, conn, conn')
  /\ Notify(StateChanged(conn.game))
  /\ Goes("IDLE")
  /\ UNCHANGED <<ui, loader, plan>>

SetPlayerName ==
  /\ At("IDLE") /\ WFree /\ ~conn.named
  /\ LET c == [conn EXCEPT !.named = TRUE]
     IN conn' \in {[c EXCEPT !.poll = p] : p \in Polls(c)}
  /\ worker' = Published(worker, conn, conn')
  /\ UNCHANGED <<pc, game, mt, ui, loader, plan>>

(* A command that has something to send: a shout, a turn, a tile... *)
Command ==
  /\ At("IDLE") /\ WFree /\ conn.poll = "read" /\ "write" \in plan.polls
  /\ conn' = [conn EXCEPT !.poll = "write"]
  /\ worker' = Published(worker, conn, conn')
  /\ UNCHANGED <<pc, game, mt, ui, loader, plan>>

(* A painter asks for an image, or does without it *)
LoadImage ==
  /\ At("IDLE") /\ Len(ui.images) < plan.images
  /\ ui' = [ui EXCEPT !.images = Append(@, "asked")]
  /\ loader' = Told([loader EXCEPT !.queue = <<Len(ui'.images)>> \o @])
  /\ UNCHANGED <<pc, conn, worker, game, mt, plan>>

CancelImage ==
  /\ At("IDLE")
  /\ \E i \in DOMAIN ui.images : Wanted(i) /\ ui' = [ui EXCEPT !.images[i] = "dropped"]
  /\ UNCHANGED <<pc, conn, worker, game, mt, loader, plan>>

(* reset_full, first with the mutex of the worker... *)
ResetConnection(who) ==
  /\ WFree
  /\ conn' = [NewConn(conn.game + 1) EXCEPT !.who = who, !.running = TRUE,
                                            !.address = conn.address]
  /\ worker' = Published(worker, conn, conn')
  /\ Notify(StateChanged(conn.game + 1))
  /\ Goes("CLEARING")
  /\ UNCHANGED <<ui, loader, plan>>

ResetByPlayer ==
  /\ At("IDLE") /\ conn.game < plan.games
  /\ \E kind \in plan.joins : ResetConnection([kind |-> kind, id |-> 0])

ResetOnIdle == At("RESETTING") /\ ResetConnection(Nobody)

Shouted == {u \in Uses : u = "shout" /\ ui.shown[u]}

(* Mutant: the events of the game before stay in the queue *)
EmptiedHalf == [game EXCEPT !.flush = NoToken, !.saved = conn.who]

(* ...then with that of the game state, then alone *)
Emptied == [events |-> <<>>, flush |-> NoToken, saved |-> conn.who]

(* Mutant: the reset that is queued is not cancelled *)
CalledOffButReset == {game.flush}
CalledOff == {game.flush, ui.reset}

Clear ==
  /\ At("CLEARING")
  /\ game' = Emptied
  /\ mt' = Cancel(mt, CalledOff \cup {ui.timer[u] : u \in Shouted})
  /\ ui' = [ui EXCEPT !.reset = NoToken, !.seen = 0,
                      !.shown = [u \in Uses |-> @[u] /\ u \notin Shouted],
                      !.age = [u \in Uses |-> IF u \in Shouted THEN 0 ELSE @[u]],
                      !.timer = [u \in Uses |-> IF u \in Shouted THEN NoToken ELSE @[u]]]
  /\ Goes(IF mt.batch = <<>> THEN "IDLE" ELSE "FLUSHING")
  /\ UNCHANGED <<conn, worker, loader, plan>>

(* vsx_main_thread_flush_idle_events *)
Flush ==
  /\ At("IDLE") /\ mt.woken
  /\ mt' = [mt EXCEPT !.queue = <<>>, !.woken = FALSE, !.batch = mt.queue, !.next = 1]
  /\ Goes(IF mt.queue = <<>> THEN "IDLE" ELSE "FLUSHING")
  /\ UNCHANGED <<conn, worker, game, ui, loader, plan>>

Called == mt.token[mt.batch[mt.next]]
Calling(use) == /\ At("FLUSHING")
                /\ mt.next <= Len(mt.batch)
                /\ IF use = "nothing" THEN Called.cancelled
                   ELSE ~Called.cancelled /\ Called.use = use

Call == mt' = [mt EXCEPT !.next = @ + 1, !.token[mt.batch[mt.next]] = Blank]

SkipCancelled ==
  /\ Calling("nothing")
  /\ Call
  /\ UNCHANGED <<pc, conn, worker, game, ui, loader, plan>>

TakeEvents ==
  /\ Calling("flush")
  /\ game' = [game EXCEPT !.events = <<>>, !.flush = NoToken]
  /\ Call
  /\ ui' = [ui EXCEPT !.local = game.events]
  /\ Goes("HANDLING")
  /\ UNCHANGED <<conn, worker, loader, plan>>

TakeDown(u) ==
  /\ Calling(u)
  /\ Call
  /\ ui' = [ui EXCEPT !.timer[u] = NoToken, !.shown[u] = FALSE, !.age[u] = 0]
  /\ UNCHANGED <<pc, conn, worker, game, loader, plan>>

StartReset ==
  /\ Calling("reset")
  /\ Call
  /\ ui' = [ui EXCEPT !.reset = NoToken]
  /\ Goes("RESETTING")
  /\ UNCHANGED <<conn, worker, game, loader, plan>>

TakeImage ==
  /\ Calling("image")
  /\ Call
  /\ loader' = Told([loader EXCEPT !.slot = 0, !.idle = NoToken])
  /\ ui' = [ui EXCEPT !.images = [i \in DOMAIN @ |->
                        IF i = loader.slot /\ @[i] = "asked" THEN "shown" ELSE @[i]]]
  /\ UNCHANGED <<pc, conn, worker, game, plan>>

FlushDone ==
  /\ At("FLUSHING") /\ mt.next > Len(mt.batch)
  /\ mt' = [mt EXCEPT !.batch = <<>>, !.next = 1]
  /\ Goes("IDLE")
  /\ UNCHANGED <<conn, worker, game, ui, loader, plan>>

(* handle_event: what is shown is shown anew, the end of the game resets it *)
Showing(e) == Uses \cap IF e.type = "refused" THEN {"note"} ELSE {e.type}
Ends(e) == e.type \in {"end", "refused"} /\ ui.reset = NoToken

Handled(e) ==
  LET m == IF Ends(e) THEN QueueIdle(mt, "reset", e.game) ELSE mt
      u == CHOOSE u \in Showing(e) : TRUE
  IN /\ Ends(e) => HasRoom(mt)
     /\ Showing(e) # {} => HasRoom(m)
     /\ mt' = IF Showing(e) = {} THEN m
              ELSE QueueTimeout(Cancel(m, {ui.timer[u]}), u, e.game)
     /\ ui' = [ui EXCEPT
                 !.local = Tail(@),
                 !.seen = IF e.type = "running" THEN @ ELSE e.n,
                 !.reset = IF Ends(e) THEN NewId(mt) ELSE @,
                 !.timer = [v \in Uses |-> IF v \in Showing(e) THEN NewId(m) ELSE @[v]],
                 !.shown = [v \in Uses |-> @[v] \/ v \in Showing(e)],
                 !.age = [v \in Uses |-> IF v \in Showing(e) THEN 0 ELSE @[v]]]

HandleEvent ==
  /\ At("HANDLING")
  /\ Handled(Head(ui.local))
  /\ Goes(IF Len(ui.local) = 1 THEN "FLUSHING" ELSE "HANDLING")
  /\ UNCHANGED <<conn, worker, game, loader, plan>>

(* The painters go, and with them the loader; new ones come when only the  *)
(* graphics context was lost                                               *)
FreePainters ==
  /\ At("IDLE")
  /\ mt' = Cancel(mt, {ui.timer["note"]})
  /\ loader' = Told([loader EXCEPT !.quit = TRUE])
  /\ ui' = [ui EXCEPT !.images = [i \in DOMAIN @ |-> IF @[i] = "asked" THEN "dropped" ELSE @[i]],
                      !.timer["note"] = NoToken, !.shown["note"] = FALSE, !.age["note"] = 0]
  /\ Goes("UNLOADING")
  /\ UNCHANGED <<conn, worker, game, plan>>

LoaderJoined ==
  /\ At("UNLOADING") /\ loader.at = "DONE"
  /\ mt' = Cancel(mt, {loader.idle})
  /\ loader' = [NewLoader EXCEPT !.at = "DONE"]
  /\ Goes("UNLOADED")
  /\ UNCHANGED <<conn, worker, game, ui, plan>>

NewPainters ==
  /\ At("UNLOADED") /\ ui.losses < plan.losses
  /\ loader' = NewLoader
  /\ ui' = [ui EXCEPT !.losses = @ + 1]
  /\ Goes("IDLE")
  /\ UNCHANGED <<conn, worker, game, mt, plan>>

(* The end: the game state goes, then the worker, and when the client is   *)
(* made anew (recreate_resources) all but the main thread's queues returns *)
Free ==
  /\ At("UNLOADED") /\ WFree
  /\ game' = [game EXCEPT !.events = <<>>, !.flush = NoToken]
  /\ mt' = Cancel(mt, {game.flush, ui.reset} \cup {ui.timer[u] : u \in Uses})
  /\ ui' = [Restful EXCEPT !.images = ui.images]
  /\ Goes("STOPPING")
  /\ UNCHANGED <<conn, worker, loader, plan>>

StopWorker ==
  /\ At("STOPPING") /\ WFree
  /\ worker' = Wake([worker EXCEPT !.quit = TRUE])
  /\ Goes("JOINING")
  /\ UNCHANGED <<conn, game, mt, ui, loader, plan>>

Joined == At("JOINING") /\ pc.worker = "DONE"

Recreate ==
  /\ Joined /\ conn.game < plan.games
  /\ conn' = NewConn(conn.game + 1)
  /\ worker' = NewWorker
  /\ loader' = NewLoader
  /\ pc' = [main |-> "BOOT", worker |-> "START"]
  /\ UNCHANGED <<game, mt, ui, plan>>

StopTimer ==
  /\ Joined
  /\ mt' = [mt EXCEPT !.ending = TRUE, !.timer = IF @ = "WAITING" THEN "SIGNALLED" ELSE @]
  /\ Goes("ENDING")
  /\ UNCHANGED <<conn, worker, game, ui, loader, plan>>

Exit ==
  /\ At("ENDING") /\ mt.timer \in {"NONE", "DONE"}
  /\ Goes("EXITED")
  /\ UNCHANGED <<conn, worker, game, mt, ui, loader, plan>>

Exited == At("EXITED") /\ UNCHANGED <<pc, conn, worker, game, mt, ui, loader, plan>>

(* Time: every timeout is nearer by a tick *)
Near(n) == IF n > 0 THEN n - 1 ELSE n
Nearer(m) ==
  [m EXCEPT !.until = Near(@),
            !.token = [i \in Ids |-> [m.token[i] EXCEPT !.left = Near(@)]]]

Tick ==
  /\ \E i \in DOMAIN mt.timeouts : mt.token[mt.timeouts[i]].left > 0
  /\ mt' = Nearer(mt)
  /\ ui' = [ui EXCEPT !.age = [u \in Uses |-> IF ui.shown[u] /\ @[u] < Duration[u]
                                           THEN @[u] + 1 ELSE @[u]]]
  /\ UNCHANGED <<pc, conn, worker, game, loader, plan>>

Worker == \/ WorkerStarts \/ PollReturns \/ WorkerWakes \/ WorkerGoesRound
          \/ \E found \in BOOLEAN : Resolved(found)
Player == \/ QueueAddress \/ SetPlayerName \/ Command \/ ResetByPlayer
          \/ LoadImage \/ CancelImage \/ FreePainters
Main == \/ Listen \/ SetRunning \/ ResetOnIdle \/ Clear \/ Flush \/ SkipCancelled
        \/ TakeEvents \/ (\E u \in Uses : TakeDown(u)) \/ StartReset \/ TakeImage
        \/ FlushDone
        \/ HandleEvent \/ LoaderJoined \/ NewPainters \/ Free \/ StopWorker \/ StopTimer \/ Exit
Loader == LoaderWakes \/ Loaded
Timer == TimerStarts \/ TimerWakes

Next == \/ Worker \/ Interrupted \/ Emit \/ DelayPasses
        \/ Player \/ Main \/ Recreate \/ Exited
        \/ Timer \/ Tick \/ Loader

Spec == Init /\ [][Next]_vars

(* Each thread goes on when it can (the main thread gets the mutex that     *)
(* the worker gives back in every round), time passes, an address that can be *)
(* looked up is found in the end, and poll is not interrupted for ever     *)
WorkerCan ==
  \/ pc.worker \in {"START", "POLLED", "RESOLVING", "WAKING"}
  \/ pc.worker = "POLLING" /\ \/ worker.pipe \/ worker.polled \in {"read", "write"}
                              \/ worker.tries /\ ~worker.delay
MainCan ==
  \/ pc.main \in {"CLEARING", "FLUSHING", "HANDLING"}
  \/ pc.main = "IDLE" /\ mt.woken
  \/ pc.main \in {"STARTING", "RESETTING", "STOPPING"} /\ WFree
  \/ pc.main = "UNLOADING" /\ loader.at = "DONE"
  \/ pc.main = "UNLOADED" \/ Joined
  \/ pc.main = "ENDING" /\ mt.timer \in {"NONE", "DONE"}
TimerCan == mt.timer \in {"STARTING", "SIGNALLED"} \/ (mt.timer = "WAITING" /\ mt.until = 0)
LoaderCan == loader.at \in {"START", "SIGNALLED", "LOADING"}
TickCan == \E i \in DOMAIN mt.timeouts : mt.token[mt.timeouts[i]].left > 0

FairSpec ==
  /\ Spec
  /\ (<>[]WorkerCan => []<><<Worker>>_vars)
  /\ ([]<>MainCan => []<><<Main>>_vars)
  /\ (<>[]TimerCan => []<><<Timer>>_vars)
  /\ (<>[]LoaderCan => []<><<Loader>>_vars)
  /\ (<>[]TickCan => []<><<Tick>>_vars)
  /\ (<>[]worker.delay => []<><<DelayPasses>>_vars)

(***************************************************************************)
(* Properties                                                              *)
(***************************************************************************)

Waiting == ToSet(mt.queue) \cup ToSet(mt.timeouts)
             \cup {mt.batch[i] : i \in mt.next..Len(mt.batch)}
Live == {i \in Waiting : ~mt.token[i].cancelled}
Pointers == ({game.flush, ui.reset, loader.idle} \cup {ui.timer[u] : u \in Uses}) \ {NoToken}

(* The lists of vsx-main-thread.c hold each token once, and the timeouts   *)
(* are in the order of their time.  And what vsx-image-loader.c asserts    *)
(* (:107, :154, :157): the slot is taken when the main thread comes for it *)
(* and empty when an image is put there                                    *)
ThreadsTypeOK ==
  /\ pc.main \in {"BOOT", "STARTING", "IDLE", "FLUSHING", "HANDLING", "RESETTING",
                  "CLEARING", "UNLOADING", "UNLOADED", "STOPPING", "JOINING", "ENDING",
                  "EXITED"}
  /\ pc.worker \in {"START", "POLLING", "POLLED", "RESOLVING", "WAKING", "DONE"}
  /\ mt.timer \in {"NONE", "STARTING", "WAITING", "SIGNALLED", "DONE"}
  /\ conn.game \in 0..plan.games
  /\ IsInjective(mt.queue \o mt.timeouts \o mt.batch)
  /\ \A i, j \in DOMAIN mt.timeouts :
       i < j => mt.token[mt.timeouts[i]].left <= mt.token[mt.timeouts[j]].left
  /\ Calling("image") => loader.slot # 0
  /\ loader.at = "LOADING" => loader.slot = 0 /\ loader.idle = NoToken

(* The queue between the threads implements the abstract channel: the main *)
(* thread handles the events of the connection in order, each once, and    *)
(* what a reset throws away was not yet sent in the game that begins       *)
Events ==
  INSTANCE InOrder WITH
    Receiver <- {"main"},
    Thing <- (0..Max({p.games : p \in Plans})) \X (1..Max({p.events : p \in Plans})),
    sent <- [r \in {"main"} |->
               IF ui.alive THEN [i \in 1..conn.said |-> <<conn.game, i>>] ELSE <<>>],
    received <- [r \in {"main"} |->
                   IF ui.alive /\ pc.main # "CLEARING"
                   THEN [i \in 1..ui.seen |-> <<conn.game, i>>] ELSE <<>>]

EventsAreDelivered == Events!Spec

(* The callbacks still to be called are those the game state and the       *)
(* painters hold a token of: each token is held once, for what it is used, *)
(* the tokens of a game that was reset or freed have been cancelled, and   *)
(* none that is held has been given back for another use                   *)
TokensAreHeld ==
  /\ Live = Pointers
  /\ game.flush # NoToken => mt.token[game.flush].use = "flush" /\ game.events # <<>>
  /\ ui.reset # NoToken => mt.token[ui.reset].use = "reset"
  /\ loader.idle # NoToken => mt.token[loader.idle].use = "image"
  /\ \A u \in Uses : IF ui.timer[u] = NoToken THEN ~ui.shown[u]
                      ELSE ui.shown[u] /\ mt.token[ui.timer[u]].use = u
  /\ pc.main # "CLEARING" =>
       \A i \in Live : mt.token[i].use \in {"flush", "reset"} => mt.token[i].of = conn.game

\* The two together: the values are of their types, and tokens are held by who uses them.
ThreadsSound == ThreadsTypeOK /\ TokensAreHeld

(* No thread sleeps through what it has to do: the worker in poll has a    *)
(* byte in its pipe or polls what the connection wants and knows of the    *)
(* address to resolve, the main thread has been told of a queue that is    *)
(* not empty, and the timeout thread sleeps no longer than its first token *)
NobodySleepsThrough ==
  /\ worker.poll = conn.poll \/ (worker.poll = "stdin" /\ conn.poll = "nothing")
  /\ pc.worker = "POLLING" /\ ~worker.pipe =>
       /\ worker.polled = worker.poll
       /\ worker.toResolve # NoAddress => worker.tries
       /\ ~worker.quit
  /\ mt.queue # <<>> => mt.woken
  /\ mt.timer = "WAITING" =>
       /\ ~mt.ending
       /\ mt.timeouts # <<>> => mt.until \in 0..mt.token[Head(mt.timeouts)].left

(* The connection has, or the worker will give it, the address that was    *)
(* asked for last, however long the look-up of another one took            *)
TheLastAddressCounts ==
  /\ worker.toResolve \in {NoAddress, ui.asked} \/ ~ui.alive
  /\ ui.alive => ui.asked \in {conn.address, worker.toResolve, worker.stolen}

(* What the saved state says of the player is what the connection would    *)
(* connect as: it changes with the header, on the worker, and with a reset *)
SavedIsCurrent == ui.alive /\ pc.main # "CLEARING" => game.saved = conn.who

(* No thread misses what it is told, and what it is told last counts        *)
NothingIsMissed == NobodySleepsThrough /\ TheLastAddressCounts /\ SavedIsCurrent

(* A shout or a note that is shown anew lasts its whole time again, even   *)
(* when its earlier timeout has run out and waits to be called: only a     *)
(* reset or the end takes a shout down before                              *)
NotCutShort ==
  [][\A u \in Uses : ui.shown[u] /\ ~ui'.shown[u] =>
       ui.age[u] = Duration[u] \/ (u = "shout" /\ pc.main = "CLEARING")
         \/ (u = "note" /\ pc.main' = "UNLOADING") \/ ~ui'.alive]_vars

(* The threads get there: events are handled (or dropped by a reset), what *)
(* is shown is taken down (not before its time), the address is found, and *)
(* threads that are told to stop are joined                                *)
ThreadsGetThere ==
  /\ NotCutShort
  /\ game.events # <<>> ~> game.events = <<>>
  /\ \A u \in Uses : ui.shown[u] ~> ~ui.shown[u]
  /\ ui.alive ~> (~ui.alive \/ conn.address = ui.asked)
  /\ (1 \in DOMAIN ui.images /\ Wanted(1)) ~> ~(1 \in DOMAIN ui.images /\ Wanted(1))
  /\ pc.main \in {"UNLOADING", "STOPPING"} ~> pc.main \in {"IDLE", "BOOT", "EXITED"}
====
