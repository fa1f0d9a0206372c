-------------------------- MODULE ClientConnection --------------------------
(***************************************************************************)
(* The connection of a client to the server: src/client/vsx-connection.c,  *)
(* driven by the loop of src/client/vsx-worker.c, with the part of the     *)
(* server (src/server/vsx-connection.c) that it talks to and a network     *)
(* that refuses and loses connections.                                     *)
(*                                                                         *)
(* The application calls the connection from its own thread, the worker    *)
(* from another; each call holds the lock of the worker.  The worker polls *)
(* without the lock what the connection last published (update_poll) and   *)
(* then passes the events it saw to vsx_connection_wake_up.  Frames are    *)
(* whole: the input buffer keeps the start of a frame until the rest comes *)
(* and is emptied with each new connection.                                *)
(***************************************************************************)
EXTENDS Integers, Sequences

CONSTANTS
    Tile, Place,        \* tiles and where they can be moved to
    InitialTimeout, MaxTimeout, StableTime, KeepAliveTime,
                        \* the four times of vsx-connection.c, in ticks
    SilenceTime,        \* after which the server forgets a person, in ticks
    OutCap, WireCap,    \* capacities of a buffer and of the network, in frames
    Plan                \* bounds of the model: what may happen in a behaviour

Calls == {"RESTORE", "STOP", "RESET", "TYPE", "FLAG", "MOVE", "SAY", "LEAVE"}

ASSUME ClientAssumption ==
    /\ InitialTimeout \in Nat \ {0} /\ MaxTimeout \in Nat
    /\ InitialTimeout <= MaxTimeout
    /\ StableTime \in Nat \ {0} /\ KeepAliveTime \in Nat \ {0}
    /\ SilenceTime \in Nat /\ KeepAliveTime < SilenceTime
    /\ OutCap \in Nat \ {0} /\ WireCap \in Nat \ {0}
    /\ Plan \subseteq [calls : SUBSET Calls,  \* what the application calls,
                       budget : Nat,          \* how often in all,
                       faults : Nat,          \* faults of the network,
                       others : Nat,          \* messages of other players,
               fresh : BOOLEAN]       \* whether it has still to be configured

VARIABLES
    plan,    \* the one of Plan that bounds this behaviour
    left,    \* what is left of its budget, faults and others
    c,       \* struct vsx_connection
    polled,  \* the events poll returned with, NotYet while it waits
    net,     \* the network between c's socket and the server
    server,  \* what the server knows of this client's person
    link,    \* the server's end of the connection
    hist     \* what was asked, shown and lost, for the properties

vars == <<plan, left, c, polled, net, server, link, hist>>

Never == -1          \* INT64_MAX
NotYet == {"NOT YET"}
NoPerson == 0
Saved == 1           \* the person of the saved instance state
Nowhere == "nowhere"

NoNet == [st |-> "NONE", toServer |-> <<>>, toClient |-> <<>>]

\* The server's end: conn->state and write_finished, whether it follows a person,
\* has still to refuse one or has had bad input, and what it has been told.
NoLink == [st |-> "NONE", person |-> FALSE, refused |-> FALSE, bad |-> FALSE,
           at |-> 0, told |-> {}]

\* vsx_connection_new: all zero, then vsx_connection_reset.
NewClient ==
    [address |-> FALSE, name |-> FALSE, person |-> NoPerson,
     state |-> "DISCONNECTED", finished |-> FALSE, typing |-> FALSE,
     sentTyping |-> FALSE, writeFinished |-> FALSE, next |-> 0, timeout |-> 0,
     reconnectIn |-> Never, playerAge |-> Never, keepAliveIn |-> Never,
     dirty |-> {}, tiles |-> <<>>, messages |-> <<>>, sock |-> FALSE,
     synced |-> FALSE, out |-> <<>>, upgraded |-> FALSE,
     poll |-> [fd |-> FALSE, events |-> {}, wakeup |-> Never]]

\* vsx_person_new.  log counts the messages of the game, and offset those of
\* before this person came (message_offset).
NewPerson(id, log) ==
    [person |-> id, known |-> TRUE, left |-> FALSE, offset |-> log, log |-> log,
     heard |-> <<>>, typing |-> FALSE, place |-> [t \in Tile |-> Nowhere],
     silent |-> 0]

NoHist == [shown |-> <<>>, before |-> 0, said |-> 0,
           moved |-> [t \in Tile |-> Nowhere], lost |-> FALSE, tries |-> 0,
           wanted |-> FALSE, putOff |-> FALSE]

-----------------------------------------------------------------------------
(* What the connection waits for.                                          *)

Least(S) == CHOOSE x \in S : \A y \in S : x <= y

HasPendingData(k) ==
    \/ k.out # <<>> \/ k.dirty # {} \/ k.tiles # <<>> \/ k.messages # <<>>
    \/ k.sentTyping # k.typing

\* calculate_poll_events, but for the shutdown
Events(k) ==
    CASE k.state = "RECONNECTING" -> {"OUT"}
      [] k.state = "RUNNING" ->
           {"IN"} \cup {e \in {"OUT"} : ~k.writeFinished /\ HasPendingData(k)}
      [] OTHER -> {}

\* The shutdown of calculate_poll_events: finished, and all has been written.
ShutsDown(k) ==
    /\ k.state = "RUNNING" /\ ~k.writeFinished
    /\ ~HasPendingData(k) /\ k.finished

\* calculate_wakeup_timestamp
Wakeup(k) ==
    LET times == {k.reconnectIn, k.keepAliveIn} \ {Never}
    IN IF times = {} THEN Never ELSE Least(times)

UpdatePoll(k) ==
    [k EXCEPT !.writeFinished = @ \/ ShutsDown(k),
              !.poll = [fd |-> k.sock, events |-> Events(k),
                        wakeup |-> Wakeup(k)]]

-----------------------------------------------------------------------------
(* Connecting, failing and stopping.                                       *)

CloseSocket(k) ==
    IF k.sock THEN [k EXCEPT !.sock = FALSE, !.keepAliveIn = Never] ELSE k

\* set_reconnect_timestamp
SetReconnectTimestamp(k) ==
    [k EXCEPT !.reconnectIn = k.timeout,
              !.timeout = IF @ = 0 THEN InitialTimeout
                          ELSE Least({2 * @, MaxTimeout})]

\* Fault for a mutant: the poll is updated before the time is set.
ReportErrorTooEarly(k) ==
    SetReconnectTimestamp(UpdatePoll(
        [CloseSocket(k) EXCEPT !.timeout = IF k.playerAge >= StableTime THEN 0
                                           ELSE @]))

ReportError(k) ==
    LET closed == CloseSocket(k)
        stable == k.playerAge # Never /\ k.playerAge >= StableTime
    IN UpdatePoll(SetReconnectTimestamp(
         [closed EXCEPT !.timeout = IF stable THEN 0 ELSE @]))

\* Fault for a mutant: the age of the last connection is not forgotten.
ReconnectingWithAge(k) == CloseSocket([k EXCEPT !.reconnectIn = Never])

\* The part of try_reconnect that is done whatever becomes of connect.
Reconnecting(k) ==
    CloseSocket([k EXCEPT !.reconnectIn = Never, !.playerAge = Never])

\* try_reconnect once connect has succeeded or is in progress
Reconnected(k, state) ==
    UpdatePoll([Reconnecting(k) EXCEPT
        !.sock = TRUE, !.state = state, !.dirty = @ \cup {"WS_HEADER", "HEADER"},
        !.out = <<>>, !.upgraded = FALSE, !.writeFinished = FALSE,
        !.synced = FALSE])

HasConfiguration(k) == k.address /\ (k.person # NoPerson \/ k.name)

\* start_connecting_running_state
StartConnecting(k) ==
    IF HasConfiguration(k)
      THEN UpdatePoll([k EXCEPT !.timeout = 0, !.reconnectIn = 0,
                                !.state = "WAITING_FOR_RECONNECT"])
      ELSE [k EXCEPT !.timeout = 0, !.reconnectIn = Never,
                     !.state = "WAITING_FOR_CONFIGURATION"]

\* vsx_connection_set_running(FALSE)
Stopped(k) ==
    CASE k.state \in {"RECONNECTING", "RUNNING"} ->
           UpdatePoll(CloseSocket([k EXCEPT !.state = "DISCONNECTED"]))
      [] k.state = "WAITING_FOR_RECONNECT" ->
           UpdatePoll([k EXCEPT !.state = "DISCONNECTED",
                                !.reconnectIn = Never])
      [] OTHER -> [k EXCEPT !.state = "DISCONNECTED"]

\* vsx_connection_reset: all but the address, what was published, synced, the
\* buffers and what try_reconnect sets is forgotten.
ResetClient(k) ==
    UpdatePoll(Stopped([CloseSocket(k) EXCEPT
        !.name = FALSE, !.person = NoPerson, !.finished = FALSE,
        !.typing = FALSE, !.sentTyping = FALSE, !.next = 0, !.dirty = {},
        !.keepAliveIn = Never, !.reconnectIn = Never, !.playerAge = Never,
        !.timeout = 0, !.tiles = <<>>, !.messages = <<>>]))

-----------------------------------------------------------------------------
(* Writing.                                                                *)

\* The dirty flags in the order in which they are written.  N_TILES stands for
\* the settings, and for SHOUT and TURN, which are written after LEAVE.
Flags == <<"WS_HEADER", "HEADER", "KEEP_ALIVE", "N_TILES", "LEAVE">>

\* write_header: the assertion that the name is there is HeaderCanBeWritten.
Header(k) ==
    IF k.person # NoPerson
      THEN [type |-> "RECONNECT", person |-> k.person, n |-> k.next]
      ELSE [type |-> "NEW_PLAYER"]

FlagFrame(k, flag) == IF flag = "HEADER" THEN Header(k) ELSE [type |-> flag]

WriteOneItem(k) ==
    LET flags == {i \in DOMAIN Flags : Flags[i] \in k.dirty}
        flag == Flags[Least(flags)]
        move == Head(k.tiles)
    IN IF flags # {}
         THEN [k EXCEPT !.out = Append(@, FlagFrame(k, flag)),
                        !.dirty = @ \ {flag}]
       ELSE IF k.tiles # <<>>
         THEN [k EXCEPT !.out = Append(@, [type |-> "MOVE_TILE",
                                  tile |-> move.num, place |-> move.place]),
                        !.tiles = Tail(@)]
       ELSE IF k.messages # <<>>
         THEN [k EXCEPT !.out = Append(@, [type |-> "SEND_MESSAGE",
                                           n |-> Head(k.messages)]),
                        !.messages = Tail(@), !.sentTyping = FALSE]
       ELSE IF k.typing # k.sentTyping
         THEN [k EXCEPT !.out = Append(@, [type |-> "TYPING", on |-> k.typing]),
                        !.sentTyping = k.typing]
       ELSE k

\* fill_output_buffer: one item after the other, while there is room for it.
FillOutputBuffer(k) ==
    LET Filled[i \in 0..OutCap] ==
          IF i = 0 THEN k
          ELSE IF Len(Filled[i - 1].out) < OutCap THEN WriteOneItem(Filled[i - 1])
          ELSE Filled[i - 1]
    IN Filled[OutCap]

\* Faults for mutants: what was written is published no more, or stays in the
\* buffer with the rest.
WrittenUnpublished(k, n) ==
    [k EXCEPT !.out = SubSeq(@, n + 1, Len(@)), !.keepAliveIn = KeepAliveTime]
WrittenFromTheStart(k, n) ==
    UpdatePoll([k EXCEPT !.out = IF n = Len(@) THEN <<>> ELSE @,
                         !.keepAliveIn = KeepAliveTime])

\* handle_write, when the socket takes n frames
Written(k, n) ==
    UpdatePoll([k EXCEPT !.out = SubSeq(@, n + 1, Len(@)),
                         !.keepAliveIn = KeepAliveTime])

-----------------------------------------------------------------------------
(* Reading.                                                                *)

\* process_message.  The other commands are passed on as events and change
\* nothing here.
Processed(k, f) ==
    CASE f.type = "UPGRADED" -> [k EXCEPT !.upgraded = TRUE]
      [] f.type = "PLAYER_ID" -> [k EXCEPT !.person = f.person, !.playerAge = 0]
      [] f.type = "MESSAGE" -> [k EXCEPT !.next = @ + 1]
      [] f.type = "SYNC" -> [k EXCEPT !.synced = TRUE]
      [] f.type \in {"END", "BAD_PLAYER_ID"} -> [k EXCEPT !.finished = TRUE]

Shown(shown, f) == IF f.type = "MESSAGE" THEN Append(shown, f.n) ELSE shown

\* process_frames: the connection, and what the player has been shown, after it
\* has taken the frames one after the other.
ProcessFrames(k, shown, frames) ==
    LET After[i \in 0..Len(frames)] ==
          IF i = 0 THEN [conn |-> k, shown |-> shown]
          ELSE [conn |-> Processed(After[i - 1].conn, frames[i]),
                shown |-> Shown(After[i - 1].shown, frames[i])]
    IN After[Len(frames)]

\* handle_read at the end of the stream
ReadEof(k) == IF k.finished THEN Stopped(k) ELSE ReportError(k)

-----------------------------------------------------------------------------
(* The worker.                                                             *)

\* What poll would report for the socket as it is.
ReadyEvents ==
    IF ~c.poll.fd THEN {}
    ELSE CASE net.st = "BROKEN" -> {"IN", "OUT", "ERR"} \cap (c.poll.events \cup {"ERR"})
           [] net.st = "UP" ->
                c.poll.events \cap ({e \in {"IN"} : net.toClient # <<>>}
                  \cup {e \in {"OUT"} : Len(net.toServer) < WireCap})
           [] OTHER -> {}

LoopDue == ReadyEvents # {} \/ c.poll.wakeup = 0

\* poll returns to the worker, which then waits for the lock.
PollReturns ==
    /\ polled = NotYet /\ LoopDue
    /\ polled' = ReadyEvents
    /\ UNCHANGED <<plan, left, c, net, server, link, hist>>

\* The connection ends: what was under way is lost, with what is still in the
\* output buffer, and the server sees the end of it.
Ended(st, out) ==
    /\ net' = [NoNet EXCEPT !.st = st]
    /\ link' = NoLink
    /\ hist' = [hist EXCEPT !.lost = @ \/ net.toServer # <<>> \/ out # <<>>
                                      \/ c.person = NoPerson]
\* c closes its socket.
Dropped(out) == Ended("NONE", out)

\* vsx_connection_wake_up begins with this when there is a socket.
Woken ==
    LET running == c.state = "RECONNECTING" /\ "OUT" \in polled
        k == [c EXCEPT !.state = IF running THEN "RUNNING" ELSE @]
    IN IF k.keepAliveIn = 0
         THEN [k EXCEPT !.keepAliveIn = Never, !.dirty = @ \cup {"KEEP_ALIVE"}]
         ELSE k

\* try_reconnect, called by vsx_connection_wake_up
TryReconnect ==
    /\ ~c.sock /\ c.reconnectIn = 0
    /\ \/ /\ c' = Reconnected(c, "RECONNECTING")
          /\ net' = [NoNet EXCEPT !.st = "CONNECTING"]
          /\ left' = left
       \/ /\ left.faults > 0
          /\ left' = [left EXCEPT !.faults = @ - 1]
          /\ c' = ReportError(Reconnecting(c))
          /\ net' = net
    /\ link' = link
    /\ hist' = [hist EXCEPT !.tries = @ + 1, !.putOff = FALSE]

\* Nothing can be read after all (EINTR), or only a part of the answer to the
\* handshake: what is polled for stays as it is.
ReadsNothing ==
    /\ net.st = "UP" /\ left.faults > 0 /\ Woken # c
    /\ c' = Woken
    /\ UNCHANGED <<net, link, hist>>

HandleRead ==
    /\ c.sock /\ polled \cap {"IN", "ERR"} # {}
    /\ \/ /\ net.st = "BROKEN"
          /\ c' = ReportError(Woken)
          /\ Dropped(c.out)
       \/ /\ net.st = "UP" /\ net.toClient # <<>>
          /\ LET first == Head(net.toClient).type IN
             \/ /\ first = "EOF"
                /\ c' = ReadEof(Woken)
                /\ Dropped(c.out)
             \/ /\ first = "BAD"
                /\ c' = ReportError(Woken)
                /\ Dropped(c.out)
             \/ /\ first \notin {"EOF", "BAD"}
                /\ \E n \in 1..Len(net.toClient) :
                     LET frames == SubSeq(net.toClient, 1, n)
                         after == ProcessFrames(Woken, hist.shown, frames)
                     IN /\ \A i \in 1..n : frames[i].type \notin {"EOF", "BAD"}
                        /\ c' = UpdatePoll(after.conn)
                        /\ net' = [net EXCEPT !.toClient =
                                     SubSeq(@, n + 1, Len(@))]
                        /\ hist' = [hist EXCEPT !.shown = after.shown]
                /\ link' = link
       \/ ReadsNothing
    /\ left' = left

HandleWrite ==
    /\ c.sock /\ polled \cap {"IN", "ERR"} = {} /\ "OUT" \in polled
    /\ LET k == FillOutputBuffer(Woken) IN
       \/ /\ net.st = "BROKEN" \/ c.writeFinished  \* EPIPE once it is shut down
          /\ c' = ReportError(k)
          /\ Dropped(k.out)
       \/ /\ net.st = "UP" /\ ~c.writeFinished
          /\ \E n \in 0..Least({Len(k.out), WireCap - Len(net.toServer)}) :
               /\ n > 0 \/ k.out = <<>>
               /\ c' = Written(k, n)
               /\ net' = [net EXCEPT !.toServer = @ \o SubSeq(k.out, 1, n)]
               /\ hist' = [hist EXCEPT !.putOff = @ \/ n = 0]
          /\ link' = link
       \/ /\ net.st = "UP" /\ ~c.writeFinished /\ left.faults > 0
          /\ k # c  \* EINTR
          /\ c' = k
          /\ UNCHANGED <<net, link, hist>>
    /\ left' = left

\* Nothing to read and nothing to write, or no socket and not time yet.
WakeUpForNothing ==
    /\ IF c.sock THEN polled = {} /\ c' = UpdatePoll(Woken)
                 ELSE c.reconnectIn # 0 /\ c' = c
    /\ UNCHANGED <<left, net, link, hist>>

\* vsx_connection_wake_up
WakeUp ==
    /\ polled # NotYet
    /\ TryReconnect \/ HandleRead \/ HandleWrite \/ WakeUpForNothing
    /\ polled' = NotYet
    /\ UNCHANGED <<plan, server>>

-----------------------------------------------------------------------------
(* The application.  Each call but those that configure and start the      *)
(* connection is limited by the plan.                                      *)

Called(call) ==
    /\ call \in plan.calls /\ left.calls > 0
    /\ left' = [left EXCEPT !.calls = @ - 1]

\* maybe_start_connecting_running_state
MaybeStart(k) ==
    IF k.state = "WAITING_FOR_CONFIGURATION" THEN StartConnecting(k) ELSE k

\* vsx_connection_set_address, by the worker once it has resolved the name
SetAddress ==
    /\ ~c.address
    /\ c' = MaybeStart([c EXCEPT !.address = TRUE])
    /\ UNCHANGED <<left, net, link, hist>>

\* vsx_connection_set_player_name, and with it vsx_connection_set_room
SetPlayerName ==
    /\ ~c.name
    /\ c' = MaybeStart([c EXCEPT !.name = TRUE])
    /\ UNCHANGED <<left, net, link, hist>>

\* vsx_connection_set_person_id, with the one of a saved instance state
SetPersonId ==
    /\ "RESTORE" \in plan.calls /\ c.person = NoPerson
    /\ c.next = 0 /\ ~c.name
    /\ c' = MaybeStart([c EXCEPT !.person = Saved])
    /\ hist' = [hist EXCEPT !.lost = TRUE]
    /\ UNCHANGED <<left, net, link>>

\* vsx_connection_set_running(TRUE)
Start ==
    /\ ~hist.wanted
    /\ c' = IF c.state = "DISCONNECTED" THEN StartConnecting(c) ELSE c
    /\ hist' = [hist EXCEPT !.wanted = TRUE, !.tries = 0]
    /\ UNCHANGED <<left, net, link>>

\* vsx_connection_set_running(FALSE)
Stop ==
    /\ hist.wanted /\ Called("STOP")
    /\ c' = Stopped(c)
    /\ IF c.sock /\ ~c'.sock THEN net' = NoNet /\ link' = NoLink
                            ELSE UNCHANGED <<net, link>>
    /\ hist' = [hist EXCEPT !.wanted = FALSE, !.lost = TRUE]

\* vsx_connection_reset, for another game
Reset ==
    /\ Called("RESET")
    /\ c' = ResetClient(c)
    /\ net' = NoNet /\ link' = NoLink
    /\ hist' = [NoHist EXCEPT !.before = hist.said, !.said = hist.said]

\* vsx_connection_set_typing
SetTyping ==
    /\ Called("TYPE")
    /\ c' = UpdatePoll([c EXCEPT !.typing = ~@])
    /\ UNCHANGED <<net, link, hist>>

\* vsx_connection_set_n_tiles, set_language, shout and turn
SetFlag ==
    /\ Called("FLAG")
    /\ c' = UpdatePoll([c EXCEPT !.dirty = @ \cup {"N_TILES"}])
    /\ UNCHANGED <<net, link, hist>>

\* vsx_connection_move_tile: a tile that still waits keeps its place in line.
MoveTile(t, p) ==
    LET at == {i \in DOMAIN c.tiles : c.tiles[i].num = t}
        move == [num |-> t, place |-> p]
    IN /\ Called("MOVE")
       /\ c' = UpdatePoll([c EXCEPT
                 !.tiles = IF at = {} THEN Append(@, move)
                           ELSE [i \in DOMAIN @ |->
                                   IF i \in at THEN move ELSE @[i]]])
       /\ hist' = [hist EXCEPT !.moved[t] = p]
       /\ UNCHANGED <<net, link>>

\* vsx_connection_send_message; the n-th message is n
SendMessage ==
    /\ Called("SAY")
    /\ hist' = [hist EXCEPT !.said = @ + 1]
    /\ c' = UpdatePoll([c EXCEPT !.messages = Append(@, hist.said + 1)])
    /\ UNCHANGED <<net, link>>

\* vsx_connection_leave
Leave ==
    /\ Called("LEAVE")
    /\ c' = UpdatePoll([c EXCEPT !.dirty = @ \cup {"LEAVE"}])
    /\ UNCHANGED <<net, link, hist>>

Application ==
    /\ \/ SetAddress \/ SetPlayerName \/ SetPersonId \/ Start \/ Stop \/ Reset
       \/ SetTyping \/ SetFlag \/ SendMessage \/ Leave
       \/ \E t \in Tile, p \in Place : MoveTile(t, p)
    /\ UNCHANGED <<plan, polled, server>>

-----------------------------------------------------------------------------
(* The server, as this client sees it.                                     *)

\* What a command of a person changes in the game.
Heard(f) ==
    CASE f.type = "SEND_MESSAGE" ->
           [server EXCEPT !.silent = 0, !.log = @ + 1, !.typing = FALSE,
                          !.heard = Append(@, f.n)]
      [] f.type = "MOVE_TILE" ->
           [server EXCEPT !.silent = 0, !.place[f.tile] = f.place]
      [] f.type = "TYPING" ->
           [server EXCEPT !.silent = 0, !.typing = f.on /\ ~server.left]
      [] f.type = "LEAVE" ->
           [server EXCEPT !.silent = 0, !.left = TRUE, !.typing = FALSE]
      [] OTHER -> [server EXCEPT !.silent = 0]

Commands == {"KEEP_ALIVE", "N_TILES", "LEAVE", "MOVE_TILE", "SEND_MESSAGE",
             "TYPING"}

\* The server takes a command from its socket.  After bad input, which a command
\* is that comes without a person, it takes no notice of the others.
ServerReads ==
    /\ net.toServer # <<>> /\ net.st = "UP"
    /\ net' = [net EXCEPT !.toServer = Tail(@)]
    /\ LET f == Head(net.toServer)
           known == f.person = server.person /\ server.known
           ahead == f.n > server.log - server.offset
       IN
       CASE link.bad -> UNCHANGED <<link, server>>
         [] ~link.bad /\ f.type = "WS_HEADER" ->
              /\ link' = [link EXCEPT !.st = "WRITING"]
              /\ server' = server
         [] ~link.bad /\ f.type = "NEW_PLAYER" /\ ~link.person ->
              /\ server' = NewPerson(server.person + 1, server.log)
              /\ link' = [link EXCEPT !.person = TRUE, !.at = 0]
         [] ~link.bad /\ f.type = "RECONNECT" /\ ~link.person ->
              /\ server' = IF known /\ ~ahead THEN [server EXCEPT !.silent = 0]
                           ELSE server
              /\ link' = IF ~known THEN [link EXCEPT !.refused = TRUE]
                         ELSE IF ahead THEN [link EXCEPT !.bad = TRUE]
                         ELSE [link EXCEPT !.person = TRUE, !.at = f.n]
         [] ~link.bad /\ link.person /\ f.type \in Commands ->
              /\ server' = Heard(f)
              /\ link' = link
         [] OTHER ->
              /\ link' = [link EXCEPT !.bad = TRUE]
              /\ server' = server
    /\ UNCHANGED <<plan, left, c, polled, hist>>

Tells(type) == [type |-> type]

\* What the server has to tell, and its end of the connection after that, in
\* the order of vsx_connection_fill_output_buffer.
ServerTells ==
    LET told(type) == [link EXCEPT !.told = @ \cup {type}]
    IN IF link.st # "WRITING" THEN {}
       ELSE IF "UPGRADED" \notin link.told
         THEN {<<Tells("UPGRADED"), told("UPGRADED")>>}
       ELSE IF link.refused
         THEN {<<Tells("BAD_PLAYER_ID"), [link EXCEPT !.st = "DONE"]>>}
       ELSE IF ~link.person THEN {}
       ELSE IF "PLAYER_ID" \notin link.told
         THEN {<<[type |-> "PLAYER_ID", person |-> server.person],
                 told("PLAYER_ID")>>}
       ELSE IF link.at < server.log - server.offset
         THEN {<<[type |-> "MESSAGE", n |-> server.offset + link.at + 1],
                 [link EXCEPT !.at = @ + 1]>>}
       ELSE IF server.left THEN {<<Tells("END"), [link EXCEPT !.st = "DONE"]>>}
       ELSE IF "SYNC" \notin link.told THEN {<<Tells("SYNC"), told("SYNC")>>}
       ELSE {}

CanWrite ==
    net.st = "UP" /\ Len(net.toClient) < WireCap /\ ServerTells # {}

ServerWrites ==
    /\ CanWrite
    /\ \E w \in ServerTells :
         /\ net' = [net EXCEPT !.toClient = Append(@, w[1])]
         /\ link' = w[2]
    /\ UNCHANGED <<plan, left, c, polled, server, hist>>

\* The server shuts its end after bad input, or when it has read the end of the
\* client's, once it has nothing more to tell.
CanShut ==
    /\ net.st = "UP" /\ Len(net.toClient) < WireCap
    /\ ServerTells = {} /\ link.st # "SHUT"
    /\ link.bad \/ (net.toServer = <<>> /\ c.sock /\ c.writeFinished)

ServerShuts ==
    /\ CanShut
    /\ net' = [net EXCEPT !.toClient = Append(@, Tells("EOF"))]
    /\ link' = [link EXCEPT !.st = "SHUT"]
    /\ UNCHANGED <<plan, left, c, polled, server, hist>>

\* Another player says something.
OtherSays ==
    /\ left.others > 0 /\ server.person # NoPerson
    /\ left' = [left EXCEPT !.others = @ - 1]
    /\ server' = [server EXCEPT !.log = @ + 1]
    /\ UNCHANGED <<plan, c, polled, net, link, hist>>

-----------------------------------------------------------------------------
(* The network and the clock.                                              *)

Unreachable == net.st \in {"CONNECTING", "UP"} /\ left.faults > 0

\* connect succeeds, later than it returned.
Connects ==
    /\ net.st = "CONNECTING"
    /\ net' = [net EXCEPT !.st = "UP"]
    /\ UNCHANGED <<plan, left, c, polled, server, link, hist>>

\* The connection is refused, or lost with what was under way; c learns it
\* when it next reads or writes.
Breaks ==
    /\ Unreachable
    /\ Ended("BROKEN", c.out)
    /\ left' = [left EXCEPT !.faults = @ - 1]
    /\ UNCHANGED <<plan, c, polled, server>>

\* A command arrives that the client does not understand.
Garbles ==
    /\ Unreachable /\ "UPGRADED" \in link.told /\ link.st # "SHUT"
    /\ Len(net.toClient) < WireCap
    /\ net' = [net EXCEPT !.toClient = Append(@, Tells("BAD"))]
    /\ left' = [left EXCEPT !.faults = @ - 1]
    /\ UNCHANGED <<plan, c, polled, server, link, hist>>

Sooner(t) == IF t > 0 THEN t - 1 ELSE t
Older(t, most) == IF t = Never THEN t ELSE Least({t + 1, most})

\* Time passes while the worker has nothing to do; a tick is longer than what
\* is sent takes to arrive.  The server forgets a person that was silent for
\* too long, who so leaves the game.
Idle == polled = NotYet /\ ~LoopDue /\ net.toServer = <<>>

Tick ==
    /\ Idle
    /\ c' = [c EXCEPT !.reconnectIn = Sooner(@), !.keepAliveIn = Sooner(@),
                      !.playerAge = Older(@, StableTime),
                      !.poll.wakeup = Sooner(@)]
    /\ server' = IF ~server.known THEN server
                 ELSE IF server.silent < SilenceTime
                 THEN [server EXCEPT !.silent = @ + 1]
                 ELSE [server EXCEPT !.known = FALSE, !.left = TRUE,
                                     !.typing = FALSE]
    /\ hist' = [hist EXCEPT !.tries = 0]
    /\ UNCHANGED <<plan, left, polled, net, link>>

Environment ==
    \/ ServerReads \/ ServerWrites \/ ServerShuts \/ OtherSays
    \/ Connects \/ Breaks \/ Garbles \/ Tick

Init ==
    /\ plan \in Plan
    /\ left = [calls |-> plan.budget, faults |-> plan.faults,
               others |-> plan.others]
    /\ c = IF plan.fresh THEN NewClient
          ELSE StartConnecting([NewClient EXCEPT !.address = TRUE, !.name = TRUE])
    /\ polled = NotYet
    /\ net = NoNet
    /\ server \in IF "RESTORE" \in plan.calls
                  THEN {NewPerson(Saved, 0), [NewPerson(Saved, 0) EXCEPT
                                                !.known = FALSE, !.left = TRUE]}
                  ELSE {[NewPerson(NoPerson, 0) EXCEPT !.known = FALSE]}
    /\ link = NoLink
    /\ hist = [NoHist EXCEPT !.wanted = ~plan.fresh]

Next == Application \/ PollReturns \/ WakeUp \/ Environment
Spec == Init /\ [][Next]_vars

\* The worker's loop goes on, and so do the network, the server and the clock:
\* weak fairness of PollReturns \/ WakeUp, of Connects, of ServerReads, of
\* ServerWrites \/ ServerShuts and of Tick, written out.
Fairness ==
    /\ <>[](LoopDue \/ polled # NotYet) => []<><<TRUE>>_polled
    /\ <>[](net.st = "CONNECTING") => []<><<TRUE>>_net
    /\ <>[](net.st = "UP" /\ net.toServer # <<>>) => []<><<ServerReads>>_net
    /\ <>[](CanWrite \/ CanShut) => []<><<TRUE>>_link
    /\ <>[](Idle /\ c.poll.wakeup > 0) => []<><<Tick>>_c
FairSpec == Spec /\ Fairness

-----------------------------------------------------------------------------
(* Properties.                                                             *)

\* The types of the variables, and what bounds them; and the assertion in
\* write_header: there is a person or a name when the header is written.
ClientTypeOK ==
    /\ plan \in Plan
    /\ left.calls \in 0..plan.budget /\ left.faults \in 0..plan.faults
    /\ left.others \in 0..plan.others
    /\ c.state \in {"DISCONNECTED", "RECONNECTING", "RUNNING",
                    "WAITING_FOR_RECONNECT", "WAITING_FOR_CONFIGURATION"}
    /\ {c.address, c.name, c.finished, c.typing, c.sentTyping, c.sock, c.synced,
        c.writeFinished, c.upgraded, c.poll.fd} \subseteq BOOLEAN
    /\ c.timeout \in 0..MaxTimeout /\ c.reconnectIn \in Never..MaxTimeout
    /\ c.keepAliveIn \in Never..KeepAliveTime
    /\ c.playerAge \in Never..StableTime
    /\ Len(c.out) <= OutCap /\ c.dirty \subseteq {Flags[i] : i \in DOMAIN Flags}
    /\ polled = NotYet \/ polled \subseteq {"IN", "OUT", "ERR"}
    /\ Len(net.toServer) <= WireCap /\ Len(net.toClient) <= WireCap
    /\ server.silent \in 0..SilenceTime
    /\ "HEADER" \in c.dirty => c.person # NoPerson \/ c.name

\* While the worker sleeps, it polls the socket there is for all that the
\* connection waits for, and wakes up no later than it has to: no path through
\* the code leaves out an update_poll that was needed.
NothingWaitsForAPoll ==
    polled = NotYet /\ ~LoopDue =>
      /\ c.poll.fd = c.sock
      /\ c.sock => Events(c) \subseteq c.poll.events
      /\ Wakeup(c) # Never => c.poll.wakeup \in 0..Wakeup(c)

\* The two together: the values are of their types, and the poll is never stale.
ClientSound == ClientTypeOK /\ NothingWaitsForAPoll

\* The messages shown are those said since the person joined, in order, each
\* of them once, however often the connection was lost in between.
ShownInOrder ==
    /\ c.next = Len(hist.shown)
    /\ c.person = server.person =>
         hist.shown = [i \in 1..c.next |-> server.offset + i]

\* What the player did has reached the server once nothing is left to write
\* and nothing on its way, if no connection was lost with something in it.
Settled ==
    /\ ~hist.lost /\ c.sock /\ link.person /\ ~server.left
    /\ net.toServer = <<>> /\ ~HasPendingData(c)
DoneIsHeard ==
    Settled =>
      /\ server.typing = c.typing
      /\ server.heard = [i \in 1..hist.said - hist.before |-> hist.before + i]
      /\ server.place = hist.moved

\* What is said is heard in order and not twice, whether it is this player who
\* says it or another one, and however often connections are lost.
HeardOnce ==
    /\ \A i, j \in DOMAIN server.heard : i < j => server.heard[i] < server.heard[j]
    /\ ShownInOrder
    /\ DoneIsHeard

\* The comment in report_error: a connection that was stable may be tried
\* again at once "without getting into an infinite reconnect loop".  In one
\* instant there is one try, and a second one if the first was the first of
\* all.
BacksOff == hist.tries <= 2

\* A client that is connected is never forgotten for being silent: it is heard
\* of in time.  The one exception: if a player stops typing between the return
\* of poll and the write, nothing is written, but the next keep alive is put
\* off as if something had been.
KeptAlive ==
    c.sock /\ ~c.finished /\ link.person /\ ~hist.putOff => server.known

\* Neither timer makes the client too quick or too slow.
InGoodTime == BacksOff /\ KeptAlive

\* Once the game is over for the client, both ends of the connection are shut
\* and the client stops.
EndsCleanly == c.finished ~> c.state = "DISCONNECTED" \/ ~c.finished

\* A client that is to run, and knows all it needs to, gets its player back
\* and is up to date, or learns that the game is over, and then ends cleanly.
GetsThrough ==
    /\ hist.wanted /\ HasConfiguration(c) ~> c.synced \/ c.finished \/ ~hist.wanted
    /\ EndsCleanly

\* What src/client/vsx-connection.h:35-38 says: the client does not reconnect
\* after it has been told to stop.
StopsWhenTold == ~hist.wanted => ~c.sock
=============================================================================
