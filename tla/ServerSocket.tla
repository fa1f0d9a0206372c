---------------------------- MODULE ServerSocket ----------------------------
(***************************************************************************)
(* The sockets of the server and the loop that serves them:                *)
(* src/server/vsx-server.c, src/server/vsx-main-context.c, and of          *)
(* src/server/vsx-connection.c what turns input into commands              *)
(* (vsx_connection_parse_data, vsx_connection_parse_eof).                  *)
(*                                                                         *)
(* One thread waits for events with epoll, calls back for each event of    *)
(* the batch it got, and then looks at its timers.  A callback reads or    *)
(* writes once and then computes anew what its socket is to be polled for  *)
(* (update_poll), which is also where a socket is shut down and where a    *)
(* connection with both ends shut is freed.  A command of one connection   *)
(* reaches the connections of the other players of the game through        *)
(* changed_signal, which calls update_poll for each of them.               *)
(***************************************************************************)
EXTENDS Integers, Sequences, FiniteSets

CONSTANTS
    Conn,          \* slots for connections
    Tls,           \* which of them come in on a socket with a certificate
    GcTime,        \* VSX_SERVER_GC_TIMEOUT, in ticks of the clock
    ResponseTime,  \* VSX_SERVER_NO_RESPONSE_TIMEOUT, in ticks of the clock
    OutCap,        \* VSX_SERVER_OUTPUT_BUFFER_SIZE, in commands
    Plan           \* bounds of the model: what may happen in a behaviour

\* What else is polled: the listening socket and the pipe of a quit signal.
Listener == "listener"
Pipe == "pipe"
Inputs == {"HELLO", "PART", "ENTER", "COMMAND", "LEAVE", "PING", "JUNK"}

ASSUME SocketAssumption ==
    /\ IsFiniteSet(Conn) /\ Listener \notin Conn /\ Pipe \notin Conn
    /\ Tls \subseteq Conn
    /\ GcTime \in Nat \ {0} /\ ResponseTime \in Nat \ {0}
    /\ OutCap \in Nat \ {0}
    /\ Plan \subseteq [script : [Conn -> SUBSET Seq(Inputs)],  \* what c sends
                       faults : Nat,      \* calls put off, stalls, broken sockets
                       files : Nat,       \* how many sockets accept can open
                       clock : BOOLEAN,   \* whether time passes
                       signal : BOOLEAN]  \* whether a quit signal may come

VARIABLES
    plan,       \* the one of Plan that bounds this behaviour
    conn,       \* conn[c]: a VsxServerConnection with its VsxConnection
    net,        \* net[c]: the socket as the kernel and the client see it
    faults,     \* how many faults there have been
    waiting,    \* the clients in the backlog of the listening socket
    listening,  \* whether the listening socket is polled
    batch,      \* the events of this poll that have not been dispatched
    phase,      \* POLL, DISPATCH, STOPPED once the loop has ended, FREED, or
                \* CRASHED after an event for a source that is gone
    quit,       \* whether a quit signal came and whether the loop knows
    gcSet,      \* server->gc_source
    passed,     \* minutes_passed of the timer's bucket, NoBucket before that
    elapsed     \* time since last_timer_time

timers == <<gcSet, passed, elapsed>>
vars == <<conn, net, faults, waiting, listening, batch, phase, quit, timers>>

NoConn == [ws |-> "NONE"]
NoBucket == -1
NoGame == 0
NoSocket == [input |-> <<>>, todo |-> <<>>, fin |-> FALSE, reset |-> FALSE,
             room |-> TRUE]

Init ==
    /\ plan \in Plan
    /\ conn = [c \in Conn |-> NoConn]
    /\ net = [c \in Conn |-> NoSocket]
    /\ faults = 0
    /\ waiting = {}
    /\ listening = TRUE
    /\ batch = {}
    /\ phase = "POLL"
    /\ quit = "NO"
    /\ gcSet = FALSE
    /\ passed = NoBucket
    /\ elapsed = 0

Live(c) == conn[c] # NoConn
Sockets == {c \in Conn : Live(c)}

-----------------------------------------------------------------------------
(* What a socket is polled for.  k is a connection.                        *)

\* vsx_connection_has_data.  END does not count.
HasData(k) == k.ws = "DATA" /\ k.pending

ShouldShutdown(k) ==
    /\ k.out = 0
    /\ IF k.badInput THEN ~HasData(k) ELSE k.readFinished /\ k.ws = "DONE"

ReadFlags(k) ==
    IF k.readBlock # {} THEN k.readBlock
    ELSE IF k.readFinished THEN {} ELSE {"IN"}
\* Fault for a mutant: a call that OpenSSL put off is not waited for.
WriteFlagsIgnoringBlock(k) ==
    IF k.writeBlock # {} THEN {}
    ELSE IF k.out > 0 \/ HasData(k) THEN {"OUT"} ELSE {}

WriteFlags(k) ==
    IF k.writeBlock # {} THEN k.writeBlock
    ELSE IF k.out > 0 \/ HasData(k) THEN {"OUT"} ELSE {}

\* How shutdown or SSL_shutdown ends.
ShutOutcome(c) ==
    {"DONE"} \cup {o \in {"FAIL"} : net[c].reset}
             \cup {o \in {"WANT_READ", "WANT_WRITE"} :
                      c \in Tls /\ faults < plan.faults}
Wanted(o) ==
    CASE o = "WANT_READ" -> {"IN"} [] o = "WANT_WRITE" -> {"OUT"} [] OTHER -> {}

\* update_poll, where o is how the shutdown ends if there is one.
UpdatePoll(k, o) ==
    LET shutting == ~k.writeFinished /\ ShouldShutdown(k)
        shut == k.writeFinished \/ (shutting /\ o = "DONE")
    IN IF (shutting /\ o = "FAIL") \/ (k.readFinished /\ shut) THEN NoConn
       ELSE [k EXCEPT
               !.writeFinished = shut,
               !.polled = ReadFlags(k)
                            \cup (IF shutting THEN Wanted(o) ELSE {})
                            \cup (IF shut THEN {} ELSE WriteFlags(k))]

\* vsx_connection_new and the rest of vsx_server_pending_connection_cb.
NewConn ==
    [ws |-> "HEADERS", player |-> "NONE", game |-> NoGame,
     pending |-> FALSE, partial |-> FALSE,
     error |-> FALSE, out |-> 0, badInput |-> FALSE, readFinished |-> FALSE,
     writeFinished |-> FALSE, readBlock |-> {}, writeBlock |-> {},
     polled |-> {"IN"}, age |-> 0]

Outcome == {"DONE", "FAIL", "WANT_READ", "WANT_WRITE"}
Outcomes == {o \in [Conn -> Outcome] : \A c \in Conn : o[c] \in ShutOutcome(c)}
PutsOff(k, o) ==
    /\ k # NoConn /\ ~k.writeFinished /\ ShouldShutdown(k)
    /\ o \in {"WANT_READ", "WANT_WRITE"}

\* The connections of the players of the same game have something to tell.
Follows(d, k) == Live(d) /\ k.game # NoGame /\ conn[d].game = k.game
Dirty(k) == [k EXCEPT !.pending = TRUE]

\* The new connections, and what vsx_server_remove_connection does for each
\* that is gone: the timer goes with the last one, and there is a file
\* descriptor for the next.
Settle(new) ==
    /\ conn' = new
    /\ gcSet' = (gcSet /\ \E c \in Conn : new[c] # NoConn)
    /\ listening' = (listening \/ \E c \in Sockets : new[c] = NoConn)
    /\ UNCHANGED <<passed, elapsed>>

\* The sockets of connections that are gone are closed.
SocketsOf(new, sockets) ==
    [d \in Conn |-> IF Live(d) /\ new[d] = NoConn THEN NoSocket ELSE sockets[d]]

\* n more calls were put off, and those of SSL_shutdown.
Fault(n, before, o) ==
    /\ faults' = faults + n + Cardinality({d \in Conn : PutsOff(before[d], o[d])})
    /\ faults' <= plan.faults

\* Fault for a mutant: the other players' sockets are not looked at.
FinishAfterQuietly(put, c, k, n, changed) ==
    \E o \in Outcomes :
      LET before == [d \in Conn |-> IF d = c THEN k
                                   ELSE IF changed /\ Follows(d, k) THEN Dirty(conn[d])
                                   ELSE conn[d]]
          new == [before EXCEPT ![c] = UpdatePoll(k, o[c])]
      IN /\ Settle(new)
         /\ net' = SocketsOf(new, [net EXCEPT ![c] = n])
         /\ Fault(put, [d \in Conn |-> IF d = c THEN k ELSE NoConn], o)

\* The end of a callback of c: its connection is k, which update_poll looks
\* at, as at those of the other players if the game changed.
FinishAfter(put, c, k, n, changed) ==
    LET updates(d) == d = c \/ (changed /\ Follows(d, k))
        before == [d \in Conn |-> IF d = c THEN k
                                  ELSE IF updates(d) THEN Dirty(conn[d])
                                  ELSE NoConn]
    IN \E o \in Outcomes :
         LET new == [d \in Conn |-> IF updates(d) THEN UpdatePoll(before[d], o[d])
                                    ELSE conn[d]]
         IN /\ Settle(new)
            /\ net' = SocketsOf(new, [net EXCEPT ![c] = n])
            /\ Fault(put, before, o)

Finish(c, k, n, changed) == FinishAfter(0, c, k, n, changed)

\* A callback that frees its connection, and one that returns early.
Remove(c) ==
    /\ Settle([conn EXCEPT ![c] = NoConn])
    /\ net' = [net EXCEPT ![c] = NoSocket]
    /\ UNCHANGED faults
Return(put, c, k) ==
    /\ Settle([conn EXCEPT ![c] = k])
    /\ faults' = faults + put /\ faults' <= plan.faults
    /\ UNCHANGED net

-----------------------------------------------------------------------------
(* What a connection makes of its input.                                   *)

Bad(k) == [k EXCEPT !.badInput = TRUE]
Heard(k) == [k EXCEPT !.age = 0, !.partial = FALSE]
Entered(k, game) ==
    [Heard(k) EXCEPT !.player = "IN", !.game = game, !.pending = TRUE]
TurnedAway(k) == [Heard(k) EXCEPT !.error = TRUE, !.pending = TRUE]

\* The games that one can enter: those with somebody in them, and a new one.
Playing == {conn[d].game : d \in {e \in Sockets : conn[e].player = "IN"}}
Unused == (1 .. Cardinality(Conn)) \ {conn[d].game : d \in Sockets}
Enterable == Playing \cup {CHOOSE g \in Unused : TRUE}

\* vsx_connection_parse_data for one unit of input: what becomes of the
\* connection, and whether its game changes.  PART is the first part of what
\* comes next.
Parsed(k, unit) ==
    LET still(j) == [conn |-> j, changed |-> FALSE] IN
    IF unit = "PART" THEN {still([k EXCEPT !.partial = k.ws # "HEADERS"])}
    ELSE IF k.ws = "HEADERS"
    THEN {still(IF unit = "HELLO" THEN [k EXCEPT !.ws = "DATA", !.pending = TRUE]
                ELSE Bad(k))}
    ELSE CASE unit = "PING" -> {still([k EXCEPT !.pending = TRUE, !.partial = FALSE])}
           [] unit = "ENTER" /\ k.player = "NONE" ->
                {[conn |-> Entered(k, g), changed |-> TRUE] : g \in Enterable}
                  \cup {still(TurnedAway(k))}
           [] unit = "COMMAND" /\ k.player # "NONE" ->
                {[conn |-> Heard(k), changed |-> k.player = "IN"]}
           [] unit = "LEAVE" /\ k.player # "NONE" ->
                {[conn |-> [Heard(k) EXCEPT !.player = "LEFT"],
                  changed |-> k.player = "IN"]}
           [] unit \in {"HELLO", "JUNK"} -> {still(Bad(k))}
           [] OTHER -> {still(Bad(Heard(k)))}

\* vsx_connection_parse_eof.
ParsesEof(k) ==
    /\ k.ws # "HEADERS"
    /\ ~k.partial
    /\ k.ws = "DONE" \/ k.player = "LEFT"

\* read or SSL_read of c, in handle_read.
Reading(c) == IF c \in Tls THEN [conn[c] EXCEPT !.readBlock = {}] ELSE conn[c]

ReadData(c) ==
    /\ net[c].input # <<>> /\ ~net[c].reset
    /\ LET n == [net[c] EXCEPT !.input = Tail(@)] IN
       IF conn[c].badInput THEN Finish(c, Reading(c), n, FALSE)
       ELSE \E p \in Parsed(Reading(c), Head(net[c].input)) :
              Finish(c, p.conn, n, p.changed)

\* A TLS connection ends with a message of its own, in front of the FIN.
ReadEof(c) ==
    /\ net[c].input = <<>> /\ net[c].fin /\ ~net[c].reset
    /\ LET k == [Reading(c) EXCEPT !.readFinished = TRUE] IN
       Finish(c, IF k.badInput \/ ParsesEof(k) THEN k ELSE Bad(k), net[c], FALSE)

ReadFails(c) ==
    /\ net[c].reset \/ (c \in Tls /\ net[c].fin)
    /\ Remove(c)

\* EAGAIN, EINTR, SSL_ERROR_WANT_READ and SSL_ERROR_WANT_WRITE.
ReadPutOff(c) ==
    LET put == IF net[c].input = <<>> /\ ~net[c].fin /\ ~net[c].reset THEN 0 ELSE 1
    IN IF c \notin Tls THEN Return(put, c, conn[c])
       ELSE \E flag \in {"IN", "OUT"} :
              FinishAfter(put, c, [conn[c] EXCEPT !.readBlock = {flag}], net[c], FALSE)

HandleRead(c) ==
    IF conn[c].readFinished THEN Finish(c, conn[c], net[c], FALSE)
    ELSE ReadData(c) \/ ReadEof(c) \/ ReadFails(c) \/ ReadPutOff(c)

-----------------------------------------------------------------------------
(* Writing.                                                                *)

\* vsx_connection_fill_output_buffer.  What is pending may or may not fit; of
\* what it is, only the END and the error that close a connection are told
\* apart.  END may be what does not fit.
Fillings(k) ==
    LET written == IF ~k.pending THEN {k}
                   ELSE {[k EXCEPT !.pending = FALSE, !.out = n]
                           : n \in k.out + 1 .. OutCap}
        cut == {[k EXCEPT !.out = n]
                  : n \in {m \in k.out .. OutCap : k.pending /\ m > 0}}
        done == {[j EXCEPT !.ws = "DONE",
                           !.out = IF @ < OutCap THEN @ + 1 ELSE @] : j \in written}
    IN IF k.ws # "DATA" THEN {k}
       ELSE IF k.error THEN cut \cup done
       ELSE IF k.player = "LEFT"
       THEN cut \cup done \cup {j \in written : j.out > 0}
       ELSE cut \cup written

\* write or SSL_write of what f holds for c, in handle_write.
Writing(c, f) == IF c \in Tls THEN [f EXCEPT !.writeBlock = {}] ELSE f

\* What is pending comes to an end: how often the buffer is too small for all
\* of it is bounded as the faults are.
Cut(c, f) == IF f.pending /\ f.out > conn[c].out THEN 1 ELSE 0

WriteSome(c, f) ==
    /\ net[c].room /\ ~net[c].reset
    /\ \E n \in 0 .. f.out - 1 :
         FinishAfter(Cut(c, f), c, [Writing(c, f) EXCEPT !.out = n], net[c], FALSE)

WriteFails(c) == net[c].reset /\ Remove(c)

WritePutOff(c, f) ==
    LET put == Cut(c, f) + (IF net[c].room THEN 1 ELSE 0)
    IN IF c \notin Tls THEN Return(put, c, f)
       ELSE \E flag \in {"IN", "OUT"} :
              /\ net[c].room \/ flag = "OUT"
              /\ FinishAfter(put, c, [f EXCEPT !.writeBlock = {flag}], net[c], FALSE)

HandleWrite(c) ==
    \E f \in IF conn[c].writeBlock = {} THEN Fillings(conn[c]) ELSE {conn[c]} :
      IF f.out = 0 THEN Finish(c, f, net[c], FALSE)
      ELSE WriteSome(c, f) \/ WriteFails(c) \/ WritePutOff(c, f)

-----------------------------------------------------------------------------
(* The loop.                                                               *)

\* What epoll reports of a source.
Events(c) ==
    LET s == net[c]
        k == conn[c]
    IN {f \in {"IN"} : f \in k.polled /\ (s.input # <<>> \/ s.fin \/ s.reset)}
       \cup {f \in {"OUT"} : f \in k.polled /\ (s.room \/ s.reset)}
       \cup {f \in {"HUP"} : s.reset \/ (s.fin /\ k.writeFinished)}
       \cup {f \in {"ERR"} : s.reset}

Event(source, events) == [source |-> source, events |-> events]
Ready ==
    {Event(c, Events(c)) : c \in {d \in Sockets : Events(d) # {}}}
    \cup {e \in {Event(Listener, {"IN"})} : listening /\ waiting # {}}
    \cup {e \in {Event(Pipe, {"IN"})} : quit = "SIGNALLED"}

TimerDue == gcSet /\ passed + elapsed >= GcTime

\* epoll_wait of vsx_main_context_poll.
Poll ==
    /\ phase = "POLL"
    /\ Ready # {} \/ TimerDue
    /\ batch' = Ready
    /\ phase' = "DISPATCH"
    /\ UNCHANGED <<conn, net, faults, waiting, listening, quit, timers>>

\* The flags a callback is given, from the events of the batch and what is
\* polled by now.
Flags(c, events) ==
    (events \cap {"IN", "OUT"})
      \cup {f \in {"IN"} : "HUP" \in events /\ "IN" \in conn[c].polled}
      \cup {f \in {"ERROR"} : "ERR" \in events \/
                               ("HUP" \in events /\ "IN" \notin conn[c].polled)}

\* vsx_server_connection_poll_cb.
ConnectionCallback(c, flags) ==
    LET k == conn[c]
        resumesRead == k.readBlock # {} /\ k.readBlock \subseteq flags
        resumesWrite == k.writeBlock # {} /\ k.writeBlock \subseteq flags
    IN IF "ERROR" \in flags THEN Remove(c)
       ELSE IF resumesRead \/ (~resumesWrite /\ "IN" \in flags) THEN HandleRead(c)
       ELSE IF resumesWrite \/ "OUT" \in flags THEN HandleWrite(c)
       ELSE Return(0, c, conn[c])

DispatchConnection ==
    \E e \in batch :
      /\ phase = "DISPATCH" /\ e.source \in Sockets
      /\ ConnectionCallback(e.source, Flags(e.source, e.events))
      /\ batch' = batch \ {e}
      /\ UNCHANGED <<waiting, phase, quit>>

\* The event of a source that is gone.  Its memory may say that it is a
\* source that is never polled, for which the switch has no case but an
\* assertion; or that it is a polled one, whose callback is handed a
\* connection that is gone.
DispatchGone ==
    \E e \in batch :
      /\ phase = "DISPATCH" /\ e.source \in Conn \ Sockets
      /\ batch' = batch \ {e}
      /\ phase' \in {"DISPATCH", "CRASHED"}
      /\ UNCHANGED <<conn, net, faults, waiting, listening, quit, timers>>

\* vsx_server_pending_connection_cb.
Accepted(c) ==
    /\ c \in waiting /\ ~Live(c)
    /\ Cardinality(Sockets) < plan.files
    /\ waiting' = waiting \ {c}
    /\ conn' = [conn EXCEPT ![c] = NewConn]
    /\ gcSet' = TRUE
    /\ passed' = IF passed = NoBucket THEN 0 ELSE passed
    /\ UNCHANGED <<net, faults, listening, quit, elapsed>>

\* SSL_new fails and the connection goes again.  With no other connection
\* the server would now remove a timer that it never set.
AcceptedInVain(c) ==
    /\ c \in waiting \cap Tls /\ ~Live(c)
    /\ Cardinality(Sockets) \in 1 .. plan.files - 1
    /\ waiting' = waiting \ {c}
    /\ net' = [net EXCEPT ![c] = NoSocket]
    /\ listening' = TRUE
    /\ UNCHANGED <<conn, faults, quit, timers>>

TooManyFiles ==
    /\ Cardinality(Sockets) >= plan.files
    /\ listening' = FALSE
    /\ UNCHANGED <<conn, net, faults, waiting, quit, timers>>

AcceptFails ==
    /\ quit' = "YES"
    /\ UNCHANGED <<conn, net, faults, waiting, listening, timers>>

DispatchListener ==
    \E e \in batch :
      /\ phase = "DISPATCH" /\ e.source = Listener
      /\ \/ \E c \in Conn : Accepted(c) \/ AcceptedInVain(c)
         \/ TooManyFiles
         \/ AcceptFails
      /\ batch' = batch \ {e}
      /\ UNCHANGED phase

\* vsx_main_context_quit_pipe_cb and vsx_server_quit_cb.
DispatchQuit ==
    \E e \in batch :
      /\ phase = "DISPATCH" /\ e.source = Pipe
      /\ quit' = "YES"
      /\ batch' = batch \ {e}
      /\ UNCHANGED <<conn, net, faults, waiting, listening, phase, timers>>

\* Fault for a mutant: a connection is only ever told to close.
CollectedGently(c, o) ==
    IF ~Live(c) \/ conn[c].age < ResponseTime THEN conn[c]
    ELSE UpdatePoll(Bad(conn[c]), o)

\* vsx_server_gc_cb: check_dead_connection for each.
Collected(c, o) ==
    LET k == conn[c] IN
    IF ~Live(c) \/ k.age < ResponseTime THEN k
    ELSE IF k.badInput THEN NoConn
    ELSE UpdatePoll(Bad(k), o)

CollectDead ==
    \E o \in Outcomes :
      LET checked == [c \in Conn |-> IF Live(c) /\ conn[c].age >= ResponseTime
                                        /\ ~conn[c].badInput
                                     THEN Bad(conn[c]) ELSE NoConn]
          new == [c \in Conn |-> Collected(c, o[c])]
      IN /\ conn' = new
         /\ gcSet' = (\E c \in Conn : new[c] # NoConn)
         /\ listening' = (listening \/ \E c \in Sockets : new[c] = NoConn)
         /\ net' = SocketsOf(new, net)
         /\ Fault(0, checked, o)

\* check_timer_sources and the condition of the loop in vsx_server_run.
Timers ==
    /\ phase = "DISPATCH" /\ batch = {}
    /\ IF passed # NoBucket /\ elapsed > 0 /\ passed + elapsed >= GcTime
       THEN /\ IF gcSet THEN CollectDead
              ELSE UNCHANGED <<conn, net, faults, listening, gcSet>>
            /\ passed' = 0
       ELSE /\ passed' = IF passed = NoBucket THEN passed ELSE passed + elapsed
            /\ UNCHANGED <<conn, net, faults, listening, gcSet>>
    /\ elapsed' = IF passed = NoBucket THEN elapsed ELSE 0
    /\ phase' = IF quit = "YES" THEN "STOPPED" ELSE "POLL"
    /\ UNCHANGED <<waiting, batch, quit>>

\* vsx_server_free.
Free ==
    /\ phase = "STOPPED"
    /\ phase' = "FREED"
    /\ conn' = [c \in Conn |-> NoConn]
    /\ net' = [c \in Conn |-> NoSocket]
    /\ gcSet' = (gcSet /\ Sockets = {})
    /\ listening' = (listening \/ Sockets # {})
    /\ UNCHANGED <<faults, waiting, batch, quit, passed, elapsed>>

\* Time passes while the loop waits.  The counts stop where nothing changes
\* any more.
Tick ==
    /\ phase = "POLL" /\ plan.clock /\ ~TimerDue
    /\ conn' = [c \in Conn |->
                  IF Live(c) /\ conn[c].age < ResponseTime
                  THEN [conn[c] EXCEPT !.age = @ + 1] ELSE conn[c]]
    /\ elapsed' = IF elapsed < GcTime THEN elapsed + 1 ELSE elapsed
    /\ UNCHANGED <<net, faults, waiting, listening, batch, phase, quit, gcSet, passed>>

-----------------------------------------------------------------------------
(* The clients and the network.  But for a connection that breaks, they act *)
(* while the loop waits: what comes in during a callback is found by the     *)
(* next one or by the next poll.                                            *)

network == <<conn, listening, batch, phase, quit, timers>>

Connect(c) ==
    /\ phase = "POLL" /\ ~Live(c) /\ c \notin waiting
    /\ waiting' = waiting \cup {c}
    /\ \E s \in plan.script[c] :
         net' = [net EXCEPT ![c].todo = s]
    /\ UNCHANGED <<faults, network>>

Send(c) ==
    /\ phase = "POLL" /\ Live(c) /\ ~net[c].fin
    /\ net[c].todo # <<>>
    /\ net' = [net EXCEPT ![c].input = Append(@, Head(net[c].todo)),
                          ![c].todo = Tail(@)]
    /\ UNCHANGED <<faults, waiting, network>>

Close(c) ==
    /\ phase = "POLL" /\ Live(c) /\ ~net[c].fin /\ ~net[c].reset
    /\ net' = [net EXCEPT ![c].fin = TRUE, ![c].todo = <<>>]
    /\ UNCHANGED <<faults, waiting, network>>

\* The connection breaks, with what is on its way.
Reset(c) ==
    /\ phase \in {"POLL", "DISPATCH"} /\ Live(c) /\ ~net[c].reset
    /\ net' = [net EXCEPT ![c] = [NoSocket EXCEPT !.reset = TRUE]]
    /\ faults' = faults + 1 /\ faults' <= plan.faults
    /\ UNCHANGED <<waiting, network>>

\* The client takes what is written, or lets it pile up.
Stall(c) ==
    /\ phase = "POLL" /\ Live(c) /\ ~net[c].reset
    /\ net' = [net EXCEPT ![c].room = ~@]
    /\ faults' = (IF net[c].room THEN faults + 1 ELSE faults)
    /\ faults' <= plan.faults
    /\ UNCHANGED <<waiting, network>>

Signal ==
    /\ phase = "POLL" /\ plan.signal /\ quit = "NO"
    /\ quit' = "SIGNALLED"
    /\ UNCHANGED <<conn, net, faults, waiting, listening, batch, phase, timers>>

Dispatch == DispatchConnection \/ DispatchGone \/ DispatchListener \/ DispatchQuit

Next ==
    /\ UNCHANGED plan
    /\ \/ Poll \/ Dispatch \/ Timers \/ Tick \/ Free \/ Signal
       \/ \E c \in Conn : Connect(c) \/ Send(c) \/ Close(c) \/ Reset(c) \/ Stall(c)

Spec == Init /\ [][Next]_<<plan, vars>>

-----------------------------------------------------------------------------
(* Properties.                                                             *)

SocketTypeOK ==
    /\ \A c \in Sockets :
         LET k == conn[c] IN
         /\ k.ws \in {"HEADERS", "DATA", "DONE"}
         /\ k.player \in {"NONE", "IN", "LEFT"}
         /\ k.game \in 0 .. Cardinality(Conn)
         /\ {k.pending, k.partial, k.error, k.badInput, k.readFinished,
             k.writeFinished} \subseteq BOOLEAN
         /\ k.out \in 0 .. OutCap
         /\ k.readBlock \cup k.writeBlock \cup k.polled \subseteq {"IN", "OUT"}
         /\ k.age \in 0 .. ResponseTime
    /\ waiting \subseteq Conn \ Sockets
    /\ phase \in {"POLL", "DISPATCH", "STOPPED", "FREED", "CRASHED"}
    /\ quit \in {"NO", "SIGNALLED", "YES"}
    /\ {gcSet, listening} \subseteq BOOLEAN
    /\ passed \in NoBucket .. GcTime /\ elapsed \in 0 .. GcTime

\* While the loop waits, whatever could happen next is waited for.  What a
\* connection could do is polled for, even if another connection's callback or
\* a timer gave it something to do: flags are computed in update_poll only, and
\* epoll tells of nothing else.  The timer that looks for dead connections runs
\* exactly while there are connections (free_buckets asserts that none is left
\* at the end).  And the server is deaf only while it has as many sockets as it
\* can have: each path on which a connection goes makes it listen again.
NothingWaitsUnpolled ==
    /\ phase = "POLL" => \A c \in Sockets :
         LET k == conn[c] IN
         /\ k.readBlock \subseteq k.polled
         /\ k.readBlock = {} /\ ~k.readFinished => "IN" \in k.polled
         /\ ~k.writeFinished => /\ k.writeBlock \subseteq k.polled
                                /\ k.writeBlock = {} /\ (k.out > 0 \/ HasData(k))
                                     => "OUT" \in k.polled
    /\ gcSet <=> Sockets # {}
    /\ ~listening => Cardinality(Sockets) >= plan.files

\* The sockets keep their bounds and whatever is to be done next is polled for.
SocketSound == SocketTypeOK /\ NothingWaitsUnpolled

\* A socket is only shut down when all that the client was to be told has
\* been written, even after bad input; and afterwards nothing is written,
\* whatever else happens in the game.
ShutIsFinal ==
    [][\A c \in Conn : Live(c) /\ Live(c)' =>
         LET k == conn[c]
             new == conn'[c]
         IN /\ ~k.writeFinished /\ new.writeFinished => new.out = 0 /\ ~HasData(new)
            /\ k.writeFinished /\ HasData(k) => HasData(new)
      ]_conn

\* What the properties do not follow the server beyond.
Over == phase \notin {"POLL", "DISPATCH"}

\* The loop goes on and the clock with it; nothing is asked of clients.  The
\* first conjunct is the weak fairness of Poll \/ Dispatch \/ Timers, written
\* out: these are the steps that change batch or phase.
CanLoop == phase = "DISPATCH" \/ (phase = "POLL" /\ (Ready # {} \/ TimerDue))
SocketFairness ==
    /\ <>[]CanLoop => []<><<TRUE>>_<<batch, phase>>
    /\ WF_vars(Tick)
FairSpec == Spec /\ SocketFairness

\* A connection whose client says nothing more is freed in the end, whatever
\* state it is in: never negotiated, in the middle of a frame, with answers
\* that nobody takes, half closed, put off by OpenSSL.
NobodyStaysForEver ==
    \A c \in Conn : Live(c) /\ plan.clock ~> ~Live(c) \/ Over

\* What a player is to be told is written once the client takes it, also if
\* it was another connection that changed the game, and the socket is not shut
\* down before.  A client that does not go on with what OpenSSL waits for does
\* not take it.
Takes(c) == net[c].room /\ "IN" \notin conn[c].writeBlock
AnsweredInTheEnd ==
    /\ ShutIsFinal
    /\ \A c \in Conn :
         Live(c) /\ HasData(conn[c]) /\ ~conn[c].writeFinished
           ~> ~Live(c) \/ ~HasData(conn[c]) \/ ~Takes(c) \/ Over

\* What vsx-main-context.c:411-415 says of removing sources: that only those
\* of timers can be removed in a callback while others are to be called.
NoEventForTheGone ==
    \A e \in batch : e.source \in Sockets \cup {Listener, Pipe}
=============================================================================
