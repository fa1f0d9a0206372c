----------------------- MODULE ClientConnectionProofs -----------------------
(***************************************************************************)
(* Proofs about the client's connection, for any number of tiles and       *)
(* places, any of the four times, buffers of any size and any number of    *)
(* calls, faults and messages of other players.                            *)
(***************************************************************************)
EXTENDS ClientConnection, SequenceTheorems, WellFoundedInduction, TLAPS

-----------------------------------------------------------------------------
(* The types of the variables.                                             *)

FlagSet == {"WS_HEADER", "HEADER", "KEEP_ALIVE", "N_TILES", "LEAVE"}
States == {"DISCONNECTED", "RECONNECTING", "RUNNING", "WAITING_FOR_RECONNECT",
           "WAITING_FOR_CONFIGURATION"}

ToServer ==
    [type : {"WS_HEADER", "NEW_PLAYER", "KEEP_ALIVE", "N_TILES", "LEAVE"}]
      \cup [type : {"RECONNECT"}, person : Nat, n : Nat]
      \cup [type : {"MOVE_TILE"}, tile : Tile, place : Place]
      \cup [type : {"SEND_MESSAGE"}, n : Nat]
      \cup [type : {"TYPING"}, on : BOOLEAN]

ToClient ==
    [type : {"UPGRADED", "SYNC", "END", "BAD_PLAYER_ID", "EOF", "BAD"}]
      \cup [type : {"PLAYER_ID"}, person : Nat \ {NoPerson}]
      \cup [type : {"MESSAGE"}, n : Nat]

Poll == [fd : BOOLEAN, events : SUBSET {"IN", "OUT"}, wakeup : Int]

Conn ==
    [address : BOOLEAN, name : BOOLEAN, person : Nat, state : States,
     finished : BOOLEAN, typing : BOOLEAN, sentTyping : BOOLEAN,
     writeFinished : BOOLEAN, next : Nat, timeout : 0..MaxTimeout,
     reconnectIn : Never..MaxTimeout, playerAge : Never..StableTime,
     keepAliveIn : Never..KeepAliveTime, dirty : SUBSET FlagSet,
     tiles : Seq([num : Tile, place : Place]), messages : Seq(Nat),
     sock : BOOLEAN, synced : BOOLEAN, out : Seq(ToServer),
     upgraded : BOOLEAN, poll : Poll]

Net == [st : {"NONE", "CONNECTING", "UP", "BROKEN"},
        toServer : Seq(ToServer), toClient : Seq(ToClient)]

Link == [st : {"NONE", "WRITING", "DONE", "SHUT"}, person : BOOLEAN,
         refused : BOOLEAN, bad : BOOLEAN, at : Nat,
         told : SUBSET {"UPGRADED", "PLAYER_ID", "SYNC"}]

Places == [Tile -> Place \cup {Nowhere}]
Server == [person : Nat, known : BOOLEAN, left : BOOLEAN, offset : Nat,
           log : Nat, heard : Seq(Nat), typing : BOOLEAN, place : Places,
           silent : 0..SilenceTime]

Hist == [shown : Seq(Nat), before : Nat, said : Nat, moved : Places,
         lost : BOOLEAN, tries : Nat, wanted : BOOLEAN, putOff : BOOLEAN]

Events2 == SUBSET {"IN", "OUT", "ERR"}

-----------------------------------------------------------------------------
(* The client by itself.                                                   *)

\* One socket or one timer for each state; a connection is only tried with what
\* it takes; and only what has been written is shut down.
Machine(k) ==
    /\ k.sock => k.state \in {"RECONNECTING", "RUNNING"} /\ k.reconnectIn = Never
    /\ ~k.sock => k.keepAliveIn = Never
    /\ k.sock \/ k.reconnectIn # Never \/ "HEADER" \in k.dirty => HasConfiguration(k)
    /\ k.state = "WAITING_FOR_CONFIGURATION" => k.reconnectIn = Never
    /\ k.sock /\ k.writeFinished =>
         /\ k.finished /\ k.out = <<>>
         /\ "WS_HEADER" \notin k.dirty /\ "HEADER" \notin k.dirty

\* What is polled for is what there is to wait for, or poll returns at once.
Polling(k, nt) ==
    /\ k.poll.fd = k.sock
    /\ Wakeup(k) # Never => 0 <= k.poll.wakeup /\ k.poll.wakeup <= Wakeup(k)
    /\ k.sock => \/ Events(k) \subseteq k.poll.events
                 \/ k.poll.wakeup = 0
                 \/ /\ k.state = "RUNNING" /\ "OUT" \in k.poll.events
                    /\ nt.st # "CONNECTING"
                    /\ nt.st = "UP" => nt.toServer = <<>>

\* The client has a socket exactly when there is a connection, and nothing is
\* on a connection that is not up or that the client does not know to be up.
Wired(k, nt, lk) ==
    /\ k.sock <=> nt.st # "NONE"
    /\ nt.st # "UP" => nt.toServer = <<>> /\ nt.toClient = <<>> /\ lk = NoLink
    /\ nt.st = "CONNECTING" => k.state = "RECONNECTING"
    /\ k.sock /\ k.state = "RECONNECTING" =>
         /\ nt.toServer = <<>> /\ nt.toClient = <<>> /\ lk = NoLink
         /\ k.out = <<>> /\ "WS_HEADER" \in k.dirty /\ "HEADER" \in k.dirty

\* The second try in an instant is the last one.
Backing(k, hs) ==
    /\ hs.tries <= 2
    /\ hs.tries >= 1 => k.playerAge < StableTime
    /\ hs.tries = 1 /\ k.reconnectIn = 0 => k.timeout >= 1
    /\ hs.tries = 2 => k.reconnectIn # 0 /\ k.timeout >= 1
    /\ k.state = "WAITING_FOR_CONFIGURATION" => hs.tries = 0

Core(k, nt, lk, hs) ==
    /\ k \in Conn /\ Len(k.out) <= OutCap
    /\ nt \in Net /\ Len(nt.toServer) <= WireCap /\ Len(nt.toClient) <= WireCap
    /\ lk \in Link /\ hs \in Hist
    /\ Machine(k) /\ Polling(k, nt) /\ Wired(k, nt, lk) /\ Backing(k, hs)

\* The server knows only persons that there have been.
Personal(lk, sv) == sv.known \/ lk.person => sv.person # NoPerson

ClientInvariant ==
    /\ plan \in Plan
    /\ left \in [calls : 0..plan.budget, faults : 0..plan.faults,
                 others : 0..plan.others]
    /\ polled \in {NotYet} \cup Events2
    /\ server \in Server /\ Personal(link, server)
    /\ Core(c, net, link, hist)

-----------------------------------------------------------------------------
(* The conversation with the server.                                       *)

\* What the client has written and the server has not read.
Line(k, nt) == nt.toServer \o IF k.sock THEN k.out ELSE <<>>

WsHeader == [type |-> "WS_HEADER"]
Greeted(lk) ==
    /\ lk.st = "WRITING" /\ ~lk.person /\ ~lk.refused /\ ~lk.bad
    /\ lk.told \subseteq {"UPGRADED"}
OnlyCommands(p, from) == \A i \in DOMAIN p : i >= from => p[i].type \in Commands

\* The handshake comes first, then the header, then the commands.
Stages(k, p, lk) ==
    LET ws == "WS_HEADER" \in k.dirty
        header == "HEADER" \in k.dirty
    IN \/ ws /\ header /\ p = <<>> /\ lk = NoLink
       \/ ~ws /\ header /\ p = <<WsHeader>> /\ lk = NoLink
       \/ ~ws /\ header /\ p = <<>> /\ Greeted(lk)
       \/ /\ ~ws /\ ~header /\ lk = NoLink
          /\ Len(p) >= 2 /\ p[1] = WsHeader /\ p[2] = Header(k)
          /\ OnlyCommands(p, 3)
       \/ /\ ~ws /\ ~header /\ Greeted(lk)
          /\ Len(p) >= 1 /\ p[1] = Header(k)
          /\ OnlyCommands(p, 2)
       \/ /\ ~ws /\ ~header /\ lk.st # "NONE"
          /\ lk.person <=> ~(lk.refused \/ lk.bad)
          /\ OnlyCommands(p, 1)

FromPerson == {"PLAYER_ID", "MESSAGE", "SYNC", "END"}

\* What the server has told and the client has not read, from a place in s on: the
\* person before the messages, and of these all that the client has not had, in
\* order.  A header that the server turned down was out of date.
Tellings(k, s, from, lk, sv) ==
    LET unread == from..Len(s) IN
    /\ sv.offset <= sv.log
    /\ \A i \in unread : s[i].type \in FromPerson => lk.person
    /\ \A i \in unread : s[i].type = "PLAYER_ID" =>
         s[i].person = sv.person /\ "PLAYER_ID" \in lk.told
    /\ lk.person =>
         /\ k.person \in {NoPerson, sv.person}
         /\ k.person = NoPerson /\ "PLAYER_ID" \in lk.told =>
              \E i \in unread : s[i].type = "PLAYER_ID"
         /\ k.person = NoPerson =>
              \A j \in unread : s[j].type = "MESSAGE" =>
                \E i \in from..j - 1 : s[i].type = "PLAYER_ID"
         /\ k.next <= lk.at /\ lk.at <= sv.log - sv.offset
         /\ \A m \in k.next + 1..lk.at :
              \E j \in unread : s[j].type = "MESSAGE" /\ s[j].n = sv.offset + m
         /\ \A j \in unread : s[j].type = "MESSAGE" =>
              s[j].n \in sv.offset + k.next + 1..sv.offset + lk.at
         /\ \A i, j \in unread :
              i < j /\ s[i].type = "MESSAGE" /\ s[j].type = "MESSAGE" => s[i].n < s[j].n
    /\ lk.refused \/ lk.bad =>
         /\ k.person # NoPerson
         /\ k.person # sv.person \/ ~sv.known

Showing(k, sv, shown) ==
    /\ k.next = Len(shown)
    /\ k.person = NoPerson => k.next = 0
    /\ k.person = sv.person =>
         /\ shown = [i \in 1..k.next |-> sv.offset + i]
         /\ k.next <= sv.log - sv.offset

\* When no keep alive is due, something else is about to be written.
Timed(k) == k.sock /\ k.keepAliveIn = Never => k.out # <<>> \/ k.dirty # {}

\* The server has heard of the client in time, or is about to.
Breathing(k, nt, lk, sv, hs) ==
    k.sock /\ ~k.finished /\ lk.person /\ ~hs.putOff =>
      /\ sv.known
      /\ nt.toServer = <<>> /\ k.keepAliveIn # Never =>
           sv.silent + k.keepAliveIn <= KeepAliveTime

Talk(k, nt, lk, sv, hs) ==
    /\ nt.st = "UP" => Stages(k, Line(k, nt), lk)
    /\ Tellings(k, nt.toClient, 1, lk, sv)
    /\ Showing(k, sv, hs.shown)
    /\ Timed(k) /\ Breathing(k, nt, lk, sv, hs)

TalkInvariant == Talk(c, net, link, server, hist)

-----------------------------------------------------------------------------
(* What the player says and does.                                          *)

\* Messages are heard, on the line and waiting, in the order they were said.
Ascending(s) == \A i, j \in DOMAIN s : i < j => s[i] < s[j]
Says(f) == f.type = "SEND_MESSAGE"
InLine(k, p, sv, hs) ==
    /\ hs.before <= hs.said
    /\ Ascending(sv.heard) /\ Ascending(k.messages)
    /\ \A i, j \in DOMAIN p : i < j /\ Says(p[i]) /\ Says(p[j]) => p[i].n < p[j].n
    /\ \A i \in DOMAIN sv.heard : sv.heard[i] <= hs.said
    /\ \A i \in DOMAIN p : Says(p[i]) => hs.before < p[i].n /\ p[i].n <= hs.said
    /\ \A i \in DOMAIN k.messages :
         hs.before < k.messages[i] /\ k.messages[i] <= hs.said
    /\ \A i \in DOMAIN sv.heard, j \in DOMAIN p : Says(p[j]) => sv.heard[i] < p[j].n
    /\ \A i \in DOMAIN sv.heard, j \in DOMAIN k.messages :
         sv.heard[i] < k.messages[j]
    /\ \A i \in DOMAIN p, j \in DOMAIN k.messages : Says(p[i]) => p[i].n < k.messages[j]

\* What the server will know of the person once it has read the header.
Fresh(k, lk) == k.person = NoPerson /\ ~lk.person
KnownHeard(k, lk, sv) == IF Fresh(k, lk) THEN <<>> ELSE sv.heard
KnownTyping(k, lk, sv) == ~Fresh(k, lk) /\ sv.typing
KnownLeft(k, lk, sv) == ~Fresh(k, lk) /\ sv.left
KnownPlace(k, lk, sv, t) == IF Fresh(k, lk) THEN Nowhere ELSE sv.place[t]

\* The server listens to the client, or will.
Listening(k, lk, sv) ==
    lk.person \/ k.person = NoPerson \/ (k.person = sv.person /\ sv.known)

\* Each message of this game is heard, on the line or waits.
AllSaid(k, p, heard, hs) ==
    /\ \A i \in DOMAIN heard : heard[i] > hs.before
    /\ \A m \in hs.before + 1..hs.said :
         \/ \E i \in DOMAIN heard : heard[i] = m
         \/ \E i \in DOMAIN p : Says(p[i]) /\ p[i].n = m
         \/ \E i \in DOMAIN k.messages : k.messages[i] = m

\* The last move of a tile that waits, or is on the line, or was heard, is the
\* last that was made.
Moves(f, t) == f.type = "MOVE_TILE" /\ f.tile = t
Waits(k, t) == \E i \in DOMAIN k.tiles : k.tiles[i].num = t
LastMove(k, p, t, known, hs) ==
    /\ \A i \in DOMAIN k.tiles :
         k.tiles[i].num = t => k.tiles[i].place = hs.moved[t]
    /\ ~Waits(k, t) =>
         /\ \A i \in DOMAIN p :
              Moves(p[i], t) /\ (\A j \in DOMAIN p : j > i => ~Moves(p[j], t))
                => p[i].place = hs.moved[t]
         /\ (\A i \in DOMAIN p : ~Moves(p[i], t)) => known = hs.moved[t]

\* The last that is said of typing is what the client takes as sent.
Types(f) == f.type \in {"TYPING", "SEND_MESSAGE"}
LastTyping(k, p, typing, gone) ==
    ~gone /\ (\A i \in DOMAIN p : p[i].type # "LEAVE") =>
      /\ \A i \in DOMAIN p :
           Types(p[i]) /\ (\A j \in DOMAIN p : j > i => ~Types(p[j]))
             => k.sentTyping = (p[i].type = "TYPING" /\ p[i].on)
      /\ (\A i \in DOMAIN p : ~Types(p[i])) => typing = k.sentTyping

NothingForgotten(k, p, lk, sv, hs) ==
    ~hs.lost /\ Listening(k, lk, sv) =>
      /\ AllSaid(k, p, KnownHeard(k, lk, sv), hs)
      /\ \A t \in Tile : LastMove(k, p, t, KnownPlace(k, lk, sv, t), hs)
      /\ LastTyping(k, p, KnownTyping(k, lk, sv), KnownLeft(k, lk, sv))

Saying(k, p, lk, sv, hs) ==
    InLine(k, p, sv, hs) /\ NothingForgotten(k, p, lk, sv, hs)

SayInvariant == Saying(c, Line(c, net), link, server, hist)

-----------------------------------------------------------------------------
(* Numbers.                                                                *)

\* A non-empty set of natural numbers has a least element, which Least finds.
LEMMA LeastNatural ==
    ASSUME NEW S \in SUBSET Nat, S # {}
    PROVE  \E m \in S : \A n \in S : m <= n
<1>1. IsWellFoundedOn(OpToRel(<, Nat), Nat)
  BY NatLessThanWellFounded
<1>2. PICK m \in S : \A n \in S : ~(<<n, m>> \in OpToRel(<, Nat))
  BY <1>1, WFMin, Zenon
<1>3. \A n \in S : ~(n < m)
  BY <1>2 DEF OpToRel
<1>. QED
  BY <1>3

LEMMA LeastOf ==
    ASSUME NEW S \in SUBSET Nat, S # {}
    PROVE  Least(S) \in S /\ \A y \in S : Least(S) <= y
BY LeastNatural, Zenon DEF Least

\* Induction, for sets of numbers.
LEMMA SetInduction ==
    ASSUME NEW S \in SUBSET Nat, 0 \in S, \A n \in S : n + 1 \in S
    PROVE  S = Nat
<1>1. SUFFICES ASSUME Nat \ S # {} PROVE FALSE
  OBVIOUS
<1>2. PICK m \in Nat \ S : \A n \in Nat \ S : m <= n
  BY <1>1, LeastNatural
<1>3. m - 1 \in Nat /\ m - 1 \notin Nat \ S
  BY <1>2
<1>. QED
  BY <1>2, <1>3

-----------------------------------------------------------------------------
(* What the operators do to the fields of the connection.                  *)

Fields == {"address", "name", "person", "state", "finished", "typing",
           "sentTyping", "writeFinished", "next", "timeout", "reconnectIn",
           "playerAge", "keepAliveIn", "dirty", "tiles", "messages", "sock",
           "synced", "out", "upgraded", "poll"}

\* All but the fields of S are the same.
Same(q, k, S) == \A f \in Fields \ S : q[f] = k[f]

\* The next wakeup is the sooner of the two times.
LEMMA WakeupIsSooner ==
    ASSUME NEW k \in Conn
    PROVE  /\ Wakeup(k) \in {k.reconnectIn, k.keepAliveIn}
           /\ Wakeup(k) \in Int /\ Wakeup(k) >= Never
           /\ k.reconnectIn # Never =>
                Wakeup(k) # Never /\ Wakeup(k) <= k.reconnectIn
           /\ k.keepAliveIn # Never =>
                Wakeup(k) # Never /\ Wakeup(k) <= k.keepAliveIn
<1>. DEFINE times == {k.reconnectIn, k.keepAliveIn} \ {Never}
<1>1. k.reconnectIn \in Int /\ k.reconnectIn >= -1
      /\ k.keepAliveIn \in Int /\ k.keepAliveIn >= -1
  BY DEF Conn, Never
<1>2. CASE times = {}
  <2>1. Wakeup(k) = Never
    BY <1>2 DEF Wakeup
  <2>. QED
    BY <1>1, <1>2, <2>1 DEF Never
<1>3. CASE times # {}
  <2>1. times \in SUBSET Nat
    BY <1>1 DEF Never
  <2>2. Wakeup(k) = Least(times)
    BY <1>3 DEF Wakeup
  <2>. HIDE DEF times
  <2>3. Wakeup(k) \in times /\ \A y \in times : Wakeup(k) <= y
    BY <1>3, <2>1, <2>2, LeastOf
  <2>. QED
    BY <1>1, <2>1, <2>3 DEF times, Never
<1>. QED
  BY <1>2, <1>3

LEMMA UpdatePollFields ==
    ASSUME NEW k \in Conn
    PROVE  /\ UpdatePoll(k) \in Conn
           /\ Same(UpdatePoll(k), k, {"writeFinished", "poll"})
           /\ UpdatePoll(k).writeFinished = (k.writeFinished \/ ShutsDown(k))
           /\ UpdatePoll(k).poll =
                [fd |-> k.sock, events |-> Events(k), wakeup |-> Wakeup(k)]
<1>. DEFINE w == k.writeFinished \/ ShutsDown(k)
            p == [fd |-> k.sock, events |-> Events(k), wakeup |-> Wakeup(k)]
            q == [k EXCEPT !.writeFinished = w, !.poll = p]
<1>1. w \in BOOLEAN
  OBVIOUS
<1>2. Events(k) \in SUBSET {"IN", "OUT"}
  BY DEF Events
<1>3. Wakeup(k) \in Int
  BY WakeupIsSooner
<1>4. p \in Poll
  BY <1>2, <1>3 DEF Conn, Poll
<1>5. UpdatePoll(k) = q
  BY DEF UpdatePoll
<1>. HIDE DEF w, p
<1>6. q \in Conn
  BY <1>1, <1>4 DEF Conn
<1>7. Same(q, k, {"writeFinished", "poll"})
  BY DEF Conn, Same, Fields
<1>8. q.writeFinished = w /\ q.poll = p
  BY DEF Conn
<1>. QED
  BY <1>5, <1>6, <1>7, <1>8 DEF w, p

\* After update_poll the poll is up to date, and a sound machine is still one.
LEMMA UpdatePollPublishes ==
    ASSUME NEW k \in Conn
    PROVE  /\ \A nt : Polling(UpdatePoll(k), nt)
           /\ Machine(k) => Machine(UpdatePoll(k))
           /\ HasPendingData(UpdatePoll(k)) = HasPendingData(k)
<1>. DEFINE q == UpdatePoll(k)
<1>1. /\ q \in Conn /\ Same(q, k, {"writeFinished", "poll"})
      /\ q.writeFinished = (k.writeFinished \/ ShutsDown(k))
      /\ q.poll = [fd |-> k.sock, events |-> Events(k), wakeup |-> Wakeup(k)]
  BY UpdatePollFields
<1>. HIDE DEF q
<1>2. /\ q.sock = k.sock /\ q.state = k.state /\ q.out = k.out
      /\ q.dirty = k.dirty /\ q.tiles = k.tiles /\ q.messages = k.messages
      /\ q.typing = k.typing /\ q.sentTyping = k.sentTyping
      /\ q.address = k.address /\ q.person = k.person /\ q.name = k.name
      /\ q.finished = k.finished
      /\ q.reconnectIn = k.reconnectIn /\ q.keepAliveIn = k.keepAliveIn
  BY <1>1 DEF Same, Fields
<1>3. HasPendingData(q) = HasPendingData(k)
  BY <1>2 DEF HasPendingData
<1>4. Wakeup(q) = Wakeup(k)
  BY <1>2 DEF Wakeup
<1>5. Events(q) = Events(k)
  BY <1>1, <1>2, <1>3 DEF Events, ShutsDown
<1>6. \A nt : Polling(q, nt)
  <2>1. Wakeup(k) \in Int /\ Wakeup(k) >= Never
    BY WakeupIsSooner
  <2>2. q.poll.fd = q.sock /\ q.poll.events = Events(q) /\ q.poll.wakeup = Wakeup(q)
    BY <1>1, <1>2, <1>4, <1>5
  <2>. QED
    BY <1>4, <2>1, <2>2 DEF Polling, Never
<1>7. ASSUME Machine(k) PROVE Machine(q)
  <2>1. HasConfiguration(q) = HasConfiguration(k)
    BY <1>2 DEF HasConfiguration
  <2>2. ASSUME q.sock, q.writeFinished
        PROVE  /\ q.finished /\ q.out = <<>>
               /\ "WS_HEADER" \notin q.dirty /\ "HEADER" \notin q.dirty
    <3>1. CASE k.writeFinished
      BY <1>2, <1>7, <2>2, <3>1 DEF Machine
    <3>2. CASE ShutsDown(k)
      BY <1>2, <3>2 DEF ShutsDown, HasPendingData
    <3>. QED
      BY <1>1, <2>2, <3>1, <3>2
  <2>. QED
    BY <1>2, <1>7, <2>1, <2>2 DEF Machine
<1>. QED
  BY <1>3, <1>6, <1>7 DEF q

\* The times there are from the start.
LEMMA TimesInRange ==
    /\ Never \in Never..MaxTimeout /\ Never \in Never..StableTime
    /\ Never \in Never..KeepAliveTime
    /\ 0 \in Never..MaxTimeout /\ 0 \in Never..StableTime /\ 0 \in 0..MaxTimeout
    /\ KeepAliveTime \in Never..KeepAliveTime
BY ClientAssumption DEF Never

LEMMA CloseSocketFields ==
    ASSUME NEW k \in Conn
    PROVE  /\ CloseSocket(k) \in Conn
           /\ Same(CloseSocket(k), k, {"sock", "keepAliveIn"})
           /\ CloseSocket(k).sock = FALSE
           /\ CloseSocket(k).keepAliveIn = IF k.sock THEN Never ELSE k.keepAliveIn
<1>. DEFINE q == [k EXCEPT !.sock = FALSE, !.keepAliveIn = Never]
<1>1. /\ q \in Conn /\ Same(q, k, {"sock", "keepAliveIn"})
      /\ q.sock = FALSE /\ q.keepAliveIn = Never
  BY TimesInRange DEF Conn, Same, Fields
<1>2. k.sock => CloseSocket(k) = q
  BY DEF CloseSocket
<1>3. ~k.sock => CloseSocket(k) = k
  BY DEF CloseSocket
<1>4. k.sock \in BOOLEAN
  BY DEF Conn
<1>5. Same(k, k, {"sock", "keepAliveIn"})
  BY DEF Same
<1>. HIDE DEF q
<1>. QED
  BY <1>1, <1>2, <1>3, <1>4, <1>5

\* After a failure there is no socket, and the next try has its time: at once
\* after a connection that was stable, and else the later the more there were.
LEMMA SetReconnectTimestampFields ==
    ASSUME NEW k \in Conn
    PROVE  /\ SetReconnectTimestamp(k) \in Conn
           /\ Same(SetReconnectTimestamp(k), k, {"reconnectIn", "timeout"})
           /\ SetReconnectTimestamp(k).reconnectIn = k.timeout
           /\ SetReconnectTimestamp(k).timeout >= 1
<1>. DEFINE later == IF k.timeout = 0 THEN InitialTimeout
                     ELSE Least({2 * k.timeout, MaxTimeout})
            q == [k EXCEPT !.reconnectIn = k.timeout, !.timeout = later]
<1>1. k.timeout \in Nat /\ k.timeout <= MaxTimeout
  BY ClientAssumption DEF Conn
<1>2. later \in 1..MaxTimeout
  <2>1. CASE k.timeout = 0
    BY <2>1, ClientAssumption
  <2>2. CASE k.timeout # 0
    <3>. DEFINE both == {2 * k.timeout, MaxTimeout}
    <3>1. both \in SUBSET Nat /\ both # {}
      BY <1>1, ClientAssumption
    <3>2. Least(both) \in both /\ \A y \in both : Least(both) <= y
      BY <3>1, LeastOf
    <3>3. Least(both) \in 1..MaxTimeout
      BY <1>1, <2>2, <3>2, ClientAssumption
    <3>. QED
      BY <2>2, <3>3
  <2>. QED
    BY <2>1, <2>2
<1>3. SetReconnectTimestamp(k) = q
  BY DEF SetReconnectTimestamp
<1>. HIDE DEF later
<1>a. k.timeout \in Never..MaxTimeout /\ later \in 0..MaxTimeout
  BY <1>1, <1>2, ClientAssumption DEF Never
<1>4. q \in Conn
  BY <1>a DEF Conn
<1>5. Same(q, k, {"reconnectIn", "timeout"}) /\ q.reconnectIn = k.timeout
      /\ q.timeout = later
  BY DEF Conn, Same, Fields
<1>. QED
  BY <1>2, <1>3, <1>4, <1>5, ClientAssumption

Stable(k) == k.playerAge # Never /\ k.playerAge >= StableTime

LEMMA ReportErrorFields ==
    ASSUME NEW k \in Conn
    PROVE  /\ ReportError(k) \in Conn
           /\ Same(ReportError(k), k, {"sock", "keepAliveIn", "timeout",
                                       "reconnectIn", "writeFinished", "poll"})
           /\ ReportError(k).sock = FALSE
           /\ ReportError(k).keepAliveIn = IF k.sock THEN Never ELSE k.keepAliveIn
           /\ ReportError(k).reconnectIn = IF Stable(k) THEN 0 ELSE k.timeout
           /\ ReportError(k).timeout >= 1
           /\ \A nt : Polling(ReportError(k), nt)
<1>. DEFINE k1 == CloseSocket(k)
            new == IF Stable(k) THEN 0 ELSE k1.timeout
            k2 == [k1 EXCEPT !.timeout = new]
            k3 == SetReconnectTimestamp(k2)
            k4 == UpdatePoll(k3)
<1>1. /\ k1 \in Conn /\ Same(k1, k, {"sock", "keepAliveIn"}) /\ k1.sock = FALSE
      /\ k1.keepAliveIn = IF k.sock THEN Never ELSE k.keepAliveIn
  BY CloseSocketFields
<1>. HIDE DEF k1
<1>2. k1.timeout = k.timeout /\ k1.timeout \in 0..MaxTimeout /\ 0 \in 0..MaxTimeout
  BY <1>1, ClientAssumption DEF Same, Fields, Conn
<1>3. new \in 0..MaxTimeout
  BY <1>2
<1>4. new = IF Stable(k) THEN 0 ELSE k.timeout
  BY <1>2
<1>. HIDE DEF new
<1>5. k2 \in Conn /\ Same(k2, k1, {"timeout"}) /\ k2.timeout = new
  BY <1>1, <1>3 DEF Conn, Same, Fields
<1>6. ReportError(k) = k4
  BY DEF ReportError, k1, new, Stable
<1>. HIDE DEF k2
<1>7. /\ k3 \in Conn /\ Same(k3, k2, {"reconnectIn", "timeout"})
      /\ k3.reconnectIn = k2.timeout /\ k3.timeout >= 1
  BY <1>5, SetReconnectTimestampFields
<1>. HIDE DEF k3
<1>8. /\ k4 \in Conn /\ Same(k4, k3, {"writeFinished", "poll"})
      /\ \A nt : Polling(k4, nt)
  BY <1>7, UpdatePollFields, UpdatePollPublishes
<1>. HIDE DEF k4
<1>9. Same(k4, k, {"sock", "keepAliveIn", "timeout", "reconnectIn",
                   "writeFinished", "poll"})
  BY <1>1, <1>5, <1>7, <1>8 DEF Same, Fields
<1>10. k4.sock = FALSE /\ k4.keepAliveIn = k1.keepAliveIn
       /\ k4.reconnectIn = new /\ k4.timeout >= 1
  BY <1>1, <1>5, <1>7, <1>8 DEF Same, Fields
<1>. QED
  BY <1>1, <1>4, <1>6, <1>8, <1>9, <1>10

LEMMA ReconnectingFields ==
    ASSUME NEW k \in Conn
    PROVE  /\ Reconnecting(k) \in Conn
           /\ Same(Reconnecting(k), k, {"sock", "keepAliveIn", "reconnectIn", "playerAge"})
           /\ Reconnecting(k).sock = FALSE
           /\ Reconnecting(k).keepAliveIn = IF k.sock THEN Never ELSE k.keepAliveIn
           /\ Reconnecting(k).reconnectIn = Never
           /\ Reconnecting(k).playerAge = Never
<1>. DEFINE k1 == [k EXCEPT !.reconnectIn = Never, !.playerAge = Never]
            k2 == CloseSocket(k1)
<1>1. /\ k1 \in Conn /\ Same(k1, k, {"reconnectIn", "playerAge"})
      /\ k1.reconnectIn = Never /\ k1.playerAge = Never
  BY TimesInRange DEF Conn, Same, Fields
<1>2. Reconnecting(k) = k2
  BY DEF Reconnecting
<1>. HIDE DEF k1
<1>3. /\ k2 \in Conn /\ Same(k2, k1, {"sock", "keepAliveIn"}) /\ k2.sock = FALSE
      /\ k2.keepAliveIn = IF k1.sock THEN Never ELSE k1.keepAliveIn
  BY <1>1, CloseSocketFields
<1>. HIDE DEF k2
<1>4. Same(k2, k, {"sock", "keepAliveIn", "reconnectIn", "playerAge"})
  BY <1>1, <1>3 DEF Same, Fields
<1>. QED
  BY <1>1, <1>2, <1>3, <1>4 DEF Same, Fields

LEMMA ReconnectedFields ==
    ASSUME NEW k \in Conn, ~k.sock, k.keepAliveIn = Never
    PROVE  LET q == Reconnected(k, "RECONNECTING") IN
           /\ q \in Conn
           /\ Same(q, k, {"sock", "reconnectIn", "playerAge", "state", "dirty",
                    "out", "upgraded", "writeFinished", "synced", "poll", "keepAliveIn"})
           /\ q.sock /\ q.state = "RECONNECTING" /\ q.out = <<>>
           /\ q.dirty = k.dirty \cup {"WS_HEADER", "HEADER"}
           /\ q.reconnectIn = Never /\ q.playerAge = Never
           /\ q.keepAliveIn = Never /\ ~q.writeFinished
           /\ \A nt : Polling(q, nt)
<1>. DEFINE none == <<>>
            k1 == Reconnecting(k)
            k2 == [k1 EXCEPT
                     !.sock = TRUE, !.state = "RECONNECTING",
                     !.dirty = @ \cup {"WS_HEADER", "HEADER"}, !.out = none,
                     !.upgraded = FALSE, !.writeFinished = FALSE, !.synced = FALSE]
            k3 == UpdatePoll(k2)
<1>1. /\ k1 \in Conn
      /\ Same(k1, k, {"sock", "keepAliveIn", "reconnectIn", "playerAge"})
      /\ k1.keepAliveIn = Never /\ k1.reconnectIn = Never /\ k1.playerAge = Never
  BY ReconnectingFields
<1>2. Reconnected(k, "RECONNECTING") = k3
  BY DEF Reconnected
<1>3. none \in Seq(ToServer)
  BY EmptySeq
<1>. HIDE DEF k1, none
<1>4. k1.dirty \cup {"WS_HEADER", "HEADER"} \in SUBSET FlagSet
  BY <1>1 DEF Conn, FlagSet
<1>5. k2 \in Conn
  BY <1>1, <1>3, <1>4 DEF Conn, States
<1>6. Same(k2, k1, {"sock", "state", "dirty", "out", "upgraded", "writeFinished", "synced"})
  BY <1>1 DEF Conn, Same, Fields
<1>7. /\ k2.sock = TRUE /\ k2.state = "RECONNECTING" /\ k2.out = none
      /\ k2.dirty = k1.dirty \cup {"WS_HEADER", "HEADER"} /\ k2.writeFinished = FALSE
  BY <1>1 DEF Conn
<1>. HIDE DEF k2
<1>8. /\ k3 \in Conn /\ Same(k3, k2, {"writeFinished", "poll"})
      /\ k3.writeFinished = (k2.writeFinished \/ ShutsDown(k2))
      /\ \A nt : Polling(k3, nt)
  BY <1>5, UpdatePollFields, UpdatePollPublishes
<1>9. ~ShutsDown(k2)
  BY <1>7 DEF ShutsDown
<1>. HIDE DEF k3
<1>10. Same(k3, k, {"sock", "reconnectIn", "playerAge", "state", "dirty",
               "out", "upgraded", "writeFinished", "synced", "poll", "keepAliveIn"})
  BY <1>1, <1>6, <1>8 DEF Same, Fields
<1>11. k3.sock /\ k3.state = "RECONNECTING" /\ k3.out = none /\ ~k3.writeFinished
  BY <1>7, <1>8, <1>9 DEF Same, Fields
<1>12. k3.dirty = k.dirty \cup {"WS_HEADER", "HEADER"}
  BY <1>1, <1>7, <1>8 DEF Same, Fields
<1>13. k3.reconnectIn = Never /\ k3.playerAge = Never /\ k3.keepAliveIn = Never
  BY <1>1, <1>6, <1>8 DEF Same, Fields
<1>. QED
  BY <1>2, <1>8, <1>10, <1>11, <1>12, <1>13 DEF none

LEMMA StartConnectingFields ==
    ASSUME NEW k \in Conn, ~k.sock, ~k.poll.fd, k.keepAliveIn = Never
    PROVE  LET q == StartConnecting(k) IN
           /\ q \in Conn
           /\ Same(q, k, {"timeout", "reconnectIn", "state", "poll", "writeFinished"})
           /\ q.timeout = 0
           /\ IF HasConfiguration(k)
                THEN q.reconnectIn = 0 /\ q.state = "WAITING_FOR_RECONNECT"
                ELSE q.reconnectIn = Never /\ q.state = "WAITING_FOR_CONFIGURATION"
           /\ \A nt : Polling(q, nt)
<1>. DEFINE q == StartConnecting(k)
<1>1. CASE HasConfiguration(k)
  <2>. DEFINE k1 == [k EXCEPT !.timeout = 0, !.reconnectIn = 0,
                              !.state = "WAITING_FOR_RECONNECT"]
  <2>1. k1 \in Conn
    BY TimesInRange DEF Conn, States
  <2>2. Same(k1, k, {"timeout", "reconnectIn", "state"})
        /\ k1.timeout = 0 /\ k1.reconnectIn = 0 /\ k1.state = "WAITING_FOR_RECONNECT"
    BY DEF Conn, Same, Fields
  <2>3. q = UpdatePoll(k1)
    BY <1>1 DEF StartConnecting
  <2>. HIDE DEF k1, q
  <2>4. /\ q \in Conn /\ Same(q, k1, {"writeFinished", "poll"})
        /\ \A nt : Polling(q, nt)
    BY <2>1, <2>3, UpdatePollFields, UpdatePollPublishes
  <2>5. Same(q, k, {"timeout", "reconnectIn", "state", "poll", "writeFinished"})
    BY <2>2, <2>4 DEF Same, Fields
  <2>6. q.timeout = 0 /\ q.reconnectIn = 0 /\ q.state = "WAITING_FOR_RECONNECT"
    BY <2>2, <2>4 DEF Same, Fields
  <2>. QED
    BY <1>1, <2>4, <2>5, <2>6 DEF q
<1>2. CASE ~HasConfiguration(k)
  <2>. DEFINE k1 == [k EXCEPT !.timeout = 0, !.reconnectIn = Never,
                              !.state = "WAITING_FOR_CONFIGURATION"]
  <2>1. k1 \in Conn
    BY TimesInRange DEF Conn, States
  <2>2. Same(k1, k, {"timeout", "reconnectIn", "state"})
        /\ k1.timeout = 0 /\ k1.reconnectIn = Never
        /\ k1.state = "WAITING_FOR_CONFIGURATION"
    BY DEF Conn, Same, Fields
  <2>3. q = k1
    BY <1>2 DEF StartConnecting
  <2>. HIDE DEF k1, q
  <2>4. q.sock = k.sock /\ q.keepAliveIn = k.keepAliveIn /\ q.poll = k.poll
    BY <2>2, <2>3 DEF Same, Fields
  <2>5. Wakeup(q) = Never
    BY <2>1, <2>2, <2>3, <2>4, WakeupIsSooner
  <2>6. k.poll.fd = k.sock
    BY DEF Conn, Poll
  <2>7. \A nt : Polling(q, nt)
    BY <2>4, <2>5, <2>6 DEF Polling
  <2>8. Same(q, k, {"timeout", "reconnectIn", "state", "poll", "writeFinished"})
    BY <2>2, <2>3 DEF Same, Fields
  <2>. QED
    BY <1>2, <2>1, <2>2, <2>3, <2>7, <2>8 DEF q
<1>. QED
  BY <1>1, <1>2

\* Stopping closes the socket there is.
LEMMA StoppedFields ==
    ASSUME NEW k \in Conn, Machine(k), NEW nt0, k.sock \/ Polling(k, nt0)
    PROVE  LET q == Stopped(k) IN
           /\ q \in Conn
           /\ Same(q, k, {"state", "sock", "keepAliveIn", "reconnectIn",
                          "writeFinished", "poll"})
           /\ q.state = "DISCONNECTED" /\ q.sock = FALSE /\ q.keepAliveIn = Never
           /\ q.reconnectIn = k.reconnectIn \/ q.reconnectIn = Never
           /\ \A nt : Polling(q, nt)
<1>. DEFINE q == Stopped(k)
            S == {"state", "sock", "keepAliveIn", "reconnectIn",
                  "writeFinished", "poll"}
            d == [k EXCEPT !.state = "DISCONNECTED"]
<1>1. d \in Conn /\ Same(d, k, {"state"}) /\ d.state = "DISCONNECTED"
  BY DEF Conn, States, Same, Fields
<1>2. d.sock = k.sock /\ d.keepAliveIn = k.keepAliveIn /\ d.poll = k.poll
      /\ d.reconnectIn = k.reconnectIn
  BY <1>1 DEF Same, Fields
<1>3. CASE k.state \in {"RECONNECTING", "RUNNING"}
  <2>1. q = UpdatePoll(CloseSocket(d))
    BY <1>3 DEF Stopped
  <2>. DEFINE k1 == CloseSocket(d)
  <2>. HIDE DEF d
  <2>2. /\ k1 \in Conn /\ Same(k1, d, {"sock", "keepAliveIn"}) /\ k1.sock = FALSE
        /\ k1.keepAliveIn = IF d.sock THEN Never ELSE d.keepAliveIn
    BY <1>1, CloseSocketFields
  <2>. HIDE DEF q, k1
  <2>3. /\ q \in Conn /\ Same(q, k1, {"writeFinished", "poll"})
        /\ \A nt : Polling(q, nt)
    BY <2>1, <2>2, UpdatePollFields, UpdatePollPublishes DEF k1
  <2>4. Same(q, k, S)
    BY <1>1, <2>2, <2>3 DEF Same, Fields
  <2>5. /\ q.state = "DISCONNECTED" /\ q.sock = FALSE
        /\ q.keepAliveIn = k1.keepAliveIn /\ q.reconnectIn = k.reconnectIn
    BY <1>1, <1>2, <2>2, <2>3 DEF Same, Fields
  <2>6. k1.keepAliveIn = Never
    BY <1>2, <2>2 DEF Machine, Conn
  <2>. QED
    BY <2>3, <2>4, <2>5, <2>6 DEF q
<1>4. CASE k.state = "WAITING_FOR_RECONNECT"
  <2>. DEFINE k1 == [k EXCEPT !.state = "DISCONNECTED", !.reconnectIn = Never]
  <2>1. q = UpdatePoll(k1)
    BY <1>4 DEF Stopped
  <2>2. k1 \in Conn
    BY TimesInRange DEF Conn, States
  <2>3. Same(k1, k, {"state", "reconnectIn"}) /\ k1.state = "DISCONNECTED"
        /\ k1.reconnectIn = Never
    BY DEF Conn, Same, Fields
  <2>. HIDE DEF k1, q
  <2>4. /\ q \in Conn /\ Same(q, k1, {"writeFinished", "poll"})
        /\ \A nt : Polling(q, nt)
    BY <2>1, <2>2, UpdatePollFields, UpdatePollPublishes DEF k1
  <2>5. Same(q, k, S)
    BY <2>3, <2>4 DEF Same, Fields
  <2>6. k.sock = FALSE /\ k.keepAliveIn = Never
    BY <1>4 DEF Machine, Conn
  <2>7. /\ q.state = "DISCONNECTED" /\ q.reconnectIn = Never
        /\ q.sock = k.sock /\ q.keepAliveIn = k.keepAliveIn
    BY <2>3, <2>4 DEF Same, Fields
  <2>. QED
    BY <2>4, <2>5, <2>6, <2>7 DEF q
<1>5. CASE k.state \notin {"RECONNECTING", "RUNNING", "WAITING_FOR_RECONNECT"}
  <2>1. q = d
    BY <1>5 DEF Stopped
  <2>. HIDE DEF d
  <2>2. k.sock = FALSE /\ k.keepAliveIn = Never
    BY <1>5 DEF Machine, Conn
  <2>3. Wakeup(d) = Wakeup(k)
    BY <1>2 DEF Wakeup
  <2>4. \A nt : Polling(d, nt)
    BY <1>2, <2>2, <2>3 DEF Polling
  <2>5. Same(d, k, S)
    BY <1>1 DEF Same, Fields
  <2>. QED
    BY <1>1, <1>2, <2>1, <2>2, <2>4, <2>5 DEF d
<1>. QED
  BY <1>3, <1>4, <1>5

\* Another game starts with nothing of the last.
LEMMA ResetClientFields ==
    ASSUME NEW k \in Conn
    PROVE  LET q == ResetClient(k) IN
           /\ q \in Conn
           /\ q.sock = FALSE /\ q.person = NoPerson /\ q.name = FALSE
           /\ q.finished = FALSE /\ q.typing = FALSE /\ q.sentTyping = FALSE
           /\ q.next = 0 /\ q.dirty = {} /\ q.tiles = <<>> /\ q.messages = <<>>
           /\ q.keepAliveIn = Never /\ q.reconnectIn = Never /\ q.playerAge = Never
           /\ q.timeout = 0 /\ q.state = "DISCONNECTED" /\ q.out = k.out
           /\ \A nt : Polling(q, nt)
<1>. DEFINE none == <<>>
            k1 == CloseSocket(k)
            k2 == [k1 EXCEPT
                     !.name = FALSE, !.person = NoPerson, !.finished = FALSE,
                     !.typing = FALSE, !.sentTyping = FALSE, !.next = 0, !.dirty = {},
                     !.keepAliveIn = Never, !.reconnectIn = Never, !.playerAge = Never,
                     !.timeout = 0, !.tiles = none, !.messages = none]
            k3 == Stopped(k2)
            k4 == UpdatePoll(k3)
<1>1. k1 \in Conn /\ k1.sock = FALSE /\ k1.out = k.out
  BY CloseSocketFields DEF Same, Fields
<1>2. none \in Seq([num : Tile, place : Place]) /\ none \in Seq(Nat)
  BY EmptySeq
<1>3. ResetClient(k) = k4
  BY DEF ResetClient
<1>. HIDE DEF k1, none
<1>4. k2 \in Conn
  BY <1>1, <1>2, TimesInRange DEF Conn, FlagSet, NoPerson
<1>5. /\ k2.sock = FALSE /\ k2.person = NoPerson /\ k2.name = FALSE
      /\ k2.finished = FALSE /\ k2.typing = FALSE /\ k2.sentTyping = FALSE
      /\ k2.next = 0 /\ k2.dirty = {} /\ k2.tiles = none /\ k2.messages = none
      /\ k2.keepAliveIn = Never /\ k2.reconnectIn = Never /\ k2.playerAge = Never
      /\ k2.timeout = 0 /\ k2.out = k.out
  BY <1>1 DEF Conn
<1>. HIDE DEF k2
<1>. DEFINE S == {"state", "sock", "keepAliveIn", "reconnectIn",
                  "writeFinished", "poll"}
<1>6. /\ k3 \in Conn /\ Same(k3, k2, S)
      /\ k3.state = "DISCONNECTED" /\ k3.sock = FALSE /\ k3.keepAliveIn = Never
      /\ k3.reconnectIn = k2.reconnectIn \/ k3.reconnectIn = Never
  <2>. DEFINE d == [k2 EXCEPT !.state = "DISCONNECTED"]
              e == [k2 EXCEPT !.state = "DISCONNECTED", !.reconnectIn = Never]
  <2>1. /\ d \in Conn /\ Same(d, k2, S) /\ d.state = "DISCONNECTED"
        /\ d.sock = FALSE /\ d.keepAliveIn = Never /\ d.reconnectIn = Never
    BY <1>4, <1>5 DEF Conn, States, Same, Fields
  <2>2. /\ e \in Conn /\ Same(e, k2, S) /\ e.state = "DISCONNECTED"
        /\ e.sock = FALSE /\ e.keepAliveIn = Never /\ e.reconnectIn = Never
    BY <1>4, <1>5, TimesInRange DEF Conn, States, Same, Fields
  <2>3. CloseSocket(d) = d
    BY <2>1 DEF CloseSocket
  <2>4. k3 \in {d, UpdatePoll(d), UpdatePoll(e)}
    BY <2>3 DEF Stopped
  <2>. HIDE DEF d, e, k3
  <2>5. /\ UpdatePoll(d) \in Conn /\ Same(UpdatePoll(d), d, {"writeFinished", "poll"})
        /\ UpdatePoll(e) \in Conn /\ Same(UpdatePoll(e), e, {"writeFinished", "poll"})
    BY <2>1, <2>2, UpdatePollFields
  <2>6. CASE k3 = d
    BY <2>1, <2>6
  <2>7. CASE k3 = UpdatePoll(d)
    BY <2>1, <2>5, <2>7 DEF Same, Fields
  <2>8. CASE k3 = UpdatePoll(e)
    BY <2>2, <2>5, <2>8 DEF Same, Fields
  <2>. QED
    BY <2>4, <2>6, <2>7, <2>8
<1>. HIDE DEF k3
<1>7. /\ k4 \in Conn /\ Same(k4, k3, {"writeFinished", "poll"})
      /\ \A nt : Polling(k4, nt)
  BY <1>6, UpdatePollFields, UpdatePollPublishes
<1>. HIDE DEF k4
<1>8. /\ k4.person = NoPerson /\ k4.name = FALSE /\ k4.finished = FALSE
      /\ k4.typing = FALSE /\ k4.sentTyping = FALSE /\ k4.next = 0
      /\ k4.dirty = {} /\ k4.tiles = none /\ k4.messages = none
      /\ k4.playerAge = Never /\ k4.timeout = 0
  BY <1>5, <1>6, <1>7 DEF Same, Fields
<1>9. k4.sock = FALSE /\ k4.keepAliveIn = Never /\ k4.reconnectIn = Never
      /\ k4.state = "DISCONNECTED" /\ k4.out = k.out
  BY <1>5, <1>6, <1>7 DEF Same, Fields
<1>. QED
  BY <1>3, <1>7, <1>8, <1>9 DEF none

\* Waking up, the client learns that it is connected and that it is time to be
\* heard of.
LEMMA WokenFields ==
    ASSUME c \in Conn
    PROVE  /\ Woken \in Conn
           /\ Same(Woken, c, {"state", "keepAliveIn", "dirty"})
           /\ Woken.state = IF c.state = "RECONNECTING" /\ "OUT" \in polled
                              THEN "RUNNING" ELSE c.state
           /\ IF c.keepAliveIn = 0
                THEN Woken.keepAliveIn = Never
                     /\ Woken.dirty = c.dirty \cup {"KEEP_ALIVE"}
                ELSE Woken.keepAliveIn = c.keepAliveIn /\ Woken.dirty = c.dirty
<1>. DEFINE st == IF c.state = "RECONNECTING" /\ "OUT" \in polled
                    THEN "RUNNING" ELSE c.state
            k == [c EXCEPT !.state = st]
            d == c.dirty \cup {"KEEP_ALIVE"}
            q == [k EXCEPT !.keepAliveIn = Never, !.dirty = d]
<1>1. st \in States
  BY DEF Conn, States
<1>2. d \in SUBSET FlagSet
  BY DEF Conn, FlagSet
<1>. HIDE DEF st
<1>3. k \in Conn /\ Same(k, c, {"state"}) /\ k.state = st
  BY <1>1 DEF Conn, Same, Fields
<1>4. k.keepAliveIn = c.keepAliveIn /\ k.dirty = c.dirty
  BY <1>3 DEF Same, Fields
<1>5. Woken = IF c.keepAliveIn = 0 THEN q ELSE k
  BY <1>4 DEF Woken, st
<1>. HIDE DEF k, d
<1>6. q \in Conn
  BY <1>2, <1>3, TimesInRange DEF Conn
<1>7. Same(q, k, {"keepAliveIn", "dirty"}) /\ q.keepAliveIn = Never /\ q.dirty = d
  BY <1>3 DEF Conn, Same, Fields
<1>. HIDE DEF q
<1>8. Same(q, c, {"state", "keepAliveIn", "dirty"}) /\ q.state = st
      /\ Same(k, c, {"state", "keepAliveIn", "dirty"})
  BY <1>3, <1>7 DEF Same, Fields
<1>. QED
  BY <1>3, <1>4, <1>5, <1>6, <1>7, <1>8 DEF st, d

-----------------------------------------------------------------------------
(* What is written.                                                        *)

\* The frames of an item, as write_one_item chooses it: the flags first, the
\* handshake and the header before the others, then a move, a message, and
\* whether the player types.
WritesFlag(k, q) ==
    \E flag \in k.dirty :
      /\ flag # "WS_HEADER" => "WS_HEADER" \notin k.dirty
      /\ flag \notin {"WS_HEADER", "HEADER"} => "HEADER" \notin k.dirty
      /\ Same(q, k, {"out", "dirty"})
      /\ q.out = Append(k.out, FlagFrame(k, flag)) /\ q.dirty = k.dirty \ {flag}
      /\ FlagFrame(k, flag) \in ToServer
WritesMove(k, q) ==
    /\ k.dirty = {} /\ k.tiles # <<>>
    /\ Same(q, k, {"out", "tiles"}) /\ q.tiles = Tail(k.tiles)
    /\ q.out = Append(k.out, [type |-> "MOVE_TILE", tile |-> Head(k.tiles).num,
                              place |-> Head(k.tiles).place])
    /\ Head(k.tiles).num \in Tile /\ Head(k.tiles).place \in Place
WritesMessage(k, q) ==
    /\ k.dirty = {} /\ k.tiles = <<>> /\ k.messages # <<>>
    /\ Same(q, k, {"out", "messages", "sentTyping"})
    /\ q.messages = Tail(k.messages) /\ q.sentTyping = FALSE
    /\ q.out = Append(k.out, [type |-> "SEND_MESSAGE", n |-> Head(k.messages)])
    /\ Head(k.messages) \in Nat
WritesTyping(k, q) ==
    /\ k.dirty = {} /\ k.tiles = <<>> /\ k.messages = <<>>
    /\ k.typing # k.sentTyping
    /\ Same(q, k, {"out", "sentTyping"}) /\ q.sentTyping = k.typing
    /\ q.out = Append(k.out, [type |-> "TYPING", on |-> k.typing])
WritesNothing(k, q) ==
    /\ q = k /\ k.dirty = {} /\ k.tiles = <<>> /\ k.messages = <<>>
    /\ k.typing = k.sentTyping

LEMMA WriteOneItemCases ==
    ASSUME NEW k \in Conn
    PROVE  LET q == WriteOneItem(k) IN
           /\ q \in Conn
           /\ \/ WritesFlag(k, q) \/ WritesMove(k, q) \/ WritesMessage(k, q)
              \/ WritesTyping(k, q) \/ WritesNothing(k, q)
           /\ q # k => Len(q.out) = Len(k.out) + 1
<1>. DEFINE q == WriteOneItem(k)
            flags == {i \in DOMAIN Flags : Flags[i] \in k.dirty}
<1>1. /\ DOMAIN Flags = 1..5
      /\ Flags[1] = "WS_HEADER" /\ Flags[2] = "HEADER" /\ Flags[3] = "KEEP_ALIVE"
      /\ Flags[4] = "N_TILES" /\ Flags[5] = "LEAVE"
  BY DEF Flags
<1>2. /\ k.out \in Seq(ToServer) /\ k.tiles \in Seq([num : Tile, place : Place])
      /\ k.messages \in Seq(Nat) /\ k.dirty \subseteq FlagSet
      /\ k.typing \in BOOLEAN /\ k.sentTyping \in BOOLEAN
      /\ k.person \in Nat /\ k.next \in Nat
  BY DEF Conn
<1>3. ASSUME NEW f \in ToServer
      PROVE  /\ Append(k.out, f) \in Seq(ToServer)
             /\ Len(Append(k.out, f)) = Len(k.out) + 1
  BY <1>2, <1>3, AppendProperties
<1>4. Len(k.out) \in Nat
  BY <1>2, LenProperties
<1>5. k.dirty = {} <=> flags = {}
  BY <1>1, <1>2 DEF FlagSet
<1>6. CASE flags # {}
  <2>. DEFINE i == Least(flags)
              flag == Flags[i]
              frame == FlagFrame(k, flag)
              rest == k.dirty \ {flag}
              more == Append(k.out, frame)
              r == [k EXCEPT !.out = more, !.dirty = rest]
  <2>1. q = r
    BY <1>6 DEF WriteOneItem
  <2>2. flags \in SUBSET Nat
    BY <1>1
  <2>3. i \in flags /\ \A j \in flags : i <= j
    <3>. HIDE DEF flags
    <3>. QED
      BY <1>6, <2>2, LeastOf
  <2>4. i \in 1..5 /\ flag \in k.dirty
    BY <1>1, <2>3
  <2>5. /\ flag # "WS_HEADER" => "WS_HEADER" \notin k.dirty
        /\ flag \notin {"WS_HEADER", "HEADER"} => "HEADER" \notin k.dirty
    <3>1. \A j \in 1..5 : Flags[j] \in k.dirty => i <= j
      BY <1>1, <2>3
    <3>. HIDE DEF i
    <3>. QED
      BY <1>1, <2>4, <3>1
  <2>. HIDE DEF flag
  <2>6. frame \in ToServer
    <3>1. CASE flag = "HEADER"
      BY <1>2, <3>1 DEF FlagFrame, Header, ToServer
    <3>2. CASE flag # "HEADER"
      <4>1. flag \in {"WS_HEADER", "KEEP_ALIVE", "N_TILES", "LEAVE"}
        BY <1>2, <2>4, <3>2 DEF FlagSet
      <4>. QED
        BY <3>2, <4>1 DEF FlagFrame, ToServer
    <3>. QED
      BY <3>1, <3>2
  <2>. HIDE DEF frame
  <2>7. more \in Seq(ToServer) /\ Len(more) = Len(k.out) + 1
    BY <1>3, <2>6
  <2>8. rest \in SUBSET FlagSet
    BY <1>2
  <2>. HIDE DEF more, rest
  <2>9. r \in Conn
    BY <2>7, <2>8 DEF Conn
  <2>10. Same(r, k, {"out", "dirty"}) /\ r.out = more /\ r.dirty = rest
    BY DEF Conn, Same, Fields
  <2>. HIDE DEF r, q
  <2>11. q.out = Append(k.out, FlagFrame(k, flag)) /\ q.dirty = k.dirty \ {flag}
    BY <2>1, <2>10 DEF more, rest, frame
  <2>12. WritesFlag(k, q)
    BY <2>1, <2>4, <2>5, <2>6, <2>10, <2>11 DEF WritesFlag, frame
  <2>. QED
    BY <2>1, <2>7, <2>9, <2>10, <2>12 DEF q
<1>7. CASE flags = {} /\ k.tiles # <<>>
  <2>. DEFINE move == Head(k.tiles)
              frame == [type |-> "MOVE_TILE", tile |-> move.num, place |-> move.place]
              rest == Tail(k.tiles)
              more == Append(k.out, frame)
              r == [k EXCEPT !.out = more, !.tiles = rest]
  <2>1. q = r
    BY <1>7 DEF WriteOneItem
  <2>2. /\ move \in [num : Tile, place : Place]
        /\ rest \in Seq([num : Tile, place : Place])
    BY <1>2, <1>7, HeadTailProperties
  <2>3. move.num \in Tile /\ move.place \in Place
    BY <2>2
  <2>4. frame \in ToServer
    BY <2>3 DEF ToServer
  <2>. HIDE DEF frame, rest
  <2>5. more \in Seq(ToServer) /\ Len(more) = Len(k.out) + 1
    BY <1>3, <2>4
  <2>. HIDE DEF more
  <2>6. r \in Conn
    BY <2>2, <2>5 DEF Conn
  <2>7. Same(r, k, {"out", "tiles"}) /\ r.out = more /\ r.tiles = rest
    BY DEF Conn, Same, Fields
  <2>. HIDE DEF r, q
  <2>8. q.tiles = Tail(k.tiles)
        /\ q.out = Append(k.out, [type |-> "MOVE_TILE", tile |-> Head(k.tiles).num,
                              place |-> Head(k.tiles).place])
    BY <2>1, <2>7 DEF more, rest, frame
  <2>9. WritesMove(k, q)
    BY <1>5, <1>7, <2>1, <2>3, <2>7, <2>8 DEF WritesMove
  <2>. QED
    BY <2>1, <2>5, <2>6, <2>7, <2>9 DEF q
<1>8. CASE flags = {} /\ k.tiles = <<>> /\ k.messages # <<>>
  <2>. DEFINE frame == [type |-> "SEND_MESSAGE", n |-> Head(k.messages)]
              rest == Tail(k.messages)
              more == Append(k.out, frame)
              r == [k EXCEPT !.out = more, !.messages = rest, !.sentTyping = FALSE]
  <2>1. q = r
    BY <1>8 DEF WriteOneItem
  <2>2. Head(k.messages) \in Nat /\ rest \in Seq(Nat)
    BY <1>2, <1>8, HeadTailProperties
  <2>3. frame \in ToServer
    BY <2>2 DEF ToServer
  <2>. HIDE DEF frame, rest
  <2>4. more \in Seq(ToServer) /\ Len(more) = Len(k.out) + 1
    BY <1>3, <2>3
  <2>. HIDE DEF more
  <2>5. r \in Conn
    BY <2>2, <2>4 DEF Conn
  <2>6. Same(r, k, {"out", "messages", "sentTyping"}) /\ r.out = more
        /\ r.messages = rest /\ r.sentTyping = FALSE
    BY DEF Conn, Same, Fields
  <2>. HIDE DEF r, q
  <2>7. q.messages = Tail(k.messages)
        /\ q.out = Append(k.out, [type |-> "SEND_MESSAGE", n |-> Head(k.messages)])
    BY <2>1, <2>6 DEF more, rest, frame
  <2>8. WritesMessage(k, q)
    BY <1>5, <1>8, <2>1, <2>2, <2>6, <2>7 DEF WritesMessage
  <2>. QED
    BY <2>1, <2>4, <2>5, <2>6, <2>8 DEF q
<1>9. CASE /\ flags = {} /\ k.tiles = <<>> /\ k.messages = <<>>
           /\ k.typing # k.sentTyping
  <2>. DEFINE frame == [type |-> "TYPING", on |-> k.typing]
              more == Append(k.out, frame)
              r == [k EXCEPT !.out = more, !.sentTyping = k.typing]
  <2>1. q = r
    BY <1>9 DEF WriteOneItem
  <2>2. frame \in ToServer
    BY <1>2 DEF ToServer
  <2>. HIDE DEF frame
  <2>3. more \in Seq(ToServer) /\ Len(more) = Len(k.out) + 1
    BY <1>3, <2>2
  <2>. HIDE DEF more
  <2>4. r \in Conn
    BY <1>2, <2>3 DEF Conn
  <2>5. Same(r, k, {"out", "sentTyping"}) /\ r.out = more /\ r.sentTyping = k.typing
    BY DEF Conn, Same, Fields
  <2>. HIDE DEF r, q
  <2>6. q.out = Append(k.out, [type |-> "TYPING", on |-> k.typing])
    BY <2>1, <2>5 DEF more, frame
  <2>7. WritesTyping(k, q)
    BY <1>5, <1>9, <2>1, <2>5, <2>6 DEF WritesTyping
  <2>. QED
    BY <2>1, <2>3, <2>4, <2>5, <2>7 DEF q
<1>10. CASE /\ flags = {} /\ k.tiles = <<>> /\ k.messages = <<>>
            /\ k.typing = k.sentTyping
  <2>1. q = k
    BY <1>10 DEF WriteOneItem
  <2>2. WritesNothing(k, q)
    BY <1>5, <1>10, <2>1 DEF WritesNothing
  <2>. QED
    BY <2>1, <2>2
<1>. QED
  BY <1>6, <1>7, <1>8, <1>9, <1>10

\* The loop of fill_output_buffer: what each turn of it keeps holds at its end.
LEMMA FillInduction ==
    ASSUME NEW k, NEW S, k \in S,
           \A q \in S : Len(q.out) < OutCap => WriteOneItem(q) \in S
    PROVE  FillOutputBuffer(k) \in S
<1>. DEFINE Step(q) == IF Len(q.out) < OutCap THEN WriteOneItem(q) ELSE q
            Upto(n, f) == f = [i \in 0..n |-> IF i = 0 THEN k ELSE Step(f[i - 1])]
            Turns == {n \in Nat : \E f : Upto(n, f)}
            Filled == CHOOSE f : Upto(OutCap, f)
<1>1. 0 \in Turns
  <2>. DEFINE f == [i \in 0..0 |-> k]
  <2>. HIDE DEF Step
  <2>1. Upto(0, f)
    BY Z3
  <2>. QED
    BY <2>1
<1>2. ASSUME NEW n \in Turns PROVE n + 1 \in Turns
  <2>. HIDE DEF Step
  <2>1. PICK f : Upto(n, f)
    OBVIOUS
  <2>. DEFINE g == [i \in 0..n + 1 |-> IF i <= n THEN f[i] ELSE Step(f[n])]
  <2>2. \A i \in 0..n + 1 : g[i] = IF i = 0 THEN k ELSE Step(g[i - 1])
    BY <2>1
  <2>3. Upto(n + 1, g)
    BY <2>2
  <2>. HIDE DEF Upto, g
  <2>. QED
    BY <2>3
<1>3. Turns = Nat
  <2>1. Turns \in SUBSET Nat
    OBVIOUS
  <2>. HIDE DEF Turns
  <2>. QED
    BY <1>1, <1>2, <2>1, SetInduction
<1>4. OutCap \in Nat
  BY ClientAssumption
<1>5. \E f : Upto(OutCap, f)
  BY <1>3, <1>4
<1>6. Upto(OutCap, Filled)
  BY <1>5
<1>7. FillOutputBuffer(k) = Filled[OutCap]
  BY DEF FillOutputBuffer
<1>. DEFINE Good == {n \in Nat : n <= OutCap => Filled[n] \in S}
<1>. HIDE DEF Filled
<1>8. /\ Filled[0] = k
      /\ \A i \in Nat : i + 1 <= OutCap => Filled[i + 1] = Step(Filled[i])
  <2>. HIDE DEF Step
  <2>. QED
    BY <1>4, <1>6
<1>9. 0 \in Good
  BY <1>8
<1>10. ASSUME NEW n \in Good PROVE n + 1 \in Good
  BY <1>4, <1>8
<1>11. Good = Nat
  <2>1. Good \in SUBSET Nat
    OBVIOUS
  <2>. HIDE DEF Good
  <2>. QED
    BY <1>9, <1>10, <2>1, SetInduction
<1>. QED
  BY <1>4, <1>7, <1>11

\* The loop of process_frames, with the number of frames that have been taken.
LEMMA ReadInduction ==
    ASSUME NEW k, NEW shown, NEW frames, Len(frames) \in Nat, NEW S,
           <<0, k, shown>> \in S,
           \A i \in Nat : \A q, s :
             i < Len(frames) /\ <<i, q, s>> \in S
               => <<i + 1, Processed(q, frames[i + 1]), Shown(s, frames[i + 1])>> \in S
    PROVE  <<Len(frames), ProcessFrames(k, shown, frames).conn,
             ProcessFrames(k, shown, frames).shown>> \in S
<1>. DEFINE n == Len(frames)
            first == [conn |-> k, shown |-> shown]
            Step(a, i) == [conn |-> Processed(a.conn, frames[i]),
                           shown |-> Shown(a.shown, frames[i])]
            Upto(m, f) == f = [i \in 0..m |-> IF i = 0 THEN first
                                              ELSE Step(f[i - 1], i)]
            Turns == {m \in Nat : \E f : Upto(m, f)}
            After == CHOOSE f : Upto(n, f)
<1>1. 0 \in Turns
  <2>. DEFINE f == [i \in 0..0 |-> first]
  <2>. HIDE DEF Step, first
  <2>1. Upto(0, f)
    BY Z3
  <2>. QED
    BY <2>1
<1>2. ASSUME NEW m \in Turns PROVE m + 1 \in Turns
  <2>. HIDE DEF Step, first
  <2>1. PICK f : Upto(m, f)
    OBVIOUS
  <2>. DEFINE g == [i \in 0..m + 1 |-> IF i <= m THEN f[i] ELSE Step(f[m], m + 1)]
  <2>2. \A i \in 0..m + 1 : g[i] = IF i = 0 THEN first ELSE Step(g[i - 1], i)
    BY <2>1
  <2>3. Upto(m + 1, g)
    BY <2>2
  <2>. HIDE DEF Upto, g
  <2>. QED
    BY <2>3
<1>3. Turns = Nat
  <2>1. Turns \in SUBSET Nat
    OBVIOUS
  <2>. HIDE DEF Turns
  <2>. QED
    BY <1>1, <1>2, <2>1, SetInduction
<1>4. \E f : Upto(n, f)
  BY <1>3
<1>5. Upto(n, After)
  BY <1>4
<1>6. ProcessFrames(k, shown, frames) = After[n]
  BY DEF ProcessFrames
<1>. DEFINE Good == {i \in Nat : i <= n => <<i, After[i].conn, After[i].shown>> \in S}
<1>. HIDE DEF After
<1>7. /\ After[0] = first
      /\ \A i \in Nat : i + 1 <= n => After[i + 1] = Step(After[i], i + 1)
  <2>. HIDE DEF Step, first, n
  <2>. QED
    BY <1>5 DEF n
<1>8. 0 \in Good
  BY <1>7
<1>9. ASSUME NEW i \in Good PROVE i + 1 \in Good
  <2>1. SUFFICES ASSUME i + 1 <= n
                 PROVE <<i + 1, After[i + 1].conn, After[i + 1].shown>> \in S
    OBVIOUS
  <2>2. i \in Nat /\ i < n /\ <<i, After[i].conn, After[i].shown>> \in S
    BY <2>1
  <2>3. <<i + 1, Processed(After[i].conn, frames[i + 1]),
          Shown(After[i].shown, frames[i + 1])>> \in S
    BY <2>2
  <2>4. After[i + 1].conn = Processed(After[i].conn, frames[i + 1])
        /\ After[i + 1].shown = Shown(After[i].shown, frames[i + 1])
    <3>1. After[i + 1] = Step(After[i], i + 1)
      <4>. HIDE DEF Step, first
      <4>. QED
        BY <1>7, <2>1, <2>2
    <3>. QED
      BY <3>1
  <2>. QED
    BY <2>3, <2>4
<1>10. Good = Nat
  <2>1. Good \in SUBSET Nat
    OBVIOUS
  <2>. HIDE DEF Good
  <2>. QED
    BY <1>8, <1>9, <2>1, SetInduction
<1>. QED
  BY <1>6, <1>10

LEMMA WrittenFields ==
    ASSUME NEW k \in Conn, NEW n \in 0..Len(k.out)
    PROVE  LET q == Written(k, n) IN
           /\ q \in Conn
           /\ Same(q, k, {"out", "keepAliveIn", "writeFinished", "poll"})
           /\ q.out = SubSeq(k.out, n + 1, Len(k.out))
           /\ Len(q.out) = Len(k.out) - n
           /\ q.keepAliveIn = KeepAliveTime
           /\ q.writeFinished =
                (k.writeFinished \/ ShutsDown([k EXCEPT
                   !.out = SubSeq(k.out, n + 1, Len(k.out)),
                   !.keepAliveIn = KeepAliveTime]))
           /\ Machine(k) /\ k.sock /\ ~k.writeFinished => Machine(q)
           /\ \A nt : Polling(q, nt)
<1>. DEFINE rest == SubSeq(k.out, n + 1, Len(k.out))
            r == [k EXCEPT !.out = rest, !.keepAliveIn = KeepAliveTime]
            q == Written(k, n)
<1>1. q = UpdatePoll(r)
  BY DEF Written
<1>2. k.out \in Seq(ToServer) /\ Len(k.out) \in Nat
  BY LenProperties DEF Conn
<1>3. rest \in Seq(ToServer) /\ Len(rest) = Len(k.out) - n
  <2>1. \A i \in n + 1..Len(k.out) : k.out[i] \in ToServer
    BY <1>2, ElementOfSeq
  <2>. DEFINE m == n + 1  l == Len(k.out)  o == k.out
  <2>2. m \in Int /\ l \in Int /\ (m <= l \/ m = l + 1)
    BY <1>2
  <2>. HIDE DEF m, l, o
  <2>3. /\ SubSeq(o, m, l) \in Seq(ToServer)
        /\ Len(SubSeq(o, m, l)) = IF m <= l THEN l - m + 1 ELSE 0
    BY <2>1, <2>2, SubSeqProperties DEF m, l, o
  <2>. QED
    BY <1>2, <2>3 DEF m, l, o
<1>. HIDE DEF rest
<1>4. r \in Conn
  BY <1>3, TimesInRange DEF Conn
<1>5. Same(r, k, {"out", "keepAliveIn"}) /\ r.out = rest
      /\ r.keepAliveIn = KeepAliveTime
  BY DEF Conn, Same, Fields
<1>. HIDE DEF r, q
<1>6. /\ q \in Conn /\ Same(q, r, {"writeFinished", "poll"})
      /\ q.writeFinished = (r.writeFinished \/ ShutsDown(r))
      /\ \A nt : Polling(q, nt)
  BY <1>1, <1>4, UpdatePollFields, UpdatePollPublishes
<1>7. Same(q, k, {"out", "keepAliveIn", "writeFinished", "poll"})
      /\ q.out = rest /\ q.keepAliveIn = KeepAliveTime
      /\ r.writeFinished = k.writeFinished
  BY <1>5, <1>6 DEF Same, Fields
<1>8. ASSUME Machine(k), k.sock, ~k.writeFinished PROVE Machine(q)
  <2>1. /\ r.sock /\ ~r.writeFinished /\ r.state = k.state
        /\ r.reconnectIn = k.reconnectIn /\ HasConfiguration(r) = HasConfiguration(k)
    BY <1>5, <1>8 DEF Same, Fields, HasConfiguration
  <2>2. Machine(r)
    BY <1>8, <2>1 DEF Machine
  <2>. QED
    BY <1>1, <1>4, <2>2, UpdatePollPublishes
<1>. QED
  BY <1>3, <1>6, <1>7, <1>8 DEF q, r, rest

LEMMA ProcessedFields ==
    ASSUME NEW k \in Conn, NEW f \in ToClient, f.type \notin {"EOF", "BAD"}
    PROVE  LET q == Processed(k, f) IN
           /\ q \in Conn
           /\ Same(q, k, {"upgraded", "person", "playerAge", "next", "synced",
                          "finished"})
           /\ IF f.type = "PLAYER_ID"
                THEN q.person = f.person /\ q.person # NoPerson /\ q.playerAge = 0
                ELSE q.person = k.person /\ q.playerAge = k.playerAge
           /\ q.next = IF f.type = "MESSAGE" THEN k.next + 1 ELSE k.next
           /\ q.finished = (k.finished \/ f.type \in {"END", "BAD_PLAYER_ID"})
<1>1. f.type \in {"UPGRADED", "SYNC", "END", "BAD_PLAYER_ID", "PLAYER_ID", "MESSAGE"}
  BY DEF ToClient
<1>2. CASE f.type = "UPGRADED"
  <2>1. Processed(k, f) = [k EXCEPT !.upgraded = TRUE]
    BY <1>2 DEF Processed
  <2>. QED
    BY <1>2, <2>1 DEF Conn, Same, Fields
<1>3. CASE f.type = "SYNC"
  <2>1. Processed(k, f) = [k EXCEPT !.synced = TRUE]
    BY <1>3 DEF Processed
  <2>. QED
    BY <1>3, <2>1 DEF Conn, Same, Fields
<1>4. CASE f.type \in {"END", "BAD_PLAYER_ID"}
  <2>1. Processed(k, f) = [k EXCEPT !.finished = TRUE]
    BY <1>4 DEF Processed
  <2>. QED
    BY <1>4, <2>1 DEF Conn, Same, Fields
<1>5. CASE f.type = "PLAYER_ID"
  <2>1. Processed(k, f) = [k EXCEPT !.person = f.person, !.playerAge = 0]
    BY <1>5 DEF Processed
  <2>2. f.person \in Nat \ {NoPerson}
    BY <1>5 DEF ToClient
  <2>. QED
    BY <1>5, <2>1, <2>2, TimesInRange DEF Conn, Same, Fields
<1>6. CASE f.type = "MESSAGE"
  <2>1. Processed(k, f) = [k EXCEPT !.next = k.next + 1]
    BY <1>6 DEF Processed
  <2>2. k.next + 1 \in Nat
    BY DEF Conn
  <2>. QED
    BY <1>6, <2>1, <2>2 DEF Conn, Same, Fields
<1>. QED
  BY <1>1, <1>2, <1>3, <1>4, <1>5, <1>6

-----------------------------------------------------------------------------
(* What the loops do to the client.                                        *)

\* Filling the buffer changes only the buffer and what waits for it, and nothing
\* at all if nothing waits.
LEMMA FillFields ==
    ASSUME NEW k \in Conn, Len(k.out) <= OutCap
    PROVE  LET q == FillOutputBuffer(k) IN
           /\ q \in Conn /\ Len(q.out) <= OutCap /\ q.dirty \subseteq k.dirty
           /\ Same(q, k, {"out", "dirty", "tiles", "messages", "sentTyping"})
           /\ ~HasPendingData(k) => q = k
<1>. DEFINE S == {q \in Conn :
              /\ Len(q.out) <= OutCap /\ q.dirty \subseteq k.dirty
              /\ Same(q, k, {"out", "dirty", "tiles", "messages", "sentTyping"})}
<1>1. k \in S
  BY DEF Same
<1>2. ASSUME NEW q \in S, Len(q.out) < OutCap PROVE WriteOneItem(q) \in S
  <2>. DEFINE r == WriteOneItem(q)
  <2>1. /\ r \in Conn
        /\ \/ WritesFlag(q, r) \/ WritesMove(q, r) \/ WritesMessage(q, r)
           \/ WritesTyping(q, r) \/ WritesNothing(q, r)
        /\ r # q => Len(r.out) = Len(q.out) + 1
    BY WriteOneItemCases
  <2>. HIDE DEF r
  <2>2. Same(r, q, {"out", "dirty", "tiles", "messages", "sentTyping"})
        /\ r.dirty \subseteq q.dirty
    BY <2>1 DEF WritesFlag, WritesMove, WritesMessage, WritesTyping, WritesNothing,
                Same, Fields
  <2>3. Same(r, k, {"out", "dirty", "tiles", "messages", "sentTyping"})
    BY <2>2 DEF Same
  <2>4. Len(q.out) \in Nat
    BY LenProperties DEF Conn
  <2>5. Len(r.out) <= OutCap
    BY <1>2, <2>1, <2>4, ClientAssumption
  <2>. QED
    BY <2>1, <2>2, <2>3, <2>5 DEF r
<1>3. FillOutputBuffer(k) \in S
  <2>. HIDE DEF S
  <2>. QED
    BY <1>1, <1>2, FillInduction
<1>4. ASSUME ~HasPendingData(k) PROVE FillOutputBuffer(k) = k
  <2>. DEFINE T == {k}
  <2>1. WriteOneItem(k) = k
    <3>1. \/ WritesFlag(k, WriteOneItem(k)) \/ WritesMove(k, WriteOneItem(k))
          \/ WritesMessage(k, WriteOneItem(k)) \/ WritesTyping(k, WriteOneItem(k))
          \/ WritesNothing(k, WriteOneItem(k))
      BY WriteOneItemCases
    <3>. QED
      BY <1>4, <3>1 DEF HasPendingData, WritesFlag, WritesMove, WritesMessage,
                        WritesTyping, WritesNothing
  <2>2. k \in T /\ \A q \in T : Len(q.out) < OutCap => WriteOneItem(q) \in T
    BY <2>1
  <2>. HIDE DEF T
  <2>3. FillOutputBuffer(k) \in T
    BY <2>2, FillInduction
  <2>. QED
    BY <2>3 DEF T
<1>. QED
  BY <1>3, <1>4

\* The frames that are read.
LEMMA FirstFrames ==
    ASSUME NEW s \in Seq(ToClient), NEW n \in 1..Len(s)
    PROVE  LET frames == SubSeq(s, 1, n)
               rest == SubSeq(s, n + 1, Len(s))
           IN /\ Len(frames) = n /\ \A i \in 1..n : frames[i] = s[i] /\ s[i] \in ToClient
              /\ rest \in Seq(ToClient) /\ Len(rest) = Len(s) - n
              /\ \A i \in 1..Len(s) - n : rest[i] = s[i + n]
<1>. DEFINE l == Len(s)  m == n + 1
<1>1. l \in Nat /\ \A i \in 1..l : s[i] \in ToClient
  BY LenProperties, ElementOfSeq
<1>2. n \in Int /\ 1 <= n /\ n <= l /\ m \in Int /\ (m <= l \/ n = l) /\ m = n + 1
  BY <1>1
<1>. HIDE DEF l, m
<1>3. /\ Len(SubSeq(s, 1, n)) = IF 1 <= n THEN n - 1 + 1 ELSE 0
      /\ \A i \in 1..n - 1 + 1 : SubSeq(s, 1, n)[i] = s[1 + i - 1]
  BY <1>1, <1>2, SubSeqProperties
<1>4. /\ SubSeq(s, m, l) \in Seq(ToClient)
      /\ Len(SubSeq(s, m, l)) = IF m <= l THEN l - m + 1 ELSE 0
      /\ \A i \in 1..l - m + 1 : SubSeq(s, m, l)[i] = s[m + i - 1]
  BY <1>1, <1>2, SubSeqProperties
<1>5. \A i \in 1..n : SubSeq(s, 1, n)[i] = s[i]
  BY <1>2, <1>3
<1>6. Len(SubSeq(s, m, l)) = l - n
  BY <1>1, <1>2, <1>4
<1>7. \A i \in 1..l - n : SubSeq(s, m, l)[i] = s[i + n]
  BY <1>1, <1>2, <1>4
<1>. QED
  BY <1>1, <1>2, <1>3, <1>4, <1>5, <1>6, <1>7 DEF l, m

LEMMA ReadFields ==
    ASSUME NEW k \in Conn, NEW shown \in Seq(Nat), NEW frames, Len(frames) \in Nat,
           \A i \in 1..Len(frames) : /\ frames[i] \in ToClient
                                     /\ frames[i].type \notin {"EOF", "BAD"}
    PROVE  LET q == ProcessFrames(k, shown, frames).conn IN
           /\ q \in Conn /\ ProcessFrames(k, shown, frames).shown \in Seq(Nat)
           /\ Same(q, k, {"upgraded", "person", "playerAge", "next", "synced",
                          "finished"})
           /\ q.person = k.person \/ q.person # NoPerson
           /\ q.playerAge = k.playerAge \/ q.playerAge = 0
           /\ k.finished => q.finished
<1>. DEFINE S == {a \in Nat \X Conn \X Seq(Nat) :
              LET q == a[2] IN
              /\ Same(q, k, {"upgraded", "person", "playerAge", "next", "synced",
                          "finished"})
              /\ q.person = k.person \/ q.person # NoPerson
              /\ q.playerAge = k.playerAge \/ q.playerAge = 0
              /\ k.finished => q.finished}
<1>1. <<0, k, shown>> \in S
  BY DEF Same
<1>2. ASSUME NEW i \in Nat, NEW q, NEW s, i < Len(frames), <<i, q, s>> \in S
      PROVE  <<i + 1, Processed(q, frames[i + 1]), Shown(s, frames[i + 1])>> \in S
  <2>. DEFINE f == frames[i + 1]
              r == Processed(q, f)
              t == Shown(s, f)
  <2>1. /\ q \in Conn /\ s \in Seq(Nat)
        /\ Same(q, k, {"upgraded", "person", "playerAge", "next", "synced",
                       "finished"})
        /\ q.person = k.person \/ q.person # NoPerson
        /\ q.playerAge = k.playerAge \/ q.playerAge = 0
        /\ k.finished => q.finished
    BY <1>2
  <2>2. f \in ToClient /\ f.type \notin {"EOF", "BAD"}
    BY <1>2
  <2>. HIDE DEF f
  <2>3. /\ r \in Conn
        /\ Same(r, q, {"upgraded", "person", "playerAge", "next", "synced",
                       "finished"})
        /\ IF f.type = "PLAYER_ID"
             THEN r.person = f.person /\ r.person # NoPerson /\ r.playerAge = 0
             ELSE r.person = q.person /\ r.playerAge = q.playerAge
        /\ r.finished = (q.finished \/ f.type \in {"END", "BAD_PLAYER_ID"})
    BY <2>1, <2>2, ProcessedFields
  <2>4. t \in Seq(Nat)
    <3>1. f.type = "MESSAGE" => f.n \in Nat
      BY <2>2 DEF ToClient
    <3>. QED
      BY <2>1, <3>1, AppendProperties DEF Shown
  <2>. HIDE DEF r, t
  <2>5. Same(r, k, {"upgraded", "person", "playerAge", "next", "synced", "finished"})
    BY <2>1, <2>3 DEF Same
  <2>6. /\ r.person = k.person \/ r.person # NoPerson
        /\ r.playerAge = k.playerAge \/ r.playerAge = 0
        /\ k.finished => r.finished
    BY <2>1, <2>3
  <2>7. <<i + 1, r, t>> \in S
    BY <2>3, <2>4, <2>5, <2>6
  <2>. QED
    BY <2>7 DEF f, r, t
<1>3. <<Len(frames), ProcessFrames(k, shown, frames).conn,
        ProcessFrames(k, shown, frames).shown>> \in S
  <2>. HIDE DEF S
  <2>. QED
    BY <1>1, <1>2, ReadInduction
<1>. QED
  BY <1>3

-----------------------------------------------------------------------------
(* The core of the invariant, step by step.                                *)

LEMMA NothingIsTyped ==
    /\ NoNet \in Net /\ Len(NoNet.toServer) = 0 /\ Len(NoNet.toClient) = 0
    /\ NoLink \in Link /\ NoHist \in Hist
<1>. DEFINE none == <<>>
<1>1. none \in Seq(ToServer) /\ none \in Seq(ToClient) /\ none \in Seq(Nat)
      /\ Len(none) = 0
  BY EmptySeq
<1>. HIDE DEF none
<1>2. [st |-> "NONE", toServer |-> none, toClient |-> none] \in Net
  BY <1>1 DEF Net
<1>3. NoNet = [st |-> "NONE", toServer |-> none, toClient |-> none]
  BY DEF NoNet, none
<1>4. NoLink \in Link
  BY DEF NoLink, Link
<1>5. [t \in Tile |-> Nowhere] \in Places
  BY DEF Places
<1>. DEFINE places == [t \in Tile |-> Nowhere]
<1>. HIDE DEF places
<1>6. [shown |-> none, before |-> 0, said |-> 0, moved |-> places,
       lost |-> FALSE, tries |-> 0, wanted |-> FALSE, putOff |-> FALSE] \in Hist
  BY <1>1, <1>5 DEF Hist, places
<1>7. NoHist \in Hist
  BY <1>6 DEF NoHist, none, places
<1>8. NoNet \in Net
  BY <1>2, <1>3
<1>. QED
  BY <1>1, <1>3, <1>4, <1>7, <1>8

\* The end of a connection.
LEMMA EndedFields ==
    ASSUME NEW st \in {"NONE", "BROKEN"}, NEW out, hist \in Hist, Ended(st, out)
    PROVE  /\ net' \in Net /\ net'.st = st
           /\ net'.toServer = <<>> /\ net'.toClient = <<>>
           /\ Len(net'.toServer) = 0 /\ Len(net'.toClient) = 0
           /\ link' = NoLink /\ link' \in Link /\ hist' \in Hist
           /\ hist'.tries = hist.tries /\ hist'.shown = hist.shown
           /\ hist'.before = hist.before /\ hist'.said = hist.said
           /\ hist'.moved = hist.moved /\ hist'.putOff = hist.putOff
           /\ hist'.lost = (\/ hist.lost \/ net.toServer # <<>> \/ out # <<>>
                            \/ c.person = NoPerson)
<1>. DEFINE lost == (\/ hist.lost \/ net.toServer # <<>> \/ out # <<>>
                     \/ c.person = NoPerson)
<1>1. /\ net' = [NoNet EXCEPT !.st = st] /\ link' = NoLink
      /\ hist' = [hist EXCEPT !.lost = lost]
  BY DEF Ended
<1>2. lost \in BOOLEAN
  BY DEF Hist
<1>. HIDE DEF lost
<1>3. /\ hist' \in Hist /\ hist'.lost = lost
      /\ hist'.tries = hist.tries /\ hist'.shown = hist.shown
      /\ hist'.before = hist.before /\ hist'.said = hist.said
      /\ hist'.moved = hist.moved /\ hist'.putOff = hist.putOff
  BY <1>1, <1>2 DEF Hist
<1>4. NoNet \in Net /\ Len(NoNet.toServer) = 0 /\ Len(NoNet.toClient) = 0
      /\ NoLink \in Link
  BY NothingIsTyped
<1>5. NoNet.toServer = <<>> /\ NoNet.toClient = <<>>
  BY DEF NoNet
<1>6. /\ net' \in Net /\ net'.st = st
      /\ net'.toServer = NoNet.toServer /\ net'.toClient = NoNet.toClient
  BY <1>1, <1>4 DEF Net
<1>. QED
  BY <1>1, <1>3, <1>4, <1>5, <1>6 DEF lost

\* The connection fails, whatever the client had written and noticed.
LEMMA FailureKeeps ==
    ASSUME Core(c, net, link, hist), c.sock,
           NEW k \in Conn, Len(k.out) <= OutCap, k.dirty \subseteq Woken.dirty,
           Same(k, Woken, {"out", "dirty", "tiles", "messages", "sentTyping"}),
           c' = ReportError(k), Dropped(k.out)
    PROVE  Core(c', net', link', hist')
<1>1. /\ c \in Conn /\ Machine(c) /\ Backing(c, hist) /\ hist \in Hist
      /\ c.reconnectIn = Never /\ c.state \in {"RECONNECTING", "RUNNING"}
      /\ HasConfiguration(c)
  BY DEF Core, Machine
<1>2. /\ Same(Woken, c, {"state", "keepAliveIn", "dirty"})
      /\ Woken.state \in {"RUNNING", c.state}
  BY <1>1, WokenFields
<1>3. /\ k.sock = c.sock /\ k.playerAge = c.playerAge /\ k.timeout = c.timeout
      /\ k.address = c.address /\ k.person = c.person /\ k.name = c.name
      /\ k.state \in {"RECONNECTING", "RUNNING"}
  BY <1>1, <1>2 DEF Same, Fields
<1>4. /\ c' \in Conn
      /\ Same(c', k, {"sock", "keepAliveIn", "timeout", "reconnectIn",
                      "writeFinished", "poll"})
      /\ c'.sock = FALSE
      /\ c'.keepAliveIn = IF k.sock THEN Never ELSE k.keepAliveIn
      /\ c'.reconnectIn = IF Stable(k) THEN 0 ELSE k.timeout
      /\ c'.timeout >= 1
      /\ \A nt : Polling(c', nt)
  BY ReportErrorFields
<1>5. /\ c'.address = c.address /\ c'.person = c.person /\ c'.name = c.name
      /\ c'.state \in {"RECONNECTING", "RUNNING"} /\ c'.out = k.out
      /\ c'.playerAge = c.playerAge /\ c'.keepAliveIn = Never
  BY <1>3, <1>4 DEF Same, Fields
<1>6. Machine(c')
  <2>1. HasConfiguration(c')
    BY <1>1, <1>5 DEF HasConfiguration
  <2>. QED
    BY <1>4, <1>5, <2>1 DEF Machine
<1>7. /\ net' \in Net /\ net'.st = "NONE"
      /\ net'.toServer = <<>> /\ net'.toClient = <<>>
      /\ Len(net'.toServer) = 0 /\ Len(net'.toClient) = 0
      /\ link' = NoLink /\ link' \in Link /\ hist' \in Hist
      /\ hist'.tries = hist.tries
  BY <1>1, EndedFields DEF Dropped
<1>8. Wired(c', net', link')
  BY <1>4, <1>7 DEF Wired
<1>9. Backing(c', hist')
  <2>1. /\ hist.tries \in Nat /\ c.timeout \in Int /\ c'.timeout \in Int
        /\ c.playerAge \in Int /\ StableTime \in Nat
    BY <1>1, <1>4, ClientAssumption DEF Hist, Conn, Never
  <2>2. hist.tries >= 1 => ~Stable(k)
    BY <1>1, <1>3, <2>1 DEF Backing, Stable
  <2>. QED
    BY <1>1, <1>3, <1>4, <1>5, <1>7, <2>1, <2>2 DEF Backing
<1>10. 0 <= WireCap
  BY ClientAssumption
<1>. QED
  BY <1>4, <1>5, <1>6, <1>7, <1>8, <1>9, <1>10 DEF Core

LEMMA TryReconnectKeeps ==
    ASSUME Core(c, net, link, hist), TryReconnect
    PROVE  Core(c', net', link', hist')
<1>1. /\ c \in Conn /\ Machine(c) /\ Backing(c, hist) /\ hist \in Hist
      /\ Wired(c, net, link) /\ net \in Net /\ link \in Link
      /\ ~c.sock /\ c.reconnectIn = 0 /\ c.keepAliveIn = Never
      /\ HasConfiguration(c) /\ c.state # "WAITING_FOR_CONFIGURATION"
  BY DEF Core, Machine, TryReconnect, Never
<1>2. net.st = "NONE" /\ net.toServer = <<>> /\ net.toClient = <<>> /\ link = NoLink
  BY <1>1 DEF Wired, Net
<1>3. /\ link' = link /\ hist' \in Hist /\ hist'.tries = hist.tries + 1
      /\ hist.tries \in Nat
  <2>1. hist.tries \in Nat /\ hist.tries + 1 \in Nat
    BY <1>1 DEF Hist
  <2>2. hist' = [hist EXCEPT !.tries = hist.tries + 1, !.putOff = FALSE]
        /\ link' = link
    BY DEF TryReconnect
  <2>. QED
    BY <1>1, <2>1, <2>2 DEF Hist
<1>4. /\ c.timeout \in Int /\ c.playerAge \in Int /\ StableTime \in Nat
      /\ StableTime > 0 /\ Never = -1 /\ 0 <= WireCap /\ 0 <= OutCap
  BY <1>1, ClientAssumption DEF Conn, Never
<1>5. /\ NoNet \in Net /\ Len(NoNet.toServer) = 0 /\ Len(NoNet.toClient) = 0
      /\ NoNet.toServer = <<>> /\ NoNet.toClient = <<>>
  BY NothingIsTyped DEF NoNet
<1>6. hist.tries <= 1
  BY <1>1, <1>3 DEF Backing
<1>7. CASE c' = Reconnected(c, "RECONNECTING") /\ net' = [NoNet EXCEPT !.st = "CONNECTING"]
  <2>1. /\ c' \in Conn
        /\ Same(c', c, {"sock", "reconnectIn", "playerAge", "state", "dirty",
                    "out", "upgraded", "writeFinished", "synced", "poll", "keepAliveIn"})
        /\ c'.sock /\ c'.state = "RECONNECTING" /\ c'.out = <<>>
        /\ c'.dirty = c.dirty \cup {"WS_HEADER", "HEADER"}
        /\ c'.reconnectIn = Never /\ c'.playerAge = Never
        /\ c'.keepAliveIn = Never /\ ~c'.writeFinished
        /\ \A nt : Polling(c', nt)
    BY <1>1, <1>7, ReconnectedFields
  <2>2. /\ c'.address = c.address /\ c'.person = c.person /\ c'.name = c.name
        /\ c'.timeout = c.timeout
    BY <2>1 DEF Same, Fields
  <2>3. /\ net' \in Net /\ net'.st = "CONNECTING"
        /\ net'.toServer = <<>> /\ net'.toClient = <<>>
        /\ Len(net'.toServer) = 0 /\ Len(net'.toClient) = 0
    BY <1>5, <1>7 DEF Net
  <2>4. Machine(c')
    BY <1>1, <2>1, <2>2 DEF Machine, HasConfiguration
  <2>5. Wired(c', net', link')
    BY <1>2, <1>3, <2>1, <2>3 DEF Wired
  <2>6. Backing(c', hist')
    BY <1>1, <1>3, <1>4, <1>6, <2>1, <2>2 DEF Backing
  <2>7. Len(c'.out) = 0
    BY <2>1, EmptySeq
  <2>. QED
    BY <1>1, <1>3, <1>4, <2>1, <2>3, <2>4, <2>5, <2>6, <2>7 DEF Core
<1>8. CASE c' = ReportError(Reconnecting(c)) /\ net' = net
  <2>. DEFINE k == Reconnecting(c)
  <2>1. /\ k \in Conn
        /\ Same(k, c, {"sock", "keepAliveIn", "reconnectIn", "playerAge"})
        /\ k.sock = FALSE
        /\ k.keepAliveIn = IF c.sock THEN Never ELSE c.keepAliveIn
        /\ k.reconnectIn = Never /\ k.playerAge = Never
    BY <1>1, ReconnectingFields
  <2>. HIDE DEF k
  <2>2. /\ c' \in Conn
        /\ Same(c', k, {"sock", "keepAliveIn", "timeout", "reconnectIn",
                        "writeFinished", "poll"})
        /\ c'.sock = FALSE
        /\ c'.keepAliveIn = IF k.sock THEN Never ELSE k.keepAliveIn
        /\ c'.reconnectIn = IF Stable(k) THEN 0 ELSE k.timeout
        /\ c'.timeout >= 1
        /\ \A nt : Polling(c', nt)
    BY <1>8, <2>1, ReportErrorFields DEF k
  <2>3. /\ c'.address = c.address /\ c'.person = c.person /\ c'.name = c.name
        /\ c'.state = c.state /\ c'.out = c.out /\ c'.playerAge = Never
        /\ c'.keepAliveIn = Never /\ k.timeout = c.timeout
    BY <1>1, <2>1, <2>2 DEF Same, Fields
  <2>4. c'.reconnectIn = c.timeout
    BY <2>1, <2>2, <2>3 DEF Stable
  <2>5. Machine(c')
    BY <1>1, <2>2, <2>3 DEF Machine, HasConfiguration
  <2>6. Wired(c', net', link')
    BY <1>2, <1>3, <1>8, <2>2 DEF Wired
  <2>7. Backing(c', hist')
    BY <1>1, <1>3, <1>4, <1>6, <2>2, <2>3, <2>4 DEF Backing
  <2>. QED
    BY <1>1, <1>3, <1>8, <2>2, <2>3, <2>5, <2>6, <2>7 DEF Core
<1>. QED
  BY <1>7, <1>8 DEF TryReconnect

LEMMA WokenKeeps ==
    ASSUME Core(c, net, link, hist), c.sock
    PROVE  /\ Woken \in Conn /\ Machine(Woken) /\ Woken.out = c.out
           /\ Woken.state \in {"RECONNECTING", "RUNNING"}
           /\ "OUT" \in polled => Woken.state = "RUNNING"
           /\ "OUT" \notin polled => Woken.state = c.state
           /\ "HEADER" \in Woken.dirty <=> "HEADER" \in c.dirty
           /\ "WS_HEADER" \in Woken.dirty <=> "WS_HEADER" \in c.dirty
           /\ Woken.poll = c.poll
           /\ net.st = "UP" /\ Woken # c => Polling(Woken, net)
<1>1. /\ c \in Conn /\ Machine(c) /\ Polling(c, net) /\ Wired(c, net, link)
      /\ c.reconnectIn = Never /\ c.state \in {"RECONNECTING", "RUNNING"}
  BY DEF Core, Machine
<1>2. /\ Woken \in Conn
      /\ Same(Woken, c, {"state", "keepAliveIn", "dirty"})
      /\ Woken.state = IF c.state = "RECONNECTING" /\ "OUT" \in polled
                         THEN "RUNNING" ELSE c.state
      /\ IF c.keepAliveIn = 0
           THEN Woken.keepAliveIn = Never
                /\ Woken.dirty = c.dirty \cup {"KEEP_ALIVE"}
           ELSE Woken.keepAliveIn = c.keepAliveIn /\ Woken.dirty = c.dirty
  BY <1>1, WokenFields
<1>3. /\ Woken.out = c.out /\ Woken.sock = c.sock /\ Woken.poll = c.poll
      /\ Woken.reconnectIn = c.reconnectIn /\ Woken.writeFinished = c.writeFinished
      /\ Woken.finished = c.finished /\ Woken.address = c.address
      /\ Woken.person = c.person /\ Woken.name = c.name
  BY <1>2 DEF Same, Fields
<1>4. /\ "HEADER" \in Woken.dirty <=> "HEADER" \in c.dirty
      /\ "WS_HEADER" \in Woken.dirty <=> "WS_HEADER" \in c.dirty
  BY <1>2
<1>5. Machine(Woken)
  BY <1>1, <1>2, <1>3, <1>4 DEF Machine, HasConfiguration
<1>6. ASSUME net.st = "UP", Woken # c PROVE Polling(Woken, net)
  <2>1. CASE c.keepAliveIn = 0
    <3>1. Wakeup(c) = 0
      <4>1. /\ Wakeup(c) \in {c.reconnectIn, c.keepAliveIn}
            /\ c.keepAliveIn # Never => Wakeup(c) # Never
        BY <1>1, WakeupIsSooner
      <4>. QED
        BY <1>1, <2>1, <4>1 DEF Never
    <3>2. c.poll.wakeup = 0
      BY <1>1, <3>1 DEF Polling, Never, Conn, Poll
    <3>3. Wakeup(Woken) = Never
      <4>1. Wakeup(Woken) \in {Woken.reconnectIn, Woken.keepAliveIn}
        BY <1>2, WakeupIsSooner
      <4>. QED
        BY <1>1, <1>2, <1>3, <2>1, <4>1
    <3>. QED
      BY <1>1, <1>3, <3>2, <3>3 DEF Polling
  <2>2. CASE c.keepAliveIn # 0
    <3>1. /\ Woken.keepAliveIn = c.keepAliveIn /\ Woken.dirty = c.dirty
      BY <1>2, <2>2
    <3>2. Wakeup(Woken) = Wakeup(c)
      BY <1>3, <3>1 DEF Wakeup
    <3>3. c.state = "RECONNECTING" /\ Woken.state = "RUNNING"
      <4>. DEFINE st == IF c.state = "RECONNECTING" /\ "OUT" \in polled
                          THEN "RUNNING" ELSE c.state
      <4>1. [c EXCEPT !.state = st].keepAliveIn = c.keepAliveIn
        BY <1>1 DEF Conn
      <4>2. Woken = [c EXCEPT !.state = st]
        BY <2>2, <4>1 DEF Woken
      <4>3. [c EXCEPT !.state = c.state] = c
        BY <1>1 DEF Conn
      <4>4. st # c.state
        BY <1>6, <4>2, <4>3
      <4>. QED
        BY <1>2, <4>4
    <3>4. Events(c) = {"OUT"} /\ net.toServer = <<>>
      BY <1>1, <3>3 DEF Events, Wired
    <3>5. "OUT" \in c.poll.events \/ c.poll.wakeup = 0
      BY <1>1, <3>3, <3>4 DEF Polling
    <3>6. /\ Woken.poll.fd = Woken.sock
          /\ Wakeup(Woken) # Never =>
               0 <= Woken.poll.wakeup /\ Woken.poll.wakeup <= Wakeup(Woken)
      BY <1>1, <1>3, <3>2 DEF Polling
    <3>. QED
      BY <1>3, <1>6, <3>3, <3>4, <3>5, <3>6 DEF Polling
  <2>. QED
    BY <2>1, <2>2
<1>. QED
  BY <1>1, <1>2, <1>3, <1>4, <1>5, <1>6

\* Reading ends the connection, or takes some frames and publishes what the client
\* then waits for; only when nothing is read is nothing published.
LEMMA HandleReadKeeps ==
    ASSUME Core(c, net, link, hist), HandleRead
    PROVE  Core(c', net', link', hist')
<1>1. /\ c \in Conn /\ Machine(c) /\ Backing(c, hist) /\ hist \in Hist
      /\ Wired(c, net, link) /\ net \in Net /\ link \in Link
      /\ c.sock /\ c.reconnectIn = Never /\ Len(c.out) <= OutCap
      /\ Len(net.toServer) <= WireCap /\ Len(net.toClient) <= WireCap
  BY DEF Core, Machine, HandleRead
<1>2. /\ Woken \in Conn /\ Machine(Woken) /\ Woken.out = c.out
      /\ Woken.state \in {"RECONNECTING", "RUNNING"}
      /\ net.st = "UP" /\ Woken # c => Polling(Woken, net)
  BY <1>1, WokenKeeps
<1>3. Same(Woken, c, {"state", "keepAliveIn", "dirty"})
  BY <1>1, WokenFields
<1>4. /\ Woken.sock = c.sock /\ Woken.reconnectIn = c.reconnectIn
      /\ Woken.timeout = c.timeout /\ Woken.playerAge = c.playerAge
  BY <1>3 DEF Same, Fields
<1>5. Same(Woken, Woken, {"out", "dirty", "tiles", "messages", "sentTyping"})
  BY DEF Same
<1>6. CASE c' = ReportError(Woken) /\ Dropped(c.out)
  <2>1. Core(c', net', link', hist')
    BY <1>1, <1>2, <1>5, <1>6, FailureKeeps
  <2>. QED
    BY <2>1
<1>7. CASE c' = Stopped(Woken) /\ Dropped(c.out)
  <2>1. /\ c' \in Conn
        /\ Same(c', Woken, {"state", "sock", "keepAliveIn", "reconnectIn",
                            "writeFinished", "poll"})
        /\ c'.state = "DISCONNECTED" /\ c'.sock = FALSE /\ c'.keepAliveIn = Never
        /\ c'.reconnectIn = Woken.reconnectIn \/ c'.reconnectIn = Never
        /\ \A nt : Polling(c', nt)
    BY <1>1, <1>2, <1>4, <1>7, StoppedFields
  <2>2. /\ c'.address = Woken.address /\ c'.person = Woken.person
        /\ c'.name = Woken.name /\ c'.out = c.out /\ c'.dirty = Woken.dirty
        /\ c'.playerAge = c.playerAge /\ c'.timeout = c.timeout
    BY <1>2, <1>4, <2>1 DEF Same, Fields
  <2>3. c'.reconnectIn = Never
    BY <1>1, <1>4, <2>1
  <2>4. Machine(c')
    BY <1>1, <1>2, <1>4, <2>1, <2>2, <2>3 DEF Machine, HasConfiguration
  <2>5. /\ net' \in Net /\ net'.st = "NONE"
        /\ net'.toServer = <<>> /\ net'.toClient = <<>>
        /\ Len(net'.toServer) = 0 /\ Len(net'.toClient) = 0
        /\ link' = NoLink /\ link' \in Link /\ hist' \in Hist
        /\ hist'.tries = hist.tries
    BY <1>1, <1>7, EndedFields DEF Dropped
  <2>6. Wired(c', net', link')
    BY <2>1, <2>5 DEF Wired
  <2>7. Backing(c', hist')
    BY <1>1, <2>1, <2>2, <2>3, <2>5 DEF Backing, Never
  <2>8. 0 <= WireCap
    BY ClientAssumption
  <2>. QED
    BY <1>1, <2>1, <2>2, <2>4, <2>5, <2>6, <2>7, <2>8 DEF Core
<1>8. CASE /\ net.st = "UP" /\ net.toClient # <<>> /\ link' = link
           /\ \E n \in 1..Len(net.toClient) :
                LET frames == SubSeq(net.toClient, 1, n)
                    after == ProcessFrames(Woken, hist.shown, frames)
                IN /\ \A i \in 1..n : frames[i].type \notin {"EOF", "BAD"}
                   /\ c' = UpdatePoll(after.conn)
                   /\ net' = [net EXCEPT !.toClient = SubSeq(@, n + 1, Len(@))]
                   /\ hist' = [hist EXCEPT !.shown = after.shown]
  <2>. DEFINE s == net.toClient
  <2>1. PICK n \in 1..Len(s) :
           /\ \A i \in 1..n : SubSeq(s, 1, n)[i].type \notin {"EOF", "BAD"}
           /\ c' = UpdatePoll(ProcessFrames(Woken, hist.shown, SubSeq(s, 1, n)).conn)
           /\ net' = [net EXCEPT !.toClient = SubSeq(s, n + 1, Len(s))]
           /\ hist' = [hist EXCEPT
                         !.shown = ProcessFrames(Woken, hist.shown, SubSeq(s, 1, n)).shown]
    BY <1>8
  <2>. DEFINE frames == SubSeq(s, 1, n)
              rest == SubSeq(s, n + 1, Len(s))
              k == ProcessFrames(Woken, hist.shown, frames).conn
              shown == ProcessFrames(Woken, hist.shown, frames).shown
  <2>2. s \in Seq(ToClient) /\ Len(s) \in Nat /\ n \in Nat
    BY <1>1, LenProperties DEF Net
  <2>3. /\ Len(frames) = n /\ \A i \in 1..n : frames[i] = s[i] /\ s[i] \in ToClient
        /\ rest \in Seq(ToClient) /\ Len(rest) = Len(s) - n
    BY <2>2, FirstFrames
  <2>4. \A i \in 1..n : frames[i].type \notin {"EOF", "BAD"}
    BY <2>1
  <2>5. hist.shown \in Seq(Nat)
    BY <1>1 DEF Hist
  <2>6. c' = UpdatePoll(k) /\ net' = [net EXCEPT !.toClient = rest]
        /\ hist' = [hist EXCEPT !.shown = shown]
    BY <2>1
  <2>. HIDE DEF frames, rest, s
  <2>7. /\ k \in Conn /\ shown \in Seq(Nat)
        /\ Same(k, Woken, {"upgraded", "person", "playerAge", "next", "synced",
                           "finished"})
        /\ k.person = Woken.person \/ k.person # NoPerson
        /\ k.playerAge = Woken.playerAge \/ k.playerAge = 0
        /\ Woken.finished => k.finished
    BY <1>2, <2>2, <2>3, <2>4, <2>5, ReadFields
  <2>. HIDE DEF k, shown
  <2>8. /\ k.sock = c.sock /\ k.out = c.out /\ k.state = Woken.state
        /\ k.dirty = Woken.dirty /\ k.reconnectIn = c.reconnectIn
        /\ k.timeout = c.timeout /\ k.address = Woken.address /\ k.name = Woken.name
        /\ k.keepAliveIn = Woken.keepAliveIn /\ k.writeFinished = Woken.writeFinished
    BY <1>2, <1>4, <2>7 DEF Same, Fields
  <2>9. Machine(k)
    BY <1>1, <1>2, <1>4, <2>7, <2>8 DEF Machine, HasConfiguration
  <2>10. /\ c' \in Conn /\ Same(c', k, {"writeFinished", "poll"})
         /\ Machine(c') /\ \A nt : Polling(c', nt)
    BY <2>6, <2>7, <2>9, UpdatePollFields, UpdatePollPublishes
  <2>11. /\ c'.sock = c.sock /\ c'.out = c.out /\ c'.state = Woken.state
         /\ c'.reconnectIn = c.reconnectIn /\ c'.timeout = c.timeout
         /\ c'.playerAge = k.playerAge
    BY <2>8, <2>10 DEF Same, Fields
  <2>12. /\ net' \in Net /\ net'.st = net.st /\ net'.toServer = net.toServer
         /\ net'.toClient = rest
    BY <1>1, <2>3, <2>6 DEF Net
  <2>13. hist' \in Hist /\ hist'.tries = hist.tries
    BY <1>1, <2>6, <2>7 DEF Hist
  <2>14. c.state = "RUNNING"
    BY <1>1, <1>8 DEF Wired, Machine
  <2>15. Woken.state = "RUNNING"
    BY <1>1, <2>14, WokenFields
  <2>16. Wired(c', net', link')
    BY <1>1, <1>8, <2>11, <2>12, <2>15 DEF Wired
  <2>17. Backing(c', hist')
    <3>1. StableTime > 0 /\ Never = -1
      BY ClientAssumption DEF Never
    <3>. QED
      BY <1>1, <1>4, <2>7, <2>11, <2>13, <2>15, <3>1 DEF Backing
  <2>18. Len(rest) <= WireCap
    BY <1>1, <2>2, <2>3, ClientAssumption DEF s
  <2>. QED
    BY <1>1, <1>8, <2>10, <2>11, <2>12, <2>13, <2>16, <2>17, <2>18 DEF Core
<1>9. CASE ReadsNothing
  <2>1. net.st = "UP" /\ Woken # c /\ c' = Woken /\ net' = net /\ link' = link
        /\ hist' = hist
    BY <1>9 DEF ReadsNothing
  <2>2. Polling(c', net')
    BY <1>2, <2>1
  <2>3. Wired(c', net', link')
    <3>1. c'.state = IF c.state = "RECONNECTING" /\ "OUT" \in polled
                       THEN "RUNNING" ELSE c.state
      BY <1>1, <2>1, WokenFields
    <3>2. \/ c.keepAliveIn = 0 /\ c'.dirty = c.dirty \cup {"KEEP_ALIVE"}
          \/ c'.dirty = c.dirty
      BY <1>1, <2>1, WokenFields
    <3>. QED
      BY <1>1, <1>2, <1>4, <2>1, <3>1, <3>2 DEF Wired
  <2>4. Backing(c', hist')
    BY <1>1, <1>2, <1>4, <2>1 DEF Backing
  <2>. QED
    BY <1>1, <1>2, <2>1, <2>2, <2>3, <2>4 DEF Core
<1>. QED
  <2>1. \/ /\ net.st = "BROKEN" /\ c' = ReportError(Woken) /\ Dropped(c.out)
        \/ /\ net.st = "UP" /\ net.toClient # <<>>
           /\ \/ c' = ReadEof(Woken) /\ Dropped(c.out)
              \/ c' = ReportError(Woken) /\ Dropped(c.out)
              \/ /\ link' = link
                 /\ \E n \in 1..Len(net.toClient) :
                      LET frames == SubSeq(net.toClient, 1, n)
                          after == ProcessFrames(Woken, hist.shown, frames)
                      IN /\ \A i \in 1..n : frames[i].type \notin {"EOF", "BAD"}
                         /\ c' = UpdatePoll(after.conn)
                         /\ net' = [net EXCEPT !.toClient = SubSeq(@, n + 1, Len(@))]
                         /\ hist' = [hist EXCEPT !.shown = after.shown]
        \/ ReadsNothing
    BY DEF HandleRead
  <2>. QED
    BY <1>6, <1>7, <1>8, <1>9, <2>1 DEF ReadEof

LEMMA HandleWriteKeeps ==
    ASSUME Core(c, net, link, hist), HandleWrite
    PROVE  Core(c', net', link', hist')
<1>. DEFINE k == FillOutputBuffer(Woken)
<1>1. /\ c \in Conn /\ Machine(c) /\ Backing(c, hist) /\ hist \in Hist
      /\ Polling(c, net) /\ Wired(c, net, link) /\ net \in Net /\ link \in Link
      /\ c.sock /\ c.reconnectIn = Never /\ Len(c.out) <= OutCap
      /\ Len(net.toServer) <= WireCap /\ Len(net.toClient) <= WireCap
      /\ "OUT" \in polled
  BY DEF Core, Machine, HandleWrite
<1>2. /\ Woken \in Conn /\ Machine(Woken) /\ Woken.out = c.out
      /\ Woken.state = "RUNNING" /\ Woken.poll = c.poll
      /\ net.st = "UP" /\ Woken # c => Polling(Woken, net)
      /\ Same(Woken, c, {"state", "keepAliveIn", "dirty"})
  BY <1>1, WokenKeeps, WokenFields
<1>3. /\ Woken.sock = c.sock /\ Woken.reconnectIn = c.reconnectIn
      /\ Woken.timeout = c.timeout /\ Woken.playerAge = c.playerAge
      /\ Woken.writeFinished = c.writeFinished
  BY <1>2 DEF Same, Fields
<1>4. /\ k \in Conn /\ Len(k.out) <= OutCap /\ k.dirty \subseteq Woken.dirty
      /\ Same(k, Woken, {"out", "dirty", "tiles", "messages", "sentTyping"})
      /\ ~HasPendingData(Woken) => k = Woken
  BY <1>1, <1>2, FillFields
<1>5. /\ k.sock = c.sock /\ k.reconnectIn = c.reconnectIn
      /\ k.timeout = c.timeout /\ k.playerAge = c.playerAge
      /\ k.writeFinished = c.writeFinished /\ k.state = "RUNNING"
      /\ k.address = Woken.address /\ k.name = Woken.name /\ k.person = Woken.person
      /\ k.keepAliveIn = Woken.keepAliveIn /\ k.poll = c.poll
  BY <1>2, <1>3, <1>4 DEF Same, Fields
<1>6. \/ /\ c' = ReportError(k) /\ Dropped(k.out)
      \/ /\ net.st = "UP" /\ ~c.writeFinished /\ link' = link
         /\ \E n \in 0..Least({Len(k.out), WireCap - Len(net.toServer)}) :
              /\ c' = Written(k, n)
              /\ net' = [net EXCEPT !.toServer = @ \o SubSeq(k.out, 1, n)]
              /\ hist' = [hist EXCEPT !.putOff = @ \/ n = 0]
      \/ /\ net.st = "UP" /\ ~c.writeFinished /\ k # c /\ c' = k
         /\ UNCHANGED <<net, link, hist>>
  BY DEF HandleWrite
<1>. HIDE DEF k
<1>7. ASSUME ~c.writeFinished PROVE Machine(k)
  <2>1. HasConfiguration(Woken)
    BY <1>1, <1>2, <1>3 DEF Machine
  <2>2. HasConfiguration(k)
    BY <1>5, <2>1 DEF HasConfiguration
  <2>. QED
    BY <1>1, <1>5, <1>7, <2>2 DEF Machine
<1>8. CASE c' = ReportError(k) /\ Dropped(k.out)
  BY <1>1, <1>4, <1>8, FailureKeeps
<1>9. CASE /\ net.st = "UP" /\ ~c.writeFinished /\ link' = link
           /\ \E n \in 0..Least({Len(k.out), WireCap - Len(net.toServer)}) :
                /\ c' = Written(k, n)
                /\ net' = [net EXCEPT !.toServer = @ \o SubSeq(k.out, 1, n)]
                /\ hist' = [hist EXCEPT !.putOff = @ \/ n = 0]
  <2>. DEFINE room == WireCap - Len(net.toServer)
              most == Least({Len(k.out), room})
  <2>1. /\ net.toServer \in Seq(ToServer) /\ Len(net.toServer) \in Nat
        /\ k.out \in Seq(ToServer) /\ Len(k.out) \in Nat /\ room \in Nat
        /\ room = WireCap - Len(net.toServer)
    BY <1>1, <1>4, LenProperties, ClientAssumption DEF Net, Conn
  <2>2. PICK n \in 0..most :
                /\ c' = Written(k, n)
                /\ net' = [net EXCEPT !.toServer = @ \o SubSeq(k.out, 1, n)]
                /\ hist' = [hist EXCEPT !.putOff = @ \/ n = 0]
    BY <1>9
  <2>. HIDE DEF room
  <2>3. most \in Nat /\ most <= Len(k.out) /\ most <= room
    BY <2>1, LeastOf
  <2>. HIDE DEF most
  <2>4. n \in Nat /\ n \in 0..Len(k.out) /\ n <= room
    BY <2>1, <2>3
  <2>5. /\ c' \in Conn
        /\ Same(c', k, {"out", "keepAliveIn", "writeFinished", "poll"})
        /\ Len(c'.out) = Len(k.out) - n
        /\ Machine(k) /\ k.sock /\ ~k.writeFinished => Machine(c')
        /\ \A nt : Polling(c', nt)
    BY <1>4, <2>2, <2>4, WrittenFields
  <2>6. /\ c'.sock /\ c'.state = "RUNNING" /\ c'.reconnectIn = Never
        /\ c'.timeout = c.timeout /\ c'.playerAge = c.playerAge
    BY <1>1, <1>5, <2>5 DEF Same, Fields
  <2>7. Machine(c')
    BY <1>1, <1>5, <1>7, <1>9, <2>5
  <2>. DEFINE first == SubSeq(k.out, 1, n)
              l == Len(k.out)
              more == net.toServer \o first
  <2>8. first \in Seq(ToServer) /\ Len(first) = n
    <3>1. \A i \in 1..l : k.out[i] \in ToServer
      BY <2>1, ElementOfSeq
    <3>2. /\ first \in Seq(ToServer)
          /\ Len(first) = IF 1 <= n THEN n - 1 + 1 ELSE 0
      BY <2>4, <3>1, SubSeqProperties
    <3>. QED
      BY <2>4, <3>2
  <2>. HIDE DEF first
  <2>9. more \in Seq(ToServer) /\ Len(more) = Len(net.toServer) + n
    BY <2>1, <2>8, ConcatProperties
  <2>. HIDE DEF more
  <2>10. net' = [net EXCEPT !.toServer = more]
    BY <2>2 DEF more, first
  <2>11. /\ net' \in Net /\ net'.st = "UP" /\ net'.toServer = more
         /\ net'.toClient = net.toClient
    BY <1>1, <1>9, <2>9, <2>10 DEF Net
  <2>12. Len(more) <= WireCap
    BY <2>1, <2>4, <2>9, ClientAssumption
  <2>13. hist' \in Hist /\ hist'.tries = hist.tries
    <3>1. (hist.putOff \/ n = 0) \in BOOLEAN
      OBVIOUS
    <3>. QED
      BY <1>1, <2>2, <3>1 DEF Hist
  <2>14. Wired(c', net', link')
    BY <2>6, <2>11 DEF Wired
  <2>15. Backing(c', hist')
    BY <1>1, <2>6, <2>13 DEF Backing, Never
  <2>16. Len(c'.out) <= OutCap
    BY <1>4, <2>1, <2>4, <2>5, ClientAssumption
  <2>. QED
    BY <1>1, <1>9, <2>5, <2>7, <2>11, <2>12, <2>13, <2>14, <2>15, <2>16 DEF Core
<1>10. CASE /\ net.st = "UP" /\ ~c.writeFinished /\ k # c /\ c' = k
            /\ UNCHANGED <<net, link, hist>>
  <2>1. Polling(k, net)
    <3>1. Wakeup(k) = Wakeup(Woken)
      BY <1>3, <1>5 DEF Wakeup
    <3>2. CASE Woken # c
      <4>1. Polling(Woken, net)
        BY <1>2, <1>10, <3>2
      <4>2. CASE Woken.poll.wakeup = 0
        BY <1>2, <1>3, <1>5, <3>1, <4>1, <4>2 DEF Polling
      <4>3. CASE "OUT" \in Woken.poll.events /\ net.toServer = <<>>
        BY <1>2, <1>3, <1>5, <1>10, <3>1, <4>1, <4>3 DEF Polling
      <4>4. CASE Events(Woken) \subseteq Woken.poll.events
        <5>1. CASE HasPendingData(Woken)
          <6>1. Events(k) \subseteq Events(Woken)
            BY <1>2, <1>3, <1>5, <1>10, <5>1 DEF Events
          <6>. QED
            BY <1>2, <1>3, <1>5, <3>1, <4>1, <4>4, <6>1 DEF Polling
        <5>2. CASE ~HasPendingData(Woken)
          BY <1>4, <4>1, <5>2
        <5>. QED
          BY <5>1, <5>2
      <4>. QED
        BY <1>1, <1>2, <1>3, <1>10, <4>1, <4>2, <4>3, <4>4 DEF Polling
    <3>3. CASE Woken = c
      <4>1. HasPendingData(c)
        BY <1>4, <1>10, <3>3
      <4>2. Events(k) \subseteq Events(c)
        BY <1>2, <1>5, <1>10, <3>3, <4>1 DEF Events
      <4>. QED
        BY <1>1, <1>5, <1>2, <3>1, <3>3, <4>2 DEF Polling
    <3>. QED
      BY <3>2, <3>3
  <2>2. Wired(k, net, link)
    BY <1>1, <1>5, <1>10 DEF Wired
  <2>3. Backing(k, hist)
    BY <1>1, <1>5 DEF Backing
  <2>4. /\ c' = k /\ net' = net /\ link' = link /\ hist' = hist /\ Machine(k)
    BY <1>7, <1>10
  <2>. QED
    BY <1>1, <1>4, <2>1, <2>2, <2>3, <2>4 DEF Core
<1>. QED
  BY <1>6, <1>8, <1>9, <1>10

LEMMA WakeUpForNothingKeeps ==
    ASSUME Core(c, net, link, hist), WakeUpForNothing
    PROVE  Core(c', net', link', hist')
<1>1. net' = net /\ link' = link /\ hist' = hist
  BY DEF WakeUpForNothing
<1>2. CASE c.sock
  <2>1. polled = {} /\ c' = UpdatePoll(Woken)
    BY <1>2 DEF WakeUpForNothing
  <2>2. /\ c \in Conn /\ Wired(c, net, link) /\ Backing(c, hist)
    BY DEF Core
  <2>3. /\ Woken \in Conn /\ Machine(Woken) /\ Woken.out = c.out
        /\ Woken.state = c.state
        /\ Same(Woken, c, {"state", "keepAliveIn", "dirty"})
        /\ "HEADER" \in Woken.dirty <=> "HEADER" \in c.dirty
        /\ "WS_HEADER" \in Woken.dirty <=> "WS_HEADER" \in c.dirty
    BY <1>2, <2>1, <2>2, WokenKeeps, WokenFields
  <2>4. /\ c' \in Conn /\ Same(c', Woken, {"writeFinished", "poll"})
        /\ Machine(c') /\ \A nt : Polling(c', nt)
    BY <2>1, <2>3, UpdatePollFields, UpdatePollPublishes
  <2>5. /\ c'.sock = c.sock /\ c'.state = c.state /\ c'.out = c.out
        /\ c'.dirty = Woken.dirty /\ c'.reconnectIn = c.reconnectIn
        /\ c'.timeout = c.timeout /\ c'.playerAge = c.playerAge
    BY <2>3, <2>4 DEF Same, Fields
  <2>6. Wired(c', net, link)
    BY <2>2, <2>3, <2>5 DEF Wired
  <2>7. Backing(c', hist)
    BY <2>2, <2>5 DEF Backing
  <2>. QED
    BY <1>1, <2>4, <2>5, <2>6, <2>7 DEF Core
<1>3. CASE ~c.sock
  BY <1>1, <1>3 DEF WakeUpForNothing
<1>. QED
  BY <1>2, <1>3

\* A call that changes only what waits to be written, and publishes it.
LEMMA CallKeeps ==
    ASSUME Core(c, net, link, hist), NEW k \in Conn,
           Same(k, c, {"typing", "dirty", "tiles", "messages"}),
           "HEADER" \in k.dirty <=> "HEADER" \in c.dirty,
           "WS_HEADER" \in k.dirty <=> "WS_HEADER" \in c.dirty,
           c' = UpdatePoll(k), net' = net, link' = link,
           hist' \in Hist, hist'.tries = hist.tries
    PROVE  Core(c', net', link', hist')
<1>1. /\ c \in Conn /\ Machine(c) /\ Wired(c, net, link) /\ Backing(c, hist)
  BY DEF Core
<1>2. /\ k.sock = c.sock /\ k.state = c.state /\ k.out = c.out
      /\ k.reconnectIn = c.reconnectIn /\ k.keepAliveIn = c.keepAliveIn
      /\ k.address = c.address /\ k.person = c.person /\ k.name = c.name
      /\ k.writeFinished = c.writeFinished /\ k.finished = c.finished
      /\ k.timeout = c.timeout /\ k.playerAge = c.playerAge
  BY DEF Same, Fields
<1>3. Machine(k)
  BY <1>1, <1>2 DEF Machine, HasConfiguration
<1>4. /\ c' \in Conn /\ Same(c', k, {"writeFinished", "poll"})
      /\ Machine(c') /\ \A nt : Polling(c', nt)
  BY <1>3, UpdatePollFields, UpdatePollPublishes
<1>5. /\ c'.sock = c.sock /\ c'.state = c.state /\ c'.out = c.out
      /\ c'.dirty = k.dirty /\ c'.reconnectIn = c.reconnectIn
      /\ c'.timeout = c.timeout /\ c'.playerAge = c.playerAge
  BY <1>2, <1>4 DEF Same, Fields
<1>6. Wired(c', net, link)
  BY <1>1, <1>5 DEF Wired
<1>7. Backing(c', hist')
  BY <1>1, <1>5 DEF Backing
<1>. QED
  BY <1>4, <1>5, <1>6, <1>7 DEF Core

LEMMA SetTypingKeeps ==
    ASSUME Core(c, net, link, hist), SetTyping
    PROVE  Core(c', net', link', hist')
<1>. DEFINE k == [c EXCEPT !.typing = ~c.typing]
<1>1. c \in Conn /\ hist \in Hist
  BY DEF Core
<1>2. /\ c' = UpdatePoll(k) /\ net' = net /\ link' = link /\ hist' = hist
  BY DEF SetTyping
<1>3. k \in Conn
  BY <1>1 DEF Conn
<1>4. Same(k, c, {"typing"}) /\ k.dirty = c.dirty
  BY <1>1 DEF Conn, Same, Fields
<1>. HIDE DEF k
<1>5. Same(k, c, {"typing", "dirty", "tiles", "messages"})
  BY <1>4 DEF Same
<1>. QED
  BY <1>1, <1>2, <1>3, <1>4, <1>5, CallKeeps

LEMMA SetDirtyKeeps ==
    ASSUME Core(c, net, link, hist), NEW flag \in {"N_TILES", "LEAVE"},
           c' = UpdatePoll([c EXCEPT !.dirty = @ \cup {flag}]),
           UNCHANGED <<net, link, hist>>
    PROVE  Core(c', net', link', hist')
<1>. DEFINE d == c.dirty \cup {flag}
            k == [c EXCEPT !.dirty = d]
<1>1. c \in Conn /\ hist \in Hist
  BY DEF Core
<1>2. d \in SUBSET FlagSet
  BY <1>1 DEF Conn, FlagSet
<1>3. /\ "HEADER" \in d <=> "HEADER" \in c.dirty
      /\ "WS_HEADER" \in d <=> "WS_HEADER" \in c.dirty
  OBVIOUS
<1>. HIDE DEF d
<1>4. k \in Conn
  BY <1>1, <1>2 DEF Conn
<1>5. Same(k, c, {"dirty"}) /\ k.dirty = d
  BY <1>1 DEF Conn, Same, Fields
<1>6. c' = UpdatePoll(k)
  BY DEF d
<1>. HIDE DEF k
<1>7. Same(k, c, {"typing", "dirty", "tiles", "messages"})
  BY <1>5 DEF Same
<1>. QED
  BY <1>1, <1>3, <1>4, <1>5, <1>6, <1>7, CallKeeps

LEMMA SendMessageKeeps ==
    ASSUME Core(c, net, link, hist), SendMessage
    PROVE  Core(c', net', link', hist')
<1>. DEFINE more == Append(c.messages, hist.said + 1)
            k == [c EXCEPT !.messages = more]
<1>1. c \in Conn /\ hist \in Hist
  BY DEF Core
<1>2. /\ c' = UpdatePoll(k) /\ net' = net /\ link' = link
      /\ hist' = [hist EXCEPT !.said = hist.said + 1]
  BY DEF SendMessage
<1>3. hist.said + 1 \in Nat
  BY <1>1 DEF Hist
<1>4. hist' \in Hist /\ hist'.tries = hist.tries
  BY <1>1, <1>2, <1>3 DEF Hist
<1>5. more \in Seq(Nat)
  BY <1>1, <1>3, AppendProperties DEF Conn
<1>. HIDE DEF more
<1>6. k \in Conn
  BY <1>1, <1>5 DEF Conn
<1>7. Same(k, c, {"messages"}) /\ k.dirty = c.dirty
  BY <1>1 DEF Conn, Same, Fields
<1>. HIDE DEF k
<1>8. Same(k, c, {"typing", "dirty", "tiles", "messages"})
  BY <1>7 DEF Same
<1>. QED
  BY <1>2, <1>4, <1>6, <1>7, <1>8, CallKeeps

\* The moves that wait after another one.
MovesAfter(tiles, t, p) ==
    LET at == {i \in DOMAIN tiles : tiles[i].num = t}
        move == [num |-> t, place |-> p]
    IN IF at = {} THEN Append(tiles, move)
       ELSE [i \in DOMAIN tiles |-> IF i \in at THEN move ELSE tiles[i]]

LEMMA MovesAfterTyped ==
    ASSUME NEW tiles \in Seq([num : Tile, place : Place]), NEW t \in Tile,
           NEW p \in Place
    PROVE  MovesAfter(tiles, t, p) \in Seq([num : Tile, place : Place])
<1>. DEFINE at == {i \in DOMAIN tiles : tiles[i].num = t}
            move == [num |-> t, place |-> p]
            Move == [num : Tile, place : Place]
<1>1. move \in Move
  OBVIOUS
<1>. HIDE DEF move, Move
<1>2. CASE at = {}
  <2>1. Append(tiles, move) \in Seq(Move)
    BY <1>1, AppendProperties DEF Move
  <2>. QED
    BY <1>2, <2>1 DEF MovesAfter, move, Move
<1>3. CASE at # {}
  <2>1. Len(tiles) \in Nat /\ DOMAIN tiles = 1..Len(tiles)
        /\ \A i \in 1..Len(tiles) : tiles[i] \in Move
    BY LenProperties, ElementOfSeq DEF Move
  <2>. DEFINE s == [i \in DOMAIN tiles |-> IF i \in at THEN move ELSE tiles[i]]
              n == Len(tiles)
  <2>. HIDE DEF at, n
  <2>2. s \in [1..n -> Move]
    BY <1>1, <2>1 DEF n
  <2>3. n \in Nat
    BY <2>1 DEF n
  <2>. HIDE DEF s
  <2>4. s \in Seq(Move)
    BY <2>2, <2>3, SeqDef
  <2>. QED
    BY <1>3, <2>4 DEF MovesAfter, s, at, move, Move
<1>. QED
  BY <1>2, <1>3

LEMMA MoveTileKeeps ==
    ASSUME Core(c, net, link, hist), NEW t \in Tile, NEW p \in Place, MoveTile(t, p)
    PROVE  Core(c', net', link', hist')
<1>. DEFINE more == MovesAfter(c.tiles, t, p)
            k == [c EXCEPT !.tiles = more]
            places == [hist.moved EXCEPT ![t] = p]
<1>1. c \in Conn /\ hist \in Hist
  BY DEF Core
<1>2. /\ c' = UpdatePoll(k) /\ net' = net /\ link' = link
      /\ hist' = [hist EXCEPT !.moved = places]
  BY <1>1 DEF MoveTile, MovesAfter, Hist
<1>3. places \in Places
  BY <1>1 DEF Hist, Places
<1>4. hist' \in Hist /\ hist'.tries = hist.tries
  <2>. HIDE DEF places
  <2>. QED
    BY <1>1, <1>2, <1>3 DEF Hist
<1>5. more \in Seq([num : Tile, place : Place])
  BY <1>1, MovesAfterTyped DEF Conn
<1>. HIDE DEF more
<1>6. k \in Conn
  BY <1>1, <1>5 DEF Conn
<1>7. Same(k, c, {"tiles"}) /\ k.dirty = c.dirty
  BY <1>1 DEF Conn, Same, Fields
<1>. HIDE DEF k
<1>8. Same(k, c, {"typing", "dirty", "tiles", "messages"})
  BY <1>7 DEF Same
<1>. QED
  BY <1>2, <1>4, <1>6, <1>7, <1>8, CallKeeps

\* Starting to connect, with what is known of the configuration.
LEMMA StartingKeeps ==
    ASSUME Core(c, net, link, hist), NEW k \in Conn,
           Same(k, c, {"address", "name", "person"}),
           HasConfiguration(c) => HasConfiguration(k),
           c.state \in {"DISCONNECTED", "WAITING_FOR_CONFIGURATION"},
           c' = StartConnecting(k), net' = net, link' = link,
           hist' \in Hist, hist'.tries = 0
    PROVE  Core(c', net', link', hist')
<1>1. /\ c \in Conn /\ Machine(c) /\ Wired(c, net, link) /\ Polling(c, net)
      /\ ~c.sock /\ c.keepAliveIn = Never
  BY DEF Core, Machine
<1>2. /\ k.sock = c.sock /\ k.out = c.out /\ k.poll = c.poll /\ k.dirty = c.dirty
      /\ k.keepAliveIn = c.keepAliveIn
  BY DEF Same, Fields
<1>3. /\ c' \in Conn
      /\ Same(c', k, {"timeout", "reconnectIn", "state", "poll", "writeFinished"})
      /\ c'.timeout = 0
      /\ IF HasConfiguration(k)
           THEN c'.reconnectIn = 0 /\ c'.state = "WAITING_FOR_RECONNECT"
           ELSE c'.reconnectIn = Never /\ c'.state = "WAITING_FOR_CONFIGURATION"
      /\ \A nt : Polling(c', nt)
  <2>1. ~k.sock /\ ~k.poll.fd /\ k.keepAliveIn = Never
    BY <1>1, <1>2 DEF Polling
  <2>. QED
    BY <2>1, StartConnectingFields
<1>4. /\ c'.sock = c.sock /\ c'.out = c.out /\ c'.dirty = c.dirty
      /\ c'.keepAliveIn = Never /\ c'.address = k.address /\ c'.name = k.name
      /\ c'.person = k.person
  BY <1>1, <1>2, <1>3 DEF Same, Fields
<1>5. HasConfiguration(c') = HasConfiguration(k)
  BY <1>4 DEF HasConfiguration
<1>6. Machine(c')
  BY <1>1, <1>3, <1>4, <1>5 DEF Machine
<1>7. Wired(c', net, link)
  BY <1>1, <1>4 DEF Wired
<1>8. Backing(c', hist')
  BY DEF Backing
<1>. QED
  BY <1>3, <1>4, <1>6, <1>7, <1>8 DEF Core

\* Each part of the configuration starts the connection if it was the last.
LEMMA ConfiguredKeeps ==
    ASSUME Core(c, net, link, hist), NEW k \in Conn,
           Same(k, c, {"address", "name", "person"}),
           HasConfiguration(c) => HasConfiguration(k),
           c' = MaybeStart(k), net' = net, link' = link,
           hist' \in Hist, hist'.tries = hist.tries
    PROVE  Core(c', net', link', hist')
<1>1. /\ c \in Conn /\ Machine(c) /\ Wired(c, net, link) /\ Polling(c, net)
      /\ Backing(c, hist)
  BY DEF Core
<1>2. /\ k.sock = c.sock /\ k.state = c.state /\ k.out = c.out /\ k.poll = c.poll
      /\ k.dirty = c.dirty /\ k.tiles = c.tiles /\ k.messages = c.messages
      /\ k.typing = c.typing /\ k.sentTyping = c.sentTyping
      /\ k.writeFinished = c.writeFinished /\ k.finished = c.finished
      /\ k.reconnectIn = c.reconnectIn /\ k.keepAliveIn = c.keepAliveIn
      /\ k.timeout = c.timeout /\ k.playerAge = c.playerAge
  BY DEF Same, Fields
<1>3. CASE c.state = "WAITING_FOR_CONFIGURATION"
  <2>1. hist.tries = 0 /\ c' = StartConnecting(k)
    BY <1>1, <1>2, <1>3 DEF Backing, MaybeStart
  <2>. QED
    BY <1>3, <2>1, StartingKeeps
<1>4. CASE c.state # "WAITING_FOR_CONFIGURATION"
  <2>1. c' = k
    BY <1>2, <1>4 DEF MaybeStart
  <2>2. Machine(k)
    BY <1>1, <1>2 DEF Machine
  <2>3. Wakeup(k) = Wakeup(c) /\ Events(k) = Events(c)
    BY <1>2 DEF Wakeup, Events, HasPendingData
  <2>4. Polling(k, net)
    BY <1>1, <1>2, <2>3 DEF Polling
  <2>5. Wired(k, net, link) /\ Backing(k, hist')
    BY <1>1, <1>2 DEF Wired, Backing
  <2>. QED
    BY <1>2, <2>1, <2>2, <2>4, <2>5 DEF Core
<1>. QED
  BY <1>3, <1>4

LEMMA ConfigureKeeps ==
    ASSUME Core(c, net, link, hist), SetAddress \/ SetPlayerName \/ SetPersonId
    PROVE  Core(c', net', link', hist')
<1>1. c \in Conn /\ hist \in Hist
  BY DEF Core
<1>2. CASE SetAddress
  <2>. DEFINE k == [c EXCEPT !.address = TRUE]
  <2>1. k \in Conn
    BY <1>1 DEF Conn
  <2>2. Same(k, c, {"address"}) /\ k.address
    BY <1>1 DEF Conn, Same, Fields
  <2>3. c' = MaybeStart(k) /\ net' = net /\ link' = link /\ hist' = hist
    BY <1>2 DEF SetAddress
  <2>. HIDE DEF k
  <2>4. /\ Same(k, c, {"address", "name", "person"})
        /\ HasConfiguration(c) => HasConfiguration(k)
    BY <2>2 DEF Same, Fields, HasConfiguration
  <2>. QED
    BY <1>1, <2>1, <2>3, <2>4, ConfiguredKeeps
<1>3. CASE SetPlayerName
  <2>. DEFINE k == [c EXCEPT !.name = TRUE]
  <2>1. k \in Conn
    BY <1>1 DEF Conn
  <2>2. Same(k, c, {"name"}) /\ k.name
    BY <1>1 DEF Conn, Same, Fields
  <2>3. c' = MaybeStart(k) /\ net' = net /\ link' = link /\ hist' = hist
    BY <1>3 DEF SetPlayerName
  <2>. HIDE DEF k
  <2>4. /\ Same(k, c, {"address", "name", "person"})
        /\ HasConfiguration(c) => HasConfiguration(k)
    BY <2>2 DEF Same, Fields, HasConfiguration
  <2>. QED
    BY <1>1, <2>1, <2>3, <2>4, ConfiguredKeeps
<1>4. CASE SetPersonId
  <2>. DEFINE k == [c EXCEPT !.person = Saved]
  <2>1. k \in Conn
    BY <1>1 DEF Conn, Saved
  <2>2. Same(k, c, {"person"}) /\ k.person = Saved
    BY <1>1 DEF Conn, Same, Fields
  <2>3. c' = MaybeStart(k) /\ net' = net /\ link' = link
        /\ hist' = [hist EXCEPT !.lost = TRUE]
    BY <1>4 DEF SetPersonId
  <2>4. hist' \in Hist /\ hist'.tries = hist.tries
    BY <1>1, <2>3 DEF Hist
  <2>. HIDE DEF k
  <2>5. /\ Same(k, c, {"address", "name", "person"})
        /\ HasConfiguration(c) => HasConfiguration(k)
    BY <2>2 DEF Same, Fields, HasConfiguration, Saved, NoPerson
  <2>. QED
    BY <1>1, <2>1, <2>3, <2>4, <2>5, ConfiguredKeeps
<1>. QED
  BY <1>2, <1>3, <1>4

LEMMA StartKeeps ==
    ASSUME Core(c, net, link, hist), Start
    PROVE  Core(c', net', link', hist')
<1>1. /\ c \in Conn /\ hist \in Hist /\ Backing(c, hist)
      /\ net' = net /\ link' = link
      /\ hist' = [hist EXCEPT !.wanted = TRUE, !.tries = 0]
  BY DEF Core, Start
<1>2. hist' \in Hist /\ hist'.tries = 0
  BY <1>1 DEF Hist
<1>3. CASE c.state = "DISCONNECTED"
  <2>1. c' = StartConnecting(c)
    BY <1>3 DEF Start
  <2>2. Same(c, c, {"address", "name", "person"})
    BY DEF Same
  <2>. QED
    BY <1>1, <1>2, <1>3, <2>1, <2>2, StartingKeeps
<1>4. CASE c.state # "DISCONNECTED"
  <2>1. c' = c
    BY <1>4 DEF Start
  <2>2. Backing(c, hist')
    BY <1>2 DEF Backing
  <2>. QED
    BY <1>1, <1>2, <2>1, <2>2 DEF Core
<1>. QED
  BY <1>3, <1>4

LEMMA StopKeeps ==
    ASSUME Core(c, net, link, hist), Stop
    PROVE  Core(c', net', link', hist')
<1>1. /\ c \in Conn /\ Machine(c) /\ Polling(c, net) /\ Wired(c, net, link)
      /\ Backing(c, hist) /\ hist \in Hist /\ c' = Stopped(c)
      /\ hist' = [hist EXCEPT !.wanted = FALSE, !.lost = TRUE]
      /\ IF c.sock /\ ~c'.sock THEN net' = NoNet /\ link' = NoLink
                               ELSE UNCHANGED <<net, link>>
  BY DEF Core, Stop
<1>2. hist' \in Hist /\ hist'.tries = hist.tries
  BY <1>1 DEF Hist
<1>3. /\ c' \in Conn
      /\ Same(c', c, {"state", "sock", "keepAliveIn", "reconnectIn",
                      "writeFinished", "poll"})
      /\ c'.state = "DISCONNECTED" /\ c'.sock = FALSE /\ c'.keepAliveIn = Never
      /\ c'.reconnectIn = c.reconnectIn \/ c'.reconnectIn = Never
      /\ \A nt : Polling(c', nt)
  BY <1>1, StoppedFields
<1>4. /\ c'.address = c.address /\ c'.person = c.person /\ c'.name = c.name
      /\ c'.out = c.out /\ c'.dirty = c.dirty /\ c'.timeout = c.timeout
      /\ c'.playerAge = c.playerAge
  BY <1>3 DEF Same, Fields
<1>5. Machine(c')
  BY <1>1, <1>3, <1>4 DEF Machine, HasConfiguration
<1>6. Backing(c', hist')
  BY <1>1, <1>2, <1>3, <1>4 DEF Backing, Never
<1>7. CASE c.sock
  <2>1. /\ NoNet \in Net /\ Len(NoNet.toServer) = 0 /\ Len(NoNet.toClient) = 0
        /\ NoNet.toServer = <<>> /\ NoNet.toClient = <<>> /\ NoNet.st = "NONE"
        /\ NoLink \in Link /\ 0 <= WireCap
    BY NothingIsTyped, ClientAssumption DEF NoNet
  <2>2. net' = NoNet /\ link' = NoLink
    BY <1>1, <1>3, <1>7
  <2>3. Wired(c', net', link')
    BY <1>3, <2>1, <2>2 DEF Wired
  <2>. QED
    BY <1>2, <1>3, <1>4, <1>5, <1>6, <2>1, <2>2, <2>3 DEF Core
<1>8. CASE ~c.sock
  <2>1. net' = net /\ link' = link
    BY <1>1, <1>8
  <2>2. Wired(c', net', link')
    BY <1>1, <1>3, <1>8, <2>1 DEF Wired
  <2>. QED
    BY <1>2, <1>3, <1>4, <1>5, <1>6, <2>1, <2>2 DEF Core
<1>. QED
  BY <1>7, <1>8

LEMMA ResetKeeps ==
    ASSUME Core(c, net, link, hist), Reset
    PROVE  Core(c', net', link', hist')
<1>1. /\ c \in Conn /\ hist \in Hist /\ c' = ResetClient(c)
      /\ net' = NoNet /\ link' = NoLink
      /\ hist' = [NoHist EXCEPT !.before = hist.said, !.said = hist.said]
      /\ Len(c.out) <= OutCap
  BY DEF Core, Reset
<1>2. hist' \in Hist /\ hist'.tries = 0
  <2>1. NoHist \in Hist /\ hist.said \in Nat /\ NoHist.tries = 0
    BY <1>1, NothingIsTyped DEF Hist, NoHist
  <2>. QED
    BY <1>1, <2>1 DEF Hist
<1>3. /\ c' \in Conn
      /\ c'.sock = FALSE /\ c'.dirty = {} /\ c'.keepAliveIn = Never
      /\ c'.reconnectIn = Never /\ c'.state = "DISCONNECTED" /\ c'.out = c.out
      /\ \A nt : Polling(c', nt)
  BY <1>1, ResetClientFields
<1>4. /\ NoNet \in Net /\ Len(NoNet.toServer) = 0 /\ Len(NoNet.toClient) = 0
      /\ NoNet.toServer = <<>> /\ NoNet.toClient = <<>> /\ NoNet.st = "NONE"
      /\ NoLink \in Link /\ 0 <= WireCap
  BY NothingIsTyped, ClientAssumption DEF NoNet
<1>5. Machine(c')
  BY <1>3 DEF Machine
<1>6. Wired(c', net', link')
  BY <1>1, <1>3, <1>4 DEF Wired
<1>7. Backing(c', hist')
  BY <1>2 DEF Backing
<1>. QED
  BY <1>1, <1>2, <1>3, <1>4, <1>5, <1>6, <1>7 DEF Core

\* The server, the network and the clock.
LEMMA ServerReadsKeeps ==
    ASSUME Core(c, net, link, hist), server \in Server, Personal(link, server),
           ServerReads
    PROVE  Core(c', net', link', hist') /\ server' \in Server
           /\ Personal(link', server')
<1>. DEFINE f == Head(net.toServer)
            rest == Tail(net.toServer)
<1>1. /\ c \in Conn /\ Polling(c, net) /\ Wired(c, net, link)
      /\ net \in Net /\ link \in Link /\ net.toServer # <<>> /\ net.st = "UP"
      /\ net' = [net EXCEPT !.toServer = rest]
      /\ c' = c /\ hist' = hist
      /\ Len(net.toServer) <= WireCap
  BY DEF Core, ServerReads
<1>2. /\ net.toServer \in Seq(ToServer) /\ Len(net.toServer) \in Nat
      /\ f \in ToServer /\ rest \in Seq(ToServer) /\ Len(rest) = Len(net.toServer) - 1
  BY <1>1, HeadTailProperties, LenProperties DEF Net
<1>. HIDE DEF rest
<1>3. /\ net' \in Net /\ net'.st = "UP" /\ net'.toServer = rest
      /\ net'.toClient = net.toClient
  BY <1>1, <1>2 DEF Net
<1>4. Polling(c, net')
  BY <1>1 DEF Polling
<1>5. Wired(c, net', link')
  BY <1>1, <1>3 DEF Wired
<1>6. /\ f.type = "RECONNECT" => f.person \in Nat /\ f.n \in Nat
      /\ f.type = "SEND_MESSAGE" => f.n \in Nat
      /\ f.type = "TYPING" => f.on \in BOOLEAN
      /\ f.type = "MOVE_TILE" => f.tile \in Tile /\ f.place \in Place
  BY <1>2 DEF ToServer
<1>. DEFINE known == f.person = server.person /\ server.known
            ahead == f.n > server.log - server.offset
<1>7. \/ link' = link /\ server' = server
      \/ link' = [link EXCEPT !.st = "WRITING"] /\ server' = server
      \/ /\ server' = NewPerson(server.person + 1, server.log)
         /\ link' = [link EXCEPT !.person = TRUE, !.at = 0]
      \/ /\ f.type = "RECONNECT"
         /\ server' = IF known /\ ~ahead THEN [server EXCEPT !.silent = 0]
                      ELSE server
         /\ link' = IF ~known THEN [link EXCEPT !.refused = TRUE]
                    ELSE IF ahead THEN [link EXCEPT !.bad = TRUE]
                    ELSE [link EXCEPT !.person = TRUE, !.at = f.n]
      \/ link.person /\ server' = Heard(f) /\ link' = link
      \/ link' = [link EXCEPT !.bad = TRUE] /\ server' = server
  BY DEF ServerReads
<1>. HIDE DEF f
<1>a. server.person \in Nat /\ server.log \in Nat /\ 0 \in 0..SilenceTime
  BY ClientAssumption DEF Server
<1>8. link' \in Link /\ server' \in Server /\ Personal(link', server')
  <2>1. CASE link' = link /\ server' = server
    BY <1>1, <2>1
  <2>2. CASE link' = [link EXCEPT !.st = "WRITING"] /\ server' = server
    BY <1>1, <2>2 DEF Link, Personal
  <2>3. CASE /\ server' = NewPerson(server.person + 1, server.log)
             /\ link' = [link EXCEPT !.person = TRUE, !.at = 0]
    <3>. DEFINE none == <<>>
                places == [t \in Tile |-> Nowhere]
    <3>1. none \in Seq(Nat) /\ places \in Places
      BY EmptySeq DEF Places
    <3>. HIDE DEF none, places
    <3>2. server' = [person |-> server.person + 1, known |-> TRUE, left |-> FALSE,
                     offset |-> server.log, log |-> server.log, heard |-> none,
                     typing |-> FALSE, place |-> places, silent |-> 0]
      BY <2>3 DEF NewPerson, none, places
    <3>3. server.person + 1 \in Nat /\ server.person + 1 # NoPerson
      BY <1>a DEF NoPerson
    <3>4. server' \in Server /\ server'.person # NoPerson
      BY <1>a, <3>1, <3>2, <3>3 DEF Server
    <3>. QED
      BY <1>1, <2>3, <3>4 DEF Link, Personal
  <2>4. CASE /\ f.type = "RECONNECT"
             /\ server' = IF known /\ ~ahead THEN [server EXCEPT !.silent = 0]
                          ELSE server
             /\ link' = IF ~known THEN [link EXCEPT !.refused = TRUE]
                        ELSE IF ahead THEN [link EXCEPT !.bad = TRUE]
                        ELSE [link EXCEPT !.person = TRUE, !.at = f.n]
    <3>1. /\ server' \in Server /\ server'.person = server.person
          /\ server'.known = server.known
      BY <1>a, <2>4 DEF Server
    <3>2. link' \in Link /\ (link'.person => link.person \/ server.known)
      <4>. HIDE DEF ahead
      <4>. QED
        BY <1>1, <1>6, <2>4 DEF Link
    <3>. QED
      BY <3>1, <3>2 DEF Personal
  <2>5. CASE link.person /\ server' = Heard(f) /\ link' = link
    <3>1. server' \in Server /\ server'.person = server.person
      <4>1. CASE f.type = "SEND_MESSAGE"
        <5>. DEFINE more == Append(server.heard, f.n)
        <5>1. more \in Seq(Nat)
          BY <1>6, <4>1, AppendProperties DEF Server
        <5>2. server' = [server EXCEPT !.silent = 0, !.log = server.log + 1,
                                       !.typing = FALSE, !.heard = more]
          BY <2>5, <4>1 DEF Heard
        <5>3. server.log + 1 \in Nat
          BY <1>a
        <5>. HIDE DEF more
        <5>. QED
          BY <1>a, <5>1, <5>2, <5>3 DEF Server
      <4>2. CASE f.type = "MOVE_TILE"
        <5>. DEFINE places == [server.place EXCEPT ![f.tile] = f.place]
        <5>1. places \in Places
          BY <1>6, <4>2 DEF Server, Places
        <5>2. server' = [server EXCEPT !.silent = 0, !.place = places]
          BY <2>5, <4>2 DEF Heard, Server
        <5>. HIDE DEF places
        <5>. QED
          BY <1>a, <5>1, <5>2 DEF Server
      <4>3. CASE f.type = "TYPING"
        <5>. DEFINE on == f.on /\ ~server.left
        <5>1. on \in BOOLEAN
          BY <1>6, <4>3
        <5>2. server' = [server EXCEPT !.silent = 0, !.typing = on]
          BY <2>5, <4>3 DEF Heard
        <5>. HIDE DEF on
        <5>. QED
          BY <1>a, <5>1, <5>2 DEF Server
      <4>4. CASE f.type = "LEAVE"
        <5>1. server' = [server EXCEPT !.silent = 0, !.left = TRUE, !.typing = FALSE]
          BY <2>5, <4>4 DEF Heard
        <5>. QED
          BY <1>a, <5>1 DEF Server
      <4>5. CASE f.type \notin {"SEND_MESSAGE", "MOVE_TILE", "TYPING", "LEAVE"}
        <5>1. server' = [server EXCEPT !.silent = 0]
          BY <2>5, <4>5 DEF Heard
        <5>. QED
          BY <1>a, <5>1 DEF Server
      <4>. QED
        BY <4>1, <4>2, <4>3, <4>4, <4>5
    <3>. QED
      BY <1>1, <2>5, <3>1 DEF Personal
  <2>6. CASE link' = [link EXCEPT !.bad = TRUE] /\ server' = server
    BY <1>1, <2>6 DEF Link, Personal
  <2>. QED
    BY <1>7, <2>1, <2>2, <2>3, <2>4, <2>5, <2>6
<1>9. Core(c, net', link', hist)
  BY <1>1, <1>2, <1>3, <1>4, <1>5, <1>8, ClientAssumption DEF Core
<1>. QED
  BY <1>1, <1>8, <1>9

\* Something is put on the way to the client, over a connection that is up.
LEMMA PutKeeps ==
    ASSUME Core(c, net, link, hist), net.st = "UP", Len(net.toClient) < WireCap,
           c.state # "RECONNECTING", NEW f \in ToClient, link' \in Link,
           net' = [net EXCEPT !.toClient = Append(@, f)], c' = c, hist' = hist
    PROVE  Core(c', net', link', hist')
<1>. DEFINE more == Append(net.toClient, f)
<1>1. /\ c \in Conn /\ Polling(c, net) /\ Wired(c, net, link) /\ net \in Net
  BY DEF Core
<1>2. /\ net.toClient \in Seq(ToClient) /\ Len(net.toClient) \in Nat
      /\ more \in Seq(ToClient) /\ Len(more) = Len(net.toClient) + 1
  BY <1>1, LenProperties, AppendProperties DEF Net
<1>. HIDE DEF more
<1>3. net' = [net EXCEPT !.toClient = more]
  BY DEF more
<1>4. /\ net' \in Net /\ net'.st = "UP" /\ net'.toServer = net.toServer
      /\ net'.toClient = more
  BY <1>1, <1>2, <1>3 DEF Net
<1>5. Polling(c, net')
  BY <1>1, <1>4 DEF Polling
<1>6. Wired(c, net', link')
  BY <1>1, <1>4 DEF Wired
<1>7. Len(more) <= WireCap
  BY <1>2, ClientAssumption
<1>. QED
  BY <1>4, <1>5, <1>6, <1>7 DEF Core

\* What the server has to tell is a frame for the client.
LEMMA TellsAreTyped ==
    ASSUME link \in Link, server \in Server, Personal(link, server),
           NEW w \in ServerTells
    PROVE  /\ w[1] \in ToClient /\ w[2] \in Link
           /\ link.st = "WRITING" /\ w[2].person = link.person
<1>1. link.st = "WRITING"
  BY DEF ServerTells
<1>2. /\ link.at \in Nat /\ server.offset \in Nat /\ link.at + 1 \in Nat
      /\ server.offset + link.at + 1 \in Nat /\ server.person \in Nat
  BY DEF Link, Server
<1>. DEFINE told(type) == [link EXCEPT !.told = @ \cup {type}]
            later == [link EXCEPT !.at = @ + 1]
            done == [link EXCEPT !.st = "DONE"]
<1>3. \A type \in {"UPGRADED", "PLAYER_ID", "SYNC"} :
        told(type) \in Link /\ told(type).person = link.person
  BY DEF Link
<1>4. /\ later \in Link /\ later.person = link.person
      /\ done \in Link /\ done.person = link.person
  BY <1>2 DEF Link
<1>5. \A type \in {"UPGRADED", "SYNC", "END", "BAD_PLAYER_ID"} : Tells(type) \in ToClient
  BY DEF Tells, ToClient
<1>6. [type |-> "MESSAGE", n |-> server.offset + link.at + 1] \in ToClient
  BY <1>2 DEF ToClient
<1>7. link.person => [type |-> "PLAYER_ID", person |-> server.person] \in ToClient
  BY <1>2 DEF ToClient, Personal
<1>8. \/ w = <<Tells("UPGRADED"), told("UPGRADED")>>
      \/ w = <<Tells("BAD_PLAYER_ID"), done>>
      \/ /\ link.person
         /\ \/ w = <<[type |-> "PLAYER_ID", person |-> server.person], told("PLAYER_ID")>>
            \/ w = <<[type |-> "MESSAGE", n |-> server.offset + link.at + 1], later>>
            \/ w = <<Tells("END"), done>>
            \/ w = <<Tells("SYNC"), told("SYNC")>>
  <2>. HIDE DEF Tells
  <2>. QED
    BY DEF ServerTells
<1>. HIDE DEF told, later, done
<1>. QED
  BY <1>1, <1>3, <1>4, <1>5, <1>6, <1>7, <1>8

\* The server tells nothing before the client knows that it is connected.
LEMMA QuietAtFirst ==
    ASSUME Core(c, net, link, hist), net.st = "UP",
           link # NoLink \/ net.toServer # <<>> \/ net.toClient # <<>>
    PROVE  c.state # "RECONNECTING"
BY DEF Core, Wired

LEMMA ServerWritesKeeps ==
    ASSUME Core(c, net, link, hist), server \in Server, Personal(link, server),
           ServerWrites
    PROVE  Core(c', net', link', hist') /\ server' = server
           /\ Personal(link', server')
<1>1. /\ link \in Link /\ net.st = "UP" /\ Len(net.toClient) < WireCap
      /\ c' = c /\ hist' = hist /\ server' = server
  BY DEF Core, ServerWrites, CanWrite
<1>2. PICK w \in ServerTells :
        /\ net' = [net EXCEPT !.toClient = Append(@, w[1])]
        /\ link' = w[2]
  BY DEF ServerWrites
<1>3. /\ w[1] \in ToClient /\ w[2] \in Link
      /\ link.st = "WRITING" /\ w[2].person = link.person
  BY <1>1, TellsAreTyped
<1>4. c.state # "RECONNECTING"
  <2>1. link # NoLink
    BY <1>3 DEF NoLink
  <2>. QED
    BY <1>1, <2>1, QuietAtFirst
<1>. DEFINE f == w[1]
<1>5. f \in ToClient /\ net' = [net EXCEPT !.toClient = Append(@, f)] /\ link' \in Link
  BY <1>2, <1>3
<1>. HIDE DEF f
<1>6. Core(c', net', link', hist')
  BY <1>1, <1>4, <1>5, PutKeeps
<1>. QED
  BY <1>1, <1>2, <1>3, <1>6 DEF Personal

LEMMA ServerShutsKeeps ==
    ASSUME Core(c, net, link, hist), ServerShuts
    PROVE  Core(c', net', link', hist') /\ link'.person = link.person
<1>1. /\ link \in Link /\ net.st = "UP" /\ Len(net.toClient) < WireCap
      /\ c' = c /\ hist' = hist /\ Machine(c) /\ Wired(c, net, link) /\ c \in Conn
      /\ net' = [net EXCEPT !.toClient = Append(@, Tells("EOF"))]
      /\ link' = [link EXCEPT !.st = "SHUT"]
      /\ link.bad \/ (c.sock /\ c.writeFinished)
  BY DEF Core, ServerShuts, CanShut
<1>2. link' \in Link /\ link'.person = link.person
  BY <1>1 DEF Link
<1>3. Tells("EOF") \in ToClient
  BY DEF Tells, ToClient
<1>4. c.state # "RECONNECTING"
  BY <1>1 DEF Wired, Machine, NoLink
<1>. QED
  BY <1>1, <1>2, <1>3, <1>4, PutKeeps

LEMMA NetworkKeeps ==
    ASSUME Core(c, net, link, hist), Connects \/ Breaks \/ Garbles
    PROVE  Core(c', net', link', hist') /\ link'.person \in {link.person, FALSE}
<1>1. /\ c \in Conn /\ Polling(c, net) /\ Wired(c, net, link) /\ net \in Net
      /\ hist \in Hist /\ link \in Link /\ c' = c /\ Backing(c, hist)
  BY DEF Core, Connects, Breaks, Garbles
<1>2. CASE Connects
  <2>1. net.st = "CONNECTING" /\ net' = [net EXCEPT !.st = "UP"]
        /\ link' = link /\ hist' = hist
    BY <1>2 DEF Connects
  <2>2. /\ net' \in Net /\ net'.st = "UP" /\ net'.toServer = net.toServer
        /\ net'.toClient = net.toClient
    BY <1>1, <2>1 DEF Net
  <2>3. Polling(c, net')
    BY <1>1, <2>1, <2>2 DEF Polling
  <2>4. Wired(c, net', link)
    BY <1>1, <2>1, <2>2 DEF Wired
  <2>. QED
    BY <1>1, <2>1, <2>2, <2>3, <2>4 DEF Core
<1>3. CASE Breaks
  <2>1. /\ net' \in Net /\ net'.st = "BROKEN"
        /\ net'.toServer = <<>> /\ net'.toClient = <<>>
        /\ Len(net'.toServer) = 0 /\ Len(net'.toClient) = 0
        /\ link' = NoLink /\ link' \in Link /\ hist' \in Hist
        /\ hist'.tries = hist.tries
    BY <1>1, <1>3, EndedFields DEF Breaks
  <2>2. net.st \in {"CONNECTING", "UP"}
    BY <1>3 DEF Breaks, Unreachable
  <2>3. Polling(c, net')
    BY <1>1, <2>1 DEF Polling
  <2>4. Wired(c, net', link')
    BY <1>1, <2>1, <2>2 DEF Wired
  <2>5. Backing(c, hist')
    BY <1>1, <2>1 DEF Backing
  <2>6. link'.person = FALSE /\ 0 <= WireCap
    BY <2>1, ClientAssumption DEF NoLink
  <2>. QED
    BY <1>1, <2>1, <2>3, <2>4, <2>5, <2>6 DEF Core
<1>4. CASE Garbles
  <2>1. /\ net.st \in {"CONNECTING", "UP"} /\ "UPGRADED" \in link.told
        /\ Len(net.toClient) < WireCap
        /\ net' = [net EXCEPT !.toClient = Append(@, Tells("BAD"))]
        /\ link' = link /\ hist' = hist
    BY <1>4 DEF Garbles, Unreachable
  <2>2. link # NoLink
    BY <2>1 DEF NoLink
  <2>3. net.st = "UP"
    BY <1>1, <2>1, <2>2 DEF Wired
  <2>4. c.state # "RECONNECTING"
    BY <2>2, <2>3, QuietAtFirst
  <2>5. Tells("BAD") \in ToClient
    BY DEF Tells, ToClient
  <2>. QED
    BY <1>1, <2>1, <2>3, <2>4, <2>5, PutKeeps
<1>. QED
  BY <1>2, <1>3, <1>4

LEMMA TickFields ==
    ASSUME c \in Conn, Tick
    PROVE  /\ c' \in Conn /\ Same(c', c, {"reconnectIn", "keepAliveIn", "playerAge", "poll"})
           /\ c'.reconnectIn = Sooner(c.reconnectIn)
           /\ c'.keepAliveIn = Sooner(c.keepAliveIn)
           /\ c'.poll.fd = c.poll.fd /\ c'.poll.events = c.poll.events
           /\ c'.poll.wakeup = Sooner(c.poll.wakeup)
<1>. DEFINE r == Sooner(c.reconnectIn)
            a == Sooner(c.keepAliveIn)
            g == Older(c.playerAge, StableTime)
            p == [c.poll EXCEPT !.wakeup = Sooner(c.poll.wakeup)]
<1>1. r \in Never..MaxTimeout /\ a \in Never..KeepAliveTime
  BY ClientAssumption DEF Conn, Sooner, Never
<1>2. g \in Never..StableTime
  <2>1. CASE c.playerAge = Never
    BY <2>1, TimesInRange DEF Older
  <2>2. CASE c.playerAge # Never
    <3>1. c.playerAge \in Nat /\ StableTime \in Nat
      BY <2>2, ClientAssumption DEF Conn, Never
    <3>. DEFINE both == {c.playerAge + 1, StableTime}
    <3>2. both \in SUBSET Nat /\ both # {}
      BY <3>1
    <3>3. Least(both) \in both /\ \A y \in both : Least(both) <= y
      BY <3>2, LeastOf
    <3>4. Least(both) \in Nat /\ Least(both) <= StableTime
      BY <3>1, <3>3
    <3>5. g = Least(both)
      BY <2>2 DEF Older
    <3>. QED
      BY <3>1, <3>4, <3>5 DEF Never
  <2>. QED
    BY <2>1, <2>2
<1>3. p \in Poll /\ p.fd = c.poll.fd /\ p.events = c.poll.events
      /\ p.wakeup = Sooner(c.poll.wakeup)
  <2>1. Sooner(c.poll.wakeup) \in Int
    BY DEF Sooner, Conn, Poll
  <2>. QED
    BY <2>1 DEF Conn, Poll
<1>4. c' = [c EXCEPT !.reconnectIn = r, !.keepAliveIn = a, !.playerAge = g, !.poll = p]
  BY DEF Tick, Conn
<1>. HIDE DEF r, a, g, p
<1>5. c' \in Conn
  BY <1>1, <1>2, <1>3, <1>4 DEF Conn
<1>6. Same(c', c, {"reconnectIn", "keepAliveIn", "playerAge", "poll"})
      /\ c'.reconnectIn = r /\ c'.keepAliveIn = a /\ c'.poll = p
  BY <1>4 DEF Conn, Same, Fields
<1>. QED
  BY <1>3, <1>5, <1>6 DEF r, a

LEMMA TickKeeps ==
    ASSUME Core(c, net, link, hist), server \in Server, Tick
    PROVE  Core(c', net', link', hist') /\ server' \in Server
           /\ server'.person = server.person /\ (server'.known => server.known)
<1>1. /\ c \in Conn /\ Polling(c, net) /\ Wired(c, net, link) /\ Machine(c)
      /\ hist \in Hist /\ net' = net /\ link' = link
      /\ hist' = [hist EXCEPT !.tries = 0]
  BY DEF Core, Tick
<1>2. /\ c' \in Conn /\ Same(c', c, {"reconnectIn", "keepAliveIn", "playerAge", "poll"})
      /\ c'.reconnectIn = Sooner(c.reconnectIn)
      /\ c'.keepAliveIn = Sooner(c.keepAliveIn)
      /\ c'.poll.fd = c.poll.fd /\ c'.poll.events = c.poll.events
      /\ c'.poll.wakeup = Sooner(c.poll.wakeup)
  BY <1>1, TickFields
<1>3. /\ c'.sock = c.sock /\ c'.state = c.state /\ c'.out = c.out
      /\ c'.dirty = c.dirty /\ c'.tiles = c.tiles /\ c'.messages = c.messages
      /\ c'.typing = c.typing /\ c'.sentTyping = c.sentTyping
      /\ c'.writeFinished = c.writeFinished /\ c'.finished = c.finished
      /\ c'.address = c.address /\ c'.person = c.person /\ c'.name = c.name
  BY <1>2 DEF Same, Fields
<1>4. /\ c.reconnectIn \in Int /\ c.reconnectIn >= Never
      /\ c.keepAliveIn \in Int /\ c.keepAliveIn >= Never /\ c.poll.wakeup \in Int
      /\ Never = -1
  BY <1>1 DEF Conn, Poll, Never
<1>5. /\ c'.reconnectIn = Never <=> c.reconnectIn = Never
      /\ c'.keepAliveIn = Never <=> c.keepAliveIn = Never
  BY <1>2, <1>4 DEF Sooner
<1>6. Machine(c')
  <2>1. HasConfiguration(c') = HasConfiguration(c)
    BY <1>3 DEF HasConfiguration
  <2>. QED
    BY <1>1, <1>3, <1>5, <2>1 DEF Machine
<1>7. c.poll.wakeup # 0
  BY DEF Tick, Idle, LoopDue
<1>8. Polling(c', net)
  <2>1. Events(c') = Events(c)
    BY <1>3 DEF Events, HasPendingData
  <2>2. ASSUME Wakeup(c') # Never
        PROVE  0 <= c'.poll.wakeup /\ c'.poll.wakeup <= Wakeup(c')
    <3>1. Wakeup(c') \in {c'.reconnectIn, c'.keepAliveIn}
      BY <1>2, WakeupIsSooner
    <3>2. /\ Wakeup(c) \in Int
          /\ c.reconnectIn # Never => Wakeup(c) # Never /\ Wakeup(c) <= c.reconnectIn
          /\ c.keepAliveIn # Never => Wakeup(c) # Never /\ Wakeup(c) <= c.keepAliveIn
      BY <1>1, WakeupIsSooner
    <3>3. Wakeup(c) # Never
      BY <1>5, <2>2, <3>1, <3>2
    <3>4. 1 <= c.poll.wakeup /\ c.poll.wakeup <= Wakeup(c)
      BY <1>1, <1>4, <1>7, <3>3 DEF Polling
    <3>5. c'.poll.wakeup = c.poll.wakeup - 1
      BY <1>2, <1>4, <3>4 DEF Sooner
    <3>6. CASE Wakeup(c') = c'.reconnectIn
      <4>1. c.reconnectIn # Never /\ Wakeup(c) <= c.reconnectIn
        BY <1>5, <2>2, <3>2, <3>6
      <4>2. c'.reconnectIn = c.reconnectIn - 1
        BY <1>2, <1>4, <3>2, <3>4, <4>1 DEF Sooner
      <4>. QED
        BY <1>4, <3>2, <3>4, <3>5, <3>6, <4>1, <4>2
    <3>7. CASE Wakeup(c') = c'.keepAliveIn
      <4>1. c.keepAliveIn # Never /\ Wakeup(c) <= c.keepAliveIn
        BY <1>5, <2>2, <3>2, <3>7
      <4>2. c'.keepAliveIn = c.keepAliveIn - 1
        BY <1>2, <1>4, <3>2, <3>4, <4>1 DEF Sooner
      <4>. QED
        BY <1>4, <3>2, <3>4, <3>5, <3>7, <4>1, <4>2
    <3>. QED
      BY <3>1, <3>6, <3>7
  <2>. QED
    BY <1>1, <1>2, <1>3, <1>7, <2>1, <2>2 DEF Polling
<1>9. Wired(c', net, link)
  BY <1>1, <1>3 DEF Wired
<1>10. hist' \in Hist /\ hist'.tries = 0
  BY <1>1 DEF Hist
<1>11. Backing(c', hist')
  BY <1>10 DEF Backing
<1>12. Core(c', net', link', hist')
  BY <1>1, <1>2, <1>3, <1>6, <1>8, <1>9, <1>10, <1>11 DEF Core
<1>13. /\ server' \in Server /\ server'.person = server.person
       /\ server'.known => server.known
  <2>1. /\ server' = IF ~server.known THEN server
                     ELSE IF server.silent < SilenceTime
                     THEN [server EXCEPT !.silent = server.silent + 1]
                     ELSE [server EXCEPT !.known = FALSE, !.left = TRUE,
                                         !.typing = FALSE]
    BY DEF Tick
  <2>2. server.silent < SilenceTime => server.silent + 1 \in 0..SilenceTime
    BY ClientAssumption DEF Server
  <2>. QED
    BY <2>1, <2>2 DEF Server
<1>. QED
  BY <1>12, <1>13

\* The new connection, configured or not.
LEMMA NewClientFields ==
    /\ NewClient \in Conn /\ NewClient.out = <<>> /\ NewClient.poll.fd = FALSE
    /\ NewClient.sock = FALSE /\ NewClient.keepAliveIn = Never
    /\ NewClient.reconnectIn = Never /\ NewClient.dirty = {}
    /\ NewClient.state = "DISCONNECTED"
    /\ \A nt : Polling(NewClient, nt)
<1>. DEFINE none == <<>>
            p == [fd |-> FALSE, events |-> {}, wakeup |-> Never]
            k == [address |-> FALSE, name |-> FALSE, person |-> NoPerson,
                  state |-> "DISCONNECTED", finished |-> FALSE, typing |-> FALSE,
                  sentTyping |-> FALSE, writeFinished |-> FALSE, next |-> 0, timeout |-> 0,
                  reconnectIn |-> Never, playerAge |-> Never, keepAliveIn |-> Never,
                  dirty |-> {}, tiles |-> none, messages |-> none, sock |-> FALSE,
                  synced |-> FALSE, out |-> none, upgraded |-> FALSE, poll |-> p]
<1>1. NewClient = k
  BY DEF NewClient
<1>2. none \in Seq(ToServer) /\ none \in Seq(Nat)
      /\ none \in Seq([num : Tile, place : Place])
  BY EmptySeq
<1>3. p \in Poll
  BY DEF Poll, Never
<1>4. p.fd = FALSE
  OBVIOUS
<1>. HIDE DEF none, p
<1>5. k \in Conn
  BY <1>2, <1>3, TimesInRange DEF Conn, States, FlagSet, NoPerson
<1>6. /\ k.out = none /\ k.poll = p /\ k.sock = FALSE /\ k.keepAliveIn = Never
      /\ k.reconnectIn = Never /\ k.dirty = {} /\ k.state = "DISCONNECTED"
  OBVIOUS
<1>. HIDE DEF k
<1>7. Wakeup(k) = Never
  BY <1>5, <1>6, WakeupIsSooner
<1>8. \A nt : Polling(k, nt)
  BY <1>4, <1>6, <1>7 DEF Polling
<1>. QED
  BY <1>1, <1>4, <1>5, <1>6, <1>8 DEF none

LEMMA InitSound ==
    Init => ClientInvariant
<1>. SUFFICES ASSUME Init PROVE ClientInvariant
  OBVIOUS
<1>1. /\ plan \in Plan
      /\ plan \in [calls : SUBSET Calls, budget : Nat, faults : Nat, others : Nat,
                   fresh : BOOLEAN]
      /\ left = [calls |-> plan.budget, faults |-> plan.faults,
                 others |-> plan.others]
  BY ClientAssumption DEF Init
<1>2. left \in [calls : 0..plan.budget, faults : 0..plan.faults,
                others : 0..plan.others]
  BY <1>1
<1>3. /\ NewClient \in Conn /\ NewClient.out = <<>> /\ NewClient.poll.fd = FALSE
      /\ NewClient.sock = FALSE /\ NewClient.keepAliveIn = Never
      /\ NewClient.reconnectIn = Never /\ NewClient.dirty = {}
      /\ NewClient.state = "DISCONNECTED"
      /\ \A nt : Polling(NewClient, nt)
  BY NewClientFields
<1>4. /\ NoNet \in Net /\ Len(NoNet.toServer) = 0 /\ Len(NoNet.toClient) = 0
      /\ NoNet.toServer = <<>> /\ NoNet.toClient = <<>> /\ NoNet.st = "NONE"
      /\ NoLink \in Link /\ 0 <= WireCap /\ 0 <= OutCap /\ NoHist \in Hist
      /\ NoHist.tries = 0
  BY NothingIsTyped, ClientAssumption DEF NoNet, NoHist
<1>5. hist \in Hist /\ hist.tries = 0
  <2>1. hist = [NoHist EXCEPT !.wanted = ~plan.fresh]
    BY DEF Init
  <2>. QED
    BY <1>4, <2>1 DEF Hist
<1>6. net = NoNet /\ link = NoLink /\ polled = NotYet
  BY DEF Init
<1>7. Len(<<>>) = 0
  BY EmptySeq
<1>8. /\ c \in Conn /\ c.out = <<>> /\ Machine(c) /\ c.sock = FALSE
      /\ Polling(c, net)
  <2>1. CASE plan.fresh
    <3>1. c = NewClient
      BY <2>1 DEF Init
    <3>. QED
      BY <1>3, <3>1 DEF Machine
  <2>2. CASE ~plan.fresh
    <3>. DEFINE k == [NewClient EXCEPT !.address = TRUE, !.name = TRUE]
    <3>1. c = StartConnecting(k)
      BY <2>2 DEF Init
    <3>2. k \in Conn /\ Same(k, NewClient, {"address", "name"}) /\ k.address /\ k.name
      BY <1>3 DEF Conn, Same, Fields
    <3>. HIDE DEF k
    <3>3. /\ k.sock = FALSE /\ k.out = <<>> /\ k.poll.fd = FALSE
          /\ k.keepAliveIn = Never /\ k.dirty = {} /\ HasConfiguration(k)
      BY <1>3, <3>2 DEF Same, Fields, HasConfiguration
    <3>4. /\ c \in Conn
          /\ Same(c, k, {"timeout", "reconnectIn", "state", "poll", "writeFinished"})
          /\ c.reconnectIn = 0 /\ c.state = "WAITING_FOR_RECONNECT"
          /\ \A nt : Polling(c, nt)
      BY <3>1, <3>2, <3>3, StartConnectingFields
    <3>5. /\ c.sock = FALSE /\ c.out = <<>> /\ c.keepAliveIn = Never
          /\ c.dirty = {} /\ HasConfiguration(c)
      BY <3>2, <3>3, <3>4 DEF Same, Fields, HasConfiguration
    <3>. QED
      BY <3>4, <3>5 DEF Machine
  <2>. QED
    BY <2>1, <2>2
<1>9. Wired(c, net, link) /\ Backing(c, hist)
  BY <1>4, <1>5, <1>6, <1>8 DEF Wired, Backing
<1>10. Core(c, net, link, hist)
  BY <1>4, <1>5, <1>6, <1>7, <1>8, <1>9 DEF Core
<1>11. server \in Server /\ Personal(link, server)
  <2>. DEFINE none == <<>>
              places == [t \in Tile |-> Nowhere]
  <2>1. none \in Seq(Nat) /\ places \in Places /\ 0 \in 0..SilenceTime
    BY EmptySeq, ClientAssumption DEF Places
  <2>2. server \in {NewPerson(Saved, 0),
                    [NewPerson(Saved, 0) EXCEPT !.known = FALSE, !.left = TRUE],
                    [NewPerson(NoPerson, 0) EXCEPT !.known = FALSE]}
    BY DEF Init
  <2>. HIDE DEF none, places
  <2>3. \A id \in {Saved, NoPerson} : NewPerson(id, 0) =
          [person |-> id, known |-> TRUE, left |-> FALSE, offset |-> 0, log |-> 0,
           heard |-> none, typing |-> FALSE, place |-> places, silent |-> 0]
    BY DEF NewPerson, none, places
  <2>4. Saved \in Nat /\ NoPerson \in Nat /\ Saved # NoPerson
    BY DEF Saved, NoPerson
  <2>a. ASSUME NEW id \in Nat, NewPerson(id, 0) =
          [person |-> id, known |-> TRUE, left |-> FALSE, offset |-> 0, log |-> 0,
           heard |-> none, typing |-> FALSE, place |-> places, silent |-> 0]
        PROVE  NewPerson(id, 0) \in Server /\ NewPerson(id, 0).person = id
    <3>. DEFINE r == [person |-> id, known |-> TRUE, left |-> FALSE, offset |-> 0,
                      log |-> 0, heard |-> none, typing |-> FALSE, place |-> places,
                      silent |-> 0]
    <3>1. r \in Server
      BY <2>1, <2>a DEF Server
    <3>2. r.person = id
      OBVIOUS
    <3>. HIDE DEF r
    <3>3. NewPerson(id, 0) = r
      BY <2>a DEF r
    <3>. QED
      BY <3>1, <3>2, <3>3
  <2>b. ASSUME NEW s \in Server
        PROVE  /\ [s EXCEPT !.known = FALSE, !.left = TRUE] \in Server
               /\ ~[s EXCEPT !.known = FALSE, !.left = TRUE].known
               /\ [s EXCEPT !.known = FALSE] \in Server
               /\ ~[s EXCEPT !.known = FALSE].known
    BY DEF Server
  <2>5. server \in Server /\ (server.known => server.person # NoPerson)
    <3>. DEFINE p == NewPerson(Saved, 0)  q == NewPerson(NoPerson, 0)
    <3>1. p \in Server /\ p.person = Saved
      BY <2>3, <2>4, <2>a
    <3>2. q \in Server
      BY <2>3, <2>4, <2>a
    <3>3. server \in {p, [p EXCEPT !.known = FALSE, !.left = TRUE],
                      [q EXCEPT !.known = FALSE]}
      BY <2>2
    <3>. HIDE DEF p, q
    <3>4. CASE server = p
      BY <2>4, <3>1, <3>4
    <3>5. CASE server = [p EXCEPT !.known = FALSE, !.left = TRUE]
      BY <2>b, <3>1, <3>5
    <3>6. CASE server = [q EXCEPT !.known = FALSE]
      BY <2>b, <3>2, <3>6
    <3>. QED
      BY <3>3, <3>4, <3>5, <3>6
  <2>6. link.person = FALSE
    BY <1>6 DEF NoLink
  <2>. QED
    BY <2>5, <2>6 DEF Personal
<1>. QED
  BY <1>1, <1>2, <1>6, <1>10, <1>11 DEF ClientInvariant

\* Each step keeps the core of the invariant.
LEMMA WakeUpKeeps ==
    ASSUME Core(c, net, link, hist), WakeUp
    PROVE  Core(c', net', link', hist')
BY TryReconnectKeeps, HandleReadKeeps, HandleWriteKeeps, WakeUpForNothingKeeps
   DEF WakeUp

LEMMA ApplicationKeeps ==
    ASSUME Core(c, net, link, hist), Application
    PROVE  Core(c', net', link', hist')
<1>1. CASE SetFlag
  BY <1>1, SetDirtyKeeps DEF SetFlag
<1>2. CASE Leave
  BY <1>2, SetDirtyKeeps DEF Leave
<1>3. CASE \E t \in Tile, p \in Place : MoveTile(t, p)
  BY <1>3, MoveTileKeeps
<1>. QED
  BY <1>1, <1>2, <1>3, ConfigureKeeps, StartKeeps, StopKeeps, ResetKeeps,
     SetTypingKeeps, SendMessageKeeps DEF Application

\* Who the server follows after a call or after the loop of the worker.
LEMMA LinkIsKeptOrLost ==
    ASSUME Application \/ WakeUp
    PROVE  link' \in {link, NoLink}
<1>1. CASE Application
  BY <1>1 DEF Application, SetAddress, SetPlayerName, SetPersonId, Start, Stop, Reset,
       SetTyping, SetFlag, SendMessage, Leave, MoveTile
<1>2. CASE WakeUp
  BY <1>2 DEF WakeUp, TryReconnect, HandleRead, HandleWrite, WakeUpForNothing,
       ReadsNothing, Dropped, Ended
<1>. QED
  BY <1>1, <1>2

\* What the budget of a plan allows.
LEMMA BudgetKeeps ==
    ASSUME plan \in Plan,
           left \in [calls : 0..plan.budget, faults : 0..plan.faults,
                     others : 0..plan.others],
           [Next]_vars
    PROVE  /\ plan' = plan
           /\ left' \in [calls : 0..plan.budget, faults : 0..plan.faults,
                         others : 0..plan.others]
<1>1. plan.budget \in Nat /\ plan.faults \in Nat /\ plan.others \in Nat
  BY ClientAssumption
<1>2. plan' = plan
  BY DEF Next, vars, Application, PollReturns, WakeUp, Environment, ServerReads,
         ServerWrites, ServerShuts, OtherSays, Connects, Breaks, Garbles, Tick
<1>3. \/ left' = left
      \/ left.calls > 0 /\ left' = [left EXCEPT !.calls = @ - 1]
      \/ left.faults > 0 /\ left' = [left EXCEPT !.faults = @ - 1]
      \/ left.others > 0 /\ left' = [left EXCEPT !.others = @ - 1]
  <2>1. CASE UNCHANGED vars
    BY <2>1 DEF vars
  <2>2. CASE Application
    BY <2>2 DEF Application, SetAddress, SetPlayerName, SetPersonId, Start, Stop, Reset,
       SetTyping, SetFlag, SendMessage, Leave, MoveTile, Called
  <2>3. CASE PollReturns \/ WakeUp
    BY <2>3 DEF PollReturns, WakeUp, TryReconnect, HandleRead, HandleWrite,
       WakeUpForNothing
  <2>4. CASE Environment
    BY <2>4 DEF Environment, ServerReads, ServerWrites, ServerShuts, OtherSays,
       Connects, Breaks, Garbles, Tick, Unreachable
  <2>. QED
    BY <2>1, <2>2, <2>3, <2>4 DEF Next
<1>. QED
  BY <1>1, <1>2, <1>3

LEMMA StepSound ==
    ASSUME ClientInvariant, [Next]_vars
    PROVE  ClientInvariant'
<1>1. /\ plan \in Plan
      /\ left \in [calls : 0..plan.budget, faults : 0..plan.faults,
                   others : 0..plan.others]
      /\ polled \in {NotYet} \cup Events2
      /\ server \in Server /\ Personal(link, server)
      /\ Core(c, net, link, hist)
  BY DEF ClientInvariant
<1>2. /\ plan' \in Plan
      /\ left' \in [calls : 0..plan'.budget, faults : 0..plan'.faults,
                    others : 0..plan'.others]
  BY <1>1, BudgetKeeps
<1>3. polled' \in {NotYet} \cup Events2
  <2>1. CASE PollReturns
    <3>1. c.poll.events \subseteq {"IN", "OUT"}
      BY <1>1 DEF Core, Conn, Poll
    <3>2. ReadyEvents \subseteq {"IN", "OUT", "ERR"}
      BY <3>1 DEF ReadyEvents
    <3>. QED
      BY <2>1, <3>2 DEF PollReturns, Events2
  <2>2. CASE ~PollReturns
    BY <1>1, <2>2 DEF Next, vars, Application, WakeUp, Environment, ServerReads,
       ServerWrites, ServerShuts, OtherSays, Connects, Breaks, Garbles, Tick
  <2>. QED
    BY <2>1, <2>2
<1>4. /\ Core(c', net', link', hist') /\ server' \in Server
      /\ Personal(link', server')
  <2>1. CASE UNCHANGED vars \/ PollReturns
    BY <1>1, <2>1 DEF vars, PollReturns
  <2>2. CASE Application \/ WakeUp
    <3>1. server' = server
      BY <2>2 DEF Application, WakeUp
    <3>2. link'.person = link.person \/ ~link'.person
      BY <2>2, LinkIsKeptOrLost DEF NoLink
    <3>3. Core(c', net', link', hist')
      BY <1>1, <2>2, WakeUpKeeps, ApplicationKeeps
    <3>. QED
      BY <1>1, <3>1, <3>2, <3>3 DEF Personal
  <2>3. CASE ServerReads
    BY <1>1, <2>3, ServerReadsKeeps
  <2>4. CASE ServerWrites
    BY <1>1, <2>4, ServerWritesKeeps
  <2>5. CASE ServerShuts
    <3>1. server' = server
      BY <2>5 DEF ServerShuts
    <3>. QED
      BY <1>1, <2>5, <3>1, ServerShutsKeeps DEF Personal
  <2>6. CASE OtherSays
    <3>1. /\ c' = c /\ net' = net /\ link' = link /\ hist' = hist
          /\ server' = [server EXCEPT !.log = @ + 1]
      BY <2>6 DEF OtherSays
    <3>2. /\ server' \in Server /\ server'.person = server.person
          /\ server'.known = server.known
      BY <1>1, <3>1 DEF Server
    <3>. QED
      BY <1>1, <3>1, <3>2 DEF Personal
  <2>7. CASE Connects \/ Breaks \/ Garbles
    <3>1. server' = server
      BY <2>7 DEF Connects, Breaks, Garbles
    <3>. QED
      BY <1>1, <2>7, <3>1, NetworkKeeps DEF Personal
  <2>8. CASE Tick
    <3>1. link' = link
      BY <2>8 DEF Tick
    <3>. QED
      BY <1>1, <2>8, <3>1, TickKeeps DEF Personal
  <2>. QED
    BY <2>1, <2>2, <2>3, <2>4, <2>5, <2>6, <2>7, <2>8 DEF Next, Environment
<1>. QED
  BY <1>2, <1>3, <1>4 DEF ClientInvariant, Core, Machine, Polling, Wired, Backing,
     Wakeup, Events, HasPendingData, HasConfiguration, Personal

LEMMA ClientInvariantHolds ==
    Spec => []ClientInvariant
<1>1. ClientInvariant /\ [Next]_vars => ClientInvariant'
  BY StepSound
<1>. QED
  BY <1>1, InitSound, PTL DEF Spec

\* What the code takes for granted of its own state holds, the types of its fields
\* and what the header needs; and no path through it leaves out an update of
\* what the worker polls for: while the worker sleeps, there is nothing that it
\* would have to be woken for earlier.
THEOREM ClientIsSound ==
    Spec => []ClientSound
<1>1. ASSUME ClientInvariant PROVE ClientTypeOK
  <2>1. /\ plan \in Plan
        /\ left.calls \in 0..plan.budget /\ left.faults \in 0..plan.faults
        /\ left.others \in 0..plan.others
        /\ polled = NotYet \/ polled \subseteq {"IN", "OUT", "ERR"}
    BY <1>1 DEF ClientInvariant, Events2
  <2>2. /\ c \in Conn /\ Len(c.out) <= OutCap /\ Machine(c)
        /\ Len(net.toServer) <= WireCap /\ Len(net.toClient) <= WireCap
    BY <1>1 DEF ClientInvariant, Core
  <2>3. /\ c.state \in {"DISCONNECTED", "RECONNECTING", "RUNNING",
                        "WAITING_FOR_RECONNECT", "WAITING_FOR_CONFIGURATION"}
        /\ {c.address, c.name, c.finished, c.typing, c.sentTyping, c.sock, c.synced,
            c.writeFinished, c.upgraded, c.poll.fd} \subseteq BOOLEAN
        /\ c.timeout \in 0..MaxTimeout /\ c.reconnectIn \in Never..MaxTimeout
        /\ c.keepAliveIn \in Never..KeepAliveTime
        /\ c.playerAge \in Never..StableTime
    BY <2>2 DEF Conn, Poll, States
  <2>4. c.dirty \subseteq {Flags[i] : i \in DOMAIN Flags}
    <3>1. /\ DOMAIN Flags = 1..5
          /\ Flags[1] = "WS_HEADER" /\ Flags[2] = "HEADER" /\ Flags[3] = "KEEP_ALIVE"
          /\ Flags[4] = "N_TILES" /\ Flags[5] = "LEAVE"
      BY DEF Flags
    <3>2. FlagSet \subseteq {Flags[i] : i \in DOMAIN Flags}
      BY <3>1 DEF FlagSet
    <3>. QED
      BY <2>2, <3>2 DEF Conn
  <2>5. server.silent \in 0..SilenceTime
    BY <1>1 DEF ClientInvariant, Server
  <2>6. "HEADER" \in c.dirty => c.person # NoPerson \/ c.name
    BY <2>2 DEF Machine, HasConfiguration
  <2>. QED
    BY <2>1, <2>2, <2>3, <2>4, <2>5, <2>6 DEF ClientTypeOK
<1>2. ASSUME ClientInvariant PROVE NothingWaitsForAPoll
  <2>1. SUFFICES ASSUME polled = NotYet, ~LoopDue
                 PROVE  /\ c.poll.fd = c.sock
                        /\ c.sock => Events(c) \subseteq c.poll.events
                        /\ Wakeup(c) # Never => c.poll.wakeup \in 0..Wakeup(c)
    BY DEF NothingWaitsForAPoll
  <2>2. /\ Polling(c, net) /\ Wired(c, net, link) /\ net \in Net /\ c \in Conn
    BY <1>2 DEF ClientInvariant, Core
  <2>3. ReadyEvents = {} /\ c.poll.wakeup # 0
    BY <2>1 DEF LoopDue
  <2>4. ASSUME c.sock PROVE Events(c) \subseteq c.poll.events
    <3>1. SUFFICES ASSUME "OUT" \in c.poll.events, net.st # "CONNECTING",
                          net.st = "UP" => net.toServer = <<>>
                   PROVE  FALSE
      BY <2>2, <2>3, <2>4 DEF Polling
    <3>2. net.st \in {"UP", "BROKEN"} /\ c.poll.fd
      BY <2>2, <2>4, <3>1 DEF Wired, Polling, Net
    <3>3. CASE net.st = "UP"
      <4>1. Len(net.toServer) < WireCap
        BY <3>1, <3>3, EmptySeq, ClientAssumption
      <4>2. "OUT" \in ReadyEvents
        BY <3>1, <3>2, <3>3, <4>1 DEF ReadyEvents
      <4>. QED
        BY <2>3, <4>2
    <3>4. CASE net.st = "BROKEN"
      <4>1. "ERR" \in ReadyEvents
        BY <3>2, <3>4 DEF ReadyEvents
      <4>. QED
        BY <2>3, <4>1
    <3>. QED
      BY <3>2, <3>3, <3>4
  <2>5. Wakeup(c) # Never => c.poll.wakeup \in 0..Wakeup(c)
    <3>1. c.poll.wakeup \in Int /\ Wakeup(c) \in Int
      BY <2>2, WakeupIsSooner DEF Conn, Poll
    <3>. QED
      BY <2>2, <3>1 DEF Polling
  <2>. QED
    BY <2>2, <2>4, <2>5 DEF Polling
<1>. QED
  BY <1>1, <1>2, ClientInvariantHolds, PTL DEF ClientSound

\* The comment in report_error: a connection that was stable is tried again at once,
\* but that can never make a loop of tries in the same instant.
THEOREM ClientBacksOff ==
    Spec => []BacksOff
<1>1. ClientInvariant => BacksOff
  BY DEF ClientInvariant, Core, Backing, BacksOff
<1>. QED
  BY <1>1, ClientInvariantHolds, PTL

-----------------------------------------------------------------------------
(* The conversation with the server, step by step.                         *)

\* There is no connection any more, or a new one that nothing has gone over.
LEMMA LostTalks ==
    ASSUME Talk(c, net, link, server, hist), net'.st # "UP", net'.toClient = <<>>,
           link' = NoLink, server' = server, Showing(c', server, hist'.shown),
           Timed(c')
    PROVE  Talk(c', net', link', server', hist')
<1>1. Len(net'.toClient) = 0
  BY EmptySeq
<1>2. ~link'.person /\ ~link'.refused /\ ~link'.bad
  BY DEF NoLink
<1>3. server.offset <= server.log
  BY DEF Talk, Tellings
<1>4. Tellings(c', net'.toClient, 1, link', server)
  BY <1>1, <1>2, <1>3 DEF Tellings
<1>. QED
  BY <1>2, <1>4 DEF Talk, Breathing

\* Nothing changes of what the client has written, knows and waits for.
LEMMA SameTalks ==
    ASSUME Talk(c, net, link, server, hist),
           c'.sock = c.sock, c'.person = c.person, c'.next = c.next, c'.out = c.out,
           "HEADER" \in c'.dirty <=> "HEADER" \in c.dirty,
           "WS_HEADER" \in c'.dirty <=> "WS_HEADER" \in c.dirty,
           c'.keepAliveIn \in {c.keepAliveIn, Never}, c.finished => c'.finished,
           Timed(c'), net' = net, link' = link, server' = server,
           hist'.shown = hist.shown, hist'.putOff = hist.putOff
    PROVE  Talk(c', net', link', server', hist')
<1>1. Line(c', net') = Line(c, net) /\ Header(c') = Header(c)
  BY DEF Line, Header
<1>2. net.st = "UP" => Stages(c', Line(c', net'), link')
  BY <1>1 DEF Talk, Stages
<1>3. Tellings(c', net'.toClient, 1, link', server')
  BY DEF Talk, Tellings
<1>4. Showing(c', server', hist'.shown)
  BY DEF Talk, Showing
<1>5. Breathing(c', net', link', server', hist')
  BY DEF Talk, Breathing
<1>. QED
  BY <1>2, <1>3, <1>4, <1>5 DEF Talk

\* An append after a concatenation.
LEMMA ConcatAppend ==
    ASSUME NEW S, NEW a \in Seq(S), NEW b \in Seq(S), NEW e \in S
    PROVE  a \o Append(b, e) = Append(a \o b, e)
<1>1. Append(b, e) = b \o <<e>> /\ Append(a \o b, e) = (a \o b) \o <<e>>
  BY AppendIsConcat, ConcatProperties
<1>2. <<e>> \in Seq(S)
  OBVIOUS
<1>. QED
  BY <1>1, <1>2, ConcatAssociative

LEMMA CommandKeepsStage ==
    ASSUME NEW p \in Seq(ToServer), NEW f \in ToServer, f.type \in Commands,
           NEW q, NEW r, NEW lk, Stages(q, p, lk), Header(r) = Header(q),
           "WS_HEADER" \notin q.dirty, "HEADER" \notin q.dirty,
           "WS_HEADER" \notin r.dirty, "HEADER" \notin r.dirty
    PROVE  Stages(r, Append(p, f), lk)
<1>. DEFINE more == Append(p, f)
<1>1. /\ Len(p) \in Nat /\ DOMAIN p = 1..Len(p)
      /\ more \in Seq(ToServer) /\ Len(more) = Len(p) + 1
      /\ DOMAIN more = 1..Len(more)
      /\ \A i \in 1..Len(p) : more[i] = p[i]
      /\ more[Len(p) + 1] = f
  BY AppendProperties, LenProperties
<1>. HIDE DEF more
<1>2. ASSUME NEW from \in Nat, OnlyCommands(p, from) PROVE OnlyCommands(more, from)
  BY <1>1, <1>2 DEF OnlyCommands
<1>3. \/ /\ lk = NoLink
         /\ Len(p) >= 2 /\ p[1] = WsHeader /\ p[2] = Header(q)
         /\ OnlyCommands(p, 3)
      \/ /\ Greeted(lk)
         /\ Len(p) >= 1 /\ p[1] = Header(q)
         /\ OnlyCommands(p, 2)
      \/ /\ lk.st # "NONE" /\ (lk.person <=> ~(lk.refused \/ lk.bad))
         /\ OnlyCommands(p, 1)
  BY DEF Stages
<1>4. \/ /\ lk = NoLink
         /\ Len(more) >= 2 /\ more[1] = WsHeader /\ more[2] = Header(r)
         /\ OnlyCommands(more, 3)
      \/ /\ Greeted(lk)
         /\ Len(more) >= 1 /\ more[1] = Header(r)
         /\ OnlyCommands(more, 2)
      \/ /\ lk.st # "NONE" /\ (lk.person <=> ~(lk.refused \/ lk.bad))
         /\ OnlyCommands(more, 1)
  BY <1>1, <1>2, <1>3
<1>. QED
  BY <1>4 DEF Stages, more

\* Each item is written in its place.
LEMMA ItemKeepsStage ==
    ASSUME NEW q \in Conn, NEW lk, NEW ts \in Seq(ToServer),
           Stages(q, ts \o q.out, lk), NEW r \in Conn,
           \/ WritesFlag(q, r) \/ WritesMove(q, r) \/ WritesMessage(q, r)
           \/ WritesTyping(q, r) \/ WritesNothing(q, r)
    PROVE  Stages(r, ts \o r.out, lk)
<1>. DEFINE p == ts \o q.out
<1>1. q.out \in Seq(ToServer) /\ p \in Seq(ToServer)
  BY ConcatProperties DEF Conn
<1>2. ASSUME NEW f \in ToServer, r.out = Append(q.out, f)
      PROVE  ts \o r.out = Append(p, f)
  BY <1>1, <1>2, ConcatAppend
<1>3. Stages(q, p, lk)
  OBVIOUS
<1>. HIDE DEF p
<1>4. CASE WritesFlag(q, r)
  <2>1. PICK flag \in q.dirty :
          /\ flag # "WS_HEADER" => "WS_HEADER" \notin q.dirty
          /\ flag \notin {"WS_HEADER", "HEADER"} => "HEADER" \notin q.dirty
          /\ Same(r, q, {"out", "dirty"})
          /\ r.out = Append(q.out, FlagFrame(q, flag)) /\ r.dirty = q.dirty \ {flag}
          /\ FlagFrame(q, flag) \in ToServer
    BY <1>4 DEF WritesFlag
  <2>2. ts \o r.out = Append(p, FlagFrame(q, flag))
    BY <1>2, <2>1
  <2>3. Header(r) = Header(q)
    BY <2>1 DEF Header, Same, Fields
  <2>4. CASE flag = "WS_HEADER"
    <3>1. "HEADER" \in q.dirty /\ p = <<>> /\ lk = NoLink
      BY <1>3, <2>1, <2>4 DEF Stages
    <3>2. FlagFrame(q, flag) = WsHeader
      BY <2>4 DEF FlagFrame, WsHeader
    <3>3. Append(p, WsHeader) = <<WsHeader>>
      BY <3>1
    <3>4. "WS_HEADER" \notin r.dirty /\ "HEADER" \in r.dirty
      BY <2>1, <2>4, <3>1
    <3>. QED
      BY <2>2, <3>1, <3>2, <3>3, <3>4 DEF Stages
  <2>5. CASE flag = "HEADER"
    <3>1. /\ FlagFrame(q, flag) = Header(q)
          /\ "WS_HEADER" \notin q.dirty /\ "WS_HEADER" \notin r.dirty
          /\ "HEADER" \notin r.dirty /\ "HEADER" \in q.dirty
      BY <2>1, <2>5 DEF FlagFrame
    <3>2. \/ p = <<WsHeader>> /\ lk = NoLink
          \/ p = <<>> /\ Greeted(lk)
      BY <1>3, <3>1 DEF Stages
    <3>. DEFINE h == Header(q)
                line == ts \o r.out
    <3>3. line = Append(p, h)
      BY <2>2, <3>1
    <3>. HIDE DEF h, line
    <3>4. CASE p = <<WsHeader>> /\ lk = NoLink
      <4>1. p \in Seq(ToServer) /\ Len(p) = 1 /\ p[1] = WsHeader /\ h \in ToServer
        BY <1>1, <2>1, <3>1, <3>4 DEF h
      <4>7. p \in Seq(ToServer) /\ h \in ToServer
        BY <4>1
      <4>6. /\ Append(p, h) \in Seq(ToServer) /\ Len(Append(p, h)) = Len(p) + 1
            /\ \A i \in 1..Len(p) : Append(p, h)[i] = p[i]
            /\ Append(p, h)[Len(p) + 1] = h
        BY <4>7, AppendProperties
      <4>5. line \in Seq(ToServer) /\ Len(line) = Len(p) + 1
            /\ (\A i \in 1..Len(p) : line[i] = p[i]) /\ line[Len(p) + 1] = h
        BY <3>3, <4>6
      <4>2. Len(line) = 2 /\ line[1] = WsHeader /\ line[2] = h
            /\ DOMAIN line = 1..2
        BY <4>1, <4>5, LenProperties
      <4>3. OnlyCommands(line, 3)
        BY <4>2 DEF OnlyCommands
      <4>4. Len(line) >= 2 /\ line[2] = Header(r)
        BY <2>3, <4>2 DEF h
      <4>. QED
        BY <3>1, <3>4, <4>2, <4>3, <4>4 DEF Stages, line
    <3>5. CASE p = <<>> /\ Greeted(lk)
      <4>1. line = <<h>>
        BY <3>3, <3>5
      <4>2. Len(line) = 1 /\ line[1] = h /\ DOMAIN line = 1..1
        BY <4>1
      <4>3. OnlyCommands(line, 2)
        BY <4>2 DEF OnlyCommands
      <4>4. Len(line) >= 1 /\ line[1] = Header(r)
        BY <2>3, <4>2 DEF h
      <4>. QED
        BY <3>1, <3>5, <4>3, <4>4 DEF Stages, line
    <3>. QED
      BY <3>2, <3>4, <3>5
  <2>6. CASE flag \notin {"WS_HEADER", "HEADER"}
    <3>1. /\ "WS_HEADER" \notin q.dirty /\ "HEADER" \notin q.dirty
          /\ "WS_HEADER" \notin r.dirty /\ "HEADER" \notin r.dirty
      BY <2>1, <2>6
    <3>2. flag \in {"KEEP_ALIVE", "N_TILES", "LEAVE"}
      BY <2>6 DEF Conn, FlagSet
    <3>3. FlagFrame(q, flag).type \in Commands
      BY <3>2 DEF FlagFrame, Commands
    <3>4. Stages(r, Append(p, FlagFrame(q, flag)), lk)
      BY <1>1, <1>3, <2>1, <2>3, <3>1, <3>3, CommandKeepsStage
    <3>. QED
      BY <2>2, <3>4
  <2>. QED
    BY <2>4, <2>5, <2>6
<1>5. CASE \E f \in ToServer : /\ f.type \in Commands /\ r.out = Append(q.out, f)
                               /\ q.dirty = {} /\ r.dirty = {} /\ Header(r) = Header(q)
  <2>1. PICK f \in ToServer : /\ f.type \in Commands /\ r.out = Append(q.out, f)
                              /\ q.dirty = {} /\ r.dirty = {} /\ Header(r) = Header(q)
    BY <1>5
  <2>2. Stages(r, Append(p, f), lk)
    BY <1>1, <1>3, <2>1, CommandKeepsStage
  <2>. QED
    BY <1>2, <2>1, <2>2
<1>6. CASE WritesMove(q, r)
  <2>. DEFINE f == [type |-> "MOVE_TILE", tile |-> Head(q.tiles).num,
                    place |-> Head(q.tiles).place]
  <2>1. f \in ToServer /\ f.type \in Commands
    BY <1>6 DEF WritesMove, ToServer, Commands
  <2>2. r.out = Append(q.out, f) /\ q.dirty = {} /\ r.dirty = {} /\ Header(r) = Header(q)
    BY <1>6 DEF WritesMove, Same, Fields, Header
  <2>. HIDE DEF f
  <2>. QED
    BY <1>5, <2>1, <2>2
<1>7. CASE WritesMessage(q, r)
  <2>. DEFINE f == [type |-> "SEND_MESSAGE", n |-> Head(q.messages)]
  <2>1. f \in ToServer /\ f.type \in Commands
    BY <1>7 DEF WritesMessage, ToServer, Commands
  <2>2. r.out = Append(q.out, f) /\ q.dirty = {} /\ r.dirty = {} /\ Header(r) = Header(q)
    BY <1>7 DEF WritesMessage, Same, Fields, Header
  <2>. HIDE DEF f
  <2>. QED
    BY <1>5, <2>1, <2>2
<1>8. CASE WritesTyping(q, r)
  <2>. DEFINE f == [type |-> "TYPING", on |-> q.typing]
  <2>1. f \in ToServer /\ f.type \in Commands
    BY DEF Conn, ToServer, Commands
  <2>2. r.out = Append(q.out, f) /\ q.dirty = {} /\ r.dirty = {} /\ Header(r) = Header(q)
    BY <1>8 DEF WritesTyping, Same, Fields, Header
  <2>. HIDE DEF f
  <2>. QED
    BY <1>5, <2>1, <2>2
<1>9. CASE WritesNothing(q, r)
  BY <1>9 DEF WritesNothing
<1>. QED
  BY <1>4, <1>6, <1>7, <1>8, <1>9

\* The stage is a matter of the line, the header and whether it is written yet.
LEMMA StageStays ==
    ASSUME NEW q, NEW p, NEW lk, Stages(q, p, lk), NEW r,
           "HEADER" \in r.dirty <=> "HEADER" \in q.dirty,
           "WS_HEADER" \in r.dirty <=> "WS_HEADER" \in q.dirty,
           r.person = q.person, r.next = q.next
    PROVE  Stages(r, p, lk)
<1>1. Header(r) = Header(q)
  BY DEF Header
<1>. QED
  BY <1>1 DEF Stages

\* What vsx_connection_wake_up begins with says nothing.
LEMMA WokenTalks ==
    ASSUME Core(c, net, link, hist), Talk(c, net, link, server, hist), c.sock
    PROVE  /\ Woken \in Conn /\ Woken.out = c.out /\ Timed(Woken)
           /\ Woken.sock = c.sock /\ Woken.person = c.person
           /\ Woken.next = c.next /\ Woken.finished = c.finished
           /\ Woken.keepAliveIn \in {c.keepAliveIn, Never}
           /\ "HEADER" \in Woken.dirty <=> "HEADER" \in c.dirty
           /\ "WS_HEADER" \in Woken.dirty <=> "WS_HEADER" \in c.dirty
           /\ net.st = "UP" => Stages(Woken, net.toServer \o c.out, link)
<1>1. c \in Conn
  BY DEF Core
<1>2. /\ Woken \in Conn /\ Woken.out = c.out
      /\ "HEADER" \in Woken.dirty <=> "HEADER" \in c.dirty
      /\ "WS_HEADER" \in Woken.dirty <=> "WS_HEADER" \in c.dirty
  BY WokenKeeps
<1>3. /\ Same(Woken, c, {"state", "keepAliveIn", "dirty"})
      /\ IF c.keepAliveIn = 0
           THEN Woken.keepAliveIn = Never
                /\ Woken.dirty = c.dirty \cup {"KEEP_ALIVE"}
           ELSE Woken.keepAliveIn = c.keepAliveIn /\ Woken.dirty = c.dirty
  BY <1>1, WokenFields
<1>4. /\ Woken.sock = c.sock /\ Woken.person = c.person
      /\ Woken.next = c.next /\ Woken.finished = c.finished
  BY <1>3 DEF Same, Fields
<1>5. Timed(Woken)
  <2>1. CASE c.keepAliveIn = 0
    BY <1>3, <2>1 DEF Timed
  <2>2. CASE c.keepAliveIn # 0
    BY <1>2, <1>3, <1>4, <2>2 DEF Timed, Talk
  <2>. QED
    BY <2>1, <2>2
<1>6. ASSUME net.st = "UP" PROVE Stages(Woken, net.toServer \o c.out, link)
  <2>1. Stages(c, net.toServer \o c.out, link)
    BY <1>6 DEF Talk, Line
  <2>. QED
    BY <1>2, <1>4, <2>1, StageStays
<1>. QED
  BY <1>2, <1>3, <1>4, <1>5, <1>6

\* Filling the buffer goes on with the conversation where it was.
LEMMA FillTalks ==
    ASSUME NEW k \in Conn, NEW ts \in Seq(ToServer), NEW lk,
           Stages(k, ts \o k.out, lk), Timed(k)
    PROVE  LET q == FillOutputBuffer(k) IN
           Stages(q, ts \o q.out, lk) /\ Timed(q)
<1>. DEFINE S == {q \in Conn : Stages(q, ts \o q.out, lk) /\ Timed(q)}
<1>1. ASSUME NEW q \in S PROVE WriteOneItem(q) \in S
  <2>. DEFINE r == WriteOneItem(q)
  <2>1. /\ r \in Conn
        /\ \/ WritesFlag(q, r) \/ WritesMove(q, r) \/ WritesMessage(q, r)
           \/ WritesTyping(q, r) \/ WritesNothing(q, r)
        /\ r # q => Len(r.out) = Len(q.out) + 1
    BY WriteOneItemCases
  <2>. HIDE DEF r
  <2>2. Stages(r, ts \o r.out, lk)
    BY <2>1, ItemKeepsStage
  <2>3. Timed(r)
    <3>1. CASE r = q
      BY <3>1
    <3>2. CASE r # q
      <4>1. Len(r.out) = Len(q.out) + 1 /\ Len(q.out) \in Nat
        BY <2>1, <3>2, LenProperties DEF Conn
      <4>2. r.out # <<>>
        BY <4>1, EmptySeq
      <4>. QED
        BY <4>2 DEF Timed
    <3>. QED
      BY <3>1, <3>2
  <2>. QED
    BY <2>1, <2>2, <2>3 DEF r
<1>2. k \in S
  OBVIOUS
<1>3. FillOutputBuffer(k) \in S
  <2>. HIDE DEF S
  <2>. QED
    BY <1>1, <1>2, FillInduction
<1>. QED
  BY <1>3

\* What the socket takes of the buffer stays on the line.
LEMMA LineIsKept ==
    ASSUME NEW ts \in Seq(ToServer), NEW out \in Seq(ToServer), NEW n \in 0..Len(out)
    PROVE  (ts \o SubSeq(out, 1, n)) \o SubSeq(out, n + 1, Len(out)) = ts \o out
<1>. DEFINE l == Len(out)
            a == SubSeq(out, 1, n)
            b == SubSeq(out, n + 1, l)
<1>1. l \in Nat /\ n \in Nat /\ n <= l /\ \A i \in 1..l : out[i] \in ToServer
  BY LenProperties, ElementOfSeq
<1>2. a \in Seq(ToServer) /\ b \in Seq(ToServer)
  BY <1>1, SubSeqProperties
<1>3. a \o b = out
  <2>1. 1 \in 1..l + 1 /\ n \in 1 - 1..l /\ l \in n..l
    BY <1>1
  <2>2. a \o b = SubSeq(out, 1, l)
    BY <2>1, ConcatAdjacentSubSeq
  <2>. QED
    BY <2>2, SubSeqFull
<1>. HIDE DEF a, b
<1>4. (ts \o a) \o b = ts \o (a \o b)
  <2>1. \A t, u \in Seq(ToServer) : (ts \o t) \o u = ts \o (t \o u)
    BY ConcatAssociative
  <2>. QED
    BY <1>2, <2>1
<1>. QED
  BY <1>3, <1>4 DEF a, b

LEMMA HandleWriteTalks ==
    ASSUME Core(c, net, link, hist), Talk(c, net, link, server, hist), HandleWrite,
           server' = server
    PROVE  Talk(c', net', link', server', hist')
<1>. DEFINE k == FillOutputBuffer(Woken)
<1>1. /\ c \in Conn /\ hist \in Hist /\ net \in Net /\ link \in Link
      /\ c.sock /\ Len(c.out) <= OutCap
      /\ net.st = "UP" => Stages(c, Line(c, net), link)
      /\ Tellings(c, net.toClient, 1, link, server)
      /\ Showing(c, server, hist.shown)
      /\ Timed(c) /\ Breathing(c, net, link, server, hist)
  BY DEF Core, Talk, HandleWrite
<1>2. /\ Woken \in Conn /\ Woken.out = c.out /\ Timed(Woken)
      /\ Woken.sock = c.sock /\ Woken.person = c.person
      /\ Woken.next = c.next /\ Woken.finished = c.finished
      /\ Woken.keepAliveIn \in {c.keepAliveIn, Never}
      /\ net.st = "UP" => Stages(Woken, net.toServer \o c.out, link)
  BY <1>1, WokenTalks
<1>3. /\ k \in Conn /\ Len(k.out) <= OutCap
      /\ Same(k, Woken, {"out", "dirty", "tiles", "messages", "sentTyping"})
  BY <1>1, <1>2, FillFields
<1>4. net.toServer \in Seq(ToServer) /\ k.out \in Seq(ToServer)
      /\ Len(k.out) \in Nat /\ Len(net.toServer) \in Nat
  BY <1>1, <1>3, LenProperties DEF Net, Conn
<1>5. ASSUME net.st = "UP" PROVE Stages(k, net.toServer \o k.out, link) /\ Timed(k)
  BY <1>2, <1>4, <1>5, FillTalks
<1>6. \/ /\ c' = ReportError(k) /\ Dropped(k.out)
      \/ /\ net.st = "UP" /\ link' = link
         /\ \E n \in 0..Least({Len(k.out), WireCap - Len(net.toServer)}) :
              /\ n > 0 \/ k.out = <<>>
              /\ c' = Written(k, n)
              /\ net' = [net EXCEPT !.toServer = @ \o SubSeq(k.out, 1, n)]
              /\ hist' = [hist EXCEPT !.putOff = @ \/ n = 0]
      \/ net.st = "UP" /\ c' = k /\ UNCHANGED <<net, link, hist>>
  BY DEF HandleWrite
<1>7. /\ k.sock = c.sock /\ k.person = c.person /\ k.next = c.next
      /\ k.finished = c.finished /\ k.keepAliveIn \in {c.keepAliveIn, Never}
  BY <1>2, <1>3 DEF Same, Fields
<1>. HIDE DEF k
<1>8. CASE c' = ReportError(k) /\ Dropped(k.out)
  <2>1. /\ c'.sock = FALSE
        /\ Same(c', k, {"sock", "keepAliveIn", "timeout", "reconnectIn",
                        "writeFinished", "poll"})
    BY <1>3, <1>8, ReportErrorFields
  <2>2. c'.person = c.person /\ c'.next = c.next
    BY <1>7, <2>1 DEF Same, Fields
  <2>3. /\ net'.st = "NONE" /\ net'.toClient = <<>> /\ link' = NoLink
        /\ hist'.shown = hist.shown
    BY <1>1, <1>8, EndedFields DEF Dropped
  <2>4. Showing(c', server, hist'.shown) /\ Timed(c')
    BY <1>1, <2>1, <2>2, <2>3 DEF Showing, Timed
  <2>. QED
    BY <2>3, <2>4, LostTalks
<1>9. CASE /\ net.st = "UP" /\ link' = link
           /\ \E n \in 0..Least({Len(k.out), WireCap - Len(net.toServer)}) :
                /\ n > 0 \/ k.out = <<>>
                /\ c' = Written(k, n)
                /\ net' = [net EXCEPT !.toServer = @ \o SubSeq(k.out, 1, n)]
                /\ hist' = [hist EXCEPT !.putOff = @ \/ n = 0]
  <2>. DEFINE room == WireCap - Len(net.toServer)
              most == Least({Len(k.out), room})
  <2>1. room \in Nat
    BY <1>4, ClientAssumption DEF Core
  <2>2. PICK n \in 0..most :
                /\ n > 0 \/ k.out = <<>>
                /\ c' = Written(k, n)
                /\ net' = [net EXCEPT !.toServer = @ \o SubSeq(k.out, 1, n)]
                /\ hist' = [hist EXCEPT !.putOff = @ \/ n = 0]
    BY <1>9
  <2>. HIDE DEF room
  <2>3. most \in Nat /\ most <= Len(k.out)
    BY <1>4, <2>1, LeastOf
  <2>. HIDE DEF most
  <2>4. n \in Nat /\ n \in 0..Len(k.out)
    BY <1>4, <2>3
  <2>5. /\ Same(c', k, {"out", "keepAliveIn", "writeFinished", "poll"})
        /\ c'.out = SubSeq(k.out, n + 1, Len(k.out))
        /\ c'.keepAliveIn = KeepAliveTime
    BY <1>3, <2>2, <2>4, WrittenFields
  <2>6. /\ c'.sock /\ c'.person = c.person /\ c'.next = c.next
        /\ c'.finished = c.finished /\ c'.dirty = k.dirty
    BY <1>1, <1>7, <2>5 DEF Same, Fields
  <2>. DEFINE first == SubSeq(k.out, 1, n)
              more == net.toServer \o first
  <2>7. /\ net'.st = "UP" /\ net'.toServer = more /\ net'.toClient = net.toClient
    BY <1>1, <1>9, <2>2 DEF Net
  <2>8. hist'.shown = hist.shown /\ (hist'.putOff <=> hist.putOff \/ n = 0)
    BY <1>1, <2>2 DEF Hist
  <2>9. Line(c', net') = net.toServer \o k.out
    <3>1. (net.toServer \o first) \o SubSeq(k.out, n + 1, Len(k.out))
            = net.toServer \o k.out
      BY <1>4, <2>4, LineIsKept
    <3>. QED
      BY <2>5, <2>6, <2>7, <3>1 DEF Line
  <2>10. Stages(c', Line(c', net'), link')
    BY <1>5, <1>7, <1>9, <2>6, <2>9, StageStays
  <2>11. Tellings(c', net'.toClient, 1, link', server')
    BY <1>1, <1>9, <2>6, <2>7 DEF Tellings
  <2>12. Showing(c', server', hist'.shown)
    BY <1>1, <2>6, <2>8 DEF Showing
  <2>13. Timed(c')
    BY <2>5, ClientAssumption DEF Timed, Never
  <2>14. Breathing(c', net', link', server', hist')
    <3>1. SUFFICES ASSUME ~c.finished, link.person, ~hist.putOff, n # 0
                   PROVE  server.known /\ more # <<>>
      BY <1>9, <2>6, <2>7, <2>8 DEF Breathing
    <3>2. server.known
      BY <1>1, <3>1 DEF Breathing
    <3>3. first \in Seq(ToServer) /\ Len(first) = n
      <4>1. \A i \in 1..n : k.out[i] \in ToServer
        BY <1>4, <2>4, ElementOfSeq
      <4>2. /\ first \in Seq(ToServer)
            /\ Len(first) = IF 1 <= n THEN n - 1 + 1 ELSE 0
        BY <2>4, <4>1, SubSeqProperties
      <4>. QED
        BY <2>4, <4>2
    <3>. HIDE DEF first
    <3>4. Len(more) = Len(net.toServer) + n
      BY <1>4, <3>3, ConcatProperties
    <3>. HIDE DEF more
    <3>. QED
      BY <1>4, <2>4, <3>1, <3>2, <3>4, EmptySeq
  <2>. QED
    BY <2>10, <2>11, <2>12, <2>13, <2>14 DEF Talk
<1>10. CASE net.st = "UP" /\ c' = k /\ UNCHANGED <<net, link, hist>>
  <2>1. Line(c', net') = net.toServer \o k.out
    BY <1>1, <1>7, <1>10 DEF Line
  <2>2. Stages(c', Line(c', net'), link') /\ Timed(c')
    BY <1>5, <1>10, <2>1
  <2>3. Tellings(c', net'.toClient, 1, link', server')
    BY <1>1, <1>7, <1>10 DEF Tellings
  <2>4. Showing(c', server', hist'.shown)
    BY <1>1, <1>7, <1>10 DEF Showing
  <2>5. Breathing(c', net', link', server', hist')
    BY <1>1, <1>7, <1>10 DEF Breathing
  <2>. QED
    BY <2>2, <2>3, <2>4, <2>5 DEF Talk
<1>. QED
  BY <1>6, <1>8, <1>9, <1>10

\* One frame after the other is what the server told, and what is shown.
LEMMA FrameTalks ==
    ASSUME NEW k \in Conn, NEW s \in Seq(ToClient), NEW i \in 1..Len(s),
           s[i].type \notin {"EOF", "BAD"}, NEW sv \in Server, NEW lk \in Link,
           Tellings(k, s, i, lk, sv), NEW shown \in Seq(Nat), Showing(k, sv, shown)
    PROVE  LET q == Processed(k, s[i]) IN
           /\ Tellings(q, s, i + 1, lk, sv)
           /\ Showing(q, sv, Shown(shown, s[i]))
           /\ ~lk.person => q.person = k.person /\ q.next = k.next
<1>. DEFINE q == Processed(k, s[i])
            f == s[i]
            len == Len(s)
            Type(j) == s[j].type
            N(j) == s[j].n
<1>1. f \in ToClient /\ len \in Nat /\ i \in Nat /\ i <= len
  BY ElementOfSeq, LenProperties
<1>2. /\ q \in Conn
      /\ IF f.type = "PLAYER_ID" THEN q.person = f.person /\ q.person # NoPerson
                                 ELSE q.person = k.person
      /\ q.next = IF f.type = "MESSAGE" THEN k.next + 1 ELSE k.next
  BY <1>1, ProcessedFields
<1>3. /\ sv.offset \in Nat /\ sv.log \in Nat /\ sv.person \in Nat
      /\ lk.at \in Nat /\ k.next \in Nat /\ q.next \in Nat /\ NoPerson = 0
  BY <1>2 DEF Server, Link, Conn, NoPerson
<1>4. \A j \in 1..len : Type(j) = "MESSAGE" => N(j) \in Nat
  <2>1. \A j \in 1..len : s[j] \in ToClient
    BY ElementOfSeq
  <2>. QED
    BY <2>1 DEF ToClient
<1>5. /\ sv.offset <= sv.log
      /\ \A j \in i..len : Type(j) \in FromPerson => lk.person
      /\ \A j \in i..len : Type(j) = "PLAYER_ID" =>
           s[j].person = sv.person /\ "PLAYER_ID" \in lk.told
      /\ lk.refused \/ lk.bad =>
           k.person # NoPerson /\ (k.person # sv.person \/ ~sv.known)
  BY DEF Tellings
<1>6. ASSUME lk.person
      PROVE  /\ k.person \in {NoPerson, sv.person}
             /\ k.person = NoPerson /\ "PLAYER_ID" \in lk.told =>
                  \E j \in i..len : Type(j) = "PLAYER_ID"
             /\ k.person = NoPerson =>
                  \A j \in i..len : Type(j) = "MESSAGE" =>
                    \E g \in i..j - 1 : Type(g) = "PLAYER_ID"
             /\ k.next <= lk.at /\ lk.at <= sv.log - sv.offset
             /\ \A m \in k.next + 1..lk.at :
                  \E j \in i..len : Type(j) = "MESSAGE" /\ N(j) = sv.offset + m
             /\ \A j \in i..len : Type(j) = "MESSAGE" =>
                  N(j) \in sv.offset + k.next + 1..sv.offset + lk.at
             /\ \A g, j \in i..len :
                  g < j /\ Type(g) = "MESSAGE" /\ Type(j) = "MESSAGE" => N(g) < N(j)
  BY <1>6 DEF Tellings
<1>7. f.type = Type(i) /\ i \in i..len
  BY <1>1
<1>8. /\ k.next = Len(shown) /\ (k.person = NoPerson => k.next = 0)
      /\ k.person = sv.person =>
           /\ shown = [j \in 1..k.next |-> sv.offset + j]
           /\ k.next <= sv.log - sv.offset
  BY DEF Showing
<1>9. SUFFICES /\ Tellings(q, s, i + 1, lk, sv)
               /\ Showing(q, sv, Shown(shown, f))
               /\ ~lk.person => q.person = k.person /\ q.next = k.next
  OBVIOUS
<1>. HIDE DEF q, f, len, Type, N
<1>. DEFINE Told ==
       lk.person =>
         /\ q.person \in {NoPerson, sv.person}
         /\ q.person = NoPerson /\ "PLAYER_ID" \in lk.told =>
              \E j \in i + 1..len : Type(j) = "PLAYER_ID"
         /\ q.person = NoPerson =>
              \A j \in i + 1..len : Type(j) = "MESSAGE" =>
                \E g \in i + 1..j - 1 : Type(g) = "PLAYER_ID"
         /\ q.next <= lk.at /\ lk.at <= sv.log - sv.offset
         /\ \A m \in q.next + 1..lk.at :
              \E j \in i + 1..len : Type(j) = "MESSAGE" /\ N(j) = sv.offset + m
         /\ \A j \in i + 1..len : Type(j) = "MESSAGE" =>
              N(j) \in sv.offset + q.next + 1..sv.offset + lk.at
         /\ \A g, j \in i + 1..len :
              g < j /\ Type(g) = "MESSAGE" /\ Type(j) = "MESSAGE" => N(g) < N(j)
<1>10. ASSUME Told, lk.refused \/ lk.bad =>
                      q.person # NoPerson /\ (q.person # sv.person \/ ~sv.known)
       PROVE  Tellings(q, s, i + 1, lk, sv)
  <2>1. \A j \in i + 1..len : j \in i..len
    BY <1>1
  <2>2. /\ \A j \in i + 1..len : Type(j) \in FromPerson => lk.person
        /\ \A j \in i + 1..len : Type(j) = "PLAYER_ID" =>
             s[j].person = sv.person /\ "PLAYER_ID" \in lk.told
    BY <1>5, <2>1
  <2>. QED
    BY <1>5, <1>10, <2>2 DEF Tellings, len, Type, N
<1>13. CASE f.type = "PLAYER_ID"
  <2>1. /\ lk.person /\ q.person = sv.person /\ q.person # NoPerson /\ q.next = k.next
        /\ k.person \in {NoPerson, sv.person}
    BY <1>2, <1>5, <1>6, <1>7, <1>13 DEF FromPerson, f
  <2>2. Told
    <3>1. \A j \in i + 1..len : j \in i..len
      BY <1>1
    <3>2. ASSUME NEW m \in q.next + 1..lk.at
          PROVE  \E j \in i + 1..len : Type(j) = "MESSAGE" /\ N(j) = sv.offset + m
      <4>1. PICK j \in i..len : Type(j) = "MESSAGE" /\ N(j) = sv.offset + m
        BY <1>6, <2>1, <3>2
      <4>2. j # i
        BY <1>7, <1>13, <4>1
      <4>. QED
        BY <1>1, <4>1, <4>2
    <3>. QED
      BY <1>6, <2>1, <3>1, <3>2
  <2>3. Shown(shown, f) = shown
    BY <1>13 DEF Shown
  <2>4. Showing(q, sv, shown)
    <3>1. CASE k.person = sv.person
      BY <1>8, <2>1, <3>1 DEF Showing
    <3>2. CASE k.person = NoPerson
      <4>1. k.next = 0 /\ shown = <<>>
        BY <1>8, <3>2, EmptySeq
      <4>2. shown = [j \in 1..k.next |-> sv.offset + j]
        BY <4>1
      <4>3. k.next <= sv.log - sv.offset
        BY <1>3, <1>5, <4>1
      <4>. QED
        BY <1>8, <2>1, <4>2, <4>3 DEF Showing
    <3>. QED
      BY <2>1, <3>1, <3>2
  <2>5. lk.refused \/ lk.bad =>
          q.person # NoPerson /\ (q.person # sv.person \/ ~sv.known)
    BY <1>5, <2>1
  <2>. QED
    BY <1>10, <2>1, <2>2, <2>3, <2>4, <2>5
<1>11. CASE f.type = "MESSAGE"
  <2>1. /\ lk.person /\ q.person = k.person /\ q.next = k.next + 1
        /\ k.person = sv.person /\ k.person # NoPerson
    <3>1. lk.person
      BY <1>5, <1>7, <1>11 DEF FromPerson
    <3>2. k.person # NoPerson
      <4>1. k.person = NoPerson => \E g \in i..i - 1 : Type(g) = "PLAYER_ID"
        BY <1>6, <1>7, <1>11, <3>1
      <4>. QED
        BY <1>1, <4>1
    <3>. QED
      BY <1>2, <1>6, <1>11, <3>1, <3>2
  <2>2. N(i) = sv.offset + q.next
    <3>1. N(i) \in sv.offset + k.next + 1..sv.offset + lk.at
      BY <1>6, <1>7, <1>11, <2>1
    <3>2. k.next + 1 \in k.next + 1..lk.at
      BY <1>3, <3>1
    <3>3. PICK j \in i..len : Type(j) = "MESSAGE" /\ N(j) = sv.offset + (k.next + 1)
      BY <1>6, <2>1, <3>2
    <3>4. i < j => N(i) < N(j)
      BY <1>6, <1>7, <1>11, <2>1, <3>3
    <3>. HIDE DEF N, Type
    <3>5. ~(i < j)
      BY <1>3, <3>1, <3>3, <3>4
    <3>6. j = i
      BY <1>1, <3>5
    <3>. QED
      BY <2>1, <3>3, <3>6
  <2>3. q.next <= lk.at
    <3>1. N(i) \in sv.offset + k.next + 1..sv.offset + lk.at
      BY <1>6, <1>7, <1>11, <2>1
    <3>. QED
      BY <1>3, <2>2, <3>1
  <2>4. ASSUME NEW m \in q.next + 1..lk.at
        PROVE  \E j \in i + 1..len : Type(j) = "MESSAGE" /\ N(j) = sv.offset + m
    <3>1. m \in k.next + 1..lk.at
      BY <1>3, <2>1
    <3>2. PICK j \in i..len : Type(j) = "MESSAGE" /\ N(j) = sv.offset + m
      BY <1>6, <2>1, <3>1
    <3>3. j # i
      BY <1>3, <2>2, <3>2
    <3>. QED
      BY <1>1, <3>2, <3>3
  <2>5. ASSUME NEW j \in i + 1..len, Type(j) = "MESSAGE"
        PROVE  N(j) \in sv.offset + q.next + 1..sv.offset + lk.at
    <3>1. j \in i..len /\ i < j
      BY <1>1
    <3>2. N(i) < N(j) /\ N(j) \in sv.offset + k.next + 1..sv.offset + lk.at
      BY <1>6, <1>7, <1>11, <2>1, <2>5, <3>1
    <3>. QED
      BY <1>3, <2>2, <3>2
  <2>6. Told
    <3>2. \A j \in i + 1..len : j \in i..len
      BY <1>1
    <3>1. \A g, j \in i + 1..len :
             g < j /\ Type(g) = "MESSAGE" /\ Type(j) = "MESSAGE" => N(g) < N(j)
      BY <1>6, <2>1, <3>2
    <3>. QED
      BY <1>6, <2>1, <2>3, <2>4, <2>5, <3>1
  <2>7. Shown(shown, f) = Append(shown, N(i))
    BY <1>11 DEF Shown, f, N
  <2>8. Showing(q, sv, Shown(shown, f))
    <3>. DEFINE n == k.next
                next == N(i)
                more == [j \in 1..n + 1 |-> sv.offset + j]
    <3>1. /\ shown = [j \in 1..n |-> sv.offset + j] /\ n = Len(shown)
      BY <1>3, <1>8, <2>1
    <3>7. n \in Nat
      BY <1>3
    <3>2. next \in Nat /\ next = sv.offset + (n + 1)
      BY <1>3, <2>1, <2>2
    <3>. HIDE DEF n, next
    <3>3. /\ Append(shown, next) \in Seq(Nat) /\ Len(Append(shown, next)) = n + 1
          /\ \A j \in 1..n : Append(shown, next)[j] = sv.offset + j
          /\ Append(shown, next)[n + 1] = sv.offset + (n + 1)
      <4>3. /\ Append(shown, next) \in Seq(Nat)
            /\ Len(Append(shown, next)) = Len(shown) + 1
            /\ \A j \in 1..Len(shown) : Append(shown, next)[j] = shown[j]
            /\ Append(shown, next)[Len(shown) + 1] = next
        BY <3>2, AppendProperties
      <4>1. /\ Append(shown, next) \in Seq(Nat) /\ Len(Append(shown, next)) = n + 1
            /\ \A j \in 1..n : Append(shown, next)[j] = shown[j]
            /\ Append(shown, next)[n + 1] = next
        BY <3>1, <4>3
      <4>2. \A j \in 1..n : shown[j] = sv.offset + j
        BY <3>1
      <4>. QED
        BY <3>2, <4>1, <4>2
    <3>4. more \in Seq(Nat) /\ Len(more) = n + 1
          /\ \A j \in 1..n + 1 : more[j] = sv.offset + j
      <4>1. n + 1 \in Nat /\ \A j \in 1..n + 1 : sv.offset + j \in Nat
        BY <1>3, <3>7
      <4>2. more \in [1..n + 1 -> Nat]
        BY <4>1
      <4>. QED
        BY <4>1, <4>2
    <3>. HIDE DEF more
    <3>5. Append(shown, next) = more
      <4>. DEFINE longer == Append(shown, next)
      <4>1. \A j \in 1..n + 1 : j \in 1..n \/ j = n + 1
        BY <3>7
      <4>2. \A j \in 1..Len(longer) : longer[j] = more[j]
        BY <3>3, <3>4, <4>1
      <4>3. longer \in Seq(Nat) /\ Len(longer) = Len(more)
        BY <3>3, <3>4
      <4>. HIDE DEF longer
      <4>4. longer = more
        BY <3>4, <4>2, <4>3, SeqEqual
      <4>. QED
        BY <4>4 DEF longer
    <3>6. q.next = n + 1 /\ q.next <= sv.log - sv.offset
      BY <1>3, <1>6, <2>1, <2>3 DEF n
    <3>. QED
      BY <2>1, <2>7, <3>3, <3>5, <3>6 DEF Showing, more, next
  <2>9. lk.refused \/ lk.bad =>
          q.person # NoPerson /\ (q.person # sv.person \/ ~sv.known)
    BY <1>5, <2>1
  <2>. QED
    BY <1>10, <2>1, <2>6, <2>8, <2>9
<1>12. CASE f.type \notin {"PLAYER_ID", "MESSAGE"}
  <2>1. q.person = k.person /\ q.next = k.next
    BY <1>2, <1>12
  <2>2. ASSUME NEW j \in i..len, Type(j) \in {"PLAYER_ID", "MESSAGE"}
        PROVE  j \in i + 1..len
    BY <1>1, <1>7, <1>12, <2>2
  <2>3. Told
    <3>1. SUFFICES ASSUME lk.person PROVE Told
      OBVIOUS
    <3>2. q.person = NoPerson /\ "PLAYER_ID" \in lk.told =>
            \E j \in i + 1..len : Type(j) = "PLAYER_ID"
      BY <1>6, <2>1, <2>2, <3>1
    <3>3. ASSUME q.person = NoPerson, NEW j \in i + 1..len, Type(j) = "MESSAGE"
          PROVE  \E g \in i + 1..j - 1 : Type(g) = "PLAYER_ID"
      <4>1. j \in i..len
        BY <1>1
      <4>2. PICK g \in i..j - 1 : Type(g) = "PLAYER_ID"
        BY <1>6, <2>1, <3>1, <3>3, <4>1
      <4>3. g # i
        BY <1>7, <1>12, <4>2
      <4>. QED
        BY <1>1, <4>2, <4>3
    <3>4. ASSUME NEW m \in q.next + 1..lk.at
          PROVE  \E j \in i + 1..len : Type(j) = "MESSAGE" /\ N(j) = sv.offset + m
      BY <1>6, <2>1, <2>2, <3>1
    <3>5. \A j \in i + 1..len : j \in i..len
      BY <1>1
    <3>. QED
      BY <1>6, <2>1, <3>1, <3>2, <3>3, <3>4, <3>5
  <2>4. Shown(shown, f) = shown
    BY <1>12 DEF Shown
  <2>5. Showing(q, sv, shown)
    BY <2>1 DEF Showing
  <2>. QED
    BY <1>5, <1>10, <2>1, <2>3, <2>4, <2>5
<1>. QED
  BY <1>11, <1>12, <1>13

\* All the frames that are read at once.
LEMMA ReadTalks ==
    ASSUME NEW k \in Conn, NEW s \in Seq(ToClient), NEW n \in 1..Len(s),
           \A i \in 1..n : s[i].type \notin {"EOF", "BAD"},
           NEW sv \in Server, NEW lk \in Link, Tellings(k, s, 1, lk, sv),
           NEW shown \in Seq(Nat), Showing(k, sv, shown)
    PROVE  LET frames == SubSeq(s, 1, n)
               q == ProcessFrames(k, shown, frames).conn
           IN /\ Tellings(q, s, n + 1, lk, sv)
              /\ Showing(q, sv, ProcessFrames(k, shown, frames).shown)
              /\ ~lk.person => q.person = k.person /\ q.next = k.next
<1>. DEFINE frames == SubSeq(s, 1, n)
            S == {a \in Nat \X Conn \X Seq(Nat) :
                    /\ Tellings(a[2], s, a[1] + 1, lk, sv)
                    /\ Showing(a[2], sv, a[3])
                    /\ ~lk.person => a[2].person = k.person /\ a[2].next = k.next}
<1>1. /\ Len(frames) = n /\ \A i \in 1..n : frames[i] = s[i] /\ s[i] \in ToClient
  BY FirstFrames
<1>2. n \in Nat /\ n <= Len(s) /\ Len(s) \in Nat
  BY LenProperties
<1>. HIDE DEF frames
<1>3. <<0, k, shown>> \in S
  OBVIOUS
<1>4. ASSUME NEW i \in Nat, NEW q, NEW t, i < Len(frames), <<i, q, t>> \in S
      PROVE  <<i + 1, Processed(q, frames[i + 1]), Shown(t, frames[i + 1])>> \in S
  <2>. DEFINE j == i + 1
              r == Processed(q, s[j])
              u == Shown(t, s[j])
  <2>1. /\ q \in Conn /\ t \in Seq(Nat)
        /\ Tellings(q, s, j, lk, sv) /\ Showing(q, sv, t)
        /\ ~lk.person => q.person = k.person /\ q.next = k.next
    BY <1>4
  <2>2. j \in 1..n /\ frames[j] = s[j] /\ s[j] \in ToClient
    BY <1>1, <1>2, <1>4
  <2>3. j \in 1..Len(s) /\ s[j].type \notin {"EOF", "BAD"} /\ j \in Nat
    BY <1>2, <2>2
  <2>. HIDE DEF j
  <2>4. /\ Tellings(r, s, j + 1, lk, sv) /\ Showing(r, sv, u)
        /\ ~lk.person => r.person = q.person /\ r.next = q.next
    BY <2>1, <2>3, FrameTalks
  <2>5. r \in Conn
    BY <2>1, <2>2, <2>3, ProcessedFields
  <2>6. u \in Seq(Nat)
    <3>1. s[j].type = "MESSAGE" => s[j].n \in Nat
      BY <2>2 DEF ToClient
    <3>. QED
      BY <2>1, <3>1, AppendProperties DEF Shown
  <2>. HIDE DEF r, u
  <2>7. <<j, r, u>> \in S
    BY <2>1, <2>3, <2>4, <2>5, <2>6
  <2>. QED
    BY <2>2, <2>7 DEF j, r, u
<1>5. <<Len(frames), ProcessFrames(k, shown, frames).conn,
        ProcessFrames(k, shown, frames).shown>> \in S
  <2>. HIDE DEF S
  <2>. QED
    BY <1>1, <1>2, <1>3, <1>4, ReadInduction
<1>. QED
  BY <1>1, <1>5 DEF frames

\* What is left to read is still told.
LEMMA RestTalks ==
    ASSUME NEW k \in Conn, NEW s \in Seq(ToClient), NEW n \in 1..Len(s),
           NEW sv \in Server, NEW lk \in Link, Tellings(k, s, n + 1, lk, sv)
    PROVE  Tellings(k, SubSeq(s, n + 1, Len(s)), 1, lk, sv)
<1>. DEFINE rest == SubSeq(s, n + 1, Len(s))
            len == Len(s)
            more == Len(rest)
<1>1. /\ n \in Nat /\ len \in Nat /\ n <= len /\ more = len - n
      /\ \A i \in 1..len - n : rest[i] = s[i + n]
  BY FirstFrames, LenProperties
<1>2. /\ sv.offset <= sv.log
      /\ \A i \in n + 1..len : s[i].type \in FromPerson => lk.person
      /\ \A i \in n + 1..len : s[i].type = "PLAYER_ID" =>
           s[i].person = sv.person /\ "PLAYER_ID" \in lk.told
      /\ lk.refused \/ lk.bad =>
           k.person # NoPerson /\ (k.person # sv.person \/ ~sv.known)
  BY DEF Tellings
<1>3. ASSUME lk.person
      PROVE  /\ k.person \in {NoPerson, sv.person}
             /\ k.person = NoPerson /\ "PLAYER_ID" \in lk.told =>
                  \E j \in n + 1..len : s[j].type = "PLAYER_ID"
             /\ k.person = NoPerson =>
                  \A j \in n + 1..len : s[j].type = "MESSAGE" =>
                    \E g \in n + 1..j - 1 : s[g].type = "PLAYER_ID"
             /\ k.next <= lk.at /\ lk.at <= sv.log - sv.offset
             /\ \A m \in k.next + 1..lk.at :
                  \E j \in n + 1..len : s[j].type = "MESSAGE" /\ s[j].n = sv.offset + m
             /\ \A j \in n + 1..len : s[j].type = "MESSAGE" =>
                  s[j].n \in sv.offset + k.next + 1..sv.offset + lk.at
             /\ \A g, j \in n + 1..len :
                  g < j /\ s[g].type = "MESSAGE" /\ s[j].type = "MESSAGE"
                    => s[g].n < s[j].n
  BY <1>3 DEF Tellings
<1>. HIDE DEF rest, len, more
<1>4. \A i \in 1..more : i + n \in n + 1..len /\ rest[i] = s[i + n]
  BY <1>1
<1>5. \A j \in n + 1..len : j - n \in 1..more /\ rest[j - n] = s[j]
  BY <1>1
<1>6. /\ \A i \in 1..more : rest[i].type \in FromPerson => lk.person
      /\ \A i \in 1..more : rest[i].type = "PLAYER_ID" =>
           rest[i].person = sv.person /\ "PLAYER_ID" \in lk.told
  BY <1>2, <1>4
<1>7. ASSUME lk.person
      PROVE  /\ k.person \in {NoPerson, sv.person}
             /\ k.person = NoPerson /\ "PLAYER_ID" \in lk.told =>
                  \E i \in 1..more : rest[i].type = "PLAYER_ID"
             /\ k.person = NoPerson =>
                  \A j \in 1..more : rest[j].type = "MESSAGE" =>
                    \E i \in 1..j - 1 : rest[i].type = "PLAYER_ID"
             /\ k.next <= lk.at /\ lk.at <= sv.log - sv.offset
             /\ \A m \in k.next + 1..lk.at :
                  \E j \in 1..more : rest[j].type = "MESSAGE" /\ rest[j].n = sv.offset + m
             /\ \A j \in 1..more : rest[j].type = "MESSAGE" =>
                  rest[j].n \in sv.offset + k.next + 1..sv.offset + lk.at
             /\ \A i, j \in 1..more :
                  i < j /\ rest[i].type = "MESSAGE" /\ rest[j].type = "MESSAGE"
                    => rest[i].n < rest[j].n
  <2>1. k.person = NoPerson /\ "PLAYER_ID" \in lk.told =>
          \E i \in 1..more : rest[i].type = "PLAYER_ID"
    BY <1>3, <1>5, <1>7
  <2>2. ASSUME k.person = NoPerson, NEW j \in 1..more, rest[j].type = "MESSAGE"
        PROVE  \E i \in 1..j - 1 : rest[i].type = "PLAYER_ID"
    <3>1. j + n \in n + 1..len /\ s[j + n].type = "MESSAGE"
      BY <1>4, <2>2
    <3>2. PICK g \in n + 1..(j + n) - 1 : s[g].type = "PLAYER_ID"
      BY <1>3, <1>7, <2>2, <3>1
    <3>3. g \in n + 1..len /\ g - n \in 1..j - 1
      BY <1>1, <3>1
    <3>. QED
      BY <1>5, <3>2, <3>3
  <2>3. ASSUME NEW m \in k.next + 1..lk.at
        PROVE  \E j \in 1..more : rest[j].type = "MESSAGE" /\ rest[j].n = sv.offset + m
    <3>1. PICK j \in n + 1..len : s[j].type = "MESSAGE" /\ s[j].n = sv.offset + m
      BY <1>3, <1>7, <2>3
    <3>. QED
      BY <1>5, <3>1
  <2>4. \A j \in 1..more : rest[j].type = "MESSAGE" =>
          rest[j].n \in sv.offset + k.next + 1..sv.offset + lk.at
    BY <1>3, <1>4, <1>7
  <2>5. ASSUME NEW i \in 1..more, NEW j \in 1..more, i < j,
               rest[i].type = "MESSAGE", rest[j].type = "MESSAGE"
        PROVE  rest[i].n < rest[j].n
    <3>1. i + n < j + n
      BY <1>1, <2>5
    <3>. QED
      BY <1>3, <1>4, <1>7, <2>5, <3>1
  <2>. QED
    BY <1>3, <1>7, <2>1, <2>2, <2>3, <2>4, <2>5
<1>. QED
  BY <1>2, <1>6, <1>7 DEF Tellings, rest, more

LEMMA HandleReadTalks ==
    ASSUME Core(c, net, link, hist), Talk(c, net, link, server, hist), HandleRead,
           server \in Server, server' = server
    PROVE  Talk(c', net', link', server', hist')
<1>1. /\ c \in Conn /\ Machine(c) /\ hist \in Hist
      /\ Wired(c, net, link) /\ net \in Net /\ link \in Link /\ c.sock
      /\ net.st = "UP" => Stages(c, Line(c, net), link)
      /\ Tellings(c, net.toClient, 1, link, server)
      /\ Showing(c, server, hist.shown)
      /\ Timed(c) /\ Breathing(c, net, link, server, hist)
  BY DEF Core, Talk, HandleRead
<1>2. /\ Woken \in Conn /\ Woken.out = c.out /\ Timed(Woken)
      /\ Woken.sock = c.sock /\ Woken.person = c.person
      /\ Woken.next = c.next /\ Woken.finished = c.finished
      /\ Woken.keepAliveIn \in {c.keepAliveIn, Never}
      /\ "HEADER" \in Woken.dirty <=> "HEADER" \in c.dirty
      /\ "WS_HEADER" \in Woken.dirty <=> "WS_HEADER" \in c.dirty
      /\ net.st = "UP" => Stages(Woken, net.toServer \o c.out, link)
  BY <1>1, WokenTalks
<1>3. CASE c' \in {ReportError(Woken), Stopped(Woken)} /\ Dropped(c.out)
  <2>1. /\ c'.sock = FALSE
        /\ Same(c', Woken, {"state", "sock", "keepAliveIn", "timeout", "reconnectIn",
                            "writeFinished", "poll"})
    <3>1. CASE c' = ReportError(Woken)
      <4>1. /\ c'.sock = FALSE
            /\ Same(c', Woken, {"sock", "keepAliveIn", "timeout", "reconnectIn",
                                "writeFinished", "poll"})
        BY <1>2, <3>1, ReportErrorFields
      <4>. QED
        BY <4>1 DEF Same
    <3>2. CASE c' = Stopped(Woken)
      <4>1. Machine(Woken)
        BY <1>1, WokenKeeps
      <4>2. /\ c'.sock = FALSE
            /\ Same(c', Woken, {"state", "sock", "keepAliveIn", "reconnectIn",
                                "writeFinished", "poll"})
        BY <1>1, <1>2, <3>2, <4>1, StoppedFields
      <4>. QED
        BY <4>2 DEF Same
    <3>. QED
      BY <1>3, <3>1, <3>2
  <2>2. c'.person = c.person /\ c'.next = c.next
    BY <1>2, <2>1 DEF Same, Fields
  <2>3. /\ net'.st = "NONE" /\ net'.toClient = <<>> /\ link' = NoLink
        /\ hist'.shown = hist.shown
    BY <1>1, <1>3, EndedFields DEF Dropped
  <2>4. Showing(c', server, hist'.shown) /\ Timed(c')
    BY <1>1, <2>1, <2>2, <2>3 DEF Showing, Timed
  <2>. QED
    BY <2>3, <2>4, LostTalks
<1>4. CASE /\ net.st = "UP" /\ net.toClient # <<>> /\ link' = link
           /\ \E n \in 1..Len(net.toClient) :
                LET frames == SubSeq(net.toClient, 1, n)
                    after == ProcessFrames(Woken, hist.shown, frames)
                IN /\ \A i \in 1..n : frames[i].type \notin {"EOF", "BAD"}
                   /\ c' = UpdatePoll(after.conn)
                   /\ net' = [net EXCEPT !.toClient = SubSeq(@, n + 1, Len(@))]
                   /\ hist' = [hist EXCEPT !.shown = after.shown]
  <2>. DEFINE s == net.toClient
  <2>1. PICK n \in 1..Len(s) :
           /\ \A i \in 1..n : SubSeq(s, 1, n)[i].type \notin {"EOF", "BAD"}
           /\ c' = UpdatePoll(ProcessFrames(Woken, hist.shown, SubSeq(s, 1, n)).conn)
           /\ net' = [net EXCEPT !.toClient = SubSeq(s, n + 1, Len(s))]
           /\ hist' = [hist EXCEPT
                         !.shown = ProcessFrames(Woken, hist.shown, SubSeq(s, 1, n)).shown]
    BY <1>4
  <2>. DEFINE frames == SubSeq(s, 1, n)
              rest == SubSeq(s, n + 1, Len(s))
              k == ProcessFrames(Woken, hist.shown, frames).conn
              shown == ProcessFrames(Woken, hist.shown, frames).shown
  <2>2. s \in Seq(ToClient) /\ Len(s) \in Nat /\ n \in Nat
    BY <1>1, LenProperties DEF Net
  <2>3. /\ Len(frames) = n /\ \A i \in 1..n : frames[i] = s[i] /\ s[i] \in ToClient
    BY <2>2, FirstFrames
  <2>4. /\ \A i \in 1..n : frames[i].type \notin {"EOF", "BAD"}
        /\ \A i \in 1..n : s[i].type \notin {"EOF", "BAD"}
    BY <2>1, <2>3
  <2>5. hist.shown \in Seq(Nat)
    BY <1>1 DEF Hist
  <2>6. Tellings(Woken, s, 1, link, server) /\ Showing(Woken, server, hist.shown)
    BY <1>1, <1>2 DEF Tellings, Showing
  <2>7. /\ Tellings(k, s, n + 1, link, server)
        /\ Showing(k, server, shown)
        /\ ~link.person => k.person = Woken.person /\ k.next = Woken.next
    <3>. HIDE DEF s
    <3>. QED
      BY <1>1, <1>2, <2>2, <2>4, <2>5, <2>6, ReadTalks
  <2>8. c' = UpdatePoll(k) /\ net' = [net EXCEPT !.toClient = rest]
        /\ hist' = [hist EXCEPT !.shown = shown]
    BY <2>1
  <2>. HIDE DEF frames, s
  <2>9. /\ k \in Conn
        /\ Same(k, Woken, {"upgraded", "person", "playerAge", "next", "synced",
                           "finished"})
        /\ Woken.finished => k.finished
    BY <1>2, <2>2, <2>3, <2>4, <2>5, ReadFields
  <2>. HIDE DEF k, shown, rest
  <2>10. Tellings(k, rest, 1, link, server)
    BY <1>1, <2>2, <2>7, <2>9, RestTalks DEF rest
  <2>11. Same(c', k, {"writeFinished", "poll"})
    BY <2>8, <2>9, UpdatePollFields
  <2>12. /\ c'.sock /\ c'.out = c.out /\ c'.dirty = Woken.dirty
         /\ c'.keepAliveIn = Woken.keepAliveIn
         /\ Woken.finished => c'.finished
         /\ c'.person = k.person /\ c'.next = k.next
    BY <1>1, <1>2, <2>9, <2>11 DEF Same, Fields
  <2>13. /\ net'.st = net.st /\ net'.toServer = net.toServer
         /\ net'.toClient = rest /\ hist'.shown = shown /\ hist'.putOff = hist.putOff
    BY <1>1, <2>8 DEF Net, Hist
  <2>14. Line(c', net') = net.toServer \o c.out
    BY <2>12, <2>13 DEF Line
  <2>15. Stages(c', Line(c', net'), link')
    <3>1. Stages(Woken, net.toServer \o c.out, link)
      BY <1>2, <1>4
    <3>2. CASE ~link.person
      <4>1. c'.person = Woken.person /\ c'.next = Woken.next
        BY <2>7, <2>12, <3>2
      <4>2. Stages(c', net.toServer \o c.out, link)
        BY <2>12, <3>1, <4>1, StageStays
      <4>. QED
        BY <1>4, <2>14, <4>2
    <3>3. CASE link.person
      <4>1. ~Greeted(link) /\ link # NoLink
        BY <3>3 DEF Greeted, NoLink
      <4>2. /\ "WS_HEADER" \notin Woken.dirty /\ "HEADER" \notin Woken.dirty
            /\ link.st # "NONE" /\ (link.person <=> ~(link.refused \/ link.bad))
            /\ OnlyCommands(net.toServer \o c.out, 1)
        BY <3>1, <4>1 DEF Stages
      <4>. QED
        BY <1>4, <2>12, <2>14, <4>2 DEF Stages
    <3>. QED
      BY <3>2, <3>3
  <2>16. Timed(c')
    BY <1>1, <1>2, <2>12 DEF Timed
  <2>17. Breathing(c', net', link', server', hist')
    BY <1>1, <1>2, <1>4, <2>12, <2>13 DEF Breathing
  <2>18. Tellings(c', net'.toClient, 1, link', server')
    <3>1. Tellings(c', rest, 1, link, server)
      BY <2>10, <2>12 DEF Tellings
    <3>. QED
      BY <1>4, <2>13, <3>1
  <2>19. Showing(c', server', hist'.shown)
    BY <2>7, <2>12, <2>13 DEF Showing
  <2>. QED
    BY <2>15, <2>16, <2>17, <2>18, <2>19 DEF Talk
<1>5. CASE ReadsNothing
  <2>1. c' = Woken /\ net' = net /\ link' = link /\ hist' = hist
    BY <1>5 DEF ReadsNothing
  <2>. QED
    BY <1>2, <2>1, SameTalks
<1>. QED
  <2>1. \/ /\ net.st = "BROKEN" /\ c' = ReportError(Woken) /\ Dropped(c.out)
        \/ /\ net.st = "UP" /\ net.toClient # <<>>
           /\ \/ c' = ReadEof(Woken) /\ Dropped(c.out)
              \/ c' = ReportError(Woken) /\ Dropped(c.out)
              \/ /\ link' = link
                 /\ \E n \in 1..Len(net.toClient) :
                      LET frames == SubSeq(net.toClient, 1, n)
                          after == ProcessFrames(Woken, hist.shown, frames)
                      IN /\ \A i \in 1..n : frames[i].type \notin {"EOF", "BAD"}
                         /\ c' = UpdatePoll(after.conn)
                         /\ net' = [net EXCEPT !.toClient = SubSeq(@, n + 1, Len(@))]
                         /\ hist' = [hist EXCEPT !.shown = after.shown]
        \/ ReadsNothing
    BY DEF HandleRead
  <2>. QED
    BY <1>3, <1>4, <1>5, <2>1 DEF ReadEof

-----------------------------------------------------------------------------
(* The server's part of the conversation.                                  *)

\* What is behind the first frame of the line.
LEMMA TailOfLine ==
    ASSUME NEW ts \in Seq(ToServer), ts # <<>>, NEW out \in Seq(ToServer)
    PROVE  LET p == ts \o out
               r == Tail(ts) \o out
           IN /\ p \in Seq(ToServer) /\ r \in Seq(ToServer)
              /\ Head(ts) \in ToServer /\ Len(r) \in Nat
              /\ Len(p) = Len(r) + 1 /\ p[1] = Head(ts)
              /\ \A i \in 1..Len(r) : r[i] = p[i + 1]
              /\ \A n \in Nat : OnlyCommands(p, n + 1) => OnlyCommands(r, n)
<1>. DEFINE p == ts \o out
            rest == Tail(ts)
            r == rest \o out
            l == Len(ts)
            m == Len(out)
<1>1. /\ l \in Nat \ {0} /\ m \in Nat /\ Head(ts) \in ToServer
      /\ rest \in Seq(ToServer) /\ Len(rest) = l - 1
      /\ \A i \in 1..l - 1 : rest[i] = ts[i + 1]
  <2>1. /\ Head(ts) \in ToServer /\ rest \in Seq(ToServer) /\ Len(rest) = Len(ts) - 1
        /\ \A i \in 1..Len(rest) : rest[i] = ts[i + 1]
    BY HeadTailProperties
  <2>2. l \in Nat \ {0} /\ m \in Nat
    BY EmptySeq, LenProperties
  <2>. QED
    BY <2>1, <2>2
<1>2. Head(ts) = ts[1]
  OBVIOUS
<1>3. /\ p \in Seq(ToServer) /\ Len(p) = l + m
      /\ \A i \in 1..l + m : p[i] = IF i <= l THEN ts[i] ELSE out[i - l]
  BY ConcatProperties
<1>. HIDE DEF rest
<1>4. /\ r \in Seq(ToServer) /\ Len(r) = Len(rest) + m
      /\ \A i \in 1..Len(rest) + m :
           r[i] = IF i <= Len(rest) THEN rest[i] ELSE out[i - Len(rest)]
  BY <1>1, ConcatProperties
<1>. HIDE DEF p, r, l, m
<1>5. /\ Len(r) = (l - 1) + m
      /\ \A i \in 1..(l - 1) + m :
           r[i] = IF i <= l - 1 THEN rest[i] ELSE out[i - (l - 1)]
  BY <1>1, <1>4
<1>6. ASSUME NEW i \in 1..(l - 1) + m PROVE r[i] = p[i + 1]
  <2>1. i \in Int /\ 1 <= i /\ i <= (l - 1) + m /\ i + 1 \in 1..l + m
    BY <1>1
  <2>2. p[i + 1] = IF i + 1 <= l THEN ts[i + 1] ELSE out[(i + 1) - l]
    BY <1>3, <2>1
  <2>3. CASE i <= l - 1
    <3>1. r[i] = rest[i] /\ rest[i] = ts[i + 1]
      BY <1>1, <1>5, <2>1, <2>3
    <3>2. i + 1 <= l
      BY <1>1, <2>1, <2>3
    <3>. QED
      BY <2>2, <3>1, <3>2
  <2>4. CASE ~(i <= l - 1)
    <3>1. r[i] = out[i - (l - 1)]
      BY <1>5, <2>4
    <3>2. ~(i + 1 <= l) /\ (i + 1) - l = i - (l - 1)
      BY <1>1, <2>1, <2>4
    <3>. QED
      BY <2>2, <3>1, <3>2
  <2>. QED
    BY <2>3, <2>4
<1>7. p[1] = Head(ts)
  <2>1. 1 \in 1..l + m /\ 1 <= l
    BY <1>1
  <2>. QED
    BY <1>2, <1>3, <2>1
<1>8. Len(r) \in Nat /\ Len(p) = Len(r) + 1 /\ Len(r) = (l - 1) + m
  BY <1>1, <1>3, <1>5
<1>9. ASSUME NEW n \in Nat, OnlyCommands(p, n + 1) PROVE OnlyCommands(r, n)
  <2>1. DOMAIN p = 1..Len(p) /\ DOMAIN r = 1..Len(r)
    BY <1>3, <1>4, LenProperties
  <2>2. ASSUME NEW i \in 1..Len(r), i >= n PROVE r[i].type \in Commands
    <3>1. i + 1 \in 1..Len(p) /\ i + 1 >= n + 1 /\ i \in 1..(l - 1) + m
      BY <1>8, <2>2
    <3>2. p[i + 1].type \in Commands
      BY <1>9, <2>1, <3>1 DEF OnlyCommands
    <3>. QED
      BY <1>6, <3>1, <3>2
  <2>. QED
    BY <2>1, <2>2 DEF OnlyCommands
<1>10. \A i \in 1..Len(r) : r[i] = p[i + 1]
  BY <1>6, <1>8
<1>. QED
  BY <1>1, <1>3, <1>4, <1>7, <1>8, <1>9, <1>10 DEF p, r, rest

\* What the server can read, and what it makes of it: the handshake, the header of
\* a new player, of one it knows and of one it has forgotten, a command of a
\* player, and one of a client that it does not listen to.
ReadsHandshake(f) ==
    /\ f = WsHeader /\ "WS_HEADER" \notin c.dirty /\ link = NoLink
    /\ link' = [link EXCEPT !.st = "WRITING"] /\ server' = server
ReadsNewPlayer(f) ==
    /\ f = Header(c) /\ "HEADER" \notin c.dirty /\ Greeted(link)
    /\ c.person = NoPerson /\ server' = NewPerson(server.person + 1, server.log)
    /\ link' = [link EXCEPT !.person = TRUE, !.at = 0]
ReadsReconnect(f) ==
    /\ f = Header(c) /\ "HEADER" \notin c.dirty /\ Greeted(link)
    /\ c.person # NoPerson /\ c.person = server.person /\ server.known
    /\ server' = [server EXCEPT !.silent = 0]
    /\ link' = [link EXCEPT !.person = TRUE, !.at = c.next]
ReadsStranger(f) ==
    /\ f = Header(c) /\ "HEADER" \notin c.dirty /\ Greeted(link)
    /\ c.person # NoPerson /\ (c.person # server.person \/ ~server.known)
    /\ server' = server /\ link' = [link EXCEPT !.refused = TRUE]
ReadsCommand(f) ==
    /\ f.type \in Commands /\ link.person /\ ~link.bad /\ ~link.refused
    /\ server' = Heard(f) /\ link' = link
ReadsInVain(f) ==
    /\ f.type \in Commands /\ ~link.person /\ (link.bad \/ link.refused)
    /\ server' = server /\ link' \in {link, [link EXCEPT !.bad = TRUE]}

LEMMA ReadsInTurn ==
    ASSUME Core(c, net, link, hist), Talk(c, net, link, server, hist),
           server \in Server, ServerReads
    PROVE  LET f == Head(net.toServer)
               p == net.toServer \o c.out
               r == Tail(net.toServer) \o c.out
           IN /\ \/ ReadsHandshake(f) \/ ReadsNewPlayer(f) \/ ReadsReconnect(f)
                 \/ ReadsStranger(f) \/ ReadsCommand(f) \/ ReadsInVain(f)
              /\ c.sock /\ net.st = "UP" /\ c' = c /\ hist' = hist
              /\ net' = [net EXCEPT !.toServer = Tail(net.toServer)]
              /\ Stages(c, p, link) /\ Stages(c, r, link')
<1>. DEFINE f == Head(net.toServer)
            p == net.toServer \o c.out
            r == Tail(net.toServer) \o c.out
<1>1. /\ c \in Conn /\ net \in Net /\ net.st = "UP" /\ net.toServer # <<>>
      /\ link \in Link
      /\ c.sock /\ Showing(c, server, hist.shown) /\ Stages(c, Line(c, net), link)
      /\ c' = c /\ hist' = hist
      /\ net' = [net EXCEPT !.toServer = Tail(net.toServer)]
  BY DEF Core, Talk, ServerReads, Wired
<1>2. Stages(c, p, link)
  BY <1>1 DEF Line
<1>3. /\ p \in Seq(ToServer) /\ r \in Seq(ToServer) /\ f \in ToServer /\ Len(r) \in Nat
      /\ Len(p) = Len(r) + 1 /\ p[1] = f
      /\ \A i \in 1..Len(r) : r[i] = p[i + 1]
      /\ \A n \in Nat : OnlyCommands(p, n + 1) => OnlyCommands(r, n)
  <2>1. net.toServer \in Seq(ToServer) /\ c.out \in Seq(ToServer)
    BY <1>1 DEF Net, Conn
  <2>. QED
    BY <1>1, <2>1, TailOfLine
<1>. DEFINE known == f.person = server.person /\ server.known
            ahead == f.n > server.log - server.offset
<1>4. (CASE link.bad -> link' = link /\ server' = server
         [] ~link.bad /\ f.type = "WS_HEADER" ->
              /\ link' = [link EXCEPT !.st = "WRITING"]
              /\ server' = server
         [] ~link.bad /\ f.type = "NEW_PLAYER" /\ ~link.person ->
              /\ server' = NewPerson(server.person + 1, server.log)
              /\ link' = [link EXCEPT !.person = TRUE, !.at = 0]
         [] ~link.bad /\ f.type = "RECONNECT" /\ ~link.person ->
              /\ server' = IF known /\ ~ahead THEN [server EXCEPT !.silent = 0]
                           ELSE server
              /\ link' = IF ~known THEN [link EXCEPT !.refused = TRUE]
                         ELSE IF ahead THEN [link EXCEPT !.bad = TRUE]
                         ELSE [link EXCEPT !.person = TRUE, !.at = f.n]
         [] ~link.bad /\ link.person /\ f.type \in Commands ->
              /\ server' = Heard(f)
              /\ link' = link
         [] OTHER ->
              /\ link' = [link EXCEPT !.bad = TRUE]
              /\ server' = server)
  BY DEF ServerReads
<1>5. p # <<>>
  BY <1>3, EmptySeq
<1>. HIDE DEF f, p, r
<1>6. \/ /\ p = <<WsHeader>> /\ link = NoLink
         /\ "WS_HEADER" \notin c.dirty /\ "HEADER" \in c.dirty
      \/ /\ "WS_HEADER" \notin c.dirty /\ "HEADER" \notin c.dirty /\ link = NoLink
         /\ Len(p) >= 2 /\ p[1] = WsHeader /\ p[2] = Header(c) /\ OnlyCommands(p, 3)
      \/ /\ "WS_HEADER" \notin c.dirty /\ "HEADER" \notin c.dirty /\ Greeted(link)
         /\ p[1] = Header(c) /\ OnlyCommands(p, 2)
      \/ /\ "WS_HEADER" \notin c.dirty /\ "HEADER" \notin c.dirty /\ link.st # "NONE"
         /\ link.person <=> ~(link.refused \/ link.bad)
         /\ OnlyCommands(p, 1)
  BY <1>2, <1>5 DEF Stages
<1>7. ASSUME p[1] = WsHeader, link = NoLink, "WS_HEADER" \notin c.dirty
      PROVE  ReadsHandshake(f) /\ Greeted(link')
  <2>1. f = WsHeader /\ f.type = "WS_HEADER"
    BY <1>3, <1>7 DEF WsHeader
  <2>2. ~link.bad /\ ~link.person /\ ~link.refused /\ link.told = {}
    BY <1>7 DEF NoLink
  <2>3. link' = [link EXCEPT !.st = "WRITING"] /\ server' = server
    BY <1>4, <2>1, <2>2
  <2>4. Greeted(link')
    BY <1>1, <2>2, <2>3 DEF Greeted, Link
  <2>. QED
    BY <1>7, <2>1, <2>3, <2>4 DEF ReadsHandshake
<1>8. CASE /\ p = <<WsHeader>> /\ link = NoLink
           /\ "WS_HEADER" \notin c.dirty /\ "HEADER" \in c.dirty
  <2>1. p[1] = WsHeader /\ Len(p) = 1
    BY <1>8
  <2>2. r = <<>>
    BY <1>3, <2>1, EmptySeq
  <2>3. ReadsHandshake(f) /\ Greeted(link')
    BY <1>7, <1>8, <2>1
  <2>4. Stages(c, r, link')
    BY <1>8, <2>2, <2>3 DEF Stages
  <2>. QED
    BY <1>1, <1>2, <2>3, <2>4 DEF f, p, r
<1>9. CASE /\ "WS_HEADER" \notin c.dirty /\ "HEADER" \notin c.dirty /\ link = NoLink
           /\ Len(p) >= 2 /\ p[1] = WsHeader /\ p[2] = Header(c) /\ OnlyCommands(p, 3)
  <2>1. ReadsHandshake(f) /\ Greeted(link')
    BY <1>7, <1>9
  <2>2. Len(r) >= 1 /\ r[1] = Header(c)
    <3>1. 1 \in 1..Len(r)
      BY <1>3, <1>9
    <3>2. r[1] = p[1 + 1]
      BY <1>3, <3>1
    <3>. QED
      BY <1>9, <3>1, <3>2
  <2>3. OnlyCommands(r, 2)
    <3>1. OnlyCommands(p, 2 + 1)
      BY <1>9
    <3>. QED
      BY <1>3, <3>1
  <2>4. Stages(c, r, link')
    BY <1>9, <2>1, <2>2, <2>3 DEF Stages
  <2>. QED
    BY <1>1, <1>2, <2>1, <2>4 DEF f, p, r
<1>10. CASE /\ "WS_HEADER" \notin c.dirty /\ "HEADER" \notin c.dirty /\ Greeted(link)
            /\ p[1] = Header(c) /\ OnlyCommands(p, 2)
  <2>1. f = Header(c) /\ ~link.bad /\ ~link.person /\ ~link.refused
        /\ link.st = "WRITING"
    BY <1>3, <1>10 DEF Greeted
  <2>2. OnlyCommands(r, 1)
    <3>1. OnlyCommands(p, 1 + 1)
      BY <1>10
    <3>. QED
      BY <1>3, <3>1
  <2>3. CASE c.person = NoPerson
    <3>1. f.type = "NEW_PLAYER"
      BY <2>1, <2>3 DEF Header
    <3>2. /\ server' = NewPerson(server.person + 1, server.log)
          /\ link' = [link EXCEPT !.person = TRUE, !.at = 0]
      BY <1>4, <2>1, <3>1
    <3>3. ReadsNewPlayer(f)
      BY <1>10, <2>1, <2>3, <3>2 DEF ReadsNewPlayer
    <3>4. Stages(c, r, link')
      BY <1>1, <1>10, <2>1, <2>2, <3>2 DEF Stages, Link
    <3>. QED
      BY <1>1, <1>2, <3>3, <3>4 DEF f, p, r
  <2>4. CASE c.person # NoPerson
    <3>1. f.type = "RECONNECT" /\ f.person = c.person /\ f.n = c.next
      BY <2>1, <2>4 DEF Header
    <3>2. /\ server' = IF known /\ ~ahead THEN [server EXCEPT !.silent = 0]
                       ELSE server
          /\ link' = IF ~known THEN [link EXCEPT !.refused = TRUE]
                     ELSE IF ahead THEN [link EXCEPT !.bad = TRUE]
                     ELSE [link EXCEPT !.person = TRUE, !.at = f.n]
      <4>. HIDE DEF known, ahead
      <4>. QED
        BY <1>4, <2>1, <3>1
    <3>3. known => ~ahead
      BY <1>1, <3>1 DEF Showing, Conn, Server
    <3>. HIDE DEF ahead
    <3>4. CASE known
      <4>1. ReadsReconnect(f)
        BY <1>10, <2>1, <2>4, <3>1, <3>2, <3>3, <3>4 DEF ReadsReconnect
      <4>2. Stages(c, r, link')
        BY <1>1, <1>10, <2>1, <2>2, <3>2, <3>3, <3>4 DEF Stages, Link
      <4>. QED
        BY <1>1, <1>2, <4>1, <4>2 DEF f, p, r
    <3>5. CASE ~known
      <4>1. ReadsStranger(f)
        BY <1>10, <2>1, <2>4, <3>1, <3>2, <3>5 DEF ReadsStranger
      <4>2. Stages(c, r, link')
        BY <1>1, <1>10, <2>1, <2>2, <3>2, <3>5 DEF Stages, Link
      <4>. QED
        BY <1>1, <1>2, <4>1, <4>2 DEF f, p, r
    <3>. QED
      BY <3>4, <3>5
  <2>. QED
    BY <2>3, <2>4
<1>11. CASE /\ "WS_HEADER" \notin c.dirty /\ "HEADER" \notin c.dirty /\ link.st # "NONE"
            /\ link.person <=> ~(link.refused \/ link.bad)
            /\ OnlyCommands(p, 1)
  <2>1. f.type \in Commands
    <3>1. 1 \in DOMAIN p
      BY <1>3, LenProperties
    <3>. QED
      BY <1>3, <1>11, <3>1 DEF OnlyCommands
  <2>2. f.type \notin {"WS_HEADER", "NEW_PLAYER", "RECONNECT"}
    BY <2>1 DEF Commands
  <2>3. OnlyCommands(r, 1)
    <3>1. DOMAIN p = 1..Len(p) /\ DOMAIN r = 1..Len(r)
      BY <1>3, LenProperties
    <3>2. ASSUME NEW i \in 1..Len(r) PROVE r[i].type \in Commands
      <4>1. i + 1 \in 1..Len(p) /\ i + 1 >= 1
        BY <1>3
      <4>. QED
        BY <1>3, <1>11, <3>1, <4>1 DEF OnlyCommands
    <3>. QED
      BY <3>1, <3>2 DEF OnlyCommands
  <2>4. CASE link.person
    <3>1. ~link.bad /\ ~link.refused
      BY <1>11, <2>4
    <3>2. server' = Heard(f) /\ link' = link
      BY <1>4, <2>1, <2>2, <2>4, <3>1
    <3>3. ReadsCommand(f)
      BY <2>1, <2>4, <3>1, <3>2 DEF ReadsCommand
    <3>4. Stages(c, r, link')
      BY <1>11, <2>3, <3>2 DEF Stages
    <3>. QED
      BY <1>1, <1>2, <3>3, <3>4 DEF f, p, r
  <2>5. CASE ~link.person
    <3>1. link.bad \/ link.refused
      BY <1>11, <2>5
    <3>2. server' = server /\ link' \in {link, [link EXCEPT !.bad = TRUE]}
      BY <1>4, <2>2, <2>5, <3>1
    <3>3. ReadsInVain(f)
      BY <2>1, <2>5, <3>1, <3>2 DEF ReadsInVain
    <3>4. Stages(c, r, link')
      BY <1>1, <1>11, <2>3, <2>5, <3>1, <3>2 DEF Stages, Link
    <3>. QED
      BY <1>1, <1>2, <3>3, <3>4 DEF f, p, r
  <2>. QED
    BY <2>4, <2>5
<1>. QED
  BY <1>6, <1>8, <1>9, <1>10, <1>11

\* What the server has told stays as it was while the game goes on, and while the
\* server forgets the person.
LEMMA TellingsGrow ==
    ASSUME NEW k, NEW s, NEW lk, NEW sv \in Server, NEW sw \in Server,
           Tellings(k, s, 1, lk, sv), lk.at \in Nat,
           sw.person = sv.person, sw.offset = sv.offset, sw.log >= sv.log,
           sw.known => sv.known
    PROVE  Tellings(k, s, 1, lk, sw)
<1>1. /\ sv.offset \in Nat /\ sv.log \in Nat /\ sw.log \in Nat
  BY DEF Server
<1>2. sw.offset <= sw.log
  BY <1>1 DEF Tellings
<1>3. lk.person => lk.at <= sw.log - sw.offset
  BY <1>1 DEF Tellings
<1>. QED
  BY <1>2, <1>3 DEF Tellings

LEMMA ShowingGrows ==
    ASSUME NEW k \in Conn, NEW shown, NEW sv \in Server, NEW sw \in Server,
           Showing(k, sv, shown),
           sw.person = sv.person, sw.offset = sv.offset, sw.log >= sv.log
    PROVE  Showing(k, sw, shown)
<1>1. sv.offset \in Nat /\ sv.log \in Nat /\ sw.log \in Nat /\ k.next \in Nat
  BY DEF Server, Conn
<1>. QED
  BY <1>1 DEF Showing

\* A command of a player is an event of the game, and the player is heard of.
LEMMA HeardFields ==
    ASSUME server \in Server, NEW f \in ToServer, f.type \in Commands
    PROVE  LET sv == Heard(f) IN
           /\ sv.person = server.person /\ sv.known = server.known
           /\ sv.offset = server.offset /\ sv.silent = 0
           /\ sv.log = IF f.type = "SEND_MESSAGE" THEN server.log + 1 ELSE server.log
           /\ sv.heard = IF f.type = "SEND_MESSAGE" THEN Append(server.heard, f.n)
                         ELSE server.heard
           /\ sv.place = IF f.type = "MOVE_TILE"
                           THEN [server.place EXCEPT ![f.tile] = f.place]
                           ELSE server.place
           /\ sv.left = (server.left \/ f.type = "LEAVE")
           /\ sv.typing = IF f.type = "TYPING" THEN f.on /\ ~server.left
                          ELSE IF f.type \in {"SEND_MESSAGE", "LEAVE"} THEN FALSE
                          ELSE server.typing
<1>. DEFINE sv == Heard(f)
<1>1. CASE f.type = "SEND_MESSAGE"
  <2>1. sv = [server EXCEPT !.silent = 0, !.log = server.log + 1,
                            !.typing = FALSE, !.heard = Append(server.heard, f.n)]
    BY <1>1 DEF Heard
  <2>. HIDE DEF sv
  <2>2. /\ sv.person = server.person /\ sv.known = server.known
        /\ sv.offset = server.offset /\ sv.silent = 0 /\ sv.log = server.log + 1
        /\ sv.heard = Append(server.heard, f.n) /\ sv.place = server.place
        /\ sv.left = server.left /\ sv.typing = FALSE
    BY <2>1 DEF Server
  <2>. QED
    BY <1>1, <2>2 DEF sv, Server
<1>2. CASE f.type = "MOVE_TILE"
  <2>. DEFINE places == [server.place EXCEPT ![f.tile] = f.place]
  <2>1. sv = [server EXCEPT !.silent = 0, !.place = places]
    BY <1>2 DEF Heard, Server
  <2>. HIDE DEF sv, places
  <2>2. /\ sv.person = server.person /\ sv.known = server.known
        /\ sv.offset = server.offset /\ sv.silent = 0 /\ sv.log = server.log
        /\ sv.heard = server.heard /\ sv.place = places
        /\ sv.left = server.left /\ sv.typing = server.typing
    BY <2>1 DEF Server
  <2>. QED
    BY <1>2, <2>2 DEF sv, places, Server
<1>3. CASE f.type = "TYPING"
  <2>. DEFINE on == f.on /\ ~server.left
  <2>1. sv = [server EXCEPT !.silent = 0, !.typing = on]
    BY <1>3 DEF Heard
  <2>. HIDE DEF sv, on
  <2>2. /\ sv.person = server.person /\ sv.known = server.known
        /\ sv.offset = server.offset /\ sv.silent = 0 /\ sv.log = server.log
        /\ sv.heard = server.heard /\ sv.place = server.place
        /\ sv.left = server.left /\ sv.typing = on
    BY <2>1 DEF Server
  <2>. QED
    BY <1>3, <2>2 DEF sv, on, Server
<1>4. CASE f.type = "LEAVE"
  <2>1. sv = [server EXCEPT !.silent = 0, !.left = TRUE, !.typing = FALSE]
    BY <1>4 DEF Heard
  <2>. HIDE DEF sv
  <2>2. /\ sv.person = server.person /\ sv.known = server.known
        /\ sv.offset = server.offset /\ sv.silent = 0 /\ sv.log = server.log
        /\ sv.heard = server.heard /\ sv.place = server.place
        /\ sv.left = TRUE /\ sv.typing = FALSE
    BY <2>1 DEF Server
  <2>. QED
    BY <1>4, <2>2 DEF sv
<1>5. CASE f.type \notin {"SEND_MESSAGE", "MOVE_TILE", "TYPING", "LEAVE"}
  <2>1. sv = [server EXCEPT !.silent = 0]
    BY <1>5 DEF Heard
  <2>. HIDE DEF sv
  <2>2. /\ sv.person = server.person /\ sv.known = server.known
        /\ sv.offset = server.offset /\ sv.silent = 0 /\ sv.log = server.log
        /\ sv.heard = server.heard /\ sv.place = server.place
        /\ sv.left = server.left /\ sv.typing = server.typing
    BY <2>1 DEF Server
  <2>. QED
    BY <1>5, <2>2 DEF sv, Server
<1>. QED
  BY <1>1, <1>2, <1>3, <1>4, <1>5

LEMMA ServerReadsTalks ==
    ASSUME Core(c, net, link, hist), Talk(c, net, link, server, hist),
           server \in Server, server' \in Server, ServerReads
    PROVE  Talk(c', net', link', server', hist')
<1>. DEFINE f == Head(net.toServer)
            r == Tail(net.toServer) \o c.out
<1>1. /\ \/ ReadsHandshake(f) \/ ReadsNewPlayer(f) \/ ReadsReconnect(f)
         \/ ReadsStranger(f) \/ ReadsCommand(f) \/ ReadsInVain(f)
      /\ c.sock /\ net.st = "UP" /\ c' = c /\ hist' = hist
      /\ net' = [net EXCEPT !.toServer = Tail(net.toServer)]
      /\ Stages(c, r, link')
  BY ReadsInTurn
<1>2. /\ c \in Conn /\ net \in Net /\ link \in Link
      /\ Tellings(c, net.toClient, 1, link, server)
      /\ Showing(c, server, hist.shown)
      /\ Timed(c) /\ Breathing(c, net, link, server, hist)
  BY DEF Core, Talk
<1>3. f \in ToServer
  <2>1. net.toServer \in Seq(ToServer) /\ net.toServer # <<>>
    BY <1>2 DEF Net, ServerReads
  <2>. QED
    BY <2>1, HeadTailProperties
<1>4. net'.toServer = Tail(net.toServer) /\ net'.toClient = net.toClient
  BY <1>1, <1>2 DEF Net
<1>5. Stages(c', Line(c', net'), link')
  BY <1>1, <1>4 DEF Line
<1>. DEFINE s == net.toClient
<1>6. /\ server.offset \in Nat /\ server.log \in Nat /\ server.person \in Nat
      /\ c.next \in Nat /\ link.at \in Nat /\ NoPerson = 0
      /\ c.keepAliveIn \in Int /\ c.keepAliveIn <= KeepAliveTime
      /\ KeepAliveTime \in Nat
  BY <1>2, ClientAssumption DEF Server, Conn, Link, NoPerson, Never
<1>7. ASSUME ~link.person
      PROVE  \A i \in 1..Len(s) : s[i].type \notin FromPerson
  BY <1>2, <1>7 DEF Tellings
<1>8. server.offset <= server.log
  BY <1>2 DEF Tellings
<1>. HIDE DEF f, r, s
<1>9. SUFFICES /\ Tellings(c, s, 1, link', server')
               /\ Showing(c, server', hist.shown)
               /\ c.sock /\ ~c.finished /\ link'.person /\ ~hist.putOff =>
                    /\ server'.known
                    /\ c.keepAliveIn # Never => server'.silent + c.keepAliveIn <= KeepAliveTime
  BY <1>1, <1>2, <1>4, <1>5 DEF Talk, Breathing, s
<1>10. CASE ReadsHandshake(f) \/ ReadsStranger(f) \/ ReadsInVain(f)
  <2>1. /\ server' = server /\ ~link.person /\ ~link'.person
        /\ link'.refused \/ link'.bad =>
             c.person # NoPerson /\ (c.person # server.person \/ ~server.known)
    <3>1. CASE ReadsHandshake(f)
      BY <3>1 DEF ReadsHandshake, NoLink
    <3>2. CASE ReadsStranger(f)
      BY <1>2, <3>2 DEF ReadsStranger, Link, Greeted
    <3>3. CASE ReadsInVain(f)
      <4>1. c.person # NoPerson /\ (c.person # server.person \/ ~server.known)
        BY <1>2, <3>3 DEF ReadsInVain, Tellings
      <4>2. ~link'.person
        BY <1>2, <3>3 DEF ReadsInVain, Link
      <4>. QED
        BY <3>3, <4>1, <4>2 DEF ReadsInVain
    <3>. QED
      BY <1>10, <3>1, <3>2, <3>3
  <2>2. \A i \in 1..Len(s) : s[i].type \notin FromPerson
    BY <1>7, <2>1
  <2>3. \A i \in 1..Len(s) : s[i].type # "PLAYER_ID"
    BY <2>2 DEF FromPerson
  <2>4. Tellings(c, s, 1, link', server')
    BY <1>8, <2>1, <2>2, <2>3 DEF Tellings
  <2>. QED
    BY <1>2, <2>1, <2>4
<1>11. ASSUME ~link.person, link'.person, ~link'.refused, ~link'.bad,
              link'.told = link.told, "PLAYER_ID" \notin link.told,
              link'.at = c.next, c.next <= server'.log - server'.offset,
              server'.offset \in Nat, server'.log \in Nat, server'.offset <= server'.log,
              c.person \in {NoPerson, server'.person}
       PROVE  Tellings(c, s, 1, link', server')
  <2>2. \A i \in 1..Len(s) : s[i].type \notin FromPerson
    BY <1>7, <1>11
  <2>3. \A i \in 1..Len(s) : s[i].type \notin {"PLAYER_ID", "MESSAGE"}
    BY <2>2 DEF FromPerson
  <2>4. \A m \in c.next + 1..link'.at : FALSE
    BY <1>6, <1>11
  <2>5. c.next <= link'.at /\ link'.at <= server'.log - server'.offset
    BY <1>6, <1>11
  <2>. QED
    BY <1>11, <2>2, <2>3, <2>4, <2>5 DEF Tellings
<1>12. CASE ReadsNewPlayer(f)
  <2>1. /\ ~link.person /\ ~link.refused /\ ~link.bad /\ "PLAYER_ID" \notin link.told
        /\ c.person = NoPerson /\ c.next = 0
    BY <1>2, <1>12 DEF ReadsNewPlayer, Greeted, Showing
  <2>2. /\ link'.person /\ ~link'.refused /\ ~link'.bad
        /\ link'.told = link.told /\ link'.at = 0
    BY <1>2, <1>12, <2>1 DEF ReadsNewPlayer, Link
  <2>3. /\ server'.person = server.person + 1 /\ server'.known
        /\ server'.offset = server.log /\ server'.log = server.log /\ server'.silent = 0
    BY <1>12 DEF ReadsNewPlayer, NewPerson
  <2>4. Tellings(c, s, 1, link', server')
    BY <1>6, <1>11, <2>1, <2>2, <2>3
  <2>5. Showing(c, server', hist.shown)
    <3>1. c.person # server'.person
      BY <1>6, <2>1, <2>3
    <3>. QED
      BY <1>2, <2>1, <3>1 DEF Showing
  <2>. QED
    BY <1>6, <2>3, <2>4, <2>5
<1>13. CASE ReadsReconnect(f)
  <2>1. /\ ~link.person /\ ~link.refused /\ ~link.bad /\ "PLAYER_ID" \notin link.told
        /\ c.person = server.person /\ server.known
    BY <1>13 DEF ReadsReconnect, Greeted
  <2>2. /\ link'.person /\ ~link'.refused /\ ~link'.bad
        /\ link'.told = link.told /\ link'.at = c.next
    BY <1>2, <1>13, <2>1 DEF ReadsReconnect, Link
  <2>3. /\ server'.person = server.person /\ server'.known
        /\ server'.offset = server.offset /\ server'.log = server.log
        /\ server'.silent = 0
    BY <1>13, <2>1 DEF ReadsReconnect, Server
  <2>4. c.next <= server.log - server.offset
    BY <1>2, <2>1 DEF Showing
  <2>5. Tellings(c, s, 1, link', server')
    BY <1>6, <1>8, <1>11, <2>1, <2>2, <2>3, <2>4
  <2>6. Showing(c, server', hist.shown)
    BY <1>2, <2>3 DEF Showing
  <2>. QED
    BY <1>6, <2>3, <2>5, <2>6
<1>14. CASE ReadsCommand(f)
  <2>1. /\ server' = Heard(f) /\ link' = link /\ link.person /\ f.type \in Commands
    BY <1>14 DEF ReadsCommand
  <2>2. /\ server'.person = server.person /\ server'.known = server.known
        /\ server'.offset = server.offset /\ server'.silent = 0
        /\ server'.log = IF f.type = "SEND_MESSAGE" THEN server.log + 1 ELSE server.log
    BY <1>3, <2>1, HeardFields
  <2>3. server'.log >= server.log
    BY <1>6, <2>2
  <2>4. Tellings(c, s, 1, link, server')
    BY <1>2, <1>6, <2>2, <2>3, TellingsGrow DEF s
  <2>5. Showing(c, server', hist.shown)
    BY <1>2, <2>2, <2>3, ShowingGrows
  <2>6. ~c.finished /\ ~hist.putOff => server.known
    BY <1>1, <1>2, <2>1 DEF Breathing
  <2>. QED
    BY <1>6, <2>1, <2>2, <2>4, <2>5, <2>6
<1>. QED
  BY <1>1, <1>10, <1>12, <1>13, <1>14

\* What the server may tell next.
TellsOther(f) ==
    /\ f.type \notin {"PLAYER_ID", "MESSAGE"}
    /\ f.type \in FromPerson => link.person
    /\ link'.at = link.at
    /\ "PLAYER_ID" \in link'.told <=> "PLAYER_ID" \in link.told
TellsPlayerId(f) ==
    /\ f.type = "PLAYER_ID" /\ f.person = server.person /\ link.person
    /\ "PLAYER_ID" \notin link.told /\ "PLAYER_ID" \in link'.told
    /\ link'.at = link.at
TellsMessage(f) ==
    /\ f.type = "MESSAGE" /\ f.n = server.offset + link.at + 1 /\ link.person
    /\ "PLAYER_ID" \in link.told /\ "PLAYER_ID" \in link'.told
    /\ link.at < server.log - server.offset /\ link'.at = link.at + 1

LEMMA PutTellings ==
    ASSUME NEW k \in Conn, NEW s \in Seq(ToClient), NEW f \in ToClient,
           link \in Link, link' \in Link, server \in Server,
           Tellings(k, s, 1, link, server),
           link'.person = link.person, link'.refused = link.refused,
           link'.bad = link.bad,
           TellsOther(f) \/ TellsPlayerId(f) \/ TellsMessage(f)
    PROVE  Tellings(k, Append(s, f), 1, link', server)
<1>. DEFINE t == Append(s, f)
            l == Len(s)
            len == l + 1
<1>1. /\ l \in Nat /\ t[len] = f /\ Len(t) = len
      /\ \A i \in 1..l : t[i] = s[i]
  BY AppendProperties, LenProperties
<1>2. /\ server.offset \in Nat /\ server.log \in Nat /\ link.at \in Nat
      /\ k.next \in Nat
  BY DEF Server, Link, Conn
<1>3. /\ server.offset <= server.log
      /\ \A i \in 1..l : s[i].type \in FromPerson => link.person
      /\ \A i \in 1..l : s[i].type = "PLAYER_ID" =>
           s[i].person = server.person /\ "PLAYER_ID" \in link.told
      /\ link.refused \/ link.bad =>
           k.person # NoPerson /\ (k.person # server.person \/ ~server.known)
  BY DEF Tellings
<1>4. ASSUME link.person
      PROVE  /\ k.person \in {NoPerson, server.person}
             /\ k.person = NoPerson /\ "PLAYER_ID" \in link.told =>
                  \E j \in 1..l : s[j].type = "PLAYER_ID"
             /\ k.person = NoPerson =>
                  \A j \in 1..l : s[j].type = "MESSAGE" =>
                    \E g \in 1..j - 1 : s[g].type = "PLAYER_ID"
             /\ k.next <= link.at /\ link.at <= server.log - server.offset
             /\ \A m \in k.next + 1..link.at :
                  \E j \in 1..l : s[j].type = "MESSAGE" /\ s[j].n = server.offset + m
             /\ \A j \in 1..l : s[j].type = "MESSAGE" =>
                  s[j].n \in server.offset + k.next + 1..server.offset + link.at
             /\ \A g, j \in 1..l :
                  g < j /\ s[g].type = "MESSAGE" /\ s[j].type = "MESSAGE"
                    => s[g].n < s[j].n
  BY <1>4 DEF Tellings
<1>. HIDE DEF t, l, len
<1>5. /\ len \in Nat /\ len \in 1..len /\ \A i \in 1..len : i \in 1..l \/ i = len
      /\ \A i \in 1..l : i \in 1..len /\ i < len
  BY <1>1 DEF len
<1>6. /\ \A i \in 1..len : t[i].type \in FromPerson => link.person
      /\ \A i \in 1..len : t[i].type = "PLAYER_ID" =>
           t[i].person = server.person /\ "PLAYER_ID" \in link'.told
  <2>1. ASSUME NEW i \in 1..len
        PROVE  /\ t[i].type \in FromPerson => link.person
               /\ t[i].type = "PLAYER_ID" =>
                    t[i].person = server.person /\ "PLAYER_ID" \in link'.told
    <3>1. CASE i \in 1..l
      BY <1>1, <1>3, <3>1 DEF TellsOther, TellsPlayerId, TellsMessage
    <3>2. CASE i = len
      BY <1>1, <3>2 DEF TellsOther, TellsPlayerId, TellsMessage
    <3>. QED
      BY <1>5, <3>1, <3>2
  <2>. QED
    BY <2>1
<1>7. ASSUME link.person
      PROVE  /\ k.person = NoPerson /\ "PLAYER_ID" \in link'.told =>
                  \E j \in 1..len : t[j].type = "PLAYER_ID"
             /\ k.person = NoPerson =>
                  \A j \in 1..len : t[j].type = "MESSAGE" =>
                    \E g \in 1..j - 1 : t[g].type = "PLAYER_ID"
             /\ k.next <= link'.at /\ link'.at <= server.log - server.offset
             /\ \A m \in k.next + 1..link'.at :
                  \E j \in 1..len : t[j].type = "MESSAGE" /\ t[j].n = server.offset + m
             /\ \A j \in 1..len : t[j].type = "MESSAGE" =>
                  t[j].n \in server.offset + k.next + 1..server.offset + link'.at
             /\ \A g, j \in 1..len :
                  g < j /\ t[g].type = "MESSAGE" /\ t[j].type = "MESSAGE"
                    => t[g].n < t[j].n
  <2>1. link.at <= link'.at
    BY <1>2 DEF TellsOther, TellsPlayerId, TellsMessage
  <2>2. ASSUME k.person = NoPerson, "PLAYER_ID" \in link'.told
        PROVE  \E j \in 1..len : t[j].type = "PLAYER_ID"
    <3>1. CASE TellsPlayerId(f)
      BY <1>1, <1>5, <3>1 DEF TellsPlayerId
    <3>2. CASE ~TellsPlayerId(f)
      <4>1. "PLAYER_ID" \in link.told
        BY <2>2, <3>2 DEF TellsOther, TellsMessage
      <4>2. PICK j \in 1..l : s[j].type = "PLAYER_ID"
        BY <1>4, <1>7, <2>2, <4>1
      <4>. QED
        BY <1>1, <1>5, <4>2
    <3>. QED
      BY <3>1, <3>2
  <2>3. ASSUME k.person = NoPerson, NEW j \in 1..len, t[j].type = "MESSAGE"
        PROVE  \E g \in 1..j - 1 : t[g].type = "PLAYER_ID"
    <3>1. CASE j \in 1..l
      <4>1. PICK g \in 1..j - 1 : s[g].type = "PLAYER_ID"
        BY <1>1, <1>4, <1>7, <2>3, <3>1
      <4>2. g \in 1..l
        BY <1>1, <3>1
      <4>. QED
        BY <1>1, <4>1, <4>2
    <3>2. CASE j = len
      <4>1. "PLAYER_ID" \in link.told
        BY <1>1, <2>3, <3>2 DEF TellsOther, TellsPlayerId, TellsMessage
      <4>2. PICK g \in 1..l : s[g].type = "PLAYER_ID"
        BY <1>4, <1>7, <2>3, <4>1
      <4>3. g \in 1..j - 1
        BY <1>1, <3>2 DEF len
      <4>. QED
        BY <1>1, <4>2, <4>3
    <3>. QED
      BY <1>5, <3>1, <3>2
  <2>4. k.next <= link'.at /\ link'.at <= server.log - server.offset
    <3>1. k.next <= link.at /\ link.at <= server.log - server.offset
      BY <1>4, <1>7
    <3>. QED
      BY <1>2, <3>1 DEF TellsOther, TellsPlayerId, TellsMessage
  <2>5. ASSUME NEW m \in k.next + 1..link'.at
        PROVE  \E j \in 1..len : t[j].type = "MESSAGE" /\ t[j].n = server.offset + m
    <3>1. CASE m \in k.next + 1..link.at
      <4>1. PICK j \in 1..l : s[j].type = "MESSAGE" /\ s[j].n = server.offset + m
        BY <1>4, <1>7, <3>1
      <4>. QED
        BY <1>1, <1>5, <4>1
    <3>2. CASE m \notin k.next + 1..link.at
      <4>1. TellsMessage(f)
        BY <3>2 DEF TellsOther, TellsPlayerId
      <4>2. m = link.at + 1
        BY <1>2, <3>2, <4>1 DEF TellsMessage
      <4>3. f.n = server.offset + m /\ f.type = "MESSAGE"
        BY <1>2, <4>1, <4>2 DEF TellsMessage
      <4>. QED
        BY <1>1, <1>5, <4>3
    <3>. QED
      BY <3>1, <3>2
  <2>6. ASSUME NEW j \in 1..len, t[j].type = "MESSAGE"
        PROVE  t[j].n \in server.offset + k.next + 1..server.offset + link'.at
    <3>1. CASE j \in 1..l
      <4>1. s[j].n \in server.offset + k.next + 1..server.offset + link.at
        BY <1>1, <1>4, <1>7, <2>6, <3>1
      <4>2. link'.at \in Nat
        BY DEF Link
      <4>. QED
        BY <1>1, <1>2, <2>1, <3>1, <4>1, <4>2
    <3>2. CASE j = len
      <4>1. f.n = server.offset + link.at + 1 /\ link'.at = link.at + 1
        BY <1>1, <2>6, <3>2 DEF TellsOther, TellsPlayerId, TellsMessage
      <4>2. k.next <= link.at
        BY <1>4, <1>7
      <4>3. f.n \in server.offset + k.next + 1..server.offset + link'.at
        BY <1>2, <4>1, <4>2
      <4>. QED
        BY <1>1, <3>2, <4>3
    <3>. QED
      BY <1>5, <3>1, <3>2
  <2>7. ASSUME NEW g \in 1..len, NEW j \in 1..len, g < j,
               t[g].type = "MESSAGE", t[j].type = "MESSAGE"
        PROVE  t[g].n < t[j].n
    <3>1. g \in 1..l
      BY <1>1, <2>7 DEF len
    <3>2. CASE j \in 1..l
      BY <1>1, <1>4, <1>7, <2>7, <3>1, <3>2
    <3>3. CASE j = len
      <4>1. f.n = server.offset + link.at + 1
        BY <1>1, <2>7, <3>3 DEF TellsOther, TellsPlayerId, TellsMessage
      <4>2. s[g].n \in server.offset + k.next + 1..server.offset + link.at
        BY <1>1, <1>4, <1>7, <2>7, <3>1
      <4>3. s[g].n < f.n
        BY <1>2, <4>1, <4>2
      <4>. QED
        BY <1>1, <3>1, <3>3, <4>3
    <3>. QED
      BY <1>5, <3>2, <3>3
  <2>. QED
    BY <2>2, <2>3, <2>4, <2>5, <2>6, <2>7
<1>8. Len(t) = len
  BY <1>1
<1>. QED
  BY <1>3, <1>4, <1>6, <1>7, <1>8 DEF Tellings, t

\* Something is put on the way to the client.
LEMMA PutTalks ==
    ASSUME Core(c, net, link, hist), Talk(c, net, link, server, hist),
           server \in Server, link' \in Link, NEW f \in ToClient,
           net' = [net EXCEPT !.toClient = Append(@, f)],
           c' = c, hist' = hist, server' = server,
           link'.person = link.person, link'.refused = link.refused,
           link'.bad = link.bad,
           TellsOther(f) \/ TellsPlayerId(f) \/ TellsMessage(f),
           Stages(c, Line(c, net), link')
    PROVE  Talk(c', net', link', server', hist')
<1>1. /\ c \in Conn /\ net \in Net /\ link \in Link
      /\ Tellings(c, net.toClient, 1, link, server)
      /\ Showing(c, server, hist.shown)
      /\ Timed(c) /\ Breathing(c, net, link, server, hist)
  BY DEF Core, Talk
<1>2. net.toClient \in Seq(ToClient)
  BY <1>1 DEF Net
<1>3. net'.st = net.st /\ net'.toServer = net.toServer
      /\ net'.toClient = Append(net.toClient, f)
  BY <1>1 DEF Net
<1>4. Tellings(c', net'.toClient, 1, link', server')
  <2>1. Tellings(c, Append(net.toClient, f), 1, link', server)
    BY <1>1, <1>2, PutTellings
  <2>. QED
    BY <1>3, <2>1
<1>5. Line(c', net') = Line(c, net)
  BY <1>3 DEF Line
<1>6. Breathing(c', net', link', server', hist')
  BY <1>1, <1>3 DEF Breathing
<1>. QED
  BY <1>1, <1>4, <1>5, <1>6 DEF Talk

\* The server's end goes on from where it was.
LEMMA LinkGoesOn ==
    ASSUME NEW k, NEW p, NEW lk, Stages(k, p, lk), lk # NoLink, NEW mk,
           mk.st # "NONE", mk.person = lk.person, mk.refused = lk.refused,
           mk.bad = lk.bad, Greeted(lk) => Greeted(mk)
    PROVE  Stages(k, p, mk)
BY DEF Stages

LEMMA ServerWritesTalks ==
    ASSUME Core(c, net, link, hist), Talk(c, net, link, server, hist),
           server \in Server, Personal(link, server), ServerWrites
    PROVE  Talk(c', net', link', server', hist')
<1>1. /\ link \in Link /\ net.st = "UP" /\ link \in Link /\ server \in Server
      /\ c' = c /\ hist' = hist /\ server' = server
      /\ Stages(c, Line(c, net), link)
  BY DEF Core, Talk, ServerWrites, CanWrite
<1>2. PICK w \in ServerTells :
        /\ net' = [net EXCEPT !.toClient = Append(@, w[1])]
        /\ link' = w[2]
  BY DEF ServerWrites
<1>3. w[1] \in ToClient /\ w[2] \in Link /\ link.st = "WRITING"
  BY <1>1, TellsAreTyped
<1>. DEFINE told(type) == [link EXCEPT !.told = @ \cup {type}]
            later == [link EXCEPT !.at = @ + 1]
            done == [link EXCEPT !.st = "DONE"]
<1>4. /\ link.at < server.log - server.offset \/ ~(link.at < server.log - server.offset)
      /\ \/ w = <<Tells("UPGRADED"), told("UPGRADED")>>
         \/ link.refused /\ w = <<Tells("BAD_PLAYER_ID"), done>>
         \/ /\ link.person
            /\ \/ /\ "PLAYER_ID" \notin link.told
                  /\ w = <<[type |-> "PLAYER_ID", person |-> server.person],
                           told("PLAYER_ID")>>
               \/ /\ "PLAYER_ID" \in link.told /\ link.at < server.log - server.offset
                  /\ w = <<[type |-> "MESSAGE", n |-> server.offset + link.at + 1],
                           later>>
               \/ w = <<Tells("END"), done>>
               \/ w = <<Tells("SYNC"), told("SYNC")>>
  <2>. HIDE DEF Tells
  <2>. QED
    BY DEF ServerTells
<1>5. ASSUME NEW type \in {"UPGRADED", "PLAYER_ID", "SYNC"}
      PROVE  LET mk == told(type) IN
             /\ mk.st = link.st /\ mk.person = link.person /\ mk.at = link.at
             /\ mk.refused = link.refused /\ mk.bad = link.bad
             /\ mk.told = link.told \cup {type}
  BY <1>1 DEF Link
<1>6. /\ later.st = link.st /\ later.person = link.person /\ later.at = link.at + 1
      /\ later.refused = link.refused /\ later.bad = link.bad
      /\ later.told = link.told
      /\ done.st = "DONE" /\ done.person = link.person /\ done.at = link.at
      /\ done.refused = link.refused /\ done.bad = link.bad
      /\ done.told = link.told
  BY <1>1 DEF Link
<1>. HIDE DEF told, later, done
<1>. DEFINE f == w[1]
<1>7. /\ link'.st # "NONE" /\ link'.person = link.person
      /\ link'.refused = link.refused /\ link'.bad = link.bad
      /\ Greeted(link) => Greeted(link')
      /\ TellsOther(f) \/ TellsPlayerId(f) \/ TellsMessage(f)
  <2>1. CASE w = <<Tells("UPGRADED"), told("UPGRADED")>>
    <3>1. f.type = "UPGRADED" /\ link' = told("UPGRADED")
      BY <1>2, <2>1 DEF Tells
    <3>2. TellsOther(f)
      BY <1>5, <3>1 DEF TellsOther, FromPerson
    <3>. QED
      BY <1>3, <1>5, <3>1, <3>2 DEF Greeted
  <2>2. CASE link.refused /\ w = <<Tells("BAD_PLAYER_ID"), done>>
    <3>1. f.type = "BAD_PLAYER_ID" /\ link' = done
      BY <1>2, <2>2 DEF Tells
    <3>2. TellsOther(f)
      BY <1>6, <3>1 DEF TellsOther, FromPerson
    <3>. QED
      BY <1>3, <1>6, <2>2, <3>1, <3>2 DEF Greeted
  <2>3. CASE /\ link.person /\ "PLAYER_ID" \notin link.told
             /\ w = <<[type |-> "PLAYER_ID", person |-> server.person],
                      told("PLAYER_ID")>>
    <3>1. f.type = "PLAYER_ID" /\ f.person = server.person /\ link' = told("PLAYER_ID")
      BY <1>2, <2>3
    <3>2. TellsPlayerId(f)
      BY <1>5, <2>3, <3>1 DEF TellsPlayerId
    <3>. QED
      BY <1>3, <1>5, <2>3, <3>1, <3>2 DEF Greeted
  <2>4. CASE /\ link.person
             /\ "PLAYER_ID" \in link.told /\ link.at < server.log - server.offset
             /\ w = <<[type |-> "MESSAGE", n |-> server.offset + link.at + 1], later>>
    <3>1. f.type = "MESSAGE" /\ f.n = server.offset + link.at + 1 /\ link' = later
      BY <1>2, <2>4
    <3>2. TellsMessage(f)
      BY <1>6, <2>4, <3>1 DEF TellsMessage
    <3>. QED
      BY <1>3, <1>6, <2>4, <3>1, <3>2 DEF Greeted
  <2>5. CASE link.person /\ w = <<Tells("END"), done>>
    <3>1. f.type = "END" /\ link' = done
      BY <1>2, <2>5 DEF Tells
    <3>2. TellsOther(f)
      BY <1>6, <2>5, <3>1 DEF TellsOther
    <3>. QED
      BY <1>3, <1>6, <2>5, <3>1, <3>2 DEF Greeted
  <2>6. CASE link.person /\ w = <<Tells("SYNC"), told("SYNC")>>
    <3>1. f.type = "SYNC" /\ link' = told("SYNC")
      BY <1>2, <2>6 DEF Tells
    <3>2. TellsOther(f)
      BY <1>5, <2>6, <3>1 DEF TellsOther
    <3>. QED
      BY <1>3, <1>5, <2>6, <3>1, <3>2 DEF Greeted
  <2>. QED
    BY <1>4, <2>1, <2>2, <2>3, <2>4, <2>5, <2>6
<1>8. Stages(c, Line(c, net), link')
  <2>1. link # NoLink
    BY <1>3 DEF NoLink
  <2>. QED
    BY <1>1, <1>7, <2>1, LinkGoesOn
<1>9. f \in ToClient /\ net' = [net EXCEPT !.toClient = Append(@, f)] /\ link' \in Link
  BY <1>2, <1>3
<1>. HIDE DEF f
<1>. QED
  BY <1>1, <1>7, <1>8, <1>9, PutTalks

LEMMA ServerShutsTalks ==
    ASSUME Core(c, net, link, hist), Talk(c, net, link, server, hist),
           server \in Server, ServerShuts
    PROVE  Talk(c', net', link', server', hist')
<1>1. /\ link \in Link /\ net.st = "UP" /\ c' = c /\ hist' = hist /\ server' = server
      /\ Machine(c) /\ Wired(c, net, link) /\ c \in Conn /\ net \in Net
      /\ net' = [net EXCEPT !.toClient = Append(@, Tells("EOF"))]
      /\ link' = [link EXCEPT !.st = "SHUT"]
      /\ link.bad \/ (net.toServer = <<>> /\ c.sock /\ c.writeFinished)
      /\ Stages(c, Line(c, net), link)
  BY DEF Core, Talk, ServerShuts, CanShut
<1>2. /\ link' \in Link /\ link'.person = link.person /\ link'.refused = link.refused
      /\ link'.bad = link.bad /\ link'.at = link.at /\ link'.told = link.told
      /\ link'.st = "SHUT"
  BY <1>1 DEF Link
<1>3. Tells("EOF") \in ToClient /\ Tells("EOF").type = "EOF"
  BY DEF Tells, ToClient
<1>4. TellsOther(Tells("EOF"))
  BY <1>2, <1>3 DEF TellsOther, FromPerson
<1>5. link # NoLink /\ ~Greeted(link)
  <2>1. CASE link.bad
    BY <2>1 DEF Greeted, NoLink
  <2>2. CASE net.toServer = <<>> /\ c.sock /\ c.writeFinished
    <3>1. /\ c.out = <<>> /\ "WS_HEADER" \notin c.dirty /\ "HEADER" \notin c.dirty
      BY <1>1, <2>2 DEF Machine
    <3>2. Line(c, net) = <<>>
      BY <2>2, <3>1 DEF Line
    <3>3. Len(Line(c, net)) = 0
      BY <3>2
    <3>4. link.st # "NONE" /\ (link.person <=> ~(link.refused \/ link.bad))
      BY <1>1, <3>1, <3>3 DEF Stages
    <3>. QED
      BY <3>4 DEF Greeted, NoLink
  <2>. QED
    BY <1>1, <2>1, <2>2
<1>6. Stages(c, Line(c, net), link')
  BY <1>1, <1>2, <1>5, LinkGoesOn
<1>. QED
  BY <1>1, <1>2, <1>3, <1>4, <1>6, PutTalks

LEMMA NetworkTalks ==
    ASSUME Core(c, net, link, hist), Talk(c, net, link, server, hist),
           server \in Server, Connects \/ Breaks \/ Garbles
    PROVE  Talk(c', net', link', server', hist')
<1>1. /\ c \in Conn /\ Wired(c, net, link) /\ net \in Net /\ link \in Link
      /\ hist \in Hist /\ c' = c /\ server' = server
      /\ net.st = "UP" => Stages(c, Line(c, net), link)
      /\ Tellings(c, net.toClient, 1, link, server)
      /\ Showing(c, server, hist.shown)
      /\ Timed(c) /\ Breathing(c, net, link, server, hist)
  BY DEF Core, Talk, Connects, Breaks, Garbles
<1>2. CASE Connects
  <2>1. /\ net.st = "CONNECTING" /\ net' = [net EXCEPT !.st = "UP"]
        /\ link' = link /\ hist' = hist
    BY <1>2 DEF Connects
  <2>2. /\ net'.st = "UP" /\ net'.toServer = net.toServer
        /\ net'.toClient = net.toClient
    BY <1>1, <2>1 DEF Net
  <2>3. /\ c.sock /\ net.toServer = <<>> /\ link = NoLink /\ c.out = <<>>
        /\ "WS_HEADER" \in c.dirty /\ "HEADER" \in c.dirty
    BY <1>1, <2>1 DEF Wired
  <2>4. Line(c', net') = <<>>
    BY <1>1, <2>2, <2>3 DEF Line
  <2>5. Stages(c', Line(c', net'), link')
    BY <1>1, <2>1, <2>3, <2>4 DEF Stages
  <2>6. Breathing(c', net', link', server', hist')
    BY <1>1, <2>1, <2>2 DEF Breathing
  <2>. QED
    BY <1>1, <2>1, <2>2, <2>5, <2>6 DEF Talk
<1>3. CASE Breaks
  <2>1. /\ net'.st = "BROKEN" /\ net'.toClient = <<>> /\ link' = NoLink
        /\ hist'.shown = hist.shown
    BY <1>1, <1>3, EndedFields DEF Breaks
  <2>. QED
    BY <1>1, <2>1, LostTalks
<1>4. CASE Garbles
  <2>. DEFINE f == Tells("BAD")
  <2>1. /\ net' = [net EXCEPT !.toClient = Append(@, f)]
        /\ link' = link /\ hist' = hist /\ net.st \in {"CONNECTING", "UP"}
        /\ "UPGRADED" \in link.told
    BY <1>4 DEF Garbles, Unreachable
  <2>2. f \in ToClient /\ f.type = "BAD"
    BY DEF Tells, ToClient
  <2>. HIDE DEF f
  <2>3. TellsOther(f)
    BY <2>1, <2>2 DEF TellsOther, FromPerson
  <2>4. net.st = "UP"
    BY <1>1, <2>1 DEF Wired, NoLink
  <2>. QED
    BY <1>1, <2>1, <2>2, <2>3, <2>4, PutTalks
<1>. QED
  BY <1>2, <1>3, <1>4

\* The calls of the application, one by one: what each changes.
LEMMA SetTypingFields ==
    ASSUME c \in Conn, SetTyping
    PROVE  /\ Same(c', c, {"typing", "writeFinished", "poll"})
           /\ c'.typing = ~c.typing
           /\ net' = net /\ link' = link /\ hist' = hist
<1>. DEFINE k == [c EXCEPT !.typing = ~c.typing]
<1>1. /\ c' = UpdatePoll(k) /\ net' = net /\ link' = link /\ hist' = hist
  BY DEF SetTyping
<1>2. k \in Conn /\ Same(k, c, {"typing"}) /\ k.typing = ~c.typing
  BY DEF Conn, Same, Fields
<1>. HIDE DEF k
<1>3. Same(c', k, {"writeFinished", "poll"})
  BY <1>1, <1>2, UpdatePollFields
<1>. QED
  BY <1>1, <1>2, <1>3 DEF Same, Fields

LEMMA SetDirtyFields ==
    ASSUME c \in Conn, NEW flag \in {"N_TILES", "LEAVE"},
           c' = UpdatePoll([c EXCEPT !.dirty = @ \cup {flag}])
    PROVE  /\ Same(c', c, {"dirty", "writeFinished", "poll"})
           /\ c'.dirty = c.dirty \cup {flag}
<1>. DEFINE d == c.dirty \cup {flag}
            k == [c EXCEPT !.dirty = d]
<1>1. d \in SUBSET FlagSet
  BY DEF Conn, FlagSet
<1>2. c' = UpdatePoll(k)
  OBVIOUS
<1>. HIDE DEF d
<1>3. k \in Conn /\ Same(k, c, {"dirty"}) /\ k.dirty = d
  BY <1>1 DEF Conn, Same, Fields
<1>. HIDE DEF k
<1>4. Same(c', k, {"writeFinished", "poll"})
  BY <1>2, <1>3, UpdatePollFields
<1>. QED
  BY <1>3, <1>4 DEF Same, Fields, d

LEMMA SendMessageFields ==
    ASSUME c \in Conn, hist \in Hist, SendMessage
    PROVE  /\ Same(c', c, {"messages", "writeFinished", "poll"})
           /\ c'.messages = Append(c.messages, hist.said + 1)
           /\ net' = net /\ link' = link
           /\ hist'.said = hist.said + 1 /\ hist'.before = hist.before
           /\ hist'.shown = hist.shown /\ hist'.moved = hist.moved
           /\ hist'.lost = hist.lost /\ hist'.putOff = hist.putOff
<1>. DEFINE n == hist.said + 1
            more == Append(c.messages, n)
            k == [c EXCEPT !.messages = more]
<1>1. /\ c' = UpdatePoll(k) /\ net' = net /\ link' = link
      /\ hist' = [hist EXCEPT !.said = n]
  BY DEF SendMessage
<1>2. n \in Nat
  BY DEF Hist
<1>3. more \in Seq(Nat)
  BY <1>2, AppendProperties DEF Conn
<1>. HIDE DEF n, more
<1>4. k \in Conn /\ Same(k, c, {"messages"}) /\ k.messages = more
  BY <1>3 DEF Conn, Same, Fields
<1>. HIDE DEF k
<1>5. Same(c', k, {"writeFinished", "poll"})
  BY <1>1, <1>4, UpdatePollFields
<1>6. /\ hist'.said = n /\ hist'.before = hist.before
      /\ hist'.shown = hist.shown /\ hist'.moved = hist.moved
      /\ hist'.lost = hist.lost /\ hist'.putOff = hist.putOff
  BY <1>1 DEF Hist
<1>7. Same(c', c, {"messages", "writeFinished", "poll"}) /\ c'.messages = more
  BY <1>4, <1>5 DEF Same, Fields
<1>. QED
  BY <1>1, <1>6, <1>7 DEF more, n

LEMMA MoveTileFields ==
    ASSUME c \in Conn, hist \in Hist, NEW t \in Tile, NEW p \in Place, MoveTile(t, p)
    PROVE  /\ Same(c', c, {"tiles", "writeFinished", "poll"})
           /\ c'.tiles = MovesAfter(c.tiles, t, p)
           /\ net' = net /\ link' = link
           /\ hist'.moved = [hist.moved EXCEPT ![t] = p]
           /\ hist'.said = hist.said /\ hist'.before = hist.before
           /\ hist'.shown = hist.shown
           /\ hist'.lost = hist.lost /\ hist'.putOff = hist.putOff
<1>. DEFINE more == MovesAfter(c.tiles, t, p)
            k == [c EXCEPT !.tiles = more]
            places == [hist.moved EXCEPT ![t] = p]
<1>1. /\ c' = UpdatePoll(k) /\ net' = net /\ link' = link
      /\ hist' = [hist EXCEPT !.moved = places]
  BY DEF MoveTile, MovesAfter, Hist
<1>2. more \in Seq([num : Tile, place : Place])
  BY MovesAfterTyped DEF Conn
<1>. HIDE DEF more, places
<1>3. k \in Conn /\ Same(k, c, {"tiles"}) /\ k.tiles = more
  BY <1>2 DEF Conn, Same, Fields
<1>. HIDE DEF k
<1>4. Same(c', k, {"writeFinished", "poll"})
  BY <1>1, <1>3, UpdatePollFields
<1>5. /\ hist'.moved = places /\ hist'.said = hist.said /\ hist'.before = hist.before
      /\ hist'.shown = hist.shown
      /\ hist'.lost = hist.lost /\ hist'.putOff = hist.putOff
  BY <1>1 DEF Hist
<1>6. Same(c', c, {"tiles", "writeFinished", "poll"}) /\ c'.tiles = more
  BY <1>3, <1>4 DEF Same, Fields
<1>. QED
  BY <1>1, <1>5, <1>6 DEF more, places

\* To configure or to start the connection changes nothing of what it has to say.
LEMMA MaybeStartFields ==
    ASSUME Core(c, net, link, hist), NEW k \in Conn,
           Same(k, c, {"address", "name", "person"}),
           c' = MaybeStart(k) \/ (c.state = "DISCONNECTED" /\ c' = StartConnecting(k))
    PROVE  Same(c', k, {"timeout", "reconnectIn", "state", "poll", "writeFinished"})
<1>1. c' = k \/ (~c.sock /\ c' = StartConnecting(k))
  <2>1. k.state = c.state
    BY DEF Same, Fields
  <2>. QED
    BY <2>1 DEF MaybeStart, Core, Machine
<1>2. CASE c' = k
  BY <1>2 DEF Same
<1>3. CASE ~c.sock /\ c' = StartConnecting(k)
  <2>1. ~k.sock /\ ~k.poll.fd /\ k.keepAliveIn = Never
    BY <1>3 DEF Same, Fields, Core, Machine, Polling
  <2>. QED
    BY <1>3, <2>1, StartConnectingFields
<1>. QED
  BY <1>1, <1>2, <1>3

LEMMA ConfigureFields ==
    ASSUME Core(c, net, link, hist), SetAddress \/ SetPlayerName \/ Start
    PROVE  /\ Same(c', c, {"address", "name", "timeout", "reconnectIn", "state",
                           "poll", "writeFinished"})
           /\ net' = net /\ link' = link
           /\ hist'.shown = hist.shown /\ hist'.said = hist.said
           /\ hist'.before = hist.before /\ hist'.moved = hist.moved
           /\ hist'.lost = hist.lost /\ hist'.putOff = hist.putOff
<1>1. c \in Conn /\ hist \in Hist
  BY DEF Core
<1>2. CASE SetAddress
  <2>. DEFINE k == [c EXCEPT !.address = TRUE]
  <2>1. k \in Conn /\ Same(k, c, {"address"})
    BY <1>1 DEF Conn, Same, Fields
  <2>2. c' = MaybeStart(k) /\ net' = net /\ link' = link /\ hist' = hist
    BY <1>2 DEF SetAddress
  <2>. HIDE DEF k
  <2>3. Same(k, c, {"address", "name", "person"})
    BY <2>1 DEF Same
  <2>4. Same(c', k, {"timeout", "reconnectIn", "state", "poll", "writeFinished"})
    BY <2>1, <2>2, <2>3, MaybeStartFields
  <2>. QED
    BY <2>1, <2>2, <2>4 DEF Same, Fields
<1>3. CASE SetPlayerName
  <2>. DEFINE k == [c EXCEPT !.name = TRUE]
  <2>1. k \in Conn /\ Same(k, c, {"name"})
    BY <1>1 DEF Conn, Same, Fields
  <2>2. c' = MaybeStart(k) /\ net' = net /\ link' = link /\ hist' = hist
    BY <1>3 DEF SetPlayerName
  <2>. HIDE DEF k
  <2>3. Same(k, c, {"address", "name", "person"})
    BY <2>1 DEF Same
  <2>4. Same(c', k, {"timeout", "reconnectIn", "state", "poll", "writeFinished"})
    BY <2>1, <2>2, <2>3, MaybeStartFields
  <2>. QED
    BY <2>1, <2>2, <2>4 DEF Same, Fields
<1>4. CASE Start
  <2>1. /\ net' = net /\ link' = link
        /\ hist' = [hist EXCEPT !.wanted = TRUE, !.tries = 0]
        /\ c' = c \/ (c.state = "DISCONNECTED" /\ c' = StartConnecting(c))
    BY <1>4 DEF Start
  <2>2. /\ hist'.shown = hist.shown /\ hist'.said = hist.said
        /\ hist'.before = hist.before /\ hist'.moved = hist.moved
        /\ hist'.lost = hist.lost /\ hist'.putOff = hist.putOff
    BY <1>1, <2>1 DEF Hist
  <2>3. Same(c, c, {"address", "name", "person"})
    BY DEF Same
  <2>4. Same(c', c, {"timeout", "reconnectIn", "state", "poll", "writeFinished"})
    <3>1. CASE c' = c
      BY <3>1 DEF Same
    <3>2. CASE c.state = "DISCONNECTED" /\ c' = StartConnecting(c)
      BY <1>1, <2>3, <3>2, MaybeStartFields
    <3>. QED
      BY <2>1, <3>1, <3>2
  <2>. QED
    BY <2>1, <2>2, <2>4 DEF Same
<1>. QED
  BY <1>2, <1>3, <1>4

LEMMA SetPersonIdFields ==
    ASSUME Core(c, net, link, hist), SetPersonId
    PROVE  /\ Same(c', c, {"person", "timeout", "reconnectIn", "state",
                           "poll", "writeFinished"})
           /\ c'.person = Saved /\ c.person = NoPerson /\ c.next = 0
           /\ ~c.sock /\ net' = net /\ link' = link
           /\ hist'.shown = hist.shown /\ hist'.said = hist.said /\ hist'.lost
           /\ hist'.before = hist.before /\ hist'.moved = hist.moved
<1>1. c \in Conn /\ hist \in Hist /\ Machine(c)
  BY DEF Core
<1>. DEFINE k == [c EXCEPT !.person = Saved]
<1>2. k \in Conn /\ Same(k, c, {"person"}) /\ k.person = Saved
  BY <1>1 DEF Conn, Same, Fields, Saved
<1>3. /\ c' = MaybeStart(k) /\ net' = net /\ link' = link
      /\ hist' = [hist EXCEPT !.lost = TRUE]
      /\ c.person = NoPerson /\ c.next = 0 /\ ~c.name
  BY DEF SetPersonId
<1>. HIDE DEF k
<1>4. Same(k, c, {"address", "name", "person"})
  BY <1>2 DEF Same
<1>5. Same(c', k, {"timeout", "reconnectIn", "state", "poll", "writeFinished"})
  BY <1>2, <1>3, <1>4, MaybeStartFields
<1>6. /\ hist'.shown = hist.shown /\ hist'.said = hist.said /\ hist'.lost
      /\ hist'.before = hist.before /\ hist'.moved = hist.moved
  BY <1>1, <1>3 DEF Hist
<1>7. ~c.sock
  BY <1>1, <1>3 DEF Machine, HasConfiguration
<1>. QED
  BY <1>2, <1>3, <1>5, <1>6, <1>7 DEF Same, Fields

LEMMA TryReconnectTalks ==
    ASSUME Core(c, net, link, hist), Talk(c, net, link, server, hist), TryReconnect,
           server' = server
    PROVE  Talk(c', net', link', server', hist')
<1>1. /\ c \in Conn /\ hist \in Hist /\ net \in Net
      /\ Wired(c, net, link) /\ Machine(c) /\ ~c.sock /\ link' = link
      /\ Showing(c, server, hist.shown)
  BY DEF Core, Talk, TryReconnect
<1>2. net.st = "NONE" /\ net.toClient = <<>> /\ link = NoLink
  BY <1>1 DEF Wired, Net
<1>3. hist'.shown = hist.shown
  BY <1>1 DEF TryReconnect, Hist
<1>4. /\ net'.st # "UP" /\ net'.toClient = <<>> /\ Timed(c')
      /\ c'.person = c.person /\ c'.next = c.next
  <2>1. CASE c' = Reconnected(c, "RECONNECTING") /\ net' = [NoNet EXCEPT !.st = "CONNECTING"]
    <3>1. /\ Same(c', c, {"sock", "reconnectIn", "playerAge", "state", "dirty",
                   "out", "upgraded", "writeFinished", "synced", "poll", "keepAliveIn"})
          /\ c'.dirty = c.dirty \cup {"WS_HEADER", "HEADER"}
      BY <1>1, <2>1, ReconnectedFields DEF Machine
    <3>2. net'.st = "CONNECTING" /\ net'.toClient = <<>>
      BY <2>1 DEF NoNet
    <3>. QED
      BY <3>1, <3>2 DEF Same, Fields, Timed
  <2>2. CASE c' = ReportError(Reconnecting(c)) /\ net' = net
    <3>. DEFINE k == Reconnecting(c)
    <3>1. /\ k \in Conn
          /\ Same(k, c, {"sock", "keepAliveIn", "reconnectIn", "playerAge"})
      BY <1>1, ReconnectingFields
    <3>. HIDE DEF k
    <3>2. /\ Same(c', k, {"sock", "keepAliveIn", "timeout", "reconnectIn",
                          "writeFinished", "poll"})
          /\ c'.sock = FALSE
      BY <2>2, <3>1, ReportErrorFields DEF k
    <3>. QED
      BY <1>2, <2>2, <3>1, <3>2 DEF Same, Fields, Timed
  <2>. QED
    BY <2>1, <2>2 DEF TryReconnect
<1>5. Showing(c', server, hist'.shown)
  BY <1>1, <1>3, <1>4 DEF Showing
<1>6. link' = NoLink
  BY <1>1, <1>2
<1>. QED
  BY <1>4, <1>5, <1>6, LostTalks

LEMMA WakeUpForNothingTalks ==
    ASSUME Core(c, net, link, hist), Talk(c, net, link, server, hist),
           WakeUpForNothing, server' = server
    PROVE  Talk(c', net', link', server', hist')
<1>1. net' = net /\ link' = link /\ hist' = hist
  BY DEF WakeUpForNothing
<1>2. CASE c.sock
  <2>1. c' = UpdatePoll(Woken)
    BY <1>2 DEF WakeUpForNothing
  <2>2. /\ Woken \in Conn /\ Woken.out = c.out /\ Timed(Woken)
        /\ Woken.sock = c.sock /\ Woken.person = c.person
        /\ Woken.next = c.next /\ Woken.finished = c.finished
        /\ Woken.keepAliveIn \in {c.keepAliveIn, Never}
        /\ "HEADER" \in Woken.dirty <=> "HEADER" \in c.dirty
        /\ "WS_HEADER" \in Woken.dirty <=> "WS_HEADER" \in c.dirty
    BY <1>2, WokenTalks
  <2>3. Same(c', Woken, {"writeFinished", "poll"})
    BY <2>1, <2>2, UpdatePollFields
  <2>4. /\ c'.out = c.out /\ c'.sock = c.sock /\ c'.person = c.person
        /\ c'.next = c.next /\ c'.finished = c.finished
        /\ c'.keepAliveIn = Woken.keepAliveIn /\ c'.dirty = Woken.dirty
    BY <2>2, <2>3 DEF Same, Fields
  <2>5. Timed(c')
    BY <2>2, <2>4 DEF Timed
  <2>. QED
    BY <1>1, <2>2, <2>4, <2>5, SameTalks
<1>3. CASE ~c.sock
  BY <1>1, <1>3 DEF WakeUpForNothing
<1>. QED
  BY <1>2, <1>3

LEMMA WakeUpTalks ==
    ASSUME Core(c, net, link, hist), Talk(c, net, link, server, hist),
           server \in Server, WakeUp
    PROVE  Talk(c', net', link', server', hist')
<1>1. server' = server
  BY DEF WakeUp
<1>. QED
  BY <1>1, TryReconnectTalks, HandleReadTalks, HandleWriteTalks, WakeUpForNothingTalks
     DEF WakeUp

\* A call that changes neither the connection nor who the player is.
LEMMA CallTalks ==
    ASSUME Talk(c, net, link, server, hist),
           Same(c', c, {"address", "name", "state", "timeout", "reconnectIn", "typing",
                        "dirty", "tiles", "messages", "writeFinished", "poll"}),
           c.dirty \subseteq c'.dirty,
           "HEADER" \in c'.dirty <=> "HEADER" \in c.dirty,
           "WS_HEADER" \in c'.dirty <=> "WS_HEADER" \in c.dirty,
           net' = net, link' = link, server' = server,
           hist'.shown = hist.shown, hist'.putOff = hist.putOff
    PROVE  Talk(c', net', link', server', hist')
<1>1. /\ c'.out = c.out /\ c'.sock = c.sock /\ c'.person = c.person
      /\ c'.next = c.next /\ c'.finished = c.finished
      /\ c'.keepAliveIn = c.keepAliveIn
  BY DEF Same, Fields
<1>2. Timed(c')
  BY <1>1 DEF Talk, Timed
<1>. QED
  BY <1>1, <1>2, SameTalks

LEMMA StopTalks ==
    ASSUME Core(c, net, link, hist), Talk(c, net, link, server, hist), Stop,
           server' = server
    PROVE  Talk(c', net', link', server', hist')
<1>1. /\ c \in Conn /\ Machine(c) /\ Polling(c, net) /\ Wired(c, net, link)
      /\ hist \in Hist /\ net \in Net /\ c' = Stopped(c)
      /\ hist' = [hist EXCEPT !.wanted = FALSE, !.lost = TRUE]
      /\ IF c.sock /\ ~c'.sock THEN net' = NoNet /\ link' = NoLink
                               ELSE UNCHANGED <<net, link>>
      /\ Showing(c, server, hist.shown)
  BY DEF Core, Talk, Stop
<1>2. hist'.shown = hist.shown
  BY <1>1 DEF Hist
<1>3. /\ Same(c', c, {"state", "sock", "keepAliveIn", "reconnectIn",
                      "writeFinished", "poll"})
      /\ c'.sock = FALSE
  BY <1>1, StoppedFields
<1>4. c'.person = c.person /\ c'.next = c.next
  BY <1>3 DEF Same, Fields
<1>5. Showing(c', server, hist'.shown) /\ Timed(c')
  BY <1>1, <1>2, <1>3, <1>4 DEF Showing, Timed
<1>6. net'.st # "UP" /\ net'.toClient = <<>> /\ link' = NoLink
  <2>1. CASE c.sock
    BY <1>1, <1>3, <2>1 DEF NoNet
  <2>2. CASE ~c.sock
    <3>1. net.st = "NONE" /\ net' = net /\ link' = link
      BY <1>1, <2>2 DEF Wired, Net
    <3>. QED
      BY <1>1, <3>1 DEF Wired
  <2>. QED
    BY <2>1, <2>2
<1>. QED
  BY <1>5, <1>6, LostTalks

LEMMA ResetTalks ==
    ASSUME Core(c, net, link, hist), Talk(c, net, link, server, hist),
           server \in Server, Reset, server' = server
    PROVE  Talk(c', net', link', server', hist')
<1>1. /\ c \in Conn /\ c' = ResetClient(c) /\ net' = NoNet /\ link' = NoLink
      /\ hist' = [NoHist EXCEPT !.before = hist.said, !.said = hist.said]
  BY DEF Core, Reset
<1>2. c'.sock = FALSE /\ c'.person = NoPerson /\ c'.next = 0
  BY <1>1, ResetClientFields
<1>3. hist'.shown = <<>>
  BY <1>1 DEF NoHist
<1>4. Showing(c', server, hist'.shown)
  <2>1. Len(hist'.shown) = 0 /\ hist'.shown = [i \in 1..0 |-> server.offset + i]
    BY <1>3
  <2>2. server.offset <= server.log /\ server.offset \in Nat /\ server.log \in Nat
    BY DEF Server, Talk, Tellings
  <2>3. 0 <= server.log - server.offset
    BY <2>2
  <2>. QED
    BY <1>2, <2>1, <2>3 DEF Showing
<1>5. Timed(c')
  BY <1>2 DEF Timed
<1>6. net'.st # "UP" /\ net'.toClient = <<>>
  BY <1>1 DEF NoNet
<1>. QED
  BY <1>1, <1>4, <1>5, <1>6, LostTalks

LEMMA SetPersonIdTalks ==
    ASSUME Core(c, net, link, hist), Talk(c, net, link, server, hist),
           server \in Server, SetPersonId, server' = server
    PROVE  Talk(c', net', link', server', hist')
<1>1. /\ c \in Conn /\ net \in Net /\ Wired(c, net, link)
      /\ Showing(c, server, hist.shown)
  BY DEF Core, Talk
<1>2. /\ Same(c', c, {"person", "timeout", "reconnectIn", "state",
                      "poll", "writeFinished"})
      /\ c'.person = Saved /\ c.person = NoPerson /\ c.next = 0
      /\ ~c.sock /\ net' = net /\ link' = link
      /\ hist'.shown = hist.shown
  BY SetPersonIdFields
<1>3. net.st = "NONE" /\ net.toClient = <<>> /\ link = NoLink
  BY <1>1, <1>2 DEF Wired, Net
<1>4. c'.next = 0 /\ c'.sock = c.sock
  BY <1>2 DEF Same, Fields
<1>5. Showing(c', server, hist'.shown)
  <2>1. Len(hist.shown) = 0
    BY <1>1, <1>2 DEF Showing
  <2>2. hist.shown = <<>>
    BY <2>1, EmptySeq DEF Core, Hist
  <2>3. hist.shown = [i \in 1..0 |-> server.offset + i]
    BY <2>2
  <2>4. server.offset <= server.log /\ server.offset \in Nat /\ server.log \in Nat
    BY DEF Server, Talk, Tellings
  <2>5. 0 <= server.log - server.offset
    BY <2>4
  <2>. QED
    BY <1>2, <1>4, <2>1, <2>3, <2>5 DEF Showing
<1>6. Timed(c')
  BY <1>2, <1>4 DEF Timed
<1>. QED
  BY <1>2, <1>3, <1>5, <1>6, LostTalks

LEMMA ApplicationTalks ==
    ASSUME Core(c, net, link, hist), Talk(c, net, link, server, hist),
           server \in Server, Application
    PROVE  Talk(c', net', link', server', hist')
<1>1. c \in Conn /\ hist \in Hist /\ server' = server
  BY DEF Core, Application
<1>. DEFINE S == {"address", "name", "state", "timeout", "reconnectIn", "typing",
                  "dirty", "tiles", "messages", "writeFinished", "poll"}
<1>2. CASE SetAddress \/ SetPlayerName \/ Start
  <2>1. /\ Same(c', c, {"address", "name", "timeout", "reconnectIn", "state",
                        "poll", "writeFinished"})
        /\ net' = net /\ link' = link
        /\ hist'.shown = hist.shown /\ hist'.putOff = hist.putOff
    BY <1>2, ConfigureFields
  <2>2. Same(c', c, S) /\ c'.dirty = c.dirty
    BY <2>1 DEF Same, Fields
  <2>. QED
    BY <1>1, <2>1, <2>2, CallTalks
<1>3. CASE SetTyping
  <2>1. /\ Same(c', c, {"typing", "writeFinished", "poll"})
        /\ net' = net /\ link' = link /\ hist' = hist
    BY <1>1, <1>3, SetTypingFields
  <2>2. Same(c', c, S) /\ c'.dirty = c.dirty
    BY <2>1 DEF Same, Fields
  <2>. QED
    BY <1>1, <2>1, <2>2, CallTalks
<1>4. CASE SetFlag \/ Leave
  <2>1. PICK flag \in {"N_TILES", "LEAVE"} :
          /\ c' = UpdatePoll([c EXCEPT !.dirty = @ \cup {flag}])
          /\ net' = net /\ link' = link /\ hist' = hist
    BY <1>4 DEF SetFlag, Leave
  <2>2. /\ Same(c', c, {"dirty", "writeFinished", "poll"})
        /\ c'.dirty = c.dirty \cup {flag}
    BY <1>1, <2>1, SetDirtyFields
  <2>3. Same(c', c, S)
    BY <2>2 DEF Same
  <2>. QED
    BY <1>1, <2>1, <2>2, <2>3, CallTalks
<1>5. CASE SendMessage
  <2>1. /\ Same(c', c, {"messages", "writeFinished", "poll"})
        /\ net' = net /\ link' = link
        /\ hist'.shown = hist.shown /\ hist'.putOff = hist.putOff
    BY <1>1, <1>5, SendMessageFields
  <2>2. Same(c', c, S) /\ c'.dirty = c.dirty
    BY <2>1 DEF Same, Fields
  <2>. QED
    BY <1>1, <2>1, <2>2, CallTalks
<1>6. CASE \E t \in Tile, p \in Place : MoveTile(t, p)
  <2>1. /\ Same(c', c, {"tiles", "writeFinished", "poll"})
        /\ net' = net /\ link' = link
        /\ hist'.shown = hist.shown /\ hist'.putOff = hist.putOff
    BY <1>1, <1>6, MoveTileFields
  <2>2. Same(c', c, S) /\ c'.dirty = c.dirty
    BY <2>1 DEF Same, Fields
  <2>. QED
    BY <1>1, <2>1, <2>2, CallTalks
<1>. QED
  BY <1>1, <1>2, <1>3, <1>4, <1>5, <1>6, StopTalks, ResetTalks, SetPersonIdTalks
     DEF Application

LEMMA OtherSaysTalks ==
    ASSUME Core(c, net, link, hist), Talk(c, net, link, server, hist),
           server \in Server, server' \in Server, OtherSays
    PROVE  Talk(c', net', link', server', hist')
<1>1. /\ c' = c /\ net' = net /\ link' = link /\ hist' = hist
      /\ server' = [server EXCEPT !.log = server.log + 1]
      /\ c \in Conn /\ link \in Link
  BY DEF OtherSays, Core
<1>2. /\ server'.person = server.person /\ server'.offset = server.offset
      /\ server'.log = server.log + 1 /\ server'.known = server.known
      /\ server'.silent = server.silent /\ server.log \in Nat
  BY <1>1 DEF Server
<1>3. link.at \in Nat /\ server'.log >= server.log
  BY <1>1, <1>2 DEF Link
<1>4. /\ Tellings(c, net.toClient, 1, link, server) /\ Showing(c, server, hist.shown)
      /\ Breathing(c, net, link, server, hist) /\ Timed(c)
      /\ net.st = "UP" => Stages(c, Line(c, net), link)
  BY DEF Talk
<1>5. Tellings(c, net.toClient, 1, link, server')
  BY <1>2, <1>3, <1>4, TellingsGrow
<1>6. Showing(c, server', hist.shown)
  BY <1>1, <1>2, <1>3, <1>4, ShowingGrows
<1>7. Breathing(c, net, link, server', hist)
  BY <1>2, <1>4 DEF Breathing
<1>. QED
  BY <1>1, <1>4, <1>5, <1>6, <1>7 DEF Talk

\* A client that has joined waits for a keep alive when nothing else is due.
LEMMA KeepAliveIsSet ==
    ASSUME Core(c, net, link, hist), Timed(c), c.sock, ~c.finished, link.person, Idle
    PROVE  c.keepAliveIn \in Int /\ c.keepAliveIn >= 1
<1>1. /\ c \in Conn /\ net \in Net /\ Machine(c) /\ Polling(c, net) /\ Wired(c, net, link)
  BY DEF Core
<1>2. link # NoLink
  BY DEF NoLink
<1>3. net.st = "UP" /\ c.state = "RUNNING" /\ ~c.writeFinished /\ c.poll.fd
  BY <1>1, <1>2 DEF Wired, Machine, Polling
<1>4. ReadyEvents = {} /\ c.poll.wakeup # 0 /\ net.toServer = <<>>
  BY DEF Idle, LoopDue
<1>5. Len(net.toServer) < WireCap
  BY <1>4, EmptySeq, ClientAssumption
<1>6. "OUT" \notin c.poll.events
  BY <1>3, <1>4, <1>5 DEF ReadyEvents
<1>7. c.out = <<>> /\ c.dirty = {}
  <2>1. Events(c) \subseteq c.poll.events
    BY <1>1, <1>4, <1>6 DEF Polling
  <2>2. "OUT" \notin Events(c)
    BY <1>6, <2>1
  <2>3. Events(c) = {"IN"} \cup {e \in {"OUT"} : ~c.writeFinished /\ HasPendingData(c)}
    BY <1>3 DEF Events
  <2>4. ~HasPendingData(c)
    BY <1>3, <2>2, <2>3
  <2>. QED
    BY <2>4 DEF HasPendingData
<1>8. c.keepAliveIn # Never
  BY <1>7 DEF Timed
<1>9. /\ c.keepAliveIn \in Int /\ c.poll.wakeup \in Int
      /\ Wakeup(c) # Never /\ Wakeup(c) <= c.keepAliveIn /\ Wakeup(c) \in Int
  <2>1. /\ Wakeup(c) \in Int
        /\ c.keepAliveIn # Never => Wakeup(c) # Never /\ Wakeup(c) <= c.keepAliveIn
    BY <1>1, WakeupIsSooner
  <2>2. c.keepAliveIn \in Int /\ c.poll.wakeup \in Int
    BY <1>1 DEF Conn, Poll, Never
  <2>. QED
    BY <1>8, <2>1, <2>2
<1>10. 0 <= c.poll.wakeup /\ c.poll.wakeup <= Wakeup(c)
  BY <1>1, <1>9 DEF Polling
<1>. QED
  BY <1>4, <1>9, <1>10

LEMMA TickTalks ==
    ASSUME Core(c, net, link, hist), Talk(c, net, link, server, hist),
           server \in Server, server' \in Server, Tick
    PROVE  Talk(c', net', link', server', hist')
<1>1. /\ c \in Conn /\ link \in Link /\ hist \in Hist /\ Machine(c)
      /\ net' = net /\ link' = link /\ Idle
      /\ hist' = [hist EXCEPT !.tries = 0]
      /\ server' = IF ~server.known THEN server
                   ELSE IF server.silent < SilenceTime
                   THEN [server EXCEPT !.silent = server.silent + 1]
                   ELSE [server EXCEPT !.known = FALSE, !.left = TRUE,
                                       !.typing = FALSE]
  BY DEF Core, Tick
<1>2. /\ Tellings(c, net.toClient, 1, link, server) /\ Showing(c, server, hist.shown)
      /\ Breathing(c, net, link, server, hist) /\ Timed(c)
      /\ net.st = "UP" => Stages(c, Line(c, net), link)
  BY DEF Talk
<1>3. hist'.shown = hist.shown /\ hist'.putOff = hist.putOff
  BY <1>1 DEF Hist
<1>4. /\ Same(c', c, {"reconnectIn", "keepAliveIn", "playerAge", "poll"})
      /\ c'.keepAliveIn = Sooner(c.keepAliveIn) /\ c' \in Conn
  BY <1>1, TickFields
<1>5. /\ c'.sock = c.sock /\ c'.person = c.person /\ c'.next = c.next
      /\ c'.out = c.out /\ c'.dirty = c.dirty /\ c'.finished = c.finished
  BY <1>4 DEF Same, Fields
<1>6. /\ server'.person = server.person /\ server'.offset = server.offset
      /\ server'.log = server.log /\ server.log \in Nat
      /\ server'.known => server.known
  BY <1>1 DEF Server
<1>7. Tellings(c, net.toClient, 1, link, server')
  <2>1. link.at \in Nat /\ server'.log >= server.log
    BY <1>1, <1>6 DEF Link
  <2>. QED
    BY <1>2, <1>6, <2>1, TellingsGrow
<1>8. Tellings(c', net.toClient, 1, link, server')
  BY <1>5, <1>7 DEF Tellings
<1>9. Showing(c', server', hist'.shown)
  <2>0. server'.log >= server.log
    BY <1>6
  <2>1. Showing(c, server', hist.shown)
    <3>1. c \in Conn /\ Showing(c, server, hist.shown)
      BY <1>1, <1>2
    <3>. QED
      BY <1>6, <2>0, <3>1, ShowingGrows
  <2>. QED
    BY <1>3, <1>5, <2>1 DEF Showing
<1>10. net.st = "UP" => Stages(c', Line(c', net), link)
  BY <1>2, <1>5 DEF Line, Stages, Header
<1>11. Timed(c')
  <2>1. c.keepAliveIn \in Int /\ c.keepAliveIn >= Never
    BY <1>1 DEF Conn, Never
  <2>2. c'.keepAliveIn = Never => c.keepAliveIn = Never
    BY <1>4, <2>1 DEF Sooner, Never
  <2>. QED
    BY <1>2, <1>5, <2>2 DEF Timed
<1>12. Breathing(c', net, link, server', hist')
  <2>1. SUFFICES ASSUME c.sock, ~c.finished, link.person, ~hist.putOff
                 PROVE  /\ server'.known
                        /\ server'.silent + c'.keepAliveIn <= KeepAliveTime
    BY <1>3, <1>5 DEF Breathing
  <2>2. c.keepAliveIn \in Int /\ c.keepAliveIn >= 1
    BY <1>1, <1>2, <2>1, KeepAliveIsSet
  <2>3. server.known /\ server.silent + c.keepAliveIn <= KeepAliveTime
    <3>1. net.toServer = <<>> /\ c.keepAliveIn # Never
      BY <1>1, <2>2 DEF Idle, Never
    <3>. QED
      BY <1>2, <2>1, <3>1 DEF Breathing
  <2>4. server.silent \in Int /\ KeepAliveTime < SilenceTime
        /\ KeepAliveTime \in Nat /\ SilenceTime \in Nat
    BY ClientAssumption DEF Server
  <2>5. server.silent < SilenceTime
    BY <2>2, <2>3, <2>4
  <2>6. server'.known /\ server'.silent = server.silent + 1
    BY <1>1, <2>3, <2>5 DEF Server
  <2>7. c'.keepAliveIn = c.keepAliveIn - 1
    BY <1>4, <2>2 DEF Sooner
  <2>. QED
    BY <2>2, <2>3, <2>4, <2>6, <2>7
<1>. QED
  BY <1>1, <1>8, <1>9, <1>10, <1>11, <1>12 DEF Talk

LEMMA FreshClientFields ==
    ASSUME Init
    PROVE  /\ c.sock = FALSE /\ c.next = 0 /\ c.person = NoPerson /\ c.out = <<>>
           /\ c.messages = <<>> /\ c.tiles = <<>>
           /\ c.typing = FALSE /\ c.sentTyping = FALSE
           /\ hist.shown = <<>> /\ hist.said = 0 /\ hist.before = 0
           /\ hist.moved = [t \in Tile |-> Nowhere]
           /\ server.log = 0 /\ server.offset = 0 /\ server.heard = <<>>
           /\ server.typing = FALSE /\ server.place = [t \in Tile |-> Nowhere]
<1>1. /\ NewClient.sock = FALSE /\ NewClient.next = 0 /\ NewClient.person = NoPerson
      /\ NewClient.out = <<>> /\ NewClient.messages = <<>> /\ NewClient.tiles = <<>>
      /\ NewClient.typing = FALSE /\ NewClient.sentTyping = FALSE
      /\ NewClient.poll.fd = FALSE
  BY DEF NewClient
<1>2. NewClient \in Conn /\ NewClient.keepAliveIn = Never
  BY NewClientFields
<1>3. /\ c.sock = FALSE /\ c.next = 0 /\ c.person = NoPerson
      /\ c.out = NewClient.out /\ c.messages = NewClient.messages
      /\ c.tiles = NewClient.tiles
      /\ c.typing = FALSE /\ c.sentTyping = FALSE
  <2>1. CASE plan.fresh
    BY <1>1, <2>1 DEF Init
  <2>2. CASE ~plan.fresh
    <3>. DEFINE k == [NewClient EXCEPT !.address = TRUE, !.name = TRUE]
    <3>1. c = StartConnecting(k)
      BY <2>2 DEF Init
    <3>2. k \in Conn /\ Same(k, NewClient, {"address", "name"})
      BY <1>2 DEF Conn, Same, Fields
    <3>. HIDE DEF k
    <3>3. ~k.sock /\ ~k.poll.fd /\ k.keepAliveIn = Never
      BY <1>1, <1>2, <3>2 DEF Same, Fields
    <3>4. Same(c, k, {"timeout", "reconnectIn", "state", "poll", "writeFinished"})
      BY <3>1, <3>2, <3>3, StartConnectingFields
    <3>. QED
      BY <1>1, <3>2, <3>4 DEF Same, Fields
  <2>. QED
    BY <2>1, <2>2
<1>4. /\ hist.shown = <<>> /\ hist.said = 0 /\ hist.before = 0
      /\ hist.moved = [t \in Tile |-> Nowhere]
  BY DEF Init, NoHist
<1>5. /\ server.log = 0 /\ server.offset = 0 /\ server.heard = <<>>
      /\ server.typing = FALSE /\ server.place = [t \in Tile |-> Nowhere]
  <2>. DEFINE p == NewPerson(Saved, 0)
              q == NewPerson(NoPerson, 0)
  <2>1. /\ p.log = 0 /\ p.offset = 0 /\ p.heard = <<>> /\ p.typing = FALSE
        /\ p.place = [t \in Tile |-> Nowhere]
        /\ q.log = 0 /\ q.offset = 0 /\ q.heard = <<>> /\ q.typing = FALSE
        /\ q.place = [t \in Tile |-> Nowhere]
    BY DEF NewPerson
  <2>2. \/ server = p \/ server = [p EXCEPT !.known = FALSE, !.left = TRUE]
        \/ server = [q EXCEPT !.known = FALSE]
    BY DEF Init
  <2>3. /\ [p EXCEPT !.known = FALSE, !.left = TRUE].log = p.log
        /\ [p EXCEPT !.known = FALSE, !.left = TRUE].offset = p.offset
        /\ [p EXCEPT !.known = FALSE, !.left = TRUE].heard = p.heard
        /\ [p EXCEPT !.known = FALSE, !.left = TRUE].typing = p.typing
        /\ [p EXCEPT !.known = FALSE, !.left = TRUE].place = p.place
        /\ [q EXCEPT !.known = FALSE].log = q.log
        /\ [q EXCEPT !.known = FALSE].offset = q.offset
        /\ [q EXCEPT !.known = FALSE].heard = q.heard
        /\ [q EXCEPT !.known = FALSE].typing = q.typing
        /\ [q EXCEPT !.known = FALSE].place = q.place
    BY DEF NewPerson
  <2>. HIDE DEF p, q
  <2>. QED
    BY <2>1, <2>2, <2>3
<1>. QED
  BY <1>1, <1>3, <1>4, <1>5

LEMMA InitTalks ==
    Init => TalkInvariant
<1>. SUFFICES ASSUME Init PROVE TalkInvariant
  OBVIOUS
<1>1. /\ c.sock = FALSE /\ c.next = 0 /\ c.person = NoPerson
      /\ hist.shown = <<>> /\ server.log = 0 /\ server.offset = 0
  BY FreshClientFields
<1>2. /\ net.st = "NONE" /\ net.toClient = <<>>
      /\ ~link.person /\ ~link.refused /\ ~link.bad
  BY DEF Init, NoNet, NoLink
<1>3. Len(net.toClient) = 0 /\ Len(hist.shown) = 0
      /\ hist.shown = [i \in 1..0 |-> server.offset + i]
  BY <1>1, <1>2
<1>4. Tellings(c, net.toClient, 1, link, server)
  BY <1>1, <1>2, <1>3 DEF Tellings
<1>5. Showing(c, server, hist.shown)
  BY <1>1, <1>3 DEF Showing
<1>. QED
  BY <1>1, <1>2, <1>4, <1>5 DEF TalkInvariant, Talk, Timed, Breathing

LEMMA StepTalks ==
    ASSUME ClientInvariant, TalkInvariant, [Next]_vars
    PROVE  TalkInvariant'
<1>1. /\ Core(c, net, link, hist) /\ server \in Server /\ Personal(link, server)
      /\ Talk(c, net, link, server, hist)
  BY DEF ClientInvariant, TalkInvariant
<1>2. server' \in Server
  BY StepSound DEF ClientInvariant
<1>3. Talk(c', net', link', server', hist')
  <2>1. CASE UNCHANGED vars \/ PollReturns
    BY <1>1, <2>1 DEF vars, PollReturns
  <2>2. CASE Environment
    BY <1>1, <1>2, <2>2, ServerReadsTalks, ServerWritesTalks, ServerShutsTalks,
       OtherSaysTalks, NetworkTalks, TickTalks DEF Environment
  <2>. QED
    BY <1>1, <2>1, <2>2, ApplicationTalks, WakeUpTalks DEF Next
<1>. QED
  BY <1>3 DEF TalkInvariant, Talk, Stages, Tellings, Showing, Timed, Breathing, Line,
     Header, Greeted, OnlyCommands

LEMMA TalkInvariantHolds ==
    Spec => [](ClientInvariant /\ TalkInvariant)
<1>1. ClientInvariant /\ TalkInvariant /\ [Next]_vars => ClientInvariant' /\ TalkInvariant'
  BY StepSound, StepTalks
<1>. QED
  BY <1>1, InitSound, InitTalks, PTL DEF Spec

\* Neither timer makes the client too quick or too slow: in one instant it tries at
\* most twice to connect; and while it is connected it writes before the server
\* would forget its player, unless a write of nothing put the keep alive off.
THEOREM ClientInGoodTime ==
    Spec => []InGoodTime
<1>1. TalkInvariant => KeptAlive
  BY DEF TalkInvariant, Talk, Breathing, KeptAlive
<1>. QED
  BY <1>1, ClientBacksOff, TalkInvariantHolds, PTL DEF InGoodTime

\* What is shown to the player is what was said since it joined, in order and each
\* message once, however often the connection was lost in between.
THEOREM MessagesShownInOrder ==
    Spec => []ShownInOrder
<1>1. TalkInvariant => ShownInOrder
  BY DEF TalkInvariant, Talk, Showing, ShownInOrder
<1>. QED
  BY <1>1, TalkInvariantHolds, PTL

-----------------------------------------------------------------------------
(* What the player says and does, step by step.                            *)

\* The elements of a sequence with one more, and with one less.
LEMMA Appended ==
    ASSUME NEW S, NEW p \in Seq(S), NEW f \in S
    PROVE  LET r == Append(p, f) IN
           /\ Len(p) \in Nat /\ DOMAIN p = 1..Len(p) /\ DOMAIN r = 1..Len(p) + 1
           /\ \A i \in 1..Len(p) : r[i] = p[i]
           /\ r[Len(p) + 1] = f
<1>1. Len(p) \in Nat /\ DOMAIN p = 1..Len(p)
  BY LenProperties
<1>2. /\ Append(p, f) \in Seq(S) /\ Len(Append(p, f)) = Len(p) + 1
      /\ \A i \in 1..Len(p) : Append(p, f)[i] = p[i]
      /\ Append(p, f)[Len(p) + 1] = f
  BY AppendProperties
<1>3. DOMAIN Append(p, f) = 1..Len(Append(p, f))
  BY <1>2, LenProperties
<1>. QED
  BY <1>1, <1>2, <1>3

LEMMA Tailed ==
    ASSUME NEW S, NEW p \in Seq(S), p # <<>>
    PROVE  LET r == Tail(p) IN
           /\ Len(p) \in Nat /\ Len(p) >= 1 /\ DOMAIN p = 1..Len(p)
           /\ DOMAIN r = 1..Len(p) - 1
           /\ \A i \in 1..Len(p) - 1 : r[i] = p[i + 1]
           /\ Head(p) = p[1]
<1>1. Len(p) \in Nat /\ DOMAIN p = 1..Len(p) /\ Len(p) # 0
  BY LenProperties, EmptySeq
<1>2. /\ Tail(p) \in Seq(S) /\ Len(Tail(p)) = Len(p) - 1
      /\ \A i \in 1..Len(Tail(p)) : Tail(p)[i] = p[i + 1]
      /\ Head(p) = p[1]
  BY HeadTailProperties
<1>3. DOMAIN Tail(p) = 1..Len(Tail(p))
  BY <1>2, LenProperties
<1>. QED
  BY <1>1, <1>2, <1>3

\* The line in which r is p with one more frame, or what is behind its first one.
Longer(r, p, f) ==
    LET n == Len(p) IN
    /\ n \in Nat /\ DOMAIN p = 1..n /\ DOMAIN r = 1..n + 1
    /\ \A i \in 1..n : r[i] = p[i]
    /\ r[n + 1] = f
Shorter(r, p) ==
    LET n == Len(p) IN
    /\ n \in Nat /\ n >= 1 /\ DOMAIN p = 1..n /\ DOMAIN r = 1..n - 1
    /\ \A i \in 1..n - 1 : r[i] = p[i + 1]

\* A frame that is no message leaves them in line.
LEMMA OthersStayInLine ==
    ASSUME NEW k, NEW q, NEW p, NEW r, NEW f, NEW sv, NEW hs, InLine(k, p, sv, hs),
           Longer(r, p, f), ~Says(f), q.messages = k.messages
    PROVE  InLine(q, r, sv, hs)
<1>. DEFINE n == Len(p)
<1>1. /\ n \in Nat /\ DOMAIN p = 1..n /\ DOMAIN r = 1..n + 1
      /\ \A i \in 1..n : r[i] = p[i]
      /\ r[n + 1] = f
  BY DEF Longer
<1>. HIDE DEF n
<1>2. \A i \in DOMAIN r : Says(r[i]) => i \in DOMAIN p /\ r[i] = p[i]
  BY <1>1
<1>. HIDE DEF Says
<1>. QED
  BY <1>2 DEF InLine

\* What is behind the first frame, or any that comes later, is in line.
LEMMA PartStaysInLine ==
    ASSUME NEW k, NEW q, NEW p, NEW r, NEW sv, NEW sw, NEW hs, NEW h, NEW d \in Int,
           InLine(k, p, sv, hs), q.messages = k.messages,
           h.said = hs.said, h.before = hs.before,
           sw.heard = sv.heard \/ sw.heard = <<>>,
           DOMAIN r \subseteq Int,
           \A i \in DOMAIN r : i + d \in DOMAIN p /\ r[i] = p[i + d]
    PROVE  InLine(q, r, sw, h)
<1>1. \A i, j \in DOMAIN r : i < j => i + d < j + d
  OBVIOUS
<1>2. DOMAIN sw.heard \subseteq DOMAIN sv.heard
      /\ \A i \in DOMAIN sw.heard : sw.heard[i] = sv.heard[i]
  <2>1. CASE sw.heard = sv.heard
    BY <2>1
  <2>2. CASE sw.heard = <<>>
    BY <2>2
  <2>. QED
    BY <2>1, <2>2
<1>. HIDE DEF Says
<1>3. \A i, j \in DOMAIN r : i < j /\ Says(r[i]) /\ Says(r[j]) => r[i].n < r[j].n
  <2>1. SUFFICES ASSUME NEW i \in DOMAIN r, NEW j \in DOMAIN r, i < j,
                        Says(r[i]), Says(r[j])
                 PROVE  r[i].n < r[j].n
    OBVIOUS
  <2>2. /\ i + d \in DOMAIN p /\ r[i] = p[i + d] /\ j + d \in DOMAIN p
        /\ r[j] = p[j + d] /\ i + d < j + d
    BY <1>1, <2>1
  <2>. QED
    BY <2>1, <2>2 DEF InLine
<1>4. \A i \in DOMAIN r : Says(r[i]) => h.before < r[i].n /\ r[i].n <= h.said
  BY DEF InLine
<1>5. /\ \A i \in DOMAIN sw.heard, j \in DOMAIN r : Says(r[j]) => sw.heard[i] < r[j].n
      /\ \A i \in DOMAIN r, j \in DOMAIN q.messages :
           Says(r[i]) => r[i].n < q.messages[j]
  BY <1>2 DEF InLine
<1>6. Ascending(sw.heard) /\ Ascending(q.messages)
  BY <1>2 DEF InLine, Ascending
<1>7. /\ \A i \in DOMAIN sw.heard : sw.heard[i] <= h.said
      /\ \A i \in DOMAIN sw.heard, j \in DOMAIN q.messages : sw.heard[i] < q.messages[j]
      /\ \A i \in DOMAIN q.messages :
           h.before < q.messages[i] /\ q.messages[i] <= h.said
      /\ h.before <= h.said
  BY <1>2 DEF InLine
<1>. QED
  BY <1>3, <1>4, <1>5, <1>6, <1>7 DEF InLine

\* The first message that waits goes to the end of the line.
LEMMA MessageGoesInLine ==
    ASSUME NEW k, NEW q, NEW p, NEW r, NEW f, NEW sv, NEW hs, InLine(k, p, sv, hs),
           Longer(r, p, f), Says(f), Shorter(q.messages, k.messages),
           f.n = k.messages[1]
    PROVE  InLine(q, r, sv, hs)
<1>. DEFINE n == Len(p)
            ms == k.messages
            l == Len(ms)
            rest == q.messages
<1>1. /\ n \in Nat /\ DOMAIN p = 1..n /\ DOMAIN r = 1..n + 1
      /\ \A i \in 1..n : r[i] = p[i]
      /\ r[n + 1] = f
  BY DEF Longer
<1>2. /\ l \in Nat /\ l >= 1 /\ DOMAIN ms = 1..l /\ DOMAIN rest = 1..l - 1
      /\ \A i \in 1..l - 1 : rest[i] = ms[i + 1]
  BY DEF Shorter
<1>3. 1 \in DOMAIN ms /\ f.n = ms[1]
  BY <1>2
<1>. HIDE DEF n, l, ms, rest, Says
<1>4. /\ Ascending(sv.heard) /\ hs.before <= hs.said
      /\ \A i \in DOMAIN sv.heard : sv.heard[i] <= hs.said
  BY DEF InLine
<1>5. \A i \in DOMAIN ms : hs.before < ms[i] /\ ms[i] <= hs.said
  BY DEF InLine, ms
<1>6. \A i, j \in DOMAIN ms : i < j => ms[i] < ms[j]
  BY DEF InLine, ms, Ascending
<1>7. \A i \in DOMAIN sv.heard, j \in DOMAIN ms : sv.heard[i] < ms[j]
  BY DEF InLine, ms
<1>8. \A i \in DOMAIN p, j \in DOMAIN ms : Says(p[i]) => p[i].n < ms[j]
  BY DEF InLine, ms
<1>9. /\ \A i, j \in DOMAIN p : i < j /\ Says(p[i]) /\ Says(p[j]) => p[i].n < p[j].n
      /\ \A i \in DOMAIN p : Says(p[i]) => hs.before < p[i].n /\ p[i].n <= hs.said
      /\ \A i \in DOMAIN sv.heard, j \in DOMAIN p : Says(p[j]) => sv.heard[i] < p[j].n
  BY DEF InLine
<1>10. \A i \in DOMAIN rest : i + 1 \in DOMAIN ms /\ rest[i] = ms[i + 1] /\ 1 < i + 1
  BY <1>2
<1>11. Ascending(rest)
  <2>1. \A i, j \in DOMAIN rest : i < j => i + 1 < j + 1
    BY <1>2
  <2>. QED
    BY <1>6, <1>10, <2>1 DEF Ascending
<1>12. \A i \in DOMAIN r : (i \in DOMAIN p /\ r[i] = p[i]) \/ (i = n + 1 /\ r[i] = f)
  BY <1>1
<1>13. \A i, j \in DOMAIN r : i < j /\ Says(r[i]) /\ Says(r[j]) => r[i].n < r[j].n
  <2>1. \A i, j \in DOMAIN r : i < j => i \in DOMAIN p /\ r[i] = p[i]
    BY <1>1
  <2>. QED
    BY <1>3, <1>8, <1>9, <1>12, <2>1
<1>14. \A i \in DOMAIN r : Says(r[i]) => hs.before < r[i].n /\ r[i].n <= hs.said
  BY <1>3, <1>5, <1>9, <1>12
<1>15. \A i \in DOMAIN rest : hs.before < rest[i] /\ rest[i] <= hs.said
  BY <1>5, <1>10
<1>16. \A i \in DOMAIN sv.heard, j \in DOMAIN r : Says(r[j]) => sv.heard[i] < r[j].n
  BY <1>3, <1>7, <1>9, <1>12
<1>17. \A i \in DOMAIN sv.heard, j \in DOMAIN rest : sv.heard[i] < rest[j]
  BY <1>7, <1>10
<1>18. \A i \in DOMAIN r, j \in DOMAIN rest : Says(r[i]) => r[i].n < rest[j]
  BY <1>3, <1>6, <1>8, <1>10, <1>12
<1>. QED
  BY <1>4, <1>11, <1>13, <1>14, <1>15, <1>16, <1>17, <1>18 DEF InLine, rest

\* The server hears the first message of the line.
LEMMA MessageIsHeardInLine ==
    ASSUME NEW k, NEW p, NEW r, NEW sv, NEW sw, NEW hs, InLine(k, p, sv, hs),
           Shorter(r, p), Says(p[1]), Longer(sw.heard, sv.heard, p[1].n)
    PROVE  InLine(k, r, sw, hs)
<1>. DEFINE n == Len(p)
            h == sv.heard
            g == sw.heard
            l == Len(h)
<1>1. /\ n \in Nat /\ n >= 1 /\ DOMAIN p = 1..n /\ DOMAIN r = 1..n - 1
      /\ \A i \in 1..n - 1 : r[i] = p[i + 1]
  BY DEF Shorter
<1>2. /\ l \in Nat /\ DOMAIN h = 1..l /\ DOMAIN g = 1..l + 1
      /\ \A i \in 1..l : g[i] = h[i]
      /\ g[l + 1] = p[1].n
  BY DEF Longer
<1>3. 1 \in DOMAIN p
  BY <1>1
<1>. HIDE DEF n, l, h, g, Says
<1>4. /\ hs.before <= hs.said /\ Ascending(k.messages)
      /\ \A i \in DOMAIN k.messages : hs.before < k.messages[i] /\ k.messages[i] <= hs.said
  BY DEF InLine
<1>5. /\ \A i, j \in DOMAIN h : i < j => h[i] < h[j]
      /\ \A i \in DOMAIN h : h[i] <= hs.said
  BY DEF InLine, h, Ascending
<1>6. /\ \A i, j \in DOMAIN p : i < j /\ Says(p[i]) /\ Says(p[j]) => p[i].n < p[j].n
      /\ \A i \in DOMAIN p : Says(p[i]) => hs.before < p[i].n /\ p[i].n <= hs.said
  BY DEF InLine
<1>7. /\ \A i \in DOMAIN h, j \in DOMAIN p : Says(p[j]) => h[i] < p[j].n
      /\ \A i \in DOMAIN h, j \in DOMAIN k.messages : h[i] < k.messages[j]
  BY DEF InLine, h
<1>8. \A i \in DOMAIN p, j \in DOMAIN k.messages : Says(p[i]) => p[i].n < k.messages[j]
  BY DEF InLine
<1>9. \A i \in DOMAIN r : i + 1 \in DOMAIN p /\ r[i] = p[i + 1] /\ 1 < i + 1
  BY <1>1
<1>10. \A i \in DOMAIN g : (i \in DOMAIN h /\ g[i] = h[i]) \/ g[i] = p[1].n
  BY <1>2
<1>11. Ascending(g)
  <2>1. \A i, j \in DOMAIN g : i < j => i \in DOMAIN h /\ g[i] = h[i]
    BY <1>2
  <2>. QED
    BY <1>3, <1>5, <1>7, <1>10, <2>1 DEF Ascending
<1>12. \A i, j \in DOMAIN r : i < j /\ Says(r[i]) /\ Says(r[j]) => r[i].n < r[j].n
  <2>1. \A i, j \in DOMAIN r : i < j => i + 1 < j + 1
    BY <1>1
  <2>. QED
    BY <1>6, <1>9, <2>1
<1>13. \A i \in DOMAIN g : g[i] <= hs.said
  BY <1>3, <1>5, <1>6, <1>10
<1>14. \A i \in DOMAIN r : Says(r[i]) => hs.before < r[i].n /\ r[i].n <= hs.said
  BY <1>6, <1>9
<1>15. \A i \in DOMAIN g, j \in DOMAIN r : Says(r[j]) => g[i] < r[j].n
  BY <1>3, <1>6, <1>7, <1>9, <1>10
<1>16. \A i \in DOMAIN g, j \in DOMAIN k.messages : g[i] < k.messages[j]
  BY <1>3, <1>7, <1>8, <1>10
<1>17. \A i \in DOMAIN r, j \in DOMAIN k.messages : Says(r[i]) => r[i].n < k.messages[j]
  BY <1>8, <1>9
<1>. QED
  BY <1>4, <1>11, <1>12, <1>13, <1>14, <1>15, <1>16, <1>17 DEF InLine, g

\* What was said is still heard, on the line or waiting.
LEMMA AllStaySaid ==
    ASSUME NEW k, NEW q, NEW p, NEW r, NEW f, NEW heard, NEW hs,
           AllSaid(k, p, heard, hs), Longer(r, p, f), q.messages = k.messages
    PROVE  AllSaid(q, r, heard, hs)
<1>1. \A i \in DOMAIN p : i \in DOMAIN r /\ r[i] = p[i]
  BY DEF Longer
<1>. HIDE DEF Says
<1>. QED
  BY <1>1 DEF AllSaid

LEMMA MessageIsSaid ==
    ASSUME NEW k, NEW q, NEW p, NEW r, NEW f, NEW heard, NEW hs,
           AllSaid(k, p, heard, hs), Longer(r, p, f), Says(f),
           Shorter(q.messages, k.messages), f.n = k.messages[1]
    PROVE  AllSaid(q, r, heard, hs)
<1>. DEFINE n == Len(p)
            ms == k.messages
            l == Len(ms)
            rest == q.messages
<1>1. /\ \A i \in DOMAIN p : i \in DOMAIN r /\ r[i] = p[i]
      /\ n + 1 \in DOMAIN r /\ r[n + 1] = f
  BY DEF Longer
<1>2. /\ l \in Nat /\ l >= 1 /\ DOMAIN ms = 1..l /\ DOMAIN rest = 1..l - 1
      /\ \A i \in 1..l - 1 : rest[i] = ms[i + 1]
  BY DEF Shorter
<1>3. \A i \in DOMAIN ms : i = 1 \/ (i - 1 \in DOMAIN rest /\ rest[i - 1] = ms[i])
  BY <1>2
<1>. HIDE DEF n, l, ms, rest, Says
<1>4. \A i \in DOMAIN heard : heard[i] > hs.before
  BY DEF AllSaid
<1>5. ASSUME NEW m \in hs.before + 1..hs.said
      PROVE  \/ \E i \in DOMAIN heard : heard[i] = m
             \/ \E i \in DOMAIN r : Says(r[i]) /\ r[i].n = m
             \/ \E i \in DOMAIN rest : rest[i] = m
  <2>1. CASE \E i \in DOMAIN heard : heard[i] = m
    BY <2>1
  <2>2. CASE \E i \in DOMAIN p : Says(p[i]) /\ p[i].n = m
    BY <1>1, <2>2
  <2>3. CASE \E i \in DOMAIN ms : ms[i] = m
    <3>1. PICK i \in DOMAIN ms : ms[i] = m
      BY <2>3
    <3>2. CASE i = 1
      <4>1. f.n = m
        BY <3>1, <3>2 DEF ms
      <4>. QED
        BY <1>1, <4>1
    <3>3. CASE i # 1
      BY <1>3, <3>1, <3>3
    <3>. QED
      BY <3>2, <3>3
  <2>. QED
    BY <2>1, <2>2, <2>3 DEF AllSaid, ms
<1>. QED
  BY <1>4, <1>5 DEF AllSaid, rest

LEMMA MessageIsHeard ==
    ASSUME NEW k, NEW p, NEW r, NEW heard, NEW now, NEW hs,
           AllSaid(k, p, heard, hs), Shorter(r, p),
           IF Says(p[1]) THEN Longer(now, heard, p[1].n) /\ hs.before < p[1].n
           ELSE now = heard
    PROVE  AllSaid(k, r, now, hs)
<1>. DEFINE n == Len(p)
<1>1. /\ n \in Nat /\ n >= 1 /\ DOMAIN p = 1..n /\ DOMAIN r = 1..n - 1
      /\ \A i \in 1..n - 1 : r[i] = p[i + 1]
  BY DEF Shorter
<1>2. \A i \in DOMAIN p : i = 1 \/ (i - 1 \in DOMAIN r /\ r[i - 1] = p[i])
  BY <1>1
<1>. HIDE DEF n, Says
<1>3. \A i \in DOMAIN heard : i \in DOMAIN now /\ now[i] = heard[i]
  BY DEF Longer
<1>4. Says(p[1]) => \E i \in DOMAIN now : now[i] = p[1].n
  <2>1. ASSUME Longer(now, heard, p[1].n) PROVE \E i \in DOMAIN now : now[i] = p[1].n
    <3>1. Len(heard) + 1 \in DOMAIN now /\ now[Len(heard) + 1] = p[1].n
      BY <2>1 DEF Longer
    <3>. QED
      BY <3>1
  <2>. QED
    BY <2>1
<1>5. \A i \in DOMAIN now : now[i] > hs.before
  <2>1. CASE Says(p[1])
    <3>1. \A i \in DOMAIN now : (i \in DOMAIN heard /\ now[i] = heard[i]) \/ now[i] = p[1].n
      BY <2>1 DEF Longer
    <3>. QED
      BY <2>1, <3>1 DEF AllSaid
  <2>2. CASE ~Says(p[1])
    BY <2>2 DEF AllSaid
  <2>. QED
    BY <2>1, <2>2
<1>6. ASSUME NEW m \in hs.before + 1..hs.said
      PROVE  \/ \E i \in DOMAIN now : now[i] = m
             \/ \E i \in DOMAIN r : Says(r[i]) /\ r[i].n = m
             \/ \E i \in DOMAIN k.messages : k.messages[i] = m
  <2>1. CASE \E i \in DOMAIN heard : heard[i] = m
    BY <1>3, <2>1
  <2>2. CASE \E i \in DOMAIN p : Says(p[i]) /\ p[i].n = m
    <3>1. PICK i \in DOMAIN p : Says(p[i]) /\ p[i].n = m
      BY <2>2
    <3>2. CASE i = 1
      BY <1>4, <3>1, <3>2
    <3>3. CASE i # 1
      BY <1>2, <3>1, <3>3
    <3>. QED
      BY <3>2, <3>3
  <2>3. CASE \E i \in DOMAIN k.messages : k.messages[i] = m
    BY <2>3
  <2>. QED
    BY <2>1, <2>2, <2>3 DEF AllSaid
<1>. QED
  BY <1>5, <1>6 DEF AllSaid

\* The last move of a tile stays the last one.
LEMMA OthersMoveNothing ==
    ASSUME NEW k, NEW q, NEW p, NEW r, NEW f, NEW t, NEW known, NEW hs,
           LastMove(k, p, t, known, hs), Longer(r, p, f), ~Moves(f, t),
           q.tiles = k.tiles
    PROVE  LastMove(q, r, t, known, hs)
<1>. DEFINE n == Len(p)
<1>1. /\ n \in Nat /\ DOMAIN p = 1..n /\ DOMAIN r = 1..n + 1
      /\ \A i \in 1..n : r[i] = p[i]
      /\ r[n + 1] = f
  BY DEF Longer
<1>. HIDE DEF n
<1>2. Waits(q, t) = Waits(k, t)
  BY DEF Waits
<1>. HIDE DEF Moves
<1>3. \A i \in DOMAIN r : Moves(r[i], t) => i \in DOMAIN p /\ r[i] = p[i]
  BY <1>1
<1>4. \A i \in DOMAIN p : i \in DOMAIN r /\ r[i] = p[i]
  BY <1>1
<1>5. ASSUME ~Waits(q, t), NEW i \in DOMAIN r, Moves(r[i], t),
             \A j \in DOMAIN r : j > i => ~Moves(r[j], t)
      PROVE  r[i].place = hs.moved[t]
  <2>1. i \in DOMAIN p /\ r[i] = p[i] /\ Moves(p[i], t)
    BY <1>3, <1>5
  <2>2. \A j \in DOMAIN p : j > i => ~Moves(p[j], t)
    BY <1>4, <1>5
  <2>. QED
    BY <1>2, <1>5, <2>1, <2>2 DEF LastMove
<1>6. ASSUME ~Waits(q, t), \A i \in DOMAIN r : ~Moves(r[i], t)
      PROVE  known = hs.moved[t]
  <2>1. \A i \in DOMAIN p : ~Moves(p[i], t)
    BY <1>4, <1>6
  <2>. QED
    BY <1>2, <1>6, <2>1 DEF LastMove
<1>7. \A i \in DOMAIN q.tiles : q.tiles[i].num = t => q.tiles[i].place = hs.moved[t]
  BY DEF LastMove
<1>. QED
  BY <1>5, <1>6, <1>7 DEF LastMove

\* The first move that waits goes to the end of the line.
LEMMA MoveGoesOn ==
    ASSUME NEW k, NEW q, NEW p, NEW r, NEW f, NEW t, NEW known, NEW hs,
           LastMove(k, p, t, known, hs), Longer(r, p, f),
           Shorter(q.tiles, k.tiles), f.type = "MOVE_TILE",
           f.tile = k.tiles[1].num, f.place = k.tiles[1].place
    PROVE  LastMove(q, r, t, known, hs)
<1>. DEFINE n == Len(p)
            ts == k.tiles
            l == Len(ts)
            rest == q.tiles
<1>1. /\ n \in Nat /\ DOMAIN p = 1..n /\ DOMAIN r = 1..n + 1
      /\ \A i \in 1..n : r[i] = p[i]
      /\ r[n + 1] = f
  BY DEF Longer
<1>2. /\ l \in Nat /\ l >= 1 /\ DOMAIN ts = 1..l /\ DOMAIN rest = 1..l - 1
      /\ \A i \in 1..l - 1 : rest[i] = ts[i + 1]
  BY DEF Shorter
<1>3. /\ 1 \in DOMAIN ts
      /\ \A i \in DOMAIN rest : i + 1 \in DOMAIN ts /\ rest[i] = ts[i + 1]
      /\ \A i \in DOMAIN ts : i = 1 \/ (i - 1 \in DOMAIN rest /\ rest[i - 1] = ts[i])
  BY <1>2
<1>4. f.tile = ts[1].num /\ f.place = ts[1].place
  OBVIOUS
<1>. HIDE DEF n, l
<1>5. \A i \in DOMAIN ts : ts[i].num = t => ts[i].place = hs.moved[t]
  BY DEF LastMove
<1>6. \A i \in DOMAIN rest : rest[i].num = t => rest[i].place = hs.moved[t]
  BY <1>3, <1>5
<1>7. CASE f.tile = t
  <2>1. Moves(r[n + 1], t) /\ n + 1 \in DOMAIN r
    BY <1>1, <1>7 DEF Moves
  <2>2. f.place = hs.moved[t]
    BY <1>3, <1>4, <1>5, <1>7
  <2>. HIDE DEF Moves, ts, rest
  <2>3. \A i \in DOMAIN r : (\A j \in DOMAIN r : j > i => ~Moves(r[j], t)) => i = n + 1
    <3>1. SUFFICES ASSUME NEW i \in DOMAIN r, i # n + 1,
                          \A j \in DOMAIN r : j > i => ~Moves(r[j], t)
                   PROVE  FALSE
      OBVIOUS
    <3>2. n + 1 > i
      BY <1>1, <3>1
    <3>. QED
      BY <2>1, <3>1, <3>2
  <2>. QED
    BY <1>1, <1>6, <2>1, <2>2, <2>3 DEF LastMove, rest
<1>8. CASE f.tile # t
  <2>1. Waits(k, t) => Waits(q, t)
    <3>1. SUFFICES ASSUME NEW i \in DOMAIN ts, ts[i].num = t
                   PROVE  \E j \in DOMAIN rest : rest[j].num = t
      BY DEF Waits
    <3>2. i # 1
      BY <1>4, <1>8, <3>1
    <3>. QED
      BY <1>3, <3>1, <3>2
  <2>2. ~Moves(f, t)
    BY <1>8 DEF Moves
  <2>. HIDE DEF Moves, ts, rest
  <2>3. \A i \in DOMAIN r : Moves(r[i], t) => i \in DOMAIN p /\ r[i] = p[i]
    BY <1>1, <2>2
  <2>4. \A i \in DOMAIN p : i \in DOMAIN r /\ r[i] = p[i]
    BY <1>1
  <2>5. ASSUME ~Waits(q, t), NEW i \in DOMAIN r, Moves(r[i], t),
               \A j \in DOMAIN r : j > i => ~Moves(r[j], t)
        PROVE  r[i].place = hs.moved[t]
    <3>1. i \in DOMAIN p /\ r[i] = p[i] /\ Moves(p[i], t)
      BY <2>3, <2>5
    <3>2. \A j \in DOMAIN p : j > i => ~Moves(p[j], t)
      BY <2>4, <2>5
    <3>. QED
      BY <2>1, <2>5, <3>1, <3>2 DEF LastMove
  <2>6. ASSUME ~Waits(q, t), \A i \in DOMAIN r : ~Moves(r[i], t)
        PROVE  known = hs.moved[t]
    <3>1. \A i \in DOMAIN p : ~Moves(p[i], t)
      BY <2>4, <2>6
    <3>. QED
      BY <2>1, <2>6, <3>1 DEF LastMove
  <2>. QED
    BY <1>6, <2>5, <2>6 DEF LastMove, rest
<1>. QED
  BY <1>7, <1>8

\* The server takes the first frame of the line for what it is.
LEMMA MoveIsHeard ==
    ASSUME NEW k, NEW p, NEW r, NEW t, NEW known, NEW hs,
           LastMove(k, p, t, known, hs), Shorter(r, p)
    PROVE  LastMove(k, r, t, IF Moves(p[1], t) THEN p[1].place ELSE known, hs)
<1>. DEFINE n == Len(p)
            now == IF Moves(p[1], t) THEN p[1].place ELSE known
<1>1. /\ n \in Nat /\ n >= 1 /\ DOMAIN p = 1..n /\ DOMAIN r = 1..n - 1
      /\ \A i \in 1..n - 1 : r[i] = p[i + 1]
  BY DEF Shorter
<1>2. \A i \in DOMAIN p : i = 1 \/ (i - 1 \in DOMAIN r /\ r[i - 1] = p[i])
  BY <1>1
<1>3. \A i \in DOMAIN r : i + 1 \in DOMAIN p /\ r[i] = p[i + 1]
  BY <1>1
<1>4. 1 \in DOMAIN p /\ DOMAIN p \subseteq Int /\ \A i \in DOMAIN p : i >= 1
  BY <1>1
<1>. HIDE DEF n, Moves
<1>5. ASSUME ~Waits(k, t), NEW i \in DOMAIN r, Moves(r[i], t),
             \A j \in DOMAIN r : j > i => ~Moves(r[j], t)
      PROVE  r[i].place = hs.moved[t]
  <2>1. i + 1 \in DOMAIN p /\ r[i] = p[i + 1] /\ Moves(p[i + 1], t)
    BY <1>3, <1>5
  <2>2. ASSUME NEW j \in DOMAIN p, j > i + 1 PROVE ~Moves(p[j], t)
    <3>1. j # 1 /\ j - 1 > i
      BY <1>1, <2>2
    <3>. QED
      BY <1>2, <1>5, <3>1
  <2>. QED
    BY <1>5, <2>1, <2>2 DEF LastMove
<1>6. ASSUME ~Waits(k, t), \A i \in DOMAIN r : ~Moves(r[i], t)
      PROVE  now = hs.moved[t]
  <2>1. \A j \in DOMAIN p : j # 1 => ~Moves(p[j], t)
    BY <1>2, <1>6
  <2>2. CASE Moves(p[1], t)
    <3>1. \A j \in DOMAIN p : j > 1 => ~Moves(p[j], t)
      BY <1>4, <2>1
    <3>2. p[1].place = hs.moved[t]
      BY <1>4, <1>6, <2>2, <3>1 DEF LastMove
    <3>. QED
      BY <2>2, <3>2
  <2>3. CASE ~Moves(p[1], t)
    <3>1. \A j \in DOMAIN p : ~Moves(p[j], t)
      BY <2>1, <2>3
    <3>. QED
      BY <1>6, <2>3, <3>1 DEF LastMove
  <2>. QED
    BY <2>2, <2>3
<1>7. \A i \in DOMAIN k.tiles : k.tiles[i].num = t => k.tiles[i].place = hs.moved[t]
  BY DEF LastMove
<1>. HIDE DEF now
<1>8. LastMove(k, r, t, now, hs)
  BY <1>5, <1>6, <1>7 DEF LastMove
<1>. QED
  BY <1>8 DEF now

\* What was last said of typing stays the last.
LEMMA OthersSayNothingOfTyping ==
    ASSUME NEW k, NEW q, NEW p, NEW r, NEW f, NEW typing, NEW gone,
           LastTyping(k, p, typing, gone), Longer(r, p, f), ~Types(f),
           q.sentTyping = k.sentTyping
    PROVE  LastTyping(q, r, typing, gone)
<1>. DEFINE n == Len(p)
<1>1. /\ n \in Nat /\ DOMAIN p = 1..n /\ DOMAIN r = 1..n + 1
      /\ \A i \in 1..n : r[i] = p[i]
      /\ r[n + 1] = f
  BY DEF Longer
<1>. HIDE DEF n, Types
<1>2. \A i \in DOMAIN r : Types(r[i]) => i \in DOMAIN p /\ r[i] = p[i]
  BY <1>1
<1>3. \A i \in DOMAIN p : i \in DOMAIN r /\ r[i] = p[i]
  BY <1>1
<1>4. SUFFICES ASSUME ~gone, \A i \in DOMAIN r : r[i].type # "LEAVE"
               PROVE  /\ \A i \in DOMAIN r :
                           Types(r[i]) /\ (\A j \in DOMAIN r : j > i => ~Types(r[j]))
                             => q.sentTyping = (r[i].type = "TYPING" /\ r[i].on)
                      /\ (\A i \in DOMAIN r : ~Types(r[i])) => typing = q.sentTyping
  BY DEF LastTyping
<1>5. \A i \in DOMAIN p : p[i].type # "LEAVE"
  BY <1>3, <1>4
<1>6. ASSUME NEW i \in DOMAIN r, Types(r[i]), \A j \in DOMAIN r : j > i => ~Types(r[j])
      PROVE  q.sentTyping = (r[i].type = "TYPING" /\ r[i].on)
  <2>1. i \in DOMAIN p /\ r[i] = p[i] /\ Types(p[i])
    BY <1>2, <1>6
  <2>2. \A j \in DOMAIN p : j > i => ~Types(p[j])
    BY <1>3, <1>6
  <2>. QED
    BY <1>4, <1>5, <2>1, <2>2 DEF LastTyping
<1>7. ASSUME \A i \in DOMAIN r : ~Types(r[i]) PROVE typing = q.sentTyping
  <2>1. \A i \in DOMAIN p : ~Types(p[i])
    BY <1>3, <1>7
  <2>. QED
    BY <1>4, <1>5, <2>1 DEF LastTyping
<1>. QED
  BY <1>6, <1>7

LEMMA TypingIsSaid ==
    ASSUME NEW q, NEW p, NEW r, NEW f, NEW typing, NEW gone, Longer(r, p, f), Types(f),
           q.sentTyping = (f.type = "TYPING" /\ f.on)
    PROVE  LastTyping(q, r, typing, gone)
<1>. DEFINE n == Len(p)
<1>1. /\ n \in Nat /\ DOMAIN r = 1..n + 1 /\ r[n + 1] = f
  BY DEF Longer
<1>. HIDE DEF n, Types
<1>2. n + 1 \in DOMAIN r /\ Types(r[n + 1])
  BY <1>1
<1>3. \A i \in DOMAIN r : (\A j \in DOMAIN r : j > i => ~Types(r[j])) => i = n + 1
  <2>1. SUFFICES ASSUME NEW i \in DOMAIN r, i # n + 1,
                        \A j \in DOMAIN r : j > i => ~Types(r[j])
                 PROVE  FALSE
    OBVIOUS
  <2>2. n + 1 > i
    BY <1>1, <2>1
  <2>. QED
    BY <1>2, <2>1, <2>2
<1>4. \A i \in DOMAIN r :
        Types(r[i]) /\ (\A j \in DOMAIN r : j > i => ~Types(r[j]))
          => q.sentTyping = (r[i].type = "TYPING" /\ r[i].on)
  BY <1>1, <1>3
<1>5. ~\A i \in DOMAIN r : ~Types(r[i])
  BY <1>2
<1>. QED
  BY <1>4, <1>5 DEF LastTyping

LEMMA TypingIsHeard ==
    ASSUME NEW k, NEW p, NEW r, NEW typing, NEW gone, NEW now, NEW over,
           LastTyping(k, p, typing, gone), Shorter(r, p),
           over = (gone \/ p[1].type = "LEAVE"),
           Types(p[1]) /\ ~gone => now = (p[1].type = "TYPING" /\ p[1].on),
           ~Types(p[1]) /\ p[1].type # "LEAVE" => now = typing
    PROVE  LastTyping(k, r, now, over)
<1>. DEFINE n == Len(p)
<1>1. /\ n \in Nat /\ n >= 1 /\ DOMAIN p = 1..n /\ DOMAIN r = 1..n - 1
      /\ \A i \in 1..n - 1 : r[i] = p[i + 1]
  BY DEF Shorter
<1>2. \A i \in DOMAIN p : i = 1 \/ (i - 1 \in DOMAIN r /\ r[i - 1] = p[i])
  BY <1>1
<1>3. \A i \in DOMAIN r : i + 1 \in DOMAIN p /\ r[i] = p[i + 1]
  BY <1>1
<1>4. 1 \in DOMAIN p /\ DOMAIN p \subseteq Int /\ \A i \in DOMAIN p : i >= 1
  BY <1>1
<1>. HIDE DEF n, Types
<1>5. SUFFICES ASSUME ~over, \A i \in DOMAIN r : r[i].type # "LEAVE"
               PROVE  /\ \A i \in DOMAIN r :
                           Types(r[i]) /\ (\A j \in DOMAIN r : j > i => ~Types(r[j]))
                             => k.sentTyping = (r[i].type = "TYPING" /\ r[i].on)
                      /\ (\A i \in DOMAIN r : ~Types(r[i])) => now = k.sentTyping
  BY DEF LastTyping
<1>6. ~gone /\ p[1].type # "LEAVE" /\ \A i \in DOMAIN p : p[i].type # "LEAVE"
  BY <1>2, <1>5
<1>7. ASSUME NEW i \in DOMAIN r, Types(r[i]), \A j \in DOMAIN r : j > i => ~Types(r[j])
      PROVE  k.sentTyping = (r[i].type = "TYPING" /\ r[i].on)
  <2>1. i + 1 \in DOMAIN p /\ r[i] = p[i + 1] /\ Types(p[i + 1])
    BY <1>3, <1>7
  <2>2. ASSUME NEW j \in DOMAIN p, j > i + 1 PROVE ~Types(p[j])
    <3>1. j # 1 /\ j - 1 > i
      BY <1>1, <2>2
    <3>. QED
      BY <1>2, <1>7, <3>1
  <2>. QED
    BY <1>6, <2>1, <2>2 DEF LastTyping
<1>8. ASSUME \A i \in DOMAIN r : ~Types(r[i]) PROVE now = k.sentTyping
  <2>1. \A j \in DOMAIN p : j # 1 => ~Types(p[j])
    BY <1>2, <1>8
  <2>2. CASE Types(p[1])
    <3>1. \A j \in DOMAIN p : j > 1 => ~Types(p[j])
      BY <1>4, <2>1
    <3>2. k.sentTyping = (p[1].type = "TYPING" /\ p[1].on)
      BY <1>4, <1>6, <2>2, <3>1 DEF LastTyping
    <3>. QED
      BY <1>6, <2>2, <3>2
  <2>3. CASE ~Types(p[1])
    <3>1. \A j \in DOMAIN p : ~Types(p[j])
      BY <2>1, <2>3
    <3>2. typing = k.sentTyping
      BY <1>6, <3>1 DEF LastTyping
    <3>. QED
      BY <1>6, <2>3, <3>2
  <2>. QED
    BY <2>2, <2>3
<1>. QED
  BY <1>7, <1>8

LEMMA SameLastMove ==
    ASSUME NEW k, NEW q, NEW p, NEW t, NEW known, NEW hs, NEW h,
           LastMove(k, p, t, known, hs), q.tiles = k.tiles, h.moved = hs.moved
    PROVE  LastMove(q, p, t, known, h)
<1>1. Waits(q, t) = Waits(k, t)
  BY DEF Waits
<1>. HIDE DEF Moves
<1>. QED
  BY <1>1 DEF LastMove

\* A step that leaves what is said where it is: at most the player gets its number,
\* something is lost, or the server forgets the person.
LEMMA SameSays ==
    ASSUME NEW k, NEW q, NEW p, NEW lk, NEW mk, NEW sv, NEW sw, NEW hs, NEW h,
           Saying(k, p, lk, sv, hs), DOMAIN p \subseteq Int,
           q.messages = k.messages, q.tiles = k.tiles, q.sentTyping = k.sentTyping,
           mk.person = lk.person, q.person = k.person \/ lk.person,
           sw.heard = sv.heard, sw.place = sv.place, sw.person = sv.person,
           sw.known => sv.known,
           (sw.typing = sv.typing /\ sw.left = sv.left) \/ sw.left,
           h.said = hs.said, h.before = hs.before, h.moved = hs.moved,
           hs.lost => h.lost
    PROVE  Saying(q, p, mk, sw, h)
<1>1. InLine(q, p, sw, h)
  <2>1. \A i \in DOMAIN p : i + 0 \in DOMAIN p /\ p[i] = p[i + 0]
    <3>1. \A i \in DOMAIN p : i + 0 = i
      OBVIOUS
    <3>. QED
      BY <3>1
  <2>2. InLine(k, p, sv, hs)
    BY DEF Saying
  <2>3. 0 \in Int
    OBVIOUS
  <2>. QED
    BY <2>1, <2>2, <2>3, PartStaysInLine
<1>2. SUFFICES ASSUME ~h.lost, Listening(q, mk, sw)
               PROVE  /\ AllSaid(q, p, KnownHeard(q, mk, sw), h)
                      /\ \A t \in Tile : LastMove(q, p, t, KnownPlace(q, mk, sw, t), h)
                      /\ LastTyping(q, p, KnownTyping(q, mk, sw), KnownLeft(q, mk, sw))
  BY <1>1 DEF Saying, NothingForgotten
<1>3. ~hs.lost /\ Listening(k, lk, sv)
  BY <1>2 DEF Listening
<1>4. Fresh(q, mk) = Fresh(k, lk)
  BY DEF Fresh
<1>5. /\ AllSaid(k, p, KnownHeard(k, lk, sv), hs)
      /\ \A t \in Tile : LastMove(k, p, t, KnownPlace(k, lk, sv, t), hs)
      /\ LastTyping(k, p, KnownTyping(k, lk, sv), KnownLeft(k, lk, sv))
  BY <1>3 DEF Saying, NothingForgotten
<1>6. /\ KnownHeard(q, mk, sw) = KnownHeard(k, lk, sv)
      /\ \A t \in Tile : KnownPlace(q, mk, sw, t) = KnownPlace(k, lk, sv, t)
      /\ \/ /\ KnownTyping(q, mk, sw) = KnownTyping(k, lk, sv)
            /\ KnownLeft(q, mk, sw) = KnownLeft(k, lk, sv)
         \/ KnownLeft(q, mk, sw)
  <2>. HIDE DEF Fresh
  <2>. QED
    BY <1>4 DEF KnownHeard, KnownPlace, KnownTyping, KnownLeft
<1>7. AllSaid(q, p, KnownHeard(q, mk, sw), h)
  BY <1>5, <1>6 DEF AllSaid
<1>8. \A t \in Tile : LastMove(q, p, t, KnownPlace(q, mk, sw, t), h)
  <2>1. ASSUME NEW t \in Tile PROVE LastMove(q, p, t, KnownPlace(k, lk, sv, t), h)
    <3>1. LastMove(k, p, t, KnownPlace(k, lk, sv, t), hs)
      BY <1>5
    <3>. QED
      BY <3>1, SameLastMove
  <2>. QED
    BY <1>6, <2>1
<1>9. LastTyping(q, p, KnownTyping(q, mk, sw), KnownLeft(q, mk, sw))
  BY <1>5, <1>6 DEF LastTyping
<1>. QED
  BY <1>7, <1>8, <1>9

\* The connection ends: either something may be lost, or there was nothing on the
\* line, and the server that has answered the client knows it still or not at all.
LEMMA LostSays ==
    ASSUME NEW k, NEW q, NEW p, NEW r, NEW lk, NEW mk, NEW sv, NEW hs, NEW h, NEW d \in Int,
           Saying(k, p, lk, sv, hs),
           q.messages = k.messages, q.tiles = k.tiles, q.sentTyping = k.sentTyping,
           ~mk.person, DOMAIN r \subseteq Int,
           \A i \in DOMAIN r : i + d \in DOMAIN p /\ r[i] = p[i + d],
           h.said = hs.said, h.before = hs.before, h.moved = hs.moved,
           \/ h.lost
           \/ ~hs.lost /\ r = p /\ k.person # NoPerson /\ q.person = k.person
    PROVE  Saying(q, r, mk, sv, h)
<1>1. InLine(q, r, sv, h)
  BY PartStaysInLine DEF Saying
<1>2. CASE h.lost
  BY <1>1, <1>2 DEF Saying, NothingForgotten
<1>3. CASE ~hs.lost /\ r = p /\ k.person # NoPerson /\ q.person = k.person
  <2>1. SUFFICES ASSUME Listening(q, mk, sv)
                 PROVE  /\ AllSaid(q, p, KnownHeard(q, mk, sv), h)
                        /\ \A t \in Tile : LastMove(q, p, t, KnownPlace(q, mk, sv, t), h)
                        /\ LastTyping(q, p, KnownTyping(q, mk, sv), KnownLeft(q, mk, sv))
    BY <1>1, <1>3 DEF Saying, NothingForgotten
  <2>2. Listening(k, lk, sv) /\ ~Fresh(k, lk) /\ ~Fresh(q, mk)
    BY <1>3, <2>1 DEF Listening, Fresh
  <2>3. /\ AllSaid(k, p, KnownHeard(k, lk, sv), hs)
        /\ \A t \in Tile : LastMove(k, p, t, KnownPlace(k, lk, sv, t), hs)
        /\ LastTyping(k, p, KnownTyping(k, lk, sv), KnownLeft(k, lk, sv))
    BY <1>3, <2>2 DEF Saying, NothingForgotten
  <2>4. /\ KnownHeard(q, mk, sv) = KnownHeard(k, lk, sv)
        /\ \A t \in Tile : KnownPlace(q, mk, sv, t) = KnownPlace(k, lk, sv, t)
        /\ KnownTyping(q, mk, sv) = KnownTyping(k, lk, sv)
        /\ KnownLeft(q, mk, sv) = KnownLeft(k, lk, sv)
    BY <2>2 DEF KnownHeard, KnownPlace, KnownTyping, KnownLeft
  <2>5. AllSaid(q, p, KnownHeard(q, mk, sv), h)
    BY <2>3, <2>4 DEF AllSaid
  <2>6. \A t \in Tile : LastMove(q, p, t, KnownPlace(q, mk, sv, t), h)
    <3>1. ASSUME NEW t \in Tile PROVE LastMove(q, p, t, KnownPlace(k, lk, sv, t), h)
      <4>1. LastMove(k, p, t, KnownPlace(k, lk, sv, t), hs)
        BY <2>3
      <4>. QED
        BY <4>1, SameLastMove
    <3>. QED
      BY <2>4, <3>1
  <2>7. LastTyping(q, p, KnownTyping(q, mk, sv), KnownLeft(q, mk, sv))
    BY <2>3, <2>4 DEF LastTyping
  <2>. QED
    BY <2>5, <2>6, <2>7
<1>. QED
  BY <1>2, <1>3

\* One more item is written, of whatever kind.
LEMMA ItemSays ==
    ASSUME NEW k \in Conn, NEW q \in Conn, NEW ts \in Seq(ToServer), NEW lk, NEW sv, NEW hs,
           Saying(k, ts \o k.out, lk, sv, hs),
           \/ WritesFlag(k, q) \/ WritesMove(k, q) \/ WritesMessage(k, q)
           \/ WritesTyping(k, q)
    PROVE  Saying(q, ts \o q.out, lk, sv, hs)
<1>. DEFINE p == ts \o k.out
            r == ts \o q.out
<1>1. k.out \in Seq(ToServer) /\ k.tiles \in Seq([num : Tile, place : Place])
      /\ k.messages \in Seq(Nat) /\ k.dirty \subseteq FlagSet
  BY DEF Conn
<1>2. p \in Seq(ToServer)
  BY <1>1, ConcatProperties
<1>3. ASSUME NEW f \in ToServer, q.out = Append(k.out, f) PROVE Longer(r, p, f)
  <2>1. r = Append(p, f)
    BY <1>1, <1>3, ConcatAppend
  <2>. HIDE DEF p, r
  <2>. QED
    BY <1>2, <2>1, Appended DEF Longer
<1>. HIDE DEF p, r
<1>4. /\ InLine(k, p, sv, hs)
      /\ ~hs.lost /\ Listening(k, lk, sv) =>
           /\ AllSaid(k, p, KnownHeard(k, lk, sv), hs)
           /\ \A t \in Tile : LastMove(k, p, t, KnownPlace(k, lk, sv, t), hs)
           /\ LastTyping(k, p, KnownTyping(k, lk, sv), KnownLeft(k, lk, sv))
  BY DEF Saying, NothingForgotten, p
<1>5. q.person = k.person
  BY DEF WritesFlag, WritesMove, WritesMessage, WritesTyping, Same, Fields
<1>6. /\ Listening(q, lk, sv) = Listening(k, lk, sv)
      /\ KnownHeard(q, lk, sv) = KnownHeard(k, lk, sv)
      /\ \A t \in Tile : KnownPlace(q, lk, sv, t) = KnownPlace(k, lk, sv, t)
      /\ KnownTyping(q, lk, sv) = KnownTyping(k, lk, sv)
      /\ KnownLeft(q, lk, sv) = KnownLeft(k, lk, sv)
  BY <1>5 DEF Listening, KnownHeard, KnownPlace, KnownTyping, KnownLeft, Fresh
<1>. DEFINE heard == KnownHeard(k, lk, sv)
            place(t) == KnownPlace(k, lk, sv, t)
            typing == KnownTyping(k, lk, sv)
            gone == KnownLeft(k, lk, sv)
<1>7. SUFFICES /\ InLine(q, r, sv, hs)
               /\ AllSaid(k, p, heard, hs) => AllSaid(q, r, heard, hs)
               /\ \A t \in Tile : LastMove(k, p, t, place(t), hs)
                                    => LastMove(q, r, t, place(t), hs)
               /\ LastTyping(k, p, typing, gone) => LastTyping(q, r, typing, gone)
  BY <1>4, <1>6 DEF Saying, NothingForgotten, r
<1>. HIDE DEF heard, place, typing, gone
<1>8. CASE WritesFlag(k, q)
  <2>1. PICK flag \in k.dirty :
           /\ Same(q, k, {"out", "dirty"}) /\ q.out = Append(k.out, FlagFrame(k, flag))
           /\ FlagFrame(k, flag) \in ToServer
    BY <1>8 DEF WritesFlag
  <2>. DEFINE f == FlagFrame(k, flag)
  <2>2. f.type \in {"WS_HEADER", "NEW_PLAYER", "RECONNECT", "KEEP_ALIVE", "N_TILES",
                    "LEAVE"}
    BY <1>1 DEF FlagFrame, Header, FlagSet
  <2>3. Longer(r, p, f)
    BY <1>3, <2>1
  <2>4. q.messages = k.messages /\ q.tiles = k.tiles /\ q.sentTyping = k.sentTyping
    BY <2>1 DEF Same, Fields
  <2>. HIDE DEF f
  <2>5. ~Says(f) /\ ~Types(f) /\ \A t \in Tile : ~Moves(f, t)
    BY <2>2 DEF Says, Types, Moves
  <2>6. InLine(q, r, sv, hs)
    BY <1>4, <2>3, <2>4, <2>5, OthersStayInLine
  <2>7. AllSaid(k, p, heard, hs) => AllSaid(q, r, heard, hs)
    BY <2>3, <2>4, AllStaySaid
  <2>8. ASSUME NEW t \in Tile, LastMove(k, p, t, place(t), hs)
        PROVE  LastMove(q, r, t, place(t), hs)
    BY <2>3, <2>4, <2>5, <2>8, OthersMoveNothing
  <2>9. LastTyping(k, p, typing, gone) => LastTyping(q, r, typing, gone)
    BY <2>3, <2>4, <2>5, OthersSayNothingOfTyping
  <2>. QED
    BY <2>6, <2>7, <2>8, <2>9
<1>9. CASE WritesMove(k, q)
  <2>. DEFINE f == [type |-> "MOVE_TILE", tile |-> Head(k.tiles).num,
                    place |-> Head(k.tiles).place]
  <2>1. /\ k.tiles # <<>> /\ Same(q, k, {"out", "tiles"}) /\ q.tiles = Tail(k.tiles)
        /\ q.out = Append(k.out, f)
        /\ Head(k.tiles).num \in Tile /\ Head(k.tiles).place \in Place
    BY <1>9 DEF WritesMove
  <2>2. Shorter(q.tiles, k.tiles) /\ Head(k.tiles) = k.tiles[1]
    BY <1>1, <2>1, Tailed DEF Shorter
  <2>3. f \in ToServer
    BY <2>1 DEF ToServer
  <2>4. f.type = "MOVE_TILE" /\ f.tile = k.tiles[1].num /\ f.place = k.tiles[1].place
    BY <2>2
  <2>. HIDE DEF f
  <2>5. Longer(r, p, f)
    BY <1>3, <2>1, <2>3
  <2>6. q.messages = k.messages /\ q.sentTyping = k.sentTyping
    BY <2>1 DEF Same, Fields
  <2>7. ~Says(f) /\ ~Types(f)
    BY <2>4 DEF Says, Types
  <2>8. InLine(q, r, sv, hs)
    BY <1>4, <2>5, <2>6, <2>7, OthersStayInLine
  <2>9. AllSaid(k, p, heard, hs) => AllSaid(q, r, heard, hs)
    BY <2>5, <2>6, AllStaySaid
  <2>10. ASSUME NEW t \in Tile, LastMove(k, p, t, place(t), hs)
         PROVE  LastMove(q, r, t, place(t), hs)
    BY <2>2, <2>4, <2>5, <2>10, MoveGoesOn
  <2>11. LastTyping(k, p, typing, gone) => LastTyping(q, r, typing, gone)
    BY <2>5, <2>6, <2>7, OthersSayNothingOfTyping
  <2>. QED
    BY <2>8, <2>9, <2>10, <2>11
<1>10. CASE WritesMessage(k, q)
  <2>. DEFINE f == [type |-> "SEND_MESSAGE", n |-> Head(k.messages)]
  <2>1. /\ k.messages # <<>> /\ Same(q, k, {"out", "messages", "sentTyping"})
        /\ q.messages = Tail(k.messages) /\ q.sentTyping = FALSE
        /\ q.out = Append(k.out, f) /\ Head(k.messages) \in Nat
    BY <1>10 DEF WritesMessage
  <2>2. Shorter(q.messages, k.messages) /\ Head(k.messages) = k.messages[1]
    BY <1>1, <2>1, Tailed DEF Shorter
  <2>3. f \in ToServer
    BY <2>1 DEF ToServer
  <2>4. f.type = "SEND_MESSAGE" /\ f.n = k.messages[1]
    BY <2>2
  <2>. HIDE DEF f
  <2>5. Longer(r, p, f)
    BY <1>3, <2>1, <2>3
  <2>6. q.tiles = k.tiles
    BY <2>1 DEF Same, Fields
  <2>7. Says(f) /\ Types(f) /\ (\A t \in Tile : ~Moves(f, t))
        /\ q.sentTyping = (f.type = "TYPING" /\ f.on)
    BY <2>1, <2>4 DEF Says, Types, Moves
  <2>8. InLine(q, r, sv, hs)
    BY <1>4, <2>2, <2>4, <2>5, <2>7, MessageGoesInLine
  <2>9. AllSaid(k, p, heard, hs) => AllSaid(q, r, heard, hs)
    BY <2>2, <2>4, <2>5, <2>7, MessageIsSaid
  <2>10. ASSUME NEW t \in Tile, LastMove(k, p, t, place(t), hs)
         PROVE  LastMove(q, r, t, place(t), hs)
    BY <2>5, <2>6, <2>7, <2>10, OthersMoveNothing
  <2>11. LastTyping(q, r, typing, gone)
    BY <2>5, <2>7, TypingIsSaid
  <2>. QED
    BY <2>8, <2>9, <2>10, <2>11
<1>11. CASE WritesTyping(k, q)
  <2>. DEFINE f == [type |-> "TYPING", on |-> k.typing]
  <2>1. /\ Same(q, k, {"out", "sentTyping"}) /\ q.sentTyping = k.typing
        /\ q.out = Append(k.out, f)
    BY <1>11 DEF WritesTyping
  <2>2. f \in ToServer
    BY DEF ToServer, Conn
  <2>3. f.type = "TYPING" /\ f.on = k.typing /\ k.typing \in BOOLEAN
    BY DEF Conn
  <2>. HIDE DEF f
  <2>4. Longer(r, p, f)
    BY <1>3, <2>1, <2>2
  <2>5. q.messages = k.messages /\ q.tiles = k.tiles
    BY <2>1 DEF Same, Fields
  <2>6. ~Says(f) /\ Types(f) /\ (\A t \in Tile : ~Moves(f, t))
        /\ q.sentTyping = (f.type = "TYPING" /\ f.on)
    BY <2>1, <2>3 DEF Says, Types, Moves
  <2>7. InLine(q, r, sv, hs)
    BY <1>4, <2>4, <2>5, <2>6, OthersStayInLine
  <2>8. AllSaid(k, p, heard, hs) => AllSaid(q, r, heard, hs)
    BY <2>4, <2>5, AllStaySaid
  <2>9. ASSUME NEW t \in Tile, LastMove(k, p, t, place(t), hs)
        PROVE  LastMove(q, r, t, place(t), hs)
    BY <2>4, <2>5, <2>6, <2>9, OthersMoveNothing
  <2>10. LastTyping(q, r, typing, gone)
    BY <2>4, <2>6, TypingIsSaid
  <2>. QED
    BY <2>7, <2>8, <2>9, <2>10
<1>. QED
  BY <1>8, <1>9, <1>10, <1>11

LEMMA FillSays ==
    ASSUME NEW k \in Conn, NEW ts \in Seq(ToServer), NEW lk, NEW sv, NEW hs,
           Saying(k, ts \o k.out, lk, sv, hs)
    PROVE  LET q == FillOutputBuffer(k) IN
           Saying(q, ts \o q.out, lk, sv, hs)
<1>. DEFINE S == {q \in Conn : Saying(q, ts \o q.out, lk, sv, hs)}
<1>1. ASSUME NEW q \in S PROVE WriteOneItem(q) \in S
  <2>. DEFINE r == WriteOneItem(q)
  <2>1. /\ r \in Conn
        /\ \/ WritesFlag(q, r) \/ WritesMove(q, r) \/ WritesMessage(q, r)
           \/ WritesTyping(q, r) \/ WritesNothing(q, r)
    BY WriteOneItemCases
  <2>. HIDE DEF r
  <2>2. CASE WritesNothing(q, r)
    BY <2>2 DEF WritesNothing, r
  <2>3. CASE ~WritesNothing(q, r)
    <3>1. Saying(r, ts \o r.out, lk, sv, hs)
      BY <2>1, <2>3, ItemSays
    <3>. QED
      BY <2>1, <3>1 DEF r
  <2>. QED
    BY <2>2, <2>3
<1>2. k \in S
  OBVIOUS
<1>3. FillOutputBuffer(k) \in S
  <2>. HIDE DEF S
  <2>. QED
    BY <1>1, <1>2, FillInduction
<1>. QED
  BY <1>3

\* Where there is nothing on the network and no socket, there is nothing on the line.
LEMMA EmptyLine ==
    ASSUME NEW k, NEW nt, nt.toServer = <<>>, ~k.sock
    PROVE  Line(k, nt) = <<>> /\ DOMAIN Line(k, nt) = {}
<1>1. <<>> \in Seq(ToServer)
  BY EmptySeq
<1>2. Line(k, nt) = <<>>
  BY <1>1, ConcatEmptySeq DEF Line
<1>. QED
  BY <1>2, EmptySeq

LEMMA LineIsTyped ==
    ASSUME NEW ts \in Seq(ToServer), NEW out \in Seq(ToServer)
    PROVE  /\ ts \o out \in Seq(ToServer)
           /\ DOMAIN (ts \o out) \subseteq Int
           /\ ts \o out = <<>> => ts = <<>> /\ out = <<>>
<1>1. ts \o out \in Seq(ToServer) /\ Len(ts \o out) = Len(ts) + Len(out)
  BY ConcatProperties
<1>2. /\ Len(ts \o out) \in Nat /\ DOMAIN (ts \o out) = 1..Len(ts \o out)
      /\ Len(ts) \in Nat /\ Len(out) \in Nat
  BY <1>1, LenProperties
<1>. QED
  BY <1>1, <1>2, EmptySeq

\* The client closes its socket with out in its buffer.
LEMMA DroppedSays ==
    ASSUME NEW k, NEW out \in Seq(ToServer), net \in Net, hist \in Hist,
           Saying(k, net.toServer \o out, link, server, hist), Dropped(out),
           k.person = c.person, c'.person = c.person, c'.sock = FALSE,
           c'.messages = k.messages, c'.tiles = k.tiles, c'.sentTyping = k.sentTyping,
           server' = server
    PROVE  Saying(c', Line(c', net'), link', server', hist')
<1>1. /\ net'.toServer = <<>> /\ link' = NoLink
      /\ hist'.before = hist.before /\ hist'.said = hist.said
      /\ hist'.moved = hist.moved
      /\ hist'.lost = (\/ hist.lost \/ net.toServer # <<>> \/ out # <<>>
                       \/ c.person = NoPerson)
  BY EndedFields DEF Dropped
<1>2. Line(c', net') = <<>> /\ DOMAIN Line(c', net') = {}
  BY <1>1, EmptyLine
<1>3. \/ hist'.lost
      \/ /\ ~hist.lost /\ k.person # NoPerson
         /\ Line(c', net') = net.toServer \o out
  <2>1. ASSUME ~hist'.lost
        PROVE  /\ ~hist.lost /\ k.person # NoPerson
               /\ Line(c', net') = net.toServer \o out
    <3>1. ~hist.lost /\ net.toServer = <<>> /\ out = <<>> /\ k.person # NoPerson
      BY <1>1, <2>1
    <3>2. net.toServer \o out = <<>>
      BY <3>1, ConcatEmptySeq
    <3>. QED
      BY <1>2, <3>1, <3>2
  <2>. QED
    BY <2>1
<1>. DEFINE p == net.toServer \o out
            r == Line(c', net')
<1>4. Saying(k, p, link, server, hist)
  OBVIOUS
<1>5. ~link'.person
  BY <1>1 DEF NoLink
<1>6. 0 \in Int /\ DOMAIN r \subseteq Int
      /\ \A i \in DOMAIN r : i + 0 \in DOMAIN p /\ r[i] = p[i + 0]
  BY <1>2
<1>7. c'.person = k.person
  OBVIOUS
<1>8. hist'.lost \/ (~hist.lost /\ r = p /\ k.person # NoPerson /\ c'.person = k.person)
  BY <1>3, <1>7
<1>. HIDE DEF p, r
<1>9. /\ hist'.said = hist.said /\ hist'.before = hist.before
      /\ hist'.moved = hist.moved
      /\ c'.messages = k.messages /\ c'.tiles = k.tiles
      /\ c'.sentTyping = k.sentTyping
  BY <1>1
<1>10. Saying(c', r, link', server, hist')
  BY <1>4, <1>5, <1>6, <1>8, <1>9, LostSays
<1>. QED
  BY <1>10 DEF r

\* A socket that is ready, or the time that has come, changes nothing of what is said.
LEMMA WokenSays ==
    ASSUME Core(c, net, link, hist), Talk(c, net, link, server, hist), SayInvariant, c.sock
    PROVE  /\ Woken \in Conn /\ Woken.sock = c.sock /\ Woken.person = c.person
           /\ Same(Woken, c, {"state", "keepAliveIn", "dirty"})
           /\ net.toServer \in Seq(ToServer) /\ Woken.out = c.out
           /\ c.out \in Seq(ToServer)
           /\ Line(c, net) = net.toServer \o c.out
           /\ Saying(Woken, net.toServer \o c.out, link, server, hist)
<1>1. c \in Conn /\ net \in Net
  BY DEF Core
<1>2. net.toServer \in Seq(ToServer) /\ c.out \in Seq(ToServer)
  BY <1>1 DEF Net, Conn
<1>3. Woken \in Conn /\ Same(Woken, c, {"state", "keepAliveIn", "dirty"})
  BY <1>1, WokenFields
<1>4. /\ Woken.sock = c.sock /\ Woken.person = c.person /\ Woken.out = c.out
      /\ Woken.messages = c.messages /\ Woken.tiles = c.tiles
      /\ Woken.sentTyping = c.sentTyping
  BY <1>3 DEF Same, Fields
<1>. DEFINE p == net.toServer \o c.out
<1>5. Line(c, net) = p
  BY DEF Line
<1>6. Saying(c, p, link, server, hist) /\ DOMAIN p \subseteq Int
  BY <1>2, <1>5, LineIsTyped DEF SayInvariant
<1>. HIDE DEF p
<1>7. Saying(Woken, p, link, server, hist)
  BY <1>4, <1>6, SameSays
<1>. QED
  BY <1>2, <1>3, <1>4, <1>5, <1>7 DEF p

LEMMA HandleWriteSays ==
    ASSUME Core(c, net, link, hist), Talk(c, net, link, server, hist), SayInvariant,
           HandleWrite, server' = server
    PROVE  SayInvariant'
<1>. DEFINE k == FillOutputBuffer(Woken)
            p == net.toServer \o k.out
<1>1. /\ c \in Conn /\ hist \in Hist /\ net \in Net /\ c.sock /\ Len(c.out) <= OutCap
      /\ Len(net.toServer) <= WireCap
  BY DEF Core, HandleWrite
<1>2. /\ Woken \in Conn /\ Woken.sock = c.sock /\ Woken.person = c.person
      /\ net.toServer \in Seq(ToServer) /\ Woken.out = c.out
      /\ Saying(Woken, net.toServer \o c.out, link, server, hist)
  BY <1>1, WokenSays
<1>3. /\ k \in Conn
      /\ Same(k, Woken, {"out", "dirty", "tiles", "messages", "sentTyping"})
  BY <1>1, <1>2, FillFields
<1>4. k.sock = c.sock /\ k.person = c.person
  BY <1>2, <1>3 DEF Same, Fields
<1>5. k.out \in Seq(ToServer) /\ Len(k.out) \in Nat /\ Len(net.toServer) \in Nat
  BY <1>1, <1>2, <1>3, LenProperties DEF Conn
<1>6. Saying(k, p, link, server, hist)
  BY <1>2, FillSays
<1>7. p \in Seq(ToServer) /\ DOMAIN p \subseteq Int
  BY <1>2, <1>5, LineIsTyped
<1>8. \/ /\ c' = ReportError(k) /\ Dropped(k.out)
      \/ /\ net.st = "UP" /\ link' = link
         /\ \E n \in 0..Least({Len(k.out), WireCap - Len(net.toServer)}) :
              /\ n > 0 \/ k.out = <<>>
              /\ c' = Written(k, n)
              /\ net' = [net EXCEPT !.toServer = @ \o SubSeq(k.out, 1, n)]
              /\ hist' = [hist EXCEPT !.putOff = @ \/ n = 0]
      \/ net.st = "UP" /\ c' = k /\ UNCHANGED <<net, link, hist>>
  BY DEF HandleWrite
<1>. HIDE DEF k
<1>9. CASE c' = ReportError(k) /\ Dropped(k.out)
  <2>1. /\ c'.sock = FALSE
        /\ Same(c', k, {"sock", "keepAliveIn", "timeout", "reconnectIn",
                        "writeFinished", "poll"})
    BY <1>3, <1>9, ReportErrorFields
  <2>2. /\ c'.person = k.person /\ c'.messages = k.messages /\ c'.tiles = k.tiles
        /\ c'.sentTyping = k.sentTyping
    BY <2>1 DEF Same, Fields
  <2>3. Saying(c', Line(c', net'), link', server', hist')
    BY <1>1, <1>4, <1>5, <1>6, <1>9, <2>1, <2>2, DroppedSays
  <2>. QED
    BY <2>3 DEF SayInvariant
<1>. HIDE DEF p
<1>10. CASE /\ net.st = "UP" /\ link' = link
            /\ \E n \in 0..Least({Len(k.out), WireCap - Len(net.toServer)}) :
                 /\ n > 0 \/ k.out = <<>>
                 /\ c' = Written(k, n)
                 /\ net' = [net EXCEPT !.toServer = @ \o SubSeq(k.out, 1, n)]
                 /\ hist' = [hist EXCEPT !.putOff = @ \/ n = 0]
  <2>. DEFINE room == WireCap - Len(net.toServer)
              most == Least({Len(k.out), room})
  <2>1. room \in Nat
    BY <1>1, <1>5, ClientAssumption
  <2>2. PICK n \in 0..most :
                /\ n > 0 \/ k.out = <<>>
                /\ c' = Written(k, n)
                /\ net' = [net EXCEPT !.toServer = @ \o SubSeq(k.out, 1, n)]
                /\ hist' = [hist EXCEPT !.putOff = @ \/ n = 0]
    BY <1>10
  <2>. HIDE DEF room
  <2>3. most \in Nat /\ most <= Len(k.out)
    BY <1>5, <2>1, LeastOf
  <2>. HIDE DEF most
  <2>4. n \in Nat /\ n \in 0..Len(k.out)
    BY <1>5, <2>3
  <2>5. /\ Same(c', k, {"out", "keepAliveIn", "writeFinished", "poll"})
        /\ c'.out = SubSeq(k.out, n + 1, Len(k.out))
    BY <1>3, <2>2, <2>4, WrittenFields
  <2>6. /\ c'.sock /\ c'.person = k.person /\ c'.messages = k.messages
        /\ c'.tiles = k.tiles /\ c'.sentTyping = k.sentTyping
    BY <1>1, <1>4, <2>5 DEF Same, Fields
  <2>7. net'.toServer = net.toServer \o SubSeq(k.out, 1, n)
    BY <1>1, <2>2 DEF Net
  <2>8. /\ hist'.said = hist.said /\ hist'.before = hist.before
        /\ hist'.moved = hist.moved /\ hist'.lost = hist.lost
    BY <1>1, <2>2 DEF Hist
  <2>9. Line(c', net') = p
    <3>1. (net.toServer \o SubSeq(k.out, 1, n)) \o SubSeq(k.out, n + 1, Len(k.out))
            = net.toServer \o k.out
      BY <1>2, <1>5, <2>4, LineIsKept
    <3>. QED
      BY <2>5, <2>6, <2>7, <3>1 DEF Line, p
  <2>10. Saying(c', p, link, server, hist')
    BY <1>6, <1>7, <2>6, <2>8, SameSays
  <2>. QED
    BY <1>10, <2>9, <2>10 DEF SayInvariant
<1>11. CASE net.st = "UP" /\ c' = k /\ UNCHANGED <<net, link, hist>>
  <2>1. Line(c', net') = p
    BY <1>1, <1>4, <1>11 DEF Line, p
  <2>. QED
    BY <1>6, <1>11, <2>1 DEF SayInvariant
<1>. QED
  BY <1>8, <1>9, <1>10, <1>11

LEMMA HandleReadSays ==
    ASSUME Core(c, net, link, hist), Talk(c, net, link, server, hist), SayInvariant,
           HandleRead, server \in Server, server' = server
    PROVE  SayInvariant'
<1>. DEFINE p == net.toServer \o c.out
<1>1. /\ c \in Conn /\ hist \in Hist /\ net \in Net /\ link \in Link /\ c.sock
      /\ Machine(c)
  BY DEF Core, HandleRead
<1>2. /\ Woken \in Conn /\ Woken.sock = c.sock /\ Woken.person = c.person
      /\ Same(Woken, c, {"state", "keepAliveIn", "dirty"})
      /\ net.toServer \in Seq(ToServer) /\ c.out \in Seq(ToServer)
      /\ Saying(Woken, p, link, server, hist)
  BY <1>1, WokenSays
<1>3. DOMAIN p \subseteq Int
  BY <1>2, LineIsTyped
<1>4. CASE c' \in {ReportError(Woken), Stopped(Woken)} /\ Dropped(c.out)
  <2>1. /\ c'.sock = FALSE
        /\ Same(c', Woken, {"state", "sock", "keepAliveIn", "timeout", "reconnectIn",
                            "writeFinished", "poll"})
    <3>1. CASE c' = ReportError(Woken)
      <4>1. /\ c'.sock = FALSE
            /\ Same(c', Woken, {"sock", "keepAliveIn", "timeout", "reconnectIn",
                                "writeFinished", "poll"})
        BY <1>2, <3>1, ReportErrorFields
      <4>. QED
        BY <4>1 DEF Same
    <3>2. CASE c' = Stopped(Woken)
      <4>1. Machine(Woken)
        BY <1>1, WokenKeeps
      <4>2. /\ c'.sock = FALSE
            /\ Same(c', Woken, {"state", "sock", "keepAliveIn", "reconnectIn",
                                "writeFinished", "poll"})
        BY <1>1, <1>2, <3>2, <4>1, StoppedFields
      <4>. QED
        BY <4>2 DEF Same
    <3>. QED
      BY <1>4, <3>1, <3>2
  <2>2. /\ c'.person = c.person /\ c'.messages = Woken.messages
        /\ c'.tiles = Woken.tiles /\ c'.sentTyping = Woken.sentTyping
    BY <1>2, <2>1 DEF Same, Fields
  <2>3. Saying(c', Line(c', net'), link', server', hist')
    BY <1>1, <1>2, <1>4, <2>1, <2>2, DroppedSays
  <2>. QED
    BY <2>3 DEF SayInvariant
<1>. HIDE DEF p
<1>5. CASE /\ net.st = "UP" /\ net.toClient # <<>> /\ link' = link
           /\ \E n \in 1..Len(net.toClient) :
                LET frames == SubSeq(net.toClient, 1, n)
                    after == ProcessFrames(Woken, hist.shown, frames)
                IN /\ \A i \in 1..n : frames[i].type \notin {"EOF", "BAD"}
                   /\ c' = UpdatePoll(after.conn)
                   /\ net' = [net EXCEPT !.toClient = SubSeq(@, n + 1, Len(@))]
                   /\ hist' = [hist EXCEPT !.shown = after.shown]
  <2>. DEFINE s == net.toClient
  <2>1. PICK n \in 1..Len(s) :
           /\ \A i \in 1..n : SubSeq(s, 1, n)[i].type \notin {"EOF", "BAD"}
           /\ c' = UpdatePoll(ProcessFrames(Woken, hist.shown, SubSeq(s, 1, n)).conn)
           /\ net' = [net EXCEPT !.toClient = SubSeq(s, n + 1, Len(s))]
           /\ hist' = [hist EXCEPT
                         !.shown = ProcessFrames(Woken, hist.shown, SubSeq(s, 1, n)).shown]
    BY <1>5
  <2>. DEFINE frames == SubSeq(s, 1, n)
              rest == SubSeq(s, n + 1, Len(s))
              k == ProcessFrames(Woken, hist.shown, frames).conn
              shown == ProcessFrames(Woken, hist.shown, frames).shown
  <2>2. s \in Seq(ToClient) /\ Len(s) \in Nat /\ n \in Nat
    BY <1>1, LenProperties DEF Net
  <2>3. /\ Len(frames) = n /\ \A i \in 1..n : frames[i] = s[i] /\ s[i] \in ToClient
    BY <2>2, FirstFrames
  <2>4. /\ \A i \in 1..n : frames[i].type \notin {"EOF", "BAD"}
        /\ \A i \in 1..n : s[i].type \notin {"EOF", "BAD"}
    BY <2>1, <2>3
  <2>5. hist.shown \in Seq(Nat)
    BY <1>1 DEF Hist
  <2>6. Tellings(Woken, s, 1, link, server) /\ Showing(Woken, server, hist.shown)
    <3>1. Woken.next = c.next
      BY <1>2 DEF Same, Fields
    <3>. QED
      BY <1>2, <3>1 DEF Tellings, Showing, Talk
  <2>7. ~link.person => k.person = Woken.person
    <3>. HIDE DEF s
    <3>. QED
      BY <1>1, <1>2, <2>2, <2>4, <2>5, <2>6, ReadTalks
  <2>8. c' = UpdatePoll(k) /\ net' = [net EXCEPT !.toClient = rest]
        /\ hist' = [hist EXCEPT !.shown = shown]
    BY <2>1
  <2>. HIDE DEF frames, s
  <2>9. /\ k \in Conn
        /\ Same(k, Woken, {"upgraded", "person", "playerAge", "next", "synced",
                           "finished"})
    BY <1>2, <2>2, <2>3, <2>4, <2>5, ReadFields
  <2>. HIDE DEF k, shown, rest
  <2>10. Same(c', k, {"writeFinished", "poll"})
    BY <2>8, <2>9, UpdatePollFields
  <2>11. /\ c'.sock /\ c'.out = c.out
         /\ c'.person = Woken.person \/ link.person
         /\ c'.messages = Woken.messages /\ c'.tiles = Woken.tiles
         /\ c'.sentTyping = Woken.sentTyping
    BY <1>1, <1>2, <2>7, <2>9, <2>10 DEF Same, Fields
  <2>12. /\ net'.toServer = net.toServer
         /\ hist'.said = hist.said /\ hist'.before = hist.before
         /\ hist'.moved = hist.moved /\ hist'.lost = hist.lost
    BY <1>1, <2>8 DEF Net, Hist
  <2>13. Line(c', net') = p
    BY <2>11, <2>12 DEF Line, p
  <2>14. Saying(c', p, link, server, hist')
    BY <1>2, <1>3, <2>11, <2>12, SameSays
  <2>. QED
    BY <1>5, <2>13, <2>14 DEF SayInvariant
<1>6. CASE ReadsNothing
  <2>1. c' = Woken /\ net' = net /\ link' = link /\ hist' = hist
    BY <1>6 DEF ReadsNothing
  <2>2. Woken.out = c.out
    BY <1>2 DEF Same, Fields
  <2>3. Line(c', net') = p
    BY <1>1, <1>2, <2>1, <2>2 DEF Line, p
  <2>. QED
    BY <1>2, <2>1, <2>3 DEF SayInvariant
<1>. QED
  <2>1. \/ /\ net.st = "BROKEN" /\ c' = ReportError(Woken) /\ Dropped(c.out)
        \/ /\ net.st = "UP" /\ net.toClient # <<>>
           /\ \/ c' = ReadEof(Woken) /\ Dropped(c.out)
              \/ c' = ReportError(Woken) /\ Dropped(c.out)
              \/ /\ link' = link
                 /\ \E n \in 1..Len(net.toClient) :
                      LET frames == SubSeq(net.toClient, 1, n)
                          after == ProcessFrames(Woken, hist.shown, frames)
                      IN /\ \A i \in 1..n : frames[i].type \notin {"EOF", "BAD"}
                         /\ c' = UpdatePoll(after.conn)
                         /\ net' = [net EXCEPT !.toClient = SubSeq(@, n + 1, Len(@))]
                         /\ hist' = [hist EXCEPT !.shown = after.shown]
        \/ ReadsNothing
    BY DEF HandleRead
  <2>. QED
    BY <1>4, <1>5, <1>6, <2>1 DEF ReadEof

\* At first, and for another game, there is nothing that the player has said in it.
LEMMA FreshSays ==
    ASSUME NEW k, NEW p, NEW lk, NEW sv, NEW h,
           k.person = NoPerson, ~lk.person, k.messages = <<>>, k.tiles = <<>>,
           k.sentTyping = FALSE, DOMAIN p = {}, h.said \in Nat, h.before = h.said,
           h.moved = [t \in Tile |-> Nowhere], Ascending(sv.heard),
           \A i \in DOMAIN sv.heard : sv.heard[i] <= h.said
    PROVE  Saying(k, p, lk, sv, h)
<1>1. DOMAIN k.messages = {} /\ DOMAIN k.tiles = {}
  <2>1. DOMAIN <<>> = {}
    BY EmptySeq
  <2>. QED
    BY <2>1
<1>2. InLine(k, p, sv, h)
  BY <1>1 DEF InLine, Ascending
<1>3. Fresh(k, lk)
  BY DEF Fresh
<1>4. AllSaid(k, p, KnownHeard(k, lk, sv), h)
  <2>1. KnownHeard(k, lk, sv) = <<>> /\ DOMAIN KnownHeard(k, lk, sv) = {}
    BY <1>1, <1>3 DEF KnownHeard
  <2>2. h.before + 1..h.said = {}
    OBVIOUS
  <2>. QED
    BY <2>1, <2>2 DEF AllSaid
<1>5. ASSUME NEW t \in Tile PROVE LastMove(k, p, t, KnownPlace(k, lk, sv, t), h)
  BY <1>1, <1>3 DEF LastMove, KnownPlace
<1>6. LastTyping(k, p, KnownTyping(k, lk, sv), KnownLeft(k, lk, sv))
  BY <1>3 DEF LastTyping, KnownTyping
<1>. QED
  BY <1>2, <1>4, <1>5, <1>6 DEF Saying, NothingForgotten

\* Where there is no socket, nothing is on the line.
LEMMA NothingOnLine ==
    ASSUME Core(c, net, link, hist), ~c.sock
    PROVE  /\ net.toServer = <<>> /\ link = NoLink /\ ~link.person
           /\ Line(c, net) = <<>> /\ DOMAIN <<>> = {}
<1>1. net.toServer = <<>> /\ link = NoLink
  BY DEF Core, Wired
<1>2. ~link.person
  BY <1>1 DEF NoLink
<1>. QED
  BY <1>1, <1>2, EmptyLine

LEMMA TryReconnectSays ==
    ASSUME Core(c, net, link, hist), SayInvariant, TryReconnect, server' = server
    PROVE  SayInvariant'
<1>1. /\ c \in Conn /\ hist \in Hist /\ net \in Net /\ Machine(c) /\ ~c.sock
      /\ link' = link
  BY DEF Core, TryReconnect
<1>2. /\ net.toServer = <<>> /\ Line(c, net) = <<>> /\ DOMAIN <<>> = {}
  BY <1>1, NothingOnLine
<1>3. /\ hist'.said = hist.said /\ hist'.before = hist.before
      /\ hist'.moved = hist.moved /\ hist'.lost = hist.lost
  BY <1>1 DEF TryReconnect, Hist
<1>4. /\ c'.person = c.person /\ c'.messages = c.messages /\ c'.tiles = c.tiles
      /\ c'.sentTyping = c.sentTyping /\ Line(c', net') = <<>>
  <2>1. CASE c' = Reconnected(c, "RECONNECTING") /\ net' = [NoNet EXCEPT !.st = "CONNECTING"]
    <3>1. /\ Same(c', c, {"sock", "reconnectIn", "playerAge", "state", "dirty",
                   "out", "upgraded", "writeFinished", "synced", "poll", "keepAliveIn"})
          /\ c'.sock /\ c'.out = <<>>
      BY <1>1, <2>1, ReconnectedFields DEF Machine
    <3>2. net'.toServer = <<>>
      BY <2>1 DEF NoNet
    <3>3. Line(c', net') = <<>> \o <<>>
      BY <3>1, <3>2 DEF Line
    <3>4. Line(c', net') = <<>>
      BY <3>3, EmptySeq, ConcatEmptySeq
    <3>. QED
      BY <3>1, <3>4 DEF Same, Fields
  <2>2. CASE c' = ReportError(Reconnecting(c)) /\ net' = net
    <3>. DEFINE k == Reconnecting(c)
    <3>1. /\ k \in Conn
          /\ Same(k, c, {"sock", "keepAliveIn", "reconnectIn", "playerAge"})
      BY <1>1, ReconnectingFields
    <3>. HIDE DEF k
    <3>2. /\ Same(c', k, {"sock", "keepAliveIn", "timeout", "reconnectIn",
                          "writeFinished", "poll"})
          /\ c'.sock = FALSE
      BY <2>2, <3>1, ReportErrorFields DEF k
    <3>3. net'.toServer = <<>>
      BY <1>2, <2>2
    <3>4. Line(c', net') = <<>>
      BY <3>2, <3>3, EmptyLine
    <3>. QED
      BY <3>1, <3>2, <3>4 DEF Same, Fields
  <2>. QED
    BY <2>1, <2>2 DEF TryReconnect
<1>. DEFINE none == <<>>
<1>5. Saying(c, none, link, server, hist) /\ DOMAIN none \subseteq Int
  BY <1>2 DEF SayInvariant
<1>. HIDE DEF none
<1>6. Saying(c', none, link, server, hist')
  BY <1>3, <1>4, <1>5, SameSays
<1>. QED
  BY <1>1, <1>4, <1>6 DEF SayInvariant, none

LEMMA LineIsSequence ==
    ASSUME Core(c, net, link, hist)
    PROVE  Line(c, net) \in Seq(ToServer) /\ DOMAIN Line(c, net) \subseteq Int
<1>1. net.toServer \in Seq(ToServer) /\ c.out \in Seq(ToServer) /\ <<>> \in Seq(ToServer)
  BY EmptySeq DEF Core, Net, Conn
<1>. QED
  BY <1>1, LineIsTyped DEF Line

\* A step of the client that neither says nor writes anything.
LEMMA QuietSays ==
    ASSUME Core(c, net, link, hist), SayInvariant,
           c'.sock = c.sock, c'.out = c.out, c'.person = c.person,
           c'.messages = c.messages, c'.tiles = c.tiles, c'.sentTyping = c.sentTyping,
           net' = net, link' = link, server' = server,
           hist'.said = hist.said, hist'.before = hist.before,
           hist'.moved = hist.moved, hist'.lost = hist.lost
    PROVE  SayInvariant'
<1>. DEFINE p == Line(c, net)
<1>1. DOMAIN p \subseteq Int /\ Saying(c, p, link, server, hist)
  BY LineIsSequence DEF SayInvariant
<1>2. Line(c', net') = p
  BY DEF Line
<1>. HIDE DEF p
<1>3. Saying(c', p, link, server, hist')
  BY <1>1, SameSays
<1>. QED
  BY <1>2, <1>3 DEF SayInvariant

LEMMA WakeUpForNothingSays ==
    ASSUME Core(c, net, link, hist), SayInvariant, WakeUpForNothing, server' = server
    PROVE  SayInvariant'
<1>1. /\ c \in Conn /\ net' = net /\ link' = link /\ hist' = hist
  BY DEF WakeUpForNothing, Core
<1>2. /\ c'.out = c.out /\ c'.sock = c.sock /\ c'.person = c.person
      /\ c'.messages = c.messages /\ c'.tiles = c.tiles
      /\ c'.sentTyping = c.sentTyping
  <2>1. CASE c' = c
    BY <2>1
  <2>2. CASE c' = UpdatePoll(Woken)
    <3>1. Woken \in Conn /\ Same(Woken, c, {"state", "keepAliveIn", "dirty"})
      BY <1>1, WokenFields
    <3>2. Same(c', Woken, {"writeFinished", "poll"})
      BY <2>2, <3>1, UpdatePollFields
    <3>. QED
      BY <3>1, <3>2 DEF Same, Fields
  <2>. QED
    BY <2>1, <2>2 DEF WakeUpForNothing
<1>. QED
  BY <1>1, <1>2, QuietSays

LEMMA WakeUpSays ==
    ASSUME Core(c, net, link, hist), Talk(c, net, link, server, hist), SayInvariant,
           server \in Server, WakeUp
    PROVE  SayInvariant'
<1>1. server' = server
  BY DEF WakeUp
<1>. QED
  BY <1>1, TryReconnectSays, HandleReadSays, HandleWriteSays, WakeUpForNothingSays
     DEF WakeUp

LEMMA StopSays ==
    ASSUME Core(c, net, link, hist), SayInvariant, Stop, server' = server
    PROVE  SayInvariant'
<1>1. /\ c \in Conn /\ Machine(c) /\ Polling(c, net) /\ Wired(c, net, link)
      /\ hist \in Hist /\ net \in Net /\ c' = Stopped(c)
      /\ hist' = [hist EXCEPT !.wanted = FALSE, !.lost = TRUE]
      /\ IF c.sock /\ ~c'.sock THEN net' = NoNet /\ link' = NoLink
                               ELSE UNCHANGED <<net, link>>
  BY DEF Core, Stop
<1>2. /\ Same(c', c, {"state", "sock", "keepAliveIn", "reconnectIn",
                      "writeFinished", "poll"})
      /\ c'.sock = FALSE
  BY <1>1, StoppedFields
<1>3. /\ c'.messages = c.messages /\ c'.tiles = c.tiles
      /\ c'.sentTyping = c.sentTyping
  BY <1>2 DEF Same, Fields
<1>4. net'.toServer = <<>> /\ ~link'.person
  <2>1. CASE c.sock
    BY <1>1, <1>2, <2>1 DEF NoNet, NoLink
  <2>2. CASE ~c.sock
    BY <1>1, <2>2, NothingOnLine
  <2>. QED
    BY <2>1, <2>2
<1>5. /\ hist'.said = hist.said /\ hist'.before = hist.before
      /\ hist'.moved = hist.moved /\ hist'.lost
  BY <1>1 DEF Hist
<1>. DEFINE p == Line(c, net)
            r == Line(c', net')
<1>6. DOMAIN r = {}
  BY <1>2, <1>4, EmptyLine
<1>7. Saying(c, p, link, server, hist)
  BY DEF SayInvariant
<1>. HIDE DEF p, r
<1>8. 0 \in Int /\ DOMAIN r \subseteq Int
      /\ \A i \in DOMAIN r : i + 0 \in DOMAIN p /\ r[i] = p[i + 0]
  BY <1>6
<1>9. Saying(c', r, link', server, hist')
  BY <1>3, <1>4, <1>5, <1>7, <1>8, LostSays
<1>. QED
  BY <1>9 DEF SayInvariant, r

LEMMA SetPersonIdSays ==
    ASSUME Core(c, net, link, hist), SayInvariant, SetPersonId, server' = server
    PROVE  SayInvariant'
<1>1. /\ Same(c', c, {"person", "timeout", "reconnectIn", "state",
                      "poll", "writeFinished"})
      /\ ~c.sock /\ net' = net /\ link' = link
      /\ hist'.said = hist.said /\ hist'.before = hist.before
      /\ hist'.moved = hist.moved /\ hist'.lost
  BY SetPersonIdFields
<1>2. /\ c'.sock = c.sock /\ c'.out = c.out /\ c'.messages = c.messages
      /\ c'.tiles = c.tiles /\ c'.sentTyping = c.sentTyping
  BY <1>1 DEF Same, Fields
<1>. DEFINE none == <<>>
<1>3. Line(c', net') = none /\ DOMAIN none = {} /\ ~link'.person
      /\ Saying(c, none, link, server, hist)
  BY <1>1, <1>2, NothingOnLine DEF SayInvariant, Line
<1>. HIDE DEF none
<1>4. 0 \in Int /\ DOMAIN none \subseteq Int
      /\ \A i \in DOMAIN none : i + 0 \in DOMAIN none /\ none[i] = none[i + 0]
  BY <1>3
<1>5. Saying(c', none, link', server, hist')
  BY <1>1, <1>2, <1>3, <1>4, LostSays
<1>. QED
  BY <1>3, <1>5 DEF SayInvariant

LEMMA ResetSays ==
    ASSUME Core(c, net, link, hist), SayInvariant, server \in Server, Reset,
           server' = server
    PROVE  SayInvariant'
<1>1. /\ c \in Conn /\ hist \in Hist
      /\ c' = ResetClient(c) /\ net' = NoNet /\ link' = NoLink
      /\ hist' = [NoHist EXCEPT !.before = hist.said, !.said = hist.said]
  BY DEF Core, Reset
<1>2. /\ c'.sock = FALSE /\ c'.person = NoPerson /\ c'.messages = <<>>
      /\ c'.tiles = <<>> /\ c'.sentTyping = FALSE
  BY <1>1, ResetClientFields
<1>3. net'.toServer = <<>> /\ ~link'.person
  BY <1>1 DEF NoNet, NoLink
<1>4. DOMAIN Line(c', net') = {}
  BY <1>2, <1>3, EmptyLine
<1>5. /\ hist'.said = hist.said /\ hist'.before = hist.said /\ hist.said \in Nat
      /\ hist'.moved = [t \in Tile |-> Nowhere]
  BY <1>1 DEF NoHist, Hist
<1>6. /\ Ascending(server.heard)
      /\ \A i \in DOMAIN server.heard : server.heard[i] <= hist.said
  BY DEF SayInvariant, Saying, InLine
<1>7. Saying(c', Line(c', net'), link', server, hist')
  BY <1>2, <1>3, <1>4, <1>5, <1>6, FreshSays
<1>. QED
  BY <1>7 DEF SayInvariant

\* The next message waits behind the others.
LEMMA SendMessageSays ==
    ASSUME Core(c, net, link, hist), SayInvariant, SendMessage, server \in Server,
           server' = server
    PROVE  SayInvariant'
<1>. DEFINE p == Line(c, net)
            n == hist.said + 1
<1>1. /\ c \in Conn /\ hist \in Hist
  BY DEF Core
<1>2. /\ Same(c', c, {"messages", "writeFinished", "poll"})
      /\ c'.messages = Append(c.messages, n)
      /\ net' = net /\ link' = link
      /\ hist'.said = n /\ hist'.before = hist.before
      /\ hist'.moved = hist.moved /\ hist'.lost = hist.lost
  BY <1>1, SendMessageFields
<1>3. /\ c'.sock = c.sock /\ c'.out = c.out /\ c'.person = c.person
      /\ c'.tiles = c.tiles /\ c'.sentTyping = c.sentTyping
  BY <1>2 DEF Same, Fields
<1>4. Line(c', net') = p
  BY <1>2, <1>3 DEF Line
<1>5. hist.said \in Nat /\ n \in Nat /\ n = hist.said + 1 /\ hist.before \in Nat
  BY <1>1 DEF Hist
<1>6. /\ p \in Seq(ToServer) /\ server.heard \in Seq(Nat) /\ c.messages \in Seq(Nat)
  BY <1>1, LineIsSequence DEF Server, Conn
<1>. DEFINE m == c.messages
            w == c'.messages
            l == Len(m)
<1>7. /\ l \in Nat /\ DOMAIN m = 1..l /\ DOMAIN w = 1..l + 1
      /\ \A i \in 1..l : w[i] = m[i]
      /\ w[l + 1] = n
  BY <1>2, <1>5, <1>6, Appended
<1>8. /\ \A i \in DOMAIN m : m[i] \in Nat
      /\ \A i \in DOMAIN server.heard : server.heard[i] \in Nat
      /\ \A i \in DOMAIN p : Says(p[i]) => p[i].n \in Nat
  <2>1. \A i \in DOMAIN p : p[i] \in ToServer
    BY <1>6, ElementOfSeq, LenProperties
  <2>2. \A i \in DOMAIN p : Says(p[i]) => p[i].n \in Nat
    <3>. HIDE DEF p
    <3>. QED
      BY <2>1 DEF ToServer, Says
  <2>. QED
    BY <1>6, <2>2, ElementOfSeq, LenProperties
<1>9. InLine(c, p, server, hist) /\ NothingForgotten(c, p, link, server, hist)
  BY DEF SayInvariant, Saying
<1>. HIDE DEF p, n, m, w, l
<1>10. /\ hist.before <= hist.said
       /\ Ascending(server.heard) /\ Ascending(m)
       /\ \A i, j \in DOMAIN p : i < j /\ Says(p[i]) /\ Says(p[j]) => p[i].n < p[j].n
       /\ \A i \in DOMAIN server.heard : server.heard[i] <= hist.said
       /\ \A i \in DOMAIN p : Says(p[i]) => hist.before < p[i].n /\ p[i].n <= hist.said
       /\ \A i \in DOMAIN m : hist.before < m[i] /\ m[i] <= hist.said
       /\ \A i \in DOMAIN server.heard, j \in DOMAIN p :
            Says(p[j]) => server.heard[i] < p[j].n
       /\ \A i \in DOMAIN server.heard, j \in DOMAIN m : server.heard[i] < m[j]
       /\ \A i \in DOMAIN p, j \in DOMAIN m : Says(p[i]) => p[i].n < m[j]
  BY <1>9 DEF InLine, m
<1>. HIDE DEF Says
<1>11. \A i \in DOMAIN w : (i \in DOMAIN m /\ w[i] = m[i]) \/ (i = l + 1 /\ w[i] = n)
  BY <1>7
<1>12. InLine(c', p, server, hist')
  <2>1. Ascending(w)
    BY <1>5, <1>7, <1>8, <1>10, <1>11 DEF Ascending
  <2>2. \A i \in DOMAIN w : hist.before < w[i] /\ w[i] <= n
    BY <1>5, <1>8, <1>10, <1>11
  <2>3. \A i \in DOMAIN server.heard, j \in DOMAIN w : server.heard[i] < w[j]
    BY <1>5, <1>8, <1>10, <1>11
  <2>4. \A i \in DOMAIN p, j \in DOMAIN w : Says(p[i]) => p[i].n < w[j]
    BY <1>5, <1>8, <1>10, <1>11
  <2>5. /\ hist.before <= n
        /\ \A i \in DOMAIN server.heard : server.heard[i] <= n
        /\ \A i \in DOMAIN p : Says(p[i]) => hist.before < p[i].n /\ p[i].n <= n
    BY <1>5, <1>8, <1>10
  <2>6. hist'.said = n /\ hist'.before = hist.before /\ c'.messages = w
    BY <1>2 DEF w
  <2>. QED
    BY <1>10, <2>1, <2>2, <2>3, <2>4, <2>5, <2>6 DEF InLine
<1>13. ASSUME ~hist'.lost, Listening(c', link', server)
       PROVE  /\ AllSaid(c', p, KnownHeard(c', link', server), hist')
              /\ \A t \in Tile :
                   LastMove(c', p, t, KnownPlace(c', link', server, t), hist')
              /\ LastTyping(c', p, KnownTyping(c', link', server),
                            KnownLeft(c', link', server))
  <2>1. ~hist.lost /\ Listening(c, link, server)
    BY <1>2, <1>3, <1>13 DEF Listening
  <2>2. /\ AllSaid(c, p, KnownHeard(c, link, server), hist)
        /\ \A t \in Tile : LastMove(c, p, t, KnownPlace(c, link, server, t), hist)
        /\ LastTyping(c, p, KnownTyping(c, link, server), KnownLeft(c, link, server))
    BY <1>9, <2>1 DEF NothingForgotten
  <2>. DEFINE heard == KnownHeard(c, link, server)
  <2>3. /\ KnownHeard(c', link', server) = heard
        /\ \A t \in Tile :
             KnownPlace(c', link', server, t) = KnownPlace(c, link, server, t)
        /\ KnownTyping(c', link', server) = KnownTyping(c, link, server)
        /\ KnownLeft(c', link', server) = KnownLeft(c, link, server)
    BY <1>2, <1>3 DEF KnownHeard, KnownPlace, KnownTyping, KnownLeft, Fresh
  <2>4. AllSaid(c', p, heard, hist')
    <3>. HIDE DEF heard
    <3>1. /\ \A i \in DOMAIN heard : heard[i] > hist.before
          /\ \A j \in hist.before + 1..hist.said :
               \/ \E i \in DOMAIN heard : heard[i] = j
               \/ \E i \in DOMAIN p : Says(p[i]) /\ p[i].n = j
               \/ \E i \in DOMAIN m : m[i] = j
      BY <2>2 DEF AllSaid, m, heard
    <3>2. \A j \in DOMAIN m : j \in DOMAIN w /\ w[j] = m[j]
      BY <1>7
    <3>3. l + 1 \in DOMAIN w /\ w[l + 1] = n
      BY <1>7
    <3>4. \A j \in hist.before + 1..n : j \in hist.before + 1..hist.said \/ j = n
      BY <1>5
    <3>5. \A j \in hist.before + 1..n :
               \/ \E i \in DOMAIN heard : heard[i] = j
               \/ \E i \in DOMAIN p : Says(p[i]) /\ p[i].n = j
               \/ \E i \in DOMAIN w : w[i] = j
      BY <3>1, <3>2, <3>3, <3>4
    <3>6. hist'.said = n /\ hist'.before = hist.before /\ c'.messages = w
      BY <1>2 DEF w
    <3>. QED
      BY <3>1, <3>5, <3>6 DEF AllSaid
  <2>5. ASSUME NEW t \in Tile
        PROVE  LastMove(c', p, t, KnownPlace(c, link, server, t), hist')
    <3>1. LastMove(c, p, t, KnownPlace(c, link, server, t), hist)
      BY <2>2
    <3>. QED
      BY <1>2, <1>3, <3>1, SameLastMove
  <2>6. LastTyping(c', p, KnownTyping(c, link, server), KnownLeft(c, link, server))
    BY <1>3, <2>2 DEF LastTyping
  <2>. QED
    BY <2>3, <2>4, <2>5, <2>6
<1>. QED
  BY <1>2, <1>4, <1>12, <1>13 DEF SayInvariant, Saying, NothingForgotten

\* The last move of a tile takes the place of one that waits, or waits itself.
Displaced(w, tiles, t, p) ==
    /\ \E i \in DOMAIN w : w[i].num = t
    /\ \A i \in DOMAIN w : w[i].num = t => w[i].place = p
    /\ \A i \in DOMAIN w : w[i].num # t => i \in DOMAIN tiles /\ w[i] = tiles[i]
    /\ \A i \in DOMAIN tiles : tiles[i].num # t => i \in DOMAIN w /\ w[i] = tiles[i]

LEMMA MovesAfterFields ==
    ASSUME NEW tiles \in Seq([num : Tile, place : Place]), NEW t \in Tile,
           NEW p \in Place
    PROVE  Displaced(MovesAfter(tiles, t, p), tiles, t, p)
<1>. DEFINE at == {i \in DOMAIN tiles : tiles[i].num = t}
            move == [num |-> t, place |-> p]
            Move == [num : Tile, place : Place]
            w == MovesAfter(tiles, t, p)
<1>1. move \in Move /\ move.num = t /\ move.place = p
  OBVIOUS
<1>2. w = IF at = {} THEN Append(tiles, move)
          ELSE [i \in DOMAIN tiles |-> IF i \in at THEN move ELSE tiles[i]]
  BY DEF MovesAfter
<1>3. \A i \in DOMAIN tiles : i \in at <=> tiles[i].num = t
  OBVIOUS
<1>4. at \subseteq DOMAIN tiles
  OBVIOUS
<1>. HIDE DEF move, w, at
<1>5. CASE at = {}
  <2>. DEFINE n == Len(tiles)
  <2>1. /\ n \in Nat /\ DOMAIN tiles = 1..n /\ DOMAIN w = 1..n + 1
        /\ \A i \in 1..n : w[i] = tiles[i]
        /\ w[n + 1] = move
    BY <1>1, <1>2, <1>5, Appended
  <2>. HIDE DEF n
  <2>2. \A i \in DOMAIN tiles : tiles[i].num # t
    BY <1>3, <1>5
  <2>3. \A i \in DOMAIN w : (i \in DOMAIN tiles /\ w[i] = tiles[i]) \/ w[i] = move
    BY <2>1
  <2>4. n + 1 \in DOMAIN w /\ w[n + 1] = move
    BY <2>1
  <2>5. \A i \in DOMAIN tiles : i \in DOMAIN w /\ w[i] = tiles[i]
    BY <2>1
  <2>. QED
    BY <1>1, <2>2, <2>3, <2>4, <2>5 DEF w, Displaced
<1>6. CASE at # {}
  <2>1. /\ DOMAIN w = DOMAIN tiles
        /\ \A i \in DOMAIN w : w[i] = IF i \in at THEN move ELSE tiles[i]
    BY <1>2, <1>6
  <2>2. PICK i \in at : TRUE
    BY <1>6
  <2>3. i \in DOMAIN w /\ w[i] = move
    BY <1>4, <2>1, <2>2
  <2>. QED
    BY <1>1, <1>3, <2>1, <2>3 DEF w, Displaced
<1>. QED
  BY <1>5, <1>6

LEMMA MoveTileSays ==
    ASSUME Core(c, net, link, hist), SayInvariant, NEW t \in Tile, NEW at \in Place,
           MoveTile(t, at), server' = server
    PROVE  SayInvariant'
<1>. DEFINE p == Line(c, net)
<1>1. c \in Conn /\ hist \in Hist /\ c.tiles \in Seq([num : Tile, place : Place])
  BY DEF Core, Conn
<1>2. /\ Same(c', c, {"tiles", "writeFinished", "poll"})
      /\ c'.tiles = MovesAfter(c.tiles, t, at)
      /\ net' = net /\ link' = link
      /\ hist'.moved = [hist.moved EXCEPT ![t] = at]
      /\ hist'.said = hist.said /\ hist'.before = hist.before
      /\ hist'.lost = hist.lost
  BY <1>1, MoveTileFields
<1>3. /\ c'.sock = c.sock /\ c'.out = c.out /\ c'.person = c.person
      /\ c'.messages = c.messages /\ c'.sentTyping = c.sentTyping
  BY <1>2 DEF Same, Fields
<1>4. Line(c', net') = p
  BY <1>2, <1>3 DEF Line
<1>5. /\ \E i \in DOMAIN c'.tiles : c'.tiles[i].num = t
      /\ \A i \in DOMAIN c'.tiles : c'.tiles[i].num = t => c'.tiles[i].place = at
      /\ \A i \in DOMAIN c'.tiles :
           c'.tiles[i].num # t => i \in DOMAIN c.tiles /\ c'.tiles[i] = c.tiles[i]
      /\ \A i \in DOMAIN c.tiles :
           c.tiles[i].num # t => i \in DOMAIN c'.tiles /\ c'.tiles[i] = c.tiles[i]
  <2>1. Displaced(MovesAfter(c.tiles, t, at), c.tiles, t, at)
    BY <1>1, MovesAfterFields
  <2>2. Displaced(c'.tiles, c.tiles, t, at)
    BY <1>2, <2>1
  <2>. QED
    BY <2>2 DEF Displaced
<1>6. /\ hist'.moved[t] = at
      /\ \A u \in Tile : u # t => hist'.moved[u] = hist.moved[u]
  BY <1>1, <1>2 DEF Hist, Places
<1>7. InLine(c, p, server, hist) /\ NothingForgotten(c, p, link, server, hist)
  BY DEF SayInvariant, Saying
<1>. HIDE DEF p
<1>8. InLine(c', p, server, hist')
  BY <1>2, <1>3, <1>7 DEF InLine
<1>9. ASSUME ~hist'.lost, Listening(c', link', server)
      PROVE  /\ AllSaid(c', p, KnownHeard(c', link', server), hist')
             /\ \A u \in Tile :
                  LastMove(c', p, u, KnownPlace(c', link', server, u), hist')
             /\ LastTyping(c', p, KnownTyping(c', link', server),
                           KnownLeft(c', link', server))
  <2>1. ~hist.lost /\ Listening(c, link, server)
    BY <1>2, <1>3, <1>9 DEF Listening
  <2>2. /\ AllSaid(c, p, KnownHeard(c, link, server), hist)
        /\ \A u \in Tile : LastMove(c, p, u, KnownPlace(c, link, server, u), hist)
        /\ LastTyping(c, p, KnownTyping(c, link, server), KnownLeft(c, link, server))
    BY <1>7, <2>1 DEF NothingForgotten
  <2>3. /\ KnownHeard(c', link', server) = KnownHeard(c, link, server)
        /\ \A u \in Tile :
             KnownPlace(c', link', server, u) = KnownPlace(c, link, server, u)
        /\ KnownTyping(c', link', server) = KnownTyping(c, link, server)
        /\ KnownLeft(c', link', server) = KnownLeft(c, link, server)
    BY <1>2, <1>3 DEF KnownHeard, KnownPlace, KnownTyping, KnownLeft, Fresh
  <2>4. AllSaid(c', p, KnownHeard(c, link, server), hist')
    BY <1>2, <1>3, <2>2 DEF AllSaid
  <2>5. ASSUME NEW u \in Tile, NEW known, LastMove(c, p, u, known, hist)
        PROVE  LastMove(c', p, u, known, hist')
    <3>. HIDE DEF Moves
    <3>1. CASE u = t
      <4>1. Waits(c', u)
        BY <1>5, <3>1 DEF Waits
      <4>2. \A i \in DOMAIN c'.tiles :
              c'.tiles[i].num = u => c'.tiles[i].place = hist'.moved[u]
        BY <1>5, <1>6, <3>1
      <4>. QED
        BY <4>1, <4>2 DEF LastMove
    <3>2. CASE u # t
      <4>1. Waits(c', u) <=> Waits(c, u)
        BY <1>5, <3>2 DEF Waits
      <4>2. hist'.moved[u] = hist.moved[u]
        BY <1>6, <3>2
      <4>3. \A i \in DOMAIN c'.tiles :
              c'.tiles[i].num = u => c'.tiles[i].place = hist'.moved[u]
        BY <1>5, <2>5, <3>2, <4>2 DEF LastMove
      <4>. QED
        BY <2>5, <4>1, <4>2, <4>3 DEF LastMove
    <3>. QED
      BY <3>1, <3>2
  <2>6. LastTyping(c', p, KnownTyping(c, link, server), KnownLeft(c, link, server))
    BY <1>3, <2>2 DEF LastTyping
  <2>7. ASSUME NEW u \in Tile
        PROVE  LastMove(c', p, u, KnownPlace(c, link, server, u), hist')
    BY <2>2, <2>5
  <2>. QED
    BY <2>3, <2>4, <2>6, <2>7
<1>. QED
  BY <1>2, <1>4, <1>8, <1>9 DEF SayInvariant, Saying, NothingForgotten

LEMMA ApplicationSays ==
    ASSUME Core(c, net, link, hist), SayInvariant, server \in Server, Application
    PROVE  SayInvariant'
<1>1. c \in Conn /\ hist \in Hist /\ server' = server
  BY DEF Core, Application
<1>2. CASE SetAddress \/ SetPlayerName \/ Start
  <2>1. /\ Same(c', c, {"address", "name", "timeout", "reconnectIn", "state",
                        "poll", "writeFinished"})
        /\ net' = net /\ link' = link
        /\ hist'.said = hist.said /\ hist'.before = hist.before
        /\ hist'.moved = hist.moved /\ hist'.lost = hist.lost
    BY <1>2, ConfigureFields
  <2>2. /\ c'.sock = c.sock /\ c'.out = c.out /\ c'.person = c.person
        /\ c'.messages = c.messages /\ c'.tiles = c.tiles
        /\ c'.sentTyping = c.sentTyping
    BY <2>1 DEF Same, Fields
  <2>. QED
    BY <1>1, <2>1, <2>2, QuietSays
<1>3. CASE SetTyping
  <2>1. /\ Same(c', c, {"typing", "writeFinished", "poll"})
        /\ net' = net /\ link' = link /\ hist' = hist
    BY <1>1, <1>3, SetTypingFields
  <2>2. /\ c'.sock = c.sock /\ c'.out = c.out /\ c'.person = c.person
        /\ c'.messages = c.messages /\ c'.tiles = c.tiles
        /\ c'.sentTyping = c.sentTyping
    BY <2>1 DEF Same, Fields
  <2>. QED
    BY <1>1, <2>1, <2>2, QuietSays
<1>4. CASE SetFlag \/ Leave
  <2>1. PICK flag \in {"N_TILES", "LEAVE"} :
          /\ c' = UpdatePoll([c EXCEPT !.dirty = @ \cup {flag}])
          /\ net' = net /\ link' = link /\ hist' = hist
    BY <1>4 DEF SetFlag, Leave
  <2>2. Same(c', c, {"dirty", "writeFinished", "poll"})
    BY <1>1, <2>1, SetDirtyFields
  <2>3. /\ c'.sock = c.sock /\ c'.out = c.out /\ c'.person = c.person
        /\ c'.messages = c.messages /\ c'.tiles = c.tiles
        /\ c'.sentTyping = c.sentTyping
    BY <2>2 DEF Same, Fields
  <2>. QED
    BY <1>1, <2>1, <2>3, QuietSays
<1>. QED
  BY <1>1, <1>2, <1>3, <1>4, StopSays, ResetSays, SetPersonIdSays, SendMessageSays,
     MoveTileSays DEF Application

\* The first frame of the line tells the server nothing of what the player does.
LEMMA HeaderSays ==
    ASSUME NEW k, NEW p, NEW r, NEW lk, NEW mk, NEW sv, NEW sw, NEW hs,
           Saying(k, p, lk, sv, hs), Shorter(r, p),
           ~Says(p[1]), ~Types(p[1]), p[1].type \notin {"LEAVE", "MOVE_TILE"},
           Listening(k, mk, sw) => Listening(k, lk, sv),
           sw.heard = sv.heard \/ sw.heard = <<>>,
           KnownHeard(k, mk, sw) = KnownHeard(k, lk, sv),
           \A t \in Tile : KnownPlace(k, mk, sw, t) = KnownPlace(k, lk, sv, t),
           KnownTyping(k, mk, sw) = KnownTyping(k, lk, sv),
           KnownLeft(k, mk, sw) = KnownLeft(k, lk, sv)
    PROVE  Saying(k, r, mk, sw, hs)
<1>1. InLine(k, r, sw, hs)
  <2>1. /\ DOMAIN r \subseteq Int
        /\ \A i \in DOMAIN r : i + 1 \in DOMAIN p /\ r[i] = p[i + 1]
    BY DEF Shorter
  <2>2. InLine(k, p, sv, hs) /\ 1 \in Int
    BY DEF Saying
  <2>. QED
    BY <2>1, <2>2, PartStaysInLine
<1>2. SUFFICES ASSUME ~hs.lost, Listening(k, mk, sw)
               PROVE  /\ AllSaid(k, r, KnownHeard(k, lk, sv), hs)
                      /\ \A t \in Tile : LastMove(k, r, t, KnownPlace(k, lk, sv, t), hs)
                      /\ LastTyping(k, r, KnownTyping(k, lk, sv), KnownLeft(k, lk, sv))
  BY <1>1 DEF Saying, NothingForgotten
<1>3. /\ AllSaid(k, p, KnownHeard(k, lk, sv), hs)
      /\ \A t \in Tile : LastMove(k, p, t, KnownPlace(k, lk, sv, t), hs)
      /\ LastTyping(k, p, KnownTyping(k, lk, sv), KnownLeft(k, lk, sv))
  BY <1>2 DEF Saying, NothingForgotten
<1>4. AllSaid(k, r, KnownHeard(k, lk, sv), hs)
  BY <1>3, MessageIsHeard
<1>5. ASSUME NEW t \in Tile PROVE LastMove(k, r, t, KnownPlace(k, lk, sv, t), hs)
  <2>. DEFINE known == KnownPlace(k, lk, sv, t)
  <2>1. LastMove(k, p, t, known, hs) /\ ~Moves(p[1], t)
    BY <1>3 DEF Moves
  <2>. HIDE DEF known
  <2>2. LastMove(k, r, t, IF Moves(p[1], t) THEN p[1].place ELSE known, hs)
    BY <2>1, MoveIsHeard
  <2>. QED
    BY <2>1, <2>2 DEF known
<1>6. LastTyping(k, r, KnownTyping(k, lk, sv), KnownLeft(k, lk, sv))
  <2>. DEFINE typing == KnownTyping(k, lk, sv)
              gone == KnownLeft(k, lk, sv)
  <2>1. LastTyping(k, p, typing, gone) /\ gone = (gone \/ p[1].type = "LEAVE")
    BY <1>3 DEF KnownLeft
  <2>. HIDE DEF typing, gone
  <2>2. LastTyping(k, r, typing, gone)
    BY <2>1, TypingIsHeard
  <2>. QED
    BY <2>2 DEF typing, gone
<1>. QED
  BY <1>4, <1>5, <1>6

\* A command of a player that the server listens to.
LEMMA CommandSays ==
    ASSUME server \in Server, NEW k, NEW p, NEW r, NEW lk, NEW hs,
           Saying(k, p, lk, server, hs), Shorter(r, p), lk.person,
           p[1] \in ToServer, p[1].type \in Commands
    PROVE  Saying(k, r, lk, Heard(p[1]), hs)
<1>. DEFINE f == p[1]
            sw == Heard(f)
<1>1. /\ sw.heard = IF f.type = "SEND_MESSAGE" THEN Append(server.heard, f.n)
                    ELSE server.heard
      /\ sw.place = IF f.type = "MOVE_TILE"
                      THEN [server.place EXCEPT ![f.tile] = f.place]
                      ELSE server.place
      /\ sw.left = (server.left \/ f.type = "LEAVE")
      /\ sw.typing = IF f.type = "TYPING" THEN f.on /\ ~server.left
                     ELSE IF f.type \in {"SEND_MESSAGE", "LEAVE"} THEN FALSE
                     ELSE server.typing
  BY HeardFields
<1>2. InLine(k, p, server, hs) /\ NothingForgotten(k, p, lk, server, hs)
  BY DEF Saying
<1>3. f \in ToServer /\ 1 \in DOMAIN p
  BY DEF Shorter
<1>. HIDE DEF f, sw
<1>4. ASSUME Says(f)
      PROVE  Longer(sw.heard, server.heard, f.n) /\ hs.before < f.n
  <2>1. f.n \in Nat
    BY <1>3, <1>4 DEF ToServer, Says
  <2>2. server.heard \in Seq(Nat)
    BY DEF Server
  <2>3. sw.heard = Append(server.heard, f.n)
    BY <1>1, <1>4 DEF Says
  <2>4. Longer(sw.heard, server.heard, f.n)
    BY <2>1, <2>2, <2>3, Appended DEF Longer
  <2>5. hs.before < f.n
    BY <1>2, <1>3, <1>4 DEF InLine, f
  <2>. QED
    BY <2>4, <2>5
<1>5. ~Says(f) => sw.heard = server.heard
  BY <1>1 DEF Says
<1>6. InLine(k, r, sw, hs)
  <2>1. CASE Says(f)
    BY <1>2, <1>4, <2>1, MessageIsHeardInLine DEF f
  <2>2. CASE ~Says(f)
    <3>1. /\ DOMAIN r \subseteq Int
          /\ \A i \in DOMAIN r : i + 1 \in DOMAIN p /\ r[i] = p[i + 1]
      BY DEF Shorter
    <3>2. 1 \in Int
      OBVIOUS
    <3>. QED
      BY <1>2, <1>5, <2>2, <3>1, <3>2, PartStaysInLine
  <2>. QED
    BY <2>1, <2>2
<1>7. ~Fresh(k, lk)
  BY DEF Fresh
<1>8. /\ KnownHeard(k, lk, sw) = sw.heard /\ KnownHeard(k, lk, server) = server.heard
      /\ KnownTyping(k, lk, sw) = (sw.typing = TRUE)
      /\ KnownLeft(k, lk, sw) = (sw.left = TRUE)
      /\ KnownTyping(k, lk, server) = (server.typing = TRUE)
      /\ KnownLeft(k, lk, server) = (server.left = TRUE)
      /\ \A t \in Tile : KnownPlace(k, lk, sw, t) = sw.place[t]
      /\ \A t \in Tile : KnownPlace(k, lk, server, t) = server.place[t]
  BY <1>1, <1>7 DEF KnownHeard, KnownTyping, KnownLeft, KnownPlace, Server
<1>9. ASSUME ~hs.lost
      PROVE  /\ AllSaid(k, p, server.heard, hs)
             /\ \A t \in Tile : LastMove(k, p, t, server.place[t], hs)
             /\ LastTyping(k, p, server.typing = TRUE, server.left = TRUE)
  BY <1>2, <1>8, <1>9 DEF NothingForgotten, Listening
<1>10. ASSUME ~hs.lost PROVE AllSaid(k, r, sw.heard, hs)
  BY <1>4, <1>5, <1>9, <1>10, MessageIsHeard DEF f
<1>11. ASSUME ~hs.lost, NEW t \in Tile PROVE LastMove(k, r, t, sw.place[t], hs)
  <2>1. sw.place[t] = IF Moves(f, t) THEN f.place ELSE server.place[t]
    <3>1. server.place \in Places
      BY DEF Server
    <3>2. f.type = "MOVE_TILE" => f.tile \in Tile
      BY <1>3 DEF ToServer
    <3>. QED
      BY <1>1, <3>1, <3>2 DEF Moves, Places
  <2>2. LastMove(k, p, t, server.place[t], hs)
    BY <1>9, <1>11
  <2>3. LastMove(k, r, t, IF Moves(f, t) THEN f.place ELSE server.place[t], hs)
    BY <2>2, MoveIsHeard DEF f
  <2>. QED
    BY <2>1, <2>3
<1>12. ASSUME ~hs.lost PROVE LastTyping(k, r, sw.typing = TRUE, sw.left = TRUE)
  <2>. DEFINE typing == server.typing = TRUE
              gone == server.left = TRUE
              now == sw.typing = TRUE
              over == sw.left = TRUE
  <2>1. LastTyping(k, p, typing, gone)
    BY <1>9, <1>12
  <2>2. f.type = "TYPING" => f.on \in BOOLEAN
    BY <1>3 DEF ToServer
  <2>3. over = (gone \/ f.type = "LEAVE")
    BY <1>1 DEF Server
  <2>4. Types(f) /\ ~gone => now = (f.type = "TYPING" /\ f.on)
    BY <1>1, <2>2 DEF Types, Server
  <2>5. ~Types(f) /\ f.type # "LEAVE" => now = typing
    BY <1>1 DEF Types
  <2>. HIDE DEF typing, gone, now, over
  <2>6. LastTyping(k, r, now, over)
    BY <2>1, <2>3, <2>4, <2>5, TypingIsHeard DEF f
  <2>. QED
    BY <2>6 DEF now, over
<1>. QED
  BY <1>6, <1>8, <1>10, <1>11, <1>12 DEF Saying, NothingForgotten, f, sw

LEMMA ServerReadsSays ==
    ASSUME Core(c, net, link, hist), Talk(c, net, link, server, hist), SayInvariant,
           server \in Server, ServerReads
    PROVE  SayInvariant'
<1>. DEFINE f == Head(net.toServer)
            p == net.toServer \o c.out
            r == Tail(net.toServer) \o c.out
<1>1. /\ \/ ReadsHandshake(f) \/ ReadsNewPlayer(f) \/ ReadsReconnect(f)
         \/ ReadsStranger(f) \/ ReadsCommand(f) \/ ReadsInVain(f)
      /\ c.sock /\ net.st = "UP" /\ c' = c /\ hist' = hist
      /\ net' = [net EXCEPT !.toServer = Tail(net.toServer)]
  BY ReadsInTurn
<1>2. /\ c \in Conn /\ net \in Net /\ link \in Link
      /\ Tellings(c, net.toClient, 1, link, server)
      /\ net.toServer \in Seq(ToServer) /\ net.toServer # <<>>
      /\ c.out \in Seq(ToServer)
  BY DEF Core, Talk, ServerReads, Net, Conn
<1>3. /\ p \in Seq(ToServer) /\ r \in Seq(ToServer) /\ f \in ToServer
      /\ Len(r) \in Nat /\ Len(p) = Len(r) + 1 /\ p[1] = f
      /\ \A i \in 1..Len(r) : r[i] = p[i + 1]
  BY <1>2, TailOfLine
<1>4. Shorter(r, p)
  <2>1. DOMAIN p = 1..Len(p) /\ DOMAIN r = 1..Len(r)
    BY <1>3, LenProperties
  <2>. HIDE DEF p, r
  <2>. QED
    BY <1>3, <2>1 DEF Shorter
<1>5. Line(c', net') = r /\ Line(c, net) = p
  <2>1. net'.toServer = Tail(net.toServer)
    BY <1>1, <1>2 DEF Net
  <2>. QED
    BY <1>1, <2>1 DEF Line
<1>6. Saying(c, p, link, server, hist)
  BY <1>5 DEF SayInvariant
<1>. HIDE DEF f, p, r
<1>7. SUFFICES Saying(c, r, link', server', hist)
  BY <1>1, <1>5 DEF SayInvariant
<1>8. CASE ReadsCommand(f)
  <2>1. server' = Heard(p[1]) /\ link' = link /\ link.person /\ p[1].type \in Commands
        /\ p[1] \in ToServer
    BY <1>3, <1>8 DEF ReadsCommand
  <2>2. Saying(c, r, link, Heard(p[1]), hist)
    BY <1>4, <1>6, <2>1, CommandSays
  <2>. QED
    BY <2>1, <2>2
<1>9. CASE ReadsStranger(f) \/ ReadsInVain(f)
  <2>1. /\ server' = server /\ ~link'.person
        /\ c.person # NoPerson /\ (c.person # server.person \/ ~server.known)
    <3>1. CASE ReadsStranger(f)
      BY <1>2, <3>1 DEF ReadsStranger, Link, Greeted
    <3>2. CASE ReadsInVain(f)
      <4>1. c.person # NoPerson /\ (c.person # server.person \/ ~server.known)
        BY <1>2, <3>2 DEF ReadsInVain, Tellings
      <4>2. ~link'.person
        BY <1>2, <3>2 DEF ReadsInVain, Link
      <4>. QED
        BY <3>2, <4>1, <4>2 DEF ReadsInVain
    <3>. QED
      BY <1>9, <3>1, <3>2
  <2>2. ~Listening(c, link', server')
    BY <2>1 DEF Listening
  <2>3. InLine(c, r, server, hist)
    <3>1. /\ DOMAIN r \subseteq Int
          /\ \A i \in DOMAIN r : i + 1 \in DOMAIN p /\ r[i] = p[i + 1]
      BY <1>4 DEF Shorter
    <3>2. InLine(c, p, server, hist) /\ 1 \in Int
      BY <1>6 DEF Saying
    <3>. QED
      BY <3>1, <3>2, PartStaysInLine
  <2>. QED
    BY <2>1, <2>2, <2>3 DEF Saying, NothingForgotten
<1>10. CASE ReadsHandshake(f) \/ ReadsNewPlayer(f) \/ ReadsReconnect(f)
  <2>1. ~Says(p[1]) /\ ~Types(p[1]) /\ p[1].type \notin {"LEAVE", "MOVE_TILE"}
    <3>1. f.type \in {"WS_HEADER", "NEW_PLAYER", "RECONNECT"}
      BY <1>10 DEF ReadsHandshake, ReadsNewPlayer, ReadsReconnect, WsHeader, Header
    <3>. QED
      BY <1>3, <3>1 DEF Says, Types
  <2>2. /\ Listening(c, link', server') => Listening(c, link, server)
        /\ server'.heard = server.heard \/ server'.heard = <<>>
        /\ KnownHeard(c, link', server') = KnownHeard(c, link, server)
        /\ \A t \in Tile :
             KnownPlace(c, link', server', t) = KnownPlace(c, link, server, t)
        /\ KnownTyping(c, link', server') = KnownTyping(c, link, server)
        /\ KnownLeft(c, link', server') = KnownLeft(c, link, server)
    <3>1. CASE ReadsHandshake(f)
      <4>1. server' = server /\ link'.person = link.person
        BY <1>2, <3>1 DEF ReadsHandshake, Link
      <4>. QED
        BY <4>1 DEF Listening, KnownHeard, KnownPlace, KnownTyping, KnownLeft, Fresh
    <3>2. CASE ReadsNewPlayer(f)
      <4>1. c.person = NoPerson /\ ~link.person /\ link'.person
            /\ server'.heard = <<>> /\ server'.typing = FALSE /\ server'.left = FALSE
            /\ server'.place = [t \in Tile |-> Nowhere]
        BY <1>2, <3>2 DEF ReadsNewPlayer, Link, Greeted, NewPerson
      <4>. QED
        BY <4>1 DEF Listening, KnownHeard, KnownPlace, KnownTyping, KnownLeft, Fresh
    <3>3. CASE ReadsReconnect(f)
      <4>1. c.person # NoPerson /\ c.person = server.person /\ server.known
            /\ server'.heard = server.heard /\ server'.typing = server.typing
            /\ server'.left = server.left /\ server'.place = server.place
        BY <3>3 DEF ReadsReconnect, Server
      <4>. QED
        BY <4>1 DEF Listening, KnownHeard, KnownPlace, KnownTyping, KnownLeft, Fresh
    <3>. QED
      BY <1>10, <3>1, <3>2, <3>3
  <2>. QED
    BY <1>4, <1>6, <2>1, <2>2, HeaderSays
<1>. QED
  BY <1>1, <1>8, <1>9, <1>10

\* What the server tells, and the time, change nothing of what the player has said.
LEMMA RestSays ==
    ASSUME Core(c, net, link, hist), SayInvariant, server \in Server,
           ServerWrites \/ ServerShuts \/ OtherSays \/ Connects \/ Garbles \/ Tick
    PROVE  SayInvariant'
<1>. DEFINE p == Line(c, net)
<1>1. /\ c \in Conn /\ net \in Net /\ link \in Link /\ hist \in Hist
  BY DEF Core
<1>2. DOMAIN p \subseteq Int /\ Saying(c, p, link, server, hist)
  BY LineIsSequence DEF SayInvariant
<1>3. /\ c'.sock = c.sock /\ c'.out = c.out /\ c'.person = c.person
      /\ c'.messages = c.messages /\ c'.tiles = c.tiles
      /\ c'.sentTyping = c.sentTyping
  <2>1. CASE Tick
    <3>1. Same(c', c, {"reconnectIn", "keepAliveIn", "playerAge", "poll"})
      BY <1>1, <2>1, TickFields
    <3>. QED
      BY <3>1 DEF Same, Fields
  <2>2. CASE ~Tick
    BY <2>2 DEF ServerWrites, ServerShuts, OtherSays, Connects, Garbles
  <2>. QED
    BY <2>1, <2>2
<1>4. net'.toServer = net.toServer
  BY <1>1 DEF ServerWrites, ServerShuts, OtherSays, Connects, Garbles, Tick, Net
<1>5. link'.person = link.person
  <2>1. CASE ServerWrites
    <3>1. PICK w \in ServerTells : link' = w[2]
      BY <2>1 DEF ServerWrites
    <3>2. w[2].person = link.person
      BY <1>1, <3>1 DEF ServerTells, Link
    <3>. QED
      BY <3>1, <3>2
  <2>2. CASE ServerShuts
    BY <1>1, <2>2 DEF ServerShuts, Link
  <2>. QED
    BY <2>1, <2>2 DEF OtherSays, Connects, Garbles, Tick
<1>6. /\ hist'.said = hist.said /\ hist'.before = hist.before
      /\ hist'.moved = hist.moved /\ hist'.lost = hist.lost
  BY <1>1 DEF ServerWrites, ServerShuts, OtherSays, Connects, Garbles, Tick, Hist
<1>7. /\ server'.heard = server.heard /\ server'.place = server.place
      /\ server'.person = server.person /\ (server'.known => server.known)
      /\ (server'.typing = server.typing /\ server'.left = server.left) \/ server'.left
  <2>1. CASE Tick
    BY <2>1 DEF Tick, Server
  <2>2. CASE OtherSays
    BY <2>2 DEF OtherSays, Server
  <2>. QED
    BY <2>1, <2>2 DEF ServerWrites, ServerShuts, Connects, Garbles
<1>8. Line(c', net') = p
  BY <1>3, <1>4 DEF Line
<1>. HIDE DEF p
<1>9. Saying(c', p, link', server', hist')
  BY <1>2, <1>3, <1>5, <1>6, <1>7, SameSays
<1>. QED
  BY <1>8, <1>9 DEF SayInvariant

\* What breaks with the connection is lost; what is still in the buffer is in line.
LEMMA BreaksSays ==
    ASSUME Core(c, net, link, hist), SayInvariant, server \in Server, Breaks
    PROVE  SayInvariant'
<1>. DEFINE ts == net.toServer
            p == Line(c, net)
            r == Line(c', net')
            d == Len(ts)
<1>1. /\ c \in Conn /\ net \in Net /\ hist \in Hist /\ Wired(c, net, link)
  BY DEF Core
<1>2. c' = c /\ server' = server /\ Ended("BROKEN", c.out)
      /\ net.st \in {"CONNECTING", "UP"}
  BY DEF Breaks, Unreachable
<1>3. /\ net'.toServer = <<>> /\ link' = NoLink
      /\ hist'.before = hist.before /\ hist'.said = hist.said
      /\ hist'.moved = hist.moved
      /\ hist'.lost = (\/ hist.lost \/ net.toServer # <<>> \/ c.out # <<>>
                       \/ c.person = NoPerson)
  BY <1>1, <1>2, EndedFields
<1>4. ts \in Seq(ToServer) /\ c.out \in Seq(ToServer) /\ c.sock
  BY <1>1, <1>2 DEF Net, Conn, Wired
<1>5. p = ts \o c.out /\ r = c.out
  <2>1. Line(c', net') = <<>> \o c.out
    BY <1>2, <1>3, <1>4 DEF Line
  <2>. QED
    BY <1>4, <2>1, ConcatEmptySeq DEF Line
<1>6. /\ d \in Int /\ DOMAIN r \subseteq Int
      /\ \A i \in DOMAIN r : i + d \in DOMAIN p /\ r[i] = p[i + d]
  <2>. DEFINE q == ts \o c.out
              m == Len(c.out)
  <2>1. /\ q \in Seq(ToServer) /\ Len(q) = d + m
        /\ \A i \in 1..d + m : q[i] = IF i <= d THEN ts[i] ELSE c.out[i - d]
    BY <1>4, ConcatProperties
  <2>2. d \in Nat /\ m \in Nat /\ DOMAIN c.out = 1..m /\ DOMAIN q = 1..Len(q)
    BY <1>4, <2>1, LenProperties
  <2>. HIDE DEF q, m, d
  <2>3. ASSUME NEW i \in 1..m PROVE i + d \in 1..d + m /\ c.out[i] = q[i + d]
    <3>1. i + d \in 1..d + m /\ ~(i + d <= d) /\ (i + d) - d = i
      BY <2>2
    <3>. QED
      BY <2>1, <3>1
  <2>4. p = q /\ r = c.out
    BY <1>5 DEF q
  <2>. HIDE DEF p, r
  <2>. QED
    BY <2>1, <2>2, <2>3, <2>4
<1>7. Saying(c, p, link, server, hist) /\ ~link'.person
  BY <1>3 DEF SayInvariant, NoLink
<1>8. hist'.lost \/ (~hist.lost /\ r = p /\ c.person # NoPerson /\ c'.person = c.person)
  <2>1. ASSUME ~hist'.lost PROVE ~hist.lost /\ r = p /\ c.person # NoPerson
    <3>1. ~hist.lost /\ ts = <<>> /\ c.person # NoPerson
      BY <1>3, <2>1
    <3>2. ts \o c.out = c.out
      BY <1>4, <3>1, ConcatEmptySeq
    <3>. QED
      BY <1>5, <3>1, <3>2
  <2>. QED
    BY <1>2, <2>1
<1>9. /\ c'.messages = c.messages /\ c'.tiles = c.tiles
      /\ c'.sentTyping = c.sentTyping
      /\ hist'.said = hist.said /\ hist'.before = hist.before
      /\ hist'.moved = hist.moved
  BY <1>2, <1>3
<1>. HIDE DEF p, r, d, ts
<1>10. Saying(c', r, link', server, hist')
  BY <1>6, <1>7, <1>8, <1>9, LostSays
<1>. QED
  BY <1>2, <1>10 DEF SayInvariant, r

LEMMA InitSays ==
    Init => SayInvariant
<1>. SUFFICES ASSUME Init PROVE SayInvariant
  OBVIOUS
<1>1. /\ c.sock = FALSE /\ c.person = NoPerson
      /\ c.messages = <<>> /\ c.tiles = <<>> /\ c.sentTyping = FALSE
      /\ hist.said = 0 /\ hist.before = 0 /\ hist.moved = [t \in Tile |-> Nowhere]
      /\ server.heard = <<>>
  BY FreshClientFields
<1>2. net.toServer = <<>> /\ ~link.person
  BY DEF Init, NoNet, NoLink
<1>3. DOMAIN Line(c, net) = {} /\ DOMAIN server.heard = {}
  BY <1>1, <1>2, EmptyLine, EmptySeq
<1>4. /\ Ascending(server.heard) /\ \A i \in DOMAIN server.heard : server.heard[i] <= hist.said
  BY <1>3 DEF Ascending
<1>5. hist.said \in Nat /\ hist.before = hist.said
  BY <1>1
<1>. QED
  BY <1>1, <1>2, <1>3, <1>4, <1>5, FreshSays DEF SayInvariant

LEMMA StepSays ==
    ASSUME ClientInvariant, TalkInvariant, SayInvariant, [Next]_vars
    PROVE  SayInvariant'
<1>1. /\ Core(c, net, link, hist) /\ server \in Server
      /\ Talk(c, net, link, server, hist)
  BY DEF ClientInvariant, TalkInvariant
<1>2. CASE UNCHANGED vars \/ PollReturns
  <2>1. UNCHANGED <<c, net, link, server, hist>>
    BY <1>2 DEF vars, PollReturns
  <2>. QED
    BY <1>1, <2>1, QuietSays
<1>3. CASE Environment
  BY <1>1, <1>3, ServerReadsSays, RestSays, BreaksSays DEF Environment
<1>. QED
  BY <1>1, <1>2, <1>3, ApplicationSays, WakeUpSays DEF Next

LEMMA SayInvariantHolds ==
    Spec => [](ClientInvariant /\ TalkInvariant /\ SayInvariant)
<1>1. /\ ClientInvariant /\ TalkInvariant /\ SayInvariant /\ [Next]_vars
           => ClientInvariant' /\ TalkInvariant' /\ SayInvariant'
  BY StepSound, StepTalks, StepSays
<1>. QED
  BY <1>1, InitSound, InitTalks, InitSays, PTL DEF Spec

\* Numbers that ascend, and are all those from one to another, count up.
LEMMA CountsUp ==
    ASSUME NEW s \in Seq(Nat), Ascending(s), NEW a \in Nat, NEW b \in Nat, a <= b,
           \A i \in DOMAIN s : s[i] > a /\ s[i] <= b,
           \A m \in a + 1..b : \E i \in DOMAIN s : s[i] = m
    PROVE  s = [i \in 1..b - a |-> a + i]
<1>. DEFINE n == Len(s)
<1>1. /\ n \in Nat /\ DOMAIN s = 1..n /\ \A i \in 1..n : s[i] \in Nat
      /\ s = [i \in 1..n |-> s[i]]
  BY LenProperties, ElementOfSeq
<1>2. \A i, j \in 1..n : i < j => s[i] < s[j]
  BY <1>1 DEF Ascending
<1>0. \A i \in 1..n : s[i] \in Nat /\ s[i] > a /\ s[i] <= b
  BY <1>1
<1>. HIDE DEF n
<1>3. ASSUME NEW i \in 1..n, s[i] # a + i PROVE FALSE
  <2>. DEFINE S == {j \in 1..n : s[j] # a + j}
  <2>1. PICK l \in S : \A j \in S : l <= j
    <3>1. S \subseteq Nat /\ i \in S
      BY <1>1, <1>3
    <3>. HIDE DEF S
    <3>. QED
      BY <3>1, LeastNatural
  <2>2. /\ l \in 1..n /\ s[l] # a + l /\ s[l] \in Nat
        /\ \A j \in 1..n : j < l => s[j] = a + j
    BY <1>1, <2>1
  <2>. HIDE DEF S
  <2>3. s[l] >= a + l
    <3>1. CASE l = 1
      BY <1>0, <2>2, <3>1
    <3>2. CASE l # 1
      <4>1. l - 1 \in 1..n /\ l - 1 < l
        BY <1>1, <2>2, <3>2
      <4>2. s[l - 1] = a + (l - 1) /\ s[l - 1] < s[l]
        BY <1>2, <2>2, <4>1
      <4>. QED
        BY <2>2, <4>2
    <3>. QED
      BY <3>1, <3>2
  <2>4. a + l < s[l] /\ s[l] <= b
    <3>1. s[l] <= b /\ l \in Nat
      BY <1>0, <1>1, <2>2
    <3>. QED
      BY <2>2, <2>3, <3>1
  <2>5. a + l \in a + 1..b
    BY <1>1, <2>2, <2>4
  <2>6. PICK g \in 1..n : s[g] = a + l
    BY <1>1, <2>5
  <2>7. CASE g < l
    <3>1. s[g] = a + g
      BY <2>2, <2>7
    <3>. QED
      BY <1>1, <2>2, <2>6, <2>7, <3>1
  <2>8. CASE g = l
    BY <2>2, <2>6, <2>8
  <2>9. CASE g > l
    <3>1. s[l] < s[g]
      BY <1>2, <2>2, <2>9
    <3>. QED
      BY <2>2, <2>4, <2>6, <3>1
  <2>. QED
    BY <1>1, <2>2, <2>7, <2>8, <2>9
<1>4. n = b - a
  <2>1. n <= b - a
    <3>1. CASE n = 0
      BY <3>1
    <3>2. CASE n # 0
      <4>1. n \in 1..n
        BY <1>1, <3>2
      <4>2. s[n] = a + n /\ s[n] <= b
        BY <1>1, <1>3, <4>1
      <4>. QED
        BY <1>1, <4>2
    <3>. QED
      BY <3>1, <3>2
  <2>2. ASSUME n < b - a PROVE FALSE
    <3>1. a + (n + 1) \in a + 1..b
      BY <1>1, <2>2
    <3>2. PICK g \in 1..n : s[g] = a + (n + 1)
      BY <1>1, <3>1
    <3>3. s[g] = a + g
      BY <1>3
    <3>. QED
      BY <1>1, <3>2, <3>3
  <2>. QED
    BY <1>1, <2>1, <2>2
<1>5. [i \in 1..n |-> s[i]] = [i \in 1..n |-> a + i]
  BY <1>3
<1>. QED
  BY <1>1, <1>4, <1>5

\* What the player has done is heard once nothing is left to write and nothing on
\* its way.
LEMMA AllIsHeard ==
    ASSUME ClientInvariant, TalkInvariant, SayInvariant
    PROVE  DoneIsHeard
<1>1. SUFFICES ASSUME Settled
               PROVE  /\ server.typing = c.typing
                      /\ server.heard = [i \in 1..hist.said - hist.before
                                           |-> hist.before + i]
                      /\ server.place = hist.moved
  BY DEF DoneIsHeard
<1>2. /\ ~hist.lost /\ c.sock /\ link.person /\ ~server.left
      /\ net.toServer = <<>> /\ ~HasPendingData(c)
  BY <1>1 DEF Settled
<1>3. /\ c.out = <<>> /\ c.tiles = <<>> /\ c.messages = <<>>
      /\ c.sentTyping = c.typing
  BY <1>2 DEF HasPendingData
<1>4. /\ c \in Conn /\ hist \in Hist /\ server \in Server
  BY DEF ClientInvariant, Core
<1>. DEFINE p == Line(c, net)
<1>5. DOMAIN p = {} /\ DOMAIN c.messages = {} /\ DOMAIN c.tiles = {}
  <2>1. <<>> \in Seq(ToServer) /\ DOMAIN <<>> = {}
    BY EmptySeq
  <2>2. p = <<>>
    BY <1>2, <1>3, <2>1, ConcatEmptySeq DEF Line
  <2>. QED
    BY <1>3, <2>1, <2>2
<1>6. /\ InLine(c, p, server, hist)
      /\ NothingForgotten(c, p, link, server, hist)
  BY DEF SayInvariant, Saying
<1>. HIDE DEF p
<1>7. Listening(c, link, server) /\ ~Fresh(c, link)
  BY <1>2 DEF Listening, Fresh
<1>8. /\ AllSaid(c, p, server.heard, hist)
      /\ \A t \in Tile : LastMove(c, p, t, server.place[t], hist)
      /\ LastTyping(c, p, KnownTyping(c, link, server), KnownLeft(c, link, server))
  BY <1>2, <1>6, <1>7 DEF NothingForgotten, KnownHeard, KnownPlace
<1>9. server.typing = c.typing
  <2>1. KnownTyping(c, link, server) = c.sentTyping
    BY <1>2, <1>5, <1>8 DEF LastTyping, KnownLeft
  <2>2. server.typing \in BOOLEAN /\ c.sentTyping \in BOOLEAN
    BY <1>4 DEF Server, Conn
  <2>. QED
    BY <1>3, <1>7, <2>1, <2>2 DEF KnownTyping
<1>10. server.heard = [i \in 1..hist.said - hist.before |-> hist.before + i]
  <2>1. /\ server.heard \in Seq(Nat) /\ hist.before \in Nat /\ hist.said \in Nat
    BY <1>4 DEF Server, Hist
  <2>2. /\ Ascending(server.heard) /\ hist.before <= hist.said
        /\ \A i \in DOMAIN server.heard : server.heard[i] <= hist.said
    BY <1>6 DEF InLine
  <2>3. /\ \A i \in DOMAIN server.heard :
             server.heard[i] > hist.before /\ server.heard[i] <= hist.said
        /\ \A m \in hist.before + 1..hist.said :
             \E i \in DOMAIN server.heard : server.heard[i] = m
    BY <1>5, <1>8, <2>2 DEF AllSaid
  <2>. DEFINE heard == server.heard
              a == hist.before
              b == hist.said
  <2>4. heard \in Seq(Nat) /\ a \in Nat /\ b \in Nat /\ a <= b /\ Ascending(heard)
    BY <2>1, <2>2
  <2>5. /\ \A i \in DOMAIN heard : heard[i] > a /\ heard[i] <= b
        /\ \A m \in a + 1..b : \E i \in DOMAIN heard : heard[i] = m
    BY <2>3
  <2>. HIDE DEF heard, a, b
  <2>6. heard = [i \in 1..b - a |-> a + i]
    BY <2>4, <2>5, CountsUp
  <2>. QED
    BY <2>6 DEF heard, a, b
<1>11. server.place = hist.moved
  <2>1. server.place \in Places /\ hist.moved \in Places
    BY <1>4 DEF Server, Hist
  <2>2. ASSUME NEW t \in Tile PROVE server.place[t] = hist.moved[t]
    <3>1. LastMove(c, p, t, server.place[t], hist) /\ ~Waits(c, t)
      BY <1>5, <1>8 DEF Waits
    <3>. QED
      BY <1>5, <3>1 DEF LastMove
  <2>. QED
    BY <2>1, <2>2 DEF Places
<1>. QED
  BY <1>9, <1>10, <1>11

\* Whatever the player says is heard in order and not twice, and nothing of what it
\* says and does is forgotten, however often the connection is lost, as long as
\* nothing was on its way when it was; and so is what the others say.
THEOREM ClientIsHeardOnce ==
    Spec => []HeardOnce
<1>1. ClientInvariant /\ TalkInvariant /\ SayInvariant
        => /\ \A i, j \in DOMAIN server.heard : i < j => server.heard[i] < server.heard[j]
           /\ DoneIsHeard
  BY AllIsHeard DEF SayInvariant, Saying, InLine, Ascending
<1>2. (/\ \A i, j \in DOMAIN server.heard : i < j => server.heard[i] < server.heard[j]
       /\ DoneIsHeard) /\ ShownInOrder => HeardOnce
  BY DEF HeardOnce
<1>. QED
  BY <1>1, <1>2, SayInvariantHolds, MessagesShownInOrder, PTL
=============================================================================
