------------------------------- MODULE Lobby -------------------------------
(***************************************************************************)
(* What lives in the server and for how long: the games of                 *)
(* src/server/vsx-conversation-set.c, the persons of vsx-person-set.c, the *)
(* connections of vsx-server.c, the references they hold to one another    *)
(* (vsx-object.c) and the two timers that collect what nobody uses.        *)
(*                                                                         *)
(* Of a game there is what decides whether it can be joined and when it    *)
(* ends.  The conversation set listens to the changed_signal of each game, *)
(* inside the operation that emits it: the operators below pass the heap   *)
(* through the calls in the order in which the code makes them, so that a  *)
(* reference dropped too early is seen by the calls that come after.       *)
(***************************************************************************)
EXTENDS Integers, Sequences, FiniteSets, FiniteSetsExt

CONSTANTS
    Game,          \* bound of the model: memory for games
    Person,        \* bound of the model: memory for persons
    Conn,          \* bound of the model: connections at a time
    Room,          \* the names of rooms
    MaxPlayers,    \* VSX_CONVERSATION_MAX_PLAYERS (6)
    SilenceTime,   \* VSX_PERSON_SILENCE_TIME, in ticks of the clock
    ResponseTime   \* VSX_SERVER_NO_RESPONSE_TIMEOUT, in ticks

NoRoom == "no room"
NoOne == "no one"
NoTable == "no table"

ASSUME LobbyAssumption ==
    /\ MaxPlayers \in Nat \ {0}
    /\ SilenceTime \in Nat
    /\ ResponseTime \in Nat
    /\ NoRoom \notin Room
    /\ NoOne \notin Person
    /\ NoTable \notin Game
    /\ IsFiniteSet(Person) /\ IsFiniteSet(Conn)

VARIABLES
    games,        \* games[g]: what is at g in memory; NoGame: it is free
    persons,      \* persons[p]: likewise, of the persons
    conns,        \* conns[c]: a connection of the server
    peopleTimer,  \* people_timer_source is set
    gcTimer,      \* gc_source is set
    running       \* vsx_server_free has not been called

lobbyVars == <<games, persons, conns, peopleTimer, gcTimer, running>>

\* listed: the conversation set has it.  room: the name new players find it
\* by.  seats[s]: the player in seat s is connected.
NoGame == [ref |-> 0, listed |-> FALSE, room |-> NoRoom, started |-> FALSE,
           seats |-> <<>>, nConnected |-> 0]

\* age: ticks since last_noise_time.
NoPerson == [ref |-> 0, inSet |-> FALSE, game |-> NoTable, seat |-> 0,
             age |-> 0]

\* bad: had_bad_input.  age: ticks since last_message_time.
NoConn == [open |-> FALSE, bad |-> FALSE, person |-> NoOne, age |-> 0]

Oldest == Max({SilenceTime + 1, ResponseTime})
OpenConns == {c \in Conn : conns[c].open}
People == {p \in Person : persons[p].inSet}
FreeGames == {g \in Game : games[g] = NoGame}
FreePersons == {p \in Person : persons[p] = NoPerson}
AnyOf(S) == CHOOSE x \in S : TRUE
Pending(room) == {g \in Game : games[g].room = room}

-----------------------------------------------------------------------------
(* What the calls do to the games gs.                                      *)

Ref(gs, g) == [gs EXCEPT ![g].ref = @ + 1]
Unref(gs, g) == IF gs[g].ref = 1 THEN [gs EXCEPT ![g] = NoGame]
                ELSE [gs EXCEPT ![g].ref = @ - 1]

\* remove_listener: the set forgets the game.
Unlist(gs, g) == Unref([gs EXCEPT ![g].listed = FALSE, ![g].room = NoRoom], g)

IsEmpty(gs, g) == \A s \in DOMAIN gs[g].seats : ~gs[g].seats[s]

\* conversation_changed_cb of the set, while it listens: what has started has
\* no room any more, and what everybody left is forgotten.
Changed(gs, g, isPlayer) ==
    LET shut == IF gs[g].started THEN [gs EXCEPT ![g].room = NoRoom] ELSE gs IN
    IF ~gs[g].listed THEN gs
    ELSE IF isPlayer /\ IsEmpty(gs, g) THEN Unlist(shut, g)
    ELSE shut

\* vsx_conversation_start.
Start(gs, g) ==
    IF gs[g].started THEN gs
    ELSE Changed([gs EXCEPT ![g].started = TRUE], g, FALSE)

\* vsx_conversation_add_player: a game that is full starts.
AddPlayer(gs, g) ==
    LET seated == Changed([gs EXCEPT ![g].seats = Append(@, TRUE),
                                     ![g].nConnected = @ + 1], g, TRUE)
    IN IF Len(seated[g].seats) >= MaxPlayers THEN Start(seated, g) ELSE seated

\* vsx_conversation_player_left: the players are counted after the observers
\* have been told.
PlayerLeft(gs, g, s) ==
    IF ~gs[g].seats[s] THEN gs
    ELSE LET told == Changed([gs EXCEPT ![g].seats[s] = FALSE], g, TRUE)
         IN [told EXCEPT ![g].nConnected = @ - 1]

\* generate_conversation, with the reference that the caller is given.
Generated(gs, g, room) ==
    [gs EXCEPT ![g] = [NoGame EXCEPT !.ref = 2, !.listed = TRUE, !.room = room]]

-----------------------------------------------------------------------------
(* Persons: what the calls do to them, and to the games gs through them.   *)

\* vsx_person_free: the player leaves, then the game is let go.
PersonFreed(p, gs) ==
    LET me == persons[p] IN Unref(PlayerLeft(gs, me.game, me.seat), me.game)

\* Fault for a mutant: a person is removed but their player does not leave.
RemovedFromSetOnly(p, gs) ==
    IF persons[p].ref = 1 THEN PersonFreed(p, gs) ELSE gs

\* remove_person of the person set.
RemovedFromSet(p, gs) ==
    LET left == PlayerLeft(gs, persons[p].game, persons[p].seat) IN
    IF persons[p].ref = 1 THEN PersonFreed(p, left) ELSE left

\* The references to p that go when the connections in C are freed and the set
\* removes the persons in P; who is freed by that; what is left of the others.
LostRefs(p, C, P) == Cardinality({c \in C : conns[c].person = p})
                     + (IF p \in P THEN 1 ELSE 0)
FreedPersons(C, P) ==
    {p \in Person : LostRefs(p, C, P) > 0 /\ persons[p].ref = LostRefs(p, C, P)}
PersonsWithout(C, P) ==
    [p \in Person |->
       IF p \in FreedPersons(C, P) THEN NoPerson
       ELSE [persons[p] EXCEPT !.ref = @ - LostRefs(p, C, P),
                               !.inSet = @ /\ p \notin P,
                               !.age = IF p \in P THEN 0 ELSE @]]

\* vsx_person_set_generate_person: a connection has a reference to the new
\* person and so has the set.
NewPerson(g, gs) ==
    [ref |-> 2, inSet |-> TRUE, game |-> g, seat |-> Len(gs[g].seats) + 1,
     age |-> 0]

-----------------------------------------------------------------------------
(* The server.                                                             *)

LobbyInit ==
    /\ games = [g \in Game |-> NoGame]
    /\ persons = [p \in Person |-> NoPerson]
    /\ conns = [c \in Conn |-> NoConn]
    /\ peopleTimer = FALSE
    /\ gcTimer = FALSE
    /\ running = TRUE

\* vsx_server_pending_connection_cb.
Accept(c) ==
    /\ running
    /\ ~conns[c].open
    /\ conns' = [conns EXCEPT ![c] = [NoConn EXCEPT !.open = TRUE]]
    /\ gcTimer' = TRUE
    /\ UNCHANGED <<games, persons, peopleTimer, running>>

\* A connection of which messages are still read, and that does not belong to
\* anybody yet.
Heard(c) == running /\ conns[c].open /\ ~conns[c].bad
Entering(c) == Heard(c) /\ conns[c].person = NoOne

\* The connection belongs to p, and has just said so.
Belongs(c, p) == conns' = [conns EXCEPT ![c].person = p, ![c].age = 0]

\* Fault for a mutant: the handler keeps the reference it was given.
EnterGameKeepingReference(c, g, found, given) ==
    /\ FreePersons # {}
    /\ LET p == AnyOf(FreePersons) IN
       /\ games' = AddPlayer(Ref(found, g), g)
       /\ persons' = [persons EXCEPT ![p] = NewPerson(g, found)]
       /\ Belongs(c, p)
    /\ peopleTimer' = TRUE
    /\ UNCHANGED <<gcTimer, running>>

\* A new person for connection c, at the game g that the handler found.  The
\* handler gives up the reference it was itself given, if it was.
EnterGame(c, g, found, given) ==
    /\ FreePersons # {}
    /\ LET p == AnyOf(FreePersons)
           seated == AddPlayer(Ref(found, g), g)
       IN /\ games' = IF given THEN Unref(seated, g) ELSE seated
          /\ persons' = [persons EXCEPT ![p] = NewPerson(g, found)]
          /\ Belongs(c, p)
    /\ peopleTimer' = TRUE
    /\ UNCHANGED <<gcTimer, running>>

\* handle_new_player: the game that is open for the room, or a new one.
NewPlayer(c, room) ==
    /\ Entering(c)
    /\ \/ \E g \in Pending(room) : EnterGame(c, g, Ref(games, g), TRUE)
       \/ /\ Pending(room) = {}
          /\ FreeGames # {}
          /\ LET g == AnyOf(FreeGames) IN
             EnterGame(c, g, Generated(games, g, room), TRUE)

\* handle_new_private_game: a game that is found by its id only.
NewPrivateGame(c) ==
    /\ Entering(c)
    /\ FreeGames # {}
    /\ LET g == AnyOf(FreeGames) IN
       EnterGame(c, g, Generated(games, g, NoRoom), TRUE)

\* handle_join_game: any game that the set has, begun or not.
JoinGame(c, g) ==
    /\ Entering(c)
    /\ games[g].listed
    /\ Len(games[g].seats) < MaxPlayers
    /\ EnterGame(c, g, games, FALSE)

\* Fault for a mutant: coming back is no noise.
ReconnectQuietly(c, p) ==
    /\ Entering(c)
    /\ persons[p].inSet
    /\ persons' = [persons EXCEPT ![p].ref = @ + 1]
    /\ Belongs(c, p)
    /\ UNCHANGED <<games, peopleTimer, gcTimer, running>>

\* handle_reconnect, with the id of a person that the set has.
Reconnect(c, p) ==
    /\ Entering(c)
    /\ persons[p].inSet
    /\ persons' = [persons EXCEPT ![p].ref = @ + 1, ![p].age = 0]
    /\ Belongs(c, p)
    /\ UNCHANGED <<games, peopleTimer, gcTimer, running>>

\* activate_person, which every other command begins with.
MakeNoise(c) ==
    /\ Heard(c)
    /\ conns[c].person # NoOne
    /\ persons' = [persons EXCEPT ![conns[c].person].age = 0]
    /\ Belongs(c, conns[c].person)
    /\ UNCHANGED <<peopleTimer, gcTimer, running>>

\* handle_keep_alive, and every command that changes nothing of this.
KeepAlive(c) == MakeNoise(c) /\ UNCHANGED games

\* handle_leave: the person stays in the set.
Leave(c) ==
    /\ MakeNoise(c)
    /\ LET me == persons[conns[c].person] IN
       games' = PlayerLeft(games, me.game, me.seat)

\* handle_turn, when it is the first one.
FirstTurn(c) ==
    /\ MakeNoise(c)
    /\ LET me == persons[conns[c].person] IN
       /\ games[me.game].seats[me.seat]
       /\ games' = Start(games, me.game)

\* handle_join_game or handle_reconnect with an id that the sets do not have,
\* or of a game that is full: the client is told, and may try again.
TurnAway(c) ==
    /\ Entering(c)
    /\ conns' = [conns EXCEPT ![c].age = 0]
    /\ UNCHANGED <<games, persons, peopleTimer, gcTimer, running>>

\* set_bad_input: a message that makes no sense, or data that is no message,
\* of which the time is not taken.  Nothing more is read.
BadInput(c) ==
    /\ Heard(c)
    /\ \E age \in {0, conns[c].age} :
         conns' = [conns EXCEPT ![c].bad = TRUE, ![c].age = age]
    /\ UNCHANGED <<games, persons, peopleTimer, gcTimer, running>>

\* A timer stays as long as its list has something left.
StillNeeded(all, removed) == all \ removed # {}

\* Fault for a mutant: a dead connection is only ever told to go.
NeverRemoved(dead) == {}

\* check_dead_connection: those that were already told to go.
ToBeRemoved(dead) == {c \in dead : conns[c].bad}

\* vsx_connection_free of the connections in C.
FreeConnections(C) ==
    /\ games' = FoldSet(PersonFreed, games, FreedPersons(C, {}))
    /\ persons' = PersonsWithout(C, {})

\* vsx_server_remove_connection, when both ends are shut or the socket fails.
RemoveConnection(c) ==
    /\ running
    /\ conns[c].open
    /\ FreeConnections({c})
    /\ conns' = [conns EXCEPT ![c] = NoConn]
    /\ gcTimer' = StillNeeded(OpenConns, {c})
    /\ UNCHANGED <<peopleTimer, running>>

\* vsx_server_gc_cb: a connection that has long been quiet is told to go, and
\* removed the next time.
CollectConnections ==
    /\ running /\ gcTimer
    /\ LET dead == {c \in OpenConns : conns[c].age >= ResponseTime}
           removed == ToBeRemoved(dead)
       IN /\ dead # {}
          /\ FreeConnections(removed)
          /\ conns' = [c \in Conn |-> IF c \in removed THEN NoConn
                                      ELSE IF c \in dead
                                      THEN [conns[c] EXCEPT !.bad = TRUE]
                                      ELSE conns[c]]
          /\ gcTimer' = StillNeeded(OpenConns, removed)
    /\ UNCHANGED <<peopleTimer, running>>

\* remove_silent_people_timer_cb.
ForgetSilentPeople ==
    /\ running /\ peopleTimer
    /\ LET silent == {p \in People : persons[p].age > SilenceTime} IN
       /\ silent # {}
       /\ games' = FoldSet(RemovedFromSet, games, silent)
       /\ persons' = PersonsWithout({}, silent)
       /\ peopleTimer' = StillNeeded(People, silent)
    /\ UNCHANGED <<conns, gcTimer, running>>

\* The monotonic clock, which is the same for everything.
TimePasses ==
    /\ running
    /\ persons' = [p \in Person |->
                     IF p \in People /\ persons[p].age < Oldest
                     THEN [persons[p] EXCEPT !.age = @ + 1] ELSE persons[p]]
    /\ conns' = [c \in Conn |->
                   IF c \in OpenConns /\ conns[c].age < Oldest
                   THEN [conns[c] EXCEPT !.age = @ + 1] ELSE conns[c]]
    /\ UNCHANGED <<games, peopleTimer, gcTimer, running>>

\* vsx_server_free: the connections, the person set, the conversation set.
Shutdown ==
    /\ running
    /\ LET cut == FoldSet(PersonFreed, games, FreedPersons(OpenConns, {}))
           gone == FoldSet(PersonFreed, cut, People)
           listed == {g \in Game : gone[g].listed}
       IN games' = FoldSet(LAMBDA g, gs : Unlist(gs, g), gone, listed)
    /\ persons' = PersonsWithout(OpenConns, People)
    /\ conns' = [c \in Conn |-> NoConn]
    /\ peopleTimer' = FALSE
    /\ gcTimer' = FALSE
    /\ running' = FALSE

\* What a client sends.
ClientAct(c) ==
    \/ \E room \in Room : NewPlayer(c, room)
    \/ NewPrivateGame(c)
    \/ \E g \in Game : JoinGame(c, g)
    \/ \E p \in Person : Reconnect(c, p)
    \/ KeepAlive(c)
    \/ Leave(c)
    \/ FirstTurn(c)
    \/ TurnAway(c)
    \/ BadInput(c)

LobbyNext ==
    \/ \E c \in Conn : Accept(c) \/ ClientAct(c) \/ RemoveConnection(c)
    \/ CollectConnections
    \/ ForgetSilentPeople
    \/ TimePasses
    \/ Shutdown

LobbySpec == LobbyInit /\ [][LobbyNext]_lobbyVars

\* Time passes, and the main context calls the timers that are set.
LobbyFairSpec ==
    /\ LobbySpec
    /\ WF_lobbyVars(TimePasses)
    /\ WF_lobbyVars(CollectConnections)
    /\ WF_lobbyVars(ForgetSilentPeople)

-----------------------------------------------------------------------------
(* Properties.                                                             *)

LobbyTypeOK ==
    /\ games \in [Game -> [ref : Nat, listed : BOOLEAN, room : Room \cup {NoRoom},
                           started : BOOLEAN, seats : Seq(BOOLEAN),
                           nConnected : 0 .. MaxPlayers]]
    /\ persons \in [Person -> [ref : Nat, inSet : BOOLEAN,
                               game : Game \cup {NoTable},
                               seat : 0 .. MaxPlayers, age : 0 .. Oldest]]
    /\ conns \in [Conn -> [open : BOOLEAN, bad : BOOLEAN,
                           person : Person \cup {NoOne}, age : 0 .. Oldest]]
    /\ \A g \in Game : Len(games[g].seats) <= MaxPlayers
    /\ peopleTimer <=> People # {}
    /\ gcTimer <=> OpenConns # {}

\* The count of references of a game or a person is the number of those that
\* refer to it: nothing is freed that somebody still uses, everything is freed
\* that nobody uses, and what is freed is never written to.
RefsExact ==
    /\ \A g \in Game :
         /\ games[g].ref = Cardinality({p \in Person : persons[p].game = g})
                           + (IF games[g].listed THEN 1 ELSE 0)
         /\ games[g].ref = 0 => games[g] = NoGame
    /\ \A p \in Person :
         /\ persons[p].ref = Cardinality({c \in Conn : conns[c].person = p})
                             + (IF persons[p].inSet THEN 1 ELSE 0)
         /\ persons[p].ref = 0 => persons[p] = NoPerson
    /\ ~running => \A g \in Game : games[g] = NoGame

\* The two together: the values are of their types, and the references are exact.
LobbySound == LobbyTypeOK /\ RefsExact

\* A game that strangers are sent to has not begun and has a free seat, and
\* there is never a second one for the same room to split the players.
PendingIsOpen ==
    \A g \in Game : games[g].room # NoRoom =>
      /\ games[g].listed
      /\ ~games[g].started
      /\ Len(games[g].seats) < MaxPlayers
      /\ Pending(games[g].room) = {g}

\* Who plays in g is one person of the set, for whom the timer is running.
IsWatched(g, s) ==
    \E p \in People :
      /\ peopleTimer
      /\ persons[p].game = g /\ persons[p].seat = s
      /\ \A q \in Person \ {p} : ~(persons[q].game = g /\ persons[q].seat = s)

\* The set has a game exactly as long as somebody plays it, and each one who
\* plays is watched: nobody sits at a table for ever, JOIN_GAME never finds an
\* abandoned one, and strangers are only sent to an open one.
PlayersAreWatched ==
    /\ PendingIsOpen
    /\ \A g \in Game :
         LET playing == {s \in DOMAIN games[g].seats : games[g].seats[s]} IN
         /\ games[g].listed <=> playing # {}
         /\ games[g].nConnected = Cardinality(playing)
         /\ \A s \in playing : IsWatched(g, s)

\* A person is forgotten only when every connection that may still speak for
\* them has been quiet as long.
OnlySilentAreForgotten ==
    [][\A c \in OpenConns :
         LET p == conns[c].person IN
         /\ p # NoOne /\ ~conns[c].bad
         /\ p \in People
         /\ ~persons'[p].inSet
         /\ running'
         => conns[c].age > SilenceTime
      ]_lobbyVars

\* Once nobody connects any more and nothing more is heard from those who are
\* connected, the server frees everything: connections, persons and games.
Silence ==
    \A c \in Conn : conns'[c].open =>
      /\ conns[c].open
      /\ conns'[c].age >= conns[c].age
      /\ conns'[c].person = conns[c].person
Nothing == games = [g \in Game |-> NoGame] /\ People = {} /\ OpenConns = {}
EverythingEnds == <>[][Silence]_lobbyVars => <>[]Nothing
=============================================================================
