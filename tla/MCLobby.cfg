\* Two connections, two persons, two games with two seats, one room.
CONSTANTS
    table1 = table1
    table2 = table2
    person1 = person1
    person2 = person2
    conn1 = conn1
    conn2 = conn2
    room = room
    Game <- MCGame
    Person <- MCPerson
    Conn <- MCConn
    Room <- MCRoom
    MaxPlayers = 2
    SilenceTime = 0
    ResponseTime = 1

SPECIFICATION LobbyFairSpec

INVARIANTS
    LobbySound
    PlayersAreWatched

PROPERTIES
    OnlySilentAreForgotten
    EverythingEnds

\* A server that has been freed does nothing more.
CHECK_DEADLOCK FALSE
