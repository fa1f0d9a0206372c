------------------------------ MODULE MCLobby ------------------------------
(* Lobby for TLC: two connections, two games of two seats, one room.       *)
EXTENDS Lobby

CONSTANTS table1, table2, person1, person2, conn1, conn2, room

MCGame == {table1, table2}
MCPerson == {person1, person2}
MCConn == {conn1, conn2}
MCRoom == {room}
=============================================================================
