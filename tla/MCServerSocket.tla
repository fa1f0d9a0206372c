--------------------------- MODULE MCServerSocket ---------------------------
(* ServerSocket for TLC: one socket with a certificate and one without.     *)
EXTENDS ServerSocket, TLC

CONSTANTS secure, plain

MCConn == {secure, plain}
MCTls == {secure}

\* A client that enters and leaves while another plays.
Both == [script |-> secure :> {<<"HELLO", "ENTER", "LEAVE">>}
                    @@ plain :> {<<"HELLO", "ENTER", "COMMAND">>},
         faults |-> 1, files |-> 2, clock |-> FALSE, signal |-> FALSE]

\* One client with a certificate, that does anything and has any trouble.
Sessions == {<<"PART", "HELLO", "ENTER", "LEAVE">>, <<"HELLO", "PING", "JUNK">>,
        <<"HELLO", "ENTER", "ENTER">>, <<"COMMAND">>}
Secure == [script |-> secure :> Sessions @@ plain :> {},
           faults |-> 2, files |-> 2, clock |-> TRUE, signal |-> FALSE]

\* The same without one.
Plain == [Secure EXCEPT !.script = secure :> {} @@ plain :> Sessions]

\* Clients that say nothing, one too many, until the server is stopped.
Full == [script |-> secure :> {<<>>} @@ plain :> {<<>>},
         faults |-> 0, files |-> 1, clock |-> TRUE, signal |-> TRUE]

MCStalePlan == {Both}
MCPlan == {Both, Secure, Plain, Full}
=============================================================================
