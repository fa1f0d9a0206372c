---- MODULE MCClientThreads ----
(* The threads of the client in small instances: games that end and are    *)
(* reset, timeouts of which a shout lasts longer than a note, and a worker *)
(* that has two addresses to resolve.                                      *)
EXTENDS ClientThreads

MCDuration == [shout |-> 2, note |-> 1]

Quiet == [games |-> 0, joins |-> {"conversation"}, events |-> 1, says |-> {},
          addresses |-> 1, failures |-> 0, polls |-> {"read"}, images |-> 0,
          losses |-> 0]
Resets == [Quiet EXCEPT !.games = 1, !.events = 2, !.says = {"shout", "end"}]
Refused == [Quiet EXCEPT !.games = 1, !.says = {"refused"}]
Timeouts == [Quiet EXCEPT !.events = 3, !.says = {"shout", "note"}]
Resolving == [Quiet EXCEPT !.games = 1, !.joins = {"none"}, !.events = 0,
                           !.addresses = 2, !.failures = 1,
                           !.polls = {"read", "write"}]
Images == [Quiet EXCEPT !.events = 0, !.images = 2, !.losses = 1]
MCPlans == {Resets, Refused, Timeouts, Resolving, Images}
====
