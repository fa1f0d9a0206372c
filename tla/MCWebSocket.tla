----------------------------- MODULE MCWebSocket -----------------------------
(* Small instances of WebSocket for TLC.                                    *)
EXTENDS WebSocket

Tags(tags) == [i \in DOMAIN tags |-> B(tags[i])]
End == <<CR, LF>>

Request == Tags(<<"word", "SP", "word", "SP", "version">>)
OddRequests == {
    Tags(<<"CR", "LF", "CR", "LF", "word", "SP", "word", "SP", "version">>),
    Tags(<<"word", "SP", "CR", "SP", "version">>),
    Tags(<<"word", "SP", "SP", "version">>),
    Tags(<<"word", "SP", "word", "SP", "version", "CR">>),
    Tags(<<"word", "SP", "version">>),
    Tags(<<"word">>),
    Tags(<<"word", "SP", "word", "SP", "SP", "version">>),
    Tags(<<"word", "SP", "word", "word", "word", "SP", "version">>),
    Tags(<<"word", "SP", "word", "word", "word", "word", "SP", "version">>)}

KeyHeader == Tags(<<"key", "SP", "word">>)
Headers == {
    KeyHeader,
    Tags(<<"key">>),
    Tags(<<"key", "word", "CR", "word", "CR">>),
    Tags(<<"field", "word">>),
    Tags(<<"word", "field">>),
    Tags(<<"word">>),
    Tags(<<"SP", "word", "word">>),
    Tags(<<"SP", "field">>),
    Tags(<<"field", "word", "word", "word", "word", "word", "word">>),
    Tags(<<"field", "word", "word", "word", "word", "word", "word", "word">>)}

Text(request, headers) ==
    request \o End \o FlattenSeq([i \in DOMAIN headers |-> headers[i] \o End]) \o End

Frame(op, len, fin, mask, long) ==
    [name |-> "x", op |-> op, len |-> len, fin |-> fin, mask |-> mask, long |-> long,
     rsv |-> FALSE]
Frames == {
    Frame("binary", 2, TRUE, TRUE, FALSE),
    Frame("binary", 0, TRUE, FALSE, FALSE),
    Frame("binary", 3, FALSE, TRUE, FALSE),
    Frame("continuation", 2, FALSE, FALSE, TRUE),
    Frame("continuation", 3, TRUE, TRUE, TRUE),
    Frame("ping", 1, TRUE, TRUE, FALSE),
    Frame("ping", 0, TRUE, FALSE, FALSE),
    Frame("pong", 1, TRUE, TRUE, FALSE),
    Frame("close", 0, TRUE, FALSE, FALSE)}
BadFrames == {
    Frame("continuation", 0, FALSE, TRUE, FALSE),
    Frame("ping", 2, TRUE, TRUE, TRUE),
    Frame("ping", 1, FALSE, FALSE, FALSE),
    Frame("text", 1, TRUE, TRUE, FALSE),
    Frame("other control", 1, TRUE, TRUE, FALSE),
    Frame("binary", 8, TRUE, TRUE, TRUE),
    [Frame("binary", 1, TRUE, TRUE, FALSE) EXCEPT !.rsv = TRUE]}

\* Each frame has the name of its place.
Named(frames) ==
    [i \in DOMAIN frames |->
       [frames[i] EXCEPT !.name = (<<"first", "second", "third">>)[i]]]

Plan(text, frames) == [text |-> text, frames |-> Named(frames)]

MCPlans ==
    {Plan(Text(Request, headers), <<>>) : headers \in BoundedSeq(Headers, 3)}
      \union {Plan(Text(request, headers), <<>>) :
                request \in OddRequests, headers \in BoundedSeq({KeyHeader}, 1)}
      \union {Plan(Text(Request, <<KeyHeader>>), frames) : frames \in BoundedSeq(Frames, 3)}
      \union {Plan(Text(Request, <<KeyHeader>>), frames \o <<bad>>) :
                frames \in BoundedSeq(Frames, 1), bad \in BadFrames}

\* A frame whose payload is as long as a message may be
LargePlans == {Plan(Text(Request, <<KeyHeader>>), <<Frame("binary", 7, TRUE, TRUE, TRUE),
                                                    Frame("ping", 0, TRUE, TRUE, FALSE)>>)}
=============================================================================
