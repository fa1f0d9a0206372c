------------------------------ MODULE WebSocket ------------------------------
(***************************************************************************)
(* How the server makes messages of the bytes that a socket brings: the    *)
(* lines of the WebSocket handshake (src/server/vsx-ws-parser.c), and then *)
(* the frames (parse_data, process_frames and parse_eof of                 *)
(* src/server/vsx-connection.c).  The bytes come in pieces that are cut    *)
(* anywhere, and the client may close the connection after any of them.    *)
(*                                                                         *)
(* A byte is a record with a tag.  In the handshake a tag may stand for a  *)
(* few bytes: "word" for some letters, "version" for HTTP/1.x, "key" for   *)
(* Sec-WebSocket-Key and its colon, "field" for any other name with one.   *)
(***************************************************************************)
EXTENDS Integers, Sequences, SequencesExt, FiniteSets, FiniteSetsExt

CONSTANTS
    MaxLine,      \* bytes of a line of the handshake (512)
    MaxPayload,   \* bytes of a message (1024)
    MaxControl,   \* bytes of a control frame (125)
    BufSize,      \* bytes of read_buf (1024)
    Plans,        \* bound: what clients send, [text, frames]
    MaxPiece      \* bound: bytes of one read

ASSUME WebSocketAssumption ==
    MaxLine \in Nat /\ MaxPayload \in Nat /\ MaxControl \in Nat
      /\ BufSize \in Nat \ {0} /\ MaxPiece \in Nat \ {0}

VARIABLES
    plan,    \* what the client is going to send, that never changes
    sent,    \* the bytes of it
    pos,     \* how many of them the server has read
    piece,   \* those of the last read that are still to be parsed
    hs,      \* struct _VsxWsParser
    conn     \* the fields of the connection that reading uses

vars == <<plan, sent, pos, piece, hs, conn>>

B(tag) == [tag |-> tag]
CR == B("CR")
LF == B("LF")
SP == B("SP")

-----------------------------------------------------------------------------
(* Frames: an opcode and a length, one more byte for a longer length, one   *)
(* for the mask, and the payload.                                           *)

LengthSize(frame) == IF frame.long THEN 3 ELSE 2
HeaderSize(frame) == LengthSize(frame) + (IF frame.mask THEN 1 ELSE 0)
IsControl(frame) == frame.op \in {"close", "ping", "pong", "other control"}
IsData(frame) == frame.op \in {"binary", "continuation"}

Payload(frame) == [i \in 1..frame.len |-> [tag |-> "data", of |-> frame.name, n |-> i]]
Bytes(frame) ==
    <<[tag |-> "op", frame |-> frame], B("length")>>
      \o [i \in 1..(HeaderSize(frame) - 2) |-> B("header")] \o Payload(frame)

-----------------------------------------------------------------------------
NoKey == [known |-> FALSE, value |-> <<>>]

Init ==
    /\ plan \in Plans
    /\ sent = plan.text \o FlattenSeq([i \in DOMAIN plan.frames |-> Bytes(plan.frames[i])])
    /\ pos = 0
    /\ piece = <<>>
    /\ hs = [state |-> "READING_REQUEST_LINE", buf |-> <<>>, key |-> NoKey]
    /\ conn = [state |-> "READING_WS_HEADERS", buf |-> <<>>, parsing |-> FALSE,
               data |-> <<>>, messages |-> <<>>, pong |-> <<>>]

Fail == conn' = [conn EXCEPT !.state = "ERROR"] /\ piece' = <<>> /\ UNCHANGED hs

\* One read of the socket: handle_read of vsx-server.c
Over == conn.state \in {"ERROR", "CUT", "CLOSED"}
Waiting == piece = <<>> /\ ~conn.parsing /\ ~Over

Read ==
    /\ Waiting /\ pos < Len(sent)
    /\ \E n \in 1..MaxPiece :
         /\ pos + n <= Len(sent)
         /\ piece' = SubSeq(sent, pos + 1, pos + n)
         /\ pos' = pos + n
    /\ UNCHANGED <<plan, sent, hs, conn>>

-----------------------------------------------------------------------------
(* vsx_ws_parser_parse_data, one turn of its loop at a time                *)

InHandshake == conn.state = "READING_WS_HEADERS" /\ piece # <<>>

TooLong(bytes) == Len(hs.buf) + Len(bytes) > MaxLine

\* add_bytes_to_buffer, then on to the state that is next
Add(bytes, next, rest) ==
    IF TooLong(bytes) THEN Fail
    ELSE /\ hs' = [hs EXCEPT !.buf = @ \o bytes, !.state = next]
         /\ piece' = rest
         /\ UNCHANGED conn

Unmoved == UNCHANGED <<plan, sent, pos>>

\* handle_reading_request_line, handle_reading_header
ReadLine(reading, terminating) ==
    LET crs == {i \in DOMAIN piece : piece[i] = CR}
        cr == Min(crs)
    IN /\ InHandshake /\ hs.state = reading
       /\ IF crs = {} THEN Add(piece, reading, <<>>)
          ELSE Add(SubSeq(piece, 1, cr - 1), terminating,
                   SubSeq(piece, cr + 1, Len(piece)))
       /\ Unmoved

\* process_request_line: a method, a place and the version
ValidRequest(line) ==
    LET spaces == {i \in DOMAIN line : line[i] = SP}
        method == Min(spaces)
        place == Min(spaces \ {method})
    IN /\ Cardinality(spaces) >= 2
       /\ SubSeq(line, place + 1, Len(line)) = <<B("version")>>

\* Fault for a mutant: a CR that ends nothing is lost.
LoneCRLost == <<>>

\* The CR that was taken for the end of the line
LoneCR == <<CR>>

TerminateRequestLine ==
    /\ InHandshake /\ hs.state = "TERMINATING_REQUEST_LINE"
    /\ IF Head(piece) # LF THEN Add(LoneCR, "READING_REQUEST_LINE", piece)
       ELSE IF hs.buf # <<>> /\ ~ValidRequest(hs.buf) THEN Fail
       ELSE /\ hs' = [hs EXCEPT !.buf = <<>>,
                        !.state = IF hs.buf = <<>> THEN "READING_REQUEST_LINE"
                                                   ELSE "READING_HEADER"]
            /\ piece' = Tail(piece)
            /\ UNCHANGED conn
    /\ Unmoved

\* The end of the headers is also the end of the handshake, if there was a key
\* (finish_key_hash).
TerminateHeader ==
    /\ InHandshake /\ hs.state = "TERMINATING_HEADER"
    /\ IF Head(piece) # LF THEN Add(LoneCR, "READING_HEADER", piece)
       ELSE IF hs.buf = <<>> /\ ~hs.key.known THEN Fail
       ELSE /\ hs' = [hs EXCEPT !.state = IF hs.buf = <<>> THEN "DONE"
                                          ELSE "CHECKING_HEADER_CONTINUATION"]
            /\ piece' = Tail(piece)
            /\ conn' = IF hs.buf = <<>> THEN [conn EXCEPT !.state = "OPEN"] ELSE conn
    /\ Unmoved

HasColon(line) == \E i \in DOMAIN line : line[i].tag \in {"key", "field"}
IsKeyHeader(line) == Head(line).tag = "key"

\* The value after the colon, without the spaces before it
Value(line) ==
    LET rest == Tail(line)
        nonspace == {i \in DOMAIN rest : rest[i] # SP}
    IN IF nonspace = {} THEN <<>> ELSE SubSeq(rest, Min(nonspace), Len(rest))

\* process_header, or the next line belongs to this one.  The byte that tells
\* which is not consumed.
CheckContinuation ==
    /\ InHandshake /\ hs.state = "CHECKING_HEADER_CONTINUATION"
    /\ IF Head(piece) = SP
       THEN /\ hs' = [hs EXCEPT !.state = "READING_HEADER"]
            /\ UNCHANGED <<piece, conn>>
       ELSE IF ~HasColon(hs.buf) \/ (IsKeyHeader(hs.buf) /\ hs.key.known) THEN Fail
       ELSE /\ hs' = [hs EXCEPT !.state = "READING_HEADER", !.buf = <<>>,
                        !.key = IF IsKeyHeader(hs.buf)
                                THEN [known |-> TRUE, value |-> Value(hs.buf)] ELSE @]
            /\ UNCHANGED <<piece, conn>>
    /\ Unmoved

-----------------------------------------------------------------------------
(* Frames                                                                  *)

\* The loop of vsx_connection_parse_data: as much as read_buf has room for
CopyIn ==
    /\ conn.state = "OPEN" /\ piece # <<>> /\ ~conn.parsing
    /\ LET n == Min({Len(piece), BufSize - Len(conn.buf)}) IN
       /\ conn' = [conn EXCEPT !.buf = @ \o SubSeq(piece, 1, n), !.parsing = TRUE]
       /\ piece' = SubSeq(piece, n + 1, Len(piece))
    /\ UNCHANGED hs /\ Unmoved

\* What process_frames refuses of a data frame, after the data so far
Misfits(frame, data) ==
    \/ frame.len + Len(data) > MaxPayload
    \/ frame.op = "continuation" /\ data = <<>>
    \/ frame.len = 0 /\ ~frame.fin

BadHeader(frame, data) ==
    \/ frame.rsv
    \/ IsControl(frame) /\ (frame.len > MaxControl \/ ~frame.fin)
    \/ IsData(frame) /\ Misfits(frame, data)
    \/ ~IsControl(frame) /\ ~IsData(frame)

\* Fault for a mutant: a control frame ends the message that it interrupts.
ControlledAndCut(c, frame) ==
    [c EXCEPT !.pong = IF frame.op = "ping" THEN Payload(frame) ELSE @, !.data = <<>>]

\* process_control_frame: only the last ping is answered.
Controlled(c, frame) == [c EXCEPT !.pong = IF frame.op = "ping" THEN Payload(frame) ELSE @]

\* The payload is added to the message, which may be complete (process_message
\* is in ServerConnection).
Collected(c, payload, fin) ==
    IF fin THEN [c EXCEPT !.messages = Append(@, c.data \o payload), !.data = <<>>]
           ELSE [c EXCEPT !.data = @ \o payload]

\* One turn of the loop of process_frames: the header is judged as soon as it
\* is there, and the frame is taken when all of it is.
ProcessFrame ==
    /\ conn.state = "OPEN" /\ conn.parsing
    /\ IF Len(conn.buf) < 2 \/ Len(conn.buf) < LengthSize(Head(conn.buf).frame)
       THEN conn' = [conn EXCEPT !.parsing = FALSE] /\ UNCHANGED piece
       ELSE LET frame == Head(conn.buf).frame
                size == HeaderSize(frame) + frame.len
                rest == [conn EXCEPT !.buf = SubSeq(@, size + 1, Len(@))]
                payload == SubSeq(conn.buf, HeaderSize(frame) + 1, size)
                bad == [conn EXCEPT !.state = "ERROR", !.parsing = FALSE]
            IN CASE BadHeader(frame, conn.data) -> conn' = bad /\ piece' = <<>>
                 [] ~BadHeader(frame, conn.data) /\ size > Len(conn.buf) ->
                      conn' = [conn EXCEPT !.parsing = FALSE] /\ UNCHANGED piece
                 [] OTHER ->
                      IF frame.op = "other control" THEN conn' = bad /\ piece' = <<>>
                      ELSE /\ conn' = IF IsControl(frame) THEN Controlled(rest, frame)
                                      ELSE Collected(rest, payload, frame.fin)
                           /\ UNCHANGED piece
    /\ UNCHANGED hs /\ Unmoved

InTheMiddle == conn.state = "READING_WS_HEADERS" \/ conn.buf # <<>> \/ conn.data # <<>>

\* vsx_connection_parse_eof, for a client that has left its game before
Eof ==
    /\ Waiting
    /\ conn' = [conn EXCEPT !.state = IF InTheMiddle THEN "CUT" ELSE "CLOSED"]
    /\ UNCHANGED <<piece, hs>> /\ Unmoved

Next ==
    \/ Read
    \/ ReadLine("READING_REQUEST_LINE", "TERMINATING_REQUEST_LINE")
    \/ TerminateRequestLine
    \/ ReadLine("READING_HEADER", "TERMINATING_HEADER")
    \/ TerminateHeader \/ CheckContinuation
    \/ CopyIn \/ ProcessFrame \/ Eof

Spec == Init /\ [][Next]_vars

-----------------------------------------------------------------------------
(* The type invariant: the fields of the parser and of the connection, and  *)
(* neither buffer is ever written past its end.                             *)
WebSocketTypeOK ==
    /\ pos \in 0..Len(sent)
    /\ Len(piece) <= MaxPiece
    /\ hs.state \in {"READING_REQUEST_LINE", "TERMINATING_REQUEST_LINE", "READING_HEADER",
                     "TERMINATING_HEADER", "CHECKING_HEADER_CONTINUATION", "DONE"}
    /\ conn.state \in {"READING_WS_HEADERS", "OPEN", "ERROR", "CUT", "CLOSED"}
    /\ Len(hs.buf) <= MaxLine
    /\ Len(conn.buf) <= BufSize
    /\ Len(conn.data) <= MaxPayload
    /\ Len(conn.pong) <= MaxControl

(* What the handshake should be, told of all the bytes at once: lines that  *)
(* end with CR LF; the first that is not empty is the request, the next     *)
(* that is empty is the end, and those between are headers, a line that     *)
(* begins with a space being part of the header before it.                  *)
Handshake(bytes) ==
    LET ends == {i \in 1..(Len(bytes) - 1) : bytes[i] = CR /\ bytes[i + 1] = LF}
        starts == {1} \union {i + 2 : i \in ends}     \* of lines, the last not at its end
        open == Max(starts)
        End(s) == IF s # open THEN Min({i \in ends : i >= s})
                  ELSE IF bytes # <<>> /\ Last(bytes) = CR THEN Len(bytes) ELSE Len(bytes) + 1
        Line(s) == SubSeq(bytes, s, End(s) - 1)
        full == {s \in starts \ {open} : End(s) > s}
        request == IF full = {} THEN open ELSE Min(full)
        blank == {s \in starts \ {open} : s > request /\ End(s) = s}
        bottom == IF blank = {} THEN open ELSE Min(blank)
        below == {s \in starts : request < s /\ s <= bottom}
        headers == {s \in below : s = Min(below) \/ s > Len(bytes) \/ bytes[s] # SP}
        Header(h) ==
            LET lines == {s \in below : s >= h /\ ~\E g \in headers : h < g /\ g <= s}
            IN FlattenSeq([i \in 1..Cardinality(lines) |->
                             Line(CHOOSE s \in lines :
                                    Cardinality({t \in lines : t <= s}) = i)])
        \* Whether a header has ended is seen by the byte after its line.
        ended == {h \in headers : \E g \in headers : g > h /\ g <= Len(bytes)}
        keys == {h \in ended : IsKeyHeader(Header(h))}
    IN [wrong |-> \/ \E s \in starts : s <= request /\ Len(Line(s)) > MaxLine
                  \/ full # {} /\ ~ValidRequest(Line(request))
                  \/ \E h \in headers : Len(Header(h)) > MaxLine
                  \/ \E h \in ended : ~HasColon(Header(h))
                  \/ Cardinality(keys) > 1
                  \/ blank # {} /\ keys = {},
        over |-> blank # {},
        values |-> {Value(Header(h)) : h \in keys}]

(* However the bytes are cut into pieces, the parser of the handshake says  *)
(* of what it has read what there is to say of the whole: that it is wrong, *)
(* that it is over and which key it gave, or that more is to come.          *)
HandshakeIsRight ==
    piece = <<>> =>
      LET handshake == Handshake(SubSeq(sent, 1, pos)) IN
      IF hs.state = "DONE"
      THEN handshake.over /\ ~handshake.wrong /\ handshake.values = {hs.key.value}
      ELSE IF conn.state = "ERROR" THEN handshake.wrong
      ELSE ~handshake.wrong /\ ~handshake.over

\* The two together: the values are of their types, and the handshake is read right.
WebSocketSound == WebSocketTypeOK /\ HandshakeIsRight

\* The frames of which all the bytes have come
FrameEnd(k) ==
    Len(plan.text)
      + FoldLeft(LAMBDA n, frame : n + HeaderSize(frame) + frame.len, 0,
                 SubSeq(plan.frames, 1, k))
Whole == {k \in DOMAIN plan.frames : FrameEnd(k) <= pos}

DataBetween(first, last) ==
    FlattenSeq([i \in 1..(last - first + 1) |->
                  LET frame == plan.frames[first + i - 1]
                  IN IF IsData(frame) THEN Payload(frame) ELSE <<>>])

Finals(frames) == {k \in frames : IsData(plan.frames[k]) /\ plan.frames[k].fin}
AfterFinal(k) == Max({j + 1 : j \in Finals(1..(k - 1))} \union {1})

\* The frame is refused where it is, by its header or, an unknown control frame,
\* when it is whole.
Refused(k) ==
    LET frame == plan.frames[k] IN
    \/ /\ FrameEnd(k) - frame.len - HeaderSize(frame) + LengthSize(frame) <= pos
       /\ BadHeader(frame, DataBetween(AfterFinal(k), k - 1))
    \/ k \in Whole /\ frame.op = "other control"

(* However the bytes are cut into pieces, and whatever control frames come  *)
(* between the fragments, the messages are those of the whole frames, each  *)
(* of the fragments up to a final one, the last ping waits for its pong,    *)
(* and the rest is kept for later.  A connection fails exactly by a frame   *)
(* that has to be refused, and closes cleanly only between two messages.    *)
MessagesAreWhole ==
    (piece = <<>> /\ ~conn.parsing /\ hs.state = "DONE") =>
      LET n == Cardinality(Whole)
          finals == SetToSortSeq(Finals(Whole), <)
          pings == {k \in Whole : plan.frames[k].op = "ping"}
          refused == \E k \in DOMAIN plan.frames : Refused(k)
      IN IF conn.state = "ERROR" THEN refused
         ELSE /\ ~refused
              /\ conn.messages = [i \in DOMAIN finals |->
                                    DataBetween(AfterFinal(finals[i]), finals[i])]
              /\ conn.data = DataBetween(AfterFinal(n + 1), n)
              /\ conn.pong = IF pings = {} THEN <<>> ELSE Payload(plan.frames[Max(pings)])
              /\ conn.buf = SubSeq(sent, FrameEnd(n) + 1, pos)
              /\ conn.state = "CLOSED" => conn.data = <<>> /\ pos = FrameEnd(n)

(* "Maximum number of bytes allowed in a payload.  The server keeps a       *)
(* buffer of this size around for each connection"                          *)
(* (src/common/vsx-proto.h): the buffer has room for a frame whose payload  *)
(* is allowed, so that the loop of vsx_connection_parse_data gets on.       *)
AllowedFrameFits ==
    (conn.state = "OPEN" /\ piece # <<>> /\ ~conn.parsing) => Len(conn.buf) < BufSize
=============================================================================
