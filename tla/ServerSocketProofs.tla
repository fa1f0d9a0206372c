------------------------- MODULE ServerSocketProofs -------------------------
(***************************************************************************)
(* Proofs about the sockets of the server and its loop, for any finite     *)
(* number of connections, with TLS or without, any times, any buffer and   *)
(* any number of faults.                                                   *)
(***************************************************************************)
EXTENDS ServerSocket, FiniteSetTheorems, TLAPS

-----------------------------------------------------------------------------
(* The inductive invariant.                                                *)

Blocks == {{}, {"IN"}, {"OUT"}}

Conns ==
    [ws : {"HEADERS", "DATA", "DONE"}, player : {"NONE", "IN", "LEFT"},
     game : 0 .. Cardinality(Conn), pending : BOOLEAN, partial : BOOLEAN,
     error : BOOLEAN, out : 0 .. OutCap, badInput : BOOLEAN,
     readFinished : BOOLEAN, writeFinished : BOOLEAN, readBlock : Blocks,
     writeBlock : Blocks, polled : SUBSET {"IN", "OUT"}, age : 0 .. ResponseTime]

\* What is true of a connection in the middle of a callback: only OpenSSL puts a
\* call off, and a write only if there is something to write; and what is shut
\* down has written everything, after bad input.
Whole(c, k) ==
    /\ k \in Conns
    /\ c \notin Tls => k.readBlock = {} /\ k.writeBlock = {}
    /\ k.player = "NONE" => k.game = NoGame
    /\ k.writeBlock # {} => k.out > 0
    /\ k.writeFinished => k.out = 0 /\ (k.badInput \/ k.readFinished)

\* What is polled is what update_poll says; of a socket that is shut down nothing
\* but its reading.
Polls(c, k) ==
    /\ k.readBlock \subseteq k.polled
    /\ k.readBlock = {} /\ ~k.readFinished => "IN" \in k.polled
    /\ ~k.writeFinished => /\ k.writeBlock \subseteq k.polled
                           /\ k.writeBlock = {} /\ (k.out > 0 \/ HasData(k))
                                => "OUT" \in k.polled
    /\ k.writeFinished => ~k.readFinished /\ k.polled = ReadFlags(k)
    /\ c \notin Tls /\ "OUT" \in k.polled => k.out > 0 \/ HasData(k)

Fits(c, k) == Whole(c, k) /\ Polls(c, k)

\* What an event of the batch says that a connection can be written to is still
\* so when its turn comes, whatever other connections have done to it.
Writable(c, k) ==
    /\ c \notin Tls => "OUT" \in k.polled \/ k.writeFinished
    /\ k.writeFinished /\ k.ws = "DATA" => "OUT" \in k.readBlock

BatchEvents == [source : Conn \cup {Listener, Pipe},
           events : SUBSET {"IN", "OUT", "HUP", "ERR"}]

BatchFits ==
    /\ batch \subseteq BatchEvents
    /\ phase = "POLL" => batch = {}
    /\ \A e, f \in batch : e.source = f.source => e = f
    /\ \A e \in batch : e.source \notin waiting
    /\ \A e \in batch : e.source \in Sockets /\ "OUT" \in e.events =>
         Writable(e.source, conn[e.source])

ConnsFit ==
    /\ conn \in [Conn -> {NoConn} \cup Conns]
    /\ \A c \in Sockets : Fits(c, conn[c])

LoopFits ==
    /\ plan \in Plan
    /\ waiting \subseteq Conn \ Sockets
    /\ phase \in {"POLL", "DISPATCH", "STOPPED", "FREED", "CRASHED"}
    /\ quit \in {"NO", "SIGNALLED", "YES"}
    /\ gcSet \in BOOLEAN /\ listening \in BOOLEAN
    /\ passed \in NoBucket .. GcTime /\ elapsed \in 0 .. GcTime
    /\ gcSet <=> Sockets # {}
    /\ ~listening => Cardinality(Sockets) >= plan.files

SocketInvariant == ConnsFit /\ LoopFits /\ BatchFits

LEMMA InvariantIsSound == SocketInvariant => SocketSound
<1>. SUFFICES ASSUME SocketInvariant PROVE SocketSound
  OBVIOUS
<1>1. ASSUME NEW c \in Sockets
      PROVE  /\ conn[c] \in Conns /\ Polls(c, conn[c])
  BY DEF SocketInvariant, ConnsFit, Fits, Whole
<1>2. SocketTypeOK
  <2>1. ASSUME NEW c \in Sockets
        PROVE  LET k == conn[c] IN
               /\ k.ws \in {"HEADERS", "DATA", "DONE"}
               /\ k.player \in {"NONE", "IN", "LEFT"}
               /\ k.game \in 0 .. Cardinality(Conn)
               /\ {k.pending, k.partial, k.error, k.badInput, k.readFinished,
                   k.writeFinished} \subseteq BOOLEAN
               /\ k.out \in 0 .. OutCap
               /\ k.readBlock \cup k.writeBlock \cup k.polled \subseteq {"IN", "OUT"}
               /\ k.age \in 0 .. ResponseTime
    BY <1>1 DEF Conns, Blocks
  <2>2. /\ waiting \subseteq Conn \ Sockets
        /\ phase \in {"POLL", "DISPATCH", "STOPPED", "FREED", "CRASHED"}
        /\ quit \in {"NO", "SIGNALLED", "YES"}
        /\ {gcSet, listening} \subseteq BOOLEAN
        /\ passed \in NoBucket .. GcTime /\ elapsed \in 0 .. GcTime
    BY DEF SocketInvariant, LoopFits
  <2>. QED
    BY <2>1, <2>2 DEF SocketTypeOK
<1>3. NothingWaitsUnpolled
  BY <1>1 DEF NothingWaitsUnpolled, Polls, SocketInvariant, LoopFits
<1>. QED
  BY <1>2, <1>3 DEF SocketSound

-----------------------------------------------------------------------------
(* update_poll.                                                            *)

LEMMA OutcomesFit ==
    ASSUME NEW o \in Outcomes, NEW c \in Conn
    PROVE  o[c] \in Outcome /\ (c \notin Tls => o[c] \in {"DONE", "FAIL"})
BY DEF Outcomes, ShutOutcome

\* update_poll gives a connection up, or changes nothing but whether it is shut
\* down and what is polled.
LEMMA UpdatePollFields ==
    ASSUME NEW k \in Conns, NEW o \in Outcome, UpdatePoll(k, o) # NoConn
    PROVE  LET new == UpdatePoll(k, o)
               shutting == ~k.writeFinished /\ ShouldShutdown(k)
               shut == k.writeFinished \/ (shutting /\ o = "DONE")
               polled == ReadFlags(k) \cup (IF shutting THEN Wanted(o) ELSE {})
                            \cup (IF shut THEN {} ELSE WriteFlags(k))
           IN /\ ~(k.readFinished /\ shut)
              /\ new = [k EXCEPT !.writeFinished = shut, !.polled = polled]
              /\ new \in Conns /\ new.writeFinished = shut /\ new.polled = polled
              /\ new.ws = k.ws /\ new.player = k.player /\ new.game = k.game
              /\ new.pending = k.pending /\ new.out = k.out
              /\ new.badInput = k.badInput /\ new.readFinished = k.readFinished
              /\ new.readBlock = k.readBlock /\ new.writeBlock = k.writeBlock
<1>. DEFINE new == UpdatePoll(k, o)
            shutting == ~k.writeFinished /\ ShouldShutdown(k)
            shut == k.writeFinished \/ (shutting /\ o = "DONE")
            polled == ReadFlags(k) \cup (IF shutting THEN Wanted(o) ELSE {})
                            \cup (IF shut THEN {} ELSE WriteFlags(k))
<1>1. ~((shutting /\ o = "FAIL") \/ (k.readFinished /\ shut))
      /\ new = [k EXCEPT !.writeFinished = shut, !.polled = polled]
  BY DEF UpdatePoll
<1>2. polled \subseteq {"IN", "OUT"}
  BY DEF ReadFlags, WriteFlags, Wanted, Conns, Blocks
<1>3. shut \in BOOLEAN
  BY DEF Conns
<1>. HIDE DEF new, shutting, polled, shut
<1>4. [k EXCEPT !.writeFinished = shut, !.polled = polled] \in Conns
  BY <1>2, <1>3 DEF Conns
<1>5. /\ new \in Conns /\ new.writeFinished = shut /\ new.polled = polled
      /\ new.ws = k.ws /\ new.player = k.player /\ new.game = k.game
      /\ new.pending = k.pending /\ new.out = k.out
      /\ new.badInput = k.badInput /\ new.readFinished = k.readFinished
      /\ new.readBlock = k.readBlock /\ new.writeBlock = k.writeBlock
  BY <1>1, <1>4 DEF Conns
<1>6. ~(k.readFinished /\ shut)
  BY <1>1
<1>. QED
  BY <1>1, <1>5, <1>6 DEF new, shutting, polled, shut

\* What update_poll leaves of a connection polls for what it needs, and has only
\* been shut down if nothing was left to write.
LEMMA UpdatePollFits ==
    ASSUME NEW c, NEW k, Whole(c, k), NEW o \in Outcome,
           c \notin Tls => o \in {"DONE", "FAIL"},
           UpdatePoll(k, o) # NoConn
    PROVE  LET new == UpdatePoll(k, o)
           IN /\ Fits(c, new)
              /\ k.writeFinished => new.writeFinished
              /\ ~k.writeFinished /\ new.writeFinished =>
                   new.out = 0 /\ ~HasData(new) /\ ~HasData(k)
              /\ HasData(new) = HasData(k)
              /\ new.ws = k.ws /\ new.readBlock = k.readBlock /\ new.out = k.out
<1>. DEFINE new == UpdatePoll(k, o)
            shutting == ~k.writeFinished /\ ShouldShutdown(k)
            shut == k.writeFinished \/ (shutting /\ o = "DONE")
            wanted == IF shutting THEN Wanted(o) ELSE {}
            polled == ReadFlags(k) \cup wanted
                            \cup (IF shut THEN {} ELSE WriteFlags(k))
<1>0. k \in Conns
  BY DEF Whole
<1>1. /\ ~(k.readFinished /\ shut)
      /\ new \in Conns /\ new.writeFinished = shut /\ new.polled = polled
      /\ new.ws = k.ws /\ new.player = k.player /\ new.game = k.game
      /\ new.pending = k.pending /\ new.out = k.out
      /\ new.badInput = k.badInput /\ new.readFinished = k.readFinished
      /\ new.readBlock = k.readBlock /\ new.writeBlock = k.writeBlock
  BY <1>0, UpdatePollFields
<1>2. HasData(new) = HasData(k)
  BY <1>1 DEF HasData
<1>3. ReadFlags(new) = ReadFlags(k)
  BY <1>1 DEF ReadFlags
<1>4. shutting => k.out = 0 /\ ~HasData(k) /\ (k.badInput \/ k.readFinished)
  BY <1>0 DEF ShouldShutdown, HasData
<1>5. shut => wanted = {}
  BY <1>0 DEF Wanted, Conns
<1>6. c \notin Tls => wanted = {}
  BY DEF Wanted
<1>. HIDE DEF new, shutting, wanted
<1>7. Whole(c, new)
  BY <1>1, <1>4 DEF Whole
<1>8. Polls(c, new)
  <2>1. new.readBlock \subseteq new.polled
        /\ (new.readBlock = {} /\ ~new.readFinished => "IN" \in new.polled)
    BY <1>1 DEF ReadFlags
  <2>2. ~new.writeFinished => /\ new.writeBlock \subseteq new.polled
                              /\ new.writeBlock = {} /\ (new.out > 0 \/ HasData(new))
                                   => "OUT" \in new.polled
    BY <1>1, <1>2 DEF WriteFlags
  <2>3. new.writeFinished => ~new.readFinished /\ new.polled = ReadFlags(new)
    BY <1>1, <1>3, <1>5
  <2>4. c \notin Tls /\ "OUT" \in new.polled => new.out > 0 \/ HasData(new)
    <3>. SUFFICES ASSUME c \notin Tls, "OUT" \in new.polled
                  PROVE  new.out > 0 \/ HasData(new)
      OBVIOUS
    <3>1. k.readBlock = {} /\ k.writeBlock = {}
      BY DEF Whole
    <3>2. "OUT" \notin ReadFlags(k)
      BY <3>1 DEF ReadFlags
    <3>3. "OUT" \in WriteFlags(k)
      BY <1>1, <1>6, <3>2
    <3>. QED
      BY <1>1, <1>2, <3>1, <3>3 DEF WriteFlags
  <2>. QED
    BY <2>1, <2>2, <2>3, <2>4 DEF Polls
<1>9. shut = (k.writeFinished \/ (shutting /\ o = "DONE"))
  OBVIOUS
<1>. HIDE DEF shut, polled
<1>10. k.writeFinished \in BOOLEAN
  BY <1>0 DEF Conns
<1>11. /\ k.writeFinished => new.writeFinished
       /\ ~k.writeFinished /\ new.writeFinished => new.out = 0 /\ ~HasData(new) /\ ~HasData(k)
  BY <1>1, <1>2, <1>4, <1>9
<1>. QED
  BY <1>1, <1>2, <1>7, <1>8, <1>11 DEF Fits, new

-----------------------------------------------------------------------------
(* The end of a callback.                                                  *)

\* What ShutIsFinal says of one connection.
ShutsRightly(k, new) ==
    /\ ~k.writeFinished /\ new.writeFinished => new.out = 0 /\ ~HasData(new)
    /\ k.writeFinished /\ HasData(k) => HasData(new)

\* What a callback of c leaves: no new connections, and of the old ones those that
\* fit, of which others than c can still be written to if they could before.
CalledBack(c) ==
    /\ conn' \in [Conn -> {NoConn} \cup Conns]
    /\ \A d \in Conn : ~Live(d) => conn'[d] = NoConn
    /\ \A d \in Sockets : conn'[d] # NoConn =>
         /\ Fits(d, conn'[d])
         /\ ShutsRightly(conn[d], conn'[d])
         /\ d # c /\ Writable(d, conn[d]) => Writable(d, conn'[d])
    /\ Settle(conn')

\* What a callback has made of its connection before it comes to its end.
Leads(k, new) ==
    /\ new.writeFinished = k.writeFinished
    /\ k.writeFinished /\ HasData(k) => HasData(new)

\* Another player's connection, which has now something to tell.
LEMMA DirtyFits ==
    ASSUME NEW d, NEW k, Fits(d, k), NEW o \in Outcome,
           d \notin Tls => o \in {"DONE", "FAIL"},
           UpdatePoll(Dirty(k), o) # NoConn
    PROVE  LET new == UpdatePoll(Dirty(k), o)
           IN Fits(d, new) /\ ShutsRightly(k, new) /\ (Writable(d, k) => Writable(d, new))
<1>. DEFINE j == Dirty(k)
            new == UpdatePoll(j, o)
<1>1. k \in Conns /\ Whole(d, k) /\ Polls(d, k)
  BY DEF Fits, Whole
<1>2. /\ j \in Conns /\ j.pending = TRUE
      /\ j.ws = k.ws /\ j.player = k.player /\ j.game = k.game /\ j.out = k.out
      /\ j.badInput = k.badInput /\ j.readFinished = k.readFinished
      /\ j.readBlock = k.readBlock /\ j.writeBlock = k.writeBlock
      /\ j.writeFinished = k.writeFinished
  BY <1>1 DEF Conns, Dirty
<1>. HIDE DEF j
<1>3. Whole(d, j)
  BY <1>1, <1>2 DEF Whole
<1>4. HasData(j) <=> k.ws = "DATA"
  BY <1>2 DEF HasData
<1>5. /\ Fits(d, new)
      /\ j.writeFinished => new.writeFinished
      /\ ~j.writeFinished /\ new.writeFinished => new.out = 0 /\ ~HasData(new) /\ ~HasData(j)
      /\ HasData(new) = HasData(j)
      /\ new.ws = j.ws /\ new.readBlock = j.readBlock /\ new.out = j.out
  BY <1>3, UpdatePollFits DEF j
<1>. HIDE DEF new
<1>6. ShutsRightly(k, new)
  BY <1>2, <1>4, <1>5 DEF ShutsRightly, HasData
<1>7. ASSUME Writable(d, k) PROVE Writable(d, new)
  <2>1. ASSUME d \notin Tls PROVE "OUT" \in new.polled \/ new.writeFinished
    <3>1. CASE k.writeFinished
      BY <1>2, <1>5, <3>1
    <3>2. CASE ~k.writeFinished
      <4>1. k.out > 0 \/ HasData(k)
        BY <1>1, <1>7, <2>1, <3>2 DEF Writable, Polls
      <4>2. new.out > 0 \/ HasData(new)
        BY <1>2, <1>4, <1>5, <4>1 DEF HasData
      <4>3. new.writeBlock = {}
        BY <1>5, <2>1 DEF Fits, Whole
      <4>. QED
        BY <1>5, <4>2, <4>3 DEF Fits, Polls
    <3>. QED
      BY <3>1, <3>2
  <2>2. ASSUME new.writeFinished, new.ws = "DATA" PROVE "OUT" \in new.readBlock
    <3>1. k.writeFinished
      BY <1>2, <1>4, <1>5, <2>2
    <3>. QED
      BY <1>2, <1>5, <1>7, <2>2, <3>1 DEF Writable
  <2>. QED
    BY <2>1, <2>2 DEF Writable
<1>. QED
  BY <1>5, <1>6, <1>7 DEF new, j

LEMMA FinishCallsBack ==
    ASSUME ConnsFit, NEW put, NEW c \in Sockets, NEW k, NEW n, NEW changed \in BOOLEAN,
           Whole(c, k), Leads(conn[c], k), FinishAfter(put, c, k, n, changed)
    PROVE  CalledBack(c)
<1>. DEFINE updates(d) == d = c \/ (changed /\ Follows(d, k))
            before == [d \in Conn |-> IF d = c THEN k
                                      ELSE IF updates(d) THEN Dirty(conn[d])
                                      ELSE NoConn]
<1>1. PICK o \in Outcomes :
        Settle([d \in Conn |-> IF updates(d) THEN UpdatePoll(before[d], o[d])
                               ELSE conn[d]])
  BY DEF FinishAfter
<1>. DEFINE new == [d \in Conn |-> IF updates(d) THEN UpdatePoll(before[d], o[d])
                                   ELSE conn[d]]
<1>2. conn' = new /\ Settle(conn')
  BY <1>1 DEF Settle
<1>3. c \in Conn /\ Live(c)
  BY DEF Sockets
<1>4. conn \in [Conn -> {NoConn} \cup Conns]
  BY DEF ConnsFit
<1>5. new[c] # NoConn => Fits(c, new[c]) /\ ShutsRightly(conn[c], new[c])
  <2>1. new[c] = UpdatePoll(k, o[c])
    BY <1>3
  <2>2. o[c] \in Outcome /\ (c \notin Tls => o[c] \in {"DONE", "FAIL"})
    BY <1>3, OutcomesFit
  <2>. SUFFICES ASSUME UpdatePoll(k, o[c]) # NoConn
                PROVE  Fits(c, UpdatePoll(k, o[c])) /\ ShutsRightly(conn[c], UpdatePoll(k, o[c]))
    BY <2>1
  <2>. DEFINE q == UpdatePoll(k, o[c])
  <2>3. /\ Fits(c, q)
        /\ ~k.writeFinished /\ q.writeFinished => q.out = 0 /\ ~HasData(q) /\ ~HasData(k)
        /\ HasData(q) = HasData(k)
    BY <2>2, UpdatePollFits
  <2>. HIDE DEF q
  <2>4. ShutsRightly(conn[c], q)
    BY <2>3 DEF ShutsRightly, Leads
  <2>. QED
    BY <2>3, <2>4 DEF q
<1>6. ASSUME NEW d \in Conn, d # c
      PROVE  /\ ~Live(d) => new[d] = NoConn
             /\ Live(d) /\ new[d] # NoConn =>
                  /\ Fits(d, new[d]) /\ ShutsRightly(conn[d], new[d])
                  /\ Writable(d, conn[d]) => Writable(d, new[d])
  <2>1. CASE ~updates(d)
    <3>1. new[d] = conn[d]
      BY <2>1
    <3>2. Live(d) => Fits(d, conn[d])
      BY DEF ConnsFit, Sockets
    <3>3. Live(d) => ShutsRightly(conn[d], conn[d])
      BY DEF ShutsRightly
    <3>. QED
      BY <3>1, <3>2, <3>3 DEF Live
  <2>2. CASE updates(d)
    <3>1. Live(d) /\ Fits(d, conn[d])
      BY <1>6, <2>2 DEF Follows, ConnsFit, Sockets
    <3>2. new[d] = UpdatePoll(Dirty(conn[d]), o[d])
      BY <1>6, <2>2
    <3>3. o[d] \in Outcome /\ (d \notin Tls => o[d] \in {"DONE", "FAIL"})
      BY OutcomesFit
    <3>. HIDE DEF new
    <3>. QED
      BY <3>1, <3>2, <3>3, DirtyFits
  <2>. QED
    BY <2>1, <2>2
<1>7. \A d \in Conn : ~Live(d) => new[d] = NoConn
  BY <1>3, <1>6
<1>8. \A d \in Sockets : new[d] # NoConn => Fits(d, new[d])
  BY <1>5, <1>6 DEF Sockets
<1>9. new \in [Conn -> {NoConn} \cup Conns]
  <2>1. DOMAIN new = Conn /\ new = [d \in Conn |-> new[d]]
    OBVIOUS
  <2>. HIDE DEF new
  <2>2. \A d \in Conn : new[d] \in {NoConn} \cup Conns
    BY <1>7, <1>8 DEF Sockets, Fits, Whole
  <2>. QED
    BY <2>1, <2>2
<1>10. ASSUME NEW d \in Sockets, new[d] # NoConn
       PROVE  /\ Fits(d, new[d])
              /\ ShutsRightly(conn[d], new[d])
              /\ d # c /\ Writable(d, conn[d]) => Writable(d, new[d])
  BY <1>5, <1>6, <1>10 DEF Sockets
<1>. HIDE DEF new
<1>. QED
  BY <1>2, <1>7, <1>9, <1>10 DEF CalledBack

LEMMA RemoveCallsBack ==
    ASSUME ConnsFit, NEW c \in Sockets, Remove(c)
    PROVE  CalledBack(c)
<1>1. conn' = [conn EXCEPT ![c] = NoConn] /\ Settle(conn')
  BY DEF Remove, Settle
<1>2. conn \in [Conn -> {NoConn} \cup Conns] /\ \A d \in Sockets : Fits(d, conn[d])
  BY DEF ConnsFit
<1>3. c \in Conn
  BY DEF Sockets
<1>4. \A d \in Sockets : ShutsRightly(conn[d], conn[d])
  BY DEF ShutsRightly
<1>5. \A d \in Conn : conn'[d] = IF d = c THEN NoConn ELSE conn[d]
  BY <1>1, <1>2
<1>6. conn' \in [Conn -> {NoConn} \cup Conns]
  BY <1>1, <1>2
<1>7. \A d \in Conn : ~Live(d) => conn'[d] = NoConn
  BY <1>5 DEF Live
<1>. QED
  BY <1>1, <1>2, <1>4, <1>5, <1>6, <1>7 DEF CalledBack, Sockets

LEMMA ReturnCallsBack ==
    ASSUME ConnsFit, NEW c \in Sockets, NEW put, NEW k, Fits(c, k),
           ShutsRightly(conn[c], k), Return(put, c, k)
    PROVE  CalledBack(c)
<1>1. conn' = [conn EXCEPT ![c] = k] /\ Settle(conn')
  BY DEF Return, Settle
<1>2. conn \in [Conn -> {NoConn} \cup Conns] /\ \A d \in Sockets : Fits(d, conn[d])
  BY DEF ConnsFit
<1>3. c \in Conn /\ k \in Conns
  BY DEF Sockets, Fits, Whole
<1>4. \A d \in Sockets : ShutsRightly(conn[d], conn[d])
  BY DEF ShutsRightly
<1>5. \A d \in Conn : conn'[d] = IF d = c THEN k ELSE conn[d]
  BY <1>1, <1>2
<1>6. conn' \in [Conn -> {NoConn} \cup Conns]
  BY <1>1, <1>2, <1>3
<1>7. \A d \in Conn : ~Live(d) => conn'[d] = NoConn
  BY <1>5 DEF Live, Sockets
<1>. QED
  BY <1>1, <1>2, <1>4, <1>5, <1>6, <1>7 DEF CalledBack, Sockets

-----------------------------------------------------------------------------
(* Reading.                                                                *)

\* There is always a number for another game.
LEMMA EnterableFits ==
    ASSUME ConnsFit, NEW c \in Sockets, conn[c].player = "NONE"
    PROVE  Enterable \subseteq 0 .. Cardinality(Conn)
<1>. DEFINE N == Cardinality(Conn)
            others == Sockets \ {c}
            games == {conn[d].game : d \in others}
            used == {conn[d].game : d \in Sockets}
<1>1. \A d \in Sockets : conn[d] \in Conns /\ d \in Conn
  BY DEF ConnsFit, Fits, Whole, Sockets
<1>2. conn[c].game = NoGame
  BY DEF ConnsFit, Fits, Whole
<1>3. IsFiniteSet(Conn) /\ N \in Nat
  BY SocketAssumption, FS_CardinalityType
<1>4. IsFiniteSet(Conn \ {c}) /\ Cardinality(Conn \ {c}) = N - 1
  BY <1>1, <1>3, FS_RemoveElement
<1>5. others \subseteq Conn \ {c}
  BY <1>1
<1>6. IsFiniteSet(others) /\ Cardinality(others) \in Nat /\ Cardinality(others) <= N - 1
  BY <1>4, <1>5, FS_Subset, FS_CardinalityType
<1>7. IsFiniteSet(games) /\ Cardinality(games) <= Cardinality(others)
      /\ Cardinality(games) \in Nat
  <2>. DEFINE g(d) == conn[d].game
  <2>1. IsFiniteSet({g(d) : d \in others})
        /\ Cardinality({g(d) : d \in others}) <= Cardinality(others)
    <3>1. [d \in others |-> conn[d].game] \in Surjection(others, games)
      BY DEF Surjection
    <3>. QED
      BY <1>6, <3>1, FS_Surjection
  <2>. QED
    BY <2>1, FS_CardinalityType
<1>8. Unused # {}
  <2>. SUFFICES ASSUME Unused = {} PROVE FALSE
    OBVIOUS
  <2>1. 1 .. N \subseteq used
    BY DEF Unused
  <2>2. 1 .. N \subseteq games
    <3>1. ASSUME NEW i \in 1 .. N PROVE i \in games
      <4>1. PICK d \in Sockets : i = conn[d].game
        BY <2>1
      <4>2. d # c
        BY <1>2, <4>1 DEF NoGame
      <4>. QED
        BY <4>1, <4>2
    <3>. QED
      BY <3>1
  <2>3. Cardinality(1 .. N) = N
    BY <1>3, FS_Interval
  <2>4. Cardinality(1 .. N) <= Cardinality(games)
    BY <1>7, <2>2, FS_Subset
  <2>. HIDE DEF N, games, others
  <2>. QED
    BY <1>3, <1>6, <1>7, <2>3, <2>4
<1>9. (CHOOSE g \in Unused : TRUE) \in 0 .. N
  <2>1. (CHOOSE g \in Unused : TRUE) \in Unused
    BY <1>8
  <2>. QED
    BY <1>3, <2>1 DEF Unused
<1>10. Playing \subseteq 0 .. N
  BY <1>1 DEF Playing, Conns
<1>. QED
  BY <1>9, <1>10 DEF Enterable

\* Input changes nothing of what is written.
LEMMA ParsedFits ==
    ASSUME NEW c, NEW k, Whole(c, k), ~k.writeFinished,
           k.player = "NONE" => Enterable \subseteq 0 .. Cardinality(Conn),
           NEW unit, NEW p \in Parsed(k, unit)
    PROVE  Whole(c, p.conn) /\ ~p.conn.writeFinished /\ p.changed \in BOOLEAN
<1>. DEFINE heard == [k EXCEPT !.age = 0, !.partial = FALSE]
            Same(j) == /\ j \in Conns
                       /\ j.readBlock = k.readBlock /\ j.writeBlock = k.writeBlock
                       /\ j.out = k.out /\ j.writeFinished = k.writeFinished
                       /\ j.player = "NONE" => j.game = NoGame
<1>1. k \in Conns /\ (k.player = "NONE" => k.game = NoGame)
  BY DEF Whole
<1>2. 0 \in 0 .. ResponseTime
  BY SocketAssumption
<1>3. ASSUME NEW j, Same(j), NEW b \in BOOLEAN, p = [conn |-> j, changed |-> b]
      PROVE  Whole(c, p.conn) /\ ~p.conn.writeFinished /\ p.changed \in BOOLEAN
  BY <1>3 DEF Whole
<1>4. heard \in Conns /\ Same(heard)
  BY <1>1, <1>2 DEF Conns
<1>. HIDE DEF heard
<1>5. Heard(k) = heard
  BY DEF Heard, heard
<1>6. heard.player = k.player /\ heard.game = k.game
  BY <1>1 DEF heard, Conns
<1>7. ASSUME NEW j, Same(j) PROVE Same(Bad(j))
  BY <1>7 DEF Bad, Conns
<1>8. CASE unit = "PART"
  <2>1. Same([k EXCEPT !.partial = k.ws # "HEADERS"])
    BY <1>1 DEF Conns
  <2>2. p = [conn |-> [k EXCEPT !.partial = k.ws # "HEADERS"], changed |-> FALSE]
    BY <1>8 DEF Parsed
  <2>. HIDE DEF Same
  <2>. QED
    BY <1>3, <2>1, <2>2
<1>9. Same(k)
  BY <1>1
<1>10. CASE unit # "PART" /\ k.ws = "HEADERS"
  <2>1. Same([k EXCEPT !.ws = "DATA", !.pending = TRUE])
    BY <1>1 DEF Conns
  <2>2. Same(Bad(k))
    BY <1>7, <1>9
  <2>3. \/ p = [conn |-> [k EXCEPT !.ws = "DATA", !.pending = TRUE], changed |-> FALSE]
        \/ p = [conn |-> Bad(k), changed |-> FALSE]
    BY <1>10 DEF Parsed
  <2>. HIDE DEF Same
  <2>. QED
    BY <1>3, <2>1, <2>2, <2>3
<1>11. CASE unit # "PART" /\ k.ws # "HEADERS"
  <2>1. Same([k EXCEPT !.pending = TRUE, !.partial = FALSE])
    BY <1>1 DEF Conns
  <2>2. ASSUME k.player = "NONE", NEW g \in Enterable PROVE Same(Entered(k, g))
    <3>1. g \in 0 .. Cardinality(Conn)
      BY <2>2
    <3>. QED
      BY <1>4, <1>5, <3>1 DEF Entered, Conns
  <2>3. Same(TurnedAway(k))
    BY <1>4, <1>5 DEF TurnedAway, Conns
  <2>4. Same([Heard(k) EXCEPT !.player = "LEFT"])
    BY <1>4, <1>5 DEF Conns
  <2>5. Same(Bad(k)) /\ Same(Bad(Heard(k))) /\ Same(Heard(k))
    BY <1>4, <1>5, <1>7, <1>9
  <2>6. \/ p = [conn |-> [k EXCEPT !.pending = TRUE, !.partial = FALSE], changed |-> FALSE]
        \/ k.player = "NONE" /\ \E g \in Enterable : p = [conn |-> Entered(k, g), changed |-> TRUE]
        \/ p = [conn |-> TurnedAway(k), changed |-> FALSE]
        \/ p = [conn |-> Heard(k), changed |-> k.player = "IN"]
        \/ p = [conn |-> [Heard(k) EXCEPT !.player = "LEFT"], changed |-> k.player = "IN"]
        \/ p = [conn |-> Bad(k), changed |-> FALSE]
        \/ p = [conn |-> Bad(Heard(k)), changed |-> FALSE]
    BY <1>11 DEF Parsed
  <2>. HIDE DEF Same
  <2>. QED
    BY <1>3, <2>1, <2>2, <2>3, <2>4, <2>5, <2>6
<1>. QED
  BY <1>8, <1>10, <1>11

\* A call of OpenSSL that was put off is made anew.
LEMMA ReadingFits ==
    ASSUME ConnsFit, NEW c \in Sockets
    PROVE  /\ Whole(c, Reading(c)) /\ Leads(conn[c], Reading(c))
           /\ Reading(c).badInput = conn[c].badInput
           /\ Reading(c).player = conn[c].player
<1>1. Whole(c, conn[c]) /\ conn[c] \in Conns
  BY DEF ConnsFit, Fits, Whole
<1>2. CASE c \notin Tls
  <2>1. Reading(c) = conn[c]
    BY <1>2 DEF Reading
  <2>. QED
    BY <1>1, <2>1 DEF Leads
<1>3. CASE c \in Tls
  <2>. DEFINE k == conn[c]
              j == [k EXCEPT !.readBlock = {}]
  <2>1. Reading(c) = j
    BY <1>3 DEF Reading
  <2>2. /\ j \in Conns /\ j.readBlock = {}
        /\ j.ws = k.ws /\ j.player = k.player /\ j.game = k.game /\ j.out = k.out
        /\ j.badInput = k.badInput /\ j.readFinished = k.readFinished
        /\ j.pending = k.pending /\ j.writeBlock = k.writeBlock
        /\ j.writeFinished = k.writeFinished
    BY <1>1 DEF Conns, Blocks
  <2>. HIDE DEF j
  <2>3. Whole(c, j)
    BY <1>1, <1>3, <2>2 DEF Whole
  <2>4. Leads(k, j)
    BY <2>2 DEF Leads, HasData
  <2>. QED
    BY <2>1, <2>2, <2>3, <2>4
<1>. QED
  BY <1>2, <1>3

LEMMA HandleReadCallsBack ==
    ASSUME ConnsFit, NEW c \in Sockets, HandleRead(c)
    PROVE  CalledBack(c)
<1>. DEFINE k == conn[c]
<1>1. Fits(c, k) /\ Whole(c, k) /\ k \in Conns
  BY DEF ConnsFit, Fits, Whole
<1>2. ASSUME NEW put, NEW j, Whole(c, j), Leads(k, j), NEW n, NEW b \in BOOLEAN,
             FinishAfter(put, c, j, n, b)
      PROVE  CalledBack(c)
  BY <1>2, FinishCallsBack
<1>3. Leads(k, k)
  BY DEF Leads
<1>4. CASE k.readFinished
  <2>1. FinishAfter(0, c, k, net[c], FALSE)
    BY <1>4 DEF HandleRead, Finish
  <2>. QED
    BY <1>1, <1>2, <1>3, <2>1
<1>. DEFINE r == Reading(c)
<1>5. /\ Whole(c, r) /\ Leads(k, r) /\ r \in Conns
      /\ r.badInput = k.badInput /\ r.player = k.player
  BY ReadingFits DEF Whole
<1>6. CASE ~k.readFinished /\ ReadData(c)
  <2>. DEFINE n == [net[c] EXCEPT !.input = Tail(@)]
  <2>1. CASE k.badInput
    <3>1. FinishAfter(0, c, r, n, FALSE)
      BY <1>6, <2>1 DEF ReadData, Finish
    <3>. QED
      BY <1>2, <1>5, <3>1
  <2>2. CASE ~k.badInput
    <3>1. PICK p \in Parsed(r, Head(net[c].input)) :
            FinishAfter(0, c, p.conn, n, p.changed)
      BY <1>6, <2>2 DEF ReadData, Finish
    <3>2. ~k.writeFinished
      BY <1>1, <1>6, <2>2 DEF Whole
    <3>3. ~r.writeFinished
      BY <1>5, <3>2 DEF Leads
    <3>4. r.player = "NONE" => Enterable \subseteq 0 .. Cardinality(Conn)
      BY <1>5, EnterableFits
    <3>. HIDE DEF r
    <3>5. Whole(c, p.conn) /\ ~p.conn.writeFinished /\ p.changed \in BOOLEAN
      BY <1>5, <3>3, <3>4, ParsedFits
    <3>6. Leads(k, p.conn)
      <4>1. p.conn.writeFinished \in BOOLEAN /\ k.writeFinished \in BOOLEAN
        BY <1>1, <3>5 DEF Whole, Conns
      <4>. QED
        BY <3>2, <3>5, <4>1 DEF Leads
    <3>. QED
      BY <1>2, <3>1, <3>5, <3>6
  <2>. QED
    BY <2>1, <2>2
<1>7. CASE ReadEof(c)
  <2>. DEFINE e == [r EXCEPT !.readFinished = TRUE]
              j == IF e.badInput \/ ParsesEof(e) THEN e ELSE Bad(e)
  <2>1. FinishAfter(0, c, j, net[c], FALSE)
    BY <1>7 DEF ReadEof, Finish
  <2>. HIDE DEF r
  <2>2. /\ j \in Conns /\ j.readFinished
        /\ j.readBlock = r.readBlock /\ j.writeBlock = r.writeBlock
        /\ j.player = r.player /\ j.game = r.game /\ j.out = r.out
        /\ j.writeFinished = r.writeFinished
        /\ j.ws = r.ws /\ j.pending = r.pending
    BY <1>5 DEF Conns, Bad
  <2>. HIDE DEF j
  <2>3. Whole(c, j)
    BY <1>5, <2>2 DEF Whole
  <2>4. Leads(k, j)
    BY <1>5, <2>2 DEF Leads, HasData
  <2>. QED
    BY <1>2, <2>1, <2>3, <2>4
<1>8. CASE ReadFails(c)
  BY <1>8, RemoveCallsBack DEF ReadFails
<1>9. CASE ReadPutOff(c)
  <2>1. CASE c \notin Tls
    <3>1. PICK put : Return(put, c, k)
      BY <1>9, <2>1 DEF ReadPutOff
    <3>2. ShutsRightly(k, k)
      BY DEF ShutsRightly
    <3>. QED
      BY <1>1, <3>1, <3>2, ReturnCallsBack
  <2>2. CASE c \in Tls
    <3>. DEFINE put == IF net[c].input = <<>> /\ ~net[c].fin /\ ~net[c].reset
                       THEN 0 ELSE 1
    <3>1. PICK flag \in {"IN", "OUT"} :
            FinishAfter(put, c, [k EXCEPT !.readBlock = {flag}], net[c], FALSE)
      BY <1>9, <2>2 DEF ReadPutOff
    <3>. DEFINE j == [k EXCEPT !.readBlock = {flag}]
    <3>2. /\ j \in Conns
          /\ j.writeBlock = k.writeBlock
          /\ j.player = k.player /\ j.game = k.game /\ j.out = k.out
          /\ j.badInput = k.badInput /\ j.readFinished = k.readFinished
          /\ j.writeFinished = k.writeFinished
          /\ j.ws = k.ws /\ j.pending = k.pending
      BY <1>1 DEF Conns, Blocks
    <3>3. FinishAfter(put, c, j, net[c], FALSE)
      BY <3>1
    <3>. HIDE DEF j
    <3>4. Whole(c, j)
      BY <1>1, <2>2, <3>2 DEF Whole
    <3>5. Leads(k, j)
      BY <3>2 DEF Leads, HasData
    <3>. QED
      BY <1>2, <3>3, <3>4, <3>5
  <2>. QED
    BY <2>1, <2>2
<1>10. k.readFinished \/ ReadData(c) \/ ReadEof(c) \/ ReadFails(c) \/ ReadPutOff(c)
  BY DEF HandleRead
<1>. QED
  BY <1>4, <1>6, <1>7, <1>8, <1>9, <1>10

-----------------------------------------------------------------------------
(* Writing.                                                                *)

\* The output buffer is filled, and nothing else is changed but what is pending
\* and whether that was all.
LEMMA FillingsFit ==
    ASSUME NEW k \in Conns, NEW f \in Fillings(k)
    PROVE  /\ f \in Conns /\ f.out >= k.out
           /\ f = k \/ k.ws = "DATA"
           /\ f.readBlock = k.readBlock /\ f.writeBlock = k.writeBlock
           /\ f.player = k.player /\ f.game = k.game /\ f.polled = k.polled
           /\ f.badInput = k.badInput /\ f.readFinished = k.readFinished
           /\ f.writeFinished = k.writeFinished
<1>. DEFINE written == IF ~k.pending THEN {k}
                       ELSE {[k EXCEPT !.pending = FALSE, !.out = n]
                               : n \in k.out + 1 .. OutCap}
            cut == {[k EXCEPT !.out = n]
                      : n \in {m \in k.out .. OutCap : k.pending /\ m > 0}}
            done == {[j EXCEPT !.ws = "DONE",
                           !.out = IF @ < OutCap THEN @ + 1 ELSE @] : j \in written}
            Filled(j) == /\ j \in Conns /\ j.out >= k.out
                         /\ j.readBlock = k.readBlock /\ j.writeBlock = k.writeBlock
                         /\ j.player = k.player /\ j.game = k.game /\ j.polled = k.polled
                         /\ j.badInput = k.badInput /\ j.readFinished = k.readFinished
                         /\ j.writeFinished = k.writeFinished
<1>1. OutCap \in Nat /\ k.out \in 0 .. OutCap
  BY SocketAssumption DEF Conns
<1>0. ASSUME NEW m \in 0 .. OutCap, m >= k.out
      PROVE  /\ (IF m < OutCap THEN m + 1 ELSE m) \in 0 .. OutCap
             /\ (IF m < OutCap THEN m + 1 ELSE m) >= k.out
  <2>. HIDE DEF written, cut, done, Filled
  <2>1. m \in Int /\ k.out \in Int
    BY <1>1
  <2>2. CASE m < OutCap
    BY <1>0, <1>1, <2>1, <2>2
  <2>3. CASE ~(m < OutCap)
    BY <1>0, <1>1, <2>1, <2>3
  <2>. QED
    BY <2>2, <2>3
<1>2. ASSUME NEW n \in k.out .. OutCap
      PROVE  Filled([k EXCEPT !.out = n]) /\ Filled([k EXCEPT !.pending = FALSE, !.out = n])
  <2>1. n \in 0 .. OutCap /\ n >= k.out
    BY <1>1
  <2>. QED
    BY <1>1, <2>1 DEF Conns
<1>3. Filled(k)
  BY <1>1
<1>4. ASSUME NEW j \in written PROVE Filled(j)
  <2>1. CASE j = k
    BY <1>3, <2>1
  <2>2. ASSUME NEW n \in k.out + 1 .. OutCap, j = [k EXCEPT !.pending = FALSE, !.out = n]
        PROVE  Filled(j)
    <3>1. n \in k.out .. OutCap
      <4>. HIDE DEF written
      <4>. QED
        BY <1>1
    <3>. HIDE DEF Filled
    <3>. QED
      BY <1>2, <2>2, <3>1
  <2>. QED
    BY <2>1, <2>2
<1>5. ASSUME NEW j \in cut PROVE Filled(j)
  <2>1. PICK n \in k.out .. OutCap : j = [k EXCEPT !.out = n]
    OBVIOUS
  <2>. HIDE DEF Filled
  <2>. QED
    BY <1>2, <2>1
<1>6. ASSUME NEW j \in done PROVE Filled(j)
  <2>1. PICK w \in written : j = [w EXCEPT !.ws = "DONE",
                                           !.out = IF @ < OutCap THEN @ + 1 ELSE @]
    OBVIOUS
  <2>2. Filled(w)
    BY <1>4
  <2>. HIDE DEF written
  <2>. DEFINE n == IF w.out < OutCap THEN w.out + 1 ELSE w.out
  <2>3. j = [w EXCEPT !.ws = "DONE", !.out = n]
    BY <2>1, <2>2 DEF Conns
  <2>4. n \in 0 .. OutCap /\ n >= k.out
    <3>1. w.out \in 0 .. OutCap /\ w.out >= k.out
      BY <2>2 DEF Conns
    <3>. QED
      BY <1>0, <3>1
  <2>. HIDE DEF n
  <2>. QED
    BY <2>2, <2>3, <2>4 DEF Conns
<1>7. k.ws # "DATA" => f = k
  BY DEF Fillings
<1>8. f = k \/ f \in cut \/ f \in written \/ f \in done
  BY DEF Fillings
<1>9. Filled(f)
  BY <1>3, <1>4, <1>5, <1>6, <1>8
<1>. QED
  BY <1>7, <1>9

LEMMA HandleWriteCallsBack ==
    ASSUME ConnsFit, NEW c \in Sockets, HandleWrite(c),
           c \notin Tls => "OUT" \in conn[c].polled \/ conn[c].writeFinished,
           ~(conn[c].writeFinished /\ conn[c].ws = "DATA")
    PROVE  CalledBack(c)
<1>. DEFINE k == conn[c]
<1>1. Fits(c, k) /\ Whole(c, k) /\ Polls(c, k) /\ k \in Conns
  BY DEF ConnsFit, Fits, Whole
<1>2. ASSUME NEW put, NEW j, Whole(c, j), Leads(k, j), NEW n, NEW b \in BOOLEAN,
             FinishAfter(put, c, j, n, b)
      PROVE  CalledBack(c)
  BY <1>2, FinishCallsBack
<1>3. PICK f \in (IF k.writeBlock = {} THEN Fillings(k) ELSE {k}) :
        IF f.out = 0 THEN Finish(c, f, net[c], FALSE)
        ELSE WriteSome(c, f) \/ WriteFails(c) \/ WritePutOff(c, f)
  BY DEF HandleWrite
<1>4. /\ f \in Conns /\ f.out >= k.out
      /\ f = k \/ k.ws = "DATA"
      /\ f.readBlock = k.readBlock /\ f.writeBlock = k.writeBlock
      /\ f.player = k.player /\ f.game = k.game /\ f.polled = k.polled
      /\ f.badInput = k.badInput /\ f.readFinished = k.readFinished
      /\ f.writeFinished = k.writeFinished
  <2>1. CASE k.writeBlock = {}
    BY <1>1, <1>3, <2>1, FillingsFit
  <2>2. CASE k.writeBlock # {}
    <3>1. f = k /\ k.out \in Int
      BY <1>1, <1>3, <2>2 DEF Conns
    <3>. QED
      BY <1>1, <3>1
  <2>. QED
    BY <2>1, <2>2
<1>5. k.writeFinished => f = k
  BY <1>4
<1>6. f.out \in Int /\ k.out \in Int /\ f.writeFinished \in BOOLEAN
  BY <1>1, <1>4 DEF Conns
<1>7. k.writeBlock # {} => f.out > 0
  BY <1>1, <1>4, <1>6 DEF Whole
<1>8. Whole(c, f)
  BY <1>1, <1>4, <1>5, <1>7 DEF Whole
<1>9. Leads(k, f)
  BY <1>4, <1>5 DEF Leads
<1>10. CASE f.out = 0
  <2>1. FinishAfter(0, c, f, net[c], FALSE)
    BY <1>3, <1>10 DEF Finish
  <2>. QED
    BY <1>2, <1>8, <1>9, <2>1
<1>11. f.out # 0 => f.out > 0 /\ ~f.writeFinished
  BY <1>4, <1>8 DEF Whole, Conns
<1>12. CASE f.out # 0 /\ WriteSome(c, f)
  <2>1. PICK n \in 0 .. f.out - 1 :
          FinishAfter(Cut(c, f), c, [Writing(c, f) EXCEPT !.out = n], net[c], FALSE)
    BY <1>12 DEF WriteSome
  <2>. DEFINE j == [Writing(c, f) EXCEPT !.out = n]
  <2>2. n \in 0 .. OutCap
    <3>1. OutCap \in Nat /\ f.out <= OutCap
      BY <1>4, SocketAssumption DEF Conns
    <3>. QED
      BY <1>6, <3>1
  <2>3. /\ j \in Conns /\ j.writeBlock = {}
        /\ j.readBlock = f.readBlock
        /\ j.player = f.player /\ j.game = f.game
        /\ j.badInput = f.badInput /\ j.readFinished = f.readFinished
        /\ j.writeFinished = f.writeFinished
    <3>1. CASE c \in Tls
      BY <1>4, <2>2, <3>1 DEF Writing, Conns, Blocks
    <3>2. CASE c \notin Tls
      <4>1. f.writeBlock = {}
        BY <1>8, <3>2 DEF Whole
      <4>. QED
        BY <1>4, <2>2, <3>2, <4>1 DEF Writing, Conns, Blocks
    <3>. QED
      BY <3>1, <3>2
  <2>4. FinishAfter(Cut(c, f), c, j, net[c], FALSE)
    BY <2>1
  <2>. HIDE DEF j
  <2>5. Whole(c, j)
    BY <1>8, <1>11, <1>12, <2>3 DEF Whole
  <2>6. Leads(k, j)
    BY <1>4, <1>11, <1>12, <2>3 DEF Leads
  <2>. QED
    BY <1>2, <2>4, <2>5, <2>6
<1>13. CASE WriteFails(c)
  BY <1>13, RemoveCallsBack DEF WriteFails
<1>14. CASE f.out # 0 /\ WritePutOff(c, f)
  <2>. DEFINE put == Cut(c, f) + (IF net[c].room THEN 1 ELSE 0)
  <2>1. CASE c \notin Tls
    <3>1. Return(put, c, f)
      BY <1>14, <2>1 DEF WritePutOff
    <3>2. f.readBlock = {} /\ f.writeBlock = {}
      BY <1>8, <2>1 DEF Whole
    <3>3. "OUT" \in f.polled
      BY <1>4, <1>11, <1>14, <2>1
    <3>4. f.readBlock = {} /\ ~f.readFinished => "IN" \in f.polled
      BY <1>1, <1>4 DEF Polls
    <3>5. Polls(c, f)
      BY <1>11, <1>14, <3>2, <3>3, <3>4 DEF Polls
    <3>6. ShutsRightly(k, f)
      BY <1>4, <1>11, <1>14 DEF ShutsRightly
    <3>. HIDE DEF put
    <3>. QED
      BY <1>8, <3>1, <3>5, <3>6, ReturnCallsBack DEF Fits
  <2>2. CASE c \in Tls
    <3>1. PICK flag \in {"IN", "OUT"} :
            FinishAfter(put, c, [f EXCEPT !.writeBlock = {flag}], net[c], FALSE)
      BY <1>14, <2>2 DEF WritePutOff
    <3>. DEFINE j == [f EXCEPT !.writeBlock = {flag}]
    <3>2. /\ j \in Conns
          /\ j.readBlock = f.readBlock /\ j.out = f.out
          /\ j.player = f.player /\ j.game = f.game
          /\ j.badInput = f.badInput /\ j.readFinished = f.readFinished
          /\ j.writeFinished = f.writeFinished
      BY <1>4 DEF Conns, Blocks
    <3>3. FinishAfter(put, c, j, net[c], FALSE)
      BY <3>1
    <3>. HIDE DEF j, put
    <3>4. Whole(c, j)
      BY <1>8, <1>11, <1>14, <2>2, <3>2 DEF Whole
    <3>5. Leads(k, j)
      BY <1>4, <1>11, <1>14, <3>2 DEF Leads
    <3>. QED
      BY <1>2, <3>3, <3>4, <3>5
  <2>. QED
    BY <2>1, <2>2
<1>. QED
  BY <1>3, <1>10, <1>12, <1>13, <1>14

-----------------------------------------------------------------------------
(* A callback.                                                             *)

\* A connection that is written to can be: the event says so, or what OpenSSL
\* waits for.
LEMMA CallbackCallsBack ==
    ASSUME ConnsFit, NEW c \in Sockets, NEW events,
           "OUT" \in events => Writable(c, conn[c]),
           ConnectionCallback(c, Flags(c, events))
    PROVE  CalledBack(c)
<1>. DEFINE k == conn[c]
            flags == Flags(c, events)
            resumesRead == k.readBlock # {} /\ k.readBlock \subseteq flags
            resumesWrite == k.writeBlock # {} /\ k.writeBlock \subseteq flags
<1>1. Fits(c, k) /\ Whole(c, k) /\ Polls(c, k) /\ k \in Conns
  BY DEF ConnsFit, Fits, Whole
<1>2. "OUT" \in flags <=> "OUT" \in events
  BY DEF Flags
<1>3. CASE Remove(c)
  BY <1>3, RemoveCallsBack
<1>4. CASE HandleRead(c)
  BY <1>4, HandleReadCallsBack
<1>5. CASE ~resumesRead /\ (resumesWrite \/ "OUT" \in flags) /\ HandleWrite(c)
  <2>1. CASE resumesWrite
    <3>1. c \in Tls
      BY <1>1, <2>1 DEF Whole
    <3>2. ~k.writeFinished
      BY <1>1, <2>1 DEF Whole
    <3>. QED
      BY <1>5, <3>1, <3>2, HandleWriteCallsBack
  <2>2. CASE "OUT" \in flags
    <3>1. Writable(c, k)
      BY <1>2, <2>2
    <3>2. ~(k.writeFinished /\ k.ws = "DATA")
      <4>. SUFFICES ASSUME k.writeFinished, k.ws = "DATA" PROVE FALSE
        OBVIOUS
      <4>1. "OUT" \in k.readBlock
        BY <3>1 DEF Writable
      <4>2. k.readBlock = {"OUT"}
        BY <1>1, <4>1 DEF Conns, Blocks
      <4>. QED
        BY <1>5, <2>2, <4>2
    <3>3. c \notin Tls => "OUT" \in k.polled \/ k.writeFinished
      BY <3>1 DEF Writable
    <3>. QED
      BY <1>5, <3>2, <3>3, HandleWriteCallsBack
  <2>. QED
    BY <1>5, <2>1, <2>2
<1>6. CASE Return(0, c, k)
  <2>1. ShutsRightly(k, k)
    BY DEF ShutsRightly
  <2>. QED
    BY <1>1, <1>6, <2>1, ReturnCallsBack
<1>7. \/ Remove(c) \/ HandleRead(c) \/ Return(0, c, k)
      \/ ~resumesRead /\ (resumesWrite \/ "OUT" \in flags) /\ HandleWrite(c)
  BY DEF ConnectionCallback
<1>. QED
  BY <1>3, <1>4, <1>5, <1>6, <1>7

-----------------------------------------------------------------------------
(* Steps of the loop.                                                      *)

ShutsFinally ==
    \A c \in Conn : Live(c) /\ conn'[c] # NoConn => ShutsRightly(conn[c], conn'[c])

\* Connections go or go on, and none is new.
Survive ==
    /\ conn' \in [Conn -> {NoConn} \cup Conns]
    /\ \A d \in Conn : ~Live(d) => conn'[d] = NoConn
    /\ \A d \in Sockets : conn'[d] # NoConn =>
         Fits(d, conn'[d]) /\ ShutsRightly(conn[d], conn'[d])

\* When a connection goes, the timer and the listening socket learn of it.
LEMMA SurvivorsFit ==
    ASSUME SocketInvariant, Survive, plan' = plan, waiting' = waiting,
           gcSet' = (gcSet /\ \E d \in Conn : conn'[d] # NoConn),
           listening' = (listening \/ \E d \in Sockets : conn'[d] = NoConn)
    PROVE  /\ ConnsFit' /\ ShutsFinally
           /\ Sockets' \subseteq Sockets
           /\ plan' \in Plan /\ waiting' \subseteq Conn \ Sockets'
           /\ gcSet' \in BOOLEAN /\ listening' \in BOOLEAN
           /\ gcSet' <=> Sockets' # {}
           /\ ~listening' => Cardinality(Sockets') >= plan'.files
<1>0. ConnsFit /\ LoopFits
  BY DEF SocketInvariant
<1>1. Sockets' = {d \in Conn : conn'[d] # NoConn}
  BY DEF Sockets, Live
<1>2. Sockets' \subseteq Sockets
  BY <1>1 DEF Survive, Sockets
<1>3. ConnsFit'
  BY <1>1, <1>2 DEF Survive, ConnsFit, Sockets
<1>4. ShutsFinally
  BY DEF ShutsFinally, Survive, Sockets
<1>5. waiting' \subseteq Conn \ Sockets' /\ plan' \in Plan
  BY <1>0, <1>2 DEF LoopFits
<1>6. gcSet' \in BOOLEAN /\ listening' \in BOOLEAN
  BY <1>0 DEF LoopFits
<1>7. gcSet' <=> Sockets' # {}
  BY <1>0, <1>1, <1>2 DEF LoopFits
<1>8. ASSUME ~listening' PROVE Cardinality(Sockets') >= plan'.files
  <2>1. ~listening /\ \A d \in Sockets : conn'[d] # NoConn
    BY <1>8
  <2>2. Sockets' = Sockets
    BY <1>1, <1>2, <2>1 DEF Sockets
  <2>. QED
    BY <1>0, <2>1, <2>2 DEF LoopFits
<1>. QED
  BY <1>2, <1>3, <1>4, <1>5, <1>6, <1>7, <1>8

LEMMA DispatchConnectionKeeps ==
    ASSUME SocketInvariant, plan' = plan, DispatchConnection
    PROVE  SocketInvariant' /\ ShutsFinally
<1>1. PICK e \in batch :
        /\ phase = "DISPATCH" /\ e.source \in Sockets
        /\ ConnectionCallback(e.source, Flags(e.source, e.events))
        /\ batch' = batch \ {e}
        /\ UNCHANGED <<waiting, phase, quit>>
  BY DEF DispatchConnection
<1>. DEFINE c == e.source
<1>2. ConnsFit /\ LoopFits /\ BatchFits
  BY DEF SocketInvariant
<1>3. "OUT" \in e.events => Writable(c, conn[c])
  BY <1>1, <1>2 DEF BatchFits
<1>4. CalledBack(c)
  BY <1>1, <1>2, <1>3, CallbackCallsBack
<1>5. Survive
  BY <1>4 DEF CalledBack, Survive
<1>6. /\ gcSet' = (gcSet /\ \E d \in Conn : conn'[d] # NoConn)
      /\ listening' = (listening \/ \E d \in Sockets : conn'[d] = NoConn)
      /\ passed' = passed /\ elapsed' = elapsed
  BY <1>4 DEF CalledBack, Settle
<1>7. /\ ConnsFit' /\ ShutsFinally
      /\ Sockets' \subseteq Sockets
      /\ plan' \in Plan /\ waiting' \subseteq Conn \ Sockets'
      /\ gcSet' \in BOOLEAN /\ listening' \in BOOLEAN
      /\ gcSet' <=> Sockets' # {}
      /\ ~listening' => Cardinality(Sockets') >= plan'.files
  BY <1>1, <1>5, <1>6, SurvivorsFit
<1>8. LoopFits'
  BY <1>1, <1>2, <1>6, <1>7 DEF LoopFits
<1>9. BatchFits'
  <2>1. ASSUME NEW f \in batch', f.source \in Sockets', "OUT" \in f.events
        PROVE  Writable(f.source, conn[f.source])'
    <3>1. f \in batch /\ f # e /\ f.source \in Sockets
      BY <1>1, <1>7, <2>1
    <3>2. f.source # c
      BY <1>1, <1>2, <3>1 DEF BatchFits
    <3>3. Writable(f.source, conn[f.source])
      BY <1>2, <2>1, <3>1 DEF BatchFits
    <3>4. conn'[f.source] # NoConn
      BY <2>1 DEF Sockets, Live
    <3>5. Writable(f.source, conn'[f.source])
      BY <1>4, <3>1, <3>2, <3>3, <3>4 DEF CalledBack
    <3>. QED
      BY <3>5 DEF Writable
  <2>2. /\ batch' \subseteq BatchEvents
        /\ phase' = "POLL" => batch' = {}
        /\ \A f, g \in batch' : f.source = g.source => f = g
        /\ \A f \in batch' : f.source \notin waiting'
    BY <1>1, <1>2 DEF BatchFits
  <2>. QED
    BY <2>1, <2>2 DEF BatchFits
<1>. QED
  BY <1>7, <1>8, <1>9 DEF SocketInvariant

\* Nothing has happened to the connections.
LEMMA SameConnsFit ==
    ASSUME SocketInvariant, conn' = conn
    PROVE  /\ ConnsFit' /\ ShutsFinally /\ Sockets' = Sockets
           /\ Cardinality(Sockets') = Cardinality(Sockets)
<1>1. Sockets' = Sockets
  BY DEF Sockets, Live
<1>2. ConnsFit'
  BY <1>1 DEF SocketInvariant, ConnsFit
<1>3. ShutsFinally
  BY DEF ShutsFinally, ShutsRightly
<1>. QED
  BY <1>1, <1>2, <1>3

LEMMA PollKeeps ==
    ASSUME SocketInvariant, plan' = plan, Poll
    PROVE  SocketInvariant' /\ ShutsFinally
<1>0. ConnsFit /\ LoopFits
  BY DEF SocketInvariant
<1>1. /\ ConnsFit' /\ ShutsFinally /\ Sockets' = Sockets
      /\ Cardinality(Sockets') = Cardinality(Sockets)
  BY SameConnsFit DEF Poll
<1>2. LoopFits'
  BY <1>0, <1>1 DEF LoopFits, Poll, timers
<1>3. conn' = conn /\ waiting' = waiting /\ batch' = Ready /\ phase' = "DISPATCH"
  BY DEF Poll
<1>4. ASSUME NEW e \in Ready
      PROVE  /\ e \in BatchEvents /\ e.source \notin waiting
             /\ e.source \in Sockets /\ "OUT" \in e.events => Writable(e.source, conn[e.source])
             /\ e.source \in Sockets => e = Event(e.source, Events(e.source))
             /\ e.source \notin Sockets => e = Event(e.source, {"IN"})
  <2>1. CASE \E c \in Sockets : e = Event(c, Events(c))
    <3>1. PICK c \in Sockets : e = Event(c, Events(c))
      BY <2>1
    <3>2. e.source = c /\ e.events = Events(c)
      BY <3>1 DEF Event
    <3>3. Events(c) \subseteq {"IN", "OUT", "HUP", "ERR"}
          /\ ("OUT" \in Events(c) => "OUT" \in conn[c].polled)
      BY DEF Events
    <3>4. e \in BatchEvents
      BY <3>1, <3>3 DEF Event, BatchEvents, Sockets
    <3>5. c \notin waiting
      BY <1>0 DEF LoopFits
    <3>6. ASSUME "OUT" \in conn[c].polled PROVE Writable(c, conn[c])
      <4>1. Whole(c, conn[c]) /\ Polls(c, conn[c])
        BY <1>0 DEF ConnsFit, Fits
      <4>2. conn[c].writeFinished => "OUT" \in conn[c].readBlock
        BY <3>6, <4>1 DEF Polls, ReadFlags
      <4>. QED
        BY <3>6, <4>2 DEF Writable
    <3>. QED
      BY <3>1, <3>2, <3>3, <3>4, <3>5, <3>6
  <2>2. CASE e = Event(Listener, {"IN"}) \/ e = Event(Pipe, {"IN"})
    <3>1. e.source \in {Listener, Pipe} /\ e = Event(e.source, {"IN"})
      BY <2>2 DEF Event
    <3>2. e.source \notin Conn
      BY <3>1, SocketAssumption
    <3>3. e \in BatchEvents
      BY <3>1 DEF Event, BatchEvents
    <3>4. e.source \notin waiting /\ e.source \notin Sockets
      BY <1>0, <3>2 DEF LoopFits, Sockets
    <3>. QED
      BY <3>1, <3>3, <3>4
  <2>. QED
    BY <2>1, <2>2 DEF Ready
<1>5. BatchFits'
  <2>1. ASSUME NEW e \in batch', e.source \in Sockets', "OUT" \in e.events
        PROVE  Writable(e.source, conn[e.source])'
    <3>1. Writable(e.source, conn'[e.source])
      BY <1>1, <1>3, <1>4, <2>1
    <3>. QED
      BY <3>1 DEF Writable
  <2>2. /\ batch' \subseteq BatchEvents
        /\ phase' # "POLL"
        /\ \A e, f \in batch' : e.source = f.source => e = f
        /\ \A e \in batch' : e.source \notin waiting'
    BY <1>3, <1>4
  <2>. QED
    BY <2>1, <2>2 DEF BatchFits
<1>. QED
  BY <1>1, <1>2, <1>5 DEF SocketInvariant

\* A step that leaves the connections, and of the batch at most takes away.
LEMMA BatchStaysFit ==
    ASSUME SocketInvariant, conn' = conn, batch' \subseteq batch,
           phase' = "POLL" => batch' = {},
           \A e \in batch' : e.source \notin waiting'
    PROVE  BatchFits'
<1>1. Sockets' = Sockets
  BY DEF Sockets, Live
<1>2. BatchFits
  BY DEF SocketInvariant
<1>3. ASSUME NEW e \in batch', e.source \in Sockets', "OUT" \in e.events
      PROVE  Writable(e.source, conn[e.source])'
  <2>1. Writable(e.source, conn[e.source])
    BY <1>1, <1>2, <1>3 DEF BatchFits
  <2>. QED
    BY <2>1 DEF Writable
<1>4. /\ batch' \subseteq BatchEvents
      /\ phase' = "POLL" => batch' = {}
      /\ \A e, f \in batch' : e.source = f.source => e = f
      /\ \A e \in batch' : e.source \notin waiting'
  BY <1>2 DEF BatchFits
<1>. QED
  BY <1>3, <1>4 DEF BatchFits

LEMMA DispatchGoneKeeps ==
    ASSUME SocketInvariant, plan' = plan, DispatchGone
    PROVE  SocketInvariant' /\ ShutsFinally
<1>1. /\ conn' = conn /\ waiting' = waiting /\ listening' = listening /\ quit' = quit
      /\ gcSet' = gcSet /\ passed' = passed /\ elapsed' = elapsed
      /\ batch' \subseteq batch /\ phase' \in {"DISPATCH", "CRASHED"}
  BY DEF DispatchGone, timers
<1>2. /\ ConnsFit' /\ ShutsFinally /\ Sockets' = Sockets
      /\ Cardinality(Sockets') = Cardinality(Sockets)
  BY <1>1, SameConnsFit
<1>3. LoopFits'
  BY <1>1, <1>2 DEF SocketInvariant, LoopFits
<1>4. BatchFits'
  <2>1. \A e \in batch' : e.source \notin waiting'
    BY <1>1 DEF SocketInvariant, BatchFits
  <2>. QED
    BY <1>1, <2>1, BatchStaysFit
<1>. QED
  BY <1>2, <1>3, <1>4 DEF SocketInvariant

LEMMA NewConnFits ==
    ASSUME NEW c
    PROVE  NewConn \in Conns /\ Fits(c, NewConn)
<1>1. 0 \in 0 .. Cardinality(Conn) /\ 0 \in 0 .. OutCap /\ 0 \in 0 .. ResponseTime
  <2>1. Cardinality(Conn) \in Nat
    BY SocketAssumption, FS_CardinalityType
  <2>. QED
    BY <2>1, SocketAssumption
<1>2. NewConn \in Conns
  BY <1>1 DEF NewConn, Conns, Blocks, NoGame
<1>3. /\ NewConn.readBlock = {} /\ NewConn.writeBlock = {} /\ NewConn.game = NoGame
      /\ NewConn.polled = {"IN"} /\ ~NewConn.writeFinished /\ ~NewConn.readFinished
      /\ NewConn.out = 0 /\ ~HasData(NewConn)
  BY DEF NewConn, HasData
<1>4. Whole(c, NewConn)
  BY <1>2, <1>3 DEF Whole
<1>5. Polls(c, NewConn)
  BY <1>3 DEF Polls
<1>. QED
  BY <1>2, <1>4, <1>5 DEF Fits

LEMMA DispatchListenerKeeps ==
    ASSUME SocketInvariant, plan' = plan, DispatchListener
    PROVE  SocketInvariant' /\ ShutsFinally
<1>0. ConnsFit /\ LoopFits /\ BatchFits
  BY DEF SocketInvariant
<1>1. /\ batch' \subseteq batch /\ phase' = phase /\ phase = "DISPATCH"
      /\ (\E c \in Conn : Accepted(c) \/ AcceptedInVain(c)) \/ TooManyFiles \/ AcceptFails
  BY DEF DispatchListener
<1>2. IsFiniteSet(Sockets) /\ Cardinality(Sockets) \in Nat
  <2>1. Sockets \subseteq Conn
    BY DEF Sockets
  <2>. QED
    BY <2>1, SocketAssumption, FS_Subset, FS_CardinalityType
<1>3. plan.files \in Nat
  BY <1>0, SocketAssumption DEF LoopFits
<1>4. ASSUME NEW c \in Conn, Accepted(c)
      PROVE  SocketInvariant' /\ ShutsFinally
  <2>1. /\ c \in waiting /\ c \notin Sockets
        /\ Cardinality(Sockets) < plan.files
        /\ waiting' = waiting \ {c} /\ conn' = [conn EXCEPT ![c] = NewConn]
        /\ gcSet' = TRUE
        /\ passed' = IF passed = NoBucket THEN 0 ELSE passed
        /\ listening' = listening /\ quit' = quit /\ elapsed' = elapsed
    BY <1>4 DEF Accepted, Sockets
  <2>2. conn \in [Conn -> {NoConn} \cup Conns]
    BY <1>0 DEF ConnsFit
  <2>3. NewConn \in Conns /\ Fits(c, NewConn) /\ NewConn # NoConn
    BY NewConnFits DEF NewConn, NoConn
  <2>4. \A d \in Conn : conn'[d] = IF d = c THEN NewConn ELSE conn[d]
    BY <2>1, <2>2
  <2>5. Sockets' = Sockets \cup {c}
    BY <2>3, <2>4 DEF Sockets, Live
  <2>6. ConnsFit'
    <3>1. conn' \in [Conn -> {NoConn} \cup Conns]
      BY <2>1, <2>2, <2>3
    <3>2. \A d \in Sockets' : Fits(d, conn'[d])
      BY <1>0, <2>3, <2>4, <2>5 DEF ConnsFit, Sockets
    <3>. QED
      BY <3>1, <3>2 DEF ConnsFit
  <2>7. listening
    BY <1>0, <1>2, <1>3, <2>1 DEF LoopFits
  <2>8. LoopFits'
    <3>1. passed' \in NoBucket .. GcTime
      BY <1>0, <2>1, SocketAssumption DEF LoopFits, NoBucket
    <3>2. waiting' \subseteq Conn \ Sockets'
      BY <1>0, <2>1, <2>5 DEF LoopFits
    <3>. QED
      BY <1>0, <1>1, <2>1, <2>5, <2>7, <3>1, <3>2 DEF LoopFits
  <2>9. BatchFits'
    <3>1. ASSUME NEW e \in batch', e.source \in Sockets', "OUT" \in e.events
          PROVE  Writable(e.source, conn[e.source])'
      <4>1. e \in batch /\ e.source # c
        BY <1>0, <1>1, <2>1, <3>1 DEF BatchFits
      <4>2. e.source \in Sockets
        BY <2>5, <3>1, <4>1
      <4>3. Writable(e.source, conn[e.source])
        BY <1>0, <3>1, <4>1, <4>2 DEF BatchFits
      <4>4. conn'[e.source] = conn[e.source]
        BY <2>4, <4>1, <4>2 DEF Sockets
      <4>. QED
        BY <4>3, <4>4 DEF Writable
    <3>2. /\ batch' \subseteq BatchEvents
          /\ phase' # "POLL"
          /\ \A e, f \in batch' : e.source = f.source => e = f
          /\ \A e \in batch' : e.source \notin waiting'
      BY <1>0, <1>1, <2>1 DEF BatchFits
    <3>. QED
      BY <3>1, <3>2 DEF BatchFits
  <2>10. ShutsFinally
    <3>1. \A d \in Conn : Live(d) => conn'[d] = conn[d]
      BY <2>1, <2>4 DEF Sockets
    <3>. QED
      BY <3>1 DEF ShutsFinally, ShutsRightly
  <2>. QED
    BY <2>6, <2>8, <2>9, <2>10 DEF SocketInvariant
<1>5. ASSUME conn' = conn, waiting' \subseteq waiting, UNCHANGED timers,
             quit' = quit \/ quit' = "YES",
             listening' \in BOOLEAN,
             ~listening' => ~listening \/ Cardinality(Sockets) >= plan.files
      PROVE  SocketInvariant' /\ ShutsFinally
  <2>1. /\ ConnsFit' /\ ShutsFinally /\ Sockets' = Sockets
        /\ Cardinality(Sockets') = Cardinality(Sockets)
    BY <1>5, SameConnsFit
  <2>2. gcSet' = gcSet /\ passed' = passed /\ elapsed' = elapsed
    BY <1>5 DEF timers
  <2>3. LoopFits'
    <3>1. ~listening' => Cardinality(Sockets') >= plan'.files
      BY <1>0, <1>5, <2>1 DEF LoopFits
    <3>2. waiting' \subseteq Conn \ Sockets'
      BY <1>0, <1>5, <2>1 DEF LoopFits
    <3>3. quit' \in {"NO", "SIGNALLED", "YES"}
      BY <1>0, <1>5 DEF LoopFits
    <3>. QED
      BY <1>0, <1>1, <1>5, <2>1, <2>2, <3>1, <3>2, <3>3 DEF LoopFits
  <2>4. BatchFits'
    <3>1. \A e \in batch' : e.source \notin waiting'
      BY <1>0, <1>1, <1>5 DEF BatchFits
    <3>. QED
      BY <1>1, <1>5, <3>1, BatchStaysFit
  <2>. QED
    BY <2>1, <2>3, <2>4 DEF SocketInvariant
<1>6. listening \in BOOLEAN
  BY <1>0 DEF LoopFits
<1>7. ASSUME NEW c \in Conn, AcceptedInVain(c) PROVE SocketInvariant' /\ ShutsFinally
  BY <1>5, <1>7 DEF AcceptedInVain
<1>8. CASE TooManyFiles
  BY <1>5, <1>8 DEF TooManyFiles
<1>9. CASE AcceptFails
  BY <1>5, <1>6, <1>9 DEF AcceptFails
<1>. QED
  BY <1>1, <1>4, <1>7, <1>8, <1>9

LEMMA DispatchQuitKeeps ==
    ASSUME SocketInvariant, plan' = plan, DispatchQuit
    PROVE  SocketInvariant' /\ ShutsFinally
<1>1. /\ conn' = conn /\ waiting' = waiting /\ listening' = listening /\ quit' = "YES"
      /\ gcSet' = gcSet /\ passed' = passed /\ elapsed' = elapsed
      /\ batch' \subseteq batch /\ phase' = phase /\ phase = "DISPATCH"
  BY DEF DispatchQuit, timers
<1>2. /\ ConnsFit' /\ ShutsFinally /\ Sockets' = Sockets
      /\ Cardinality(Sockets') = Cardinality(Sockets)
  BY <1>1, SameConnsFit
<1>3. LoopFits'
  BY <1>1, <1>2 DEF SocketInvariant, LoopFits
<1>4. BatchFits'
  <2>1. \A e \in batch' : e.source \notin waiting'
    BY <1>1 DEF SocketInvariant, BatchFits
  <2>. QED
    BY <1>1, <2>1, BatchStaysFit
<1>. QED
  BY <1>2, <1>3, <1>4 DEF SocketInvariant

\* The look for dead connections.
LEMMA CollectedSurvive ==
    ASSUME ConnsFit, CollectDead
    PROVE  /\ Survive
           /\ gcSet' = (\E d \in Conn : conn'[d] # NoConn)
           /\ listening' = (listening \/ \E d \in Sockets : conn'[d] = NoConn)
<1>1. PICK o \in Outcomes :
        LET new == [c \in Conn |-> Collected(c, o[c])]
        IN /\ conn' = new
           /\ gcSet' = (\E c \in Conn : new[c] # NoConn)
           /\ listening' = (listening \/ \E c \in Sockets : new[c] = NoConn)
  BY DEF CollectDead
<1>2. \A d \in Conn : conn'[d] = Collected(d, o[d])
  BY <1>1
<1>3. \A d \in Conn : ~Live(d) => conn'[d] = NoConn
  BY <1>2 DEF Collected, Live
<1>4. ASSUME NEW d \in Sockets, conn'[d] # NoConn
      PROVE  Fits(d, conn'[d]) /\ ShutsRightly(conn[d], conn'[d])
  <2>. DEFINE k == conn[d]
  <2>1. d \in Conn /\ Live(d) /\ Fits(d, k) /\ Whole(d, k) /\ k \in Conns
    BY DEF Sockets, ConnsFit, Fits, Whole
  <2>2. CASE conn'[d] = k
    BY <2>1, <2>2 DEF ShutsRightly
  <2>3. CASE conn'[d] # k
    <3>. DEFINE j == Bad(k)
                q == UpdatePoll(j, o[d])
    <3>1. conn'[d] = q
      BY <1>2, <1>4, <2>1, <2>3 DEF Collected
    <3>2. /\ j \in Conns /\ j.badInput
          /\ j.readBlock = k.readBlock /\ j.writeBlock = k.writeBlock
          /\ j.player = k.player /\ j.game = k.game /\ j.out = k.out
          /\ j.writeFinished = k.writeFinished
          /\ j.ws = k.ws /\ j.pending = k.pending
      BY <2>1 DEF Bad, Conns
    <3>. HIDE DEF j
    <3>3. Whole(d, j) /\ HasData(j) = HasData(k)
      BY <2>1, <3>2 DEF Whole, HasData
    <3>4. o[d] \in Outcome /\ (d \notin Tls => o[d] \in {"DONE", "FAIL"})
      BY <2>1, OutcomesFit
    <3>5. /\ Fits(d, q)
          /\ ~j.writeFinished /\ q.writeFinished => q.out = 0 /\ ~HasData(q)
          /\ HasData(q) = HasData(j)
      BY <1>4, <3>1, <3>3, <3>4, UpdatePollFits
    <3>. HIDE DEF q
    <3>. QED
      BY <3>1, <3>2, <3>3, <3>5 DEF ShutsRightly
  <2>. QED
    BY <2>2, <2>3
<1>5. conn' \in [Conn -> {NoConn} \cup Conns]
  <2>1. \A d \in Conn : conn'[d] \in {NoConn} \cup Conns
    BY <1>3, <1>4 DEF Sockets, Fits, Whole
  <2>2. DOMAIN conn' = Conn /\ conn' = [d \in Conn |-> conn'[d]]
    BY <1>1
  <2>. QED
    BY <2>1, <2>2
<1>6. /\ gcSet' = (\E d \in Conn : conn'[d] # NoConn)
      /\ listening' = (listening \/ \E d \in Sockets : conn'[d] = NoConn)
  BY <1>1
<1>. QED
  BY <1>3, <1>4, <1>5, <1>6 DEF Survive

LEMMA TimersKeep ==
    ASSUME SocketInvariant, plan' = plan, Timers
    PROVE  SocketInvariant' /\ ShutsFinally
<1>0. ConnsFit /\ LoopFits /\ BatchFits
  BY DEF SocketInvariant
<1>1. /\ batch = {} /\ batch' = {} /\ waiting' = waiting /\ quit' = quit
      /\ phase' \in {"STOPPED", "POLL"}
      /\ elapsed' = IF passed = NoBucket THEN elapsed ELSE 0
  BY DEF Timers
<1>2. passed' \in NoBucket .. GcTime /\ elapsed' \in 0 .. GcTime
  <2>1. /\ passed \in NoBucket .. GcTime /\ elapsed \in 0 .. GcTime
        /\ GcTime \in Nat /\ NoBucket = -1
    BY <1>0, SocketAssumption DEF LoopFits, NoBucket
  <2>2. elapsed' \in 0 .. GcTime
    BY <1>1, <2>1
  <2>3. \/ passed' = 0
        \/ /\ ~(passed # NoBucket /\ elapsed > 0 /\ passed + elapsed >= GcTime)
           /\ passed' = IF passed = NoBucket THEN passed ELSE passed + elapsed
    BY DEF Timers
  <2>4. passed' \in NoBucket .. GcTime
    BY <2>1, <2>3
  <2>. QED
    BY <2>2, <2>4
<1>3. BatchFits'
  BY <1>1 DEF BatchFits
<1>4. ASSUME /\ ConnsFit' /\ ShutsFinally
             /\ plan' \in Plan /\ waiting' \subseteq Conn \ Sockets'
             /\ gcSet' \in BOOLEAN /\ listening' \in BOOLEAN
             /\ gcSet' <=> Sockets' # {}
             /\ ~listening' => Cardinality(Sockets') >= plan'.files
      PROVE  SocketInvariant' /\ ShutsFinally
  <2>1. LoopFits'
    BY <1>0, <1>1, <1>2, <1>4 DEF LoopFits
  <2>. QED
    BY <1>3, <1>4, <2>1 DEF SocketInvariant
<1>5. CASE gcSet /\ CollectDead
  <2>1. /\ Survive
        /\ gcSet' = (gcSet /\ \E d \in Conn : conn'[d] # NoConn)
        /\ listening' = (listening \/ \E d \in Sockets : conn'[d] = NoConn)
    BY <1>0, <1>5, CollectedSurvive
  <2>. QED
    BY <1>1, <1>4, <2>1, SurvivorsFit
<1>6. CASE conn' = conn /\ listening' = listening /\ gcSet' = gcSet
  <2>1. /\ ConnsFit' /\ ShutsFinally /\ Sockets' = Sockets
        /\ Cardinality(Sockets') = Cardinality(Sockets)
    BY <1>6, SameConnsFit
  <2>. QED
    BY <1>0, <1>1, <1>4, <1>6, <2>1 DEF LoopFits
<1>7. (gcSet /\ CollectDead) \/ (conn' = conn /\ listening' = listening /\ gcSet' = gcSet)
  BY DEF Timers
<1>. QED
  BY <1>5, <1>6, <1>7

LEMMA FreeKeeps ==
    ASSUME SocketInvariant, plan' = plan, Free
    PROVE  SocketInvariant' /\ ShutsFinally
<1>0. ConnsFit /\ LoopFits /\ BatchFits
  BY DEF SocketInvariant
<1>1. /\ conn' = [c \in Conn |-> NoConn] /\ waiting' = waiting /\ batch' = batch
      /\ phase' = "FREED" /\ quit' = quit /\ passed' = passed /\ elapsed' = elapsed
      /\ gcSet' = (gcSet /\ Sockets = {})
      /\ listening' = (listening \/ Sockets # {})
  BY DEF Free
<1>2. Sockets' = {}
  BY <1>1 DEF Sockets, Live
<1>3. ConnsFit' /\ ShutsFinally
  BY <1>1, <1>2 DEF ConnsFit, ShutsFinally
<1>4. ~listening' => Sockets' = Sockets /\ ~listening
  BY <1>1, <1>2
<1>5. LoopFits'
  BY <1>0, <1>1, <1>2, <1>4 DEF LoopFits
<1>6. BatchFits'
  BY <1>0, <1>1, <1>2 DEF BatchFits
<1>. QED
  BY <1>3, <1>5, <1>6 DEF SocketInvariant

LEMMA TickKeeps ==
    ASSUME SocketInvariant, plan' = plan, Tick
    PROVE  SocketInvariant' /\ ShutsFinally
<1>0. ConnsFit /\ LoopFits /\ BatchFits
  BY DEF SocketInvariant
<1>1. /\ conn' = [c \in Conn |-> IF Live(c) /\ conn[c].age < ResponseTime
                                 THEN [conn[c] EXCEPT !.age = @ + 1] ELSE conn[c]]
      /\ elapsed' = (IF elapsed < GcTime THEN elapsed + 1 ELSE elapsed)
      /\ waiting' = waiting /\ listening' = listening /\ batch' = batch
      /\ phase' = "POLL" /\ phase = "POLL"
      /\ quit' = quit /\ gcSet' = gcSet /\ passed' = passed
  BY DEF Tick
<1>2. ASSUME NEW c \in Sockets
      PROVE  /\ conn'[c] # NoConn
             /\ Fits(c, conn'[c]) /\ ShutsRightly(conn[c], conn'[c])
  <2>. DEFINE k == conn[c]
  <2>1. c \in Conn /\ Live(c) /\ Fits(c, k) /\ Whole(c, k) /\ Polls(c, k) /\ k \in Conns
    BY <1>0 DEF Sockets, ConnsFit, Fits, Whole
  <2>2. CASE k.age < ResponseTime
    <3>. DEFINE j == [k EXCEPT !.age = @ + 1]
    <3>1. conn'[c] = j
      BY <1>1, <2>1, <2>2
    <3>2. k.age + 1 \in 0 .. ResponseTime
      BY <2>1, <2>2, SocketAssumption DEF Conns
    <3>3. /\ j \in Conns
          /\ j.readBlock = k.readBlock /\ j.writeBlock = k.writeBlock
          /\ j.player = k.player /\ j.game = k.game /\ j.out = k.out
          /\ j.writeFinished = k.writeFinished /\ j.readFinished = k.readFinished
          /\ j.badInput = k.badInput /\ j.polled = k.polled
          /\ j.ws = k.ws /\ j.pending = k.pending
      BY <2>1, <3>2 DEF Conns
    <3>. HIDE DEF j
    <3>4. HasData(j) = HasData(k) /\ ReadFlags(j) = ReadFlags(k)
      BY <3>3 DEF HasData, ReadFlags
    <3>5. Whole(c, j)
      BY <2>1, <3>3 DEF Whole
    <3>6. Polls(c, j)
      BY <2>1, <3>3, <3>4 DEF Polls
    <3>7. ShutsRightly(k, j)
      BY <3>3, <3>4 DEF ShutsRightly
    <3>8. j # NoConn
      BY <3>3 DEF Conns, NoConn
    <3>. QED
      BY <3>1, <3>5, <3>6, <3>7, <3>8 DEF Fits
  <2>3. CASE ~(k.age < ResponseTime)
    <3>1. conn'[c] = k
      BY <1>1, <2>1, <2>3
    <3>. QED
      BY <2>1, <3>1 DEF ShutsRightly, Live
  <2>. QED
    BY <2>2, <2>3
<1>3. \A c \in Conn : ~Live(c) => conn'[c] = NoConn
  BY <1>1 DEF Live
<1>4. Sockets' = Sockets
  BY <1>2, <1>3 DEF Sockets, Live
<1>5. ConnsFit'
  <2>1. \A d \in Conn : conn'[d] \in {NoConn} \cup Conns
    BY <1>2, <1>3 DEF Sockets, Fits, Whole
  <2>2. DOMAIN conn' = Conn /\ conn' = [d \in Conn |-> conn'[d]]
    BY <1>1
  <2>3. conn' \in [Conn -> {NoConn} \cup Conns]
    BY <2>1, <2>2
  <2>. QED
    BY <1>2, <1>4, <2>3 DEF ConnsFit
<1>6. ShutsFinally
  BY <1>2 DEF ShutsFinally, Sockets
<1>7. elapsed' \in 0 .. GcTime
  BY <1>0, <1>1, SocketAssumption DEF LoopFits
<1>8. LoopFits'
  BY <1>0, <1>1, <1>4, <1>7 DEF LoopFits
<1>9. BatchFits'
  BY <1>0, <1>1 DEF BatchFits
<1>. QED
  BY <1>5, <1>6, <1>8, <1>9 DEF SocketInvariant

\* The signal, and what clients do.
LEMMA ClientsKeep ==
    ASSUME SocketInvariant, plan' = plan,
           Signal \/ \E c \in Conn : Connect(c) \/ Send(c) \/ Close(c) \/ Reset(c) \/ Stall(c)
    PROVE  SocketInvariant' /\ ShutsFinally
<1>0. ConnsFit /\ LoopFits /\ BatchFits
  BY DEF SocketInvariant
<1>1. /\ conn' = conn /\ batch' = batch /\ phase' = phase /\ listening' = listening
      /\ gcSet' = gcSet /\ passed' = passed /\ elapsed' = elapsed
      /\ quit' = quit \/ quit' = "SIGNALLED"
  BY DEF Signal, Connect, Send, Close, Reset, Stall, network, timers
<1>2. \/ waiting' = waiting
      \/ phase = "POLL" /\ \E c \in Conn : ~Live(c) /\ waiting' = waiting \cup {c}
  BY DEF Signal, Connect, Send, Close, Reset, Stall
<1>3. /\ ConnsFit' /\ ShutsFinally /\ Sockets' = Sockets
      /\ Cardinality(Sockets') = Cardinality(Sockets)
  BY <1>1, SameConnsFit
<1>4. waiting' \subseteq Conn \ Sockets'
  BY <1>0, <1>2, <1>3 DEF LoopFits, Sockets
<1>5. LoopFits'
  BY <1>0, <1>1, <1>3, <1>4 DEF LoopFits
<1>6. BatchFits'
  <2>1. \A e \in batch' : e.source \notin waiting'
    BY <1>0, <1>1, <1>2 DEF BatchFits
  <2>2. phase' = "POLL" => batch' = {}
    BY <1>0, <1>1 DEF BatchFits
  <2>. QED
    BY <1>1, <2>1, <2>2, BatchStaysFit
<1>. QED
  BY <1>3, <1>5, <1>6 DEF SocketInvariant

-----------------------------------------------------------------------------
(* The theorems.                                                           *)

LEMMA InitFits == Init => SocketInvariant
<1>. SUFFICES ASSUME Init PROVE SocketInvariant
  OBVIOUS
<1>1. Sockets = {}
  BY DEF Init, Sockets, Live
<1>2. ConnsFit
  BY <1>1 DEF Init, ConnsFit
<1>3. LoopFits
  <2>1. /\ plan \in Plan /\ waiting = {} /\ phase = "POLL" /\ quit = "NO"
        /\ gcSet = FALSE /\ listening = TRUE /\ passed = NoBucket /\ elapsed = 0
    BY DEF Init
  <2>2. NoBucket \in NoBucket .. GcTime /\ 0 \in 0 .. GcTime
    BY SocketAssumption DEF NoBucket
  <2>. QED
    BY <1>1, <2>1, <2>2 DEF LoopFits
<1>4. BatchFits
  BY DEF Init, BatchFits
<1>. QED
  BY <1>2, <1>3, <1>4 DEF SocketInvariant

LEMMA NextKeeps ==
    ASSUME SocketInvariant, [Next]_<<plan, vars>>
    PROVE  SocketInvariant' /\ ShutsFinally
<1>1. CASE UNCHANGED <<plan, vars>>
  <2>1. /\ conn' = conn /\ plan' = plan /\ waiting' = waiting /\ listening' = listening
        /\ batch' = batch /\ phase' = phase /\ quit' = quit
        /\ gcSet' = gcSet /\ passed' = passed /\ elapsed' = elapsed
    BY <1>1 DEF vars, timers
  <2>2. /\ ConnsFit' /\ ShutsFinally /\ Sockets' = Sockets
        /\ Cardinality(Sockets') = Cardinality(Sockets)
    BY <2>1, SameConnsFit
  <2>3. LoopFits'
    BY <2>1, <2>2 DEF SocketInvariant, LoopFits
  <2>4. BatchFits'
    BY <2>1, BatchStaysFit DEF SocketInvariant, BatchFits
  <2>. QED
    BY <2>2, <2>3, <2>4 DEF SocketInvariant
<1>2. CASE Next
  <2>1. plan' = plan
    BY <1>2 DEF Next
  <2>2. \/ Poll \/ DispatchConnection \/ DispatchGone \/ DispatchListener
        \/ DispatchQuit \/ Timers \/ Tick \/ Free
        \/ (Signal \/ \E c \in Conn : Connect(c) \/ Send(c) \/ Close(c) \/ Reset(c) \/ Stall(c))
    BY <1>2 DEF Next, Dispatch
  <2>. QED
    BY <2>1, <2>2, PollKeeps, DispatchConnectionKeeps, DispatchGoneKeeps,
       DispatchListenerKeeps, DispatchQuitKeeps, TimersKeep, TickKeeps, FreeKeeps,
       ClientsKeep
<1>. QED
  BY <1>1, <1>2

LEMMA SocketInvariantHolds == Spec => []SocketInvariant
<1>1. SocketInvariant /\ [Next]_<<plan, vars>> => SocketInvariant'
  BY NextKeeps
<1>. QED
  BY <1>1, InitFits, PTL DEF Spec

\* Whatever is to be done next is polled for, the timer runs exactly while there
\* are connections, and the server is deaf only while it is full: for any number of
\* connections, of which any may come in with TLS, and whatever fails.
THEOREM SocketIsSound == Spec => []SocketSound
BY InvariantIsSound, SocketInvariantHolds, PTL

\* A socket is shut down only when all has been written, and nothing is written to
\* it afterwards.
THEOREM ShutIsFinalHolds == Spec => ShutIsFinal
<1>1. SocketInvariant /\ [Next]_<<plan, vars>> =>
        [\A c \in Conn : Live(c) /\ Live(c)' =>
           LET k == conn[c]
               new == conn'[c]
           IN /\ ~k.writeFinished /\ new.writeFinished => new.out = 0 /\ ~HasData(new)
              /\ k.writeFinished /\ HasData(k) => HasData(new)]_conn
  <2>. SUFFICES ASSUME SocketInvariant, [Next]_<<plan, vars>>,
                       NEW c \in Conn, Live(c), Live(c)'
                PROVE  ShutsRightly(conn[c], conn'[c])
    BY DEF ShutsRightly
  <2>1. ShutsFinally
    BY NextKeeps
  <2>. QED
    BY <2>1 DEF ShutsFinally, Live
<1>. QED
  BY <1>1, SocketInvariantHolds, PTL DEF Spec, ShutIsFinal
=============================================================================
