------------------------- MODULE ClientThreadsProofs -------------------------
(***************************************************************************)
(* Proofs about the threads of the client, for any plan and any durations: *)
(* the tokens of the main thread, what each thread sleeps for, and the     *)
(* queue of events as an implementation of InOrder.                        *)
(***************************************************************************)
EXTENDS ClientThreads, WellFoundedInduction, FiniteSetTheorems, TLAPS

-----------------------------------------------------------------------------
(* The inductive invariant.                                                *)

AllUses == {"flush", "reset", "image"} \cup Uses
Tokens == [use : AllUses \cup {"none"}, of : Nat, left : Nat, cancelled : BOOLEAN]

MainThreads ==
  [queue : Seq(Ids), timeouts : Seq(Ids), woken : BOOLEAN, token : [Ids -> Tokens],
   batch : Seq(Ids), next : Nat \ {0},
   timer : {"NONE", "STARTING", "WAITING", "SIGNALLED", "DONE"},
   until : Nat \cup {Never}, ending : BOOLEAN]

\* Each token is in one place of one list; one that is not cancelled is in a list
\* and has not been called; the timeouts are in order; and what is to be called
\* is due.
Once(s) == \A i, j \in 1..Len(s) : s[i] = s[j] => i = j
Sorted(s, token) ==
  \A i, j \in 1..Len(s) : i < j => token[s[i]].left <= token[s[j]].left
ToCome(m) == {m.batch[j] : j \in m.next..Len(m.batch)}

ListsFit(m) ==
  /\ m \in MainThreads
  /\ Once(m.queue) /\ Once(m.timeouts) /\ Once(m.batch)
  /\ ToSet(m.queue) \cap ToSet(m.timeouts) = {}
  /\ ToSet(m.queue) \cap ToSet(m.batch) = {}
  /\ ToSet(m.timeouts) \cap ToSet(m.batch) = {}
  /\ m.next <= Len(m.batch) + 1
  /\ \A i \in Ids : ~m.token[i].cancelled =>
       i \in ToSet(m.queue) \cup ToSet(m.timeouts) \cup ToCome(m)
  /\ Sorted(m.timeouts, m.token)
  /\ \A i \in ToSet(m.queue) \cup ToSet(m.batch) : m.token[i].left = 0

\* Nobody of the main thread and the timeout thread sleeps through what is queued.
Awake(m) ==
  /\ m.queue # <<>> => m.woken
  /\ m.timer = "WAITING" =>
       /\ ~m.ending
       /\ m.timeouts # <<>> => m.until \in 0..m.token[Head(m.timeouts)].left

\* Each token that is not cancelled is held by the one who uses it, and by nobody
\* else.
Holder(use) ==
  IF use = "flush" THEN game.flush ELSE IF use = "reset" THEN ui.reset
  ELSE IF use = "image" THEN loader.idle ELSE ui.timer[use]
Holders == [use \in AllUses |-> Holder(use)]

Held(m, h) ==
  /\ \A use \in AllUses : h[use] # NoToken =>
       h[use] \in Ids /\ ~m.token[h[use]].cancelled /\ m.token[h[use]].use = use
  /\ \A i \in Ids : ~m.token[i].cancelled =>
       m.token[i].use \in AllUses /\ h[m.token[i].use] = i

OfGame(m, g) ==
  \A i \in Ids : ~m.token[i].cancelled /\ m.token[i].use \in {"flush", "reset"} =>
    m.token[i].of = g

TokensFit ==
  /\ ListsFit(mt) /\ Awake(mt) /\ Held(mt, Holders)
  /\ pc.main # "CLEARING" => OfGame(mt, conn.game)

People == [kind : {"none", "conversation", "person"}, id : Nat]
Types == {"running", "header", "shout", "note", "end", "refused", "other"}
EventRecords == [type : Types, game : Nat, n : Nat, who : People]

ConnPolls == {"nothing", "read", "write"}
Connections(p) ==
  [game : 0..p.games, who : People, named : BOOLEAN, running : BOOLEAN, address : Nat,
   said : 0..p.events, finished : BOOLEAN, poll : ConnPolls]

ConnFits ==
  /\ plan \in Plans
  /\ conn \in Connections(plan)
  /\ pc.main \in {"BOOT", "STARTING"} => ~conn.running /\ conn.said = 0
  /\ pc.main = "CLEARING" => conn.said = 0 /\ ~conn.named /\ conn.who.kind # "person"
  /\ pc.main = "RESETTING" => conn.game < plan.games

\* The worker has been told of all that changed since it went to sleep, and the
\* address that was asked for last is on its way.
Freed == {"STOPPING", "JOINING", "ENDING", "EXITED"}
Workers ==
  [poll : {"stdin", "nothing", "read", "write"},
   polled : {"none", "stdin", "nothing", "read", "write"}, tries : BOOLEAN,
   toResolve : Nat, stolen : Nat, delay : BOOLEAN, failures : Nat,
   pipe : BOOLEAN, queued : BOOLEAN, saw : BOOLEAN, quit : BOOLEAN]
Informed(w, poll) == w.poll = poll \/ (w.poll = "stdin" /\ poll = "nothing")
SleepsWell(w) ==
  ~w.pipe => /\ w.polled = w.poll
             /\ w.toResolve # NoAddress => w.tries
             /\ ~w.quit
OnItsWay(w, at, asked, address) ==
  /\ w.toResolve \in {NoAddress, asked}
  /\ at = "RESOLVING" /\ w.toResolve = NoAddress => w.stolen = asked
  /\ asked \in {address, w.toResolve, w.stolen}

WorkerFits ==
  /\ worker \in Workers
  /\ Informed(worker, conn.poll)
  /\ worker.queued = worker.pipe
  /\ pc.worker = "POLLING" => SleepsWell(worker)
  /\ pc.worker # "RESOLVING" => worker.stolen = NoAddress
  /\ IF pc.main \in Freed THEN ui.asked = 0
     ELSE OnItsWay(worker, pc.worker, ui.asked, conn.address)

LoaderFits ==
  /\ loader \in [at : {"START", "WAITING", "SIGNALLED", "LOADING", "DONE"},
                 queue : Seq(Nat \ {0}), image : Nat, slot : Nat, idle : Nat, quit : BOOLEAN]
  /\ loader.idle # NoToken <=> loader.slot # 0
  /\ loader.at = "LOADING" => loader.slot = 0 /\ loader.image # 0
  /\ pc.main \in {"UNLOADED"} \cup Freed => loader.idle = NoToken /\ loader.at = "DONE"

Mains == {"BOOT", "STARTING", "IDLE", "FLUSHING", "HANDLING", "RESETTING", "CLEARING",
          "UNLOADING", "UNLOADED"} \cup Freed
MainStates ==
  [alive : BOOLEAN, shown : [Uses -> BOOLEAN], age : [Uses -> Nat],
   timer : [Uses -> Nat], reset : Nat, asked : Nat, seen : Nat,
   local : Seq(EventRecords), images : Seq({"asked", "shown", "dropped"}), losses : Nat]
MainFits ==
  /\ pc \in [main : Mains,
             worker : {"START", "POLLING", "POLLED", "RESOLVING", "WAKING", "DONE"}]
  /\ ui \in MainStates
  /\ game \in [events : Seq(EventRecords), flush : Nat, saved : People]
  /\ mt.batch # <<>> => pc.main \in {"FLUSHING", "HANDLING", "RESETTING", "CLEARING"}
  /\ ui.local # <<>> <=> pc.main = "HANDLING"
  /\ IF ui.alive THEN pc.main \notin {"BOOT"} \cup Freed
     ELSE /\ pc.main \in {"BOOT", "STARTING"} \cup Freed
          /\ game.flush = NoToken /\ ui.reset = NoToken /\ game.events = <<>>
          /\ \A u \in Uses : ui.timer[u] = NoToken
          /\ ui.seen = 0
  /\ pc.main = "STARTING" => game.events = <<>> /\ game.flush = NoToken /\ ui.seen = 0
  /\ game.flush # NoToken => game.events # <<>>
  /\ ui.alive /\ pc.main # "CLEARING" => game.saved = conn.who
  /\ ui.reset # NoToken /\ pc.main # "CLEARING" => conn.game < plan.games

\* A shout or a note is shown as long as its timeout is held, and for the time
\* that has passed of it.
TimesFit ==
  \A u \in Uses :
    IF ui.timer[u] = NoToken THEN ~ui.shown[u]
    ELSE ui.shown[u] /\ ui.age[u] + mt.token[ui.timer[u]].left = Duration[u]

\* The events that wait, of which the last is the last that the connection said.
Pending == ui.local \o game.events
InTurn(q, seen, said) ==
  /\ \A i \in 1..Len(q) : IF q[i].type = "running" THEN i = 1 ELSE q[i].n = said - Len(q) + i
  /\ seen = said - Len(q) + (IF q # <<>> /\ q[1].type = "running" THEN 1 ELSE 0)
OfThisGame(q) ==
  \A i \in 1..Len(q) :
    q[i].game = conn.game /\ (q[i].type \in {"end", "refused"} => conn.game < plan.games)

EventsFit ==
  ui.alive /\ pc.main # "CLEARING" =>
    InTurn(Pending, ui.seen, conn.said) /\ OfThisGame(Pending)

ThreadsInvariant ==
  TokensFit /\ ConnFits /\ WorkerFits /\ LoaderFits /\ MainFits /\ TimesFit /\ EventsFit

-----------------------------------------------------------------------------
(* Numbers and lists.                                                      *)

\* A set of numbers that is not empty has a least one.
LEMMA LeastNatural ==
  ASSUME NEW S \in SUBSET Nat, S # {}
  PROVE  \E m \in S : \A n \in S : m <= n
<1>1. IsWellFoundedOn(OpToRel(<, Nat), Nat)
  BY NatLessThanWellFounded
<1>2. PICK m \in S : \A n \in S : ~(<<n, m>> \in OpToRel(<, Nat))
  BY <1>1, WFMin, Zenon
<1>3. \A n \in S : ~(n < m)
  BY <1>2 DEF OpToRel
<1>. QED
  BY <1>3

\* Induction, for sets of numbers.
LEMMA SetInduction ==
  ASSUME NEW S \in SUBSET Nat, 0 \in S, \A n \in S : n + 1 \in S
  PROVE  S = Nat
<1>1. SUFFICES ASSUME Nat \ S # {} PROVE FALSE
  OBVIOUS
<1>2. PICK m \in Nat \ S : \A n \in Nat \ S : m <= n
  BY <1>1, LeastNatural
<1>3. m - 1 \in Nat /\ m - 1 \notin Nat \ S
  BY <1>2
<1>. QED
  BY <1>2, <1>3

\* The function behind Only exists, so that the CHOOSE of its definition has it.
Chosen(s, tokens) ==
  CHOOSE F : F = [n \in 0..Len(s) |-> IF n = 0 THEN <<>>
                                     ELSE IF s[n] \in tokens THEN Append(F[n - 1], s[n])
                                     ELSE F[n - 1]]

LEMMA ChosenExists ==
  ASSUME NEW s, Len(s) \in Nat, NEW tokens
  PROVE  /\ \A n \in 0..Len(s) : Chosen(s, tokens)[n] =
              IF n = 0 THEN <<>>
              ELSE IF s[n] \in tokens THEN Append(Chosen(s, tokens)[n - 1], s[n])
              ELSE Chosen(s, tokens)[n - 1]
         /\ Only(s, tokens) = Chosen(s, tokens)[Len(s)]
<1>. DEFINE Upto(k, F) == F = [n \in 0..k |-> IF n = 0 THEN <<>>
                                              ELSE IF s[n] \in tokens THEN Append(F[n - 1], s[n])
                                              ELSE F[n - 1]]
            S == {k \in Nat : \E F : Upto(k, F)}
<1>1. 0 \in S
  <2>. DEFINE F == [n \in 0..0 |-> <<>>]
  <2>1. Upto(0, F)
    BY Z3
  <2>. QED
    BY <2>1
<1>2. ASSUME NEW k \in S PROVE k + 1 \in S
  <2>1. PICK F : Upto(k, F)
    OBVIOUS
  <2>. DEFINE last == IF s[k + 1] \in tokens THEN Append(F[k], s[k + 1]) ELSE F[k]
              G == [n \in 0..k + 1 |-> IF n <= k THEN F[n] ELSE last]
  <2>2. \A n \in 0..k : F[n] = IF n = 0 THEN <<>>
                               ELSE IF s[n] \in tokens THEN Append(F[n - 1], s[n])
                               ELSE F[n - 1]
    BY <2>1
  <2>3. \A n \in 0..k + 1 : G[n] = IF n = 0 THEN <<>>
                                   ELSE IF s[n] \in tokens THEN Append(G[n - 1], s[n])
                                   ELSE G[n - 1]
    <3>1. TAKE n \in 0..k + 1
    <3>2. CASE n <= k
      <4>1. n \in 0..k /\ G[n] = F[n] /\ (n # 0 => G[n - 1] = F[n - 1])
        BY <3>2
      <4>. HIDE DEF G
      <4>. QED
        BY <2>2, <4>1
    <3>3. CASE n = k + 1
      <4>1. G[n] = last /\ G[n - 1] = F[k] /\ n # 0
        BY <3>3
      <4>. HIDE DEF G
      <4>. QED
        BY <3>3, <4>1
    <3>. QED
      BY <3>2, <3>3
  <2>4. Upto(k + 1, G)
    <3>1. G = [n \in 0..k + 1 |-> G[n]]
      OBVIOUS
    <3>. HIDE DEF G
    <3>. QED
      BY <2>3, <3>1
  <2>. HIDE DEF Upto, G
  <2>. QED
    BY <2>4
<1>3. S = Nat
  <2>. HIDE DEF S
  <2>1. S \in SUBSET Nat
    BY DEF S
  <2>. QED
    BY <1>1, <1>2, <2>1, SetInduction
<1>4. \E F : Upto(Len(s), F)
  BY <1>3
<1>5. Upto(Len(s), Chosen(s, tokens))
  BY <1>4 DEF Chosen
<1>6. Only(s, tokens) = Chosen(s, tokens)[Len(s)]
  BY DEF Only, Chosen
<1>. HIDE DEF S
<1>. QED
  BY <1>5, <1>6

\* Places(f, s, t, tokens): f says where in s the members of t are, which are
\* those of the given tokens, in their order.
Places(f, s, n, t, tokens) ==
  /\ f \in [1..Len(t) -> 1..n]
  /\ \A i, j \in 1..Len(t) : i < j => f[i] < f[j]
  /\ \A i \in 1..Len(t) : t[i] = s[f[i]] /\ t[i] \in tokens
  /\ \A i \in 1..n : s[i] \in tokens => \E j \in 1..Len(t) : f[j] = i

LEMMA OnlySelects ==
  ASSUME NEW T, NEW s \in Seq(T), NEW tokens
  PROVE  /\ Only(s, tokens) \in Seq(T)
         /\ \E f : Places(f, s, Len(s), Only(s, tokens), tokens)
<1>. DEFINE F == Chosen(s, tokens)
            Good(n) == F[n] \in Seq(T) /\ \E f : Places(f, s, n, F[n], tokens)
            S == {n \in Nat : n <= Len(s) => Good(n)}
<1>0. Len(s) \in Nat
  OBVIOUS
<1>1. /\ \A n \in 0..Len(s) : F[n] = IF n = 0 THEN <<>>
                                    ELSE IF s[n] \in tokens THEN Append(F[n - 1], s[n])
                                    ELSE F[n - 1]
      /\ Only(s, tokens) = F[Len(s)]
  BY <1>0, ChosenExists
<1>. HIDE DEF F
<1>2. 0 \in S
  <2>1. F[0] = <<>>
    BY <1>0, <1>1
  <2>. DEFINE f == [i \in 1..0 |-> i]
  <2>2. Places(f, s, 0, <<>>, tokens)
    BY DEF Places
  <2>. HIDE DEF f
  <2>3. Good(0)
    BY <2>1, <2>2
  <2>. HIDE DEF Good
  <2>. QED
    BY <2>3
<1>3. ASSUME NEW n \in S PROVE n + 1 \in S
  <2>. SUFFICES ASSUME n + 1 <= Len(s) PROVE Good(n + 1)
    OBVIOUS
  <2>0. n \in Nat /\ n + 1 \in 1..Len(s) /\ n + 1 \in 0..Len(s) /\ s[n + 1] \in T
    BY <1>0
  <2>1. F[n + 1] = IF s[n + 1] \in tokens THEN Append(F[n], s[n + 1]) ELSE F[n]
    BY <1>1, <2>0
  <2>2. Good(n)
    BY <1>0, <2>0
  <2>3. PICK f : Places(f, s, n, F[n], tokens)
    BY <2>2
  <2>. DEFINE t == F[n]
  <2>4. t \in Seq(T) /\ Places(f, s, n, t, tokens) /\ Len(t) \in Nat
    BY <2>2, <2>3
  <2>. HIDE DEF t
  <2>5. CASE s[n + 1] \in tokens
    <3>. DEFINE u == Append(t, s[n + 1])
                g == [i \in 1..Len(t) + 1 |-> IF i <= Len(t) THEN f[i] ELSE n + 1]
    <3>1. u \in Seq(T) /\ Len(u) = Len(t) + 1 /\ u[Len(t) + 1] = s[n + 1]
          /\ \A i \in 1..Len(t) : u[i] = t[i]
      BY <2>0, <2>4
    <3>. HIDE DEF u
    <3>2. g \in [1..Len(u) -> 1..n + 1]
      BY <2>0, <2>4, <3>1 DEF Places
    <3>3. \A i, j \in 1..Len(u) : i < j => g[i] < g[j]
      BY <2>0, <2>4, <3>1, SMTT(30) DEF Places
    <3>4. ASSUME NEW i \in 1..Len(u) PROVE u[i] = s[g[i]] /\ u[i] \in tokens
      <4>1. CASE i = Len(t) + 1
        BY <2>0, <2>4, <2>5, <3>1, <4>1
      <4>2. CASE i <= Len(t)
        <5>1. i \in 1..Len(t) /\ g[i] = f[i] /\ u[i] = t[i]
          BY <2>4, <3>1, <4>2
        <5>. QED
          BY <2>4, <5>1 DEF Places
      <4>. QED
        BY <2>4, <3>1, <4>1, <4>2
    <3>5. ASSUME NEW i \in 1..n + 1, s[i] \in tokens PROVE \E j \in 1..Len(u) : g[j] = i
      <4>1. CASE i = n + 1
        <5>1. Len(t) + 1 \in 1..Len(u) /\ g[Len(t) + 1] = n + 1
          BY <2>4, <3>1
        <5>. QED
          BY <4>1, <5>1
      <4>2. CASE i # n + 1
        <5>1. PICK j \in 1..Len(t) : f[j] = i
          BY <2>0, <2>4, <3>5, <4>2 DEF Places
        <5>2. j \in 1..Len(u) /\ g[j] = f[j]
          BY <2>4, <3>1, <5>1
        <5>. QED
          BY <5>1, <5>2
      <4>. QED
        BY <4>1, <4>2
    <3>. HIDE DEF g
    <3>6. Places(g, s, n + 1, u, tokens)
      BY <3>2, <3>3, <3>4, <3>5 DEF Places
    <3>. QED
      BY <2>1, <2>5, <3>1, <3>6 DEF u, t
  <2>6. CASE s[n + 1] \notin tokens
    <3>1. Places(f, s, n + 1, t, tokens)
      BY <2>0, <2>4, <2>6 DEF Places
    <3>. QED
      BY <2>1, <2>4, <2>6, <3>1 DEF t
  <2>. QED
    BY <2>5, <2>6
<1>4. S = Nat
  <2>. HIDE DEF S
  <2>1. S \in SUBSET Nat
    BY DEF S
  <2>. QED
    BY <1>2, <1>3, <2>1, SetInduction
<1>5. Good(Len(s))
  BY <1>0, <1>4
<1>. QED
  BY <1>1, <1>5

\* A list without repetitions, its tokens, and what the operators do to it.
LEMMA Members ==
  ASSUME NEW T, NEW s \in Seq(T)
  PROVE  /\ ToSet(s) = {s[i] : i \in 1..Len(s)}
         /\ ToSet(s) \subseteq T
         /\ Len(s) \in Nat
         /\ \A i \in 1..Len(s) : s[i] \in ToSet(s) /\ s[i] \in T
BY DEF ToSet

LEMMA OnlyFits ==
  ASSUME NEW T, NEW s \in Seq(T), NEW tokens
  PROVE  /\ Only(s, tokens) \in Seq(T)
         /\ ToSet(Only(s, tokens)) = ToSet(s) \cap tokens
         /\ Once(s) => Once(Only(s, tokens))
         /\ \A i, j \in 1..Len(Only(s, tokens)) : i < j =>
              \E k, l \in 1..Len(s) :
                k < l /\ Only(s, tokens)[i] = s[k] /\ Only(s, tokens)[j] = s[l]
<1>. DEFINE t == Only(s, tokens)
            n == Len(s)
<1>1. t \in Seq(T) /\ Len(t) \in Nat /\ n \in Nat
  BY OnlySelects
<1>2. PICK f : Places(f, s, n, t, tokens)
  BY OnlySelects
<1>3. /\ ToSet(s) = {s[i] : i \in 1..n}
      /\ ToSet(t) = {t[i] : i \in 1..Len(t)}
  BY <1>1, Members
<1>. HIDE DEF t, n
<1>4. ASSUME NEW i \in 1..Len(t)
      PROVE  f[i] \in 1..n /\ t[i] = s[f[i]] /\ t[i] \in tokens
  BY <1>2 DEF Places
<1>5. ToSet(t) = ToSet(s) \cap tokens
  <2>1. ASSUME NEW x \in ToSet(t) PROVE x \in ToSet(s) \cap tokens
    BY <1>3, <1>4, <2>1
  <2>2. ASSUME NEW x \in ToSet(s) \cap tokens PROVE x \in ToSet(t)
    <3>1. PICK i \in 1..n : x = s[i]
      BY <1>3
    <3>2. PICK j \in 1..Len(t) : f[j] = i
      BY <1>2, <3>1 DEF Places
    <3>. QED
      BY <1>3, <1>4, <3>1, <3>2
  <2>. QED
    BY <2>1, <2>2
<1>6. ASSUME Once(s) PROVE Once(t)
  <2>. SUFFICES ASSUME NEW i \in 1..Len(t), NEW j \in 1..Len(t), t[i] = t[j], i # j PROVE FALSE
    BY DEF Once
  <2>1. f[i] = f[j]
    BY <1>4, <1>6, SMTT(30) DEF Once, n
  <2>. QED
    BY <1>1, <1>2, <2>1 DEF Places
<1>7. \A i, j \in 1..Len(t) : i < j =>
        \E k, l \in 1..n : k < l /\ t[i] = s[k] /\ t[j] = s[l]
  BY <1>2, <1>4 DEF Places
<1>. QED
  BY <1>1, <1>5, <1>6, <1>7 DEF t, n

LEMMA JoinFits ==
  ASSUME NEW T, NEW s \in Seq(T), NEW t \in Seq(T)
  PROVE  /\ s \o t \in Seq(T) /\ Len(s \o t) = Len(s) + Len(t)
         /\ ToSet(s \o t) = ToSet(s) \cup ToSet(t)
         /\ Once(s) /\ Once(t) /\ ToSet(s) \cap ToSet(t) = {} => Once(s \o t)
<1>. DEFINE r == s \o t
<1>1. /\ r \in Seq(T) /\ Len(r) = Len(s) + Len(t) /\ Len(s) \in Nat /\ Len(t) \in Nat
      /\ \A i \in 1..Len(s) : r[i] = s[i]
      /\ \A i \in 1..Len(t) : r[Len(s) + i] = t[i]
  OBVIOUS
<1>2. \A i \in 1..Len(r) : i \in 1..Len(s) \/ (i - Len(s) \in 1..Len(t) /\ r[i] = t[i - Len(s)])
  <2>1. ASSUME NEW i \in 1..Len(r), i \notin 1..Len(s)
        PROVE  i - Len(s) \in 1..Len(t) /\ Len(s) + (i - Len(s)) = i
    BY <1>1, <2>1
  <2>. HIDE DEF r
  <2>. QED
    BY <1>1, <2>1
<1>3. /\ ToSet(s) = {s[i] : i \in 1..Len(s)} /\ ToSet(t) = {t[i] : i \in 1..Len(t)}
      /\ ToSet(r) = {r[i] : i \in 1..Len(r)}
  BY <1>1, Members
<1>. HIDE DEF r
<1>4. ToSet(r) = ToSet(s) \cup ToSet(t)
  <2>1. ASSUME NEW x \in ToSet(r) PROVE x \in ToSet(s) \cup ToSet(t)
    BY <1>1, <1>2, <1>3, <2>1
  <2>2. ASSUME NEW x \in ToSet(s) PROVE x \in ToSet(r)
    <3>1. PICK i \in 1..Len(s) : x = s[i]
      BY <1>3
    <3>2. i \in 1..Len(r)
      BY <1>1
    <3>. QED
      BY <1>1, <1>3, <3>1, <3>2
  <2>3. ASSUME NEW x \in ToSet(t) PROVE x \in ToSet(r)
    <3>1. PICK i \in 1..Len(t) : x = t[i]
      BY <1>3
    <3>2. Len(s) + i \in 1..Len(r)
      BY <1>1
    <3>. QED
      BY <1>1, <1>3, <3>1, <3>2
  <2>. QED
    BY <2>1, <2>2, <2>3
<1>5. ASSUME Once(s), Once(t), ToSet(s) \cap ToSet(t) = {} PROVE Once(r)
  <2>. SUFFICES ASSUME NEW i \in 1..Len(r), NEW j \in 1..Len(r), r[i] = r[j] PROVE i = j
    BY DEF Once
  <2>1. CASE i \in 1..Len(s) /\ j \in 1..Len(s)
    BY <1>1, <1>5, <2>1 DEF Once
  <2>2. CASE i \notin 1..Len(s) /\ j \notin 1..Len(s)
    <3>1. i - Len(s) = j - Len(s)
      BY <1>2, <1>5, <2>2 DEF Once
    <3>. QED
      BY <1>1, <3>1
  <2>3. CASE i \in 1..Len(s) /\ j \notin 1..Len(s)
    BY <1>1, <1>2, <1>3, <1>5, <2>3
  <2>4. CASE i \notin 1..Len(s) /\ j \in 1..Len(s)
    BY <1>1, <1>2, <1>3, <1>5, <2>4
  <2>. QED
    BY <2>1, <2>2, <2>3, <2>4
<1>. QED
  BY <1>1, <1>4, <1>5 DEF r

LEMMA OneFits ==
  ASSUME NEW T, NEW x \in T
  PROVE  <<x>> \in Seq(T) /\ ToSet(<<x>>) = {x} /\ Once(<<x>>)
BY DEF ToSet, Once

LEMMA ReverseFits ==
  ASSUME NEW T, NEW s \in Seq(T)
  PROVE  /\ Reverse(s) \in Seq(T)
         /\ ToSet(Reverse(s)) = ToSet(s)
         /\ Once(s) => Once(Reverse(s))
         /\ Reverse(s) = <<>> <=> s = <<>>
<1>. DEFINE r == Reverse(s)
<1>1. /\ Len(s) \in Nat /\ r = [i \in 1..Len(s) |-> s[(Len(s) - i) + 1]]
  BY DEF Reverse
<1>2. r \in Seq(T) /\ Len(r) = Len(s) /\ \A i \in 1..Len(s) : r[i] = s[(Len(s) - i) + 1]
  BY <1>1
<1>3. ToSet(s) = {s[i] : i \in 1..Len(s)} /\ ToSet(r) = {r[i] : i \in 1..Len(r)}
  BY <1>2, Members
<1>. HIDE DEF r
<1>4. \A i \in 1..Len(s) : (Len(s) - i) + 1 \in 1..Len(s)
                          /\ (Len(s) - ((Len(s) - i) + 1)) + 1 = i
  BY <1>1
<1>5. ToSet(r) = ToSet(s)
  <2>1. ASSUME NEW x \in ToSet(r) PROVE x \in ToSet(s)
    <3>1. PICK i \in 1..Len(s) : x = r[i]
      BY <1>2, <1>3
    <3>. QED
      BY <1>2, <1>3, <1>4, <3>1
  <2>2. ASSUME NEW x \in ToSet(s) PROVE x \in ToSet(r)
    <3>1. PICK i \in 1..Len(s) : x = s[i]
      BY <1>3
    <3>2. PICK j \in 1..Len(s) : j = (Len(s) - i) + 1
      BY <1>4
    <3>3. (Len(s) - j) + 1 = i
      BY <1>4, <3>2
    <3>. QED
      BY <1>2, <1>3, <3>1, <3>3
  <2>. QED
    BY <2>1, <2>2
<1>6. ASSUME Once(s) PROVE Once(r)
  <2>. SUFFICES ASSUME NEW i \in 1..Len(r), NEW j \in 1..Len(r), r[i] = r[j] PROVE i = j
    BY DEF Once
  <2>1. (Len(s) - i) + 1 = (Len(s) - j) + 1
    BY <1>2, <1>4, <1>6 DEF Once
  <2>. QED
    BY <1>1, <1>2, <2>1
<1>7. r = <<>> <=> s = <<>>
  BY <1>2
<1>. QED
  BY <1>2, <1>5, <1>6, <1>7 DEF r

-----------------------------------------------------------------------------
(* What a call of vsx-main-thread.c does to its lists and tokens.          *)

LEMMA FreshToken ==
  ASSUME NEW m \in MainThreads, HasRoom(m)
  PROVE  /\ NewId(m) \in Ids
         /\ NewId(m) \notin ToSet(m.queue) \cup ToSet(m.timeouts) \cup ToSet(m.batch)
BY DEF HasRoom, NewId, Unused

LEMMA MainThreadFields ==
  ASSUME NEW m \in MainThreads
  PROVE  /\ m.queue \in Seq(Ids) /\ m.timeouts \in Seq(Ids) /\ m.batch \in Seq(Ids)
         /\ m.token \in [Ids -> Tokens] /\ m.next \in Nat \ {0} /\ m.until \in Nat \cup {Never}
         /\ m.woken \in BOOLEAN /\ m.ending \in BOOLEAN
         /\ m.timer \in {"NONE", "STARTING", "WAITING", "SIGNALLED", "DONE"}
         /\ ToCome(m) \subseteq ToSet(m.batch) /\ ToSet(m.batch) \subseteq Ids
         /\ ToSet(m.queue) \subseteq Ids /\ ToSet(m.timeouts) \subseteq Ids
<1>1. /\ m.queue \in Seq(Ids) /\ m.timeouts \in Seq(Ids) /\ m.batch \in Seq(Ids)
      /\ m.token \in [Ids -> Tokens] /\ m.next \in Nat \ {0} /\ m.until \in Nat \cup {Never}
      /\ m.woken \in BOOLEAN /\ m.ending \in BOOLEAN
      /\ m.timer \in {"NONE", "STARTING", "WAITING", "SIGNALLED", "DONE"}
  BY DEF MainThreads
<1>2. /\ ToSet(m.batch) = {m.batch[i] : i \in 1..Len(m.batch)} /\ ToSet(m.batch) \subseteq Ids
      /\ ToSet(m.queue) \subseteq Ids /\ ToSet(m.timeouts) \subseteq Ids
  BY <1>1, Members
<1>3. ToCome(m) \subseteq ToSet(m.batch)
  BY <1>1, <1>2 DEF ToCome
<1>. QED
  BY <1>1, <1>2, <1>3

\* A token that is in no list is cancelled.
LEMMA FreshIsCancelled ==
  ASSUME NEW m, ListsFit(m), HasRoom(m)
  PROVE  NewId(m) \in Ids /\ m.token[NewId(m)].cancelled
<1>1. m \in MainThreads
  BY DEF ListsFit
<1>2. /\ NewId(m) \in Ids
      /\ NewId(m) \notin ToSet(m.queue) \cup ToSet(m.timeouts) \cup ToSet(m.batch)
  BY <1>1, FreshToken
<1>3. ToCome(m) \subseteq ToSet(m.batch)
  BY <1>1, MainThreadFields
<1>. QED
  BY <1>2, <1>3 DEF ListsFit

\* A token that nobody held is given out.
GivenOut(m, new, use, of) ==
  /\ NewId(m) \in Ids
  /\ new.token[NewId(m)].use = use /\ new.token[NewId(m)].of = of
  /\ ~new.token[NewId(m)].cancelled
  /\ \A i \in Ids : i # NewId(m) => new.token[i] = m.token[i]

LEMMA GivenOutIsHeld ==
  ASSUME NEW m, ListsFit(m), HasRoom(m), NEW new, NEW use \in AllUses, NEW of,
         GivenOut(m, new, use, of),
         NEW h \in [AllUses -> Nat], Held(m, h), h[use] = NoToken
  PROVE  /\ Held(new, [h EXCEPT ![use] = NewId(m)])
         /\ \A g : OfGame(m, g) /\ (use \in {"flush", "reset"} => of = g) => OfGame(new, g)
<1>. DEFINE id == NewId(m)
            h2 == [h EXCEPT ![use] = id]
<1>1. id \in Ids /\ m.token[id].cancelled
  BY FreshIsCancelled
<1>2. /\ new.token[id].use = use /\ new.token[id].of = of /\ ~new.token[id].cancelled
      /\ \A i \in Ids : i # id => new.token[i] = m.token[i]
  BY DEF GivenOut
<1>3. h2[use] = id /\ \A v \in AllUses : v # use => h2[v] = h[v]
  OBVIOUS
<1>. HIDE DEF id, h2
<1>4. ASSUME NEW v \in AllUses, h2[v] # NoToken
      PROVE  h2[v] \in Ids /\ ~new.token[h2[v]].cancelled /\ new.token[h2[v]].use = v
  <2>1. CASE v = use
    BY <1>1, <1>2, <1>3, <2>1
  <2>2. CASE v # use
    <3>1. h[v] \in Ids /\ ~m.token[h[v]].cancelled /\ m.token[h[v]].use = v
      BY <1>3, <1>4, <2>2 DEF Held
    <3>. QED
      BY <1>1, <1>2, <1>3, <2>2, <3>1
  <2>. QED
    BY <2>1, <2>2
<1>5. ASSUME NEW i \in Ids, ~new.token[i].cancelled
      PROVE  new.token[i].use \in AllUses /\ h2[new.token[i].use] = i
  <2>1. CASE i = id
    BY <1>2, <1>3, <2>1
  <2>2. CASE i # id
    <3>1. ~m.token[i].cancelled /\ new.token[i].use = m.token[i].use
      BY <1>2, <1>5, <2>2
    <3>2. m.token[i].use \in AllUses /\ h[m.token[i].use] = i
      BY <3>1 DEF Held
    <3>3. m.token[i].use # use
      BY <3>2 DEF Ids, NoToken
    <3>. QED
      BY <1>3, <3>1, <3>2, <3>3
  <2>. QED
    BY <2>1, <2>2
<1>6. ASSUME NEW g, OfGame(m, g), use \in {"flush", "reset"} => of = g
      PROVE  OfGame(new, g)
  BY <1>2, <1>6 DEF OfGame
<1>. QED
  BY <1>4, <1>5, <1>6 DEF Held, id, h2

\* Tokens are cancelled or given back: all those that f no longer holds.
LEMMA GivenUp ==
  ASSUME NEW m, NEW new, NEW h \in [AllUses -> Nat], Held(m, h), NEW f \in [AllUses -> Nat],
         \A use \in AllUses : f[use] = h[use] \/ f[use] = NoToken,
         \A i \in Ids : new.token[i] = m.token[i] \/ new.token[i].cancelled,
         \A use \in AllUses : f[use] # NoToken => new.token[f[use]] = m.token[f[use]],
         \A use \in AllUses : f[use] = NoToken /\ h[use] # NoToken => new.token[h[use]].cancelled
  PROVE  Held(new, f) /\ \A g : OfGame(m, g) => OfGame(new, g)
<1>1. ASSUME NEW use \in AllUses, f[use] # NoToken
      PROVE  f[use] \in Ids /\ ~new.token[f[use]].cancelled /\ new.token[f[use]].use = use
  BY <1>1 DEF Held
<1>2. ASSUME NEW i \in Ids, ~new.token[i].cancelled
      PROVE  new.token[i].use \in AllUses /\ f[new.token[i].use] = i
  <2>1. new.token[i] = m.token[i]
    BY <1>2
  <2>2. m.token[i].use \in AllUses /\ h[m.token[i].use] = i
    BY <1>2, <2>1 DEF Held
  <2>3. i # NoToken
    BY DEF Ids, NoToken
  <2>. QED
    BY <1>2, <2>1, <2>2, <2>3
<1>3. ASSUME NEW g, OfGame(m, g) PROVE OfGame(new, g)
  BY <1>3 DEF OfGame
<1>. QED
  BY <1>1, <1>2, <1>3 DEF Held

\* vsx_main_thread_queue_idle.
IdleUses == {"flush", "reset", "image"}

LEMMA QueueIdleFields ==
  ASSUME NEW m \in MainThreads, HasRoom(m), NEW use \in IdleUses, NEW of \in Nat
  PROVE  LET new == QueueIdle(m, use, of) IN
         /\ new \in MainThreads
         /\ new.queue = <<NewId(m)>> \o m.queue /\ new.woken = (m.woken \/ m.queue = <<>>)
         /\ new.timeouts = m.timeouts /\ new.batch = m.batch /\ new.next = m.next
         /\ new.timer = m.timer /\ new.until = m.until /\ new.ending = m.ending
         /\ new.token = [m.token EXCEPT ![NewId(m)] =
                           [use |-> use, of |-> of, left |-> 0, cancelled |-> FALSE]]
<1>. DEFINE id == NewId(m)
            rec == [use |-> use, of |-> of, left |-> 0, cancelled |-> FALSE]
            q == <<id>> \o m.queue
            w == m.woken \/ m.queue = <<>>
            t == [m.token EXCEPT ![id] = rec]
<1>1. /\ m.queue \in Seq(Ids) /\ m.token \in [Ids -> Tokens] /\ m.woken \in BOOLEAN
  BY MainThreadFields
<1>2. id \in Ids
  BY FreshToken
<1>3. rec \in Tokens
  BY DEF Tokens, AllUses, IdleUses
<1>4. q \in Seq(Ids)
  BY <1>1, <1>2
<1>5. t \in [Ids -> Tokens]
  BY <1>1, <1>2, <1>3
<1>6. QueueIdle(m, use, of) = [m EXCEPT !.token = t, !.queue = q, !.woken = w]
  BY DEF QueueIdle, Created, MainThreads
<1>7. w \in BOOLEAN
  BY <1>1
<1>. HIDE DEF id, rec, q, w, t
<1>. DEFINE new == [m EXCEPT !.token = t, !.queue = q, !.woken = w]
<1>8. /\ new \in MainThreads /\ new.queue = q /\ new.woken = w /\ new.token = t
      /\ new.timeouts = m.timeouts /\ new.batch = m.batch /\ new.next = m.next
      /\ new.timer = m.timer /\ new.until = m.until /\ new.ending = m.ending
  BY <1>4, <1>5, <1>7 DEF MainThreads
<1>. HIDE DEF new
<1>. QED
  BY <1>6, <1>8 DEF new, id, rec, q, w, t

LEMMA QueueIdleFits ==
  ASSUME NEW m, ListsFit(m), HasRoom(m), NEW use \in IdleUses, NEW of \in Nat
  PROVE  LET new == QueueIdle(m, use, of) IN
         /\ ListsFit(new) /\ GivenOut(m, new, use, of)
         /\ Awake(m) => Awake(new)
         /\ new.batch = m.batch
<1>. DEFINE new == QueueIdle(m, use, of)
            id == NewId(m)
            rec == [use |-> use, of |-> of, left |-> 0, cancelled |-> FALSE]
<1>0. m \in MainThreads
  BY DEF ListsFit
<1>1. /\ new \in MainThreads
      /\ new.queue = <<id>> \o m.queue /\ new.woken = (m.woken \/ m.queue = <<>>)
      /\ new.timeouts = m.timeouts /\ new.batch = m.batch /\ new.next = m.next
      /\ new.timer = m.timer /\ new.until = m.until /\ new.ending = m.ending
      /\ new.token = [m.token EXCEPT ![id] = rec]
  BY <1>0, QueueIdleFields
<1>2. /\ id \in Ids /\ id \notin ToSet(m.queue) /\ id \notin ToSet(m.timeouts)
      /\ id \notin ToSet(m.batch)
  BY <1>0, FreshToken
<1>3. /\ m.queue \in Seq(Ids) /\ m.timeouts \in Seq(Ids) /\ m.batch \in Seq(Ids)
      /\ m.token \in [Ids -> Tokens]
      /\ ToCome(m) \subseteq ToSet(m.batch) /\ ToSet(m.queue) \subseteq Ids
      /\ ToSet(m.batch) \subseteq Ids /\ ToSet(m.timeouts) \subseteq Ids
  BY <1>0, MainThreadFields
<1>4. /\ ToSet(<<id>> \o m.queue) = {id} \cup ToSet(m.queue)
      /\ Once(m.queue) => Once(<<id>> \o m.queue)
  <2>1. <<id>> \in Seq(Ids) /\ ToSet(<<id>>) = {id} /\ Once(<<id>>)
    BY <1>2, OneFits
  <2>2. {id} \cap ToSet(m.queue) = {}
    BY <1>2
  <2>. DEFINE one == <<id>>
  <2>. HIDE DEF one
  <2>3. /\ ToSet(one \o m.queue) = ToSet(one) \cup ToSet(m.queue)
        /\ Once(one) /\ Once(m.queue) /\ ToSet(one) \cap ToSet(m.queue) = {}
             => Once(one \o m.queue)
    BY <1>3, <2>1, JoinFits, ZenonT(40) DEF one
  <2>. QED
    BY <2>1, <2>2, <2>3 DEF one
<1>5. /\ new.token[id] = rec
      /\ \A i \in Ids : i # id => new.token[i] = m.token[i]
  BY <1>1, <1>2, <1>3
<1>6. rec.left = 0 /\ ~rec.cancelled /\ rec.use = use /\ rec.of = of
  OBVIOUS
<1>. HIDE DEF new, id, rec
<1>7. ToSet(new.queue) = {id} \cup ToSet(m.queue)
  BY <1>1, <1>4
<1>8. /\ Once(new.queue) /\ Once(new.timeouts) /\ Once(new.batch)
      /\ ToSet(new.queue) \cap ToSet(new.timeouts) = {}
      /\ ToSet(new.queue) \cap ToSet(new.batch) = {}
      /\ ToSet(new.timeouts) \cap ToSet(new.batch) = {}
      /\ new.next <= Len(new.batch) + 1
  <2>1. Once(new.queue)
    BY <1>1, <1>4 DEF ListsFit
  <2>2. Once(new.timeouts) /\ Once(new.batch) /\ new.next <= Len(new.batch) + 1
        /\ ToSet(new.timeouts) \cap ToSet(new.batch) = {}
    BY <1>1 DEF ListsFit
  <2>3. ToSet(new.queue) \cap ToSet(new.timeouts) = {} /\ ToSet(new.queue) \cap ToSet(new.batch) = {}
    BY <1>1, <1>2, <1>7 DEF ListsFit
  <2>. QED
    BY <2>1, <2>2, <2>3
<1>9. ToCome(new) = ToCome(m)
  BY <1>1 DEF ToCome
<1>10. ASSUME NEW i \in Ids, ~new.token[i].cancelled
       PROVE  i \in ToSet(new.queue) \cup ToSet(new.timeouts) \cup ToCome(new)
  BY <1>1, <1>5, <1>7, <1>9, <1>10 DEF ListsFit
<1>11. ASSUME NEW i \in 1..Len(new.timeouts)
       PROVE  new.token[new.timeouts[i]] = m.token[m.timeouts[i]]
  BY <1>1, <1>2, <1>3, <1>5, Members
<1>12. Sorted(new.timeouts, new.token)
  BY <1>1, <1>11 DEF ListsFit, Sorted
<1>13. \A i \in ToSet(new.queue) \cup ToSet(new.batch) : new.token[i].left = 0
  BY <1>1, <1>2, <1>3, <1>5, <1>6, <1>7, SMTT(30) DEF ListsFit
<1>14. ListsFit(new)
  BY <1>1, <1>8, <1>10, <1>12, <1>13 DEF ListsFit
<1>15. ASSUME Awake(m) PROVE Awake(new)
  <2>1. new.queue # <<>> => new.woken
    BY <1>1, <1>15 DEF Awake
  <2>2. new.timer = "WAITING" /\ new.timeouts # <<>> =>
          new.until \in 0..new.token[Head(new.timeouts)].left
    <3>. SUFFICES ASSUME new.timer = "WAITING", new.timeouts # <<>>
                  PROVE  new.until \in 0..new.token[Head(new.timeouts)].left
      OBVIOUS
    <3>1. 1 \in 1..Len(new.timeouts) /\ Head(new.timeouts) = new.timeouts[1]
          /\ Head(m.timeouts) = m.timeouts[1]
      BY <1>1, <1>3
    <3>. QED
      BY <1>1, <1>11, <1>15, <3>1 DEF Awake
  <2>. QED
    BY <1>1, <1>15, <2>1, <2>2 DEF Awake
<1>. QED
  BY <1>1, <1>2, <1>5, <1>6, <1>14, <1>15 DEF GivenOut, id, new

\* vsx_main_thread_queue_timeout.
LEMMA JoinSorted ==
  ASSUME NEW T, NEW s \in Seq(T), NEW t \in Seq(T), NEW token,
         Sorted(s, token), Sorted(t, token),
         \A x \in ToSet(s), y \in ToSet(t) : token[x].left <= token[y].left
  PROVE  Sorted(s \o t, token)
<1>. DEFINE r == s \o t
<1>1. /\ r \in Seq(T) /\ Len(r) = Len(s) + Len(t) /\ Len(s) \in Nat /\ Len(t) \in Nat
      /\ \A i \in 1..Len(s) : r[i] = s[i]
      /\ \A i \in 1..Len(t) : r[Len(s) + i] = t[i]
  OBVIOUS
<1>2. \A i \in 1..Len(r) : i \in 1..Len(s) \/ (i - Len(s) \in 1..Len(t) /\ r[i] = t[i - Len(s)])
  <2>1. ASSUME NEW i \in 1..Len(r), i \notin 1..Len(s)
        PROVE  i - Len(s) \in 1..Len(t) /\ Len(s) + (i - Len(s)) = i
    BY <1>1, <2>1
  <2>. HIDE DEF r
  <2>. QED
    BY <1>1, <2>1
<1>3. /\ ToSet(s) = {s[i] : i \in 1..Len(s)} /\ ToSet(t) = {t[i] : i \in 1..Len(t)}
  BY <1>1, Members
<1>. HIDE DEF r
<1>4. ASSUME NEW i \in 1..Len(r), NEW j \in 1..Len(r), i < j
      PROVE  token[r[i]].left <= token[r[j]].left
  <2>1. CASE i \in 1..Len(s) /\ j \in 1..Len(s)
    BY <1>1, <1>4, <2>1 DEF Sorted
  <2>2. CASE i \notin 1..Len(s) /\ j \notin 1..Len(s)
    <3>1. i - Len(s) < j - Len(s) /\ i - Len(s) \in 1..Len(t) /\ j - Len(s) \in 1..Len(t)
          /\ r[i] = t[i - Len(s)] /\ r[j] = t[j - Len(s)]
      BY <1>1, <1>2, <1>4, <2>2
    <3>. QED
      BY <3>1 DEF Sorted
  <2>3. CASE i \in 1..Len(s) /\ j \notin 1..Len(s)
    <3>1. r[i] \in ToSet(s)
      BY <1>1, <1>3, <2>3
    <3>2. r[j] \in ToSet(t)
      BY <1>2, <1>3, <2>3
    <3>. QED
      BY <3>1, <3>2
  <2>4. CASE i \notin 1..Len(s) /\ j \in 1..Len(s)
    BY <1>1, <1>4, <2>4
  <2>. QED
    BY <2>1, <2>2, <2>3, <2>4
<1>. QED
  BY <1>4 DEF Sorted, r

LEMMA OnlySorted ==
  ASSUME NEW T, NEW s \in Seq(T), NEW token, Sorted(s, token), NEW tokens
  PROVE  Sorted(Only(s, tokens), token)
<1>1. \A i, j \in 1..Len(Only(s, tokens)) : i < j =>
        \E k, l \in 1..Len(s) : k < l /\ Only(s, tokens)[i] = s[k] /\ Only(s, tokens)[j] = s[l]
  BY OnlyFits
<1>. QED
  BY <1>1 DEF Sorted

LEMMA SignalledFields ==
  ASSUME NEW m \in MainThreads
  PROVE  LET new == Signalled(m) IN
         /\ new \in MainThreads
         /\ new.queue = m.queue /\ new.timeouts = m.timeouts /\ new.batch = m.batch
         /\ new.next = m.next /\ new.token = m.token /\ new.woken = m.woken
         /\ new.until = m.until /\ new.ending = m.ending /\ new.timer # "WAITING"
         /\ new.timer \in {"STARTING", "SIGNALLED", "DONE"}
BY DEF Signalled, MainThreads

LEMMA QueueTimeoutFields ==
  ASSUME NEW m \in MainThreads, HasRoom(m), NEW use \in Uses, NEW of \in Nat
  PROVE  LET new == QueueTimeout(m, use, of)
             sooner == {i \in Ids : m.token[i].left < Duration[use]} IN
         /\ new \in MainThreads
         /\ new.queue = m.queue /\ new.woken = m.woken
         /\ new.timeouts = Only(m.timeouts, sooner) \o <<NewId(m)>>
                                                    \o Only(m.timeouts, Ids \ sooner)
         /\ new.batch = m.batch /\ new.next = m.next /\ new.timer # "WAITING"
         /\ new.until = m.until /\ new.ending = m.ending
         /\ new.token = [m.token EXCEPT ![NewId(m)] =
              [use |-> use, of |-> of, left |-> Duration[use], cancelled |-> FALSE]]
<1>. DEFINE id == NewId(m)
            rec == [use |-> use, of |-> of, left |-> Duration[use], cancelled |-> FALSE]
            sooner == {i \in Ids : m.token[i].left < Duration[use]}
            A == Only(m.timeouts, sooner)
            B == Only(m.timeouts, Ids \ sooner)
            q == A \o <<id>> \o B
            t == [m.token EXCEPT ![id] = rec]
<1>1. /\ m.timeouts \in Seq(Ids) /\ m.token \in [Ids -> Tokens]
  BY MainThreadFields
<1>2. id \in Ids
  BY FreshToken
<1>3. rec \in Tokens
  BY DurationAssumption DEF Tokens, AllUses
<1>4. q \in Seq(Ids)
  <2>1. A \in Seq(Ids) /\ B \in Seq(Ids)
    BY <1>1, OnlyFits
  <2>. HIDE DEF A, B, id
  <2>. QED
    BY <1>2, <2>1
<1>5. t \in [Ids -> Tokens]
  BY <1>1, <1>2, <1>3
<1>. DEFINE mid == [m EXCEPT !.token = t, !.timeouts = q]
<1>6. QueueTimeout(m, use, of) = Signalled(mid)
  BY DEF QueueTimeout, Created, MainThreads
<1>. HIDE DEF id, rec, A, B, q, t, sooner
<1>7. /\ mid \in MainThreads /\ mid.queue = m.queue /\ mid.woken = m.woken /\ mid.token = t
      /\ mid.timeouts = q /\ mid.batch = m.batch /\ mid.next = m.next
      /\ mid.until = m.until /\ mid.ending = m.ending
  BY <1>4, <1>5 DEF MainThreads
<1>. HIDE DEF mid
<1>. DEFINE new == Signalled(mid)
<1>8. /\ new \in MainThreads
      /\ new.queue = mid.queue /\ new.timeouts = mid.timeouts /\ new.batch = mid.batch
      /\ new.next = mid.next /\ new.token = mid.token /\ new.woken = mid.woken
      /\ new.until = mid.until /\ new.ending = mid.ending /\ new.timer # "WAITING"
  BY <1>7, SignalledFields
<1>. HIDE DEF new
<1>9. new = QueueTimeout(m, use, of)
  BY <1>6 DEF new
<1>. QED
  BY <1>7, <1>8, <1>9 DEF id, rec, A, B, q, t, sooner

LEMMA QueueTimeoutFits ==
  ASSUME NEW m, ListsFit(m), HasRoom(m), NEW use \in Uses, NEW of \in Nat
  PROVE  LET new == QueueTimeout(m, use, of) IN
         /\ ListsFit(new) /\ GivenOut(m, new, use, of)
         /\ new.token[NewId(m)].left = Duration[use]
         /\ Awake(m) => Awake(new)
         /\ new.batch = m.batch
<1>0. m \in MainThreads
  BY DEF ListsFit
<1>a. LET new == QueueTimeout(m, use, of)
          sooner == {i \in Ids : m.token[i].left < Duration[use]} IN
      /\ new \in MainThreads
      /\ new.queue = m.queue /\ new.woken = m.woken
      /\ new.timeouts = Only(m.timeouts, sooner) \o <<NewId(m)>>
                                                 \o Only(m.timeouts, Ids \ sooner)
      /\ new.batch = m.batch /\ new.next = m.next /\ new.timer # "WAITING"
      /\ new.until = m.until /\ new.ending = m.ending
      /\ new.token = [m.token EXCEPT ![NewId(m)] =
           [use |-> use, of |-> of, left |-> Duration[use], cancelled |-> FALSE]]
  BY <1>0, QueueTimeoutFields, ZenonT(40)
<1>. DEFINE new == QueueTimeout(m, use, of)
            id == NewId(m)
            rec == [use |-> use, of |-> of, left |-> Duration[use], cancelled |-> FALSE]
            sooner == {i \in Ids : m.token[i].left < Duration[use]}
            A == Only(m.timeouts, sooner)
            B == Only(m.timeouts, Ids \ sooner)
            one == <<id>>
<1>1. /\ new \in MainThreads
      /\ new.queue = m.queue /\ new.woken = m.woken
      /\ new.timeouts = A \o one \o B
      /\ new.batch = m.batch /\ new.next = m.next /\ new.timer # "WAITING"
      /\ new.token = [m.token EXCEPT ![id] = rec]
  BY <1>a, Zenon
<1>2. /\ id \in Ids /\ id \notin ToSet(m.queue) /\ id \notin ToSet(m.timeouts)
      /\ id \notin ToSet(m.batch)
  BY <1>0, FreshToken
<1>3. /\ m.queue \in Seq(Ids) /\ m.timeouts \in Seq(Ids) /\ m.batch \in Seq(Ids)
      /\ m.token \in [Ids -> Tokens]
      /\ ToCome(m) \subseteq ToSet(m.batch) /\ ToSet(m.queue) \subseteq Ids
      /\ ToSet(m.batch) \subseteq Ids /\ ToSet(m.timeouts) \subseteq Ids
  BY <1>0, MainThreadFields
<1>4. /\ A \in Seq(Ids) /\ ToSet(A) = ToSet(m.timeouts) \cap sooner /\ Once(A)
      /\ B \in Seq(Ids) /\ ToSet(B) = ToSet(m.timeouts) \cap (Ids \ sooner) /\ Once(B)
      /\ Sorted(A, m.token) /\ Sorted(B, m.token)
  BY <1>3, OnlyFits, OnlySorted DEF ListsFit
<1>5. one \in Seq(Ids) /\ ToSet(one) = {id} /\ Once(one) /\ Len(one) = 1 /\ one[1] = id
  BY <1>2, OneFits
<1>6. /\ new.token[id] = rec
      /\ \A i \in Ids : i # id => new.token[i] = m.token[i]
  BY <1>1, <1>2, <1>3
<1>7. rec.left = Duration[use] /\ ~rec.cancelled /\ rec.use = use /\ rec.of = of
  OBVIOUS
<1>8. \A i \in Ids : m.token[i].left \in Nat /\ (i \in sooner <=> m.token[i].left < Duration[use])
  BY <1>3 DEF Tokens
<1>9. Duration[use] \in Nat
  BY DurationAssumption
<1>. HIDE DEF new, id, rec, A, B, one, sooner
<1>10. /\ A \o one \in Seq(Ids) /\ ToSet(A \o one) = ToSet(A) \cup {id} /\ Once(A \o one)
  <2>1. ToSet(A) \cap ToSet(one) = {}
    BY <1>2, <1>4, <1>5
  <2>. QED
    BY <1>4, <1>5, <2>1, JoinFits
<1>11. /\ ToSet(new.timeouts) = ToSet(m.timeouts) \cup {id} /\ Once(new.timeouts)
  <2>. DEFINE first == A \o one
  <2>1. ToSet(first) \cap ToSet(B) = {}
    BY <1>2, <1>4, <1>10
  <2>2. first \in Seq(Ids) /\ Once(first) /\ ToSet(first) = ToSet(A) \cup {id}
    BY <1>10
  <2>. HIDE DEF first
  <2>3. ToSet(first \o B) = ToSet(first) \cup ToSet(B) /\ Once(first \o B)
    BY <1>4, <2>1, <2>2, JoinFits
  <2>4. ToSet(A) \cup ToSet(B) = ToSet(m.timeouts)
    BY <1>3, <1>4
  <2>5. new.timeouts = first \o B
    BY <1>1 DEF first
  <2>. QED
    BY <2>2, <2>3, <2>4, <2>5
<1>12. Sorted(new.timeouts, new.token)
  <2>1. ASSUME NEW s \in Seq(Ids), ToSet(s) \subseteq ToSet(m.timeouts), Sorted(s, m.token)
        PROVE  Sorted(s, new.token)
    <3>1. \A i \in 1..Len(s) : s[i] \in Ids /\ s[i] # id
      BY <1>2, <2>1, Members
    <3>. QED
      BY <1>6, <2>1, <3>1 DEF Sorted
  <2>2. Sorted(A, new.token) /\ Sorted(B, new.token)
    BY <1>4, <2>1
  <2>3. Sorted(one, new.token)
    BY <1>5 DEF Sorted
  <2>4. \A x \in ToSet(A) : x \in Ids /\ new.token[x].left \in Nat
                           /\ new.token[x].left < Duration[use]
    BY <1>2, <1>3, <1>4, <1>6, <1>8
  <2>5. \A x \in ToSet(B) : x \in Ids /\ new.token[x].left \in Nat
                           /\ Duration[use] <= new.token[x].left
    BY <1>2, <1>3, <1>4, <1>6, <1>8, <1>9, SMTT(30)
  <2>6. new.token[id].left = Duration[use]
    BY <1>6, <1>7
  <2>7. \A x \in ToSet(A), y \in ToSet(one) : new.token[x].left <= new.token[y].left
    BY <1>5, <1>9, <2>4, <2>6
  <2>8. Sorted(A \o one, new.token)
    BY <1>4, <1>5, <2>2, <2>3, <2>7, JoinSorted
  <2>9. \A x \in ToSet(A \o one), y \in ToSet(B) : new.token[x].left <= new.token[y].left
    BY <1>9, <1>10, <2>4, <2>5, <2>6
  <2>10. Sorted(A \o one \o B, new.token)
    <3>. DEFINE first == A \o one
    <3>1. first \in Seq(Ids) /\ Sorted(first, new.token)
          /\ \A x \in ToSet(first), y \in ToSet(B) : new.token[x].left <= new.token[y].left
      BY <1>10, <2>8, <2>9
    <3>. HIDE DEF first
    <3>2. Sorted(first \o B, new.token)
      BY <1>4, <2>2, <3>1, JoinSorted
    <3>. QED
      BY <3>2 DEF first
  <2>. QED
    BY <1>1, <2>10
<1>13. /\ Once(new.queue) /\ Once(new.batch) /\ new.next <= Len(new.batch) + 1
       /\ ToSet(new.queue) \cap ToSet(new.timeouts) = {}
       /\ ToSet(new.queue) \cap ToSet(new.batch) = {}
       /\ ToSet(new.timeouts) \cap ToSet(new.batch) = {}
  <2>1. Once(new.queue) /\ Once(new.batch) /\ new.next <= Len(new.batch) + 1
        /\ ToSet(new.queue) \cap ToSet(new.batch) = {}
    BY <1>1 DEF ListsFit
  <2>2. /\ ToSet(m.queue) \cap ToSet(m.timeouts) = {} /\ ToSet(m.timeouts) \cap ToSet(m.batch) = {}
    BY DEF ListsFit
  <2>. QED
    BY <1>1, <1>2, <1>11, <2>1, <2>2
<1>14. ToCome(new) = ToCome(m)
  BY <1>1 DEF ToCome
<1>15. ASSUME NEW i \in Ids, ~new.token[i].cancelled
       PROVE  i \in ToSet(new.queue) \cup ToSet(new.timeouts) \cup ToCome(new)
  BY <1>1, <1>6, <1>11, <1>14, <1>15 DEF ListsFit
<1>16. \A i \in ToSet(new.queue) \cup ToSet(new.batch) : new.token[i].left = 0
  BY <1>1, <1>2, <1>3, <1>6 DEF ListsFit
<1>17. ListsFit(new)
  BY <1>1, <1>11, <1>12, <1>13, <1>15, <1>16 DEF ListsFit
<1>18. Awake(m) => Awake(new)
  BY <1>1 DEF Awake
<1>. QED
  BY <1>1, <1>2, <1>6, <1>7, <1>17, <1>18 DEF GivenOut, id, new

\* vsx_main_thread_cancel_idle.
LEMMA CancelFits ==
  ASSUME NEW m, ListsFit(m), NEW ids
  PROVE  LET new == Cancel(m, ids) IN
         /\ ListsFit(new)
         /\ Awake(m) => Awake(new)
         /\ new.batch = m.batch /\ new.next = m.next
         /\ \A i \in Ids : new.token[i].left = m.token[i].left
         /\ \A i \in Ids \ ids : new.token[i] = m.token[i]
         /\ \A i \in Ids \cap ids : new.token[i].cancelled
<1>. DEFINE t == [i \in Ids |-> IF i \in ids THEN [Blank EXCEPT !.left = m.token[i].left]
                                ELSE m.token[i]]
            new == [m EXCEPT !.token = t]
<1>1. m \in MainThreads
  BY DEF ListsFit
<1>2. /\ m.queue \in Seq(Ids) /\ m.timeouts \in Seq(Ids) /\ m.batch \in Seq(Ids)
      /\ m.token \in [Ids -> Tokens] /\ ToSet(m.batch) \subseteq Ids /\ ToSet(m.queue) \subseteq Ids
  BY <1>1, MainThreadFields
<1>3. /\ \A i \in Ids : t[i] \in Tokens /\ t[i].left = m.token[i].left
      /\ \A i \in Ids \ ids : t[i] = m.token[i]
      /\ \A i \in Ids \cap ids : t[i].cancelled
  BY <1>2 DEF Tokens, Blank
<1>4. t \in [Ids -> Tokens]
  BY <1>3
<1>. HIDE DEF t
<1>5. /\ new \in MainThreads /\ new.token = t /\ new.queue = m.queue
      /\ new.timeouts = m.timeouts /\ new.batch = m.batch /\ new.next = m.next
      /\ new.timer = m.timer /\ new.until = m.until /\ new.ending = m.ending
      /\ new.woken = m.woken
  BY <1>1, <1>4 DEF MainThreads
<1>6. new = Cancel(m, ids)
  BY DEF Cancel, t
<1>. HIDE DEF new
<1>7. ToCome(new) = ToCome(m)
  BY <1>5 DEF ToCome
<1>8. \A i \in 1..Len(m.timeouts) : m.timeouts[i] \in Ids
  BY <1>2
<1>9. Sorted(new.timeouts, new.token)
  BY <1>3, <1>5, <1>8 DEF ListsFit, Sorted
<1>10. \A i \in Ids : ~new.token[i].cancelled =>
         i \in ToSet(new.queue) \cup ToSet(new.timeouts) \cup ToCome(new)
  BY <1>3, <1>5, <1>7 DEF ListsFit
<1>11. \A i \in ToSet(new.queue) \cup ToSet(new.batch) : new.token[i].left = 0
  BY <1>2, <1>3, <1>5 DEF ListsFit
<1>12. ListsFit(new)
  BY <1>5, <1>9, <1>10, <1>11 DEF ListsFit
<1>13. ASSUME Awake(m) PROVE Awake(new)
  <2>1. m.timeouts # <<>> => Head(m.timeouts) \in Ids
    BY <1>2
  <2>. QED
    BY <1>3, <1>5, <1>13, <2>1 DEF Awake
<1>. QED
  BY <1>3, <1>5, <1>6, <1>12, <1>13

\* One of the batch is called, or left out.
CalledOne(m) == [m EXCEPT !.next = @ + 1, !.token[m.batch[m.next]] = Blank]

LEMMA CallFits ==
  ASSUME NEW m, ListsFit(m), m.next <= Len(m.batch)
  PROVE  LET new == CalledOne(m)
             id == m.batch[m.next] IN
         /\ ListsFit(new)
         /\ Awake(m) => Awake(new)
         /\ new.batch = m.batch
         /\ id \in Ids /\ m.token[id].left = 0
         /\ new.token[id].cancelled /\ new.token[id].left = 0
         /\ \A i \in Ids : i # id => new.token[i] = m.token[i]
<1>. DEFINE id == m.batch[m.next]
            t == [m.token EXCEPT ![id] = Blank]
            n == m.next + 1
            new == [m EXCEPT !.next = n, !.token = t]
<1>1. m \in MainThreads
  BY DEF ListsFit
<1>2. /\ m.queue \in Seq(Ids) /\ m.timeouts \in Seq(Ids) /\ m.batch \in Seq(Ids)
      /\ m.token \in [Ids -> Tokens] /\ m.next \in Nat \ {0}
      /\ ToSet(m.batch) \subseteq Ids /\ ToSet(m.queue) \subseteq Ids
      /\ ToSet(m.timeouts) \subseteq Ids
  BY <1>1, MainThreadFields
<1>3. id \in ToSet(m.batch) /\ id \in Ids
  BY <1>2, Members
<1>4. Blank \in Tokens /\ Blank.cancelled /\ Blank.left = 0
  BY DEF Blank, Tokens
<1>5. /\ t \in [Ids -> Tokens] /\ t[id] = Blank
      /\ \A i \in Ids : i # id => t[i] = m.token[i]
  BY <1>2, <1>3, <1>4
<1>6. new = CalledOne(m)
  BY <1>1 DEF CalledOne, MainThreads
<1>7. n \in Nat \ {0} /\ n <= Len(m.batch) + 1 /\ n = m.next + 1
  BY <1>2
<1>. HIDE DEF t, id, n
<1>8. /\ new \in MainThreads /\ new.token = t /\ new.queue = m.queue
      /\ new.timeouts = m.timeouts /\ new.batch = m.batch /\ new.next = n
      /\ new.timer = m.timer /\ new.until = m.until /\ new.ending = m.ending
      /\ new.woken = m.woken
  BY <1>1, <1>5, <1>7 DEF MainThreads
<1>. HIDE DEF new
<1>9. ASSUME NEW i \in ToCome(m), i # id PROVE i \in ToCome(new)
  <2>1. PICK j \in m.next..Len(m.batch) : i = m.batch[j]
    BY DEF ToCome
  <2>2. j # m.next
    BY <1>9, <2>1 DEF id
  <2>3. j \in n..Len(m.batch)
    BY <1>2, <1>7, <2>2
  <2>. QED
    BY <1>8, <2>1, <2>3 DEF ToCome
<1>10. id \notin ToSet(m.timeouts) /\ id \notin ToSet(m.queue)
  BY <1>3 DEF ListsFit
<1>11. \A i \in 1..Len(m.timeouts) : m.timeouts[i] \in Ids /\ m.timeouts[i] # id
  BY <1>2, <1>10, Members
<1>12. Sorted(new.timeouts, new.token)
  BY <1>5, <1>8, <1>11 DEF ListsFit, Sorted
<1>13. \A i \in Ids : ~new.token[i].cancelled =>
         i \in ToSet(new.queue) \cup ToSet(new.timeouts) \cup ToCome(new)
  <2>. SUFFICES ASSUME NEW i \in Ids, ~new.token[i].cancelled
                PROVE  i \in ToSet(new.queue) \cup ToSet(new.timeouts) \cup ToCome(new)
    OBVIOUS
  <2>1. i # id /\ ~m.token[i].cancelled
    BY <1>4, <1>5, <1>8
  <2>2. i \in ToSet(m.queue) \cup ToSet(m.timeouts) \cup ToCome(m)
    BY <2>1 DEF ListsFit
  <2>. QED
    BY <1>8, <1>9, <2>1, <2>2
<1>14. \A i \in ToSet(new.queue) \cup ToSet(new.batch) : new.token[i].left = 0
  BY <1>2, <1>4, <1>5, <1>8 DEF ListsFit
<1>15. ListsFit(new)
  BY <1>7, <1>8, <1>12, <1>13, <1>14 DEF ListsFit
<1>16. ASSUME Awake(m) PROVE Awake(new)
  <2>1. m.timeouts # <<>> => Head(m.timeouts) \in Ids /\ Head(m.timeouts) # id
    BY <1>2, <1>11
  <2>. QED
    BY <1>5, <1>8, <1>16, <2>1 DEF Awake
<1>17. m.token[id].left = 0
  BY <1>3 DEF ListsFit
<1>. QED
  BY <1>3, <1>4, <1>5, <1>6, <1>8, <1>15, <1>16, <1>17 DEF id

\* flush_ready_timeout_events_locked.
LEMMA FlushReadyFields ==
  ASSUME NEW m \in MainThreads
  PROVE  LET new == FlushReady(m)
             due == {i \in Ids : m.token[i].left = 0}
             moved == Reverse(Only(m.timeouts, {i \in due : ~m.token[i].cancelled})) IN
         /\ new \in MainThreads
         /\ new.queue = moved \o m.queue /\ new.timeouts = Only(m.timeouts, Ids \ due)
         /\ new.woken = (m.woken \/ moved # <<>>)
         /\ new.batch = m.batch /\ new.next = m.next /\ new.token = m.token
         /\ new.timer = m.timer /\ new.until = m.until /\ new.ending = m.ending
<1>. DEFINE due == {i \in Ids : m.token[i].left = 0}
            moved == Reverse(Only(m.timeouts, {i \in due : ~m.token[i].cancelled}))
            rest == Only(m.timeouts, Ids \ due)
            q == moved \o m.queue
            w == m.woken \/ moved # <<>>
            new == [m EXCEPT !.timeouts = rest, !.queue = q, !.woken = w]
<1>1. m.queue \in Seq(Ids) /\ m.timeouts \in Seq(Ids) /\ m.woken \in BOOLEAN
  BY MainThreadFields
<1>2. rest \in Seq(Ids) /\ moved \in Seq(Ids)
  BY <1>1, OnlyFits, ReverseFits
<1>3. new = FlushReady(m)
  BY DEF FlushReady, MainThreads
<1>. HIDE DEF due, moved, rest
<1>4. q \in Seq(Ids) /\ w \in BOOLEAN
  BY <1>1, <1>2
<1>. HIDE DEF q, w
<1>5. /\ new \in MainThreads /\ new.queue = q /\ new.timeouts = rest /\ new.woken = w
      /\ new.batch = m.batch /\ new.next = m.next /\ new.token = m.token
      /\ new.timer = m.timer /\ new.until = m.until /\ new.ending = m.ending
  BY <1>4, <1>2 DEF MainThreads
<1>. HIDE DEF new
<1>. QED
  BY <1>3, <1>5 DEF q, w, rest, moved, due

LEMMA FlushReadyFits ==
  ASSUME NEW m, ListsFit(m)
  PROVE  LET new == FlushReady(m) IN
         /\ ListsFit(new) /\ new.token = m.token /\ new.batch = m.batch
         /\ new.ending = m.ending
         /\ (m.queue # <<>> => m.woken) => (new.queue # <<>> => new.woken)
<1>. DEFINE new == FlushReady(m)
            due == {i \in Ids : m.token[i].left = 0}
            alive == {i \in due : ~m.token[i].cancelled}
            there == Only(m.timeouts, alive)
            moved == Reverse(there)
            rest == Only(m.timeouts, Ids \ due)
<1>0. m \in MainThreads
  BY DEF ListsFit
<1>1. /\ m.queue \in Seq(Ids) /\ m.timeouts \in Seq(Ids) /\ m.batch \in Seq(Ids)
      /\ ToSet(m.queue) \subseteq Ids /\ ToSet(m.timeouts) \subseteq Ids
  BY <1>0, MainThreadFields
<1>2. /\ new \in MainThreads
      /\ new.queue = moved \o m.queue /\ new.timeouts = rest
      /\ new.woken = (m.woken \/ moved # <<>>)
      /\ new.batch = m.batch /\ new.next = m.next /\ new.token = m.token
      /\ new.ending = m.ending
  BY <1>0, FlushReadyFields
<1>3. /\ rest \in Seq(Ids) /\ ToSet(rest) = ToSet(m.timeouts) \cap (Ids \ due) /\ Once(rest)
      /\ there \in Seq(Ids) /\ ToSet(there) = ToSet(m.timeouts) \cap alive /\ Once(there)
      /\ Sorted(rest, m.token)
  BY <1>1, OnlyFits, OnlySorted DEF ListsFit
<1>4. /\ \A i \in Ids : i \in due <=> m.token[i].left = 0
      /\ alive \subseteq due
      /\ \A i \in due : ~m.token[i].cancelled => i \in alive
  OBVIOUS
<1>. HIDE DEF new, due, alive, there, rest
<1>5. moved \in Seq(Ids) /\ ToSet(moved) = ToSet(m.timeouts) \cap alive /\ Once(moved)
  BY <1>3, ReverseFits
<1>. HIDE DEF moved
<1>6. ToSet(moved) \cap ToSet(m.queue) = {}
  BY <1>5 DEF ListsFit
<1>7. ToSet(new.queue) = ToSet(moved) \cup ToSet(m.queue) /\ Once(new.queue)
  BY <1>1, <1>2, <1>5, <1>6, JoinFits DEF ListsFit
<1>8. /\ Once(new.timeouts) /\ Once(new.batch) /\ new.next <= Len(new.batch) + 1
      /\ Sorted(new.timeouts, new.token)
  BY <1>2, <1>3 DEF ListsFit
<1>9. /\ ToSet(new.queue) \cap ToSet(new.timeouts) = {}
      /\ ToSet(new.queue) \cap ToSet(new.batch) = {}
      /\ ToSet(new.timeouts) \cap ToSet(new.batch) = {}
  <2>1. /\ ToSet(m.queue) \cap ToSet(m.timeouts) = {} /\ ToSet(m.queue) \cap ToSet(m.batch) = {}
        /\ ToSet(m.timeouts) \cap ToSet(m.batch) = {}
    BY DEF ListsFit
  <2>. QED
    BY <1>2, <1>3, <1>4, <1>5, <1>7, <2>1
<1>10. ToCome(new) = ToCome(m)
  BY <1>2 DEF ToCome
<1>11. \A i \in Ids : ~new.token[i].cancelled =>
         i \in ToSet(new.queue) \cup ToSet(new.timeouts) \cup ToCome(new)
  <2>. SUFFICES ASSUME NEW i \in Ids, ~m.token[i].cancelled
                PROVE  i \in ToSet(new.queue) \cup ToSet(new.timeouts) \cup ToCome(new)
    BY <1>2
  <2>1. i \in ToSet(m.queue) \cup ToSet(m.timeouts) \cup ToCome(m)
    BY DEF ListsFit
  <2>. QED
    BY <1>2, <1>3, <1>4, <1>5, <1>7, <1>10, <2>1
<1>12. \A i \in ToSet(new.queue) \cup ToSet(new.batch) : new.token[i].left = 0
  <2>1. \A i \in ToSet(moved) : m.token[i].left = 0
    BY <1>1, <1>4, <1>5
  <2>. QED
    BY <1>2, <1>7, <2>1 DEF ListsFit
<1>13. ListsFit(new)
  BY <1>2, <1>7, <1>8, <1>9, <1>11, <1>12 DEF ListsFit
<1>14. (m.queue # <<>> => m.woken) => (new.queue # <<>> => new.woken)
  <2>. SUFFICES ASSUME m.queue # <<>> => m.woken, moved = <<>> PROVE new.queue # <<>> => new.woken
    BY <1>2
  <2>1. new.queue = m.queue
    BY <1>1, <1>2
  <2>. QED
    BY <1>2, <2>1
<1>. QED
  BY <1>2, <1>13, <1>14 DEF new

LEMMA AsleepFits ==
  ASSUME NEW m, ListsFit(m), m.queue # <<>> => m.woken
  PROVE  LET new == Asleep(m) IN
         ListsFit(new) /\ Awake(new) /\ new.token = m.token /\ new.batch = m.batch
<1>. DEFINE timer == IF m.ending THEN "DONE" ELSE "WAITING"
            until == IF m.timeouts = <<>> THEN Never ELSE m.token[Head(m.timeouts)].left
            new == [m EXCEPT !.timer = timer, !.until = until]
<1>1. m \in MainThreads
  BY DEF ListsFit
<1>2. m.timeouts \in Seq(Ids) /\ m.token \in [Ids -> Tokens]
  BY <1>1, MainThreadFields
<1>3. until \in Nat \cup {Never} /\ (m.timeouts # <<>> => until \in Nat)
  <2>1. m.timeouts # <<>> => Head(m.timeouts) \in Ids
    BY <1>2
  <2>. QED
    BY <1>2, <2>1 DEF Tokens
<1>4. new = Asleep(m)
  BY DEF Asleep
<1>5. /\ timer \in {"DONE", "WAITING"} /\ (timer = "WAITING" => ~m.ending)
      /\ (m.timeouts # <<>> => until = m.token[Head(m.timeouts)].left)
  OBVIOUS
<1>. HIDE DEF timer, until
<1>6. /\ new \in MainThreads /\ new.queue = m.queue /\ new.timeouts = m.timeouts
      /\ new.batch = m.batch /\ new.next = m.next /\ new.token = m.token
      /\ new.timer = timer /\ new.until = until /\ new.ending = m.ending
      /\ new.woken = m.woken
  BY <1>1, <1>3, <1>5 DEF MainThreads
<1>. HIDE DEF new
<1>7. ToCome(new) = ToCome(m)
  BY <1>6 DEF ToCome
<1>8. ListsFit(new)
  BY <1>6, <1>7 DEF ListsFit
<1>9. Awake(new)
  BY <1>3, <1>5, <1>6 DEF Awake
<1>. QED
  BY <1>4, <1>6, <1>8, <1>9

\* vsx_main_thread_flush_idle_events takes the queue, and gives its tokens back.
LEMMA FlushFits ==
  ASSUME NEW m, ListsFit(m), m.batch = <<>>
  PROVE  LET new == [m EXCEPT !.queue = <<>>, !.woken = FALSE, !.batch = m.queue, !.next = 1] IN
         ListsFit(new) /\ (Awake(m) => Awake(new)) /\ new.token = m.token /\ new.batch = m.queue
<1>. DEFINE none == <<>>
            first == 1
            taken == m.queue
            new == [m EXCEPT !.queue = none, !.woken = FALSE, !.batch = taken, !.next = first]
<1>0. none \in Seq(Ids) /\ first \in Nat \ {0}
  OBVIOUS
<1>. HIDE DEF none, first, taken
<1>1. m \in MainThreads
  BY DEF ListsFit
<1>2. /\ m.queue \in Seq(Ids) /\ Len(m.queue) \in Nat /\ Len(m.batch) = 0
      /\ m.next \in Nat \ {0}
  BY <1>1, MainThreadFields
<1>3. /\ new \in MainThreads /\ new.queue = <<>> /\ new.timeouts = m.timeouts
      /\ new.batch = m.queue /\ new.next = 1 /\ new.token = m.token
      /\ new.timer = m.timer /\ new.until = m.until /\ new.ending = m.ending
  <2>0. taken \in Seq(Ids)
    BY <1>2 DEF taken
  <2>1. new \in MainThreads
    BY <1>0, <1>1, <2>0 DEF MainThreads
  <2>2. new.queue = none /\ new.batch = taken /\ new.next = first
    BY <1>1 DEF MainThreads
  <2>3. new.timeouts = m.timeouts
        /\ new.token = m.token /\ new.timer = m.timer /\ new.until = m.until
        /\ new.ending = m.ending
    BY <1>1 DEF MainThreads
  <2>. QED
    BY <2>1, <2>2, <2>3 DEF none, first, taken
<1>. HIDE DEF new
<1>4. ToSet(<<>>) = {} /\ Once(<<>>)
  BY DEF ToSet, Once
<1>5. ToCome(m) = {}
  BY <1>2 DEF ToCome
<1>6. ToCome(new) = ToSet(m.queue)
  BY <1>2, <1>3, Members DEF ToCome
<1>7. ToSet(new.queue) = {} /\ Once(new.queue)
  BY <1>3, <1>4
<1>8. \A i \in Ids : ~new.token[i].cancelled =>
         i \in ToSet(new.queue) \cup ToSet(new.timeouts) \cup ToCome(new)
  BY <1>3, <1>5, <1>6 DEF ListsFit
<1>9. new.next <= Len(new.batch) + 1
  BY <1>2, <1>3
<1>10. /\ ToSet(new.queue) \cap ToSet(new.timeouts) = {}
       /\ ToSet(new.queue) \cap ToSet(new.batch) = {}
       /\ ToSet(new.timeouts) \cap ToSet(new.batch) = {}
  BY <1>3, <1>7 DEF ListsFit
<1>11. \A i \in ToSet(new.queue) \cup ToSet(new.batch) : new.token[i].left = 0
  BY <1>3, <1>7 DEF ListsFit
<1>12. Once(new.timeouts) /\ Once(new.batch) /\ Sorted(new.timeouts, new.token)
  BY <1>3 DEF ListsFit
<1>13. ListsFit(new)
  BY <1>3, <1>7, <1>8, <1>9, <1>10, <1>11, <1>12 DEF ListsFit
<1>14. Awake(m) => Awake(new)
  BY <1>3 DEF Awake
<1>. QED
  BY <1>3, <1>13, <1>14 DEF new, none, first, taken

LEMMA FlushDoneFits ==
  ASSUME NEW m, ListsFit(m), m.next > Len(m.batch)
  PROVE  LET new == [m EXCEPT !.batch = <<>>, !.next = 1] IN
         ListsFit(new) /\ (Awake(m) => Awake(new)) /\ new.token = m.token /\ new.batch = <<>>
<1>. DEFINE none == <<>>
            first == 1
            new == [m EXCEPT !.batch = none, !.next = first]
<1>0. none \in Seq(Ids) /\ first \in Nat \ {0}
  OBVIOUS
<1>. HIDE DEF none, first
<1>1. m \in MainThreads
  BY DEF ListsFit
<1>2. m.batch \in Seq(Ids) /\ Len(m.batch) \in Nat /\ m.next \in Nat \ {0}
  BY <1>1, MainThreadFields
<1>3. /\ new \in MainThreads /\ new.queue = m.queue /\ new.timeouts = m.timeouts
      /\ new.batch = <<>> /\ new.next = 1 /\ new.token = m.token /\ new.woken = m.woken
      /\ new.timer = m.timer /\ new.until = m.until /\ new.ending = m.ending
  <2>1. new \in MainThreads
    BY <1>0, <1>1 DEF MainThreads
  <2>2. new.batch = none /\ new.next = first
    BY <1>1 DEF MainThreads
  <2>3. new.queue = m.queue /\ new.timeouts = m.timeouts
        /\ new.token = m.token /\ new.timer = m.timer /\ new.until = m.until
        /\ new.ending = m.ending /\ new.woken = m.woken
    BY <1>1 DEF MainThreads
  <2>. QED
    BY <2>1, <2>2, <2>3 DEF none, first
<1>. HIDE DEF new
<1>4. ToSet(new.batch) = {} /\ Once(new.batch) /\ Len(new.batch) = 0
  BY <1>3 DEF ToSet, Once
<1>5. ToCome(m) = {}
  BY <1>2 DEF ToCome
<1>6. \A i \in Ids : ~new.token[i].cancelled =>
         i \in ToSet(new.queue) \cup ToSet(new.timeouts) \cup ToCome(new)
  BY <1>3, <1>5 DEF ListsFit
<1>7. \A i \in ToSet(new.queue) \cup ToSet(new.batch) : new.token[i].left = 0
  BY <1>3, <1>4 DEF ListsFit
<1>8. ListsFit(new)
  BY <1>3, <1>4, <1>6, <1>7 DEF ListsFit
<1>9. Awake(m) => Awake(new)
  BY <1>3 DEF Awake
<1>. QED
  BY <1>3, <1>8, <1>9 DEF new, none, first

\* A tick of the clock.
LEMMA TickFits ==
  ASSUME NEW m, ListsFit(m)
  PROVE  LET new == Nearer(m) IN
         /\ ListsFit(new) /\ (Awake(m) => Awake(new)) /\ new.batch = m.batch
         /\ \A h : Held(m, h) => Held(new, h)
         /\ \A g : OfGame(m, g) => OfGame(new, g)
         /\ \A i \in Ids : new.token[i].left = Near(m.token[i].left) /\ m.token[i].left \in Nat
<1>. DEFINE t == [i \in Ids |-> [m.token[i] EXCEPT !.left = Near(@)]]
            u == Near(m.until)
            new == [m EXCEPT !.until = u, !.token = t]
<1>1. m \in MainThreads
  BY DEF ListsFit
<1>2. /\ m.queue \in Seq(Ids) /\ m.timeouts \in Seq(Ids) /\ m.batch \in Seq(Ids)
      /\ m.token \in [Ids -> Tokens] /\ ToSet(m.batch) \subseteq Ids /\ ToSet(m.queue) \subseteq Ids
      /\ m.until \in Nat \cup {Never}
  BY <1>1, MainThreadFields
<1>3. ASSUME NEW i \in Ids
      PROVE  /\ m.token[i].left \in Nat
             /\ t[i] \in Tokens /\ t[i].left = Near(m.token[i].left)
             /\ t[i].use = m.token[i].use /\ t[i].of = m.token[i].of
             /\ t[i].cancelled = m.token[i].cancelled
  <2>1. m.token[i] \in Tokens
    BY <1>2
  <2>2. m.token[i].left \in Nat /\ Near(m.token[i].left) \in Nat
    BY <2>1 DEF Tokens, Near
  <2>. DEFINE left == Near(m.token[i].left)
  <2>3. t[i] = [m.token[i] EXCEPT !.left = left]
    OBVIOUS
  <2>. HIDE DEF left, t
  <2>4. left \in Nat
    BY <2>2 DEF left
  <2>5. [m.token[i] EXCEPT !.left = left] \in Tokens
    BY <2>1, <2>4 DEF Tokens
  <2>6. t[i].left = left /\ t[i].use = m.token[i].use /\ t[i].of = m.token[i].of
        /\ t[i].cancelled = m.token[i].cancelled
    BY <2>1, <2>3 DEF Tokens
  <2>. QED
    BY <2>2, <2>3, <2>5, <2>6 DEF left
<1>4. t \in [Ids -> Tokens]
  <2>1. t = [i \in Ids |-> t[i]]
    OBVIOUS
  <2>. HIDE DEF t
  <2>. QED
    BY <1>3, <2>1
<1>5. u \in Nat \cup {Never}
  BY <1>2 DEF Near, Never
<1>6. new = Nearer(m)
  BY DEF Nearer
<1>. HIDE DEF t, u
<1>7. /\ new \in MainThreads /\ new.token = t /\ new.queue = m.queue
      /\ new.timeouts = m.timeouts /\ new.batch = m.batch /\ new.next = m.next
      /\ new.timer = m.timer /\ new.until = u /\ new.ending = m.ending
      /\ new.woken = m.woken
  BY <1>1, <1>4, <1>5 DEF MainThreads
<1>. HIDE DEF new
<1>8. ToCome(new) = ToCome(m)
  BY <1>7 DEF ToCome
<1>9. \A i \in 1..Len(m.timeouts) : m.timeouts[i] \in Ids
  BY <1>2
<1>10. \A a, b \in Nat : a <= b => Near(a) <= Near(b)
  BY DEF Near
<1>11. Sorted(new.timeouts, new.token)
  <2>. SUFFICES ASSUME NEW i \in 1..Len(m.timeouts), NEW j \in 1..Len(m.timeouts), i < j
                PROVE  t[m.timeouts[i]].left <= t[m.timeouts[j]].left
    BY <1>7 DEF Sorted
  <2>1. m.token[m.timeouts[i]].left <= m.token[m.timeouts[j]].left
    BY DEF ListsFit, Sorted
  <2>. QED
    BY <1>3, <1>9, <1>10, <2>1
<1>12. \A i \in Ids : ~new.token[i].cancelled =>
         i \in ToSet(new.queue) \cup ToSet(new.timeouts) \cup ToCome(new)
  BY <1>3, <1>7, <1>8 DEF ListsFit
<1>13. \A i \in ToSet(new.queue) \cup ToSet(new.batch) : new.token[i].left = 0
  BY <1>2, <1>3, <1>7 DEF ListsFit, Near
<1>14. ListsFit(new)
  BY <1>7, <1>11, <1>12, <1>13 DEF ListsFit
<1>15. ASSUME Awake(m) PROVE Awake(new)
  <2>1. m.timeouts # <<>> => Head(m.timeouts) \in Ids
    BY <1>2
  <2>2. \A a, b \in Nat : a <= b => Near(a) \in 0..Near(b)
    BY DEF Near
  <2>3. m.timer = "WAITING" /\ m.timeouts # <<>> => u \in 0..t[Head(m.timeouts)].left
    BY <1>3, <1>15, <2>1, <2>2 DEF Awake, u
  <2>. QED
    BY <1>7, <1>15, <2>3 DEF Awake
<1>16. ASSUME NEW h, Held(m, h) PROVE Held(new, h)
  BY <1>3, <1>7, <1>16 DEF Held
<1>17. ASSUME NEW g, OfGame(m, g) PROVE OfGame(new, g)
  BY <1>3, <1>7, <1>17 DEF OfGame
<1>. QED
  BY <1>3, <1>6, <1>7, <1>14, <1>15, <1>16, <1>17

-----------------------------------------------------------------------------
(* What stays when what it is about stays.                                 *)

LEMMA TokensStay ==
  ASSUME TokensFit, UNCHANGED mt, game'.flush = game.flush, ui'.reset = ui.reset,
         ui'.timer = ui.timer, loader'.idle = loader.idle,
         pc'.main # "CLEARING" => pc.main # "CLEARING" /\ conn'.game = conn.game
  PROVE  TokensFit'
<1>1. Holders' = Holders
  BY DEF Holders, Holder
<1>. QED
  BY <1>1 DEF TokensFit

LEMMA ConnStays ==
  ASSUME ConnFits, UNCHANGED <<conn, plan>>,
         pc'.main \in {"BOOT", "STARTING", "CLEARING", "RESETTING"} => pc'.main = pc.main
  PROVE  ConnFits'
BY DEF ConnFits

LEMMA WorkerStays ==
  ASSUME WorkerFits, worker' = worker, pc'.worker = pc.worker, conn'.poll = conn.poll,
         conn'.address = conn.address, ui'.asked = ui.asked,
         pc'.main \in Freed <=> pc.main \in Freed
  PROVE  WorkerFits'
BY DEF WorkerFits

LEMMA LoaderStays ==
  ASSUME LoaderFits, loader' = loader,
         pc'.main \in {"UNLOADED"} \cup Freed => pc.main \in {"UNLOADED"} \cup Freed
  PROVE  LoaderFits'
BY DEF LoaderFits

LEMMA TimesStay ==
  ASSUME TimesFit, ui'.timer = ui.timer, ui'.shown = ui.shown, ui'.age = ui.age,
         \A u \in Uses : ui.timer[u] # NoToken =>
           mt'.token[ui.timer[u]].left = mt.token[ui.timer[u]].left
  PROVE  TimesFit'
BY DEF TimesFit

LEMMA EventsStay ==
  ASSUME EventsFit, ui'.local = ui.local, game'.events = game.events, ui'.seen = ui.seen,
         conn'.said = conn.said, conn'.game = conn.game, plan' = plan,
         ui'.alive /\ pc'.main # "CLEARING" => ui.alive /\ pc.main # "CLEARING"
  PROVE  EventsFit'
<1>1. Pending' = Pending
  BY DEF Pending
<1>. QED
  BY <1>1 DEF EventsFit, OfThisGame

-----------------------------------------------------------------------------
(* The worker.                                                             *)

LEMMA WakeFits ==
  ASSUME NEW w \in Workers, w.queued = w.pipe
  PROVE  LET new == Wake(w) IN
         /\ new \in Workers /\ new.pipe /\ new.queued
         /\ new.poll = w.poll /\ new.polled = w.polled /\ new.tries = w.tries
         /\ new.toResolve = w.toResolve /\ new.stolen = w.stolen /\ new.quit = w.quit
BY DEF Wake, Workers

LEMMA PublishedFits ==
  ASSUME NEW w \in Workers, w.queued = w.pipe, NEW c, NEW c2, Informed(w, c.poll),
         c2.poll \in ConnPolls
  PROVE  LET new == Published(w, c, c2) IN
         /\ new \in Workers /\ new.queued = new.pipe /\ Informed(new, c2.poll)
         /\ new = w \/ new.pipe
         /\ new.toResolve = w.toResolve /\ new.stolen = w.stolen /\ new.quit = w.quit
<1>1. CASE c2.poll = c.poll
  BY <1>1 DEF Published
<1>2. CASE c2.poll # c.poll
  <2>. DEFINE mid == [w EXCEPT !.poll = c2.poll]
  <2>1. /\ mid \in Workers /\ mid.queued = mid.pipe /\ mid.poll = c2.poll
        /\ mid.toResolve = w.toResolve /\ mid.stolen = w.stolen /\ mid.quit = w.quit
    BY DEF Workers, ConnPolls
  <2>2. Published(w, c, c2) = Wake(mid)
    BY <1>2 DEF Published
  <2>. HIDE DEF mid
  <2>3. /\ Wake(mid) \in Workers /\ Wake(mid).pipe /\ Wake(mid).queued
        /\ Wake(mid).poll = mid.poll /\ Wake(mid).toResolve = mid.toResolve
        /\ Wake(mid).stolen = mid.stolen /\ Wake(mid).quit = mid.quit
    BY <2>1, WakeFits
  <2>. QED
    BY <2>1, <2>2, <2>3 DEF Informed
<1>. QED
  BY <1>1, <1>2

LEMMA ReadPipeFits ==
  ASSUME NEW w \in Workers, w.queued = w.pipe
  PROVE  LET new == ReadPipe(w) IN
         /\ new \in Workers /\ new.queued = new.pipe /\ new.poll = w.poll
         /\ new.toResolve = w.toResolve /\ new.stolen = w.stolen /\ new.quit = w.quit
BY ZenonT(40) DEF ReadPipe, Workers

LEMMA SnapshotFits ==
  ASSUME NEW w \in Workers, ~w.quit
  PROVE  LET new == Snapshot(w) IN
         /\ new \in Workers /\ new.queued = w.queued /\ new.pipe = w.pipe
         /\ new.poll = w.poll /\ SleepsWell(new)
         /\ new.toResolve = w.toResolve /\ new.stolen = w.stolen /\ new.quit = w.quit
BY DEF Snapshot, Workers, SleepsWell, NoAddress

Workplaces == {"START", "POLLING", "POLLED", "RESOLVING", "WAKING", "DONE"}

\* A step of the worker, or of a call with its mutex held, that emits no event.
LEMMA QuietStep ==
  ASSUME ThreadsInvariant, UNCHANGED <<game, mt, ui, loader, plan>>,
         pc' \in [main : Mains, worker : Workplaces], pc'.main = pc.main,
         conn' \in Connections(plan), conn'.game = conn.game, conn'.who = conn.who,
         conn'.said = conn.said, conn'.running = conn.running,
         conn'.named = conn.named \/ pc.main = "IDLE",
         WorkerFits'
  PROVE  ThreadsInvariant'
<1>1. TokensFit'
  BY TokensStay DEF ThreadsInvariant
<1>2. ConnFits'
  BY DEF ThreadsInvariant, ConnFits
<1>3. LoaderFits'
  BY LoaderStays DEF ThreadsInvariant
<1>4. MainFits'
  BY DEF ThreadsInvariant, MainFits, Workplaces
<1>5. TimesFit'
  BY TimesStay DEF ThreadsInvariant
<1>6. EventsFit'
  BY EventsStay DEF ThreadsInvariant
<1>. QED
  BY <1>1, <1>2, <1>3, <1>4, <1>5, <1>6 DEF ThreadsInvariant

LEMMA WorkerMoves ==
  ASSUME ThreadsInvariant, UNCHANGED <<conn, game, mt, ui, loader, plan>>,
         NEW at \in Workplaces, pc' = [pc EXCEPT !.worker = at],
         worker' \in Workers, Informed(worker', conn.poll), worker'.queued = worker'.pipe,
         at = "POLLING" => SleepsWell(worker'),
         at # "RESOLVING" => worker'.stolen = NoAddress,
         pc.main \notin Freed => OnItsWay(worker', at, ui.asked, conn.address)
  PROVE  ThreadsInvariant'
<1>1. pc \in [main : Mains, worker : Workplaces]
  BY DEF ThreadsInvariant, MainFits, Workplaces
<1>2. pc' \in [main : Mains, worker : Workplaces] /\ pc'.main = pc.main /\ pc'.worker = at
  BY <1>1
<1>3. conn' \in Connections(plan)
  BY DEF ThreadsInvariant, ConnFits
<1>4. WorkerFits'
  BY <1>2 DEF ThreadsInvariant, WorkerFits
<1>. QED
  BY <1>2, <1>3, <1>4, QuietStep

LEMMA LoopKeeps ==
  ASSUME ThreadsInvariant, NEW w \in Workers, Informed(w, conn'.poll), w.queued = w.pipe,
         w.stolen = NoAddress, pc.main \notin Freed => OnItsWay(w, "POLLING", ui.asked, conn.address),
         Loop(w), UNCHANGED <<game, mt, ui, loader, plan>>,
         \E p \in ConnPolls : conn' = [conn EXCEPT !.poll = p]
  PROVE  ThreadsInvariant'
<1>. DEFINE at == IF w.quit THEN "DONE" ELSE "POLLING"
<1>1. pc \in [main : Mains, worker : Workplaces] /\ conn \in Connections(plan)
  BY DEF ThreadsInvariant, MainFits, Workplaces, ConnFits
<1>2. pc' = [pc EXCEPT !.worker = at] /\ worker' = IF w.quit THEN w ELSE Snapshot(w)
  BY DEF Loop
<1>3. pc' \in [main : Mains, worker : Workplaces] /\ pc'.main = pc.main /\ pc'.worker = at
  BY <1>1, <1>2 DEF Workplaces
<1>4. /\ worker' \in Workers /\ worker'.queued = worker'.pipe /\ worker'.poll = w.poll
      /\ at = "POLLING" => SleepsWell(worker')
      /\ worker'.toResolve = w.toResolve /\ worker'.stolen = w.stolen
  <2>1. CASE w.quit
    BY <1>2, <2>1
  <2>2. CASE ~w.quit
    BY <1>2, <2>2, SnapshotFits
  <2>. QED
    BY <2>1, <2>2
<1>5. /\ conn' \in Connections(plan) /\ conn'.game = conn.game /\ conn'.who = conn.who
      /\ conn'.said = conn.said /\ conn'.running = conn.running /\ conn'.named = conn.named
      /\ conn'.address = conn.address
  BY <1>1 DEF Connections
<1>6. at # "RESOLVING"
  OBVIOUS
<1>. HIDE DEF at
<1>7. WorkerFits'
  BY <1>3, <1>4, <1>5, <1>6 DEF ThreadsInvariant, WorkerFits, Informed, OnItsWay
<1>. QED
  BY <1>3, <1>5, <1>7, QuietStep

LEMMA PollsFit ==
  ASSUME ThreadsInvariant, NEW c
  PROVE  Polls(c) \subseteq ConnPolls
BY PlansAssumption DEF Polls, ConnPolls, ThreadsInvariant, ConnFits

LEMMA WorkerStartsKeeps == ThreadsInvariant /\ WorkerStarts => ThreadsInvariant'
<1>. SUFFICES ASSUME ThreadsInvariant, WorkerStarts PROVE ThreadsInvariant'
  OBVIOUS
<1>1. /\ worker \in Workers /\ Informed(worker, conn.poll) /\ worker.queued = worker.pipe
      /\ worker.stolen = NoAddress
      /\ pc.main \notin Freed => OnItsWay(worker, "POLLING", ui.asked, conn.address)
  BY DEF ThreadsInvariant, WorkerFits, WorkerStarts, OnItsWay
<1>2. \E p \in ConnPolls : conn' = [conn EXCEPT !.poll = p]
  <2>1. conn \in Connections(plan)
    BY DEF ThreadsInvariant, ConnFits
  <2>2. conn.poll \in ConnPolls /\ conn = [conn EXCEPT !.poll = conn.poll]
    BY <2>1 DEF Connections
  <2>. QED
    BY <2>2 DEF WorkerStarts
<1>. QED
  BY <1>1, <1>2, LoopKeeps DEF WorkerStarts

LEMMA InterruptedKeeps == ThreadsInvariant /\ Interrupted => ThreadsInvariant'
<1>. SUFFICES ASSUME ThreadsInvariant, Interrupted PROVE ThreadsInvariant'
  OBVIOUS
<1>1. /\ worker \in Workers /\ Informed(worker, conn.poll) /\ worker.queued = worker.pipe
      /\ worker.stolen = NoAddress
      /\ pc.main \notin Freed => OnItsWay(worker, "POLLING", ui.asked, conn.address)
  BY DEF ThreadsInvariant, WorkerFits, Interrupted, OnItsWay
<1>2. \E p \in ConnPolls : conn' = [conn EXCEPT !.poll = p]
  <2>1. conn \in Connections(plan)
    BY DEF ThreadsInvariant, ConnFits
  <2>2. conn.poll \in ConnPolls /\ conn = [conn EXCEPT !.poll = conn.poll]
    BY <2>1 DEF Connections
  <2>. QED
    BY <2>2 DEF Interrupted
<1>. QED
  BY <1>1, <1>2, LoopKeeps DEF Interrupted

LEMMA WorkerGoesRoundKeeps == ThreadsInvariant /\ WorkerGoesRound => ThreadsInvariant'
<1>. SUFFICES ASSUME ThreadsInvariant, WorkerGoesRound PROVE ThreadsInvariant'
  OBVIOUS
<1>1. PICK p \in Polls(conn) : conn' = [conn EXCEPT !.poll = p]
  BY DEF WorkerGoesRound
<1>2. p \in ConnPolls /\ conn \in Connections(plan)
  BY PollsFit DEF ThreadsInvariant, ConnFits
<1>3. conn'.poll = p
  BY <1>1, <1>2 DEF Connections
<1>4. /\ worker \in Workers /\ Informed(worker, conn.poll) /\ worker.queued = worker.pipe
      /\ worker.stolen = NoAddress
      /\ pc.main \notin Freed => OnItsWay(worker, "POLLING", ui.asked, conn.address)
  BY DEF ThreadsInvariant, WorkerFits, WorkerGoesRound, OnItsWay
<1>. DEFINE w == Published(worker, conn, conn')
<1>5. /\ w \in Workers /\ w.queued = w.pipe /\ Informed(w, conn'.poll)
      /\ w.toResolve = worker.toResolve /\ w.stolen = worker.stolen
  BY <1>2, <1>3, <1>4, PublishedFits
<1>6. Loop(w) /\ UNCHANGED <<game, mt, ui, loader, plan>>
  BY DEF WorkerGoesRound
<1>. HIDE DEF w
<1>7. pc.main \notin Freed => OnItsWay(w, "POLLING", ui.asked, conn.address)
  BY <1>4, <1>5 DEF OnItsWay
<1>. QED
  BY <1>1, <1>2, <1>4, <1>5, <1>6, <1>7, LoopKeeps

LEMMA PollReturnsKeeps == ThreadsInvariant /\ PollReturns => ThreadsInvariant'
<1>. SUFFICES ASSUME ThreadsInvariant, PollReturns PROVE ThreadsInvariant'
  OBVIOUS
<1>1. /\ worker \in Workers /\ Informed(worker, conn.poll) /\ worker.queued = worker.pipe
      /\ worker.stolen = NoAddress
      /\ pc.main \notin Freed => OnItsWay(worker, "POLLED", ui.asked, conn.address)
  BY DEF ThreadsInvariant, WorkerFits, PollReturns, OnItsWay
<1>2. worker' = [worker EXCEPT !.saw = worker.pipe, !.polled = "none", !.tries = FALSE]
  BY DEF PollReturns
<1>3. /\ worker' \in Workers /\ worker'.queued = worker.queued /\ worker'.pipe = worker.pipe
      /\ worker'.poll = worker.poll /\ worker'.stolen = worker.stolen
      /\ worker'.toResolve = worker.toResolve
  BY <1>1, <1>2 DEF Workers
<1>4. /\ Informed(worker', conn.poll) /\ worker'.queued = worker'.pipe
      /\ pc.main \notin Freed => OnItsWay(worker', "POLLED", ui.asked, conn.address)
  BY <1>1, <1>3 DEF Informed, OnItsWay
<1>. QED
  BY <1>1, <1>3, <1>4, WorkerMoves DEF PollReturns, Workplaces

LEMMA DelayPassesKeeps == ThreadsInvariant /\ DelayPasses => ThreadsInvariant'
<1>. SUFFICES ASSUME ThreadsInvariant, DelayPasses PROVE ThreadsInvariant'
  OBVIOUS
<1>1. worker \in Workers /\ worker' = [worker EXCEPT !.delay = FALSE]
  BY DEF ThreadsInvariant, WorkerFits, DelayPasses
<1>2. /\ worker' \in Workers /\ worker'.queued = worker.queued /\ worker'.pipe = worker.pipe
      /\ worker'.poll = worker.poll /\ worker'.stolen = worker.stolen
      /\ worker'.toResolve = worker.toResolve /\ worker'.polled = worker.polled
      /\ worker'.tries = worker.tries /\ worker'.quit = worker.quit
  BY <1>1 DEF Workers
<1>3. pc \in [main : Mains, worker : Workplaces] /\ conn \in Connections(plan)
  BY DEF ThreadsInvariant, MainFits, Workplaces, ConnFits
<1>4. WorkerFits'
  BY <1>2 DEF DelayPasses, ThreadsInvariant, WorkerFits, Informed, SleepsWell, OnItsWay
<1>. QED
  BY <1>3, <1>4, QuietStep DEF DelayPasses

LEMMA WorkerWakesKeeps == ThreadsInvariant /\ WorkerWakes => ThreadsInvariant'
<1>. SUFFICES ASSUME ThreadsInvariant, WorkerWakes PROVE ThreadsInvariant'
  OBVIOUS
<1>1. /\ worker \in Workers /\ Informed(worker, conn.poll) /\ worker.queued = worker.pipe
      /\ worker.stolen = NoAddress
      /\ pc.main \notin Freed => OnItsWay(worker, "POLLED", ui.asked, conn.address)
  BY DEF ThreadsInvariant, WorkerFits, WorkerWakes, OnItsWay
<1>2. CASE worker.quit
  <2>1. pc' = [pc EXCEPT !.worker = "DONE"] /\ worker' = worker
    BY <1>2 DEF WorkerWakes
  <2>2. pc.main \notin Freed => OnItsWay(worker', "DONE", ui.asked, conn.address)
    BY <1>1, <2>1 DEF OnItsWay
  <2>. QED
    BY <1>1, <2>1, <2>2, WorkerMoves DEF WorkerWakes, Workplaces
<1>3. CASE ~worker.quit /\ Resolves
  <2>1. /\ pc' = [pc EXCEPT !.worker = "RESOLVING"]
        /\ worker' = [worker EXCEPT !.delay = TRUE, !.stolen = worker.toResolve,
                                    !.toResolve = NoAddress]
    BY <1>3 DEF WorkerWakes
  <2>2. /\ worker' \in Workers /\ worker'.queued = worker.queued /\ worker'.pipe = worker.pipe
        /\ worker'.poll = worker.poll /\ worker'.stolen = worker.toResolve
        /\ worker'.toResolve = NoAddress
    BY <1>1, <2>1 DEF Workers, NoAddress
  <2>3. pc.main \notin Freed => OnItsWay(worker', "RESOLVING", ui.asked, conn.address)
    BY <1>1, <1>3, <2>2 DEF OnItsWay, Resolves
  <2>4. Informed(worker', conn.poll) /\ worker'.queued = worker'.pipe
    BY <1>1, <2>2 DEF Informed
  <2>. QED
    BY <2>1, <2>2, <2>3, <2>4, WorkerMoves DEF WorkerWakes, Workplaces
<1>4. CASE ~worker.quit /\ ~Resolves
  <2>1. pc' = [pc EXCEPT !.worker = "WAKING"] /\ worker' = ReadPipe(worker)
    BY <1>4 DEF WorkerWakes
  <2>2. /\ worker' \in Workers /\ worker'.queued = worker'.pipe /\ worker'.poll = worker.poll
        /\ worker'.stolen = worker.stolen /\ worker'.toResolve = worker.toResolve
    BY <1>1, <2>1, ReadPipeFits
  <2>3. pc.main \notin Freed => OnItsWay(worker', "WAKING", ui.asked, conn.address)
    BY <1>1, <2>2 DEF OnItsWay
  <2>4. Informed(worker', conn.poll)
    BY <1>1, <2>2 DEF Informed
  <2>. QED
    BY <1>1, <2>1, <2>2, <2>3, <2>4, WorkerMoves DEF WorkerWakes, Workplaces
<1>. QED
  BY <1>2, <1>3, <1>4

LEMMA ResolvedKeeps ==
  ASSUME ThreadsInvariant, NEW found \in BOOLEAN, Resolved(found)
  PROVE  ThreadsInvariant'
<1>. DEFINE again == worker.toResolve # NoAddress
            left == LeftToResolve(found)
            times == IF found THEN worker.failures ELSE worker.failures + 1
            w == [worker EXCEPT !.stolen = NoAddress, !.toResolve = left, !.failures = times]
            c == [conn EXCEPT !.address = worker.stolen]
            w2 == Published(w, conn, conn')
<1>1. /\ worker \in Workers /\ Informed(worker, conn.poll) /\ worker.queued = worker.pipe
      /\ pc.main \notin Freed => OnItsWay(worker, "RESOLVING", ui.asked, conn.address)
  BY DEF ThreadsInvariant, WorkerFits, Resolved
<1>2. pc \in [main : Mains, worker : Workplaces] /\ conn \in Connections(plan)
      /\ (pc.main \in Freed => ui.asked = 0)
  BY DEF ThreadsInvariant, MainFits, Workplaces, ConnFits, WorkerFits
<1>3. /\ pc' = [pc EXCEPT !.worker = "WAKING"]
      /\ worker' = ReadPipe(w2)
      /\ conn' \in IF again \/ ~found THEN {conn} ELSE {[c EXCEPT !.poll = p] : p \in Polls(c)}
      /\ UNCHANGED <<game, mt, ui, loader, plan>>
  BY DEF Resolved
<1>4. pc' \in [main : Mains, worker : Workplaces] /\ pc'.main = pc.main /\ pc'.worker = "WAKING"
  BY <1>2, <1>3 DEF Workplaces
<1>5. left \in Nat /\ times \in Nat /\ worker.stolen \in Nat /\ NoAddress \in Nat
  BY <1>1 DEF Workers, LeftToResolve, NoAddress
<1>6. /\ conn' \in Connections(plan) /\ conn'.game = conn.game /\ conn'.who = conn.who
      /\ conn'.said = conn.said /\ conn'.running = conn.running /\ conn'.named = conn.named
      /\ conn'.address = IF again \/ ~found THEN conn.address ELSE worker.stolen
      /\ conn'.poll \in ConnPolls
  <2>1. CASE again \/ ~found
    BY <1>2, <1>3, <2>1 DEF Connections
  <2>2. CASE ~again /\ found
    <3>1. PICK p \in Polls(c) : conn' = [c EXCEPT !.poll = p]
      BY <1>3, <2>2
    <3>2. p \in ConnPolls
      BY PollsFit
    <3>. QED
      BY <1>2, <1>5, <2>2, <3>1, <3>2 DEF Connections
  <2>. QED
    BY <2>1, <2>2
<1>7. /\ left = IF again \/ found THEN worker.toResolve ELSE worker.stolen
  BY DEF LeftToResolve
<1>. HIDE DEF left, times
<1>8. /\ w \in Workers /\ w.queued = w.pipe /\ w.poll = worker.poll /\ w.stolen = NoAddress
      /\ w.toResolve = left
  BY <1>1, <1>5 DEF Workers
<1>. HIDE DEF w
<1>9. Informed(w, conn.poll)
  BY <1>1, <1>8 DEF Informed
<1>10. /\ w2 \in Workers /\ w2.queued = w2.pipe /\ Informed(w2, conn'.poll)
       /\ w2.toResolve = left /\ w2.stolen = NoAddress
  BY <1>6, <1>8, <1>9, PublishedFits
<1>. HIDE DEF w2
<1>11. /\ worker' \in Workers /\ worker'.queued = worker'.pipe /\ Informed(worker', conn'.poll)
       /\ worker'.toResolve = left /\ worker'.stolen = NoAddress
  BY <1>3, <1>10, ReadPipeFits DEF Informed
<1>12. pc.main \notin Freed => OnItsWay(worker', "WAKING", ui.asked, conn'.address)
  BY <1>1, <1>6, <1>7, <1>11 DEF OnItsWay
<1>13. WorkerFits'
  BY <1>2, <1>3, <1>4, <1>11, <1>12 DEF WorkerFits
<1>. QED
  BY <1>3, <1>4, <1>6, <1>13, QuietStep

\* A command with the mutex of the worker: what changes of the connection is told
\* to the worker.
LEMMA CommandTold ==
  ASSUME ThreadsInvariant, UNCHANGED <<ui, plan>>,
         pc' \in [main : Mains, worker : Workplaces], pc'.worker = pc.worker,
         pc.main \notin Freed, pc'.main \notin Freed,
         conn'.address = conn.address, conn'.poll \in ConnPolls,
         worker' = Published(worker, conn, conn')
  PROVE  WorkerFits'
<1>1. /\ worker \in Workers /\ Informed(worker, conn.poll) /\ worker.queued = worker.pipe
      /\ pc.worker = "POLLING" => SleepsWell(worker)
      /\ pc.worker # "RESOLVING" => worker.stolen = NoAddress
      /\ OnItsWay(worker, pc.worker, ui.asked, conn.address)
  BY DEF ThreadsInvariant, WorkerFits
<1>2. /\ worker' \in Workers /\ worker'.queued = worker'.pipe /\ Informed(worker', conn'.poll)
      /\ worker' = worker \/ worker'.pipe
      /\ worker'.toResolve = worker.toResolve /\ worker'.stolen = worker.stolen
  BY <1>1, PublishedFits
<1>. QED
  BY <1>1, <1>2 DEF WorkerFits, OnItsWay, SleepsWell

LEMMA SetPlayerNameKeeps == ThreadsInvariant /\ SetPlayerName => ThreadsInvariant'
<1>. SUFFICES ASSUME ThreadsInvariant, SetPlayerName PROVE ThreadsInvariant'
  OBVIOUS
<1>. DEFINE c == [conn EXCEPT !.named = TRUE]
<1>1. pc \in [main : Mains, worker : Workplaces] /\ conn \in Connections(plan)
  BY DEF ThreadsInvariant, MainFits, Workplaces, ConnFits
<1>2. PICK p \in Polls(c) : conn' = [c EXCEPT !.poll = p]
  BY DEF SetPlayerName
<1>3. p \in ConnPolls
  BY PollsFit
<1>4. /\ conn' \in Connections(plan) /\ conn'.game = conn.game /\ conn'.who = conn.who
      /\ conn'.said = conn.said /\ conn'.running = conn.running
      /\ conn'.address = conn.address /\ conn'.poll \in ConnPolls
  BY <1>1, <1>2, <1>3 DEF Connections
<1>5. pc' = pc /\ pc.main = "IDLE" /\ UNCHANGED <<game, mt, ui, loader, plan>>
      /\ worker' = Published(worker, conn, conn')
  BY DEF SetPlayerName, At
<1>6. WorkerFits'
  BY <1>1, <1>4, <1>5, CommandTold DEF Freed
<1>. QED
  BY <1>1, <1>4, <1>5, <1>6, QuietStep

LEMMA CommandKeeps == ThreadsInvariant /\ Command => ThreadsInvariant'
<1>. SUFFICES ASSUME ThreadsInvariant, Command PROVE ThreadsInvariant'
  OBVIOUS
<1>1. pc \in [main : Mains, worker : Workplaces] /\ conn \in Connections(plan)
  BY DEF ThreadsInvariant, MainFits, Workplaces, ConnFits
<1>2. conn' = [conn EXCEPT !.poll = "write"]
  BY DEF Command
<1>3. /\ conn' \in Connections(plan) /\ conn'.game = conn.game /\ conn'.who = conn.who
      /\ conn'.said = conn.said /\ conn'.running = conn.running /\ conn'.named = conn.named
      /\ conn'.address = conn.address /\ conn'.poll \in ConnPolls
  BY <1>1, <1>2 DEF Connections, ConnPolls
<1>4. pc' = pc /\ pc.main = "IDLE" /\ UNCHANGED <<game, mt, ui, loader, plan>>
      /\ worker' = Published(worker, conn, conn')
  BY DEF Command, At
<1>5. WorkerFits'
  BY <1>1, <1>3, <1>4, CommandTold DEF Freed
<1>. QED
  BY <1>1, <1>3, <1>4, <1>5, QuietStep

-----------------------------------------------------------------------------
(* Events.                                                                 *)

\* What the invariant says of the types of the state.
LEMMA TypesFit ==
  ASSUME ThreadsInvariant
  PROVE  /\ Holders \in [AllUses -> Nat]
         /\ \A use \in AllUses : Holders[use] = Holder(use)
         /\ ListsFit(mt) /\ Awake(mt) /\ Held(mt, Holders)
         /\ conn \in Connections(plan)
         /\ plan.games \in Nat /\ plan.events \in Nat /\ conn.game \in Nat
         /\ \A p \in 0..plan.games : p \in Nat
         /\ pc \in [main : Mains, worker : Workplaces]
         /\ ui.timer \in [Uses -> Nat] /\ ui.local \in Seq(EventRecords) /\ ui \in MainStates
         /\ game \in [events : Seq(EventRecords), flush : Nat, saved : People]
<1>1. /\ game.flush \in Nat /\ ui.reset \in Nat /\ loader.idle \in Nat
      /\ ui.timer \in [Uses -> Nat] /\ ui.local \in Seq(EventRecords) /\ ui \in MainStates
      /\ game \in [events : Seq(EventRecords), flush : Nat, saved : People]
  BY DEF ThreadsInvariant, MainFits, MainStates, LoaderFits
<1>2. plan.games \in Nat /\ plan.events \in Nat
  BY PlansAssumption DEF ThreadsInvariant, ConnFits
<1>3. conn \in Connections(plan) /\ conn.game \in 0..plan.games
  BY DEF ThreadsInvariant, ConnFits, Connections
<1>4. \A use \in AllUses : Holder(use) \in Nat
  BY <1>1 DEF Holder, AllUses, Uses
<1>5. ListsFit(mt) /\ Awake(mt) /\ Held(mt, Holders)
  BY DEF ThreadsInvariant, TokensFit
<1>6. pc \in [main : Mains, worker : Workplaces]
  BY DEF ThreadsInvariant, MainFits, Workplaces
<1>. QED
  BY <1>1, <1>2, <1>3, <1>4, <1>5, <1>6 DEF Holders

LEMMA NotifyFits ==
  ASSUME ThreadsInvariant, NEW event \in EventRecords, Notify(event),
         UNCHANGED <<ui, loader>>
  PROVE  /\ ListsFit(mt') /\ Awake(mt') /\ Held(mt', Holders') /\ mt'.batch = mt.batch
         /\ \A g : OfGame(mt, g) /\ event.game = g => OfGame(mt', g)
         /\ TimesFit'
         /\ game' \in [events : Seq(EventRecords), flush : Nat, saved : People]
         /\ ~ui.alive => game' = game
         /\ ui.alive => /\ game'.events = Append(game.events, event)
                        /\ game'.saved = IF event.type = "header" THEN event.who ELSE game.saved
                        /\ game'.events # <<>>
<1>1. /\ Holders \in [AllUses -> Nat]
      /\ \A use \in AllUses : Holders[use] = Holder(use)
      /\ ListsFit(mt) /\ Awake(mt) /\ Held(mt, Holders)
      /\ game \in [events : Seq(EventRecords), flush : Nat, saved : People]
      /\ ui.timer \in [Uses -> Nat]
  BY TypesFit
<1>2. CASE ~ui.alive
  <2>1. game' = game /\ mt' = mt
    BY <1>2 DEF Notify
  <2>2. Holders' = Holders
    BY <2>1 DEF Holders, Holder
  <2>3. TimesFit'
    BY <2>1 DEF ThreadsInvariant, TimesFit
  <2>. QED
    BY <1>1, <1>2, <2>1, <2>2, <2>3
<1>3. CASE ui.alive
  <2>. DEFINE fresh == game.flush = NoToken
              id == NewId(mt)
              events == Append(game.events, event)
              flush == IF fresh THEN id ELSE game.flush
              saved == IF event.type = "header" THEN event.who ELSE game.saved
  <2>1. /\ game' = [game EXCEPT !.events = events, !.flush = flush, !.saved = saved]
        /\ mt' = IF fresh THEN QueueIdle(mt, "flush", event.game) ELSE mt
        /\ fresh => HasRoom(mt)
    BY <1>1, <1>3 DEF Notify
  <2>2. fresh => id \in Ids /\ mt.token[id].cancelled
    BY <1>1, <2>1, FreshIsCancelled
  <2>3. events \in Seq(EventRecords) /\ flush \in Nat /\ saved \in People /\ events # <<>>
    BY <1>1, <2>2, SMTT(30) DEF Ids, EventRecords
  <2>4. event.game \in Nat
    BY DEF EventRecords
  <2>. HIDE DEF id
  <2>5. /\ game' \in [events : Seq(EventRecords), flush : Nat, saved : People]
        /\ game'.events = events /\ game'.flush = flush /\ game'.saved = saved
    <3>. HIDE DEF events, flush, saved, fresh
    <3>. QED
      BY <1>1, <2>1, <2>3
  <2>6. CASE fresh
    <3>1. /\ ListsFit(mt') /\ GivenOut(mt, mt', "flush", event.game) /\ Awake(mt')
          /\ mt'.batch = mt.batch
      BY <1>1, <2>1, <2>4, <2>6, QueueIdleFits DEF IdleUses
    <3>. DEFINE h == [Holders EXCEPT !["flush"] = id]
    <3>2. "flush" \in AllUses /\ Holders["flush"] = NoToken
      BY <1>1, <2>6 DEF AllUses, Holder
    <3>3. Held(mt', h) /\ \A g : OfGame(mt, g) /\ event.game = g => OfGame(mt', g)
      BY <1>1, <2>1, <2>6, <3>1, <3>2, GivenOutIsHeld, ZenonT(40) DEF id
    <3>4. Holders' = h
      <4>1. ASSUME NEW use \in AllUses PROVE Holders'[use] = h[use]
        <5>1. CASE use = "flush"
          BY <1>1, <2>5, <2>6, <3>2, <5>1 DEF Holders, Holder
        <5>2. CASE use # "flush"
          BY <1>1, <5>2 DEF Holders, Holder
        <5>. QED
          BY <5>1, <5>2
      <4>2. h = [use \in AllUses |-> h[use]] /\ Holders' = [use \in AllUses |-> Holders'[use]]
        BY <1>1 DEF Holders
      <4>. HIDE DEF h
      <4>. QED
        BY <4>1, <4>2, Zenon
    <3>5. TimesFit'
      <4>1. \A i \in Ids : ~mt.token[i].cancelled => mt'.token[i] = mt.token[i]
        BY <2>2, <2>6, <3>1 DEF GivenOut, id
      <4>2. \A u \in Uses : ui.timer[u] # NoToken =>
              ui.timer[u] \in Ids /\ ~mt.token[ui.timer[u]].cancelled
        BY <1>1 DEF Held, Holder, AllUses, Uses
      <4>. QED
        BY <4>1, <4>2, TimesStay DEF ThreadsInvariant
    <3>. QED
      BY <1>3, <2>3, <2>5, <3>1, <3>3, <3>4, <3>5
  <2>7. CASE ~fresh
    <3>1. mt' = mt /\ game'.flush = game.flush
      BY <2>1, <2>5, <2>7
    <3>2. Holders' = Holders
      BY <3>1 DEF Holders, Holder
    <3>3. TimesFit'
      BY <3>1 DEF ThreadsInvariant, TimesFit
    <3>. QED
      BY <1>1, <1>3, <2>3, <2>5, <3>1, <3>2, <3>3
  <2>. QED
    BY <2>6, <2>7
<1>. QED
  BY <1>2, <1>3

\* The queue of the events is one of those of the two lists, read one after the other.
LEMMA PendingFits ==
  ASSUME NEW s \in Seq(EventRecords), NEW t \in Seq(EventRecords), NEW e \in EventRecords
  PROVE  s \o Append(t, e) = Append(s \o t, e)
OBVIOUS

LEMMA NextInTurn ==
  ASSUME NEW q \in Seq(EventRecords), NEW seen, NEW said \in Nat, InTurn(q, seen, said),
         NEW e \in EventRecords, e.type # "running", e.n = said + 1
  PROVE  InTurn(Append(q, e), seen, said + 1)
<1>. DEFINE r == Append(q, e)
<1>1. /\ Len(q) \in Nat /\ Len(r) = Len(q) + 1 /\ r[Len(q) + 1] = e
      /\ \A i \in 1..Len(q) : r[i] = q[i]
      /\ q # <<>> <=> Len(q) > 0
      /\ r # <<>>
  OBVIOUS
<1>. HIDE DEF r
<1>2. ASSUME NEW i \in 1..Len(r)
      PROVE  IF r[i].type = "running" THEN i = 1 ELSE r[i].n = said + 1 - Len(r) + i
  <2>1. CASE i = Len(q) + 1
    BY <1>1, <2>1
  <2>2. CASE i \in 1..Len(q)
    <3>1. IF q[i].type = "running" THEN i = 1 ELSE q[i].n = said - Len(q) + i
      BY <2>2 DEF InTurn
    <3>2. said + 1 - Len(r) + i = said - Len(q) + i
      BY <1>1
    <3>. QED
      BY <1>1, <2>2, <3>1, <3>2
  <2>. QED
    BY <1>1, <2>1, <2>2
<1>3. (r # <<>> /\ r[1].type = "running") <=> (q # <<>> /\ q[1].type = "running")
  BY <1>1
<1>4. seen = said + 1 - Len(r) + (IF r # <<>> /\ r[1].type = "running" THEN 1 ELSE 0)
  BY <1>1, <1>3 DEF InTurn
<1>. DEFINE said2 == said + 1
<1>5. /\ \A i \in 1..Len(r) : IF r[i].type = "running" THEN i = 1
                             ELSE r[i].n = said2 - Len(r) + i
      /\ seen = said2 - Len(r) + (IF r # <<>> /\ r[1].type = "running" THEN 1 ELSE 0)
  BY <1>2, <1>4
<1>. HIDE DEF said2
<1>6. InTurn(r, seen, said2)
  BY <1>5 DEF InTurn
<1>. QED
  BY <1>6 DEF r, said2

\* The connection emits an event while the worker holds the mutex of the worker.
LEMMA EmitKeeps == ThreadsInvariant /\ Emit => ThreadsInvariant'
<1>. SUFFICES ASSUME ThreadsInvariant, Emit PROVE ThreadsInvariant'
  OBVIOUS
<1>0. PICK t \in Says(conn) :
        LET who == IF t = "header" /\ conn.who.kind # "person"
                   THEN [kind |-> "person", id |-> conn.game] ELSE conn.who
        IN /\ conn' = [conn EXCEPT !.said = @ + 1, !.who = who,
                                  !.finished = t \in {"refused", "end"}]
           /\ Notify([type |-> t, game |-> conn.game, n |-> conn.said + 1, who |-> who])
  BY DEF Emit
<1>. DEFINE who == IF t = "header" /\ conn.who.kind # "person"
                   THEN [kind |-> "person", id |-> conn.game] ELSE conn.who
            n == conn.said + 1
            done == t \in {"refused", "end"}
            e == [type |-> t, game |-> conn.game, n |-> n, who |-> who]
<1>1. /\ conn \in Connections(plan) /\ plan.games \in Nat /\ plan.events \in Nat
      /\ conn.game \in Nat /\ pc \in [main : Mains, worker : Workplaces]
      /\ ui.local \in Seq(EventRecords)
      /\ game \in [events : Seq(EventRecords), flush : Nat, saved : People]
  BY TypesFit
<1>2. UNCHANGED <<pc, worker, ui, loader, plan>>
  BY DEF Emit
<1>3. /\ HasConfiguration(conn) /\ conn.said # plan.events /\ t \in Types /\ t # "running"
      /\ t \in {"end", "refused"} => conn.game < plan.games
  <2>1. plan.says \subseteq {"shout", "note", "end", "refused", "other"}
    BY PlansAssumption DEF ThreadsInvariant, ConnFits
  <2>2. conn.game \in 0..plan.games
    BY <1>1 DEF Connections
  <2>3. HasConfiguration(conn) /\ conn.said # plan.events
    BY <1>0 DEF Says
  <2>4. t \in Types /\ t # "running"
    BY <1>0, <2>1 DEF Says, Types
  <2>5. t \in {"end", "refused"} => conn.game # plan.games
    BY <1>0, <2>1, <2>3 DEF Says
  <2>. QED
    BY <1>1, <2>2, <2>3, <2>4, <2>5
<1>4. /\ conn.running /\ (conn.named \/ conn.who.kind = "person")
  BY <1>3 DEF HasConfiguration
<1>5. conn.said \in Nat /\ n \in 0..plan.events /\ who \in People /\ done \in BOOLEAN
      /\ (t # "header" => who = conn.who)
  BY <1>1, <1>3 DEF Connections, People
<1>6. conn' = [conn EXCEPT !.said = n, !.who = who, !.finished = done] /\ Notify(e)
  BY <1>0, <1>1 DEF Connections
<1>. HIDE DEF who, done
<1>7. n = conn.said + 1
  OBVIOUS
<1>. HIDE DEF n
<1>8. /\ conn' \in Connections(plan) /\ conn'.game = conn.game /\ conn'.who = who
      /\ conn'.said = n /\ conn'.named = conn.named /\ conn'.running = conn.running
      /\ conn'.address = conn.address /\ conn'.poll = conn.poll
  BY <1>1, <1>5, <1>6 DEF Connections
<1>9. e \in EventRecords /\ e.type = t /\ e.game = conn.game /\ e.n = n /\ e.who = who
  BY <1>1, <1>3, <1>5 DEF EventRecords
<1>. HIDE DEF e
<1>10. /\ ListsFit(mt') /\ Awake(mt') /\ Held(mt', Holders') /\ mt'.batch = mt.batch
       /\ \A g : OfGame(mt, g) /\ e.game = g => OfGame(mt', g)
       /\ TimesFit'
       /\ game' \in [events : Seq(EventRecords), flush : Nat, saved : People]
       /\ ~ui.alive => game' = game
       /\ ui.alive => /\ game'.events = Append(game.events, e)
                      /\ game'.saved = IF e.type = "header" THEN e.who ELSE game.saved
                      /\ game'.events # <<>>
  BY <1>2, <1>6, <1>9, NotifyFits
<1>11. TokensFit'
  BY <1>2, <1>8, <1>9, <1>10 DEF TokensFit, ThreadsInvariant
<1>12. ConnFits'
  BY <1>2, <1>4, <1>8 DEF ConnFits, ThreadsInvariant
<1>13. WorkerFits'
  BY <1>2, <1>8, WorkerStays DEF ThreadsInvariant
<1>14. LoaderFits'
  BY <1>2, LoaderStays DEF ThreadsInvariant
<1>15. pc.main \notin {"BOOT", "STARTING"}
  BY <1>4 DEF ThreadsInvariant, ConnFits
<1>16. MainFits'
  <2>1. ui.alive /\ pc.main # "CLEARING" => game'.saved = conn'.who
    BY <1>5, <1>8, <1>9, <1>10 DEF MainFits, ThreadsInvariant
  <2>. QED
    BY <1>2, <1>8, <1>10, <1>15, <2>1 DEF MainFits, ThreadsInvariant
<1>17. EventsFit'
  <2>. SUFFICES ASSUME ui.alive, pc.main # "CLEARING"
                PROVE  InTurn(Pending', ui.seen, n) /\ OfThisGame(Pending)'
    BY <1>2, <1>8 DEF EventsFit
  <2>1. Pending \in Seq(EventRecords) /\ Pending' = Append(Pending, e)
    <3>1. game.events \in Seq(EventRecords) /\ ui.local \in Seq(EventRecords)
      BY <1>1
    <3>2. Pending' = ui.local \o Append(game.events, e)
      BY <1>2, <1>10 DEF Pending
    <3>3. ui.local \o Append(game.events, e) = Append(ui.local \o game.events, e)
      BY <1>9, <3>1, PendingFits
    <3>4. ui.local \o game.events \in Seq(EventRecords)
      BY <3>1
    <3>. QED
      BY <3>2, <3>3, <3>4 DEF Pending
  <2>2. InTurn(Pending, ui.seen, conn.said) /\ OfThisGame(Pending)
    BY DEF EventsFit, ThreadsInvariant
  <2>. DEFINE q == Pending
  <2>. HIDE DEF q
  <2>3. InTurn(Append(q, e), ui.seen, conn.said + 1)
    BY <1>3, <1>5, <1>7, <1>9, <2>1, <2>2, NextInTurn DEF q
  <2>4. \A i \in 1..Len(Append(q, e)) : (i \in 1..Len(q) /\ Append(q, e)[i] = q[i]) \/ Append(q, e)[i] = e
    BY <1>9, <2>1 DEF q
  <2>5. OfThisGame(q)
    BY <2>2 DEF q
  <2>6. OfThisGame(Append(q, e))
    BY <1>3, <1>9, <2>4, <2>5 DEF OfThisGame
  <2>7. conn'.game = conn.game /\ plan' = plan
    BY <1>2, <1>8
  <2>8. OfThisGame(Pending)'
    BY <2>1, <2>6, <2>7 DEF OfThisGame, q
  <2>. QED
    BY <1>7, <2>1, <2>3, <2>8 DEF q
<1>. QED
  BY <1>10, <1>11, <1>12, <1>13, <1>14, <1>16, <1>17 DEF ThreadsInvariant

\* The connection says that it runs, before any event of its game.
LEMMA FirstInTurn ==
  ASSUME NEW e \in EventRecords, e.type = "running"
  PROVE  InTurn(<<e>>, 0, 0)
BY DEF InTurn

LEMMA NoneInTurn ==
  ASSUME NEW q, q = <<>>, NEW said \in Nat
  PROVE  InTurn(q, said, said)
<1>1. Len(q) = 0
  OBVIOUS
<1>2. said = said - Len(q) + (IF q # <<>> /\ q[1].type = "running" THEN 1 ELSE 0)
  BY <1>1
<1>3. \A i \in 1..Len(q) : IF q[i].type = "running" THEN i = 1 ELSE q[i].n = said - Len(q) + i
  BY <1>1
<1>. QED
  BY <1>2, <1>3 DEF InTurn

LEMMA RunningIsAnEvent ==
  ASSUME NEW n \in Nat
  PROVE  /\ StateChanged(n) \in EventRecords /\ StateChanged(n).game = n
         /\ StateChanged(n).type = "running"
BY DEF StateChanged, EventRecords, Types, People, Nobody

LEMMA SetRunningKeeps == ThreadsInvariant /\ SetRunning => ThreadsInvariant'
<1>. SUFFICES ASSUME ThreadsInvariant, SetRunning PROVE ThreadsInvariant'
  OBVIOUS
<1>. DEFINE c == [conn EXCEPT !.running = TRUE]
            e == StateChanged(conn.game)
<1>1. /\ conn \in Connections(plan) /\ plan.games \in Nat /\ plan.events \in Nat
      /\ conn.game \in Nat /\ pc \in [main : Mains, worker : Workplaces]
      /\ ui.local \in Seq(EventRecords)
      /\ game \in [events : Seq(EventRecords), flush : Nat, saved : People]
  BY TypesFit
<1>2. /\ pc' = [pc EXCEPT !.main = "IDLE"] /\ pc.main = "STARTING" /\ ui.alive
      /\ worker' = Published(worker, conn, conn') /\ Notify(e)
      /\ UNCHANGED <<ui, loader, plan>>
  BY DEF SetRunning, At, Goes
<1>3. pc' \in [main : Mains, worker : Workplaces] /\ pc'.main = "IDLE" /\ pc'.worker = pc.worker
  BY <1>1, <1>2 DEF Mains
<1>4. PICK p \in Polls(c) : conn' = [c EXCEPT !.poll = p]
  BY DEF SetRunning
<1>5. p \in ConnPolls
  BY PollsFit
<1>6. /\ conn' \in Connections(plan) /\ conn'.game = conn.game /\ conn'.who = conn.who
      /\ conn'.said = conn.said /\ conn'.address = conn.address /\ conn'.poll \in ConnPolls
  BY <1>1, <1>4, <1>5 DEF Connections
<1>7. e \in EventRecords /\ e.game = conn.game /\ e.type = "running"
  BY <1>1, RunningIsAnEvent
<1>. HIDE DEF e
<1>8. /\ ListsFit(mt') /\ Awake(mt') /\ Held(mt', Holders') /\ mt'.batch = mt.batch
      /\ \A g : OfGame(mt, g) /\ e.game = g => OfGame(mt', g)
      /\ TimesFit'
      /\ game' \in [events : Seq(EventRecords), flush : Nat, saved : People]
      /\ game'.events = Append(game.events, e) /\ game'.saved = game.saved
      /\ game'.events # <<>>
  BY <1>2, <1>7, NotifyFits
<1>9. TokensFit'
  BY <1>2, <1>3, <1>6, <1>7, <1>8 DEF TokensFit, ThreadsInvariant
<1>10. ConnFits'
  BY <1>2, <1>3, <1>6 DEF ConnFits, ThreadsInvariant
<1>11. WorkerFits'
  BY <1>2, <1>3, <1>6, CommandTold DEF Freed
<1>12. LoaderFits'
  BY <1>2, <1>3, LoaderStays DEF ThreadsInvariant, Freed
<1>13. MainFits'
  <2>1. ~ui.alive => FALSE
    BY <1>2
  <2>2. ui.local = <<>> /\ mt.batch = <<>> /\ game.saved = conn.who
        /\ (ui.reset # NoToken => conn.game < plan.games)
    BY <1>2 DEF MainFits, ThreadsInvariant
  <2>3. ui \in MainStates
    BY DEF MainFits, ThreadsInvariant
  <2>. QED
    BY <1>2, <1>3, <1>6, <1>8, <2>2, <2>3 DEF MainFits, Workplaces, Freed
<1>14. EventsFit'
  <2>1. ui.local = <<>> /\ game.events = <<>> /\ ui.seen = 0 /\ conn.said = 0
    BY <1>2 DEF MainFits, ConnFits, ThreadsInvariant
  <2>2. Pending' = <<e>>
    BY <1>2, <1>7, <1>8, <2>1 DEF Pending
  <2>3. InTurn(<<e>>, 0, 0)
    BY <1>7, FirstInTurn
  <2>4. OfThisGame(Pending)'
    BY <1>6, <1>7, <2>2 DEF OfThisGame
  <2>. QED
    BY <1>2, <1>6, <2>1, <2>2, <2>3, <2>4 DEF EventsFit
<1>. QED
  BY <1>8, <1>9, <1>10, <1>11, <1>12, <1>13, <1>14 DEF ThreadsInvariant

\* reset_full, with the mutex of the worker.
LEMMA ResetConnectionKeeps ==
  ASSUME ThreadsInvariant, NEW who \in People, who.kind # "person", ResetConnection(who),
         pc.main \in {"IDLE", "RESETTING"}, conn.game < plan.games
  PROVE  ThreadsInvariant'
<1>. DEFINE n == conn.game + 1
            e == StateChanged(n)
<1>1. /\ conn \in Connections(plan) /\ plan.games \in Nat /\ plan.events \in Nat
      /\ conn.game \in Nat /\ pc \in [main : Mains, worker : Workplaces]
      /\ ui.local \in Seq(EventRecords)
      /\ game \in [events : Seq(EventRecords), flush : Nat, saved : People]
  BY TypesFit
<1>2. /\ pc' = [pc EXCEPT !.main = "CLEARING"]
      /\ worker' = Published(worker, conn, conn') /\ Notify(e)
      /\ UNCHANGED <<ui, loader, plan>>
      /\ conn' = [NewConn(n) EXCEPT !.who = who, !.running = TRUE, !.address = conn.address]
  BY DEF ResetConnection, Goes
<1>3. pc' \in [main : Mains, worker : Workplaces] /\ pc'.main = "CLEARING"
      /\ pc'.worker = pc.worker
  BY <1>1, <1>2 DEF Mains
<1>4. n \in 0..plan.games
  BY <1>1
<1>. HIDE DEF n
<1>5. /\ conn' \in Connections(plan) /\ conn'.game = n /\ conn'.who = who
      /\ conn'.said = 0 /\ conn'.address = conn.address /\ conn'.poll \in ConnPolls
      /\ ~conn'.named
  <2>1. conn.address \in Nat /\ 0 \in 0..plan.events
    BY <1>1 DEF Connections
  <2>2. conn' = [game |-> n, who |-> who, named |-> FALSE, running |-> TRUE,
                 address |-> conn.address, said |-> 0, finished |-> FALSE, poll |-> "nothing"]
    BY <1>2 DEF NewConn
  <2>. QED
    BY <1>4, <2>1, <2>2 DEF Connections, ConnPolls
<1>6. e \in EventRecords
  BY <1>1, <1>4, RunningIsAnEvent
<1>. HIDE DEF e
<1>7. /\ ListsFit(mt') /\ Awake(mt') /\ Held(mt', Holders') /\ mt'.batch = mt.batch
      /\ TimesFit'
      /\ game' \in [events : Seq(EventRecords), flush : Nat, saved : People]
      /\ ~ui.alive => game' = game
      /\ ui.alive => game'.events # <<>>
  BY <1>2, <1>6, NotifyFits
<1>8. ui.alive
  BY DEF MainFits, ThreadsInvariant, Freed
<1>9. TokensFit'
  BY <1>3, <1>7 DEF TokensFit
<1>10. ConnFits'
  BY <1>2, <1>3, <1>5 DEF ConnFits, ThreadsInvariant
<1>11. WorkerFits'
  BY <1>2, <1>3, <1>5, CommandTold DEF Freed
<1>12. LoaderFits'
  BY <1>2, <1>3, LoaderStays DEF ThreadsInvariant, Freed
<1>13. MainFits'
  <2>1. ui.local = <<>>
    BY DEF MainFits, ThreadsInvariant
  <2>2. ui \in MainStates
    BY DEF MainFits, ThreadsInvariant
  <2>. QED
    BY <1>2, <1>3, <1>7, <1>8, <2>1, <2>2 DEF MainFits, Workplaces, Freed
<1>14. EventsFit'
  BY <1>3 DEF EventsFit
<1>. QED
  BY <1>7, <1>9, <1>10, <1>11, <1>12, <1>13, <1>14 DEF ThreadsInvariant

LEMMA ResetByPlayerKeeps == ThreadsInvariant /\ ResetByPlayer => ThreadsInvariant'
<1>. SUFFICES ASSUME ThreadsInvariant, ResetByPlayer PROVE ThreadsInvariant'
  OBVIOUS
<1>1. PICK kind \in plan.joins : ResetConnection([kind |-> kind, id |-> 0])
  BY DEF ResetByPlayer
<1>2. kind \in {"none", "conversation"}
  BY PlansAssumption DEF ThreadsInvariant, ConnFits
<1>3. [kind |-> kind, id |-> 0] \in People
  BY <1>2 DEF People
<1>. QED
  BY <1>1, <1>2, <1>3, ResetConnectionKeeps DEF ResetByPlayer, At

LEMMA ResetOnIdleKeeps == ThreadsInvariant /\ ResetOnIdle => ThreadsInvariant'
<1>. SUFFICES ASSUME ThreadsInvariant, ResetOnIdle PROVE ThreadsInvariant'
  OBVIOUS
<1>1. pc.main = "RESETTING" /\ conn.game < plan.games
  BY DEF ThreadsInvariant, ConnFits, ResetOnIdle, At
<1>2. Nobody \in People /\ Nobody.kind # "person"
  BY DEF Nobody, People
<1>. QED
  BY <1>1, <1>2, ResetConnectionKeeps DEF ResetOnIdle

-----------------------------------------------------------------------------
(* The main thread and the timeout thread.                                 *)

LEMMA TokensKept ==
  ASSUME TokensFit, ListsFit(mt'), Awake(mt'), mt'.token = mt.token,
         game'.flush = game.flush, ui'.reset = ui.reset, ui'.timer = ui.timer,
         loader'.idle = loader.idle,
         pc'.main # "CLEARING" => pc.main # "CLEARING" /\ conn'.game = conn.game
  PROVE  TokensFit'
<1>1. Holders' = Holders
  BY DEF Holders, Holder
<1>2. Held(mt', Holders)
  BY DEF TokensFit, Held
<1>. QED
  BY <1>1, <1>2 DEF TokensFit, OfGame

\* A step of the main thread that changes no more than where it is and its lists,
\* not the tokens in them.
LEMMA ListStep ==
  ASSUME ThreadsInvariant, UNCHANGED <<conn, worker, game, ui, loader, plan>>,
         ListsFit(mt'), Awake(mt'), mt'.token = mt.token,
         pc' \in [main : Mains, worker : Workplaces], pc'.worker = pc.worker,
         pc'.main = pc.main \/ {pc.main, pc'.main} \subseteq {"IDLE", "FLUSHING"}
           \/ {pc.main, pc'.main} \subseteq Freed,
         mt'.batch # <<>> => pc'.main \in {"FLUSHING", "HANDLING", "RESETTING", "CLEARING"}
  PROVE  ThreadsInvariant'
<1>1. TokensFit'
  BY TokensKept DEF ThreadsInvariant, Freed
<1>2. ConnFits'
  BY ConnStays DEF ThreadsInvariant, Freed
<1>3. WorkerFits'
  BY WorkerStays DEF ThreadsInvariant, Freed
<1>4. LoaderFits'
  BY LoaderStays DEF ThreadsInvariant, Freed
<1>5. MainFits'
  BY DEF ThreadsInvariant, MainFits, Workplaces, Freed
<1>6. TimesFit'
  BY TimesStay DEF ThreadsInvariant
<1>7. EventsFit'
  BY EventsStay DEF ThreadsInvariant, Freed
<1>. QED
  BY <1>1, <1>2, <1>3, <1>4, <1>5, <1>6, <1>7 DEF ThreadsInvariant

LEMMA GoesFits ==
  ASSUME ThreadsInvariant, NEW label \in Mains, Goes(label)
  PROVE  pc' \in [main : Mains, worker : Workplaces] /\ pc'.main = label
         /\ pc'.worker = pc.worker
<1>1. pc \in [main : Mains, worker : Workplaces]
  BY TypesFit
<1>. QED
  BY <1>1 DEF Goes

LEMMA FlushKeeps == ThreadsInvariant /\ Flush => ThreadsInvariant'
<1>. SUFFICES ASSUME ThreadsInvariant, Flush PROVE ThreadsInvariant'
  OBVIOUS
<1>. DEFINE label == IF mt.queue = <<>> THEN "IDLE" ELSE "FLUSHING"
<1>1. /\ pc.main = "IDLE" /\ Goes(label) /\ UNCHANGED <<conn, worker, game, ui, loader, plan>>
      /\ mt' = [mt EXCEPT !.queue = <<>>, !.woken = FALSE, !.batch = mt.queue, !.next = 1]
  BY DEF Flush, At
<1>2. pc' \in [main : Mains, worker : Workplaces] /\ pc'.main = label /\ pc'.worker = pc.worker
  BY <1>1, GoesFits DEF Mains
<1>3. ListsFit(mt) /\ Awake(mt)
  BY TypesFit
<1>4. mt.batch = <<>>
  BY <1>1 DEF ThreadsInvariant, MainFits
<1>5. ListsFit(mt') /\ Awake(mt') /\ mt'.token = mt.token /\ mt'.batch = mt.queue
  BY <1>1, <1>3, <1>4, FlushFits
<1>. QED
  BY <1>1, <1>2, <1>5, ListStep

LEMMA FlushDoneKeeps == ThreadsInvariant /\ FlushDone => ThreadsInvariant'
<1>. SUFFICES ASSUME ThreadsInvariant, FlushDone PROVE ThreadsInvariant'
  OBVIOUS
<1>1. /\ pc.main = "FLUSHING" /\ Goes("IDLE") /\ UNCHANGED <<conn, worker, game, ui, loader, plan>>
      /\ mt' = [mt EXCEPT !.batch = <<>>, !.next = 1] /\ mt.next > Len(mt.batch)
  BY DEF FlushDone, At
<1>2. pc' \in [main : Mains, worker : Workplaces] /\ pc'.main = "IDLE" /\ pc'.worker = pc.worker
  BY <1>1, GoesFits DEF Mains
<1>3. ListsFit(mt) /\ Awake(mt)
  BY TypesFit
<1>4. ListsFit(mt') /\ Awake(mt') /\ mt'.token = mt.token /\ mt'.batch = <<>>
  BY <1>1, <1>3, FlushDoneFits
<1>. QED
  BY <1>1, <1>2, <1>4, ListStep

LEMMA TimerStartsKeeps == ThreadsInvariant /\ TimerStarts => ThreadsInvariant'
<1>. SUFFICES ASSUME ThreadsInvariant, TimerStarts PROVE ThreadsInvariant'
  OBVIOUS
<1>1. /\ ListsFit(mt) /\ Awake(mt) /\ pc \in [main : Mains, worker : Workplaces]
      /\ mt.batch # <<>> => pc.main \in {"FLUSHING", "HANDLING", "RESETTING", "CLEARING"}
  BY TypesFit DEF ThreadsInvariant, MainFits
<1>2. ListsFit(mt') /\ Awake(mt') /\ mt'.token = mt.token /\ mt'.batch = mt.batch
  BY <1>1, AsleepFits DEF TimerStarts, Awake
<1>. QED
  BY <1>1, <1>2, ListStep DEF TimerStarts

\* The thread of the timeouts ends, or is told to.
LEMMA EndingFits ==
  ASSUME NEW m, ListsFit(m), Awake(m), NEW ending \in BOOLEAN,
         NEW timer \in {"NONE", "STARTING", "SIGNALLED", "DONE"}
  PROVE  LET new == [m EXCEPT !.ending = ending, !.timer = timer] IN
         ListsFit(new) /\ Awake(new) /\ new.token = m.token /\ new.batch = m.batch
<1>. DEFINE new == [m EXCEPT !.ending = ending, !.timer = timer]
<1>1. m \in MainThreads
  BY DEF ListsFit
<1>2. /\ new \in MainThreads /\ new.queue = m.queue /\ new.timeouts = m.timeouts
      /\ new.batch = m.batch /\ new.next = m.next /\ new.token = m.token
      /\ new.timer = timer /\ new.woken = m.woken
  BY <1>1 DEF MainThreads
<1>. HIDE DEF new
<1>3. ToCome(new) = ToCome(m)
  BY <1>2 DEF ToCome
<1>4. ListsFit(new)
  BY <1>2, <1>3 DEF ListsFit
<1>5. Awake(new)
  BY <1>2 DEF Awake
<1>. QED
  BY <1>2, <1>4, <1>5 DEF new

LEMMA TimerWakesKeeps == ThreadsInvariant /\ TimerWakes => ThreadsInvariant'
<1>. SUFFICES ASSUME ThreadsInvariant, TimerWakes PROVE ThreadsInvariant'
  OBVIOUS
<1>1. /\ ListsFit(mt) /\ Awake(mt) /\ pc \in [main : Mains, worker : Workplaces]
      /\ mt.batch # <<>> => pc.main \in {"FLUSHING", "HANDLING", "RESETTING", "CLEARING"}
  BY TypesFit DEF ThreadsInvariant, MainFits
<1>2. ListsFit(mt') /\ Awake(mt') /\ mt'.token = mt.token /\ mt'.batch = mt.batch
  <2>1. CASE mt.ending
    <3>1. mt' = [mt EXCEPT !.ending = TRUE, !.timer = "DONE"]
      BY <1>1, <2>1 DEF TimerWakes, ListsFit, MainThreads
    <3>. QED
      BY <1>1, <3>1, EndingFits
  <2>2. CASE ~mt.ending
    <3>. DEFINE m == FlushReady(mt)
    <3>1. mt' = Asleep(m)
      BY <2>2 DEF TimerWakes
    <3>2. /\ ListsFit(m) /\ m.token = mt.token /\ m.batch = mt.batch
          /\ m.queue # <<>> => m.woken
      BY <1>1, FlushReadyFits DEF Awake
    <3>. HIDE DEF m
    <3>. QED
      BY <3>1, <3>2, AsleepFits
  <2>. QED
    BY <2>1, <2>2
<1>. QED
  BY <1>1, <1>2, ListStep DEF TimerWakes

LEMMA StopTimerKeeps == ThreadsInvariant /\ StopTimer => ThreadsInvariant'
<1>. SUFFICES ASSUME ThreadsInvariant, StopTimer PROVE ThreadsInvariant'
  OBVIOUS
<1>. DEFINE timer == IF mt.timer = "WAITING" THEN "SIGNALLED" ELSE mt.timer
<1>1. /\ ListsFit(mt) /\ Awake(mt) /\ mt \in MainThreads
      /\ mt.batch # <<>> => pc.main \in {"FLUSHING", "HANDLING", "RESETTING", "CLEARING"}
  BY TypesFit DEF ThreadsInvariant, MainFits, ListsFit
<1>2. /\ pc.main = "JOINING" /\ Goes("ENDING") /\ UNCHANGED <<conn, worker, game, ui, loader, plan>>
      /\ mt' = [mt EXCEPT !.ending = TRUE, !.timer = timer]
  BY <1>1 DEF StopTimer, Joined, At, MainThreads
<1>3. pc' \in [main : Mains, worker : Workplaces] /\ pc'.main = "ENDING" /\ pc'.worker = pc.worker
  BY <1>2, GoesFits DEF Mains, Freed
<1>4. timer \in {"NONE", "STARTING", "SIGNALLED", "DONE"}
  BY <1>1 DEF MainThreads
<1>. HIDE DEF timer
<1>5. ListsFit(mt') /\ Awake(mt') /\ mt'.token = mt.token /\ mt'.batch = mt.batch
  BY <1>1, <1>2, <1>4, EndingFits
<1>. QED
  BY <1>1, <1>2, <1>3, <1>5, ListStep DEF Freed

LEMMA ExitKeeps == ThreadsInvariant /\ Exit => ThreadsInvariant'
<1>. SUFFICES ASSUME ThreadsInvariant, Exit PROVE ThreadsInvariant'
  OBVIOUS
<1>1. /\ ListsFit(mt) /\ Awake(mt)
      /\ mt.batch # <<>> => pc.main \in {"FLUSHING", "HANDLING", "RESETTING", "CLEARING"}
  BY TypesFit DEF ThreadsInvariant, MainFits
<1>2. pc.main = "ENDING" /\ Goes("EXITED") /\ UNCHANGED <<conn, worker, game, mt, ui, loader, plan>>
  BY DEF Exit, At
<1>3. pc' \in [main : Mains, worker : Workplaces] /\ pc'.main = "EXITED" /\ pc'.worker = pc.worker
  BY <1>2, GoesFits DEF Mains, Freed
<1>. QED
  BY <1>1, <1>2, <1>3, ListStep DEF Freed

LEMMA StaysStill == ThreadsInvariant /\ UNCHANGED vars => ThreadsInvariant'
<1>. SUFFICES ASSUME ThreadsInvariant, UNCHANGED vars PROVE ThreadsInvariant'
  OBVIOUS
<1>1. UNCHANGED <<pc, conn, worker, game, mt, ui, loader, plan>>
  BY DEF vars
<1>2. /\ ListsFit(mt) /\ Awake(mt) /\ pc \in [main : Mains, worker : Workplaces]
      /\ mt.batch # <<>> => pc.main \in {"FLUSHING", "HANDLING", "RESETTING", "CLEARING"}
  BY TypesFit DEF ThreadsInvariant, MainFits
<1>. QED
  BY <1>1, <1>2, ListStep

\* The main thread gives the worker an address.
LEMMA QueueAddressKeeps == ThreadsInvariant /\ QueueAddress => ThreadsInvariant'
<1>. SUFFICES ASSUME ThreadsInvariant, QueueAddress PROVE ThreadsInvariant'
  OBVIOUS
<1>. DEFINE label == IF At("BOOT") THEN "STARTING" ELSE "IDLE"
            n == ui.asked + 1
            w == [worker EXCEPT !.toResolve = n]
<1>1. /\ pc.main \in {"BOOT", "IDLE"} /\ (pc.main = "BOOT" <=> label = "STARTING")
      /\ worker' = Wake(w) /\ ui' = [ui EXCEPT !.asked = n] /\ Goes(label)
      /\ UNCHANGED <<conn, game, mt, loader, plan>> /\ label \in {"STARTING", "IDLE"}
  <2>1. ui \in MainStates
    BY TypesFit
  <2>. QED
    BY <2>1 DEF QueueAddress, At, MainStates
<1>. HIDE DEF label
<1>2. pc' \in [main : Mains, worker : Workplaces] /\ pc'.main = label /\ pc'.worker = pc.worker
  BY <1>1, GoesFits DEF Mains
<1>3. ui \in MainStates /\ n \in Nat /\ n # NoAddress
  BY TypesFit, SMTT(30) DEF MainStates, NoAddress
<1>4. /\ worker \in Workers /\ Informed(worker, conn.poll) /\ worker.queued = worker.pipe
      /\ pc.worker # "RESOLVING" => worker.stolen = NoAddress
      /\ OnItsWay(worker, pc.worker, ui.asked, conn.address)
  BY <1>1 DEF ThreadsInvariant, WorkerFits, Freed
<1>. HIDE DEF n
<1>5. /\ w \in Workers /\ w.queued = w.pipe /\ w.poll = worker.poll /\ w.toResolve = n
      /\ w.stolen = worker.stolen
  BY <1>3, <1>4 DEF Workers
<1>. HIDE DEF w
<1>6. /\ worker' \in Workers /\ worker'.queued /\ worker'.pipe /\ worker'.poll = w.poll
      /\ worker'.toResolve = n /\ worker'.stolen = w.stolen
  BY <1>1, <1>5, WakeFits
<1>7. /\ ui' \in MainStates /\ ui'.asked = n /\ ui'.alive = ui.alive /\ ui'.shown = ui.shown
      /\ ui'.age = ui.age /\ ui'.timer = ui.timer /\ ui'.reset = ui.reset /\ ui'.seen = ui.seen
      /\ ui'.local = ui.local
  BY <1>1, <1>3 DEF MainStates
<1>8. TokensFit'
  BY <1>1, <1>2, <1>7, TokensStay DEF ThreadsInvariant
<1>9. ConnFits'
  BY <1>1, <1>2 DEF ThreadsInvariant, ConnFits
<1>10. WorkerFits'
  <2>1. SleepsWell(worker')
    BY <1>6 DEF SleepsWell
  <2>2. OnItsWay(worker', pc.worker, n, conn.address)
    BY <1>3, <1>6 DEF OnItsWay
  <2>3. Informed(worker', conn.poll)
    BY <1>4, <1>5, <1>6 DEF Informed
  <2>4. pc'.main \notin Freed
    BY <1>1, <1>2 DEF Freed
  <2>. QED
    BY <1>1, <1>2, <1>4, <1>5, <1>6, <1>7, <2>1, <2>2, <2>3, <2>4 DEF WorkerFits
<1>11. LoaderFits'
  BY <1>1, <1>2, LoaderStays DEF ThreadsInvariant, Freed
<1>12. MainFits'
  BY <1>1, <1>2, <1>7 DEF ThreadsInvariant, MainFits, Freed, Workplaces
<1>13. TimesFit'
  BY <1>1, <1>7, TimesStay DEF ThreadsInvariant
<1>14. EventsFit'
  BY <1>1, <1>2, <1>7, EventsStay DEF ThreadsInvariant
<1>. QED
  BY <1>8, <1>9, <1>10, <1>11, <1>12, <1>13, <1>14 DEF ThreadsInvariant

\* The game state is made, and listens.
LEMMA ListenKeeps == ThreadsInvariant /\ Listen => ThreadsInvariant'
<1>. SUFFICES ASSUME ThreadsInvariant, Listen PROVE ThreadsInvariant'
  OBVIOUS
<1>1. /\ pc.main = "STARTING" /\ ~ui.alive /\ ui' = [ui EXCEPT !.alive = TRUE]
      /\ conn' = [conn EXCEPT !.who = game.saved]
      /\ UNCHANGED <<pc, worker, game, mt, loader, plan>>
  BY DEF Listen, At
<1>2. /\ conn \in Connections(plan) /\ ui \in MainStates
      /\ game \in [events : Seq(EventRecords), flush : Nat, saved : People]
  BY TypesFit
<1>3. /\ conn' \in Connections(plan) /\ conn'.who = game.saved /\ conn'.game = conn.game
      /\ conn'.said = conn.said /\ conn'.running = conn.running /\ conn'.poll = conn.poll
      /\ conn'.address = conn.address
  BY <1>1, <1>2 DEF Connections
<1>4. /\ ui' \in MainStates /\ ui'.asked = ui.asked /\ ui'.alive /\ ui'.shown = ui.shown
      /\ ui'.age = ui.age /\ ui'.timer = ui.timer /\ ui'.reset = ui.reset /\ ui'.seen = ui.seen
      /\ ui'.local = ui.local
  BY <1>1, <1>2 DEF MainStates
<1>5. /\ game.flush = NoToken /\ ui.reset = NoToken /\ game.events = <<>> /\ ui.seen = 0
      /\ ui.local = <<>> /\ conn.said = 0
  BY <1>1 DEF ThreadsInvariant, MainFits, ConnFits
<1>6. TokensFit'
  BY <1>1, <1>3, <1>4, TokensStay DEF ThreadsInvariant
<1>7. ConnFits'
  BY <1>1, <1>3 DEF ThreadsInvariant, ConnFits
<1>8. WorkerFits'
  BY <1>1, <1>3, <1>4, WorkerStays DEF ThreadsInvariant
<1>9. LoaderFits'
  BY <1>1, LoaderStays DEF ThreadsInvariant
<1>10. MainFits'
  BY <1>1, <1>3, <1>4, <1>5 DEF ThreadsInvariant, MainFits, Freed
<1>11. TimesFit'
  BY <1>1, <1>4, TimesStay DEF ThreadsInvariant
<1>12. EventsFit'
  <2>1. Pending' = <<>>
    BY <1>1, <1>4, <1>5 DEF Pending
  <2>2. InTurn(Pending', 0, 0) /\ OfThisGame(Pending)'
    BY <2>1, NoneInTurn DEF OfThisGame
  <2>. QED
    BY <1>3, <1>4, <1>5, <2>2 DEF EventsFit
<1>. QED
  BY <1>6, <1>7, <1>8, <1>9, <1>10, <1>11, <1>12 DEF ThreadsInvariant

\* The painters and their images.
Loaders == [at : {"START", "WAITING", "SIGNALLED", "LOADING", "DONE"},
            queue : Seq(Nat \ {0}), image : Nat, slot : Nat, idle : Nat, quit : BOOLEAN]

LEMMA ToldFits ==
  ASSUME NEW l \in Loaders
  PROVE  /\ Told(l) \in Loaders /\ Told(l).slot = l.slot /\ Told(l).idle = l.idle
         /\ Told(l).image = l.image
         /\ Told(l).at = l.at \/ Told(l).at = "SIGNALLED"
BY DEF Told, Loaders

LEMMA ImageStep ==
  ASSUME ThreadsInvariant, UNCHANGED <<pc, conn, worker, game, mt, plan>>, pc.main = "IDLE",
         NEW images \in Seq({"asked", "shown", "dropped"}), ui' = [ui EXCEPT !.images = images],
         loader' \in Loaders, loader'.idle = loader.idle, loader'.slot = loader.slot,
         loader'.image = loader.image, loader'.at = loader.at \/ loader'.at = "SIGNALLED"
  PROVE  ThreadsInvariant'
<1>1. ui \in MainStates
  BY TypesFit
<1>2. /\ ui' \in MainStates /\ ui'.asked = ui.asked /\ ui'.alive = ui.alive
      /\ ui'.shown = ui.shown /\ ui'.seen = ui.seen
      /\ ui'.age = ui.age /\ ui'.timer = ui.timer /\ ui'.reset = ui.reset
      /\ ui'.local = ui.local
  BY <1>1 DEF MainStates
<1>3. TokensFit'
  BY <1>2, TokensStay DEF ThreadsInvariant
<1>4. ConnFits'
  BY ConnStays DEF ThreadsInvariant
<1>5. WorkerFits'
  BY <1>2, WorkerStays DEF ThreadsInvariant
<1>6. LoaderFits'
  BY DEF LoaderFits, Loaders, Freed, ThreadsInvariant
<1>7. MainFits'
  BY <1>2 DEF ThreadsInvariant, MainFits
<1>8. TimesFit'
  BY <1>2, TimesStay DEF ThreadsInvariant
<1>9. EventsFit'
  BY <1>2, EventsStay DEF ThreadsInvariant
<1>. QED
  BY <1>3, <1>4, <1>5, <1>6, <1>7, <1>8, <1>9 DEF ThreadsInvariant

LEMMA LoadImageKeeps == ThreadsInvariant /\ LoadImage => ThreadsInvariant'
<1>. SUFFICES ASSUME ThreadsInvariant, LoadImage PROVE ThreadsInvariant'
  OBVIOUS
<1>. DEFINE images == Append(ui.images, "asked")
            n == Len(ui'.images)
            queue == <<n>> \o loader.queue
            l == [loader EXCEPT !.queue = queue]
<1>1. /\ ui \in MainStates /\ loader \in Loaders /\ (loader.at = "LOADING" => loader.slot = 0)
  BY TypesFit DEF ThreadsInvariant, LoaderFits, Loaders
<1>2. /\ pc.main = "IDLE" /\ ui' = [ui EXCEPT !.images = images] /\ loader' = Told(l)
      /\ UNCHANGED <<pc, conn, worker, game, mt, plan>>
  BY <1>1 DEF LoadImage, At, MainStates, Loaders
<1>3. ui.images \in Seq({"asked", "shown", "dropped"})
  BY <1>1 DEF MainStates
<1>4. images \in Seq({"asked", "shown", "dropped"}) /\ Len(images) \in Nat \ {0}
  BY <1>3
<1>. HIDE DEF images
<1>5. ui'.images = images
  BY <1>1, <1>2 DEF MainStates
<1>6. n \in Nat \ {0}
  BY <1>4, <1>5
<1>. HIDE DEF n
<1>7. queue \in Seq(Nat \ {0})
  BY <1>1, <1>6 DEF Loaders
<1>. HIDE DEF queue
<1>8. l \in Loaders /\ l.slot = loader.slot /\ l.idle = loader.idle /\ l.image = loader.image
      /\ l.at = loader.at
  BY <1>1, <1>7 DEF Loaders
<1>. HIDE DEF l
<1>9. /\ loader' \in Loaders /\ loader'.slot = l.slot /\ loader'.idle = l.idle
      /\ loader'.image = l.image /\ (loader'.at = l.at \/ loader'.at = "SIGNALLED")
  BY <1>2, <1>8, ToldFits
<1>. QED
  BY <1>2, <1>4, <1>8, <1>9, ImageStep

LEMMA CancelImageKeeps == ThreadsInvariant /\ CancelImage => ThreadsInvariant'
<1>. SUFFICES ASSUME ThreadsInvariant, CancelImage PROVE ThreadsInvariant'
  OBVIOUS
<1>1. /\ ui \in MainStates /\ loader \in Loaders
  BY TypesFit DEF ThreadsInvariant, LoaderFits, Loaders
<1>2. PICK i \in DOMAIN ui.images : ui' = [ui EXCEPT !.images[i] = "dropped"]
  BY DEF CancelImage
<1>. DEFINE images == [ui.images EXCEPT ![i] = "dropped"]
<1>3. ui.images \in Seq({"asked", "shown", "dropped"})
  BY <1>1 DEF MainStates
<1>4. images \in Seq({"asked", "shown", "dropped"})
  BY <1>3
<1>5. ui' = [ui EXCEPT !.images = images]
  BY <1>1, <1>2 DEF MainStates
<1>. QED
  BY <1>1, <1>4, <1>5, ImageStep DEF CancelImage, At

\* Tokens are cancelled by those who hold them.
LetsGo(h, S, ids, f) ==
  /\ h \in [AllUses -> Nat] /\ S \in SUBSET AllUses
  /\ \A use \in S : h[use] \in ids
  /\ \A i \in ids : \E use \in S : i = h[use]
  /\ f \in [AllUses -> Nat]
  /\ \A use \in S : f[use] = NoToken
  /\ \A use \in AllUses \ S : f[use] = h[use]

LEMMA CancelHeld ==
  ASSUME NEW m, ListsFit(m), NEW h, Held(m, h), NEW S, NEW ids, NEW f, LetsGo(h, S, ids, f)
  PROVE  LET new == Cancel(m, ids) IN
         /\ Held(new, f) /\ \A g : OfGame(m, g) => OfGame(new, g)
         /\ \A use \in AllUses \ S : h[use] # NoToken => new.token[h[use]] = m.token[h[use]]
<1>. DEFINE new == Cancel(m, ids)
<1>1. /\ \A i \in Ids \ ids : new.token[i] = m.token[i]
      /\ \A i \in Ids \cap ids : new.token[i].cancelled
  BY CancelFits
<1>. HIDE DEF new
<1>2. \A use \in AllUses : h[use] # NoToken => h[use] \in Ids /\ m.token[h[use]].use = use
  BY DEF Held
<1>3. ASSUME NEW use \in AllUses \ S, h[use] # NoToken
      PROVE  new.token[h[use]] = m.token[h[use]]
  <2>1. h[use] \notin ids
    <3>1. SUFFICES ASSUME h[use] \in ids PROVE FALSE
      OBVIOUS
    <3>2. PICK other \in S : h[use] = h[other]
      BY <1>3, <3>1 DEF LetsGo
    <3>. QED
      BY <1>2, <1>3, <3>2 DEF LetsGo
  <2>. QED
    BY <1>1, <1>2, <1>3, <2>1
<1>4. ASSUME NEW use \in S, h[use] # NoToken
      PROVE  new.token[h[use]].cancelled
  <2>1. h[use] \in ids
    BY <1>4 DEF LetsGo
  <2>. QED
    BY <1>1, <1>2, <1>4, <2>1 DEF LetsGo
<1>5. \A i \in Ids : new.token[i] = m.token[i] \/ new.token[i].cancelled
  BY <1>1
<1>6. /\ \A use \in AllUses : f[use] = h[use] \/ f[use] = NoToken
      /\ h \in [AllUses -> Nat] /\ f \in [AllUses -> Nat]
  BY DEF LetsGo
<1>7. \A use \in AllUses : f[use] # NoToken => new.token[f[use]] = m.token[f[use]]
  BY <1>3 DEF LetsGo
<1>8. \A use \in AllUses : f[use] = NoToken /\ h[use] # NoToken => new.token[h[use]].cancelled
  BY <1>4 DEF LetsGo
<1>9. Held(new, f) /\ \A g : OfGame(m, g) => OfGame(new, g)
  BY <1>5, <1>6, <1>7, <1>8, GivenUp
<1>. QED
  BY <1>3, <1>9 DEF new

\* The token of an idle callback or a timeout that is called is the one that its
\* user holds, and is given back.
LEMMA CalledFits ==
  ASSUME ThreadsInvariant, NEW use \in AllUses, Calling(use), Call, NEW f \in [AllUses -> Nat],
         f[use] = NoToken, \A v \in AllUses : v # use => f[v] = Holder(v)
  PROVE  /\ pc.main = "FLUSHING" /\ Holder(use) # NoToken
         /\ ListsFit(mt') /\ Awake(mt') /\ Held(mt', f) /\ mt'.batch = mt.batch
         /\ \A g : OfGame(mt, g) => OfGame(mt', g)
         /\ mt.token[Holder(use)].left = 0
         /\ \A v \in AllUses : v # use /\ Holder(v) # NoToken =>
              mt'.token[Holder(v)] = mt.token[Holder(v)]
<1>. DEFINE id == mt.batch[mt.next]
<1>1. /\ ListsFit(mt) /\ Awake(mt) /\ Held(mt, Holders) /\ Holders \in [AllUses -> Nat]
      /\ \A v \in AllUses : Holders[v] = Holder(v)
  BY TypesFit
<1>2. use # "nothing"
  BY DEF AllUses, Uses
<1>3. /\ pc.main = "FLUSHING" /\ mt.next <= Len(mt.batch) /\ ~mt.token[id].cancelled
      /\ mt.token[id].use = use
  BY <1>2 DEF Calling, Called, At
<1>4. mt' = CalledOne(mt)
  BY DEF Call, CalledOne
<1>5. /\ ListsFit(mt') /\ Awake(mt') /\ mt'.batch = mt.batch
      /\ id \in Ids /\ mt.token[id].left = 0 /\ mt'.token[id].cancelled
      /\ \A i \in Ids : i # id => mt'.token[i] = mt.token[i]
  BY <1>1, <1>3, <1>4, CallFits
<1>. HIDE DEF id
<1>6. Holders[use] = id /\ id # NoToken
  BY <1>1, <1>3, <1>5 DEF Held, Ids, NoToken
<1>7. ASSUME NEW v \in AllUses, v # use, Holders[v] # NoToken
      PROVE  mt'.token[Holders[v]] = mt.token[Holders[v]]
  BY <1>1, <1>3, <1>5, <1>7 DEF Held
<1>8. Held(mt', f) /\ \A g : OfGame(mt, g) => OfGame(mt', g)
  <2>1. \A v \in AllUses : f[v] = Holders[v] \/ f[v] = NoToken
    BY <1>1
  <2>2. \A i \in Ids : mt'.token[i] = mt.token[i] \/ mt'.token[i].cancelled
    BY <1>5
  <2>3. \A v \in AllUses : f[v] # NoToken => mt'.token[f[v]] = mt.token[f[v]]
    BY <1>1, <1>7
  <2>4. \A v \in AllUses : f[v] = NoToken /\ Holders[v] # NoToken =>
          mt'.token[Holders[v]].cancelled
    BY <1>1, <1>5, <1>6
  <2>. QED
    BY <1>1, <2>1, <2>2, <2>3, <2>4, GivenUp
<1>. QED
  BY <1>1, <1>3, <1>5, <1>6, <1>7, <1>8

LEMMA SkipCancelledKeeps == ThreadsInvariant /\ SkipCancelled => ThreadsInvariant'
<1>. SUFFICES ASSUME ThreadsInvariant, SkipCancelled PROVE ThreadsInvariant'
  OBVIOUS
<1>. DEFINE id == mt.batch[mt.next]
<1>1. /\ ListsFit(mt) /\ Awake(mt) /\ Held(mt, Holders) /\ Holders \in [AllUses -> Nat]
      /\ \A v \in AllUses : Holders[v] = Holder(v)
  BY TypesFit
<1>2. /\ UNCHANGED <<pc, conn, worker, game, ui, loader, plan>> /\ mt' = CalledOne(mt)
      /\ mt.next <= Len(mt.batch) /\ mt.token[id].cancelled
  BY DEF SkipCancelled, Calling, Called, Call, CalledOne
<1>3. /\ ListsFit(mt') /\ Awake(mt') /\ mt'.batch = mt.batch
      /\ id \in Ids /\ mt'.token[id].cancelled
      /\ \A i \in Ids : i # id => mt'.token[i] = mt.token[i]
  BY <1>1, <1>2, CallFits
<1>. HIDE DEF id
<1>4. \A v \in AllUses : Holders[v] # NoToken => mt'.token[Holders[v]] = mt.token[Holders[v]]
  BY <1>1, <1>2, <1>3 DEF Held
<1>5. Held(mt', Holders) /\ \A g : OfGame(mt, g) => OfGame(mt', g)
  <2>1. \A i \in Ids : mt'.token[i] = mt.token[i] \/ mt'.token[i].cancelled
    BY <1>3
  <2>. QED
    BY <1>1, <1>4, <2>1, GivenUp
<1>6. Holders' = Holders
  BY <1>2 DEF Holders, Holder
<1>7. TokensFit'
  BY <1>2, <1>3, <1>5, <1>6 DEF TokensFit, ThreadsInvariant
<1>8. ConnFits' /\ WorkerFits' /\ LoaderFits'
  BY <1>2, ConnStays, WorkerStays, LoaderStays DEF ThreadsInvariant
<1>9. MainFits'
  BY <1>2, <1>3 DEF ThreadsInvariant, MainFits
<1>10. TimesFit'
  <2>1. \A u \in Uses : u \in AllUses /\ Holder(u) = ui.timer[u]
    BY DEF AllUses, Holder, Uses
  <2>2. \A u \in Uses : ui.timer[u] # NoToken =>
          mt'.token[ui.timer[u]].left = mt.token[ui.timer[u]].left
    BY <1>1, <1>4, <2>1
  <2>. QED
    BY <1>2, <2>2, TimesStay DEF ThreadsInvariant
<1>11. EventsFit'
  BY <1>2, EventsStay DEF ThreadsInvariant
<1>. QED
  BY <1>7, <1>8, <1>9, <1>10, <1>11 DEF ThreadsInvariant

\* The main thread is told of events, and takes all that wait.
LEMMA TakeEventsKeeps == ThreadsInvariant /\ TakeEvents => ThreadsInvariant'
<1>. SUFFICES ASSUME ThreadsInvariant, TakeEvents PROVE ThreadsInvariant'
  OBVIOUS
<1>. DEFINE none == <<>>
            nothing == NoToken
            events == game.events
            f == [v \in AllUses |-> IF v = "flush" THEN NoToken ELSE Holder(v)]
<1>1. /\ ui \in MainStates /\ game \in [events : Seq(EventRecords), flush : Nat, saved : People]
      /\ \A v \in AllUses : Holders[v] = Holder(v) /\ Holder(v) \in Nat
  BY TypesFit
<1>2. /\ Calling("flush") /\ Call /\ Goes("HANDLING") /\ UNCHANGED <<conn, worker, loader, plan>>
      /\ game' = [game EXCEPT !.events = none, !.flush = nothing]
      /\ ui' = [ui EXCEPT !.local = events]
  BY DEF TakeEvents
<1>3. pc' \in [main : Mains, worker : Workplaces] /\ pc'.main = "HANDLING" /\ pc'.worker = pc.worker
  BY <1>2, GoesFits DEF Mains
<1>4. f \in [AllUses -> Nat] /\ f["flush"] = NoToken /\ "flush" \in AllUses
      /\ \A v \in AllUses : v # "flush" => f[v] = Holder(v)
  BY <1>1 DEF AllUses, NoToken
<1>. HIDE DEF f
<1>5. /\ pc.main = "FLUSHING" /\ Holder("flush") # NoToken
      /\ ListsFit(mt') /\ Awake(mt') /\ Held(mt', f) /\ mt'.batch = mt.batch
      /\ \A g : OfGame(mt, g) => OfGame(mt', g)
      /\ \A v \in AllUses : v # "flush" /\ Holder(v) # NoToken =>
           mt'.token[Holder(v)] = mt.token[Holder(v)]
  BY <1>2, <1>4, CalledFits
<1>6. none \in Seq(EventRecords) /\ nothing \in Nat /\ events \in Seq(EventRecords)
  BY <1>1 DEF NoToken
<1>. HIDE DEF none, nothing, events
<1>7. /\ game' \in [events : Seq(EventRecords), flush : Nat, saved : People]
      /\ game'.events = none /\ game'.flush = nothing /\ game'.saved = game.saved
  BY <1>1, <1>2, <1>6
<1>8. /\ ui' \in MainStates /\ ui'.local = events
      /\ ui'.asked = ui.asked /\ ui'.alive = ui.alive /\ ui'.shown = ui.shown
      /\ ui'.age = ui.age /\ ui'.timer = ui.timer /\ ui'.reset = ui.reset /\ ui'.seen = ui.seen
  BY <1>1, <1>2, <1>6 DEF MainStates
<1>9. ui.alive /\ game.events # <<>> /\ ui.local = <<>>
  <2>1. game.flush # NoToken
    BY <1>5 DEF Holder
  <2>. QED
    BY <1>5, <2>1 DEF ThreadsInvariant, MainFits
<1>10. TokensFit'
  <2>1. Holders' = f
    <3>1. \A v \in AllUses : Holders'[v] = f[v]
      BY <1>2, <1>4, <1>7, <1>8 DEF Holders, Holder, nothing
    <3>2. f = [v \in AllUses |-> f[v]] /\ Holders' = [v \in AllUses |-> Holders'[v]]
      BY <1>4 DEF Holders
    <3>. QED
      BY <3>1, <3>2, Zenon
  <2>. QED
    BY <1>2, <1>5, <2>1 DEF TokensFit, ThreadsInvariant
<1>11. ConnFits' /\ WorkerFits' /\ LoaderFits'
  BY <1>2, <1>3, <1>5, <1>8, ConnStays, WorkerStays, LoaderStays DEF ThreadsInvariant, Freed
<1>12. MainFits'
  BY <1>2, <1>3, <1>5, <1>7, <1>8, <1>9 DEF ThreadsInvariant, MainFits, Workplaces, Freed,
                                          nothing, none, events
<1>13. TimesFit'
  <2>1. \A u \in Uses : u \in AllUses /\ u # "flush" /\ Holder(u) = ui.timer[u]
    BY DEF AllUses, Holder, Uses
  <2>. QED
    BY <1>5, <1>8, <2>1, TimesStay DEF ThreadsInvariant
<1>14. EventsFit'
  <2>1. Pending' = Pending
    BY <1>1, <1>7, <1>8, <1>9 DEF Pending, none, events
  <2>. QED
    BY <1>2, <1>5, <1>8, <2>1 DEF EventsFit, OfThisGame, ThreadsInvariant
<1>. QED
  BY <1>10, <1>11, <1>12, <1>13, <1>14 DEF ThreadsInvariant

\* The time of a shout or a note is over.
LEMMA TakeDownKeeps ==
  ASSUME ThreadsInvariant, NEW u \in Uses, TakeDown(u)
  PROVE  ThreadsInvariant' /\ ui.age[u] = Duration[u]
<1>. DEFINE f == [v \in AllUses |-> IF v = u THEN NoToken ELSE Holder(v)]
            timer == [ui.timer EXCEPT ![u] = NoToken]
            shown == [ui.shown EXCEPT ![u] = FALSE]
            age == [ui.age EXCEPT ![u] = 0]
<1>1. /\ ui \in MainStates /\ pc \in [main : Mains, worker : Workplaces]
      /\ \A v \in AllUses : Holders[v] = Holder(v) /\ Holder(v) \in Nat
  BY TypesFit
<1>2. /\ Calling(u) /\ Call /\ UNCHANGED <<pc, conn, worker, game, loader, plan>>
      /\ ui' = [ui EXCEPT !.timer = timer, !.shown = shown, !.age = age]
  BY <1>1 DEF TakeDown, MainStates
<1>3. f \in [AllUses -> Nat] /\ f[u] = NoToken /\ u \in AllUses
      /\ \A v \in AllUses : v # u => f[v] = Holder(v)
  BY <1>1 DEF AllUses, NoToken
<1>4. /\ timer \in [Uses -> Nat] /\ shown \in [Uses -> BOOLEAN] /\ age \in [Uses -> Nat]
      /\ timer[u] = NoToken /\ ~shown[u]
      /\ \A v \in Uses : v # u => timer[v] = ui.timer[v] /\ shown[v] = ui.shown[v]
                                  /\ age[v] = ui.age[v]
  BY <1>1 DEF MainStates, NoToken
<1>. HIDE DEF f, timer, shown, age
<1>5. /\ pc.main = "FLUSHING" /\ Holder(u) # NoToken /\ mt.token[Holder(u)].left = 0
      /\ ListsFit(mt') /\ Awake(mt') /\ Held(mt', f) /\ mt'.batch = mt.batch
      /\ \A g : OfGame(mt, g) => OfGame(mt', g)
      /\ \A v \in AllUses : v # u /\ Holder(v) # NoToken =>
           mt'.token[Holder(v)] = mt.token[Holder(v)]
  BY <1>2, <1>3, CalledFits
<1>6. /\ ui' \in MainStates /\ ui'.timer = timer /\ ui'.shown = shown /\ ui'.age = age
      /\ ui'.asked = ui.asked /\ ui'.alive = ui.alive /\ ui'.local = ui.local
      /\ ui'.reset = ui.reset /\ ui'.seen = ui.seen
  BY <1>1, <1>2, <1>4 DEF MainStates
<1>7. \A v \in Uses : v \in AllUses /\ Holder(v) = ui.timer[v] /\ Holder(v)' = ui'.timer[v]
  BY DEF AllUses, Holder, Uses
<1>8. ui.alive
  BY <1>5 DEF ThreadsInvariant, MainFits, Freed
<1>9. TokensFit'
  <2>1. Holders' = f
    <3>1. ASSUME NEW v \in AllUses PROVE Holders'[v] = f[v]
      <4>1. CASE v \in Uses
        BY <1>3, <1>4, <1>6, <1>7, <4>1 DEF Holders
      <4>2. CASE v \notin Uses
        BY <1>2, <1>3, <1>6, <4>2 DEF Holders, Holder, AllUses
      <4>. QED
        BY <4>1, <4>2
    <3>2. f = [v \in AllUses |-> f[v]] /\ Holders' = [v \in AllUses |-> Holders'[v]]
      BY <1>3 DEF Holders
    <3>. QED
      BY <3>1, <3>2, Zenon
  <2>. QED
    BY <1>2, <1>5, <2>1 DEF TokensFit, ThreadsInvariant
<1>10. ConnFits' /\ WorkerFits' /\ LoaderFits'
  BY <1>2, <1>6, ConnStays, WorkerStays, LoaderStays DEF ThreadsInvariant
<1>11. MainFits'
  BY <1>2, <1>5, <1>6, <1>8 DEF ThreadsInvariant, MainFits
<1>12. TimesFit'
  <2>1. ASSUME NEW v \in Uses
        PROVE  IF ui'.timer[v] = NoToken THEN ~ui'.shown[v]
               ELSE ui'.shown[v] /\ ui'.age[v] + mt'.token[ui'.timer[v]].left = Duration[v]
    <3>1. CASE v = u
      BY <1>4, <1>6, <3>1
    <3>2. CASE v # u
      BY <1>4, <1>5, <1>6, <1>7, <3>2 DEF TimesFit, ThreadsInvariant
    <3>. QED
      BY <3>1, <3>2
  <2>. QED
    BY <2>1 DEF TimesFit
<1>13. EventsFit'
  BY <1>2, <1>6, EventsStay DEF ThreadsInvariant
<1>14. ui.age[u] = Duration[u]
  <2>1. ui.age[u] + mt.token[ui.timer[u]].left = Duration[u] /\ mt.token[ui.timer[u]].left = 0
    BY <1>5, <1>7 DEF TimesFit, ThreadsInvariant
  <2>. QED
    BY <1>1, <2>1 DEF MainStates
<1>. QED
  BY <1>9, <1>10, <1>11, <1>12, <1>13, <1>14 DEF ThreadsInvariant

\* The reset that waited begins.
LEMMA StartResetKeeps == ThreadsInvariant /\ StartReset => ThreadsInvariant'
<1>. SUFFICES ASSUME ThreadsInvariant, StartReset PROVE ThreadsInvariant'
  OBVIOUS
<1>. DEFINE nothing == NoToken
            f == [v \in AllUses |-> IF v = "reset" THEN NoToken ELSE Holder(v)]
<1>1. /\ ui \in MainStates
      /\ \A v \in AllUses : Holders[v] = Holder(v) /\ Holder(v) \in Nat
  BY TypesFit
<1>2. /\ Calling("reset") /\ Call /\ Goes("RESETTING")
      /\ UNCHANGED <<conn, worker, game, loader, plan>>
      /\ ui' = [ui EXCEPT !.reset = nothing]
  BY DEF StartReset
<1>3. pc' \in [main : Mains, worker : Workplaces] /\ pc'.main = "RESETTING" /\ pc'.worker = pc.worker
  BY <1>2, GoesFits DEF Mains
<1>4. f \in [AllUses -> Nat] /\ f["reset"] = NoToken /\ "reset" \in AllUses
      /\ \A v \in AllUses : v # "reset" => f[v] = Holder(v)
  BY <1>1 DEF AllUses, NoToken
<1>. HIDE DEF f
<1>5. /\ pc.main = "FLUSHING" /\ Holder("reset") # NoToken
      /\ ListsFit(mt') /\ Awake(mt') /\ Held(mt', f) /\ mt'.batch = mt.batch
      /\ \A g : OfGame(mt, g) => OfGame(mt', g)
      /\ \A v \in AllUses : v # "reset" /\ Holder(v) # NoToken =>
           mt'.token[Holder(v)] = mt.token[Holder(v)]
  BY <1>2, <1>4, CalledFits
<1>6. nothing \in Nat
  BY DEF NoToken
<1>. HIDE DEF nothing
<1>7. /\ ui' \in MainStates /\ ui'.reset = nothing /\ ui'.local = ui.local
      /\ ui'.asked = ui.asked /\ ui'.alive = ui.alive /\ ui'.shown = ui.shown
      /\ ui'.age = ui.age /\ ui'.timer = ui.timer /\ ui'.seen = ui.seen
  BY <1>1, <1>2, <1>6 DEF MainStates
<1>8. ui.alive /\ ui.local = <<>> /\ conn.game < plan.games
  <2>1. ui.reset # NoToken
    BY <1>5 DEF Holder
  <2>. QED
    BY <1>5, <2>1 DEF ThreadsInvariant, MainFits
<1>9. TokensFit'
  <2>1. Holders' = f
    <3>1. \A v \in AllUses : Holders'[v] = f[v]
      BY <1>2, <1>4, <1>7 DEF Holders, Holder, nothing
    <3>2. f = [v \in AllUses |-> f[v]] /\ Holders' = [v \in AllUses |-> Holders'[v]]
      BY <1>4 DEF Holders
    <3>. QED
      BY <3>1, <3>2, Zenon
  <2>. QED
    BY <1>2, <1>5, <2>1 DEF TokensFit, ThreadsInvariant
<1>10. ConnFits'
  BY <1>2, <1>3, <1>8 DEF ThreadsInvariant, ConnFits
<1>11. WorkerFits' /\ LoaderFits'
  BY <1>2, <1>3, <1>5, <1>7, WorkerStays, LoaderStays DEF ThreadsInvariant, Freed
<1>12. MainFits'
  BY <1>2, <1>3, <1>5, <1>7, <1>8 DEF ThreadsInvariant, MainFits, Workplaces, Freed, nothing
<1>13. TimesFit'
  <2>1. \A u \in Uses : u \in AllUses /\ u # "reset" /\ Holder(u) = ui.timer[u]
    BY DEF AllUses, Holder, Uses
  <2>. QED
    BY <1>5, <1>7, <2>1, TimesStay DEF ThreadsInvariant
<1>14. EventsFit'
  BY <1>2, <1>3, <1>5, <1>7, EventsStay DEF ThreadsInvariant
<1>. QED
  BY <1>9, <1>10, <1>11, <1>12, <1>13, <1>14 DEF ThreadsInvariant

\* An image is taken from the slot of the loader.
LEMMA TakeImageKeeps == ThreadsInvariant /\ TakeImage => ThreadsInvariant'
<1>. SUFFICES ASSUME ThreadsInvariant, TakeImage PROVE ThreadsInvariant'
  OBVIOUS
<1>. DEFINE nothing == NoToken
            empty == 0
            f == [v \in AllUses |-> IF v = "image" THEN NoToken ELSE Holder(v)]
            images == [i \in DOMAIN ui.images |->
                         IF i = loader.slot /\ ui.images[i] = "asked" THEN "shown"
                         ELSE ui.images[i]]
            l == [loader EXCEPT !.slot = empty, !.idle = nothing]
<1>1. /\ ui \in MainStates /\ loader \in Loaders
      /\ \A v \in AllUses : Holders[v] = Holder(v) /\ Holder(v) \in Nat
  BY TypesFit DEF ThreadsInvariant, LoaderFits, Loaders
<1>2. /\ Calling("image") /\ Call /\ UNCHANGED <<pc, conn, worker, game, plan>>
      /\ ui' = [ui EXCEPT !.images = images] /\ loader' = Told(l)
  BY <1>1 DEF TakeImage, MainStates
<1>3. f \in [AllUses -> Nat] /\ f["image"] = NoToken /\ "image" \in AllUses
      /\ \A v \in AllUses : v # "image" => f[v] = Holder(v)
  BY <1>1 DEF AllUses, NoToken
<1>. HIDE DEF f
<1>4. /\ pc.main = "FLUSHING" /\ Holder("image") # NoToken
      /\ ListsFit(mt') /\ Awake(mt') /\ Held(mt', f) /\ mt'.batch = mt.batch
      /\ \A g : OfGame(mt, g) => OfGame(mt', g)
      /\ \A v \in AllUses : v # "image" /\ Holder(v) # NoToken =>
           mt'.token[Holder(v)] = mt.token[Holder(v)]
  BY <1>2, <1>3, CalledFits
<1>5. nothing \in Nat /\ empty \in Nat /\ images \in Seq({"asked", "shown", "dropped"})
  <2>1. ui.images \in Seq({"asked", "shown", "dropped"})
    BY <1>1 DEF MainStates
  <2>. QED
    BY <2>1 DEF NoToken
<1>. HIDE DEF nothing, empty, images
<1>6. l \in Loaders /\ l.slot = empty /\ l.idle = nothing /\ l.at = loader.at
  BY <1>1, <1>5 DEF Loaders
<1>. HIDE DEF l
<1>7. /\ loader' \in Loaders /\ loader'.slot = empty /\ loader'.idle = nothing
      /\ (loader'.at = loader.at \/ loader'.at = "SIGNALLED") /\ loader'.image = l.image
  BY <1>2, <1>6, ToldFits
<1>8. /\ ui' \in MainStates /\ ui'.reset = ui.reset /\ ui'.local = ui.local
      /\ ui'.asked = ui.asked /\ ui'.alive = ui.alive /\ ui'.shown = ui.shown
      /\ ui'.age = ui.age /\ ui'.timer = ui.timer /\ ui'.seen = ui.seen
  BY <1>1, <1>2, <1>5 DEF MainStates
<1>9. TokensFit'
  <2>1. Holders' = f
    <3>1. \A v \in AllUses : Holders'[v] = f[v]
      BY <1>2, <1>3, <1>7, <1>8 DEF Holders, Holder, nothing, AllUses, Uses
    <3>2. f = [v \in AllUses |-> f[v]] /\ Holders' = [v \in AllUses |-> Holders'[v]]
      BY <1>3 DEF Holders
    <3>. QED
      BY <3>1, <3>2, Zenon
  <2>. QED
    BY <1>2, <1>4, <2>1 DEF TokensFit, ThreadsInvariant
<1>10. ConnFits' /\ WorkerFits'
  BY <1>2, <1>8, ConnStays, WorkerStays DEF ThreadsInvariant
<1>11. LoaderFits'
  <2>1. loader.at # "LOADING"
    <3>1. loader.idle # NoToken
      BY <1>4 DEF Holder
    <3>. QED
      BY <3>1 DEF ThreadsInvariant, LoaderFits
  <2>. QED
    BY <1>2, <1>4, <1>7, <2>1 DEF LoaderFits, Loaders, Freed, nothing, empty
<1>12. MainFits'
  BY <1>2, <1>4, <1>8 DEF ThreadsInvariant, MainFits
<1>13. TimesFit'
  <2>1. \A u \in Uses : u \in AllUses /\ u # "image" /\ Holder(u) = ui.timer[u]
    BY DEF AllUses, Holder, Uses
  <2>. QED
    BY <1>4, <1>8, <2>1, TimesStay DEF ThreadsInvariant
<1>14. EventsFit'
  BY <1>2, <1>8, EventsStay DEF ThreadsInvariant
<1>. QED
  BY <1>9, <1>10, <1>11, <1>12, <1>13, <1>14 DEF ThreadsInvariant

\* reset_full, with the mutex of the game state and then without one.
LEMMA ClearKeeps == ThreadsInvariant /\ Clear => ThreadsInvariant'
<1>. SUFFICES ASSUME ThreadsInvariant, Clear PROVE ThreadsInvariant'
  OBVIOUS
<1>. DEFINE label == IF mt.batch = <<>> THEN "IDLE" ELSE "FLUSHING"
            none == <<>>
            nothing == NoToken
            start == 0
            S == {"flush", "reset"} \cup Shouted
            ids == CalledOff \cup {ui.timer[u] : u \in Shouted}
            f == [v \in AllUses |-> IF v \in S THEN NoToken ELSE Holder(v)]
            shown == [u \in Uses |-> ui.shown[u] /\ u \notin Shouted]
            age == [u \in Uses |-> IF u \in Shouted THEN 0 ELSE ui.age[u]]
            timer == [u \in Uses |-> IF u \in Shouted THEN NoToken ELSE ui.timer[u]]
<1>1. /\ ui \in MainStates /\ game \in [events : Seq(EventRecords), flush : Nat, saved : People]
      /\ \A v \in AllUses : Holders[v] = Holder(v) /\ Holder(v) \in Nat
      /\ ListsFit(mt) /\ Awake(mt) /\ Held(mt, Holders) /\ Holders \in [AllUses -> Nat]
      /\ conn \in Connections(plan)
  BY TypesFit
<1>2. /\ pc.main = "CLEARING" /\ Goes(label) /\ UNCHANGED <<conn, worker, loader, plan>>
      /\ game' = [events |-> none, flush |-> nothing, saved |-> conn.who]
      /\ mt' = Cancel(mt, ids)
      /\ ui' = [ui EXCEPT !.reset = nothing, !.seen = start, !.shown = shown, !.age = age,
                          !.timer = timer]
  BY <1>1 DEF Clear, At, Emptied, MainStates
<1>3. pc' \in [main : Mains, worker : Workplaces] /\ pc'.main = label /\ pc'.worker = pc.worker
  BY <1>2, GoesFits DEF Mains
<1>4. Shouted \subseteq Uses /\ Uses \subseteq AllUses /\ S \in SUBSET AllUses
      /\ \A u \in Uses : u \notin {"flush", "reset", "image"}
  BY DEF Shouted, AllUses, Uses
<1>5. f \in [AllUses -> Nat] /\ (\A v \in S : f[v] = NoToken)
      /\ \A v \in AllUses \ S : f[v] = Holders[v]
  BY <1>1, <1>4 DEF NoToken
<1>6. (\A v \in S : Holders[v] \in ids) /\ \A i \in ids : \E v \in S : i = Holders[v]
  <2>1. /\ Holders["flush"] = game.flush /\ Holders["reset"] = ui.reset
        /\ \A u \in Uses : Holders[u] = ui.timer[u]
    BY <1>1, <1>4 DEF Holder, AllUses
  <2>. QED
    BY <1>4, <2>1 DEF CalledOff
<1>7. /\ timer \in [Uses -> Nat] /\ shown \in [Uses -> BOOLEAN] /\ age \in [Uses -> Nat]
      /\ \A u \in Uses : IF u \in Shouted THEN timer[u] = NoToken /\ ~shown[u]
                         ELSE /\ timer[u] = ui.timer[u] /\ shown[u] = ui.shown[u]
                              /\ age[u] = ui.age[u]
  BY <1>1 DEF MainStates, NoToken
<1>. HIDE DEF f, ids, timer, shown, age
<1>8. /\ Held(mt', f) /\ \A g : OfGame(mt, g) => OfGame(mt', g)
      /\ \A v \in AllUses \ S : Holders[v] # NoToken =>
           mt'.token[Holders[v]] = mt.token[Holders[v]]
  <2>1. LetsGo(Holders, S, ids, f)
    BY <1>1, <1>4, <1>5, <1>6 DEF LetsGo
  <2>. HIDE DEF S
  <2>. QED
    BY <1>1, <1>2, <2>1, CancelHeld
<1>9. ListsFit(mt') /\ Awake(mt') /\ mt'.batch = mt.batch
  BY <1>1, <1>2, CancelFits
<1>10. OfGame(mt', conn.game)
  <2>. SUFFICES ASSUME NEW i \in Ids, ~mt'.token[i].cancelled,
                       mt'.token[i].use \in {"flush", "reset"}
                PROVE  FALSE
    BY DEF OfGame
  <2>1. f[mt'.token[i].use] = i
    BY <1>8 DEF Held
  <2>. QED
    BY <1>5, <2>1 DEF Ids, NoToken
<1>11. none \in Seq(EventRecords) /\ nothing \in Nat /\ start \in Nat /\ conn.who \in People
  BY <1>1 DEF NoToken, Connections
<1>. HIDE DEF none, nothing, start
<1>12. /\ game' \in [events : Seq(EventRecords), flush : Nat, saved : People]
       /\ game'.events = none /\ game'.flush = nothing /\ game'.saved = conn.who
  BY <1>2, <1>11
<1>13. /\ ui' \in MainStates /\ ui'.reset = nothing /\ ui'.local = ui.local
       /\ ui'.asked = ui.asked /\ ui'.alive = ui.alive /\ ui'.shown = shown
       /\ ui'.age = age /\ ui'.timer = timer /\ ui'.seen = start
  BY <1>1, <1>2, <1>7, <1>11 DEF MainStates
<1>14. ui.alive /\ ui.local = <<>> /\ conn.said = 0
  BY <1>2 DEF ThreadsInvariant, MainFits, ConnFits, Freed
<1>15. TokensFit'
  <2>1. Holders' = f
    <3>1. ASSUME NEW v \in AllUses PROVE Holders'[v] = f[v]
      <4>1. CASE v \in Uses
        <5>1. Holders'[v] = timer[v] /\ Holders[v] = ui.timer[v]
          BY <1>1, <1>4, <1>13, <4>1 DEF Holders, Holder
        <5>2. v \in S <=> v \in Shouted
          BY <1>4, <4>1
        <5>. QED
          BY <1>5, <1>7, <4>1, <5>1, <5>2
      <4>2. CASE v \in {"flush", "reset"}
        BY <1>5, <1>12, <1>13, <4>2 DEF Holders, Holder, nothing
      <4>3. CASE v = "image"
        BY <1>1, <1>2, <1>4, <1>5, <4>3 DEF Holders, Holder
      <4>. QED
        BY <4>1, <4>2, <4>3 DEF AllUses
    <3>2. f = [v \in AllUses |-> f[v]] /\ Holders' = [v \in AllUses |-> Holders'[v]]
      BY <1>5 DEF Holders
    <3>. QED
      BY <3>1, <3>2, Zenon
  <2>. QED
    BY <1>2, <1>8, <1>9, <1>10, <2>1 DEF TokensFit
<1>16. label \in {"IDLE", "FLUSHING"} /\ (mt.batch # <<>> => label = "FLUSHING")
  OBVIOUS
<1>. HIDE DEF label
<1>17. ConnFits' /\ WorkerFits' /\ LoaderFits'
  BY <1>2, <1>3, <1>13, <1>16, ConnStays, WorkerStays, LoaderStays DEF ThreadsInvariant, Freed
<1>18. MainFits'
  BY <1>2, <1>3, <1>9, <1>12, <1>13, <1>14, <1>16 DEF MainFits, Workplaces, Freed, nothing
<1>19. TimesFit'
  <2>1. ASSUME NEW u \in Uses
        PROVE  IF ui'.timer[u] = NoToken THEN ~ui'.shown[u]
               ELSE ui'.shown[u] /\ ui'.age[u] + mt'.token[ui'.timer[u]].left = Duration[u]
    <3>1. CASE u \in Shouted
      BY <1>7, <1>13, <3>1
    <3>2. CASE u \notin Shouted
      <4>1. u \in AllUses \ S /\ Holders[u] = ui.timer[u]
        BY <1>1, <1>4, <3>2 DEF Holder
      <4>. QED
        BY <1>7, <1>8, <1>13, <3>2, <4>1 DEF TimesFit, ThreadsInvariant
    <3>. QED
      BY <3>1, <3>2
  <2>. QED
    BY <2>1 DEF TimesFit
<1>20. EventsFit'
  <2>1. Pending' = <<>>
    BY <1>12, <1>13, <1>14 DEF Pending, none
  <2>2. InTurn(Pending', 0, 0) /\ OfThisGame(Pending)'
    BY <2>1, NoneInTurn DEF OfThisGame
  <2>. QED
    BY <1>2, <1>13, <1>14, <2>2 DEF EventsFit, start
<1>. QED
  BY <1>15, <1>17, <1>18, <1>19, <1>20 DEF ThreadsInvariant

\* The painters go.
LEMMA FreePaintersKeeps == ThreadsInvariant /\ FreePainters => ThreadsInvariant'
<1>. SUFFICES ASSUME ThreadsInvariant, FreePainters PROVE ThreadsInvariant'
  OBVIOUS
<1>. DEFINE S == {"note"}
            ids == {ui.timer["note"]}
            f == [v \in AllUses |-> IF v \in S THEN NoToken ELSE Holder(v)]
            timer == [ui.timer EXCEPT !["note"] = NoToken]
            shown == [ui.shown EXCEPT !["note"] = FALSE]
            age == [ui.age EXCEPT !["note"] = 0]
            images == [i \in DOMAIN ui.images |->
                         IF ui.images[i] = "asked" THEN "dropped" ELSE ui.images[i]]
            l == [loader EXCEPT !.quit = TRUE]
<1>1. /\ ui \in MainStates /\ loader \in Loaders /\ (loader.at = "LOADING" => loader.slot = 0)
      /\ \A v \in AllUses : Holders[v] = Holder(v) /\ Holder(v) \in Nat
      /\ ListsFit(mt) /\ Awake(mt) /\ Held(mt, Holders) /\ Holders \in [AllUses -> Nat]
  BY TypesFit DEF ThreadsInvariant, LoaderFits, Loaders
<1>2. /\ pc.main = "IDLE" /\ Goes("UNLOADING") /\ UNCHANGED <<conn, worker, game, plan>>
      /\ mt' = Cancel(mt, ids) /\ loader' = Told(l)
      /\ ui' = [ui EXCEPT !.images = images, !.timer = timer, !.shown = shown, !.age = age]
  BY <1>1 DEF FreePainters, At, MainStates
<1>3. pc' \in [main : Mains, worker : Workplaces] /\ pc'.main = "UNLOADING" /\ pc'.worker = pc.worker
  BY <1>2, GoesFits DEF Mains
<1>4. S \in SUBSET AllUses /\ "note" \in Uses /\ Uses \subseteq AllUses
      /\ \A u \in Uses : Holder(u) = ui.timer[u] /\ Holder(u)' = ui'.timer[u]
  BY DEF AllUses, Uses, Holder
<1>5. f \in [AllUses -> Nat] /\ (\A v \in S : f[v] = NoToken)
      /\ \A v \in AllUses \ S : f[v] = Holders[v]
  BY <1>1, <1>4 DEF NoToken
<1>6. (\A v \in S : Holders[v] \in ids) /\ \A i \in ids : \E v \in S : i = Holders[v]
  BY <1>1, <1>4
<1>7. /\ timer \in [Uses -> Nat] /\ shown \in [Uses -> BOOLEAN] /\ age \in [Uses -> Nat]
      /\ \A u \in Uses : IF u \in S THEN timer[u] = NoToken /\ ~shown[u]
                         ELSE /\ timer[u] = ui.timer[u] /\ shown[u] = ui.shown[u]
                              /\ age[u] = ui.age[u]
  BY <1>1 DEF MainStates, NoToken
<1>8. images \in Seq({"asked", "shown", "dropped"})
  <2>1. ui.images \in Seq({"asked", "shown", "dropped"})
    BY <1>1 DEF MainStates
  <2>. QED
    BY <2>1
<1>. HIDE DEF f, ids, timer, shown, age, images
<1>9. /\ Held(mt', f) /\ \A g : OfGame(mt, g) => OfGame(mt', g)
      /\ \A v \in AllUses \ S : Holders[v] # NoToken =>
           mt'.token[Holders[v]] = mt.token[Holders[v]]
  <2>1. LetsGo(Holders, S, ids, f)
    BY <1>1, <1>4, <1>5, <1>6 DEF LetsGo
  <2>. HIDE DEF S
  <2>. QED
    BY <1>1, <1>2, <2>1, CancelHeld
<1>10. ListsFit(mt') /\ Awake(mt') /\ mt'.batch = mt.batch
  BY <1>1, <1>2, CancelFits
<1>11. l \in Loaders /\ l.slot = loader.slot /\ l.idle = loader.idle /\ l.at = loader.at
       /\ l.image = loader.image
  BY <1>1 DEF Loaders
<1>. HIDE DEF l
<1>12. /\ loader' \in Loaders /\ loader'.slot = l.slot /\ loader'.idle = l.idle
       /\ (loader'.at = l.at \/ loader'.at = "SIGNALLED") /\ loader'.image = l.image
  BY <1>2, <1>11, ToldFits
<1>13. /\ ui' \in MainStates /\ ui'.reset = ui.reset /\ ui'.local = ui.local
       /\ ui'.asked = ui.asked /\ ui'.alive = ui.alive /\ ui'.shown = shown
       /\ ui'.age = age /\ ui'.timer = timer /\ ui'.seen = ui.seen
  BY <1>1, <1>2, <1>7, <1>8 DEF MainStates
<1>14. ui.alive
  BY <1>2 DEF ThreadsInvariant, MainFits, Freed
<1>15. TokensFit'
  <2>1. Holders' = f
    <3>1. ASSUME NEW v \in AllUses PROVE Holders'[v] = f[v]
      <4>1. CASE v \in Uses
        BY <1>1, <1>4, <1>5, <1>7, <1>13, <4>1 DEF Holders
      <4>2. CASE v \notin Uses
        BY <1>1, <1>2, <1>4, <1>5, <1>11, <1>12, <1>13, <4>2 DEF Holders, Holder, AllUses
      <4>. QED
        BY <4>1, <4>2
    <3>2. f = [v \in AllUses |-> f[v]] /\ Holders' = [v \in AllUses |-> Holders'[v]]
      BY <1>5 DEF Holders
    <3>. QED
      BY <3>1, <3>2, Zenon
  <2>. QED
    BY <1>2, <1>9, <1>10, <2>1 DEF TokensFit, ThreadsInvariant
<1>16. ConnFits' /\ WorkerFits'
  BY <1>2, <1>3, <1>13, ConnStays, WorkerStays DEF ThreadsInvariant, Freed
<1>17. LoaderFits'
  BY <1>3, <1>11, <1>12 DEF ThreadsInvariant, LoaderFits, Loaders, Freed
<1>18. MainFits'
  BY <1>2, <1>3, <1>10, <1>13, <1>14 DEF ThreadsInvariant, MainFits, Workplaces, Freed
<1>19. TimesFit'
  <2>1. ASSUME NEW u \in Uses
        PROVE  IF ui'.timer[u] = NoToken THEN ~ui'.shown[u]
               ELSE ui'.shown[u] /\ ui'.age[u] + mt'.token[ui'.timer[u]].left = Duration[u]
    <3>1. CASE u \in S
      BY <1>7, <1>13, <3>1
    <3>2. CASE u \notin S
      <4>1. u \in AllUses \ S /\ Holders[u] = ui.timer[u]
        BY <1>1, <1>4, <3>2
      <4>. QED
        BY <1>7, <1>9, <1>13, <3>2, <4>1 DEF TimesFit, ThreadsInvariant
    <3>. QED
      BY <3>1, <3>2
  <2>. QED
    BY <2>1 DEF TimesFit
<1>20. EventsFit'
  BY <1>2, <1>3, <1>13, EventsStay DEF ThreadsInvariant
<1>. QED
  BY <1>15, <1>16, <1>17, <1>18, <1>19, <1>20 DEF ThreadsInvariant

\* The thread of the loader has ended.
LEMMA NewLoaderFits ==
  ASSUME ThreadsInvariant
  PROVE  /\ NewLoader \in Loaders /\ NewLoader.idle = NoToken /\ NewLoader.slot = 0
         /\ NewLoader.at \in {"START", "DONE"}
<1>. DEFINE none == <<>>
            at == IF plan.images = 0 THEN "DONE" ELSE "START"
<1>1. none \in Seq(Nat \ {0}) /\ at \in {"START", "DONE"} /\ NoToken \in Nat
  BY DEF NoToken
<1>2. NewLoader = [at |-> at, queue |-> none, image |-> 0, slot |-> 0, idle |-> NoToken,
                   quit |-> FALSE]
  BY DEF NewLoader
<1>. HIDE DEF none, at
<1>. QED
  BY <1>1, <1>2 DEF Loaders

LEMMA LoaderJoinedKeeps == ThreadsInvariant /\ LoaderJoined => ThreadsInvariant'
<1>. SUFFICES ASSUME ThreadsInvariant, LoaderJoined PROVE ThreadsInvariant'
  OBVIOUS
<1>. DEFINE S == {"image"}
            ids == {loader.idle}
            f == [v \in AllUses |-> IF v \in S THEN NoToken ELSE Holder(v)]
<1>1. /\ ui \in MainStates
      /\ \A v \in AllUses : Holders[v] = Holder(v) /\ Holder(v) \in Nat
      /\ ListsFit(mt) /\ Awake(mt) /\ Held(mt, Holders) /\ Holders \in [AllUses -> Nat]
  BY TypesFit
<1>2. /\ pc.main = "UNLOADING" /\ Goes("UNLOADED") /\ UNCHANGED <<conn, worker, game, ui, plan>>
      /\ mt' = Cancel(mt, ids) /\ loader' = [NewLoader EXCEPT !.at = "DONE"]
  BY DEF LoaderJoined, At
<1>3. pc' \in [main : Mains, worker : Workplaces] /\ pc'.main = "UNLOADED" /\ pc'.worker = pc.worker
  BY <1>2, GoesFits DEF Mains
<1>4. S \in SUBSET AllUses /\ Holder("image") = loader.idle /\ "image" \notin Uses
  BY DEF AllUses, Uses, Holder
<1>5. f \in [AllUses -> Nat] /\ (\A v \in S : f[v] = NoToken)
      /\ \A v \in AllUses \ S : f[v] = Holders[v]
  BY <1>1, <1>4 DEF NoToken
<1>6. (\A v \in S : Holders[v] \in ids) /\ \A i \in ids : \E v \in S : i = Holders[v]
  BY <1>1, <1>4
<1>. HIDE DEF f, ids
<1>7. /\ Held(mt', f) /\ \A g : OfGame(mt, g) => OfGame(mt', g)
      /\ \A v \in AllUses \ S : Holders[v] # NoToken =>
           mt'.token[Holders[v]] = mt.token[Holders[v]]
  <2>1. LetsGo(Holders, S, ids, f)
    BY <1>1, <1>4, <1>5, <1>6 DEF LetsGo
  <2>. HIDE DEF S
  <2>. QED
    BY <1>1, <1>2, <2>1, CancelHeld
<1>8. ListsFit(mt') /\ Awake(mt') /\ mt'.batch = mt.batch
  BY <1>1, <1>2, CancelFits
<1>9. loader' \in Loaders /\ loader'.slot = 0 /\ loader'.idle = NoToken /\ loader'.at = "DONE"
  BY <1>2, NewLoaderFits DEF Loaders
<1>10. TokensFit'
  <2>1. Holders' = f
    <3>1. \A v \in AllUses : Holders'[v] = f[v]
      BY <1>1, <1>2, <1>4, <1>5, <1>9 DEF Holders, Holder
    <3>2. f = [v \in AllUses |-> f[v]] /\ Holders' = [v \in AllUses |-> Holders'[v]]
      BY <1>5 DEF Holders
    <3>. QED
      BY <3>1, <3>2, Zenon
  <2>. QED
    BY <1>2, <1>7, <1>8, <2>1 DEF TokensFit, ThreadsInvariant
<1>11. ConnFits' /\ WorkerFits'
  BY <1>2, <1>3, ConnStays, WorkerStays DEF ThreadsInvariant, Freed
<1>12. LoaderFits'
  BY <1>9 DEF LoaderFits, Loaders
<1>13. MainFits'
  BY <1>2, <1>3, <1>8 DEF ThreadsInvariant, MainFits, Workplaces, Freed
<1>14. TimesFit'
  <2>1. \A u \in Uses : u \in AllUses \ S /\ Holder(u) = ui.timer[u]
    BY DEF AllUses, Holder, Uses
  <2>. QED
    BY <1>1, <1>2, <1>7, <2>1, TimesStay DEF ThreadsInvariant
<1>15. EventsFit'
  BY <1>2, <1>3, EventsStay DEF ThreadsInvariant
<1>. QED
  BY <1>10, <1>11, <1>12, <1>13, <1>14, <1>15 DEF ThreadsInvariant

\* New painters come, with a new loader.
LEMMA NewPaintersKeeps == ThreadsInvariant /\ NewPainters => ThreadsInvariant'
<1>. SUFFICES ASSUME ThreadsInvariant, NewPainters PROVE ThreadsInvariant'
  OBVIOUS
<1>. DEFINE losses == ui.losses + 1
<1>1. ui \in MainStates
  BY TypesFit
<1>2. /\ pc.main = "UNLOADED" /\ Goes("IDLE") /\ UNCHANGED <<conn, worker, game, mt, plan>>
      /\ loader' = NewLoader /\ ui' = [ui EXCEPT !.losses = losses]
  BY <1>1 DEF NewPainters, At, MainStates
<1>3. pc' \in [main : Mains, worker : Workplaces] /\ pc'.main = "IDLE" /\ pc'.worker = pc.worker
  BY <1>2, GoesFits DEF Mains
<1>4. losses \in Nat
  BY <1>1 DEF MainStates
<1>. HIDE DEF losses
<1>5. /\ ui' \in MainStates /\ ui'.reset = ui.reset /\ ui'.local = ui.local
      /\ ui'.asked = ui.asked /\ ui'.alive = ui.alive /\ ui'.shown = ui.shown
      /\ ui'.age = ui.age /\ ui'.timer = ui.timer /\ ui'.seen = ui.seen
  BY <1>1, <1>2, <1>4 DEF MainStates
<1>6. /\ loader' \in Loaders /\ loader'.idle = NoToken /\ loader'.slot = 0
      /\ loader'.at \in {"START", "DONE"}
  BY <1>2, NewLoaderFits
<1>7. loader.idle = NoToken
  BY <1>2 DEF ThreadsInvariant, LoaderFits
<1>8. TokensFit'
  BY <1>2, <1>3, <1>5, <1>6, <1>7, TokensStay DEF ThreadsInvariant
<1>9. ConnFits' /\ WorkerFits'
  BY <1>2, <1>3, <1>5, ConnStays, WorkerStays DEF ThreadsInvariant, Freed
<1>10. LoaderFits'
  BY <1>3, <1>6 DEF LoaderFits, Loaders, Freed
<1>11. MainFits'
  BY <1>2, <1>3, <1>5 DEF ThreadsInvariant, MainFits, Workplaces, Freed
<1>12. TimesFit'
  BY <1>2, <1>5, TimesStay DEF ThreadsInvariant
<1>13. EventsFit'
  BY <1>2, <1>3, <1>5, EventsStay DEF ThreadsInvariant
<1>. QED
  BY <1>8, <1>9, <1>10, <1>11, <1>12, <1>13 DEF ThreadsInvariant

-----------------------------------------------------------------------------
(* The main thread handles an event.                                       *)

LEMMA TailPending ==
  ASSUME NEW s \in Seq(EventRecords), s # <<>>, NEW t \in Seq(EventRecords)
  PROVE  /\ Tail(s) \o t = Tail(s \o t) /\ (s \o t)[1] = Head(s) /\ Head(s) \in EventRecords
         /\ s \o t \in Seq(EventRecords) /\ s \o t # <<>> /\ Tail(s) \in Seq(EventRecords)
         /\ Tail(s) = <<>> <=> Len(s) = 1
<1>. DEFINE r == s \o t
            a == Tail(s) \o t
            b == Tail(r)
<1>1. /\ r \in Seq(EventRecords) /\ Len(r) = Len(s) + Len(t)
      /\ Len(s) \in Nat \ {0} /\ Len(t) \in Nat
      /\ \A i \in 1..Len(r) : r[i] = IF i <= Len(s) THEN s[i] ELSE t[i - Len(s)]
      /\ Head(s) = s[1] /\ Head(s) \in EventRecords
  <2>1. Head(s) = s[1] /\ Head(s) \in EventRecords /\ Len(s) \in Nat \ {0} /\ Len(t) \in Nat
    OBVIOUS
  <2>2. r \in Seq(EventRecords) /\ Len(r) = Len(s) + Len(t)
    OBVIOUS
  <2>3. /\ \A i \in 1..Len(s) : r[i] = s[i]
        /\ \A i \in 1..Len(t) : r[Len(s) + i] = t[i]
    OBVIOUS
  <2>4. ASSUME NEW i \in 1..Len(s) + Len(t), i > Len(s) PROVE r[i] = t[i - Len(s)]
    <3>1. i - Len(s) \in 1..Len(t) /\ Len(s) + (i - Len(s)) = i
      BY <2>1, <2>4
    <3>. HIDE DEF r
    <3>. QED
      BY <2>3, <3>1
  <2>. HIDE DEF r
  <2>. QED
    BY <2>1, <2>2, <2>3, <2>4
<1>2. /\ Tail(s) \in Seq(EventRecords) /\ Len(Tail(s)) = Len(s) - 1
      /\ \A i \in 1..Len(Tail(s)) : Tail(s)[i] = s[i + 1]
      /\ Tail(s) = <<>> <=> Len(s) = 1
  <2>1. Len(s) \in Nat \ {0} /\ Tail(s) \in Seq(EventRecords) /\ Len(Tail(s)) = Len(s) - 1
    OBVIOUS
  <2>2. \A i \in 1..Len(Tail(s)) : Tail(s)[i] = s[i + 1]
    OBVIOUS
  <2>3. Tail(s) = <<>> <=> Len(Tail(s)) = 0
    BY <2>1, SMTT(30)
  <2>. QED
    BY <2>1, <2>2, <2>3
<1>3. /\ a \in Seq(EventRecords) /\ Len(a) = Len(Tail(s)) + Len(t)
      /\ \A i \in 1..Len(a) :
           a[i] = IF i <= Len(Tail(s)) THEN Tail(s)[i] ELSE t[i - Len(Tail(s))]
  BY <1>2
<1>4. r # <<>> /\ r[1] = s[1]
  BY <1>1
<1>. HIDE DEF r, a
<1>5. /\ b \in Seq(EventRecords) /\ Len(b) = Len(r) - 1
      /\ \A i \in 1..Len(b) : b[i] = r[i + 1]
  BY <1>1, <1>4
<1>. HIDE DEF b
<1>6. Len(a) = Len(b)
  BY <1>1, <1>2, <1>3, <1>5
<1>7. ASSUME NEW i \in 1..Len(a) PROVE a[i] = b[i]
  <2>1. i + 1 \in 1..Len(r) /\ i \in 1..Len(b) /\ b[i] = r[i + 1]
    BY <1>1, <1>2, <1>3, <1>5, <1>6
  <2>2. CASE i <= Len(s) - 1
    BY <1>1, <1>2, <1>3, <2>1, <2>2
  <2>3. CASE i > Len(s) - 1
    <3>1. a[i] = t[i - (Len(s) - 1)]
      BY <1>1, <1>2, <1>3, <2>3
    <3>2. b[i] = t[(i + 1) - Len(s)]
      BY <1>1, <2>1, <2>3
    <3>3. i - (Len(s) - 1) = (i + 1) - Len(s)
      BY <1>1
    <3>. QED
      BY <3>1, <3>2, <3>3
  <2>. QED
    BY <1>1, <2>2, <2>3
<1>8. a = b
  BY <1>3, <1>5, <1>6, <1>7
<1>. QED
  BY <1>1, <1>2, <1>4, <1>8 DEF a, b, r

LEMMA TailInTurn ==
  ASSUME NEW q \in Seq(EventRecords), q # <<>>, NEW seen, NEW said \in Nat, InTurn(q, seen, said)
  PROVE  InTurn(Tail(q), IF q[1].type = "running" THEN seen ELSE q[1].n, said)
<1>. DEFINE r == Tail(q)
            seen2 == IF q[1].type = "running" THEN seen ELSE q[1].n
<1>1. /\ Len(q) \in Nat \ {0} /\ Len(r) = Len(q) - 1
      /\ \A i \in 1..Len(r) : r[i] = q[i + 1] /\ i + 1 \in 1..Len(q)
      /\ r # <<>> => 1 \in 1..Len(r)
  OBVIOUS
<1>. HIDE DEF r
<1>2. ASSUME NEW i \in 1..Len(r)
      PROVE  r[i].type # "running" /\ r[i].n = said - Len(r) + i
  <2>. DEFINE j == i + 1
  <2>1. j \in 1..Len(q) /\ r[i] = q[j] /\ j # 1
    BY <1>1
  <2>2. IF q[j].type = "running" THEN j = 1 ELSE q[j].n = said - Len(q) + j
    BY <2>1 DEF InTurn
  <2>3. said - Len(q) + j = said - Len(r) + i
    BY <1>1
  <2>. HIDE DEF j
  <2>. QED
    BY <2>1, <2>2, <2>3
<1>3. \A i \in 1..Len(r) : IF r[i].type = "running" THEN i = 1 ELSE r[i].n = said - Len(r) + i
  BY <1>2
<1>4. seen2 = said - Len(r)
  <2>1. CASE q[1].type = "running"
    <3>1. seen = said - Len(q) + 1
      BY <2>1 DEF InTurn
    <3>. QED
      BY <1>1, <2>1, <3>1
  <2>2. CASE q[1].type # "running"
    <3>1. q[1].n = said - Len(q) + 1
      BY <1>1, <2>2 DEF InTurn
    <3>. QED
      BY <1>1, <2>2, <3>1
  <2>. QED
    BY <2>1, <2>2
<1>5. ~(r # <<>> /\ r[1].type = "running")
  BY <1>1, <1>2
<1>6. seen2 = said - Len(r) + (IF r # <<>> /\ r[1].type = "running" THEN 1 ELSE 0)
  BY <1>1, <1>4, <1>5
<1>. HIDE DEF seen2
<1>7. InTurn(r, seen2, said)
  BY <1>3, <1>6 DEF InTurn
<1>. QED
  BY <1>7 DEF r, seen2

\* What is shown gets a timeout of its own, in the place of the one it had.
ShownAnew(m, h, u, of) == QueueTimeout(Cancel(m, {h[u]}), u, of)
HeldAnew(m, h, u) == [h EXCEPT ![u] = NewId(m)]

LEMMA ShownFits ==
  ASSUME NEW m, ListsFit(m), Awake(m), HasRoom(m), NEW h \in [AllUses -> Nat], Held(m, h),
         NEW u \in Uses, NEW of \in Nat
  PROVE  LET new == ShownAnew(m, h, u, of) IN
         /\ ListsFit(new) /\ Awake(new) /\ new.batch = m.batch
         /\ NewId(m) \in Ids /\ Held(new, HeldAnew(m, h, u))
         /\ \A g : OfGame(m, g) => OfGame(new, g)
         /\ new.token[NewId(m)].left = Duration[u]
         /\ \A v \in AllUses : v # u /\ h[v] # NoToken => new.token[h[v]] = m.token[h[v]]
<1>. DEFINE m2 == Cancel(m, {h[u]})
            S == {u}
            ids == {h[u]}
            h2 == [h EXCEPT ![u] = NoToken]
            id == NewId(m)
            new == ShownAnew(m, h, u, of)
<1>1. u \in AllUses /\ u \notin {"flush", "reset"}
  BY DEF AllUses, Uses
<1>2. LetsGo(h, S, ids, h2)
  BY <1>1 DEF LetsGo, NoToken
<1>3. h2 \in [AllUses -> Nat] /\ h2[u] = NoToken /\ (\A v \in AllUses : v # u => h2[v] = h[v])
      /\ [h2 EXCEPT ![u] = id] = [h EXCEPT ![u] = id]
  BY <1>1 DEF NoToken
<1>. HIDE DEF h2
<1>4. /\ Held(m2, h2) /\ \A g : OfGame(m, g) => OfGame(m2, g)
      /\ \A v \in AllUses : v # u /\ h[v] # NoToken => m2.token[h[v]] = m.token[h[v]]
  <2>. HIDE DEF S, ids, m2
  <2>1. /\ Held(m2, h2) /\ \A g : OfGame(m, g) => OfGame(m2, g)
        /\ \A v \in AllUses \ S : h[v] # NoToken => m2.token[h[v]] = m.token[h[v]]
    BY <1>2, CancelHeld, SMTT(30) DEF m2, ids
  <2>. QED
    BY <2>1 DEF S
<1>5. ListsFit(m2) /\ Awake(m2) /\ m2.batch = m.batch
  BY CancelFits
<1>6. HasRoom(m2) /\ NewId(m2) = id
  <2>1. m \in MainThreads
    BY DEF ListsFit
  <2>2. m2.queue = m.queue /\ m2.timeouts = m.timeouts /\ m2.batch = m.batch
    BY <2>1 DEF Cancel, MainThreads
  <2>3. Unused(m2) = Unused(m)
    BY <2>2 DEF Unused
  <2>. QED
    BY <2>3 DEF HasRoom, NewId
<1>7. new = QueueTimeout(m2, u, of)
  BY DEF ShownAnew
<1>8. id \in Ids /\ m2.token[id].cancelled
  BY <1>5, <1>6, FreshIsCancelled
<1>. HIDE DEF m2, id, new
<1>9. /\ ListsFit(new) /\ GivenOut(m2, new, u, of) /\ Awake(new) /\ new.batch = m2.batch
      /\ new.token[id].left = Duration[u]
  BY <1>5, <1>6, <1>7, QueueTimeoutFits
<1>10. Held(new, [h2 EXCEPT ![u] = id]) /\ \A g : OfGame(m2, g) => OfGame(new, g)
  BY <1>1, <1>3, <1>4, <1>5, <1>6, <1>9, GivenOutIsHeld
<1>11. ASSUME NEW v \in AllUses, v # u, h[v] # NoToken
       PROVE  new.token[h[v]] = m.token[h[v]]
  <2>1. h[v] \in Ids /\ ~m2.token[h[v]].cancelled
    BY <1>3, <1>4, <1>11 DEF Held
  <2>2. new.token[h[v]] = m2.token[h[v]]
    BY <1>6, <1>8, <1>9, <2>1 DEF GivenOut
  <2>. QED
    BY <1>4, <1>11, <2>2
<1>12. Held(new, HeldAnew(m, h, u))
  BY <1>3, <1>10 DEF HeldAnew, id
<1>. QED
  BY <1>4, <1>5, <1>8, <1>9, <1>10, <1>11, <1>12 DEF id, new, m2

\* The end of the game is followed by a reset, once.
LEMMA EndsFits ==
  ASSUME NEW m, ListsFit(m), Awake(m), HasRoom(m), NEW h \in [AllUses -> Nat], Held(m, h),
         NEW of \in Nat, OfGame(m, of), h["reset"] = NoToken
  PROVE  LET new == QueueIdle(m, "reset", of) IN
         /\ ListsFit(new) /\ Awake(new) /\ new.batch = m.batch /\ OfGame(new, of)
         /\ NewId(m) \in Ids /\ Held(new, [h EXCEPT !["reset"] = NewId(m)])
         /\ \A v \in AllUses : h[v] # NoToken => new.token[h[v]] = m.token[h[v]]
<1>. DEFINE new == QueueIdle(m, "reset", of)
<1>1. "reset" \in AllUses /\ "reset" \in IdleUses
  BY DEF AllUses, IdleUses
<1>2. NewId(m) \in Ids /\ m.token[NewId(m)].cancelled
  BY FreshIsCancelled
<1>3. ListsFit(new) /\ GivenOut(m, new, "reset", of) /\ Awake(new) /\ new.batch = m.batch
  BY <1>1, QueueIdleFits
<1>4. Held(new, [h EXCEPT !["reset"] = NewId(m)]) /\ OfGame(new, of)
  BY <1>1, <1>3, GivenOutIsHeld
<1>5. \A v \in AllUses : h[v] # NoToken => new.token[h[v]] = m.token[h[v]]
  BY <1>2, <1>3 DEF GivenOut, Held
<1>. QED
  BY <1>2, <1>3, <1>4, <1>5

LEMMA HandleEventKeeps == ThreadsInvariant /\ HandleEvent => ThreadsInvariant'
<1>. SUFFICES ASSUME ThreadsInvariant, HandleEvent PROVE ThreadsInvariant'
  OBVIOUS
<1>. DEFINE e == Head(ui.local)
            label == IF Len(ui.local) = 1 THEN "FLUSHING" ELSE "HANDLING"
            ends == Ends(e)
            shows == Showing(e)
            m == IF ends THEN QueueIdle(mt, "reset", e.game) ELSE mt
            u == CHOOSE v \in shows : TRUE
            id == NewId(mt)
            id2 == NewId(m)
            rest == Tail(ui.local)
            seen == IF e.type = "running" THEN ui.seen ELSE e.n
            reset == IF ends THEN id ELSE ui.reset
            timer == [v \in Uses |-> IF v \in shows THEN id2 ELSE ui.timer[v]]
            shown == [v \in Uses |-> ui.shown[v] \/ v \in shows]
            age == [v \in Uses |-> IF v \in shows THEN 0 ELSE ui.age[v]]
            h == IF ends THEN [Holders EXCEPT !["reset"] = id] ELSE Holders
            f == [v \in AllUses |-> IF v \in shows THEN id2 ELSE h[v]]
<1>1. /\ ui \in MainStates /\ game \in [events : Seq(EventRecords), flush : Nat, saved : People]
      /\ ui.local \in Seq(EventRecords)
      /\ \A v \in AllUses : Holders[v] = Holder(v) /\ Holder(v) \in Nat
      /\ ListsFit(mt) /\ Awake(mt) /\ Held(mt, Holders) /\ Holders \in [AllUses -> Nat]
      /\ conn \in Connections(plan)
  BY TypesFit
<1>2. /\ pc.main = "HANDLING" /\ Goes(label) /\ UNCHANGED <<conn, worker, game, loader, plan>>
      /\ ends => HasRoom(mt)
      /\ shows # {} => HasRoom(m)
      /\ mt' = IF shows = {} THEN m ELSE QueueTimeout(Cancel(m, {ui.timer[u]}), u, e.game)
      /\ ui' = [ui EXCEPT !.local = rest, !.seen = seen, !.reset = reset, !.timer = timer,
                          !.shown = shown, !.age = age]
  BY <1>1 DEF HandleEvent, Handled, At, MainStates
<1>3. label \in {"FLUSHING", "HANDLING"} /\ (label = "HANDLING" <=> Len(ui.local) # 1)
  OBVIOUS
<1>. HIDE DEF label
<1>4. pc' \in [main : Mains, worker : Workplaces] /\ pc'.main = label /\ pc'.worker = pc.worker
  BY <1>2, <1>3, GoesFits DEF Mains
<1>5. /\ ui.alive /\ ui.local # <<>> /\ (ui.reset # NoToken => conn.game < plan.games)
      /\ InTurn(Pending, ui.seen, conn.said) /\ OfThisGame(Pending)
      /\ OfGame(mt, conn.game)
  BY <1>2 DEF ThreadsInvariant, MainFits, EventsFit, TokensFit, Freed
<1>6. /\ Pending \in Seq(EventRecords) /\ Pending # <<>> /\ Pending[1] = e
      /\ e \in EventRecords /\ rest \in Seq(EventRecords) /\ (rest = <<>> <=> Len(ui.local) = 1)
      /\ rest \o game.events = Tail(Pending)
  BY <1>1, <1>5, TailPending DEF Pending
<1>7. e.game = conn.game /\ (ends => conn.game < plan.games /\ ui.reset = NoToken)
  <2>1. 1 \in 1..Len(Pending)
    BY <1>6
  <2>. QED
    BY <1>5, <1>6, <2>1 DEF OfThisGame, Ends
<1>8. /\ shows \subseteq Uses /\ (shows # {} => u \in shows) /\ \A v \in shows : v = u
      /\ Uses \subseteq AllUses /\ "reset" \in AllUses
      /\ \A v \in Uses : v \notin {"flush", "reset", "image"}
  BY DEF Showing, AllUses, Uses
<1>9. conn.game \in Nat /\ conn.said \in Nat
  BY TypesFit DEF Connections
<1>. HIDE DEF e, ends, shows, u, id, rest
<1>10. /\ ListsFit(m) /\ Awake(m) /\ m.batch = mt.batch /\ OfGame(m, conn.game)
       /\ Held(m, h) /\ h \in [AllUses -> Nat] /\ (ends => id \in Ids)
       /\ \A v \in AllUses : Holders[v] # NoToken => m.token[Holders[v]] = mt.token[Holders[v]]
       /\ \A v \in AllUses : h[v] = IF v = "reset" /\ ends THEN id ELSE Holders[v]
  <2>1. CASE ends
    <3>1. Holders["reset"] = NoToken
      BY <1>1, <1>7, <1>8, <2>1 DEF Holder
    <3>2. m = QueueIdle(mt, "reset", conn.game) /\ h = [Holders EXCEPT !["reset"] = id]
      BY <1>7, <2>1
    <3>. HIDE DEF m, h
    <3>3. /\ ListsFit(m) /\ Awake(m) /\ m.batch = mt.batch /\ OfGame(m, conn.game)
          /\ id \in Ids /\ Held(m, h)
          /\ \A v \in AllUses : Holders[v] # NoToken => m.token[Holders[v]] = mt.token[Holders[v]]
      <4>1. /\ ListsFit(mt) /\ Awake(mt) /\ HasRoom(mt) /\ Held(mt, Holders)
            /\ OfGame(mt, conn.game)
        BY <1>1, <1>2, <1>5, <2>1
      <4>2. Holders \in [AllUses -> Nat]
        BY <1>1
      <4>. QED
        BY <1>9, <3>1, <3>2, <4>1, <4>2, EndsFits DEF id
    <3>4. h \in [AllUses -> Nat] /\ \A v \in AllUses : h[v] = IF v = "reset" THEN id ELSE Holders[v]
      <4>1. id \in Nat /\ Holders \in [AllUses -> Nat]
        BY <1>1, <3>3 DEF Ids
      <4>. QED
        BY <3>2, <4>1
    <3>. QED
      BY <2>1, <3>3, <3>4
  <2>2. CASE ~ends
    BY <1>1, <1>5, <2>2
  <2>. QED
    BY <2>1, <2>2
<1>. HIDE DEF m, h
<1>11. /\ ListsFit(mt') /\ Awake(mt') /\ mt'.batch = mt.batch /\ OfGame(mt', conn.game)
       /\ Held(mt', f) /\ (shows # {} => id2 \in Ids /\ mt'.token[id2].left = Duration[u])
       /\ f \in [AllUses -> Nat]
       /\ \A v \in AllUses \ shows : Holders[v] # NoToken =>
            mt'.token[Holders[v]] = mt.token[Holders[v]]
  <2>1. CASE shows = {}
    <3>1. mt' = m /\ f = h
      BY <1>2, <1>10, <2>1
    <3>. QED
      BY <1>10, <2>1, <3>1
  <2>2. CASE shows # {}
    <3>1. shows = {u} /\ u \in Uses /\ u \in AllUses /\ u # "reset"
      BY <1>8, <2>2
    <3>2. h[u] = ui.timer[u]
      BY <1>1, <1>8, <1>10, <3>1 DEF Holder
    <3>3. mt' = ShownAnew(m, h, u, conn.game) /\ HasRoom(m)
      BY <1>2, <1>7, <2>2, <3>2 DEF ShownAnew
    <3>4. /\ ListsFit(mt') /\ Awake(mt') /\ mt'.batch = m.batch
          /\ id2 \in Ids /\ Held(mt', [h EXCEPT ![u] = id2])
          /\ \A g : OfGame(m, g) => OfGame(mt', g)
          /\ mt'.token[id2].left = Duration[u]
          /\ \A v \in AllUses : v # u /\ h[v] # NoToken => mt'.token[h[v]] = m.token[h[v]]
      <4>1. ListsFit(m) /\ Awake(m) /\ HasRoom(m) /\ Held(m, h)
        BY <1>10, <3>3
      <4>2. h \in [AllUses -> Nat] /\ u \in Uses /\ conn.game \in Nat
        BY <1>9, <1>10, <3>1
      <4>. DEFINE new == ShownAnew(m, h, u, conn.game)
                  h2 == HeldAnew(m, h, u)
      <4>3. /\ ListsFit(new) /\ Awake(new) /\ new.batch = m.batch
            /\ NewId(m) \in Ids /\ Held(new, h2)
            /\ \A g : OfGame(m, g) => OfGame(new, g)
            /\ new.token[NewId(m)].left = Duration[u]
            /\ \A v \in AllUses : v # u /\ h[v] # NoToken => new.token[h[v]] = m.token[h[v]]
        BY <4>1, <4>2, ShownFits
      <4>. HIDE DEF new
      <4>. QED
        BY <3>3, <4>3 DEF new, HeldAnew
    <3>5. f = [h EXCEPT ![u] = id2] /\ f \in [AllUses -> Nat]
      <4>1. id2 \in Nat /\ h \in [AllUses -> Nat]
        BY <1>10, <3>4 DEF Ids
      <4>. HIDE DEF id2
      <4>. QED
        BY <3>1, <4>1
    <3>6. ASSUME NEW v \in AllUses \ shows, Holders[v] # NoToken
          PROVE  mt'.token[Holders[v]] = mt.token[Holders[v]]
      <4>1. h[v] = Holders[v]
        <5>1. ~(v = "reset" /\ ends)
          BY <1>1, <1>7, <3>6 DEF Holder
        <5>. QED
          BY <1>10, <5>1
      <4>. QED
        BY <1>10, <3>1, <3>4, <3>6, <4>1
    <3>. QED
      BY <1>10, <3>1, <3>4, <3>5, <3>6
  <2>. QED
    BY <2>1, <2>2
<1>12. /\ timer \in [Uses -> Nat] /\ shown \in [Uses -> BOOLEAN] /\ age \in [Uses -> Nat]
       /\ seen \in Nat /\ reset \in Nat
  <2>1. \A v \in Uses : v \in shows => id2 \in Nat
    BY <1>11 DEF Ids
  <2>2. ui.seen \in Nat /\ e.n \in Nat /\ ui.reset \in Nat /\ (ends => id \in Nat)
    BY <1>1, <1>6, <1>10 DEF MainStates, EventRecords, Ids
  <2>. QED
    BY <1>1, <2>1, <2>2 DEF MainStates
<1>13. /\ \A v \in Uses : IF v \in shows THEN timer[v] = id2 /\ shown[v] /\ age[v] = 0
                          ELSE timer[v] = ui.timer[v] /\ shown[v] = ui.shown[v] /\ age[v] = ui.age[v]
       /\ f = [v \in AllUses |-> f[v]]
       /\ \A v \in AllUses : f[v] = IF v \in shows THEN id2 ELSE h[v]
  BY <1>1 DEF MainStates
<1>14. reset = IF ends THEN id ELSE ui.reset
  OBVIOUS
<1>15. InTurn(Tail(Pending), seen, conn.said)
  <2>1. seen = IF Pending[1].type = "running" THEN ui.seen ELSE Pending[1].n
    BY <1>6
  <2>. HIDE DEF seen
  <2>. QED
    BY <1>5, <1>6, <1>9, <2>1, TailInTurn
<1>. HIDE DEF timer, shown, age, seen, reset, f, id2
<1>16. /\ ui' \in MainStates /\ ui'.reset = reset /\ ui'.local = rest
       /\ ui'.asked = ui.asked /\ ui'.alive = ui.alive /\ ui'.shown = shown
       /\ ui'.age = age /\ ui'.timer = timer /\ ui'.seen = seen
  BY <1>1, <1>2, <1>6, <1>12 DEF MainStates
<1>17. TokensFit'
  <2>1. Holders' = f
    <3>1. ASSUME NEW v \in AllUses PROVE Holders'[v] = f[v]
      <4>1. CASE v \in Uses
        <5>1. Holders'[v] = timer[v] /\ Holders[v] = ui.timer[v] /\ h[v] = Holders[v]
          BY <1>1, <1>8, <1>10, <1>16, <4>1 DEF Holders, Holder
        <5>. QED
          BY <1>13, <4>1, <5>1
      <4>2. CASE v = "reset"
        <5>1. Holders'[v] = reset /\ Holders[v] = ui.reset /\ v \notin shows
          BY <1>1, <1>8, <1>16, <4>2 DEF Holders, Holder
        <5>. QED
          BY <1>10, <1>13, <1>14, <4>2, <5>1
      <4>3. CASE v \in {"flush", "image"}
        <5>1. Holders'[v] = Holders[v] /\ v \notin shows
          BY <1>2, <1>8, <4>3 DEF Holders, Holder
        <5>. QED
          BY <1>10, <1>13, <4>3, <5>1
      <4>. QED
        BY <4>1, <4>2, <4>3 DEF AllUses
    <3>2. Holders' = [v \in AllUses |-> Holders'[v]]
      BY DEF Holders
    <3>. QED
      BY <1>13, <3>1, <3>2, Zenon
  <2>. QED
    BY <1>2, <1>11, <2>1 DEF TokensFit
<1>18. ConnFits' /\ WorkerFits' /\ LoaderFits'
  BY <1>2, <1>3, <1>4, <1>16, ConnStays, WorkerStays, LoaderStays DEF ThreadsInvariant, Freed
<1>19. MainFits'
  <2>1. ui'.reset # NoToken => conn.game < plan.games
    BY <1>5, <1>7, <1>14, <1>16
  <2>2. ui'.local # <<>> <=> label = "HANDLING"
    BY <1>3, <1>6, <1>16
  <2>. QED
    BY <1>2, <1>3, <1>4, <1>5, <1>11, <1>16, <2>1, <2>2
       DEF ThreadsInvariant, MainFits, Workplaces, Freed
<1>20. TimesFit'
  <2>1. ASSUME NEW v \in Uses
        PROVE  IF ui'.timer[v] = NoToken THEN ~ui'.shown[v]
               ELSE ui'.shown[v] /\ ui'.age[v] + mt'.token[ui'.timer[v]].left = Duration[v]
    <3>1. CASE v \in shows
      <4>1. v = u /\ Duration[v] \in Nat
        BY <1>8, <3>1, DurationAssumption
      <4>. QED
        BY <1>11, <1>13, <1>16, <3>1, <4>1 DEF Ids, NoToken
    <3>2. CASE v \notin shows
      <4>1. v \in AllUses \ shows /\ Holders[v] = ui.timer[v]
        BY <1>1, <1>8, <3>2 DEF Holder
      <4>. QED
        BY <1>11, <1>13, <1>16, <3>2, <4>1 DEF TimesFit, ThreadsInvariant
    <3>. QED
      BY <3>1, <3>2
  <2>. QED
    BY <2>1 DEF TimesFit
<1>21. EventsFit'
  <2>1. Pending' = Tail(Pending)
    BY <1>2, <1>6, <1>16 DEF Pending
  <2>2. \A i \in 1..Len(Tail(Pending)) : i + 1 \in 1..Len(Pending) /\ Tail(Pending)[i] = Pending[i + 1]
    BY <1>6
  <2>. DEFINE r == Tail(Pending)
  <2>3. OfThisGame(r)
    BY <1>5, <2>2 DEF OfThisGame
  <2>4. r = Pending' /\ InTurn(r, seen, conn.said)
    BY <1>15, <2>1
  <2>. HIDE DEF r
  <2>5. OfThisGame(Pending)'
    BY <1>2, <2>3, <2>4 DEF OfThisGame
  <2>. QED
    BY <1>2, <1>16, <2>4, <2>5 DEF EventsFit
<1>. QED
  BY <1>17, <1>18, <1>19, <1>20, <1>21 DEF ThreadsInvariant

-----------------------------------------------------------------------------
(* The end, and what comes after it.                                       *)

LEMMA FreeKeeps == ThreadsInvariant /\ Free => ThreadsInvariant'
<1>. SUFFICES ASSUME ThreadsInvariant, Free PROVE ThreadsInvariant'
  OBVIOUS
<1>. DEFINE none == <<>>
            nothing == NoToken
            S == {"flush", "reset"} \cup Uses
            ids == {game.flush, ui.reset} \cup {ui.timer[u] : u \in Uses}
            f == [v \in AllUses |-> IF v \in S THEN NoToken ELSE Holder(v)]
<1>1. /\ ui \in MainStates /\ game \in [events : Seq(EventRecords), flush : Nat, saved : People]
      /\ \A v \in AllUses : Holders[v] = Holder(v) /\ Holder(v) \in Nat
      /\ ListsFit(mt) /\ Awake(mt) /\ Held(mt, Holders) /\ Holders \in [AllUses -> Nat]
  BY TypesFit
<1>2. /\ pc.main = "UNLOADED" /\ Goes("STOPPING") /\ UNCHANGED <<conn, worker, loader, plan>>
      /\ game' = [game EXCEPT !.events = none, !.flush = nothing]
      /\ mt' = Cancel(mt, ids) /\ ui' = [Restful EXCEPT !.images = ui.images]
  BY DEF Free, At
<1>3. pc' \in [main : Mains, worker : Workplaces] /\ pc'.main = "STOPPING" /\ pc'.worker = pc.worker
  BY <1>2, GoesFits DEF Mains, Freed
<1>4. S \in SUBSET AllUses /\ Uses \subseteq AllUses
      /\ \A u \in Uses : u \notin {"flush", "reset", "image"}
  BY DEF AllUses, Uses
<1>5. f \in [AllUses -> Nat] /\ (\A v \in S : f[v] = NoToken)
      /\ \A v \in AllUses \ S : f[v] = Holders[v]
  BY <1>1, <1>4 DEF NoToken
<1>6. (\A v \in S : Holders[v] \in ids) /\ \A i \in ids : \E v \in S : i = Holders[v]
  <2>1. /\ Holders["flush"] = game.flush /\ Holders["reset"] = ui.reset
        /\ \A u \in Uses : Holders[u] = ui.timer[u]
    BY <1>1, <1>4 DEF Holder, AllUses
  <2>. QED
    BY <1>4, <2>1
<1>. HIDE DEF f, ids
<1>7. Held(mt', f) /\ \A g : OfGame(mt, g) => OfGame(mt', g)
  <2>1. LetsGo(Holders, S, ids, f)
    BY <1>1, <1>4, <1>5, <1>6 DEF LetsGo
  <2>. HIDE DEF S
  <2>. QED
    BY <1>1, <1>2, <2>1, CancelHeld
<1>8. ListsFit(mt') /\ Awake(mt') /\ mt'.batch = mt.batch
  BY <1>1, <1>2, CancelFits
<1>9. none \in Seq(EventRecords) /\ nothing \in Nat
  BY DEF NoToken
<1>. HIDE DEF none, nothing
<1>10. /\ game' \in [events : Seq(EventRecords), flush : Nat, saved : People]
       /\ game'.events = none /\ game'.flush = nothing
  BY <1>1, <1>2, <1>9
<1>11. /\ ui' \in MainStates /\ ui'.reset = NoToken /\ ui'.local = <<>> /\ ui'.asked = 0
       /\ ~ui'.alive /\ ui'.seen = 0
       /\ \A u \in Uses : ui'.timer[u] = NoToken /\ ~ui'.shown[u]
  <2>. DEFINE images == ui.images
  <2>1. images \in Seq({"asked", "shown", "dropped"})
    BY <1>1 DEF MainStates
  <2>2. ui' = [Restful EXCEPT !.images = images]
    BY <1>2
  <2>. DEFINE off == [u \in Uses |-> FALSE]
              zero == [u \in Uses |-> 0]
              tokens == [u \in Uses |-> NoToken]
              empty == <<>>
  <2>3. /\ off \in [Uses -> BOOLEAN] /\ zero \in [Uses -> Nat] /\ tokens \in [Uses -> Nat]
        /\ empty \in Seq(EventRecords) /\ NoToken \in Nat /\ NoAddress = 0
        /\ \A u \in Uses : tokens[u] = NoToken /\ ~off[u]
    BY DEF NoToken, NoAddress
  <2>4. Restful = [alive |-> FALSE, shown |-> off, age |-> zero, timer |-> tokens,
                   reset |-> NoToken, asked |-> NoAddress, seen |-> 0, local |-> empty,
                   images |-> empty, losses |-> 0]
    BY DEF Restful
  <2>. HIDE DEF images, off, zero, tokens
  <2>. HIDE DEF empty
  <2>5. ui' = [alive |-> FALSE, shown |-> off, age |-> zero, timer |-> tokens,
               reset |-> NoToken, asked |-> NoAddress, seen |-> 0, local |-> empty,
               images |-> images, losses |-> 0]
    BY <2>2, <2>4
  <2>6. ui' \in MainStates /\ ui'.reset = NoToken /\ ui'.local = empty /\ ui'.asked = 0
        /\ ~ui'.alive /\ ui'.seen = 0 /\ ui'.timer = tokens /\ ui'.shown = off
    BY <2>1, <2>3, <2>5 DEF MainStates
  <2>. QED
    BY <2>3, <2>6 DEF empty
<1>12. TokensFit'
  <2>1. Holders' = f
    <3>1. ASSUME NEW v \in AllUses PROVE Holders'[v] = f[v]
      <4>1. CASE v \in Uses
        BY <1>4, <1>5, <1>11, <4>1 DEF Holders, Holder
      <4>2. CASE v \in {"flush", "reset"}
        BY <1>5, <1>10, <1>11, <4>2 DEF Holders, Holder, nothing
      <4>3. CASE v = "image"
        BY <1>1, <1>2, <1>4, <1>5, <4>3 DEF Holders, Holder
      <4>. QED
        BY <4>1, <4>2, <4>3 DEF AllUses
    <3>2. f = [v \in AllUses |-> f[v]] /\ Holders' = [v \in AllUses |-> Holders'[v]]
      BY <1>5 DEF Holders
    <3>. QED
      BY <3>1, <3>2, Zenon
  <2>. QED
    BY <1>2, <1>7, <1>8, <2>1 DEF TokensFit, ThreadsInvariant
<1>13. ConnFits'
  BY <1>2, <1>3, ConnStays DEF ThreadsInvariant, Freed
<1>14. WorkerFits'
  BY <1>2, <1>3, <1>11 DEF ThreadsInvariant, WorkerFits, Freed
<1>15. LoaderFits'
  BY <1>2, <1>3, LoaderStays DEF ThreadsInvariant, Freed
<1>16. MainFits'
  BY <1>2, <1>3, <1>8, <1>10, <1>11 DEF ThreadsInvariant, MainFits, Workplaces, Freed,
                                        nothing, none
<1>17. TimesFit' /\ EventsFit'
  BY <1>11 DEF TimesFit, EventsFit
<1>. QED
  BY <1>12, <1>13, <1>14, <1>15, <1>16, <1>17 DEF ThreadsInvariant

LEMMA StopWorkerKeeps == ThreadsInvariant /\ StopWorker => ThreadsInvariant'
<1>. SUFFICES ASSUME ThreadsInvariant, StopWorker PROVE ThreadsInvariant'
  OBVIOUS
<1>. DEFINE w == [worker EXCEPT !.quit = TRUE]
<1>1. /\ pc.main = "STOPPING" /\ Goes("JOINING") /\ worker' = Wake(w)
      /\ UNCHANGED <<conn, game, mt, ui, loader, plan>>
  BY DEF StopWorker, At
<1>2. pc' \in [main : Mains, worker : Workplaces] /\ pc'.main = "JOINING" /\ pc'.worker = pc.worker
  BY <1>1, GoesFits DEF Mains, Freed
<1>3. /\ worker \in Workers /\ Informed(worker, conn.poll) /\ worker.queued = worker.pipe
      /\ pc.worker # "RESOLVING" => worker.stolen = NoAddress
      /\ ui.asked = 0
  BY <1>1 DEF ThreadsInvariant, WorkerFits, Freed
<1>4. /\ w \in Workers /\ w.queued = w.pipe /\ w.poll = worker.poll /\ w.stolen = worker.stolen
  BY <1>3 DEF Workers
<1>. HIDE DEF w
<1>5. /\ worker' \in Workers /\ worker'.queued /\ worker'.pipe /\ worker'.poll = w.poll
      /\ worker'.stolen = w.stolen
  BY <1>1, <1>4, WakeFits
<1>6. WorkerFits'
  BY <1>1, <1>2, <1>3, <1>4, <1>5 DEF WorkerFits, Freed, SleepsWell, Informed
<1>7. TokensFit'
  BY <1>1, <1>2, TokensStay DEF ThreadsInvariant
<1>8. ConnFits' /\ LoaderFits'
  BY <1>1, <1>2, ConnStays, LoaderStays DEF ThreadsInvariant, Freed
<1>9. MainFits'
  BY <1>1, <1>2 DEF ThreadsInvariant, MainFits, Workplaces, Freed
<1>10. TimesFit' /\ EventsFit'
  BY <1>1, <1>2, TimesStay, EventsStay DEF ThreadsInvariant
<1>. QED
  BY <1>6, <1>7, <1>8, <1>9, <1>10 DEF ThreadsInvariant

\* What a client begins with.
LEMMA NewConnFits ==
  ASSUME ThreadsInvariant, NEW n \in 0..plan.games
  PROVE  NewConn(n) \in Connections(plan)
<1>1. plan.events \in Nat
  BY TypesFit
<1>. QED
  BY <1>1 DEF NewConn, Connections, Nobody, People, NoAddress, ConnPolls

LEMMA NewWorkerFits ==
  /\ NewWorker \in Workers /\ NewWorker.poll = "stdin" /\ NewWorker.queued = NewWorker.pipe
  /\ NewWorker.stolen = NoAddress /\ NewWorker.toResolve = NoAddress
BY DEF NewWorker, Workers, NoAddress

LEMMA RecreateKeeps == ThreadsInvariant /\ Recreate => ThreadsInvariant'
<1>. SUFFICES ASSUME ThreadsInvariant, Recreate PROVE ThreadsInvariant'
  OBVIOUS
<1>. DEFINE n == conn.game + 1
<1>1. /\ pc.main = "JOINING" /\ conn.game < plan.games
      /\ conn' = NewConn(n) /\ worker' = NewWorker /\ loader' = NewLoader
      /\ pc' = [main |-> "BOOT", worker |-> "START"]
      /\ UNCHANGED <<game, mt, ui, plan>>
  BY DEF Recreate, Joined, At
<1>2. /\ conn.game \in Nat /\ plan.games \in Nat
      /\ \A v \in AllUses : Holders[v] = Holder(v)
      /\ ListsFit(mt) /\ Awake(mt) /\ Held(mt, Holders)
  BY TypesFit
<1>3. /\ pc' \in [main : Mains, worker : Workplaces] /\ pc'.main = "BOOT" /\ pc'.worker = "START"
  BY <1>1 DEF Mains, Workplaces
<1>4. conn' \in Connections(plan)
  BY <1>1, <1>2, NewConnFits
<1>5. /\ conn'.said = 0 /\ ~conn'.running /\ conn'.poll = "nothing" /\ conn'.address = NoAddress
  BY <1>1 DEF NewConn
<1>6. loader' \in Loaders /\ loader'.idle = NoToken /\ loader'.slot = 0 /\ loader'.at # "LOADING"
  BY <1>1, NewLoaderFits
<1>7. /\ ~ui.alive /\ game.flush = NoToken /\ ui.reset = NoToken /\ ui.asked = 0
      /\ (\A u \in Uses : ui.timer[u] = NoToken) /\ loader.idle = NoToken
  BY <1>1 DEF ThreadsInvariant, MainFits, WorkerFits, LoaderFits, Freed
<1>8. TokensFit'
  <2>1. Holders' = Holders
    BY <1>1, <1>6, <1>7 DEF Holders, Holder
  <2>2. \A v \in AllUses : Holders[v] = NoToken
    BY <1>2, <1>7 DEF Holder, AllUses
  <2>3. \A i \in Ids : mt.token[i].cancelled
    BY <1>2, <2>2 DEF Held, Ids, NoToken
  <2>4. OfGame(mt, conn'.game)
    BY <2>3 DEF OfGame
  <2>. QED
    BY <1>1, <1>2, <2>1, <2>4 DEF TokensFit
<1>9. ConnFits'
  BY <1>1, <1>3, <1>4, <1>5 DEF ThreadsInvariant, ConnFits
<1>10. WorkerFits'
  <2>1. OnItsWay(NewWorker, "START", 0, NoAddress)
    BY NewWorkerFits DEF OnItsWay, NoAddress
  <2>. QED
    BY <1>1, <1>3, <1>5, <1>7, <2>1, NewWorkerFits DEF WorkerFits, Freed, Informed
<1>11. LoaderFits'
  BY <1>3, <1>6 DEF LoaderFits, Loaders, Freed
<1>12. MainFits'
  BY <1>1, <1>3, <1>7 DEF ThreadsInvariant, MainFits, Workplaces, Freed
<1>13. TimesFit' /\ EventsFit'
  BY <1>1, <1>7, TimesStay DEF ThreadsInvariant, EventsFit
<1>. QED
  BY <1>8, <1>9, <1>10, <1>11, <1>12, <1>13 DEF ThreadsInvariant

-----------------------------------------------------------------------------
(* The loader, and time.                                                   *)

LEMMA RoundFits ==
  ASSUME NEW l \in Loaders
  PROVE  LET new == Round(l) IN
         /\ new \in Loaders /\ new.idle = l.idle /\ new.slot = l.slot
         /\ new.at = "LOADING" => new.slot = 0 /\ new.image # 0
<1>. DEFINE wanted == {i \in DOMAIN l.queue : Wanted(l.queue[i])}
            first == Min(wanted)
            none == <<>>
            image == l.queue[first]
            rest == SubSeq(l.queue, first + 1, Len(l.queue))
<1>1. l.queue \in Seq(Nat \ {0}) /\ none \in Seq(Nat \ {0})
  BY DEF Loaders
<1>2. CASE l.quit \/ l.slot # 0
  BY <1>2 DEF Round, Loaders
<1>3. CASE ~l.quit /\ l.slot = 0 /\ wanted = {}
  <2>1. Round(l) = [l EXCEPT !.at = "WAITING", !.queue = none]
    BY <1>3 DEF Round
  <2>. HIDE DEF none
  <2>. QED
    BY <1>1, <2>1 DEF Loaders
<1>4. CASE ~l.quit /\ l.slot = 0 /\ wanted # {}
  <2>1. wanted \in SUBSET Nat /\ wanted \subseteq 1..Len(l.queue)
    BY <1>1
  <2>2. \E m \in wanted : \A n \in wanted : m <= n
    BY <1>4, <2>1, LeastNatural
  <2>3. first \in wanted
    <3>. HIDE DEF wanted
    <3>. QED
      BY <2>2 DEF Min
  <2>4. Round(l) = [l EXCEPT !.at = "LOADING", !.image = image, !.queue = rest]
    BY <1>4 DEF Round, Loaders
  <2>. HIDE DEF wanted, first
  <2>5. image \in Nat \ {0}
    BY <1>1, <2>1, <2>3
  <2>6. rest \in Seq(Nat \ {0})
    BY <1>1, <2>1, <2>3
  <2>. HIDE DEF image, rest
  <2>. QED
    BY <1>4, <2>4, <2>5, <2>6 DEF Loaders
<1>. QED
  BY <1>2, <1>3, <1>4

LEMMA LoaderWakesKeeps == ThreadsInvariant /\ LoaderWakes => ThreadsInvariant'
<1>. SUFFICES ASSUME ThreadsInvariant, LoaderWakes PROVE ThreadsInvariant'
  OBVIOUS
<1>1. /\ loader.at \in {"START", "SIGNALLED"} /\ loader' = Round(loader)
      /\ UNCHANGED <<pc, conn, worker, game, mt, ui, plan>>
  BY DEF LoaderWakes
<1>2. loader \in Loaders /\ (loader.idle # NoToken <=> loader.slot # 0)
      /\ pc.main \notin {"UNLOADED"} \cup Freed
  BY <1>1 DEF ThreadsInvariant, LoaderFits, Loaders
<1>3. /\ loader' \in Loaders /\ loader'.idle = loader.idle /\ loader'.slot = loader.slot
      /\ loader'.at = "LOADING" => loader'.slot = 0 /\ loader'.image # 0
  BY <1>1, <1>2, RoundFits
<1>4. TokensFit'
  BY <1>1, <1>3, TokensStay DEF ThreadsInvariant
<1>5. ConnFits' /\ WorkerFits'
  BY <1>1, ConnStays, WorkerStays DEF ThreadsInvariant
<1>6. LoaderFits'
  BY <1>1, <1>2, <1>3 DEF LoaderFits, Loaders
<1>7. MainFits'
  BY <1>1 DEF ThreadsInvariant, MainFits
<1>8. TimesFit' /\ EventsFit'
  BY <1>1, TimesStay, EventsStay DEF ThreadsInvariant
<1>. QED
  BY <1>4, <1>5, <1>6, <1>7, <1>8 DEF ThreadsInvariant

LEMMA LoadedKeeps == ThreadsInvariant /\ Loaded => ThreadsInvariant'
<1>. SUFFICES ASSUME ThreadsInvariant, Loaded PROVE ThreadsInvariant'
  OBVIOUS
<1>. DEFINE id == NewId(mt)
            slot == loader.image
            empty == 0
            l == [loader EXCEPT !.slot = slot, !.image = empty, !.idle = id]
            h == [Holders EXCEPT !["image"] = id]
<1>1. /\ ListsFit(mt) /\ Awake(mt) /\ Held(mt, Holders) /\ Holders \in [AllUses -> Nat]
      /\ \A v \in AllUses : Holders[v] = Holder(v)
  BY TypesFit
<1>2. /\ loader.at = "LOADING" /\ HasRoom(mt) /\ mt' = QueueIdle(mt, "image", 0)
      /\ loader' = Round(l) /\ UNCHANGED <<pc, conn, worker, game, ui, plan>>
  BY DEF Loaded
<1>3. /\ loader \in Loaders /\ loader.slot = 0 /\ loader.idle = NoToken /\ slot # 0
      /\ pc.main \notin {"UNLOADED"} \cup Freed
  BY <1>2 DEF ThreadsInvariant, LoaderFits, Loaders
<1>4. id \in Ids /\ mt.token[id].cancelled
  BY <1>1, <1>2, FreshIsCancelled
<1>5. slot \in Nat /\ empty \in Nat /\ id \in Nat /\ id # NoToken
  BY <1>3, <1>4 DEF Loaders, Ids, NoToken
<1>6. "image" \in AllUses /\ "image" \in IdleUses /\ Holders["image"] = NoToken
      /\ "image" \notin Uses
  BY <1>1, <1>3 DEF AllUses, IdleUses, Holder, Uses
<1>7. ListsFit(mt') /\ GivenOut(mt, mt', "image", 0) /\ Awake(mt') /\ mt'.batch = mt.batch
  BY <1>1, <1>2, <1>6, QueueIdleFits
<1>8. Held(mt', h) /\ \A g : OfGame(mt, g) => OfGame(mt', g)
  BY <1>1, <1>2, <1>6, <1>7, GivenOutIsHeld
<1>9. \A i \in Ids : ~mt.token[i].cancelled => mt'.token[i] = mt.token[i]
  BY <1>4, <1>7 DEF GivenOut
<1>. HIDE DEF id, slot, empty
<1>10. l \in Loaders /\ l.slot = slot /\ l.idle = id
  BY <1>3, <1>5 DEF Loaders
<1>. HIDE DEF l
<1>11. /\ loader' \in Loaders /\ loader'.idle = id /\ loader'.slot = slot
       /\ loader'.at = "LOADING" => loader'.slot = 0 /\ loader'.image # 0
  BY <1>2, <1>10, RoundFits
<1>12. TokensFit'
  <2>1. Holders' = h
    <3>1. ASSUME NEW v \in AllUses PROVE Holders'[v] = h[v]
      <4>1. CASE v = "image"
        BY <1>1, <1>6, <1>11, <4>1 DEF Holders, Holder
      <4>2. CASE v # "image"
        BY <1>1, <1>2, <4>2 DEF Holders, Holder, AllUses, Uses
      <4>. QED
        BY <4>1, <4>2
    <3>2. h = [v \in AllUses |-> h[v]] /\ Holders' = [v \in AllUses |-> Holders'[v]]
      BY <1>1 DEF Holders
    <3>. HIDE DEF h
    <3>. QED
      BY <3>1, <3>2, Zenon
  <2>. QED
    BY <1>2, <1>7, <1>8, <2>1 DEF TokensFit, ThreadsInvariant
<1>13. ConnFits' /\ WorkerFits'
  BY <1>2, ConnStays, WorkerStays DEF ThreadsInvariant
<1>14. LoaderFits'
  BY <1>2, <1>3, <1>5, <1>11 DEF LoaderFits, Loaders
<1>15. MainFits'
  BY <1>2, <1>7 DEF ThreadsInvariant, MainFits
<1>16. TimesFit'
  <2>1. \A u \in Uses : u \in AllUses /\ Holders[u] = ui.timer[u]
    BY <1>1 DEF AllUses, Holder, Uses
  <2>2. \A u \in Uses : ui.timer[u] # NoToken =>
          ui.timer[u] \in Ids /\ ~mt.token[ui.timer[u]].cancelled
    BY <1>1, <2>1 DEF Held
  <2>. QED
    BY <1>2, <1>9, <2>2, TimesStay DEF ThreadsInvariant
<1>17. EventsFit'
  BY <1>2, EventsStay DEF ThreadsInvariant
<1>. QED
  BY <1>12, <1>13, <1>14, <1>15, <1>16, <1>17 DEF ThreadsInvariant

LEMMA TickKeeps == ThreadsInvariant /\ Tick => ThreadsInvariant'
<1>. SUFFICES ASSUME ThreadsInvariant, Tick PROVE ThreadsInvariant'
  OBVIOUS
<1>. DEFINE age == [u \in Uses |-> IF ui.shown[u] /\ ui.age[u] < Duration[u] THEN ui.age[u] + 1
                                   ELSE ui.age[u]]
<1>1. /\ ListsFit(mt) /\ Awake(mt) /\ Held(mt, Holders) /\ Holders \in [AllUses -> Nat]
      /\ \A v \in AllUses : Holders[v] = Holder(v)
      /\ ui \in MainStates
  BY TypesFit
<1>2. /\ mt' = Nearer(mt) /\ UNCHANGED <<pc, conn, worker, game, loader, plan>>
      /\ ui' = [ui EXCEPT !.age = age]
  BY <1>1 DEF Tick, MainStates
<1>3. /\ age \in [Uses -> Nat]
      /\ \A u \in Uses : age[u] = IF ui.shown[u] /\ ui.age[u] < Duration[u] THEN ui.age[u] + 1
                                  ELSE ui.age[u]
  BY <1>1 DEF MainStates
<1>4. \A u \in Uses : ui.age[u] \in Nat
  BY <1>1 DEF MainStates
<1>. HIDE DEF age
<1>5. /\ ui' \in MainStates /\ ui'.reset = ui.reset /\ ui'.local = ui.local
      /\ ui'.asked = ui.asked /\ ui'.alive = ui.alive /\ ui'.shown = ui.shown
      /\ ui'.age = age /\ ui'.timer = ui.timer /\ ui'.seen = ui.seen
  BY <1>1, <1>2, <1>3 DEF MainStates
<1>6. /\ ListsFit(mt') /\ Awake(mt') /\ Held(mt', Holders) /\ mt'.batch = mt.batch
      /\ \A g : OfGame(mt, g) => OfGame(mt', g)
      /\ \A i \in Ids : mt'.token[i].left = Near(mt.token[i].left) /\ mt.token[i].left \in Nat
  BY <1>1, <1>2, TickFits
<1>7. TokensFit'
  <2>1. Holders' = Holders
    BY <1>2, <1>5 DEF Holders, Holder
  <2>. QED
    BY <1>2, <1>6, <2>1 DEF TokensFit, ThreadsInvariant
<1>8. ConnFits' /\ WorkerFits' /\ LoaderFits'
  BY <1>2, <1>5, ConnStays, WorkerStays, LoaderStays DEF ThreadsInvariant
<1>9. MainFits'
  BY <1>2, <1>5, <1>6 DEF ThreadsInvariant, MainFits
<1>10. TimesFit'
  <2>. SUFFICES ASSUME NEW u \in Uses
                PROVE  IF ui.timer[u] = NoToken THEN ~ui.shown[u]
                       ELSE ui.shown[u] /\ age[u] + mt'.token[ui.timer[u]].left = Duration[u]
    BY <1>5 DEF TimesFit
  <2>1. CASE ui.timer[u] = NoToken
    BY <2>1 DEF TimesFit, ThreadsInvariant
  <2>2. CASE ui.timer[u] # NoToken
    <3>. DEFINE left == mt.token[ui.timer[u]].left
                left2 == mt'.token[ui.timer[u]].left
    <3>1. u \in AllUses /\ Holders[u] = ui.timer[u]
      BY <1>1 DEF AllUses, Holder, Uses
    <3>2. ui.timer[u] \in Ids
      BY <1>1, <2>2, <3>1 DEF Held
    <3>3. left \in Nat /\ left2 = Near(left)
      BY <1>6, <3>2
    <3>4. ui.shown[u] /\ ui.age[u] + left = Duration[u]
      BY <2>2 DEF TimesFit, ThreadsInvariant
    <3>. HIDE DEF left, left2
    <3>5. age[u] + left2 = Duration[u]
      <4>1. Duration[u] \in Nat /\ ui.age[u] \in Nat
        BY <1>4, <3>3, <3>4
      <4>2. CASE left = 0
        <5>1. left2 = 0 /\ age[u] = ui.age[u]
          BY <1>3, <3>3, <3>4, <4>1, <4>2 DEF Near
        <5>. QED
          BY <3>4, <4>1, <4>2, <5>1
      <4>3. CASE left > 0
        <5>1. left2 = left - 1 /\ age[u] = ui.age[u] + 1
          BY <1>3, <3>3, <3>4, <4>1, <4>3 DEF Near
        <5>. QED
          BY <3>3, <3>4, <4>1, <5>1
      <4>. QED
        BY <3>3, <4>2, <4>3
    <3>. QED
      BY <2>2, <3>4, <3>5 DEF left2
  <2>. QED
    BY <2>1, <2>2
<1>11. EventsFit'
  BY <1>2, <1>5, EventsStay DEF ThreadsInvariant
<1>. QED
  BY <1>7, <1>8, <1>9, <1>10, <1>11 DEF ThreadsInvariant

-----------------------------------------------------------------------------
(* The invariant holds.                                                    *)

LEMMA NextKeeps == ThreadsInvariant /\ [Next]_vars => ThreadsInvariant'
<1>. SUFFICES ASSUME ThreadsInvariant, [Next]_vars PROVE ThreadsInvariant'
  OBVIOUS
<1>1. CASE Worker
  BY <1>1, WorkerStartsKeeps, PollReturnsKeeps, WorkerWakesKeeps, WorkerGoesRoundKeeps,
     ResolvedKeeps DEF Worker
<1>2. CASE Player
  BY <1>2, QueueAddressKeeps, SetPlayerNameKeeps, CommandKeeps, ResetByPlayerKeeps,
     LoadImageKeeps, CancelImageKeeps, FreePaintersKeeps DEF Player
<1>3. CASE Main
  BY <1>3, ListenKeeps, SetRunningKeeps, ResetOnIdleKeeps, ClearKeeps, FlushKeeps,
     SkipCancelledKeeps, TakeEventsKeeps, TakeDownKeeps, StartResetKeeps, TakeImageKeeps,
     FlushDoneKeeps, HandleEventKeeps, LoaderJoinedKeeps, NewPaintersKeeps, FreeKeeps,
     StopWorkerKeeps, StopTimerKeeps, ExitKeeps DEF Main
<1>4. CASE Timer \/ Loader
  BY <1>4, TimerStartsKeeps, TimerWakesKeeps, LoaderWakesKeeps, LoadedKeeps DEF Timer, Loader
<1>5. CASE Interrupted \/ Emit \/ DelayPasses \/ Recreate \/ Tick
  BY <1>5, InterruptedKeeps, EmitKeeps, DelayPassesKeeps, RecreateKeeps, TickKeeps
<1>6. CASE Exited \/ UNCHANGED vars
  <2>1. UNCHANGED vars
    BY <1>6 DEF Exited, vars
  <2>. QED
    BY <2>1, StaysStill
<1>. QED
  BY <1>1, <1>2, <1>3, <1>4, <1>5, <1>6 DEF Next

LEMMA InitFits == Init => ThreadsInvariant
<1>. SUFFICES ASSUME Init PROVE ThreadsInvariant
  OBVIOUS
<1>. DEFINE none == <<>>
            tokens == [i \in Ids |-> Blank]
            first == 1
<1>1. /\ plan \in Plans /\ pc = [main |-> "BOOT", worker |-> "START"]
      /\ conn = NewConn(0) /\ worker = NewWorker /\ ui = Restful /\ loader = NewLoader
      /\ game = [events |-> none, flush |-> NoToken, saved |-> Nobody]
      /\ mt = [queue |-> none, timeouts |-> none, woken |-> FALSE, token |-> tokens,
               batch |-> none, next |-> first, timer |-> "NONE", until |-> Never, ending |-> FALSE]
  BY DEF Init
<1>2. plan.games \in Nat /\ plan.events \in Nat
  BY <1>1, PlansAssumption
<1>3. /\ none \in Seq(Ids) /\ none \in Seq(EventRecords) /\ ToSet(none) = {} /\ Once(none)
      /\ Len(none) = 0 /\ none = <<>> /\ first \in Nat \ {0}
  BY DEF ToSet, Once
<1>4. /\ tokens \in [Ids -> Tokens]
      /\ \A i \in Ids : tokens[i].cancelled
  BY DEF Blank, Tokens
<1>. HIDE DEF none, tokens, first
<1>5. ListsFit(mt) /\ Awake(mt) /\ \A i \in Ids : mt.token[i].cancelled
  <2>1. /\ mt \in MainThreads /\ mt.queue = none /\ mt.timeouts = none /\ mt.batch = none
        /\ mt.token = tokens /\ mt.next = first /\ mt.timer = "NONE"
    BY <1>1, <1>3, <1>4 DEF MainThreads
  <2>2. Sorted(mt.timeouts, mt.token)
    BY <1>3, <2>1 DEF Sorted
  <2>3. mt.next <= Len(mt.batch) + 1
    BY <1>3, <2>1 DEF first
  <2>4. ListsFit(mt)
    BY <1>3, <1>4, <2>1, <2>2, <2>3 DEF ListsFit
  <2>5. Awake(mt)
    BY <1>3, <2>1 DEF Awake
  <2>. QED
    BY <1>4, <2>1, <2>4, <2>5
<1>. DEFINE off == [u \in Uses |-> FALSE]
            zero == [u \in Uses |-> 0]
            timers == [u \in Uses |-> NoToken]
            images == <<>>
<1>6. /\ off \in [Uses -> BOOLEAN] /\ zero \in [Uses -> Nat] /\ timers \in [Uses -> Nat]
      /\ images \in Seq({"asked", "shown", "dropped"}) /\ NoToken \in Nat /\ NoAddress = 0
      /\ \A u \in Uses : timers[u] = NoToken /\ ~off[u]
  BY DEF NoToken, NoAddress
<1>7. ui = [alive |-> FALSE, shown |-> off, age |-> zero, timer |-> timers,
            reset |-> NoToken, asked |-> NoAddress, seen |-> 0, local |-> none,
            images |-> images, losses |-> 0]
  BY <1>1 DEF Restful, none
<1>. HIDE DEF off, zero, timers, images
<1>8. /\ ui \in MainStates /\ ~ui.alive /\ ui.reset = NoToken /\ ui.seen = 0 /\ ui.asked = 0
      /\ ui.local = <<>> /\ ui.timer = timers /\ ui.shown = off
  BY <1>3, <1>6, <1>7 DEF MainStates
<1>9. /\ NewLoader \in Loaders /\ NewLoader.idle = NoToken /\ NewLoader.slot = 0
      /\ NewLoader.at \in {"START", "DONE"}
  <2>. DEFINE at == IF plan.images = 0 THEN "DONE" ELSE "START"
              empty == <<>>
  <2>1. empty \in Seq(Nat \ {0}) /\ at \in {"START", "DONE"}
    OBVIOUS
  <2>2. NewLoader = [at |-> at, queue |-> empty, image |-> 0, slot |-> 0, idle |-> NoToken,
                     quit |-> FALSE]
    BY DEF NewLoader
  <2>. HIDE DEF empty, at
  <2>. QED
    BY <1>6, <2>1, <2>2 DEF Loaders
<1>10. Nobody \in People /\ conn \in Connections(plan) /\ conn.said = 0 /\ ~conn.running
       /\ conn.poll = "nothing" /\ conn.address = NoAddress
  BY <1>1, <1>2 DEF NewConn, Connections, Nobody, People, NoAddress, ConnPolls
<1>11. TokensFit
  <2>1. \A v \in AllUses : Holders[v] = NoToken
    BY <1>1, <1>6, <1>8, <1>9 DEF Holders, Holder, AllUses
  <2>2. Held(mt, Holders) /\ OfGame(mt, conn.game)
    BY <1>5, <2>1 DEF Held, OfGame
  <2>. QED
    BY <1>5, <2>2 DEF TokensFit
<1>12. ConnFits
  BY <1>1, <1>10 DEF ConnFits
<1>13. WorkerFits
  <2>1. OnItsWay(NewWorker, "START", 0, NoAddress)
    BY NewWorkerFits DEF OnItsWay, NoAddress
  <2>. QED
    BY <1>1, <1>8, <1>10, <2>1, NewWorkerFits DEF WorkerFits, Freed, Informed
<1>14. LoaderFits
  BY <1>1, <1>9 DEF LoaderFits, Loaders, Freed
<1>15. MainFits
  <2>1. game \in [events : Seq(EventRecords), flush : Nat, saved : People]
        /\ game.events = none /\ game.flush = NoToken
    BY <1>1, <1>3, <1>6, <1>10
  <2>. QED
    BY <1>1, <1>3, <1>6, <1>8, <2>1 DEF MainFits, Mains, Workplaces, Freed
<1>16. TimesFit /\ EventsFit
  BY <1>6, <1>8 DEF TimesFit, EventsFit
<1>. QED
  BY <1>11, <1>12, <1>13, <1>14, <1>15, <1>16 DEF ThreadsInvariant

LEMMA ThreadsInvariantHolds == Spec => []ThreadsInvariant
BY InitFits, NextKeeps, PTL DEF Spec

-----------------------------------------------------------------------------
(* What the runs check follows.                                            *)

LEMMA TokensFollow ==
  ASSUME ThreadsInvariant
  PROVE  TokensAreHeld
<1>1. /\ ListsFit(mt) /\ Held(mt, Holders) /\ Holders \in [AllUses -> Nat]
      /\ \A use \in AllUses : Holders[use] = Holder(use)
  BY TypesFit
<1>2. /\ Holder("flush") = game.flush /\ Holder("reset") = ui.reset
      /\ Holder("image") = loader.idle /\ \A u \in Uses : Holder(u) = ui.timer[u]
      /\ AllUses = {"flush", "reset", "image"} \cup Uses
  BY DEF Holder, AllUses, Uses
<1>3. Pointers = {Holders[use] : use \in AllUses} \ {NoToken}
  <2>1. {Holders[use] : use \in AllUses}
          = {game.flush, ui.reset, loader.idle} \cup {ui.timer[u] : u \in Uses}
    BY <1>1, <1>2, ZenonT(40)
  <2>. QED
    BY <2>1 DEF Pointers
<1>4. Live = {i \in Ids : ~mt.token[i].cancelled}
  <2>1. Waiting \subseteq Ids
    <3>1. mt \in MainThreads
      BY <1>1 DEF ListsFit
    <3>2. /\ ToSet(mt.queue) \subseteq Ids /\ ToSet(mt.timeouts) \subseteq Ids
          /\ ToCome(mt) \subseteq Ids
      BY <3>1, MainThreadFields
    <3>. QED
      BY <3>2 DEF Waiting, ToCome
  <2>2. \A i \in Ids : ~mt.token[i].cancelled => i \in Waiting
    BY <1>1 DEF ListsFit, Waiting, ToCome
  <2>. QED
    BY <2>1, <2>2 DEF Live
<1>5. Live = Pointers
  <2>1. ASSUME NEW i \in Live PROVE i \in Pointers
    <3>1. i \in Ids /\ ~mt.token[i].cancelled
      BY <1>4, <2>1
    <3>2. mt.token[i].use \in AllUses /\ Holders[mt.token[i].use] = i /\ i # NoToken
      BY <1>1, <3>1 DEF Held, Ids, NoToken
    <3>. QED
      BY <1>3, <3>2
  <2>2. ASSUME NEW i \in Pointers PROVE i \in Live
    BY <1>1, <1>3, <1>4, <2>2 DEF Held
  <2>. QED
    BY <2>1, <2>2
<1>6. /\ game.flush # NoToken => mt.token[game.flush].use = "flush" /\ game.events # <<>>
      /\ ui.reset # NoToken => mt.token[ui.reset].use = "reset"
      /\ loader.idle # NoToken => mt.token[loader.idle].use = "image"
      /\ \A u \in Uses : ui.timer[u] # NoToken => mt.token[ui.timer[u]].use = u
  <2>1. game.flush # NoToken => game.events # <<>>
    BY DEF ThreadsInvariant, MainFits
  <2>2. \A use \in AllUses : Holders[use] # NoToken => mt.token[Holders[use]].use = use
    BY <1>1 DEF Held
  <2>3. \A use \in AllUses : Holder(use) # NoToken => mt.token[Holder(use)].use = use
    BY <1>1, <2>2
  <2>4. \A u \in Uses : ui.timer[u] # NoToken => mt.token[ui.timer[u]].use = u
    BY <1>2, <2>3
  <2>. QED
    BY <1>2, <2>1, <2>3, <2>4
<1>7. \A u \in Uses : IF ui.timer[u] = NoToken THEN ~ui.shown[u] ELSE ui.shown[u]
  BY DEF ThreadsInvariant, TimesFit
<1>8. pc.main # "CLEARING" => OfGame(mt, conn.game)
  BY DEF ThreadsInvariant, TokensFit
<1>. QED
  BY <1>4, <1>5, <1>6, <1>7, <1>8 DEF TokensAreHeld, OfGame

LEMMA ThreadTypesFollow ==
  ASSUME ThreadsInvariant
  PROVE  ThreadsTypeOK
<1>1. /\ ListsFit(mt) /\ Held(mt, Holders) /\ Holders["image"] = loader.idle
      /\ conn \in Connections(plan) /\ pc \in [main : Mains, worker : Workplaces]
      /\ mt \in MainThreads
  BY TypesFit DEF Holder, AllUses, Uses, ListsFit
<1>2. /\ mt.queue \in Seq(Ids) /\ mt.timeouts \in Seq(Ids) /\ mt.batch \in Seq(Ids)
      /\ mt.next \in Nat \ {0} /\ mt.timer \in {"NONE", "STARTING", "WAITING", "SIGNALLED", "DONE"}
  BY <1>1, MainThreadFields
<1>3. IsInjective(mt.queue \o mt.timeouts \o mt.batch)
  <2>. DEFINE s == mt.queue \o mt.timeouts
              t == s \o mt.batch
  <2>1. s \in Seq(Ids) /\ ToSet(s) = ToSet(mt.queue) \cup ToSet(mt.timeouts) /\ Once(s)
    BY <1>1, <1>2, JoinFits DEF ListsFit
  <2>. HIDE DEF s
  <2>2. t \in Seq(Ids) /\ Once(t)
    BY <1>1, <1>2, <2>1, JoinFits DEF ListsFit
  <2>. HIDE DEF t
  <2>3. DOMAIN t = 1..Len(t)
    BY <2>2
  <2>4. IsInjective(t)
    BY <2>2, <2>3 DEF IsInjective, Once
  <2>. QED
    BY <2>4 DEF s, t
<1>4. \A i, j \in DOMAIN mt.timeouts :
        i < j => mt.token[mt.timeouts[i]].left <= mt.token[mt.timeouts[j]].left
  <2>1. DOMAIN mt.timeouts = 1..Len(mt.timeouts)
    BY <1>2
  <2>. QED
    BY <1>1, <2>1 DEF ListsFit, Sorted
<1>5. Calling("image") => loader.slot # 0
  <2>. DEFINE id == mt.batch[mt.next]
  <2>. SUFFICES ASSUME Calling("image") PROVE loader.slot # 0
    OBVIOUS
  <2>1. mt.next <= Len(mt.batch) /\ ~mt.token[id].cancelled /\ mt.token[id].use = "image"
    BY DEF Calling, Called
  <2>2. id \in Ids
    BY <1>2, <2>1
  <2>. HIDE DEF id
  <2>3. loader.idle = id /\ id # NoToken
    BY <1>1, <2>1, <2>2 DEF Held, Ids, NoToken
  <2>. QED
    BY <2>3 DEF ThreadsInvariant, LoaderFits
<1>6. loader.at = "LOADING" => loader.slot = 0 /\ loader.idle = NoToken
  BY DEF ThreadsInvariant, LoaderFits
<1>. QED
  BY <1>1, <1>2, <1>3, <1>4, <1>5, <1>6
  DEF ThreadsTypeOK, Mains, Freed, Workplaces, Connections

LEMMA NothingIsMissedFollows ==
  ASSUME ThreadsInvariant
  PROVE  NothingIsMissed
<1>1. NobodySleepsThrough
  <2>1. WorkerFits /\ Awake(mt)
    BY DEF ThreadsInvariant, TokensFit
  <2>2. Informed(worker, conn.poll) /\ (pc.worker = "POLLING" => SleepsWell(worker))
    BY <2>1 DEF WorkerFits
  <2>. QED
    BY <2>1, <2>2 DEF NobodySleepsThrough, Awake, Informed, SleepsWell
<1>2. TheLastAddressCounts
  <2>1. ui.alive => pc.main \notin Freed
    BY DEF ThreadsInvariant, MainFits
  <2>2. ui.alive => OnItsWay(worker, pc.worker, ui.asked, conn.address)
    BY <2>1 DEF ThreadsInvariant, WorkerFits
  <2>. QED
    BY <2>2 DEF TheLastAddressCounts, OnItsWay
<1>3. SavedIsCurrent
  BY DEF ThreadsInvariant, MainFits, SavedIsCurrent
<1>. QED
  BY <1>1, <1>2, <1>3 DEF NothingIsMissed

\* Whatever the order of the threads' steps: each token is in one list once, the
\* timeouts are in order of their time, the callbacks that still wait are those
\* that the game state, the painters and the loader hold a token of, and the image
\* that the main thread comes for is there.
THEOREM ThreadsAreSound == Spec => []ThreadsSound
<1>1. ThreadsInvariant => ThreadsSound
  BY TokensFollow, ThreadTypesFollow DEF ThreadsSound
<1>. QED
  BY <1>1, ThreadsInvariantHolds, PTL

\* No thread sleeps through what it has to do: the byte in the worker's pipe, the
\* flag of the main thread and the condition of the timeout thread are never
\* behind what they stand for; and the address and the identity given last count.
THEOREM NothingIsMissedHolds == Spec => []NothingIsMissed
<1>1. ThreadsInvariant => NothingIsMissed
  BY NothingIsMissedFollows
<1>. QED
  BY <1>1, ThreadsInvariantHolds, PTL

\* What a step takes down: the only reasons that NotCutShort allows.
TakenDown(u) ==
  \/ ui.age[u] = Duration[u] \/ (u = "shout" /\ pc.main = "CLEARING")
  \/ (u = "note" /\ pc.main' = "UNLOADING") \/ ~ui'.alive

LEMMA StaysShown ==
  ASSUME ThreadsInvariant, Next
  PROVE  ui'.shown = ui.shown \/ \A u \in Uses : ui.shown[u] /\ ~ui'.shown[u] => TakenDown(u)
<1>1. /\ ui \in MainStates /\ pc \in [main : Mains, worker : Workplaces]
      /\ ui.shown \in [Uses -> BOOLEAN]
  BY TypesFit DEF MainStates
<1>2. CASE Worker \/ Interrupted \/ Emit \/ DelayPasses \/ Exited \/ Timer \/ Loader \/ Recreate
  BY <1>2 DEF Worker, WorkerStarts, PollReturns, WorkerWakes, WorkerGoesRound, Resolved,
     Interrupted, Emit, DelayPasses, Exited, Timer, TimerStarts, TimerWakes, Loader,
     LoaderWakes, Loaded, Recreate
<1>3. CASE Tick
  BY <1>1, <1>3 DEF Tick, MainStates
<1>4. CASE Player
  <2>1. CASE SetPlayerName \/ Command \/ ResetByPlayer
    BY <2>1 DEF SetPlayerName, Command, ResetByPlayer, ResetConnection
  <2>2. CASE QueueAddress
    BY <1>1, <2>2 DEF QueueAddress, MainStates
  <2>3. CASE LoadImage
    BY <1>1, <2>3 DEF LoadImage, MainStates
  <2>4. CASE CancelImage
    BY <1>1, <2>4 DEF CancelImage, MainStates
  <2>5. CASE FreePainters
    <3>1. \A u \in Uses : u # "note" => ui'.shown[u] = ui.shown[u]
      BY <1>1, <2>5 DEF FreePainters, MainStates
    <3>2. pc'.main = "UNLOADING"
      BY <1>1, <2>5 DEF FreePainters, Goes
    <3>. QED
      BY <3>1, <3>2 DEF TakenDown
  <2>. QED
    BY <1>4, <2>1, <2>2, <2>3, <2>4, <2>5 DEF Player
<1>5. CASE Main
  <2>1. CASE SetRunning \/ ResetOnIdle \/ Flush \/ SkipCancelled \/ FlushDone \/ LoaderJoined
             \/ StopWorker \/ StopTimer \/ Exit
    BY <2>1 DEF SetRunning, ResetOnIdle, ResetConnection, Flush, SkipCancelled, FlushDone,
       LoaderJoined, StopWorker, StopTimer, Exit
  <2>2. CASE Listen
    BY <1>1, <2>2 DEF Listen, MainStates
  <2>3. CASE Clear
    <3>1. \A u \in Uses : ui.shown[u] /\ ~ui'.shown[u] => u \in Shouted
      BY <1>1, <2>3 DEF Clear, MainStates
    <3>2. pc.main = "CLEARING"
      BY <2>3 DEF Clear, At
    <3>. QED
      BY <3>1, <3>2 DEF TakenDown, Shouted
  <2>4. CASE TakeEvents
    BY <1>1, <2>4 DEF TakeEvents, MainStates
  <2>5. CASE \E u \in Uses : TakeDown(u)
    <3>1. PICK u \in Uses : TakeDown(u)
      BY <2>5
    <3>2. ui.age[u] = Duration[u]
      BY <3>1, TakeDownKeeps
    <3>3. \A v \in Uses : v # u => ui'.shown[v] = ui.shown[v]
      BY <1>1, <3>1 DEF TakeDown, MainStates
    <3>. QED
      BY <3>2, <3>3 DEF TakenDown
  <2>6. CASE StartReset
    BY <1>1, <2>6 DEF StartReset, MainStates
  <2>7. CASE TakeImage
    BY <1>1, <2>7 DEF TakeImage, MainStates
  <2>8. CASE HandleEvent
    <3>. DEFINE e == Head(ui.local)
    <3>1. Handled(e)
      BY <2>8 DEF HandleEvent
    <3>. HIDE DEF e
    <3>2. \A u \in Uses : ui.shown[u] => ui'.shown[u]
      BY <1>1, <3>1 DEF Handled, MainStates
    <3>. QED
      BY <3>2
  <2>9. CASE NewPainters
    BY <1>1, <2>9 DEF NewPainters, MainStates
  <2>10. CASE Free
    BY <2>10 DEF Free, Restful, TakenDown
  <2>. QED
    BY <1>5, <2>1, <2>2, <2>3, <2>4, <2>5, <2>6, <2>7, <2>8, <2>9, <2>10 DEF Main
<1>. QED
  BY <1>2, <1>3, <1>4, <1>5, Zenon DEF Next

\* What is shown anew lasts its whole time again, though its earlier timeout may
\* be on its way to the main thread already.
THEOREM NotCutShortHolds == Spec => NotCutShort
<1>1. ThreadsInvariant /\ [Next]_vars =>
        [\A u \in Uses : ui.shown[u] /\ ~ui'.shown[u] =>
           ui.age[u] = Duration[u] \/ (u = "shout" /\ pc.main = "CLEARING")
             \/ (u = "note" /\ pc.main' = "UNLOADING") \/ ~ui'.alive]_vars
  BY StaysShown DEF TakenDown
<1>. QED
  BY <1>1, ThreadsInvariantHolds, PTL DEF Spec, NotCutShort

-----------------------------------------------------------------------------
(* The events are delivered: every step is one of the abstract channel.    *)

Numbered(g, n) == [i \in 1..n |-> <<g, i>>]
SentNow == IF ui.alive THEN Numbered(conn.game, conn.said) ELSE <<>>
TakenNow == IF ui.alive /\ pc.main # "CLEARING" THEN Numbered(conn.game, ui.seen) ELSE <<>>

\* A bound of the plans bounds what is planned.
LEMMA HasMost ==
  ASSUME NEW f \in [Plans -> Nat], plan \in Plans
  PROVE  LET S == {f[p] : p \in Plans} IN Max(S) \in Nat /\ f[plan] <= Max(S)
<1>. DEFINE S == {f[p] : p \in Plans}
<1>1. PICK k \in Nat : ExistsSurjection(1..k, Plans)
  BY PlansAssumption, FS_NatSurjection
<1>2. PICK g \in [1..k -> Plans] : \A p \in Plans : \E i \in 1..k : g[i] = p
  BY <1>1 DEF ExistsSurjection, Surjection
<1>. DEFINE v == [i \in 1..k |-> f[g[i]]]
<1>3. /\ v \in [1..k -> Nat] /\ S = {v[i] : i \in 1..k} /\ k # 0
  <2>1. \A i \in 1..k : v[i] = f[g[i]] /\ g[i] \in Plans
    BY <1>2
  <2>2. \A i \in 1..k : v[i] \in Nat /\ v[i] \in S
    BY <2>1
  <2>3. \A p \in Plans : \E i \in 1..k : f[p] = v[i]
    BY <1>2, <2>1
  <2>4. v = [i \in 1..k |-> v[i]]
    BY <2>1
  <2>. HIDE DEF v
  <2>5. v \in [1..k -> Nat]
    BY <2>2, <2>4
  <2>6. k # 0
    BY <1>2
  <2>7. S = {v[i] : i \in 1..k}
    <3>1. ASSUME NEW y \in S PROVE y \in {v[i] : i \in 1..k}
      <4>1. PICK p \in Plans : y = f[p]
        BY <3>1
      <4>2. PICK i \in 1..k : f[p] = v[i]
        BY <2>3
      <4>. QED
        BY <4>1, <4>2
    <3>2. ASSUME NEW y \in {v[i] : i \in 1..k} PROVE y \in S
      <4>. HIDE DEF S
      <4>. QED
        BY <2>2
    <3>. HIDE DEF S
    <3>. QED
      BY <3>1, <3>2
  <2>. QED
    BY <2>5, <2>6, <2>7
<1>. HIDE DEF v
<1>4. \E m \in 1..k : \A i \in 1..k : v[i] <= v[m]
  <2>. DEFINE Good(n) == \E m \in 1..n : \A i \in 1..n : v[i] <= v[m]
              T == {n \in Nat : n = 0 \/ n > k \/ Good(n)}
  <2>1. 0 \in T
    OBVIOUS
  <2>2. ASSUME NEW n \in T PROVE n + 1 \in T
    <3>. SUFFICES ASSUME n + 1 <= k PROVE Good(n + 1)
      OBVIOUS
    <3>0. n \in Nat /\ n + 1 \in 1..k /\ v[n + 1] \in Nat
      BY <1>3
    <3>1. CASE n = 0
      <4>1. \A i \in 1..n + 1 : i = n + 1
        BY <3>1
      <4>2. n + 1 \in 1..n + 1 /\ v[n + 1] <= v[n + 1]
        BY <3>0
      <4>3. \A i \in 1..n + 1 : v[i] <= v[n + 1]
        BY <4>1, <4>2
      <4>. QED
        BY <4>2, <4>3
    <3>2. CASE n # 0
      <4>1. PICK m \in 1..n : \A i \in 1..n : v[i] <= v[m]
        BY <3>0, <3>2
      <4>2. m \in 1..k /\ v[m] \in Nat /\ \A i \in 1..n : v[i] \in Nat
        BY <1>3, <3>0
      <4>3. \A i \in 1..n + 1 : i \in 1..n \/ i = n + 1
        BY <3>0
      <4>4. CASE v[m] <= v[n + 1]
        <5>1. \A i \in 1..n : v[i] <= v[n + 1]
          BY <3>0, <4>1, <4>2, <4>4
        <5>2. n + 1 \in 1..n + 1 /\ v[n + 1] <= v[n + 1]
          BY <3>0
        <5>. QED
          BY <4>3, <5>1, <5>2
      <4>5. CASE ~(v[m] <= v[n + 1])
        <5>1. v[n + 1] <= v[m] /\ m \in 1..n + 1
          BY <3>0, <4>2, <4>5
        <5>. QED
          BY <4>1, <4>3, <5>1
      <4>. QED
        BY <4>4, <4>5
    <3>. QED
      BY <3>1, <3>2
  <2>3. T = Nat
    <3>. HIDE DEF T
    <3>1. T \in SUBSET Nat
      BY DEF T
    <3>. QED
      BY <2>1, <2>2, <3>1, SetInduction
  <2>4. Good(k)
    <3>1. k \in T
      BY <2>3
    <3>2. k # 0 /\ ~(k > k)
      BY <1>3
    <3>. HIDE DEF Good
    <3>. QED
      BY <3>1, <3>2
  <2>. QED
    BY <2>4
<1>5. \E x \in S : \A y \in S : x >= y
  <2>1. PICK m \in 1..k : \A i \in 1..k : v[i] <= v[m]
    BY <1>4
  <2>2. v[m] \in S /\ \A y \in S : y \in Nat /\ y <= v[m]
    BY <1>3, <2>1
  <2>. HIDE DEF S
  <2>. QED
    BY <1>3, <2>2
<1>6. Max(S) \in S /\ \A y \in S : Max(S) >= y
  <2>. HIDE DEF S
  <2>. QED
    BY <1>5 DEF Max
<1>7. f[plan] \in S /\ \A y \in S : y \in Nat
  OBVIOUS
<1>. HIDE DEF S
<1>8. Max(S) \in Nat /\ f[plan] <= Max(S)
  BY <1>6, <1>7
<1>. QED
  BY <1>8 DEF S

Numbers == (0..Max({p.games : p \in Plans})) \X (1..Max({p.events : p \in Plans}))

LEMMA WithinThePlan ==
  ASSUME plan \in Plans, NEW g \in 0..plan.games, NEW n \in 1..plan.events
  PROVE  <<g, n>> \in Numbers
<1>. DEFINE games == [p \in Plans |-> p.games]
            events == [p \in Plans |-> p.events]
<1>1. games \in [Plans -> Nat] /\ events \in [Plans -> Nat]
  BY PlansAssumption
<1>2. {games[p] : p \in Plans} = {p.games : p \in Plans} /\ games[plan] = plan.games
      /\ {events[p] : p \in Plans} = {p.events : p \in Plans} /\ events[plan] = plan.events
  OBVIOUS
<1>. HIDE DEF games, events
<1>3. Max({games[p] : p \in Plans}) \in Nat /\ games[plan] <= Max({games[p] : p \in Plans})
  BY <1>1, HasMost
<1>4. Max({events[p] : p \in Plans}) \in Nat /\ events[plan] <= Max({events[p] : p \in Plans})
  BY <1>1, HasMost
<1>. DEFINE G == Max({p.games : p \in Plans})
            E == Max({p.events : p \in Plans})
<1>5. G \in Nat /\ plan.games <= G /\ E \in Nat /\ plan.events <= E
  BY <1>2, <1>3, <1>4
<1>6. plan.games \in Nat /\ plan.events \in Nat
  BY PlansAssumption
<1>. HIDE DEF G, E
<1>7. g \in 0..G /\ n \in 1..E
  BY <1>5, <1>6
<1>. QED
  BY <1>7 DEF Numbers, G, E

LEMMA NumberedFits ==
  ASSUME NEW g \in Nat, NEW n \in Nat
  PROVE  /\ Numbered(g, n) \in Seq(Nat \X Nat) /\ Len(Numbered(g, n)) = n
         /\ \A i \in 1..n : Numbered(g, n)[i] = <<g, i>>
         /\ Numbered(g, n + 1) = Append(Numbered(g, n), <<g, n + 1>>)
         /\ Numbered(g, 0) = <<>>
<1>1. ASSUME NEW k \in Nat
      PROVE  /\ Numbered(g, k) \in Seq(Nat \X Nat) /\ Len(Numbered(g, k)) = k
             /\ \A i \in 1..k : Numbered(g, k)[i] = <<g, i>>
  BY DEF Numbered
<1>. DEFINE s == Numbered(g, n)
            x == <<g, n + 1>>
            t == Numbered(g, n + 1)
            u == Append(s, x)
<1>2. x \in Nat \X Nat
  OBVIOUS
<1>3. s \in Seq(Nat \X Nat) /\ Len(s) = n /\ \A i \in 1..n : s[i] = <<g, i>>
  BY <1>1
<1>4. t \in Seq(Nat \X Nat) /\ Len(t) = n + 1 /\ \A i \in 1..n + 1 : t[i] = <<g, i>>
  BY <1>1
<1>5. x = <<g, n + 1>>
  OBVIOUS
<1>. HIDE DEF s, x, t
<1>6. /\ u \in Seq(Nat \X Nat) /\ Len(u) = n + 1 /\ u[n + 1] = x
      /\ \A i \in 1..n : u[i] = s[i]
  BY <1>2, <1>3
<1>. HIDE DEF u
<1>7. \A i \in 1..n + 1 : u[i] = t[i]
  <2>1. \A i \in 1..n + 1 : i \in 1..n \/ i = n + 1
    OBVIOUS
  <2>. QED
    BY <1>3, <1>4, <1>5, <1>6, <2>1
<1>8. u = t
  <2>1. u = [i \in 1..n + 1 |-> u[i]] /\ t = [i \in 1..n + 1 |-> t[i]]
    BY <1>4, <1>6
  <2>. QED
    BY <1>7, <2>1, Zenon
<1>9. Numbered(g, 0) = <<>>
  <2>1. Numbered(g, 0) \in Seq(Nat \X Nat) /\ Len(Numbered(g, 0)) = 0
    BY <1>1
  <2>. QED
    BY <2>1
<1>. QED
  BY <1>3, <1>8, <1>9 DEF s, t, u, x

EventsStayAsTheyAre == SentNow' = SentNow /\ TakenNow' = TakenNow
EventsStartOver == SentNow' = <<>> /\ TakenNow' = <<>>
AnEventIsSent ==
  (\E thing \in Numbers : SentNow' = Append(SentNow, thing)) /\ TakenNow' = TakenNow
AnEventIsTaken ==
  /\ Len(TakenNow) < Len(SentNow)
  /\ TakenNow' = Append(TakenNow, SentNow[Len(TakenNow) + 1])
  /\ SentNow' = SentNow
EventsMove == EventsStayAsTheyAre \/ EventsStartOver \/ AnEventIsSent \/ AnEventIsTaken

LEMMA EventsStand ==
  ASSUME conn'.game = conn.game, conn'.said = conn.said, ui'.alive = ui.alive,
         ui'.seen = ui.seen, pc'.main = "CLEARING" <=> pc.main = "CLEARING"
  PROVE  EventsStayAsTheyAre
BY DEF EventsStayAsTheyAre, SentNow, TakenNow, Numbered

\* The connection keeps what it has said, whatever it is told.
LEMMA TypesOfEvents ==
  ASSUME ThreadsInvariant
  PROVE  /\ ui \in MainStates /\ pc \in [main : Mains, worker : Workplaces]
         /\ conn \in Connections(plan) /\ conn.game \in Nat /\ conn.said \in Nat
         /\ ui.seen \in Nat /\ plan \in Plans /\ plan.games \in Nat /\ plan.events \in Nat
BY TypesFit DEF MainStates, Connections, ThreadsInvariant, ConnFits

LEMMA ConnectionSteps ==
  ASSUME ThreadsInvariant,
         Worker \/ Interrupted \/ DelayPasses \/ Exited \/ Timer \/ Loader \/ Tick
           \/ UNCHANGED vars
  PROVE  EventsStayAsTheyAre
<1>1. /\ ui \in MainStates /\ pc \in [main : Mains, worker : Workplaces]
      /\ conn \in Connections(plan)
  BY TypesOfEvents
<1>2. ASSUME NEW found \in BOOLEAN, Resolved(found) PROVE EventsStayAsTheyAre
  <2>1. UNCHANGED ui /\ pc'.main = pc.main
    BY <1>1, <1>2 DEF Resolved
  <2>2. conn'.game = conn.game /\ conn'.said = conn.said
    BY <1>1, <1>2 DEF Resolved, Connections
  <2>. QED
    BY <2>1, <2>2, EventsStand
<1>3. CASE WorkerGoesRound
  <2>1. UNCHANGED ui /\ pc'.main = pc.main
    BY <1>1, <1>3 DEF WorkerGoesRound, Loop
  <2>2. conn'.game = conn.game /\ conn'.said = conn.said
    BY <1>1, <1>3 DEF WorkerGoesRound, Connections
  <2>. QED
    BY <2>1, <2>2, EventsStand
<1>4. CASE WorkerStarts \/ PollReturns \/ WorkerWakes \/ Interrupted
  <2>1. UNCHANGED <<ui, conn>> /\ pc'.main = pc.main
    BY <1>1, <1>4 DEF WorkerStarts, PollReturns, WorkerWakes, Interrupted, Loop
  <2>. QED
    BY <2>1, EventsStand
<1>5. CASE DelayPasses \/ Exited \/ Timer \/ Loader \/ UNCHANGED vars
  <2>1. UNCHANGED <<ui, conn, pc>>
    BY <1>5 DEF DelayPasses, Exited, Timer, TimerStarts, TimerWakes, Loader, LoaderWakes,
       Loaded, vars
  <2>. QED
    BY <2>1, EventsStand
<1>6. CASE Tick
  <2>1. UNCHANGED <<conn, pc>> /\ ui'.alive = ui.alive /\ ui'.seen = ui.seen
    BY <1>1, <1>6 DEF Tick, MainStates
  <2>. QED
    BY <2>1, EventsStand
<1>. QED
  BY <1>2, <1>3, <1>4, <1>5, <1>6 DEF Worker

LEMMA EmitSends ==
  ASSUME ThreadsInvariant, Emit
  PROVE  EventsMove
<1>1. /\ ui \in MainStates /\ conn \in Connections(plan) /\ conn.game \in Nat
      /\ conn.said \in Nat /\ plan \in Plans /\ plan.events \in Nat
      /\ conn.game \in 0..plan.games /\ conn.said \in 0..plan.events
  BY TypesOfEvents DEF Connections
<1>2. /\ Says(conn) # {}
      /\ \E who, finished :
           conn' = [conn EXCEPT !.said = @ + 1, !.who = who, !.finished = finished]
  BY DEF Emit
<1>3. UNCHANGED <<ui, pc>>
  BY DEF Emit
<1>4. conn.said # plan.events
  BY <1>2 DEF Says
<1>5. conn'.game = conn.game /\ conn'.said = conn.said + 1
  BY <1>1, <1>2 DEF Connections
<1>6. TakenNow' = TakenNow
  BY <1>3, <1>5 DEF TakenNow
<1>7. CASE ui.alive
  <2>1. conn.said + 1 \in 1..plan.events
    BY <1>1, <1>4
  <2>2. <<conn.game, conn.said + 1>> \in Numbers
    BY <1>1, <2>1, WithinThePlan
  <2>3. SentNow' = Append(SentNow, <<conn.game, conn.said + 1>>)
    <3>1. /\ SentNow = Numbered(conn.game, conn.said)
          /\ SentNow' = Numbered(conn.game, conn.said + 1)
      BY <1>3, <1>5, <1>7 DEF SentNow
    <3>2. Numbered(conn.game, conn.said + 1)
            = Append(Numbered(conn.game, conn.said), <<conn.game, conn.said + 1>>)
      BY <1>1, NumberedFits
    <3>. QED
      BY <3>1, <3>2
  <2>. QED
    BY <1>6, <2>2, <2>3 DEF EventsMove, AnEventIsSent
<1>8. CASE ~ui.alive
  BY <1>3, <1>6, <1>8 DEF EventsMove, EventsStayAsTheyAre, SentNow
<1>. QED
  BY <1>7, <1>8

\* An event is handled after all that were emitted before it.
LEMMA HandleEventTakes ==
  ASSUME ThreadsInvariant, HandleEvent
  PROVE  EventsMove
<1>. DEFINE e == Head(ui.local)
            label == IF Len(ui.local) = 1 THEN "FLUSHING" ELSE "HANDLING"
            seen == IF e.type = "running" THEN ui.seen ELSE e.n
            q == Pending
<1>1. /\ ui \in MainStates /\ pc \in [main : Mains, worker : Workplaces]
      /\ conn \in Connections(plan) /\ conn.game \in Nat /\ conn.said \in Nat
      /\ ui.seen \in Nat
  BY TypesOfEvents
<1>2. /\ pc.main = "HANDLING" /\ Goes(label) /\ UNCHANGED conn
      /\ ui'.seen = seen /\ ui'.alive = ui.alive
  BY <1>1 DEF HandleEvent, Handled, At, MainStates
<1>3. pc'.main = label /\ label # "CLEARING"
  BY <1>1, <1>2 DEF Goes
<1>4. /\ ui.alive /\ ui.local # <<>> /\ InTurn(q, ui.seen, conn.said)
  BY <1>2 DEF ThreadsInvariant, MainFits, EventsFit, Freed
<1>5. q \in Seq(EventRecords) /\ q # <<>> /\ q[1] = e /\ e \in EventRecords
  BY <1>1, <1>4, TypesFit, TailPending DEF Pending
<1>6. Len(q) \in Nat \ {0}
  BY <1>5
<1>. HIDE DEF e, label, q
<1>7. CASE e.type = "running"
  BY <1>2, <1>3, <1>7, EventsStand DEF EventsMove
<1>8. CASE e.type # "running"
  <2>1. e.n = conn.said - Len(q) + 1 /\ ui.seen = conn.said - Len(q)
    <3>1. 1 \in 1..Len(q)
      BY <1>6
    <3>. QED
      BY <1>1, <1>4, <1>5, <1>6, <1>8, <3>1 DEF InTurn
  <2>2. ui'.seen = ui.seen + 1 /\ ui.seen < conn.said /\ ui.seen + 1 \in 1..conn.said
    BY <1>1, <1>2, <1>6, <1>8, <2>1
  <2>3. /\ TakenNow = Numbered(conn.game, ui.seen)
        /\ TakenNow' = Numbered(conn.game, ui.seen + 1)
        /\ SentNow = Numbered(conn.game, conn.said) /\ SentNow' = SentNow
    BY <1>2, <1>3, <1>4, <2>2 DEF TakenNow, SentNow
  <2>4. /\ Len(TakenNow) = ui.seen /\ Len(SentNow) = conn.said
        /\ SentNow[ui.seen + 1] = <<conn.game, ui.seen + 1>>
        /\ TakenNow' = Append(TakenNow, <<conn.game, ui.seen + 1>>)
    BY <1>1, <2>2, <2>3, NumberedFits
  <2>. QED
    BY <2>2, <2>3, <2>4 DEF EventsMove, AnEventIsTaken
<1>. QED
  BY <1>7, <1>8

LEMMA ResetStartsOver ==
  ASSUME ThreadsInvariant, NEW who, ResetConnection(who)
  PROVE  EventsStartOver
<1>1. pc \in [main : Mains, worker : Workplaces] /\ conn.game \in Nat
  BY TypesOfEvents
<1>2. UNCHANGED ui /\ pc'.main = "CLEARING" /\ conn'.said = 0 /\ conn'.game = conn.game + 1
  BY <1>1 DEF ResetConnection, Goes, NewConn
<1>3. Numbered(conn.game + 1, 0) = <<>>
  <2>1. conn.game + 1 \in Nat
    BY <1>1
  <2>. QED
    BY <2>1, NumberedFits
<1>. QED
  BY <1>2, <1>3 DEF EventsStartOver, SentNow, TakenNow

LEMMA PlayerSteps ==
  ASSUME ThreadsInvariant, Player
  PROVE  EventsMove
<1>1. /\ ui \in MainStates /\ pc \in [main : Mains, worker : Workplaces]
      /\ conn \in Connections(plan)
  BY TypesOfEvents
<1>2. CASE QueueAddress
  <2>1. UNCHANGED conn /\ pc'.main # "CLEARING" /\ pc.main # "CLEARING"
    BY <1>1, <1>2 DEF QueueAddress, Goes, At
  <2>2. ui'.alive = ui.alive /\ ui'.seen = ui.seen
    BY <1>1, <1>2 DEF QueueAddress, MainStates
  <2>. QED
    BY <2>1, <2>2, EventsStand DEF EventsMove
<1>3. CASE SetPlayerName
  <2>1. UNCHANGED <<ui, pc>> /\ conn'.game = conn.game /\ conn'.said = conn.said
    BY <1>1, <1>3 DEF SetPlayerName, Connections
  <2>. QED
    BY <2>1, EventsStand DEF EventsMove
<1>4. CASE Command
  <2>1. UNCHANGED <<ui, pc>> /\ conn'.game = conn.game /\ conn'.said = conn.said
    BY <1>1, <1>4 DEF Command, Connections
  <2>. QED
    BY <2>1, EventsStand DEF EventsMove
<1>5. CASE ResetByPlayer
  BY <1>5, ResetStartsOver DEF ResetByPlayer, EventsMove
<1>6. CASE LoadImage
  <2>1. UNCHANGED <<conn, pc>> /\ ui'.alive = ui.alive /\ ui'.seen = ui.seen
    BY <1>1, <1>6 DEF LoadImage, MainStates
  <2>. QED
    BY <2>1, EventsStand DEF EventsMove
<1>7. CASE CancelImage
  <2>1. UNCHANGED <<conn, pc>> /\ ui'.alive = ui.alive /\ ui'.seen = ui.seen
    BY <1>1, <1>7 DEF CancelImage, MainStates
  <2>. QED
    BY <2>1, EventsStand DEF EventsMove
<1>8. CASE FreePainters
  <2>1. UNCHANGED conn /\ pc'.main # "CLEARING" /\ pc.main # "CLEARING"
    BY <1>1, <1>8 DEF FreePainters, Goes, At
  <2>2. ui'.alive = ui.alive /\ ui'.seen = ui.seen
    BY <1>1, <1>8 DEF FreePainters, MainStates
  <2>. QED
    BY <2>1, <2>2, EventsStand DEF EventsMove
<1>. QED
  BY <1>2, <1>3, <1>4, <1>5, <1>6, <1>7, <1>8 DEF Player

LEMMA MainSteps ==
  ASSUME ThreadsInvariant, Main
  PROVE  EventsMove
<1>1. /\ ui \in MainStates /\ pc \in [main : Mains, worker : Workplaces]
      /\ conn \in Connections(plan) /\ conn.game \in Nat
  BY TypesOfEvents
<1>2. CASE Listen
  <2>1. /\ ui'.alive /\ ui'.seen = ui.seen /\ UNCHANGED pc /\ pc.main = "STARTING"
        /\ conn'.game = conn.game /\ conn'.said = conn.said
    BY <1>1, <1>2 DEF Listen, At, MainStates, Connections
  <2>2. conn.said = 0 /\ ui.seen = 0
    BY <2>1 DEF ThreadsInvariant, ConnFits, MainFits
  <2>3. Numbered(conn.game, 0) = <<>>
    BY <1>1, NumberedFits
  <2>. QED
    BY <2>1, <2>2, <2>3 DEF EventsMove, EventsStartOver, SentNow, TakenNow
<1>3. CASE SetRunning
  <2>1. UNCHANGED ui /\ pc'.main # "CLEARING" /\ pc.main # "CLEARING"
    BY <1>1, <1>3 DEF SetRunning, Goes, At
  <2>2. conn'.game = conn.game /\ conn'.said = conn.said
    BY <1>1, <1>3 DEF SetRunning, Connections
  <2>. QED
    BY <2>1, <2>2, EventsStand DEF EventsMove
<1>4. CASE ResetOnIdle
  BY <1>4, ResetStartsOver DEF ResetOnIdle, EventsMove
<1>5. CASE Clear
  <2>1. pc.main = "CLEARING" /\ UNCHANGED conn /\ ui'.alive = ui.alive /\ ui'.seen = 0
    BY <1>1, <1>5 DEF Clear, At, MainStates
  <2>2. conn.said = 0
    BY <2>1 DEF ThreadsInvariant, ConnFits
  <2>3. Numbered(conn.game, 0) = <<>>
    BY <1>1, NumberedFits
  <2>. QED
    BY <2>1, <2>2, <2>3 DEF EventsMove, EventsStartOver, SentNow, TakenNow
<1>6. CASE Flush \/ FlushDone \/ LoaderJoined \/ StopWorker \/ StopTimer \/ Exit
  <2>1. UNCHANGED <<ui, conn>> /\ pc'.main # "CLEARING" /\ pc.main # "CLEARING"
    BY <1>1, <1>6 DEF Flush, FlushDone, LoaderJoined, StopWorker, StopTimer, Exit, Joined,
       Goes, At
  <2>. QED
    BY <2>1, EventsStand DEF EventsMove
<1>7. CASE SkipCancelled
  <2>1. UNCHANGED <<ui, conn, pc>>
    BY <1>7 DEF SkipCancelled
  <2>. QED
    BY <2>1, EventsStand DEF EventsMove
<1>8. CASE TakeEvents \/ StartReset \/ NewPainters
  <2>1. UNCHANGED conn /\ pc'.main # "CLEARING" /\ pc.main # "CLEARING"
    BY <1>1, <1>8 DEF TakeEvents, StartReset, NewPainters, Calling, Goes, At
  <2>2. ui'.alive = ui.alive /\ ui'.seen = ui.seen
    BY <1>1, <1>8 DEF TakeEvents, StartReset, NewPainters, MainStates
  <2>. QED
    BY <2>1, <2>2, EventsStand DEF EventsMove
<1>9. CASE (\E u \in Uses : TakeDown(u)) \/ TakeImage
  <2>1. UNCHANGED <<conn, pc>>
    BY <1>9 DEF TakeDown, TakeImage
  <2>2. ui'.alive = ui.alive /\ ui'.seen = ui.seen
    BY <1>1, <1>9 DEF TakeDown, TakeImage, MainStates
  <2>. QED
    BY <2>1, <2>2, EventsStand DEF EventsMove
<1>10. CASE HandleEvent
  BY <1>10, HandleEventTakes
<1>11. CASE Free
  <2>1. ~ui'.alive
    BY <1>11 DEF Free, Restful
  <2>. QED
    BY <2>1 DEF EventsMove, EventsStartOver, SentNow, TakenNow
<1>. QED
  BY <1>2, <1>3, <1>4, <1>5, <1>6, <1>7, <1>8, <1>9, <1>10, <1>11 DEF Main

LEMMA EventsMoveInEveryStep ==
  ASSUME ThreadsInvariant, [Next]_vars
  PROVE  EventsMove
<1>1. CASE Worker \/ Interrupted \/ DelayPasses \/ Exited \/ Timer \/ Loader \/ Tick
             \/ UNCHANGED vars
  BY <1>1, ConnectionSteps DEF EventsMove
<1>2. CASE Recreate
  <2>1. UNCHANGED ui /\ pc.main = "JOINING"
    BY <1>2 DEF Recreate, Joined, At
  <2>2. ~ui.alive
    BY <2>1 DEF ThreadsInvariant, MainFits, Freed
  <2>. QED
    BY <2>1, <2>2 DEF EventsMove, EventsStayAsTheyAre, SentNow, TakenNow
<1>. QED
  BY <1>1, <1>2, EmitSends, PlayerSteps, MainSteps DEF Next

\* Whatever the threads do between each other's steps, the main thread handles
\* the events of a game in their order and each once: the queue of the game state
\* and the idle events of vsx-main-thread.c implement the abstract channel.
THEOREM EventsAreInOrder == Spec => EventsAreDelivered
<1>1. Init => Events!Init
  <2>. SUFFICES ASSUME Init PROVE Events!Init
    OBVIOUS
  <2>1. ~ui.alive
    BY DEF Init, Restful
  <2>. QED
    BY <2>1 DEF Events!Init
<1>2. ThreadsInvariant /\ [Next]_vars =>
        [Events!Next]_<<[r \in {"main"} |->
               IF ui.alive THEN [i \in 1..conn.said |-> <<conn.game, i>>] ELSE <<>>],
             [r \in {"main"} |->
                   IF ui.alive /\ pc.main # "CLEARING"
                   THEN [i \in 1..ui.seen |-> <<conn.game, i>>] ELSE <<>>]>>
  <2>. SUFFICES ASSUME ThreadsInvariant, [Next]_vars PROVE Events!Next
    OBVIOUS
  <2>1. EventsMove
    BY EventsMoveInEveryStep
  <2>. QED
    BY <2>1 DEF EventsMove, EventsStayAsTheyAre, EventsStartOver, AnEventIsSent,
       AnEventIsTaken, SentNow, TakenNow, Numbered, Numbers,
       Events!Next, Events!Send, Events!Receive, Events!StartOver, Events!Stay
<1>. QED
  BY <1>1, <1>2, ThreadsInvariantHolds, PTL DEF Spec, EventsAreDelivered, Events!Spec
=============================================================================
