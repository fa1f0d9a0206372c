----------------------------- MODULE LobbyProofs -----------------------------
(***************************************************************************)
(* What the run of MCLobby checks for two connections, two persons and two *)
(* games holds for any finite number of each, any number of seats and      *)
(* rooms and any times: references are counted exactly, and who plays is   *)
(* watched.                                                                *)
(***************************************************************************)
EXTENDS Lobby, FiniteSetTheorems, SequenceTheorems, WellFoundedInduction, TLAPS

-----------------------------------------------------------------------------
(* Folding over a finite set.                                              *)

\* A non-empty set of natural numbers has a least element.
LEMMA LeastNatural ==
    ASSUME NEW S \in SUBSET Nat, S # {}
    PROVE  \E m \in S : \A n \in S : m <= n
<1>1. IsWellFoundedOn(OpToRel(<, Nat), Nat)
  BY NatLessThanWellFounded
<1>2. PICK m \in S : \A n \in S : ~(<<n, m>> \in OpToRel(<, Nat))
  BY <1>1, WFMin, Zenon
<1>3. \A n \in S : ~(n < m)
  BY <1>2 DEF OpToRel
<1>. QED
  BY <1>3

\* A set of natural numbers that has zero and the successor of each of its
\* numbers has them all.
LEMMA SetInduction ==
    ASSUME NEW S \in SUBSET Nat, 0 \in S, \A n \in S : n + 1 \in S
    PROVE  S = Nat
<1>1. SUFFICES ASSUME Nat \ S # {} PROVE FALSE
  OBVIOUS
<1>2. PICK m \in Nat \ S : \A n \in Nat \ S : m <= n
  BY <1>1, LeastNatural
<1>3. m - 1 \in Nat /\ m - 1 \notin Nat \ S
  BY <1>2
<1>. QED
  BY <1>2, <1>3

\* A set that is not empty is one smaller without one of its elements.
LEMMA OneLess ==
    ASSUME NEW s, IsFiniteSet(s), s # {}
    PROVE  /\ AnyOf(s) \in s
           /\ Cardinality(s) \in Nat \ {0}
           /\ Cardinality(s \ {AnyOf(s)}) = Cardinality(s) - 1
<1>1. AnyOf(s) \in s
  BY DEF AnyOf
<1>. HIDE DEF AnyOf
<1>2. \A x \in s : Cardinality(s \ {x}) = Cardinality(s) - 1
  BY FS_RemoveElement
<1>3. Cardinality(s) \in Nat /\ Cardinality(s) # 0
  BY FS_CardinalityType, FS_EmptySet
<1>. QED
  BY <1>1, <1>2, <1>3

\* What holds of the empty set, and of a set if it does without one of its
\* elements, holds of every finite set.
LEMMA SubsetInduction ==
    ASSUME NEW S, IsFiniteSet(S), NEW Ok \in SUBSET SUBSET S, {} \in Ok,
           \A s \in SUBSET S : s # {} /\ s \ {AnyOf(s)} \in Ok => s \in Ok
    PROVE  S \in Ok
<1>. DEFINE N == {n \in Nat : \A s \in SUBSET S : Cardinality(s) = n => s \in Ok}
<1>1. 0 \in N
  <2>1. ASSUME NEW s \in SUBSET S, Cardinality(s) = 0 PROVE s = {}
    BY <2>1, FS_Subset, FS_EmptySet
  <2>. QED
    BY <2>1
<1>2. ASSUME NEW n \in N PROVE n + 1 \in N
  <2>1. SUFFICES ASSUME NEW s \in SUBSET S, Cardinality(s) = n + 1 PROVE s \in Ok
    OBVIOUS
  <2>2. IsFiniteSet(s) /\ s # {}
    BY <2>1, FS_Subset, FS_EmptySet
  <2>3. Cardinality(s \ {AnyOf(s)}) = n
    BY <2>1, <2>2, OneLess
  <2>4. s \ {AnyOf(s)} \in SUBSET S
    OBVIOUS
  <2>. QED
    BY <2>2, <2>3, <2>4
<1>3. N = Nat
  <2>1. N \in SUBSET Nat
    OBVIOUS
  <2>. HIDE DEF N
  <2>. QED
    BY <1>1, <1>2, <2>1, SetInduction
<1>. QED
  BY <1>3, FS_CardinalityType

\* f is the fold over S that begins with base and takes step, within X.
IsFold(f, S, X, base, step) ==
    /\ f \in [SUBSET S -> X]
    /\ \A s \in SUBSET S : f[s] = IF s = {} THEN base
                                ELSE step[AnyOf(s)][f[s \ {AnyOf(s)}]]

\* A fold exists, for a step that stays within X.
LEMMA FoldExists ==
    ASSUME NEW S, IsFiniteSet(S), NEW X, NEW base \in X, NEW step \in [S -> [X -> X]]
    PROVE  \E f : IsFold(f, S, X, base, step)
<1>. DEFINE Upto(n) == {s \in SUBSET S : Cardinality(s) <= n}
            Folds(f, n) ==
              \A s \in Upto(n) : f[s] = IF s = {} THEN base
                                        ELSE step[AnyOf(s)][f[s \ {AnyOf(s)}]]
            N == {n \in Nat : \E f \in [SUBSET S -> X] : Folds(f, n)}
<1>0. \A s \in SUBSET S : IsFiniteSet(s) /\ Cardinality(s) \in Nat
  BY FS_Subset, FS_CardinalityType
<1>1. \A s \in SUBSET S : s # {} =>
        /\ AnyOf(s) \in s
        /\ Cardinality(s) > 0
        /\ Cardinality(s \ {AnyOf(s)}) = Cardinality(s) - 1
  BY <1>0, OneLess
<1>2. 0 \in N
  <2>. DEFINE f == [s \in SUBSET S |-> base]
  <2>1. \A s \in Upto(0) : s = {}
    <3>1. ASSUME NEW s \in SUBSET S, s # {} PROVE Cardinality(s) > 0
      BY <1>1, <3>1
    <3>. QED
      BY <1>0, <3>1
  <2>2. f \in [SUBSET S -> X] /\ Folds(f, 0)
    BY <2>1
  <2>. QED
    BY <2>2
<1>3. ASSUME NEW n \in N PROVE n + 1 \in N
  <2>1. PICK f \in [SUBSET S -> X] : Folds(f, n)
    OBVIOUS
  <2>. DEFINE g == [s \in SUBSET S |->
                      IF s = {} THEN base ELSE step[AnyOf(s)][f[s \ {AnyOf(s)}]]]
  <2>2. g \in [SUBSET S -> X]
    <3>1. ASSUME NEW s \in SUBSET S, s # {}
          PROVE  step[AnyOf(s)][f[s \ {AnyOf(s)}]] \in X
      <4>1. AnyOf(s) \in S /\ s \ {AnyOf(s)} \in SUBSET S
        BY <1>1, <3>1
      <4>. QED
        BY <4>1
    <3>. QED
      BY <3>1
  <2>3. \A s \in Upto(n) : g[s] = f[s]
    BY <2>1
  <2>4. ASSUME NEW s \in Upto(n + 1)
        PROVE  g[s] = IF s = {} THEN base ELSE step[AnyOf(s)][g[s \ {AnyOf(s)}]]
    <3>1. CASE s = {}
      BY <3>1
    <3>2. CASE s # {}
      <4>1. s \ {AnyOf(s)} \in Upto(n)
        BY <1>0, <1>1, <3>2
      <4>2. g[s \ {AnyOf(s)}] = f[s \ {AnyOf(s)}]
        BY <2>3, <4>1
      <4>. QED
        BY <3>2, <4>2
    <3>. QED
      BY <3>1, <3>2
  <2>5. Folds(g, n + 1)
    BY <2>4
  <2>. HIDE DEF g, Folds
  <2>. QED
    BY <2>2, <2>5
<1>4. N = Nat
  <2>1. N \in SUBSET Nat
    OBVIOUS
  <2>. HIDE DEF N
  <2>. QED
    BY <1>2, <1>3, <2>1, SetInduction
<1>5. PICK f \in [SUBSET S -> X] : Folds(f, Cardinality(S))
  BY <1>0, <1>4
<1>6. \A s \in SUBSET S : s \in Upto(Cardinality(S))
  BY FS_Subset
<1>7. \A s \in SUBSET S : f[s] = IF s = {} THEN base
                                 ELSE step[AnyOf(s)][f[s \ {AnyOf(s)}]]
  BY <1>5, <1>6
<1>. QED
  BY <1>7 DEF IsFold
-----------------------------------------------------------------------------
(* The inductive invariant.                                                *)

\* The games while their references are counted, which may be wrong.
GameRecord == [ref : Int, listed : BOOLEAN, room : Room \cup {NoRoom},
               started : BOOLEAN, seats : Seq(BOOLEAN), nConnected : Int]
Heap == [Game -> GameRecord]

Sitting(ps, g) == {p \in Person : ps[p].game = g}
Playing(r) == {s \in DOMAIN r.seats : r.seats[s]}

\* The references to game g, of which r is what is in memory, are counted right
\* if the persons are ps; the set has it as long as somebody plays; it has a
\* room as long as it is open; who plays in it is one person of the set, and no
\* two persons sit in one seat.
RefsRight(r, ps, g) ==
    /\ r.ref = Cardinality(Sitting(ps, g)) + (IF r.listed THEN 1 ELSE 0)
    /\ r.ref = 0 => r = NoGame
SeatsRight(r, ps, g) ==
    /\ \A p \in Sitting(ps, g) : ps[p].seat \in DOMAIN r.seats
    /\ \A p, q \in Sitting(ps, g) : ps[p].seat = ps[q].seat => p = q
    /\ \A s \in Playing(r) : \E p \in Sitting(ps, g) : ps[p].inSet /\ ps[p].seat = s
ListedRight(r) ==
    /\ r.listed <=> Playing(r) # {}
    /\ r.nConnected = Cardinality(Playing(r))
    /\ Len(r.seats) <= MaxPlayers
OpenRight(r) ==
    r.room # NoRoom => r.listed /\ ~r.started /\ Len(r.seats) < MaxPlayers

GameFits(r, ps, g) ==
    RefsRight(r, ps, g) /\ SeatsRight(r, ps, g) /\ ListedRight(r) /\ OpenRight(r)

OneForEachRoom(gs) ==
    \A g, h \in Game : gs[g].room # NoRoom /\ gs[h].room = gs[g].room => g = h

GamesFit(gs, ps) ==
    gs \in Heap /\ OneForEachRoom(gs) /\ \A g \in Game : GameFits(gs[g], ps, g)

PersonRecord == [ref : Nat, inSet : BOOLEAN, game : Game \cup {NoTable},
                 seat : 0 .. MaxPlayers, age : 0 .. Oldest]
ConnRecord == [open : BOOLEAN, bad : BOOLEAN, person : Person \cup {NoOne},
               age : 0 .. Oldest]

Speaking(cs, p) == {c \in Conn : cs[c].person = p}

\* The references to person p are counted right, who is at a game as long as
\* there are any, and was last heard not earlier than the connections that may
\* still speak for them.
PersonFits(r, cs, p) ==
    /\ r.ref = Cardinality(Speaking(cs, p)) + (IF r.inSet THEN 1 ELSE 0)
    /\ r.ref = 0 => r = NoPerson
    /\ r.ref # 0 => r.game \in Game
    /\ r.inSet => \A c \in Speaking(cs, p) : cs[c].bad \/ r.age <= cs[c].age

PersonsFit(ps, cs) ==
    /\ ps \in [Person -> PersonRecord]
    /\ cs \in [Conn -> ConnRecord]
    /\ \A c \in Conn : ~cs[c].open => cs[c].person = NoOne
    /\ \A p \in Person : PersonFits(ps[p], cs, p)

TimersRight ==
    /\ peopleTimer \in BOOLEAN /\ gcTimer \in BOOLEAN
    /\ peopleTimer <=> People # {}
    /\ gcTimer <=> OpenConns # {}

LobbyInvariant ==
    /\ GamesFit(games, persons)
    /\ PersonsFit(persons, conns)
    /\ TimersRight
    /\ ~running => \A g \in Game : games[g] = NoGame

-----------------------------------------------------------------------------
(* What the calls do to the memory.                                        *)

LEMMA NoGameIsGame == NoGame \in GameRecord
BY EmptySeq DEF NoGame, GameRecord

LEMMA SeatsStaySeats ==
    ASSUME NEW seats \in Seq(BOOLEAN), NEW s
    PROVE  /\ [seats EXCEPT ![s] = FALSE] \in Seq(BOOLEAN)
           /\ DOMAIN [seats EXCEPT ![s] = FALSE] = DOMAIN seats
           /\ Len([seats EXCEPT ![s] = FALSE]) = Len(seats)
<1>. DEFINE left == [seats EXCEPT ![s] = FALSE]
<1>1. Len(seats) \in Nat /\ DOMAIN seats = 1 .. Len(seats) /\ seats \in [1 .. Len(seats) -> BOOLEAN]
  BY LenProperties
<1>2. left \in [1 .. Len(seats) -> BOOLEAN]
  BY <1>1
<1>. HIDE DEF left
<1>3. left \in Seq(BOOLEAN)
  BY <1>1, <1>2, SeqDef
<1>4. Len(left) \in Nat /\ DOMAIN left = 1 .. Len(left)
  BY <1>3, LenProperties
<1>5. DOMAIN left = 1 .. Len(seats)
  BY <1>2
<1>6. Len(left) = Len(seats)
  <2>1. \A m, n \in Nat : 1 .. m = 1 .. n => m = n
    <3>1. ASSUME NEW m \in Nat, NEW n \in Nat, 1 .. m = 1 .. n PROVE m <= n
      <4>1. m = 0 \/ m \in 1 .. m
        OBVIOUS
      <4>. QED
        BY <3>1, <4>1
    <3>. QED
      BY <3>1
  <2>. QED
    BY <1>1, <1>4, <1>5, <2>1
<1>. QED
  BY <1>1, <1>3, <1>5, <1>6 DEF left

LEMMA RefAndUnref ==
    ASSUME NEW gs \in Heap, NEW g \in Game
    PROVE  /\ Ref(gs, g) = [gs EXCEPT ![g] = [gs[g] EXCEPT !.ref = @ + 1]]
           /\ Ref(gs, g) \in Heap
           /\ Unref(gs, g) = [gs EXCEPT ![g] = IF gs[g].ref = 1 THEN NoGame
                                              ELSE [gs[g] EXCEPT !.ref = @ - 1]]
           /\ Unref(gs, g) \in Heap
<1>1. gs[g] \in GameRecord
  BY DEF Heap
<1>2. /\ [gs[g] EXCEPT !.ref = @ + 1] \in GameRecord
      /\ [gs[g] EXCEPT !.ref = @ - 1] \in GameRecord
  BY <1>1 DEF GameRecord
<1>. QED
  BY <1>2, NoGameIsGame DEF Ref, Unref, Heap

\* What has no listener any more, after it was told that something changed.
Forgotten(r) ==
    IF r.ref = 1 THEN NoGame
    ELSE [r EXCEPT !.listed = FALSE, !.room = NoRoom, !.ref = @ - 1]
AllGone(r) == \A s \in DOMAIN r.seats : ~r.seats[s]
ShutIfStarted(r) == [r EXCEPT !.room = IF r.started THEN NoRoom ELSE @]
AfterChange(r, isPlayer) ==
    IF ~r.listed THEN r
    ELSE IF isPlayer /\ AllGone(r) THEN Forgotten(ShutIfStarted(r))
    ELSE ShutIfStarted(r)

LEMMA ChangedIs ==
    ASSUME NEW gs \in Heap, NEW g \in Game, NEW isPlayer \in BOOLEAN
    PROVE  /\ AfterChange(gs[g], isPlayer) \in GameRecord
           /\ Changed(gs, g, isPlayer) = [gs EXCEPT ![g] = AfterChange(gs[g], isPlayer)]
           /\ Changed(gs, g, isPlayer) \in Heap
<1>. DEFINE r == gs[g]
            shut == IF r.started THEN [gs EXCEPT ![g].room = NoRoom] ELSE gs
<1>1. r \in GameRecord /\ NoGame \in GameRecord
  BY NoGameIsGame DEF Heap
<1>2. ShutIfStarted(r) \in GameRecord
  BY <1>1 DEF GameRecord, ShutIfStarted
<1>3. Forgotten(ShutIfStarted(r)) \in GameRecord
  <2>. DEFINE q == ShutIfStarted(r)
  <2>. HIDE DEF q
  <2>1. q \in GameRecord
    BY <1>2 DEF q
  <2>. DEFINE unlisted == [q EXCEPT !.listed = FALSE, !.room = NoRoom]
  <2>2. unlisted \in GameRecord /\ unlisted.ref = q.ref
    BY <2>1 DEF GameRecord
  <2>3. [q EXCEPT !.listed = FALSE, !.room = NoRoom, !.ref = @ - 1]
          = [unlisted EXCEPT !.ref = @ - 1]
    BY <2>1 DEF GameRecord
  <2>. HIDE DEF unlisted
  <2>4. [unlisted EXCEPT !.ref = @ - 1] \in GameRecord
    BY <2>2 DEF GameRecord
  <2>. QED
    BY <1>1, <2>3, <2>4 DEF Forgotten, q
<1>4. AfterChange(r, isPlayer) \in GameRecord
  BY <1>1, <1>2, <1>3 DEF AfterChange
<1>5. shut = [gs EXCEPT ![g] = ShutIfStarted(r)]
  BY <1>1 DEF ShutIfStarted, GameRecord, Heap
<1>6. shut \in Heap /\ shut[g] = ShutIfStarted(r)
  BY <1>2, <1>5 DEF Heap
<1>7. Unlist(shut, g) = [gs EXCEPT ![g] = Forgotten(ShutIfStarted(r))]
  <2>. DEFINE q == ShutIfStarted(r)
              out == [shut EXCEPT ![g].listed = FALSE, ![g].room = NoRoom]
              left == [q EXCEPT !.listed = FALSE, !.room = NoRoom]
  <2>1. q \in GameRecord
    BY <1>2
  <2>. HIDE DEF q
  <2>2. left \in GameRecord /\ left.ref = q.ref
    BY <2>1 DEF GameRecord
  <2>3. out = [gs EXCEPT ![g] = left]
    BY <1>5, <1>6, <2>1 DEF Heap, GameRecord, q
  <2>. HIDE DEF left, out, shut
  <2>4. out \in Heap /\ out[g] = left
    BY <2>2, <2>3 DEF Heap
  <2>5. Unref(out, g) = [out EXCEPT ![g] = IF out[g].ref = 1 THEN NoGame
                                          ELSE [out[g] EXCEPT !.ref = @ - 1]]
    BY <2>4, RefAndUnref
  <2>6. Unref(out, g) = [gs EXCEPT ![g] = IF q.ref = 1 THEN NoGame
                                         ELSE [left EXCEPT !.ref = @ - 1]]
    BY <2>2, <2>3, <2>4, <2>5 DEF Heap
  <2>7. Forgotten(q) = IF q.ref = 1 THEN NoGame ELSE [left EXCEPT !.ref = @ - 1]
    BY <2>1 DEF Forgotten, left, GameRecord
  <2>. QED
    BY <2>6, <2>7 DEF Unlist, out, q
<1>8. IsEmpty(gs, g) = AllGone(r)
  BY DEF IsEmpty, AllGone
<1>9. Changed(gs, g, isPlayer) = [gs EXCEPT ![g] = AfterChange(r, isPlayer)]
  <2>1. CASE ~r.listed
    BY <2>1 DEF Changed, AfterChange, Heap
  <2>2. CASE r.listed /\ (isPlayer /\ IsEmpty(gs, g))
    BY <2>2, <1>7, <1>8 DEF Changed, AfterChange
  <2>3. CASE r.listed /\ ~(isPlayer /\ IsEmpty(gs, g))
    BY <2>3, <1>5, <1>8 DEF Changed, AfterChange
  <2>. QED
    BY <2>1, <2>2, <2>3
<1>. HIDE DEF r, shut
<1>10. [gs EXCEPT ![g] = AfterChange(r, isPlayer)] \in Heap
  BY <1>4 DEF Heap
<1>. QED
  BY <1>4, <1>9, <1>10 DEF r

\* Who leaves a seat.
Risen(r, s) == [r EXCEPT !.seats = [@ EXCEPT ![s] = FALSE]]
AfterLeaving(r, s) ==
    IF ~r.seats[s] THEN r
    ELSE [AfterChange(Risen(r, s), TRUE) EXCEPT !.nConnected = @ - 1]

LEMMA PlayerLeftIs ==
    ASSUME NEW gs \in Heap, NEW g \in Game, NEW s
    PROVE  /\ PlayerLeft(gs, g, s) = [gs EXCEPT ![g] = AfterLeaving(gs[g], s)]
           /\ PlayerLeft(gs, g, s) \in Heap
<1>. DEFINE r == gs[g]
            risen == [gs EXCEPT ![g].seats[s] = FALSE]
            told == Changed(risen, g, TRUE)
<1>1. r \in GameRecord
  BY DEF Heap
<1>2. Risen(r, s) \in GameRecord
  BY <1>1, SeatsStaySeats DEF GameRecord, Risen
<1>3. risen = [gs EXCEPT ![g] = Risen(r, s)]
  BY DEF Risen
<1>4. risen \in Heap /\ risen[g] = Risen(r, s)
  BY <1>2, <1>3 DEF Heap
<1>. HIDE DEF risen
<1>5. /\ AfterChange(risen[g], TRUE) \in GameRecord
      /\ told = [risen EXCEPT ![g] = AfterChange(risen[g], TRUE)]
      /\ told \in Heap
  BY <1>4, ChangedIs
<1>. DEFINE q == AfterChange(Risen(r, s), TRUE)
<1>6. q \in GameRecord /\ told = [gs EXCEPT ![g] = q] /\ told[g] = q
  BY <1>3, <1>4, <1>5 DEF Heap
<1>. HIDE DEF q, told
<1>7. [q EXCEPT !.nConnected = @ - 1] \in GameRecord
  BY <1>6 DEF GameRecord
<1>8. [told EXCEPT ![g].nConnected = @ - 1] = [gs EXCEPT ![g] = [q EXCEPT !.nConnected = @ - 1]]
  BY <1>6 DEF Heap
<1>9. CASE ~r.seats[s]
  BY <1>9 DEF PlayerLeft, AfterLeaving, Heap
<1>10. CASE r.seats[s]
  <2>1. PlayerLeft(gs, g, s) = [gs EXCEPT ![g] = [q EXCEPT !.nConnected = @ - 1]]
    BY <1>8, <1>10 DEF PlayerLeft, told, risen
  <2>2. AfterLeaving(gs[g], s) = [q EXCEPT !.nConnected = @ - 1]
    BY <1>10 DEF AfterLeaving, q
  <2>. QED
    BY <1>7, <2>1, <2>2 DEF Heap
<1>. QED
  BY <1>9, <1>10

-----------------------------------------------------------------------------
(* What leaves the references and the seats right.                         *)

LEMMA SitAndPlay ==
    /\ \A ps, g : IsFiniteSet(Sitting(ps, g)) /\ Cardinality(Sitting(ps, g)) \in Nat
    /\ \A r \in GameRecord :
         /\ Playing(r) \in SUBSET DOMAIN r.seats
         /\ IsFiniteSet(Playing(r)) /\ Cardinality(Playing(r)) \in Nat
<1>1. ASSUME NEW ps, NEW g
      PROVE  IsFiniteSet(Sitting(ps, g)) /\ Cardinality(Sitting(ps, g)) \in Nat
  <2>1. Sitting(ps, g) \in SUBSET Person
    BY DEF Sitting
  <2>. QED
    BY <2>1, FS_Subset, FS_CardinalityType, LobbyAssumption
<1>2. ASSUME NEW r \in GameRecord
      PROVE  /\ Playing(r) \in SUBSET DOMAIN r.seats
             /\ IsFiniteSet(Playing(r)) /\ Cardinality(Playing(r)) \in Nat
  <2>1. Playing(r) \in SUBSET DOMAIN r.seats
    BY DEF Playing
  <2>2. DOMAIN r.seats = 1 .. Len(r.seats) /\ Len(r.seats) \in Nat
    BY LenProperties DEF GameRecord
  <2>3. IsFiniteSet(DOMAIN r.seats)
    BY <2>2, FS_Interval
  <2>. QED
    BY <2>1, <2>3, FS_Subset, FS_CardinalityType
<1>. QED
  BY <1>1, <1>2

\* ps and qs say the same of where p sits.
SameSeat(ps, qs, p) == qs[p].game = ps[p].game /\ qs[p].seat = ps[p].seat

LEMMA LeavingFields ==
    ASSUME NEW r \in GameRecord, NEW s \in DOMAIN r.seats, r.seats[s],
           r.listed, r.ref # 1
    PROVE  LET q == AfterLeaving(r, s) IN
           /\ q \in GameRecord
           /\ q.seats = [r.seats EXCEPT ![s] = FALSE]
           /\ q.nConnected = r.nConnected - 1
           /\ q.started = r.started
           /\ IF AllGone(Risen(r, s))
              THEN ~q.listed /\ q.room = NoRoom /\ q.ref = r.ref - 1
              ELSE /\ q.listed /\ q.ref = r.ref
                   /\ q.room = IF r.started THEN NoRoom ELSE r.room
<1>. DEFINE m == Risen(r, s)
            shut == ShutIfStarted(m)
<1>1. /\ m \in GameRecord /\ m.seats = [r.seats EXCEPT ![s] = FALSE]
      /\ m.listed = r.listed /\ m.ref = r.ref /\ m.started = r.started
      /\ m.room = r.room /\ m.nConnected = r.nConnected
  BY SeatsStaySeats DEF GameRecord, Risen
<1>. HIDE DEF m
<1>2. /\ shut \in GameRecord /\ shut.seats = m.seats
      /\ shut.listed = m.listed /\ shut.ref = m.ref /\ shut.started = m.started
      /\ shut.room = (IF m.started THEN NoRoom ELSE m.room)
      /\ shut.nConnected = m.nConnected
  BY <1>1 DEF ShutIfStarted, GameRecord
<1>. HIDE DEF shut
<1>3. CASE AllGone(m)
  <2>. DEFINE gone == [shut EXCEPT !.listed = FALSE, !.room = NoRoom]
  <2>1. /\ gone \in GameRecord /\ gone.seats = shut.seats
        /\ ~gone.listed /\ gone.ref = shut.ref /\ gone.started = shut.started
        /\ gone.room = NoRoom /\ gone.nConnected = shut.nConnected
    BY <1>2 DEF GameRecord
  <2>2. [shut EXCEPT !.listed = FALSE, !.room = NoRoom, !.ref = @ - 1]
          = [gone EXCEPT !.ref = @ - 1]
    BY <1>2 DEF GameRecord
  <2>. HIDE DEF gone
  <2>3. AfterChange(m, TRUE) = [gone EXCEPT !.ref = @ - 1]
    BY <1>1, <1>2, <1>3, <2>2 DEF AfterChange, Forgotten, shut
  <2>. DEFINE told == [gone EXCEPT !.ref = @ - 1]
  <2>4. /\ told \in GameRecord /\ told.seats = gone.seats
        /\ ~told.listed /\ told.ref = gone.ref - 1 /\ told.started = gone.started
        /\ told.room = NoRoom /\ told.nConnected = gone.nConnected
    <3>. DEFINE n == gone.ref - 1
    <3>1. gone \in GameRecord /\ n \in Int
      BY <2>1 DEF GameRecord
    <3>. HIDE DEF n
    <3>a. told = [gone EXCEPT !.ref = n]
      BY DEF n
    <3>b. /\ [gone EXCEPT !.ref = n] \in GameRecord
          /\ [gone EXCEPT !.ref = n].seats = gone.seats
          /\ [gone EXCEPT !.ref = n].listed = gone.listed
          /\ [gone EXCEPT !.ref = n].ref = n
          /\ [gone EXCEPT !.ref = n].started = gone.started
          /\ [gone EXCEPT !.ref = n].room = gone.room
          /\ [gone EXCEPT !.ref = n].nConnected = gone.nConnected
      BY <3>1 DEF GameRecord
    <3>. HIDE DEF told
    <3>2. /\ told \in GameRecord /\ told.seats = gone.seats
          /\ told.listed = gone.listed /\ told.ref = gone.ref - 1
          /\ told.started = gone.started /\ told.room = gone.room
          /\ told.nConnected = gone.nConnected
      BY <3>a, <3>b DEF n
    <3>. QED
      BY <2>1, <3>2
  <2>. HIDE DEF told
  <2>. DEFINE q == [told EXCEPT !.nConnected = @ - 1]
  <2>5. /\ q \in GameRecord /\ q.seats = told.seats
        /\ ~q.listed /\ q.ref = told.ref /\ q.started = told.started
        /\ q.room = NoRoom /\ q.nConnected = told.nConnected - 1
    <3>1. told \in GameRecord
      BY <2>4
    <3>2. /\ q \in GameRecord /\ q.seats = told.seats
          /\ q.listed = told.listed /\ q.ref = told.ref /\ q.started = told.started
          /\ q.room = told.room /\ q.nConnected = told.nConnected - 1
      BY <3>1 DEF GameRecord
    <3>. HIDE DEF q
    <3>. QED
      BY <2>4, <3>2
  <2>. HIDE DEF q
  <2>6. AfterLeaving(r, s) = q
    BY <2>3 DEF AfterLeaving, q, told, m
  <2>. QED
    BY <1>1, <1>2, <1>3, <2>1, <2>4, <2>5, <2>6 DEF m
<1>4. CASE ~AllGone(m)
  <2>1. AfterChange(m, TRUE) = shut
    BY <1>1, <1>4 DEF AfterChange, shut
  <2>. DEFINE q == [shut EXCEPT !.nConnected = @ - 1]
  <2>2. /\ q \in GameRecord /\ q.seats = shut.seats
        /\ q.listed = shut.listed /\ q.ref = shut.ref /\ q.started = shut.started
        /\ q.room = shut.room /\ q.nConnected = shut.nConnected - 1
    <3>1. shut \in GameRecord
      BY <1>2
    <3>. QED
      BY <3>1 DEF GameRecord
  <2>. HIDE DEF q
  <2>3. AfterLeaving(r, s) = q
    BY <2>1 DEF AfterLeaving, q, m
  <2>. QED
    BY <1>1, <1>2, <1>4, <2>2, <2>3 DEF m
<1>. QED
  BY <1>3, <1>4

\* A person leaves the seat, and perhaps the set.
LEMMA LeavingFits ==
    ASSUME NEW r \in GameRecord, NEW g \in Game, NEW ps, NEW qs, NEW p \in Person,
           GameFits(r, ps, g), ps[p].game = g,
           \A w \in Person : SameSeat(ps, qs, w),
           \A w \in Person \ {p} : qs[w].inSet = ps[w].inSet
    PROVE  LET q == AfterLeaving(r, ps[p].seat) IN
           /\ q \in GameRecord
           /\ GameFits(q, qs, g)
           /\ ~q.seats[ps[p].seat]
           /\ q.room \in {r.room, NoRoom}
<1>. DEFINE s == ps[p].seat
            q == AfterLeaving(r, s)
<1>1. Sitting(qs, g) = Sitting(ps, g) /\ p \in Sitting(ps, g)
  BY DEF Sitting, SameSeat
<1>2. s \in DOMAIN r.seats
  BY <1>1 DEF GameFits, SeatsRight
<1>3. ASSUME NEW t, t # s, \E w \in Sitting(ps, g) : ps[w].inSet /\ ps[w].seat = t
      PROVE  \E w \in Sitting(qs, g) : qs[w].inSet /\ qs[w].seat = t
  BY <1>1, <1>3 DEF Sitting, SameSeat
<1>4. CASE ~r.seats[s]
  <2>1. q = r
    BY <1>4 DEF AfterLeaving
  <2>2. SeatsRight(r, qs, g)
    <3>1. \A t \in Playing(r) : t # s
      BY <1>4 DEF Playing
    <3>2. \A w \in Sitting(ps, g) : qs[w].seat = ps[w].seat
      BY DEF SameSeat, Sitting
    <3>. QED
      BY <1>1, <1>3, <3>1, <3>2 DEF GameFits, SeatsRight
  <2>. QED
    BY <1>1, <1>4, <2>1, <2>2 DEF GameFits, RefsRight
<1>5. CASE r.seats[s]
  <2>1. s \in Playing(r) /\ r.listed
    BY <1>2, <1>5 DEF Playing, GameFits, ListedRight
  <2>2. Cardinality(Sitting(ps, g)) \in Nat \ {0}
    BY <1>1, SitAndPlay, FS_EmptySet
  <2>3. r.ref = Cardinality(Sitting(ps, g)) + 1 /\ r.ref # 1
    BY <2>1, <2>2 DEF GameFits, RefsRight
  <2>4. /\ q \in GameRecord
        /\ q.seats = [r.seats EXCEPT ![s] = FALSE]
        /\ q.nConnected = r.nConnected - 1
        /\ q.started = r.started
        /\ IF AllGone(Risen(r, s))
           THEN ~q.listed /\ q.room = NoRoom /\ q.ref = r.ref - 1
           ELSE /\ q.listed /\ q.ref = r.ref
                /\ q.room = IF r.started THEN NoRoom ELSE r.room
    BY <1>2, <1>5, <2>1, <2>3, LeavingFields
  <2>. HIDE DEF q
  <2>5. DOMAIN q.seats = DOMAIN r.seats /\ Len(q.seats) = Len(r.seats)
    BY <2>4, SeatsStaySeats DEF GameRecord
  <2>6. Playing(q) = Playing(r) \ {s} /\ ~q.seats[s]
    BY <1>2, <2>4, <2>5 DEF Playing, GameRecord
  <2>7. Cardinality(Playing(q)) = Cardinality(Playing(r)) - 1
    <3>. DEFINE before == Playing(r)
    <3>1. IsFiniteSet(before) /\ s \in before
      BY <2>1, SitAndPlay
    <3>. HIDE DEF before, s
    <3>2. Cardinality(before \ {s}) = Cardinality(before) - 1
      BY <3>1, FS_RemoveElement
    <3>. QED
      BY <2>6, <3>2 DEF before
  <2>8. AllGone(Risen(r, s)) <=> Playing(q) = {}
    <3>1. Risen(r, s).seats = q.seats
      BY <2>4 DEF Risen, GameRecord
    <3>. QED
      BY <3>1 DEF AllGone, Playing
  <2>9. RefsRight(q, qs, g)
    BY <1>1, <2>2, <2>3, <2>4 DEF RefsRight
  <2>10. SeatsRight(q, qs, g)
    <3>1. \A w \in Sitting(ps, g) : qs[w].seat = ps[w].seat
      BY DEF SameSeat, Sitting
    <3>2. \A t \in Playing(q) : t # s /\ t \in Playing(r)
      BY <2>6
    <3>. QED
      BY <1>1, <1>3, <2>5, <3>1, <3>2 DEF GameFits, SeatsRight
  <2>11. ListedRight(q)
    BY <2>4, <2>5, <2>7, <2>8 DEF GameFits, ListedRight
  <2>12. OpenRight(q)
    BY <2>1, <2>4, <2>5 DEF GameFits, OpenRight
  <2>. QED
    BY <2>4, <2>6, <2>9, <2>10, <2>11, <2>12 DEF GameFits, q
<1>. QED
  BY <1>4, <1>5

\* ps and qs say the same of p.
SamePerson(ps, qs, p) == SameSeat(ps, qs, p) /\ qs[p].inSet = ps[p].inSet

\* A game that nothing happens to.
LEMMA OtherGameFits ==
    ASSUME NEW r, NEW h \in Game, NEW ps, NEW qs, GameFits(r, ps, h),
           \A w \in Person : ps[w].game = h \/ qs[w].game = h => SamePerson(ps, qs, w)
    PROVE  GameFits(r, qs, h)
<1>1. Sitting(qs, h) = Sitting(ps, h)
  BY DEF Sitting, SamePerson, SameSeat
<1>2. \A w \in Sitting(ps, h) : qs[w].seat = ps[w].seat /\ qs[w].inSet = ps[w].inSet
  BY DEF Sitting, SamePerson, SameSeat
<1>3. RefsRight(r, qs, h)
  BY <1>1 DEF GameFits, RefsRight
<1>4. SeatsRight(r, qs, h)
  BY <1>1, <1>2 DEF GameFits, SeatsRight
<1>. QED
  BY <1>3, <1>4 DEF GameFits

\* The one game that something happens to.
OthersFit(gs, ps, g) ==
    /\ gs \in Heap /\ OneForEachRoom(gs)
    /\ \A h \in Game \ {g} : GameFits(gs[h], ps, h)

LEMMA OneGameChanged ==
    ASSUME NEW gs, NEW ps, NEW qs, NEW g \in Game, OthersFit(gs, ps, g),
           NEW q \in GameRecord, GameFits(q, qs, g), q.room \in {gs[g].room, NoRoom},
           \A w \in Person : \A h \in Game \ {g} :
             ps[w].game = h \/ qs[w].game = h => SamePerson(ps, qs, w)
    PROVE  GamesFit([gs EXCEPT ![g] = q], qs)
<1>. DEFINE hs == [gs EXCEPT ![g] = q]
<1>1. hs \in Heap
  BY DEF OthersFit, Heap
<1>2. hs[g] = q /\ \A h \in Game \ {g} : hs[h] = gs[h]
  BY DEF OthersFit, Heap
<1>. HIDE DEF hs
<1>3. ASSUME NEW h \in Game PROVE GameFits(hs[h], qs, h)
  <2>1. CASE h = g
    BY <1>2, <2>1
  <2>2. CASE h # g
    <3>1. \A w \in Person : ps[w].game = h \/ qs[w].game = h => SamePerson(ps, qs, w)
      BY <2>2
    <3>2. GameFits(gs[h], ps, h)
      BY <2>2 DEF OthersFit
    <3>3. GameFits(gs[h], qs, h)
      BY <3>1, <3>2, OtherGameFits
    <3>. QED
      BY <1>2, <2>2, <3>3
  <2>. QED
    BY <2>1, <2>2
<1>4. OneForEachRoom(hs)
  BY <1>2 DEF OneForEachRoom, OthersFit
<1>. QED
  BY <1>1, <1>3, <1>4 DEF GamesFit, hs

LEMMA AllFit ==
    ASSUME NEW gs, NEW ps, GamesFit(gs, ps), NEW g PROVE OthersFit(gs, ps, g)
BY DEF GamesFit, OthersFit

LEMMA NoGameFits ==
    ASSUME NEW g \in Game, NEW ps, Sitting(ps, g) = {}
    PROVE  GameFits(NoGame, ps, g)
<1>1. Cardinality({}) = 0
  BY FS_EmptySet
<1>2. NoGame.seats = <<>> /\ NoGame.ref = 0 /\ NoGame.listed = FALSE
      /\ NoGame.room = NoRoom /\ NoGame.nConnected = 0
  BY DEF NoGame
<1>3. DOMAIN <<>> = {} /\ Len(<<>>) = 0
  OBVIOUS
<1>4. Playing(NoGame) = {}
  BY <1>2, <1>3 DEF Playing
<1>5. MaxPlayers \in Nat
  BY LobbyAssumption
<1>6. RefsRight(NoGame, ps, g)
  BY <1>1, <1>2 DEF RefsRight
<1>7. SeatsRight(NoGame, ps, g)
  BY <1>4 DEF SeatsRight
<1>8. ListedRight(NoGame)
  BY <1>1, <1>2, <1>3, <1>4, <1>5 DEF ListedRight
<1>9. OpenRight(NoGame)
  BY <1>2 DEF OpenRight
<1>. QED
  BY <1>6, <1>7, <1>8, <1>9 DEF GameFits

\* A person who does not play goes, and lets the game go.
LEMMA GoingFits ==
    ASSUME NEW r \in GameRecord, NEW g \in Game, NEW ps, NEW qs, NEW p \in Person,
           GameFits(r, ps, g), ps[p].game = g, ~r.seats[ps[p].seat],
           qs[p].game # g,
           \A w \in Person \ {p} : SamePerson(ps, qs, w)
    PROVE  LET q == IF r.ref = 1 THEN NoGame ELSE [r EXCEPT !.ref = @ - 1] IN
           /\ q \in GameRecord
           /\ GameFits(q, qs, g)
           /\ q.room \in {r.room, NoRoom}
<1>1. Sitting(qs, g) = Sitting(ps, g) \ {p} /\ p \in Sitting(ps, g)
  BY DEF Sitting, SamePerson, SameSeat
<1>2. /\ Cardinality(Sitting(qs, g)) = Cardinality(Sitting(ps, g)) - 1
      /\ Cardinality(Sitting(qs, g)) \in Nat
  <2>. DEFINE before == Sitting(ps, g)
  <2>1. IsFiniteSet(before) /\ p \in before
    BY <1>1, SitAndPlay
  <2>. HIDE DEF before
  <2>2. Cardinality(before \ {p}) = Cardinality(before) - 1
    BY <2>1, FS_RemoveElement
  <2>3. Cardinality(Sitting(qs, g)) \in Nat
    BY SitAndPlay
  <2>. QED
    BY <1>1, <2>2, <2>3 DEF before
<1>3. r.ref = Cardinality(Sitting(qs, g)) + 1 + (IF r.listed THEN 1 ELSE 0)
  <2>1. Cardinality(Sitting(ps, g)) \in Nat
    BY SitAndPlay
  <2>. QED
    BY <1>2, <2>1 DEF GameFits, RefsRight
<1>4. CASE r.ref = 1
  <2>. DEFINE n == Cardinality(Sitting(qs, g))
  <2>0. n \in Nat /\ 1 = n + 1 + (IF r.listed THEN 1 ELSE 0)
    BY <1>2, <1>3, <1>4
  <2>. HIDE DEF n
  <2>a. n = 0
    BY <2>0
  <2>1. Cardinality(Sitting(qs, g)) = 0
    BY <2>a DEF n
  <2>2. Sitting(qs, g) = {}
    BY <2>1, SitAndPlay, FS_EmptySet
  <2>3. NoGame.room = NoRoom
    BY DEF NoGame
  <2>. QED
    BY <1>4, <2>2, <2>3, NoGameFits, NoGameIsGame
<1>5. CASE r.ref # 1
  <2>. DEFINE q == [r EXCEPT !.ref = @ - 1]
  <2>1. /\ q \in GameRecord /\ q.ref = r.ref - 1 /\ q.listed = r.listed
        /\ q.seats = r.seats /\ q.nConnected = r.nConnected /\ q.room = r.room
        /\ q.started = r.started
    BY DEF GameRecord
  <2>. HIDE DEF q
  <2>2. Playing(q) = Playing(r)
    BY <2>1 DEF Playing
  <2>3. RefsRight(q, qs, g)
    BY <1>2, <1>3, <1>5, <2>1 DEF RefsRight
  <2>4. SeatsRight(q, qs, g)
    <3>1. \A w \in Sitting(qs, g) : qs[w].seat = ps[w].seat /\ qs[w].inSet = ps[w].inSet
      BY <1>1 DEF Sitting, SamePerson, SameSeat
    <3>2. ASSUME NEW s \in Playing(r)
          PROVE  \E w \in Sitting(qs, g) : qs[w].inSet /\ qs[w].seat = s
      <4>1. PICK w \in Sitting(ps, g) : ps[w].inSet /\ ps[w].seat = s
        BY DEF GameFits, SeatsRight
      <4>2. w # p
        BY <4>1 DEF Playing
      <4>. QED
        BY <1>1, <3>1, <4>1, <4>2
    <3>. QED
      BY <1>1, <2>1, <2>2, <3>1, <3>2 DEF GameFits, SeatsRight
  <2>5. ListedRight(q) /\ OpenRight(q)
    BY <2>1, <2>2 DEF GameFits, ListedRight, OpenRight
  <2>. QED
    BY <1>5, <2>1, <2>3, <2>4, <2>5 DEF GameFits, q
<1>. QED
  BY <1>4, <1>5

\* vsx_conversation_player_left, for the player of p.
LEMMA PlayerLeftFits ==
    ASSUME NEW gs, NEW ps, NEW qs, GamesFit(gs, ps), NEW p \in Person, NEW g \in Game,
           ps[p].game = g, SameSeat(ps, qs, p),
           \A w \in Person \ {p} : SamePerson(ps, qs, w)
    PROVE  /\ GamesFit(PlayerLeft(gs, g, ps[p].seat), qs)
           /\ ~PlayerLeft(gs, g, ps[p].seat)[g].seats[ps[p].seat]
<1>. DEFINE q == AfterLeaving(gs[g], ps[p].seat)
<1>1. gs \in Heap /\ gs[g] \in GameRecord /\ GameFits(gs[g], ps, g)
  BY DEF GamesFit, Heap
<1>2. \A w \in Person : SameSeat(ps, qs, w)
  BY DEF SamePerson
<1>3. \A w \in Person \ {p} : qs[w].inSet = ps[w].inSet
  BY DEF SamePerson
<1>4. /\ q \in GameRecord
      /\ GameFits(q, qs, g)
      /\ ~q.seats[ps[p].seat]
      /\ q.room \in {gs[g].room, NoRoom}
  BY <1>1, <1>2, <1>3, LeavingFits
<1>5. PlayerLeft(gs, g, ps[p].seat) = [gs EXCEPT ![g] = q]
  BY <1>1, PlayerLeftIs
<1>. HIDE DEF q
<1>6. \A w \in Person : \A h \in Game \ {g} :
                        ps[w].game = h \/ qs[w].game = h => SamePerson(ps, qs, w)
  BY DEF SameSeat
<1>7. GamesFit([gs EXCEPT ![g] = q], qs)
  BY <1>4, <1>6, AllFit, OneGameChanged
<1>8. [gs EXCEPT ![g] = q][g] = q
  BY <1>1 DEF Heap
<1>. QED
  BY <1>4, <1>5, <1>7, <1>8

\* vsx_person_free.
LEMMA PersonFreedFits ==
    ASSUME NEW gs, NEW ps, NEW qs, GamesFit(gs, ps), NEW p \in Person,
           persons[p].game \in Game, SameSeat(persons, ps, p),
           qs[p].game \notin Game,
           \A w \in Person \ {p} : SamePerson(ps, qs, w)
    PROVE  GamesFit(PersonFreed(p, gs), qs)
<1>. DEFINE g == persons[p].game
            s == persons[p].seat
            left == PlayerLeft(gs, g, s)
<1>1. g \in Game /\ ps[p].game = g /\ ps[p].seat = s
  BY DEF SameSeat
<1>2. PersonFreed(p, gs) = Unref(left, g)
  BY DEF PersonFreed
<1>. HIDE DEF g, s
<1>3. \A w \in Person : SamePerson(ps, ps, w)
  BY DEF SamePerson, SameSeat
<1>4. GamesFit(left, ps) /\ ~left[g].seats[s]
  BY <1>1, <1>3, PlayerLeftFits DEF SamePerson
<1>. HIDE DEF left
<1>. DEFINE q == IF left[g].ref = 1 THEN NoGame ELSE [left[g] EXCEPT !.ref = @ - 1]
<1>5. left \in Heap /\ left[g] \in GameRecord /\ GameFits(left[g], ps, g)
  BY <1>1, <1>4 DEF GamesFit, Heap
<1>6. qs[p].game # g
  BY <1>1
<1>7. q \in GameRecord /\ GameFits(q, qs, g) /\ q.room \in {left[g].room, NoRoom}
  BY <1>1, <1>4, <1>5, <1>6, GoingFits
<1>8. Unref(left, g) = [left EXCEPT ![g] = q]
  BY <1>1, <1>5, RefAndUnref
<1>. HIDE DEF q
<1>9. \A w \in Person : \A h \in Game \ {g} :
                        ps[w].game = h \/ qs[w].game = h => SamePerson(ps, qs, w)
  BY <1>1
<1>10. GamesFit([left EXCEPT ![g] = q], qs)
  BY <1>1, <1>4, <1>7, <1>9, AllFit, OneGameChanged
<1>. QED
  BY <1>2, <1>8, <1>10

\* remove_person of the person set.
LEMMA RemovedFromSetFits ==
    ASSUME NEW gs, NEW ps, NEW qs, GamesFit(gs, ps), NEW p \in Person,
           persons[p].game \in Game, SameSeat(persons, ps, p),
           IF persons[p].ref = 1 THEN qs[p].game \notin Game ELSE SameSeat(ps, qs, p),
           \A w \in Person \ {p} : SamePerson(ps, qs, w)
    PROVE  GamesFit(RemovedFromSet(p, gs), qs)
<1>. DEFINE left == PlayerLeft(gs, persons[p].game, persons[p].seat)
<1>1. ps[p].game = persons[p].game /\ ps[p].seat = persons[p].seat
  BY DEF SameSeat
<1>2. CASE persons[p].ref = 1
  <2>1. \A w \in Person : SamePerson(ps, ps, w)
    BY DEF SamePerson, SameSeat
  <2>2. GamesFit(left, ps)
    BY <1>1, <2>1, PlayerLeftFits DEF SamePerson
  <2>3. RemovedFromSet(p, gs) = PersonFreed(p, left)
    BY <1>2 DEF RemovedFromSet
  <2>. HIDE DEF left
  <2>4. qs[p].game \notin Game
    BY <1>2
  <2>. QED
    BY <2>2, <2>3, <2>4, PersonFreedFits
<1>3. CASE persons[p].ref # 1
  <2>1. GamesFit(left, qs)
    BY <1>1, <1>3, PlayerLeftFits
  <2>. QED
    BY <1>3, <2>1 DEF RemovedFromSet
<1>. QED
  BY <1>2, <1>3

-----------------------------------------------------------------------------
(* Several persons at once.                                                *)

LEMMA SameGamesFit ==
    ASSUME NEW gs, NEW ps, NEW qs, GamesFit(gs, ps),
           \A w \in Person : SamePerson(ps, qs, w)
    PROVE  GamesFit(gs, qs)
<1>1. ASSUME NEW h \in Game PROVE GameFits(gs[h], qs, h)
  <2>1. GameFits(gs[h], ps, h)
    BY DEF GamesFit
  <2>. QED
    BY <2>1, OtherGameFits
<1>. QED
  BY <1>1 DEF GamesFit

LEMMA StaysOnHeap ==
    ASSUME NEW p \in Person, persons[p].game \in Game, NEW gs \in Heap
    PROVE  PersonFreed(p, gs) \in Heap /\ RemovedFromSet(p, gs) \in Heap
<1>. DEFINE g == persons[p].game
            s == persons[p].seat
<1>1. ASSUME NEW hs \in Heap PROVE PersonFreed(p, hs) \in Heap
  <2>1. PlayerLeft(hs, g, s) \in Heap
    BY PlayerLeftIs
  <2>2. Unref(PlayerLeft(hs, g, s), g) \in Heap
    BY <2>1, RefAndUnref
  <2>. QED
    BY <2>2 DEF PersonFreed
<1>2. PlayerLeft(gs, g, s) \in Heap
  BY PlayerLeftIs
<1>3. PersonFreed(p, PlayerLeft(gs, g, s)) \in Heap
  BY <1>1, <1>2
<1>. QED
  BY <1>1, <1>2, <1>3 DEF RemovedFromSet

\* The persons without those in S.
Without(ps, S) == [p \in Person |-> IF p \in S THEN NoPerson ELSE ps[p]]

LEMMA NoPersonPlays == NoPerson.game \notin Game /\ NoPerson.inSet = FALSE
BY LobbyAssumption DEF NoPerson

\* Each of the persons in S is freed.
LEMMA AllFreedFit ==
    ASSUME NEW gs, NEW ps, GamesFit(gs, ps), NEW S \in SUBSET Person,
           \A p \in S : persons[p].game \in Game /\ SameSeat(persons, ps, p)
    PROVE  GamesFit(FoldSet(PersonFreed, gs, S), Without(ps, S))
<1>. DEFINE Rec(f) == f = [s \in SUBSET S |-> IF s = {} THEN gs
                             ELSE PersonFreed(AnyOf(s), f[s \ {AnyOf(s)}])]
            F == CHOOSE f : Rec(f)
            step == [x \in S |-> [h \in Heap |-> PersonFreed(x, h)]]
<1>1. FoldSet(PersonFreed, gs, S) = F[S]
  BY DEF FoldSet, MapThenFoldSet, AnyOf
<1>2. IsFiniteSet(S) /\ gs \in Heap
  BY FS_Subset, LobbyAssumption DEF GamesFit
<1>3. step \in [S -> [Heap -> Heap]]
  BY StaysOnHeap
<1>4. \E f : Rec(f)
  <2>. HIDE DEF step
  <2>0. IsFiniteSet(S) /\ step \in [S -> [Heap -> Heap]] /\ gs \in Heap
    BY <1>2, <1>3
  <2>1. PICK f : IsFold(f, S, Heap, gs, step)
    BY <2>0, FoldExists, Zenon
  <2>2. ASSUME NEW s \in SUBSET S, s # {}
        PROVE  step[AnyOf(s)][f[s \ {AnyOf(s)}]] = PersonFreed(AnyOf(s), f[s \ {AnyOf(s)}])
    <3>1. AnyOf(s) \in S
      BY <2>2 DEF AnyOf
    <3>2. f[s \ {AnyOf(s)}] \in Heap
      BY <2>1 DEF IsFold
    <3>. QED
      BY <3>1, <3>2 DEF step
  <2>3. Rec(f)
    BY <2>1, <2>2 DEF IsFold
  <2>. QED
    BY <2>3
<1>5. Rec(F)
  <2>. HIDE DEF Rec
  <2>. QED
    BY <1>4
<1>. HIDE DEF F, step
<1>6. F[{}] = gs
  BY <1>5
<1>7. ASSUME NEW s \in SUBSET S, s # {}
      PROVE  F[s] = PersonFreed(AnyOf(s), F[s \ {AnyOf(s)}])
  BY <1>5, <1>7
<1>. HIDE DEF Rec
<1>. DEFINE Ok == {s \in SUBSET S : GamesFit(F[s], Without(ps, s))}
<1>8. {} \in Ok
  <2>1. \A w \in Person : SamePerson(ps, Without(ps, {}), w)
    BY DEF SamePerson, SameSeat, Without
  <2>2. GamesFit(gs, Without(ps, {}))
    BY <2>1, SameGamesFit
  <2>. QED
    BY <1>6, <2>2
<1>9. ASSUME NEW s \in SUBSET S, s # {}, s \ {AnyOf(s)} \in Ok
      PROVE  s \in Ok
  <2>. DEFINE p == AnyOf(s)
              before == Without(ps, s \ {p})
              after == Without(ps, s)
  <2>1. p \in s /\ p \in Person
    BY <1>9 DEF AnyOf
  <2>2. F[s] = PersonFreed(p, F[s \ {p}]) /\ GamesFit(F[s \ {p}], before)
    BY <1>7, <1>9
  <2>. HIDE DEF p
  <2>3. persons[p].game \in Game /\ SameSeat(persons, before, p)
    BY <2>1 DEF SameSeat, Without
  <2>4. after[p].game \notin Game
    BY <2>1, NoPersonPlays DEF Without
  <2>5. \A w \in Person \ {p} : SamePerson(before, after, w)
    BY DEF SamePerson, SameSeat, Without
  <2>. HIDE DEF before, after
  <2>6. GamesFit(PersonFreed(p, F[s \ {p}]), after)
    BY <2>1, <2>2, <2>3, <2>4, <2>5, PersonFreedFits
  <2>. QED
    BY <2>2, <2>6 DEF after
<1>10. S \in Ok
  <2>1. Ok \in SUBSET SUBSET S
    OBVIOUS
  <2>. HIDE DEF Ok
  <2>. QED
    BY <1>2, <1>8, <1>9, <2>1, SubsetInduction
<1>. QED
  BY <1>1, <1>10

\* What is left when the set removes the persons in S.
Expelled(S) ==
    [p \in Person |-> IF p \notin S THEN persons[p]
                      ELSE IF persons[p].ref = 1 THEN NoPerson
                      ELSE [persons[p] EXCEPT !.inSet = FALSE]]

\* Each of the persons in S is removed from the set.
LEMMA AllRemovedFit ==
    ASSUME GamesFit(games, persons), NEW S \in SUBSET Person,
           persons \in [Person -> PersonRecord],
           \A p \in S : persons[p].game \in Game
    PROVE  GamesFit(FoldSet(RemovedFromSet, games, S), Expelled(S))
<1>. DEFINE Rec(f) == f = [s \in SUBSET S |-> IF s = {} THEN games
                             ELSE RemovedFromSet(AnyOf(s), f[s \ {AnyOf(s)}])]
            F == CHOOSE f : Rec(f)
            step == [x \in S |-> [h \in Heap |-> RemovedFromSet(x, h)]]
<1>1. FoldSet(RemovedFromSet, games, S) = F[S]
  BY DEF FoldSet, MapThenFoldSet, AnyOf
<1>2. IsFiniteSet(S) /\ games \in Heap
  BY FS_Subset, LobbyAssumption DEF GamesFit
<1>3. step \in [S -> [Heap -> Heap]]
  BY StaysOnHeap
<1>4. \E f : Rec(f)
  <2>. HIDE DEF step
  <2>0. IsFiniteSet(S) /\ step \in [S -> [Heap -> Heap]] /\ games \in Heap
    BY <1>2, <1>3
  <2>1. PICK f : IsFold(f, S, Heap, games, step)
    BY <2>0, FoldExists, Zenon
  <2>2. ASSUME NEW s \in SUBSET S, s # {}
        PROVE  step[AnyOf(s)][f[s \ {AnyOf(s)}]] = RemovedFromSet(AnyOf(s), f[s \ {AnyOf(s)}])
    <3>1. AnyOf(s) \in S
      BY <2>2 DEF AnyOf
    <3>2. f[s \ {AnyOf(s)}] \in Heap
      BY <2>1 DEF IsFold
    <3>. QED
      BY <3>1, <3>2 DEF step
  <2>3. Rec(f)
    BY <2>1, <2>2 DEF IsFold
  <2>. QED
    BY <2>3
<1>5. Rec(F)
  <2>. HIDE DEF Rec
  <2>. QED
    BY <1>4
<1>. HIDE DEF F, step
<1>6. F[{}] = games
  BY <1>5
<1>7. ASSUME NEW s \in SUBSET S, s # {}
      PROVE  F[s] = RemovedFromSet(AnyOf(s), F[s \ {AnyOf(s)}])
  BY <1>5, <1>7
<1>. HIDE DEF Rec
<1>. DEFINE Ok == {s \in SUBSET S : GamesFit(F[s], Expelled(s))}
<1>8. {} \in Ok
  <2>1. \A w \in Person : SamePerson(persons, Expelled({}), w)
    BY DEF SamePerson, SameSeat, Expelled
  <2>2. GamesFit(games, Expelled({}))
    BY <2>1, SameGamesFit
  <2>. QED
    BY <1>6, <2>2
<1>9. ASSUME NEW s \in SUBSET S, s # {}, s \ {AnyOf(s)} \in Ok
      PROVE  s \in Ok
  <2>. DEFINE p == AnyOf(s)
              before == Expelled(s \ {p})
              after == Expelled(s)
  <2>1. p \in s /\ p \in Person
    BY <1>9 DEF AnyOf
  <2>2. F[s] = RemovedFromSet(p, F[s \ {p}]) /\ GamesFit(F[s \ {p}], before)
    BY <1>7, <1>9
  <2>. HIDE DEF p
  <2>3. persons[p].game \in Game /\ SameSeat(persons, before, p)
    BY <2>1 DEF SameSeat, Expelled
  <2>4. IF persons[p].ref = 1 THEN after[p].game \notin Game ELSE SameSeat(before, after, p)
    <3>1. persons[p].ref # 1 => SameSeat(before, after, p)
      BY <2>1 DEF SameSeat, Expelled, PersonRecord
    <3>. QED
      BY <2>1, <3>1, NoPersonPlays DEF Expelled
  <2>5. \A w \in Person \ {p} : SamePerson(before, after, w)
    BY DEF SamePerson, SameSeat, Expelled
  <2>. HIDE DEF before, after
  <2>6. GamesFit(RemovedFromSet(p, F[s \ {p}]), after)
    BY <2>1, <2>2, <2>3, <2>4, <2>5, RemovedFromSetFits
  <2>. QED
    BY <2>2, <2>6 DEF after
<1>10. S \in Ok
  <2>1. Ok \in SUBSET SUBSET S
    OBVIOUS
  <2>. HIDE DEF Ok
  <2>. QED
    BY <1>2, <1>8, <1>9, <2>1, SubsetInduction
<1>. QED
  BY <1>1, <1>10

-----------------------------------------------------------------------------
(* Who enters a game, and what begins.                                     *)

LEMMA StartIs ==
    ASSUME NEW gs \in Heap, NEW g \in Game, gs[g].listed
    PROVE  \E q \in GameRecord :
             /\ Start(gs, g) = [gs EXCEPT ![g] = q]
             /\ q.started /\ q.ref = gs[g].ref /\ q.listed
             /\ q.seats = gs[g].seats /\ q.nConnected = gs[g].nConnected
             /\ q.room = IF gs[g].started THEN gs[g].room ELSE NoRoom
<1>. DEFINE r == gs[g]
            begun == [gs EXCEPT ![g].started = TRUE]
            m == [r EXCEPT !.started = TRUE]
            q == ShutIfStarted(m)
<1>1. r \in GameRecord
  BY DEF Heap
<1>2. CASE r.started
  BY <1>1, <1>2 DEF Start, Heap
<1>3. CASE ~r.started
  <2>1. /\ m \in GameRecord /\ m.started /\ m.ref = r.ref /\ m.listed
        /\ m.seats = r.seats /\ m.nConnected = r.nConnected
    BY <1>1 DEF GameRecord
  <2>2. begun = [gs EXCEPT ![g] = m]
    BY <1>1 DEF Heap
  <2>. HIDE DEF m, begun
  <2>3. begun \in Heap /\ begun[g] = m
    BY <2>1, <2>2 DEF Heap
  <2>4. /\ q \in GameRecord /\ q.started /\ q.ref = m.ref /\ q.listed
        /\ q.seats = m.seats /\ q.nConnected = m.nConnected /\ q.room = NoRoom
    BY <2>1 DEF ShutIfStarted, GameRecord
  <2>5. AfterChange(m, FALSE) = q
    BY <2>1 DEF AfterChange
  <2>. HIDE DEF q
  <2>6. Changed(begun, g, FALSE) = [begun EXCEPT ![g] = AfterChange(begun[g], FALSE)]
    <3>1. begun \in Heap
      BY <2>3
    <3>2. \A told \in BOOLEAN : Changed(begun, g, told) = [begun EXCEPT ![g] = AfterChange(begun[g], told)]
      BY <3>1, ChangedIs
    <3>. QED
      BY <3>2
  <2>7. Start(gs, g) = [gs EXCEPT ![g] = q]
    BY <1>3, <2>2, <2>3, <2>5, <2>6 DEF Start, begun, Heap
  <2>. QED
    BY <1>3, <2>1, <2>4, <2>7
<1>. QED
  BY <1>2, <1>3

LEMMA OneMoreSeat ==
    ASSUME NEW seats \in Seq(BOOLEAN)
    PROVE  LET more == Append(seats, TRUE) IN
           /\ more \in Seq(BOOLEAN)
           /\ Len(seats) \in Nat /\ Len(more) = Len(seats) + 1
           /\ DOMAIN seats = 1 .. Len(seats)
           /\ DOMAIN more = DOMAIN seats \cup {Len(seats) + 1}
           /\ \A i \in DOMAIN seats : more[i] = seats[i]
           /\ more[Len(seats) + 1] = TRUE
           /\ Len(seats) + 1 \notin DOMAIN seats
<1>. DEFINE more == Append(seats, TRUE)
            n == Len(seats)
<1>1. more \in Seq(BOOLEAN) /\ Len(more) = n + 1 /\ more[n + 1] = TRUE
      /\ \A i \in 1 .. n : more[i] = seats[i]
  BY AppendProperties
<1>2. n \in Nat /\ DOMAIN seats = 1 .. n /\ DOMAIN more = 1 .. n + 1
  BY <1>1, LenProperties
<1>. HIDE DEF more, n
<1>3. 1 .. n + 1 = (1 .. n) \cup {n + 1} /\ n + 1 \notin 1 .. n
  BY <1>2
<1>. QED
  BY <1>1, <1>2, <1>3 DEF more, n

LEMMA AddPlayerIs ==
    ASSUME NEW gs \in Heap, NEW g \in Game, gs[g].listed,
           gs[g].room # NoRoom => ~gs[g].started
    PROVE  \E q \in GameRecord :
             /\ AddPlayer(gs, g) = [gs EXCEPT ![g] = q]
             /\ q.seats = Append(gs[g].seats, TRUE)
             /\ q.nConnected = gs[g].nConnected + 1
             /\ q.ref = gs[g].ref /\ q.listed
             /\ q.room \in {gs[g].room, NoRoom}
             /\ q.room # NoRoom => ~q.started /\ Len(q.seats) < MaxPlayers
<1>. DEFINE r == gs[g]
            sat == [gs EXCEPT ![g].seats = Append(@, TRUE), ![g].nConnected = @ + 1]
            taken == [r EXCEPT !.seats = Append(@, TRUE)]
            m == [taken EXCEPT !.nConnected = @ + 1]
            seated == Changed(sat, g, TRUE)
            q == ShutIfStarted(m)
<1>1. r \in GameRecord /\ r.seats \in Seq(BOOLEAN)
  BY DEF Heap, GameRecord
<1>2. /\ Append(r.seats, TRUE) \in Seq(BOOLEAN)
      /\ \E s \in DOMAIN Append(r.seats, TRUE) : Append(r.seats, TRUE)[s]
      /\ Len(Append(r.seats, TRUE)) \in Nat
  <2>. DEFINE more == Append(r.seats, TRUE)
  <2>1. /\ more \in Seq(BOOLEAN) /\ Len(r.seats) \in Nat /\ Len(more) = Len(r.seats) + 1
        /\ DOMAIN more = DOMAIN r.seats \cup {Len(r.seats) + 1}
        /\ more[Len(r.seats) + 1] = TRUE
    BY <1>1, OneMoreSeat
  <2>. HIDE DEF more
  <2>2. \E s \in DOMAIN more : more[s]
    BY <2>1
  <2>. QED
    BY <2>1, <2>2 DEF more
<1>3. /\ taken \in GameRecord /\ taken.seats = Append(r.seats, TRUE)
      /\ taken.ref = r.ref /\ taken.listed /\ taken.room = r.room
      /\ taken.started = r.started /\ taken.nConnected = r.nConnected
  BY <1>1, <1>2 DEF GameRecord
<1>4. sat = [gs EXCEPT ![g] = m]
  BY <1>1, <1>3 DEF Heap, GameRecord
<1>. HIDE DEF taken
<1>5. /\ m \in GameRecord /\ m.seats = Append(r.seats, TRUE)
      /\ m.ref = r.ref /\ m.listed /\ m.room = r.room
      /\ m.started = r.started /\ m.nConnected = r.nConnected + 1
  <2>1. taken \in GameRecord
    BY <1>3
  <2>2. /\ m \in GameRecord /\ m.seats = taken.seats
        /\ m.ref = taken.ref /\ m.listed = taken.listed /\ m.room = taken.room
        /\ m.started = taken.started /\ m.nConnected = taken.nConnected + 1
    BY <2>1 DEF GameRecord
  <2>. HIDE DEF m
  <2>. QED
    BY <1>3, <2>2
<1>. HIDE DEF m, sat
<1>6. sat \in Heap /\ sat[g] = m
  BY <1>4, <1>5 DEF Heap
<1>7. /\ q \in GameRecord /\ q.seats = m.seats /\ q.ref = m.ref /\ q.listed
      /\ q.room = (IF m.started THEN NoRoom ELSE m.room)
      /\ q.started = m.started /\ q.nConnected = m.nConnected
  BY <1>5 DEF ShutIfStarted, GameRecord
<1>8. AfterChange(m, TRUE) = q
  <2>1. ~AllGone(m)
    BY <1>2, <1>5 DEF AllGone
  <2>. QED
    BY <1>5, <2>1 DEF AfterChange
<1>. HIDE DEF q
<1>9. seated = [gs EXCEPT ![g] = q] /\ seated \in Heap
  <2>1. /\ Changed(sat, g, TRUE) = [sat EXCEPT ![g] = AfterChange(sat[g], TRUE)]
        /\ Changed(sat, g, TRUE) \in Heap
    <3>1. sat \in Heap
      BY <1>6
    <3>. QED
      BY <3>1, ChangedIs
  <2>2. [sat EXCEPT ![g] = q] = [gs EXCEPT ![g] = q]
    BY <1>4 DEF Heap
  <2>. QED
    BY <1>6, <1>8, <2>1, <2>2
<1>10. AddPlayer(gs, g) = IF Len(seated[g].seats) >= MaxPlayers THEN Start(seated, g) ELSE seated
  BY DEF AddPlayer, sat
<1>. HIDE DEF seated
<1>11. seated[g] = q
  BY <1>9 DEF Heap
<1>12. CASE Len(q.seats) >= MaxPlayers
  <2>0. seated[g].listed
    BY <1>7, <1>11
  <2>1. PICK z \in GameRecord :
             /\ Start(seated, g) = [seated EXCEPT ![g] = z]
             /\ z.started /\ z.ref = seated[g].ref /\ z.listed
             /\ z.seats = seated[g].seats /\ z.nConnected = seated[g].nConnected
             /\ z.room = IF seated[g].started THEN seated[g].room ELSE NoRoom
    BY <1>9, <2>0, StartIs
  <2>2. z.room = NoRoom
    BY <1>5, <1>7, <1>11, <2>1
  <2>3. [seated EXCEPT ![g] = z] = [gs EXCEPT ![g] = z]
    BY <1>9 DEF Heap
  <2>4. AddPlayer(gs, g) = [gs EXCEPT ![g] = z]
    BY <1>10, <1>11, <1>12, <2>1, <2>3
  <2>. QED
    BY <1>5, <1>7, <1>11, <2>1, <2>2, <2>4
<1>13. CASE ~(Len(q.seats) >= MaxPlayers)
  <2>1. AddPlayer(gs, g) = [gs EXCEPT ![g] = q]
    BY <1>9, <1>10, <1>11, <1>13
  <2>2. Len(q.seats) \in Nat /\ MaxPlayers \in Nat
    BY <1>2, <1>5, <1>7, LobbyAssumption
  <2>3. Len(q.seats) < MaxPlayers
    BY <1>13, <2>2
  <2>. QED
    BY <1>5, <1>7, <2>1, <2>3
<1>. QED
  BY <1>12, <1>13

\* The game that the handler found for a new person, before the person has it:
\* whoever sits there is right, and one more reference is counted if the
\* handler was given it.
FitsToEnter(r, ps, g, given) ==
    /\ r \in GameRecord
    /\ r.ref = Cardinality(Sitting(ps, g)) + 1 + (IF given THEN 1 ELSE 0)
    /\ r.listed
    /\ SeatsRight(r, ps, g)
    /\ r.nConnected = Cardinality(Playing(r))
    /\ Len(r.seats) < MaxPlayers
    /\ r.room # NoRoom => ~r.started

\* A person, who was at no game, takes the next seat.
LEMMA SeatedFits ==
    ASSUME NEW g \in Game, NEW ps, NEW qs, NEW r, FitsToEnter(r, ps, g, FALSE),
           NEW p \in Person, ps[p].game # g,
           qs[p].game = g, qs[p].inSet, qs[p].seat = Len(r.seats) + 1,
           \A w \in Person \ {p} : SamePerson(ps, qs, w),
           NEW q \in GameRecord,
           q.seats = Append(r.seats, TRUE), q.nConnected = r.nConnected + 1,
           q.ref = r.ref + 1, q.listed,
           q.room # NoRoom => ~q.started /\ Len(q.seats) < MaxPlayers
    PROVE  GameFits(q, qs, g)
<1>. DEFINE n == Len(r.seats)
<1>1. /\ n \in Nat /\ DOMAIN r.seats = 1 .. n /\ n + 1 \notin DOMAIN r.seats
      /\ Len(q.seats) = n + 1 /\ q.seats[n + 1] = TRUE
      /\ DOMAIN q.seats = DOMAIN r.seats \cup {n + 1}
      /\ \A i \in DOMAIN r.seats : q.seats[i] = r.seats[i]
  <2>. DEFINE old == r.seats
              more == Append(old, TRUE)
  <2>1. old \in Seq(BOOLEAN)
    BY DEF FitsToEnter, GameRecord
  <2>2. q.seats = more
    OBVIOUS
  <2>. HIDE DEF old
  <2>3. /\ more \in Seq(BOOLEAN)
        /\ Len(old) \in Nat /\ Len(more) = Len(old) + 1
        /\ DOMAIN old = 1 .. Len(old)
        /\ DOMAIN more = DOMAIN old \cup {Len(old) + 1}
        /\ \A i \in DOMAIN old : more[i] = old[i]
        /\ more[Len(old) + 1] = TRUE
        /\ Len(old) + 1 \notin DOMAIN old
    BY <2>1, OneMoreSeat
  <2>. HIDE DEF more
  <2>. QED
    BY <2>2, <2>3 DEF old
<1>. HIDE DEF n
<1>2. Sitting(qs, g) = Sitting(ps, g) \cup {p} /\ p \notin Sitting(ps, g)
  BY DEF Sitting, SamePerson, SameSeat
<1>3. Playing(q) = Playing(r) \cup {n + 1} /\ n + 1 \notin Playing(r)
  BY <1>1 DEF Playing
<1>4. /\ Cardinality(Sitting(qs, g)) = Cardinality(Sitting(ps, g)) + 1
      /\ Cardinality(Playing(q)) = Cardinality(Playing(r)) + 1
  <2>1. r \in GameRecord
    BY DEF FitsToEnter
  <2>2. IsFiniteSet(Sitting(ps, g)) /\ IsFiniteSet(Playing(r))
    BY <2>1, SitAndPlay
  <2>3. Cardinality(Sitting(ps, g) \cup {p}) = Cardinality(Sitting(ps, g)) + 1
    BY <1>2, <2>2, FS_AddElement
  <2>4. Cardinality(Playing(r) \cup {n + 1}) = Cardinality(Playing(r)) + 1
    BY <1>3, <2>2, FS_AddElement
  <2>. QED
    BY <1>2, <1>3, <2>3, <2>4
<1>5. \A w \in Sitting(ps, g) : /\ w # p /\ qs[w].seat = ps[w].seat /\ qs[w].inSet = ps[w].inSet
                                /\ ps[w].seat \in DOMAIN r.seats
  BY <1>2 DEF SamePerson, SameSeat, Sitting, FitsToEnter, SeatsRight
<1>6. RefsRight(q, qs, g)
  <2>1. Cardinality(Sitting(ps, g)) \in Nat
    BY SitAndPlay
  <2>2. r.ref = Cardinality(Sitting(ps, g)) + 1
    BY <2>1 DEF FitsToEnter
  <2>. QED
    BY <1>4, <2>1, <2>2 DEF RefsRight
<1>7. SeatsRight(q, qs, g)
  <2>1. \A w \in Sitting(qs, g) : qs[w].seat \in DOMAIN q.seats
    BY <1>1, <1>2, <1>5
  <2>2. ASSUME NEW v \in Sitting(qs, g), NEW w \in Sitting(qs, g), qs[v].seat = qs[w].seat
        PROVE  v = w
    <3>1. CASE v = p \/ w = p
      BY <1>1, <1>2, <1>5, <2>2, <3>1
    <3>2. CASE v # p /\ w # p
      BY <1>2, <1>5, <2>2, <3>2 DEF FitsToEnter, SeatsRight
    <3>. QED
      BY <3>1, <3>2
  <2>3. ASSUME NEW s \in Playing(q)
        PROVE  \E w \in Sitting(qs, g) : qs[w].inSet /\ qs[w].seat = s
    <3>1. CASE s = n + 1
      BY <1>2, <3>1 DEF n
    <3>2. CASE s \in Playing(r)
      <4>1. PICK w \in Sitting(ps, g) : ps[w].inSet /\ ps[w].seat = s
        BY <3>2 DEF FitsToEnter, SeatsRight
      <4>. QED
        BY <1>2, <1>5, <4>1
    <3>. QED
      BY <1>3, <3>1, <3>2
  <2>. QED
    BY <2>1, <2>2, <2>3 DEF SeatsRight
<1>8. ListedRight(q)
  <2>1. n < MaxPlayers /\ MaxPlayers \in Nat
    BY LobbyAssumption DEF FitsToEnter, n
  <2>2. Len(q.seats) <= MaxPlayers
    BY <1>1, <2>1
  <2>3. q.nConnected = Cardinality(Playing(q))
    BY <1>4 DEF FitsToEnter
  <2>. QED
    BY <1>3, <2>2, <2>3 DEF ListedRight
<1>9. OpenRight(q)
  BY DEF OpenRight
<1>. QED
  BY <1>6, <1>7, <1>8, <1>9 DEF GameFits

\* What EnterGame does to the game that was found.
EnteredGames(gs, g, given) ==
    LET seated == AddPlayer(Ref(gs, g), g) IN IF given THEN Unref(seated, g) ELSE seated

LEMMA EnteringFits ==
    ASSUME NEW gs, NEW ps, NEW qs, NEW g \in Game, NEW given \in BOOLEAN, OthersFit(gs, ps, g),
           FitsToEnter(gs[g], ps, g, given),
           NEW p \in Person, ps[p].game \notin Game,
           qs[p].game = g, qs[p].inSet, qs[p].seat = Len(gs[g].seats) + 1,
           \A w \in Person \ {p} : SamePerson(ps, qs, w)
    PROVE  GamesFit(EnteredGames(gs, g, given), qs)
<1>. DEFINE r == gs[g]
            kept == Ref(gs, g)
            m == [r EXCEPT !.ref = @ + 1]
            seated == AddPlayer(kept, g)
            count == Cardinality(Sitting(ps, g))
<1>1. gs \in Heap /\ r \in GameRecord
  BY DEF OthersFit, FitsToEnter
<1>2. /\ m \in GameRecord /\ m.ref = r.ref + 1 /\ m.listed = r.listed /\ m.room = r.room
      /\ m.started = r.started /\ m.seats = r.seats /\ m.nConnected = r.nConnected
  BY <1>1 DEF GameRecord
<1>3. kept = [gs EXCEPT ![g] = m] /\ kept \in Heap
  BY <1>1, RefAndUnref
<1>. HIDE DEF kept, m
<1>4. kept[g] = m
  BY <1>1, <1>3 DEF Heap
<1>5. kept[g].listed /\ (kept[g].room # NoRoom => ~kept[g].started)
  BY <1>2, <1>4 DEF FitsToEnter
<1>6. PICK z \in GameRecord :
             /\ AddPlayer(kept, g) = [kept EXCEPT ![g] = z]
             /\ z.seats = Append(kept[g].seats, TRUE)
             /\ z.nConnected = kept[g].nConnected + 1
             /\ z.ref = kept[g].ref /\ z.listed
             /\ z.room \in {kept[g].room, NoRoom}
             /\ z.room # NoRoom => ~z.started /\ Len(z.seats) < MaxPlayers
  <2>1. kept \in Heap
    BY <1>3
  <2>. QED
    BY <1>5, <2>1, AddPlayerIs
<1>7. seated = [gs EXCEPT ![g] = z] /\ seated \in Heap /\ seated[g] = z
  BY <1>1, <1>3, <1>6 DEF Heap
<1>8. count \in Nat /\ r.ref = count + 1 + (IF given THEN 1 ELSE 0)
  BY SitAndPlay DEF FitsToEnter
<1>. HIDE DEF count, seated
<1>. DEFINE q == [z EXCEPT !.ref = count + 2]
            low == [r EXCEPT !.ref = count + 1]
<1>9. /\ q \in GameRecord /\ q.ref = count + 2 /\ q.listed = z.listed /\ q.room = z.room
      /\ q.started = z.started /\ q.seats = z.seats /\ q.nConnected = z.nConnected
  BY <1>8 DEF GameRecord
<1>10. /\ low \in GameRecord /\ low.ref = count + 1 /\ low.listed = r.listed /\ low.room = r.room
       /\ low.started = r.started /\ low.seats = r.seats /\ low.nConnected = r.nConnected
  <2>. DEFINE n == count + 1
  <2>1. r \in GameRecord /\ n \in Int
    BY <1>1, <1>8
  <2>. HIDE DEF n, r
  <2>2. /\ [r EXCEPT !.ref = n] \in GameRecord /\ [r EXCEPT !.ref = n].ref = n
        /\ [r EXCEPT !.ref = n].listed = r.listed /\ [r EXCEPT !.ref = n].room = r.room
        /\ [r EXCEPT !.ref = n].started = r.started /\ [r EXCEPT !.ref = n].seats = r.seats
        /\ [r EXCEPT !.ref = n].nConnected = r.nConnected
    BY <2>1 DEF GameRecord
  <2>. QED
    BY <2>2 DEF n
<1>11. EnteredGames(gs, g, given) = [gs EXCEPT ![g] = q]
  <2>1. z.ref = count + 2 + (IF given THEN 1 ELSE 0)
    BY <1>2, <1>4, <1>6, <1>8
  <2>2. CASE given
    <3>1. z.ref # 1 /\ z.ref - 1 = count + 2
      BY <1>8, <2>1, <2>2
    <3>0. Unref(seated, g) = [seated EXCEPT ![g] = IF seated[g].ref = 1 THEN NoGame
                                                  ELSE [seated[g] EXCEPT !.ref = @ - 1]]
      <4>1. seated \in Heap
        BY <1>7
      <4>. QED
        BY <4>1, RefAndUnref
    <3>2. Unref(seated, g) = [seated EXCEPT ![g] = [seated[g] EXCEPT !.ref = @ - 1]]
      BY <1>7, <3>0, <3>1
    <3>3. [seated[g] EXCEPT !.ref = @ - 1] = q
      BY <1>7, <3>1 DEF GameRecord
    <3>4. [seated EXCEPT ![g] = q] = [gs EXCEPT ![g] = q]
      BY <1>1, <1>7 DEF Heap
    <3>. QED
      BY <2>2, <3>2, <3>3, <3>4 DEF EnteredGames, seated, kept
  <2>3. CASE ~given
    <3>1. z.ref = count + 2
      BY <1>8, <2>1, <2>3
    <3>2. q = z
      BY <3>1 DEF GameRecord
    <3>. QED
      BY <1>7, <2>3, <3>2 DEF EnteredGames, seated, kept
  <2>. QED
    BY <2>2, <2>3
<1>. HIDE DEF q, low
<1>12. FitsToEnter(low, ps, g, FALSE)
  <2>1. Playing(low) = Playing(r)
    BY <1>10 DEF Playing
  <2>2. SeatsRight(low, ps, g)
    BY <1>10, <2>1 DEF FitsToEnter, SeatsRight
  <2>3. low.ref = count + 1 + (IF FALSE THEN 1 ELSE 0)
    BY <1>8, <1>10
  <2>. QED
    BY <1>10, <2>1, <2>2, <2>3 DEF FitsToEnter, count
<1>13. GameFits(q, qs, g)
  <2>1. /\ q.seats = Append(low.seats, TRUE) /\ q.nConnected = low.nConnected + 1
        /\ q.ref = low.ref + 1 /\ q.listed
        /\ q.room # NoRoom => ~q.started /\ Len(q.seats) < MaxPlayers
    BY <1>2, <1>4, <1>6, <1>8, <1>9, <1>10
  <2>2. ps[p].game # g /\ qs[p].seat = Len(low.seats) + 1
    BY <1>10
  <2>. QED
    BY <1>9, <1>12, <2>1, <2>2, SeatedFits
<1>14. q.room \in {gs[g].room, NoRoom}
  BY <1>2, <1>4, <1>6, <1>9
<1>15. \A w \in Person : \A h \in Game \ {g} :
         ps[w].game = h \/ qs[w].game = h => SamePerson(ps, qs, w)
  OBVIOUS
<1>16. GamesFit([gs EXCEPT ![g] = q], qs)
  BY <1>9, <1>13, <1>14, <1>15, OneGameChanged
<1>. QED
  BY <1>11, <1>16

-----------------------------------------------------------------------------
(* Persons and the connections that speak for them.                        *)

LEMMA OldestIs == Oldest \in Nat /\ Oldest > SilenceTime /\ Oldest >= ResponseTime
<1>. DEFINE ages == {SilenceTime + 1, ResponseTime}
<1>1. \E x \in ages : \A y \in ages : x >= y
  BY LobbyAssumption
<1>2. Oldest \in ages /\ \A y \in ages : Oldest >= y
  BY <1>1 DEF Oldest, Max
<1>. QED
  BY <1>2, LobbyAssumption

LEMMA NoOneSpeaks ==
    /\ NoPerson \in PersonRecord /\ NoPerson.ref = 0 /\ ~NoPerson.inSet
    /\ NoConn \in ConnRecord /\ NoConn.person = NoOne /\ ~NoConn.open /\ NoOne \notin Person
BY OldestIs, LobbyAssumption DEF NoPerson, NoConn, PersonRecord, ConnRecord

LEMMA SpeakingCount ==
    \A cs, p : IsFiniteSet(Speaking(cs, p)) /\ Cardinality(Speaking(cs, p)) \in Nat
<1>1. SUFFICES ASSUME NEW cs, NEW p
               PROVE  IsFiniteSet(Speaking(cs, p)) /\ Cardinality(Speaking(cs, p)) \in Nat
  OBVIOUS
<1>2. Speaking(cs, p) \in SUBSET Conn
  BY DEF Speaking
<1>. QED
  BY <1>2, FS_Subset, FS_CardinalityType, LobbyAssumption

LEMMA NoPersonFits ==
    ASSUME NEW cs, NEW p, Speaking(cs, p) = {}
    PROVE  PersonFits(NoPerson, cs, p)
BY FS_EmptySet DEF PersonFits, NoPerson

\* A person whom nothing happens to.
LEMMA SamePersonFits ==
    ASSUME NEW r, NEW p, NEW cs, NEW ds, PersonFits(r, cs, p),
           Speaking(ds, p) = Speaking(cs, p),
           \A c \in Speaking(cs, p) :
             ds[c].bad \/ (~cs[c].bad /\ ds[c].age = cs[c].age)
    PROVE  PersonFits(r, ds, p)
BY DEF PersonFits

\* One connection changes, and with it the persons it spoke or speaks for.
LEMMA OneConnChanged ==
    ASSUME NEW ps, NEW qs \in [Person -> PersonRecord], NEW cs, PersonsFit(ps, cs),
           NEW c \in Conn, NEW d \in ConnRecord, ~d.open => d.person = NoOne,
           \A p \in Person :
             qs[p] # ps[p] \/ p = d.person \/ p = cs[c].person
               => PersonFits(qs[p], [cs EXCEPT ![c] = d], p)
    PROVE  PersonsFit(qs, [cs EXCEPT ![c] = d])
<1>. DEFINE ds == [cs EXCEPT ![c] = d]
<1>1. cs \in [Conn -> ConnRecord]
  BY DEF PersonsFit
<1>2. ds \in [Conn -> ConnRecord] /\ ds[c] = d /\ \A b \in Conn \ {c} : ds[b] = cs[b]
  BY <1>1
<1>. HIDE DEF ds
<1>3. \A b \in Conn : ~ds[b].open => ds[b].person = NoOne
  BY <1>2 DEF PersonsFit
<1>4. ASSUME NEW p \in Person, qs[p] = ps[p], p # d.person, p # cs[c].person
      PROVE  PersonFits(qs[p], ds, p)
  <2>1. Speaking(ds, p) = Speaking(cs, p) /\ c \notin Speaking(cs, p)
    BY <1>2, <1>4 DEF Speaking
  <2>2. \A b \in Speaking(cs, p) : ds[b] = cs[b]
    BY <1>2, <2>1 DEF Speaking
  <2>3. PersonFits(ps[p], cs, p)
    BY DEF PersonsFit
  <2>4. \A b \in Speaking(cs, p) : cs[b].bad \in BOOLEAN
    BY <1>1 DEF Speaking, ConnRecord
  <2>5. PersonFits(ps[p], ds, p)
    BY <2>1, <2>2, <2>3, <2>4, SamePersonFits
  <2>. QED
    BY <1>4, <2>5
<1>5. \A p \in Person : PersonFits(qs[p], ds, p)
  BY <1>4 DEF ds
<1>. QED
  BY <1>2, <1>3, <1>5 DEF PersonsFit, ds

\* A connection that speaks for nobody, or of which nothing more is read.
LEMMA ConnMayChange ==
    ASSUME NEW ps, NEW cs, PersonsFit(ps, cs), NEW c \in Conn, NEW d \in ConnRecord,
           d.person = cs[c].person, ~d.open => d.person = NoOne,
           d.bad \/ d.person = NoOne
    PROVE  PersonsFit(ps, [cs EXCEPT ![c] = d])
<1>. DEFINE ds == [cs EXCEPT ![c] = d]
<1>1. ps \in [Person -> PersonRecord] /\ cs \in [Conn -> ConnRecord]
  BY DEF PersonsFit
<1>2. ds[c] = d /\ \A b \in Conn \ {c} : ds[b] = cs[b]
  BY <1>1
<1>. HIDE DEF ds
<1>3. ASSUME NEW p \in Person, p = d.person PROVE PersonFits(ps[p], ds, p)
  <2>1. Speaking(ds, p) = Speaking(cs, p)
    BY <1>2 DEF Speaking
  <2>2. d.bad
    BY <1>3, NoOneSpeaks
  <2>3. \A b \in Speaking(cs, p) : ds[b].bad \/ (~cs[b].bad /\ ds[b].age = cs[b].age)
    BY <1>1, <1>2, <2>2 DEF Speaking
  <2>4. PersonFits(ps[p], cs, p)
    BY DEF PersonsFit
  <2>. QED
    BY <2>1, <2>3, <2>4, SamePersonFits
<1>. QED
  BY <1>1, <1>3, OneConnChanged DEF ds

\* A connection begins to speak for p, who is new or comes back.
LEMMA JoinsFit ==
    ASSUME NEW ps, NEW cs, PersonsFit(ps, cs), NEW c \in Conn,
           cs[c].open, cs[c].person = NoOne,
           NEW p \in Person, NEW r \in PersonRecord,
           r.inSet, r.game \in Game, r.age = 0,
           r.ref = ps[p].ref + (IF ps[p].inSet THEN 1 ELSE 2)
    PROVE  PersonsFit([ps EXCEPT ![p] = r], [cs EXCEPT ![c].person = p, ![c].age = 0])
<1>. DEFINE d == [cs[c] EXCEPT !.person = p, !.age = 0]
            ds == [cs EXCEPT ![c] = d]
            qs == [ps EXCEPT ![p] = r]
<1>1. ps \in [Person -> PersonRecord] /\ cs \in [Conn -> ConnRecord] /\ 0 \in 0 .. Oldest
  BY OldestIs DEF PersonsFit
<1>2. d \in ConnRecord /\ d.person = p /\ d.age = 0 /\ d.open
  BY <1>1 DEF ConnRecord
<1>3. [cs EXCEPT ![c].person = p, ![c].age = 0] = ds
  BY <1>1
<1>. HIDE DEF d
<1>4. qs \in [Person -> PersonRecord] /\ qs[p] = r /\ \A w \in Person \ {p} : qs[w] = ps[w]
  BY <1>1
<1>5. ds[c] = d /\ \A b \in Conn \ {c} : ds[b] = cs[b]
  BY <1>1
<1>. HIDE DEF ds, qs
<1>6. PersonFits(r, ds, p)
  <2>1. Speaking(ds, p) = Speaking(cs, p) \cup {c} /\ c \notin Speaking(cs, p)
    BY <1>2, <1>5, NoOneSpeaks DEF Speaking
  <2>. DEFINE count == Cardinality(Speaking(cs, p))
  <2>2. Cardinality(Speaking(ds, p)) = count + 1 /\ count \in Nat
    <3>. DEFINE before == Speaking(cs, p)
    <3>1. IsFiniteSet(before) /\ Cardinality(before) \in Nat /\ c \notin before
      BY <2>1, SpeakingCount
    <3>. HIDE DEF before
    <3>2. Cardinality(before \cup {c}) = Cardinality(before) + 1
      BY <3>1, FS_AddElement
    <3>. QED
      BY <2>1, <3>1, <3>2 DEF before
  <2>3. ps[p].ref = count + (IF ps[p].inSet THEN 1 ELSE 0)
    BY DEF PersonsFit, PersonFits
  <2>. HIDE DEF count
  <2>4. r.ref = count + 2
    BY <2>2, <2>3
  <2>5. \A b \in Speaking(ds, p) : r.age <= ds[b].age
    BY <1>1, <1>2, <1>5, OldestIs DEF Speaking, ConnRecord
  <2>. QED
    BY <2>2, <2>4, <2>5 DEF PersonFits
<1>7. \A w \in Person : qs[w] # ps[w] \/ w = d.person \/ w = cs[c].person
                          => PersonFits(qs[w], ds, w)
  BY <1>2, <1>4, <1>6, NoOneSpeaks
<1>8. PersonsFit(qs, ds)
  BY <1>2, <1>4, <1>7, OneConnChanged DEF ds
<1>. QED
  BY <1>3, <1>8 DEF qs

\* A connection makes itself heard for the person it speaks for.
LEMMA NoiseFits ==
    ASSUME NEW ps, NEW cs, PersonsFit(ps, cs), NEW c \in Conn,
           NEW p \in Person, cs[c].person = p
    PROVE  PersonsFit([ps EXCEPT ![p].age = 0], [cs EXCEPT ![c].person = p, ![c].age = 0])
<1>. DEFINE d == [cs[c] EXCEPT !.person = p, !.age = 0]
            ds == [cs EXCEPT ![c] = d]
            r == [ps[p] EXCEPT !.age = 0]
            qs == [ps EXCEPT ![p] = r]
<1>1. ps \in [Person -> PersonRecord] /\ cs \in [Conn -> ConnRecord] /\ 0 \in 0 .. Oldest
  BY OldestIs DEF PersonsFit
<1>2. d \in ConnRecord /\ d.person = p /\ d.age = 0 /\ d.open = cs[c].open
  BY <1>1 DEF ConnRecord
<1>3. [cs EXCEPT ![c].person = p, ![c].age = 0] = ds /\ [ps EXCEPT ![p].age = 0] = qs
  BY <1>1
<1>4. r \in PersonRecord /\ r.age = 0 /\ r.ref = ps[p].ref /\ r.inSet = ps[p].inSet
      /\ r.game = ps[p].game /\ r.seat = ps[p].seat
  BY <1>1 DEF PersonRecord
<1>. HIDE DEF d
<1>5. qs \in [Person -> PersonRecord] /\ qs[p] = r /\ \A w \in Person \ {p} : qs[w] = ps[w]
  BY <1>1, <1>4
<1>6. ds[c] = d /\ \A b \in Conn \ {c} : ds[b] = cs[b]
  BY <1>1
<1>7. d.open
  BY <1>2, NoOneSpeaks DEF PersonsFit
<1>. HIDE DEF ds, qs, r
<1>8. PersonFits(r, ds, p)
  <2>1. Speaking(ds, p) = Speaking(cs, p) /\ c \in Speaking(cs, p)
    BY <1>2, <1>6 DEF Speaking
  <2>2. PersonFits(ps[p], cs, p)
    BY DEF PersonsFit
  <2>3. Cardinality(Speaking(cs, p)) # 0
    BY <2>1, SpeakingCount, FS_EmptySet
  <2>4. r.ref # 0
    BY <1>4, <2>2, <2>3, SpeakingCount DEF PersonFits
  <2>5. \A b \in Speaking(ds, p) : r.age <= ds[b].age
    BY <1>1, <1>2, <1>4, <1>6, OldestIs DEF Speaking, ConnRecord
  <2>. QED
    BY <1>4, <2>1, <2>2, <2>4, <2>5 DEF PersonFits
<1>9. \A w \in Person : qs[w] # ps[w] \/ w = d.person \/ w = cs[c].person
                          => PersonFits(qs[w], ds, w)
  BY <1>2, <1>5, <1>8
<1>10. PersonsFit(qs, ds)
  BY <1>2, <1>5, <1>7, <1>9, OneConnChanged DEF ds
<1>. QED
  BY <1>3, <1>10

\* Connection c speaks for whom it spoke for, and has not been quiet for longer,
\* if it speaks at all.
StillSpeaks(cs, ds, c) ==
    /\ ds[c].person = cs[c].person
    /\ \/ ds[c].person = NoOne
       \/ ds[c].bad
       \/ ~cs[c].bad /\ ds[c].age = cs[c].age

\* What is left when the connections in C are freed and the set removes the
\* persons in P.
LEMMA LeftPersonsFit ==
    ASSUME PersonsFit(persons, conns), NEW C \in SUBSET Conn, NEW P \in SUBSET People,
           NEW ds \in [Conn -> ConnRecord],
           \A c \in Conn : ~ds[c].open => ds[c].person = NoOne,
           \A c \in C : ds[c].person = NoOne,
           \A c \in Conn \ C : StillSpeaks(conns, ds, c)
    PROVE  PersonsFit(PersonsWithout(C, P), ds)
<1>1. SUFFICES ASSUME NEW p \in Person
               PROVE  /\ PersonsWithout(C, P)[p] \in PersonRecord
                      /\ PersonFits(PersonsWithout(C, P)[p], ds, p)
  <2>1. \A p \in Person : PersonsWithout(C, P)[p] \in PersonRecord
    BY <1>1
  <2>. DEFINE qs == PersonsWithout(C, P)
  <2>2. qs = [p \in Person |-> qs[p]]
    BY DEF PersonsWithout
  <2>. HIDE DEF qs
  <2>3. qs \in [Person -> PersonRecord]
    BY <2>1, <2>2 DEF qs
  <2>. QED
    BY <1>1, <2>3 DEF PersonsFit, qs
<1>. DEFINE r == persons[p]
            lost == LostRefs(p, C, P)
            spoke == Speaking(conns, p)
            cut == {c \in C : conns[c].person = p}
            q == [r EXCEPT !.ref = @ - lost, !.inSet = @ /\ p \notin P,
                           !.age = IF p \in P THEN 0 ELSE @]
<1>2. /\ r \in PersonRecord /\ conns \in [Conn -> ConnRecord] /\ PersonFits(r, conns, p)
      /\ (p \in P => r.inSet)
  BY DEF PersonsFit, People
<1>3. Speaking(ds, p) = spoke \ cut /\ cut \in SUBSET spoke
  BY NoOneSpeaks DEF Speaking, StillSpeaks
<1>4. /\ Cardinality(spoke) \in Nat /\ Cardinality(cut) \in Nat
      /\ Cardinality(Speaking(ds, p)) \in Nat
      /\ Cardinality(Speaking(ds, p)) = Cardinality(spoke) - Cardinality(cut)
  <2>1. IsFiniteSet(spoke) /\ Cardinality(spoke) \in Nat
    BY SpeakingCount
  <2>. HIDE DEF spoke, cut
  <2>2. IsFiniteSet(cut)
    BY <1>3, <2>1, FS_Subset
  <2>3. Cardinality(spoke \ cut) = Cardinality(spoke) - Cardinality(spoke \cap cut)
    BY <2>1, <2>2, FS_Difference
  <2>4. spoke \cap cut = cut
    BY <1>3
  <2>. QED
    BY <1>3, <2>1, <2>2, <2>3, <2>4, SpeakingCount, FS_CardinalityType
<1>5. lost = Cardinality(cut) + (IF p \in P THEN 1 ELSE 0)
  BY DEF LostRefs
<1>6. r.ref = Cardinality(spoke) + (IF r.inSet THEN 1 ELSE 0)
  BY <1>2 DEF PersonFits
<1>. DEFINE before == Cardinality(spoke)
            gone == Cardinality(cut)
            after == Cardinality(Speaking(ds, p))
<1>7. /\ r.ref = before + (IF r.inSet THEN 1 ELSE 0)
      /\ lost = gone + (IF p \in P THEN 1 ELSE 0)
      /\ before \in Nat /\ gone \in Nat /\ after \in Nat /\ after = before - gone
      /\ r.ref \in Nat /\ r.inSet \in BOOLEAN
  BY <1>2, <1>4, <1>5, <1>6 DEF PersonRecord
<1>. HIDE DEF before, gone, after
<1>8. /\ lost \in Nat
      /\ r.ref - lost = after + (IF r.inSet /\ p \notin P THEN 1 ELSE 0)
      /\ r.ref - lost \in Nat
  BY <1>2, <1>7
<1>. HIDE DEF lost, r, spoke, cut
<1>9. CASE p \in FreedPersons(C, P)
  <2>1. lost = r.ref
    BY <1>9 DEF FreedPersons, lost, r
  <2>2. after = 0
    BY <1>7, <1>8, <2>1
  <2>3. Speaking(ds, p) = {}
    BY <2>2, SpeakingCount, FS_EmptySet DEF after
  <2>4. PersonsWithout(C, P)[p] = NoPerson
    BY <1>9 DEF PersonsWithout
  <2>. QED
    BY <2>3, <2>4, NoPersonFits, NoOneSpeaks
<1>10. CASE p \notin FreedPersons(C, P)
  <2>1. PersonsWithout(C, P)[p] = q
    BY <1>10 DEF PersonsWithout, lost, r
  <2>2. /\ q \in PersonRecord /\ q.ref = r.ref - lost /\ q.inSet = (r.inSet /\ p \notin P)
        /\ q.game = r.game /\ q.seat = r.seat /\ (p \notin P => q.age = r.age)
    <3>1. (IF p \in P THEN 0 ELSE r.age) \in 0 .. Oldest
      BY <1>2, OldestIs DEF PersonRecord
    <3>2. r.ref - lost \in Nat /\ (r.inSet /\ p \notin P) \in BOOLEAN
      BY <1>2, <1>8
    <3>. QED
      BY <1>2, <3>1, <3>2 DEF PersonRecord
  <2>3. ASSUME q.ref = 0 PROVE q = NoPerson
    <3>1. lost = r.ref
      <4>1. q.ref = r.ref - lost /\ q.ref = 0 /\ r.ref \in Nat /\ lost \in Nat
        BY <1>7, <1>8, <2>2, <2>3
      <4>. HIDE DEF q
      <4>. QED
        BY <4>1
    <3>2. ~(lost > 0)
      BY <1>10, <3>1 DEF FreedPersons, lost, r
    <3>3. r.ref = 0 /\ lost = 0
      BY <1>8, <3>1, <3>2
    <3>4. r = NoPerson /\ p \notin P
      BY <1>2, <3>3, NoOneSpeaks DEF PersonFits
    <3>. HIDE DEF q
    <3>5. /\ q.ref = 0 /\ q.inSet = FALSE /\ q.game = NoTable /\ q.seat = 0 /\ q.age = 0
          /\ q \in PersonRecord
      BY <2>2, <2>3, <3>4 DEF NoPerson
    <3>. QED
      BY <3>5 DEF NoPerson, PersonRecord
  <2>4. q.ref # 0 => q.game \in Game
    BY <1>2, <1>7, <1>8, <2>2 DEF PersonFits
  <2>5. ASSUME q.inSet, NEW c \in Speaking(ds, p) PROVE ds[c].bad \/ q.age <= ds[c].age
    <3>1. r.inSet /\ q.age = r.age
      BY <2>2, <2>5
    <3>2. c \in spoke /\ c \in Conn \ C
      BY <1>3, NoOneSpeaks DEF Speaking, spoke, cut
    <3>3. conns[c].bad \/ r.age <= conns[c].age
      BY <1>2, <3>1, <3>2 DEF PersonFits, spoke
    <3>4. ds[c].person = p /\ p # NoOne
      BY NoOneSpeaks DEF Speaking
    <3>. QED
      BY <3>1, <3>2, <3>3, <3>4 DEF StillSpeaks
  <2>. HIDE DEF q
  <2>6. PersonFits(q, ds, p)
    <3>1. q.ref = after + (IF q.inSet THEN 1 ELSE 0)
      BY <1>8, <2>2
    <3>. QED
      BY <2>3, <2>4, <2>5, <3>1 DEF PersonFits, after
  <2>. QED
    BY <2>1, <2>2, <2>6
<1>. QED
  BY <1>9, <1>10

\* Who is in the set is not freed by connections alone.
LEMMA TheSetKeeps ==
    ASSUME PersonsFit(persons, conns), NEW C \in SUBSET Conn, NEW p \in People
    PROVE  p \notin FreedPersons(C, {})
<1>. DEFINE spoke == Speaking(conns, p)
            cut == {c \in C : conns[c].person = p}
<1>1. persons[p].ref = Cardinality(spoke) + 1
  BY DEF PersonsFit, PersonFits, People
<1>2. LostRefs(p, C, {}) = Cardinality(cut) + 0
  BY DEF LostRefs
<1>3. Cardinality(cut) <= Cardinality(spoke) /\ Cardinality(spoke) \in Nat /\ Cardinality(cut) \in Nat
  <2>1. IsFiniteSet(spoke) /\ cut \in SUBSET spoke
    BY SpeakingCount DEF Speaking
  <2>. HIDE DEF spoke, cut
  <2>. QED
    BY <2>1, FS_Subset, FS_CardinalityType
<1>. HIDE DEF spoke, cut
<1>4. persons[p].ref # LostRefs(p, C, {})
  BY <1>1, <1>2, <1>3
<1>. QED
  BY <1>4 DEF FreedPersons

\* Whom the references let go is at a game.
LEMMA TheFreedAreAtGames ==
    ASSUME PersonsFit(persons, conns), NEW C \in SUBSET Conn, NEW P \in SUBSET Person,
           NEW p \in FreedPersons(C, P)
    PROVE  p \in Person /\ persons[p].game \in Game
<1>1. p \in Person /\ LostRefs(p, C, P) > 0 /\ persons[p].ref = LostRefs(p, C, P)
  BY DEF FreedPersons
<1>2. persons[p].ref # 0
  BY <1>1
<1>. QED
  BY <1>1, <1>2 DEF PersonsFit, PersonFits

-----------------------------------------------------------------------------
(* Each action.                                                            *)

LEMMA ConnectionsFreedFit ==
    ASSUME GamesFit(games, persons), PersonsFit(persons, conns), NEW C \in SUBSET Conn
    PROVE  GamesFit(FoldSet(PersonFreed, games, FreedPersons(C, {})), PersonsWithout(C, {}))
<1>. DEFINE S == FreedPersons(C, {})
            gs == FoldSet(PersonFreed, games, S)
            qs == PersonsWithout(C, {})
<1>1. S \in SUBSET Person
  BY DEF FreedPersons
<1>2. \A p \in S : persons[p].game \in Game /\ SameSeat(persons, persons, p)
  BY TheFreedAreAtGames DEF SameSeat
<1>3. persons \in [Person -> PersonRecord]
  BY DEF PersonsFit
<1>4. \A w \in Person : SamePerson(Without(persons, S), qs, w)
  <2>1. SUFFICES ASSUME NEW w \in Person PROVE SamePerson(Without(persons, S), qs, w)
    OBVIOUS
  <2>2. persons[w] \in PersonRecord
    BY <1>3
  <2>. QED
    BY <2>2 DEF SamePerson, SameSeat, Without, PersonsWithout, PersonRecord
<1>. HIDE DEF S, qs
<1>5. GamesFit(gs, Without(persons, S))
  BY <1>1, <1>2, AllFreedFit
<1>. HIDE DEF gs
<1>6. GamesFit(gs, qs)
  BY <1>4, <1>5, SameGamesFit
<1>. QED
  BY <1>6 DEF gs, qs, S

LEMMA SilentForgottenFit ==
    ASSUME GamesFit(games, persons), PersonsFit(persons, conns), NEW S \in SUBSET People
    PROVE  GamesFit(FoldSet(RemovedFromSet, games, S), PersonsWithout({}, S))
<1>. DEFINE gs == FoldSet(RemovedFromSet, games, S)
            qs == PersonsWithout({}, S)
<1>1. S \in SUBSET Person /\ \A p \in S : persons[p].inSet
  BY DEF People
<1>2. persons \in [Person -> PersonRecord]
  BY DEF PersonsFit
<1>3. \A p \in S : persons[p].game \in Game
  <2>1. SUFFICES ASSUME NEW p \in S PROVE persons[p].game \in Game
    OBVIOUS
  <2>2. persons[p].ref # 0
    BY <1>1, NoOneSpeaks DEF PersonsFit, PersonFits
  <2>. QED
    BY <1>1, <2>2 DEF PersonsFit, PersonFits
<1>4. \A w \in Person : SamePerson(Expelled(S), qs, w)
  <2>1. SUFFICES ASSUME NEW w \in Person PROVE SamePerson(Expelled(S), qs, w)
    OBVIOUS
  <2>2. persons[w] \in PersonRecord
    BY <1>2
  <2>3. LostRefs(w, {}, S) = IF w \in S THEN 1 ELSE 0
    <3>1. {c \in {} : conns[c].person = w} = {}
      OBVIOUS
    <3>. QED
      BY <3>1, FS_EmptySet DEF LostRefs
  <2>4. w \in FreedPersons({}, S) <=> w \in S /\ persons[w].ref = 1
    BY <2>3 DEF FreedPersons
  <2>5. PersonsWithout({}, S)[w] =
          IF w \in S /\ persons[w].ref = 1 THEN NoPerson
          ELSE [persons[w] EXCEPT !.ref = @ - LostRefs(w, {}, S),
                                  !.inSet = @ /\ w \notin S,
                                  !.age = IF w \in S THEN 0 ELSE @]
    BY <2>4 DEF PersonsWithout
  <2>. HIDE DEF qs
  <2>6. CASE w \notin S
    BY <2>2, <2>5, <2>6 DEF SamePerson, SameSeat, Expelled, PersonRecord, qs
  <2>7. CASE w \in S
    BY <2>2, <2>5, <2>7 DEF SamePerson, SameSeat, Expelled, PersonRecord, qs
  <2>. QED
    BY <2>6, <2>7
<1>. HIDE DEF qs
<1>5. GamesFit(gs, Expelled(S))
  BY <1>1, <1>2, <1>3, AllRemovedFit
<1>. HIDE DEF gs
<1>6. GamesFit(gs, qs)
  BY <1>4, <1>5, SameGamesFit
<1>. QED
  BY <1>6 DEF gs, qs

LEMMA AcceptFits ==
    ASSUME LobbyInvariant, NEW c \in Conn, Accept(c)
    PROVE  LobbyInvariant'
<1>. DEFINE d == [NoConn EXCEPT !.open = TRUE]
<1>1. conns' = [conns EXCEPT ![c] = d] /\ persons' = persons /\ games' = games
      /\ peopleTimer' = peopleTimer /\ running' = running /\ gcTimer' /\ gcTimer' \in BOOLEAN
      /\ running /\ ~conns[c].open
  BY DEF Accept
<1>2. d \in ConnRecord /\ d.person = NoOne /\ d.open
  BY NoOneSpeaks DEF NoConn, ConnRecord
<1>. HIDE DEF d
<1>3. conns[c].person = NoOne /\ conns \in [Conn -> ConnRecord]
  BY <1>1 DEF LobbyInvariant, PersonsFit
<1>4. PersonsFit(persons, [conns EXCEPT ![c] = d])
  BY <1>2, <1>3, ConnMayChange DEF LobbyInvariant
<1>5. TimersRight'
  <2>1. c \in OpenConns'
    BY <1>1, <1>2, <1>3 DEF OpenConns
  <2>2. People' = People
    BY <1>1 DEF People
  <2>. QED
    BY <1>1, <2>1, <2>2 DEF TimersRight, LobbyInvariant
<1>. QED
  BY <1>1, <1>4, <1>5 DEF LobbyInvariant

LEMMA TheyGoOn ==
    ASSUME LobbyInvariant, GamesFit(games', persons'), PersonsFit(persons', conns'),
           OpenConns' = OpenConns, People' = People,
           UNCHANGED <<peopleTimer, gcTimer, running>>, running
    PROVE  LobbyInvariant'
BY DEF LobbyInvariant, TimersRight

\* A connection that is heard, and its times, change only.
LEMMA HeardFits ==
    ASSUME LobbyInvariant, NEW c \in Conn, running, NEW d \in ConnRecord,
           d.open = conns[c].open, d.person = conns[c].person, d.bad \/ d.person = NoOne,
           conns' = [conns EXCEPT ![c] = d],
           UNCHANGED <<games, persons, peopleTimer, gcTimer, running>>
    PROVE  LobbyInvariant'
<1>1. /\ conns \in [Conn -> ConnRecord] /\ (~conns[c].open => conns[c].person = NoOne)
      /\ PersonsFit(persons, conns)
  BY DEF LobbyInvariant, PersonsFit
<1>2. PersonsFit(persons, [conns EXCEPT ![c] = d])
  BY <1>1, ConnMayChange
<1>3. OpenConns' = OpenConns
  BY <1>1 DEF OpenConns
<1>4. People' = People
  BY DEF People
<1>5. GamesFit(games', persons')
  BY DEF LobbyInvariant
<1>. QED
  BY <1>2, <1>3, <1>4, <1>5, TheyGoOn

LEMMA TurnAwayFits ==
    ASSUME LobbyInvariant, NEW c \in Conn, TurnAway(c)
    PROVE  LobbyInvariant'
<1>. DEFINE d == [conns[c] EXCEPT !.age = 0]
<1>1. conns[c] \in ConnRecord /\ conns \in [Conn -> ConnRecord]
  BY DEF LobbyInvariant, PersonsFit
<1>2. d \in ConnRecord /\ d.open = conns[c].open /\ d.person = conns[c].person
  BY <1>1, OldestIs DEF ConnRecord
<1>3. conns' = [conns EXCEPT ![c] = d]
  BY <1>1 DEF TurnAway
<1>4. d.person = NoOne
  BY <1>2 DEF TurnAway, Entering
<1>. HIDE DEF d
<1>5. running /\ UNCHANGED <<games, persons, peopleTimer, gcTimer, running>>
  BY DEF TurnAway, Entering, Heard
<1>. QED
  BY <1>2, <1>3, <1>4, <1>5, HeardFits

LEMMA BadInputFits ==
    ASSUME LobbyInvariant, NEW c \in Conn, BadInput(c)
    PROVE  LobbyInvariant'
<1>1. conns[c] \in ConnRecord /\ conns \in [Conn -> ConnRecord]
  BY DEF LobbyInvariant, PersonsFit
<1>2. PICK age \in {0, conns[c].age} :
             conns' = [conns EXCEPT ![c].bad = TRUE, ![c].age = age]
  BY DEF BadInput
<1>3. age \in 0 .. Oldest
  BY <1>1, <1>2, OldestIs DEF ConnRecord
<1>. DEFINE d == [conns[c] EXCEPT !.bad = TRUE, !.age = age]
<1>4. d \in ConnRecord /\ d.open = conns[c].open /\ d.person = conns[c].person /\ d.bad
  BY <1>1, <1>3 DEF ConnRecord
<1>5. conns' = [conns EXCEPT ![c] = d]
  BY <1>1, <1>2
<1>. HIDE DEF d
<1>6. running /\ UNCHANGED <<games, persons, peopleTimer, gcTimer, running>>
  BY DEF BadInput, Heard
<1>. QED
  BY <1>4, <1>5, <1>6, HeardFits

\* What every command of a person does, whatever becomes of the games.
LEMMA NoiseIs ==
    ASSUME LobbyInvariant, NEW c \in Conn, MakeNoise(c)
    PROVE  LET p == conns[c].person IN
           /\ p \in Person /\ persons[p].game \in Game
           /\ PersonsFit(persons', conns')
           /\ \A w \in Person : SamePerson(persons, persons', w)
           /\ OpenConns' = OpenConns /\ People' = People
           /\ UNCHANGED <<peopleTimer, gcTimer, running>> /\ running
<1>. DEFINE p == conns[c].person
<1>1. /\ running /\ p # NoOne /\ UNCHANGED <<peopleTimer, gcTimer, running>>
      /\ persons' = [persons EXCEPT ![p].age = 0]
      /\ conns' = [conns EXCEPT ![c].person = p, ![c].age = 0]
  BY DEF MakeNoise, Heard, Belongs
<1>2. conns \in [Conn -> ConnRecord] /\ persons \in [Person -> PersonRecord]
      /\ PersonsFit(persons, conns)
  BY DEF LobbyInvariant, PersonsFit
<1>3. p \in Person
  BY <1>1, <1>2 DEF ConnRecord
<1>4. persons[p].game \in Game
  <2>1. PersonFits(persons[p], conns, p) /\ c \in Speaking(conns, p)
    BY <1>2, <1>3 DEF PersonsFit, Speaking
  <2>. HIDE DEF p
  <2>2. Cardinality(Speaking(conns, p)) \in Nat \ {0}
    BY <2>1, SpeakingCount, FS_EmptySet
  <2>3. persons[p].ref # 0
    BY <2>1, <2>2 DEF PersonFits
  <2>. QED
    BY <2>1, <2>3 DEF PersonFits
<1>5. PersonsFit(persons', conns')
  <2>1. conns[c].person = p
    OBVIOUS
  <2>. HIDE DEF p
  <2>2. PersonsFit([persons EXCEPT ![p].age = 0], [conns EXCEPT ![c].person = p, ![c].age = 0])
    BY <1>2, <1>3, <2>1, NoiseFits
  <2>. QED
    BY <1>1, <2>2
<1>6. OpenConns' = OpenConns
  <2>1. \A b \in Conn : conns'[b].open = conns[b].open
    BY <1>1, <1>2 DEF ConnRecord
  <2>. QED
    BY <2>1 DEF OpenConns
<1>7. \A w \in Person : SamePerson(persons, persons', w)
  BY <1>1, <1>2, <1>3 DEF SamePerson, SameSeat, PersonRecord
<1>8. People' = People
  BY <1>7 DEF People, SamePerson
<1>. QED
  BY <1>1, <1>3, <1>4, <1>5, <1>6, <1>7, <1>8

LEMMA KeepAliveFits ==
    ASSUME LobbyInvariant, NEW c \in Conn, KeepAlive(c)
    PROVE  LobbyInvariant'
<1>1. MakeNoise(c) /\ games' = games
  BY DEF KeepAlive
<1>2. /\ PersonsFit(persons', conns')
      /\ \A w \in Person : SamePerson(persons, persons', w)
      /\ OpenConns' = OpenConns /\ People' = People
      /\ UNCHANGED <<peopleTimer, gcTimer, running>> /\ running
  BY <1>1, NoiseIs
<1>3. GamesFit(games, persons)
  BY DEF LobbyInvariant
<1>4. GamesFit(games', persons')
  BY <1>1, <1>2, <1>3, SameGamesFit
<1>. QED
  BY <1>2, <1>4, TheyGoOn

LEMMA LeaveFits ==
    ASSUME LobbyInvariant, NEW c \in Conn, Leave(c)
    PROVE  LobbyInvariant'
<1>. DEFINE p == conns[c].person
            g == persons[p].game
            s == persons[p].seat
<1>1. MakeNoise(c) /\ games' = PlayerLeft(games, g, s)
  BY DEF Leave
<1>2. /\ p \in Person /\ g \in Game
      /\ PersonsFit(persons', conns')
      /\ \A w \in Person : SamePerson(persons, persons', w)
      /\ OpenConns' = OpenConns /\ People' = People
      /\ UNCHANGED <<peopleTimer, gcTimer, running>> /\ running
  BY <1>1, NoiseIs
<1>3. GamesFit(games, persons) /\ persons[p].game = g /\ persons[p].seat = s
  BY DEF LobbyInvariant
<1>. HIDE DEF p, g, s
<1>4. SameSeat(persons, persons', p) /\ \A w \in Person \ {p} : SamePerson(persons, persons', w)
  BY <1>2 DEF SamePerson
<1>5. GamesFit(PlayerLeft(games, g, s), persons')
  BY <1>2, <1>3, <1>4, PlayerLeftFits
<1>. QED
  BY <1>1, <1>2, <1>5, TheyGoOn

LEMMA FirstTurnFits ==
    ASSUME LobbyInvariant, NEW c \in Conn, FirstTurn(c)
    PROVE  LobbyInvariant'
<1>. DEFINE p == conns[c].person
            g == persons[p].game
            s == persons[p].seat
<1>1. MakeNoise(c) /\ games[g].seats[s] /\ games' = Start(games, g)
  BY DEF FirstTurn
<1>2. /\ p \in Person /\ g \in Game
      /\ PersonsFit(persons', conns')
      /\ \A w \in Person : SamePerson(persons, persons', w)
      /\ OpenConns' = OpenConns /\ People' = People
      /\ UNCHANGED <<peopleTimer, gcTimer, running>> /\ running
  BY <1>1, NoiseIs
<1>3. GamesFit(games, persons) /\ persons[p].game = g /\ persons[p].seat = s
  BY DEF LobbyInvariant
<1>. HIDE DEF p, g, s
<1>. DEFINE r == games[g]
<1>4. games \in Heap /\ r \in GameRecord /\ GameFits(r, persons, g)
  BY <1>2, <1>3 DEF GamesFit, Heap
<1>5. r.listed
  <2>1. p \in Sitting(persons, g)
    BY <1>2, <1>3 DEF Sitting
  <2>2. s \in Playing(r)
    BY <1>1, <1>3, <1>4, <2>1 DEF Playing, GameFits, SeatsRight
  <2>. QED
    BY <1>4, <2>2 DEF GameFits, ListedRight
<1>6. PICK q \in GameRecord :
             /\ Start(games, g) = [games EXCEPT ![g] = q]
             /\ q.started /\ q.ref = games[g].ref /\ q.listed
             /\ q.seats = games[g].seats /\ q.nConnected = games[g].nConnected
             /\ q.room = IF games[g].started THEN games[g].room ELSE NoRoom
  BY <1>2, <1>4, <1>5, StartIs
<1>7. q.room = NoRoom
  BY <1>4, <1>6 DEF GameFits, OpenRight
<1>8. GameFits(q, persons, g)
  <2>1. Playing(q) = Playing(r)
    BY <1>6 DEF Playing
  <2>2. RefsRight(q, persons, g)
    <3>1. r.ref = Cardinality(Sitting(persons, g)) + 1 /\ q.ref = r.ref
      BY <1>4, <1>5, <1>6 DEF GameFits, RefsRight
    <3>2. Cardinality(Sitting(persons, g)) \in Nat
      BY SitAndPlay
    <3>. QED
      BY <1>6, <3>1, <3>2 DEF RefsRight
  <2>3. SeatsRight(q, persons, g)
    BY <1>4, <1>6, <2>1 DEF GameFits, SeatsRight
  <2>4. ListedRight(q)
    BY <1>4, <1>5, <1>6, <2>1 DEF GameFits, ListedRight
  <2>5. OpenRight(q)
    BY <1>7 DEF OpenRight
  <2>. QED
    BY <2>2, <2>3, <2>4, <2>5 DEF GameFits
<1>9. GamesFit([games EXCEPT ![g] = q], persons)
  <2>1. \A w \in Person : SamePerson(persons, persons, w)
    BY DEF SamePerson, SameSeat
  <2>. HIDE DEF r
  <2>. QED
    BY <1>2, <1>3, <1>7, <1>8, <2>1, AllFit, OneGameChanged
<1>10. GamesFit(games', persons')
  BY <1>1, <1>2, <1>6, <1>9, SameGamesFit
<1>. QED
  BY <1>2, <1>10, TheyGoOn

LEMMA ReconnectFits ==
    ASSUME LobbyInvariant, NEW c \in Conn, NEW p \in Person, Reconnect(c, p)
    PROVE  LobbyInvariant'
<1>. DEFINE r == [persons[p] EXCEPT !.ref = @ + 1, !.age = 0]
<1>1. conns \in [Conn -> ConnRecord] /\ persons \in [Person -> PersonRecord]
      /\ PersonsFit(persons, conns) /\ GamesFit(games, persons)
  BY DEF LobbyInvariant, PersonsFit
<1>2. /\ running /\ conns[c].open /\ conns[c].person = NoOne /\ persons[p].inSet
      /\ conns' = [conns EXCEPT ![c].person = p, ![c].age = 0]
      /\ UNCHANGED <<games, peopleTimer, gcTimer, running>>
  BY DEF Reconnect, Entering, Heard, Belongs
<1>3. persons' = [persons EXCEPT ![p] = r]
  BY <1>1 DEF Reconnect
<1>4. /\ r \in PersonRecord /\ r.inSet = persons[p].inSet /\ r.game = persons[p].game
      /\ r.seat = persons[p].seat /\ r.age = 0 /\ r.ref = persons[p].ref + 1
  <2>. DEFINE old == persons[p]
              m == [old EXCEPT !.ref = @ + 1]
  <2>1. old \in PersonRecord /\ 0 \in 0 .. Oldest
    BY <1>1, OldestIs
  <2>. HIDE DEF old
  <2>2. /\ m \in PersonRecord /\ m.inSet = old.inSet /\ m.game = old.game
        /\ m.seat = old.seat /\ m.ref = old.ref + 1
    BY <2>1 DEF PersonRecord
  <2>3. r = [m EXCEPT !.age = 0]
    BY <2>1 DEF PersonRecord, old
  <2>. HIDE DEF m, r
  <2>. QED
    BY <2>1, <2>2, <2>3 DEF PersonRecord, old
<1>. HIDE DEF r
<1>5. persons[p].game \in Game
  <2>1. persons[p].ref # 0
    BY <1>1, <1>2, NoOneSpeaks DEF PersonsFit, PersonFits
  <2>. QED
    BY <1>1, <2>1 DEF PersonsFit, PersonFits
<1>6. PersonsFit([persons EXCEPT ![p] = r], [conns EXCEPT ![c].person = p, ![c].age = 0])
  <2>1. r.inSet /\ r.game \in Game /\ r.ref = persons[p].ref + (IF persons[p].inSet THEN 1 ELSE 2)
    BY <1>2, <1>4, <1>5
  <2>. QED
    BY <1>1, <1>2, <1>4, <2>1, JoinsFit
<1>7. \A w \in Person : SamePerson(persons, persons', w)
  BY <1>1, <1>3, <1>4 DEF SamePerson, SameSeat
<1>8. GamesFit(games', persons')
  BY <1>1, <1>2, <1>7, SameGamesFit
<1>9. People' = People
  BY <1>7 DEF People, SamePerson
<1>10. OpenConns' = OpenConns
  <2>1. \A b \in Conn : conns'[b].open = conns[b].open
    BY <1>1, <1>2 DEF ConnRecord
  <2>. QED
    BY <2>1 DEF OpenConns
<1>11. PersonsFit(persons', conns')
  BY <1>2, <1>3, <1>6
<1>. QED
  BY <1>2, <1>8, <1>9, <1>10, <1>11, TheyGoOn

LEMMA EnterGameFits ==
    ASSUME LobbyInvariant, NEW c \in Conn, Entering(c), NEW g \in Game,
           NEW found, NEW given \in BOOLEAN,
           OthersFit(found, persons, g), FitsToEnter(found[g], persons, g, given),
           EnterGame(c, g, found, given)
    PROVE  LobbyInvariant'
<1>. DEFINE p == AnyOf(FreePersons)
            r == NewPerson(g, found)
<1>1. conns \in [Conn -> ConnRecord] /\ persons \in [Person -> PersonRecord]
      /\ PersonsFit(persons, conns)
  BY DEF LobbyInvariant, PersonsFit
<1>2. running /\ conns[c].open /\ conns[c].person = NoOne
  BY DEF Entering, Heard
<1>3. /\ FreePersons # {}
      /\ games' = EnteredGames(found, g, given)
      /\ persons' = [persons EXCEPT ![p] = r]
      /\ conns' = [conns EXCEPT ![c].person = p, ![c].age = 0]
      /\ peopleTimer' = TRUE /\ gcTimer' = gcTimer /\ running' = running
  BY DEF EnterGame, EnteredGames, Belongs
<1>4. p \in Person /\ persons[p] = NoPerson
  BY <1>3 DEF FreePersons, AnyOf
<1>. HIDE DEF p
<1>5. /\ r \in PersonRecord /\ r.inSet /\ r.game = g /\ r.age = 0 /\ r.ref = 2
      /\ r.seat = Len(found[g].seats) + 1
  <2>1. found[g].seats \in Seq(BOOLEAN) /\ Len(found[g].seats) < MaxPlayers
    BY DEF FitsToEnter, GameRecord
  <2>. DEFINE n == Len(found[g].seats)
  <2>2. n \in Nat /\ n < MaxPlayers
    BY <2>1, LenProperties
  <2>. HIDE DEF n
  <2>3. n + 1 \in 0 .. MaxPlayers
    BY <2>2, LobbyAssumption
  <2>4. 0 \in 0 .. Oldest
    BY OldestIs
  <2>. QED
    BY <2>3, <2>4 DEF NewPerson, PersonRecord, n
<1>. HIDE DEF r
<1>6. PersonsFit(persons', conns')
  <2>1. persons[p].ref = 0 /\ ~persons[p].inSet
    BY <1>4, NoOneSpeaks
  <2>2. r.ref = persons[p].ref + (IF persons[p].inSet THEN 1 ELSE 2)
    BY <1>5, <2>1
  <2>3. r.game \in Game
    BY <1>5
  <2>4. PersonsFit([persons EXCEPT ![p] = r], [conns EXCEPT ![c].person = p, ![c].age = 0])
    BY <1>1, <1>2, <1>4, <1>5, <2>2, <2>3, JoinsFit
  <2>. QED
    BY <1>3, <2>4
<1>7. persons'[p] = r /\ \A w \in Person \ {p} : persons'[w] = persons[w]
  BY <1>1, <1>3, <1>4
<1>8. GamesFit(EnteredGames(found, g, given), persons')
  <2>1. persons[p].game \notin Game
    BY <1>4, NoPersonPlays
  <2>2. persons'[p].game = g /\ persons'[p].inSet /\ persons'[p].seat = Len(found[g].seats) + 1
    BY <1>5, <1>7
  <2>3. \A w \in Person \ {p} : SamePerson(persons, persons', w)
    BY <1>7 DEF SamePerson, SameSeat
  <2>. QED
    BY <1>4, <2>1, <2>2, <2>3, EnteringFits
<1>9. TimersRight'
  <2>1. p \in People'
    BY <1>4, <1>5, <1>7 DEF People
  <2>2. OpenConns' = OpenConns
    <3>1. \A b \in Conn : conns'[b].open = conns[b].open
      BY <1>1, <1>3 DEF ConnRecord
    <3>. QED
      BY <3>1 DEF OpenConns
  <2>. QED
    BY <1>3, <2>1, <2>2 DEF TimersRight, LobbyInvariant
<1>. QED
  BY <1>2, <1>3, <1>6, <1>8, <1>9 DEF LobbyInvariant

\* A game that is listed, with a free seat, and open if strangers find it.
LEMMA ListedFits ==
    ASSUME LobbyInvariant, NEW g \in Game, games[g].listed,
           Len(games[g].seats) < MaxPlayers
    PROVE  OthersFit(games, persons, g) /\ FitsToEnter(games[g], persons, g, FALSE)
<1>1. GamesFit(games, persons)
  BY DEF LobbyInvariant
<1>2. OthersFit(games, persons, g)
  BY <1>1, AllFit
<1>3. games[g] \in GameRecord /\ GameFits(games[g], persons, g)
  BY <1>1 DEF GamesFit, Heap
<1>4. games[g].ref = Cardinality(Sitting(persons, g)) + 1 + (IF FALSE THEN 1 ELSE 0)
  <2>1. Cardinality(Sitting(persons, g)) \in Nat
    BY SitAndPlay
  <2>. QED
    BY <1>3, <2>1 DEF GameFits, RefsRight
<1>. QED
  BY <1>2, <1>3, <1>4 DEF FitsToEnter, GameFits, ListedRight, OpenRight

\* A game that is made for a room that has none, or for no room.
LEMMA GeneratedFits ==
    ASSUME LobbyInvariant, FreeGames # {}, NEW g, g = AnyOf(FreeGames),
           NEW room \in Room \cup {NoRoom}, room # NoRoom => Pending(room) = {}
    PROVE  /\ g \in Game
           /\ OthersFit(Generated(games, g, room), persons, g)
           /\ FitsToEnter(Generated(games, g, room)[g], persons, g, TRUE)
<1>. DEFINE r == [NoGame EXCEPT !.ref = 2, !.listed = TRUE, !.room = room]
            gs == Generated(games, g, room)
<1>1. g \in Game /\ games[g] = NoGame
  BY DEF AnyOf, FreeGames
<1>2. games \in Heap /\ OneForEachRoom(games) /\ GameFits(games[g], persons, g)
      /\ \A h \in Game : GameFits(games[h], persons, h)
  BY <1>1 DEF LobbyInvariant, GamesFit
<1>3. /\ r \in GameRecord /\ r.ref = 2 /\ r.listed /\ r.room = room /\ ~r.started
      /\ r.seats = <<>> /\ r.nConnected = 0
  <2>1. NoGame \in GameRecord
    BY NoGameIsGame
  <2>2. /\ ~NoGame.started /\ NoGame.seats = <<>> /\ NoGame.nConnected = 0
    BY DEF NoGame
  <2>. DEFINE one == [NoGame EXCEPT !.ref = 2]
              two == [one EXCEPT !.listed = TRUE]
  <2>3. r \in GameRecord /\ r.ref = 2 /\ r.listed /\ r.room = room
    <3>1. one \in GameRecord /\ one.ref = 2
      BY <2>1 DEF GameRecord
    <3>. HIDE DEF one
    <3>2. two \in GameRecord /\ two.ref = 2 /\ two.listed = TRUE
      BY <3>1 DEF GameRecord
    <3>. HIDE DEF two
    <3>3. r = [two EXCEPT !.room = room]
      BY DEF one, two
    <3>. HIDE DEF r
    <3>. QED
      BY <3>2, <3>3 DEF GameRecord
  <2>4. /\ r.started = NoGame.started /\ r.seats = NoGame.seats
        /\ r.nConnected = NoGame.nConnected
    BY <2>1 DEF GameRecord
  <2>. QED
    BY <2>2, <2>3, <2>4
<1>4. gs = [games EXCEPT ![g] = r]
  BY DEF Generated
<1>. HIDE DEF r, gs
<1>5. gs \in Heap /\ gs[g] = r /\ \A h \in Game \ {g} : gs[h] = games[h]
  BY <1>1, <1>2, <1>3, <1>4 DEF Heap
<1>6. OneForEachRoom(gs)
  <2>1. \A h \in Game : games[h].room # room \/ room = NoRoom
    BY DEF Pending
  <2>. QED
    BY <1>2, <1>3, <1>5, <2>1 DEF OneForEachRoom
<1>7. Sitting(persons, g) = {}
  <2>. DEFINE count == Cardinality(Sitting(persons, g))
  <2>1. count \in Nat
    BY SitAndPlay
  <2>2. games[g].ref = 0 /\ ~games[g].listed
    BY <1>1 DEF NoGame
  <2>3. games[g].ref = count + (IF games[g].listed THEN 1 ELSE 0)
    BY <1>2 DEF GameFits, RefsRight
  <2>. HIDE DEF count
  <2>4. count = 0
    BY <2>1, <2>2, <2>3
  <2>. QED
    BY <2>4, SitAndPlay, FS_EmptySet DEF count
<1>8. FitsToEnter(r, persons, g, TRUE)
  <2>1. Cardinality({}) = 0
    BY FS_EmptySet
  <2>2. DOMAIN <<>> = {} /\ Len(<<>>) = 0
    OBVIOUS
  <2>3. Playing(r) = {}
    BY <1>3, <2>2 DEF Playing
  <2>4. r.ref = Cardinality(Sitting(persons, g)) + 1 + (IF TRUE THEN 1 ELSE 0)
    BY <1>3, <1>7, <2>1
  <2>5. SeatsRight(r, persons, g)
    BY <1>7, <2>3 DEF SeatsRight
  <2>6. Len(r.seats) < MaxPlayers
    BY <1>3, <2>2, LobbyAssumption
  <2>. QED
    BY <1>3, <2>1, <2>3, <2>4, <2>5, <2>6 DEF FitsToEnter
<1>9. OthersFit(gs, persons, g)
  BY <1>2, <1>5, <1>6 DEF OthersFit
<1>. QED
  BY <1>1, <1>5, <1>8, <1>9 DEF gs

LEMMA NewPrivateGameFits ==
    ASSUME LobbyInvariant, NEW c \in Conn, NewPrivateGame(c)
    PROVE  LobbyInvariant'
<1>. DEFINE g == AnyOf(FreeGames)
            gs == Generated(games, g, NoRoom)
<1>1. Entering(c) /\ FreeGames # {} /\ EnterGame(c, g, gs, TRUE)
  BY DEF NewPrivateGame
<1>2. g \in Game /\ OthersFit(gs, persons, g) /\ FitsToEnter(gs[g], persons, g, TRUE)
  BY <1>1, GeneratedFits
<1>. HIDE DEF g, gs
<1>. QED
  BY <1>1, <1>2, EnterGameFits

LEMMA NewPlayerFits ==
    ASSUME LobbyInvariant, NEW c \in Conn, NEW room \in Room, NewPlayer(c, room)
    PROVE  LobbyInvariant'
<1>1. Entering(c) /\ room # NoRoom
  BY LobbyAssumption DEF NewPlayer
<1>2. CASE \E g \in Pending(room) : EnterGame(c, g, Ref(games, g), TRUE)
  <2>1. PICK g \in Pending(room) : EnterGame(c, g, Ref(games, g), TRUE)
    BY <1>2
  <2>. DEFINE gs == Ref(games, g)
              q == [games[g] EXCEPT !.ref = @ + 1]
  <2>2. /\ g \in Game /\ games \in Heap /\ games[g] \in GameRecord /\ games[g].room = room
        /\ games[g].listed /\ Len(games[g].seats) < MaxPlayers
    BY <1>1 DEF Pending, LobbyInvariant, GamesFit, GameFits, OpenRight, Heap
  <2>3. OthersFit(games, persons, g) /\ FitsToEnter(games[g], persons, g, FALSE)
    BY <2>2, ListedFits
  <2>4. gs = [games EXCEPT ![g] = q] /\ gs \in Heap
    BY <2>2, RefAndUnref
  <2>5. /\ q \in GameRecord /\ q.ref = games[g].ref + 1 /\ q.listed = games[g].listed
        /\ q.room = games[g].room /\ q.started = games[g].started
        /\ q.seats = games[g].seats /\ q.nConnected = games[g].nConnected
    <3>. DEFINE old == games[g]
    <3>1. old \in GameRecord
      BY <2>2
    <3>. HIDE DEF old
    <3>2. /\ [old EXCEPT !.ref = @ + 1] \in GameRecord
          /\ [old EXCEPT !.ref = @ + 1].ref = old.ref + 1
          /\ [old EXCEPT !.ref = @ + 1].listed = old.listed
          /\ [old EXCEPT !.ref = @ + 1].room = old.room
          /\ [old EXCEPT !.ref = @ + 1].started = old.started
          /\ [old EXCEPT !.ref = @ + 1].seats = old.seats
          /\ [old EXCEPT !.ref = @ + 1].nConnected = old.nConnected
      BY <3>1 DEF GameRecord
    <3>. QED
      BY <3>2 DEF old
  <2>. HIDE DEF gs, q
  <2>6. gs[g] = q /\ \A h \in Game \ {g} : gs[h] = games[h]
    BY <2>2, <2>4 DEF Heap
  <2>7. OthersFit(gs, persons, g)
    BY <2>3, <2>4, <2>5, <2>6 DEF OthersFit, OneForEachRoom
  <2>8. FitsToEnter(q, persons, g, TRUE)
    <3>1. Playing(q) = Playing(games[g])
      BY <2>5 DEF Playing
    <3>2. SeatsRight(q, persons, g)
      BY <2>3, <2>5, <3>1 DEF FitsToEnter, SeatsRight
    <3>3. Cardinality(Sitting(persons, g)) \in Nat
      BY SitAndPlay
    <3>4. games[g].ref = Cardinality(Sitting(persons, g)) + 1
      BY <2>3, <3>3 DEF FitsToEnter
    <3>5. q.ref = Cardinality(Sitting(persons, g)) + 1 + (IF TRUE THEN 1 ELSE 0)
      BY <2>5, <3>3, <3>4
    <3>. QED
      BY <2>3, <2>5, <3>1, <3>2, <3>5 DEF FitsToEnter
  <2>9. EnterGame(c, g, gs, TRUE)
    BY <2>1 DEF gs
  <2>. QED
    BY <1>1, <2>2, <2>6, <2>7, <2>8, <2>9, EnterGameFits
<1>3. CASE ~\E g \in Pending(room) : EnterGame(c, g, Ref(games, g), TRUE)
  <2>. DEFINE g == AnyOf(FreeGames)
              gs == Generated(games, g, room)
  <2>1. Pending(room) = {} /\ FreeGames # {} /\ EnterGame(c, g, gs, TRUE)
    BY <1>3 DEF NewPlayer
  <2>2. g \in Game /\ OthersFit(gs, persons, g) /\ FitsToEnter(gs[g], persons, g, TRUE)
    BY <2>1, GeneratedFits
  <2>. HIDE DEF g, gs
  <2>. QED
    BY <1>1, <2>1, <2>2, EnterGameFits
<1>. QED
  BY <1>2, <1>3

LEMMA JoinGameFits ==
    ASSUME LobbyInvariant, NEW c \in Conn, NEW g \in Game, JoinGame(c, g)
    PROVE  LobbyInvariant'
<1>1. /\ Entering(c) /\ games[g].listed /\ Len(games[g].seats) < MaxPlayers
      /\ EnterGame(c, g, games, FALSE)
  BY DEF JoinGame
<1>2. OthersFit(games, persons, g) /\ FitsToEnter(games[g], persons, g, FALSE)
  BY <1>1, ListedFits
<1>. QED
  BY <1>1, <1>2, EnterGameFits

\* Connections are freed, of which others may be told to go.
LEMMA ConnectionsGoFit ==
    ASSUME LobbyInvariant, running, NEW C \in SUBSET OpenConns, FreeConnections(C),
           conns' \in [Conn -> ConnRecord],
           \A c \in C : conns'[c] = NoConn,
           \A c \in Conn \ C : /\ conns'[c].open = conns[c].open
                               /\ conns'[c].person = conns[c].person
                               /\ conns'[c].age = conns[c].age
                               /\ conns'[c].bad \/ ~conns[c].bad,
           gcTimer' = StillNeeded(OpenConns, C),
           UNCHANGED <<peopleTimer, running>>
    PROVE  LobbyInvariant'
<1>1. C \in SUBSET Conn
  BY DEF OpenConns
<1>2. GamesFit(games, persons) /\ PersonsFit(persons, conns)
  BY DEF LobbyInvariant
<1>3. /\ games' = FoldSet(PersonFreed, games, FreedPersons(C, {}))
      /\ persons' = PersonsWithout(C, {})
  BY DEF FreeConnections
<1>4. GamesFit(games', persons')
  BY <1>1, <1>2, <1>3, ConnectionsFreedFit
<1>5. PersonsFit(persons', conns')
  <2>. DEFINE ds == conns'
  <2>1. ds \in [Conn -> ConnRecord]
    OBVIOUS
  <2>2. \A c \in Conn : ~ds[c].open => ds[c].person = NoOne
    BY <1>2, NoOneSpeaks DEF PersonsFit
  <2>3. \A c \in C : ds[c].person = NoOne
    BY NoOneSpeaks
  <2>4. \A c \in Conn \ C : StillSpeaks(conns, ds, c)
    BY DEF StillSpeaks
  <2>5. {} \in SUBSET People
    OBVIOUS
  <2>. HIDE DEF ds
  <2>6. PersonsFit(PersonsWithout(C, {}), ds)
    BY <1>1, <1>2, <2>1, <2>2, <2>3, <2>4, <2>5, LeftPersonsFit
  <2>. QED
    BY <1>3, <2>6 DEF ds
<1>6. OpenConns' = OpenConns \ C
  BY NoOneSpeaks DEF OpenConns
<1>7. People' = People
  <2>1. \A p \in Person : persons'[p].inSet = persons[p].inSet
    <3>1. SUFFICES ASSUME NEW p \in Person PROVE persons'[p].inSet = persons[p].inSet
      OBVIOUS
    <3>2. CASE p \in FreedPersons(C, {})
      <4>1. p \notin People
        BY <1>1, <1>2, <3>2, TheSetKeeps
      <4>2. persons[p].inSet = FALSE
        BY <1>2, <4>1 DEF People, PersonsFit, PersonRecord
      <4>3. persons'[p] = NoPerson
        BY <1>3, <3>2 DEF PersonsWithout
      <4>. QED
        BY <4>2, <4>3, NoPersonPlays
    <3>3. CASE p \notin FreedPersons(C, {})
      <4>1. persons[p] \in PersonRecord
        BY <1>2 DEF PersonsFit
      <4>. QED
        BY <1>3, <3>3, <4>1 DEF PersonsWithout, PersonRecord
    <3>. QED
      BY <3>2, <3>3
  <2>. QED
    BY <2>1 DEF People
<1>8. TimersRight'
  BY <1>6, <1>7 DEF TimersRight, LobbyInvariant, StillNeeded
<1>. QED
  BY <1>4, <1>5, <1>8 DEF LobbyInvariant

LEMMA RemoveConnectionFits ==
    ASSUME LobbyInvariant, NEW c \in Conn, RemoveConnection(c)
    PROVE  LobbyInvariant'
<1>1. /\ running /\ conns[c].open /\ FreeConnections({c})
      /\ conns' = [conns EXCEPT ![c] = NoConn]
      /\ gcTimer' = StillNeeded(OpenConns, {c})
      /\ UNCHANGED <<peopleTimer, running>>
  BY DEF RemoveConnection
<1>2. conns \in [Conn -> ConnRecord]
  BY DEF LobbyInvariant, PersonsFit
<1>3. {c} \in SUBSET OpenConns
  BY <1>1 DEF OpenConns
<1>4. conns' \in [Conn -> ConnRecord]
  BY <1>1, <1>2, NoOneSpeaks
<1>5. \A b \in {c} : conns'[b] = NoConn
  BY <1>1, <1>2
<1>6. \A b \in Conn \ {c} : /\ conns'[b].open = conns[b].open
                            /\ conns'[b].person = conns[b].person
                            /\ conns'[b].age = conns[b].age
                            /\ conns'[b].bad \/ ~conns[b].bad
  BY <1>1, <1>2
<1>. QED
  BY <1>1, <1>3, <1>4, <1>5, <1>6, ConnectionsGoFit

LEMMA CollectConnectionsFits ==
    ASSUME LobbyInvariant, CollectConnections
    PROVE  LobbyInvariant'
<1>. DEFINE dead == {c \in OpenConns : conns[c].age >= ResponseTime}
            removed == ToBeRemoved(dead)
<1>1. /\ running /\ FreeConnections(removed)
      /\ conns' = [c \in Conn |-> IF c \in removed THEN NoConn
                                  ELSE IF c \in dead
                                  THEN [conns[c] EXCEPT !.bad = TRUE]
                                  ELSE conns[c]]
      /\ gcTimer' = StillNeeded(OpenConns, removed)
      /\ UNCHANGED <<peopleTimer, running>>
  BY DEF CollectConnections
<1>2. removed \in SUBSET OpenConns /\ removed \in SUBSET Conn
  BY DEF ToBeRemoved, OpenConns
<1>. HIDE DEF dead, removed
<1>3. \A c \in Conn : conns[c] \in ConnRecord
  BY DEF LobbyInvariant, PersonsFit
<1>4. \A c \in Conn : /\ [conns[c] EXCEPT !.bad = TRUE] \in ConnRecord
                      /\ [conns[c] EXCEPT !.bad = TRUE].bad = TRUE
                      /\ [conns[c] EXCEPT !.bad = TRUE].open = conns[c].open
                      /\ [conns[c] EXCEPT !.bad = TRUE].person = conns[c].person
                      /\ [conns[c] EXCEPT !.bad = TRUE].age = conns[c].age
  BY <1>3 DEF ConnRecord
<1>5. conns' \in [Conn -> ConnRecord]
  <2>1. \A c \in Conn : conns'[c] \in ConnRecord
    BY <1>1, <1>3, <1>4, NoOneSpeaks
  <2>. QED
    BY <1>1, <2>1
<1>6. \A b \in removed : conns'[b] = NoConn
  BY <1>1, <1>2
<1>7. \A b \in Conn \ removed : /\ conns'[b].open = conns[b].open
                                /\ conns'[b].person = conns[b].person
                                /\ conns'[b].age = conns[b].age
                                /\ conns'[b].bad \/ ~conns[b].bad
  BY <1>1, <1>4
<1>. QED
  BY <1>1, <1>2, <1>5, <1>6, <1>7, ConnectionsGoFit

LEMMA ForgetSilentPeopleFits ==
    ASSUME LobbyInvariant, ForgetSilentPeople
    PROVE  LobbyInvariant'
<1>. DEFINE silent == {p \in People : persons[p].age > SilenceTime}
<1>1. /\ games' = FoldSet(RemovedFromSet, games, silent)
      /\ persons' = PersonsWithout({}, silent)
      /\ peopleTimer' = StillNeeded(People, silent)
      /\ UNCHANGED <<conns, gcTimer, running>> /\ running
  BY DEF ForgetSilentPeople
<1>2. silent \in SUBSET People
  OBVIOUS
<1>. HIDE DEF silent
<1>3. GamesFit(games, persons) /\ PersonsFit(persons, conns)
  BY DEF LobbyInvariant
<1>4. GamesFit(games', persons')
  BY <1>1, <1>2, <1>3, SilentForgottenFit
<1>5. PersonsFit(persons', conns')
  <2>1. conns \in [Conn -> ConnRecord] /\ {} \in SUBSET Conn
    BY <1>3 DEF PersonsFit
  <2>2. \A c \in Conn : ~conns[c].open => conns[c].person = NoOne
    BY <1>3 DEF PersonsFit
  <2>3. \A c \in {} : conns[c].person = NoOne
    OBVIOUS
  <2>4. \A c \in Conn \ {} : StillSpeaks(conns, conns, c)
    BY <2>1 DEF StillSpeaks, ConnRecord
  <2>5. PersonsFit(PersonsWithout({}, silent), conns)
    BY <1>2, <1>3, <2>1, <2>2, <2>3, <2>4, LeftPersonsFit
  <2>. QED
    BY <1>1, <2>5
<1>6. People' = People \ silent
  <2>1. \A p \in Person : persons'[p].inSet <=> persons[p].inSet /\ p \notin silent
    <3>1. SUFFICES ASSUME NEW p \in Person
                   PROVE  persons'[p].inSet <=> persons[p].inSet /\ p \notin silent
      OBVIOUS
    <3>2. persons[p] \in PersonRecord
      BY <1>3 DEF PersonsFit
    <3>3. CASE p \in FreedPersons({}, silent)
      <4>1. persons'[p] = NoPerson
        BY <1>1, <3>3 DEF PersonsWithout
      <4>2. p \in silent
        <5>1. {c \in {} : conns[c].person = p} = {}
          OBVIOUS
        <5>2. LostRefs(p, {}, silent) > 0
          BY <3>3 DEF FreedPersons
        <5>. QED
          BY <5>1, <5>2, FS_EmptySet DEF LostRefs
      <4>. QED
        BY <4>1, <4>2, NoPersonPlays
    <3>4. CASE p \notin FreedPersons({}, silent)
      BY <1>1, <3>2, <3>4 DEF PersonsWithout, PersonRecord
    <3>. QED
      BY <3>3, <3>4
  <2>. QED
    BY <2>1 DEF People
<1>7. OpenConns' = OpenConns
  BY <1>1 DEF OpenConns
<1>8. TimersRight'
  BY <1>1, <1>6, <1>7 DEF TimersRight, LobbyInvariant, StillNeeded
<1>. QED
  BY <1>1, <1>4, <1>5, <1>8 DEF LobbyInvariant

LEMMA TimePassesFits ==
    ASSUME LobbyInvariant, TimePasses
    PROVE  LobbyInvariant'
<1>1. /\ running /\ UNCHANGED <<games, peopleTimer, gcTimer, running>>
      /\ persons' = [p \in Person |->
                       IF p \in People /\ persons[p].age < Oldest
                       THEN [persons[p] EXCEPT !.age = @ + 1] ELSE persons[p]]
      /\ conns' = [c \in Conn |->
                     IF c \in OpenConns /\ conns[c].age < Oldest
                     THEN [conns[c] EXCEPT !.age = @ + 1] ELSE conns[c]]
  BY DEF TimePasses
<1>2. /\ persons \in [Person -> PersonRecord] /\ conns \in [Conn -> ConnRecord]
      /\ GamesFit(games, persons) /\ PersonsFit(persons, conns)
  BY DEF LobbyInvariant, PersonsFit
<1>3. ASSUME NEW p \in Person
      PROVE  /\ persons'[p] \in PersonRecord
             /\ persons'[p].ref = persons[p].ref /\ persons'[p].inSet = persons[p].inSet
             /\ persons'[p].game = persons[p].game /\ persons'[p].seat = persons[p].seat
             /\ ~persons[p].inSet => persons'[p] = persons[p]
             /\ persons[p].inSet /\ persons[p].age < Oldest
                  => persons'[p].age = persons[p].age + 1
             /\ persons[p].inSet /\ ~(persons[p].age < Oldest)
                  => persons'[p].age = persons[p].age
  <2>. DEFINE r == persons[p]
              older == [r EXCEPT !.age = @ + 1]
  <2>1. r \in PersonRecord /\ (p \in People <=> r.inSet)
    BY <1>2 DEF People
  <2>2. persons'[p] = IF r.inSet /\ r.age < Oldest THEN older ELSE r
    BY <1>1, <2>1
  <2>. HIDE DEF r
  <2>3. r.age < Oldest => r.age + 1 \in 0 .. Oldest
    BY <2>1, OldestIs DEF PersonRecord
  <2>4. /\ r.age < Oldest => older \in PersonRecord
        /\ older.ref = r.ref /\ older.inSet = r.inSet /\ older.game = r.game
        /\ older.seat = r.seat /\ older.age = r.age + 1
    BY <2>1, <2>3 DEF PersonRecord
  <2>. QED
    BY <2>1, <2>2, <2>4 DEF r
<1>4. ASSUME NEW c \in Conn
      PROVE  /\ conns'[c] \in ConnRecord
             /\ conns'[c].open = conns[c].open /\ conns'[c].person = conns[c].person
             /\ conns'[c].bad = conns[c].bad
             /\ conns[c].open /\ conns[c].age < Oldest => conns'[c].age = conns[c].age + 1
             /\ ~(conns[c].open /\ conns[c].age < Oldest) => conns'[c].age = conns[c].age
  <2>. DEFINE r == conns[c]
              older == [r EXCEPT !.age = @ + 1]
  <2>1. r \in ConnRecord /\ (c \in OpenConns <=> r.open)
    BY <1>2 DEF OpenConns
  <2>2. conns'[c] = IF r.open /\ r.age < Oldest THEN older ELSE r
    BY <1>1, <2>1
  <2>. HIDE DEF r
  <2>3. r.age < Oldest => r.age + 1 \in 0 .. Oldest
    BY <2>1, OldestIs DEF ConnRecord
  <2>4. /\ r.age < Oldest => older \in ConnRecord
        /\ older.open = r.open /\ older.bad = r.bad /\ older.person = r.person
        /\ older.age = r.age + 1
    BY <2>1, <2>3 DEF ConnRecord
  <2>. QED
    BY <2>1, <2>2, <2>4 DEF r
<1>5. PersonsFit(persons', conns')
  <2>1. persons' \in [Person -> PersonRecord]
    BY <1>1, <1>3
  <2>2. conns' \in [Conn -> ConnRecord]
    BY <1>1, <1>4
  <2>3. \A c \in Conn : ~conns'[c].open => conns'[c].person = NoOne
    BY <1>2, <1>4 DEF PersonsFit
  <2>4. ASSUME NEW p \in Person PROVE PersonFits(persons'[p], conns', p)
    <3>. DEFINE r == persons[p]
                q == persons'[p]
    <3>1. Speaking(conns', p) = Speaking(conns, p)
      BY <1>4 DEF Speaking
    <3>2. PersonFits(r, conns, p)
      BY <1>2 DEF PersonsFit
    <3>3. r \in PersonRecord /\ q.ref = r.ref /\ q.inSet = r.inSet /\ q.game = r.game
          /\ (~r.inSet => q = r)
      BY <1>2, <1>3
    <3>4. r.inSet => q.age = IF r.age < Oldest THEN r.age + 1 ELSE r.age
      BY <1>3
    <3>5. ASSUME NEW c \in Speaking(conns, p), q.inSet
          PROVE  conns'[c].bad \/ q.age <= conns'[c].age
      <4>. DEFINE d == conns[c]
      <4>1. c \in Conn /\ d.person = p
        BY DEF Speaking
      <4>2. d \in ConnRecord /\ d.open
        BY <1>2, <4>1, NoOneSpeaks DEF PersonsFit
      <4>3. conns'[c].bad = d.bad
            /\ conns'[c].age = IF d.age < Oldest THEN d.age + 1 ELSE d.age
        BY <1>4, <4>1, <4>2
      <4>4. d.bad \/ r.age <= d.age
        BY <3>2, <3>3, <3>5 DEF PersonFits
      <4>5. d.age \in 0 .. Oldest /\ r.age \in 0 .. Oldest /\ Oldest \in Nat
        BY <3>3, <4>2, OldestIs DEF ConnRecord, PersonRecord
      <4>6. q.age = IF r.age < Oldest THEN r.age + 1 ELSE r.age
        BY <3>3, <3>4, <3>5
      <4>. HIDE DEF d, q, r
      <4>. QED
        BY <4>3, <4>4, <4>5, <4>6
    <3>6. r.ref = 0 => q = NoPerson
      BY <3>2, <3>3, NoOneSpeaks DEF PersonFits
    <3>. HIDE DEF q, r
    <3>7. PersonFits(q, conns', p)
      BY <3>1, <3>2, <3>3, <3>5, <3>6 DEF PersonFits
    <3>. QED
      BY <3>7 DEF q
  <2>. QED
    BY <2>1, <2>2, <2>3, <2>4 DEF PersonsFit
<1>6. GamesFit(games', persons')
  <2>1. \A w \in Person : SamePerson(persons, persons', w)
    BY <1>3 DEF SamePerson, SameSeat
  <2>. QED
    BY <1>1, <1>2, <2>1, SameGamesFit
<1>7. People' = People /\ OpenConns' = OpenConns
  BY <1>3, <1>4 DEF People, OpenConns
<1>. QED
  BY <1>1, <1>5, <1>6, <1>7, TheyGoOn

\* A fold over nothing.
LEMMA NothingUnlisted ==
    ASSUME NEW gs
    PROVE  FoldSet(LAMBDA g, hs : Unlist(hs, g), gs, {}) = gs
<1>. DEFINE Rec(f) == f = [s \in SUBSET {} |-> IF s = {} THEN gs
                             ELSE Unlist(f[s \ {AnyOf(s)}], AnyOf(s))]
            F == CHOOSE f : Rec(f)
            all == [s \in SUBSET {} |-> gs]
<1>1. FoldSet(LAMBDA g, hs : Unlist(hs, g), gs, {}) = F[{}]
  BY Zenon DEF FoldSet, MapThenFoldSet, AnyOf
<1>2. Rec(all)
  OBVIOUS
<1>3. Rec(F)
  <2>. HIDE DEF Rec, all
  <2>. QED
    BY <1>2
<1>4. F[{}] = gs
  <2>. HIDE DEF F
  <2>. QED
    BY <1>3
<1>. QED
  BY <1>1, <1>4

\* When everybody has gone there is nothing left to collect.
LEMMA ShutdownFits ==
    ASSUME LobbyInvariant, Shutdown
    PROVE  LobbyInvariant'
<1>. DEFINE S == FreedPersons(OpenConns, {})
            cut == FoldSet(PersonFreed, games, S)
            gone == FoldSet(PersonFreed, cut, People)
            ps == Without(persons, S)
            qs == Without(ps, People)
            ds == [c \in Conn |-> NoConn]
            listed == {g \in Game : gone[g].listed}
<1>1. /\ games' = FoldSet(LAMBDA g, hs : Unlist(hs, g), gone, listed)
      /\ persons' = PersonsWithout(OpenConns, People)
      /\ conns' = ds
      /\ peopleTimer' = FALSE /\ gcTimer' = FALSE /\ running' = FALSE
  BY Zenon DEF Shutdown
<1>2. GamesFit(games, persons) /\ PersonsFit(persons, conns)
  BY DEF LobbyInvariant
<1>3. OpenConns \in SUBSET Conn /\ People \in SUBSET Person /\ S \in SUBSET Person
  BY DEF OpenConns, People, FreedPersons
<1>4. \A p \in People : p \notin S
  BY <1>2, <1>3, TheSetKeeps
<1>5. \A p \in Person : persons[p] # NoPerson => p \in S \cup People
  <2>1. SUFFICES ASSUME NEW p \in Person, persons[p] # NoPerson, p \notin People
                 PROVE  p \in S
    OBVIOUS
  <2>2. persons[p].ref # 0 /\ persons[p].ref = Cardinality(Speaking(conns, p)) + 0
    BY <1>2, <2>1 DEF PersonsFit, PersonFits, People
  <2>3. {c \in OpenConns : conns[c].person = p} = Speaking(conns, p)
    BY <1>2, NoOneSpeaks DEF PersonsFit, OpenConns, Speaking
  <2>4. LostRefs(p, OpenConns, {}) = Cardinality(Speaking(conns, p)) + 0
    BY <2>3 DEF LostRefs
  <2>5. Cardinality(Speaking(conns, p)) \in Nat
    BY SpeakingCount
  <2>. QED
    BY <2>2, <2>4, <2>5 DEF FreedPersons
<1>6. \A p \in S \cup People : persons[p].game \in Game
  <2>1. \A p \in People : persons[p].game \in Game
    <3>1. SUFFICES ASSUME NEW p \in People PROVE persons[p].game \in Game
      OBVIOUS
    <3>2. persons[p].ref # 0
      BY <1>2, <1>3, NoOneSpeaks DEF People, PersonsFit, PersonFits
    <3>. QED
      BY <1>2, <1>3, <3>2 DEF PersonsFit, PersonFits
  <2>2. \A p \in S : persons[p].game \in Game
    BY <1>2, <1>3, TheFreedAreAtGames
  <2>. QED
    BY <2>1, <2>2
<1>. HIDE DEF S
<1>7. GamesFit(cut, ps)
  <2>1. \A p \in S : persons[p].game \in Game /\ SameSeat(persons, persons, p)
    BY <1>6 DEF SameSeat
  <2>. QED
    BY <1>2, <1>3, <2>1, AllFreedFit
<1>. HIDE DEF cut
<1>8. GamesFit(gone, qs)
  <2>1. \A p \in People : persons[p].game \in Game /\ SameSeat(persons, ps, p)
    BY <1>3, <1>4, <1>6 DEF SameSeat, Without
  <2>. HIDE DEF ps
  <2>. QED
    BY <1>3, <1>7, <2>1, AllFreedFit
<1>. HIDE DEF gone
<1>9. \A p \in Person : qs[p] = NoPerson
  BY <1>5 DEF Without
<1>. HIDE DEF qs
<1>10. \A g \in Game : gone[g] = NoGame
  <2>1. SUFFICES ASSUME NEW g \in Game PROVE gone[g] = NoGame
    OBVIOUS
  <2>. DEFINE r == gone[g]
  <2>2. r \in GameRecord /\ GameFits(r, qs, g)
    BY <1>8 DEF GamesFit, Heap
  <2>3. Sitting(qs, g) = {}
    BY <1>9, NoPersonPlays DEF Sitting
  <2>4. Playing(r) = {} /\ ~r.listed
    BY <2>2, <2>3 DEF GameFits, SeatsRight, ListedRight
  <2>5. r.ref = 0
    BY <2>2, <2>3, <2>4, FS_EmptySet DEF GameFits, RefsRight
  <2>. QED
    BY <2>2, <2>5 DEF GameFits, RefsRight
<1>11. listed = {}
  BY <1>10 DEF NoGame
<1>12. games' = gone
  BY <1>1, <1>11, NothingUnlisted, Zenon
<1>13. PersonsFit(persons', conns')
  <2>1. ds \in [Conn -> ConnRecord] /\ \A c \in Conn : ds[c].person = NoOne
    BY NoOneSpeaks
  <2>2. \A c \in Conn \ OpenConns : StillSpeaks(conns, ds, c)
    BY <1>2, <2>1 DEF PersonsFit, OpenConns, StillSpeaks
  <2>3. \A c \in Conn : ~ds[c].open => ds[c].person = NoOne
    BY <2>1
  <2>4. \A c \in OpenConns : ds[c].person = NoOne
    BY <1>3, <2>1
  <2>5. People \in SUBSET People
    OBVIOUS
  <2>. HIDE DEF ds
  <2>6. PersonsFit(PersonsWithout(OpenConns, People), ds)
    BY <1>2, <1>3, <2>1, <2>2, <2>3, <2>4, <2>5, LeftPersonsFit
  <2>. QED
    BY <1>1, <2>6
<1>14. GamesFit(games', persons')
  <2>1. \A p \in Person : persons'[p] = NoPerson
    <3>1. SUFFICES ASSUME NEW p \in Person PROVE persons'[p].ref = 0
      BY <1>13 DEF PersonsFit, PersonFits
    <3>2. Speaking(conns', p) = {}
      BY <1>1, NoOneSpeaks DEF Speaking
    <3>3. ~persons'[p].inSet
      <4>1. persons[p] \in PersonRecord /\ (persons[p].inSet => p \in People)
        BY <1>2 DEF PersonsFit, People
      <4>. QED
        BY <1>1, <4>1, NoPersonPlays DEF PersonsWithout, PersonRecord
    <3>4. persons'[p].ref = Cardinality(Speaking(conns', p)) + (IF persons'[p].inSet THEN 1 ELSE 0)
      BY <1>13 DEF PersonsFit, PersonFits
    <3>5. Cardinality(Speaking(conns', p)) = 0
      BY <3>2, FS_EmptySet
    <3>. QED
      BY <3>3, <3>4, <3>5
  <2>2. \A w \in Person : SamePerson(qs, persons', w)
    BY <1>9, <2>1 DEF SamePerson, SameSeat
  <2>. QED
    BY <1>8, <1>12, <2>2, SameGamesFit
<1>15. TimersRight'
  <2>1. People' = {}
    <3>1. SUFFICES ASSUME NEW p \in Person PROVE ~persons'[p].inSet
      BY DEF People
    <3>2. persons[p] \in PersonRecord /\ (persons[p].inSet => p \in People)
      BY <1>2 DEF PersonsFit, People
    <3>. QED
      BY <1>1, <3>2, NoPersonPlays DEF PersonsWithout, PersonRecord
  <2>2. OpenConns' = {}
    BY <1>1, NoOneSpeaks DEF OpenConns
  <2>. QED
    BY <1>1, <2>1, <2>2 DEF TimersRight
<1>16. \A g \in Game : games'[g] = NoGame
  BY <1>10, <1>12
<1>. QED
  BY <1>13, <1>14, <1>15, <1>16 DEF LobbyInvariant

-----------------------------------------------------------------------------
(* The theorems.                                                           *)

LEMMA LobbyInitially == LobbyInit => LobbyInvariant
<1>. SUFFICES ASSUME LobbyInit PROVE LobbyInvariant
  OBVIOUS
<1>1. /\ games = [g \in Game |-> NoGame] /\ persons = [p \in Person |-> NoPerson]
      /\ conns = [c \in Conn |-> NoConn]
      /\ peopleTimer = FALSE /\ gcTimer = FALSE /\ running = TRUE
  BY DEF LobbyInit
<1>2. GamesFit(games, persons)
  <2>1. games \in Heap
    BY <1>1, NoGameIsGame DEF Heap
  <2>2. OneForEachRoom(games)
    BY <1>1 DEF OneForEachRoom, NoGame
  <2>3. ASSUME NEW g \in Game PROVE GameFits(games[g], persons, g)
    <3>1. games[g] = NoGame
      BY <1>1
    <3>2. Sitting(persons, g) = {}
      BY <1>1, NoPersonPlays DEF Sitting
    <3>. QED
      BY <3>1, <3>2, NoGameFits
  <2>. QED
    BY <2>1, <2>2, <2>3 DEF GamesFit
<1>3. PersonsFit(persons, conns)
  <2>1. persons \in [Person -> PersonRecord] /\ conns \in [Conn -> ConnRecord]
    BY <1>1, NoOneSpeaks
  <2>2. \A c \in Conn : conns[c].person = NoOne
    BY <1>1, NoOneSpeaks
  <2>3. ASSUME NEW p \in Person PROVE PersonFits(persons[p], conns, p)
    <3>1. persons[p] = NoPerson
      BY <1>1
    <3>2. Speaking(conns, p) = {}
      BY <2>2, NoOneSpeaks DEF Speaking
    <3>. QED
      BY <3>1, <3>2, NoPersonFits
  <2>. QED
    BY <2>1, <2>2, <2>3 DEF PersonsFit
<1>4. TimersRight
  <2>1. People = {} /\ OpenConns = {}
    BY <1>1, NoOneSpeaks DEF People, OpenConns
  <2>. QED
    BY <1>1, <2>1 DEF TimersRight
<1>. QED
  BY <1>1, <1>2, <1>3, <1>4 DEF LobbyInvariant

LEMMA LobbyStep == LobbyInvariant /\ [LobbyNext]_lobbyVars => LobbyInvariant'
<1>. SUFFICES ASSUME LobbyInvariant, [LobbyNext]_lobbyVars PROVE LobbyInvariant'
  OBVIOUS
<1>1. CASE UNCHANGED lobbyVars
  <2>1. UNCHANGED <<games, persons, conns, peopleTimer, gcTimer, running>>
    BY <1>1 DEF lobbyVars
  <2>2. OpenConns' = OpenConns /\ People' = People
    BY <2>1 DEF OpenConns, People
  <2>. QED
    BY <2>1, <2>2 DEF LobbyInvariant, TimersRight
<1>2. ASSUME NEW c \in Conn, Accept(c) PROVE LobbyInvariant'
  BY <1>2, AcceptFits
<1>3. ASSUME NEW c \in Conn, NEW room \in Room, NewPlayer(c, room) PROVE LobbyInvariant'
  BY <1>3, NewPlayerFits
<1>4. ASSUME NEW c \in Conn, NewPrivateGame(c) PROVE LobbyInvariant'
  BY <1>4, NewPrivateGameFits
<1>5. ASSUME NEW c \in Conn, NEW g \in Game, JoinGame(c, g) PROVE LobbyInvariant'
  BY <1>5, JoinGameFits
<1>6. ASSUME NEW c \in Conn, NEW p \in Person, Reconnect(c, p) PROVE LobbyInvariant'
  BY <1>6, ReconnectFits
<1>7. ASSUME NEW c \in Conn, KeepAlive(c) PROVE LobbyInvariant'
  BY <1>7, KeepAliveFits
<1>8. ASSUME NEW c \in Conn, Leave(c) PROVE LobbyInvariant'
  BY <1>8, LeaveFits
<1>9. ASSUME NEW c \in Conn, FirstTurn(c) PROVE LobbyInvariant'
  BY <1>9, FirstTurnFits
<1>10. ASSUME NEW c \in Conn, TurnAway(c) PROVE LobbyInvariant'
  BY <1>10, TurnAwayFits
<1>11. ASSUME NEW c \in Conn, BadInput(c) PROVE LobbyInvariant'
  BY <1>11, BadInputFits
<1>12. ASSUME NEW c \in Conn, RemoveConnection(c) PROVE LobbyInvariant'
  BY <1>12, RemoveConnectionFits
<1>13. CASE CollectConnections
  BY <1>13, CollectConnectionsFits
<1>14. CASE ForgetSilentPeople
  BY <1>14, ForgetSilentPeopleFits
<1>15. CASE TimePasses
  BY <1>15, TimePassesFits
<1>16. CASE Shutdown
  BY <1>16, ShutdownFits
<1>17. ASSUME NEW c \in Conn, ClientAct(c) PROVE LobbyInvariant'
  BY <1>3, <1>4, <1>5, <1>6, <1>7, <1>8, <1>9, <1>10, <1>11, <1>17 DEF ClientAct
<1>. QED
  BY <1>1, <1>2, <1>12, <1>13, <1>14, <1>15, <1>16, <1>17 DEF LobbyNext

\* Whatever the clients of the server do, and however long they are quiet, the
\* invariant holds: for any rooms, games and times, and any finite number of
\* persons and connections.
THEOREM LobbyInvariantHolds == LobbySpec => []LobbyInvariant
<1>. QED
  BY LobbyInitially, LobbyStep, PTL DEF LobbySpec

\* The count of references that vsx-object.c keeps of each game and each person
\* is the number of those that refer to it, and the two timers are set exactly
\* as long as there is something for them to collect.
THEOREM LobbyIsSound == LobbySpec => []LobbySound
<1>1. LobbyInvariant => LobbySound
  <2>. SUFFICES ASSUME LobbyInvariant PROVE LobbySound
    OBVIOUS
  <2>1. \A g \in Game : /\ games[g] \in GameRecord /\ RefsRight(games[g], persons, g)
                        /\ ListedRight(games[g])
    BY DEF LobbyInvariant, GamesFit, Heap, GameFits
  <2>2. PersonsFit(persons, conns) /\ games \in Heap
    BY DEF LobbyInvariant, GamesFit
  <2>3. ASSUME NEW g \in Game
        PROVE  games[g] \in [ref : Nat, listed : BOOLEAN, room : Room \cup {NoRoom},
                             started : BOOLEAN, seats : Seq(BOOLEAN),
                             nConnected : 0 .. MaxPlayers]
    <3>. DEFINE r == games[g]
    <3>1. r \in GameRecord /\ RefsRight(r, persons, g) /\ ListedRight(r)
      BY <2>1
    <3>. HIDE DEF r
    <3>2. r.ref \in Nat
      <4>1. Cardinality(Sitting(persons, g)) \in Nat
        BY SitAndPlay
      <4>. QED
        BY <3>1, <4>1 DEF RefsRight
    <3>3. r.nConnected \in 0 .. MaxPlayers
      <4>. DEFINE n == Len(r.seats)
                  playing == Playing(r)
      <4>1. n \in Nat /\ DOMAIN r.seats = 1 .. n
        BY <3>1, LenProperties DEF GameRecord
      <4>2. playing \in SUBSET (1 .. n)
        BY <4>1 DEF Playing
      <4>3. n <= MaxPlayers /\ r.nConnected = Cardinality(playing)
        BY <3>1 DEF ListedRight
      <4>. HIDE DEF n, playing
      <4>4. IsFiniteSet(1 .. n) /\ Cardinality(1 .. n) = n
        BY <4>1, FS_Interval
      <4>5. Cardinality(playing) <= n /\ IsFiniteSet(playing)
        BY <4>2, <4>4, FS_Subset
      <4>6. Cardinality(playing) \in Nat
        BY <4>5, FS_CardinalityType
      <4>. QED
        BY <4>1, <4>3, <4>5, <4>6, LobbyAssumption
    <3>. QED
      BY <3>1, <3>2, <3>3 DEF GameRecord, r
  <2>4. LobbyTypeOK
    <3>1. /\ persons \in [Person -> PersonRecord] /\ conns \in [Conn -> ConnRecord]
      BY <2>2 DEF PersonsFit
    <3>2. \A g \in Game : Len(games[g].seats) <= MaxPlayers
      BY <2>1 DEF ListedRight
    <3>3. (peopleTimer <=> People # {}) /\ (gcTimer <=> OpenConns # {})
      BY DEF LobbyInvariant, TimersRight
    <3>. QED
      BY <2>2, <2>3, <3>1, <3>2, <3>3 DEF LobbyTypeOK, PersonRecord, ConnRecord, Heap
  <2>5. RefsExact
    <3>1. \A g \in Game :
            /\ games[g].ref = Cardinality({p \in Person : persons[p].game = g})
                              + (IF games[g].listed THEN 1 ELSE 0)
            /\ games[g].ref = 0 => games[g] = NoGame
      BY <2>1 DEF RefsRight, Sitting
    <3>2. \A p \in Person :
            /\ persons[p].ref = Cardinality({c \in Conn : conns[c].person = p})
                                + (IF persons[p].inSet THEN 1 ELSE 0)
            /\ persons[p].ref = 0 => persons[p] = NoPerson
      BY <2>2 DEF PersonsFit, PersonFits, Speaking
    <3>3. ~running => \A g \in Game : games[g] = NoGame
      BY DEF LobbyInvariant
    <3>. QED
      BY <3>1, <3>2, <3>3 DEF RefsExact
  <2>. QED
    BY <2>4, <2>5 DEF LobbySound
<1>. QED
  BY <1>1, LobbyInvariantHolds, PTL

\* The conversation set has a game exactly as long as somebody plays it, each
\* one who plays is one person of the person set, for whom the timer is set, and
\* strangers are only ever sent to the one open game of their room.
THEOREM PlayersAreWatchedHolds == LobbySpec => []PlayersAreWatched
<1>1. LobbyInvariant => PlayersAreWatched
  <2>. SUFFICES ASSUME LobbyInvariant PROVE PlayersAreWatched
    OBVIOUS
  <2>1. \A g \in Game : GameFits(games[g], persons, g)
    BY DEF LobbyInvariant, GamesFit
  <2>2. PendingIsOpen
    <3>1. SUFFICES ASSUME NEW g \in Game, games[g].room # NoRoom
                   PROVE  /\ games[g].listed /\ ~games[g].started
                          /\ Len(games[g].seats) < MaxPlayers
                          /\ Pending(games[g].room) = {g}
      BY DEF PendingIsOpen
    <3>2. OpenRight(games[g])
      BY <2>1 DEF GameFits
    <3>3. \A h \in Game : games[h].room = games[g].room => g = h
      BY <3>1 DEF LobbyInvariant, GamesFit, OneForEachRoom
    <3>4. Pending(games[g].room) = {g}
      BY <3>3 DEF Pending
    <3>. QED
      BY <3>1, <3>2, <3>4 DEF OpenRight
  <2>3. ASSUME NEW g \in Game, NEW s \in Playing(games[g]) PROVE IsWatched(g, s)
    <3>1. SeatsRight(games[g], persons, g)
      BY <2>1 DEF GameFits
    <3>2. PICK p \in Sitting(persons, g) : persons[p].inSet /\ persons[p].seat = s
      BY <3>1 DEF SeatsRight
    <3>3. p \in People /\ p \in Person /\ persons[p].game = g
      BY <3>2 DEF People, Sitting
    <3>4. peopleTimer
      BY <3>3 DEF LobbyInvariant, TimersRight
    <3>5. \A q \in Person \ {p} : ~(persons[q].game = g /\ persons[q].seat = s)
      BY <3>1, <3>2 DEF SeatsRight, Sitting
    <3>. QED
      BY <3>2, <3>3, <3>4, <3>5 DEF IsWatched
  <2>4. \A g \in Game :
          /\ games[g].listed <=> Playing(games[g]) # {}
          /\ games[g].nConnected = Cardinality(Playing(games[g]))
    BY <2>1 DEF GameFits, ListedRight
  <2>. QED
    BY <2>2, <2>3, <2>4 DEF PlayersAreWatched, Playing
<1>. QED
  BY <1>1, LobbyInvariantHolds, PTL

\* Who is in the set stays there, whatever connections are freed.
LEMMA NobodyIsForgotten ==
    ASSUME LobbyInvariant, NEW p \in People, NEW C \in SUBSET Conn, FreeConnections(C)
    PROVE  persons'[p].inSet
<1>1. persons' = PersonsWithout(C, {}) /\ p \in Person /\ persons[p].inSet
  BY DEF FreeConnections, People
<1>2. p \notin FreedPersons(C, {}) /\ persons[p] \in PersonRecord
  BY <1>1, TheSetKeeps DEF LobbyInvariant, PersonsFit
<1>. QED
  BY <1>1, <1>2 DEF PersonsWithout, PersonRecord

\* remove_silent_people_timer_cb forgets nobody for whom a connection that is
\* still read may speak, unless it has been quiet as long; and nothing else
\* that the server does while it runs forgets anybody.
THEOREM OnlySilentAreForgottenHolds == LobbySpec => OnlySilentAreForgotten
<1>. DEFINE Kept ==
       \A c \in OpenConns :
         LET p == conns[c].person IN
         /\ p # NoOne /\ ~conns[c].bad
         /\ p \in People
         /\ ~persons'[p].inSet
         /\ running'
         => conns[c].age > SilenceTime
<1>1. LobbyInvariant /\ [LobbyNext]_lobbyVars => [Kept]_lobbyVars
  <2>1. SUFFICES ASSUME LobbyInvariant, LobbyNext, NEW c \in OpenConns,
                        NEW p, p = conns[c].person, ~conns[c].bad, p \in People,
                        ~persons'[p].inSet, running'
                 PROVE  conns[c].age > SilenceTime
    BY Zenon DEF Kept
  <2>2. /\ persons \in [Person -> PersonRecord] /\ conns \in [Conn -> ConnRecord]
        /\ PersonsFit(persons, conns) /\ c \in Conn /\ p \in Person /\ persons[p].inSet
    BY <2>1 DEF LobbyInvariant, PersonsFit, OpenConns, People
  <2>3. CASE ForgetSilentPeople
    <3>. DEFINE silent == {q \in People : persons[q].age > SilenceTime}
    <3>1. persons' = PersonsWithout({}, silent)
      BY <2>3 DEF ForgetSilentPeople
    <3>2. p \in silent
      <4>1. SUFFICES ASSUME p \notin silent PROVE FALSE
        OBVIOUS
      <4>. HIDE DEF silent
      <4>2. {d \in {} : conns[d].person = p} = {}
        OBVIOUS
      <4>3. p \notin FreedPersons({}, silent)
        BY <4>1, <4>2, FS_EmptySet DEF FreedPersons, LostRefs
      <4>4. persons'[p].inSet
        BY <2>2, <3>1, <4>1, <4>3 DEF PersonsWithout, PersonRecord
      <4>. QED
        BY <2>1, <4>4
    <3>3. persons[p].age <= conns[c].age
      BY <2>1, <2>2 DEF PersonsFit, PersonFits, Speaking
    <3>4. persons[p].age \in Nat /\ conns[c].age \in Nat /\ persons[p].age > SilenceTime
      BY <2>2, <3>2, OldestIs DEF PersonRecord, ConnRecord
    <3>. QED
      BY <3>3, <3>4, LobbyAssumption
  <2>4. CASE \E b \in Conn : RemoveConnection(b)
    <3>1. PICK b \in Conn : FreeConnections({b})
      BY <2>4 DEF RemoveConnection
    <3>. QED
      BY <2>1, <3>1, NobodyIsForgotten
  <2>5. CASE CollectConnections
    <3>. DEFINE removed == ToBeRemoved({d \in OpenConns : conns[d].age >= ResponseTime})
    <3>1. FreeConnections(removed) /\ removed \in SUBSET Conn
      BY <2>5 DEF CollectConnections, ToBeRemoved, OpenConns
    <3>. HIDE DEF removed
    <3>. QED
      BY <2>1, <3>1, NobodyIsForgotten
  <2>6. CASE Shutdown
    BY <2>1, <2>6 DEF Shutdown
  <2>7. CASE TimePasses
    BY <2>1, <2>2, <2>7 DEF TimePasses, PersonRecord
  <2>8. CASE \E b \in Conn : Accept(b)
    BY <2>1, <2>2, <2>8 DEF Accept
  <2>9. CASE \E b \in Conn : ClientAct(b)
    <3>1. PICK b \in Conn : ClientAct(b)
      BY <2>9
    <3>2. CASE MakeNoise(b)
      BY <2>1, <2>2, <3>2 DEF MakeNoise, PersonRecord
    <3>3. CASE UNCHANGED persons
      BY <2>1, <2>2, <3>3
    <3>4. CASE \E q \in Person : Reconnect(b, q)
      BY <2>1, <2>2, <3>4 DEF Reconnect, PersonRecord
    <3>5. CASE \E g, found, given : EnterGame(b, g, found, given)
      <4>1. PICK g, found, given : EnterGame(b, g, found, given)
        BY <3>5
      <4>2. persons' = [persons EXCEPT ![AnyOf(FreePersons)] = NewPerson(g, found)]
        BY <4>1 DEF EnterGame
      <4>. QED
        BY <2>1, <2>2, <4>2 DEF NewPerson
    <3>. QED
      BY <3>1, <3>2, <3>3, <3>4, <3>5
      DEF ClientAct, NewPlayer, NewPrivateGame, JoinGame, KeepAlive, Leave, FirstTurn,
          TurnAway, BadInput
  <2>. QED
    BY <2>1, <2>3, <2>4, <2>5, <2>6, <2>7, <2>8, <2>9 DEF LobbyNext
<1>. QED
  BY <1>1, LobbyInvariantHolds, PTL DEF OnlySilentAreForgotten, LobbySpec
=============================================================================
