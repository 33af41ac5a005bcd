--------------------------- MODULE WebGameProofs ----------------------------
(***************************************************************************)
(* The three sides of the web game: the world (module Arena), the tunnels  *)
(* of the WebSocket bridge in front of it (Bridge) and the page at their   *)
(* far end (WebClient).                                                    *)
(*                                                                         *)
(* ArenaExact and CollectedOnce of module Arena are proved for any finite  *)
(* set of connections, any arenas, crystals, sizes and speeds.  The room   *)
(* and the grid of an arena are functions of the players in it:            *)
(* arenaOf(P, r) is what they must be for the players P.                   *)
(***************************************************************************)
EXTENDS Arena, Bridge, WebClient, AOIProofs

-----------------------------------------------------------------------------
(***************************************************************************)
(* The invariant of the world.                                             *)
(***************************************************************************)
Player == [name : Nat, room : Rooms \cup {NoRoom}, pos : Place, dir : Place, seq : Nat,
           score : Nat, inputAt : Int, connectedAt : Int]
Session == [expires : Nat, conns : SUBSET Conns]

TypeOK ==
    /\ DOMAIN players \subseteq Conns /\ players \in [DOMAIN players -> Player]
    /\ nextGuest \in Nat /\ DOMAIN sessions \subseteq 1..nextGuest
    /\ sessions \in [DOMAIN sessions -> Session]
    /\ hooks \in [Conns -> {"before", "started", "ended"}]
    /\ stopped \subseteq Conns /\ now \in Nat /\ tick \in Nat

\* The players P of arena r and where they are, its room and its grid.
In(P, r) == {c \in DOMAIN P : P[c].room = r}
At(P, r) == [c \in In(P, r) |-> P[c].pos]
arenaOf(P, r, respawn) ==
    [room |-> [max |-> MaxPlayers[r], members |-> In(P, r)], aoi |-> GridOf(At(P, r)),
     respawn |-> respawn]
ArenasOf(A, P) ==
    /\ A = [r \in Rooms |-> arenaOf(P, r, A[r].respawn)]
    /\ \A r \in Rooms : DOMAIN A[r].respawn \subseteq DOMAIN Crystals
NotOverfull(P) == \A r \in Rooms : Cardinality(In(P, r)) <= MaxPlayers[r]
AllInWorld(P) == \A c \in DOMAIN P : P[c].room # NoRoom => inWorld(P[c].pos)

\* A session is bound to at most one connection, whose player has a name, and a
\* player in an arena has a session.
Bindings ==
    /\ names = DOMAIN sessions
    /\ \A g \in DOMAIN sessions : \A c, d \in sessions[g].conns : c = d
    /\ \A g \in DOMAIN sessions : \A c \in sessions[g].conns :
          c \in DOMAIN players /\ players[c].name # NoName
    /\ \A c \in DOMAIN players : players[c].room # NoRoom =>
          \E g \in DOMAIN sessions : c \in sessions[g].conns

Known ==
    /\ \A c \in DOMAIN players : hooks[c] = "started"
    /\ closed => DOMAIN players \subseteq stopped

Places == ArenasOf(arenas, players) /\ NotOverfull(players) /\ AllInWorld(players)
IInv == TypeOK /\ Places /\ Bindings /\ Known

-----------------------------------------------------------------------------
(***************************************************************************)
(* What leave and the moves of a step do to rooms and grids.               *)
(***************************************************************************)
\* Sets of connections are finite.
LEMMA FiniteConns == ASSUME NEW S \in SUBSET Conns PROVE IsFiniteSet(S) /\ Cardinality(S) \in Nat
BY ArenaAssumption, FS_Subset, FS_CardinalityType

\* Room.Leave for every member of S.
LEMMA RoomFold ==
    ASSUME NEW max, NEW M, NEW S, IsFiniteSet(S)
    PROVE  leaveRoom([max |-> max, members |-> M], S) = [max |-> max, members |-> M \ S]
<1> DEFINE room == [max |-> max, members |-> M]
           F(f) == [T \in SUBSET S |-> IF T = {} THEN room
                                       ELSE R!Left(f[T \ {Chosen(T)}], Chosen(T))]
           it == CHOOSE f : f = F(f)
           want == [T \in SUBSET S |-> [max |-> max, members |-> M \ T]]
<1>1. leaveRoom(room, S) = it[S]
  BY DEF leaveRoom, FoldSet, MapThenFoldSet, Chosen
<1>2. ASSUME NEW T \in SUBSET S, T # {}
      PROVE  /\ Chosen(T) \in T /\ T \ {Chosen(T)} \in SUBSET S
             /\ R!Left(want[T \ {Chosen(T)}], Chosen(T)) = want[T]
  <2> DEFINE x == Chosen(T)
  <2>1. x \in T  BY <1>2 DEF Chosen
  <2> HIDE DEF x
  <2>2. want[T \ {x}] = [max |-> max, members |-> M \ (T \ {x})]  OBVIOUS
  <2>3. (M \ (T \ {x})) \ {x} = M \ T  BY <2>1
  <2>4. R!Left([max |-> max, members |-> M \ (T \ {x})], x) = [max |-> max, members |-> M \ T]
    BY <2>3 DEF R!Left
  <2> QED  BY <2>1, <2>2, <2>4 DEF x
<1>3. want = F(want)
  <2>1. ASSUME NEW T \in SUBSET S PROVE want[T] = F(want)[T]
    BY <1>2
  <2> QED  BY <2>1
<1>4. it = F(it)
  <2> HIDE DEF F
  <2> QED  BY <1>3
<1>5. it[S] = want[S]
  <2>1. it[{}] = want[{}]  BY <1>4
  <2>2. ASSUME NEW T \in SUBSET S, T # {}, it[T \ {Chosen(T)}] = want[T \ {Chosen(T)}]
        PROVE  it[T] = want[T]
    <3>1. it[T] = R!Left(it[T \ {Chosen(T)}], Chosen(T))
      <4>1. it[T] = F(it)[T]  BY <1>4
      <4> HIDE DEF it
      <4> QED  BY <4>1, <2>2
    <3> HIDE DEF it, want
    <3> QED  BY <3>1, <2>2, <1>2
  <2> HIDE DEF it, want
  <2> QED  BY <2>1, <2>2, SameFold
<1> QED  BY <1>1, <1>5

\* RemoveEntity for every member of S.
LEMMA GridFold ==
    ASSUME NEW pos, NEW S, IsFiniteSet(S), S \subseteq DOMAIN pos
    PROVE  leaveGrid(GridOf(pos), S) = GridOf(Delete(pos, S))
<1> DEFINE F(f) == [T \in SUBSET S |-> IF T = {} THEN GridOf(pos)
                                       ELSE RemoveEntity(f[T \ {Chosen(T)}], Chosen(T))]
           it == CHOOSE f : f = F(f)
           want == [T \in SUBSET S |-> GridOf(Delete(pos, T))]
<1>1. leaveGrid(GridOf(pos), S) = it[S]
  BY DEF leaveGrid, FoldSet, MapThenFoldSet, Chosen
<1>2. GridOf(Delete(pos, {})) = GridOf(pos)
  BY DEF GridOf, Delete
<1>3. ASSUME NEW T \in SUBSET S, T # {}
      PROVE  /\ Chosen(T) \in T /\ T \ {Chosen(T)} \in SUBSET S
             /\ RemoveEntity(want[T \ {Chosen(T)}], Chosen(T)) = want[T]
  <2> DEFINE x == Chosen(T)
  <2>1. x \in T  BY <1>3 DEF Chosen
  <2> HIDE DEF x
  <2>2. x \in DOMAIN Delete(pos, T \ {x})  BY <2>1 DEF Delete
  <2>3. Delete(Delete(pos, T \ {x}), {x}) = Delete(pos, T)  BY <2>1 DEF Delete
  <2>4. RemoveEntity(GridOf(Delete(pos, T \ {x})), x) = GridOf(Delete(pos, T))
    BY <2>2, <2>3, RemoveExact
  <2> QED  BY <2>1, <2>4 DEF x
<1>4. want = F(want)
  <2>1. ASSUME NEW T \in SUBSET S PROVE want[T] = F(want)[T]
    BY <1>2, <1>3
  <2> QED  BY <2>1
<1>5. it = F(it)
  <2> HIDE DEF F
  <2> QED  BY <1>4
<1>6. it[S] = want[S]
  <2>1. it[{}] = want[{}]  BY <1>2, <1>5
  <2>2. ASSUME NEW T \in SUBSET S, T # {}, it[T \ {Chosen(T)}] = want[T \ {Chosen(T)}]
        PROVE  it[T] = want[T]
    <3>1. it[T] = RemoveEntity(it[T \ {Chosen(T)}], Chosen(T))
      <4>1. it[T] = F(it)[T]  BY <1>5
      <4> HIDE DEF it
      <4> QED  BY <4>1, <2>2
    <3> HIDE DEF it, want
    <3> QED  BY <3>1, <2>2, <1>3
  <2> HIDE DEF it, want
  <2> QED  BY <2>1, <2>2, SameFold
<1> QED  BY <1>1, <1>6

\* MoveEntity for every player of S: the grid of the new places.
LEMMA MoveFold ==
    ASSUME NEW pos, NEW S, IsFiniteSet(S), S \subseteq DOMAIN pos
    PROVE  moveAll(GridOf(pos), S) =
               GridOf([c \in DOMAIN pos |-> IF c \in S THEN moved(players[c]) ELSE pos[c]])
<1> DEFINE new(T) == [c \in DOMAIN pos |-> IF c \in T THEN moved(players[c]) ELSE pos[c]]
           F(f) == [T \in SUBSET S |-> IF T = {} THEN GridOf(pos)
                                       ELSE MoveEntity(f[T \ {Chosen(T)}], Chosen(T),
                                                       moved(players[Chosen(T)]))]
           it == CHOOSE f : f = F(f)
           want == [T \in SUBSET S |-> GridOf(new(T))]
<1>1. moveAll(GridOf(pos), S) = it[S]
  BY DEF moveAll, FoldSet, MapThenFoldSet, Chosen
<1>2. GridOf(new({})) = GridOf(pos)
  BY DEF GridOf
<1>3. ASSUME NEW T \in SUBSET S, T # {}
      PROVE  /\ Chosen(T) \in T /\ T \ {Chosen(T)} \in SUBSET S
             /\ MoveEntity(want[T \ {Chosen(T)}], Chosen(T), moved(players[Chosen(T)])) = want[T]
  <2> DEFINE x == Chosen(T)
             to == moved(players[x])
  <2>1. x \in T  BY <1>3 DEF Chosen
  <2> HIDE DEF x
  <2>2. Put(new(T \ {x}), x, to) = new(T)  BY <2>1 DEF Put
  <2>3. x \in DOMAIN new(T \ {x})  BY <2>1
  <2> HIDE DEF new, to
  <2>4. MoveEntity(GridOf(new(T \ {x})), x, to) = GridOf(new(T))
    BY <2>2, <2>3, MoveExact
  <2>5. want[T \ {x}] = GridOf(new(T \ {x})) /\ want[T] = GridOf(new(T))
    OBVIOUS
  <2> QED  BY <2>1, <2>4, <2>5 DEF x, to
<1>4. want = F(want)
  <2>1. ASSUME NEW T \in SUBSET S PROVE want[T] = F(want)[T]
    <3> HIDE DEF new
    <3>1. CASE T = {}  BY <3>1, <1>2
    <3>2. CASE T # {}
      <4>1. F(want)[T] = MoveEntity(want[T \ {Chosen(T)}], Chosen(T), moved(players[Chosen(T)]))
        BY <3>2
      <4> HIDE DEF F, want
      <4> QED  BY <4>1, <3>2, <1>3
    <3> QED  BY <3>1, <3>2
  <2> HIDE DEF new
  <2> QED  BY <2>1
<1>5. it = F(it)
  <2> HIDE DEF F
  <2> QED  BY <1>4
<1>6. it[S] = want[S]
  <2>1. it[{}] = want[{}]
    <3>1. it[{}] = F(it)[{}]  BY <1>5
    <3> HIDE DEF it, new
    <3> QED  BY <3>1, <1>2
  <2>2. ASSUME NEW T \in SUBSET S, T # {}, it[T \ {Chosen(T)}] = want[T \ {Chosen(T)}]
        PROVE  it[T] = want[T]
    <3>1. it[T] = MoveEntity(it[T \ {Chosen(T)}], Chosen(T), moved(players[Chosen(T)]))
      <4>1. it[T] = F(it)[T]  BY <1>5
      <4> HIDE DEF it
      <4> QED  BY <4>1, <2>2
    <3> HIDE DEF it, want
    <3> QED  BY <3>1, <2>2, <1>3
  <2> HIDE DEF it, want
  <2> QED  BY <2>1, <2>2, SameFold
<1> QED  BY <1>1, <1>6

\* leave for the players S: the arenas are those of the players that are left,
\* and nothing else of them changes.
LEMMA LeavePlaces ==
    ASSUME TypeOK, Places, NEW S \in SUBSET DOMAIN players
    PROVE  LET w == leave(S) IN
           /\ w = [players |-> outside(S), arenas |-> w.arenas, stopped |-> stopped]
           /\ w.players \in [DOMAIN players -> Player]
           /\ \A c \in DOMAIN players : w.players[c].name = players[c].name
           /\ \A c \in S : w.players[c].room = NoRoom /\ w.players[c].score = players[c].score
           /\ \A c \in DOMAIN players \ S : w.players[c] = players[c]
           /\ ArenasOf(w.arenas, w.players)
           /\ \A r \in Rooms : /\ w.arenas[r].respawn = arenas[r].respawn
                               /\ In(w.players, r) = In(players, r) \ S
                               /\ \A c \in In(w.players, r) : w.players[c] = players[c]
           /\ NotOverfull(w.players) /\ AllInWorld(w.players)
<1> DEFINE w == leave(S)
           Q == outside(S)
           of(r) == {c \in S : players[c].room = r}
<1>1. /\ w = [players |-> Q, arenas |-> w.arenas, stopped |-> stopped]
      /\ w.arenas = [r \in Rooms |-> [room |-> leaveRoom(arenas[r].room, of(r)),
                                      aoi |-> leaveGrid(arenas[r].aoi, of(r)),
                                      respawn |-> arenas[r].respawn]]
  BY DEF leave
<1>2. /\ Q \in [DOMAIN players -> Player] /\ DOMAIN Q = DOMAIN players
      /\ \A c \in DOMAIN players : Q[c].pos = players[c].pos /\ Q[c].name = players[c].name
      /\ \A c \in S : Q[c].room = NoRoom /\ Q[c].score = players[c].score
      /\ \A c \in DOMAIN players \ S : Q[c] = players[c]
  <2>1. Still \in Place  BY DEF Still, Place
  <2> QED  BY <2>1 DEF TypeOK, outside, Player
<1>3. NoRoom \notin Rooms  BY ArenaAssumption DEF NoRoom, Rooms
<1>4. ASSUME NEW r \in Rooms
      PROVE  In(Q, r) = In(players, r) \ S /\ At(Q, r) = Delete(At(players, r), of(r))
  BY <1>2, <1>3 DEF In, At, Delete
<1>5. ASSUME NEW r \in Rooms
      PROVE  w.arenas[r] = arenaOf(Q, r, arenas[r].respawn)
  <2>1. arenas[r] = arenaOf(players, r, arenas[r].respawn)  BY DEF Places, ArenasOf
  <2>2. IsFiniteSet(of(r)) /\ of(r) \subseteq DOMAIN At(players, r)
    <3>1. of(r) \in SUBSET Conns  BY DEF TypeOK
    <3> QED  BY <3>1, FiniteConns DEF At, In
  <2>3. leaveRoom(arenas[r].room, of(r)) = [max |-> MaxPlayers[r], members |-> In(Q, r)]
    <3>1. In(players, r) \ of(r) = In(Q, r)  BY <1>4 DEF In
    <3> HIDE DEF of, Q
    <3> QED  BY <3>1, <2>1, <2>2, RoomFold DEF arenaOf
  <2>4. leaveGrid(arenas[r].aoi, of(r)) = GridOf(At(Q, r))
    <3> HIDE DEF of, Q
    <3> QED  BY <1>4, <2>1, <2>2, GridFold DEF arenaOf
  <2>5. w.arenas[r] = [room |-> leaveRoom(arenas[r].room, of(r)),
                       aoi |-> leaveGrid(arenas[r].aoi, of(r)), respawn |-> arenas[r].respawn]
    BY <1>1
  <2> HIDE DEF of, w, Q
  <2> QED  BY <2>1, <2>3, <2>4, <2>5 DEF arenaOf
<1> HIDE DEF w, Q, of
<1>6. \A r \in Rooms : w.arenas[r].respawn = arenas[r].respawn
  BY <1>1
<1>7. ArenasOf(w.arenas, Q)
  <2>1. w.arenas = [r \in Rooms |-> arenaOf(Q, r, w.arenas[r].respawn)]
    BY <1>1, <1>5, <1>6
  <2> QED  BY <2>1, <1>6 DEF ArenasOf, Places
<1>8. NotOverfull(Q)
  <2> SUFFICES ASSUME NEW r \in Rooms PROVE Cardinality(In(Q, r)) <= MaxPlayers[r]
    BY DEF NotOverfull
  <2>1. In(players, r) \in SUBSET Conns /\ In(Q, r) \in SUBSET In(players, r)
    BY <1>4 DEF In, TypeOK
  <2>2. /\ Cardinality(In(Q, r)) <= Cardinality(In(players, r))
        /\ Cardinality(In(players, r)) \in Nat /\ Cardinality(In(Q, r)) \in Nat
    BY <2>1, FiniteConns, FS_Subset
  <2> QED  BY <2>2, ArenaAssumption DEF Places, NotOverfull, Rooms
<1>9. AllInWorld(Q)
  BY <1>2, <1>3 DEF AllInWorld, Places
<1>10. \A r \in Rooms : \A c \in In(Q, r) : Q[c] = players[c]
  BY <1>2, <1>3 DEF In
<1>11. w.players = Q  BY <1>1
<1> QED  BY <1>1, <1>2, <1>4, <1>6, <1>7, <1>8, <1>9, <1>10, <1>11 DEF w, Q

-----------------------------------------------------------------------------
(***************************************************************************)
(* Every action keeps the invariant.                                       *)
(***************************************************************************)
\* The start: no players, and arenas without them.
LEMMA ArenaInit == ASSUME Init PROVE IInv
<1>1. \A r \in Rooms : In(players, r) = {} /\ At(players, r) = Empty
  BY DEF Init, In, At, Empty
<1>2. GridOf(Empty) = EmptyGrid  BY DEF GridOf, Empty, EmptyGrid
<1>3. Cardinality({}) = 0  BY FS_EmptySet
<1>4. ArenasOf(arenas, players)
  <2>1. ASSUME NEW r \in Rooms PROVE arenas[r] = arenaOf(players, r, Empty) /\ arenas[r].respawn = Empty
    BY <1>1, <1>2 DEF Init, arenaOf, R!NewRoom
  <2>2. DOMAIN Empty = {}  BY DEF Empty
  <2>3. arenas = [r \in Rooms |-> arenas[r]]  BY DEF Init
  <2> QED  BY <2>1, <2>2, <2>3 DEF ArenasOf
<1>5. NotOverfull(players)  BY <1>1, <1>3, ArenaAssumption DEF NotOverfull, Rooms
<1>6. DOMAIN Empty = {} /\ Empty \in [{} -> Player] /\ Empty \in [{} -> Session]  BY DEF Empty
<1>7. TypeOK  BY <1>6 DEF TypeOK, Init
<1> QED  BY <1>4, <1>5, <1>6, <1>7 DEF IInv, Places, Bindings, Known, Init, AllInWorld

\* What Places and Known say is of the players and the arenas only.
LEMMA SamePlaces == ASSUME Places, players' = players, arenas' = arenas PROVE Places'
<1>1. ArenasOf(arenas', players') /\ NotOverfull(players') /\ AllInWorld(players')
  BY DEF Places
<1> QED
  BY <1>1 DEF Places, ArenasOf, arenaOf, NotOverfull, AllInWorld, In, At, GridOf, cellFor, inWorld

\* A guest: the number is new, so no connection is bound to the session.
LEMMA KeptByGuest == ASSUME IInv, Guest PROVE IInv'
<1>1. Places'  BY SamePlaces DEF IInv, Guest
<1> DEFINE g == nextGuest + 1
           s == [expires |-> now + TTL, conns |-> {}]
<1>2. /\ DOMAIN sessions' = DOMAIN sessions \cup {g} /\ sessions'[g] = s
      /\ \A h \in DOMAIN sessions : h # g /\ sessions'[h] = sessions[h]
      /\ sessions' = [h \in DOMAIN sessions \cup {g} |-> sessions'[h]]
  BY DEF Guest, Put, IInv, TypeOK
<1>3. s \in Session  BY ArenaAssumption DEF Session, IInv, TypeOK
<1> HIDE DEF s
<1>4. TypeOK'
  <2>1. sessions' \in [DOMAIN sessions' -> Session]  BY <1>2, <1>3 DEF IInv, TypeOK
  <2>2. DOMAIN sessions' \subseteq 1..nextGuest' /\ nextGuest' \in Nat
    <3>1. nextGuest \in Nat /\ nextGuest' = nextGuest + 1 /\ DOMAIN sessions \subseteq 1..nextGuest
      BY DEF Guest, IInv, TypeOK
    <3>2. 1..nextGuest \subseteq 1..(nextGuest + 1) /\ nextGuest + 1 \in 1..(nextGuest + 1)
      BY <3>1
    <3> QED  BY <1>2, <3>1, <3>2
  <2> QED  BY <2>1, <2>2 DEF Guest, IInv, TypeOK
<1>5. Bindings'
  <2>1. sessions'[g].conns = {}  BY <1>2 DEF s
  <2>2. players' = players /\ names' = names \cup {g}  BY DEF Guest
  <2>3. names' = DOMAIN sessions'  BY <1>2, <2>2 DEF Bindings, IInv
  <2> HIDE DEF g
  <2>4. \A h \in DOMAIN sessions' : h = g \/ (h \in DOMAIN sessions /\ sessions'[h] = sessions[h])
    BY <1>2
  <2>5. \A h \in DOMAIN sessions' : \A c, d \in sessions'[h].conns : c = d
    BY <2>1, <2>4 DEF Bindings, IInv
  <2>6. \A h \in DOMAIN sessions' : \A c \in sessions'[h].conns :
           c \in DOMAIN players' /\ players'[c].name # NoName
    BY <2>1, <2>2, <2>4 DEF Bindings, IInv
  <2>7. \A c \in DOMAIN players' : players'[c].room # NoRoom =>
           \E h \in DOMAIN sessions' : c \in sessions'[h].conns
    BY <1>2, <2>2 DEF Bindings, IInv
  <2> QED  BY <2>3, <2>5, <2>6, <2>7 DEF Bindings
<1>6. Known'  BY DEF Known, IInv, Guest
<1> QED  BY <1>1, <1>4, <1>5, <1>6 DEF IInv

\* The stop of a connection, and the time, change neither players nor sessions.
LEMMA KeptByLost == ASSUME IInv, NEW c \in Conns, Lost(c) PROVE IInv'
<1>1. Places'  BY SamePlaces DEF IInv, Lost
<1> QED  BY <1>1 DEF IInv, Lost, TypeOK, Bindings, Known

\* Close stops the connections; the players leave with the hooks.
LEMMA KeptByClose == ASSUME IInv, Close PROVE IInv'
<1>1. Places'  BY SamePlaces DEF IInv, Close
<1> QED  BY <1>1 DEF IInv, Close, TypeOK, Bindings, Known

\* Time passes.
LEMMA KeptByTick == ASSUME IInv, Tick PROVE IInv'
<1>1. Places'  BY SamePlaces DEF IInv, Tick
<1> QED  BY <1>1 DEF IInv, Tick, TypeOK, Bindings, Known

\* Changes of the players that keep their rooms and places keep the arenas.
LEMMA SameRooms ==
    ASSUME TypeOK, Places, arenas' = arenas, NEW c,
           DOMAIN players' = DOMAIN players \cup {c},
           \A d \in DOMAIN players \ {c} : players'[d] = players[d],
           IF c \in DOMAIN players THEN players'[c].room = players[c].room /\ players'[c].pos = players[c].pos
           ELSE players'[c].room = NoRoom
    PROVE  Places'
<1>1. NoRoom \notin Rooms  BY ArenaAssumption DEF NoRoom, Rooms
<1>2. ASSUME NEW r \in Rooms PROVE In(players', r) = In(players, r) /\ At(players', r) = At(players, r)
  <2>1. In(players', r) = In(players, r)  BY <1>1 DEF In
  <2> QED  BY <2>1 DEF At, In
<1>3. \A r \in Rooms : \A x : arenaOf(players', r, x) = arenaOf(players, r, x)
  BY <1>2 DEF arenaOf
<1>4. ArenasOf(arenas, players')
  <2>1. arenas = [r \in Rooms |-> arenaOf(players', r, arenas[r].respawn)]
    BY <1>3 DEF Places, ArenasOf
  <2> QED  BY <2>1 DEF Places, ArenasOf
<1>5. NotOverfull(players')  BY <1>2 DEF Places, NotOverfull
<1>6. AllInWorld(players')  BY <1>1 DEF Places, AllInWorld
<1> QED  BY <1>4, <1>5, <1>6 DEF Places, ArenasOf, arenaOf, NotOverfull, AllInWorld, In, At, GridOf, cellFor, inWorld

\* The start hook.
LEMMA KeptByConnected == ASSUME IInv, NEW c \in Conns, Connected(c) PROVE IInv'
<1>0. hooks' \in [Conns -> {"before", "started", "ended"}] /\ hooks'[c] = "started"
      /\ \A d \in Conns \ {c} : hooks'[d] = hooks[d]
  BY DEF IInv, TypeOK, Connected
<1>1. CASE closed
  <2>1. players' = players /\ arenas' = arenas  BY <1>1 DEF Connected
  <2>2. Places'  BY <2>1, SamePlaces DEF IInv
  <2> QED  BY <1>0, <1>1, <2>1, <2>2 DEF IInv, Connected, TypeOK, Bindings, Known
<1>2. CASE ~closed
  <2>1. players' = Put(players, c, NewPlayer) /\ arenas' = arenas  BY <1>2 DEF Connected
  <2>2. c \notin DOMAIN players  BY DEF IInv, Known, Connected
  <2>3. /\ DOMAIN players' = DOMAIN players \cup {c} /\ players'[c] = NewPlayer
        /\ \A d \in DOMAIN players : players'[d] = players[d]
        /\ players' = [d \in DOMAIN players' |-> players'[d]]
    BY <2>1, <2>2 DEF Put
  <2>4. NewPlayer \in Player /\ NewPlayer.room = NoRoom
    <3>1. Still \in Place  BY DEF Still, Place
    <3>2. LongAgo \in Int  BY ArenaAssumption DEF LongAgo
    <3> QED  BY <3>1, <3>2 DEF NewPlayer, Player, NoName, NoRoom, IInv, TypeOK
  <2> HIDE DEF NewPlayer
  <2>5. Places'  BY <2>1, <2>2, <2>3, <2>4, SameRooms DEF IInv
  <2>6. players' \in [DOMAIN players' -> Player]  BY <2>3, <2>4 DEF IInv, TypeOK
  <2>7. TypeOK'  BY <1>0, <1>2, <2>3, <2>6 DEF Connected, IInv, TypeOK
  <2>8. Bindings'  BY <2>2, <2>3, <2>4 DEF Connected, IInv, Bindings
  <2>9. Known'  BY <1>0, <1>2, <2>3 DEF Connected, IInv, TypeOK, Known
  <2> QED  BY <2>5, <2>7, <2>8, <2>9 DEF IInv
<1> QED  BY <1>1, <1>2

\* Authenticate: the guest's name is stored, for his session is there.
LEMMA KeptByAuthenticate ==
    ASSUME IInv, NEW c \in Conns, NEW g, Authenticate(c, g) PROVE IInv'
<1>1. /\ g \in DOMAIN sessions /\ g \in names /\ g \in Nat \ {0} /\ c \in DOMAIN players
      /\ \A h \in DOMAIN sessions : c \in sessions[h].conns => h = g
      /\ sessions[g].conns \subseteq {c}
  BY DEF Authenticate, mayBind, request, bound, IInv, Bindings, TypeOK
<1>2. /\ DOMAIN sessions' = DOMAIN sessions /\ sessions'[g] = [sessions[g] EXCEPT !.conns = {c}]
      /\ \A h \in DOMAIN sessions \ {g} : sessions'[h] = sessions[h]
      /\ sessions' = [h \in DOMAIN sessions' |-> sessions'[h]]
  BY <1>1 DEF Authenticate, IInv, TypeOK
<1>3. /\ DOMAIN players' = DOMAIN players
      /\ players'[c] = [players[c] EXCEPT !.name = g]
      /\ \A d \in DOMAIN players \ {c} : players'[d] = players[d]
      /\ players' = [d \in DOMAIN players' |-> players'[d]]
  BY <1>1 DEF Authenticate, IInv, TypeOK
<1>4. players[c] \in Player /\ sessions[g] \in Session  BY <1>1 DEF IInv, TypeOK
<1>5. /\ players'[c] \in Player /\ players'[c].room = players[c].room
      /\ players'[c].pos = players[c].pos /\ players'[c].name = g
  BY <1>1, <1>3, <1>4 DEF Player
<1>6. sessions'[g] \in Session /\ sessions'[g].conns = {c}  BY <1>2, <1>4 DEF Session
<1>7. Places'  BY <1>1, <1>3, <1>5, SameRooms DEF IInv, Authenticate
<1>8. TypeOK'
  <2>1. players' \in [DOMAIN players' -> Player]  BY <1>3, <1>5 DEF IInv, TypeOK
  <2>2. sessions' \in [DOMAIN sessions' -> Session]  BY <1>2, <1>6 DEF IInv, TypeOK
  <2> QED  BY <1>2, <1>3, <2>1, <2>2 DEF IInv, TypeOK, Authenticate
<1>9. Bindings'
  <2>1. g # NoName  BY <1>1 DEF NoName
  <2>2. names' = DOMAIN sessions'  BY <1>2 DEF IInv, Bindings, Authenticate
  <2>3. \A h \in DOMAIN sessions' : \A d, e \in sessions'[h].conns : d = e
    <3> SUFFICES ASSUME NEW h \in DOMAIN sessions' PROVE \A d, e \in sessions'[h].conns : d = e
      OBVIOUS
    <3>1. CASE h = g  BY <3>1, <1>6
    <3>2. CASE h # g  BY <3>2, <1>2 DEF IInv, Bindings
    <3> QED  BY <3>1, <3>2
  <2>4. \A h \in DOMAIN sessions' : \A d \in sessions'[h].conns :
           d \in DOMAIN players' /\ players'[d].name # NoName
    BY <1>1, <1>2, <1>3, <1>5, <1>6, <2>1 DEF IInv, Bindings
  <2>5. ASSUME NEW d \in DOMAIN players', players'[d].room # NoRoom
        PROVE  \E h \in DOMAIN sessions' : d \in sessions'[h].conns
    <3>1. CASE d = c  BY <3>1, <1>1, <1>2, <1>6
    <3>2. CASE d # c
      <4>1. PICK h \in DOMAIN sessions : d \in sessions[h].conns
        BY <2>5, <3>2, <1>3 DEF IInv, Bindings
      <4> QED  BY <4>1, <3>2, <1>1, <1>2
    <3> QED  BY <3>1, <3>2
  <2> QED  BY <2>2, <2>3, <2>4, <2>5 DEF Bindings
<1>10. Known'  BY <1>3 DEF IInv, Known, Authenticate
<1> QED  BY <1>7, <1>8, <1>9, <1>10 DEF IInv

\* Input changes a player's direction.
LEMMA KeptByInput ==
    ASSUME IInv, NEW c \in Conns, NEW d \in Directions, NEW n \in Nat, Input(c, d, n) PROVE IInv'
<1>1. c \in DOMAIN players /\ players[c] \in Player  BY DEF Input, request, IInv, TypeOK
<1>2. /\ DOMAIN players' = DOMAIN players
      /\ players'[c] = [players[c] EXCEPT !.dir = d, !.seq = n, !.inputAt = now]
      /\ \A e \in DOMAIN players \ {c} : players'[e] = players[e]
      /\ players' = [e \in DOMAIN players' |-> players'[e]]
  BY <1>1 DEF Input, IInv, TypeOK
<1>3. d \in Place  BY ArenaAssumption DEF Place
<1>4. /\ players'[c] \in Player /\ players'[c].room = players[c].room
      /\ players'[c].pos = players[c].pos /\ players'[c].name = players[c].name
  <2>1. now \in Int  BY DEF IInv, TypeOK
  <2> QED  BY <1>1, <1>2, <1>3, <2>1 DEF Player
<1>5. Places'  BY <1>1, <1>2, <1>4, SameRooms DEF IInv, Input
<1>6. players' \in [DOMAIN players' -> Player]  BY <1>2, <1>4 DEF IInv, TypeOK
<1>7. TypeOK'  BY <1>2, <1>6 DEF IInv, TypeOK, Input
<1>8. Bindings'  BY <1>1, <1>2, <1>4 DEF IInv, Bindings, Input
<1>9. Known'  BY <1>2 DEF IInv, Known, Input
<1> QED  BY <1>5, <1>7, <1>8, <1>9 DEF IInv

\* The primed form of Places.
LEMMA PlacesNext ==
    ASSUME ArenasOf(arenas', players'), NotOverfull(players'), AllInWorld(players') PROVE Places'
BY DEF Places, ArenasOf, arenaOf, NotOverfull, AllInWorld, In, At, GridOf, cellFor, inWorld

\* Leave.
LEMMA KeptByLeave == ASSUME IInv, NEW c \in Conns, Leave(c) PROVE IInv'
<1> DEFINE w == leave({c})
<1>0. {c} \in SUBSET DOMAIN players  BY DEF Leave, request
<1>1. players' = w.players /\ arenas' = w.arenas /\ stopped' = w.stopped
  BY DEF Leave, Becomes
<1>2. /\ players' \in [DOMAIN players -> Player] /\ stopped' = stopped
      /\ \A d \in DOMAIN players : players'[d].name = players[d].name
      /\ \A d \in DOMAIN players : players'[d].room # NoRoom => players'[d] = players[d]
      /\ ArenasOf(arenas', players') /\ NotOverfull(players') /\ AllInWorld(players')
  <2> HIDE DEF w
  <2>1. /\ w = [players |-> outside({c}), arenas |-> w.arenas, stopped |-> stopped]
        /\ w.players \in [DOMAIN players -> Player]
        /\ \A d \in DOMAIN players : w.players[d].name = players[d].name
        /\ \A d \in {c} : w.players[d].room = NoRoom
        /\ \A d \in DOMAIN players \ {c} : w.players[d] = players[d]
        /\ ArenasOf(w.arenas, w.players) /\ NotOverfull(w.players) /\ AllInWorld(w.players)
    BY <1>0, LeavePlaces DEF IInv, w
  <2>2. w.stopped = stopped  BY <2>1
  <2> QED  BY <1>0, <1>1, <2>1, <2>2
<1> HIDE DEF w
<1>3. Places'  BY <1>2, PlacesNext
<1>4. DOMAIN players' = DOMAIN players  BY <1>2
<1>5. TypeOK'  BY <1>2, <1>4 DEF IInv, TypeOK, Leave
<1>6. Bindings'  BY <1>2, <1>4 DEF IInv, Bindings, Leave
<1>7. Known'  BY <1>2, <1>4 DEF IInv, Known, Leave
<1> QED  BY <1>3, <1>5, <1>6, <1>7 DEF IInv

\* The stop hook: his session, which no other connection is bound to, goes with
\* the player.
LEMMA KeptByDisconnected == ASSUME IInv, NEW c \in Conns, Disconnected(c) PROVE IInv'
<1> DEFINE S == DOMAIN players \cap {c}
           w == leave(S)
           Q == w.players
<1>1. /\ w = [players |-> Q, arenas |-> w.arenas, stopped |-> stopped]
      /\ Q \in [DOMAIN players -> Player]
      /\ \A d \in S : Q[d].room = NoRoom
      /\ \A d \in DOMAIN players \ S : Q[d] = players[d]
      /\ ArenasOf(w.arenas, Q) /\ NotOverfull(Q) /\ AllInWorld(Q)
  <2> HIDE DEF S
  <2>1. S \in SUBSET DOMAIN players  BY DEF S
  <2>2. w = [players |-> outside(S), arenas |-> w.arenas, stopped |-> stopped]
    BY <2>1, LeavePlaces DEF IInv
  <2> QED  BY <2>1, <2>2, LeavePlaces DEF IInv
<1>2. Becomes([w EXCEPT !.players = Delete(@, {c})])  BY DEF Disconnected
<1> HIDE DEF w, Q
<1>3. players' = Delete(Q, {c}) /\ arenas' = w.arenas /\ stopped' = stopped
  <2>1. [w EXCEPT !.players = Delete(@, {c})] =
            [players |-> Delete(Q, {c}), arenas |-> w.arenas, stopped |-> stopped]
    BY <1>1
  <2> QED  BY <1>2, <2>1 DEF Becomes
<1>4. /\ DOMAIN players' = DOMAIN players \ {c}
      /\ \A d \in DOMAIN players' : players'[d] = players[d] /\ players'[d] = Q[d]
      /\ players' \in [DOMAIN players' -> Player]
  BY <1>1, <1>3 DEF Delete
<1>5. NoRoom \notin Rooms  BY ArenaAssumption DEF NoRoom, Rooms
<1>6. ASSUME NEW r \in Rooms PROVE In(players', r) = In(Q, r) /\ At(players', r) = At(Q, r)
  <2>1. In(players', r) = In(Q, r)  BY <1>1, <1>4, <1>5 DEF In
  <2> QED  BY <2>1, <1>4 DEF At, In
<1>7. Places'
  <2>1. \A r \in Rooms : \A x : arenaOf(players', r, x) = arenaOf(Q, r, x)  BY <1>6 DEF arenaOf
  <2>2. ArenasOf(w.arenas, players')
    <3>1. w.arenas = [r \in Rooms |-> arenaOf(players', r, w.arenas[r].respawn)]
      BY <1>1, <2>1 DEF ArenasOf
    <3> QED  BY <1>1, <3>1 DEF ArenasOf
  <2>3. NotOverfull(players')  BY <1>1, <1>6 DEF NotOverfull
  <2>4. AllInWorld(players')  BY <1>1, <1>4 DEF AllInWorld
  <2> QED  BY <1>3, <2>2, <2>3, <2>4, PlacesNext
<1>8. /\ DOMAIN sessions' = DOMAIN sessions \ bound(c)
      /\ \A g \in DOMAIN sessions' : sessions'[g] = sessions[g] /\ c \notin sessions[g].conns
      /\ sessions' = [g \in DOMAIN sessions' |-> sessions'[g]]
  BY DEF Disconnected, Delete, bound
<1>9. TypeOK'
  <2>1. hooks' \in [Conns -> {"before", "started", "ended"}]  BY DEF Disconnected, IInv, TypeOK
  <2> QED  BY <1>3, <1>4, <1>8, <2>1 DEF Disconnected, IInv, TypeOK
<1>10. Bindings'
  <2>1. names' = DOMAIN sessions'  BY <1>8 DEF Disconnected, IInv, Bindings
  <2>2. \A g \in DOMAIN sessions' : \A d, e \in sessions'[g].conns : d = e
    BY <1>8 DEF IInv, Bindings
  <2>3. \A g \in DOMAIN sessions' : \A d \in sessions'[g].conns :
           d \in DOMAIN players' /\ players'[d].name # NoName
    BY <1>4, <1>8 DEF IInv, Bindings
  <2>4. ASSUME NEW d \in DOMAIN players', players'[d].room # NoRoom
        PROVE  \E g \in DOMAIN sessions' : d \in sessions'[g].conns
    <3>1. PICK g \in DOMAIN sessions : d \in sessions[g].conns
      BY <2>4, <1>4 DEF IInv, Bindings
    <3>2. c \notin sessions[g].conns  BY <3>1, <1>4 DEF IInv, Bindings
    <3> QED  BY <3>1, <3>2, <1>8 DEF bound
  <2> QED  BY <2>1, <2>2, <2>3, <2>4 DEF Bindings
<1>11. Known'
  <2>1. \A d \in Conns \ {c} : hooks'[d] = hooks[d]  BY DEF Disconnected, IInv, TypeOK
  <2> QED  BY <1>3, <1>4, <2>1 DEF Disconnected, IInv, TypeOK, Known
<1> QED  BY <1>7, <1>9, <1>10, <1>11 DEF IInv

\* The rooms count as we do.
LEMMA RoomCardinality == \A S : R!Cardinality(S) = Cardinality(S)
BY DEF R!Cardinality, Cardinality

\* Join: mayJoin has found room, and the player is in the new arena only.
LEMMA KeptByJoin == ASSUME IInv, NEW c \in Conns, NEW r \in Rooms, Join(c, r) PROVE IInv'
<1> DEFINE w == leave({c})
           Q == w.players
           p == [Q[c] EXCEPT !.room = r, !.pos = Spawn, !.score = 0]
<1>0. {c} \in SUBSET DOMAIN players  BY DEF Join, request
<1>1. /\ w = [players |-> Q, arenas |-> w.arenas, stopped |-> stopped]
      /\ Q \in [DOMAIN players -> Player]
      /\ Q[c].room = NoRoom /\ Q[c].name = players[c].name
      /\ \A d \in DOMAIN players \ {c} : Q[d] = players[d]
      /\ In(Q, r) = In(players, r) \ {c}
      /\ \A s \in Rooms : w.arenas[s].respawn = arenas[s].respawn
      /\ ArenasOf(w.arenas, Q) /\ NotOverfull(Q) /\ AllInWorld(Q)
  <2>1. w = [players |-> outside({c}), arenas |-> w.arenas, stopped |-> stopped]
    BY <1>0, LeavePlaces DEF IInv
  <2> HIDE DEF w
  <2>2. /\ w.players \in [DOMAIN players -> Player]
        /\ \A d \in DOMAIN players : w.players[d].name = players[d].name
        /\ \A d \in {c} : w.players[d].room = NoRoom
        /\ \A d \in DOMAIN players \ {c} : w.players[d] = players[d]
        /\ ArenasOf(w.arenas, w.players) /\ NotOverfull(w.players) /\ AllInWorld(w.players)
        /\ \A s \in Rooms : /\ w.arenas[s].respawn = arenas[s].respawn
                            /\ In(w.players, s) = In(players, s) \ {c}
    BY <1>0, LeavePlaces DEF IInv, w
  <2> QED  BY <1>0, <2>1, <2>2
<1>2. /\ players' = [Q EXCEPT ![c].room = r, ![c].pos = Spawn, ![c].score = 0]
      /\ arenas' = [w.arenas EXCEPT ![r] = [room |-> R!Joined(w.arenas[r].room, c),
                                             aoi |-> AddEntity(w.arenas[r].aoi, c, Spawn),
                                             respawn |-> w.arenas[r].respawn]]
      /\ stopped' = stopped
  <2>1. w.stopped = stopped  BY <1>1
  <2> QED  BY <2>1 DEF Join, Becomes
<1> HIDE DEF w, Q
<1>3. NoRoom \notin Rooms /\ Spawn \in Place /\ inWorld(Spawn)
  BY ArenaAssumption DEF NoRoom, Rooms, Place
<1>4. /\ DOMAIN players' = DOMAIN players /\ players'[c] = p
      /\ \A d \in DOMAIN players \ {c} : players'[d] = Q[d]
      /\ players' = [d \in DOMAIN players |-> players'[d]]
  BY <1>0, <1>1, <1>2
<1>5. p \in Player /\ p.room = r /\ p.pos = Spawn /\ p.name = players[c].name
  BY <1>0, <1>1, <1>3 DEF Player
<1> HIDE DEF p
<1>6. c \notin In(Q, r) /\ In(players', r) = In(Q, r) \cup {c} /\ At(players', r) = Put(At(Q, r), c, Spawn)
  <2>1. c \notin In(Q, r)  BY <1>1, <1>3 DEF In
  <2>2. In(players', r) = In(Q, r) \cup {c}  BY <1>0, <1>1, <1>4, <1>5 DEF In
  <2>3. \A d \in In(players', r) : players'[d].pos = IF d = c THEN Spawn ELSE Q[d].pos
    BY <1>4, <1>5 DEF In
  <2> QED  BY <2>1, <2>2, <2>3 DEF At, Put
<1>7. ASSUME NEW s \in Rooms, s # r
      PROVE  In(players', s) = In(Q, s) /\ At(players', s) = At(Q, s)
  <2>1. In(players', s) = In(Q, s)  BY <1>0, <1>1, <1>3, <1>4, <1>5, <1>7 DEF In
  <2>2. \A d \in In(Q, s) : players'[d].pos = Q[d].pos
    BY <1>1, <1>3, <1>4 DEF In
  <2> QED  BY <2>1, <2>2 DEF At
<1>8. ArenasOf(arenas', players')
  <2>1. w.arenas = [s \in Rooms |-> arenaOf(Q, s, w.arenas[s].respawn)]
        /\ \A s \in Rooms : DOMAIN w.arenas[s].respawn \subseteq DOMAIN Crystals
    BY <1>1 DEF ArenasOf
  <2>2. /\ arenas' = [s \in Rooms |-> arenas'[s]]
        /\ \A s \in Rooms \ {r} : arenas'[s] = w.arenas[s]
        /\ arenas'[r] = [room |-> R!Joined(w.arenas[r].room, c),
                         aoi |-> AddEntity(w.arenas[r].aoi, c, Spawn),
                         respawn |-> w.arenas[r].respawn]
    BY <1>2, <2>1
  <2>3. arenas'[r] = arenaOf(players', r, w.arenas[r].respawn)
    <3>1. w.arenas[r] = arenaOf(Q, r, w.arenas[r].respawn)  BY <2>1
    <3>2. w.arenas[r].aoi = GridOf(At(Q, r))
          /\ w.arenas[r].room = [max |-> MaxPlayers[r], members |-> In(Q, r)]
      BY <3>1 DEF arenaOf
    <3>3. AddEntity(w.arenas[r].aoi, c, Spawn) = GridOf(At(players', r))
      <4>1. c \notin DOMAIN At(Q, r)  BY <1>6 DEF At
      <4> QED  BY <1>6, <3>2, <4>1, AddExact
    <3>4. R!Joined(w.arenas[r].room, c) = [max |-> MaxPlayers[r], members |-> In(players', r)]
      BY <1>6, <3>2 DEF R!Joined
    <3> QED  BY <2>2, <3>3, <3>4 DEF arenaOf
  <2>4. ASSUME NEW s \in Rooms, s # r
        PROVE  w.arenas[s] = arenaOf(players', s, w.arenas[s].respawn)
    BY <1>7, <2>1, <2>4 DEF arenaOf
  <2>5. \A s \in Rooms : /\ arenas'[s] = arenaOf(players', s, w.arenas[s].respawn)
                         /\ arenas'[s].respawn = w.arenas[s].respawn
    <3>1. \A s \in Rooms : arenas'[s] = arenaOf(players', s, w.arenas[s].respawn)
      BY <2>2, <2>3, <2>4
    <3>2. \A s, x : arenaOf(players', s, x).respawn = x  BY DEF arenaOf
    <3> QED  BY <3>1, <3>2
  <2> QED  BY <2>1, <2>2, <2>5 DEF ArenasOf
<1>9. NotOverfull(players')
  <2>1. Cardinality(In(players', r)) <= MaxPlayers[r]
    <3>1. In(players, r) \in SUBSET Conns  BY DEF In, IInv, TypeOK
    <3>2. arenas[r].room = [max |-> MaxPlayers[r], members |-> In(players, r)]
      BY DEF IInv, Places, ArenasOf, arenaOf
    <3>3. c \notin In(players, r) /\ Cardinality(In(players, r)) < MaxPlayers[r]
      <4>1. R!mayJoin([max |-> MaxPlayers[r], members |-> In(players, r)], c)
        BY <3>2 DEF Join
      <4>2. MaxPlayers[r] > 0  BY ArenaAssumption DEF Rooms
      <4> QED  BY <4>1, <4>2, RoomCardinality DEF R!mayJoin
    <3>4. In(players', r) = In(players, r) \cup {c}  BY <1>1, <1>6
    <3>5. Cardinality(In(players, r) \cup {c}) = Cardinality(In(players, r)) + 1
          /\ Cardinality(In(players, r)) \in Nat
      BY <3>1, <3>3, FiniteConns, FS_AddElement
    <3>6. MaxPlayers[r] \in Nat  BY ArenaAssumption DEF Rooms
    <3> QED  BY <3>3, <3>4, <3>5, <3>6
  <2> QED  BY <2>1, <1>1, <1>7 DEF NotOverfull
<1>10. AllInWorld(players')
  <2> SUFFICES ASSUME NEW d \in DOMAIN players', players'[d].room # NoRoom
               PROVE  inWorld(players'[d].pos)
    BY DEF AllInWorld
  <2>1. CASE d = c  BY <2>1, <1>3, <1>4, <1>5
  <2>2. CASE d # c  BY <2>2, <1>1, <1>4 DEF AllInWorld
  <2> QED  BY <2>1, <2>2
<1>11. Places'  BY <1>8, <1>9, <1>10, PlacesNext
<1>12. TypeOK'
  <2>1. players' \in [DOMAIN players' -> Player]  BY <1>1, <1>4, <1>5
  <2> QED  BY <2>1, <1>2, <1>4 DEF IInv, TypeOK, Join
<1>13. Bindings'
  <2>1. \E g \in DOMAIN sessions : c \in sessions[g].conns  BY DEF Join, authenticated, bound
  <2>2. sessions' = sessions /\ names' = names  BY DEF Join
  <2>3. \A d \in DOMAIN players : /\ players'[d].name = players[d].name
                                  /\ d # c => players'[d].room = players[d].room
    BY <1>1, <1>4, <1>5
  <2> QED  BY <2>1, <2>2, <2>3, <1>4 DEF IInv, Bindings
<1>14. Known'  BY <1>2, <1>4 DEF IInv, Known, Join
<1> QED  BY <1>11, <1>12, <1>13, <1>14 DEF IInv

\* A step keeps players in the world: the border is at least as wide as the
\* Margin on either side.
LEMMA MovedInWorld ==
    ASSUME NEW p \in Player, now \in Nat, inWorld(p.pos)
    PROVE  moved(p) \in Place /\ inWorld(moved(p))
<1>1. CASE now - p.inputAt > InputTime
  BY <1>1 DEF moved, Player
<1>2. CASE ~(now - p.inputAt > InputTime)
  <2> DEFINE x == p.pos[1] + p.dir[1] * Speed
             y == p.pos[2] + p.dir[2] * Speed
  <2>1. moved(p) = <<within(x, WorldWidth), within(y, WorldHeight)>>  BY <1>2 DEF moved
  <2>2. x \in Int /\ y \in Int
    <3>1. \A a \in Int, b \in Nat : a * b \in Int  OBVIOUS
    <3>2. p.pos[1] \in Int /\ p.pos[2] \in Int /\ p.dir[1] \in Int /\ p.dir[2] \in Int
      BY DEF Player, Place
    <3>3. Speed \in Nat  BY ArenaAssumption
    <3>4. p.dir[1] * Speed \in Int /\ p.dir[2] * Speed \in Int  BY <3>1, <3>2, <3>3
    <3> QED  BY <3>2, <3>4
  <2> HIDE DEF x, y
  <2>3. ASSUME NEW z \in Int, NEW high \in Nat, 2 * Margin <= high
        PROVE  within(z, high) \in Int /\ within(z, high) >= 0 /\ within(z, high) < high
    <3>1. Margin \in Nat /\ Margin > 0  BY ArenaAssumption
    <3> QED  BY <3>1, <2>3 DEF within
  <2>4. /\ WorldWidth \in Nat /\ WorldHeight \in Nat
        /\ 2 * Margin <= WorldWidth /\ 2 * Margin <= WorldHeight
    BY ArenaAssumption, AOIAssumption
  <2> DEFINE a == within(x, WorldWidth)
             b == within(y, WorldHeight)
  <2>5. /\ a \in Int /\ a >= 0 /\ a < WorldWidth
        /\ b \in Int /\ b >= 0 /\ b < WorldHeight
    BY <2>2, <2>3, <2>4
  <2>6. moved(p) = <<a, b>>  BY <2>1
  <2> HIDE DEF a, b
  <2>7. <<a, b>> # <<>>  OBVIOUS
  <2> QED  BY <2>5, <2>6, <2>7 DEF Place, inWorld, NotFinite
<1> QED  BY <1>1, <1>2

\* The sessions that a step ends, the players it removes from their arenas, and
\* the ones it moves.
Over == {g \in DOMAIN sessions : expired(g)}
Gone == {c \in DOMAIN players : bound(c) \cap Over # {}}
Overdue == {c \in DOMAIN players : late(players[c])}
Playing == {c \in DOMAIN players \ (Gone \cup Overdue) : players[c].room # NoRoom}
Taken(r) == UNION {collected(Playing, c) : c \in {c \in Playing : players[c].room = r}}
Shown(r) == {k \in DOMAIN arenas[r].respawn : now >= arenas[r].respawn[k]}

\* What a player collects is a finite set of crystals that are not hidden.
LEMMA CollectedFinite ==
    ASSUME NEW I, NEW c
    PROVE  /\ collected(I, c) \subseteq DOMAIN Crystals \ DOMAIN arenas[players[c].room].respawn
           /\ IsFiniteSet(collected(I, c)) /\ Cardinality(collected(I, c)) \in Nat
<1>1. collected(I, c) \subseteq DOMAIN Crystals \ DOMAIN arenas[players[c].room].respawn
  BY DEF collected, reached
<1>2. IsFiniteSet(DOMAIN Crystals)  BY ArenaAssumption
<1> QED  BY <1>1, <1>2, FS_Subset, FS_CardinalityType

\* A step as a whole: the players of the arenas who still have a session move and
\* collect, and all others are in no arena; the arenas are those of the players.
LEMMA StepShape ==
    ASSUME IInv, Step
    PROVE  /\ players' \in [DOMAIN players -> Player]
           /\ \A c \in Playing :
                 /\ c \in DOMAIN players /\ players[c].room \in Rooms
                 /\ players'[c].room = players[c].room /\ players'[c].pos = moved(players[c])
                 /\ players'[c].score = players[c].score + Cardinality(collected(Playing, c))
           /\ \A c \in DOMAIN players \ Playing :
                 players'[c].room = NoRoom /\ players'[c].score = players[c].score
           /\ \A c \in DOMAIN players : players'[c].name = players[c].name
           /\ \A r \in Rooms : In(players', r) = In(players, r) \ Gone
           /\ arenas' = [r \in Rooms |-> arenas'[r]]
           /\ \A r \in Rooms :
                 /\ arenas'[r] = arenaOf(players', r, arenas'[r].respawn)
                 /\ DOMAIN arenas'[r].respawn = (DOMAIN arenas[r].respawn \ Shown(r)) \cup Taken(r)
           /\ stopped' = stopped \cup Gone \cup Overdue
           /\ sessions' = Delete(sessions, Over) /\ names' = names \ Over
<1> DEFINE w == leave(Gone)
           Q == w.players
           v == stepped(w, Playing)
<1>1. /\ w = [players |-> Q, arenas |-> w.arenas, stopped |-> stopped]
      /\ Q \in [DOMAIN players -> Player]
      /\ \A c \in Gone : Q[c].room = NoRoom /\ Q[c].score = players[c].score
      /\ \A c \in DOMAIN players \ Gone : Q[c] = players[c]
      /\ \A c \in DOMAIN players : Q[c].name = players[c].name
      /\ ArenasOf(w.arenas, Q)
      /\ \A r \in Rooms : /\ w.arenas[r].respawn = arenas[r].respawn
                          /\ In(Q, r) = In(players, r) \ Gone
  <2>1. Gone \in SUBSET DOMAIN players  BY DEF Gone
  <2>2. w = [players |-> outside(Gone), arenas |-> w.arenas, stopped |-> stopped]
    BY <2>1, LeavePlaces DEF IInv
  <2> HIDE DEF w
  <2>3. /\ w.players \in [DOMAIN players -> Player]
        /\ \A c \in DOMAIN players : w.players[c].name = players[c].name
        /\ \A c \in Gone : w.players[c].room = NoRoom /\ w.players[c].score = players[c].score
        /\ \A c \in DOMAIN players \ Gone : w.players[c] = players[c]
        /\ ArenasOf(w.arenas, w.players)
        /\ \A r \in Rooms : /\ w.arenas[r].respawn = arenas[r].respawn
                            /\ In(w.players, r) = In(players, r) \ Gone
    BY <2>1, LeavePlaces DEF IInv, w
  <2> QED  BY <2>2, <2>3
<1>2. /\ sessions' = Delete(sessions, Over) /\ names' = names \ Over
      /\ Becomes([v EXCEPT !.stopped = @ \cup Gone \cup Overdue])
  BY DEF Step, Over, Gone, Overdue, Playing
<1> HIDE DEF w, Q
<1>3. /\ players' = [c \in DOMAIN players |->
                        IF c \in Playing
                        THEN [Q[c] EXCEPT !.pos = moved(players[c]),
                                          !.score = @ + Cardinality(collected(Playing, c))]
                        ELSE Q[c]]
      /\ arenas' = [r \in Rooms |->
           [room |-> w.arenas[r].room,
            aoi |-> moveAll(w.arenas[r].aoi, {c \in Playing : players[c].room = r}),
            respawn |-> arenas'[r].respawn]]
      /\ \A r \in Rooms : DOMAIN arenas'[r].respawn = (DOMAIN arenas[r].respawn \ Shown(r)) \cup Taken(r)
      /\ stopped' = stopped \cup Gone \cup Overdue
  <2>1. v = [players |-> v.players, arenas |-> v.arenas, stopped |-> w.stopped]  BY DEF stepped
  <2>2. w.stopped = stopped  BY <1>1
  <2>3. players' = v.players /\ arenas' = v.arenas /\ stopped' = stopped \cup Gone \cup Overdue
    <3> HIDE DEF v
    <3> QED  BY <1>2, <2>1, <2>2 DEF Becomes
  <2>4. v.players = [c \in DOMAIN players |->
                        IF c \in Playing
                        THEN [Q[c] EXCEPT !.pos = moved(players[c]),
                                          !.score = @ + Cardinality(collected(Playing, c))]
                        ELSE Q[c]]
    BY DEF stepped, Q
  <2>5. ASSUME NEW r \in Rooms
        PROVE  /\ v.arenas[r] =
                    [room |-> w.arenas[r].room,
                     aoi |-> moveAll(w.arenas[r].aoi, {c \in Playing : players[c].room = r}),
                     respawn |-> v.arenas[r].respawn]
               /\ DOMAIN v.arenas[r].respawn = (DOMAIN arenas[r].respawn \ Shown(r)) \cup Taken(r)
    <3> DEFINE old == w.arenas[r].respawn
               new == [k \in (DOMAIN old \ {k \in DOMAIN old : now >= old[k]}) \cup Taken(r) |->
                          IF k \in Taken(r) THEN now + RespawnTime ELSE old[k]]
    <3>1. v.arenas[r] = [room |-> w.arenas[r].room,
                         aoi |-> moveAll(w.arenas[r].aoi, {c \in Playing : players[c].room = r}),
                         respawn |-> new]
      BY DEF stepped, Taken
    <3>2. DOMAIN new = (DOMAIN arenas[r].respawn \ Shown(r)) \cup Taken(r)
      <4>1. old = arenas[r].respawn  BY <1>1
      <4>2. DOMAIN new = (DOMAIN old \ {k \in DOMAIN old : now >= old[k]}) \cup Taken(r)  OBVIOUS
      <4> HIDE DEF new, old
      <4> QED  BY <4>1, <4>2 DEF Shown
    <3> HIDE DEF new, v
    <3> QED  BY <3>1, <3>2
  <2>6. v.arenas = [r \in Rooms |-> v.arenas[r]]  BY DEF stepped
  <2> HIDE DEF v
  <2> QED  BY <2>3, <2>4, <2>5, <2>6
<1>4. NoRoom \notin Rooms  BY ArenaAssumption DEF NoRoom, Rooms
<1>5. \A c \in Overdue : players[c].room = NoRoom
  BY DEF Overdue, late, IInv, Bindings
<1>6. ASSUME NEW c \in Playing
      PROVE  /\ c \in DOMAIN players /\ players[c].room \in Rooms /\ Q[c] = players[c]
             /\ players'[c] \in Player /\ players'[c].name = players[c].name
             /\ players'[c].room = players[c].room /\ players'[c].pos = moved(players[c])
             /\ players'[c].score = players[c].score + Cardinality(collected(Playing, c))
  <2>1. c \in DOMAIN players /\ c \notin Gone /\ players[c].room # NoRoom  BY DEF Playing
  <2>2. players[c] \in Player /\ Q[c] = players[c]  BY <1>1, <2>1 DEF IInv, TypeOK
  <2>3. players[c].room \in Rooms  BY <2>1, <2>2 DEF Player
  <2>4. moved(players[c]) \in Place
    BY <2>1, <2>2, MovedInWorld DEF IInv, TypeOK, Places, AllInWorld
  <2> DEFINE n == players[c].score + Cardinality(collected(Playing, c))
             to == moved(players[c])
  <2>5. n \in Nat
    <3>1. players[c].score \in Nat  BY <2>2 DEF Player
    <3> QED  BY <3>1, CollectedFinite
  <2>6. players'[c] = [players[c] EXCEPT !.pos = to, !.score = n]  BY <1>3, <2>1, <2>2
  <2> HIDE DEF n, to
  <2>7. to \in Place  BY <2>4 DEF to
  <2>8. /\ players'[c] \in Player /\ players'[c].name = players[c].name
        /\ players'[c].room = players[c].room /\ players'[c].pos = to
        /\ players'[c].score = n
    BY <2>2, <2>5, <2>6, <2>7 DEF Player
  <2> QED  BY <2>1, <2>2, <2>3, <2>8 DEF n, to
<1>7. ASSUME NEW c \in DOMAIN players \ Playing
      PROVE  /\ players'[c] = Q[c] /\ Q[c].room = NoRoom /\ Q[c].score = players[c].score
  <2>1. players'[c] = Q[c]  BY <1>3
  <2>2. CASE c \in Gone  BY <2>1, <2>2, <1>1
  <2>3. CASE c \notin Gone  BY <2>1, <2>3, <1>1, <1>5 DEF Playing
  <2> QED  BY <2>2, <2>3
<1>8. players' \in [DOMAIN players -> Player]
  <2>1. \A c \in DOMAIN players : players'[c] \in Player  BY <1>1, <1>6, <1>7
  <2>2. players' = [c \in DOMAIN players |-> players'[c]]
    BY <1>3
  <2> QED  BY <2>1, <2>2
<1>9. ASSUME NEW r \in Rooms
      PROVE  /\ In(Q, r) = {c \in Playing : players[c].room = r}
             /\ In(players', r) = In(Q, r)
             /\ At(players', r) = [c \in DOMAIN At(Q, r) |-> IF c \in In(Q, r) THEN moved(players[c]) ELSE At(Q, r)[c]]
  <2>1. DOMAIN Q = DOMAIN players /\ DOMAIN players' = DOMAIN players  BY <1>1, <1>8
  <2>2. In(Q, r) = {c \in Playing : players[c].room = r}
    BY <2>1, <1>4, <1>6, <1>7 DEF In
  <2>3. In(players', r) = In(Q, r)
    BY <2>1, <1>4, <1>6, <1>7 DEF In
  <2>4. \A c \in In(Q, r) : players'[c].pos = moved(players[c])
    BY <2>2, <1>6
  <2> QED  BY <2>2, <2>3, <2>4 DEF At
<1>10. ASSUME NEW r \in Rooms PROVE arenas'[r] = arenaOf(players', r, arenas'[r].respawn)
  <2>1. /\ w.arenas[r].room = [max |-> MaxPlayers[r], members |-> In(Q, r)]
        /\ w.arenas[r].aoi = GridOf(At(Q, r))
    BY <1>1 DEF ArenasOf, arenaOf
  <2>2. moveAll(GridOf(At(Q, r)), In(Q, r)) = GridOf(At(players', r))
    <3>1. In(Q, r) \in SUBSET Conns  BY <1>1 DEF In, IInv, TypeOK
    <3>2. IsFiniteSet(In(Q, r)) /\ In(Q, r) \subseteq DOMAIN At(Q, r)
      BY <3>1, FiniteConns DEF At
    <3> QED  BY <3>2, <1>9, MoveFold
  <2>3. arenas'[r] = [room |-> w.arenas[r].room,
                      aoi |-> moveAll(w.arenas[r].aoi, {c \in Playing : players[c].room = r}),
                      respawn |-> arenas'[r].respawn]
    BY <1>3
  <2> QED  BY <1>9, <2>1, <2>2, <2>3 DEF arenaOf
<1>11. arenas' = [r \in Rooms |-> arenas'[r]]  BY <1>3
<1>12. \A c \in DOMAIN players : players'[c].name = players[c].name  BY <1>1, <1>6, <1>7
<1> QED  BY <1>1, <1>2, <1>3, <1>6, <1>7, <1>8, <1>9, <1>10, <1>11, <1>12

\* Deleting the sessions that are over unbinds exactly the players who are gone.
LEMMA KeptByStep == ASSUME IInv, Step PROVE IInv'
<1>1. /\ players' \in [DOMAIN players -> Player]
      /\ \A c \in Playing : players'[c].pos = moved(players[c]) /\ players'[c].room = players[c].room
      /\ \A c \in DOMAIN players \ Playing : players'[c].room = NoRoom
      /\ \A c \in DOMAIN players : players'[c].name = players[c].name
      /\ \A r \in Rooms : In(players', r) = In(players, r) \ Gone
      /\ arenas' = [r \in Rooms |-> arenas'[r]]
      /\ \A r \in Rooms :
            /\ arenas'[r] = arenaOf(players', r, arenas'[r].respawn)
            /\ DOMAIN arenas'[r].respawn = (DOMAIN arenas[r].respawn \ Shown(r)) \cup Taken(r)
      /\ stopped' = stopped \cup Gone \cup Overdue
      /\ sessions' = Delete(sessions, Over) /\ names' = names \ Over
  BY StepShape
<1>2. DOMAIN players' = DOMAIN players  BY <1>1
<1>3. ArenasOf(arenas', players')
  <2>1. \A r \in Rooms : Taken(r) \subseteq DOMAIN Crystals
    <3>1. \A c : collected(Playing, c) \subseteq DOMAIN Crystals  BY CollectedFinite
    <3> QED  BY <3>1 DEF Taken
  <2>2. \A r \in Rooms : DOMAIN arenas'[r].respawn \subseteq DOMAIN Crystals
    BY <1>1, <2>1 DEF IInv, Places, ArenasOf
  <2>3. arenas' = [r \in Rooms |-> arenaOf(players', r, arenas'[r].respawn)]  BY <1>1
  <2> QED  BY <2>2, <2>3 DEF ArenasOf
<1>4. NotOverfull(players')
  <2> SUFFICES ASSUME NEW r \in Rooms PROVE Cardinality(In(players', r)) <= MaxPlayers[r]
    BY DEF NotOverfull
  <2>1. In(players, r) \in SUBSET Conns /\ In(players', r) \in SUBSET In(players, r)
    BY <1>1 DEF In, IInv, TypeOK
  <2>2. /\ Cardinality(In(players', r)) <= Cardinality(In(players, r))
        /\ Cardinality(In(players, r)) \in Nat /\ Cardinality(In(players', r)) \in Nat
    BY <2>1, FiniteConns, FS_Subset
  <2>3. MaxPlayers[r] \in Nat /\ Cardinality(In(players, r)) <= MaxPlayers[r]
    BY ArenaAssumption DEF IInv, Places, NotOverfull, Rooms
  <2> QED  BY <2>2, <2>3
<1>5. AllInWorld(players')
  <2> SUFFICES ASSUME NEW c \in DOMAIN players', players'[c].room # NoRoom
               PROVE  inWorld(players'[c].pos)
    BY DEF AllInWorld
  <2>1. c \in Playing /\ c \in DOMAIN players  BY <1>1, <1>2
  <2>2. players[c] \in Player /\ inWorld(players[c].pos)
    BY <2>1 DEF IInv, TypeOK, Places, AllInWorld, Playing
  <2>3. inWorld(moved(players[c]))  BY <2>2, MovedInWorld DEF IInv, TypeOK
  <2> QED  BY <2>1, <2>3, <1>1
<1>6. Places'  BY <1>3, <1>4, <1>5, PlacesNext
<1>7. /\ DOMAIN sessions' = DOMAIN sessions \ Over
      /\ \A g \in DOMAIN sessions' : sessions'[g] = sessions[g]
      /\ sessions' = [g \in DOMAIN sessions' |-> sessions'[g]]
  BY <1>1 DEF Delete
<1>8. TypeOK'
  <2>1. tick' \in Nat
    <3>1. tick \in Nat /\ TickPeriod \in Nat /\ TickPeriod > 0  BY ArenaAssumption DEF IInv, TypeOK
    <3> QED  BY <3>1 DEF Step, Ticks
  <2>2. Gone \subseteq Conns /\ Overdue \subseteq Conns  BY DEF Gone, Overdue, IInv, TypeOK
  <2>3. sessions' \in [DOMAIN sessions' -> Session] /\ DOMAIN sessions' \subseteq 1..nextGuest
    BY <1>7 DEF IInv, TypeOK
  <2> QED  BY <1>1, <1>2, <2>1, <2>2, <2>3 DEF IInv, TypeOK, Step
<1>9. Bindings'
  <2>1. names' = DOMAIN sessions'  BY <1>1, <1>7 DEF IInv, Bindings
  <2>2. \A g \in DOMAIN sessions' : \A d, e \in sessions'[g].conns : d = e
    BY <1>7 DEF IInv, Bindings
  <2>3. \A g \in DOMAIN sessions' : \A d \in sessions'[g].conns :
           d \in DOMAIN players' /\ players'[d].name # NoName
    BY <1>1, <1>2, <1>7 DEF IInv, Bindings
  <2>4. ASSUME NEW c \in DOMAIN players', players'[c].room # NoRoom
        PROVE  \E g \in DOMAIN sessions' : c \in sessions'[g].conns
    <3>1. c \in Playing /\ c \in DOMAIN players /\ players[c].room # NoRoom  BY <2>4, <1>1, <1>2
    <3>2. PICK g \in DOMAIN sessions : c \in sessions[g].conns  BY <3>1 DEF IInv, Bindings
    <3>3. g \notin Over  BY <3>1, <3>2 DEF Playing, Gone, bound
    <3> QED  BY <3>2, <3>3, <1>7
  <2> QED  BY <2>1, <2>2, <2>3, <2>4 DEF Bindings
<1>10. Known'  BY <1>1, <1>2 DEF IInv, Known, Step
<1> QED  BY <1>6, <1>8, <1>9, <1>10 DEF IInv

\* The invariant of the world, for any arenas and connections.
THEOREM ArenaInvariant == Spec => []IInv
<1>1. Init => IInv  BY ArenaInit
<1>2. IInv /\ [Next]_vars => IInv'
  <2> SUFFICES ASSUME IInv, [Next]_vars PROVE IInv'
    OBVIOUS
  <2>1. CASE UNCHANGED vars
    <3>1. Places'  BY <2>1, SamePlaces DEF IInv, vars
    <3> QED  BY <2>1, <3>1 DEF IInv, TypeOK, Bindings, Known, vars
  <2>2. CASE Guest  BY <2>2, KeptByGuest
  <2>3. CASE Step  BY <2>3, KeptByStep
  <2>4. CASE Close  BY <2>4, KeptByClose
  <2>5. CASE Tick  BY <2>5, KeptByTick
  <2>6. ASSUME NEW c \in Conns, Connected(c) \/ Disconnected(c) \/ Lost(c) \/ Leave(c) PROVE IInv'
    BY <2>6, KeptByConnected, KeptByDisconnected, KeptByLost, KeptByLeave
  <2>7. ASSUME NEW c \in Conns, NEW g \in 1..MaxGuests, Authenticate(c, g) PROVE IInv'
    BY <2>7, KeptByAuthenticate
  <2>8. ASSUME NEW c \in Conns, NEW r \in Rooms, Join(c, r) PROVE IInv'
    BY <2>8, KeptByJoin
  <2>9. ASSUME NEW c \in Conns, NEW d \in Directions, NEW n \in 1..MaxSeq, Input(c, d, n)
        PROVE  IInv'
    <3>1. n \in Nat  BY ArenaAssumption
    <3> QED  BY <2>9, <3>1, KeptByInput
  <2>10. CASE Finished  BY <2>10, <2>1 DEF Finished
  <2> QED  BY <2>1, <2>2, <2>3, <2>4, <2>5, <2>6, <2>7, <2>8, <2>9, <2>10 DEF Next
<1> QED  BY <1>1, <1>2, PTL DEF Spec

\* ArenaExact: the room, the grid and the players of an arena always agree, and
\* whoever is in one has a session and a name.
THEOREM ArenaAgrees == Spec => []ArenaExact
<1>1. IInv => ArenaExact
  <2> SUFFICES ASSUME IInv PROVE ArenaExact
    OBVIOUS
  <2>1. ASSUME NEW r \in Rooms
        PROVE  /\ arenas[r].room.members = inside(r)
               /\ Cardinality(inside(r)) <= MaxPlayers[r]
               /\ GridExact(arenas[r].aoi, [c \in inside(r) |-> players[c].pos])
    <3>1. inside(r) = In(players, r) /\ [c \in inside(r) |-> players[c].pos] = At(players, r)
      BY DEF inside, In, At
    <3>2. arenas[r] = arenaOf(players, r, arenas[r].respawn)  BY DEF IInv, Places, ArenasOf
    <3>3. \A c \in DOMAIN At(players, r) : At(players, r)[c] \in Place
      BY DEF At, In, IInv, TypeOK, Player
    <3>4. GridExact(GridOf(At(players, r)), At(players, r))  BY <3>3, GridOfOK, GridAnswers
    <3>5. arenas[r].room.members = In(players, r) /\ arenas[r].aoi = GridOf(At(players, r))
      BY <3>2 DEF arenaOf
    <3> QED  BY <3>1, <3>4, <3>5 DEF IInv, Places, NotOverfull
  <2>2. \A c \in DOMAIN players : players[c].room # NoRoom =>
           inWorld(players[c].pos) /\ bound(c) # {} /\ players[c].name # NoName
    BY DEF IInv, Places, AllInWorld, Bindings, bound
  <2> QED  BY <2>1, <2>2 DEF ArenaExact, IInv, Bindings, Known
<1> QED  BY <1>1, ArenaInvariant, PTL

-----------------------------------------------------------------------------
(***************************************************************************)
(* A crystal is collected once.  In a step, player c gains the points with *)
(* the numbers after his score, and hides as many crystals of his arena;   *)
(* neither two players' points nor, because their turns differ, the        *)
(* crystals that two players hide have anything in common.                 *)
(***************************************************************************)
\* What the members of T contribute together.
Together(f, T) == UNION {f[c] : c \in T}

\* Two families of sets, each of them disjoint, that are of the same sizes.
LEMMA SameSize ==
    ASSUME NEW I, IsFiniteSet(I), NEW f, NEW g,
           \A c \in I : /\ IsFiniteSet(f[c]) /\ IsFiniteSet(g[c])
                        /\ Cardinality(f[c]) = Cardinality(g[c]),
           \A c, d \in I : c # d => f[c] \cap f[d] = {} /\ g[c] \cap g[d] = {}
    PROVE  Cardinality(Together(f, I)) = Cardinality(Together(g, I))
<1> DEFINE P == {T \in SUBSET I : /\ IsFiniteSet(Together(f, T)) /\ IsFiniteSet(Together(g, T))
                                  /\ Cardinality(Together(f, T)) = Cardinality(Together(g, T))}
<1>1. {} \in P
  <2>1. \A h : Together(h, {}) = {}  BY DEF Together
  <2> QED  BY <2>1, FS_EmptySet
<1>2. ASSUME NEW T \in SUBSET I, T # {} PROVE \E x \in T : T \ {x} \in P => T \in P
  <2>1. PICK x \in T : TRUE  BY <1>2
  <2>2. SUFFICES ASSUME T \ {x} \in P PROVE T \in P
    BY <2>1
  <2>3. ASSUME NEW h, \A c, d \in I : c # d => h[c] \cap h[d] = {}, IsFiniteSet(h[x]),
               IsFiniteSet(Together(h, T \ {x}))
        PROVE  /\ IsFiniteSet(Together(h, T))
               /\ Cardinality(Together(h, T)) = Cardinality(Together(h, T \ {x})) + Cardinality(h[x])
    <3>1. Together(h, T) = Together(h, T \ {x}) \cup h[x]  BY DEF Together
    <3>2. Together(h, T \ {x}) \cap h[x] = {}  BY <2>3 DEF Together
    <3>3. /\ IsFiniteSet(Together(h, T \ {x}) \cup h[x])
          /\ Cardinality(Together(h, T \ {x}) \cup h[x]) =
               Cardinality(Together(h, T \ {x})) + Cardinality(h[x]) - Cardinality({})
      <4> DEFINE X == Together(h, T \ {x})
                 Y == h[x]
      <4>1. IsFiniteSet(X) /\ IsFiniteSet(Y) /\ X \cap Y = {}  BY <2>3, <3>2
      <4> HIDE DEF X, Y
      <4>2. /\ IsFiniteSet(X \cup Y)
            /\ Cardinality(X \cup Y) = Cardinality(X) + Cardinality(Y) - Cardinality(X \cap Y)
        BY <4>1, FS_Union
      <4>3. Cardinality(X \cap Y) = Cardinality({})  BY <4>1
      <4> QED  BY <4>2, <4>3 DEF X, Y
    <3>4. /\ Cardinality({}) = 0 /\ Cardinality(h[x]) \in Nat
          /\ Cardinality(Together(h, T \ {x})) \in Nat
      BY <2>3, FS_EmptySet, FS_CardinalityType
    <3> QED  BY <3>1, <3>3, <3>4
  <2>4. /\ IsFiniteSet(Together(f, T)) /\ IsFiniteSet(Together(g, T))
        /\ Cardinality(Together(f, T)) = Cardinality(Together(f, T \ {x})) + Cardinality(f[x])
        /\ Cardinality(Together(g, T)) = Cardinality(Together(g, T \ {x})) + Cardinality(g[x])
    BY <2>2, <2>3
  <2> QED  BY <2>2, <2>4
<1> HIDE DEF P
<1>3. SUBSET I \subseteq P  BY <1>1, <1>2, SetInduction
<1> QED  BY <1>3 DEF P

\* Numbers that are less than n apart have different remainders.
LEMMA Remainders ==
    ASSUME NEW a \in Int, NEW b \in Int, NEW n \in Nat, a < b, b < a + n
    PROVE  a % n # b % n /\ a % n \in Int /\ b % n \in Int
<1>1. n > 0  OBVIOUS
<1> DEFINE q == a \div n
           p == b \div n
<1>2. /\ a = n * q + (a % n) /\ b = n * p + (b % n)
      /\ q \in Int /\ p \in Int /\ a % n \in Int /\ b % n \in Int
  <2>1. ASSUME NEW x \in Int PROVE x \div n \in Int /\ x % n \in Int
    BY <1>1
  <2>2. ASSUME NEW x \in Int PROVE x = n * (x \div n) + (x % n)
    BY <1>1
  <2> QED  BY <2>1, <2>2
<1> SUFFICES ASSUME a % n = b % n PROVE FALSE
  BY <1>2
<1> HIDE DEF p, q
<1>3. b - a = n * (p - q)
  <2>1. n * (p - q) = n * p - n * q  BY <1>2
  <2>2. n * p \in Int /\ n * q \in Int  BY <1>2
  <2> QED  BY <1>2, <2>1, <2>2
<1> DEFINE k == p - q
<1>4. k \in Int  BY <1>2
<1>5. b - a = n * k  BY <1>3
<1> HIDE DEF k
<1>6. CASE k <= 0
  <2>1. n * k <= 0  BY <1>4, <1>6
  <2> QED  BY <1>5, <2>1
<1>7. CASE k >= 1
  <2>1. n * k = n + n * (k - 1)  BY <1>4
  <2>2. n * (k - 1) >= 0 /\ n * (k - 1) \in Int  BY <1>4, <1>7
  <2> QED  BY <1>5, <2>1, <2>2
<1> QED  BY <1>4, <1>6, <1>7

\* No two players have the same turn.
LEMMA TurnsDiffer ==
    ASSUME TypeOK, NEW c \in DOMAIN players, NEW d \in DOMAIN players, c # d
    PROVE  turn(c) # turn(d) /\ turn(c) \in Int /\ turn(d) \in Int
<1> DEFINE D == DOMAIN players
           Before(x) == {y \in D : y < x}
           n == Cardinality(D)
           rank(x) == Cardinality(Before(x))
<1>1. D \subseteq Nat /\ IsFiniteSet(D) /\ n \in Nat  BY ArenaAssumption, FiniteConns DEF TypeOK
<1>2. ASSUME NEW x \in D
      PROVE  /\ IsFiniteSet(Before(x)) /\ rank(x) \in Nat
             /\ IsFiniteSet(Before(x) \cup {x}) /\ Cardinality(Before(x) \cup {x}) = rank(x) + 1
  <2>1. Before(x) \in SUBSET D /\ x \notin Before(x)  BY <1>1
  <2>2. IsFiniteSet(Before(x))  BY <1>1, <2>1, FS_Subset
  <2> HIDE DEF Before
  <2> QED  BY <2>1, <2>2, FS_AddElement, FS_CardinalityType
<1>3. ASSUME NEW x \in D PROVE rank(x) < n
  <2>1. Before(x) \cup {x} \in SUBSET D  OBVIOUS
  <2> HIDE DEF Before
  <2>2. Cardinality(Before(x) \cup {x}) <= n  BY <1>1, <2>1, FS_Subset
  <2> HIDE DEF rank, n
  <2> QED  BY <1>1, <1>2, <2>2
<1>4. ASSUME NEW x \in D, NEW y \in D, x < y PROVE rank(x) < rank(y)
  <2>1. Before(x) \cup {x} \in SUBSET Before(y)  BY <1>1, <1>4
  <2> HIDE DEF Before
  <2>2. Cardinality(Before(x) \cup {x}) <= rank(y)  BY <1>2, <2>1, FS_Subset
  <2> HIDE DEF rank
  <2>3. /\ Cardinality(Before(x) \cup {x}) = rank(x) + 1
        /\ rank(x) \in Nat /\ rank(y) \in Nat
    BY <1>2
  <2> QED  BY <2>2, <2>3
<1>5. \A x \in D : turn(x) = (rank(x) - tick - 1) % n  BY DEF turn
<1> HIDE DEF rank, n
<1>6. ASSUME NEW x \in D, NEW y \in D, x < y
      PROVE  turn(x) # turn(y) /\ turn(x) \in Int /\ turn(y) \in Int
  <2> DEFINE a == rank(x) - tick - 1
             b == rank(y) - tick - 1
  <2>1. a \in Int /\ b \in Int /\ a < b /\ b < a + n
    <3>1. rank(x) \in Nat /\ rank(y) \in Nat /\ rank(x) < rank(y) /\ rank(y) < n /\ tick \in Nat
      BY <1>2, <1>3, <1>4, <1>6 DEF TypeOK
    <3> QED  BY <1>1, <3>1
  <2>2. turn(x) = a % n /\ turn(y) = b % n  BY <1>5
  <2> HIDE DEF a, b
  <2> QED  BY <1>1, <2>1, <2>2, Remainders
<1>7. c < d \/ d < c  BY <1>1
<1> QED  BY <1>6, <1>7

\* Two players never collect the same crystal of an arena.
LEMMA CollectedApart ==
    ASSUME TypeOK, NEW I \in SUBSET DOMAIN players, NEW c \in I, NEW d \in I, c # d,
           players[c].room = players[d].room
    PROVE  collected(I, c) \cap collected(I, d) = {}
<1>1. turn(c) < turn(d) \/ turn(d) < turn(c)
  <2>1. turn(c) # turn(d) /\ turn(c) \in Int /\ turn(d) \in Int  BY TurnsDiffer
  <2> QED  BY <2>1
<1>2. ASSUME NEW x \in I, NEW y \in I, players[x].room = players[y].room, turn(x) < turn(y)
      PROVE  collected(I, x) \cap collected(I, y) = {}
  <2>1. collected(I, x) \subseteq reached(players[x])  BY DEF collected
  <2>2. collected(I, y) \cap reached(players[x]) = {}  BY <1>2 DEF collected
  <2> QED  BY <2>1, <2>2
<1> QED  BY <1>1, <1>2

\* CollectedOnce: only Step changes the tick, and in a step the players gain as
\* many points as crystals are hidden.
THEOREM ArenaCollects == Spec => CollectedOnce
<1> DEFINE Same == Cardinality(points(players') \ points(players)) =
                       Cardinality(hidden(arenas') \ hidden(arenas))
<1>1. ASSUME IInv, Step PROVE Same
  <2> DEFINE I == Playing
             n(c) == Cardinality(collected(I, c))
             gain == [c \in I |-> {c} \X ((players[c].score + 1)..(players[c].score + n(c)))]
             hide == [c \in I |-> {players[c].room} \X collected(I, c)]
  <2>0. I \in SUBSET DOMAIN players /\ IsFiniteSet(I)
    <3>1. I \in SUBSET DOMAIN players  BY DEF Playing
    <3>2. I \in SUBSET Conns  BY <3>1, <1>1 DEF IInv, TypeOK
    <3> QED  BY <3>1, <3>2, FiniteConns
  <2>1. /\ players' \in [DOMAIN players -> Player]
        /\ \A c \in I : /\ c \in DOMAIN players /\ players[c].room \in Rooms
                        /\ players'[c].score = players[c].score + n(c)
        /\ \A c \in DOMAIN players \ I : players'[c].score = players[c].score
        /\ \A r \in Rooms : DOMAIN arenas'[r].respawn = (DOMAIN arenas[r].respawn \ Shown(r)) \cup Taken(r)
    BY <1>1, StepShape
  <2>2. \A c \in I : n(c) \in Nat /\ IsFiniteSet(collected(I, c))  BY CollectedFinite
  <2>3. \A c \in DOMAIN players : players[c].score \in Nat  BY <1>1 DEF IInv, TypeOK, Player
  <2> HIDE DEF I, n
  <2>4. points(players') \ points(players) = Together(gain, I)
    <3>1. ASSUME NEW P PROVE \A x : x \in points(P) <=> \E c \in DOMAIN P : x \in {c} \X (1..P[c].score)
      BY DEF points
    <3>2. \A x : x \in Together(gain, I) <=>
             \E c \in I : x \in {c} \X ((players[c].score + 1)..(players[c].score + n(c)))
      BY DEF Together
    <3>3. DOMAIN players' = DOMAIN players  BY <2>1
    <3>4. ASSUME NEW x \in points(players'), x \notin points(players) PROVE x \in Together(gain, I)
      <4>1. PICK c \in DOMAIN players : x \in {c} \X (1..players'[c].score)
        BY <3>1, <3>3, <3>4
      <4>2. x \notin {c} \X (1..players[c].score)  BY <3>1, <3>4, <4>1
      <4>3. c \in I  BY <2>1, <4>1, <4>2
      <4>4. x \in {c} \X ((players[c].score + 1)..(players[c].score + n(c)))
        <5> DEFINE s == players[c].score
                   m == n(c)
        <5>1. s \in Nat /\ m \in Nat /\ players'[c].score = s + m  BY <2>1, <2>2, <2>3, <4>3
        <5>2. x \in {c} \X (1..(s + m)) /\ x \notin {c} \X (1..s)  BY <4>1, <4>2, <5>1
        <5> HIDE DEF s, m
        <5>3. x \in {c} \X ((s + 1)..(s + m))  BY <5>1, <5>2
        <5> QED  BY <5>3 DEF s, m
      <4> QED  BY <3>2, <4>3, <4>4
    <3>5. ASSUME NEW x \in Together(gain, I) PROVE x \in points(players') /\ x \notin points(players)
      <4>1. PICK c \in I : x \in {c} \X ((players[c].score + 1)..(players[c].score + n(c)))
        BY <3>2, <3>5
      <4> DEFINE s == players[c].score
                 m == n(c)
      <4>2. s \in Nat /\ m \in Nat /\ players'[c].score = s + m /\ c \in DOMAIN players
        BY <2>1, <2>2, <2>3
      <4>3. x \in {c} \X ((s + 1)..(s + m))  BY <4>1
      <4> HIDE DEF s, m
      <4>4. x \in {c} \X (1..(s + m)) /\ x \notin {c} \X (1..s) /\ \A d : d # c => x \notin {d} \X (1..players[d].score)
        BY <4>2, <4>3
      <4>5. x \in points(players')  BY <3>1, <3>3, <4>2, <4>4
      <4>6. x \notin points(players)  BY <3>1, <4>4 DEF s
      <4> QED  BY <4>5, <4>6
    <3> QED  BY <3>4, <3>5
  <2>5. hidden(arenas') \ hidden(arenas) = Together(hide, I)
    <3>1. \A r \in Rooms : \A k :
             k \in Taken(r) <=> \E c \in I : players[c].room = r /\ k \in collected(I, c)
      BY DEF Taken, I
    <3>2. \A c \in I : collected(I, c) \subseteq DOMAIN Crystals \ DOMAIN arenas[players[c].room].respawn
      BY CollectedFinite
    <3>3. ASSUME NEW r \in Rooms, NEW k \in DOMAIN Crystals
          PROVE  /\ <<r, k>> \in hidden(arenas') <=> k \in DOMAIN arenas'[r].respawn
                 /\ <<r, k>> \in hidden(arenas) <=> k \in DOMAIN arenas[r].respawn
      BY DEF hidden
    <3>4. ASSUME NEW x PROVE x \in hidden(arenas') \ hidden(arenas) <=>
             \E r \in Rooms, k \in DOMAIN Crystals : x = <<r, k>> /\ k \in Taken(r)
      <4>1. ASSUME x \in hidden(arenas') \ hidden(arenas)
            PROVE \E r \in Rooms, k \in DOMAIN Crystals : x = <<r, k>> /\ k \in Taken(r)
        <5>1. PICK r \in Rooms, k \in DOMAIN Crystals : x = <<r, k>>  BY <4>1 DEF hidden
        <5> QED  BY <4>1, <5>1, <3>3, <2>1
      <4>2. ASSUME NEW r \in Rooms, NEW k \in DOMAIN Crystals, x = <<r, k>>, k \in Taken(r)
            PROVE  x \in hidden(arenas') \ hidden(arenas)
        <5>1. k \notin DOMAIN arenas[r].respawn  BY <3>1, <3>2, <4>2
        <5>2. k \in DOMAIN arenas'[r].respawn  BY <2>1, <4>2
        <5> QED  BY <3>3, <4>2, <5>1, <5>2
      <4> QED  BY <4>1, <4>2
    <3>5. ASSUME NEW x PROVE x \in Together(hide, I) <=>
             \E c \in I : \E k \in collected(I, c) : x = <<players[c].room, k>>
      BY DEF Together
    <3>6. ASSUME NEW x PROVE x \in hidden(arenas') \ hidden(arenas) <=> x \in Together(hide, I)
      <4>1. ASSUME NEW c \in I, NEW k \in collected(I, c), x = <<players[c].room, k>>
            PROVE  x \in hidden(arenas') \ hidden(arenas)
        <5>1. players[c].room \in Rooms /\ k \in DOMAIN Crystals /\ k \in Taken(players[c].room)
          BY <2>1, <3>1, <3>2, <4>1
        <5> QED  BY <3>4, <4>1, <5>1
      <4>2. ASSUME NEW r \in Rooms, NEW k \in DOMAIN Crystals, x = <<r, k>>, k \in Taken(r)
            PROVE  x \in Together(hide, I)
        <5>1. PICK c \in I : players[c].room = r /\ k \in collected(I, c)  BY <3>1, <4>2
        <5> QED  BY <3>5, <4>2, <5>1
      <4> QED  BY <3>4, <3>5, <4>1, <4>2
    <3> QED  BY <3>6
  <2>6. ASSUME NEW c \in I
        PROVE  /\ IsFiniteSet(gain[c]) /\ IsFiniteSet(hide[c])
               /\ Cardinality(gain[c]) = Cardinality(hide[c])
    <3>1. ASSUME NEW x, NEW S, IsFiniteSet(S)
          PROVE  IsFiniteSet({x} \X S) /\ Cardinality({x} \X S) = Cardinality(S)
      <4>1. IsFiniteSet({x}) /\ Cardinality({x}) = 1  BY FS_Singleton
      <4>2. IsFiniteSet({x} \X S) /\ Cardinality({x} \X S) = Cardinality({x}) * Cardinality(S)
        BY <3>1, <4>1, FS_Product
      <4>3. Cardinality(S) \in Nat  BY <3>1, FS_CardinalityType
      <4> QED  BY <4>1, <4>2, <4>3
    <3> DEFINE s == players[c].score
               m == n(c)
               J == (s + 1)..(s + m)
    <3>2. s \in Nat /\ m \in Nat  BY <2>1, <2>2, <2>3
    <3>3. IsFiniteSet(J) /\ Cardinality(J) = m
      <4> HIDE DEF s, m
      <4>1. s + 1 \in Int /\ s + m \in Int  BY <3>2
      <4>2. IsFiniteSet(J) /\ Cardinality(J) = IF s + 1 > s + m THEN 0 ELSE (s + m) - (s + 1) + 1
        BY <4>1, FS_Interval
      <4> QED  BY <3>2, <4>2
    <3>4. m = Cardinality(collected(I, c)) /\ IsFiniteSet(collected(I, c))  BY <2>2 DEF n
    <3>5. gain[c] = {c} \X J /\ hide[c] = {players[c].room} \X collected(I, c)  OBVIOUS
    <3> DEFINE C == collected(I, c)
               r == players[c].room
    <3> HIDE DEF gain, hide, J, m, C, r
    <3>6. IsFiniteSet({c} \X J) /\ Cardinality({c} \X J) = Cardinality(J)  BY <3>1, <3>3
    <3>7. IsFiniteSet({r} \X C) /\ Cardinality({r} \X C) = Cardinality(C)
      <4>1. IsFiniteSet(C)  BY <3>4 DEF C
      <4> QED  BY <3>1, <4>1
    <3> QED  BY <3>3, <3>4, <3>5, <3>6, <3>7 DEF C, r
  <2>7. ASSUME NEW c \in I, NEW d \in I, c # d
        PROVE  gain[c] \cap gain[d] = {} /\ hide[c] \cap hide[d] = {}
    <3>1. gain[c] \cap gain[d] = {}  BY <2>7
    <3>2. hide[c] \cap hide[d] = {}
      <4>1. CASE players[c].room = players[d].room
        <5>1. collected(I, c) \cap collected(I, d) = {}
          BY <1>1, <2>0, <2>7, <4>1, CollectedApart DEF IInv
        <5> QED  BY <5>1
      <4>2. CASE players[c].room # players[d].room  BY <4>2
      <4> QED  BY <4>1, <4>2
    <3> QED  BY <3>1, <3>2
  <2> HIDE DEF gain, hide
  <2>8. Cardinality(Together(gain, I)) = Cardinality(Together(hide, I))
    BY <2>0, <2>6, <2>7, SameSize
  <2> QED  BY <2>4, <2>5, <2>8
<1>2. ASSUME [Next]_vars, tick' # tick PROVE Step
  <2>1. CASE Guest \/ Close \/ Tick \/ Finished \/ UNCHANGED vars
    BY <1>2, <2>1 DEF Guest, Close, Tick, Finished, vars
  <2>2. ASSUME NEW c \in Conns, Connected(c) \/ Disconnected(c) \/ Lost(c) \/ Leave(c) PROVE FALSE
    BY <1>2, <2>2 DEF Connected, Disconnected, Lost, Leave
  <2>3. ASSUME NEW c \in Conns, NEW g \in 1..MaxGuests, Authenticate(c, g) PROVE FALSE
    BY <1>2, <2>3 DEF Authenticate
  <2>4. ASSUME NEW c \in Conns, NEW r \in Rooms, Join(c, r) PROVE FALSE
    BY <1>2, <2>4 DEF Join
  <2>5. ASSUME NEW c \in Conns, NEW d \in Directions, NEW n \in 1..MaxSeq, Input(c, d, n)
        PROVE  FALSE
    BY <1>2, <2>5 DEF Input
  <2> QED  BY <1>2, <2>1, <2>2, <2>3, <2>4, <2>5 DEF Next
<1> HIDE DEF Same
<1>3. IInv /\ [Next]_vars => [tick' # tick => Same]_vars
  BY <1>1, <1>2
<1> USE DEF Same
<1> QED  BY <1>3, ArenaInvariant, PTL DEF Spec, CollectedOnce

-----------------------------------------------------------------------------
(***************************************************************************)
(* CloseLeavesNothing and TunnelLimit of module Bridge, for every finite   *)
(* set of requests, every set of callers of Close and every limit.  Both   *)
(* rest on the order of the handler's deferred calls: a socket or a        *)
(* goroutine of a tunnel is alive only while the handler is at labels at   *)
(* which it is in the map, and the handler is in the map only while it is  *)
(* counted in the wait group.                                              *)
(***************************************************************************)
Registered ==
    {"dial", "upgrade", "arm", "go", "read", "write", "closeUpstream", "closeWS",
     "join", "disarm", "deregister"}
Counted == Registered \cup {"done"}
UpstreamLabels == {"upgrade", "arm", "go", "read", "write", "closeUpstream"}
WSLabels == {"arm", "go", "read", "write", "closeUpstream", "closeWS"}
ForwardLabels == {"read", "write", "closeUpstream", "closeWS", "join"}

TunnelTypeOK ==
    /\ bridgeClosed \in BOOLEAN /\ active \in SUBSET Requests /\ wg \in Nat
    /\ cancelled \in SUBSET Requests
    /\ pc \in [Requests -> Counted \cup {"new", "refused", "gone"}]
    /\ fwd \in [Requests -> {"none", "read", "write", "close", "exited"}]
    /\ hook \in [Requests -> {"none", "armed", "ws", "off"}]
    /\ upstream \in [Requests -> {"none", "open", "closed"}]
    /\ ws \in [Requests -> {"none", "open", "closed"}]
    /\ cpc \in [Closers -> {"idle", "wait", "returned"}]

\* The map, the wait group and the limit agree with where the handlers are.
Tunnels == {r \in Requests : pc[r] \in Counted}
MapExact == active = {r \in Requests : pc[r] \in Registered}
GroupExact == wg = Cardinality(Tunnels)
LimitKept == Cardinality(active) <= MaxConnections

\* What a tunnel uses lives within its handler.
AliveWithin(r) ==
    /\ upstream[r] = "open" => pc[r] \in UpstreamLabels
    /\ ws[r] = "open" => pc[r] \in WSLabels
    /\ fwd[r] \in {"read", "write", "close"} => pc[r] \in ForwardLabels

\* Close marks the bridge before it waits, and nothing is admitted after that.
ClosersExact ==
    \A k \in Closers : /\ cpc[k] # "idle" => bridgeClosed
                       /\ cpc[k] = "returned" => Tunnels = {}

TunnelInv ==
    /\ TunnelTypeOK /\ MapExact /\ GroupExact /\ LimitKept
    /\ \A r \in Requests : AliveWithin(r)
    /\ ClosersExact

-----------------------------------------------------------------------------
\* Sets of requests are finite.
LEMMA FiniteRequests ==
    ASSUME NEW S \in SUBSET Requests PROVE IsFiniteSet(S)
BY FS_Subset, BridgeAssumption

\* The steps that neither admit a request nor take one from the map or from
\* the wait group: everything that only moves a handler, its goroutine, its
\* hook or its sockets.
TunnelLocal(r) ==
    \/ Dial(r) \/ UpgradeFails(r) \/ Upgrade(r) \/ AfterFunc(r) \/ Go(r)
    \/ CloseUpstream(r) \/ CloseWS(r) \/ JoinForward(r) \/ Disarm(r)
    \/ ReadWS(r) \/ WriteUpstream(r) \/ Broken(r)
    \/ ReadUpstream(r) \/ WriteWS(r) \/ ForwardBroken(r) \/ ForwardClose(r)
    \/ HookUpstream(r) \/ HookWS(r)

\* They keep the handler's registration ...
LEMMA TunnelLocalSets ==
    ASSUME TunnelInv, NEW r \in Requests, TunnelLocal(r)
    PROVE  /\ Tunnels' = Tunnels /\ UNCHANGED <<bridgeFields, cpc>>
           /\ {x \in Requests : pc[x] \in Registered}' = {x \in Requests : pc[x] \in Registered}
<1>1. UNCHANGED <<bridgeFields, cpc>>
    BY DEF TunnelLocal, Dial, UpgradeFails, Upgrade, AfterFunc,
           Go, CloseUpstream, CloseWS, JoinForward,
           Disarm, ReadWS, WriteUpstream, Broken,
           ReadUpstream, WriteWS, ForwardBroken,
           ForwardClose, HookUpstream, HookWS
<1>2. pc' = pc \/ (pc[r] \in Registered /\ \E l \in Registered : pc' = [pc EXCEPT ![r] = l])
    BY DEF TunnelLocal, Dial, UpgradeFails, Upgrade, AfterFunc,
           Go, CloseUpstream, CloseWS, JoinForward,
           Disarm, ReadWS, WriteUpstream, Broken,
           ReadUpstream, WriteWS, ForwardBroken,
           ForwardClose, HookUpstream, HookWS, goto, Registered
<1>3. \A x \in Requests : /\ pc'[x] \in Registered <=> pc[x] \in Registered
                          /\ pc'[x] \in Counted <=> pc[x] \in Counted
    BY <1>2 DEF TunnelInv, TunnelTypeOK, Counted
<1> QED BY <1>1, <1>3 DEF Tunnels

\* ... the types ...
LEMMA TunnelLocalType ==
    ASSUME TunnelTypeOK, NEW r \in Requests, TunnelLocal(r)
    PROVE  TunnelTypeOK'
<1> USE DEF TunnelTypeOK, Counted, Registered, goto, bridgeFields, sockets
<1>1. CASE Dial(r) BY <1>1 DEF Dial
<1>2. CASE UpgradeFails(r) BY <1>2 DEF UpgradeFails
<1>3. CASE Upgrade(r) BY <1>3 DEF Upgrade
<1>4. CASE AfterFunc(r) BY <1>4 DEF AfterFunc, armed
<1>5. CASE Go(r) BY <1>5 DEF Go
<1>6. CASE CloseUpstream(r) BY <1>6 DEF CloseUpstream
<1>7. CASE CloseWS(r) BY <1>7 DEF CloseWS
<1>8. CASE JoinForward(r) BY <1>8 DEF JoinForward
<1>9. CASE Disarm(r) BY <1>9 DEF Disarm
<1>10. CASE ReadWS(r) \/ WriteUpstream(r) \/ Broken(r)
    BY <1>10 DEF ReadWS, WriteUpstream, Broken
<1>11. CASE ReadUpstream(r) \/ WriteWS(r) \/ ForwardBroken(r)
    BY <1>11 DEF ReadUpstream, WriteWS, ForwardBroken
<1>12. CASE ForwardClose(r) BY <1>12 DEF ForwardClose, closeSocket
<1>13. CASE HookUpstream(r) BY <1>13 DEF HookUpstream
<1>14. CASE HookWS(r) BY <1>14 DEF HookWS
<1> QED BY <1>1, <1>2, <1>3, <1>4, <1>5, <1>6, <1>7, <1>8, <1>9, <1>10, <1>11, <1>12,
           <1>13, <1>14 DEF TunnelLocal

\* ... and what the tunnel uses within its handler: the sockets are opened
\* after the dial and the upgrade, and the handler passes the labels at which
\* they may be open only by closing them.
LEMMA TunnelLocalAlive ==
    ASSUME TunnelTypeOK, \A x \in Requests : AliveWithin(x), NEW r \in Requests, TunnelLocal(r)
    PROVE  \A x \in Requests : AliveWithin(x)'
<1> USE DEF TunnelTypeOK, AliveWithin, UpstreamLabels, WSLabels, ForwardLabels, goto,
        bridgeFields, sockets
<1>1. CASE Dial(r) BY <1>1 DEF Dial
<1>2. CASE UpgradeFails(r) BY <1>2 DEF UpgradeFails
<1>3. CASE Upgrade(r) BY <1>3 DEF Upgrade
<1>4. CASE AfterFunc(r) BY <1>4 DEF AfterFunc
<1>5. CASE Go(r) BY <1>5 DEF Go
<1>6. CASE CloseUpstream(r) BY <1>6 DEF CloseUpstream
<1>7. CASE CloseWS(r) BY <1>7 DEF CloseWS
<1>8. CASE JoinForward(r) BY <1>8 DEF JoinForward, done
<1>9. CASE Disarm(r) BY <1>9 DEF Disarm
<1>10. CASE ReadWS(r) \/ WriteUpstream(r) \/ Broken(r)
    BY <1>10 DEF ReadWS, WriteUpstream, Broken
<1>11. CASE ReadUpstream(r) \/ WriteWS(r) \/ ForwardBroken(r)
    BY <1>11 DEF ReadUpstream, WriteWS, ForwardBroken
<1>12. CASE ForwardClose(r) BY <1>12 DEF ForwardClose, closeSocket
<1>13. CASE HookUpstream(r) BY <1>13 DEF HookUpstream
<1>14. CASE HookWS(r) BY <1>14 DEF HookWS
<1> QED BY <1>1, <1>2, <1>3, <1>4, <1>5, <1>6, <1>7, <1>8, <1>9, <1>10, <1>11, <1>12,
           <1>13, <1>14 DEF TunnelLocal

-----------------------------------------------------------------------------
\* Admission: under the lock the limit is checked, and the request enters the
\* map and the wait group in one step; a closed bridge admits nobody.
LEMMA TunnelAdmit ==
    ASSUME TunnelInv, NEW r \in Requests, Admit(r) PROVE TunnelInv'
<1> USE DEF TunnelInv
<1>1. TunnelTypeOK'
    BY DEF TunnelTypeOK, Admit, goto, bridgeFields, sockets,
           Registered, Counted
<1>2. \A x \in Requests : AliveWithin(x)'
    BY DEF TunnelTypeOK, AliveWithin, UpstreamLabels, WSLabels, ForwardLabels, Admit,
           goto, sockets
<1>3. r \notin Tunnels /\ r \notin active
    BY DEF Admit, Tunnels, MapExact, Counted, Registered
<1>4. CASE available
    <2>1. Tunnels' = Tunnels \cup {r} /\ active' = active \cup {r} /\ wg' = wg + 1
        BY <1>4 DEF Admit, Tunnels, goto, TunnelTypeOK, Counted, Registered
    <2>2. MapExact'
        BY <1>4 DEF Admit, goto, TunnelTypeOK, MapExact, Counted, Registered
    <2>3. Cardinality(Tunnels') = Cardinality(Tunnels) + 1
        BY <1>3, <2>1, FiniteRequests, FS_AddElement DEF Tunnels
    <2>4. Cardinality(active') = Cardinality(active) + 1
        BY <1>3, <2>1, FiniteRequests, FS_AddElement DEF TunnelTypeOK
    <2>5. Cardinality(active) \in Nat
        BY FiniteRequests, FS_CardinalityType DEF TunnelTypeOK
    <2>6. GroupExact' /\ LimitKept'
        BY <1>4, <2>1, <2>3, <2>4, <2>5, BridgeAssumption DEF GroupExact, LimitKept, available
    <2>7. \A k \in Closers : cpc[k] = "idle"
        BY <1>4 DEF available, ClosersExact
    <2>8. ClosersExact'
        BY <2>7 DEF ClosersExact, Admit
    <2> QED BY <1>1, <1>2, <2>2, <2>6, <2>8
<1>5. CASE ~available
    <2>1. Tunnels' = Tunnels /\ UNCHANGED <<bridgeFields, cpc>>
        BY <1>5 DEF Admit, Tunnels, goto, TunnelTypeOK, Counted, Registered,
           bridgeFields
    <2>2. MapExact'
        BY <1>5 DEF Admit, goto, TunnelTypeOK, MapExact, Counted, Registered
    <2> QED BY <1>1, <1>2, <2>1, <2>2 DEF bridgeFields, GroupExact, LimitKept, ClosersExact
<1> QED BY <1>4, <1>5

\* Leaving the map comes before leaving the wait group.
LEMMA TunnelDeregister ==
    ASSUME TunnelInv, NEW r \in Requests, Deregister(r) PROVE TunnelInv'
<1> USE DEF TunnelInv
<1>1. TunnelTypeOK'
    BY DEF TunnelTypeOK, Deregister, goto, sockets, Registered, Counted
<1>2. \A x \in Requests : AliveWithin(x)'
    BY DEF TunnelTypeOK, AliveWithin, UpstreamLabels, WSLabels, ForwardLabels, Deregister,
           goto, sockets
<1>3. Tunnels' = Tunnels /\ UNCHANGED <<bridgeClosed, wg, cpc>> /\ active' = active \ {r}
    BY DEF Deregister, Tunnels, goto, TunnelTypeOK, Counted, Registered
<1>4. MapExact'
    BY DEF Deregister, goto, TunnelTypeOK, MapExact, Counted, Registered
<1>5. Cardinality(active') <= Cardinality(active) /\ Cardinality(active) \in Nat
      /\ Cardinality(active') \in Nat
    BY <1>3, FiniteRequests, FS_Subset, FS_CardinalityType DEF TunnelTypeOK
<1>6. LimitKept'
    BY <1>5, BridgeAssumption DEF LimitKept
<1> QED BY <1>1, <1>2, <1>3, <1>4, <1>6 DEF GroupExact, ClosersExact

\* Leaving the wait group: it counts one tunnel less.
LEMMA TunnelDone ==
    ASSUME TunnelInv, NEW r \in Requests, Done(r) PROVE TunnelInv'
<1> USE DEF TunnelInv
<1>1. Tunnels' = Tunnels \ {r} /\ UNCHANGED <<bridgeClosed, active, cpc>> /\ wg' = wg - 1
    BY DEF Done, Tunnels, goto, TunnelTypeOK, Counted, Registered
<1>2. r \in Tunnels
    BY DEF Done, Tunnels, Counted
<1>3. Cardinality(Tunnels') = Cardinality(Tunnels) - 1 /\ Cardinality(Tunnels') \in Nat
    BY <1>1, <1>2, FiniteRequests, FS_RemoveElement, FS_CardinalityType DEF Tunnels
<1>4. GroupExact' /\ wg' \in Nat
    BY <1>1, <1>3 DEF GroupExact
<1>5. TunnelTypeOK'
    BY <1>4 DEF TunnelTypeOK, Done, goto, sockets, Registered, Counted
<1>6. \A x \in Requests : AliveWithin(x)'
    BY DEF TunnelTypeOK, AliveWithin, UpstreamLabels, WSLabels, ForwardLabels, Done,
           goto, sockets
<1>7. MapExact' /\ LimitKept'
    BY DEF Done, goto, TunnelTypeOK, MapExact, LimitKept, Counted, Registered
<1>8. ClosersExact'
    BY <1>1 DEF ClosersExact
<1> QED BY <1>4, <1>5, <1>6, <1>7, <1>8

\* A call of Close returns when the wait group is empty: no tunnel is left.
LEMMA TunnelCloser ==
    ASSUME TunnelInv, NEW k \in Closers, CloseBridge(k) \/ Wait(k)
    PROVE  TunnelInv'
<1> USE DEF TunnelInv
<1>1. TunnelTypeOK' /\ MapExact' /\ GroupExact' /\ LimitKept' /\ \A x \in Requests : AliveWithin(x)'
    BY DEF TunnelTypeOK, MapExact, GroupExact, LimitKept, AliveWithin, Tunnels, CloseBridge,
           Wait,
           bridgeFields, sockets
<1>2. Tunnels' = Tunnels
    BY DEF Tunnels, CloseBridge, Wait
<1>3. CASE CloseBridge(k)
    BY <1>1, <1>2, <1>3 DEF CloseBridge, ClosersExact, TunnelTypeOK
<1>4. CASE Wait(k)
    <2>1. Tunnels = {}
        BY <1>4, FiniteRequests, FS_EmptySet DEF Wait, GroupExact, Tunnels
    <2> QED BY <1>1, <1>2, <1>4, <2>1 DEF Wait, ClosersExact, TunnelTypeOK, bridgeFields
<1> QED BY <1>3, <1>4

\* Every step keeps the invariant.
LEMMA TunnelInductive ==
    ASSUME TunnelInv, [BridgeNext]_bridgeVars PROVE TunnelInv'
<1>1. ASSUME NEW r \in Requests, CancelRequest(r) PROVE TunnelInv'
    BY <1>1 DEF TunnelInv, TunnelTypeOK, MapExact, GroupExact, LimitKept, AliveWithin, Tunnels,
       ClosersExact,
                CancelRequest, bridgeFields, sockets
<1>2. ASSUME NEW r \in Requests, TunnelLocal(r) PROVE TunnelInv'
    <2>1. TunnelTypeOK' /\ \A x \in Requests : AliveWithin(x)'
        BY <1>2, TunnelLocalType, TunnelLocalAlive DEF TunnelInv
    <2>2. MapExact' /\ GroupExact' /\ LimitKept' /\ ClosersExact'
        BY <1>2, TunnelLocalSets DEF TunnelInv, MapExact, GroupExact, LimitKept, ClosersExact,
           bridgeFields
    <2> QED BY <2>1, <2>2 DEF TunnelInv
<1>3. CASE UNCHANGED bridgeVars
    BY <1>3 DEF TunnelInv, TunnelTypeOK, MapExact, GroupExact, LimitKept, AliveWithin, Tunnels,
       ClosersExact,
                bridgeVars, bridgeFields, sockets
<1> QED BY <1>1, <1>2, <1>3, TunnelAdmit, TunnelDeregister, TunnelDone, TunnelCloser
        DEF BridgeNext, HandlerStep, TunnelLocal, BridgeFinished

\* The invariant holds throughout: the map, the wait group, the sockets and
\* the goroutines agree with where the handlers are.
THEOREM BridgeInvariant ==
    BridgeSpec => []TunnelInv
<1>1. BridgeInit => TunnelInv
    <2> SUFFICES ASSUME BridgeInit PROVE TunnelInv
        OBVIOUS
    <2>1. Tunnels = {} /\ Cardinality({}) = 0
        BY FS_EmptySet DEF BridgeInit, Tunnels, Counted, Registered
    <2>2. TunnelTypeOK
        BY DEF BridgeInit, TunnelTypeOK
    <2>3. MapExact /\ GroupExact /\ LimitKept
        <3>1. active = {} /\ wg = 0 /\ {r \in Requests : pc[r] \in Registered} = {}
            BY DEF BridgeInit, Registered
        <3> QED BY <2>1, <3>1, BridgeAssumption DEF MapExact, GroupExact, LimitKept
    <2>4. ClosersExact /\ \A r \in Requests : AliveWithin(r)
        BY DEF BridgeInit, AliveWithin, ClosersExact
    <2> QED BY <2>2, <2>3, <2>4 DEF TunnelInv
<1>2. TunnelInv /\ [BridgeNext]_bridgeVars => TunnelInv'
    BY TunnelInductive
<1> QED BY <1>1, <1>2, PTL DEF BridgeSpec

\* Once a call of Close has returned no tunnel is left, now or later, wherever
\* the tunnels were when Close cancelled them.
THEOREM BridgeCloseLeavesNothing ==
    BridgeSpec => []CloseLeavesNothing
<1>1. TunnelInv => CloseLeavesNothing
    BY DEF TunnelInv, ClosersExact, Tunnels, TunnelTypeOK, AliveWithin,
           CloseLeavesNothing, Counted,
           Registered, UpstreamLabels, WSLabels, ForwardLabels
<1> QED BY <1>1, BridgeInvariant, PTL

\* There are never more than MaxConnections tunnels with an upstream socket
\* open or a forwarding goroutine alive.
THEOREM BridgeTunnelLimit ==
    BridgeSpec => []TunnelLimit
<1>1. TunnelInv => TunnelLimit
    <2> SUFFICES ASSUME TunnelInv PROVE TunnelLimit
        OBVIOUS
    <2> DEFINE S == {r \in Requests : upstream[r] = "open" \/ fwd[r] \in {"read", "write", "close"}}
    <2>1. S \subseteq active /\ IsFiniteSet(active)
        BY FiniteRequests DEF TunnelInv, TunnelTypeOK, MapExact, AliveWithin, Registered,
           UpstreamLabels,
                              ForwardLabels
    <2>2. Cardinality(S) <= Cardinality(active) /\ Cardinality(S) \in Nat
          /\ Cardinality(active) \in Nat
        BY <2>1, FS_Subset, FS_CardinalityType
    <2> QED BY <2>2, BridgeAssumption DEF TunnelInv, LimitKept, TunnelLimit
<1> QED BY <1>1, BridgeInvariant, PTL

-----------------------------------------------------------------------------
(***************************************************************************)
(* SingleConnection and ViewAgrees of module WebClient, for any rooms, any *)
(* number of attempts to connect and any number of messages under way.     *)
(***************************************************************************)
\* The invariant is stated for a page p, fetches F, messages in and connections
\* srv, because a callback is a chain of functions of the page.
MaybeRoom == Arenas \cup {NoArena}
MaybeAttempt == Attempts \cup {None}
RequestTypes == {"authenticate", "join", "input", "heartbeat"}
Request == [type : RequestTypes, room : MaybeRoom]
Reply == [type : {"authenticate", "join", "snapshot"}, room : MaybeRoom]
         \cup [type : {"error"}, request : RequestTypes, code : {"unauthorized", "room_full"}]
Served == [live : BOOLEAN, auth : BOOLEAN, room : MaybeRoom]
PageState ==
    [generation : Nat, status : {"offline", "connecting", "online"}, socket : MaybeAttempt,
     room : MaybeRoom, snapshot : SUBSET [room : MaybeRoom, of : Attempts],
     switching : BOOLEAN, desired : MaybeRoom,
     openingTimer : MaybeAttempt, armed : SUBSET Attempts,
     timer : MaybeAttempt, ticking : SUBSET Attempts,
     ready : [Attempts -> {"none", "opening", "open", "closing", "closed"}],
     out : [Attempts -> Seq(Request)]]

PageTypeOK(p, F, in, srv) ==
    /\ p \in PageState /\ F \subseteq Attempts
    /\ in \in [Attempts -> Seq(Reply)] /\ srv \in [Attempts -> Served]

\* The socket of the page is the one of its generation and the only one that is
\* open or opening; timers are those of the generation.  Loose is what is left of
\* it while the socket is being closed.
Loose(p) ==
    /\ \A a \in Attempts : a > p.generation => p.ready[a] = "none"
    /\ \A a \in Attempts : p.ready[a] \in {"opening", "open"} => a = p.socket
    /\ p.socket # None => p.socket = p.generation /\ p.ready[p.socket] # "none"
    /\ p.armed \subseteq {p.openingTimer} /\ p.ticking \subseteq {p.timer}
Sockets(p) ==
    /\ p.socket # None => p.ready[p.socket] \in {"opening", "open"}
    /\ \A a \in Attempts : a = p.generation => p.ready[a] \notin {"closing", "closed"}
    /\ p.armed \subseteq {p.generation} /\ p.ticking \subseteq {p.generation}
    /\ p.ticking # {} => p.socket # None /\ p.ready[p.socket] = "open"
    /\ p.ticking = {} => p.room = NoArena /\ p.switching = FALSE
    /\ p.status = "offline" => p.socket = None /\ p.armed = {}
    /\ p.status = "online" => p.ticking # {}
    /\ \A s \in p.snapshot : s.room = p.room /\ s.of = p.generation

\* A fetch is answered once, and the one of this generation while it connects.
Fetches(p, F) ==
    \A a \in F : /\ a <= p.generation /\ p.ready[a] = "none"
                 /\ a = p.generation => p.status = "connecting"

\* Nothing is sent before a socket is open.
NotServed == [live |-> FALSE, auth |-> FALSE, room |-> NoArena]
Unopened(p, in, srv) ==
    \A a \in Attempts : p.ready[a] \in {"none", "opening"} =>
        p.out[a] = <<>> /\ in[a] = <<>> /\ srv[a] = NotServed

\* On an open socket, nothing but the request for authentication and its answer is
\* under way at first; ...
Authenticating(p, in, srv, a) ==
    /\ srv[a].room = NoArena
    /\ \/ p.out[a] = <<AuthenticateMessage>> /\ in[a] = <<>>
       \/ p.out[a] = <<>> /\ in[a] \in {<<AuthenticateMessage>>, <<Error("authenticate", "unauthorized")>>}
\* ... later, neither is; the room of the page is the server's as soon as the last
\* answer to a join has arrived, and a join that blocks inputs or its answer is
\* under way.
NoType(s, t) == \A i \in 1..Len(s) : s[i].type # t
Follows(shown, s, r) ==
    \/ NoType(s, "join") /\ shown = r
    \/ \E i \in 1..Len(s) : /\ s[i].type = "join" /\ s[i].room = r
                            /\ \A j \in 1..Len(s) : j > i => s[j].type # "join"
RoomFollows(p, in, srv, a) == Follows(p.room, in[a], srv[a].room)
SomeJoin(s) == \E i \in 1..Len(s) : isJoin(s[i])
Authenticated(p, in, srv, a) ==
    /\ NoType(p.out[a], "authenticate") /\ NoType(in[a], "authenticate")
    /\ RoomFollows(p, in, srv, a)
    /\ p.switching => SomeJoin(p.out[a]) \/ SomeJoin(in[a])
Talk(p, in, srv, a) ==
    IF a \in p.ticking THEN Authenticated(p, in, srv, a) ELSE Authenticating(p, in, srv, a)
Conversation(p, in, srv) ==
    \A a \in Attempts : p.ready[a] = "open" => Talk(p, in, srv, a)

Good(p, F, in, srv) ==
    /\ PageTypeOK(p, F, in, srv) /\ Loose(p) /\ Sockets(p) /\ Fetches(p, F)
    /\ Unopened(p, in, srv) /\ Conversation(p, in, srv)
PageInv == Good(page, fetching, inbox, served)

-----------------------------------------------------------------------------
\* The fields of the page after disconnect.
LEMMA DisconnectFields ==
    ASSUME NEW p \in PageState
    PROVE  LET q == disconnect(p) IN
           /\ q \in PageState
           /\ q.generation = p.generation + 1 /\ q.socket = None /\ q.status = "offline"
           /\ q.room = NoArena /\ q.snapshot = {} /\ q.switching = FALSE /\ q.desired = p.desired
           /\ q.armed = p.armed \ {p.openingTimer} /\ q.ticking = p.ticking \ {p.timer}
           /\ q.openingTimer = p.openingTimer /\ q.timer = p.timer /\ q.out = p.out
           /\ \A a \in Attempts : q.ready[a] = IF a = p.socket /\ p.ready[a] # "closed" THEN "closing"
                                               ELSE p.ready[a]
<1> DEFINE rd == [a \in Attempts |-> IF a = p.socket /\ p.ready[a] # "closed" THEN "closing" ELSE p.ready[a]]
           q == [generation |-> p.generation + 1, status |-> "offline", socket |-> None, room |-> NoArena,
                 snapshot |-> {}, switching |-> FALSE, desired |-> p.desired,
                 openingTimer |-> p.openingTimer, armed |-> p.armed \ {p.openingTimer},
                 timer |-> p.timer, ticking |-> p.ticking \ {p.timer}, ready |-> rd, out |-> p.out]
<1>1. rd \in [Attempts -> {"none", "opening", "open", "closing", "closed"}]
  BY DEF PageState
<1>2. disconnect(p) = [p EXCEPT !.generation = p.generation + 1, !.socket = None, !.status = "offline", !.room = NoArena,
              !.snapshot = {}, !.switching = FALSE,
              !.armed = p.armed \ {p.openingTimer}, !.ticking = p.ticking \ {p.timer}, !.ready = rd]
  BY DEF disconnect
<1> HIDE DEF rd
<1>3. disconnect(p) = q
  BY <1>2 DEF PageState
<1>4. q \in PageState
  BY <1>1 DEF PageState, MaybeRoom, MaybeAttempt
<1> QED  BY <1>3, <1>4 DEF rd
\* disconnect leaves a page without a socket and timers in a new generation.
LEMMA DisconnectGood ==
    ASSUME NEW p, NEW F, NEW in, NEW srv, PageTypeOK(p, F, in, srv), Loose(p), Fetches(p, F),
           Unopened(p, in, srv)
    PROVE  Good(disconnect(p), F, in, srv)
<1> DEFINE q == disconnect(p)
<1>1. p \in PageState  BY DEF PageTypeOK
<1>2. /\ q \in PageState
      /\ q.generation = p.generation + 1 /\ q.socket = None /\ q.status = "offline"
      /\ q.room = NoArena /\ q.snapshot = {} /\ q.switching = FALSE
      /\ q.armed = p.armed \ {p.openingTimer} /\ q.ticking = p.ticking \ {p.timer}
      /\ q.out = p.out
      /\ \A a \in Attempts : q.ready[a] = IF a = p.socket /\ p.ready[a] # "closed" THEN "closing"
                                          ELSE p.ready[a]
  BY <1>1, DisconnectFields
<1> HIDE DEF q
<1>3. PageTypeOK(q, F, in, srv)  BY <1>2 DEF PageTypeOK
<1>4. q.armed = {} /\ q.ticking = {}  BY <1>2 DEF Loose
<1>5. p.generation \in Nat /\ Attempts \subseteq Nat \ {0} /\ None \notin Attempts
  BY <1>1, WebClientAssumption DEF PageState, Attempts, None
<1>6. \A a \in Attempts : /\ q.ready[a] \notin {"opening", "open"}
                          /\ a > p.generation => q.ready[a] = "none"
                          /\ q.ready[a] = "none" <=> p.ready[a] = "none"
  <2> SUFFICES ASSUME NEW a \in Attempts
               PROVE  /\ q.ready[a] \notin {"opening", "open"}
                      /\ a > p.generation => q.ready[a] = "none"
                      /\ q.ready[a] = "none" <=> p.ready[a] = "none"
    OBVIOUS
  <2>1. CASE a = p.socket
    <3>1. p.ready[a] # "none" /\ a = p.generation  BY <2>1, <1>5 DEF Loose
    <3> QED  BY <2>1, <3>1, <1>2, <1>5
  <2>2. CASE a # p.socket  BY <2>2, <1>2 DEF Loose
  <2> QED  BY <2>1, <2>2
<1>7. Loose(q)
  <2>1. \A a \in Attempts : a > p.generation + 1 => a > p.generation  BY <1>5
  <2> QED  BY <2>1, <1>2, <1>4, <1>6 DEF Loose
<1>8. Sockets(q)
  <2>1. \A a \in Attempts : a = p.generation + 1 => a > p.generation  BY <1>5
  <2>2. \A a \in Attempts : a = q.generation => q.ready[a] = "none"  BY <2>1, <1>2, <1>6
  <2> QED  BY <2>2, <1>2, <1>4 DEF Sockets
<1>9. Fetches(q, F)
  <2>1. \A a \in F : a \in Attempts /\ a <= p.generation /\ p.ready[a] = "none"
    BY DEF Fetches, PageTypeOK
  <2>2. \A a, n \in Nat : a <= n => a <= n + 1 /\ a # n + 1  OBVIOUS
  <2>3. \A a \in F : a <= p.generation + 1 /\ a # p.generation + 1  BY <2>1, <2>2, <1>5
  <2>4. \A a \in F : q.ready[a] = "none"  BY <2>1, <1>6
  <2> QED  BY <2>3, <2>4, <1>2 DEF Fetches
<1>10. Unopened(q, in, srv)  BY <1>2, <1>6 DEF Unopened
<1>11. \A a \in Attempts : q.ready[a] # "open"  BY <1>6
<1>12. Conversation(q, in, srv)  BY <1>11 DEF Conversation
<1> QED  BY <1>3, <1>7, <1>8, <1>9, <1>10, <1>12 DEF Good, q

\* send on an open socket whose buffer has room, ...
Sent(p, m) == [p EXCEPT !.out[p.socket] = Append(@, m)]
\* ... and the fields of the page after it.
LEMMA SentFields ==
    ASSUME NEW p \in PageState, NEW m \in Request, p.socket \in Attempts
    PROVE  LET q == Sent(p, m) IN
           /\ q \in PageState
           /\ q.generation = p.generation /\ q.socket = p.socket /\ q.status = p.status
           /\ q.room = p.room /\ q.snapshot = p.snapshot /\ q.switching = p.switching
           /\ q.desired = p.desired /\ q.armed = p.armed /\ q.ticking = p.ticking
           /\ q.openingTimer = p.openingTimer /\ q.timer = p.timer /\ q.ready = p.ready
           /\ q.out[p.socket] = Append(p.out[p.socket], m)
           /\ \A a \in Attempts : a # p.socket => q.out[a] = p.out[a]
<1> DEFINE o == [p.out EXCEPT ![p.socket] = Append(p.out[p.socket], m)]
           q == Sent(p, m)
<1>1. o \in [Attempts -> Seq(Request)]
  <2>1. p.out \in [Attempts -> Seq(Request)]  BY DEF PageState
  <2>2. Append(p.out[p.socket], m) \in Seq(Request)  BY <2>1
  <2> QED  BY <2>1, <2>2
<1>2. /\ o[p.socket] = Append(p.out[p.socket], m)
      /\ \A a \in Attempts : a # p.socket => o[a] = p.out[a]
  BY DEF PageState
<1>3. q = [p EXCEPT !.out = o]  BY DEF Sent
<1> HIDE DEF o, q
<1>4. q \in PageState /\ q.out = o  BY <1>1, <1>3 DEF PageState
<1>5. /\ q.generation = p.generation /\ q.socket = p.socket /\ q.status = p.status
      /\ q.room = p.room /\ q.snapshot = p.snapshot /\ q.switching = p.switching
      /\ q.desired = p.desired /\ q.armed = p.armed /\ q.ticking = p.ticking
      /\ q.openingTimer = p.openingTimer /\ q.timer = p.timer /\ q.ready = p.ready
  BY <1>3 DEF PageState
<1> QED  BY <1>2, <1>4, <1>5 DEF q

\* Appending to a sequence keeps what it has.
LEMMA Appended ==
    ASSUME NEW S, NEW s \in Seq(S), NEW m \in S
    PROVE  /\ \A t : NoType(s, t) /\ m.type # t => NoType(Append(s, m), t)
           /\ SomeJoin(s) \/ isJoin(m) => SomeJoin(Append(s, m))
<1>1. /\ Len(Append(s, m)) = Len(s) + 1 /\ Len(s) \in Nat
      /\ Append(s, m)[Len(s) + 1] = m
      /\ \A i \in 1..Len(s) : Append(s, m)[i] = s[i]
  OBVIOUS
<1>2. \A i \in 1..(Len(s) + 1) : i \in 1..Len(s) \/ i = Len(s) + 1  BY <1>1
<1>3. \A i \in 1..Len(s) : i \in 1..(Len(s) + 1)  BY <1>1
<1>4. Len(s) + 1 \in 1..(Len(s) + 1)  BY <1>1
<1> DEFINE u == Append(s, m)
           n == Len(s)
<1> HIDE DEF u, n
<1>5. /\ Len(u) = n + 1 /\ u[n + 1] = m /\ \A i \in 1..n : u[i] = s[i] /\ i \in 1..(n + 1)
      /\ \A i \in 1..(n + 1) : i \in 1..n \/ i = n + 1
      /\ n + 1 \in 1..(n + 1) /\ Len(s) = n
  BY <1>1, <1>2, <1>3, <1>4 DEF u, n
<1>6. \A t : NoType(s, t) /\ m.type # t => NoType(u, t)  BY <1>5 DEF NoType
<1>7. SomeJoin(s) \/ isJoin(m) => SomeJoin(u)
  <2>1. SomeJoin(s) => SomeJoin(u)  BY <1>5 DEF SomeJoin
  <2>2. isJoin(m) => SomeJoin(u)  BY <1>5 DEF SomeJoin
  <2> QED  BY <2>1, <2>2
<1> QED  BY <1>6, <1>7 DEF u

\* The part of the invariant that is not about the conversation.
Sound(p, F, in, srv) ==
    PageTypeOK(p, F, in, srv) /\ Loose(p) /\ Sockets(p) /\ Fetches(p, F) /\ Unopened(p, in, srv)

\* A page with a ticking interval has an open socket.
LEMMA Ticking ==
    ASSUME NEW p, NEW F, NEW in, NEW srv, Sound(p, F, in, srv), p.ticking # {}
    PROVE  /\ p.socket \in Attempts /\ p.socket = p.generation /\ p.ready[p.socket] = "open"
           /\ p.ticking = {p.socket} /\ p.timer = p.socket /\ p.socket # None
           /\ p.status # "offline"
BY DEF Sound, PageTypeOK, Loose, Sockets, PageState, MaybeAttempt

\* send of a request other than the one for authentication.
LEMMA SendGood ==
    ASSUME NEW p, NEW F, NEW in, NEW srv, Sound(p, F, in, srv), p.ticking # {},
           NEW m \in Request, m.type # "authenticate",
           NoType(p.out[p.socket], "authenticate"), NoType(in[p.socket], "authenticate"),
           RoomFollows(p, in, srv, p.socket),
           p.switching => SomeJoin(p.out[p.socket]) \/ SomeJoin(in[p.socket]) \/ isJoin(m)
    PROVE  Good(send(p, m), F, in, srv)
<1> DEFINE a == p.socket
           q == Sent(p, m)
<1>1. /\ a \in Attempts /\ p.ready[a] = "open" /\ p.ticking = {a} /\ a # None  BY Ticking
<1>2. CASE Len(p.out[a]) > Backlog
  <2>1. send(p, m) = disconnect(p)  BY <1>1, <1>2 DEF send
  <2> QED  BY <2>1, DisconnectGood DEF Sound
<1>3. CASE ~(Len(p.out[a]) > Backlog)
  <2>1. send(p, m) = q  BY <1>1, <1>3 DEF send, Sent
  <2>2. p \in PageState  BY DEF Sound, PageTypeOK
  <2>3. /\ q \in PageState
        /\ q.generation = p.generation /\ q.socket = p.socket /\ q.status = p.status
        /\ q.room = p.room /\ q.snapshot = p.snapshot /\ q.switching = p.switching
        /\ q.armed = p.armed /\ q.ticking = p.ticking
        /\ q.openingTimer = p.openingTimer /\ q.timer = p.timer /\ q.ready = p.ready
        /\ q.out[a] = Append(p.out[a], m)
        /\ \A b \in Attempts : b # a => q.out[b] = p.out[b]
    BY <1>1, <2>2, SentFields
  <2> HIDE DEF q
  <2>4. PageTypeOK(q, F, in, srv) /\ Loose(q) /\ Sockets(q) /\ Fetches(q, F)
    BY <2>3 DEF Sound, PageTypeOK, Loose, Sockets, Fetches
  <2>5. Unopened(q, in, srv)  BY <1>1, <2>3 DEF Sound, Unopened
  <2>6. Authenticated(q, in, srv, a)
    <3>1. p.out[a] \in Seq(Request)  BY <1>1, <2>2 DEF PageState
    <3>2. NoType(Append(p.out[a], m), "authenticate")  BY <3>1, Appended
    <3>3. SomeJoin(p.out[a]) \/ isJoin(m) => SomeJoin(Append(p.out[a], m))  BY <3>1, Appended
    <3>4. RoomFollows(q, in, srv, a)  BY <2>3 DEF RoomFollows
    <3> QED  BY <2>3, <3>2, <3>3, <3>4 DEF Authenticated
  <2>7. Conversation(q, in, srv)
    <3>1. \A b \in Attempts : q.ready[b] = "open" => b = a  BY <2>3 DEF Sound, Loose
    <3> QED  BY <1>1, <2>3, <2>6, <3>1 DEF Conversation, Talk
  <2> QED  BY <2>1, <2>4, <2>5, <2>7 DEF Good
<1> QED  BY <1>2, <1>3

\* The page of an authenticated conversation.
LEMMA TickingTalk ==
    ASSUME NEW p, NEW F, NEW in, NEW srv, Good(p, F, in, srv), p.ticking # {}
    PROVE  Sound(p, F, in, srv) /\ Authenticated(p, in, srv, p.socket)
<1>1. Sound(p, F, in, srv)  BY DEF Good, Sound
<1>2. p.socket \in Attempts /\ p.ready[p.socket] = "open" /\ p.ticking = {p.socket}
  BY <1>1, Ticking
<1> QED  BY <1>1, <1>2 DEF Good, Conversation, Talk

\* input.
LEMMA InputGood ==
    ASSUME NEW p, NEW F, NEW in, NEW srv, Good(p, F, in, srv)
    PROVE  Good(input(p), F, in, srv)
<1>1. CASE p.status # "online" \/ p.switching  BY <1>1 DEF input
<1>2. CASE ~(p.status # "online" \/ p.switching)
  <2>1. p.ticking # {}  BY <1>2 DEF Good, Sockets
  <2>2. InputMessage \in Request /\ InputMessage.type # "authenticate"
    BY DEF InputMessage, Request, RequestTypes, MaybeRoom
  <2>3. Good(send(p, InputMessage), F, in, srv)
    <3>1. Sound(p, F, in, srv) /\ Authenticated(p, in, srv, p.socket)  BY <2>1, TickingTalk
    <3> HIDE DEF InputMessage
    <3> QED  BY <2>1, <2>2, <3>1, SendGood DEF Authenticated
  <2> QED  BY <1>2, <2>3 DEF input
<1> QED  BY <1>1, <1>2

\* join: a join that blocks inputs is sent.
LEMMA JoinGood ==
    ASSUME NEW p, NEW F, NEW in, NEW srv, Good(p, F, in, srv), NEW r \in Arenas
    PROVE  Good(join(p, r), F, in, srv)
<1> DEFINE q == input(p)
           u == [q EXCEPT !.switching = TRUE]
<1>1. Good(q, F, in, srv)  BY InputGood
<1> HIDE DEF q
<1>2. CASE q.status # "online"  BY <1>1, <1>2 DEF join, q
<1>3. CASE q.status = "online"
  <2>1. q.ticking # {}  BY <1>1, <1>3 DEF Good, Sockets
  <2>2. Sound(q, F, in, srv) /\ Authenticated(q, in, srv, q.socket)  BY <1>1, <2>1, TickingTalk
  <2>3. q \in PageState  BY <2>2 DEF Sound, PageTypeOK
  <2>4. /\ u \in PageState
        /\ u.generation = q.generation /\ u.socket = q.socket /\ u.status = q.status
        /\ u.room = q.room /\ u.snapshot = q.snapshot
        /\ u.armed = q.armed /\ u.ticking = q.ticking
        /\ u.openingTimer = q.openingTimer /\ u.timer = q.timer /\ u.ready = q.ready
        /\ u.out = q.out /\ u.switching = TRUE
    BY <2>3 DEF PageState
  <2> HIDE DEF u
  <2>5. Sound(u, F, in, srv)
    BY <2>1, <2>2, <2>4 DEF Sound, PageTypeOK, Loose, Sockets, Fetches, Unopened
  <2>6. JoinMessage(r) \in Request /\ JoinMessage(r).type # "authenticate" /\ isJoin(JoinMessage(r))
    BY DEF JoinMessage, Request, RequestTypes, MaybeRoom, isJoin
  <2>7. RoomFollows(u, in, srv, u.socket)  BY <2>2, <2>4 DEF Authenticated, RoomFollows
  <2>8. NoType(u.out[u.socket], "authenticate") /\ NoType(in[u.socket], "authenticate")
    BY <2>2, <2>4 DEF Authenticated
  <2>9. Good(send(u, JoinMessage(r)), F, in, srv)
    <3> HIDE DEF JoinMessage
    <3>1. u.ticking # {}  BY <2>1, <2>4
    <3> QED  BY <2>5, <2>6, <2>7, <2>8, <3>1, SendGood
  <2>10. join(p, r) = send(u, JoinMessage(r))  BY <1>3 DEF join, q, u
  <2> QED  BY <2>9, <2>10
<1> QED  BY <1>2, <1>3

-----------------------------------------------------------------------------
\* The primed form of the invariant.
LEMMA GoodNext == ASSUME Good(page', fetching', inbox', served') PROVE PageInv'
BY DEF PageInv, Good, PageTypeOK, Loose, Sockets, Fetches, Unopened, Conversation, Talk,
       Authenticated, Authenticating, RoomFollows, Follows, NoType, SomeJoin, isJoin,
       NotServed,
       PageState, Request, Reply, Served, MaybeRoom, MaybeAttempt, RequestTypes, Attempts,
       AuthenticateMessage, Error, NoArena, None

\* Attempts and rooms are numbers from one.
LEMMA Numbers ==
    Attempts \subseteq Nat \ {0} /\ None \notin Attempts /\ NoArena \notin Arenas
BY WebClientAssumption DEF Attempts, None, NoArena

\* Fetches that are answered are fewer.
LEMMA FewerFetches ==
    ASSUME NEW p, NEW F, NEW in, NEW srv, Good(p, F, in, srv), NEW a
    PROVE  Good(p, F \ {a}, in, srv)
BY DEF Good, PageTypeOK, Fetches

\* A page that was just loaded.
LEMMA PageStart ==
    ASSUME PageInit PROVE PageInv
<1>1. /\ page \in PageState /\ fetching = {}
      /\ page.generation = 0 /\ page.status = "offline" /\ page.socket = None
      /\ page.room = NoArena /\ page.switching = FALSE
      /\ page.snapshot = {} /\ page.armed = {} /\ page.ticking = {}
      /\ \A a \in Attempts : page.ready[a] = "none" /\ page.out[a] = <<>>
  BY DEF PageInit, PageState, MaybeRoom, MaybeAttempt
<1>2. /\ inbox \in [Attempts -> Seq(Reply)] /\ served \in [Attempts -> Served]
      /\ \A a \in Attempts : inbox[a] = <<>> /\ served[a] = NotServed
  <2>1. NotServed \in Served  BY DEF NotServed, Served, MaybeRoom
  <2> QED  BY <2>1 DEF PageInit, NotServed
<1>3. PageTypeOK(page, fetching, inbox, served)  BY <1>1, <1>2 DEF PageTypeOK
<1>4. Loose(page) /\ Sockets(page) /\ Fetches(page, fetching)
  BY <1>1, Numbers DEF Loose, Sockets, Fetches
<1>5. Unopened(page, inbox, served) /\ Conversation(page, inbox, served)
  BY <1>1, <1>2 DEF Unopened, Conversation
<1> QED  BY <1>3, <1>4, <1>5 DEF PageInv, Good

\* The user connects: a generation whose attempt is new begins with its fetch.
LEMMA KeptByConnect ==
    ASSUME PageInv, NEW r \in Arenas, Connect(r) PROVE PageInv'
<1> DEFINE q == disconnect(page)
           F == fetching \cup {page.generation + 1}
<1>1. Good(q, fetching, inbox, served)  BY DisconnectGood DEF PageInv, Good
<1>2. page \in PageState  BY DEF PageInv, Good, PageTypeOK
<1>3. /\ q.generation = page.generation + 1 /\ q.socket = None /\ q.snapshot = {}
      /\ q.ticking = page.ticking \ {page.timer} /\ q.armed = page.armed \ {page.openingTimer}
  BY <1>2, DisconnectFields
<1> HIDE DEF q
<1>4. page' = [q EXCEPT !.status = "connecting", !.desired = r]  BY DEF Connect, q
<1>5. q \in PageState  BY <1>1 DEF Good, PageTypeOK
<1>6. /\ page' \in PageState /\ page'.status = "connecting"
      /\ page'.generation = q.generation /\ page'.socket = q.socket
      /\ page'.room = q.room /\ page'.snapshot = q.snapshot /\ page'.switching = q.switching
      /\ page'.armed = q.armed /\ page'.ticking = q.ticking
      /\ page'.openingTimer = q.openingTimer /\ page'.timer = q.timer /\ page'.ready = q.ready
      /\ page'.out = q.out
  BY <1>4, <1>5 DEF PageState, MaybeRoom
<1>7. fetching' = F /\ inbox' = inbox /\ served' = served  BY <1>3, <1>6 DEF Connect
<1>8. page.generation \in Nat /\ MaxGeneration \in Nat /\ page.generation < MaxGeneration
  BY <1>2, WebClientAssumption DEF PageState, Connect
<1>9. page.generation + 1 \in Attempts  BY <1>8 DEF Attempts
<1>10. PageTypeOK(page', F, inbox, served)  BY <1>1, <1>6, <1>9 DEF Good, PageTypeOK
<1>11. Loose(page') /\ Sockets(page')
  <2>1. page'.status = "offline" => FALSE  BY <1>6
  <2>2. page'.status = "online" => FALSE  BY <1>6
  <2> QED  BY <1>1, <1>6, <2>1, <2>2 DEF Good, Loose, Sockets
<1>12. Fetches(page', F)
  <2>1. page.ready[page.generation + 1] = "none"
    <3>1. page.generation + 1 > page.generation  BY <1>8
    <3> QED  BY <1>9, <3>1 DEF PageInv, Good, Loose
  <2>2. q.ready[page.generation + 1] = "none"
    <3>1. page.socket # page.generation + 1
      <4>1. page.generation # page.generation + 1  BY <1>8
      <4>2. page.generation + 1 # None  BY <1>9, Numbers
      <4> QED  BY <4>1, <4>2 DEF PageInv, Good, Loose
    <3> QED  BY <1>2, <1>9, <2>1, <3>1, DisconnectFields DEF q
  <2>3. \A a \in fetching : a <= q.generation /\ q.ready[a] = "none"  BY <1>1 DEF Good, Fetches
  <2>4. page.generation + 1 <= q.generation  BY <1>3, <1>8
  <2> QED  BY <1>6, <2>2, <2>3, <2>4 DEF Fetches
<1>13. Unopened(page', inbox, served)  BY <1>1, <1>6 DEF Good, Unopened
<1>14. Conversation(page', inbox, served)
  <2>1. \A a \in Attempts : q.ready[a] # "open"
    BY <1>1, <1>3, Numbers DEF Good, Loose
  <2> QED  BY <1>6, <2>1 DEF Conversation
<1> QED  BY <1>7, <1>10, <1>11, <1>12, <1>13, <1>14, GoodNext DEF Good

\* The user disconnects, moves or changes rooms.
LEMMA KeptByUser ==
    ASSUME PageInv, Disconnect \/ Move \/ \E r \in Arenas : SwitchRoom(r) PROVE PageInv'
<1>0. fetching' = fetching /\ inbox' = inbox /\ served' = served
  BY DEF Disconnect, Move, SwitchRoom
<1>1. CASE Disconnect
  <2>1. Good(disconnect(page), fetching, inbox, served)  BY DisconnectGood DEF PageInv, Good
  <2> QED  BY <1>0, <1>1, <2>1, GoodNext DEF Disconnect
<1>2. CASE Move
  <2>1. Good(input(page), fetching, inbox, served)  BY InputGood DEF PageInv
  <2> QED  BY <1>0, <1>2, <2>1, GoodNext DEF Move
<1>3. ASSUME NEW r \in Arenas, SwitchRoom(r) PROVE PageInv'
  <2>1. Good(join(page, r), fetching, inbox, served)  BY JoinGood DEF PageInv
  <2> QED  BY <1>0, <1>3, <2>1, GoodNext DEF SwitchRoom
<1> QED  BY <1>1, <1>2, <1>3

\* The answer to a fetch: the socket is the only one, for another one would be of
\* an older generation.
LEMMA KeptByFetched ==
    ASSUME PageInv, NEW a \in Attempts, Fetched(a) PROVE PageInv'
<1> DEFINE F == fetching \ {a}
           q == NewSocket(page, a)
<1>0. fetching' = F /\ inbox' = inbox /\ served' = served /\ a \in fetching  BY DEF Fetched
<1>1. Good(page, F, inbox, served)  BY FewerFetches DEF PageInv
<1>2. CASE page' = page  BY <1>0, <1>1, <1>2, GoodNext
<1>3. CASE page' = disconnect(page)
  <2>1. Good(disconnect(page), F, inbox, served)  BY <1>1, DisconnectGood DEF Good
  <2> QED  BY <1>0, <1>3, <2>1, GoodNext
<1>4. CASE a = page.generation /\ page' = q
  <2>1. page \in PageState  BY <1>1 DEF Good, PageTypeOK
  <2>2. page.status = "connecting" /\ page.ready[a] = "none"
    BY <1>0, <1>4 DEF PageInv, Good, Fetches
  <2>3. page.ticking = {} /\ page.socket = None
    BY <1>4, <2>2, Numbers DEF PageInv, Good, Loose, Sockets
  <2> DEFINE rd == [page.ready EXCEPT ![a] = "opening"]
  <2>4. /\ rd \in [Attempts -> {"none", "opening", "open", "closing", "closed"}]
        /\ rd[a] = "opening" /\ \A b \in Attempts : b # a => rd[b] = page.ready[b]
    BY <2>1 DEF PageState
  <2>5. q = [page EXCEPT !.socket = a, !.ready = rd, !.openingTimer = a, !.armed = page.armed \cup {a}]
    BY DEF NewSocket
  <2> HIDE DEF rd, q
  <2>6. /\ q \in PageState /\ q.socket = a /\ q.ready = rd /\ q.openingTimer = a
        /\ q.armed = page.armed \cup {a}
        /\ q.generation = page.generation /\ q.status = page.status
        /\ q.room = page.room /\ q.snapshot = page.snapshot /\ q.switching = page.switching
        /\ q.ticking = page.ticking /\ q.timer = page.timer /\ q.out = page.out
    BY <2>1, <2>4, <2>5 DEF PageState, MaybeAttempt
  <2>7. PageTypeOK(q, F, inbox, served)  BY <1>1, <2>6 DEF Good, PageTypeOK
  <2>8. page.armed \subseteq {a}  BY <1>1, <1>4 DEF Good, Sockets
  <2>9. \A b \in Attempts : page.ready[b] \notin {"opening", "open"}
    BY <1>1, <2>3, Numbers DEF Good, Loose
  <2>10. Loose(q)
    <3>1. \A b \in Attempts : b > q.generation => q.ready[b] = "none"
      <4>1. \A b \in Attempts : b > a => b # a  BY Numbers
      <4> QED  BY <1>1, <1>4, <2>4, <2>6, <4>1 DEF Good, Loose
    <3>2. \A b \in Attempts : q.ready[b] \in {"opening", "open"} => b = q.socket
      BY <2>4, <2>6, <2>9
    <3>3. q.socket = q.generation /\ q.ready[q.socket] # "none"  BY <1>4, <2>4, <2>6
    <3>4. q.armed \subseteq {q.openingTimer} /\ q.ticking \subseteq {q.timer}  BY <2>3, <2>6, <2>8
    <3> QED  BY <3>1, <3>2, <3>3, <3>4 DEF Loose
  <2>11. Sockets(q)
    BY <1>1, <1>4, <2>2, <2>3, <2>4, <2>6, <2>8 DEF Good, Sockets
  <2>12. Fetches(q, F)
    <3>1. \A b \in F : b \in Attempts /\ b # a  BY <1>1 DEF Good, PageTypeOK
    <3> QED  BY <1>1, <2>4, <2>6, <3>1 DEF Good, Fetches
  <2>13. Unopened(q, inbox, served)  BY <1>1, <2>2, <2>4, <2>6 DEF Good, Unopened
  <2>14. Conversation(q, inbox, served)  BY <2>4, <2>6, <2>9 DEF Conversation
  <2> QED  BY <1>0, <1>4, <2>7, <2>10, <2>11, <2>12, <2>13, <2>14, GoodNext DEF Good
<1> QED  BY <1>2, <1>3, <1>4 DEF Fetched, current

-----------------------------------------------------------------------------
\* Appending a message: the room follows a join, and other messages do not matter.
LEMMA AppendFollows ==
    ASSUME NEW S, NEW s \in Seq(S), NEW m \in S, NEW x, NEW r,
           \/ m.type # "join" /\ Follows(x, s, r)
           \/ m.type = "join" /\ m.room = r
    PROVE  Follows(x, Append(s, m), r)
<1> DEFINE u == Append(s, m)
           n == Len(s)
<1>1. /\ Len(u) = n + 1 /\ n \in Nat /\ u[n + 1] = m /\ \A i \in 1..n : u[i] = s[i]
  OBVIOUS
<1> HIDE DEF u
<1>2. CASE m.type = "join" /\ m.room = r
  <2>1. n + 1 \in 1..Len(u) /\ \A j \in 1..Len(u) : ~(j > n + 1)  BY <1>1
  <2> QED  BY <1>1, <1>2, <2>1 DEF Follows, u
<1>3. CASE m.type # "join" /\ NoType(s, "join") /\ x = r
  <2>1. NoType(u, "join")  BY <1>3, Appended DEF u
  <2> QED  BY <1>3, <2>1 DEF Follows, u
<1>4. CASE m.type # "join" /\ ~NoType(s, "join")
  <2>1. PICK i \in 1..n : /\ s[i].type = "join" /\ s[i].room = r
                          /\ \A j \in 1..n : j > i => s[j].type # "join"
    BY <1>4 DEF Follows, NoType
  <2>2. i \in 1..Len(u) /\ u[i] = s[i]  BY <1>1
  <2>3. \A j \in 1..Len(u) : j \in 1..n \/ j = n + 1  BY <1>1
  <2>4. \A j \in 1..Len(u) : j > i => u[j].type # "join"  BY <1>1, <1>4, <2>1, <2>3
  <2> HIDE DEF n
  <2> QED  BY <2>1, <2>2, <2>4 DEF Follows, u
<1> QED  BY <1>2, <1>3, <1>4 DEF Follows

\* The message at the head is taken: the room follows it if it is a join.
LEMMA TailFollows ==
    ASSUME NEW S, NEW s \in Seq(S), s # <<>>
    PROVE  /\ Tail(s) \in Seq(S) /\ Head(s) \in S
           /\ \A t : NoType(s, t) => NoType(Tail(s), t) /\ Head(s).type # t
           /\ SomeJoin(s) /\ ~isJoin(Head(s)) => SomeJoin(Tail(s))
           /\ \A x, r : Follows(x, s, r) =>
                 Follows(IF Head(s).type = "join" THEN Head(s).room ELSE x, Tail(s), r)
<1> DEFINE u == Tail(s)
           n == Len(u)
<1>1. /\ Len(s) = n + 1 /\ n \in Nat /\ Head(s) = s[1] /\ \A i \in 1..n : u[i] = s[i + 1]
      /\ u \in Seq(S) /\ s[1] \in S
  OBVIOUS
<1> HIDE DEF u, n
<1>2. 1 \in 1..(n + 1) /\ \A i \in 1..n : i + 1 \in 1..(n + 1)  BY <1>1
<1>3. \A i \in 1..(n + 1) : i = 1 \/ (i - 1 \in 1..n /\ (i - 1) + 1 = i)  BY <1>1
<1>4. Len(u) = n  BY DEF n
<1>5. \A i \in 1..(n + 1) : i = 1 \/ (i - 1 \in 1..n /\ u[i - 1] = s[i])
  <2> SUFFICES ASSUME NEW i \in 1..(n + 1), i # 1 PROVE i - 1 \in 1..n /\ u[i - 1] = s[i]  OBVIOUS
  <2>1. i - 1 \in 1..n /\ (i - 1) + 1 = i  BY <1>3
  <2> QED  BY <1>1, <2>1
<1>6. \A t : NoType(s, t) => NoType(u, t) /\ Head(s).type # t  BY <1>1, <1>2, <1>4 DEF NoType
<1>7. SomeJoin(s) /\ ~isJoin(Head(s)) => SomeJoin(u)
  <2> SUFFICES ASSUME NEW i \in 1..Len(s), isJoin(s[i]), ~isJoin(Head(s)) PROVE SomeJoin(u)
    BY DEF SomeJoin
  <2>1. i # 1  BY <1>1
  <2>2. i - 1 \in 1..Len(u) /\ isJoin(u[i - 1])  BY <1>1, <1>4, <1>5, <2>1
  <2> QED  BY <2>2 DEF SomeJoin
<1>8. ASSUME NEW x, NEW r, Follows(x, s, r)
      PROVE  Follows(IF Head(s).type = "join" THEN Head(s).room ELSE x, u, r)
  <2>1. CASE NoType(s, "join") /\ x = r  BY <2>1, <1>6 DEF Follows
  <2>2. CASE ~(NoType(s, "join") /\ x = r)
    <3>1. PICK i \in 1..(n + 1) : /\ s[i].type = "join" /\ s[i].room = r
                                  /\ \A j \in 1..(n + 1) : j > i => s[j].type # "join"
      BY <1>1, <1>8, <2>2 DEF Follows
    <3>2. CASE i = 1
      <4>1. \A j \in 1..n : j + 1 > 1  OBVIOUS
      <4>2. NoType(u, "join")  BY <1>1, <1>2, <1>4, <3>1, <3>2, <4>1 DEF NoType
      <4> QED  BY <1>1, <3>1, <3>2, <4>2 DEF Follows
    <3>3. CASE i # 1
      <4>1. i - 1 \in 1..n /\ u[i - 1] = s[i]  BY <1>5, <3>3
      <4>2. \A j \in 1..n : j > i - 1 => j + 1 > i  OBVIOUS
      <4>3. \A j \in 1..n : j > i - 1 => u[j].type # "join"  BY <1>1, <1>2, <3>1, <4>2
      <4> QED  BY <1>4, <3>1, <4>1, <4>3 DEF Follows
    <3> QED  BY <3>2, <3>3
  <2> QED  BY <2>1, <2>2
<1> QED  BY <1>1, <1>6, <1>7, <1>8 DEF u

\* Answers are appended one by one.
LEMMA Concatenated ==
    ASSUME NEW S, NEW s \in Seq(S), NEW m \in S, NEW k \in S
    PROVE  s \o <<>> = s /\ s \o <<m>> = Append(s, m) /\ s \o <<m, k>> = Append(Append(s, m), k)
OBVIOUS

\* A connection of the server whose field live changes.
LEMMA ServedLive ==
    ASSUME NEW srv \in [Attempts -> Served], NEW a \in Attempts, NEW v \in BOOLEAN
    PROVE  LET t == [srv EXCEPT ![a].live = v] IN
           /\ t \in [Attempts -> Served] /\ t[a].room = srv[a].room
           /\ \A b \in Attempts : b # a => t[b] = srv[b]
<1>1. srv[a] \in Served  OBVIOUS
<1>2. [srv[a] EXCEPT !.live = v] \in Served /\ [srv[a] EXCEPT !.live = v].room = srv[a].room
  BY <1>1 DEF Served
<1> QED  BY <1>2

\* A socket that is open or opening is the page's.
LEMMA OpenIsCurrent ==
    ASSUME PageInv, NEW a \in Attempts, page.ready[a] \in {"opening", "open"}
    PROVE  a = page.socket /\ a = page.generation /\ a # None
BY Numbers DEF PageInv, Good, Loose

\* A connection that is dropped.
LEMMA KeptByDropped == ASSUME PageInv, NEW a \in Attempts, Dropped(a) PROVE PageInv'
<1>1. PageTypeOK(page, fetching, inbox, served)  BY DEF PageInv, Good
<1>2. /\ served' \in [Attempts -> Served] /\ served'[a].room = served[a].room
      /\ \A b \in Attempts : b # a => served'[b] = served[b]
  BY <1>1, ServedLive DEF PageTypeOK, Dropped
<1>3. page' = page /\ fetching' = fetching /\ inbox' = inbox  BY DEF Dropped
<1>4. PageTypeOK(page, fetching, inbox, served')  BY <1>1, <1>2 DEF PageTypeOK
<1>5. Unopened(page, inbox, served')
  <2>1. page.ready[a] \notin {"none", "opening"}
    BY DEF PageInv, Good, Unopened, NotServed, Dropped
  <2> QED  BY <1>2, <2>1 DEF PageInv, Good, Unopened
<1>6. Conversation(page, inbox, served')
  BY <1>2 DEF PageInv, Good, Conversation, Talk, Authenticated, Authenticating, RoomFollows
<1> QED  BY <1>3, <1>4, <1>5, <1>6, GoodNext DEF PageInv, Good

\* A heartbeat.
LEMMA KeptByBeat ==
    ASSUME PageInv, NEW a \in Attempts, Beat(a) PROVE PageInv'
<1>1. page.ticking # {}  BY DEF Beat
<1>2. Sound(page, fetching, inbox, served) /\ Authenticated(page, inbox, served, page.socket)
  BY <1>1, TickingTalk DEF PageInv
<1>3. HeartbeatMessage \in Request /\ HeartbeatMessage.type # "authenticate"
  BY DEF HeartbeatMessage, Request, RequestTypes, MaybeRoom
<1>4. Good(send(page, HeartbeatMessage), fetching, inbox, served)
  <2> HIDE DEF HeartbeatMessage
  <2> QED  BY <1>1, <1>2, <1>3, SendGood DEF Authenticated
<1> QED  BY <1>4, GoodNext DEF Beat

\* The opening timer, which is that of the generation.
LEMMA KeptByTimeout ==
    ASSUME PageInv, NEW a \in Attempts, OpeningTimeout(a) PROVE PageInv'
<1> DEFINE p == [page EXCEPT !.armed = page.armed \ {a}]
<1>1. PageTypeOK(page, fetching, inbox, served)  BY DEF PageInv, Good
<1>2. /\ p \in PageState
      /\ p.generation = page.generation /\ p.socket = page.socket /\ p.status = page.status
      /\ p.room = page.room /\ p.snapshot = page.snapshot /\ p.switching = page.switching
      /\ p.armed = page.armed \ {a} /\ p.ticking = page.ticking
      /\ p.openingTimer = page.openingTimer /\ p.timer = page.timer /\ p.ready = page.ready
      /\ p.out = page.out
  BY <1>1 DEF PageTypeOK, PageState
<1>3. /\ page' = p \/ page' = disconnect(p)
      /\ fetching' = fetching /\ inbox' = inbox /\ served' = served
  BY DEF OpeningTimeout
<1> HIDE DEF p
<1>4. Good(p, fetching, inbox, served)
  <2>1. PageTypeOK(p, fetching, inbox, served)  BY <1>1, <1>2 DEF PageTypeOK
  <2>2. Loose(p) /\ Sockets(p) /\ Fetches(p, fetching)
    BY <1>2 DEF PageInv, Good, Loose, Sockets, Fetches
  <2>3. Unopened(p, inbox, served)  BY <1>2 DEF PageInv, Good, Unopened
  <2>4. Conversation(p, inbox, served)
    BY <1>2 DEF PageInv, Good, Conversation, Talk, Authenticated, Authenticating, RoomFollows
  <2> QED  BY <2>1, <2>2, <2>3, <2>4 DEF Good
<1>5. Good(disconnect(p), fetching, inbox, served)  BY <1>4, DisconnectGood DEF Good
<1> QED  BY <1>3, <1>4, <1>5, GoodNext

\* onopen: the socket is the page's, and the request for authentication the first
\* message on it.
LEMMA KeptByOpened ==
    ASSUME PageInv, NEW a \in Attempts, Opened(a) PROVE PageInv'
<1> DEFINE rd == [page.ready EXCEPT ![a] = "open"]
           p == [page EXCEPT !.ready = rd]
           q == Sent(p, AuthenticateMessage)
<1>1. PageTypeOK(page, fetching, inbox, served) /\ page.ready[a] = "opening"
  BY DEF PageInv, Good, Opened
<1>2. page \in PageState  BY <1>1 DEF PageTypeOK
<1>3. a = page.socket /\ a = page.generation /\ a # None  BY <1>1, OpenIsCurrent
<1>4. /\ rd \in [Attempts -> {"none", "opening", "open", "closing", "closed"}]
      /\ rd[a] = "open" /\ \A b \in Attempts : b # a => rd[b] = page.ready[b]
  BY <1>2 DEF PageState
<1>5. p = [page EXCEPT !.ready[a] = "open"]  OBVIOUS
<1> HIDE DEF rd
<1>6. /\ p \in PageState /\ p.ready = rd
      /\ p.generation = page.generation /\ p.socket = page.socket /\ p.status = page.status
      /\ p.room = page.room /\ p.snapshot = page.snapshot /\ p.switching = page.switching
      /\ p.armed = page.armed /\ p.ticking = page.ticking
      /\ p.openingTimer = page.openingTimer /\ p.timer = page.timer
      /\ p.out = page.out
  BY <1>2, <1>4 DEF PageState
<1> HIDE DEF p
<1>7. page.out[a] = <<>> /\ inbox[a] = <<>> /\ served[a] = NotServed
  BY <1>1 DEF PageInv, Good, Unopened
<1>8. page' = q
  <2>1. page' = send(p, AuthenticateMessage)  BY <1>3, <1>5 DEF Opened, current
  <2>2. ~(Len(p.out[p.socket]) > Backlog)
    <3>1. p.out[p.socket] = <<>>  BY <1>3, <1>6, <1>7
    <3>2. Len(p.out[p.socket]) = 0  BY <3>1
    <3> QED  BY <3>2, WebClientAssumption
  <2> QED  BY <1>3, <1>4, <1>6, <2>1, <2>2 DEF send, Sent
<1>9. AuthenticateMessage \in Request  BY DEF AuthenticateMessage, Request, RequestTypes, MaybeRoom
<1>10. /\ q \in PageState
       /\ q.generation = p.generation /\ q.socket = p.socket /\ q.status = p.status
       /\ q.room = p.room /\ q.snapshot = p.snapshot /\ q.switching = p.switching
       /\ q.armed = p.armed /\ q.ticking = p.ticking
       /\ q.openingTimer = p.openingTimer /\ q.timer = p.timer /\ q.ready = p.ready
       /\ q.out[a] = Append(<<>>, AuthenticateMessage)
       /\ \A b \in Attempts : b # a => q.out[b] = p.out[b]
  <2> HIDE DEF AuthenticateMessage
  <2>1. p.socket = a /\ p.socket \in Attempts /\ p.out[a] = <<>>  BY <1>3, <1>6, <1>7
  <2> QED  BY <1>6, <1>9, <2>1, SentFields
<1> HIDE DEF q
<1>11. /\ served' \in [Attempts -> Served] /\ served'[a].room = NoArena
       /\ \A b \in Attempts : b # a => served'[b] = served[b]
       /\ fetching' = fetching /\ inbox' = inbox
  <2>1. served \in [Attempts -> Served] /\ served[a].room = NoArena
    BY <1>1, <1>7 DEF PageTypeOK, NotServed
  <2>2. served' = [served EXCEPT ![a].live = TRUE]  BY DEF Opened
  <2>3. /\ served' \in [Attempts -> Served] /\ served'[a].room = served[a].room
        /\ \A b \in Attempts : b # a => served'[b] = served[b]
    BY <2>1, <2>2, ServedLive
  <2> QED  BY <2>1, <2>3 DEF Opened
<1>12. PageTypeOK(q, fetching, inbox, served')  BY <1>1, <1>10, <1>11 DEF PageTypeOK
<1>13. page.ticking = {}  BY <1>1, <1>3 DEF PageInv, Good, Sockets
<1>14. Loose(q)
  <2>1. \A b \in Attempts : b > a => b # a  BY Numbers
  <2>2. \A b \in Attempts : b > q.generation => q.ready[b] = "none"
    BY <1>3, <1>4, <1>6, <1>10, <2>1 DEF PageInv, Good, Loose
  <2>3. q.socket = a /\ q.generation = a /\ q.ready[a] = "open"  BY <1>3, <1>4, <1>6, <1>10
  <2>4. \A b \in Attempts : q.ready[b] \in {"opening", "open"} => b = a
    BY <1>3, <1>4, <1>6, <1>10 DEF PageInv, Good, Loose
  <2>5. q.armed \subseteq {q.openingTimer} /\ q.ticking \subseteq {q.timer}
    BY <1>6, <1>10 DEF PageInv, Good, Loose
  <2> QED  BY <2>2, <2>3, <2>4, <2>5 DEF Loose
<1>15. Sockets(q)
  <2>1. q.socket = a /\ q.generation = a /\ q.ready[a] = "open"  BY <1>3, <1>4, <1>6, <1>10
  <2>2. page.socket # None  BY <1>3
  <2>3. q.status # "offline"  BY <1>6, <1>10, <2>2 DEF PageInv, Good, Sockets
  <2>4. \A s \in q.snapshot : s.room = q.room /\ s.of = q.generation
    BY <1>6, <1>10 DEF PageInv, Good, Sockets
  <2>5. /\ q.armed \subseteq {q.generation} /\ q.ticking \subseteq {q.generation}
        /\ q.ticking = {} => q.room = NoArena /\ q.switching = FALSE
        /\ q.status = "online" => q.ticking # {}
    BY <1>6, <1>10 DEF PageInv, Good, Sockets
  <2> QED  BY <2>1, <2>3, <2>4, <2>5, <1>3 DEF Sockets
<1>16. Fetches(q, fetching)
  <2>1. \A b \in fetching : b \in Attempts /\ b # a
    BY <1>1 DEF PageTypeOK, PageInv, Good, Fetches
  <2> QED  BY <1>4, <1>6, <1>10, <2>1 DEF PageInv, Good, Fetches
<1>17. Unopened(q, inbox, served')
  BY <1>4, <1>6, <1>10, <1>11 DEF PageInv, Good, Unopened
<1>18. Conversation(q, inbox, served')
  <2>1. Authenticating(q, inbox, served', a)
    <3>1. Append(<<>>, AuthenticateMessage) = <<AuthenticateMessage>>  OBVIOUS
    <3> QED  BY <1>7, <1>10, <1>11, <3>1 DEF Authenticating
  <2>2. \A b \in Attempts : q.ready[b] = "open" => b = a  BY <1>3, <1>10, <1>14, <1>6 DEF Loose
  <2> QED  BY <1>6, <1>10, <1>13, <2>1, <2>2 DEF Conversation, Talk
<1> QED  BY <1>8, <1>11, <1>12, <1>14, <1>15, <1>16, <1>17, <1>18, GoodNext DEF Good

\* onclose: of the page's socket, or of one it is closing.
LEMMA KeptByClosed ==
    ASSUME PageInv, NEW a \in Attempts, Closed(a) PROVE PageInv'
<1> DEFINE rd == [page.ready EXCEPT ![a] = "closed"]
           o == [page.out EXCEPT ![a] = <<>>]
           p == [page EXCEPT !.ready = rd, !.out = o]
<1>1. PageTypeOK(page, fetching, inbox, served)  BY DEF PageInv, Good
<1>2. page \in PageState /\ page.ready[a] \in {"opening", "open", "closing"}
  BY <1>1 DEF PageTypeOK, Closed
<1>3. /\ rd \in [Attempts -> {"none", "opening", "open", "closing", "closed"}]
      /\ rd[a] = "closed" /\ \A b \in Attempts : b # a => rd[b] = page.ready[b]
      /\ o \in [Attempts -> Seq(Request)] /\ \A b \in Attempts : b # a => o[b] = page.out[b]
  BY <1>2 DEF PageState
<1>4. p = [page EXCEPT !.ready[a] = "closed", !.out[a] = <<>>]  OBVIOUS
<1>5. /\ page' = IF a = page.generation THEN disconnect(p) ELSE p
      /\ inbox' = [inbox EXCEPT ![a] = <<>>] /\ fetching' = fetching
  BY <1>4 DEF Closed, current
<1> HIDE DEF rd, o
<1>6. /\ p \in PageState /\ p.ready = rd /\ p.out = o
      /\ p.generation = page.generation /\ p.socket = page.socket /\ p.status = page.status
      /\ p.room = page.room /\ p.snapshot = page.snapshot /\ p.switching = page.switching
      /\ p.armed = page.armed /\ p.ticking = page.ticking
      /\ p.openingTimer = page.openingTimer /\ p.timer = page.timer
  BY <1>2, <1>3 DEF PageState
<1> HIDE DEF p
<1>7. /\ inbox' \in [Attempts -> Seq(Reply)] /\ \A b \in Attempts : b # a => inbox'[b] = inbox[b]
      /\ served' \in [Attempts -> Served] /\ \A b \in Attempts : b # a => served'[b] = served[b]
  <2>1. <<>> \in Seq(Reply)  OBVIOUS
  <2>2. inbox' \in [Attempts -> Seq(Reply)] /\ \A b \in Attempts : b # a => inbox'[b] = inbox[b]
    BY <1>1, <1>5, <2>1 DEF PageTypeOK
  <2> QED  BY <1>1, <2>2, ServedLive DEF PageTypeOK, Closed
<1>8. PageTypeOK(p, fetching, inbox', served')  BY <1>1, <1>6, <1>7 DEF PageTypeOK
<1>9. Loose(p)
  <2>1. \A b \in Attempts : b > page.generation => b # a  BY <1>2 DEF PageInv, Good, Loose
  <2> QED  BY <1>3, <1>6, <2>1, Numbers, <1>2 DEF PageInv, Good, Loose, PageState, MaybeAttempt
<1>10. Fetches(p, fetching)
  <2>1. \A b \in fetching : b \in Attempts /\ b # a
    BY <1>1, <1>2 DEF PageTypeOK, PageInv, Good, Fetches
  <2> QED  BY <1>3, <1>6, <2>1 DEF PageInv, Good, Fetches
<1>11. Unopened(p, inbox', served')
  BY <1>3, <1>6, <1>7 DEF PageInv, Good, Unopened
<1>12. CASE a = page.generation
  BY <1>5, <1>8, <1>9, <1>10, <1>11, <1>12, DisconnectGood, GoodNext
<1>13. CASE a # page.generation
  <2>1. page.ready[a] = "closing" /\ a # page.socket
    BY <1>2, <1>13, OpenIsCurrent, Numbers DEF PageInv, Good, Loose
  <2>2. Sockets(p)
    <3>1. \A b \in Attempts : b = p.generation => p.ready[b] \notin {"closing", "closed"}
      BY <1>3, <1>6, <1>13 DEF PageInv, Good, Sockets
    <3>2. page.socket # None => rd[page.socket] = page.ready[page.socket]
      BY <1>2, <1>3, <2>1 DEF PageState, MaybeAttempt
    <3> QED  BY <1>6, <3>1, <3>2 DEF PageInv, Good, Sockets
  <2>3. Conversation(p, inbox', served')
    <3>1. \A b \in Attempts : p.ready[b] = "open" => b # a  BY <1>3, <1>6
    <3> QED  BY <1>3, <1>6, <1>7, <3>1
             DEF PageInv, Good, Conversation, Talk, Authenticated, Authenticating, RoomFollows
  <2> QED  BY <1>5, <1>8, <1>9, <1>10, <1>11, <1>13, <2>2, <2>3, GoodNext DEF Good
<1> QED  BY <1>12, <1>13

\* A snapshot for the members of a room: the connection is authenticated.
LEMMA KeptByBroadcast == ASSUME PageInv, NEW a \in Attempts, Broadcast(a) PROVE PageInv'
<1> DEFINE m == Snapshot(served[a].room)
<1>1. PageTypeOK(page, fetching, inbox, served)  BY DEF PageInv, Good
<1>2. served[a] \in Served /\ inbox[a] \in Seq(Reply)  BY <1>1 DEF PageTypeOK
<1>3. m \in Reply /\ m.type = "snapshot"  BY <1>2 DEF Snapshot, Reply, Served
<1>4. /\ inbox'[a] = Append(inbox[a], m) /\ \A b \in Attempts : b # a => inbox'[b] = inbox[b]
      /\ inbox' = [inbox EXCEPT ![a] = Append(inbox[a], m)]
      /\ page' = page /\ fetching' = fetching /\ served' = served
  BY <1>1 DEF PageTypeOK, Broadcast
<1> HIDE DEF m
<1>5. inbox' \in [Attempts -> Seq(Reply)]
  <2>1. Append(inbox[a], m) \in Seq(Reply)  BY <1>2, <1>3
  <2> QED  BY <1>1, <1>4, <2>1 DEF PageTypeOK
<1>6. PageTypeOK(page, fetching, inbox', served)  BY <1>1, <1>5 DEF PageTypeOK
<1>7. Unopened(page, inbox', served)
  <2>1. page.ready[a] \notin {"none", "opening"}
    BY DEF PageInv, Good, Unopened, NotServed, Broadcast
  <2> QED  BY <1>4, <2>1 DEF PageInv, Good, Unopened
<1>8. Conversation(page, inbox', served)
  <2> SUFFICES ASSUME NEW b \in Attempts, page.ready[b] = "open" PROVE Talk(page, inbox', served, b)
    BY DEF Conversation
  <2>1. Talk(page, inbox, served, b)  BY DEF PageInv, Good, Conversation
  <2>2. CASE b # a
    BY <1>4, <2>1, <2>2 DEF Talk, Authenticated, Authenticating, RoomFollows
  <2>3. CASE b = a
    <3>1. a \in page.ticking  BY <2>1, <2>3 DEF Talk, Authenticating, Broadcast
    <3>2. Authenticated(page, inbox, served, a)  BY <2>1, <2>3, <3>1 DEF Talk
    <3>3. NoType(inbox'[a], "authenticate")  BY <1>2, <1>3, <1>4, <3>2, Appended DEF Authenticated
    <3>4. SomeJoin(inbox[a]) => SomeJoin(inbox'[a])  BY <1>2, <1>3, <1>4, Appended
    <3>5. Follows(page.room, inbox'[a], served[a].room)
      BY <1>2, <1>3, <1>4, <3>2, AppendFollows DEF Authenticated, RoomFollows
    <3> QED  BY <2>3, <3>1, <3>2, <3>3, <3>4, <3>5 DEF Talk, Authenticated, RoomFollows
  <2> QED  BY <2>2, <2>3
<1> QED  BY <1>4, <1>6, <1>7, <1>8, GoodNext DEF PageInv, Good

\* A message arrives on a socket that is not the page's any more.
LEMMA LateMessage ==
    ASSUME PageInv, NEW a \in Attempts, page.ready[a] = "closing", inbox[a] # <<>>,
           inbox' = [inbox EXCEPT ![a] = Tail(inbox[a])],
           page' = page, fetching' = fetching, served' = served
    PROVE  PageInv'
<1>1. PageTypeOK(page, fetching, inbox, served)  BY DEF PageInv, Good
<1>2. inbox[a] \in Seq(Reply)  BY <1>1 DEF PageTypeOK
<1>3. Tail(inbox[a]) \in Seq(Reply)  BY <1>2
<1>4. /\ inbox' \in [Attempts -> Seq(Reply)] /\ \A b \in Attempts : b # a => inbox'[b] = inbox[b]
  BY <1>1, <1>3 DEF PageTypeOK
<1>5. PageTypeOK(page, fetching, inbox', served)  BY <1>1, <1>4 DEF PageTypeOK
<1>6. Unopened(page, inbox', served)  BY <1>4 DEF PageInv, Good, Unopened
<1>7. Conversation(page, inbox', served)
  <2>1. \A b \in Attempts : page.ready[b] = "open" => b # a  OBVIOUS
  <2> QED  BY <1>4, <2>1
           DEF PageInv, Good, Conversation, Talk, Authenticated, Authenticating, RoomFollows
<1> QED  BY <1>5, <1>6, <1>7, GoodNext DEF PageInv, Good

\* What is not about the conversation does not depend on the messages under way on
\* an open socket.
LEMMA OtherMessages ==
    ASSUME NEW p, NEW F, NEW in, NEW srv, NEW i2, Sound(p, F, in, srv),
           NEW a \in Attempts, p.ready[a] = "open",
           i2 \in [Attempts -> Seq(Reply)], \A b \in Attempts : b # a => i2[b] = in[b]
    PROVE  Sound(p, F, i2, srv)
BY DEF Sound, PageTypeOK, Unopened

\* A page with the same sockets and timers: what the handlers of messages keep.
SameButShown(q, p) ==
    /\ q \in PageState
    /\ q.generation = p.generation /\ q.socket = p.socket
    /\ q.ticking = p.ticking /\ q.timer = p.timer /\ q.openingTimer = p.openingTimer
    /\ q.ready = p.ready /\ q.out = p.out /\ q.armed \subseteq p.armed
\* Such a page is sound if what it shows is of its room and generation.
LEMMA ShownSound ==
    ASSUME NEW p, NEW q, NEW F, NEW in, NEW srv, Sound(p, F, in, srv), p.ticking # {},
           SameButShown(q, p), q.status \in {p.status, "online"},
           \A s \in q.snapshot : s.room = q.room /\ s.of = q.generation
    PROVE  Sound(q, F, in, srv)
<1>1. PageTypeOK(q, F, in, srv)  BY DEF Sound, PageTypeOK, SameButShown
<1>2. Loose(q)  BY DEF Sound, Loose, SameButShown
<1>3. Sockets(q)
  <2>1. p.status # "offline" /\ p.socket # None /\ p.ready[p.socket] = "open"  BY Ticking
  <2> QED  BY <2>1 DEF Sound, Sockets, SameButShown
<1>4. Fetches(q, F)
  <2>1. p.generation \notin F
    <3>1. p.socket = p.generation /\ p.ready[p.socket] = "open"  BY Ticking
    <3> QED  BY <3>1 DEF Sound, Fetches
  <2> QED  BY <2>1 DEF Sound, Fetches, SameButShown
<1>5. Unopened(q, in, srv)  BY DEF Sound, Unopened, SameButShown
<1> QED  BY <1>1, <1>2, <1>3, <1>4, <1>5 DEF Sound

\* A page is good if its conversation is.
LEMMA SoundGood ==
    ASSUME NEW q, NEW F, NEW in, NEW srv, Sound(q, F, in, srv), NEW a \in Attempts, a = q.socket,
           q.ready[a] = "open", Talk(q, in, srv, a)
    PROVE  Good(q, F, in, srv)
BY DEF Sound, Good, Conversation, Loose

\* The answer to a join, a snapshot or an error after authentication: the handler
\* leaves a good page for the messages that are left.
LEMMA HandlerGood ==
    ASSUME NEW p, NEW F, NEW in, NEW srv, Sound(p, F, in, srv), p.ticking # {},
           NEW m \in Reply, m.type # "authenticate",
           NoType(p.out[p.socket], "authenticate"), NoType(in[p.socket], "authenticate"),
           Follows(IF m.type = "join" THEN m.room ELSE p.room, in[p.socket], srv[p.socket].room),
           p.switching /\ ~isJoin(m) => SomeJoin(p.out[p.socket]) \/ SomeJoin(in[p.socket])
    PROVE  Good(onmessage(p, p.socket, m), F, in, srv)
<1> DEFINE a == p.socket
<1>1. /\ a \in Attempts /\ a = p.generation /\ p.ready[a] = "open" /\ p.ticking = {a}
      /\ p \in PageState
  BY Ticking DEF Sound, PageTypeOK
<1>2. ASSUME NEW q, SameButShown(q, p), q.status \in {p.status, "online"},
             \A s \in q.snapshot : s.room = q.room /\ s.of = q.generation,
             Follows(q.room, in[a], srv[a].room),
             q.switching => SomeJoin(p.out[a]) \/ SomeJoin(in[a])
      PROVE  Good(q, F, in, srv)
  <2>1. Sound(q, F, in, srv)  BY <1>2, ShownSound
  <2>2. Authenticated(q, in, srv, a)  BY <1>2 DEF Authenticated, RoomFollows, SameButShown
  <2>3. Talk(q, in, srv, a)  BY <1>1, <1>2, <2>2 DEF Talk, SameButShown
  <2>4. a = q.socket /\ q.ready[a] = "open"  BY <1>1, <1>2 DEF SameButShown
  <2> QED  BY <1>1, <2>1, <2>3, <2>4, SoundGood
<1>3. CASE m.type = "join"
  <2> DEFINE q == [p EXCEPT !.snapshot = IF p.room # m.room THEN {} ELSE p.snapshot,
                            !.room = m.room, !.status = "online", !.switching = FALSE,
                            !.armed = p.armed \ {p.openingTimer}]
  <2>1. onmessage(p, a, m) = q  BY <1>3 DEF onmessage, onJoined
  <2>2. m.room \in MaybeRoom  BY <1>3 DEF Reply
  <2>3. /\ q \in PageState /\ q.status = "online" /\ q.room = m.room /\ q.switching = FALSE
        /\ q.armed = p.armed \ {p.openingTimer}
        /\ q.snapshot = IF p.room # m.room THEN {} ELSE p.snapshot
        /\ q.generation = p.generation /\ q.socket = p.socket
        /\ q.ticking = p.ticking /\ q.timer = p.timer /\ q.openingTimer = p.openingTimer
        /\ q.ready = p.ready /\ q.out = p.out
    BY <1>1, <2>2 DEF PageState
  <2> HIDE DEF q
  <2>4. \A s \in q.snapshot : s.room = q.room /\ s.of = q.generation  BY <2>3 DEF Sound, Sockets
  <2>5. SameButShown(q, p)  BY <2>3 DEF SameButShown
  <2> QED  BY <1>2, <1>3, <2>1, <2>3, <2>4, <2>5
<1>4. CASE m.type = "snapshot"
  <2> DEFINE sn == {[room |-> m.room, of |-> a]}
             q == [p EXCEPT !.snapshot = sn]
  <2>1. onmessage(p, a, m) = IF m.room = p.room THEN q ELSE p
    BY <1>4 DEF onmessage, onSnapshot
  <2>2. sn \in SUBSET [room : MaybeRoom, of : Attempts]
    <3>1. m.room \in MaybeRoom  BY <1>4 DEF Reply
    <3> QED  BY <1>1, <3>1
  <2> HIDE DEF sn
  <2>3. /\ q \in PageState /\ q.snapshot = sn /\ q.status = p.status
        /\ q.room = p.room /\ q.switching = p.switching /\ q.armed = p.armed
        /\ q.generation = p.generation /\ q.socket = p.socket
        /\ q.ticking = p.ticking /\ q.timer = p.timer /\ q.openingTimer = p.openingTimer
        /\ q.ready = p.ready /\ q.out = p.out
    BY <1>1, <2>2 DEF PageState
  <2> HIDE DEF q
  <2>4. ~isJoin(m)  BY <1>4 DEF isJoin
  <2>5. SameButShown(q, p) /\ SameButShown(p, p)  BY <1>1, <2>3 DEF SameButShown
  <2>6. CASE m.room = p.room
    <3>1. \A s \in q.snapshot : s.room = q.room /\ s.of = q.generation  BY <1>1, <2>3, <2>6 DEF sn
    <3> QED  BY <1>2, <1>4, <2>1, <2>3, <2>4, <2>5, <2>6, <3>1
  <2>7. CASE m.room # p.room
    <3>1. \A s \in p.snapshot : s.room = p.room /\ s.of = p.generation  BY DEF Sound, Sockets
    <3> QED  BY <1>2, <1>4, <2>1, <2>4, <2>5, <2>7, <3>1
  <2> QED  BY <2>6, <2>7
<1>5. CASE m.type = "error"
  <2> DEFINE q == [p EXCEPT !.switching = FALSE]
  <2>1. onmessage(p, a, m) \in {q, disconnect(q)}
    BY <1>5 DEF onmessage, onError
  <2>2. /\ q \in PageState /\ q.snapshot = p.snapshot /\ q.status = p.status
        /\ q.room = p.room /\ q.switching = FALSE /\ q.armed = p.armed
        /\ q.generation = p.generation /\ q.socket = p.socket
        /\ q.ticking = p.ticking /\ q.timer = p.timer /\ q.openingTimer = p.openingTimer
        /\ q.ready = p.ready /\ q.out = p.out
    BY <1>1 DEF PageState
  <2> HIDE DEF q
  <2>3. SameButShown(q, p)  BY <2>2 DEF SameButShown
  <2>4. \A s \in q.snapshot : s.room = q.room /\ s.of = q.generation  BY <2>2 DEF Sound, Sockets
  <2>5. Good(q, F, in, srv)  BY <1>2, <1>5, <2>2, <2>3, <2>4
  <2>6. Good(disconnect(q), F, in, srv)  BY <2>5, DisconnectGood DEF Good
  <2> QED  BY <2>1, <2>5, <2>6
<1>6. m.type \in {"join", "snapshot", "error"}  BY DEF Reply
<1> QED  BY <1>3, <1>4, <1>5, <1>6

\* The first answer on a socket.
LEMMA AuthenticationAnswered ==
    ASSUME NEW p, NEW F, NEW in, NEW srv, Sound(p, F, in, srv), NEW a \in Attempts,
           a = p.socket, p.ready[a] = "open", p.ticking = {},
           p.out[a] = <<>>, in[a] = <<>>, srv[a].room = NoArena,
           NEW m \in {AuthenticateMessage, Error("authenticate", "unauthorized")}
    PROVE  Good(onmessage(p, a, m), F, in, srv)
<1>1. p \in PageState /\ a # None /\ a = p.generation
  BY Numbers DEF Sound, PageTypeOK, Loose
<1>2. p.status # "offline" /\ p.room = NoArena /\ p.switching = FALSE
  BY <1>1 DEF Sound, Sockets
<1>3. CASE m = AuthenticateMessage
  <2> DEFINE j == JoinMessage(p.desired)
             u == Sent(p, j)
             q == [u EXCEPT !.timer = a, !.ticking = u.ticking \cup {a}]
  <2>1. j \in Request /\ j.type = "join"
    BY <1>1 DEF JoinMessage, Request, RequestTypes, PageState
  <2>2. onmessage(p, a, m) = [send(p, j) EXCEPT !.timer = a, !.ticking = @ \cup {a}]
    BY <1>3 DEF onmessage, onAuthenticated, AuthenticateMessage
  <2> HIDE DEF j
  <2>3. send(p, j) = u
    <3>1. Len(p.out[p.socket]) = 0  OBVIOUS
    <3>2. ~(Len(p.out[p.socket]) > Backlog)  BY <3>1, WebClientAssumption
    <3> QED  BY <1>1, <3>2 DEF send, Sent
  <2>4. onmessage(p, a, m) = q  BY <2>2, <2>3
  <2>5. /\ u \in PageState
        /\ u.generation = p.generation /\ u.socket = p.socket /\ u.status = p.status
        /\ u.room = p.room /\ u.snapshot = p.snapshot /\ u.switching = p.switching
        /\ u.armed = p.armed /\ u.ticking = p.ticking
        /\ u.openingTimer = p.openingTimer /\ u.timer = p.timer /\ u.ready = p.ready
        /\ u.out[a] = Append(<<>>, j)
        /\ \A b \in Attempts : b # a => u.out[b] = p.out[b]
    <3>1. p.socket \in Attempts  OBVIOUS
    <3>2. /\ u \in PageState
          /\ u.generation = p.generation /\ u.socket = p.socket /\ u.status = p.status
          /\ u.room = p.room /\ u.snapshot = p.snapshot /\ u.switching = p.switching
          /\ u.armed = p.armed /\ u.ticking = p.ticking
          /\ u.openingTimer = p.openingTimer /\ u.timer = p.timer /\ u.ready = p.ready
          /\ u.out[p.socket] = Append(p.out[p.socket], j)
          /\ \A b \in Attempts : b # p.socket => u.out[b] = p.out[b]
      BY <1>1, <2>1, <3>1, SentFields
    <3> HIDE DEF u
    <3> QED  BY <3>2
  <2> HIDE DEF u
  <2>6. /\ q \in PageState /\ q.timer = a /\ q.ticking = {a}
        /\ q.generation = p.generation /\ q.socket = a /\ q.status = p.status
        /\ q.room = p.room /\ q.snapshot = p.snapshot /\ q.switching = p.switching
        /\ q.armed = p.armed /\ q.openingTimer = p.openingTimer /\ q.ready = p.ready
        /\ q.out = u.out
    BY <2>5 DEF PageState, MaybeAttempt
  <2> HIDE DEF q
  <2>7. q.out[a] = <<j>>  BY <2>1, <2>5, <2>6
  <2>8. Sound(q, F, in, srv)
    <3>1. PageTypeOK(q, F, in, srv)  BY <2>6 DEF Sound, PageTypeOK
    <3>2. Loose(q)  BY <2>6 DEF Sound, Loose
    <3>3. Sockets(q)  BY <1>1, <1>2, <2>6 DEF Sound, Sockets
    <3>4. Fetches(q, F)  BY <2>6 DEF Sound, Fetches
    <3>5. Unopened(q, in, srv)  BY <2>5, <2>6 DEF Sound, Unopened
    <3> QED  BY <3>1, <3>2, <3>3, <3>4, <3>5 DEF Sound
  <2>9. Authenticated(q, in, srv, a)
    <3>1. NoType(q.out[a], "authenticate")
      <4>1. Len(<<j>>) = 1 /\ <<j>>[1] = j  BY <2>1
      <4>2. \A i \in 1..1 : i = 1  OBVIOUS
      <4> QED  BY <2>1, <2>7, <4>1, <4>2 DEF NoType
    <3>2. \A t : NoType(<<>>, t)
      <4>1. 1..Len(<<>>) = {}  OBVIOUS
      <4> QED  BY <4>1 DEF NoType
    <3>3. RoomFollows(q, in, srv, a)  BY <1>2, <2>6, <3>2 DEF RoomFollows, Follows
    <3> QED  BY <1>2, <2>6, <3>1, <3>2, <3>3 DEF Authenticated
  <2>10. Talk(q, in, srv, a)  BY <2>6, <2>9 DEF Talk
  <2> QED  BY <2>4, <2>6, <2>8, <2>10, SoundGood
<1>4. CASE m = Error("authenticate", "unauthorized")
  <2> DEFINE q == [p EXCEPT !.switching = FALSE]
  <2>1. onmessage(p, a, m) = disconnect(q)
    BY <1>4 DEF onmessage, onError, Error
  <2>2. q = p  BY <1>1, <1>2 DEF PageState
  <2>3. Good(disconnect(p), F, in, srv)  BY DisconnectGood DEF Sound
  <2> HIDE DEF q
  <2> QED  BY <2>1, <2>2, <2>3
<1> QED  BY <1>3, <1>4

\* onmessage, on the page's socket or a later message on another.
LEMMA KeptByReceived ==
    ASSUME PageInv, NEW a \in Attempts, Received(a) PROVE PageInv'
<1> DEFINE m == Head(inbox[a])
<1>1. /\ PageTypeOK(page, fetching, inbox, served)
      /\ page.ready[a] \in {"open", "closing"} /\ inbox[a] # <<>>
      /\ inbox' = [inbox EXCEPT ![a] = Tail(inbox[a])]
      /\ fetching' = fetching /\ served' = served
  BY DEF PageInv, Good, Received
<1>2. CASE page' = page /\ page.ready[a] = "closing"  BY <1>1, <1>2, LateMessage
<1>3. CASE page' = page /\ a # page.generation /\ page.ready[a] = "open"
  BY <1>3, OpenIsCurrent
<1>4. CASE page' = onmessage(page, a, m) /\ a = page.generation
  <2>1. page.ready[a] = "open"  BY <1>1, <1>4 DEF PageInv, Good, Sockets
  <2>2. a = page.socket /\ a # None  BY <2>1, OpenIsCurrent
  <2>3. inbox[a] \in Seq(Reply)  BY <1>1 DEF PageTypeOK
  <2>4. Tail(inbox[a]) \in Seq(Reply) /\ m \in Reply  BY <1>1, <2>3
  <2>5. /\ inbox' \in [Attempts -> Seq(Reply)] /\ inbox'[a] = Tail(inbox[a])
        /\ \A b \in Attempts : b # a => inbox'[b] = inbox[b]
    BY <1>1, <2>4 DEF PageTypeOK
  <2>6. Sound(page, fetching, inbox, served)  BY DEF PageInv, Good, Sound
  <2>7. Sound(page, fetching, inbox', served)  BY <2>1, <2>5, <2>6, OtherMessages
  <2>8. Talk(page, inbox, served, a)  BY <2>1 DEF PageInv, Good, Conversation
  <2>9. CASE a \in page.ticking
    <3>1. Authenticated(page, inbox, served, a) /\ page.ticking # {}  BY <2>8, <2>9 DEF Talk
    <3>2. NoType(inbox'[a], "authenticate") /\ m.type # "authenticate"
      BY <1>1, <2>3, <2>5, <3>1, TailFollows DEF Authenticated
    <3>3. SomeJoin(inbox[a]) /\ ~isJoin(m) => SomeJoin(inbox'[a])
      BY <1>1, <2>3, <2>5, TailFollows
    <3>4. Follows(IF m.type = "join" THEN m.room ELSE page.room, inbox'[a], served[a].room)
      BY <1>1, <2>3, <2>5, <3>1, TailFollows DEF Authenticated, RoomFollows
    <3> HIDE DEF m
    <3>5. page.switching /\ ~isJoin(m) => SomeJoin(page.out[a]) \/ SomeJoin(inbox'[a])
      BY <3>1, <3>3 DEF Authenticated
    <3>6. NoType(page.out[a], "authenticate")  BY <3>1 DEF Authenticated
    <3>7. Good(onmessage(page, page.socket, m), fetching, inbox', served)
      BY <2>2, <2>4, <2>7, <3>1, <3>2, <3>4, <3>5, <3>6, HandlerGood
    <3> QED  BY <1>1, <1>4, <2>2, <3>7, GoodNext
  <2>10. CASE a \notin page.ticking
    <3>1. page.ticking = {}  BY <1>4, <2>10 DEF PageInv, Good, Sockets
    <3>2. /\ page.out[a] = <<>> /\ served[a].room = NoArena
          /\ inbox[a] \in {<<AuthenticateMessage>>, <<Error("authenticate", "unauthorized")>>}
      BY <1>1, <2>8, <2>10 DEF Talk, Authenticating
    <3>3. m \in {AuthenticateMessage, Error("authenticate", "unauthorized")} /\ inbox'[a] = <<>>
      <4>1. \A x : Head(<<x>>) = x /\ Tail(<<x>>) = <<>>  OBVIOUS
      <4> QED  BY <2>5, <3>2, <4>1
    <3> HIDE DEF m
    <3>4. Good(onmessage(page, a, m), fetching, inbox', served)
      BY <2>1, <2>2, <2>7, <3>1, <3>2, <3>3, AuthenticationAnswered
    <3> QED  BY <1>1, <1>4, <3>4, GoodNext
  <2> QED  BY <2>9, <2>10
<1> QED  BY <1>1, <1>2, <1>3, <1>4 DEF Received, current

\* What the server may answer to a request.
LEMMA Answers ==
    ASSUME NEW a \in Attempts, served[a] \in Served, NEW m \in Request, NEW x \in results(a, m)
    PROVE  /\ x[1] \in Served
           /\ \/ x[1].room = served[a].room /\ x[2] = <<Error(m.type, "unauthorized")>>
              \/ /\ m.type = "authenticate" /\ x[1].room = served[a].room
                 /\ x[2] = <<AuthenticateMessage>>
              \/ /\ m.type = "join" /\ x[1].room = m.room
                 /\ x[2] = <<JoinMessage(m.room), Snapshot(m.room)>>
              \/ /\ m.type = "join" /\ x[1].room = served[a].room
                 /\ x[2] = <<Error("join", "room_full")>>
              \/ /\ m.type \notin {"authenticate", "join"} /\ x[1].room = served[a].room
                 /\ x[2] = <<>>
<1>1. \/ x = <<served[a], <<Error(m.type, "unauthorized")>> >>
      \/ m.type = "authenticate" /\ x = <<[served[a] EXCEPT !.auth = TRUE], <<AuthenticateMessage>> >>
      \/ /\ m.type = "join"
         /\ x = <<[served[a] EXCEPT !.room = m.room], <<JoinMessage(m.room), Snapshot(m.room)>> >>
      \/ m.type = "join" /\ x = <<served[a], <<Error("join", "room_full")>> >>
      \/ m.type \notin {"authenticate", "join"} /\ x = <<served[a], <<>> >>
  BY DEF results, refused, admitted, joined, full, Served
<1>2. /\ [served[a] EXCEPT !.auth = TRUE] \in Served
      /\ [served[a] EXCEPT !.auth = TRUE].room = served[a].room
  BY DEF Served
<1>3. /\ [served[a] EXCEPT !.room = m.room] \in Served
      /\ [served[a] EXCEPT !.room = m.room].room = m.room
  BY DEF Served, Request
<1>4. \A u, v : x = <<u, v>> => x[1] = u /\ x[2] = v  OBVIOUS
<1> HIDE DEF Error, AuthenticateMessage, JoinMessage, Snapshot, Served
<1>5. CASE x = <<served[a], <<Error(m.type, "unauthorized")>> >>  BY <1>4, <1>5
<1>6. CASE m.type = "authenticate" /\ x = <<[served[a] EXCEPT !.auth = TRUE], <<AuthenticateMessage>> >>
  BY <1>2, <1>4, <1>6
<1>7. CASE /\ m.type = "join"
           /\ x = <<[served[a] EXCEPT !.room = m.room], <<JoinMessage(m.room), Snapshot(m.room)>> >>
  BY <1>3, <1>4, <1>7
<1>8. CASE m.type = "join" /\ x = <<served[a], <<Error("join", "room_full")>> >>  BY <1>4, <1>8
<1>9. CASE m.type \notin {"authenticate", "join"} /\ x = <<served[a], <<>> >>  BY <1>4, <1>9
<1> QED  BY <1>1, <1>5, <1>6, <1>7, <1>8, <1>9

\* Answers have the type of replies, and only the first one is to the request for
\* authentication.
LEMMA AnswerTypes ==
    ASSUME NEW m \in Request
    PROVE  /\ Error(m.type, "unauthorized") \in Reply /\ Error(m.type, "unauthorized").type = "error"
           /\ Error("join", "room_full") \in Reply /\ Error("join", "room_full").type = "error"
           /\ JoinMessage(m.room) \in Reply /\ Snapshot(m.room) \in Reply /\ AuthenticateMessage \in Reply
           /\ JoinMessage(m.room).type = "join" /\ JoinMessage(m.room).room = m.room
           /\ Snapshot(m.room).type = "snapshot"
           /\ isJoin(JoinMessage(m.room)) /\ isJoin(Error("join", "room_full"))
           /\ m.type = "join" => isJoin(Error(m.type, "unauthorized"))
BY DEF Request, RequestTypes, Reply, Error, JoinMessage, Snapshot, AuthenticateMessage,
       MaybeRoom, isJoin

\* A request is handled.
LEMMA KeptByHandled == ASSUME PageInv, NEW a \in Attempts, Handled(a) PROVE PageInv'
<1> DEFINE m == Head(page.out[a])
           o == [page.out EXCEPT ![a] = Tail(page.out[a])]
           q == [page EXCEPT !.out = o]
<1>1. PageTypeOK(page, fetching, inbox, served) /\ page.out[a] # <<>>
  BY DEF PageInv, Good, Handled
<1>2. /\ page \in PageState /\ page.out[a] \in Seq(Request) /\ page.out \in [Attempts -> Seq(Request)]
      /\ inbox[a] \in Seq(Reply) /\ served[a] \in Served
  BY <1>1 DEF PageTypeOK, PageState
<1>3. m \in Request /\ Tail(page.out[a]) \in Seq(Request)  BY <1>1, <1>2
<1>4. page.ready[a] \notin {"none", "opening"}
  BY DEF PageInv, Good, Unopened, NotServed, Handled
<1>5. PICK x \in results(a, m) : /\ served' = [served EXCEPT ![a] = x[1]]
                                 /\ inbox' = [inbox EXCEPT ![a] = inbox[a] \o x[2]]
  BY DEF Handled
<1>6. page' = q /\ fetching' = fetching  BY DEF Handled
<1>7. /\ o \in [Attempts -> Seq(Request)] /\ o[a] = Tail(page.out[a])
      /\ \A b \in Attempts : b # a => o[b] = page.out[b]
  BY <1>2, <1>3
<1> HIDE DEF m, o
<1>8. /\ q \in PageState /\ q.out = o /\ q.snapshot = page.snapshot /\ q.status = page.status
      /\ q.room = page.room /\ q.switching = page.switching /\ q.armed = page.armed
      /\ q.generation = page.generation /\ q.socket = page.socket
      /\ q.ticking = page.ticking /\ q.timer = page.timer /\ q.openingTimer = page.openingTimer
      /\ q.ready = page.ready
  BY <1>2, <1>7 DEF PageState
<1> HIDE DEF q
<1>9. /\ x[1] \in Served
      /\ \/ x[1].room = served[a].room /\ x[2] = <<Error(m.type, "unauthorized")>>
         \/ /\ m.type = "authenticate" /\ x[1].room = served[a].room
            /\ x[2] = <<AuthenticateMessage>>
         \/ /\ m.type = "join" /\ x[1].room = m.room
            /\ x[2] = <<JoinMessage(m.room), Snapshot(m.room)>>
         \/ /\ m.type = "join" /\ x[1].room = served[a].room
            /\ x[2] = <<Error("join", "room_full")>>
         \/ /\ m.type \notin {"authenticate", "join"} /\ x[1].room = served[a].room
            /\ x[2] = <<>>
  BY <1>2, <1>3, Answers
<1>10. /\ served' \in [Attempts -> Served] /\ served'[a] = x[1]
       /\ \A b \in Attempts : b # a => served'[b] = served[b]
  BY <1>1, <1>5, <1>9 DEF PageTypeOK
<1>11. x[2] \in Seq(Reply)
  <2>1. /\ Error(m.type, "unauthorized") \in Reply /\ Error("join", "room_full") \in Reply
        /\ JoinMessage(m.room) \in Reply /\ Snapshot(m.room) \in Reply /\ AuthenticateMessage \in Reply
    BY <1>3, AnswerTypes
  <2>2. <<>> \in Seq(Reply) /\ \A u, v \in Reply : <<u>> \in Seq(Reply) /\ <<u, v>> \in Seq(Reply)
    OBVIOUS
  <2>3. \/ x[2] = <<>> \/ x[2] = <<JoinMessage(m.room), Snapshot(m.room)>>
        \/ \E u \in Reply : x[2] = <<u>>
    BY <1>9, <2>1
  <2> QED  BY <2>1, <2>2, <2>3
<1>12. /\ inbox' \in [Attempts -> Seq(Reply)] /\ inbox'[a] = inbox[a] \o x[2]
       /\ \A b \in Attempts : b # a => inbox'[b] = inbox[b]
  <2>1. inbox[a] \o x[2] \in Seq(Reply)  BY <1>2, <1>11
  <2> QED  BY <1>1, <1>5, <2>1 DEF PageTypeOK
<1>13. Sound(q, fetching, inbox', served')
  <2>1. PageTypeOK(q, fetching, inbox', served')  BY <1>1, <1>8, <1>10, <1>12 DEF PageTypeOK
  <2>2. Loose(q) /\ Sockets(q) /\ Fetches(q, fetching)
    BY <1>8 DEF PageInv, Good, Loose, Sockets, Fetches
  <2>3. Unopened(q, inbox', served')
    BY <1>4, <1>7, <1>8, <1>10, <1>12 DEF PageInv, Good, Unopened
  <2> QED  BY <2>1, <2>2, <2>3 DEF Sound
<1>14. ASSUME NEW b \in Attempts, b # a, q.ready[b] = "open"
       PROVE  Talk(q, inbox', served', b)
  <2>1. Talk(page, inbox, served, b)  BY <1>8, <1>14 DEF PageInv, Good, Conversation
  <2> QED  BY <1>7, <1>8, <1>10, <1>12, <1>14, <2>1
           DEF Talk, Authenticated, Authenticating, RoomFollows
<1>15. ASSUME q.ready[a] = "open", a \notin page.ticking PROVE Authenticating(q, inbox', served', a)
  <2>1. Authenticating(page, inbox, served, a)
    BY <1>8, <1>15 DEF PageInv, Good, Conversation, Talk
  <2>2. served[a].room = NoArena /\ page.out[a] = <<AuthenticateMessage>> /\ inbox[a] = <<>>
    BY <1>1, <2>1 DEF Authenticating
  <2>3. m = AuthenticateMessage /\ o[a] = <<>>  BY <1>7, <2>2 DEF m
  <2>4. m.type = "authenticate"  BY <2>3 DEF AuthenticateMessage
  <2>5. inbox'[a] = x[2]  BY <1>11, <1>12, <2>2
  <2>6. x[1].room = NoArena /\ x[2] \in {<<AuthenticateMessage>>, <<Error("authenticate", "unauthorized")>>}
    BY <1>9, <2>2, <2>4
  <2> QED  BY <1>8, <1>10, <2>3, <2>5, <2>6 DEF Authenticating
<1>16. ASSUME q.ready[a] = "open", a \in page.ticking PROVE Authenticated(q, inbox', served', a)
  <2>1. Authenticated(page, inbox, served, a)
    BY <1>8, <1>16 DEF PageInv, Good, Conversation, Talk
  <2>2. /\ NoType(o[a], "authenticate") /\ m.type # "authenticate"
        /\ SomeJoin(page.out[a]) /\ ~isJoin(m) => SomeJoin(o[a])
    BY <1>1, <1>2, <1>7, <2>1, TailFollows DEF Authenticated, m
  <2>3. isJoin(m) <=> m.type = "join"  BY <1>3 DEF isJoin, Request, RequestTypes
  <2> DEFINE s == inbox[a]
  <2>4. /\ NoType(s, "authenticate") /\ Follows(page.room, s, served[a].room)
        /\ page.switching => SomeJoin(page.out[a]) \/ SomeJoin(s)
    BY <2>1 DEF Authenticated, RoomFollows
  <2>5. ASSUME NEW e \in Reply, e.type = "error", x[2] = <<e>>, x[1].room = served[a].room,
               m.type = "join" => isJoin(e)
        PROVE  Authenticated(q, inbox', served', a)
    <3>1. inbox'[a] = Append(s, e)  BY <1>2, <1>12, <2>5, Concatenated
    <3>2. Follows(page.room, Append(s, e), served[a].room)  BY <1>2, <2>4, <2>5, AppendFollows
    <3>3. /\ NoType(Append(s, e), "authenticate")
          /\ SomeJoin(s) \/ isJoin(e) => SomeJoin(Append(s, e))
      BY <1>2, <2>4, <2>5, Appended
    <3> QED  BY <1>8, <1>10, <2>2, <2>3, <2>4, <2>5, <3>1, <3>2, <3>3 DEF Authenticated, RoomFollows
  <2>6. CASE x[1].room = served[a].room /\ x[2] = <<Error(m.type, "unauthorized")>>
    BY <1>3, <2>5, <2>6, AnswerTypes
  <2>7. CASE /\ m.type = "join" /\ x[1].room = served[a].room
             /\ x[2] = <<Error("join", "room_full")>>
    BY <1>3, <2>5, <2>7, AnswerTypes
  <2>8. CASE /\ m.type = "join" /\ x[1].room = m.room
             /\ x[2] = <<JoinMessage(m.room), Snapshot(m.room)>>
    <3> DEFINE j == JoinMessage(m.room)
               k == Snapshot(m.room)
    <3>1. /\ j \in Reply /\ k \in Reply /\ j.type = "join" /\ j.room = m.room /\ k.type = "snapshot"
          /\ isJoin(j)
      BY <1>3, AnswerTypes
    <3> HIDE DEF j, k
    <3>2. inbox'[a] = Append(Append(s, j), k)  BY <1>2, <1>12, <2>8, <3>1, Concatenated DEF j, k
    <3>3. Append(s, j) \in Seq(Reply)  BY <1>2, <3>1
    <3>4. /\ NoType(Append(s, j), "authenticate") /\ SomeJoin(Append(s, j))
          /\ Follows(page.room, Append(s, j), m.room)
      BY <1>2, <2>4, <3>1, Appended, AppendFollows
    <3>5. /\ NoType(Append(Append(s, j), k), "authenticate") /\ SomeJoin(Append(Append(s, j), k))
          /\ Follows(page.room, Append(Append(s, j), k), m.room)
      BY <3>1, <3>3, <3>4, Appended, AppendFollows
    <3> QED  BY <1>8, <1>10, <2>2, <2>8, <3>2, <3>5 DEF Authenticated, RoomFollows
  <2>9. CASE /\ m.type \notin {"authenticate", "join"} /\ x[1].room = served[a].room
             /\ x[2] = <<>>
    <3>1. inbox'[a] = s  BY <1>2, <1>12, <2>9
    <3> QED  BY <1>8, <1>10, <2>2, <2>3, <2>4, <2>9, <3>1 DEF Authenticated, RoomFollows
  <2> QED  BY <1>9, <2>2, <2>6, <2>7, <2>8, <2>9
<1>17. Conversation(q, inbox', served')
  BY <1>8, <1>14, <1>15, <1>16 DEF Conversation, Talk
<1> QED  BY <1>6, <1>13, <1>17, GoodNext DEF Good, Sound

-----------------------------------------------------------------------------
\* Every step of the page, the network and the server keeps the invariant.
LEMMA PageInductive ==
    PageInv /\ [PageNext]_pageVars => PageInv'
<1> SUFFICES ASSUME PageInv, [PageNext]_pageVars PROVE PageInv'  OBVIOUS
<1>1. CASE UNCHANGED pageVars
  <2>1. page' = page /\ fetching' = fetching /\ inbox' = inbox /\ served' = served
    BY <1>1 DEF pageVars
  <2> QED  BY <2>1, GoodNext DEF PageInv
<1>2. CASE Disconnect \/ Move \/ \E r \in Arenas : SwitchRoom(r)  BY <1>2, KeptByUser
<1>3. ASSUME NEW r \in Arenas, Connect(r) PROVE PageInv'  BY <1>3, KeptByConnect
<1>4. ASSUME NEW a \in Attempts, Fetched(a) \/ Opened(a) \/ Received(a) \/ Closed(a) PROVE PageInv'
  BY <1>4, KeptByFetched, KeptByOpened, KeptByReceived, KeptByClosed
<1>5. ASSUME NEW a \in Attempts, OpeningTimeout(a) \/ Beat(a) PROVE PageInv'
  BY <1>5, KeptByTimeout, KeptByBeat
<1>6. ASSUME NEW a \in Attempts, Handled(a) \/ Broadcast(a) \/ Dropped(a) PROVE PageInv'
  BY <1>6, KeptByHandled, KeptByBroadcast, KeptByDropped
<1> QED  BY <1>1, <1>2, <1>3, <1>4, <1>5, <1>6 DEF PageNext

\* The invariant of the page, however callbacks of attempts overlap and whatever
\* the server answers.
THEOREM PageInvariant ==
    PageSpec => []PageInv
<1>1. PageInit => PageInv  BY PageStart
<1>2. PageInv /\ [PageNext]_pageVars => PageInv'  BY PageInductive
<1> QED  BY <1>1, <1>2, PTL DEF PageSpec

\* There is at most one connection, of the page's present attempt.
THEOREM PageSingleConnection ==
    PageSpec => []SingleConnection
<1>1. PageInv => SingleConnection
  <2> SUFFICES ASSUME PageInv PROVE SingleConnection  OBVIOUS
  <2>1. page.status = "offline" => page.ticking = {}
    BY DEF PageInv, Good, Sockets
  <2> QED  BY <2>1 DEF PageInv, Good, Loose, Sockets, SingleConnection, current
<1> QED  BY <1>1, PageInvariant, PTL

\* What the page shows is the present state, and a blocking join is answered.
THEOREM PageViewAgrees ==
    PageSpec => []ViewAgrees
<1>1. PageInv => ViewAgrees
  <2> SUFFICES ASSUME PageInv PROVE ViewAgrees  OBVIOUS
  <2>1. \A s \in page.snapshot : s.room = page.room /\ current(s.of)
    BY DEF PageInv, Good, Sockets, current
  <2> DEFINE a == page.socket
             o == page.out[a]
             s == inbox[a]
             u == o \o s
  <2>2. ASSUME a # None, page.status = "online"
        PROVE  /\ underWay(a) \/ page.room = served[a].room
               /\ page.switching => \E i \in DOMAIN u : isJoin(u[i])
    <3>1. page.ticking # {}  BY <2>2 DEF PageInv, Good, Sockets
    <3>2. Sound(page, fetching, inbox, served) /\ Authenticated(page, inbox, served, a)
      BY <3>1, TickingTalk DEF PageInv
    <3>3. a \in Attempts  BY <3>1, <3>2, Ticking
    <3>4. o \in Seq(Request) /\ s \in Seq(Reply)
      BY <3>2, <3>3 DEF Sound, PageTypeOK, PageState
    <3>5. ~underWay(a) => page.room = served[a].room
      <4>1. s = <<>> => ~\E i \in 1..Len(s) : TRUE  OBVIOUS
      <4> QED  BY <3>2, <4>1 DEF underWay, Authenticated, RoomFollows, Follows
    <3> HIDE DEF a, o, s
    <3>6. /\ DOMAIN u = 1..(Len(o) + Len(s)) /\ Len(o) \in Nat /\ Len(s) \in Nat
          /\ \A i \in 1..Len(o) : u[i] = o[i]
          /\ \A i \in 1..Len(s) : u[Len(o) + i] = s[i]
      BY <3>4
    <3>7. /\ \A i \in 1..Len(o) : i \in 1..(Len(o) + Len(s))
          /\ \A i \in 1..Len(s) : Len(o) + i \in 1..(Len(o) + Len(s))
      BY <3>6
    <3> HIDE DEF u
    <3>8. SomeJoin(o) \/ SomeJoin(s) => \E i \in DOMAIN u : isJoin(u[i])
      BY <3>6, <3>7 DEF SomeJoin
    <3>9. page.switching => SomeJoin(o) \/ SomeJoin(s)  BY <3>2 DEF Authenticated, o, s
    <3> QED  BY <3>5, <3>8, <3>9
  <2> QED  BY <2>1, <2>2 DEF ViewAgrees
<1> QED  BY <1>1, PageInvariant, PTL

=============================================================================
