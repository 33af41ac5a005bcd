------------------------------- MODULE Arena -------------------------------
(***************************************************************************)
(* The game world of the web example, examples/webgame/server/world.go:    *)
(* guests, connections, two arenas with a room and an area-of-interest     *)
(* grid each, and the fixed step that moves players and lets them collect  *)
(* crystals.                                                               *)
(*                                                                         *)
(* Every operation holds the lock of the world from its first to its last  *)
(* statement and is one action.  Connection.Stop, called by many of them,  *)
(* only begins to end a connection: its stop hook follows later.           *)
(*                                                                         *)
(* Time is counted in units of many ticks; coordinates are whole numbers.  *)
(* A guest is named by the number of his player.  Sessions are those of    *)
(* SessionManager with RejectExisting and accounts that are always new.    *)
(***************************************************************************)
EXTENDS AOI, FiniteSets, FiniteSetsExt

CONSTANTS
    Conns,              \* connection ids
    MaxPlayers,         \* arena id -> the capacity of its room
    Crystals,           \* crystal id -> position, the same in every arena
    Spawn,              \* where a player enters an arena
    Margin, Speed, Reach,           \* border, way per tick, collecting distance
    Directions,                     \* directions that clients send
    AuthTime, InputTime, RespawnTime, TTL,
    Capacity,           \* sessions that Guest allows
    TickPeriod,         \* the tick counter is kept modulo this
    MaxGuests, MaxSeq, MaxTime      \* bounds

ASSUME ArenaAssumption ==
    /\ IsFiniteSet(Conns) /\ Conns \subseteq Nat
    /\ DOMAIN MaxPlayers \subseteq Nat \ {0}
    /\ \A r \in DOMAIN MaxPlayers : MaxPlayers[r] \in Nat \ {0}
    /\ Spawn \in Int \X Int /\ inWorld(Spawn)
    /\ IsFiniteSet(DOMAIN Crystals) /\ \A k \in DOMAIN Crystals : inWorld(Crystals[k])
    /\ Margin \in Nat \ {0} /\ 2 * Margin <= WorldWidth /\ 2 * Margin <= WorldHeight
    /\ Directions \subseteq Int \X Int /\ Speed \in Nat
    /\ InputTime \in Nat /\ RespawnTime \in Nat \ {0} /\ TTL \in Nat \ {0}
    /\ TickPeriod \in Nat /\ TickPeriod >= 2 /\ \A n \in 1..Cardinality(Conns) : TickPeriod % n = 0
    /\ MaxSeq \in Nat

R == INSTANCE Room

VARIABLES
    sessions,       \* guest -> expiry and the connections bound to it
    names,          \* guests whose name is stored
    nextGuest,
    players,        \* connection -> player
    arenas,         \* room id -> room, grid and respawn times
    tick, closed,
    hooks, stopped, \* how far the hooks of a connection are; Stop was called
    now

vars == <<sessions, names, nextGuest, players, arenas, tick, closed, hooks, stopped, now>>

-----------------------------------------------------------------------------
Rooms == DOMAIN MaxPlayers
NoRoom == 0
NoName == 0
Still == <<0, 0>>
\* The zero time: longer ago than any input counts.
LongAgo == 0 - InputTime - 1

NewPlayer == [name |-> NoName, room |-> NoRoom, pos |-> Still, dir |-> Still, seq |-> 0,
              score |-> 0, inputAt |-> LongAgo, connectedAt |-> now]

Init ==
    /\ sessions = Empty /\ names = {} /\ nextGuest = 0
    /\ players = Empty
    /\ arenas = [r \in Rooms |-> [room |-> R!NewRoom(MaxPlayers[r]), aoi |-> EmptyGrid,
                                  respawn |-> Empty]]
    /\ tick = 0 /\ closed = FALSE
    /\ hooks = [c \in Conns |-> "before"] /\ stopped = {}
    /\ now = 0

expired(g) == now >= sessions[g].expires
bound(c) == {g \in DOMAIN sessions : c \in sessions[g].conns}
authenticated(c) == \E g \in bound(c) : ~expired(g)

\* leave for players S: they are in no arena any more and stand still; their
\* places and scores stay.  The part of the state it changes, afterwards:
outside(S) ==
    [c \in DOMAIN players |->
        IF c \in S THEN [players[c] EXCEPT !.room = NoRoom, !.dir = Still] ELSE players[c]]
leaveRoom(room, S) == FoldSet(LAMBDA c, rest : R!Left(rest, c), room, S)
leaveGrid(aoi, S) == FoldSet(LAMBDA c, rest : RemoveEntity(rest, c), aoi, S)
leaveKeepsEntity(S) ==              \* mutant: the grid keeps the players
    [players |-> outside(S),
     arenas |-> [r \in Rooms |->
         [arenas[r] EXCEPT !.room = leaveRoom(@, {c \in S : players[c].room = r})]],
     stopped |-> stopped]
leave(S) ==
    LET of(r) == {c \in S : players[c].room = r} IN
    [players |-> outside(S),
     arenas |-> [r \in Rooms |->
         [room |-> leaveRoom(arenas[r].room, of(r)), aoi |-> leaveGrid(arenas[r].aoi, of(r)),
          respawn |-> arenas[r].respawn]],
     stopped |-> stopped]

Becomes(w) == players' = w.players /\ arenas' = w.arenas /\ stopped' = w.stopped

-----------------------------------------------------------------------------
\* An HTTP request for a guest: a new player with a session for TTL.
Guest ==
    /\ ~closed /\ Cardinality(DOMAIN sessions) < Capacity
    /\ nextGuest < MaxGuests        \* bound
    /\ nextGuest' = nextGuest + 1
    /\ sessions' = Put(sessions, nextGuest', [expires |-> now + TTL, conns |-> {}])
    /\ names' = names \cup {nextGuest'}
    /\ UNCHANGED <<players, arenas, tick, closed, hooks, stopped, now>>

\* The start hook; a closed world stops the connection.
Connected(c) ==
    /\ hooks[c] = "before"
    /\ hooks' = [hooks EXCEPT ![c] = "started"]
    /\ \/ closed /\ stopped' = stopped \cup {c} /\ UNCHANGED players
       \/ ~closed /\ players' = Put(players, c, NewPlayer) /\ UNCHANGED stopped
    /\ UNCHANGED <<sessions, names, nextGuest, arenas, tick, closed, now>>

\* The stop hook: the player leaves, and his session and his name go.
Disconnected(c) ==
    /\ hooks[c] = "started" /\ c \in stopped
    /\ hooks' = [hooks EXCEPT ![c] = "ended"]
    /\ LET w == leave(DOMAIN players \cap {c}) IN
       Becomes([w EXCEPT !.players = Delete(@, {c})])
    /\ sessions' = Delete(sessions, bound(c))
    /\ names' = names \ bound(c)
    /\ UNCHANGED <<nextGuest, tick, closed, now>>

\* The peer is lost, or a message for it is refused by its full buffer.
Lost(c) ==
    /\ hooks[c] = "started" /\ c \notin stopped
    /\ stopped' = stopped \cup {c}
    /\ UNCHANGED <<sessions, names, nextGuest, players, arenas, tick, closed, hooks, now>>

-----------------------------------------------------------------------------
(***************************************************************************)
(* handle: requests of a player the world knows.  They are executed after  *)
(* the connection has been stopped too, until its stop hook has run.       *)
(***************************************************************************)
request(c) == c \in DOMAIN players /\ ~closed

\* Bind refuses a token whose session is over, expired or bound to another
\* connection, and a connection that another session is bound to.
mayBind(g, c) ==
    /\ g \in DOMAIN sessions /\ ~expired(g)
    /\ sessions[g].conns \subseteq {c} /\ bound(c) \subseteq {g}
Authenticate(c, g) ==
    /\ request(c) /\ mayBind(g, c)
    /\ sessions' = [sessions EXCEPT ![g].conns = {c}]
    /\ players' = [players EXCEPT ![c].name = IF g \in names THEN g ELSE NoName]
    /\ UNCHANGED <<names, nextGuest, arenas, tick, closed, hooks, stopped, now>>

\* Join another arena: its room, which may be full, then out of the old arena
\* and to the spawn point of the new one with a score of zero.
Join(c, r) ==
    /\ request(c) /\ authenticated(c)
    /\ players[c].room # r /\ R!mayJoin(arenas[r].room, c)
    /\ LET w == leave({c}) IN
       Becomes([players |-> [w.players EXCEPT ![c].room = r, ![c].pos = Spawn, ![c].score = 0],
                arenas |-> [w.arenas EXCEPT ![r] =
                    [room |-> R!Joined(@.room, c), aoi |-> AddEntity(@.aoi, c, Spawn),
                     respawn |-> @.respawn]],
                stopped |-> w.stopped])
    /\ UNCHANGED <<sessions, names, nextGuest, tick, closed, hooks, now>>

\* An input counts if its direction is valid and its number new.
Input(c, d, n) ==
    /\ request(c) /\ authenticated(c)
    /\ players[c].room # NoRoom /\ n > players[c].seq
    /\ players' = [players EXCEPT ![c].dir = d, ![c].seq = n, ![c].inputAt = now]
    /\ UNCHANGED <<sessions, names, nextGuest, arenas, tick, closed, hooks, stopped, now>>

Leave(c) ==
    /\ request(c) /\ authenticated(c)
    /\ Becomes(leave({c}))
    /\ UNCHANGED <<sessions, names, nextGuest, tick, closed, hooks, now>>

-----------------------------------------------------------------------------
(***************************************************************************)
(* step.                                                                   *)
(***************************************************************************)
within(x, high) == IF x < Margin THEN Margin ELSE IF x > high - Margin THEN high - Margin ELSE x
\* The place of a player after the tick: without recent input he stands still.
moved(p) ==
    IF now - p.inputAt > InputTime THEN p.pos
    ELSE <<within(p.pos[1] + p.dir[1] * Speed, WorldWidth),
           within(p.pos[2] + p.dir[2] * Speed, WorldHeight)>>

\* The crystals that a player could collect: in reach and not hidden.
inReach(pos, k) ==
    LET q == Crystals[k] IN
    (pos[1] - q[1]) * (pos[1] - q[1]) + (pos[2] - q[2]) * (pos[2] - q[2]) <= Reach * Reach
reached(p) == {k \in DOMAIN Crystals \ DOMAIN arenas[p.room].respawn : inReach(moved(p), k)}

\* The players take their turns in the order of their connection ids, rotated by
\* the tick.
turn(c) == (Cardinality({d \in DOMAIN players : d < c}) - tick - 1) % Cardinality(DOMAIN players)

\* What a player of those in an arena, I, collects: what was not collected by
\* another one of the arena before his turn.
collectedAgain(I, c) == reached(players[c])         \* mutant: all who reach it
collected(I, c) ==
    reached(players[c]) \ UNION {reached(players[d]) :
        d \in {d \in I : players[d].room = players[c].room /\ turn(d) < turn(c)}}

\* A connection that is not authenticated in time is stopped.
neverLate(p) == FALSE                               \* mutant
late(p) == p.name = NoName /\ now - p.connectedAt > AuthTime

\* MoveEntity for the players S.
moveAll(aoi, S) == FoldSet(LAMBDA c, rest : MoveEntity(rest, c, moved(players[c])), aoi, S)

\* One step for the players I in an arena: they move and collect, and hidden
\* crystals whose time has come are shown again.
stepped(w, I) ==
    [players |-> [c \in DOMAIN players |->
        IF c \in I THEN [w.players[c] EXCEPT !.pos = moved(players[c]),
                                             !.score = @ + Cardinality(collected(I, c))]
        ELSE w.players[c]],
     arenas |-> [r \in Rooms |->
        LET of == {c \in I : players[c].room = r}
            shown == {k \in DOMAIN w.arenas[r].respawn : now >= w.arenas[r].respawn[k]}
            taken == UNION {collected(I, c) : c \in of} IN
        [room |-> w.arenas[r].room, aoi |-> moveAll(w.arenas[r].aoi, of),
         respawn |-> [k \in (DOMAIN w.arenas[r].respawn \ shown) \cup taken |->
                        IF k \in taken THEN now + RespawnTime ELSE w.arenas[r].respawn[k]]]],
     stopped |-> w.stopped]

Ticks == ~closed /\ tick' = (tick + 1) % TickPeriod
Step ==
    /\ Ticks
    /\ LET over == {g \in DOMAIN sessions : expired(g)}
           gone == {c \in DOMAIN players : bound(c) \cap over # {}}
           overdue == {c \in DOMAIN players : late(players[c])}
           I == {c \in DOMAIN players \ (gone \cup overdue) : players[c].room # NoRoom} IN
       /\ sessions' = Delete(sessions, over)
       /\ names' = names \ over
       /\ Becomes([stepped(leave(gone), I) EXCEPT !.stopped = @ \cup gone \cup overdue])
    /\ UNCHANGED <<nextGuest, closed, hooks, now>>

\* The process is told to end: Run has returned, and the world is closed.
Close ==
    /\ ~closed
    /\ closed' = TRUE
    /\ stopped' = stopped \cup DOMAIN players
    /\ UNCHANGED <<sessions, names, nextGuest, players, arenas, tick, hooks, now>>

Tick ==
    /\ now < MaxTime
    /\ now' = now + 1
    /\ UNCHANGED <<sessions, names, nextGuest, players, arenas, tick, closed, hooks, stopped>>

-----------------------------------------------------------------------------
Finished ==
    /\ closed /\ \A c \in Conns : hooks[c] # "started"
    /\ UNCHANGED vars

Next ==
    \/ Guest \/ Step \/ Close \/ Tick
    \/ \E c \in Conns : Connected(c) \/ Disconnected(c) \/ Lost(c) \/ Leave(c)
    \/ \E c \in Conns, g \in 1..MaxGuests : Authenticate(c, g)
    \/ \E c \in Conns, r \in Rooms : Join(c, r)
    \/ \E c \in Conns, d \in Directions, n \in 1..MaxSeq : Input(c, d, n)
    \/ Finished

Spec == Init /\ [][Next]_vars

\* The ticker of Run runs until the process is told to end, which need not happen;
\* only Step changes the tick.
FairSpec == Spec /\ WF_tick(Ticks)

-----------------------------------------------------------------------------
(***************************************************************************)
(* Properties.                                                             *)
(***************************************************************************)
inside(r) == {c \in DOMAIN players : players[c].room = r}

\* An arena's room, its grid and the players who believe to be in it always
\* agree, places included, and the room is not overfull; the places are in the
\* world, so that the grid, whose refusals the code ignores, never refuses one;
\* whoever is in an arena has a session and a name; a name is kept exactly as long
\* as its session; and a closed world has stopped every connection it knows.
ArenaExact ==
    /\ \A r \in Rooms :
          /\ arenas[r].room.members = inside(r)
          /\ Cardinality(inside(r)) <= MaxPlayers[r]
          /\ GridExact(arenas[r].aoi, [c \in inside(r) |-> players[c].pos])
    /\ \A c \in DOMAIN players : players[c].room # NoRoom =>
          inWorld(players[c].pos) /\ bound(c) # {} /\ players[c].name # NoName
    /\ names = DOMAIN sessions
    /\ \A c \in DOMAIN players : hooks[c] = "started"
    /\ closed => DOMAIN players \subseteq stopped

\* A crystal is collected by one player only: in every step the players
\* together gain exactly the crystals that the step hides.
points(P) == UNION {{c} \X (1..P[c].score) : c \in DOMAIN P}
hidden(A) == {x \in Rooms \X DOMAIN Crystals : x[2] \in DOMAIN A[x[1]].respawn}
CollectedOnce ==
    [][tick' # tick =>
          Cardinality(points(players') \ points(players)) = Cardinality(hidden(arenas') \ hidden(arenas))]_vars

\* A connection that does not authenticate in time, or whose session expires, is
\* stopped although its peer keeps it open.
unnamed(c) == c \in DOMAIN players /\ players[c].name = NoName
OverdueStopped ==
    \A c \in Conns :
        /\ (unnamed(c) /\ now - players[c].connectedAt > AuthTime) ~> (c \in stopped \/ ~unnamed(c))
        /\ (\E g \in bound(c) : expired(g)) ~> (c \in stopped)

=============================================================================
