---------------------------- MODULE UnityServer ----------------------------
(***************************************************************************)
(* The Unity example: examples/unityserver/server.go on the world of       *)
(* examples/unity/world.go, the rooms of gcore/room.go and the grid of     *)
(* gcore/aoi.go.                                                           *)
(*                                                                         *)
(* Each connection has two goroutines here: its own, which runs the start  *)
(* hook and, once the connection has ended, the stop hook; and the worker  *)
(* that executes its requests one after the other.  The stop hook does not *)
(* wait for queued requests, so the two overlap.  The world and each room  *)
(* are consistent under their locks; the steps between two locks, and each *)
(* message sent after the lock was released, are steps of their own.       *)
(*                                                                         *)
(* A connection's messages arrive in the order they were queued, so a      *)
(* message takes effect on the view of its client when it is queued.  The  *)
(* messages that neither add nor remove a player (chat, room events and    *)
(* answers, the movement itself) and the action data are left out.         *)
(***************************************************************************)
EXTENDS AOI, Sequences, SequencesExt

CONSTANTS
    Conns,          \* connection ids
    Positions,      \* positions that clients report, allowed or not
    RoomIDs,        \* rooms that clients ask for
    FirstRoomMax,   \* capacity of room 1, which every player joins first
    Requests,       \* kinds of requests that clients send
    MaxRequests,    \* bound: requests in all
    MayFail         \* an outbound buffer can be full, a login can fail

ASSUME UnityAssumption ==
    /\ Conns \subseteq Nat /\ RoomIDs \subseteq Nat \ {0}
    /\ Positions \subseteq (Int \X Int) \cup {NotFinite}
    /\ FirstRoomMax \in Nat /\ MaxRequests \in Nat
    /\ Requests \subseteq {"move", "create", "join", "leave"}
    /\ MayFail \in BOOLEAN

R == INSTANCE Room

VARIABLES
    players, playerIDs, aoi,    \* UnityWorld
    rooms,          \* RoomManager.rooms
    sessions,       \* connections with a session
    nextPlayerID,
    playerID, roomID,   \* properties of a connection; 0 = not set
    closed,         \* connections that have ended
    hook,           \* the goroutine of a connection: where it is in the hooks,
                    \* the room it read and the messages it still has to send
    job,            \* the request in execution, likewise
    begun,          \* requests begun
    view,           \* the players that each client will show
    late            \* history: connections whose requests met the stop hook

worldVars == <<players, playerIDs, aoi>>
connVars == <<sessions, nextPlayerID, playerID, closed>>
vars == <<worldVars, rooms, connVars, roomID, hook, job, begun, view, late>>

-----------------------------------------------------------------------------
At(pc) == [pc |-> pc, room |-> 0, out |-> <<>>]
InRoom(pc, r) == [pc |-> pc, room |-> r, out |-> <<>>]
\* Sending the messages of out, one by one, and then at pc "next".
Sending(pc, out, next) == IF out = <<>> THEN At(next) ELSE [pc |-> pc, room |-> 0, out |-> out]

Init ==
    /\ players = Empty /\ playerIDs = Empty /\ aoi = EmptyGrid
    /\ rooms = Put(Empty, 1, R!NewRoom(FirstRoomMax))
    /\ sessions = {}
    /\ nextPlayerID = 1000
    /\ playerID = [c \in Conns |-> 0] /\ roomID = [c \in Conns |-> 0]
    /\ closed = {}
    /\ hook = [c \in Conns |-> At("new")]
    /\ job = [c \in Conns |-> At("idle")]
    /\ begun = 0
    /\ view = [c \in Conns |-> {}]
    /\ late = {}

-----------------------------------------------------------------------------
(***************************************************************************)
(* Messages: what the client of the connection "to" adds to its view and   *)
(* removes from it.                                                        *)
(***************************************************************************)
PlayerJoined(to, pid) == [to |-> to, add |-> {pid}, remove |-> {}]
PlayerLeave(to, pid) == [to |-> to, add |-> {}, remove |-> {pid}]
SyncPlayers(to, pids) == [to |-> to, add |-> pids, remove |-> {}]

pidOf(c) == players[c].pid
pidsOf(S) == {pidOf(c) : c \in S}
byPID(S) == SetToSortSeq(S, LAMBDA c, d : pidOf(c) < pidOf(d))

\* SendBuffMsg never waits: a connection that has ended refuses the message,
\* and so does one whose buffer is full.
Delivered(m) ==
    /\ m.to \notin closed
    /\ view' = [view EXCEPT ![m.to] = (@ \cup m.add) \ m.remove]
Dropped(m) == (m.to \in closed \/ MayFail) /\ UNCHANGED view
SendBuffMsg(m) == Delivered(m) \/ Dropped(m)

-----------------------------------------------------------------------------
(***************************************************************************)
(* The start hook.                                                         *)
(***************************************************************************)
\* A fresh player number, Issue, Bind and the properties of the session: the
\* account, the player and the connection are all new, so only the creation of
\* the token can fail, and then the connection is stopped.
Login(c) ==
    /\ hook[c].pc = "new"
    /\ nextPlayerID' = nextPlayerID + 1
    /\ \/ /\ sessions' = sessions \cup {c}
          /\ playerID' = [playerID EXCEPT ![c] = nextPlayerID + 1]
          /\ hook' = [hook EXCEPT ![c] = At("add")]
          /\ UNCHANGED closed
       \/ /\ MayFail
          /\ closed' = closed \cup {c}
          /\ hook' = [hook EXCEPT ![c] = At("refused")]
          /\ UNCHANGED <<sessions, playerID>>
    /\ UNCHANGED <<worldVars, rooms, roomID, job, begun, view, late>>

\* AddPlayerWithPID enters the player at the origin and returns the players
\* nearby; its errors need a number or a connection that is already there.
Origin == <<0, 0>>
AddPlayerWithPID(c) ==
    /\ hook[c].pc = "add"
    /\ LET pid == playerID[c]
           grid == AddEntity(aoi, c, Origin) IN
       /\ players' = Put(players, c, [pid |-> pid, position |-> Origin])
       /\ playerIDs' = Put(playerIDs, pid, c)
       /\ aoi' = grid
       /\ hook' = [hook EXCEPT ![c] =
             Sending("room", <<SyncPlayers(c, pidsOf(nearby(grid, c)))>>, "room")]
    /\ UNCHANGED <<rooms, connVars, roomID, job, begun, view, late>>

\* Room 1 if it is not full.
JoinFirstRoom(c) ==
    /\ hook[c].pc = "room"
    /\ \/ /\ R!mayJoin(rooms[1], c)
          /\ rooms' = [rooms EXCEPT ![1] = R!Joined(@, c)]
          /\ roomID' = [roomID EXCEPT ![c] = 1]
       \/ ~R!mayJoin(rooms[1], c) /\ UNCHANGED <<rooms, roomID>>
    /\ hook' = [hook EXCEPT ![c].pc = "sync"]
    /\ UNCHANGED <<worldVars, connVars, job, begun, view, late>>

\* SyncPID and SyncPlayers; when either is refused the hook returns at once.
Sync(c) ==
    /\ hook[c].pc = "sync"
    /\ \/ Delivered(hook[c].out[1]) /\ hook' = [hook EXCEPT ![c] = At("announce")]
       \/ Dropped(hook[c].out[1]) /\ hook' = [hook EXCEPT ![c] = At("running")]
    /\ UNCHANGED <<worldVars, rooms, connVars, roomID, job, begun, late>>

\* BroadcastVisible takes the recipients under the lock, the player included.
Announce(c) ==
    /\ hook[c].pc = "announce"
    /\ LET to == byPID(nearby(aoi, c)) \o <<c>> IN
       hook' = [hook EXCEPT ![c] =
           Sending("announcing", [i \in 1..Len(to) |-> PlayerJoined(to[i], pidOf(c))],
                   "running")]
    /\ UNCHANGED <<worldVars, rooms, connVars, roomID, job, begun, view, late>>

\* The messages of either hook.
HookSends(c, pc, next) ==
    /\ hook[c].pc = pc
    /\ SendBuffMsg(Head(hook[c].out))
    /\ hook' = [hook EXCEPT ![c] = Sending(pc, Tail(@.out), next)]
    /\ UNCHANGED <<worldVars, rooms, connVars, roomID, job, begun, late>>

-----------------------------------------------------------------------------
\* The client disconnects, or the transport fails, at any time.
Disconnect(c) ==
    /\ hook[c].pc \notin {"new", "refused"} /\ c \notin closed
    /\ closed' = closed \cup {c}
    /\ UNCHANGED <<worldVars, rooms, sessions, nextPlayerID, playerID, roomID, hook, job,
                   begun, view, late>>

(***************************************************************************)
(* The stop hook.                                                          *)
(***************************************************************************)
StopEnter(c) ==
    /\ hook[c].pc \in {"running", "refused"} /\ c \in closed
    /\ hook' = [hook EXCEPT ![c] = InRoom("stop", roomID[c])]
    /\ late' = IF job[c].pc = "idle" THEN late ELSE late \cup {c}
    /\ UNCHANGED <<worldVars, rooms, connVars, roomID, job, begun, view>>

\* Leave the room that was read, if there is one; an error is ignored.
StopLeave(c) ==
    /\ hook[c].pc = "stop"
    /\ rooms' = IF hook[c].room = 0 THEN rooms
                ELSE [rooms EXCEPT ![hook[c].room] = R!Left(@, c)]
    /\ hook' = [hook EXCEPT ![c] = At("remove")]
    /\ UNCHANGED <<worldVars, connVars, roomID, job, begun, view, late>>

\* RemovePlayerWithVisibility returns the players nearby before the removal;
\* without a player only the session is left to end.
RemovePlayer(c) ==
    /\ hook[c].pc = "remove"
    /\ \/ /\ c \in DOMAIN players
          /\ players' = Delete(players, {c})
          /\ playerIDs' = Delete(playerIDs, {pidOf(c)})
          /\ aoi' = RemoveEntity(aoi, c)
          /\ LET to == byPID(nearby(aoi, c)) IN
             hook' = [hook EXCEPT ![c] =
                 Sending("leaving", [i \in 1..Len(to) |-> PlayerLeave(to[i], pidOf(c))],
                         "logout")]
       \/ /\ c \notin DOMAIN players
          /\ hook' = [hook EXCEPT ![c] = At("logout")]
          /\ UNCHANGED worldVars
    /\ UNCHANGED <<rooms, connVars, roomID, job, begun, view, late>>

LogoutByConnID(c) ==
    /\ hook[c].pc = "logout"
    /\ sessions' = sessions \ {c}
    /\ hook' = [hook EXCEPT ![c] = At("gone")]
    /\ UNCHANGED <<worldVars, rooms, nextPlayerID, playerID, closed, roomID, job, begun, view, late>>

-----------------------------------------------------------------------------
(***************************************************************************)
(* The routers.  A request that was queued before the connection ended is  *)
(* executed during the stop hook or after it.                              *)
(***************************************************************************)
Stopping(c) == hook[c].pc \in {"stop", "remove", "leaving", "logout", "gone"}
Begin(c, kind) ==
    /\ kind \in Requests
    /\ job[c].pc = "idle"
    /\ hook[c].pc = "running" \/ (Stopping(c) /\ playerID[c] # 0)
    /\ begun < MaxRequests      \* bound
    /\ begun' = begun + 1
    /\ late' = IF Stopping(c) THEN late \cup {c} ELSE late

\* UnityMoveRouter: UpdatePlayerWithVisibility refuses a player that is gone
\* and a position outside the world.  The mover and everybody who came into
\* view are shown to each other, those who went out of view are removed from
\* each other's views.
mayMove(c, p) == c \in DOMAIN players /\ inWorld(p)
Shown(c, d) == <<PlayerJoined(d, pidOf(c)), PlayerJoined(c, pidOf(d))>>
Hidden(c, d) == <<PlayerLeave(d, pidOf(c)), PlayerLeave(c, pidOf(d))>>
Changes(c, p) ==
    LET entered == byPID(Entered(aoi, c, p))
        left == byPID(Left(aoi, c, p)) IN
    FlattenSeq([i \in 1..Len(entered) |-> Shown(c, entered[i])])
        \o FlattenSeq([i \in 1..Len(left) |-> Hidden(c, left[i])])
Move(c, p) ==
    /\ Begin(c, "move")
    /\ \/ /\ mayMove(c, p)
          /\ players' = [players EXCEPT ![c].position = p]
          /\ aoi' = MoveEntity(aoi, c, p)
          /\ job' = [job EXCEPT ![c] = Sending("sending", Changes(c, p), "idle")]
       \/ ~mayMove(c, p) /\ UNCHANGED <<players, aoi, job>>
    /\ UNCHANGED <<playerIDs, rooms, connVars, roomID, hook, view>>

MoveSends(c) ==
    /\ job[c].pc = "sending"
    /\ SendBuffMsg(Head(job[c].out))
    /\ job' = [job EXCEPT ![c] = Sending("sending", Tail(@.out), "idle")]
    /\ UNCHANGED <<worldVars, rooms, connVars, roomID, hook, begun, late>>

\* UnityCreateRoomRouter: a room that exists already is refused.
CreateRoom(c, r) ==
    /\ Begin(c, "create")
    /\ rooms' = IF r \in DOMAIN rooms THEN rooms ELSE Put(rooms, r, R!NewRoom(0))
    /\ UNCHANGED <<worldVars, connVars, roomID, hook, job, view>>

\* UnityJoinRoomRouter: the room must exist and not be the current one ...
JoinRoom(c, r) ==
    /\ Begin(c, "join")
    /\ job' = IF r \in DOMAIN rooms /\ roomID[c] # r
              THEN [job EXCEPT ![c] = InRoom("join", r)] ELSE job
    /\ UNCHANGED <<worldVars, rooms, connVars, roomID, hook, view>>

\* ... it is joined first ...
JoinNew(c) ==
    /\ job[c].pc = "join"
    /\ LET r == job[c].room IN
       \/ /\ R!mayJoin(rooms[r], c)
          /\ rooms' = [rooms EXCEPT ![r] = R!Joined(@, c)]
          /\ job' = [job EXCEPT ![c].pc = "leaveOld"]
       \/ /\ ~R!mayJoin(rooms[r], c)
          /\ job' = [job EXCEPT ![c] = At("idle")]
          /\ UNCHANGED rooms
    /\ UNCHANGED <<worldVars, connVars, roomID, hook, begun, view, late>>

\* ... then the current one is left, or the new one again if that fails ...
LeaveOld(c) ==
    /\ job[c].pc = "leaveOld"
    /\ LET old == roomID[c] IN
       \/ /\ old = 0
          /\ job' = [job EXCEPT ![c].pc = "set"]
          /\ UNCHANGED rooms
       \/ /\ old # 0 /\ R!mayLeave(rooms[old], c)
          /\ rooms' = [rooms EXCEPT ![old] = R!Left(@, c)]
          /\ job' = [job EXCEPT ![c].pc = "set"]
       \/ /\ old # 0 /\ ~R!mayLeave(rooms[old], c)
          /\ job' = [job EXCEPT ![c].pc = "rollback"]
          /\ UNCHANGED rooms
    /\ UNCHANGED <<worldVars, connVars, roomID, hook, begun, view, late>>

KeepNew(c) ==           \* mutant: the new room is not left again
    /\ job[c].pc = "rollback"
    /\ job' = [job EXCEPT ![c] = At("idle")]
    /\ UNCHANGED <<worldVars, rooms, connVars, roomID, hook, begun, view, late>>
Rollback(c) ==
    /\ job[c].pc = "rollback"
    /\ rooms' = [rooms EXCEPT ![job[c].room] = R!Left(@, c)]
    /\ job' = [job EXCEPT ![c] = At("idle")]
    /\ UNCHANGED <<worldVars, connVars, roomID, hook, begun, view, late>>

\* ... and the property is set last.
SetRoomID(c) ==
    /\ job[c].pc = "set"
    /\ roomID' = [roomID EXCEPT ![c] = job[c].room]
    /\ job' = [job EXCEPT ![c] = At("idle")]
    /\ UNCHANGED <<worldVars, rooms, connVars, hook, begun, view, late>>

\* UnityLeaveRoomRouter: rooms are never removed, so the current one exists.
LeaveRoom(c) ==
    /\ Begin(c, "leave")
    /\ job' = IF roomID[c] = 0 THEN job
              ELSE [job EXCEPT ![c] = InRoom("leave", roomID[c])]
    /\ UNCHANGED <<worldVars, rooms, connVars, roomID, hook, view>>

LeaveCurrent(c) ==
    /\ job[c].pc = "leave"
    /\ LET r == job[c].room IN
       \/ /\ R!mayLeave(rooms[r], c)
          /\ rooms' = [rooms EXCEPT ![r] = R!Left(@, c)]
          /\ job' = [job EXCEPT ![c].pc = "unset"]
       \/ /\ ~R!mayLeave(rooms[r], c)
          /\ job' = [job EXCEPT ![c] = At("idle")]
          /\ UNCHANGED rooms
    /\ UNCHANGED <<worldVars, connVars, roomID, hook, begun, view, late>>

RemoveRoomID(c) ==
    /\ job[c].pc = "unset"
    /\ roomID' = [roomID EXCEPT ![c] = 0]
    /\ job' = [job EXCEPT ![c] = At("idle")]
    /\ UNCHANGED <<worldVars, rooms, connVars, hook, begun, view, late>>

-----------------------------------------------------------------------------
Finished ==
    /\ \A c \in Conns : hook[c].pc = "gone" /\ job[c].pc = "idle"
    /\ UNCHANGED vars

StartHook(c) ==
    \/ Login(c) \/ AddPlayerWithPID(c) \/ JoinFirstRoom(c) \/ Sync(c) \/ Announce(c)
    \/ HookSends(c, "announcing", "running")
StopHook(c) ==
    \/ StopEnter(c) \/ StopLeave(c) \/ RemovePlayer(c) \/ HookSends(c, "leaving", "logout")
    \/ LogoutByConnID(c)
Routers(c) ==
    \/ LeaveRoom(c) \/ MoveSends(c) \/ JoinNew(c) \/ LeaveOld(c) \/ Rollback(c) \/ SetRoomID(c)
    \/ LeaveCurrent(c) \/ RemoveRoomID(c)

Next ==
    \/ \E c \in Conns : StartHook(c) \/ Disconnect(c) \/ StopHook(c) \/ Routers(c)
    \/ \E c \in Conns, p \in Positions : Move(c, p)
    \/ \E c \in Conns, r \in RoomIDs : CreateRoom(c, r) \/ JoinRoom(c, r)
    \/ Finished

Spec == Init /\ [][Next]_vars

-----------------------------------------------------------------------------
(***************************************************************************)
(* Properties.                                                             *)
(***************************************************************************)
positions == [c \in DOMAIN players |-> players[c].position]

\* The player map, the number index and the grid always describe the same
\* players at the same places, and the grid finds exactly the neighbours that
\* the positions imply, whatever moves, joins and disconnects overlap: a late
\* move never brings a player back.
WorldExact ==
    /\ GridExact(aoi, positions)
    /\ DOMAIN playerIDs = pidsOf(DOMAIN players)
    /\ \A c \in DOMAIN players : playerIDs[pidOf(c)] = c
    /\ \A c \in Conns : hook[c].pc \in {"new", "add", "logout", "gone"} => c \notin DOMAIN players
    /\ \A c \in Conns : c \in sessions => hook[c].pc # "gone"

\* A connection with no room request under way is a member of the room that
\* its property names and of no other.  Requests that are executed beside the
\* stop hook or after it do not change the second half: whatever the hook has
\* taken from them, they leave the connection in the room its property names
\* or in none.  Without such requests the stop hook leaves it in none.
memberOf(c) == {r \in DOMAIN rooms : c \in rooms[r].members}
MembershipExact ==
    /\ \A c \in Conns : job[c].pc = "idle" /\ hook[c].pc \in {"sync", "announce", "running"} =>
          memberOf(c) = IF roomID[c] = 0 THEN {} ELSE {roomID[c]}
    /\ \A c \in Conns : job[c].pc = "idle" => memberOf(c) \subseteq {roomID[c]}
    /\ \A c \in Conns \ late : hook[c].pc = "gone" => memberOf(c) = {}
    /\ FirstRoomMax > 0 => R!Cardinality(rooms[1].members) <= FirstRoomMax

\* When nothing is under way every client shows exactly the players near its
\* own (docs/unity-client-compatibility.md: players who come into view or go
\* out of it are synchronised on every move).
Quiet == \A c \in Conns :
            /\ job[c].pc = "idle" /\ hook[c].pc \in {"new", "running", "gone"}
            /\ c \in closed => hook[c].pc = "gone"
neighbours(c) == {d \in DOMAIN players \ {c} : adjacent(positions[c], positions[d])}
ViewsExact ==
    Quiet => \A c \in DOMAIN players \ closed : view[c] \ {pidOf(c)} = pidsOf(neighbours(c))

=============================================================================
