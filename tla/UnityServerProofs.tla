-------------------------- MODULE UnityServerProofs -------------------------
(***************************************************************************)
(* The Unity example, for any connections, rooms, positions and size of    *)
(* the world and of its cells: WorldExact and MembershipExact of module    *)
(* UnityServer.  What the grid of gcore/aoi.go does for it is shown in     *)
(* module AOIProofs.                                                       *)
(***************************************************************************)
EXTENDS UnityServer, AOIProofs

-----------------------------------------------------------------------------
(***************************************************************************)
(* The invariant.                                                          *)
(***************************************************************************)
\* Where a connection is in its hooks: before it is in a room, while requests
\* may run beside it, and after it has left its room again.
Before == {"new", "add", "refused", "room"}
Serving == {"sync", "announce", "announcing", "running"}
After == {"remove", "leaving", "logout", "gone"}
HookPcs == Before \cup Serving \cup {"stop"} \cup After
JobPcs == {"idle", "sending", "join", "leaveOld", "rollback", "set", "leave", "unset"}

\* Where the world may hold the player of a connection.
Playing == {"room", "stop", "remove"} \cup Serving

\* The goroutines of the connections; the messages they still have to send are
\* whatever they are.
Threads(f, pcs) ==
    /\ f = [c \in Conns |-> [pc |-> f[c].pc, room |-> f[c].room, out |-> f[c].out]]
    /\ \A c \in Conns : f[c].pc \in pcs
ThreadInv == Threads(hook, HookPcs) /\ Threads(job, JobPcs)

\* Player numbers are fresh, and the player of a connection has its number.
Numbers ==
    /\ playerID \in [Conns -> Nat] /\ nextPlayerID \in Nat
    /\ \A c \in Conns : playerID[c] <= nextPlayerID
    /\ \A c, d \in Conns : c # d /\ playerID[c] = playerID[d] => playerID[c] = 0
    /\ \A c \in Conns : hook[c].pc = "add" => playerID[c] # 0
PlayersOK ==
    /\ DOMAIN players \subseteq Conns
    /\ players = [c \in DOMAIN players |->
                    [pid |-> players[c].pid, position |-> players[c].position]]
    /\ \A c \in DOMAIN players :
          /\ players[c].pid = playerID[c] /\ playerID[c] # 0
          /\ players[c].position \in Place
          /\ hook[c].pc \in Playing
IndexOK ==
    /\ DOMAIN playerIDs = {playerID[c] : c \in DOMAIN players}
    /\ \A c \in DOMAIN players : playerIDs[playerID[c]] = c
SessionsOK == \A c \in Conns : c \in sessions => hook[c].pc # "gone"
WorldInv == Numbers /\ PlayersOK /\ IndexOK /\ SessionsOK /\ GridOK(aoi, positions)

\* Room 1 is never created again, so its limit stays.
RoomsOK ==
    /\ DOMAIN rooms \subseteq Nat \ {0} /\ 1 \in DOMAIN rooms
    /\ rooms = [r \in DOMAIN rooms |-> [max |-> rooms[r].max, members |-> rooms[r].members]]
    /\ \A r \in DOMAIN rooms : IsFiniteSet(rooms[r].members)
    /\ rooms[1].max = FirstRoomMax
    /\ FirstRoomMax > 0 => Cardinality(rooms[1].members) <= FirstRoomMax

\* The rooms of a connection: the one its property names, and during a change
\* of rooms the new one beside it.
Named(r) == {r} \ {0}
DuringRequest(c) ==
    /\ job[c].pc \in {"idle", "sending"} => memberOf(c) = Named(roomID[c])
    /\ job[c].pc \in {"join", "leaveOld"} =>
          job[c].room \in DOMAIN rooms /\ job[c].room # roomID[c]
    /\ job[c].pc = "join" => memberOf(c) = Named(roomID[c])
    /\ job[c].pc = "leaveOld" => memberOf(c) = Named(roomID[c]) \cup {job[c].room}
    /\ job[c].pc = "rollback" => FALSE
    /\ job[c].pc = "set" => memberOf(c) = {job[c].room} /\ job[c].room # 0
    /\ job[c].pc = "leave" => memberOf(c) = {job[c].room} /\ job[c].room = roomID[c]
    /\ job[c].pc = "unset" => memberOf(c) = {}
\* Beside the stop hook and after it, which may have taken a room away: never
\* more than that.
AtMost(c) ==
    /\ job[c].pc \in {"idle", "sending", "join", "leave"} => memberOf(c) \subseteq Named(roomID[c])
    /\ job[c].pc \in {"join", "leaveOld", "rollback", "set"} => job[c].room \in DOMAIN rooms
    /\ job[c].pc = "leaveOld" => memberOf(c) \subseteq Named(roomID[c]) \cup {job[c].room}
    /\ job[c].pc \in {"rollback", "set"} => memberOf(c) \subseteq {job[c].room}
    /\ job[c].pc = "leave" => job[c].room = roomID[c]
    /\ job[c].pc = "unset" => memberOf(c) = {}
Membership(c) ==
    /\ AtMost(c)
    /\ hook[c].pc \in Before \cup Serving /\ hook[c].pc # "running" => job[c].pc = "idle"
    /\ hook[c].pc \in Before => roomID[c] = 0 /\ memberOf(c) = {}
    /\ hook[c].pc \in Serving => DuringRequest(c)
    /\ c \notin late /\ Stopping(c) => job[c].pc = "idle"
    /\ c \notin late /\ hook[c].pc = "stop" => memberOf(c) = Named(hook[c].room)
    /\ c \notin late /\ hook[c].pc \in After => memberOf(c) = {}
RoomInv ==
    /\ RoomsOK
    /\ DOMAIN roomID = Conns
    /\ \A c \in Conns : Membership(c)

IInv == ThreadInv /\ WorldInv /\ RoomInv

-----------------------------------------------------------------------------
(***************************************************************************)
(* What each step does to the two goroutines of its connection.            *)
(***************************************************************************)
Stepped(f, g, pcs, c, to, r) ==
    /\ Threads(g, pcs)
    /\ \A d \in Conns \ {c} : g[d] = f[d]
    /\ g[c].pc \in to /\ g[c].room = r
HookTo(c, to, r) == Stepped(hook, hook', HookPcs, c, to, r) /\ UNCHANGED job
JobTo(c, to, r) == Stepped(job, job', JobPcs, c, to, r) /\ UNCHANGED hook

\* A goroutine gets a new state ...
LEMMA ThreadSet ==
    ASSUME NEW f, NEW pcs, Threads(f, pcs), NEW c \in Conns, NEW t, t.pc \in pcs,
           t = [pc |-> t.pc, room |-> t.room, out |-> t.out]
    PROVE  LET g == [f EXCEPT ![c] = t] IN
           Threads(g, pcs) /\ g[c] = t /\ \A d \in Conns \ {c} : g[d] = f[d]
<1> DEFINE g == [f EXCEPT ![c] = t]
<1>1. DOMAIN f = Conns  BY DEF Threads
<1>2. g[c] = t /\ \A d \in Conns \ {c} : g[d] = f[d]  BY <1>1
<1>3. \A d \in Conns \ {c} : f[d] = [pc |-> f[d].pc, room |-> f[d].room, out |-> f[d].out]
  BY DEF Threads
<1>5. g = [d \in Conns |-> g[d]]  BY <1>1
<1> HIDE DEF g
<1>4. \A d \in Conns : g[d] = [pc |-> g[d].pc, room |-> g[d].room, out |-> g[d].out]
  BY <1>2, <1>3
<1>6. \A d \in Conns : g[d].pc \in pcs  BY <1>2 DEF Threads
<1>7. Threads(g, pcs)  BY <1>4, <1>5, <1>6 DEF Threads
<1> QED  BY <1>2, <1>7 DEF g

\* ... or only moves on.
LEMMA ThreadMove ==
    ASSUME NEW f, NEW pcs, Threads(f, pcs), NEW c \in Conns, NEW x \in pcs
    PROVE  LET g == [f EXCEPT ![c].pc = x] IN
           /\ Threads(g, pcs) /\ g[c].pc = x /\ g[c].room = f[c].room
           /\ \A d \in Conns \ {c} : g[d] = f[d]
<1> DEFINE t == [pc |-> x, room |-> f[c].room, out |-> f[c].out]
<1>1. f[c] = [pc |-> f[c].pc, room |-> f[c].room, out |-> f[c].out]  BY DEF Threads
<1>2. [f[c] EXCEPT !.pc = x] = t  BY <1>1
<1>3. [f EXCEPT ![c].pc = x] = [f EXCEPT ![c] = t]  BY <1>2
<1>4. t.pc = x /\ t.room = f[c].room /\ t = [pc |-> t.pc, room |-> t.room, out |-> t.out]
  OBVIOUS
<1> HIDE DEF t
<1>5. LET g == [f EXCEPT ![c] = t] IN
      Threads(g, pcs) /\ g[c] = t /\ \A d \in Conns \ {c} : g[d] = f[d]
  BY <1>4, ThreadSet
<1> QED  BY <1>3, <1>4, <1>5

\* The states that the actions give to a goroutine.
LEMMA ThreadStates ==
    /\ \A x : /\ At(x).pc = x /\ At(x).room = 0
              /\ At(x) = [pc |-> At(x).pc, room |-> At(x).room, out |-> At(x).out]
    /\ \A x, r : /\ InRoom(x, r).pc = x /\ InRoom(x, r).room = r
                 /\ InRoom(x, r) = [pc |-> InRoom(x, r).pc, room |-> InRoom(x, r).room,
                                    out |-> InRoom(x, r).out]
    /\ \A x, o, y : LET t == Sending(x, o, y) IN
          t.pc \in {x, y} /\ t.room = 0 /\ t = [pc |-> t.pc, room |-> t.room, out |-> t.out]
BY DEF At, InRoom, Sending

\* The ways in which an action changes a goroutine.
LEMMA ThreadResults ==
    ASSUME NEW f, NEW pcs, Threads(f, pcs), NEW c \in Conns
    PROVE  /\ \A x \in pcs : Stepped(f, [f EXCEPT ![c] = At(x)], pcs, c, {x}, 0)
           /\ \A x, y \in pcs : \A o :
                 Stepped(f, [f EXCEPT ![c] = Sending(x, o, y)], pcs, c, {x, y}, 0)
           /\ \A x \in pcs : \A r : Stepped(f, [f EXCEPT ![c] = InRoom(x, r)], pcs, c, {x}, r)
           /\ \A x \in pcs : Stepped(f, [f EXCEPT ![c].pc = x], pcs, c, {x}, f[c].room)
<1>1. ASSUME NEW t, NEW to, t.pc \in pcs, t.pc \in to,
             t = [pc |-> t.pc, room |-> t.room, out |-> t.out]
      PROVE  Stepped(f, [f EXCEPT ![c] = t], pcs, c, to, t.room)
  <2>1. LET g == [f EXCEPT ![c] = t] IN
        Threads(g, pcs) /\ g[c] = t /\ \A d \in Conns \ {c} : g[d] = f[d]
    BY <1>1, ThreadSet
  <2> DEFINE g == [f EXCEPT ![c] = t]
  <2>2. Threads(g, pcs) /\ g[c] = t /\ \A d \in Conns \ {c} : g[d] = f[d]  BY <2>1
  <2> HIDE DEF g
  <2>3. Stepped(f, g, pcs, c, to, t.room)  BY <1>1, <2>2 DEF Stepped
  <2> QED  BY <2>3 DEF g
<1>2. ASSUME NEW x \in pcs PROVE Stepped(f, [f EXCEPT ![c] = At(x)], pcs, c, {x}, 0)
  <2> DEFINE t == At(x)
  <2>1. t.pc \in pcs /\ t.pc \in {x} /\ t = [pc |-> t.pc, room |-> t.room, out |-> t.out]
        /\ t.room = 0
    BY ThreadStates
  <2> HIDE DEF t
  <2>2. Stepped(f, [f EXCEPT ![c] = t], pcs, c, {x}, t.room)  BY <2>1, <1>1
  <2> QED  BY <2>1, <2>2 DEF t
<1>3. ASSUME NEW x \in pcs, NEW y \in pcs, NEW o
      PROVE  Stepped(f, [f EXCEPT ![c] = Sending(x, o, y)], pcs, c, {x, y}, 0)
  <2> DEFINE t == Sending(x, o, y)
  <2>1. t.pc \in pcs /\ t.pc \in {x, y} /\ t = [pc |-> t.pc, room |-> t.room, out |-> t.out]
        /\ t.room = 0
    BY ThreadStates
  <2> HIDE DEF t
  <2>2. Stepped(f, [f EXCEPT ![c] = t], pcs, c, {x, y}, t.room)  BY <2>1, <1>1
  <2> QED  BY <2>1, <2>2 DEF t
<1>4. ASSUME NEW x \in pcs, NEW r
      PROVE  Stepped(f, [f EXCEPT ![c] = InRoom(x, r)], pcs, c, {x}, r)
  <2> DEFINE t == InRoom(x, r)
  <2>1. t.pc \in pcs /\ t.pc \in {x} /\ t = [pc |-> t.pc, room |-> t.room, out |-> t.out]
        /\ t.room = r
    BY ThreadStates
  <2> HIDE DEF t
  <2>2. Stepped(f, [f EXCEPT ![c] = t], pcs, c, {x}, t.room)  BY <2>1, <1>1
  <2> QED  BY <2>1, <2>2 DEF t
<1>5. ASSUME NEW x \in pcs
      PROVE  Stepped(f, [f EXCEPT ![c].pc = x], pcs, c, {x}, f[c].room)
  <2>1. LET g == [f EXCEPT ![c].pc = x] IN
        /\ Threads(g, pcs) /\ g[c].pc = x /\ g[c].room = f[c].room
        /\ \A d \in Conns \ {c} : g[d] = f[d]
    BY ThreadMove
  <2> QED  BY <2>1 DEF Stepped
<1> QED  BY <1>2, <1>3, <1>4, <1>5

\* The hooks.
LEMMA HookEffects ==
    ASSUME ThreadInv, NEW c \in Conns
    PROVE  /\ Login(c) => HookTo(c, {"add", "refused"}, 0)
           /\ AddPlayerWithPID(c) => HookTo(c, {"room"}, 0)
           /\ JoinFirstRoom(c) => HookTo(c, {"sync"}, hook[c].room)
           /\ Sync(c) => HookTo(c, {"announce", "running"}, 0)
           /\ Announce(c) => HookTo(c, {"announcing", "running"}, 0)
           /\ HookSends(c, "announcing", "running") => HookTo(c, {"announcing", "running"}, 0)
           /\ StopEnter(c) => HookTo(c, {"stop"}, roomID[c])
           /\ StopLeave(c) => HookTo(c, {"remove"}, 0)
           /\ RemovePlayer(c) => HookTo(c, {"leaving", "logout"}, 0)
           /\ HookSends(c, "leaving", "logout") => HookTo(c, {"leaving", "logout"}, 0)
           /\ LogoutByConnID(c) => HookTo(c, {"gone"}, 0)
<1>0. /\ \A x \in HookPcs : Stepped(hook, [hook EXCEPT ![c] = At(x)], HookPcs, c, {x}, 0)
      /\ \A x, y \in HookPcs : \A o :
            Stepped(hook, [hook EXCEPT ![c] = Sending(x, o, y)], HookPcs, c, {x, y}, 0)
      /\ \A x \in HookPcs : \A r :
            Stepped(hook, [hook EXCEPT ![c] = InRoom(x, r)], HookPcs, c, {x}, r)
      /\ \A x \in HookPcs :
            Stepped(hook, [hook EXCEPT ![c].pc = x], HookPcs, c, {x}, hook[c].room)
  BY ThreadResults DEF ThreadInv
<1>1. /\ {"add", "refused", "room", "sync", "announce", "announcing", "running"}
            \subseteq HookPcs
      /\ {"stop", "remove", "leaving", "logout", "gone"} \subseteq HookPcs
  BY DEF HookPcs, Before, Serving, After
<1>2. Login(c) => HookTo(c, {"add", "refused"}, 0)
  <2>1. ASSUME Login(c) PROVE HookTo(c, {"add"}, 0) \/ HookTo(c, {"refused"}, 0)
    BY <2>1, <1>0, <1>1 DEF Login, HookTo
  <2> QED  BY <2>1 DEF HookTo, Stepped
<1>3. AddPlayerWithPID(c) => HookTo(c, {"room"}, 0)
  <2>0. ASSUME AddPlayerWithPID(c)
        PROVE  UNCHANGED job /\ \E o : hook' = [hook EXCEPT ![c] = Sending("room", o, "room")]
    BY <2>0, Zenon DEF AddPlayerWithPID
  <2>1. AddPlayerWithPID(c) => HookTo(c, {"room", "room"}, 0)
    BY <2>0, <1>0, <1>1 DEF HookTo
  <2> QED  BY <2>1 DEF HookTo, Stepped
<1>4. JoinFirstRoom(c) => HookTo(c, {"sync"}, hook[c].room)
  BY <1>0, <1>1 DEF JoinFirstRoom, HookTo
<1>5. Sync(c) => HookTo(c, {"announce", "running"}, 0)
  <2>1. ASSUME Sync(c) PROVE HookTo(c, {"announce"}, 0) \/ HookTo(c, {"running"}, 0)
    BY <2>1, <1>0, <1>1 DEF Sync, HookTo
  <2> QED  BY <2>1 DEF HookTo, Stepped
<1>6. Announce(c) => HookTo(c, {"announcing", "running"}, 0)
  <2>1. ASSUME Announce(c)
        PROVE  /\ UNCHANGED job
               /\ \E o : hook' = [hook EXCEPT ![c] = Sending("announcing", o, "running")]
    BY <2>1, Zenon DEF Announce
  <2>2. ASSUME NEW o, hook' = [hook EXCEPT ![c] = Sending("announcing", o, "running")]
        PROVE  Stepped(hook, hook', HookPcs, c, {"announcing", "running"}, 0)
    BY <2>2, <1>0, <1>1
  <2> QED  BY <2>1, <2>2 DEF HookTo
<1>7. /\ HookSends(c, "announcing", "running") => HookTo(c, {"announcing", "running"}, 0)
      /\ HookSends(c, "leaving", "logout") => HookTo(c, {"leaving", "logout"}, 0)
  BY <1>0, <1>1 DEF HookSends, HookTo
<1>8. StopEnter(c) => HookTo(c, {"stop"}, roomID[c])
  BY <1>0, <1>1 DEF StopEnter, HookTo
<1>9. StopLeave(c) => HookTo(c, {"remove"}, 0)
  BY <1>0, <1>1 DEF StopLeave, HookTo
<1>10. RemovePlayer(c) => HookTo(c, {"leaving", "logout"}, 0)
  <2>1. ASSUME RemovePlayer(c)
        PROVE  HookTo(c, {"leaving", "logout"}, 0) \/ HookTo(c, {"logout"}, 0)
    <3>1. /\ UNCHANGED job
          /\ \/ \E o : hook' = [hook EXCEPT ![c] = Sending("leaving", o, "logout")]
             \/ hook' = [hook EXCEPT ![c] = At("logout")]
      BY <2>1, Zenon DEF RemovePlayer
    <3> QED  BY <3>1, <1>0, <1>1 DEF HookTo
  <2> QED  BY <2>1 DEF HookTo, Stepped
<1>11. LogoutByConnID(c) => HookTo(c, {"gone"}, 0)
  BY <1>0, <1>1 DEF LogoutByConnID, HookTo
<1> QED  BY <1>2, <1>3, <1>4, <1>5, <1>6, <1>7, <1>8, <1>9, <1>10, <1>11

\* The requests.
LEMMA JobEffects ==
    ASSUME ThreadInv, NEW c \in Conns
    PROVE  /\ \A p \in Positions : Move(c, p) =>
                 JobTo(c, {"idle", "sending"}, job'[c].room)
           /\ MoveSends(c) => JobTo(c, {"idle", "sending"}, 0)
           /\ \A r \in RoomIDs : JoinRoom(c, r) =>
                 \/ UNCHANGED <<hook, job>>
                 \/ JobTo(c, {"join"}, r) /\ r \in DOMAIN rooms /\ roomID[c] # r
           /\ JoinNew(c) =>
                 IF R!mayJoin(rooms[job[c].room], c) THEN JobTo(c, {"leaveOld"}, job[c].room)
                 ELSE JobTo(c, {"idle"}, 0)
           /\ LeaveOld(c) =>
                 IF roomID[c] = 0 \/ R!mayLeave(rooms[roomID[c]], c)
                 THEN JobTo(c, {"set"}, job[c].room) ELSE JobTo(c, {"rollback"}, job[c].room)
           /\ Rollback(c) \/ SetRoomID(c) \/ RemoveRoomID(c) => JobTo(c, {"idle"}, 0)
           /\ LeaveRoom(c) =>
                 \/ UNCHANGED <<hook, job>>
                 \/ JobTo(c, {"leave"}, roomID[c]) /\ roomID[c] # 0
           /\ LeaveCurrent(c) =>
                 IF R!mayLeave(rooms[job[c].room], c) THEN JobTo(c, {"unset"}, job[c].room)
                 ELSE JobTo(c, {"idle"}, 0)
<1>0. /\ \A x \in JobPcs : Stepped(job, [job EXCEPT ![c] = At(x)], JobPcs, c, {x}, 0)
      /\ \A x, y \in JobPcs : \A o :
            Stepped(job, [job EXCEPT ![c] = Sending(x, o, y)], JobPcs, c, {x, y}, 0)
      /\ \A x \in JobPcs : \A r :
            Stepped(job, [job EXCEPT ![c] = InRoom(x, r)], JobPcs, c, {x}, r)
      /\ \A x \in JobPcs :
            Stepped(job, [job EXCEPT ![c].pc = x], JobPcs, c, {x}, job[c].room)
  BY ThreadResults DEF ThreadInv
<1>1. {"idle", "sending", "join", "leaveOld", "rollback", "set", "leave", "unset"} \subseteq JobPcs
  BY DEF JobPcs
<1>2. ASSUME NEW p \in Positions, Move(c, p)
      PROVE  JobTo(c, {"idle", "sending"}, job'[c].room)
  <2>1. job[c].pc = "idle" /\ UNCHANGED hook  BY <1>2 DEF Move, Begin
  <2>2. CASE UNCHANGED job
    BY <2>1, <2>2 DEF JobTo, Stepped, ThreadInv
  <2>3. CASE job' = [job EXCEPT ![c] = Sending("sending", Changes(c, p), "idle")]
    <3>1. Stepped(job, job', JobPcs, c, {"sending", "idle"}, 0)  BY <2>3, <1>0, <1>1
    <3> QED  BY <3>1, <2>1 DEF JobTo, Stepped
  <2> QED  BY <1>2, <2>2, <2>3 DEF Move
<1>3. MoveSends(c) => JobTo(c, {"idle", "sending"}, 0)
  <2>1. ASSUME MoveSends(c)
        PROVE  UNCHANGED hook /\ \E o : job' = [job EXCEPT ![c] = Sending("sending", o, "idle")]
    BY <2>1, Zenon DEF MoveSends
  <2>2. ASSUME NEW o, job' = [job EXCEPT ![c] = Sending("sending", o, "idle")]
        PROVE  Stepped(job, job', JobPcs, c, {"sending", "idle"}, 0)
    BY <2>2, <1>0, <1>1
  <2> QED  BY <2>1, <2>2 DEF JobTo, Stepped
<1>4. ASSUME NEW r \in RoomIDs, JoinRoom(c, r)
      PROVE  \/ UNCHANGED <<hook, job>>
             \/ JobTo(c, {"join"}, r) /\ r \in DOMAIN rooms /\ roomID[c] # r
  BY <1>4, <1>0, <1>1 DEF JoinRoom, JobTo
<1>5. JoinNew(c) => IF R!mayJoin(rooms[job[c].room], c)
                    THEN JobTo(c, {"leaveOld"}, job[c].room) ELSE JobTo(c, {"idle"}, 0)
  BY <1>0, <1>1 DEF JoinNew, JobTo
<1>6. LeaveOld(c) => IF roomID[c] = 0 \/ R!mayLeave(rooms[roomID[c]], c)
                     THEN JobTo(c, {"set"}, job[c].room)
                     ELSE JobTo(c, {"rollback"}, job[c].room)
  BY <1>0, <1>1 DEF LeaveOld, JobTo
<1>7. Rollback(c) \/ SetRoomID(c) \/ RemoveRoomID(c) => JobTo(c, {"idle"}, 0)
  BY <1>0, <1>1 DEF Rollback, SetRoomID, RemoveRoomID, JobTo
<1>8. LeaveRoom(c) => \/ UNCHANGED <<hook, job>>
                      \/ JobTo(c, {"leave"}, roomID[c]) /\ roomID[c] # 0
  BY <1>0, <1>1 DEF LeaveRoom, JobTo
<1>9. LeaveCurrent(c) => IF R!mayLeave(rooms[job[c].room], c)
                         THEN JobTo(c, {"unset"}, job[c].room) ELSE JobTo(c, {"idle"}, 0)
  BY <1>0, <1>1 DEF LeaveCurrent, JobTo
<1> QED  BY <1>2, <1>3, <1>4, <1>5, <1>6, <1>7, <1>8, <1>9

-----------------------------------------------------------------------------
(***************************************************************************)
(* The world.                                                              *)
(***************************************************************************)

\* A step of a hook that leaves the world alone: the player stays where the
\* hook may still find it.
LEMMA WorldKept ==
    ASSUME WorldInv, NEW c \in Conns,
           UNCHANGED <<worldVars, nextPlayerID, playerID>>, sessions' \subseteq sessions,
           \A d \in Conns \ {c} : hook'[d].pc = hook[d].pc,
           hook'[c].pc = "add" => hook[c].pc = "add",
           hook[c].pc \in Playing /\ c \in DOMAIN players => hook'[c].pc \in Playing,
           c \in sessions' => hook'[c].pc # "gone"
    PROVE  WorldInv'
<1>1. positions' = positions  BY DEF positions, worldVars
<1>2. GridOK(aoi, positions)'
  BY <1>1 DEF WorldInv, worldVars, GridOK, EntitiesOK, CellsOK
<1>3. Numbers'  BY DEF WorldInv, Numbers
<1>4. PlayersOK'
  <2>1. players' = players /\ playerID' = playerID  BY DEF worldVars
  <2>2. \A d \in DOMAIN players : hook'[d].pc \in Playing
    BY DEF WorldInv, PlayersOK
  <2> QED  BY <2>1, <2>2 DEF WorldInv, PlayersOK
<1>5. IndexOK'  BY DEF WorldInv, IndexOK, worldVars
<1>6. SessionsOK'  BY DEF WorldInv, SessionsOK
<1> QED  BY <1>2, <1>3, <1>4, <1>5, <1>6 DEF WorldInv

\* Login gives a new connection a number that no other has.
LEMMA WorldLogin ==
    ASSUME ThreadInv, WorldInv, NEW c \in Conns, Login(c)
    PROVE  WorldInv'
<1>1. HookTo(c, {"add", "refused"}, 0)  BY HookEffects
<1>2. /\ hook[c].pc = "new" /\ nextPlayerID' = nextPlayerID + 1
      /\ UNCHANGED <<players, playerIDs, aoi>>
      /\ sessions' \subseteq sessions \cup {c}
  BY DEF Login, worldVars
<1>3. c \notin DOMAIN players
  BY <1>2 DEF WorldInv, PlayersOK, Playing, Serving
<1>4. \A d \in Conns \ {c} : playerID'[d] = playerID[d]
  BY DEF Login, WorldInv, Numbers
<1>5. Numbers'
  <2>1. CASE playerID' = [playerID EXCEPT ![c] = nextPlayerID + 1]
    <3>1. playerID' \in [Conns -> Nat] /\ playerID'[c] = nextPlayerID + 1
      BY <2>1 DEF WorldInv, Numbers
    <3>2. \A d \in Conns : hook'[d].pc = "add" => playerID'[d] # 0
      BY <3>1, <1>1, <1>4 DEF WorldInv, Numbers, HookTo, Stepped
    <3>3. \A d, e \in Conns : d # e /\ playerID'[d] = playerID'[e] => playerID'[d] = 0
      BY <3>1, <1>4 DEF WorldInv, Numbers
    <3>4. \A d \in Conns : playerID'[d] <= nextPlayerID'
      BY <3>1, <1>2, <1>4 DEF WorldInv, Numbers
    <3> QED  BY <3>1, <3>2, <3>3, <3>4, <1>2 DEF WorldInv, Numbers
  <2>2. CASE UNCHANGED playerID /\ hook' = [hook EXCEPT ![c] = At("refused")]
    <3>1. hook'[c].pc = "refused"  BY <2>2, ThreadStates DEF ThreadInv, Threads
    <3>2. \A d \in Conns : hook'[d].pc = "add" => playerID'[d] # 0
      BY <3>1, <2>2, <1>1 DEF WorldInv, Numbers, HookTo, Stepped
    <3> QED  BY <3>2, <2>2, <1>2 DEF WorldInv, Numbers
  <2> QED  BY <2>1, <2>2 DEF Login
<1>6. PlayersOK'
  <2>1. \A d \in DOMAIN players : hook'[d] = hook[d] /\ playerID'[d] = playerID[d]
    BY <1>1, <1>3, <1>4 DEF WorldInv, PlayersOK, HookTo, Stepped
  <2> QED  BY <2>1, <1>2 DEF WorldInv, PlayersOK
<1>7. IndexOK'
  <2>1. \A d \in DOMAIN players : playerID'[d] = playerID[d]
    BY <1>3, <1>4 DEF WorldInv, PlayersOK
  <2> QED  BY <2>1, <1>2 DEF WorldInv, IndexOK
<1>8. SessionsOK'
  BY <1>1, <1>2 DEF WorldInv, SessionsOK, HookTo, Stepped
<1>9. GridOK(aoi, positions)'
  <2>1. positions' = positions  BY <1>2 DEF positions
  <2> QED  BY <2>1, <1>2 DEF WorldInv, GridOK, EntitiesOK, CellsOK
<1> QED  BY <1>5, <1>6, <1>7, <1>8, <1>9 DEF WorldInv

\* AddPlayerWithPID enters the player into all three maps.
LEMMA WorldAdd ==
    ASSUME ThreadInv, WorldInv, NEW c \in Conns, AddPlayerWithPID(c)
    PROVE  WorldInv'
<1>1. HookTo(c, {"room"}, 0)  BY HookEffects
<1>2. /\ hook[c].pc = "add"
      /\ players' = Put(players, c, [pid |-> playerID[c], position |-> Origin])
      /\ playerIDs' = Put(playerIDs, playerID[c], c)
      /\ aoi' = AddEntity(aoi, c, Origin)
      /\ UNCHANGED <<sessions, nextPlayerID, playerID>>
  BY DEF AddPlayerWithPID, connVars
<1>3. c \notin DOMAIN players /\ playerID[c] # 0
  BY <1>2 DEF WorldInv, PlayersOK, Numbers, Playing, Serving
<1>4. /\ DOMAIN players' = DOMAIN players \cup {c}
      /\ players'[c] = [pid |-> playerID[c], position |-> Origin]
      /\ \A d \in DOMAIN players : players'[d] = players[d]
      /\ players' = [d \in DOMAIN players' |-> players'[d]]
  BY <1>2, <1>3 DEF Put
<1>5. Origin \in Place  BY DEF Origin, Place
<1>6. PlayersOK'
  <2>1. \A d \in DOMAIN players' : players'[d] =
           [pid |-> players'[d].pid, position |-> players'[d].position]
    BY <1>4 DEF WorldInv, PlayersOK
  <2>2. \A d \in DOMAIN players' :
           /\ players'[d].pid = playerID'[d] /\ playerID'[d] # 0
           /\ players'[d].position \in Place
    BY <1>2, <1>3, <1>4, <1>5 DEF WorldInv, PlayersOK
  <2>3. \A d \in DOMAIN players' : hook'[d].pc \in Playing
    BY <1>1, <1>3, <1>4 DEF WorldInv, PlayersOK, HookTo, Stepped, Playing
  <2>4. DOMAIN players' \subseteq Conns  BY <1>4 DEF WorldInv, PlayersOK
  <2>5. players' = [d \in DOMAIN players' |->
                      [pid |-> players'[d].pid, position |-> players'[d].position]]
    BY <2>1, <1>4
  <2> QED  BY <2>2, <2>3, <2>4, <2>5 DEF PlayersOK
<1>7. IndexOK'
  <2>1. /\ DOMAIN playerIDs' = DOMAIN playerIDs \cup {playerID[c]}
        /\ playerIDs'[playerID[c]] = c
        /\ \A n \in DOMAIN playerIDs \ {playerID[c]} : playerIDs'[n] = playerIDs[n]
    BY <1>2 DEF Put
  <2>2. \A d \in DOMAIN players : playerID[d] # playerID[c] /\ playerID[d] \in DOMAIN playerIDs
    BY <1>3 DEF WorldInv, PlayersOK, Numbers, IndexOK
  <2>3. DOMAIN playerIDs' = {playerID'[d] : d \in DOMAIN players'}
    BY <2>1, <1>2, <1>4 DEF WorldInv, IndexOK
  <2>4. \A d \in DOMAIN players' : playerIDs'[playerID'[d]] = d
    BY <2>1, <2>2, <1>2, <1>4 DEF WorldInv, IndexOK
  <2> QED  BY <2>3, <2>4 DEF IndexOK
<1>8. Numbers' /\ SessionsOK'
  BY <1>1, <1>2 DEF WorldInv, Numbers, SessionsOK, HookTo, Stepped
<1>9. GridOK(aoi, positions)'
  <2>1. positions' = Put(positions, c, Origin)
    BY <1>3, <1>4 DEF positions, Put
  <2>2. c \notin DOMAIN positions  BY <1>3 DEF positions
  <2>3. GridOK(AddEntity(aoi, c, Origin), Put(positions, c, Origin))
    BY <2>2, GridAdd DEF WorldInv
  <2>4. GridOK(aoi', positions')  BY <2>1, <2>3, <1>2
  <2> QED  BY <2>4 DEF GridOK, EntitiesOK, CellsOK
<1> QED  BY <1>6, <1>7, <1>8, <1>9 DEF WorldInv


\* RemovePlayerWithVisibility takes the player out of all three maps.
LEMMA WorldRemove ==
    ASSUME ThreadInv, WorldInv, NEW c \in Conns, RemovePlayer(c)
    PROVE  WorldInv'
<1>1. HookTo(c, {"leaving", "logout"}, 0)  BY HookEffects
<1>2. hook[c].pc = "remove" /\ UNCHANGED <<sessions, nextPlayerID, playerID>>
  BY DEF RemovePlayer, connVars
<1>3. CASE c \notin DOMAIN players
  <2>1. UNCHANGED worldVars  BY <1>3 DEF RemovePlayer
  <2> QED  BY <2>1, <1>1, <1>2, <1>3, WorldKept DEF HookTo, Stepped
<1>4. CASE c \in DOMAIN players
  <2>1. /\ players' = Delete(players, {c})
        /\ playerIDs' = Delete(playerIDs, {playerID[c]})
        /\ aoi' = RemoveEntity(aoi, c)
    BY <1>4 DEF RemovePlayer, pidOf, WorldInv, PlayersOK
  <2>2. /\ DOMAIN players' = DOMAIN players \ {c}
        /\ \A d \in DOMAIN players' : players'[d] = players[d]
        /\ players' = [d \in DOMAIN players' |-> players'[d]]
    BY <2>1 DEF Delete
  <2>3. PlayersOK'
    <3>1. \A d \in DOMAIN players' : players'[d] =
             [pid |-> players'[d].pid, position |-> players'[d].position]
      BY <2>2 DEF WorldInv, PlayersOK
    <3>2. \A d \in DOMAIN players' :
             /\ players'[d].pid = playerID'[d] /\ playerID'[d] # 0
             /\ players'[d].position \in Place
             /\ hook'[d].pc \in Playing
      BY <2>2, <1>1, <1>2 DEF WorldInv, PlayersOK, HookTo, Stepped
    <3>3. DOMAIN players' \subseteq Conns  BY <2>2 DEF WorldInv, PlayersOK
    <3>4. players' = [d \in DOMAIN players' |->
                        [pid |-> players'[d].pid, position |-> players'[d].position]]
      BY <3>1, <2>2
    <3> QED  BY <3>2, <3>3, <3>4 DEF PlayersOK
  <2>4. IndexOK'
    <3>1. /\ DOMAIN playerIDs' = DOMAIN playerIDs \ {playerID[c]}
          /\ \A n \in DOMAIN playerIDs' : playerIDs'[n] = playerIDs[n]
      BY <2>1 DEF Delete
    <3>2. \A d \in DOMAIN players' : playerID[d] # playerID[c] /\ playerID[d] \in DOMAIN playerIDs
      BY <2>2, <1>4 DEF WorldInv, PlayersOK, Numbers, IndexOK
    <3>3. DOMAIN playerIDs' = {playerID'[d] : d \in DOMAIN players'}
      BY <3>1, <3>2, <2>2, <1>2 DEF WorldInv, IndexOK
    <3>4. \A d \in DOMAIN players' : playerIDs'[playerID'[d]] = d
      BY <3>1, <3>2, <2>2, <1>2 DEF WorldInv, IndexOK
    <3> QED  BY <3>3, <3>4 DEF IndexOK
  <2>5. Numbers' /\ SessionsOK'
    BY <1>1, <1>2 DEF WorldInv, Numbers, SessionsOK, HookTo, Stepped
  <2>6. GridOK(aoi, positions)'
    <3>1. positions' = Delete(positions, {c})
      BY <2>2 DEF positions, Delete
    <3>2. c \in DOMAIN positions  BY <1>4 DEF positions
    <3>3. GridOK(RemoveEntity(aoi, c), Delete(positions, {c}))
      BY <3>2, GridRemove DEF WorldInv
    <3>4. GridOK(aoi', positions')  BY <3>1, <3>3, <2>1
    <3> QED  BY <3>4 DEF GridOK, EntitiesOK, CellsOK
  <2> QED  BY <2>3, <2>4, <2>5, <2>6 DEF WorldInv
<1> QED  BY <1>3, <1>4

\* A move changes the place of a player who is there, in the map and the grid.
LEMMA WorldMove ==
    ASSUME ThreadInv, WorldInv, NEW c \in Conns, NEW p \in Positions, Move(c, p)
    PROVE  WorldInv'
<1>1. UNCHANGED <<playerIDs, sessions, nextPlayerID, playerID, hook>>
  BY DEF Move, connVars
<1>2. CASE UNCHANGED <<players, aoi>>
  BY <1>1, <1>2, WorldKept DEF worldVars, WorldInv, SessionsOK
<1>3. CASE /\ mayMove(c, p) /\ players' = [players EXCEPT ![c].position = p]
           /\ aoi' = MoveEntity(aoi, c, p)
  <2>1. c \in DOMAIN players /\ p \in Place
    BY <1>3, UnityAssumption DEF mayMove, inWorld, Place
  <2>2. /\ DOMAIN players' = DOMAIN players
        /\ players'[c] = [players[c] EXCEPT !.position = p]
        /\ \A d \in DOMAIN players \ {c} : players'[d] = players[d]
        /\ players' = [d \in DOMAIN players' |-> players'[d]]
    BY <2>1, <1>3 DEF WorldInv, PlayersOK
  <2>3. players[c] = [pid |-> players[c].pid, position |-> players[c].position]
    BY <2>1 DEF WorldInv, PlayersOK
  <2>4. players'[c] = [pid |-> players[c].pid, position |-> p]
    BY <2>2, <2>3
  <2>5. PlayersOK'
    <3>1. \A d \in DOMAIN players' : players'[d] =
             [pid |-> players'[d].pid, position |-> players'[d].position]
      BY <2>2, <2>4 DEF WorldInv, PlayersOK
    <3>2. \A d \in DOMAIN players' :
             /\ players'[d].pid = playerID'[d] /\ playerID'[d] # 0
             /\ players'[d].position \in Place
             /\ hook'[d].pc \in Playing
      BY <2>1, <2>2, <2>4, <1>1 DEF WorldInv, PlayersOK
    <3>3. DOMAIN players' \subseteq Conns  BY <2>2 DEF WorldInv, PlayersOK
    <3>4. players' = [d \in DOMAIN players' |->
                        [pid |-> players'[d].pid, position |-> players'[d].position]]
      BY <3>1, <2>2
    <3> QED  BY <3>2, <3>3, <3>4 DEF PlayersOK
  <2>6. IndexOK' /\ Numbers' /\ SessionsOK'
    BY <2>2, <1>1 DEF WorldInv, IndexOK, Numbers, SessionsOK
  <2>7. GridOK(aoi, positions)'
    <3>1. positions' = Put(positions, c, p)
      BY <2>1, <2>2, <2>4 DEF positions, Put
    <3>2. c \in DOMAIN positions  BY <2>1 DEF positions
    <3>3. GridOK(MoveEntity(aoi, c, p), Put(positions, c, p))
      BY <3>2, GridMove DEF WorldInv
    <3>4. GridOK(aoi', positions')  BY <3>1, <3>3, <1>3
    <3> QED  BY <3>4 DEF GridOK, EntitiesOK, CellsOK
  <2> QED  BY <2>5, <2>6, <2>7 DEF WorldInv
<1> QED  BY <1>2, <1>3 DEF Move

\* A step that changes neither the world nor a hook.
LEMMA WorldSame ==
    ASSUME WorldInv, UNCHANGED <<worldVars, sessions, nextPlayerID, playerID, hook>>
    PROVE  WorldInv'
<1>1. positions' = positions  BY DEF positions, worldVars
<1>2. GridOK(aoi, positions)'
  BY <1>1 DEF WorldInv, worldVars, GridOK, EntitiesOK, CellsOK
<1>3. players' = players /\ playerIDs' = playerIDs  BY DEF worldVars
<1>4. PlayersOK'  BY <1>3 DEF WorldInv, PlayersOK
<1> QED  BY <1>2, <1>3, <1>4 DEF WorldInv, Numbers, IndexOK, SessionsOK

\* Every step keeps the world.
LEMMA WorldNext ==
    ASSUME ThreadInv, WorldInv, [Next]_vars
    PROVE  WorldInv'
<1>1. ASSUME NEW c \in Conns, StartHook(c) PROVE WorldInv'
  <2> USE HookEffects, WorldKept DEF HookTo, Stepped, connVars, Playing, Serving
  <2>1. CASE JoinFirstRoom(c)  BY <2>1 DEF JoinFirstRoom, WorldInv, SessionsOK
  <2>2. CASE Sync(c)  BY <2>2 DEF Sync
  <2>3. CASE Announce(c)  BY <2>3 DEF Announce
  <2>4. CASE HookSends(c, "announcing", "running")  BY <2>4 DEF HookSends
  <2> QED  BY <1>1, <2>1, <2>2, <2>3, <2>4, WorldLogin, WorldAdd DEF StartHook
<1>2. ASSUME NEW c \in Conns, StopHook(c) PROVE WorldInv'
  <2> USE HookEffects, WorldKept DEF HookTo, Stepped, connVars, Playing, Serving
  <2>1. CASE StopEnter(c)  BY <2>1 DEF StopEnter
  <2>2. CASE StopLeave(c)  BY <2>2 DEF StopLeave
  <2>3. CASE HookSends(c, "leaving", "logout")  BY <2>3 DEF HookSends
  <2>4. CASE LogoutByConnID(c)
    <3>1. sessions' = sessions \ {c} /\ hook[c].pc = "logout"
          /\ UNCHANGED <<worldVars, nextPlayerID, playerID>>
      BY <2>4 DEF LogoutByConnID
    <3> QED  BY <2>4, <3>1
  <2> QED  BY <1>2, <2>1, <2>2, <2>3, <2>4, WorldRemove DEF StopHook
<1>3. ASSUME NEW c \in Conns, Disconnect(c) PROVE WorldInv'
  BY <1>3, WorldSame DEF Disconnect
<1>4. ASSUME NEW c \in Conns, Routers(c) PROVE WorldInv'
  BY <1>4, WorldSame DEF Routers, LeaveRoom, MoveSends, JoinNew, LeaveOld, Rollback,
     SetRoomID, LeaveCurrent, RemoveRoomID, connVars
<1>5. ASSUME NEW c \in Conns, NEW r \in RoomIDs, CreateRoom(c, r) \/ JoinRoom(c, r)
      PROVE  WorldInv'
  BY <1>5, WorldSame DEF CreateRoom, JoinRoom, connVars
<1>6. CASE UNCHANGED vars
  BY <1>6, WorldSame DEF vars, connVars
<1> QED  BY <1>1, <1>2, <1>3, <1>4, <1>5, <1>6, WorldMove DEF Next, Finished

-----------------------------------------------------------------------------
(***************************************************************************)
(* The rooms.                                                              *)
(***************************************************************************)

\* The Cardinality of module Room is the one of the library.
LEMMA RoomCardinality == \A S : R!Cardinality(S) = Cardinality(S)
BY DEF R!Cardinality, Cardinality

\* Join under its guard: one more member, within the limit.
LEMMA RoomJoin ==
    ASSUME RoomsOK, NEW c \in Conns, NEW r \in DOMAIN rooms, R!mayJoin(rooms[r], c),
           rooms' = [rooms EXCEPT ![r] = R!Joined(@, c)]
    PROVE  /\ RoomsOK' /\ DOMAIN rooms' = DOMAIN rooms
           /\ memberOf(c)' = memberOf(c) \cup {r}
           /\ \A d \in Conns \ {c} : memberOf(d)' = memberOf(d)
<1>1. rooms[r] = [max |-> rooms[r].max, members |-> rooms[r].members]
  BY DEF RoomsOK
<1>2. R!Joined(rooms[r], c) = [max |-> rooms[r].max, members |-> rooms[r].members \cup {c}]
  BY <1>1 DEF R!Joined
<1>3. /\ DOMAIN rooms' = DOMAIN rooms
      /\ rooms'[r] = [max |-> rooms[r].max, members |-> rooms[r].members \cup {c}]
      /\ \A q \in DOMAIN rooms \ {r} : rooms'[q] = rooms[q]
      /\ rooms' = [q \in DOMAIN rooms' |-> rooms'[q]]
  BY <1>2 DEF RoomsOK
<1>4. /\ \A q \in DOMAIN rooms : rooms'[q].max = rooms[q].max
      /\ \A q \in DOMAIN rooms \ {r} : rooms'[q].members = rooms[q].members
      /\ rooms'[r].members = rooms[r].members \cup {c}
  BY <1>3
<1>5. \A q \in DOMAIN rooms' : rooms'[q] = [max |-> rooms'[q].max, members |-> rooms'[q].members]
  BY <1>3 DEF RoomsOK
<1>6. \A q \in DOMAIN rooms' : IsFiniteSet(rooms'[q].members)
  <2>1. IsFiniteSet(rooms[r].members \cup {c})
    BY FS_AddElement DEF RoomsOK
  <2>2. \A q \in DOMAIN rooms \ {r} : IsFiniteSet(rooms'[q].members)
    BY <1>4 DEF RoomsOK
  <2> QED  BY <2>1, <2>2, <1>3, <1>4
<1>7. FirstRoomMax > 0 => Cardinality(rooms'[1].members) <= FirstRoomMax
  <2>1. CASE r = 1
    <3>1. IsFiniteSet(rooms[1].members) /\ rooms[1].max = FirstRoomMax
      BY DEF RoomsOK
    <3>2. c \notin rooms[1].members
          /\ (FirstRoomMax > 0 => Cardinality(rooms[1].members) < FirstRoomMax)
      BY <2>1, <3>1, RoomCardinality DEF R!mayJoin
    <3>3. /\ Cardinality(rooms[1].members \cup {c}) = Cardinality(rooms[1].members) + 1
          /\ Cardinality(rooms[1].members) \in Nat
      BY <3>1, <3>2, FS_AddElement, FS_CardinalityType
    <3>4. rooms'[1].members = rooms[1].members \cup {c}  BY <2>1, <1>4
    <3>5. Cardinality(rooms'[1].members) = Cardinality(rooms[1].members) + 1
      BY <3>3, <3>4
    <3> QED  BY <3>2, <3>3, <3>5, UnityAssumption
  <2>2. CASE r # 1
    BY <2>2, <1>4 DEF RoomsOK
  <2> QED  BY <2>1, <2>2
<1>8. rooms' = [q \in DOMAIN rooms' |-> [max |-> rooms'[q].max, members |-> rooms'[q].members]]
  BY <1>3, <1>5
<1>9. RoomsOK'
  <2>1. DOMAIN rooms' \subseteq Nat \ {0} /\ 1 \in DOMAIN rooms' /\ rooms'[1].max = FirstRoomMax
    BY <1>3, <1>4 DEF RoomsOK
  <2> QED  BY <2>1, <1>6, <1>7, <1>8 DEF RoomsOK
<1>10. memberOf(c)' = memberOf(c) \cup {r}
  BY <1>3, <1>4 DEF memberOf
<1>11. \A d \in Conns \ {c} : memberOf(d)' = memberOf(d)
  BY <1>3, <1>4 DEF memberOf
<1> QED  BY <1>3, <1>9, <1>10, <1>11

\* Leave of a room, or an error that changes nothing.
LEMMA RoomLeave ==
    ASSUME RoomsOK, NEW c \in Conns, NEW r, rooms' = [rooms EXCEPT ![r] = R!Left(@, c)]
    PROVE  /\ RoomsOK' /\ DOMAIN rooms' = DOMAIN rooms
           /\ memberOf(c)' = memberOf(c) \ {r}
           /\ \A d \in Conns \ {c} : memberOf(d)' = memberOf(d)
<1>0. CASE r \notin DOMAIN rooms
  <2>1. rooms' = rooms  BY <1>0 DEF RoomsOK
  <2> QED  BY <2>1, <1>0 DEF RoomsOK, memberOf
<1>00. CASE r \in DOMAIN rooms
  <2>1. rooms[r] = [max |-> rooms[r].max, members |-> rooms[r].members]
    BY <1>00 DEF RoomsOK
  <2>2. R!Left(rooms[r], c) = [max |-> rooms[r].max, members |-> rooms[r].members \ {c}]
    BY <2>1 DEF R!Left
  <2>3. /\ DOMAIN rooms' = DOMAIN rooms
        /\ rooms'[r] = [max |-> rooms[r].max, members |-> rooms[r].members \ {c}]
        /\ \A q \in DOMAIN rooms \ {r} : rooms'[q] = rooms[q]
        /\ rooms' = [q \in DOMAIN rooms' |-> rooms'[q]]
    BY <1>00, <2>2 DEF RoomsOK
  <2>4. /\ \A q \in DOMAIN rooms : rooms'[q].max = rooms[q].max
        /\ \A q \in DOMAIN rooms \ {r} : rooms'[q].members = rooms[q].members
        /\ rooms'[r].members = rooms[r].members \ {c}
    BY <1>00, <2>3
  <2>5. \A q \in DOMAIN rooms' :
           rooms'[q] = [max |-> rooms'[q].max, members |-> rooms'[q].members]
    BY <2>3 DEF RoomsOK
  <2>6. \A q \in DOMAIN rooms' :
           /\ IsFiniteSet(rooms'[q].members)
           /\ Cardinality(rooms'[q].members) <= Cardinality(rooms[q].members)
           /\ Cardinality(rooms'[q].members) \in Nat /\ Cardinality(rooms[q].members) \in Nat
    <3> TAKE q \in DOMAIN rooms'
    <3>1. IsFiniteSet(rooms[q].members) /\ rooms'[q].members \subseteq rooms[q].members
      BY <2>3, <2>4 DEF RoomsOK
    <3> QED  BY <3>1, FS_Subset, FS_CardinalityType
  <2>7. FirstRoomMax > 0 => Cardinality(rooms'[1].members) <= FirstRoomMax
    BY <2>3, <2>6, UnityAssumption DEF RoomsOK
  <2>8. rooms' = [q \in DOMAIN rooms' |->
                    [max |-> rooms'[q].max, members |-> rooms'[q].members]]
    BY <2>3, <2>5
  <2>9. RoomsOK'
    <3>1. DOMAIN rooms' \subseteq Nat \ {0} /\ 1 \in DOMAIN rooms'
          /\ rooms'[1].max = FirstRoomMax
      BY <2>3, <2>4 DEF RoomsOK
    <3> QED  BY <3>1, <2>6, <2>7, <2>8 DEF RoomsOK
  <2>10. memberOf(c)' = memberOf(c) \ {r}
    BY <2>3, <2>4 DEF memberOf
  <2>11. \A d \in Conns \ {c} : memberOf(d)' = memberOf(d)
    BY <2>3, <2>4 DEF memberOf
  <2> QED  BY <2>3, <2>9, <2>10, <2>11
<1> QED  BY <1>0, <1>00

\* A new room has no members.
LEMMA RoomCreate ==
    ASSUME RoomsOK, NEW r \in RoomIDs, r \notin DOMAIN rooms,
           rooms' = Put(rooms, r, R!NewRoom(0))
    PROVE  /\ RoomsOK' /\ DOMAIN rooms \subseteq DOMAIN rooms'
           /\ \A d \in Conns : memberOf(d)' = memberOf(d)
<1>1. /\ DOMAIN rooms' = DOMAIN rooms \cup {r} /\ rooms'[r] = [max |-> 0, members |-> {}]
      /\ \A q \in DOMAIN rooms : rooms'[q] = rooms[q]
      /\ rooms' = [q \in DOMAIN rooms' |-> rooms'[q]]
  BY DEF Put, R!NewRoom
<1>2. \A q \in DOMAIN rooms' : rooms'[q] = [max |-> rooms'[q].max, members |-> rooms'[q].members]
  BY <1>1 DEF RoomsOK
<1>3. \A q \in DOMAIN rooms' : IsFiniteSet(rooms'[q].members)
  <2>1. IsFiniteSet(rooms'[r].members)  BY <1>1, FS_EmptySet
  <2>2. \A q \in DOMAIN rooms : IsFiniteSet(rooms'[q].members)  BY <1>1 DEF RoomsOK
  <2> QED  BY <2>1, <2>2, <1>1
<1>4. rooms' = [q \in DOMAIN rooms' |-> [max |-> rooms'[q].max, members |-> rooms'[q].members]]
  BY <1>1, <1>2
<1>5. DOMAIN rooms' \subseteq Nat \ {0} /\ 1 \in DOMAIN rooms /\ rooms'[1] = rooms[1]
  BY <1>1, UnityAssumption DEF RoomsOK
<1>6. RoomsOK'
  BY <1>1, <1>3, <1>4, <1>5 DEF RoomsOK
<1>7. \A d \in Conns : memberOf(d)' = memberOf(d)
  BY <1>1 DEF memberOf
<1> QED  BY <1>1, <1>6, <1>7


\* A step of one connection leaves the membership of the others alone.
LEMMA RoomStep ==
    ASSUME RoomInv, NEW c \in Conns, RoomsOK', DOMAIN rooms \subseteq DOMAIN rooms',
           DOMAIN roomID' = Conns,
           \A d \in Conns \ {c} : /\ hook'[d] = hook[d] /\ job'[d] = job[d]
                                  /\ roomID'[d] = roomID[d] /\ memberOf(d)' = memberOf(d),
           late \subseteq late', late' \subseteq late \cup {c},
           Membership(c)'
    PROVE  RoomInv'
<1>1. ASSUME NEW d \in Conns \ {c} PROVE Membership(d)'
  <2>1. /\ hook'[d] = hook[d] /\ job'[d] = job[d] /\ roomID'[d] = roomID[d]
        /\ memberOf(d)' = memberOf(d) /\ (d \in late' <=> d \in late)
    BY <1>1
  <2>2. Membership(d)  BY <1>1 DEF RoomInv
  <2>3. DuringRequest(d) => DuringRequest(d)'
    BY <2>1 DEF DuringRequest
  <2>4. AtMost(d) => AtMost(d)'
    BY <2>1 DEF AtMost
  <2> QED  BY <2>1, <2>2, <2>3, <2>4 DEF Membership, Stopping
<1> QED  BY <1>1 DEF RoomInv

\* Taking a room away never breaks the bound.
LEMMA AtMostKept ==
    ASSUME NEW c \in Conns, AtMost(c), UNCHANGED <<job, roomID>>,
           memberOf(c)' \subseteq memberOf(c), DOMAIN rooms \subseteq DOMAIN rooms'
    PROVE  AtMost(c)'
BY DEF AtMost

\* A step that changes neither rooms nor requests, and leaves the hook of a
\* connection in the same part of its life.
LEMMA RoomHook ==
    ASSUME RoomInv, NEW c \in Conns, NEW to, NEW r, HookTo(c, to, r),
           UNCHANGED <<rooms, roomID, late>>,
           \/ hook[c].pc \in Before /\ to \subseteq Before
           \/ hook[c].pc \in Serving \ {"running"} /\ to \subseteq Serving
           \/ hook[c].pc \in After /\ to \subseteq After
    PROVE  RoomInv'
<1>1. \A d \in Conns : memberOf(d)' = memberOf(d)  BY DEF memberOf
<1>2. /\ \A d \in Conns \ {c} : hook'[d] = hook[d]
      /\ hook'[c].pc \in to /\ UNCHANGED job
  BY DEF HookTo, Stepped
<1>3. Membership(c)  BY DEF RoomInv
<1>4. DuringRequest(c) => DuringRequest(c)'
  BY <1>1, <1>2 DEF DuringRequest
<1>a. AtMost(c)'
  BY <1>1, <1>2, <1>3, AtMostKept DEF Membership
<1>5. Membership(c)'
  <2>1. CASE hook[c].pc \in Before /\ to \subseteq Before
    BY <2>1, <1>1, <1>2, <1>3, <1>a DEF Membership, Before, Serving, After, Stopping
  <2>2. CASE hook[c].pc \in Serving \ {"running"} /\ to \subseteq Serving
    BY <2>2, <1>1, <1>2, <1>3, <1>4, <1>a DEF Membership, Before, Serving, After, Stopping
  <2>3. CASE hook[c].pc \in After /\ to \subseteq After
    BY <2>3, <1>1, <1>2, <1>3, <1>a DEF Membership, Before, Serving, After, Stopping
  <2> QED  BY <2>1, <2>2, <2>3
<1> QED  BY <1>1, <1>2, <1>5, RoomStep DEF RoomInv, RoomsOK

\* The start hook joins room 1, or no room when it is full.
LEMMA RoomFirst ==
    ASSUME ThreadInv, RoomInv, NEW c \in Conns, JoinFirstRoom(c)
    PROVE  RoomInv'
<1>1. HookTo(c, {"sync"}, hook[c].room)  BY HookEffects
<1>2. /\ \A d \in Conns \ {c} : hook'[d] = hook[d]
      /\ hook'[c].pc = "sync" /\ UNCHANGED <<job, late>> /\ hook[c].pc = "room"
  BY <1>1 DEF HookTo, Stepped, JoinFirstRoom
<1>3. roomID[c] = 0 /\ memberOf(c) = {} /\ job[c].pc = "idle" /\ 1 \in DOMAIN rooms
  BY <1>2 DEF RoomInv, RoomsOK, Membership, Before
<1>4. /\ RoomsOK' /\ DOMAIN rooms' = DOMAIN rooms /\ DOMAIN roomID' = Conns
      /\ memberOf(c)' = Named(roomID'[c])
      /\ \A d \in Conns \ {c} : memberOf(d)' = memberOf(d) /\ roomID'[d] = roomID[d]
  <2>1. CASE /\ R!mayJoin(rooms[1], c) /\ rooms' = [rooms EXCEPT ![1] = R!Joined(@, c)]
             /\ roomID' = [roomID EXCEPT ![c] = 1]
    <3>1. /\ RoomsOK' /\ DOMAIN rooms' = DOMAIN rooms
          /\ memberOf(c)' = memberOf(c) \cup {1}
          /\ \A d \in Conns \ {c} : memberOf(d)' = memberOf(d)
      BY <2>1, <1>3, RoomJoin DEF RoomInv
    <3>2. /\ DOMAIN roomID' = Conns /\ roomID'[c] = 1
          /\ \A d \in Conns \ {c} : roomID'[d] = roomID[d]
      BY <2>1 DEF RoomInv
    <3> QED  BY <3>1, <3>2, <1>3 DEF Named
  <2>2. CASE UNCHANGED <<rooms, roomID>>
    BY <2>2, <1>3 DEF RoomInv, RoomsOK, memberOf, Named
  <2> QED  BY <2>1, <2>2 DEF JoinFirstRoom
<1>5. Membership(c)'
  BY <1>2, <1>3, <1>4 DEF Membership, AtMost, DuringRequest, Before, Serving, After, Stopping
<1> QED  BY <1>2, <1>4, <1>5, RoomStep

\* The stop hook reads the room, and the requests that run on are noted.
LEMMA RoomStopEnter ==
    ASSUME ThreadInv, RoomInv, NEW c \in Conns, StopEnter(c)
    PROVE  RoomInv'
<1>1. HookTo(c, {"stop"}, roomID[c])  BY HookEffects
<1>2. /\ \A d \in Conns \ {c} : hook'[d] = hook[d]
      /\ hook'[c].pc = "stop" /\ hook'[c].room = roomID[c] /\ UNCHANGED <<job, rooms, roomID>>
      /\ hook[c].pc \in {"running", "refused"}
      /\ late' = IF job[c].pc = "idle" THEN late ELSE late \cup {c}
  BY <1>1 DEF HookTo, Stepped, StopEnter
<1>3. \A d \in Conns : memberOf(d)' = memberOf(d)  BY <1>2 DEF memberOf
<1>4. c \notin late' => job[c].pc = "idle" /\ memberOf(c) = Named(roomID[c])
  BY <1>2 DEF RoomInv, Membership, DuringRequest, Before, Serving, Named
<1>a. AtMost(c)'
  BY <1>2, <1>3, AtMostKept DEF RoomInv, Membership
<1>5. Membership(c)'
  BY <1>2, <1>3, <1>4, <1>a DEF Membership, Before, Serving, After, Stopping
<1> QED  BY <1>2, <1>3, <1>5, RoomStep DEF RoomInv, RoomsOK

\* It leaves the room that it read.
LEMMA RoomStopLeave ==
    ASSUME ThreadInv, RoomInv, NEW c \in Conns, StopLeave(c)
    PROVE  RoomInv'
<1>1. HookTo(c, {"remove"}, 0)  BY HookEffects
<1>2. /\ \A d \in Conns \ {c} : hook'[d] = hook[d]
      /\ hook'[c].pc = "remove" /\ UNCHANGED <<job, roomID, late>>
      /\ hook[c].pc = "stop"
  BY <1>1 DEF HookTo, Stepped, StopLeave
<1>3. /\ RoomsOK' /\ DOMAIN rooms' = DOMAIN rooms
      /\ memberOf(c)' = memberOf(c) \ Named(hook[c].room)
      /\ \A d \in Conns \ {c} : memberOf(d)' = memberOf(d)
  <2>1. CASE hook[c].room = 0
    <3>1. rooms' = rooms  BY <2>1 DEF StopLeave
    <3> QED  BY <2>1, <3>1 DEF RoomInv, RoomsOK, memberOf, Named
  <2>2. CASE hook[c].room # 0
    <3>1. rooms' = [rooms EXCEPT ![hook[c].room] = R!Left(@, c)]  BY <2>2 DEF StopLeave
    <3>2. /\ RoomsOK' /\ DOMAIN rooms' = DOMAIN rooms
          /\ memberOf(c)' = memberOf(c) \ {hook[c].room}
          /\ \A d \in Conns \ {c} : memberOf(d)' = memberOf(d)
      BY <3>1, RoomLeave DEF RoomInv
    <3> QED  BY <3>2, <2>2 DEF Named
  <2> QED  BY <2>1, <2>2
<1>4. c \notin late => job[c].pc = "idle" /\ memberOf(c) = Named(hook[c].room)
  BY <1>2 DEF RoomInv, Membership, Stopping
<1>a. AtMost(c)'
  BY <1>2, <1>3, AtMostKept DEF RoomInv, Membership
<1>5. Membership(c)'
  BY <1>2, <1>3, <1>4, <1>a DEF Membership, Before, Serving, After, Stopping
<1> QED  BY <1>2, <1>3, <1>5, RoomStep DEF RoomInv


\* A request begins while the hook is not under way, or its connection is noted.
LEMMA RoomBegin ==
    ASSUME ThreadInv, RoomInv, NEW c \in Conns, NEW kind, Begin(c, kind),
           UNCHANGED <<hook, roomID>>, RoomsOK', DOMAIN rooms \subseteq DOMAIN rooms',
           \A d \in Conns : memberOf(d)' = memberOf(d),
           \A d \in Conns \ {c} : job'[d] = job[d],
           hook[c].pc = "running" /\ memberOf(c) = Named(roomID[c]) => DuringRequest(c)',
           memberOf(c) \subseteq Named(roomID[c]) => AtMost(c)'
    PROVE  RoomInv'
<1>1. /\ job[c].pc = "idle" /\ (hook[c].pc = "running" \/ Stopping(c))
      /\ late' = IF Stopping(c) THEN late \cup {c} ELSE late
  BY DEF Begin
<1>a. AtMost(c)'
  BY <1>1 DEF RoomInv, Membership, AtMost
<1>2. CASE Stopping(c)
  <2>1. c \in late' /\ hook'[c].pc \notin Before \cup Serving
    BY <1>1, <1>2 DEF Stopping, Before, Serving
  <2>2. Membership(c)'  BY <2>1, <1>a DEF Membership
  <2> QED  BY <2>2, <1>1, RoomStep DEF RoomInv
<1>3. CASE hook[c].pc = "running"
  <2>1. memberOf(c) = Named(roomID[c])
    BY <1>1, <1>3 DEF RoomInv, Membership, DuringRequest, Serving
  <2>2. ~Stopping(c) /\ hook'[c].pc = "running" /\ late' = late
    BY <1>1, <1>3 DEF Stopping
  <2>3. Membership(c)'
    BY <2>1, <2>2, <1>3, <1>a DEF Membership, Before, Serving, After, Stopping
  <2> QED  BY <2>2, <2>3, RoomStep DEF RoomInv
<1> QED  BY <1>1, <1>2, <1>3

\* A request that goes on beside the stop hook belongs to a noted connection.
LEMMA RoomGoesOn ==
    ASSUME ThreadInv, RoomInv, NEW c \in Conns, job[c].pc # "idle",
           UNCHANGED <<hook, late>>, RoomsOK', DOMAIN rooms' = DOMAIN rooms,
           DOMAIN roomID' = Conns,
           \A d \in Conns \ {c} : /\ memberOf(d)' = memberOf(d) /\ job'[d] = job[d]
                                  /\ roomID'[d] = roomID[d],
           hook[c].pc = "running" /\ DuringRequest(c) => DuringRequest(c)',
           AtMost(c) => AtMost(c)'
    PROVE  RoomInv'
<1>1. Membership(c) /\ hook[c].pc \in HookPcs  BY DEF RoomInv, ThreadInv, Threads
<1>a. AtMost(c)'  BY <1>1 DEF Membership
<1>2. CASE hook[c].pc = "running"
  <2>1. DuringRequest(c)  BY <1>1, <1>2 DEF Membership, Serving
  <2>2. Membership(c)'
    BY <2>1, <1>2, <1>a DEF Membership, Before, Serving, After, Stopping
  <2> QED  BY <2>2, RoomStep DEF RoomInv
<1>3. CASE hook[c].pc # "running"
  <2>1. hook[c].pc \notin Before \cup Serving
    BY <1>1, <1>3 DEF Membership, Before, Serving
  <2>2. c \in late
    BY <1>1, <1>3, <2>1 DEF Membership, Before, Serving, After, Stopping, HookPcs
  <2>3. Membership(c)'
    BY <2>1, <2>2, <1>a DEF Membership
  <2> QED  BY <2>3, RoomStep DEF RoomInv
<1> QED  BY <1>2, <1>3

\* The requests that only begin: moving, creating a room, and the first steps
\* of joining and leaving one.
LEMMA RoomRequests ==
    ASSUME ThreadInv, RoomInv, NEW c \in Conns,
           \/ \E p \in Positions : Move(c, p)
           \/ \E r \in RoomIDs : CreateRoom(c, r) \/ JoinRoom(c, r)
           \/ LeaveRoom(c)
    PROVE  RoomInv'
<1>0. ASSUME UNCHANGED rooms
      PROVE  /\ RoomsOK' /\ DOMAIN rooms \subseteq DOMAIN rooms'
             /\ \A d \in Conns : memberOf(d)' = memberOf(d)
  BY <1>0 DEF RoomInv, RoomsOK, memberOf
<1>1. ASSUME NEW p \in Positions, Move(c, p) PROVE RoomInv'
  <2>1. Begin(c, "move") /\ UNCHANGED <<hook, roomID, rooms>>  BY <1>1 DEF Move
  <2>2. JobTo(c, {"idle", "sending"}, job'[c].room)  BY <1>1, JobEffects
  <2>3. job'[c].pc \in {"idle", "sending"} /\ \A d \in Conns \ {c} : job'[d] = job[d]
    BY <2>2 DEF JobTo, Stepped
  <2>4. /\ memberOf(c) = Named(roomID[c]) => DuringRequest(c)'
        /\ memberOf(c) \subseteq Named(roomID[c]) => AtMost(c)'
    BY <2>1, <2>3, <1>0 DEF DuringRequest, AtMost
  <2> QED  BY <2>1, <2>3, <2>4, <1>0, RoomBegin
<1>2. ASSUME NEW r \in RoomIDs, CreateRoom(c, r) PROVE RoomInv'
  <2>1. Begin(c, "create") /\ UNCHANGED <<hook, roomID, job>>  BY <1>2 DEF CreateRoom
  <2>2. /\ RoomsOK' /\ DOMAIN rooms \subseteq DOMAIN rooms'
        /\ \A d \in Conns : memberOf(d)' = memberOf(d)
    <3>1. CASE r \in DOMAIN rooms  BY <1>2, <3>1, <1>0 DEF CreateRoom
    <3>2. CASE r \notin DOMAIN rooms
      <4>1. rooms' = Put(rooms, r, R!NewRoom(0))  BY <1>2, <3>2 DEF CreateRoom
      <4> QED  BY <4>1, <3>2, RoomCreate DEF RoomInv
    <3> QED  BY <3>1, <3>2
  <2>3. job'[c].pc = "idle"  BY <2>1 DEF Begin
  <2>4. /\ memberOf(c) = Named(roomID[c]) => DuringRequest(c)'
        /\ memberOf(c) \subseteq Named(roomID[c]) => AtMost(c)'
    BY <2>1, <2>2, <2>3 DEF DuringRequest, AtMost
  <2> QED  BY <2>1, <2>2, <2>4, RoomBegin
<1>3. ASSUME NEW r \in RoomIDs, JoinRoom(c, r) PROVE RoomInv'
  <2>1. Begin(c, "join") /\ UNCHANGED <<hook, roomID, rooms>>  BY <1>3 DEF JoinRoom
  <2>2. /\ \A d \in Conns \ {c} : job'[d] = job[d]
        /\ \/ job'[c].pc = "idle"
           \/ /\ job'[c].pc = "join" /\ job'[c].room = r
              /\ r \in DOMAIN rooms /\ roomID[c] # r
    BY <1>3, <2>1, JobEffects DEF JobTo, Stepped, Begin
  <2>3. /\ memberOf(c) = Named(roomID[c]) => DuringRequest(c)'
        /\ memberOf(c) \subseteq Named(roomID[c]) => AtMost(c)'
    BY <2>1, <2>2, <1>0 DEF DuringRequest, AtMost
  <2> QED  BY <2>1, <2>2, <2>3, <1>0, RoomBegin
<1>4. ASSUME LeaveRoom(c) PROVE RoomInv'
  <2>1. Begin(c, "leave") /\ UNCHANGED <<hook, roomID, rooms>>  BY <1>4 DEF LeaveRoom
  <2>2. /\ \A d \in Conns \ {c} : job'[d] = job[d]
        /\ \/ job'[c].pc = "idle"
           \/ job'[c].pc = "leave" /\ job'[c].room = roomID[c] /\ roomID[c] # 0
    BY <1>4, <2>1, JobEffects DEF JobTo, Stepped, Begin
  <2>3. /\ memberOf(c) = Named(roomID[c]) => DuringRequest(c)'
        /\ memberOf(c) \subseteq Named(roomID[c]) => AtMost(c)'
    BY <2>1, <2>2, <1>0 DEF DuringRequest, AtMost, Named
  <2> QED  BY <2>1, <2>2, <2>3, <1>0, RoomBegin
<1> QED  BY <1>1, <1>2, <1>3, <1>4

\* The further steps of a request.
LEMMA RoomRouters ==
    ASSUME ThreadInv, RoomInv, NEW c \in Conns, Routers(c)
    PROVE  RoomInv'
<1>0. ASSUME UNCHANGED rooms
      PROVE  /\ RoomsOK' /\ DOMAIN rooms' = DOMAIN rooms
             /\ \A d \in Conns : memberOf(d)' = memberOf(d)
  BY <1>0 DEF RoomInv, RoomsOK, memberOf
<1>00. DOMAIN roomID = Conns /\ RoomsOK  BY DEF RoomInv
<1>1. CASE MoveSends(c)
  <2>1. job[c].pc = "sending" /\ UNCHANGED <<hook, late, roomID, rooms>>
    BY <1>1 DEF MoveSends
  <2>2. job'[c].pc \in {"idle", "sending"} /\ \A d \in Conns \ {c} : job'[d] = job[d]
    BY <1>1, JobEffects DEF JobTo, Stepped
  <2>3. /\ DuringRequest(c) => DuringRequest(c)'
        /\ AtMost(c) => AtMost(c)'
    BY <2>1, <2>2, <1>0 DEF DuringRequest, AtMost
  <2> QED  BY <2>1, <2>2, <2>3, <1>0, <1>00, RoomGoesOn
<1>2. CASE JoinNew(c)
  <2> DEFINE r == job[c].room
  <2>1. job[c].pc = "join" /\ UNCHANGED <<hook, late, roomID>>
    BY <1>2 DEF JoinNew
  <2>2. CASE R!mayJoin(rooms[r], c) /\ r \in DOMAIN rooms
    <3>1. /\ job'[c].pc = "leaveOld" /\ job'[c].room = r
          /\ \A d \in Conns \ {c} : job'[d] = job[d]
      BY <1>2, <2>2, JobEffects DEF JobTo, Stepped
    <3>2. rooms' = [rooms EXCEPT ![r] = R!Joined(@, c)]
      BY <1>2, <2>2 DEF JoinNew
    <3>3. /\ RoomsOK' /\ DOMAIN rooms' = DOMAIN rooms
          /\ memberOf(c)' = memberOf(c) \cup {r}
          /\ \A d \in Conns \ {c} : memberOf(d)' = memberOf(d)
      BY <3>2, <2>2, <1>00, RoomJoin
    <3>4. /\ DuringRequest(c) => DuringRequest(c)'
          /\ AtMost(c) => AtMost(c)'
      BY <3>1, <3>3, <2>1 DEF DuringRequest, AtMost
    <3> QED  BY <3>1, <3>3, <3>4, <2>1, <1>00, RoomGoesOn
  <2>3. CASE R!mayJoin(rooms[r], c) /\ r \notin DOMAIN rooms
    <3>1. \A d \in Conns \ {c} : job'[d] = job[d]
      BY <1>2, <2>3, JobEffects DEF JobTo, Stepped
    <3>2. rooms' = rooms
      BY <1>2, <2>3, <1>00 DEF JoinNew, RoomsOK
    <3>3. ~DuringRequest(c) /\ ~AtMost(c)
      BY <2>1, <2>3 DEF DuringRequest, AtMost
    <3> QED  BY <3>1, <3>2, <3>3, <2>1, <1>0, <1>00, RoomGoesOn
  <2>4. CASE ~R!mayJoin(rooms[r], c)
    <3>1. job'[c].pc = "idle" /\ \A d \in Conns \ {c} : job'[d] = job[d]
      BY <1>2, <2>4, JobEffects DEF JobTo, Stepped
    <3>2. rooms' = rooms  BY <1>2, <2>4 DEF JoinNew
    <3>3. /\ DuringRequest(c) => DuringRequest(c)'
          /\ AtMost(c) => AtMost(c)'
      BY <3>1, <3>2, <2>1, <1>0 DEF DuringRequest, AtMost
    <3> QED  BY <3>1, <3>2, <3>3, <2>1, <1>0, <1>00, RoomGoesOn
  <2> QED  BY <2>2, <2>3, <2>4
<1>3. CASE LeaveOld(c)
  <2> DEFINE old == roomID[c]
  <2>1. job[c].pc = "leaveOld" /\ UNCHANGED <<hook, late, roomID>>
    BY <1>3 DEF LeaveOld
  <2>2. CASE old = 0
    <3>1. /\ job'[c].pc = "set" /\ job'[c].room = job[c].room
          /\ \A d \in Conns \ {c} : job'[d] = job[d]
      BY <1>3, <2>2, JobEffects DEF JobTo, Stepped
    <3>2. rooms' = rooms  BY <1>3, <2>2 DEF LeaveOld
    <3>3. /\ DuringRequest(c) => DuringRequest(c)'
          /\ AtMost(c) => AtMost(c)'
      BY <3>1, <3>2, <2>1, <2>2, <1>0, <1>00 DEF DuringRequest, AtMost, Named, RoomsOK
    <3> QED  BY <3>1, <3>2, <3>3, <2>1, <1>0, <1>00, RoomGoesOn
  <2>3. CASE old # 0 /\ R!mayLeave(rooms[old], c)
    <3>1. /\ job'[c].pc = "set" /\ job'[c].room = job[c].room
          /\ \A d \in Conns \ {c} : job'[d] = job[d]
      BY <1>3, <2>3, JobEffects DEF JobTo, Stepped
    <3>2. rooms' = [rooms EXCEPT ![old] = R!Left(@, c)]
      BY <1>3, <2>3 DEF LeaveOld
    <3>3. /\ RoomsOK' /\ DOMAIN rooms' = DOMAIN rooms
          /\ memberOf(c)' = memberOf(c) \ {old}
          /\ \A d \in Conns \ {c} : memberOf(d)' = memberOf(d)
      BY <3>2, <1>00, RoomLeave
    <3>4. /\ DuringRequest(c) => DuringRequest(c)'
          /\ AtMost(c) => AtMost(c)'
      BY <3>1, <3>3, <2>1, <2>3, <1>00 DEF DuringRequest, AtMost, Named, RoomsOK
    <3> QED  BY <3>1, <3>3, <3>4, <2>1, <1>00, RoomGoesOn
  <2>4. CASE old # 0 /\ ~R!mayLeave(rooms[old], c)
    <3>1. /\ job'[c].pc = "rollback" /\ job'[c].room = job[c].room
          /\ \A d \in Conns \ {c} : job'[d] = job[d]
      BY <1>3, <2>4, JobEffects DEF JobTo, Stepped
    <3>2. rooms' = rooms  BY <1>3, <2>4 DEF LeaveOld
    <3>3. ~DuringRequest(c)
      BY <2>1, <2>4 DEF DuringRequest, Named, memberOf, R!mayLeave
    <3>4. roomID[c] \notin memberOf(c)
      BY <2>4 DEF memberOf, R!mayLeave
    <3>5. AtMost(c) => AtMost(c)'
      BY <3>1, <3>2, <3>4, <2>1, <1>0 DEF AtMost, Named
    <3> QED  BY <3>1, <3>2, <3>3, <3>5, <2>1, <1>0, <1>00, RoomGoesOn
  <2> QED  BY <2>2, <2>3, <2>4
<1>4. CASE Rollback(c)
  <2>1. /\ job[c].pc = "rollback" /\ UNCHANGED <<hook, late, roomID>>
        /\ rooms' = [rooms EXCEPT ![job[c].room] = R!Left(@, c)]
    BY <1>4 DEF Rollback
  <2>2. job'[c].pc = "idle" /\ \A d \in Conns \ {c} : job'[d] = job[d]
    BY <1>4, JobEffects DEF JobTo, Stepped
  <2>3. /\ RoomsOK' /\ DOMAIN rooms' = DOMAIN rooms
        /\ memberOf(c)' = memberOf(c) \ {job[c].room}
        /\ \A d \in Conns \ {c} : memberOf(d)' = memberOf(d)
    BY <2>1, <1>00, RoomLeave
  <2>4. ~DuringRequest(c)  BY <2>1 DEF DuringRequest
  <2>5. AtMost(c) => AtMost(c)'  BY <2>1, <2>2, <2>3 DEF AtMost
  <2> QED  BY <2>1, <2>2, <2>3, <2>4, <2>5, <1>00, RoomGoesOn
<1>5. CASE SetRoomID(c)
  <2>1. /\ job[c].pc = "set" /\ UNCHANGED <<hook, late, rooms>>
        /\ roomID' = [roomID EXCEPT ![c] = job[c].room]
    BY <1>5 DEF SetRoomID
  <2>2. job'[c].pc = "idle" /\ \A d \in Conns \ {c} : job'[d] = job[d]
    BY <1>5, JobEffects DEF JobTo, Stepped
  <2>3. /\ DOMAIN roomID' = Conns /\ roomID'[c] = job[c].room
        /\ \A d \in Conns \ {c} : roomID'[d] = roomID[d]
    BY <2>1, <1>00
  <2>4. /\ DuringRequest(c) => DuringRequest(c)'
        /\ AtMost(c) => AtMost(c)'
    BY <2>1, <2>2, <2>3, <1>0, <1>00 DEF DuringRequest, AtMost, Named, RoomsOK
  <2> QED  BY <2>1, <2>2, <2>3, <2>4, <1>0, RoomGoesOn
<1>6. CASE RemoveRoomID(c)
  <2>1. /\ job[c].pc = "unset" /\ UNCHANGED <<hook, late, rooms>>
        /\ roomID' = [roomID EXCEPT ![c] = 0]
    BY <1>6 DEF RemoveRoomID
  <2>2. job'[c].pc = "idle" /\ \A d \in Conns \ {c} : job'[d] = job[d]
    BY <1>6, JobEffects DEF JobTo, Stepped
  <2>3. /\ DOMAIN roomID' = Conns /\ roomID'[c] = 0
        /\ \A d \in Conns \ {c} : roomID'[d] = roomID[d]
    BY <2>1, <1>00
  <2>4. /\ DuringRequest(c) => DuringRequest(c)'
        /\ AtMost(c) => AtMost(c)'
    BY <2>1, <2>2, <2>3, <1>0 DEF DuringRequest, AtMost, Named
  <2> QED  BY <2>1, <2>2, <2>3, <2>4, <1>0, RoomGoesOn
<1>7. CASE LeaveCurrent(c)
  <2> DEFINE r == job[c].room
  <2>1. job[c].pc = "leave" /\ UNCHANGED <<hook, late, roomID>>
    BY <1>7 DEF LeaveCurrent
  <2>2. CASE R!mayLeave(rooms[r], c)
    <3>1. job'[c].pc = "unset" /\ \A d \in Conns \ {c} : job'[d] = job[d]
      BY <1>7, <2>2, JobEffects DEF JobTo, Stepped
    <3>2. rooms' = [rooms EXCEPT ![r] = R!Left(@, c)]
      BY <1>7, <2>2 DEF LeaveCurrent
    <3>3. /\ RoomsOK' /\ DOMAIN rooms' = DOMAIN rooms
          /\ memberOf(c)' = memberOf(c) \ {r}
          /\ \A d \in Conns \ {c} : memberOf(d)' = memberOf(d)
      BY <3>2, <1>00, RoomLeave
    <3>4. /\ DuringRequest(c) => DuringRequest(c)'
          /\ AtMost(c) => AtMost(c)'
      BY <3>1, <3>3, <2>1 DEF DuringRequest, AtMost, Named
    <3> QED  BY <3>1, <3>3, <3>4, <2>1, <1>00, RoomGoesOn
  <2>3. CASE ~R!mayLeave(rooms[r], c)
    <3>1. job'[c].pc = "idle" /\ \A d \in Conns \ {c} : job'[d] = job[d]
      BY <1>7, <2>3, JobEffects DEF JobTo, Stepped
    <3>2. rooms' = rooms  BY <1>7, <2>3 DEF LeaveCurrent
    <3>3. ~DuringRequest(c)
      BY <2>1, <2>3 DEF DuringRequest, memberOf, R!mayLeave
    <3>4. AtMost(c) => AtMost(c)'
      BY <3>1, <3>2, <2>1, <1>0 DEF AtMost
    <3> QED  BY <3>1, <3>2, <3>3, <3>4, <2>1, <1>0, <1>00, RoomGoesOn
  <2> QED  BY <2>2, <2>3
<1> QED  BY <1>1, <1>2, <1>3, <1>4, <1>5, <1>6, <1>7, RoomRequests DEF Routers


\* Every step keeps the rooms.
LEMMA RoomNext ==
    ASSUME ThreadInv, RoomInv, [Next]_vars
    PROVE  RoomInv'
<1>1. ASSUME NEW c \in Conns, StartHook(c) PROVE RoomInv'
  <2> USE HookEffects, RoomHook DEF Before, Serving
  <2>1. CASE Login(c)  BY <2>1 DEF Login
  <2>2. CASE AddPlayerWithPID(c)  BY <2>2 DEF AddPlayerWithPID
  <2>3. CASE Sync(c)  BY <2>3 DEF Sync
  <2>4. CASE Announce(c)  BY <2>4 DEF Announce
  <2>5. CASE HookSends(c, "announcing", "running")  BY <2>5 DEF HookSends
  <2> QED  BY <1>1, <2>1, <2>2, <2>3, <2>4, <2>5, RoomFirst DEF StartHook
<1>2. ASSUME NEW c \in Conns, StopHook(c) PROVE RoomInv'
  <2> USE HookEffects, RoomHook DEF After
  <2>1. CASE RemovePlayer(c)  BY <2>1 DEF RemovePlayer
  <2>2. CASE HookSends(c, "leaving", "logout")  BY <2>2 DEF HookSends
  <2>3. CASE LogoutByConnID(c)  BY <2>3 DEF LogoutByConnID
  <2> QED  BY <1>2, <2>1, <2>2, <2>3, RoomStopEnter, RoomStopLeave DEF StopHook
<1>3. ASSUME UNCHANGED <<rooms, roomID, hook, job, late>> PROVE RoomInv'
  <2>1. \A c \in Conns : memberOf(c)' = memberOf(c)  BY <1>3 DEF memberOf
  <2>2. \A c \in Conns : Membership(c)'
    BY <1>3, <2>1 DEF RoomInv, Membership, AtMost, DuringRequest, Stopping
  <2>3. RoomsOK'  BY <1>3 DEF RoomInv, RoomsOK
  <2> QED  BY <1>3, <2>2, <2>3 DEF RoomInv
<1>4. ASSUME NEW c \in Conns, Disconnect(c) PROVE RoomInv'
  BY <1>3, <1>4 DEF Disconnect
<1>5. CASE UNCHANGED vars
  BY <1>3, <1>5 DEF vars
<1> QED  BY <1>1, <1>2, <1>4, <1>5, RoomRequests, RoomRouters DEF Next, Finished

\* Every step keeps the states of the goroutines well formed.
LEMMA ThreadNext ==
    ASSUME ThreadInv, [Next]_vars
    PROVE  ThreadInv'
<1>1. ASSUME UNCHANGED <<hook, job>> PROVE ThreadInv'
  BY <1>1 DEF ThreadInv, Threads
<1>2. ASSUME NEW c, NEW to, NEW r, HookTo(c, to, r) \/ JobTo(c, to, r) PROVE ThreadInv'
  BY <1>2 DEF HookTo, JobTo, Stepped, ThreadInv, Threads
<1>3. ASSUME NEW c \in Conns, StartHook(c) \/ StopHook(c) PROVE ThreadInv'
  BY <1>2, <1>3, HookEffects DEF StartHook, StopHook
<1>4. ASSUME NEW c \in Conns, Routers(c) PROVE ThreadInv'
  BY <1>1, <1>2, <1>4, JobEffects DEF Routers
<1>5. ASSUME NEW c \in Conns, NEW p \in Positions, Move(c, p) PROVE ThreadInv'
  BY <1>2, <1>5, JobEffects
<1>6. ASSUME NEW c \in Conns, NEW r \in RoomIDs, CreateRoom(c, r) \/ JoinRoom(c, r)
      PROVE  ThreadInv'
  <2>1. CASE CreateRoom(c, r)  BY <2>1, <1>1 DEF CreateRoom
  <2>2. CASE JoinRoom(c, r)  BY <2>2, <1>1, <1>2, JobEffects
  <2> QED  BY <1>6, <2>1, <2>2
<1>7. ASSUME NEW c \in Conns, Disconnect(c) PROVE ThreadInv'
  BY <1>1, <1>7 DEF Disconnect
<1>8. CASE UNCHANGED vars
  BY <1>1, <1>8 DEF vars
<1> QED  BY <1>3, <1>4, <1>5, <1>6, <1>7, <1>8 DEF Next, Finished

-----------------------------------------------------------------------------
(***************************************************************************)
(* The theorems.                                                           *)
(***************************************************************************)

\* The server starts with an empty world and an empty room 1.
LEMMA InitInv == Init => IInv
<1> SUFFICES ASSUME Init PROVE IInv
  OBVIOUS
<1>1. ThreadInv
  <2>1. /\ hook = [c \in Conns |-> At("new")] /\ job = [c \in Conns |-> At("idle")]
    BY DEF Init
  <2>2. \A c \in Conns : hook[c] = At("new") /\ job[c] = At("idle")  BY <2>1
  <2>3. Threads(hook, HookPcs)
    BY <2>1, <2>2, ThreadStates DEF Threads, HookPcs, Before
  <2>4. Threads(job, JobPcs)
    BY <2>1, <2>2, ThreadStates DEF Threads, JobPcs
  <2> QED  BY <2>3, <2>4 DEF ThreadInv
<1>2. \A c \in Conns : hook[c].pc = "new" /\ job[c].pc = "idle"
  BY ThreadStates DEF Init
<1>3. Numbers
  <2>1. playerID \in [Conns -> Nat] /\ nextPlayerID = 1000 /\ \A c \in Conns : playerID[c] = 0
    BY DEF Init
  <2> QED  BY <2>1, <1>2 DEF Numbers
<1>4. DOMAIN players = {} /\ DOMAIN playerIDs = {} /\ players = Empty
  BY DEF Init, Empty
<1>5. PlayersOK /\ IndexOK
  BY <1>4 DEF PlayersOK, IndexOK, Empty
<1>6. SessionsOK  BY DEF Init, SessionsOK
<1>7. GridOK(aoi, positions)
  <2>1. positions = Empty  BY <1>4 DEF positions, Empty
  <2>2. aoi = EmptyGrid  BY DEF Init
  <2> QED  BY <2>1, <2>2, GridEmpty
<1>8. /\ DOMAIN rooms = {1} /\ rooms[1] = [max |-> FirstRoomMax, members |-> {}]
      /\ rooms = [r \in DOMAIN rooms |-> rooms[r]]
  BY DEF Init, Put, Empty, R!NewRoom
<1>9. RoomsOK
  <2>1. IsFiniteSet(rooms[1].members) /\ Cardinality(rooms[1].members) = 0
    BY <1>8, FS_EmptySet
  <2>2. rooms[1].max = FirstRoomMax  BY <1>8
  <2>3. rooms = [r \in DOMAIN rooms |-> [max |-> rooms[r].max, members |-> rooms[r].members]]
    BY <1>8
  <2>4. DOMAIN rooms \subseteq Nat \ {0} /\ 1 \in DOMAIN rooms
        /\ \A r \in DOMAIN rooms : IsFiniteSet(rooms[r].members)
    BY <2>1, <1>8
  <2> QED  BY <2>1, <2>2, <2>3, <2>4, UnityAssumption DEF RoomsOK
<1>10. \A c \in Conns : memberOf(c) = {}
  BY <1>8 DEF memberOf
<1>11. RoomInv
  <2>1. DOMAIN roomID = Conns /\ \A c \in Conns : roomID[c] = 0  BY DEF Init
  <2> QED  BY <2>1, <1>2, <1>9, <1>10
           DEF RoomInv, Membership, AtMost, Before, Serving, After, Stopping
<1> QED  BY <1>1, <1>3, <1>5, <1>6, <1>7, <1>11 DEF IInv, WorldInv

\* The invariant holds in every reachable state of the server.
THEOREM UnityInvariant == Spec => []IInv
<1>1. Init => IInv  BY InitInv
<1>2. IInv /\ [Next]_vars => IInv'
  BY ThreadNext, WorldNext, RoomNext DEF IInv
<1> QED  BY <1>1, <1>2, PTL DEF Spec

\* UnityWorld and the AOI grid: the player map, the number index and the grid
\* always describe the same players at the same places, the grid finds exactly
\* the neighbours that the positions imply, and no late move brings a player
\* back whose stop hook removed it.
THEOREM UnityWorldExact == Spec => []WorldExact
<1>1. IInv => WorldExact
  <2> SUFFICES ASSUME IInv PROVE WorldExact
    OBVIOUS
  <2>1. GridExact(aoi, positions)
    <3>1. \A id \in DOMAIN positions : positions[id] \in Place
      BY DEF positions, IInv, WorldInv, PlayersOK
    <3> QED  BY <3>1, GridAnswers DEF IInv, WorldInv
  <2>2. \A c \in DOMAIN players : pidOf(c) = playerID[c]
    BY DEF pidOf, IInv, WorldInv, PlayersOK
  <2>3. DOMAIN playerIDs = pidsOf(DOMAIN players)
    BY <2>2 DEF pidsOf, IInv, WorldInv, IndexOK
  <2>4. \A c \in DOMAIN players : playerIDs[pidOf(c)] = c
    BY <2>2 DEF IInv, WorldInv, IndexOK
  <2>5. \A c \in Conns : hook[c].pc \in {"new", "add", "logout", "gone"} =>
           c \notin DOMAIN players
    BY DEF IInv, WorldInv, PlayersOK, Playing, Serving
  <2>6. \A c \in Conns : c \in sessions => hook[c].pc # "gone"
    BY DEF IInv, WorldInv, SessionsOK
  <2> QED  BY <2>1, <2>3, <2>4, <2>5, <2>6 DEF WorldExact
<1> QED  BY <1>1, UnityInvariant, PTL

\* The room routers against the hooks: with no request under way a connection
\* is a member of the room its property names and of no other; requests that
\* overlap the stop hook leave it in that room or in none, otherwise the hook
\* leaves it in none; and room 1 is not overfull.
THEOREM UnityMembershipExact == Spec => []MembershipExact
<1>1. IInv => MembershipExact
  <2> SUFFICES ASSUME IInv PROVE MembershipExact
    OBVIOUS
  <2>1. \A c \in Conns : job[c].pc = "idle" /\ hook[c].pc \in {"sync", "announce", "running"} =>
           memberOf(c) = IF roomID[c] = 0 THEN {} ELSE {roomID[c]}
    BY DEF IInv, RoomInv, Membership, DuringRequest, Named, Serving
  <2>2. \A c \in Conns \ late : hook[c].pc = "gone" => memberOf(c) = {}
    BY DEF IInv, RoomInv, Membership, After
  <2>4. \A c \in Conns : job[c].pc = "idle" => memberOf(c) \subseteq {roomID[c]}
    BY DEF IInv, RoomInv, Membership, AtMost, Named
  <2>3. FirstRoomMax > 0 => R!Cardinality(rooms[1].members) <= FirstRoomMax
    BY RoomCardinality DEF IInv, RoomInv, RoomsOK
  <2> QED  BY <2>1, <2>2, <2>3, <2>4 DEF MembershipExact
<1> QED  BY <1>1, UnityInvariant, PTL

=============================================================================
