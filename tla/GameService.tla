---------------------------- MODULE GameService -----------------------------
(***************************************************************************)
(* The game service of examples/gameapp: one mutex over the connections,   *)
(* the sessions, the rooms and the player store, called by HTTP handlers   *)
(* (Login), by the workers of the TCP server (requests of a connection),   *)
(* by its hooks (Connected, Disconnected) and by Serve (Sweep, Close).     *)
(*                                                                         *)
(* The sessions are the one map that the four maps of session.Manager are  *)
(* proved to agree on (SessionManagerProofs!MapsCoherent), under           *)
(* ReplaceExisting.  The store is the transactional SQLite store: Save and *)
(* Update take place as a whole or not at all, and survive a restart.      *)
(* Every account has one player.  A call that is refused changes nothing   *)
(* and is no step.                                                         *)
(***************************************************************************)
EXTENDS Integers, FiniteSets, GoMap

CONSTANTS
    Accounts, Conns,
    Rooms,          \* ids of the configured rooms; 0 means no room
    MaxPlayers,     \* their capacity
    AuthTime,       \* the time a connection has to authenticate
    TTL,            \* lifetime of a token
    MaxLogins,      \* bound: tokens that are ever dealt
    MaxTime         \* bound: the clock stops here

ASSUME ServiceAssumption ==
    /\ IsFiniteSet(Conns)
    /\ Rooms \subseteq Nat \ {0}
    /\ MaxPlayers \in Nat \ {0}
    /\ AuthTime \in Nat \ {0} /\ TTL \in Nat \ {0}
    /\ MaxLogins \in Nat /\ MaxTime \in Nat

VARIABLES
    connections,    \* connection -> [room, authDeadline]
    sessions,       \* token -> [account, expires, conns]; conns holds the
                    \* connection the session is bound to, if any
    members,        \* room -> the connections in Room.members
    store,          \* account -> saved progress of its player
    phase,          \* Serve: "serving", "draining", "closed"
    hooks,          \* connection -> "before", "started", "ended"
    stopped,        \* connections on which the service called Stop
    now,            \* the wall clock
    issued,         \* how many tokens were dealt; they are never repeated
                    \* and numbered here in the order of the logins
    used            \* history: potions that each account consumed

vars == <<connections, sessions, members, store, phase, hooks, stopped, now,
          issued, used>>

-----------------------------------------------------------------------------
NoRoom == 0
Tokens == 1..MaxLogins

\* The zero time: the connection is authenticated.
NoDeadline == 0

\* The contents of a save; a potion that was never had has no entry.
InitialProgress == [level |-> 1, experience |-> 0, claimed |-> FALSE, inventory |-> Empty]
Potions(p) == IF "potion" \in DOMAIN p.inventory THEN p.inventory["potion"] ELSE 0

\* What decodeProgress accepts; anything else locks the player out of the save.
decodable(p) ==
    /\ p.experience \in 0..100 /\ p.level = 1 + p.experience \div 100
    /\ \A item \in DOMAIN p.inventory : item = "potion" /\ p.inventory[item] \in 0..2
    /\ IF p.claimed THEN p.experience = 100
                    ELSE p.experience = 0 /\ DOMAIN p.inventory = {}

closed == phase = "closed"
bound(c) == {t \in DOMAIN sessions : c \in sessions[t].conns}
expiredBy(at) == {t \in DOMAIN sessions : at >= sessions[t].expires}

Init ==
    /\ connections = Empty /\ sessions = Empty
    /\ members = [r \in Rooms |-> {}]
    /\ store = Empty
    /\ phase = "serving"
    /\ hooks = [c \in Conns |-> "before"]
    /\ stopped = {} /\ now = 0 /\ issued = 0
    /\ used = [a \in Accounts |-> 0]

-----------------------------------------------------------------------------
\* The sessions of S without those bound to a connection of K.
logoutByConnID(S, K) == Delete(S, {t \in DOMAIN S : S[t].conns \cap K # {}})

(***************************************************************************)
(* disconnectLocked for the connections of D, the sessions being S: each   *)
(* leaves its room, loses its session and is forgotten.  One that is       *)
(* already forgotten is left alone.                                        *)
(***************************************************************************)
disconnectLocked(S, D, stop) ==
    LET K == D \cap DOMAIN connections IN
    /\ members' = [r \in Rooms |-> members[r] \ {c \in K : connections[c].room = r}]
    /\ sessions' = logoutByConnID(S, K)
    /\ connections' = Delete(connections, K)
    /\ stopped' = IF stop THEN stopped \cup K ELSE stopped

(***************************************************************************)
(* Login after the password was checked: the first login saves an empty    *)
(* player; the session replaces that of the account, whose connection is   *)
(* dropped.                                                                *)
(***************************************************************************)
sessionsOf(a) == {t \in DOMAIN sessions : sessions[t].account = a}
connsOf(S) == UNION {sessions[t].conns : t \in S}

\* Mutant: the connection of the replaced session stays.
replacedNothing(a) == {}
replacedConns(a) == connsOf(sessionsOf(a))

\* Load and, if there is no such player, Save.
loadOrCreate(a) == IF a \in DOMAIN store THEN store ELSE Put(store, a, InitialProgress)

Login(a) ==
    /\ ~closed
    /\ issued < MaxLogins       \* bound
    /\ issued' = issued + 1
    /\ store' = loadOrCreate(a)
    /\ disconnectLocked(Put(Delete(sessions, sessionsOf(a)), issued + 1,
                            [account |-> a, expires |-> now + TTL, conns |-> {}]),
                        replacedConns(a), TRUE)
    /\ UNCHANGED <<phase, hooks, now, used>>

-----------------------------------------------------------------------------
\* Connected, the start hook: a closed service stops the connection.
admit(c) == Put(connections, c, [room |-> NoRoom, authDeadline |-> now + AuthTime])
Connected(c) ==
    /\ hooks[c] = "before"
    /\ hooks' = [hooks EXCEPT ![c] = "started"]
    /\ IF closed THEN stopped' = stopped \cup {c} /\ UNCHANGED connections
                 ELSE connections' = admit(c) /\ UNCHANGED stopped
    /\ UNCHANGED <<sessions, members, store, phase, now, issued, used>>

\* Disconnected, the stop hook: the peer left, or somebody called Stop.
Disconnected(c) ==
    /\ hooks[c] = "started"
    /\ hooks' = [hooks EXCEPT ![c] = "ended"]
    /\ disconnectLocked(sessions, {c}, FALSE)
    /\ UNCHANGED <<store, phase, now, issued, used>>

-----------------------------------------------------------------------------
(***************************************************************************)
(* Requests of a connection run on a worker: after the start hook, but     *)
(* those already queued also after the stop hook.                          *)
(***************************************************************************)
requested(c) == hooks[c] # "before"

\* session.Bind: a valid token that is bound here or nowhere, on a connection
\* that has no other session.
mayBind(c, t) ==
    /\ t \in DOMAIN sessions /\ now < sessions[t].expires
    /\ sessions[t].conns \subseteq {c}
    /\ bound(c) \subseteq {t}

Authenticate(c, t) ==
    /\ requested(c)
    /\ ~closed /\ c \in DOMAIN connections
    /\ connections[c].authDeadline # NoDeadline => now < connections[c].authDeadline
    /\ mayBind(c, t)
    /\ sessions' = [sessions EXCEPT ![t].conns = {c}]
    /\ connections' = [connections EXCEPT ![c].authDeadline = NoDeadline]
    /\ UNCHANGED <<members, store, phase, hooks, stopped, now, issued, used>>

authenticatedLocked(c) ==
    /\ ~closed /\ c \in DOMAIN connections
    /\ \E t \in bound(c) : now < sessions[t].expires

\* Room.Join, under the room's own lock.
roomJoin(c, r) == c \notin members[r] /\ Cardinality(members[r]) < MaxPlayers

\* Mutant: the room that is left keeps the member.
joinOnly(c, r) == [members EXCEPT ![r] = @ \cup {c}]
\* Who is where when c has joined r and left its old room.
moved(c, r) == [q \in Rooms |-> IF q = r THEN members[q] \cup {c}
                                ELSE members[q] \ {x \in {c} : connections[x].room = q}]

Join(c, r) ==
    /\ requested(c) /\ authenticatedLocked(c)
    /\ connections[c].room # r
    /\ roomJoin(c, r)
    /\ members' = moved(c, r)
    /\ connections' = [connections EXCEPT ![c].room = r]
    /\ UNCHANGED <<sessions, store, phase, hooks, stopped, now, issued, used>>

Leave(c) ==
    /\ requested(c) /\ authenticatedLocked(c)
    /\ connections[c].room # NoRoom
    /\ members' = [members EXCEPT ![connections[c].room] = @ \ {c}]
    /\ connections' = [connections EXCEPT ![c].room = NoRoom]
    /\ UNCHANGED <<sessions, store, phase, hooks, stopped, now, issued, used>>

-----------------------------------------------------------------------------
\* changeProgress: a transaction on the save of the player in a room.  A
\* transaction that fails changes nothing.
changing(c, a) ==
    /\ requested(c) /\ authenticatedLocked(c)
    /\ connections[c].room # NoRoom
    /\ \E t \in bound(c) : sessions[t].account = a
    /\ a \in DOMAIN store /\ decodable(store[a])

\* Store.Update: the transaction commits the changed save.
Update(a, progress) == store' = [store EXCEPT ![a] = progress]

\* Mutant: the reward can be claimed again.
claimAgain(p) == TRUE
mayClaim(p) == ~p.claimed

ClaimStarter(c, a) ==
    /\ changing(c, a)
    /\ mayClaim(store[a])
    /\ LET experience == store[a].experience + 100 IN
       Update(a, [claimed |-> TRUE,
                  experience |-> experience,
                  level |-> 1 + experience \div 100,
                  inventory |-> Put(store[a].inventory, "potion", Potions(store[a]) + 2)])
    /\ UNCHANGED <<connections, sessions, members, phase, hooks, stopped, now, issued, used>>

mayUse(p) == Potions(p) > 0

UseItem(c, a) ==
    /\ changing(c, a)
    /\ mayUse(store[a])
    /\ Update(a, [store[a] EXCEPT !.inventory = Put(@, "potion", Potions(store[a]) - 1)])
    /\ used' = [used EXCEPT ![a] = @ + 1]
    /\ UNCHANGED <<connections, sessions, members, phase, hooks, stopped, now, issued>>

-----------------------------------------------------------------------------
(***************************************************************************)
(* Sweep, with the time of the tick that started it: expired sessions go   *)
(* with their connections, and so do connections that missed their         *)
(* deadline.                                                               *)
(***************************************************************************)
\* Mutant: only sessions are swept.
lateNever(at) == {}
late(at) == {c \in DOMAIN connections :
               /\ connections[c].authDeadline # NoDeadline
               /\ at >= connections[c].authDeadline}

Sweep(at) ==
    /\ phase = "serving" /\ at <= now
    /\ disconnectLocked(Delete(sessions, expiredBy(at)),
                        connsOf(expiredBy(at)) \cup late(at), TRUE)
    /\ UNCHANGED <<store, phase, hooks, now, issued, used>>

\* Serve leaves its loop: no more ticks, HTTP drains for a bounded time ...
Drain ==
    /\ phase = "serving"
    /\ phase' = "draining"
    /\ UNCHANGED <<connections, sessions, members, store, hooks, stopped, now, issued, used>>

\* ... and the deferred Close drops every connection.
Close ==
    /\ phase = "draining"
    /\ phase' = "closed"
    /\ disconnectLocked(sessions, DOMAIN connections, TRUE)
    /\ UNCHANGED <<store, hooks, now, issued, used>>

\* The process ends, at any moment, and is started again: only the store is
\* left, and connections are numbered anew.
Restart ==
    /\ connections' = Empty /\ sessions' = Empty
    /\ members' = [r \in Rooms |-> {}]
    /\ phase' = "serving"
    /\ hooks' = [c \in Conns |-> "before"]
    /\ stopped' = {}
    /\ UNCHANGED <<store, now, issued, used>>

Tick ==
    /\ now < MaxTime
    /\ now' = now + 1
    /\ UNCHANGED <<connections, sessions, members, store, phase, hooks, stopped, issued, used>>

Next ==
    \/ \E a \in Accounts : Login(a)
    \/ \E c \in Conns : \/ Connected(c)
                        \/ Disconnected(c)
                        \/ \E t \in Tokens : Authenticate(c, t)
                        \/ \E r \in Rooms : Join(c, r)
                        \/ Leave(c)
                        \/ \E a \in Accounts : ClaimStarter(c, a)
                        \/ \E a \in Accounts : UseItem(c, a)
    \/ \E at \in 0..MaxTime : Sweep(at)
    \/ Drain
    \/ Close
    \/ Restart
    \/ Tick

Spec == Init /\ [][Next]_vars

\* The ticker of Serve goes on for as long as the loop does; draining is
\* bounded by the five seconds of http.Server.Shutdown and ends with Close.
FairSpec == Spec /\ WF_vars(Sweep(now)) /\ WF_vars(Close)

-----------------------------------------------------------------------------
(***************************************************************************)
(* Properties.                                                             *)
(***************************************************************************)
Connection == [room : Rooms \cup {NoRoom}, authDeadline : Nat]
Session == [account : Accounts, expires : Nat, conns : SUBSET Conns]
Progress(p) ==
    /\ p.level \in Nat /\ p.experience \in Nat /\ p.claimed \in BOOLEAN
    /\ DOMAIN p.inventory \subseteq {"potion"}
    /\ p.inventory \in [DOMAIN p.inventory -> Nat]

\* The variables have their types; in particular no inventory is negative.
TypeOK ==
    /\ DOMAIN connections \subseteq Conns
    /\ connections \in [DOMAIN connections -> Connection]
    /\ DOMAIN sessions \subseteq Tokens /\ sessions \in [DOMAIN sessions -> Session]
    /\ members \in [Rooms -> SUBSET Conns]
    /\ DOMAIN store \subseteq Accounts
    /\ \A a \in DOMAIN store : Progress(store[a])
    /\ phase \in {"serving", "draining", "closed"}
    /\ hooks \in [Conns -> {"before", "started", "ended"}]
    /\ stopped \subseteq Conns
    /\ now \in 0..MaxTime
    /\ issued \in 0..MaxLogins
    /\ used \in [Accounts -> Nat]

\* A room holds exactly the connections that the service believes to be in it,
\* and no more than its capacity: whatever ends or moves a player (Leave, Join,
\* a second login, expiry, a lost connection, Close) leaves no ghost member.
RoomsExact ==
    /\ TypeOK
    /\ \A r \in Rooms :
        /\ members[r] = {c \in DOMAIN connections : connections[c].room = r}
        /\ Cardinality(members[r]) <= MaxPlayers

\* The authenticated connections and the bound sessions are each other's: a
\* session is bound to one connection that the service knows and that has no
\* deadline any more, every such connection has exactly one session, and an
\* account has at most one.  So a connection that lost its session to a second
\* login is never served again.  The service knows exactly the connections that
\* run: one whose stop hook has run is forgotten for good although its queued
\* requests are still executed, and one that is forgotten earlier, or comes
\* after Close, has been stopped.
AuthenticatedExact ==
    /\ \A t \in DOMAIN sessions : \A c \in sessions[t].conns :
          c \in DOMAIN connections /\ connections[c].authDeadline = NoDeadline
    /\ \A c \in DOMAIN connections :
          connections[c].authDeadline = NoDeadline <=> bound(c) # {}
    /\ \A c \in Conns : Cardinality(bound(c)) <= 1
    /\ \A t \in DOMAIN sessions : Cardinality(sessions[t].conns) <= 1
    /\ \A a \in Accounts : Cardinality(sessionsOf(a)) <= 1
    /\ \A c \in DOMAIN connections : hooks[c] = "started"
    /\ \A c \in Conns : hooks[c] = "started" => c \in DOMAIN connections \cup stopped
    /\ closed => DOMAIN connections = {}

\* The starter reward is given once in the life of an account, whatever is
\* retried or restarted: what is left and what was used are what was given.
\* And every save that was written can be read again.
RewardOnce ==
    \A a \in Accounts :
        IF a \notin DOMAIN store THEN used[a] = 0
        ELSE /\ Potions(store[a]) + used[a] = IF store[a].claimed THEN 2 ELSE 0
             /\ decodable(store[a])

\* A connection whose session expired, or that did not authenticate in time,
\* is dropped, even if the peer keeps it open.
Overdue(c) ==
    /\ c \in DOMAIN connections
    /\ \/ connections[c].authDeadline \in 1..now
       \/ \E t \in bound(c) : sessions[t].expires <= now
OverdueDropped == \A c \in Conns : Overdue(c) ~> c \notin DOMAIN connections

=============================================================================
