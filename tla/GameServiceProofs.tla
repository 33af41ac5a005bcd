------------------------- MODULE GameServiceProofs --------------------------
(***************************************************************************)
(* RoomsExact, AuthenticatedExact and RewardOnce of module GameService,    *)
(* for every set of accounts, connections and rooms and all bounds.  The   *)
(* rooms and the sessions are argued about together: what takes a session  *)
(* away must take the connection it was bound to out of its room, and      *)
(* finds it only because bindings are unique in both directions.           *)
(* The second part is about the other store of players, the JSON file.     *)
(***************************************************************************)
EXTENDS GameService, JSONFileStore, FiniteSetTheorems, TLAPS

\* A save as the service writes it: the only item is the potion.
Inventories == [{} -> Nat] \cup [{"potion"} -> Nat]
Saves == [level : Nat, experience : Nat, claimed : BOOLEAN, inventory : Inventories]

\* The types of the maps of live state, and of what is left of the variables.
LiveOK ==
    /\ DOMAIN connections \subseteq Conns
    /\ connections \in [DOMAIN connections -> Connection]
    /\ DOMAIN sessions \subseteq 1..issued
    /\ sessions \in [DOMAIN sessions -> Session]
    /\ members \in [Rooms -> SUBSET Conns]
RestOK ==
    /\ phase \in {"serving", "draining", "closed"}
    /\ hooks \in [Conns -> {"before", "started", "ended"}]
    /\ stopped \subseteq Conns
    /\ now \in 0..MaxTime
    /\ issued \in 0..MaxLogins
StoreOK ==
    /\ DOMAIN store \subseteq Accounts
    /\ store \in [DOMAIN store -> Saves]
    /\ used \in [Accounts -> Nat]

RoomSets == \A r \in Rooms : members[r] = {c \in DOMAIN connections : connections[c].room = r}
RoomLimits == \A r \in Rooms : Cardinality(members[r]) <= MaxPlayers

\* A binding leads to an authenticated connection, and back.
BoundKnown ==
    \A t \in DOMAIN sessions : \A c \in sessions[t].conns :
        c \in DOMAIN connections /\ connections[c].authDeadline = NoDeadline
AuthenticatedBound ==
    \A c \in DOMAIN connections :
        connections[c].authDeadline = NoDeadline => \E t \in DOMAIN sessions : c \in sessions[t].conns

\* Bindings are unique, and so are the tokens of an account.
OneSession ==
    \A t, u \in DOMAIN sessions : \A c \in sessions[t].conns : c \in sessions[u].conns => t = u
OneConn == \A t \in DOMAIN sessions : \A c, d \in sessions[t].conns : c = d
OneToken == \A t, u \in DOMAIN sessions : sessions[t].account = sessions[u].account => t = u

Bindings == BoundKnown /\ AuthenticatedBound /\ OneSession /\ OneConn /\ OneToken

\* What the service knows of the life of a connection.
HooksExact ==
    /\ \A c \in DOMAIN connections : hooks[c] = "started"
    /\ \A c \in Conns : hooks[c] = "started" => c \in DOMAIN connections \cup stopped
    /\ closed => DOMAIN connections = {}

LiveInv == LiveOK /\ RestOK /\ RoomSets /\ RoomLimits /\ Bindings /\ HooksExact
StoreInv == StoreOK /\ RewardOnce
IInv == LiveInv /\ StoreInv

-----------------------------------------------------------------------------
(***************************************************************************)
(* Lemmas about maps and small sets.                                       *)
(***************************************************************************)
\* A map into T stays one when entries are deleted.
LEMMA DeleteType ==
    ASSUME NEW f, NEW D, NEW T, f \in [DOMAIN f -> T]
    PROVE  Delete(f, D) \in [DOMAIN Delete(f, D) -> T]
BY DEF Delete

\* So is one with an entry of T assigned to it.
LEMMA PutType ==
    ASSUME NEW f, NEW k, NEW T, NEW v \in T, f \in [DOMAIN f -> T]
    PROVE  Put(f, k, v) \in [DOMAIN Put(f, k, v) -> T]
BY DEF Put

\* A set whose elements are equal has at most one.
LEMMA AtMostOne ==
    ASSUME NEW S, \A x, y \in S : x = y
    PROVE  Cardinality(S) <= 1
<1>1. CASE S = {}
    BY <1>1, FS_EmptySet
<1>2. CASE S # {}
    <2>1. PICK x \in S : TRUE
        BY <1>2
    <2>2. S = {x}
        BY <2>1
    <2> QED BY <2>2, FS_Singleton
<1> QED BY <1>1, <1>2

\* The members of a room are finitely many.
LEMMA FiniteConns == ASSUME NEW S \in SUBSET Conns PROVE IsFiniteSet(S) /\ Cardinality(S) \in Nat
BY ServiceAssumption, FS_Subset, FS_CardinalityType

-----------------------------------------------------------------------------
(***************************************************************************)
(* disconnectLocked.  S are the sessions it starts from; it is called      *)
(* with an S that lost only sessions whose connections are in D, and that  *)
(* gained only a session that is not bound.                                *)
(***************************************************************************)
Unbinds(S, D) ==
    /\ S \in [DOMAIN S -> Session]
    /\ \A t \in DOMAIN S : IF t \in DOMAIN sessions THEN S[t] = sessions[t] ELSE S[t].conns = {}
    /\ \A t \in DOMAIN sessions : t \notin DOMAIN S => sessions[t].conns \subseteq D
    /\ \A t, u \in DOMAIN S : S[t].account = S[u].account => t = u

\* What it leaves: the rooms and the bindings agree again.
LEMMA DisconnectStep ==
    ASSUME LiveInv, NEW S, NEW D, NEW stop \in BOOLEAN, Unbinds(S, D), disconnectLocked(S, D, stop),
           DOMAIN S \subseteq 1..issued'
    PROVE  /\ LiveOK' /\ RoomSets' /\ RoomLimits' /\ Bindings'
           /\ DOMAIN connections' = DOMAIN connections \ D
           /\ stopped' = IF stop THEN stopped \cup (D \cap DOMAIN connections) ELSE stopped
<1> DEFINE K == D \cap DOMAIN connections
           L == {t \in DOMAIN S : S[t].conns \cap K # {}}
<1>1. /\ members' = [r \in Rooms |-> members[r] \ {c \in K : connections[c].room = r}]
      /\ sessions' = Delete(S, L)
      /\ connections' = Delete(connections, K)
      /\ stopped' = IF stop THEN stopped \cup K ELSE stopped
    BY DEF disconnectLocked, logoutByConnID
<1> HIDE DEF K, L
<1>2. /\ DOMAIN connections' = DOMAIN connections \ K
      /\ \A c \in DOMAIN connections' : connections'[c] = connections[c]
    BY <1>1 DEF Delete
<1>3. /\ DOMAIN sessions' = DOMAIN S \ L
      /\ \A t \in DOMAIN sessions' : sessions'[t] = S[t]
    BY <1>1 DEF Delete
<1>4. LiveOK'
    <2>1. connections' \in [DOMAIN connections' -> Connection]
        BY <1>1, DeleteType DEF LiveInv, LiveOK
    <2>2. sessions' \in [DOMAIN sessions' -> Session]
        BY <1>1, DeleteType DEF Unbinds
    <2>3. members' \in [Rooms -> SUBSET Conns]
        BY <1>1 DEF LiveInv, LiveOK
    <2> QED BY <1>2, <1>3, <2>1, <2>2, <2>3 DEF LiveInv, LiveOK
<1>5. RoomSets'
    <2>1. ASSUME NEW r \in Rooms
          PROVE  members'[r] = {c \in DOMAIN connections' : connections'[c].room = r}
        <3>1. members'[r] = members[r] \ {c \in K : connections[c].room = r}
            BY <1>1
        <3>2. members[r] = {c \in DOMAIN connections : connections[c].room = r}
            BY DEF LiveInv, RoomSets
        <3> QED BY <1>2, <3>1, <3>2
    <2> QED BY <2>1 DEF RoomSets
<1>6. RoomLimits'
    <2>1. ASSUME NEW r \in Rooms PROVE Cardinality(members'[r]) <= MaxPlayers
        <3>1. members'[r] \subseteq members[r] /\ members[r] \in SUBSET Conns
            BY <1>1 DEF LiveInv, LiveOK
        <3>2. /\ Cardinality(members'[r]) <= Cardinality(members[r])
              /\ Cardinality(members'[r]) \in Nat /\ Cardinality(members[r]) \in Nat
            BY <3>1, FiniteConns, FS_Subset
        <3>3. Cardinality(members[r]) <= MaxPlayers
            BY DEF LiveInv, RoomLimits
        <3> QED BY <3>2, <3>3, ServiceAssumption
    <2> QED BY <2>1 DEF RoomLimits
<1>7. ASSUME NEW t \in DOMAIN sessions', NEW c \in sessions'[t].conns
      PROVE  t \in DOMAIN sessions /\ sessions'[t] = sessions[t] /\ c \notin K
    <2>1. t \in DOMAIN S /\ t \notin L /\ c \in S[t].conns /\ sessions'[t] = S[t]
        BY <1>3, <1>7
    <2> QED BY <2>1 DEF L, Unbinds
<1>8. BoundKnown'
    BY <1>2, <1>7 DEF LiveInv, Bindings, BoundKnown
<1>9. ASSUME NEW c \in DOMAIN connections', connections'[c].authDeadline = NoDeadline
      PROVE  \E t \in DOMAIN sessions' : c \in sessions'[t].conns
    <2>1. c \in DOMAIN connections /\ c \notin D /\ connections[c].authDeadline = NoDeadline
        BY <1>2, <1>9 DEF K
    <2>2. PICK t \in DOMAIN sessions : c \in sessions[t].conns
        BY <2>1 DEF LiveInv, Bindings, AuthenticatedBound
    <2>3. t \in DOMAIN S
        BY <2>1, <2>2 DEF Unbinds
    <2>4. S[t] = sessions[t]
        BY <2>3 DEF Unbinds
    <2>5. t \notin L
        BY <2>1, <2>2, <2>4 DEF L, K, LiveInv, Bindings, OneConn
    <2> QED BY <1>3, <2>2, <2>3, <2>4, <2>5
<1>10. AuthenticatedBound'
    BY <1>9 DEF AuthenticatedBound, NoDeadline
<1>11. OneSession'
    BY <1>7 DEF LiveInv, Bindings, OneSession
<1>12. OneConn'
    BY <1>7 DEF LiveInv, Bindings, OneConn
<1>13. OneToken'
    BY <1>3 DEF OneToken, Unbinds
<1> QED BY <1>1, <1>2, <1>4, <1>5, <1>6, <1>8, <1>10, <1>11, <1>12, <1>13 DEF Bindings, K

-----------------------------------------------------------------------------
(***************************************************************************)
(* The calls that disconnect.                                              *)
(***************************************************************************)
\* A login deals a token that is fresh and takes the account's old session
\* away together with the connection that was bound to it.
LEMMA LoginLive == ASSUME LiveInv, NEW a \in Accounts, Login(a) PROVE LiveInv'
<1> DEFINE fresh == [account |-> a, expires |-> now + TTL, conns |-> {}]
           R == Delete(sessions, sessionsOf(a))
           S == Put(R, issued + 1, fresh)
           D == replacedConns(a)
<1>1. /\ disconnectLocked(S, D, TRUE) /\ ~closed /\ issued' = issued + 1
      /\ issued < MaxLogins /\ UNCHANGED <<phase, hooks, now>>
    BY DEF Login
<1>2. issued \in Nat /\ now \in Nat /\ issued + 1 \notin DOMAIN sessions
    BY ServiceAssumption DEF LiveInv, LiveOK, RestOK
<1>3. fresh \in Session
    BY <1>2, ServiceAssumption DEF Session
<1>4. /\ DOMAIN R = DOMAIN sessions \ sessionsOf(a)
      /\ \A t \in DOMAIN R : R[t] = sessions[t]
      /\ R \in [DOMAIN R -> Session]
    BY DEF Delete, LiveInv, LiveOK
<1> HIDE DEF R
<1>5. /\ DOMAIN S = DOMAIN R \cup {issued + 1}
      /\ S[issued + 1] = fresh
      /\ \A t \in DOMAIN R : S[t] = sessions[t]
    BY <1>2, <1>4 DEF Put
<1>6. S \in [DOMAIN S -> Session]
    BY <1>3, <1>4, PutType
<1> HIDE DEF S
<1>7. fresh.conns = {} /\ fresh.account = a
    OBVIOUS
<1> HIDE DEF fresh
<1>8. Unbinds(S, D)
    <2>1. \A t \in DOMAIN S : IF t \in DOMAIN sessions THEN S[t] = sessions[t] ELSE S[t].conns = {}
        BY <1>2, <1>4, <1>5, <1>7
    <2>2. ASSUME NEW t \in DOMAIN sessions, t \notin DOMAIN S PROVE sessions[t].conns \subseteq D
        <3>1. t \in sessionsOf(a)
            BY <1>4, <1>5, <2>2
        <3> QED BY <3>1 DEF replacedConns, connsOf
    <2>3. ASSUME NEW t \in DOMAIN S, NEW u \in DOMAIN S, S[t].account = S[u].account PROVE t = u
        <3>1. \A x \in DOMAIN S : x # issued + 1 =>
                  x \in DOMAIN sessions /\ S[x] = sessions[x] /\ S[x].account # a
            BY <1>4, <1>5 DEF sessionsOf
        <3>2. \A x, y \in DOMAIN sessions : sessions[x].account = sessions[y].account => x = y
            BY DEF LiveInv, Bindings, OneToken
        <3> QED BY <1>5, <1>7, <2>3, <3>1, <3>2
    <2> QED BY <1>6, <2>1, <2>2, <2>3 DEF Unbinds
<1>9. DOMAIN S \subseteq 1..issued'
    BY <1>1, <1>2, <1>4, <1>5 DEF LiveInv, LiveOK
<1>10. /\ LiveOK' /\ RoomSets' /\ RoomLimits' /\ Bindings'
       /\ DOMAIN connections' = DOMAIN connections \ D
       /\ stopped' = stopped \cup (D \cap DOMAIN connections)
    BY <1>1, <1>8, <1>9, DisconnectStep
<1>11. RestOK'
    BY <1>1, <1>10, ServiceAssumption DEF LiveInv, LiveOK, RestOK
<1>12. HooksExact'
    BY <1>1, <1>10 DEF LiveInv, HooksExact, closed
<1> QED BY <1>10, <1>11, <1>12 DEF LiveInv

\* Forgetting connections alone unbinds their sessions only.
LEMMA UnbindsSame == ASSUME LiveInv, NEW D PROVE Unbinds(sessions, D)
BY DEF LiveInv, LiveOK, Bindings, OneToken, Unbinds

\* The stop hook forgets its connection.
LEMMA DisconnectedLive == ASSUME LiveInv, NEW c \in Conns, Disconnected(c) PROVE LiveInv'
<1>1. disconnectLocked(sessions, {c}, FALSE) /\ UNCHANGED <<phase, now, issued>>
      /\ hooks' = [hooks EXCEPT ![c] = "ended"]
    BY DEF Disconnected
<1>2. DOMAIN sessions \subseteq 1..issued'
    BY <1>1 DEF LiveInv, LiveOK
<1>3. /\ LiveOK' /\ RoomSets' /\ RoomLimits' /\ Bindings'
      /\ DOMAIN connections' = DOMAIN connections \ {c}
      /\ stopped' = stopped
    BY <1>1, <1>2, UnbindsSame, DisconnectStep
<1>4. RestOK'
    BY <1>1, <1>3 DEF LiveInv, RestOK
<1>5. HooksExact'
    BY <1>1, <1>3 DEF LiveInv, LiveOK, RestOK, HooksExact, closed
<1> QED BY <1>3, <1>4, <1>5 DEF LiveInv

\* Close forgets all of them.
LEMMA CloseLive == ASSUME LiveInv, Close PROVE LiveInv'
<1>1. /\ disconnectLocked(sessions, DOMAIN connections, TRUE) /\ phase' = "closed"
      /\ UNCHANGED <<hooks, now, issued>>
    BY DEF Close
<1>2. DOMAIN sessions \subseteq 1..issued'
    BY <1>1 DEF LiveInv, LiveOK
<1>3. /\ LiveOK' /\ RoomSets' /\ RoomLimits' /\ Bindings'
      /\ DOMAIN connections' = DOMAIN connections \ DOMAIN connections
      /\ stopped' = stopped \cup (DOMAIN connections \cap DOMAIN connections)
    BY <1>1, <1>2, UnbindsSame, DisconnectStep
<1>4. RestOK'
    BY <1>1, <1>3 DEF LiveInv, LiveOK, RestOK
<1>5. HooksExact'
    BY <1>1, <1>3 DEF LiveInv, HooksExact, closed
<1> QED BY <1>3, <1>4, <1>5 DEF LiveInv

\* A sweep, with whatever time of a tick that has passed, drops the connections
\* of the sessions it drops.
LEMMA SweepLive == ASSUME LiveInv, NEW at \in 0..MaxTime, Sweep(at) PROVE LiveInv'
<1> DEFINE S == Delete(sessions, expiredBy(at))
           D == connsOf(expiredBy(at)) \cup late(at)
<1>1. disconnectLocked(S, D, TRUE) /\ phase = "serving" /\ UNCHANGED <<phase, hooks, now, issued>>
    BY DEF Sweep
<1>2. /\ DOMAIN S = DOMAIN sessions \ expiredBy(at)
      /\ \A t \in DOMAIN S : S[t] = sessions[t]
      /\ S \in [DOMAIN S -> Session]
    BY DEF Delete, LiveInv, LiveOK
<1> HIDE DEF S
<1>3. Unbinds(S, D)
    <2>1. \A t \in DOMAIN sessions : t \notin DOMAIN S => sessions[t].conns \subseteq D
        BY <1>2 DEF connsOf
    <2> QED BY <1>2, <2>1 DEF LiveInv, Bindings, OneToken, Unbinds
<1> HIDE DEF D
<1>4. DOMAIN S \subseteq 1..issued'
    BY <1>1, <1>2 DEF LiveInv, LiveOK
<1>5. /\ LiveOK' /\ RoomSets' /\ RoomLimits' /\ Bindings'
      /\ DOMAIN connections' = DOMAIN connections \ D
      /\ stopped' = stopped \cup (D \cap DOMAIN connections)
    BY <1>1, <1>3, <1>4, DisconnectStep
<1>6. RestOK'
    BY <1>1, <1>5 DEF LiveInv, LiveOK, RestOK
<1>7. HooksExact'
    BY <1>1, <1>5 DEF LiveInv, HooksExact, closed
<1> QED BY <1>5, <1>6, <1>7 DEF LiveInv

-----------------------------------------------------------------------------
(***************************************************************************)
(* The other calls.                                                        *)
(***************************************************************************)
\* A new connection is in no room, has no session and has a deadline, which is
\* never the zero time; its number was not used before.
LEMMA ConnectedLive == ASSUME LiveInv, NEW c \in Conns, Connected(c) PROVE LiveInv'
<1> DEFINE fresh == [room |-> NoRoom, authDeadline |-> now + AuthTime]
<1>1. /\ hooks[c] = "before" /\ hooks' = [hooks EXCEPT ![c] = "started"]
      /\ UNCHANGED <<sessions, members, phase, now, issued>>
    BY DEF Connected
<1>2. c \notin DOMAIN connections
    BY <1>1 DEF LiveInv, HooksExact
<1>3. CASE closed
    <2>1. stopped' = stopped \cup {c} /\ UNCHANGED connections
        BY <1>3 DEF Connected
    <2> QED BY <1>1, <1>2, <1>3, <2>1 DEF LiveInv, LiveOK, RestOK, RoomSets, RoomLimits, Bindings,
                BoundKnown, AuthenticatedBound, OneSession, OneConn, OneToken, HooksExact, closed
<1>4. CASE ~closed
    <2>1. connections' = Put(connections, c, fresh) /\ UNCHANGED stopped
        BY <1>4 DEF Connected, admit
    <2>2. fresh \in Connection /\ fresh.room = NoRoom /\ fresh.authDeadline # NoDeadline
        BY ServiceAssumption DEF LiveInv, RestOK, Connection, NoRoom, NoDeadline
    <2> HIDE DEF fresh
    <2>3. /\ DOMAIN connections' = DOMAIN connections \cup {c} /\ connections'[c] = fresh
          /\ \A x \in DOMAIN connections : connections'[x] = connections[x]
        BY <1>2, <2>1 DEF Put
    <2>4. connections' \in [DOMAIN connections' -> Connection]
        BY <2>1, <2>2, PutType DEF LiveInv, LiveOK
    <2>5. LiveOK' /\ RestOK'
        BY <1>1, <2>1, <2>3, <2>4 DEF LiveInv, LiveOK, RestOK
    <2>6. RoomSets' /\ RoomLimits'
        <3>1. \A r \in Rooms : r # NoRoom
            BY ServiceAssumption DEF NoRoom
        <3>2. ASSUME NEW r \in Rooms
              PROVE  members'[r] = {x \in DOMAIN connections' : connections'[x].room = r}
            <4>1. members[r] = {x \in DOMAIN connections : connections[x].room = r}
                BY DEF LiveInv, RoomSets
            <4> QED BY <1>1, <2>2, <2>3, <3>1, <4>1
        <3> QED BY <1>1, <3>2 DEF LiveInv, RoomSets, RoomLimits
    <2>7. Bindings'
        BY <1>1, <2>2, <2>3 DEF LiveInv, Bindings, BoundKnown, AuthenticatedBound, OneSession,
                OneConn, OneToken, NoDeadline
    <2>8. HooksExact'
        BY <1>1, <1>4, <2>1, <2>3 DEF LiveInv, LiveOK, RestOK, HooksExact, closed
    <2> QED BY <2>5, <2>6, <2>7, <2>8 DEF LiveInv
<1> QED BY <1>3, <1>4

\* Binding: the token has no other connection and the connection no other
\* token, checked and done under the one lock.
LEMMA AuthenticateLive ==
    ASSUME LiveInv, NEW c \in Conns, NEW t \in Tokens, Authenticate(c, t)
    PROVE  LiveInv'
<1>1. /\ c \in DOMAIN connections /\ t \in DOMAIN sessions
      /\ sessions[t].conns \subseteq {c} /\ bound(c) \subseteq {t}
      /\ sessions' = [sessions EXCEPT ![t].conns = {c}]
      /\ connections' = [connections EXCEPT ![c].authDeadline = NoDeadline]
      /\ UNCHANGED <<members, phase, hooks, stopped, now, issued>>
    BY DEF Authenticate, mayBind
<1>2. /\ DOMAIN sessions' = DOMAIN sessions
      /\ sessions' \in [DOMAIN sessions -> Session]
      /\ sessions'[t].conns = {c}
      /\ \A u \in DOMAIN sessions : /\ sessions'[u].account = sessions[u].account
                                    /\ u # t => sessions'[u] = sessions[u]
    BY <1>1 DEF LiveInv, LiveOK, Session
<1>3. /\ DOMAIN connections' = DOMAIN connections
      /\ connections' \in [DOMAIN connections -> Connection]
      /\ connections'[c].authDeadline = NoDeadline
      /\ \A x \in DOMAIN connections : /\ connections'[x].room = connections[x].room
                                       /\ x # c => connections'[x] = connections[x]
    BY <1>1 DEF LiveInv, LiveOK, Connection, NoDeadline
<1>4. \A u \in DOMAIN sessions : c \in sessions[u].conns => u = t
    BY <1>1 DEF bound
<1>5. LiveOK' /\ RestOK'
    BY <1>1, <1>2, <1>3 DEF LiveInv, LiveOK, RestOK
<1>6. RoomSets' /\ RoomLimits'
    BY <1>1, <1>3 DEF LiveInv, RoomSets, RoomLimits
<1>7. BoundKnown'
    <2>1. ASSUME NEW u \in DOMAIN sessions, NEW x \in sessions'[u].conns
          PROVE  x \in DOMAIN connections /\ connections'[x].authDeadline = NoDeadline
        <3>1. CASE x = c
            BY <1>1, <1>3, <3>1
        <3>2. CASE x # c
            BY <1>2, <1>3, <2>1, <3>2 DEF LiveInv, Bindings, BoundKnown
        <3> QED BY <3>1, <3>2
    <2> QED BY <1>2, <1>3, <2>1 DEF BoundKnown, NoDeadline
<1>8. AuthenticatedBound'
    <2>1. ASSUME NEW x \in DOMAIN connections, connections'[x].authDeadline = NoDeadline
          PROVE  \E u \in DOMAIN sessions : x \in sessions'[u].conns
        <3>1. CASE x = c
            BY <1>1, <1>2, <3>1
        <3>2. CASE x # c
            <4>1. PICK u \in DOMAIN sessions : x \in sessions[u].conns
                BY <1>3, <2>1, <3>2 DEF LiveInv, Bindings, AuthenticatedBound
            <4> QED BY <1>1, <1>2, <3>2, <4>1
        <3> QED BY <3>1, <3>2
    <2> QED BY <1>2, <1>3, <2>1 DEF AuthenticatedBound, NoDeadline
<1>9. OneSession'
    <2>1. ASSUME NEW u \in DOMAIN sessions, NEW w \in DOMAIN sessions,
                 NEW x \in sessions'[u].conns, x \in sessions'[w].conns
          PROVE  u = w
        <3>1. CASE u = t \/ w = t
            BY <1>2, <1>4, <2>1, <3>1
        <3>2. CASE u # t /\ w # t
            BY <1>2, <2>1, <3>2 DEF LiveInv, Bindings, OneSession
        <3> QED BY <3>1, <3>2
    <2> QED BY <1>2, <2>1 DEF OneSession
<1>10. OneConn' /\ OneToken'
    BY <1>2 DEF LiveInv, Bindings, OneConn, OneToken
<1>11. HooksExact'
    BY <1>1, <1>3 DEF LiveInv, HooksExact, closed
<1> QED BY <1>5, <1>6, <1>7, <1>8, <1>9, <1>10, <1>11 DEF LiveInv, Bindings

\* A step that changes only the room of one connection keeps the bindings.
LEMMA RoomChange ==
    ASSUME LiveInv, NEW c \in DOMAIN connections, NEW r \in Rooms \cup {NoRoom},
           connections' = [connections EXCEPT ![c].room = r],
           UNCHANGED <<sessions, phase, hooks, stopped, now, issued>>,
           members' \in [Rooms -> SUBSET Conns]
    PROVE  /\ LiveOK' /\ RestOK' /\ Bindings' /\ HooksExact'
           /\ DOMAIN connections' = DOMAIN connections
           /\ connections'[c].room = r
           /\ \A x \in DOMAIN connections : x # c => connections'[x] = connections[x]
<1>1. /\ DOMAIN connections' = DOMAIN connections
      /\ connections' \in [DOMAIN connections -> Connection]
      /\ connections'[c].room = r
      /\ \A x \in DOMAIN connections : /\ connections'[x].authDeadline = connections[x].authDeadline
                                       /\ x # c => connections'[x] = connections[x]
    BY DEF LiveInv, LiveOK, Connection
<1>2. LiveOK' /\ RestOK'
    BY <1>1 DEF LiveInv, LiveOK, RestOK
<1>3. Bindings'
    BY <1>1 DEF LiveInv, Bindings, BoundKnown, AuthenticatedBound, OneSession, OneConn, OneToken,
                NoDeadline
<1>4. HooksExact'
    BY <1>1 DEF LiveInv, HooksExact, closed
<1> QED BY <1>1, <1>2, <1>3, <1>4

\* Joining a room leaves the old one, and respects the capacity.
LEMMA JoinLive == ASSUME LiveInv, NEW c \in Conns, NEW r \in Rooms, Join(c, r) PROVE LiveInv'
<1>1. /\ c \in DOMAIN connections /\ connections[c].room # r
      /\ c \notin members[r] /\ Cardinality(members[r]) < MaxPlayers
      /\ members' = moved(c, r)
      /\ connections' = [connections EXCEPT ![c].room = r]
      /\ UNCHANGED <<sessions, phase, hooks, stopped, now, issued>>
    BY DEF Join, authenticatedLocked, roomJoin
<1>2. /\ members' \in [Rooms -> SUBSET Conns]
      /\ members'[r] = members[r] \cup {c}
      /\ \A q \in Rooms : q # r => members'[q] = members[q] \ {x \in {c} : connections[x].room = q}
    BY <1>1 DEF LiveInv, LiveOK, moved
<1>3. /\ LiveOK' /\ RestOK' /\ Bindings' /\ HooksExact'
      /\ DOMAIN connections' = DOMAIN connections
      /\ connections'[c].room = r
      /\ \A x \in DOMAIN connections : x # c => connections'[x] = connections[x]
    BY <1>1, <1>2, RoomChange
<1>4. ASSUME NEW q \in Rooms
      PROVE  members'[q] = {x \in DOMAIN connections' : connections'[x].room = q}
    <2>1. members[q] = {x \in DOMAIN connections : connections[x].room = q}
        BY DEF LiveInv, RoomSets
    <2>2. CASE q = r
        BY <1>1, <1>2, <1>3, <2>1, <2>2
    <2>3. CASE q # r
        BY <1>1, <1>2, <1>3, <2>1, <2>3
    <2> QED BY <2>2, <2>3
<1>5. ASSUME NEW q \in Rooms PROVE Cardinality(members'[q]) <= MaxPlayers
    <2>1. members[q] \in SUBSET Conns /\ Cardinality(members[q]) <= MaxPlayers
        BY DEF LiveInv, LiveOK, RoomLimits
    <2>2. IsFiniteSet(members[q]) /\ Cardinality(members[q]) \in Nat
        BY <2>1, FiniteConns
    <2>3. CASE q = r
        <3>1. Cardinality(members[q] \cup {c}) = Cardinality(members[q]) + 1
            BY <1>1, <2>2, <2>3, FS_AddElement
        <3> QED BY <1>1, <1>2, <2>2, <2>3, <3>1, ServiceAssumption
    <2>4. CASE q # r
        <3>1. members'[q] \in SUBSET members[q]
            BY <1>2, <2>4
        <3>2. Cardinality(members'[q]) <= Cardinality(members[q]) /\ Cardinality(members'[q]) \in Nat
            BY <2>2, <3>1, FS_Subset, FS_CardinalityType
        <3> QED BY <2>1, <2>2, <3>2, ServiceAssumption
    <2> QED BY <2>3, <2>4
<1> QED BY <1>3, <1>4, <1>5 DEF LiveInv, RoomSets, RoomLimits

\* Leaving a room.
LEMMA LeaveLive == ASSUME LiveInv, NEW c \in Conns, Leave(c) PROVE LiveInv'
<1> DEFINE r == connections[c].room
<1>1. /\ c \in DOMAIN connections /\ r # NoRoom
      /\ members' = [members EXCEPT ![r] = @ \ {c}]
      /\ connections' = [connections EXCEPT ![c].room = NoRoom]
      /\ UNCHANGED <<sessions, phase, hooks, stopped, now, issued>>
    BY DEF Leave, authenticatedLocked
<1>2. r \in Rooms
    BY <1>1 DEF LiveInv, LiveOK, Connection
<1> HIDE DEF r
<1>3. /\ members' \in [Rooms -> SUBSET Conns]
      /\ members'[r] = members[r] \ {c}
      /\ \A q \in Rooms : q # r => members'[q] = members[q]
    BY <1>1, <1>2 DEF LiveInv, LiveOK
<1>4. /\ LiveOK' /\ RestOK' /\ Bindings' /\ HooksExact'
      /\ DOMAIN connections' = DOMAIN connections
      /\ connections'[c].room = NoRoom
      /\ \A x \in DOMAIN connections : x # c => connections'[x] = connections[x]
    BY <1>1, <1>3, RoomChange
<1>5. \A q \in Rooms : q # NoRoom
    BY ServiceAssumption DEF NoRoom
<1>6. ASSUME NEW q \in Rooms
      PROVE  members'[q] = {x \in DOMAIN connections' : connections'[x].room = q}
    <2>1. members[q] = {x \in DOMAIN connections : connections[x].room = q}
        BY DEF LiveInv, RoomSets
    <2>2. CASE q = r
        BY <1>3, <1>4, <1>5, <2>1, <2>2
    <2>3. CASE q # r
        BY <1>3, <1>4, <1>5, <2>1, <2>3 DEF r
    <2> QED BY <2>2, <2>3
<1>7. ASSUME NEW q \in Rooms PROVE Cardinality(members'[q]) <= MaxPlayers
    <2>1. members[q] \in SUBSET Conns /\ Cardinality(members[q]) <= MaxPlayers
        BY DEF LiveInv, LiveOK, RoomLimits
    <2>2. IsFiniteSet(members[q]) /\ Cardinality(members[q]) \in Nat
        BY <2>1, FiniteConns
    <2>3. members'[q] \in SUBSET members[q]
        BY <1>3
    <2>4. Cardinality(members'[q]) <= Cardinality(members[q]) /\ Cardinality(members'[q]) \in Nat
        BY <2>2, <2>3, FS_Subset, FS_CardinalityType
    <2> QED BY <2>1, <2>2, <2>4, ServiceAssumption
<1> QED BY <1>4, <1>6, <1>7 DEF LiveInv, RoomSets, RoomLimits

-----------------------------------------------------------------------------
(***************************************************************************)
(* The store.                                                              *)
(***************************************************************************)
\* The potions of a save are counted by its inventory.
LEMMA PotionsOf ==
    ASSUME NEW p \in Saves
    PROVE  /\ Potions(p) \in Nat
           /\ DOMAIN p.inventory = {} => Potions(p) = 0
           /\ DOMAIN p.inventory = {} \/ DOMAIN p.inventory = {"potion"}
BY DEF Saves, Inventories, Potions

\* Writing the potions of a save: the rest of the inventory does not exist.
LEMMA PutPotions ==
    ASSUME NEW p \in Saves, NEW n \in Nat
    PROVE  /\ Put(p.inventory, "potion", n) \in [{"potion"} -> Nat]
           /\ Put(p.inventory, "potion", n)["potion"] = n
<1>1. DOMAIN p.inventory \cup {"potion"} = {"potion"}
    BY PotionsOf
<1> QED BY <1>1 DEF Put

\* A transaction that replaces a save by one that balances keeps the balance.
LEMMA StoreUpdate ==
    ASSUME StoreInv, NEW a \in DOMAIN store, NEW p \in Saves, Update(a, p),
           decodable(p), used' \in [Accounts -> Nat],
           Potions(p) + used'[a] = IF p.claimed THEN 2 ELSE 0,
           \A b \in Accounts : b # a => used'[b] = used[b]
    PROVE  StoreInv'
<1>1. /\ DOMAIN store' = DOMAIN store /\ store' \in [DOMAIN store -> Saves]
      /\ store'[a] = p /\ \A b \in DOMAIN store : b # a => store'[b] = store[b]
    BY DEF StoreInv, StoreOK, Update
<1>2. StoreOK'
    BY <1>1 DEF StoreInv, StoreOK
<1>3. ASSUME NEW b \in Accounts
      PROVE  IF b \notin DOMAIN store' THEN used'[b] = 0
             ELSE /\ Potions(store'[b]) + used'[b] = IF store'[b].claimed THEN 2 ELSE 0
                  /\ decodable(store'[b])
    <2>1. CASE b = a
        BY <1>1, <2>1
    <2>2. CASE b # a
        BY <1>1, <2>2 DEF StoreInv, RewardOnce
    <2> QED BY <2>1, <2>2
<1>4. RewardOnce'
    <2> USE <1>3
    <2> QED BY DEF RewardOnce, decodable, Potions
<1> QED BY <1>2, <1>4 DEF StoreInv

\* The reward is given when it was not claimed, which an undecodable or a
\* claimed save refuses; then nothing was had and nothing was used.
LEMMA ClaimStore ==
    ASSUME StoreInv, NEW c \in Conns, NEW a \in Accounts, ClaimStarter(c, a)
    PROVE  StoreInv'
<1> DEFINE q == store[a]
           inv == Put(q.inventory, "potion", Potions(q) + 2)
           p == [claimed |-> TRUE, experience |-> q.experience + 100,
                 level |-> 1 + (q.experience + 100) \div 100, inventory |-> inv]
<1>1. /\ a \in DOMAIN store /\ decodable(q) /\ ~q.claimed /\ used' = used
      /\ Update(a, p)
    BY DEF ClaimStarter, changing, mayClaim
<1>2. q \in Saves /\ used \in [Accounts -> Nat]
    BY <1>1 DEF StoreInv, StoreOK
<1>3. q.experience = 0 /\ DOMAIN q.inventory = {}
    BY <1>1 DEF decodable
<1>4. Potions(q) = 0 /\ used[a] = 0
    BY <1>1, <1>2, <1>3, PotionsOf DEF StoreInv, StoreOK, RewardOnce
<1>5. inv \in [{"potion"} -> Nat] /\ inv["potion"] = 2
    BY <1>2, <1>4, PutPotions
<1> HIDE DEF inv
<1>6. p = [claimed |-> TRUE, experience |-> 100, level |-> 2, inventory |-> inv]
    BY <1>3
<1> HIDE DEF p
<1>7. p \in Saves
    BY <1>5, <1>6 DEF Saves, Inventories
<1>8. Potions(p) = 2 /\ decodable(p) /\ p.claimed
    BY <1>5, <1>6 DEF Potions, decodable
<1> QED BY <1>1, <1>2, <1>4, <1>7, <1>8, StoreUpdate

\* Using a potion moves it from the save to the history.
LEMMA UseStore ==
    ASSUME StoreInv, NEW c \in Conns, NEW a \in Accounts, UseItem(c, a)
    PROVE  StoreInv'
<1> DEFINE q == store[a]
           inv == Put(q.inventory, "potion", Potions(q) - 1)
           p == [q EXCEPT !.inventory = inv]
<1>1. /\ a \in DOMAIN store /\ decodable(q) /\ Potions(q) > 0
      /\ used' = [used EXCEPT ![a] = @ + 1] /\ Update(a, p)
    BY DEF UseItem, changing, mayUse
<1>2. q \in Saves /\ used \in [Accounts -> Nat] /\ Potions(q) \in Nat
    BY <1>1, PotionsOf DEF StoreInv, StoreOK
<1>3. Potions(q) + used[a] = IF q.claimed THEN 2 ELSE 0
    BY <1>1 DEF StoreInv, RewardOnce
<1>4. q.claimed /\ Potions(q) - 1 \in 0..1 /\ q.experience = 100 /\ q.level = 2
    BY <1>1, <1>2, <1>3 DEF decodable
<1>5. inv \in [{"potion"} -> Nat] /\ inv["potion"] = Potions(q) - 1
    BY <1>2, <1>4, PutPotions
<1> HIDE DEF inv
<1>6. p \in Saves /\ p.inventory = inv /\ p.claimed /\ p.experience = 100 /\ p.level = 2
    BY <1>2, <1>4, <1>5 DEF Saves, Inventories
<1> HIDE DEF p
<1>7. Potions(p) = Potions(q) - 1 /\ decodable(p)
    BY <1>4, <1>5, <1>6 DEF Potions, decodable
<1>8. used' \in [Accounts -> Nat] /\ used'[a] = used[a] + 1
      /\ \A b \in Accounts : b # a => used'[b] = used[b]
    BY <1>1, <1>2
<1>9. Potions(p) + used'[a] = IF p.claimed THEN 2 ELSE 0
    BY <1>2, <1>3, <1>4, <1>6, <1>7, <1>8
<1> HIDE DEF q
<1> QED BY <1>1, <1>6, <1>7, <1>8, <1>9, StoreUpdate

\* The first login of an account saves a player that has been given nothing.
LEMMA LoginStore == ASSUME StoreInv, NEW a \in Accounts, Login(a) PROVE StoreInv'
<1>1. store' = loadOrCreate(a) /\ used' = used
    BY DEF Login
<1>2. CASE a \in DOMAIN store
    BY <1>1, <1>2 DEF loadOrCreate, StoreInv, StoreOK, RewardOnce, decodable, Potions
<1>3. CASE a \notin DOMAIN store
    <2>1. store' = Put(store, a, InitialProgress)
        BY <1>1, <1>3 DEF loadOrCreate
    <2>2. InitialProgress \in Saves /\ Potions(InitialProgress) = 0 /\ ~InitialProgress.claimed
          /\ decodable(InitialProgress)
        BY DEF InitialProgress, Saves, Inventories, Empty, Potions, decodable
    <2>3. /\ DOMAIN store' = DOMAIN store \cup {a} /\ store'[a] = InitialProgress
          /\ \A b \in DOMAIN store : store'[b] = store[b]
        BY <1>3, <2>1 DEF Put
    <2>4. store' \in [DOMAIN store' -> Saves]
        BY <2>1, <2>2, PutType DEF StoreInv, StoreOK
    <2>5. StoreOK'
        BY <1>1, <2>3, <2>4 DEF StoreInv, StoreOK
    <2>6. ASSUME NEW b \in Accounts
          PROVE  IF b \notin DOMAIN store' THEN used'[b] = 0
                 ELSE /\ Potions(store'[b]) + used'[b] = IF store'[b].claimed THEN 2 ELSE 0
                      /\ decodable(store'[b])
        <3>1. CASE b = a
            BY <1>1, <1>3, <2>2, <2>3, <3>1 DEF StoreInv, StoreOK, RewardOnce
        <3>2. CASE b # a
            BY <1>1, <2>3, <3>2 DEF StoreInv, RewardOnce
        <3> QED BY <3>1, <3>2
    <2>7. RewardOnce'
        BY <2>6 DEF RewardOnce, decodable, Potions
    <2> QED BY <2>5, <2>7 DEF StoreInv
<1> QED BY <1>2, <1>3

-----------------------------------------------------------------------------
\* Nothing else touches the live state, or the store.
LEMMA Untouched ==
    /\ LiveInv /\ UNCHANGED <<connections, sessions, members, phase, hooks, stopped, now, issued>>
       => LiveInv'
    /\ StoreInv /\ UNCHANGED <<store, used>> => StoreInv'
<1>1. ASSUME LiveInv, UNCHANGED <<connections, sessions, members, phase, hooks, stopped, now, issued>>
      PROVE  LiveInv'
    BY <1>1 DEF LiveInv, LiveOK, RestOK, RoomSets, RoomLimits, Bindings, BoundKnown,
                AuthenticatedBound, OneSession, OneConn, OneToken, HooksExact, closed
<1>2. ASSUME StoreInv, UNCHANGED <<store, used>> PROVE StoreInv'
    BY <1>2 DEF StoreInv, StoreOK, RewardOnce, decodable, Potions
<1> QED BY <1>1, <1>2

\* A service that starts knows nobody.
LEMMA StartLive ==
    ASSUME connections = Empty, sessions = Empty, members = [r \in Rooms |-> {}],
           phase = "serving", hooks = [c \in Conns |-> "before"], stopped = {},
           now \in 0..MaxTime, issued \in 0..MaxLogins
    PROVE  LiveInv
<1>1. DOMAIN connections = {} /\ DOMAIN sessions = {}
    BY DEF Empty
<1>2. connections \in [{} -> Connection] /\ sessions \in [{} -> Session]
    BY DEF Empty
<1>3. LiveOK /\ RestOK
    BY <1>1, <1>2 DEF LiveOK, RestOK
<1>4. RoomSets /\ RoomLimits
    BY <1>1, FS_EmptySet, ServiceAssumption DEF RoomSets, RoomLimits
<1>5. Bindings /\ HooksExact
    BY <1>1 DEF Bindings, BoundKnown, AuthenticatedBound, OneSession, OneConn, OneToken,
                HooksExact, closed
<1> QED BY <1>3, <1>4, <1>5 DEF LiveInv

\* Every step keeps the invariant.
LEMMA Inductive == IInv /\ [Next]_vars => IInv'
<1> SUFFICES ASSUME IInv, [Next]_vars PROVE IInv'
    OBVIOUS
<1> USE DEF IInv
<1>1. ASSUME NEW a \in Accounts, Login(a) PROVE IInv'
    BY <1>1, LoginLive, LoginStore
<1>2. ASSUME NEW c \in Conns, Connected(c) PROVE IInv'
    BY <1>2, ConnectedLive, Untouched DEF Connected
<1>3. ASSUME NEW c \in Conns, Disconnected(c) PROVE IInv'
    BY <1>3, DisconnectedLive, Untouched DEF Disconnected
<1>4. ASSUME NEW c \in Conns, NEW t \in Tokens, Authenticate(c, t) PROVE IInv'
    BY <1>4, AuthenticateLive, Untouched DEF Authenticate
<1>5. ASSUME NEW c \in Conns, NEW r \in Rooms, Join(c, r) PROVE IInv'
    BY <1>5, JoinLive, Untouched DEF Join
<1>6. ASSUME NEW c \in Conns, Leave(c) PROVE IInv'
    BY <1>6, LeaveLive, Untouched DEF Leave
<1>7. ASSUME NEW c \in Conns, NEW a \in Accounts, ClaimStarter(c, a) PROVE IInv'
    BY <1>7, ClaimStore, Untouched DEF ClaimStarter
<1>8. ASSUME NEW c \in Conns, NEW a \in Accounts, UseItem(c, a) PROVE IInv'
    BY <1>8, UseStore, Untouched DEF UseItem
<1>9. ASSUME NEW at \in 0..MaxTime, Sweep(at) PROVE IInv'
    BY <1>9, SweepLive, Untouched DEF Sweep
<1>10. ASSUME Drain PROVE IInv'
    <2>1. LiveInv'
        BY <1>10 DEF Drain, LiveInv, LiveOK, RestOK, RoomSets, RoomLimits, Bindings, BoundKnown,
                     AuthenticatedBound, OneSession, OneConn, OneToken, HooksExact, closed
    <2> QED BY <1>10, <2>1, Untouched DEF Drain
<1>11. ASSUME Close PROVE IInv'
    BY <1>11, CloseLive, Untouched DEF Close
<1>12. ASSUME Restart PROVE IInv'
    <2>1. now' \in 0..MaxTime /\ issued' \in 0..MaxLogins
        BY <1>12 DEF Restart, LiveInv, RestOK
    <2>2. LiveInv'
        <3>1. DOMAIN connections' = {} /\ DOMAIN sessions' = {}
              /\ connections' \in [{} -> Connection] /\ sessions' \in [{} -> Session]
            BY <1>12 DEF Restart, Empty
        <3>2. LiveOK' /\ RestOK'
            BY <1>12, <2>1, <3>1 DEF Restart, LiveOK, RestOK
        <3>3. RoomSets' /\ RoomLimits'
            BY <1>12, <3>1, FS_EmptySet, ServiceAssumption DEF Restart, RoomSets, RoomLimits
        <3>4. Bindings' /\ HooksExact'
            BY <1>12, <3>1 DEF Restart, Bindings, BoundKnown, AuthenticatedBound, OneSession,
                               OneConn, OneToken, HooksExact, closed
        <3> QED BY <3>2, <3>3, <3>4 DEF LiveInv
    <2> QED BY <1>12, <2>2, Untouched DEF Restart
<1>13. ASSUME Tick PROVE IInv'
    <2>1. RestOK'
        BY <1>13, ServiceAssumption DEF Tick, LiveInv, RestOK
    <2>2. LiveInv'
        BY <1>13, <2>1 DEF Tick, LiveInv, LiveOK, RoomSets, RoomLimits, Bindings, BoundKnown,
                     AuthenticatedBound, OneSession, OneConn, OneToken, HooksExact, closed
    <2> QED BY <1>13, <2>2, Untouched DEF Tick
<1>14. CASE UNCHANGED vars
    BY <1>14, Untouched DEF vars
<1> QED BY <1>1, <1>2, <1>3, <1>4, <1>5, <1>6, <1>7, <1>8, <1>9, <1>10, <1>11, <1>12, <1>13,
           <1>14 DEF Next

\* The invariant holds throughout, restarts of the process included.
THEOREM ServiceInvariant == Spec => []IInv
<1>1. Init => IInv
    <2> SUFFICES ASSUME Init PROVE IInv
        OBVIOUS
    <2>1. LiveInv
        BY StartLive, ServiceAssumption DEF Init
    <2>2. DOMAIN store = {} /\ store \in [{} -> Saves]
        BY DEF Init, Empty
    <2>3. StoreInv
        BY <2>2 DEF Init, StoreInv, StoreOK, RewardOnce
    <2> QED BY <2>1, <2>3 DEF IInv
<1> QED BY <1>1, Inductive, PTL DEF Spec

\* A room holds exactly the connections the service believes to be in it and
\* no more than its capacity, whatever ends or moves a player.
THEOREM ServiceRoomsExact == Spec => []RoomsExact
<1>1. IInv => RoomsExact
    <2> SUFFICES ASSUME IInv PROVE RoomsExact
        OBVIOUS
    <2>1. DOMAIN sessions \subseteq Tokens
        BY ServiceAssumption DEF IInv, LiveInv, LiveOK, RestOK, Tokens
    <2>2. \A p \in Saves : Progress(p)
        BY DEF Saves, Inventories, Progress
    <2>3. TypeOK
        BY <2>1, <2>2 DEF IInv, LiveInv, LiveOK, RestOK, StoreInv, StoreOK, TypeOK
    <2> QED BY <2>3 DEF IInv, LiveInv, RoomSets, RoomLimits, RoomsExact
<1> QED BY <1>1, ServiceInvariant, PTL

\* Authenticated connections and bound sessions are each other's, uniquely, and
\* the service knows exactly the connections that run.
THEOREM ServiceAuthenticatedExact == Spec => []AuthenticatedExact
<1>1. IInv => AuthenticatedExact
    <2> SUFFICES ASSUME IInv PROVE AuthenticatedExact
        OBVIOUS
    <2>1. \A t \in DOMAIN sessions : \A c \in sessions[t].conns :
              c \in DOMAIN connections /\ connections[c].authDeadline = NoDeadline
        BY DEF IInv, LiveInv, Bindings, BoundKnown
    <2>2. \A c \in DOMAIN connections : connections[c].authDeadline = NoDeadline <=> bound(c) # {}
        BY <2>1 DEF IInv, LiveInv, Bindings, AuthenticatedBound, bound
    <2>3. \A c \in Conns : Cardinality(bound(c)) <= 1
        <3> SUFFICES ASSUME NEW c \in Conns PROVE \A t, u \in bound(c) : t = u
            BY AtMostOne
        <3> QED BY DEF IInv, LiveInv, Bindings, OneSession, bound
    <2>4. \A t \in DOMAIN sessions : Cardinality(sessions[t].conns) <= 1
        BY AtMostOne DEF IInv, LiveInv, Bindings, OneConn
    <2>5. \A a \in Accounts : Cardinality(sessionsOf(a)) <= 1
        <3> SUFFICES ASSUME NEW a \in Accounts PROVE \A t, u \in sessionsOf(a) : t = u
            BY AtMostOne
        <3> QED BY DEF IInv, LiveInv, Bindings, OneToken, sessionsOf
    <2> QED BY <2>1, <2>2, <2>3, <2>4, <2>5 DEF IInv, LiveInv, HooksExact, AuthenticatedExact
<1> QED BY <1>1, ServiceInvariant, PTL

\* The starter reward is given once in the life of an account, whatever is
\* retried or restarted, and every save can be read again.
THEOREM ServiceRewardOnce == Spec => []RewardOnce
<1>1. IInv => RewardOnce
    BY DEF IInv, StoreInv
<1> QED BY <1>1, ServiceInvariant, PTL

-----------------------------------------------------------------------------
(***************************************************************************)
(* NoLostUpdate of module JSONFileStore, the store a game service may keep *)
(* its players in, for every set of players, values and callers.  Every    *)
(* call writes back the whole map it read, so what it is about to rename   *)
(* into place must still be what was saved, changed at one player only;    *)
(* this is what the lock gives.                                            *)
(***************************************************************************)
\* The maps of players a file can hold.
PlayerMaps == UNION {[D -> Values] : D \in SUBSET Players}

FileTypeOK ==
    /\ file \in SUBSET PlayerMaps
    /\ file = {} \/ \E players \in PlayerMaps : file = {players}
    /\ lock \in Callers \cup {NoCaller}
    /\ pc \in [Callers -> {"idle", "write", "remove", "rename"}]
    /\ pending \in [Callers -> PlayerMaps]
    /\ change \in [Callers -> Players]
    /\ saved \in PlayerMaps
    /\ cut \in SUBSET {"failure", "crash"}

\* A caller is inside a call exactly while it holds the lock.
HolderExact == \A k \in Callers : pc[k] # "idle" <=> lock = k

\* The saved players with the change of caller k applied to them.
Applied(k) ==
    IF change[k] \in DOMAIN pending[k]
    THEN Put(saved, change[k], pending[k][change[k]])
    ELSE Delete(saved, {change[k]})

\* Unless a call was cut short, the file is what was saved whenever nobody is
\* between the removal and the rename, and what a caller has in hand is what
\* was saved with its own change.
FileExact == (\A k \in Callers : pc[k] # "rename") => readLocked = saved
PendingExact == \A k \in Callers : pc[k] # "idle" => pending[k] = Applied(k)

FileInv == FileTypeOK /\ HolderExact /\ (cut = {} => FileExact /\ PendingExact)

-----------------------------------------------------------------------------
\* What reading the file returns: nothing without a file, else its map.
LEMMA ReadFile ==
    /\ file = {} => readLocked = Empty
    /\ \A players : file = {players} => readLocked = players
BY DEF readLocked

\* Go's assignment and delete stay within the maps of players.
LEMMA PlayerMapsClosed ==
    /\ Empty \in PlayerMaps
    /\ \A f \in PlayerMaps, p \in Players :
          /\ \A v \in Values : Put(f, p, v) \in PlayerMaps
          /\ Delete(f, {p}) \in PlayerMaps
          /\ p \in DOMAIN f => f[p] \in Values
<1>1. Empty \in [{} -> Values] /\ {} \in SUBSET Players
    BY DEF Empty
<1>2. ASSUME NEW f \in PlayerMaps, NEW p \in Players
      PROVE /\ \A v \in Values : Put(f, p, v) \in PlayerMaps
            /\ Delete(f, {p}) \in PlayerMaps
            /\ p \in DOMAIN f => f[p] \in Values
    <2>1. PICK D \in SUBSET Players : f \in [D -> Values]
        BY DEF PlayerMaps
    <2>2. ASSUME NEW v \in Values PROVE Put(f, p, v) \in [D \cup {p} -> Values]
        BY <2>1 DEF Put
    <2>3. Delete(f, {p}) \in [D \ {p} -> Values]
        BY <2>1 DEF Delete
    <2>4. D \cup {p} \in SUBSET Players /\ D \ {p} \in SUBSET Players
        OBVIOUS
    <2> QED BY <2>1, <2>2, <2>3, <2>4 DEF PlayerMaps
<1> QED BY <1>1, <1>2 DEF PlayerMaps

\* What is read is a map of players.
LEMMA ReadType == FileTypeOK => readLocked \in PlayerMaps
<1> SUFFICES ASSUME FileTypeOK PROVE readLocked \in PlayerMaps
    OBVIOUS
<1>1. CASE file = {}
    BY <1>1, ReadFile, PlayerMapsClosed
<1>2. CASE \E players \in PlayerMaps : file = {players}
    BY <1>2, ReadFile
<1> QED BY <1>1, <1>2 DEF FileTypeOK

\* Starting a call takes the lock and prepares the changed map, given that the
\* new map differs from the one read at the changed player only.
LEMMA BeginStep ==
    ASSUME FileInv, NEW k \in Callers, NEW p \in Players,
           NEW players \in PlayerMaps,
           begin(k, p, players),
           players = IF p \in DOMAIN players THEN Put(readLocked, p, players[p])
                     ELSE Delete(readLocked, {p})
    PROVE  FileInv'
<1>1. FileTypeOK'
    BY DEF FileInv, FileTypeOK, begin
<1>2. lock = NoCaller /\ \A j \in Callers : pc[j] = "idle"
    BY StoreAssumption DEF FileInv, HolderExact, begin, unlocked
<1>3. HolderExact'
    BY <1>2 DEF FileInv, FileTypeOK, HolderExact, begin
<1>4. readLocked' = readLocked
    BY DEF begin, readLocked
<1>5. ASSUME cut' = {} PROVE FileExact' /\ PendingExact'
    <2>1. readLocked = saved
        BY <1>2, <1>5 DEF FileInv, FileExact, begin
    <2>2. FileExact'
        BY <1>4, <2>1 DEF FileExact, begin
    <2>3. Applied(k)' = players /\ pending'[k] = players
        BY <2>1 DEF Applied, begin, FileInv, FileTypeOK
    <2>4. \A j \in Callers : j # k => pc'[j] = "idle"
        BY <1>2 DEF begin, FileInv, FileTypeOK
    <2>5. PendingExact'
        BY <2>3, <2>4 DEF PendingExact, Applied
    <2> QED BY <2>2, <2>5
<1> QED BY <1>1, <1>3, <1>5 DEF FileInv

\* Every step keeps the invariant.
LEMMA FileInductive ==
    ASSUME FileInv, [StoreNext]_storeVars PROVE FileInv'
<1> USE DEF FileInv
<1>0. readLocked \in PlayerMaps
    BY ReadType
<1>1. ASSUME NEW k \in Callers, NEW p \in Players, Remove(k, p) PROVE FileInv'
    <2> DEFINE players == Delete(readLocked, {p})
    <2>1. players \in PlayerMaps
        BY <1>0, PlayerMapsClosed
    <2>2. p \notin DOMAIN players
        BY DEF Delete
    <2> QED BY <1>1, <2>1, <2>2, BeginStep DEF Remove
<1>2. ASSUME NEW k \in Callers, NEW p \in Players, NEW v \in Values, Save(k, p, v) PROVE FileInv'
    <2> DEFINE players == Put(readLocked, p, v)
    <2>1. players \in PlayerMaps
        BY <1>0, PlayerMapsClosed
    <2>2. p \in DOMAIN players /\ players[p] = v
        BY DEF Put
    <2> QED BY <1>2, <2>1, <2>2, BeginStep DEF Save
<1>3. ASSUME NEW k \in Callers, WriteTemporary(k) PROVE FileInv'
    <2>1. FileTypeOK' /\ HolderExact'
        BY <1>3 DEF FileTypeOK, HolderExact, WriteTemporary
    <2>2. readLocked' = readLocked
        BY <1>3 DEF readLocked, WriteTemporary
    <2>3. ASSUME cut' = {} PROVE FileExact' /\ PendingExact'
        BY <1>3, <2>2, <2>3 DEF FileTypeOK, FileExact, PendingExact, Applied, WriteTemporary
    <2> QED BY <2>1, <2>3
<1>4. ASSUME NEW k \in Callers, RemoveOld(k) PROVE FileInv'
    <2>1. FileTypeOK' /\ HolderExact'
        BY <1>4 DEF FileTypeOK, HolderExact, RemoveOld
    <2>2. pc'[k] = "rename"
        BY <1>4 DEF FileTypeOK, RemoveOld
    <2>3. ASSUME cut' = {} PROVE FileExact' /\ PendingExact'
        BY <1>4, <2>2, <2>3 DEF FileTypeOK, FileExact, PendingExact, Applied, RemoveOld
    <2> QED BY <2>1, <2>3
<1>5. ASSUME NEW k \in Callers, Rename(k) PROVE FileInv'
    <2>1. file' = {pending[k]} /\ pending[k] \in PlayerMaps
        BY <1>5 DEF FileTypeOK, Rename
    <2>2. saved' = Applied(k)
        BY <1>5 DEF Applied, Rename
    <2>3. saved' \in PlayerMaps
        BY <2>1, <2>2, PlayerMapsClosed DEF Applied, FileTypeOK
    <2>4. FileTypeOK'
        <3>1. file' \in SUBSET PlayerMaps /\ \E players \in PlayerMaps : file' = {players}
            BY <2>1
        <3> QED BY <1>5, <2>3, <3>1 DEF FileTypeOK, Rename
    <2>5. \A j \in Callers : pc'[j] = "idle"
        BY <1>5 DEF HolderExact, Rename, FileTypeOK
    <2>6. HolderExact'
        BY <1>5, <2>5, StoreAssumption DEF HolderExact, Rename
    <2>7. ASSUME cut' = {} PROVE FileExact' /\ PendingExact'
        <3>1. pending[k] = Applied(k)
            BY <1>5, <2>7 DEF PendingExact, Rename
        <3>2. readLocked' = pending[k]
            BY <2>1 DEF readLocked
        <3> QED BY <2>2, <2>5, <3>1, <3>2 DEF FileExact, PendingExact
    <2> QED BY <2>4, <2>6, <2>7
<1>6. ASSUME NEW k \in Callers, Fail(k) PROVE FileInv'
    <2>1. FileTypeOK'
        BY <1>6 DEF FileTypeOK, Fail
    <2>2. \A j \in Callers : pc'[j] = "idle" /\ (j # k => pc[j] = "idle")
        BY <1>6 DEF HolderExact, Fail, FileTypeOK
    <2>3. HolderExact'
        BY <1>6, <2>2, StoreAssumption DEF HolderExact, Fail
    <2>4. readLocked' = readLocked
        BY <1>6 DEF readLocked, Fail
    <2>5. ASSUME cut' = {} PROVE FileExact' /\ PendingExact'
        <3>1. cut = {} /\ pc[k] # "rename"
            BY <1>6, <2>5 DEF Fail
        <3> QED BY <1>6, <2>2, <2>4, <3>1 DEF FileExact, PendingExact, Fail
    <2> QED BY <2>1, <2>3, <2>5
<1>7. ASSUME Crash PROVE FileInv'
    <2>1. FileTypeOK'
        BY <1>7 DEF FileTypeOK, Crash
    <2>2. HolderExact'
        BY <1>7, StoreAssumption DEF HolderExact, Crash
    <2>3. readLocked' = readLocked
        BY <1>7 DEF readLocked, Crash
    <2>4. ASSUME cut' = {} PROVE FileExact' /\ PendingExact'
        <3>1. cut = {} /\ \A k \in Callers : pc[k] # "rename"
            BY <1>7, <2>4 DEF Crash
        <3> QED BY <1>7, <2>3, <3>1 DEF FileExact, PendingExact, Crash
    <2> QED BY <2>1, <2>2, <2>4
<1>8. CASE UNCHANGED storeVars
    BY <1>8 DEF storeVars, FileTypeOK, HolderExact, FileExact, PendingExact, Applied, readLocked
<1> QED BY <1>1, <1>2, <1>3, <1>4, <1>5, <1>6, <1>7, <1>8 DEF StoreNext

\* The invariant holds throughout: one caller at a time is inside a call, and
\* nothing it has in hand is out of date.
THEOREM StoreInvariant ==
    StoreSpec => []FileInv
<1>1. StoreInit => FileInv
    <2> SUFFICES ASSUME StoreInit PROVE FileInv
        OBVIOUS
    <2>1. FileTypeOK
        BY PlayerMapsClosed DEF StoreInit, FileTypeOK
    <2>2. HolderExact
        BY StoreAssumption DEF StoreInit, HolderExact
    <2>3. FileExact /\ PendingExact
        BY ReadFile DEF StoreInit, FileExact, PendingExact
    <2> QED BY <2>1, <2>2, <2>3 DEF FileInv
<1>2. FileInv /\ [StoreNext]_storeVars => FileInv'
    BY FileInductive
<1> QED BY <1>1, <1>2, PTL DEF StoreSpec

\* Between calls of Save and Delete the file holds what was saved, whichever
\* goroutines called and whichever of their calls failed, unless one ended
\* between the removal of the old file and the rename of the new one.
THEOREM StoreNoLostUpdate ==
    StoreSpec => []NoLostUpdate
<1>1. FileInv => NoLostUpdate
    BY DEF FileInv, FileExact, NoLostUpdate, Idle
<1> QED BY <1>1, StoreInvariant, PTL

=============================================================================
