--------------------------- MODULE SessionManager ---------------------------
(***************************************************************************)
(* The session manager of session/session.go and its deprecated automatic  *)
(* numbering in session/legacy.go: four maps behind one lock, from token   *)
(* to session and from account, player and connection to token.            *)
(*                                                                         *)
(* Every exported method runs under the lock, so it is one action; only    *)
(* Issue reads the clock before it takes the lock.  createToken draws 24   *)
(* random bytes: a token is one that was never used before.                *)
(***************************************************************************)
EXTENDS Integers, GoMap

CONSTANTS
    Tokens, Accounts,   \* tokens that can be issued; account names
    MaxPlayerID,        \* bound: player ids are 1..MaxPlayerID
    ConnIDs,            \* connection ids; 0 is a legal one
    TTLs,               \* lifetimes passed to Issue
    Times,              \* times passed to RemoveExpired, by any clock
    StartPlayerID,      \* argument of NewManager
    MaxTime             \* bound: the clock stops here

ASSUME SessionAssumption ==
    /\ MaxPlayerID \in Nat /\ MaxTime \in Nat
    /\ ConnIDs \subseteq Nat /\ 0 \in ConnIDs
    /\ TTLs \subseteq Nat \ {0} /\ Times \subseteq Nat
    /\ StartPlayerID \in Nat

VARIABLES
    built,          \* how the manager was constructed; never changes
    byToken, byAccountID, byPlayerID, byConnID,
    nextPlayerID,   \* legacyState.nextPlayerID
    now,            \* the wall clock
    issued,         \* history: tokens under which a session was entered
    reported        \* history: tokens whose session was handed back to the
                    \* application when it was removed

maps == <<byToken, byAccountID, byPlayerID, byConnID>>
vars == <<built, maps, nextPlayerID, now, issued, reported>>

-----------------------------------------------------------------------------
Players == 1..MaxPlayerID

\* New takes the policy from its options; NewManager replaces existing
\* sessions and numbers the players of Login itself.
Constructors == [policy : {"RejectExisting", "ReplaceExisting"}, legacy : {FALSE}]
                \cup [policy : {"ReplaceExisting"}, legacy : {TRUE}]
Policy == built.policy
Legacy == built.legacy

\* The zero time: a session of Login never expires.
Never == 0

\* An unbound session has the zero value as its connection id.
Session == [account : Accounts, player : Players, conn : ConnIDs,
            bound : BOOLEAN, expires : Nat]

expired(s, t) == s.expires # Never /\ t >= s.expires

Init ==
    /\ built \in Constructors
    /\ byToken = Empty /\ byAccountID = Empty
    /\ byPlayerID = Empty /\ byConnID = Empty
    /\ nextPlayerID = IF Legacy THEN StartPlayerID ELSE 0
    /\ now = 0
    /\ issued = {} /\ reported = {}

-----------------------------------------------------------------------------
(***************************************************************************)
(* removeLocked for the tokens of a set: the entries of each session in    *)
(* the account and player maps go unconditionally, the one in the          *)
(* connection map only if the session is bound and owns it.                *)
(***************************************************************************)
accountsOf(S) == {byToken[t].account : t \in S}
playersOf(S) == {byToken[t].player : t \in S}
\* Mutant: the ownership of the entry is not checked.
connsOfAny(S) == {byToken[t].conn : t \in S}
connsOf(S) == {c \in DOMAIN byConnID :
                 \E t \in S : byToken[t].bound /\ byToken[t].conn = c /\ byConnID[c] = t}

removeLocked(S) ==
    /\ byToken' = Delete(byToken, S)
    /\ byAccountID' = Delete(byAccountID, accountsOf(S))
    /\ byPlayerID' = Delete(byPlayerID, playersOf(S))
    /\ byConnID' = Delete(byConnID, connsOf(S))

\* Remove the sessions S and enter session s under token t in every map; a
\* session that is not bound does not touch the connection map.
replaceLocked(S, t, s) ==
    /\ byToken' = Put(Delete(byToken, S), t, s)
    /\ byAccountID' = Put(Delete(byAccountID, accountsOf(S)), s.account, t)
    /\ byPlayerID' = Put(Delete(byPlayerID, playersOf(S)), s.player, t)
    /\ byConnID' = IF s.bound THEN Put(Delete(byConnID, connsOf(S)), s.conn, t)
                              ELSE Delete(byConnID, connsOf(S))

\* Mutant: the numbering of Login ignores the ids of Issue.
observeNothing(p) == nextPlayerID' = nextPlayerID
observeLegacyID(p) ==
    nextPlayerID' = IF Legacy /\ nextPlayerID < p THEN p ELSE nextPlayerID

-----------------------------------------------------------------------------
\* Issue rejects the zero player id ...
ValidIdentity(p) == p # 0

\* ... a player that has a session of another account ...
PlayerFree(p, a) == \A o \in Lookup(byPlayerID, p) : byToken[o].account = a

\* ... and, under RejectExisting, an account whose session has not expired.
AlwaysReplace(a, at) == TRUE        \* mutant
MayReplace(a, at) ==
    \A o \in Lookup(byAccountID, a) :
        Policy = "RejectExisting" => expired(byToken[o], at)

(***************************************************************************)
(* Issue a session that is not bound to a connection yet.  The clock was   *)
(* read at time "at", before the lock was taken.                           *)
(***************************************************************************)
Issue(t, a, p, ttl, at) ==
    /\ t \notin issued /\ at <= now
    /\ ValidIdentity(p) /\ PlayerFree(p, a) /\ MayReplace(a, at)
    /\ replaceLocked(Lookup(byAccountID, a), t,
                     [account |-> a, player |-> p, conn |-> 0, bound |-> FALSE,
                      expires |-> at + ttl])
    /\ reported' = reported \cup Lookup(byAccountID, a)
    /\ observeLegacyID(p)
    /\ issued' = issued \cup {t}
    /\ UNCHANGED <<built, now>>

\* Neither the session nor the connection may be bound elsewhere; binding
\* them to each other again is idempotent.
BindConnOnly(t, c) == \A o \in Lookup(byConnID, c) : o = t      \* mutant
MayBind(t, c) ==
    /\ byToken[t].bound => byToken[t].conn = c
    /\ \A o \in Lookup(byConnID, c) : o = t

Bind(t, c) ==
    /\ t \in DOMAIN byToken /\ ~expired(byToken[t], now)
    /\ MayBind(t, c)
    /\ byToken' = [byToken EXCEPT ![t].conn = c, ![t].bound = TRUE]
    /\ byConnID' = Put(byConnID, c, t)
    /\ UNCHANGED <<built, byAccountID, byPlayerID, nextPlayerID, now, issued, reported>>

LogoutByToken(t) ==
    /\ t \in DOMAIN byToken
    /\ removeLocked({t})
    /\ reported' = reported \cup {t}
    /\ UNCHANGED <<built, nextPlayerID, now, issued>>

LogoutByConnID(c) ==
    /\ c \in DOMAIN byConnID
    /\ removeLocked({byConnID[c]})
    /\ reported' = reported \cup {byConnID[c]}
    /\ UNCHANGED <<built, nextPlayerID, now, issued>>

\* The caller of RemoveExpired passes the time: a reading of the clock that may
\* be old by now, or a time that is still to come.
\* Mutant: the expired sessions are not returned.
RemoveExpiredSilently(at) ==
    LET S == {t \in DOMAIN byToken : expired(byToken[t], at)} IN
    removeLocked(S) /\ UNCHANGED <<built, nextPlayerID, now, issued, reported>>
RemoveExpired(at) ==
    LET S == {t \in DOMAIN byToken : expired(byToken[t], at)} IN
    /\ removeLocked(S)
    /\ reported' = reported \cup S
    /\ UNCHANGED <<built, nextPlayerID, now, issued>>

\* Login removes the session of the account, which it returns, and that of the
\* connection, which it does not return.
loginReplaces(a, c) == Lookup(byAccountID, a) \cup Lookup(byConnID, c)

\* Login numbers the player, binds at once and never expires.
Login(t, a, c) ==
    /\ Legacy
    /\ t \notin issued
    /\ nextPlayerID < MaxPlayerID       \* bound
    /\ nextPlayerID' = nextPlayerID + 1
    /\ replaceLocked(loginReplaces(a, c), t,
                     [account |-> a, player |-> nextPlayerID + 1, conn |-> c,
                      bound |-> TRUE, expires |-> Never])
    /\ reported' = reported \cup Lookup(byAccountID, a)
    /\ issued' = issued \cup {t}
    /\ UNCHANGED <<built, now>>

Tick == /\ now < MaxTime
        /\ now' = now + 1
        /\ UNCHANGED <<built, maps, nextPlayerID, issued, reported>>

Next ==
    \/ \E t \in Tokens, a \in Accounts, p \in 0..MaxPlayerID, at \in 0..MaxTime :
          \E ttl \in TTLs : Issue(t, a, p, ttl, at)
    \/ \E t \in Tokens, c \in ConnIDs : Bind(t, c)
    \/ \E t \in Tokens : LogoutByToken(t)
    \/ \E c \in ConnIDs : LogoutByConnID(c)
    \/ \E at \in Times : RemoveExpired(at)
    \/ \E t \in Tokens, a \in Accounts, c \in ConnIDs : Login(t, a, c)
    \/ Tick

Spec == Init /\ [][Next]_vars

-----------------------------------------------------------------------------
(***************************************************************************)
(* Properties.                                                             *)
(***************************************************************************)
TypeOK ==
    /\ built \in Constructors
    /\ DOMAIN byToken \subseteq Tokens /\ byToken \in [DOMAIN byToken -> Session]
    /\ DOMAIN byAccountID \subseteq Accounts /\ byAccountID \in [DOMAIN byAccountID -> Tokens]
    /\ DOMAIN byPlayerID \subseteq Players /\ byPlayerID \in [DOMAIN byPlayerID -> Tokens]
    /\ DOMAIN byConnID \subseteq ConnIDs /\ byConnID \in [DOMAIN byConnID -> Tokens]
    /\ nextPlayerID \in Nat
    /\ now \in 0..MaxTime
    /\ issued \subseteq Tokens /\ reported \subseteq Tokens

\* Every session is found through its account, its player and, once bound, its
\* connection ...
SessionsIndexed ==
    \A t \in DOMAIN byToken :
        /\ byToken[t].account \in DOMAIN byAccountID
        /\ byAccountID[byToken[t].account] = t
        /\ byToken[t].player \in DOMAIN byPlayerID
        /\ byPlayerID[byToken[t].player] = t
        /\ byToken[t].bound => /\ byToken[t].conn \in DOMAIN byConnID
                               /\ byConnID[byToken[t].conn] = t

\* ... and every entry of the three maps leads to such a session, so that no
\* lookup follows a token without one (expired would dereference nil).
IndexesCurrent ==
    /\ \A a \in DOMAIN byAccountID : /\ byAccountID[a] \in DOMAIN byToken
                                     /\ byToken[byAccountID[a]].account = a
    /\ \A p \in DOMAIN byPlayerID : /\ byPlayerID[p] \in DOMAIN byToken
                                    /\ byToken[byPlayerID[p]].player = p
    /\ \A c \in DOMAIN byConnID : /\ byConnID[c] \in DOMAIN byToken
                                  /\ byToken[byConnID[c]].bound
                                  /\ byToken[byConnID[c]].conn = c

\* The four maps describe the same sessions; in particular an account, a
\* player and a connection have at most one session each.
Coherent == SessionsIndexed /\ IndexesCurrent

\* The numbering of Login never returns a player that has a session, even
\* when Issue was used with ids of the application's choice.
LegacyIDsFresh == Legacy => \A p \in DOMAIN byPlayerID : p <= nextPlayerID

\* A session ends only with its owner being told: what was issued is either
\* still there or was handed back, once, for the application to clean up.
NoSilentLoss ==
    ~Legacy => /\ issued = DOMAIN byToken \cup reported
               /\ DOMAIN byToken \cap reported = {}

\* A session never changes hands: account, player and expiry are fixed for its
\* life, and so is its connection from the moment it is bound; a connection
\* gets another session only when the legacy Login ends its old one.
SessionKept(t) ==
    /\ byToken'[t].account = byToken[t].account
    /\ byToken'[t].player = byToken[t].player
    /\ byToken'[t].expires = byToken[t].expires
    /\ byToken[t].bound => byToken'[t].bound /\ byToken'[t].conn = byToken[t].conn
ConnectionKept(c) ==
    byConnID'[c] = byConnID[c] \/ (Legacy /\ byConnID[c] \notin DOMAIN byToken')
BindingStable ==
    [][/\ \A t \in DOMAIN byToken \cap DOMAIN byToken' : SessionKept(t)
       /\ \A c \in DOMAIN byConnID \cap DOMAIN byConnID' : ConnectionKept(c)]_vars

\* Under RejectExisting a session that has not expired ends in two ways only:
\* its own logout, or a RemoveExpired whose caller passed a time ahead of the
\* clock by which the session will have expired.  Issue never displaces it,
\* although it compares with an older clock reading, and neither does a sweep
\* with an old reading or the logout of another session.
Logout(t) ==
    LogoutByToken(t) \/ \E c \in ConnIDs : LogoutByConnID(c) /\ byConnID[c] = t
SweptAhead(t) ==
    \E at \in Times : at > now /\ expired(byToken[t], at) /\ RemoveExpired(at)
ActiveNotDisplaced ==
    [][Policy = "RejectExisting" =>
          \A t \in DOMAIN byToken \ DOMAIN byToken' :
              expired(byToken[t], now) \/ Logout(t) \/ SweptAhead(t)]_vars

=============================================================================
