------------------------ MODULE SessionManagerProofs ------------------------
(***************************************************************************)
(* Proofs that the maps of the session manager stay coherent, for every    *)
(* set of tokens, accounts, connections and lifetimes, either policy and   *)
(* both constructors.                                                      *)
(***************************************************************************)
EXTENDS SessionManager, TLAPS

\* A session has a token that was issued: a new token has no session.
TokensIssued == DOMAIN byToken \cup reported \subseteq issued

\* The inductive invariant.
IInv == TypeOK /\ Coherent /\ LegacyIDsFresh /\ TokensIssued

-----------------------------------------------------------------------------
\* The types of the four maps.
MapsOK ==
    /\ DOMAIN byToken \subseteq Tokens /\ byToken \in [DOMAIN byToken -> Session]
    /\ DOMAIN byAccountID \subseteq Accounts /\ byAccountID \in [DOMAIN byAccountID -> Tokens]
    /\ DOMAIN byPlayerID \subseteq Players /\ byPlayerID \in [DOMAIN byPlayerID -> Tokens]
    /\ DOMAIN byConnID \subseteq ConnIDs /\ byConnID \in [DOMAIN byConnID -> Tokens]

\* The token found under a key.
LEMMA LookupIs ==
    ASSUME NEW f, NEW k
    PROVE  /\ k \in DOMAIN f => Lookup(f, k) = {f[k]}
           /\ k \notin DOMAIN f => Lookup(f, k) = {}
  BY DEF Lookup

-----------------------------------------------------------------------------
\* removeLocked leaves the maps coherent.
LEMMA RemoveCoherent ==
    ASSUME MapsOK, Coherent, NEW S \in SUBSET DOMAIN byToken, removeLocked(S)
    PROVE  /\ MapsOK' /\ Coherent'
           /\ DOMAIN byToken' = DOMAIN byToken \ S
           /\ \A t \in DOMAIN byToken' : byToken'[t] = byToken[t]
           /\ DOMAIN byPlayerID' \subseteq DOMAIN byPlayerID
           /\ DOMAIN byConnID' \subseteq DOMAIN byConnID
           /\ \A c \in DOMAIN byConnID' : byConnID'[c] = byConnID[c]
PROOF
  <1>1. /\ DOMAIN byToken' = DOMAIN byToken \ S /\ DOMAIN byToken' \subseteq Tokens
        /\ byToken' \in [DOMAIN byToken' -> Session]
        /\ \A x \in DOMAIN byToken' : byToken'[x] = byToken[x]
    BY DEF removeLocked, MapsOK, Delete
  <1>2. /\ DOMAIN byAccountID' = DOMAIN byAccountID \ accountsOf(S)
        /\ DOMAIN byAccountID' \subseteq Accounts
        /\ byAccountID' \in [DOMAIN byAccountID' -> Tokens]
        /\ \A x \in DOMAIN byAccountID' : byAccountID'[x] = byAccountID[x]
    BY DEF removeLocked, MapsOK, Delete
  <1>3. /\ DOMAIN byPlayerID' = DOMAIN byPlayerID \ playersOf(S)
        /\ DOMAIN byPlayerID' \subseteq Players
        /\ byPlayerID' \in [DOMAIN byPlayerID' -> Tokens]
        /\ \A x \in DOMAIN byPlayerID' : byPlayerID'[x] = byPlayerID[x]
    BY DEF removeLocked, MapsOK, Delete
  <1>4. /\ DOMAIN byConnID' = DOMAIN byConnID \ connsOf(S)
        /\ DOMAIN byConnID' \subseteq ConnIDs
        /\ byConnID' \in [DOMAIN byConnID' -> Tokens]
        /\ \A x \in DOMAIN byConnID' : byConnID'[x] = byConnID[x]
    BY DEF removeLocked, MapsOK, Delete
  <1>5. MapsOK'
    BY <1>1, <1>2, <1>3, <1>4 DEF MapsOK
  \* A key that leaves an index belonged to a removed session, so the index
  \* still knows the others.
  <1>6. SessionsIndexed'
    BY <1>1, <1>2, <1>3, <1>4
    DEF Coherent, SessionsIndexed, IndexesCurrent, accountsOf, playersOf, connsOf
  \* A key that stays leads to a session that was not removed.
  <1>7. IndexesCurrent'
    <2>1. \A a \in DOMAIN byAccountID' : byAccountID'[a] \in DOMAIN byToken' /\ byToken'[byAccountID'[a]].account = a
      BY <1>1, <1>2 DEF Coherent, IndexesCurrent, accountsOf
    <2>2. \A p \in DOMAIN byPlayerID' : byPlayerID'[p] \in DOMAIN byToken' /\ byToken'[byPlayerID'[p]].player = p
      BY <1>1, <1>3 DEF Coherent, IndexesCurrent, playersOf
    <2>3. \A c \in DOMAIN byConnID' : /\ byConnID'[c] \in DOMAIN byToken'
                                      /\ byToken'[byConnID'[c]].bound
                                      /\ byToken'[byConnID'[c]].conn = c
      BY <1>1, <1>4 DEF Coherent, IndexesCurrent, connsOf
    <2> QED BY <2>1, <2>2, <2>3 DEF IndexesCurrent
  <1> QED BY <1>1, <1>3, <1>4, <1>5, <1>6, <1>7 DEF Coherent

\* replaceLocked keeps the maps coherent when the token is new and whatever
\* session the account, the player or the connection had is among the removed.
LEMMA ReplaceCoherent ==
    ASSUME MapsOK, Coherent, NEW S \in SUBSET DOMAIN byToken,
           NEW t \in Tokens \ DOMAIN byToken, NEW s \in Session,
           Lookup(byAccountID, s.account) \subseteq S,
           Lookup(byPlayerID, s.player) \subseteq S,
           s.bound => Lookup(byConnID, s.conn) \subseteq S,
           replaceLocked(S, t, s)
    PROVE  /\ MapsOK' /\ Coherent'
           /\ DOMAIN byToken' = (DOMAIN byToken \ S) \cup {t}
           /\ \A x \in DOMAIN byToken' \ {t} : byToken'[x] = byToken[x]
           /\ DOMAIN byPlayerID' \subseteq DOMAIN byPlayerID \cup {s.player}
           /\ \A c \in DOMAIN byConnID' \ {s.conn} :
                 c \in DOMAIN byConnID /\ byConnID'[c] = byConnID[c]
           /\ ~s.bound => \A c \in DOMAIN byConnID' :
                 c \in DOMAIN byConnID /\ byConnID'[c] = byConnID[c]
PROOF
  <1>s. /\ s.account \in Accounts /\ s.player \in Players /\ s.conn \in ConnIDs
        /\ s.bound \in BOOLEAN
    BY DEF Session
  <1>1. /\ DOMAIN byToken' = (DOMAIN byToken \ S) \cup {t} /\ DOMAIN byToken' \subseteq Tokens
        /\ byToken' \in [DOMAIN byToken' -> Session]
        /\ byToken'[t] = s
        /\ \A x \in DOMAIN byToken' \ {t} : byToken'[x] = byToken[x]
    BY DEF replaceLocked, MapsOK, Delete, Put
  <1>2. /\ DOMAIN byAccountID' = (DOMAIN byAccountID \ accountsOf(S)) \cup {s.account}
        /\ DOMAIN byAccountID' \subseteq Accounts
        /\ byAccountID' \in [DOMAIN byAccountID' -> Tokens]
        /\ byAccountID'[s.account] = t
        /\ \A x \in DOMAIN byAccountID' \ {s.account} : byAccountID'[x] = byAccountID[x]
    BY <1>s DEF replaceLocked, MapsOK, Delete, Put
  <1>3. /\ DOMAIN byPlayerID' = (DOMAIN byPlayerID \ playersOf(S)) \cup {s.player}
        /\ DOMAIN byPlayerID' \subseteq Players
        /\ byPlayerID' \in [DOMAIN byPlayerID' -> Tokens]
        /\ byPlayerID'[s.player] = t
        /\ \A x \in DOMAIN byPlayerID' \ {s.player} : byPlayerID'[x] = byPlayerID[x]
    BY <1>s DEF replaceLocked, MapsOK, Delete, Put
  <1>4. /\ DOMAIN byConnID' = (DOMAIN byConnID \ connsOf(S)) \cup (IF s.bound THEN {s.conn} ELSE {})
        /\ DOMAIN byConnID' \subseteq ConnIDs
        /\ byConnID' \in [DOMAIN byConnID' -> Tokens]
        /\ s.bound => byConnID'[s.conn] = t
        /\ \A x \in DOMAIN byConnID' : (s.bound /\ x = s.conn) \/ byConnID'[x] = byConnID[x]
    BY <1>s DEF replaceLocked, MapsOK, Delete, Put
  <1>5. MapsOK'
    BY <1>1, <1>2, <1>3, <1>4 DEF MapsOK
  \* Who stays had another account, player and connection than s.
  <1>6. \A x \in DOMAIN byToken \ S :
           /\ byToken[x].account # s.account
           /\ byToken[x].player # s.player
           /\ s.bound /\ byToken[x].bound => byToken[x].conn # s.conn
    BY DEF Coherent, SessionsIndexed, Lookup
  <1>7. SessionsIndexed'
    <2> SUFFICES ASSUME NEW x \in DOMAIN byToken'
                 PROVE  /\ byToken'[x].account \in DOMAIN byAccountID'
                        /\ byAccountID'[byToken'[x].account] = x
                        /\ byToken'[x].player \in DOMAIN byPlayerID'
                        /\ byPlayerID'[byToken'[x].player] = x
                        /\ byToken'[x].bound => /\ byToken'[x].conn \in DOMAIN byConnID'
                                                /\ byConnID'[byToken'[x].conn] = x
      BY DEF SessionsIndexed
    <2>1. CASE x = t
      BY <2>1, <1>1, <1>2, <1>3, <1>4
    <2>2. CASE x # t
      <3>1. x \in DOMAIN byToken \ S /\ byToken'[x] = byToken[x]
        BY <2>2, <1>1
      <3>2. /\ byToken[x].account \in DOMAIN byAccountID'
            /\ byAccountID'[byToken[x].account] = x
        BY <3>1, <1>2, <1>6 DEF Coherent, SessionsIndexed, accountsOf
      <3>3. /\ byToken[x].player \in DOMAIN byPlayerID'
            /\ byPlayerID'[byToken[x].player] = x
        BY <3>1, <1>3, <1>6 DEF Coherent, SessionsIndexed, playersOf
      <3>4. byToken[x].bound => /\ byToken[x].conn \in DOMAIN byConnID'
                                /\ byConnID'[byToken[x].conn] = x
        BY <3>1, <1>4, <1>6 DEF Coherent, SessionsIndexed, connsOf
      <3> QED BY <3>1, <3>2, <3>3, <3>4
    <2> QED BY <2>1, <2>2
  <1>8. IndexesCurrent'
    <2>1. \A a \in DOMAIN byAccountID' : byAccountID'[a] \in DOMAIN byToken' /\ byToken'[byAccountID'[a]].account = a
      BY <1>1, <1>2 DEF Coherent, IndexesCurrent, accountsOf
    <2>2. \A p \in DOMAIN byPlayerID' : byPlayerID'[p] \in DOMAIN byToken' /\ byToken'[byPlayerID'[p]].player = p
      BY <1>1, <1>3 DEF Coherent, IndexesCurrent, playersOf
    <2>3. \A c \in DOMAIN byConnID' : /\ byConnID'[c] \in DOMAIN byToken'
                                      /\ byToken'[byConnID'[c]].bound
                                      /\ byToken'[byConnID'[c]].conn = c
      BY <1>1, <1>4 DEF Coherent, IndexesCurrent, connsOf
    <2> QED BY <2>1, <2>2, <2>3 DEF IndexesCurrent
  <1> QED BY <1>1, <1>3, <1>4, <1>5, <1>7, <1>8 DEF Coherent

-----------------------------------------------------------------------------
\* The sessions that Issue and Login replace exist.
LEMMA LookupLive ==
    ASSUME Coherent
    PROVE  /\ \A a : Lookup(byAccountID, a) \in SUBSET DOMAIN byToken
           /\ \A c : Lookup(byConnID, c) \in SUBSET DOMAIN byToken
  BY DEF Coherent, IndexesCurrent, Lookup

\* What a successful Issue does.
LEMMA IssueStep ==
    ASSUME IInv, NEW t \in Tokens, NEW a \in Accounts, NEW p \in 0..MaxPlayerID,
           NEW ttl \in TTLs, NEW at \in 0..MaxTime, Issue(t, a, p, ttl, at)
    PROVE  /\ IInv'
           /\ DOMAIN byToken' = (DOMAIN byToken \ Lookup(byAccountID, a)) \cup {t}
           /\ \A x \in DOMAIN byToken' \ {t} : byToken'[x] = byToken[x]
           /\ t \notin DOMAIN byToken
           /\ \A c \in DOMAIN byConnID' : c \in DOMAIN byConnID /\ byConnID'[c] = byConnID[c]
PROOF
  <1> DEFINE S == Lookup(byAccountID, a)
             s == [account |-> a, player |-> p, conn |-> 0, bound |-> FALSE,
                   expires |-> at + ttl]
  <1>1. MapsOK /\ Coherent /\ S \in SUBSET DOMAIN byToken
    BY LookupLive DEF IInv, TypeOK, MapsOK
  <1>2. t \in Tokens \ DOMAIN byToken
    BY DEF IInv, TokensIssued, Issue
  <1>p. p \in Players
    BY SessionAssumption DEF Issue, ValidIdentity, Players
  <1>3. s \in Session /\ s.account = a /\ s.player = p /\ s.conn = 0 /\ s.bound = FALSE
    BY <1>p, SessionAssumption DEF Session
  \* The player's session belongs to the account, so it is the one replaced.
  <1>4. Lookup(byPlayerID, p) \subseteq S
    BY DEF IInv, Coherent, SessionsIndexed, IndexesCurrent, Issue, PlayerFree, Lookup
  <1>5. replaceLocked(S, t, s)
    BY DEF Issue
  <1> HIDE DEF S, s
  <1>6. /\ MapsOK' /\ Coherent'
        /\ DOMAIN byToken' = (DOMAIN byToken \ S) \cup {t}
        /\ \A x \in DOMAIN byToken' \ {t} : byToken'[x] = byToken[x]
        /\ DOMAIN byPlayerID' \subseteq DOMAIN byPlayerID \cup {p}
        /\ \A c \in DOMAIN byConnID' : c \in DOMAIN byConnID /\ byConnID'[c] = byConnID[c]
    <2>1. Lookup(byAccountID, s.account) \subseteq S
      BY <1>3 DEF S
    <2> QED BY <1>1, <1>2, <1>3, <1>4, <1>5, <2>1, ReplaceCoherent
  <1>7. nextPlayerID' \in Nat /\ LegacyIDsFresh'
    BY <1>6, <1>p DEF Issue, observeLegacyID, IInv, TypeOK, LegacyIDsFresh, Players, Legacy
  <1>8. /\ TokensIssued' /\ issued' \subseteq Tokens /\ reported' \subseteq Tokens
        /\ now' \in 0..MaxTime /\ built' \in Constructors
    BY <1>1, <1>6 DEF Issue, S, IInv, TypeOK, TokensIssued
  <1> QED BY <1>2, <1>6, <1>7, <1>8 DEF S, IInv, TypeOK, MapsOK

\* What the legacy Login does.
LEMMA LoginStep ==
    ASSUME IInv, NEW t \in Tokens, NEW a \in Accounts, NEW c \in ConnIDs, Login(t, a, c)
    PROVE  /\ IInv'
           /\ DOMAIN byToken' =
                (DOMAIN byToken \ (Lookup(byAccountID, a) \cup Lookup(byConnID, c))) \cup {t}
           /\ \A x \in DOMAIN byToken' \ {t} : byToken'[x] = byToken[x]
           /\ t \notin DOMAIN byToken
           /\ \A d \in DOMAIN byConnID' :
                 d = c \/ (d \in DOMAIN byConnID /\ byConnID'[d] = byConnID[d])
PROOF
  <1> DEFINE S == Lookup(byAccountID, a) \cup Lookup(byConnID, c)
             p == nextPlayerID + 1
             s == [account |-> a, player |-> p, conn |-> c, bound |-> TRUE, expires |-> Never]
  <1>1. MapsOK /\ Coherent /\ S \in SUBSET DOMAIN byToken
    BY LookupLive DEF IInv, TypeOK, MapsOK
  <1>2. t \in Tokens \ DOMAIN byToken
    BY DEF IInv, TokensIssued, Login
  <1>p. p \in Players /\ p \in Nat /\ nextPlayerID \in Nat /\ nextPlayerID' = p
    BY SessionAssumption DEF Login, IInv, TypeOK, Players
  <1>3. s \in Session /\ s.account = a /\ s.player = p /\ s.conn = c /\ s.bound = TRUE
    BY <1>p DEF Session, Never
  \* The new number is above every player that has a session.
  <1>4. p \notin DOMAIN byPlayerID
    BY <1>p DEF IInv, LegacyIDsFresh, Login, TypeOK, Players
  <1>5. replaceLocked(S, t, s)
    BY DEF Login, loginReplaces
  <1>6. /\ Lookup(byAccountID, a) \subseteq S
        /\ Lookup(byConnID, c) \subseteq S
        /\ Lookup(byPlayerID, p) \subseteq S
    BY <1>4, LookupIs
  <1> HIDE DEF S, s, p
  <1>7. /\ MapsOK' /\ Coherent'
        /\ DOMAIN byToken' = (DOMAIN byToken \ S) \cup {t}
        /\ \A x \in DOMAIN byToken' \ {t} : byToken'[x] = byToken[x]
        /\ DOMAIN byPlayerID' \subseteq DOMAIN byPlayerID \cup {p}
        /\ \A d \in DOMAIN byConnID' :
              d = c \/ (d \in DOMAIN byConnID /\ byConnID'[d] = byConnID[d])
    <2>1. /\ Lookup(byAccountID, s.account) \subseteq S
          /\ Lookup(byConnID, s.conn) \subseteq S
          /\ Lookup(byPlayerID, s.player) \subseteq S
      BY <1>3, <1>6
    <2>2. s \in Session /\ (s.bound => Lookup(byConnID, s.conn) \subseteq S)
      BY <1>3, <2>1
    <2>3. /\ MapsOK' /\ Coherent'
          /\ DOMAIN byToken' = (DOMAIN byToken \ S) \cup {t}
          /\ \A x \in DOMAIN byToken' \ {t} : byToken'[x] = byToken[x]
          /\ DOMAIN byPlayerID' \subseteq DOMAIN byPlayerID \cup {s.player}
          /\ \A d \in DOMAIN byConnID' \ {s.conn} :
                d \in DOMAIN byConnID /\ byConnID'[d] = byConnID[d]
      BY <1>1, <1>2, <1>5, <2>1, <2>2, ReplaceCoherent
    <2> QED BY <2>3, <1>3
  <1>8. nextPlayerID' \in Nat /\ LegacyIDsFresh'
    BY <1>7, <1>p DEF p, IInv, TypeOK, LegacyIDsFresh, Players, Legacy, Login
  <1>9. /\ TokensIssued' /\ issued' \subseteq Tokens /\ reported' \subseteq Tokens
        /\ now' \in 0..MaxTime /\ built' \in Constructors
    BY <1>1, <1>7 DEF Login, S, IInv, TypeOK, TokensIssued
  <1> QED BY <1>2, <1>7, <1>8, <1>9 DEF S, IInv, TypeOK, MapsOK

\* What Bind does: only the session of the token changes, and only its binding.
LEMMA BindStep ==
    ASSUME IInv, NEW t \in Tokens, NEW c \in ConnIDs, Bind(t, c)
    PROVE  /\ IInv'
           /\ DOMAIN byToken' = DOMAIN byToken
           /\ \A x \in DOMAIN byToken \ {t} : byToken'[x] = byToken[x]
           /\ byToken'[t] = [byToken[t] EXCEPT !.conn = c, !.bound = TRUE]
           /\ byToken[t].bound => byToken[t].conn = c
           /\ \A d \in DOMAIN byConnID : d \in DOMAIN byConnID' /\ byConnID'[d] = byConnID[d]
PROOF
  <1>1. /\ DOMAIN byToken' = DOMAIN byToken
        /\ t \in DOMAIN byToken
        /\ \A x \in DOMAIN byToken \ {t} : byToken'[x] = byToken[x]
        /\ byToken'[t] = [byToken[t] EXCEPT !.conn = c, !.bound = TRUE]
    BY DEF Bind, IInv, TypeOK
  <1>2. byToken[t] \in Session
    BY <1>1 DEF IInv, TypeOK
  <1>3. /\ byToken'[t] \in Session
        /\ byToken'[t].account = byToken[t].account
        /\ byToken'[t].player = byToken[t].player
        /\ byToken'[t].conn = c /\ byToken'[t].bound = TRUE
    BY <1>1, <1>2 DEF Session
  <1>4. /\ DOMAIN byConnID' = DOMAIN byConnID \cup {c}
        /\ byConnID'[c] = t
        /\ \A d \in DOMAIN byConnID : byConnID'[d] = byConnID[d]
        /\ byConnID' \in [DOMAIN byConnID' -> Tokens]
    BY <1>1 DEF Bind, MayBind, Put, Lookup, IInv, TypeOK
  <1>5. /\ byAccountID' = byAccountID /\ byPlayerID' = byPlayerID
        /\ built' = built /\ nextPlayerID' = nextPlayerID /\ now' = now
        /\ issued' = issued /\ reported' = reported
        /\ byToken[t].bound => byToken[t].conn = c
    BY DEF Bind, MayBind
  <1>6. TypeOK'
    <2>1. byToken' \in [DOMAIN byToken' -> Session]
      BY <1>1, <1>3 DEF Bind, IInv, TypeOK
    <2> QED BY <2>1, <1>1, <1>4, <1>5 DEF IInv, TypeOK
  <1>i. SessionsIndexed /\ IndexesCurrent
    BY DEF IInv, Coherent
  <1>a. \A x \in DOMAIN byToken : /\ byToken'[x].account = byToken[x].account
                                  /\ byToken'[x].player = byToken[x].player
    BY <1>1, <1>3
  <1>b. \A x \in DOMAIN byToken : byToken'[x].bound =>
             byToken'[x].conn \in DOMAIN byConnID' /\ byConnID'[byToken'[x].conn] = x
    <2> SUFFICES ASSUME NEW x \in DOMAIN byToken, byToken'[x].bound
                 PROVE  byToken'[x].conn \in DOMAIN byConnID' /\ byConnID'[byToken'[x].conn] = x
      OBVIOUS
    <2>1. CASE x = t
      BY <2>1, <1>3, <1>4
    <2>2. CASE x # t
      <3>1. byToken'[x] = byToken[x] /\ byToken[x].bound
        BY <2>2, <1>1
      <3>2. byToken[x].conn \in DOMAIN byConnID /\ byConnID[byToken[x].conn] = x
        BY <3>1, <1>i DEF SessionsIndexed
      <3> QED BY <3>1, <3>2, <1>4
    <2> QED BY <2>1, <2>2
  <1>7. SessionsIndexed'
    BY <1>1, <1>5, <1>a, <1>b, <1>i DEF SessionsIndexed
  <1>8. IndexesCurrent'
    <2>1. \A d \in DOMAIN byConnID' : /\ byConnID'[d] \in DOMAIN byToken'
                                      /\ byToken'[byConnID'[d]].bound
                                      /\ byToken'[byConnID'[d]].conn = d
      <3> SUFFICES ASSUME NEW d \in DOMAIN byConnID'
                   PROVE  /\ byConnID'[d] \in DOMAIN byToken'
                          /\ byToken'[byConnID'[d]].bound
                          /\ byToken'[byConnID'[d]].conn = d
        OBVIOUS
      <3>1. CASE d = c
        BY <3>1, <1>1, <1>3, <1>4
      <3>2. CASE d # c
        <4>1. d \in DOMAIN byConnID /\ byConnID'[d] = byConnID[d]
          BY <3>2, <1>4
        <4>2. byConnID[d] \in DOMAIN byToken /\ byToken[byConnID[d]].bound /\ byToken[byConnID[d]].conn = d
          BY <4>1, <1>i DEF IndexesCurrent
        <4>3. byConnID[d] # t
          BY <3>2, <4>2, <1>5
        <4> QED BY <4>1, <4>2, <4>3, <1>1
      <3> QED BY <3>1, <3>2
    <2> QED BY <2>1, <1>1, <1>5, <1>a, <1>i DEF IndexesCurrent
  <1> QED BY <1>1, <1>4, <1>5, <1>6, <1>7, <1>8 DEF IInv, Coherent, LegacyIDsFresh, Legacy,
          TokensIssued

\* What LogoutByToken, LogoutByConnID and RemoveExpired do: the sessions S go.
LEMMA RemovalStep ==
    ASSUME IInv, NEW S \in SUBSET DOMAIN byToken, removeLocked(S),
           reported' = reported \cup S, UNCHANGED <<built, nextPlayerID, now, issued>>
    PROVE  /\ IInv'
           /\ DOMAIN byToken' = DOMAIN byToken \ S
           /\ \A t \in DOMAIN byToken' : byToken'[t] = byToken[t]
           /\ \A c \in DOMAIN byConnID' : byConnID'[c] = byConnID[c]
PROOF
  <1>1. MapsOK /\ Coherent
    BY DEF IInv, TypeOK, MapsOK
  <1>2. /\ MapsOK' /\ Coherent'
        /\ DOMAIN byToken' = DOMAIN byToken \ S
        /\ \A t \in DOMAIN byToken' : byToken'[t] = byToken[t]
        /\ DOMAIN byPlayerID' \subseteq DOMAIN byPlayerID
        /\ \A c \in DOMAIN byConnID' : byConnID'[c] = byConnID[c]
    BY <1>1, RemoveCoherent
  <1>3. LegacyIDsFresh'
    BY <1>2 DEF IInv, LegacyIDsFresh, Legacy
  <1>4. TokensIssued' /\ issued' \subseteq Tokens /\ reported' \subseteq Tokens
    BY <1>2 DEF IInv, TypeOK, TokensIssued
  <1> QED BY <1>2, <1>3, <1>4 DEF IInv, TypeOK, MapsOK

\* The sets of sessions that the three operations remove.
LEMMA RemovalSets ==
    ASSUME IInv
    PROVE  /\ \A t : LogoutByToken(t) => {t} \in SUBSET DOMAIN byToken
           /\ \A c : LogoutByConnID(c) => {byConnID[c]} \in SUBSET DOMAIN byToken
           /\ \A at : {t \in DOMAIN byToken : expired(byToken[t], at)} \in SUBSET DOMAIN byToken
  BY DEF IInv, Coherent, IndexesCurrent, LogoutByToken, LogoutByConnID

-----------------------------------------------------------------------------
\* The empty maps of the constructors satisfy the invariant.
LEMMA InitIInv == Init => IInv
  BY SessionAssumption
  DEF Init, Empty, IInv, TypeOK, Coherent, SessionsIndexed, IndexesCurrent,
      LegacyIDsFresh, Legacy, TokensIssued

\* Every step preserves the invariant.
LEMMA NextIInv == IInv /\ [Next]_vars => IInv'
PROOF
  <1> SUFFICES ASSUME IInv, [Next]_vars PROVE IInv'
    OBVIOUS
  <1>1. ASSUME NEW t \in Tokens, NEW a \in Accounts, NEW p \in 0..MaxPlayerID,
               NEW at \in 0..MaxTime, NEW ttl \in TTLs, Issue(t, a, p, ttl, at)
        PROVE  IInv'
    BY <1>1, IssueStep
  <1>2. ASSUME NEW t \in Tokens, NEW c \in ConnIDs, Bind(t, c)
        PROVE  IInv'
    BY <1>2, BindStep
  <1>3. ASSUME NEW t \in Tokens, LogoutByToken(t)
        PROVE  IInv'
    BY <1>3, RemovalSets, RemovalStep DEF LogoutByToken
  <1>4. ASSUME NEW c \in ConnIDs, LogoutByConnID(c)
        PROVE  IInv'
    BY <1>4, RemovalSets, RemovalStep DEF LogoutByConnID
  <1>5. ASSUME NEW at \in Times, RemoveExpired(at)
        PROVE  IInv'
    BY <1>5, RemovalSets, RemovalStep DEF RemoveExpired
  <1>6. ASSUME NEW t \in Tokens, NEW a \in Accounts, NEW c \in ConnIDs, Login(t, a, c)
        PROVE  IInv'
    BY <1>6, LoginStep
  <1>7. CASE Tick
    BY <1>7, SessionAssumption
    DEF Tick, maps, IInv, TypeOK, Coherent, SessionsIndexed, IndexesCurrent,
        LegacyIDsFresh, Legacy, TokensIssued
  <1>8. CASE UNCHANGED vars
    BY <1>8
    DEF vars, maps, IInv, TypeOK, Coherent, SessionsIndexed, IndexesCurrent,
        LegacyIDsFresh, Legacy, TokensIssued
  <1> QED BY <1>1, <1>2, <1>3, <1>4, <1>5, <1>6, <1>7, <1>8 DEF Next

\* The inductive invariant holds in every reachable state of the manager.
THEOREM Invariance == Spec => []IInv
  BY InitIInv, NextIInv, PTL DEF Spec

\* The maps have their types in every reachable state.
THEOREM TypeCorrect == Spec => []TypeOK
  BY Invariance, PTL DEF IInv

\* The four maps always describe the same sessions, whatever the order in
\* which sessions are issued, bound, replaced, logged out and expire.
THEOREM MapsCoherent == Spec => []Coherent
  BY Invariance, PTL DEF IInv

\* Login never numbers a player that has a session.
THEOREM LegacyNumbering == Spec => []LegacyIDsFresh
  BY Invariance, PTL DEF IInv

-----------------------------------------------------------------------------
\* No session disappears without being handed back to the application.
THEOREM NothingLost == Spec => []NoSilentLoss
PROOF
  <1>1. Init => NoSilentLoss
    BY DEF Init, Empty, NoSilentLoss
  <1>2. IInv /\ NoSilentLoss /\ [Next]_vars => NoSilentLoss'
    <2>a. [Next]_vars => built' = built
      BY DEF Next, Issue, Bind, LogoutByToken, LogoutByConnID, RemoveExpired, Login,
             Tick, vars
    <2> SUFFICES ASSUME IInv, NoSilentLoss, [Next]_vars, ~Legacy
                 PROVE  /\ issued' = DOMAIN byToken' \cup reported'
                        /\ DOMAIN byToken' \cap reported' = {}
      BY <2>a DEF NoSilentLoss, Legacy
    <2>0. issued = DOMAIN byToken \cup reported /\ DOMAIN byToken \cap reported = {}
      BY DEF NoSilentLoss
    <2>1. ASSUME NEW t \in Tokens, NEW a \in Accounts, NEW p \in 0..MaxPlayerID,
                 NEW at \in 0..MaxTime, NEW ttl \in TTLs, Issue(t, a, p, ttl, at)
          PROVE  /\ issued' = DOMAIN byToken' \cup reported'
                 /\ DOMAIN byToken' \cap reported' = {}
      <3>1. DOMAIN byToken' = (DOMAIN byToken \ Lookup(byAccountID, a)) \cup {t}
        BY <2>1, IssueStep
      <3>2. Lookup(byAccountID, a) \in SUBSET DOMAIN byToken
        BY LookupLive DEF IInv
      <3> QED BY <2>0, <2>1, <3>1, <3>2 DEF Issue
    <2>2. ASSUME NEW t \in Tokens, NEW c \in ConnIDs, Bind(t, c)
          PROVE  /\ issued' = DOMAIN byToken' \cup reported'
                 /\ DOMAIN byToken' \cap reported' = {}
      BY <2>0, <2>2, BindStep DEF Bind
    <2>3. ASSUME NEW S \in SUBSET DOMAIN byToken, removeLocked(S),
                 reported' = reported \cup S, UNCHANGED <<built, nextPlayerID, now, issued>>
          PROVE  /\ issued' = DOMAIN byToken' \cup reported'
                 /\ DOMAIN byToken' \cap reported' = {}
      BY <2>0, <2>3, RemovalStep
    <2>4. ASSUME NEW t \in Tokens, LogoutByToken(t)
          PROVE  /\ issued' = DOMAIN byToken' \cup reported'
                 /\ DOMAIN byToken' \cap reported' = {}
      BY <2>3, <2>4, RemovalSets DEF LogoutByToken
    <2>5. ASSUME NEW c \in ConnIDs, LogoutByConnID(c)
          PROVE  /\ issued' = DOMAIN byToken' \cup reported'
                 /\ DOMAIN byToken' \cap reported' = {}
      BY <2>3, <2>5, RemovalSets DEF LogoutByConnID
    <2>6. ASSUME NEW at \in Times, RemoveExpired(at)
          PROVE  /\ issued' = DOMAIN byToken' \cup reported'
                 /\ DOMAIN byToken' \cap reported' = {}
      BY <2>3, <2>6, RemovalSets DEF RemoveExpired
    <2>7. CASE Tick \/ UNCHANGED vars
      BY <2>0, <2>7 DEF Tick, vars, maps
    <2> QED BY <2>1, <2>2, <2>4, <2>5, <2>6, <2>7 DEF Next, Login
  <1> QED BY <1>1, <1>2, Invariance, PTL DEF Spec

\* A session never changes hands and a connection never changes its session.
THEOREM BindingsKept == Spec => BindingStable
PROOF
  <1> DEFINE Kept == /\ \A t \in DOMAIN byToken \cap DOMAIN byToken' : SessionKept(t)
                     /\ \A c \in DOMAIN byConnID \cap DOMAIN byConnID' : ConnectionKept(c)
  <1>1. IInv /\ [Next]_vars => [Kept]_vars
    <2> SUFFICES ASSUME IInv, Next PROVE Kept
      OBVIOUS
    <2>1. ASSUME NEW t \in Tokens, NEW a \in Accounts, NEW p \in 0..MaxPlayerID,
                 NEW at \in 0..MaxTime, NEW ttl \in TTLs, Issue(t, a, p, ttl, at)
          PROVE  Kept
      <3>1. /\ \A x \in DOMAIN byToken' \ {t} : byToken'[x] = byToken[x]
            /\ t \notin DOMAIN byToken
            /\ \A c \in DOMAIN byConnID' : c \in DOMAIN byConnID /\ byConnID'[c] = byConnID[c]
        BY <2>1, IssueStep
      <3> QED BY <3>1 DEF SessionKept, ConnectionKept
    <2>2. ASSUME NEW t \in Tokens, NEW c \in ConnIDs, Bind(t, c)
          PROVE  Kept
      <3>1. /\ \A x \in DOMAIN byToken \ {t} : byToken'[x] = byToken[x]
            /\ byToken'[t] = [byToken[t] EXCEPT !.conn = c, !.bound = TRUE]
            /\ byToken[t].bound => byToken[t].conn = c
            /\ \A d \in DOMAIN byConnID : d \in DOMAIN byConnID' /\ byConnID'[d] = byConnID[d]
        BY <2>2, BindStep
      <3>2. t \in DOMAIN byToken /\ byToken[t] \in Session
        BY <2>2 DEF Bind, IInv, TypeOK
      <3>3. SessionKept(t)
        BY <3>1, <3>2 DEF SessionKept, Session
      <3> QED BY <3>1, <3>3 DEF SessionKept, ConnectionKept
    <2>3. ASSUME NEW S \in SUBSET DOMAIN byToken, removeLocked(S),
                 reported' = reported \cup S, UNCHANGED <<built, nextPlayerID, now, issued>>
          PROVE  Kept
      BY <2>3, RemovalStep DEF SessionKept, ConnectionKept
    <2>4. ASSUME NEW t \in Tokens, LogoutByToken(t) PROVE Kept
      BY <2>3, <2>4, RemovalSets DEF LogoutByToken
    <2>5. ASSUME NEW c \in ConnIDs, LogoutByConnID(c) PROVE Kept
      BY <2>3, <2>5, RemovalSets DEF LogoutByConnID
    <2>6. ASSUME NEW at \in Times, RemoveExpired(at) PROVE Kept
      BY <2>3, <2>6, RemovalSets DEF RemoveExpired
    \* Login on a connection that has a session ends that session.
    <2>7. ASSUME NEW t \in Tokens, NEW a \in Accounts, NEW c \in ConnIDs, Login(t, a, c)
          PROVE  Kept
      <3>1. /\ DOMAIN byToken' =
                 (DOMAIN byToken \ (Lookup(byAccountID, a) \cup Lookup(byConnID, c))) \cup {t}
            /\ \A x \in DOMAIN byToken' \ {t} : byToken'[x] = byToken[x]
            /\ t \notin DOMAIN byToken
            /\ \A d \in DOMAIN byConnID' :
                  d = c \/ (d \in DOMAIN byConnID /\ byConnID'[d] = byConnID[d])
        BY <2>7, LoginStep
      <3>2. c \in DOMAIN byConnID => byConnID[c] \notin DOMAIN byToken'
        BY <3>1, LookupIs DEF IInv, Coherent, IndexesCurrent
      <3> QED BY <2>7, <3>1, <3>2 DEF SessionKept, ConnectionKept, Login
    <2>8. CASE Tick
      BY <2>8 DEF Tick, maps, SessionKept, ConnectionKept
    <2> QED BY <2>1, <2>2, <2>4, <2>5, <2>6, <2>7, <2>8 DEF Next
  <1> QED BY <1>1, Invariance, PTL DEF Spec, BindingStable

\* Under RejectExisting only its own logout, or a sweep for a time still to
\* come, ends a session that has not expired.
THEOREM ActiveProtected == Spec => ActiveNotDisplaced
PROOF
  <1> DEFINE Protected == Policy = "RejectExisting" =>
                            \A t \in DOMAIN byToken \ DOMAIN byToken' :
                                expired(byToken[t], now) \/ Logout(t) \/ SweptAhead(t)
  <1>1. IInv /\ [Next]_vars => [Protected]_vars
    <2> SUFFICES ASSUME IInv, Next, Policy = "RejectExisting",
                        NEW x \in DOMAIN byToken \ DOMAIN byToken'
                 PROVE  expired(byToken[x], now) \/ Logout(x) \/ SweptAhead(x)
      OBVIOUS
    <2>0. byToken[x] \in Session /\ now \in Nat
      BY SessionAssumption DEF IInv, TypeOK
    \* Issue compared the session with a clock reading that is not later.
    <2>1. ASSUME NEW t \in Tokens, NEW a \in Accounts, NEW p \in 0..MaxPlayerID,
                 NEW at \in 0..MaxTime, NEW ttl \in TTLs, Issue(t, a, p, ttl, at)
          PROVE  expired(byToken[x], now)
      <3>1. x \in Lookup(byAccountID, a)
        <4>1. DOMAIN byToken' = (DOMAIN byToken \ Lookup(byAccountID, a)) \cup {t}
          BY <2>1, IssueStep
        <4> QED BY <4>1
      <3>2. expired(byToken[x], at) /\ at <= now
        BY <2>1, <3>1 DEF Issue, MayReplace
      <3> QED BY <2>0, <3>2, SessionAssumption DEF expired, Session
    <2>2. ASSUME NEW t \in Tokens, NEW c \in ConnIDs, Bind(t, c) PROVE FALSE
      BY <2>2, BindStep
    <2>3. ASSUME NEW t \in Tokens, LogoutByToken(t) PROVE Logout(x)
      <3>1. DOMAIN byToken' = DOMAIN byToken \ {t}
        BY <2>3, RemovalSets, RemovalStep DEF LogoutByToken
      <3> QED BY <2>3, <3>1 DEF Logout
    <2>4. ASSUME NEW c \in ConnIDs, LogoutByConnID(c) PROVE Logout(x)
      <3>1. DOMAIN byToken' = DOMAIN byToken \ {byConnID[c]}
        BY <2>4, RemovalSets, RemovalStep DEF LogoutByConnID
      <3> QED BY <2>4, <3>1 DEF Logout
    \* A sweep with a reading of the clock finds only what has expired by now.
    <2>5. ASSUME NEW at \in Times, RemoveExpired(at)
          PROVE  expired(byToken[x], now) \/ SweptAhead(x)
      <3> DEFINE S == {t \in DOMAIN byToken : expired(byToken[t], at)}
      <3>1. /\ S \in SUBSET DOMAIN byToken /\ removeLocked(S)
            /\ reported' = reported \cup S /\ UNCHANGED <<built, nextPlayerID, now, issued>>
        BY <2>5 DEF RemoveExpired
      <3>2. x \in S
        <4> HIDE DEF S
        <4> QED BY <3>1, RemovalStep
      <3>3. expired(byToken[x], at) /\ at \in Nat
        BY <3>2, SessionAssumption
      <3>4. CASE at <= now
        BY <2>0, <3>3, <3>4 DEF expired, Session
      <3>5. CASE at > now
        BY <2>5, <3>3, <3>5 DEF SweptAhead
      <3> QED BY <2>0, <3>3, <3>4, <3>5
    <2>6. CASE Tick
      BY <2>6 DEF Tick, maps
    <2>7. ~Legacy
      BY DEF IInv, TypeOK, Constructors, Policy, Legacy
    <2> QED BY <2>1, <2>2, <2>3, <2>4, <2>5, <2>6, <2>7 DEF Next, Login
  <1> QED BY <1>1, Invariance, PTL DEF Spec, ActiveNotDisplaced

=============================================================================
