---------------------------- MODULE ServerProofs ----------------------------
(***************************************************************************)
(* The safety of the server, for any number of starters, callers of        *)
(* Shutdown, connections and requests and any connection limit:            *)
(* NoAddDuringWait, RequestsBetweenHooks, ManagerExact and                 *)
(* QuiescentAfterShutdown of module Server.                                *)
(*                                                                         *)
(* The heart of it is listenerLock.  Whoever may still add to connWait has *)
(* seen stopped = FALSE while holding that lock and still holds it, and    *)
(* shutdown takes the listener under the same lock after stopped was set;  *)
(* so nothing is added from there on, the wait group counts exactly what   *)
(* is left, and what Wait saw stays true.                                  *)
(***************************************************************************)
EXTENDS Server, FiniteSetTheorems, TLAPS

\* Inside the Once of StartWithError, and inside its critical section.
InOnce == {"lock", "check", "listen", "launch"}
InLock == {"check", "listen", "launch"}
\* Shutdown has taken the listener.
Taken == {"close", "clear", "stop", "pool", "done"}

\* The types, but for the two counters.
TypeBase ==
    /\ startOnce \in {"new", "running", "done"} /\ startErr \in BOOLEAN
    /\ spc \in [Starters -> InOnce \cup {"idle", "result", "nil", "error"}]
    /\ stopped \in BOOLEAN /\ listener \in BOOLEAN /\ listening \in BOOLEAN
    /\ lock \in {"none", "start", "accept"}
    /\ acceptor \in {"off", "accept", "accepted", "lock", "recheck", "add", "done"}
    /\ cid \in 0..MaxAccepts
    /\ shutdownOnce \in {"new", "running", "done"}
    /\ kpc \in [Callers -> {"idle", "signalled", "select", "waiting", "timeout", "nil"}]
    /\ sd \in Taken \cup {"off", "lock"}
ConnType ==
    /\ connections \subseteq Conns /\ toStop \subseteq Conns
    /\ life \in [Conns -> {"none", "added", "writer", "hooked", "wait", "joined",
                           "unhooked", "removed", "done"}]
    /\ closed \in [Conns -> BOOLEAN]
    /\ writer \in [Conns -> {"off", "running", "done"}]
    /\ reader \in [Conns -> {"off", "running", "done"}]
    /\ reads \in [Conns -> 0..MaxMsgs]
    /\ phase \in {"open", "closed", "drained"}
    /\ outstanding \subseteq Task /\ finished \subseteq Task

\* One caller at a time is inside the Once, and the accept loop follows it.
StartExact ==
    /\ \A p \in Starters : spc[p] \in InOnce => startOnce = "running"
    /\ \A p, q \in Starters : spc[p] \in InOnce /\ spc[q] \in InOnce => p = q
    /\ startOnce # "done" => acceptor = "off"

\* Who is inside holds the lock.
LockExact ==
    /\ \A p \in Starters : spc[p] \in InLock => lock = "start"
    /\ acceptor \in {"recheck", "add"} => lock = "accept"

\* stopped comes first, then the shutdown goroutine, of which there is one.
StopOrder ==
    /\ shutdownOnce # "new" => stopped
    /\ \A k \in Callers : kpc[k] = "signalled" => shutdownOnce = "running"
    /\ \A k, l \in Callers : kpc[k] = "signalled" /\ kpc[l] = "signalled" => k = l
    /\ sd # "off" => shutdownOnce = "done"
    /\ \A k \in Callers : kpc[k] = "nil" => sd = "done"

\* Once the listener was taken nobody is about to add to connWait.
NothingAdds ==
    sd \in Taken => ~listener /\ acceptor # "add" /\ \A p \in Starters : spc[p] \notin {"listen", "launch"}

Control == TypeBase /\ StartExact /\ LockExact /\ StopOrder /\ NothingAdds

\* Ids are given out once.
FreshIds ==
    /\ \A c \in Conns : c >= cid => life[c] = "none"
    /\ acceptor \in {"lock", "recheck", "add"} => cid >= 1 /\ life[cid - 1] = "none"
    /\ acceptor = "accepted" => cid < MaxAccepts

\* The goroutines of a connection live between its hooks.
Goroutines ==
    \A c \in Conns : /\ writer[c] = "running" => life[c] \in {"writer", "hooked", "wait"}
                     /\ reader[c] = "running" => life[c] = "wait"

\* The manager, and how much of it is left as the shutdown proceeds.
Manager ==
    /\ sd \in {"off", "lock", "close", "clear"} => connections = Registered
    /\ sd \in {"stop", "pool", "done"} => connections = {}
    /\ MaxConn > 0 => Cardinality(Registered) <= MaxConn
Released ==
    /\ sd \in {"clear", "stop", "pool", "done"} => ~listening
    /\ sd \in {"pool", "done"} => acceptor \in {"off", "done"} /\ Alive = {}
    /\ sd = "done" => phase = "drained" /\ outstanding = {}

\* The wait group and the metric count what is alive.
Accepting == IF acceptor \in {"off", "done"} THEN 0 ELSE 1
Counts == metric = Cardinality(Alive) /\ connWait = Cardinality(Alive) + Accepting

ConnInv == ConnType /\ FreshIds /\ Goroutines /\ Manager /\ Released
IInv == Control /\ ConnInv /\ Counts

-----------------------------------------------------------------------------
\* Sets of connections are finite.
LEMMA FiniteConns == ASSUME NEW S \in SUBSET Conns PROVE IsFiniteSet(S) /\ Cardinality(S) \in Nat
<1>1. IsFiniteSet(Conns)
    BY ServerAssumption, FS_Interval DEF Conns
<1> QED BY <1>1, FS_Subset, FS_CardinalityType

\* The counters are numbers, and an empty wait group means that nothing lives.
LEMMA CountsType ==
    ASSUME Counts
    PROVE  /\ metric \in Nat /\ connWait \in Nat
           /\ connWait = 0 => Alive = {} /\ acceptor \in {"off", "done"}
<1>1. IsFiniteSet(Alive) /\ Cardinality(Alive) \in Nat
    BY FiniteConns DEF Alive
<1>2. Cardinality(Alive) = 0 => Alive = {}
    BY <1>1, FS_EmptySet
<1> QED BY <1>1, <1>2 DEF Counts, Accepting

\* As long as life does not change the same connections are alive and
\* registered.
LEMMA SameLife ==
    ASSUME UNCHANGED life PROVE Alive' = Alive /\ Registered' = Registered
BY DEF Alive, Registered

-----------------------------------------------------------------------------
(***************************************************************************)
(* Starting and stopping: nothing of a connection changes.                 *)
(***************************************************************************)
\* Control is kept by the steps of StartWithError ...
LEMMA StartControl ==
    ASSUME Control, NEW p \in Starters, StartEnter(p) \/ StartStep(p)
    PROVE  Control'
<1> USE DEF Control, TypeBase, StartExact, LockExact, StopOrder, NothingAdds, InOnce, InLock, Taken,
        StartDone, startVars, listenVars, acceptVars, shutVars, otherThanStart
<1>1. CASE StartEnter(p) BY <1>1 DEF StartEnter
<1>2. CASE StartLock(p) BY <1>2 DEF StartLock
<1>3. CASE StartCheck(p) BY <1>3 DEF StartCheck
<1>4. CASE Listen(p) BY <1>4 DEF Listen
<1>5. CASE Launch(p) BY <1>5 DEF Launch
<1>6. CASE StartResult(p) BY <1>6 DEF StartResult
<1> QED BY <1>1, <1>2, <1>3, <1>4, <1>5, <1>6 DEF StartStep

\* ... of the accept loop ...
LEMMA AcceptControl == ASSUME Control, FreshIds, Accept \/ AcceptStep PROVE Control'
<1> USE ServerAssumption DEF Control, TypeBase, StartExact, LockExact, StopOrder, NothingAdds, InOnce,
        InLock, Taken, AcceptDone, startVars, listenVars, acceptVars, shutVars, otherThanAccept
<1>1. CASE Accept BY <1>1 DEF Accept
<1>2. CASE AcceptFails BY <1>2 DEF AcceptFails
<1>3. CASE AcceptCheck BY <1>3 DEF AcceptCheck, FreshIds
<1>4. CASE AcceptLock BY <1>4 DEF AcceptLock
<1>5. CASE AcceptRecheck BY <1>5 DEF AcceptRecheck
<1>6. CASE AcceptAdd BY <1>6 DEF AcceptAdd
<1> QED BY <1>1, <1>2, <1>3, <1>4, <1>5, <1>6 DEF AcceptStep

\* The steps of a goroutine that calls Shutdown.
ShutdownCall(k) ==
    \/ ShutdownEnter(k) \/ ShutdownSpawn(k) \/ ShutdownSelect(k)
    \/ ShutdownReturns(k) \/ ShutdownTimeout(k)

\* ... of the callers of Shutdown ...
LEMMA CallControl == ASSUME Control, NEW k \in Callers, ShutdownCall(k) PROVE Control'
<1> USE DEF Control, TypeBase, StartExact, LockExact, StopOrder, NothingAdds, InOnce, InLock, Taken,
        startVars, listenVars, acceptVars, shutVars, otherThanShut, ShutdownCall
<1>1. CASE ShutdownEnter(k)
    <2>1. CASE shutdownOnce = "new"
        <3>1. sd = "off" /\ \A l \in Callers : kpc[l] # "signalled"
            BY <2>1
        <3>2. /\ stopped' = TRUE /\ shutdownOnce' = "running"
              /\ kpc' = [kpc EXCEPT ![k] = "signalled"]
              /\ UNCHANGED <<sd, lock, listenVars, startVars, acceptVars>>
            BY <1>1, <2>1 DEF ShutdownEnter
        <3>3. TypeBase'
            BY <3>2
        <3>4. StopOrder'
            BY <3>1, <3>2
        <3> QED BY <3>2, <3>3, <3>4
    <2>2. CASE shutdownOnce = "done"
        BY <1>1, <2>2 DEF ShutdownEnter
    <2> QED BY <1>1, <2>1, <2>2 DEF ShutdownEnter
<1>2. CASE ShutdownSpawn(k) BY <1>2 DEF ShutdownSpawn
<1>3. CASE ShutdownReturns(k) BY <1>3 DEF ShutdownReturns
<1>4. CASE ShutdownTimeout(k) BY <1>4 DEF ShutdownTimeout
<1>5. CASE ShutdownSelect(k) BY <1>5 DEF ShutdownSelect
<1> QED BY <1>1, <1>2, <1>3, <1>4, <1>5

\* ... and of the shutdown goroutine, which takes the listener under the lock.
LEMMA ShutdownControl == ASSUME Control, ShutdownStep PROVE Control'
<1> USE DEF Control, TypeBase, StartExact, LockExact, StopOrder, NothingAdds, InOnce, InLock, Taken,
        startVars, listenVars, acceptVars, shutVars, otherThanShut
<1>1. CASE TakeListener BY <1>1 DEF TakeListener
<1>2. CASE CloseListener BY <1>2 DEF CloseListener
<1>3. CASE ClearConn BY <1>3 DEF ClearConn
<1>4. CASE StopOne BY <1>4 DEF StopOne
<1>5. CASE WaitConns BY <1>5 DEF WaitConns
<1>6. CASE StopWorkerPool BY <1>6 DEF StopWorkerPool
<1> QED BY <1>1, <1>2, <1>3, <1>4, <1>5, <1>6 DEF ShutdownStep

\* The steps of a connection do not touch it.
LEMMA OtherControl == ASSUME Control, UNCHANGED otherThanConn PROVE Control'
BY DEF Control, TypeBase, StartExact, LockExact, StopOrder, NothingAdds, startVars, listenVars,
       acceptVars, shutVars, otherThanConn

-----------------------------------------------------------------------------
(***************************************************************************)
(* The connections, during steps that are not theirs.                      *)
(***************************************************************************)
\* StartWithError: the accept loop is launched once, and not any more when the
\* listener was taken.
LEMMA StartConn ==
    ASSUME IInv, NEW p \in Starters, StartEnter(p) \/ StartStep(p)
    PROVE  ConnInv' /\ Counts'
<1>1. UNCHANGED <<connVars, shutVars, poolVars>>
    BY DEF StartEnter, StartStep, StartLock, StartCheck, Listen, Launch, StartResult, otherThanStart
<1>2. Alive' = Alive /\ Registered' = Registered
    BY <1>1, SameLife DEF connVars
<1>3. ConnType' /\ Goroutines' /\ Manager'
    BY <1>1, <1>2 DEF IInv, ConnInv, ConnType, Goroutines, Manager, connVars, shutVars, poolVars
<1>4. CASE Launch(p)
    <2>1. acceptor = "off" /\ acceptor' = "accept" /\ cid' = cid /\ sd \notin Taken
          /\ connWait' = connWait + 1 /\ UNCHANGED listening
        BY <1>4 DEF Launch, IInv, Control, StartExact, NothingAdds, InOnce, listenVars
    <2>2. FreshIds' /\ Released'
        BY <1>1, <1>2, <2>1 DEF IInv, ConnInv, FreshIds, Released, connVars, shutVars, poolVars, Taken
    <2>3. Counts'
        BY <1>1, <1>2, <2>1, FiniteConns DEF IInv, Counts, Accepting, connVars, Alive
    <2> QED BY <1>3, <2>2, <2>3 DEF ConnInv
<1>5. CASE ~Launch(p)
    <2>1. UNCHANGED <<acceptVars, connWait>>
        BY <1>5 DEF StartEnter, StartStep, StartLock, StartCheck, Listen, StartResult, otherThanStart
    <2>2. sd \in Taken => UNCHANGED listening
        BY <1>5 DEF StartEnter, StartStep, StartLock, StartCheck, Listen, StartResult, IInv, Control,
                    NothingAdds, listenVars
    <2>3. FreshIds' /\ Released'
        BY <1>1, <1>2, <2>1, <2>2 DEF IInv, ConnInv, FreshIds, Released, connVars, shutVars, poolVars,
                    acceptVars, Taken
    <2>4. Counts'
        BY <1>1, <1>2, <2>1 DEF IInv, Counts, Accepting, connVars, acceptVars
    <2> QED BY <1>3, <2>3, <2>4 DEF ConnInv
<1> QED BY <1>4, <1>5

\* The callers of Shutdown.
LEMMA CallConn ==
    ASSUME IInv, NEW k \in Callers, ShutdownCall(k)
    PROVE  ConnInv' /\ Counts'
<1>1. /\ UNCHANGED <<connVars, poolVars, listenVars, acceptVars, connWait, toStop>>
      /\ sd' = sd \/ (sd = "off" /\ sd' = "lock")
    BY DEF ShutdownCall, ShutdownEnter, ShutdownSpawn, ShutdownSelect, ShutdownReturns, ShutdownTimeout,
           otherThanShut, IInv, Control, StopOrder
<1>2. Alive' = Alive /\ Registered' = Registered
    BY <1>1, SameLife DEF connVars
<1>3. ConnType' /\ Goroutines' /\ FreshIds'
    BY <1>1 DEF IInv, ConnInv, ConnType, Goroutines, FreshIds, connVars, poolVars, acceptVars
<1>4. Manager' /\ Released'
    BY <1>1, <1>2 DEF IInv, ConnInv, Manager, Released, connVars, poolVars, listenVars, acceptVars
<1>5. Counts'
    BY <1>1, <1>2 DEF IInv, Counts, Accepting, connVars, acceptVars
<1> QED BY <1>3, <1>4, <1>5 DEF ConnInv

\* The shutdown goroutine: what Wait saw holds from there on.
LEMMA ShutdownConn == ASSUME IInv, ShutdownStep PROVE ConnInv' /\ Counts'
<1>1. UNCHANGED <<life, writer, reader, reads, metric, acceptVars, connWait>>
    BY DEF ShutdownStep, TakeListener, CloseListener, ClearConn, StopOne, WaitConns, StopWorkerPool,
           otherThanShut, connVars
<1>2. Alive' = Alive /\ Registered' = Registered
    BY <1>1, SameLife
<1>3. FreshIds' /\ Goroutines'
    BY <1>1 DEF IInv, ConnInv, FreshIds, Goroutines, acceptVars
<1>4. Counts'
    BY <1>1, <1>2 DEF IInv, Counts, Accepting, acceptVars
<1> USE DEF IInv, ConnInv, ConnType, Manager, Released, connVars, poolVars, listenVars
<1>5. CASE TakeListener
    BY <1>1, <1>2, <1>3, <1>4, <1>5 DEF TakeListener
<1>6. CASE CloseListener
    BY <1>1, <1>2, <1>3, <1>4, <1>6 DEF CloseListener
<1>7. CASE ClearConn
    BY <1>1, <1>2, <1>3, <1>4, <1>7 DEF ClearConn
<1>8. CASE StopOne
    BY <1>1, <1>2, <1>3, <1>4, <1>8 DEF StopOne
<1>9. CASE WaitConns
    <2>1. Alive = {} /\ acceptor \in {"off", "done"}
        BY <1>9, CountsType DEF WaitConns
    <2> QED BY <1>1, <1>2, <1>3, <1>4, <1>9, <2>1 DEF WaitConns, acceptVars
<1>10. CASE StopWorkerPool
    BY <1>1, <1>2, <1>3, <1>4, <1>10 DEF StopWorkerPool, Pool!Close, Pool!Drained, acceptVars
<1> QED BY <1>5, <1>6, <1>7, <1>8, <1>9, <1>10 DEF ShutdownStep

\* The accept loop: a connection is registered, counted and given its id in one
\* step, under the lock and the limit.
LEMMA AcceptConn == ASSUME IInv, Accept \/ AcceptStep PROVE ConnInv' /\ Counts'
<1>1. UNCHANGED <<closed, writer, reader, reads, listening, shutVars, poolVars>>
    BY DEF Accept, AcceptStep, AcceptFails, AcceptCheck, AcceptLock, AcceptRecheck, AcceptAdd,
           otherThanAccept, connVars, listenVars
<1>2. CASE AcceptAdd /\ CanAdd(newConn)
    <2> DEFINE c == cid - 1
    <2>1. /\ connections' = connections \cup {c} /\ metric' = metric + 1 /\ connWait' = connWait + 1
          /\ life' = [life EXCEPT ![c] = "added"]
          /\ acceptor = "add" /\ acceptor' = "accept" /\ cid' = cid
        BY <1>2 DEF AcceptAdd, newConn
    <2>2. c \in Conns /\ life[c] = "none" /\ cid \in Nat
        BY <2>1, ServerAssumption DEF IInv, Control, TypeBase, ConnInv, FreshIds, Conns
    <2>3. sd \in {"off", "lock"}
        BY <2>1 DEF IInv, Control, NothingAdds, TypeBase
    <2>4. connections = Registered
        BY <2>3 DEF IInv, ConnInv, Manager
    <2>5. Alive' = Alive \cup {c} /\ Registered' = Registered \cup {c}
          /\ c \notin Alive /\ c \notin Registered
        BY <2>1, <2>2 DEF IInv, ConnInv, ConnType, Alive, Registered
    <2>6. /\ Cardinality(Alive') = Cardinality(Alive) + 1 /\ Cardinality(Alive) \in Nat
          /\ Cardinality(Registered') = Cardinality(Registered) + 1
          /\ Cardinality(Registered) \in Nat
        <3>1. Alive \in SUBSET Conns /\ Registered \in SUBSET Conns
            BY DEF Alive, Registered
        <3> QED BY <2>5, <3>1, FiniteConns, FS_AddElement
    <2>7. Counts'
        BY <2>1, <2>6 DEF IInv, Counts, Accepting
    <2>8. ConnType'
        BY <1>1, <2>1, <2>2 DEF IInv, ConnInv, ConnType, shutVars, poolVars
    <2>9. FreshIds'
        BY <2>1, <2>2 DEF IInv, ConnInv, ConnType, FreshIds
    <2>10. Goroutines'
        BY <1>1, <2>1, <2>2 DEF IInv, ConnInv, ConnType, Goroutines
    <2>11. MaxConn > 0 => Cardinality(Registered) < MaxConn
        BY <1>2, <2>4 DEF CanAdd
    <2>12. Manager'
        BY <1>1, <2>1, <2>3, <2>4, <2>5, <2>6, <2>11, ServerAssumption DEF Manager, shutVars
    <2>13. Released'
        BY <1>1, <2>3 DEF Released, shutVars
    <2> QED BY <2>7, <2>8, <2>9, <2>10, <2>12, <2>13 DEF ConnInv
<1>3. CASE ~(AcceptAdd /\ CanAdd(newConn))
    <2>1. UNCHANGED connVars
        BY <1>3 DEF Accept, AcceptStep, AcceptFails, AcceptCheck, AcceptLock, AcceptRecheck, AcceptAdd
    <2>2. Alive' = Alive /\ Registered' = Registered
        BY <2>1, SameLife DEF connVars
    <2>3. ConnType' /\ Goroutines' /\ Manager'
        BY <1>1, <2>1, <2>2 DEF IInv, ConnInv, ConnType, Goroutines, Manager, connVars, shutVars, poolVars
    <2>4. /\ acceptor \notin {"off", "done"}
          /\ \/ acceptor' = "done" /\ connWait' = connWait - 1
             \/ acceptor' \notin {"off", "done"} /\ connWait' = connWait
        BY <1>3 DEF Accept, AcceptStep, AcceptFails, AcceptCheck, AcceptLock, AcceptRecheck, AcceptAdd,
                AcceptDone
    <2>5. Counts'
        BY <2>1, <2>2, <2>4, FiniteConns DEF IInv, Counts, Accepting, connVars, Alive
    <2>6. Released'
        BY <1>1, <2>2, <2>4 DEF IInv, ConnInv, Released, shutVars, poolVars
    <2>7. ASSUME AcceptCheck PROVE FreshIds'
        <3>1. cid \in Nat /\ cid < MaxAccepts /\ cid \in Conns /\ life[cid] = "none" /\ life' = life
            BY <2>1, <2>7, ServerAssumption DEF AcceptCheck, IInv, Control, TypeBase, ConnInv, FreshIds,
                connVars, Conns
        <3>2. CASE cid' = cid /\ acceptor' = "done"
            BY <3>1, <3>2 DEF IInv, ConnInv, FreshIds
        <3>3. CASE cid' = cid + 1 /\ acceptor' = "lock"
            <4>1. cid' - 1 = cid /\ cid' >= 1
                BY <3>1, <3>3
            <4>2. \A c \in Conns : c >= cid' => c >= cid
                BY <3>1, <3>3, ServerAssumption DEF Conns
            <4> QED BY <3>1, <3>3, <4>1, <4>2 DEF IInv, ConnInv, FreshIds
        <3> QED BY <2>7, <3>2, <3>3 DEF AcceptCheck, AcceptDone
    <2>8. ASSUME ~AcceptCheck PROVE FreshIds'
        <3>1. UNCHANGED cid
            BY <2>8 DEF Accept, AcceptStep, AcceptFails, AcceptLock, AcceptRecheck, AcceptAdd
        <3>2. /\ acceptor' \in {"lock", "recheck", "add"} => acceptor \in {"lock", "recheck", "add"}
              /\ acceptor' = "accepted" => cid < MaxAccepts
            BY <1>3, <2>8 DEF Accept, AcceptStep, AcceptFails, AcceptLock, AcceptRecheck, AcceptAdd,
                AcceptDone
        <3> QED BY <2>1, <3>1, <3>2 DEF IInv, ConnInv, FreshIds, connVars
    <2>9. FreshIds'
        BY <2>7, <2>8
    <2> QED BY <2>3, <2>5, <2>6, <2>9 DEF ConnInv
<1> QED BY <1>2, <1>3

-----------------------------------------------------------------------------
(***************************************************************************)
(* The steps of a connection.                                              *)
(***************************************************************************)
\* The steps of startConnection between the registration and the removal.
Stage(c) == startWriter(c) \/ StartHook(c) \/ startReader(c) \/ Joined(c) \/ StopHook(c)

\* startConnection goes from one stage to the next; the connection stays alive
\* until the last one, and registered until it is removed.
LEMMA StageConn == ASSUME IInv, NEW c \in Conns, Stage(c) PROVE ConnInv' /\ Counts'
<1>1. /\ life[c] \in {"added", "writer", "hooked", "wait", "joined"}
      /\ \E l \in {"writer", "hooked", "wait", "joined", "unhooked"} : life' = [life EXCEPT ![c] = l]
      /\ UNCHANGED <<connections, closed, reads, metric, connWait, poolVars, otherThanConn>>
    BY DEF Stage, startWriter, StartHook, startReader, Joined, StopHook, otherThanLife
<1>2. Alive' = Alive /\ Registered' = Registered
    BY <1>1 DEF IInv, ConnInv, ConnType, Alive, Registered
<1>3. ConnType' /\ Goroutines'
    <2> USE DEF IInv, ConnInv, ConnType, Goroutines, poolVars, otherThanConn, shutVars, otherThanLife
    <2>1. CASE startWriter(c) BY <2>1 DEF startWriter
    <2>2. CASE StartHook(c) BY <2>2 DEF StartHook
    <2>3. CASE startReader(c) BY <2>3 DEF startReader
    <2>4. CASE Joined(c) BY <2>4 DEF Joined
    <2>5. CASE StopHook(c) BY <2>5 DEF StopHook
    <2> QED BY <2>1, <2>2, <2>3, <2>4, <2>5 DEF Stage
<1>4. FreshIds'
    BY <1>1 DEF IInv, ConnInv, ConnType, FreshIds, otherThanConn, acceptVars
<1>5. Manager' /\ Released'
    BY <1>1, <1>2 DEF IInv, ConnInv, Manager, Released, otherThanConn, poolVars, shutVars, listenVars,
            acceptVars
<1>6. Counts'
    BY <1>1, <1>2 DEF IInv, Counts, Accepting, otherThanConn, acceptVars
<1> QED BY <1>3, <1>4, <1>5, <1>6 DEF ConnInv

\* It leaves the manager ...
LEMMA RemoveConn == ASSUME IInv, NEW c \in Conns, Remove(c) PROVE ConnInv' /\ Counts'
<1>1. /\ life[c] = "unhooked" /\ life' = [life EXCEPT ![c] = "removed"]
      /\ connections' = connections \ {c}
      /\ UNCHANGED <<closed, writer, reader, reads, metric, connWait, poolVars, otherThanConn>>
    BY DEF Remove
<1>2. Alive' = Alive /\ Registered' = Registered \ {c}
    BY <1>1 DEF IInv, ConnInv, ConnType, Alive, Registered
<1>3. /\ Cardinality(Registered') <= Cardinality(Registered)
      /\ Cardinality(Registered') \in Nat /\ Cardinality(Registered) \in Nat
    <2>1. Registered \in SUBSET Conns /\ Registered' \in SUBSET Registered
          /\ Registered' \in SUBSET Conns
        BY <1>2 DEF Alive, Registered
    <2> QED BY <2>1, FiniteConns, FS_Subset
<1>4. ConnType' /\ Goroutines' /\ FreshIds'
    BY <1>1 DEF IInv, ConnInv, ConnType, Goroutines, FreshIds, poolVars, otherThanConn, shutVars,
            acceptVars
<1>5. Manager'
    BY <1>1, <1>2, <1>3, ServerAssumption DEF IInv, ConnInv, Manager, otherThanConn, shutVars
<1>6. Released' /\ Counts'
    BY <1>1, <1>2 DEF IInv, ConnInv, Released, Counts, Accepting, otherThanConn, poolVars, shutVars,
            listenVars, acceptVars
<1> QED BY <1>4, <1>5, <1>6 DEF ConnInv

\* ... and the wait group and the metric together with its goroutine.
LEMMA DoneConn == ASSUME IInv, NEW c \in Conns, ConnectionDone(c) PROVE ConnInv' /\ Counts'
<1>1. /\ life[c] = "removed" /\ life' = [life EXCEPT ![c] = "done"]
      /\ metric' = metric - 1 /\ connWait' = connWait - 1
      /\ UNCHANGED <<connections, closed, writer, reader, reads, poolVars, otherThanConn>>
    BY DEF ConnectionDone
<1>2. Alive' = Alive \ {c} /\ c \in Alive /\ Registered' = Registered
    BY <1>1 DEF IInv, ConnInv, ConnType, Alive, Registered
<1>3. Cardinality(Alive') = Cardinality(Alive) - 1 /\ Cardinality(Alive) \in Nat
    <2>1. Alive \in SUBSET Conns
        BY DEF Alive
    <2> QED BY <1>2, <2>1, FiniteConns, FS_RemoveElement
<1>4. ConnType' /\ Goroutines' /\ FreshIds'
    BY <1>1 DEF IInv, ConnInv, ConnType, Goroutines, FreshIds, poolVars, otherThanConn, shutVars,
            acceptVars
<1>5. Manager' /\ Released'
    BY <1>1, <1>2 DEF IInv, ConnInv, Manager, Released, otherThanConn, poolVars, shutVars, listenVars,
            acceptVars
<1>6. Counts'
    BY <1>1, <1>3 DEF IInv, Counts, Accepting, otherThanConn, acceptVars
<1> QED BY <1>4, <1>5, <1>6 DEF ConnInv

\* What happens to a connection beside startConnection.
Traffic(c) == CloseConn(c) \/ WriterEnds(c) \/ ReaderEnds(c) \/ Request(c)

\* Stops, the ends of the goroutines, requests and their execution move nobody
\* to another stage.  A request needs a reader, so it comes before the pool is
\* stopped.
LEMMA TrafficConn ==
    ASSUME IInv, (\E c \in Conns : Traffic(c)) \/ (\E t \in outstanding : Handled(t))
    PROVE  ConnInv' /\ Counts'
<1>1. UNCHANGED <<connections, life, metric, connWait, otherThanConn, phase>>
    BY DEF Traffic, CloseConn, WriterEnds, ReaderEnds, Request, Handled, connVars, poolVars,
           Pool!Accept, Pool!Finish
<1>2. Alive' = Alive /\ Registered' = Registered
    BY <1>1, SameLife
<1>3. FreshIds' /\ Manager' /\ Counts'
    BY <1>1, <1>2 DEF IInv, ConnInv, FreshIds, Manager, Counts, Accepting, otherThanConn, acceptVars,
            shutVars
<1>4. ASSUME NEW c \in Conns, CloseConn(c) \/ WriterEnds(c) \/ ReaderEnds(c)
      PROVE  ConnType' /\ Goroutines' /\ UNCHANGED outstanding
    BY <1>4 DEF CloseConn, WriterEnds, ReaderEnds, IInv, ConnInv, ConnType, Goroutines, poolVars,
            otherThanConn, shutVars
<1>5. ASSUME NEW c \in Conns, Request(c)
      PROVE  ConnType' /\ Goroutines' /\ sd # "done"
    <2>1. <<c, reads[c] + 1>> \in Task
        BY <1>5, ServerAssumption DEF Request, IInv, ConnInv, ConnType, Task
    <2>2. ConnType' /\ Goroutines'
        BY <1>5, <2>1, ServerAssumption DEF Request, Pool!Accept, IInv, ConnInv, ConnType, Goroutines,
                otherThanConn, shutVars
    <2>3. c \in Alive
        BY <1>5 DEF Request, IInv, ConnInv, Goroutines, Alive
    <2> QED BY <2>2, <2>3 DEF IInv, ConnInv, Released
<1>6. ASSUME NEW t \in outstanding, Handled(t)
      PROVE  ConnType' /\ Goroutines' /\ outstanding' \subseteq outstanding
    BY <1>6 DEF Handled, Pool!Finish, IInv, ConnInv, ConnType, Goroutines, connVars, otherThanConn,
            shutVars
<1>7. ConnType' /\ Goroutines' /\ (sd # "done" \/ outstanding' \subseteq outstanding)
    BY <1>4, <1>5, <1>6 DEF Traffic
<1>8. Released'
    BY <1>1, <1>2, <1>7 DEF IInv, ConnInv, Released, otherThanConn, listenVars, acceptVars, shutVars
<1> QED BY <1>3, <1>7, <1>8 DEF ConnInv

-----------------------------------------------------------------------------
\* Every step keeps the invariant.
LEMMA Inductive == IInv /\ [Next]_vars => IInv'
<1> SUFFICES ASSUME IInv, [Next]_vars PROVE IInv'
    OBVIOUS
<1>1. ASSUME NEW p \in Starters, StartEnter(p) \/ StartStep(p) PROVE IInv'
    BY <1>1, StartControl, StartConn DEF IInv
<1>2. ASSUME Accept \/ AcceptStep PROVE IInv'
    BY <1>2, AcceptControl, AcceptConn DEF IInv, ConnInv
<1>3. ASSUME NEW c \in Conns, ConnStep(c) PROVE IInv'
    <2>1. UNCHANGED otherThanConn
        BY <1>3 DEF ConnStep, startWriter, StartHook, startReader, Joined, StopHook, Remove,
                ConnectionDone, otherThanLife
    <2>2. Control'
        BY <2>1, OtherControl DEF IInv
    <2>3. ConnInv' /\ Counts'
        BY <1>3, StageConn, RemoveConn, DoneConn DEF ConnStep, Stage
    <2> QED BY <2>2, <2>3 DEF IInv
<1>4. ASSUME (\E c \in Conns : Traffic(c)) \/ (\E t \in outstanding : Handled(t)) PROVE IInv'
    <2>1. UNCHANGED otherThanConn
        BY <1>4 DEF Traffic, CloseConn, WriterEnds, ReaderEnds, Request, Handled
    <2>2. Control'
        BY <2>1, OtherControl DEF IInv
    <2> QED BY <1>4, <2>2, TrafficConn DEF IInv
<1>5. ASSUME NEW k \in Callers, ShutdownCall(k) PROVE IInv'
    BY <1>5, CallControl, CallConn DEF IInv
<1>6. ASSUME ShutdownStep PROVE IInv'
    BY <1>6, ShutdownControl, ShutdownConn DEF IInv
<1>7. CASE UNCHANGED vars
    <2>1. /\ UNCHANGED <<otherThanConn, connVars, connWait, poolVars>>
        BY <1>7 DEF vars, otherThanConn
    <2>2. Alive' = Alive /\ Registered' = Registered
        BY <2>1, SameLife DEF connVars
    <2>3. ConnInv' /\ Counts'
        BY <2>1, <2>2 DEF IInv, ConnInv, ConnType, FreshIds, Goroutines, Manager, Released, Counts,
                Accepting, connVars, otherThanConn, poolVars, listenVars, acceptVars, shutVars
    <2> QED BY <2>1, <2>3, OtherControl DEF IInv
<1> QED BY <1>1, <1>2, <1>3, <1>4, <1>5, <1>6, <1>7 DEF Next, Traffic, ShutdownCall, Finished

\* The invariant holds throughout.
THEOREM ServerInvariant == Spec => []IInv
<1>1. Init => IInv
    <2> SUFFICES ASSUME Init PROVE IInv
        OBVIOUS
    <2>1. Alive = {} /\ Registered = {} /\ Cardinality({}) = 0
        BY FS_EmptySet DEF Init, Alive, Registered
    <2>2. Control
        <3>1. TypeBase
            <4>1. cid \in 0..MaxAccepts
                BY ServerAssumption DEF Init
            <4>2. /\ spc \in [Starters -> InOnce \cup {"idle", "result", "nil", "error"}]
                  /\ kpc \in [Callers -> {"idle", "signalled", "select", "waiting", "timeout", "nil"}]
                BY DEF Init
            <4>3. startErr \in BOOLEAN /\ stopped \in BOOLEAN /\ listener \in BOOLEAN /\ listening \in BOOLEAN
                BY DEF Init
            <4> QED BY <4>1, <4>2, <4>3 DEF Init, TypeBase
        <3>2. StartExact /\ LockExact
            BY DEF Init, StartExact, LockExact, InOnce, InLock
        <3>3. StopOrder /\ NothingAdds
            BY DEF Init, StopOrder, NothingAdds, Taken
        <3> QED BY <3>1, <3>2, <3>3 DEF Control
    <2>3. ConnType /\ FreshIds /\ Goroutines
        BY ServerAssumption DEF Init, Pool!Init, ConnType, FreshIds, Goroutines
    <2>4. Manager /\ Released /\ Counts
        BY <2>1, ServerAssumption DEF Init, Manager, Released, Counts, Accepting
    <2> QED BY <2>2, <2>3, <2>4 DEF IInv, ConnInv
<1> QED BY <1>1, Inductive, PTL DEF Spec

\* The server is well typed, and until ClearConn the connection manager knows
\* exactly the connections between registration and removal, never more than
\* MaxConn.
THEOREM ServerManagerExact == Spec => []ManagerExact
<1>1. IInv => ManagerExact
    <2> SUFFICES ASSUME IInv PROVE ManagerExact
        OBVIOUS
    <2>1. TypeOK
        BY CountsType DEF IInv, Control, TypeBase, ConnInv, ConnType, TypeOK, InOnce, Taken
    <2> QED BY <2>1 DEF IInv, ConnInv, Manager, ManagerExact
<1> QED BY <1>1, ServerInvariant, PTL

\* Once a Shutdown has returned nil nothing of the server is left, for ever.
THEOREM ServerQuiescent == Spec => []QuiescentAfterShutdown
<1>1. IInv => QuiescentAfterShutdown
    <2> SUFFICES ASSUME IInv, NEW k \in Callers, kpc[k] = "nil" PROVE Quiescent
        BY DEF QuiescentAfterShutdown
    <2>1. sd = "done"
        BY DEF IInv, Control, StopOrder
    <2>2. /\ ~listener /\ ~listening /\ acceptor \in {"off", "done"} /\ Alive = {}
          /\ connections = {} /\ outstanding = {}
        BY <2>1 DEF IInv, Control, NothingAdds, Taken, ConnInv, Manager, Released
    <2>3. metric = 0
        BY <2>2, FS_EmptySet DEF IInv, Counts
    <2>4. \A c \in Conns : life[c] \in {"none", "done"}
        BY <2>2 DEF Alive
    <2>5. \A c \in Conns : writer[c] # "running" /\ reader[c] # "running"
        BY <2>4 DEF IInv, ConnInv, Goroutines
    <2> QED BY <2>2, <2>3, <2>4, <2>5 DEF Quiescent
<1> QED BY <1>1, ServerInvariant, PTL

\* No step adds to the wait group once shutdown has taken the listener: there
\* is no Add that races its Wait.
THEOREM ServerNoAddDuringWait == Spec => NoAddDuringWait
<1>1. IInv /\ [Next]_vars => [connWait' > connWait => sd \notin {"close", "clear", "stop", "pool", "done"}]_vars
    <2> SUFFICES ASSUME IInv, [Next]_vars, connWait' > connWait PROVE sd \notin Taken
        BY DEF Taken
    <2>0. connWait \in Nat
        BY CountsType DEF IInv
    <2>1. ASSUME NEW p \in Starters, StartEnter(p) \/ StartStep(p) PROVE sd \notin Taken
        <3>1. Launch(p)
            BY <2>0, <2>1 DEF StartEnter, StartStep, StartLock, StartCheck, Listen, StartResult
        <3> QED BY <3>1 DEF Launch, IInv, Control, NothingAdds
    <2>2. ASSUME Accept \/ AcceptStep PROVE sd \notin Taken
        <3>1. AcceptAdd
            BY <2>0, <2>2 DEF Accept, AcceptStep, AcceptFails, AcceptCheck, AcceptLock, AcceptRecheck,
                    AcceptDone
        <3> QED BY <3>1 DEF AcceptAdd, IInv, Control, NothingAdds
    <2>3. ASSUME NEW c \in Conns, ConnStep(c) \/ Traffic(c) PROVE FALSE
        BY <2>0, <2>3 DEF ConnStep, startWriter, StartHook, startReader, Joined, StopHook, Remove,
                ConnectionDone, otherThanLife, Traffic, CloseConn, WriterEnds, ReaderEnds, Request
    <2>4. ASSUME NEW t \in outstanding, Handled(t) PROVE FALSE
        BY <2>0, <2>4 DEF Handled
    <2>5. ASSUME NEW k \in Callers, ShutdownCall(k) PROVE FALSE
        BY <2>0, <2>5 DEF ShutdownCall, ShutdownEnter, ShutdownSpawn, ShutdownSelect, ShutdownReturns,
                ShutdownTimeout, otherThanShut
    <2>6. ASSUME ShutdownStep PROVE FALSE
        BY <2>0, <2>6 DEF ShutdownStep, TakeListener, CloseListener, ClearConn, StopOne, WaitConns,
                StopWorkerPool, otherThanShut
    <2>7. CASE UNCHANGED vars
        BY <2>0, <2>7 DEF vars
    <2> QED BY <2>1, <2>2, <2>3, <2>4, <2>5, <2>6, <2>7 DEF Next, Traffic, ShutdownCall, Finished
<1> QED BY <1>1, ServerInvariant, PTL DEF Spec, NoAddDuringWait

\* A request is accepted only after the start hook of its connection returned
\* and before its stop hook begins.
THEOREM ServerRequestsBetweenHooks == Spec => RequestsBetweenHooks
<1>1. IInv /\ [Next]_vars =>
        [\A t \in Task : t \in outstanding' /\ t \notin outstanding => life[t[1]] = "wait"]_vars
    <2> SUFFICES ASSUME IInv, [Next]_vars, NEW t \in Task, t \in outstanding', t \notin outstanding
                 PROVE  life[t[1]] = "wait"
        OBVIOUS
    <2>1. ASSUME NEW c \in Conns, Request(c) PROVE life[t[1]] = "wait"
        BY <2>1 DEF Request, Pool!Accept, IInv, ConnInv, Goroutines
    <2>2. ASSUME NEW p \in Starters, StartEnter(p) \/ StartStep(p) PROVE FALSE
        BY <2>2 DEF StartEnter, StartStep, StartLock, StartCheck, Listen, Launch, StartResult,
                otherThanStart, poolVars
    <2>3. ASSUME Accept \/ AcceptStep PROVE FALSE
        BY <2>3 DEF Accept, AcceptStep, AcceptFails, AcceptCheck, AcceptLock, AcceptRecheck, AcceptAdd,
                otherThanAccept, poolVars
    <2>4. ASSUME NEW c \in Conns, ConnStep(c) \/ CloseConn(c) \/ WriterEnds(c) \/ ReaderEnds(c) PROVE FALSE
        BY <2>4 DEF ConnStep, startWriter, StartHook, startReader, Joined, StopHook, Remove,
                ConnectionDone, otherThanLife, CloseConn, WriterEnds, ReaderEnds, poolVars
    <2>5. ASSUME NEW u \in outstanding, Handled(u) PROVE FALSE
        BY <2>5 DEF Handled, Pool!Finish
    <2>6. ASSUME NEW k \in Callers, ShutdownCall(k) PROVE FALSE
        BY <2>6 DEF ShutdownCall, ShutdownEnter, ShutdownSpawn, ShutdownSelect, ShutdownReturns,
                ShutdownTimeout, poolVars
    <2>7. ASSUME ShutdownStep PROVE FALSE
        BY <2>7 DEF ShutdownStep, TakeListener, CloseListener, ClearConn, StopOne, WaitConns,
                StopWorkerPool, Pool!Close, Pool!Drained, poolVars
    <2>8. CASE UNCHANGED vars
        BY <2>8 DEF vars, poolVars
    <2> QED BY <2>1, <2>2, <2>3, <2>4, <2>5, <2>6, <2>7, <2>8 DEF Next, ShutdownCall, Finished
<1> QED BY <1>1, ServerInvariant, PTL DEF Spec, RequestsBetweenHooks

=============================================================================
