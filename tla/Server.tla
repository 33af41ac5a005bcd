------------------------------- MODULE Server -------------------------------
(***************************************************************************)
(* The TCP server of gnet/server.go with its connection manager            *)
(* (gnet/connmanager.go): starting, accepting, the life of each connection *)
(* with its hooks, and graceful shutdown.                                  *)
(*                                                                         *)
(* The server composes two components that have modules of their own.  The *)
(* worker pool is used through its abstract specification TaskPool, which  *)
(* MsgHandle implements.  A connection is reduced to what Connection       *)
(* shows of it: a reader and a writer goroutine that end once the          *)
(* connection is closed, and that close it when they end for another       *)
(* reason.                                                                 *)
(***************************************************************************)
EXTENDS Integers, FiniteSets

CONSTANTS
    Starters,       \* callers of StartWithError
    Callers,        \* callers of Shutdown
    MaxConn,        \* Config.MaxConn; 0 = unlimited
    MaxAccepts,     \* bound: connections that arrive
    MaxMsgs         \* bound: requests per connection

ASSUME ServerAssumption ==
    MaxConn \in Nat /\ MaxAccepts \in Nat /\ MaxMsgs \in Nat

VARIABLES
    startOnce, startErr, spc,   \* StartWithError: its Once, result, callers
    stopped,        \* stopped, and stopChan closed with it
    lock,           \* who holds listenerLock
    listener,       \* the listener field is set
    listening,      \* the listening socket is open
    acceptor, cid,  \* the accept goroutine and its next connection id
    connections,    \* ConnManager.connections
    life,           \* where startConnection is, per connection
    closed,         \* Connection.Stop was called
    writer, reader, \* goroutines of each connection
    reads,          \* requests read from each connection
    metric,         \* Metrics.connections
    connWait,       \* counter of connWait
    shutdownOnce, kpc,  \* Shutdown: its Once and its callers
    sd, toStop,     \* the shutdown goroutine and the snapshot of ClearConn
    phase, outstanding, finished    \* the worker pool (TaskPool)

startVars == <<startOnce, startErr, spc>>
listenVars == <<listener, listening>>
acceptVars == <<acceptor, cid>>
connVars == <<connections, life, closed, writer, reader, reads, metric>>
shutVars == <<shutdownOnce, kpc, sd, toStop>>
poolVars == <<phase, outstanding, finished>>
vars == <<startVars, stopped, lock, listenVars, acceptVars, connVars, connWait,
          shutVars, poolVars>>

-----------------------------------------------------------------------------
Conns == 0..(MaxAccepts - 1)
Task == Conns \X (1..MaxMsgs)

Pool == INSTANCE TaskPool

Init ==
    /\ startOnce = "new" /\ startErr = FALSE
    /\ spc = [p \in Starters |-> "idle"]
    /\ stopped = FALSE
    /\ lock = "none"
    /\ listener = FALSE /\ listening = FALSE
    /\ acceptor = "off" /\ cid = 0
    /\ connections = {}
    /\ life = [c \in Conns |-> "none"]
    /\ closed = [c \in Conns |-> FALSE]
    /\ writer = [c \in Conns |-> "off"]
    /\ reader = [c \in Conns |-> "off"]
    /\ reads = [c \in Conns |-> 0]
    /\ metric = 0
    /\ connWait = 0
    /\ shutdownOnce = "new"
    /\ kpc = [k \in Callers |-> "idle"]
    /\ sd = "off" /\ toStop = {}
    /\ Pool!Init

-----------------------------------------------------------------------------
(***************************************************************************)
(* StartWithError.                                                         *)
(***************************************************************************)
otherThanStart == <<acceptVars, connVars, shutVars, poolVars>>

StartEnter(p) ==
    /\ spc[p] = "idle"
    /\ \/ /\ startOnce = "new"
          /\ startOnce' = "running"
          /\ spc' = [spc EXCEPT ![p] = "lock"]
       \/ /\ startOnce = "done"
          /\ spc' = [spc EXCEPT ![p] = "result"]
          /\ UNCHANGED startOnce
    /\ UNCHANGED <<startErr, stopped, lock, listenVars, connWait, otherThanStart>>

StartLock(p) ==
    /\ spc[p] = "lock"
    /\ lock = "none"
    /\ lock' = "start"
    /\ spc' = [spc EXCEPT ![p] = "check"]
    /\ UNCHANGED <<startOnce, startErr, stopped, listenVars, connWait, otherThanStart>>

\* The deferred Unlock and the end of the Once.
StartDone(p) ==
    /\ lock' = "none"
    /\ startOnce' = "done"
    /\ spc' = [spc EXCEPT ![p] = "result"]

\* A server that was stopped first never opens its port.
StartCheck(p) ==
    /\ spc[p] = "check"
    /\ \/ stopped /\ startErr' = TRUE /\ StartDone(p)
       \/ /\ ~stopped
          /\ spc' = [spc EXCEPT ![p] = "listen"]
          /\ UNCHANGED <<lock, startOnce, startErr>>
    /\ UNCHANGED <<stopped, listenVars, connWait, otherThanStart>>

Listen(p) ==
    /\ spc[p] = "listen"
    /\ \/ /\ listener' = TRUE /\ listening' = TRUE
          /\ spc' = [spc EXCEPT ![p] = "launch"]
          /\ UNCHANGED <<lock, startOnce, startErr, stopped>>
       \/ /\ startErr' = TRUE
          /\ stopped' = TRUE            \* signalStop
          /\ StartDone(p)
          /\ UNCHANGED listenVars
    /\ UNCHANGED <<connWait, otherThanStart>>

\* StartWorkerPool, connWait.Add(1) and the accept goroutine.
Launch(p) ==
    /\ spc[p] = "launch"
    /\ connWait' = connWait + 1
    /\ acceptor' = "accept"
    /\ StartDone(p)
    /\ UNCHANGED <<startErr, stopped, listenVars, cid, connVars, shutVars, poolVars>>

StartResult(p) ==
    /\ spc[p] = "result"
    /\ spc' = [spc EXCEPT ![p] = IF startErr \/ stopped THEN "error" ELSE "nil"]
    /\ UNCHANGED <<startOnce, startErr, stopped, lock, listenVars, connWait, otherThanStart>>

-----------------------------------------------------------------------------
(***************************************************************************)
(* startAccept.                                                            *)
(***************************************************************************)
otherThanAccept == <<startVars, stopped, listenVars, shutVars, poolVars>>

\* AcceptTCP returns a connection.
Accept ==
    /\ acceptor = "accept"
    /\ listening
    /\ cid < MaxAccepts
    /\ acceptor' = "accepted"
    /\ UNCHANGED <<cid, lock, connVars, connWait, otherThanAccept>>

AcceptDone ==
    /\ acceptor' = "done"
    /\ connWait' = connWait - 1

\* AcceptTCP fails: any error ends the loop of a server that was stopped, be
\* the listener closed or not, and is ignored before that.
AcceptFails ==
    /\ acceptor = "accept"
    /\ stopped
    /\ AcceptDone
    /\ UNCHANGED <<cid, lock, connVars, otherThanAccept>>

\* The first check of stopped; the new connection gets the next id.
AcceptCheck ==
    /\ acceptor = "accepted"
    /\ \/ stopped /\ AcceptDone /\ UNCHANGED cid
       \/ /\ ~stopped
          /\ cid' = cid + 1
          /\ acceptor' = "lock"
          /\ UNCHANGED connWait
    /\ UNCHANGED <<lock, connVars, otherThanAccept>>

AcceptLock ==
    /\ acceptor = "lock"
    /\ lock = "none"
    /\ lock' = "accept"
    /\ acceptor' = "recheck"
    /\ UNCHANGED <<cid, connVars, connWait, otherThanAccept>>

\* Mutant: stopped is not checked again under the lock.
AcceptUnchecked ==
    /\ acceptor = "recheck"
    /\ acceptor' = "add"
    /\ UNCHANGED <<cid, lock, connVars, connWait, otherThanAccept>>
AcceptRecheck ==
    /\ acceptor = "recheck"
    /\ \/ stopped /\ lock' = "none" /\ AcceptDone
       \/ ~stopped /\ acceptor' = "add" /\ UNCHANGED <<lock, connWait>>
    /\ UNCHANGED <<cid, connVars, otherThanAccept>>

\* The connection whose id was assigned last.
newConn == cid - 1

\* ConnManager.Add refuses a known id and a connection above MaxConn.
CanAdd(c) == c \notin connections /\ (MaxConn > 0 => Cardinality(connections) < MaxConn)

\* Register the connection and spawn startConnection, or drop it.
AcceptAdd ==
    /\ acceptor = "add"
    /\ lock' = "none"
    /\ acceptor' = "accept"
    /\ \/ /\ CanAdd(newConn)
          /\ connections' = connections \cup {newConn}
          /\ metric' = metric + 1
          /\ connWait' = connWait + 1
          /\ life' = [life EXCEPT ![newConn] = "added"]
          /\ UNCHANGED <<closed, writer, reader, reads>>
       \/ ~CanAdd(newConn) /\ UNCHANGED <<connVars, connWait>>
    /\ UNCHANGED <<cid, otherThanAccept>>

-----------------------------------------------------------------------------
(***************************************************************************)
(* startConnection, and the two goroutines of a connection.                *)
(***************************************************************************)
otherThanConn == <<startVars, stopped, lock, listenVars, acceptVars, shutVars>>
otherThanLife == <<connections, closed, writer, reader, reads, metric, connWait,
                   poolVars, otherThanConn>>

\* Mutant: the reader is started with the writer, before the start hook.
startIO(c) ==
    /\ life[c] = "added"
    /\ life' = [life EXCEPT ![c] = "writer"]
    /\ writer' = [writer EXCEPT ![c] = "running"]
    /\ reader' = [reader EXCEPT ![c] = "running"]
    /\ UNCHANGED <<connections, closed, reads, metric, connWait, poolVars, otherThanConn>>
startWriter(c) ==
    /\ life[c] = "added"
    /\ life' = [life EXCEPT ![c] = "writer"]
    /\ writer' = [writer EXCEPT ![c] = "running"]
    /\ UNCHANGED <<connections, closed, reader, reads, metric, connWait, poolVars, otherThanConn>>

\* onConnStart returns.
StartHook(c) ==
    /\ life[c] = "writer"
    /\ life' = [life EXCEPT ![c] = "hooked"]
    /\ UNCHANGED otherThanLife

startReader(c) ==
    /\ life[c] = "hooked"
    /\ life' = [life EXCEPT ![c] = "wait"]
    /\ reader' = [reader EXCEPT ![c] = "running"]
    /\ UNCHANGED <<connections, closed, writer, reads, metric, connWait, poolVars, otherThanConn>>

\* Connection.wait returns.
\* Mutant: it waits for the server's stop signal.
JoinedOnStop(c) ==
    /\ life[c] = "wait"
    /\ stopped /\ writer[c] = "done" /\ reader[c] = "done"
    /\ life' = [life EXCEPT ![c] = "joined"]
    /\ UNCHANGED otherThanLife
Joined(c) ==
    /\ life[c] = "wait"
    /\ closed[c] /\ writer[c] = "done" /\ reader[c] = "done"
    /\ life' = [life EXCEPT ![c] = "joined"]
    /\ UNCHANGED otherThanLife

\* onConnStop returns.
StopHook(c) ==
    /\ life[c] = "joined"
    /\ life' = [life EXCEPT ![c] = "unhooked"]
    /\ UNCHANGED otherThanLife

\* Mutant: the manager keeps the connection.
RemoveNothing(c) ==
    /\ life[c] = "unhooked"
    /\ life' = [life EXCEPT ![c] = "removed"]
    /\ UNCHANGED otherThanLife
Remove(c) ==
    /\ life[c] = "unhooked"
    /\ life' = [life EXCEPT ![c] = "removed"]
    /\ connections' = connections \ {c}
    /\ UNCHANGED <<closed, writer, reader, reads, metric, connWait, poolVars, otherThanConn>>

\* metrics.AddConnections(-1) and the deferred connWait.Done.
ConnectionDone(c) ==
    /\ life[c] = "removed"
    /\ life' = [life EXCEPT ![c] = "done"]
    /\ metric' = metric - 1
    /\ connWait' = connWait - 1
    /\ UNCHANGED <<connections, closed, writer, reader, reads, poolVars, otherThanConn>>

\* Connection.Stop by a router, a hook or the application.
CloseConn(c) ==
    /\ life[c] # "none" /\ ~closed[c]
    /\ closed' = [closed EXCEPT ![c] = TRUE]
    /\ UNCHANGED <<connections, life, writer, reader, reads, metric, connWait,
                   poolVars, otherThanConn>>

\* A goroutine ends; its deferred Stop closes the connection.
WriterEnds(c) ==
    /\ writer[c] = "running"
    /\ writer' = [writer EXCEPT ![c] = "done"]
    /\ closed' = [closed EXCEPT ![c] = TRUE]
    /\ UNCHANGED <<connections, life, reader, reads, metric, connWait, poolVars, otherThanConn>>

ReaderEnds(c) ==
    /\ reader[c] = "running"
    /\ reader' = [reader EXCEPT ![c] = "done"]
    /\ closed' = [closed EXCEPT ![c] = TRUE]
    /\ UNCHANGED <<connections, life, writer, reads, metric, connWait, poolVars, otherThanConn>>

\* The reader hands a request to the pool.  (A refusal ends the reader.)
Request(c) ==
    /\ reader[c] = "running"
    /\ reads[c] < MaxMsgs
    /\ reads' = [reads EXCEPT ![c] = @ + 1]
    /\ Pool!Accept(<<c, reads[c] + 1>>)
    /\ UNCHANGED <<connections, life, closed, writer, reader, metric, connWait, otherThanConn>>

\* A router returns.
Handled(t) ==
    /\ Pool!Finish(t)
    /\ UNCHANGED <<connVars, connWait, otherThanConn>>

-----------------------------------------------------------------------------
(***************************************************************************)
(* Shutdown: its callers, and the goroutine that cleans up.                *)
(***************************************************************************)
otherThanShut == <<startVars, acceptVars, connWait>>

\* The Once body: signalStop and beginStop, then spawn shutdown.
ShutdownEnter(k) ==
    /\ kpc[k] \in {"idle", "timeout"}
    /\ \/ /\ shutdownOnce = "new"
          /\ stopped' = TRUE
          /\ shutdownOnce' = "running"
          /\ kpc' = [kpc EXCEPT ![k] = "signalled"]
       \/ /\ shutdownOnce = "done"
          /\ kpc' = [kpc EXCEPT ![k] = "select"]
          /\ UNCHANGED <<stopped, shutdownOnce>>
    /\ UNCHANGED <<sd, toStop, lock, listenVars, connVars, poolVars, otherThanShut>>

ShutdownSpawn(k) ==
    /\ kpc[k] = "signalled"
    /\ sd' = "lock"
    /\ shutdownOnce' = "done"
    /\ kpc' = [kpc EXCEPT ![k] = "select"]
    /\ UNCHANGED <<toStop, stopped, lock, listenVars, connVars, poolVars, otherThanShut>>

\* The first select: a call that finds the shutdown done returns nil even if
\* its context has ended.
ShutdownSelect(k) ==
    /\ kpc[k] = "select"
    /\ kpc' = [kpc EXCEPT ![k] = IF sd = "done" THEN "nil" ELSE "waiting"]
    /\ UNCHANGED <<shutdownOnce, sd, toStop, stopped, lock, listenVars, connVars,
                   poolVars, otherThanShut>>

\* The second select waits for the shutdown ...
ShutdownReturns(k) ==
    /\ kpc[k] = "waiting"
    /\ sd = "done"
    /\ kpc' = [kpc EXCEPT ![k] = "nil"]
    /\ UNCHANGED <<shutdownOnce, sd, toStop, stopped, lock, listenVars, connVars,
                   poolVars, otherThanShut>>

\* ... and for the caller's context; when both have ended it takes either.
\* Cleaning up goes on, and the caller may call again.
ShutdownTimeout(k) ==
    /\ kpc[k] = "waiting"
    /\ kpc' = [kpc EXCEPT ![k] = "timeout"]
    /\ UNCHANGED <<shutdownOnce, sd, toStop, stopped, lock, listenVars, connVars,
                   poolVars, otherThanShut>>

\* Take the listener under the lock ...
TakeListener ==
    /\ sd = "lock"
    /\ lock = "none"
    /\ listener' = FALSE
    /\ sd' = "close"
    /\ UNCHANGED <<shutdownOnce, kpc, toStop, stopped, lock, listening, connVars,
                   poolVars, otherThanShut>>

\* ... and close it.
CloseListener ==
    /\ sd = "close"
    /\ listening' = FALSE
    /\ sd' = "clear"
    /\ UNCHANGED <<shutdownOnce, kpc, toStop, stopped, lock, listener, connVars,
                   poolVars, otherThanShut>>

\* ClearConn empties the map under its lock ...
ClearConn ==
    /\ sd = "clear"
    /\ toStop' = connections
    /\ connections' = {}
    /\ sd' = "stop"
    /\ UNCHANGED <<shutdownOnce, kpc, stopped, lock, listenVars, life, closed,
                   writer, reader, reads, metric, poolVars, otherThanShut>>

\* ... and stops the connections of the snapshot one by one outside it.
StopOne ==
    /\ sd = "stop"
    /\ \E c \in toStop :
          /\ toStop' = toStop \ {c}
          /\ closed' = [closed EXCEPT ![c] = TRUE]
    /\ UNCHANGED <<shutdownOnce, kpc, sd, stopped, lock, listenVars, connections,
                   life, writer, reader, reads, metric, poolVars, otherThanShut>>

\* connWait.Wait()
\* Mutant: the connections are stopped and not awaited.
WaitNothing ==
    /\ sd = "stop" /\ toStop = {}
    /\ sd' = "pool"
    /\ UNCHANGED <<shutdownOnce, kpc, toStop, stopped, lock, listenVars, connVars,
                   poolVars, otherThanShut>>
WaitConns ==
    /\ sd = "stop" /\ toStop = {}
    /\ connWait = 0
    /\ sd' = "pool"
    /\ UNCHANGED <<shutdownOnce, kpc, toStop, stopped, lock, listenVars, connVars,
                   poolVars, otherThanShut>>

\* StopWorkerPool closes the pool and returns when it is drained.
StopWorkerPool ==
    /\ sd = "pool"
    /\ \/ Pool!Close /\ UNCHANGED sd
       \/ Pool!Drained /\ sd' = "done"
    /\ UNCHANGED <<shutdownOnce, kpc, toStop, stopped, lock, listenVars, connVars,
                   otherThanShut>>

-----------------------------------------------------------------------------
\* Shutdown has finished, or the listener could not be opened and nothing
\* was ever started.
Finished ==
    /\ \A p \in Starters : spc[p] \in {"nil", "error"}
    /\ \A k \in Callers : kpc[k] = "nil"
    /\ UNCHANGED vars

StartStep(p) == StartLock(p) \/ StartCheck(p) \/ Listen(p) \/ Launch(p) \/ StartResult(p)
AcceptStep == AcceptFails \/ AcceptCheck \/ AcceptLock \/ AcceptRecheck \/ AcceptAdd
ConnStep(c) == startWriter(c) \/ StartHook(c) \/ startReader(c) \/ Joined(c)
                 \/ StopHook(c) \/ Remove(c) \/ ConnectionDone(c)
ShutdownStep == TakeListener \/ CloseListener \/ ClearConn \/ StopOne \/ WaitConns
                  \/ StopWorkerPool

Next ==
    \/ \E p \in Starters : StartEnter(p) \/ StartStep(p)
    \/ Accept \/ AcceptStep
    \/ \E c \in Conns : ConnStep(c) \/ CloseConn(c) \/ WriterEnds(c) \/ ReaderEnds(c)
                          \/ Request(c)
    \/ \E t \in outstanding : Handled(t)
    \/ \E k \in Callers : ShutdownEnter(k) \/ ShutdownSpawn(k) \/ ShutdownSelect(k)
                            \/ ShutdownReturns(k) \/ ShutdownTimeout(k)
    \/ ShutdownStep
    \/ Finished

Spec == Init /\ [][Next]_vars

\* Goroutines run, hooks and routers return, and the goroutines of a closed
\* connection end (Connection!StopEndsConnection).  No client has to connect,
\* send or disconnect, nobody has to call Shutdown, no context has to end, and
\* AcceptTCP is sure to fail only when the listener is closed.
Fairness ==
    /\ \A p \in Starters : WF_vars(StartStep(p))
    /\ WF_vars((acceptor = "accept" => ~listening) /\ AcceptStep)
    /\ \A c \in Conns : /\ WF_vars(ConnStep(c))
                        /\ WF_vars(closed[c] /\ WriterEnds(c))
                        /\ WF_vars(closed[c] /\ ReaderEnds(c))
    /\ \A t \in Task : WF_vars(Handled(t))
    /\ \A k \in Callers : WF_vars(ShutdownSpawn(k) \/ ShutdownSelect(k) \/ ShutdownReturns(k))
    /\ WF_vars(ShutdownStep)

FairSpec == Spec /\ Fairness

-----------------------------------------------------------------------------
(***************************************************************************)
(* Properties.                                                             *)
(***************************************************************************)
TypeOK ==
    /\ startOnce \in {"new", "running", "done"} /\ startErr \in BOOLEAN
    /\ spc \in [Starters -> {"idle", "lock", "check", "listen", "launch", "result",
                             "nil", "error"}]
    /\ stopped \in BOOLEAN /\ listener \in BOOLEAN /\ listening \in BOOLEAN
    /\ lock \in {"none", "start", "accept"}
    /\ acceptor \in {"off", "accept", "accepted", "lock", "recheck", "add", "done"}
    /\ cid \in 0..MaxAccepts
    /\ connections \subseteq Conns /\ toStop \subseteq Conns
    /\ life \in [Conns -> {"none", "added", "writer", "hooked", "wait", "joined",
                           "unhooked", "removed", "done"}]
    /\ closed \in [Conns -> BOOLEAN]
    /\ writer \in [Conns -> {"off", "running", "done"}]
    /\ reader \in [Conns -> {"off", "running", "done"}]
    /\ reads \in [Conns -> 0..MaxMsgs]
    /\ metric \in Nat /\ connWait \in Nat
    /\ shutdownOnce \in {"new", "running", "done"}
    /\ kpc \in [Callers -> {"idle", "signalled", "select", "waiting", "timeout", "nil"}]
    /\ sd \in {"off", "lock", "close", "clear", "stop", "pool", "done"}
    /\ phase \in {"open", "closed", "drained"}
    /\ outstanding \subseteq Task /\ finished \subseteq Task

\* Connections whose startConnection goroutine exists.
Alive == {c \in Conns : life[c] \notin {"none", "done"}}

\* Nobody adds to connWait once shutdown has taken the listener, hence never
\* while it waits: sync.WaitGroup forbids an Add that races a Wait.
NoAddDuringWait ==
    [][connWait' > connWait => sd \notin {"close", "clear", "stop", "pool", "done"}]_vars

\* Once Shutdown has returned nil, and for ever after: the port is closed, no
\* accept loop and no connection goroutine is left, every connection whose
\* start hook ran had its stop hook, every accepted request was executed, and
\* the connection metric is back at zero.
Quiescent ==
    /\ ~listener /\ ~listening
    /\ acceptor \in {"off", "done"}
    /\ \A c \in Conns : life[c] \in {"none", "done"} /\ writer[c] # "running" /\ reader[c] # "running"
    /\ connections = {} /\ metric = 0
    /\ outstanding = {}
QuiescentAfterShutdown == (\E k \in Callers : kpc[k] = "nil") => Quiescent

\* No request of a connection is accepted before its start hook returned, and
\* none after its stop hook began.
RequestsBetweenHooks ==
    [][\A t \in Task :
          t \in outstanding' /\ t \notin outstanding => life[t[1]] = "wait"]_vars

\* While the server is not shutting down, the manager knows exactly the
\* connections between registration and removal, and these never exceed
\* MaxConn, although ClearConn empties the map before they end.
Registered == {c \in Alive : life[c] # "removed"}
ManagerExact ==
    /\ TypeOK
    /\ sd \in {"off", "lock", "close", "clear"} => connections = Registered
    /\ MaxConn > 0 => Cardinality(Registered) <= MaxConn

\* A Shutdown that was begun finishes, whatever was starting or connecting, and
\* every call returns, the second ones that came while the clean-up ran in the
\* background included: with nil, or because the caller's context ended.
ShutdownFinishes ==
    \A k \in Callers : kpc[k] \in {"signalled", "select", "waiting"} ~>
                         sd = "done" /\ kpc[k] \in {"nil", "timeout"}

\* A closed connection leaves the server, and the metric, without a shutdown.
ClosedIsReleased == \A c \in Conns : closed[c] ~> life[c] = "done"

=============================================================================
