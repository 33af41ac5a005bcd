# TLA+ verification of Ginx

Ginx is a small TCP game-server framework in Go: a listener that accepts
connections, a reader and a writer goroutine per connection, a pool of workers that
run the application's routers, and helpers for sessions, rooms, storage and rate
limits, followed by example games. This directory models its concurrent core, its
session bookkeeping, its stores and bridge, and the example games that put them
together (the game service, the Unity server, the web game and its page), in TLA+;
it checks the models with TLC on small instances and proves their safety properties,
all of them and for every instance, with TLAPS.

## Inventory

| component | state | operations | hard behaviour | what makes it correct |
|---|---|---|---|---|
| worker pool, `gnet/msghandler.go` | `stopChan`, `workerPoolStarted`, `TaskQueue`, `workerPoolWait`, `taskQueueLock`, two `sync.Once` | `StartWorkerPool`, `StopWorkerPool`, `beginStop`, `SendMsgToTaskQueue`, `DoMsgHandler` | readers wait for a queue with the read lock held while a stop needs the write lock; start races stop; queues are closed with requests inside | accepted requests are executed once, in order per connection, before a stop returns; every call returns; no send on a closed channel |
| connection, `gnet/connection.go` | `isClosed`, `ctx`, socket, `ExitBuffChan`, `sendGate`, `msgChan`, `ioWait` | `SendMsg`, `SendMsgContext`, `SendBuffMsg`, `Stop`, `Start`, reader and writer loops | timeouts race free places; one exit value for two receivers; the peer neither reads nor closes | frames are never interleaved or repeated; a refused frame is not sent; `Stop` frees everybody |
| server, `gnet/server.go` | `listener`, `stopped`, `connWait`, three `sync.Once`, hooks | `StartWithError`, accept loop, `startConnection`, `Shutdown` | start, accept and shutdown race; shutdown may time out | nothing is left after a shutdown; requests run after the start hook |
| connection manager, `gnet/connmanager.go` | `connections` | `Add`, `Remove`, `Get`, `Len`, `ClearConn` | `ClearConn` empties the map while connections live | `MaxConn` is never exceeded; the map is exact until a shutdown |
| session manager, `session/*.go` | `byToken`, `byAccountID`, `byPlayerID`, `byConnID`, `nextPlayerID` | `Issue`, `Bind`, `Login`, `LogoutBy…`, `RemoveExpired` | four maps changed together; a clock read before the lock; connection id 0; two numbering schemes | the maps agree; no session vanishes unreported; no identity changes hands |
| rooms, `gcore/room.go` | `state`, `members`, `rooms` | `Join`, `Leave`, `Start`, `Close`, `Broadcast`, `CreateRoom`, `RemoveRoom` | `RemoveRoom` closes outside the manager's lock | a room holds exactly the players the program put there, and never too many |
| stores, `persist/*.go` | a map, or a file | `Load`, `Save`, `Delete` | crash during the replacement of the file | concurrent saves are all kept; a saved player survives |
| bridge, `wsbridge/bridge.go` | `closed`, `active`, `wg` | `ServeHTTP`, `Close` | close during dial, upgrade or forwarding | `Close` returns and leaves no tunnel; a tunnel ends as a whole; the limit holds for the sockets |
| codec, `gnet/datapack.go`, `gcore/protocol.go` | none | `Pack`, `Unpack`, `ReadMessage` | frames arrive in pieces | what was packed is read (not modelled) |
| limiter, `limit/token_bucket.go` | `tokens`, `lastRefill` | `Allow`, `AllowN` | rounding, clock | never more than burst plus rate × time (not modelled) |
| area of interest, `gcore/aoi.go` | `entities`, `cells` | `AddEntity`, `RemoveEntity`, `MoveEntity`, nearby lookup | two maps changed together, cells at the border, empty cells | the grid finds exactly the neighbours that the positions imply |
| game service, `examples/gameapp`, on `sqlitestore` | connections, sessions, rooms, saves | login, authenticate, join, leave, claim, use, sweep, close | a second login against the first connection's hooks; queued requests after the stop hook; retries of a reward | sessions, connections and rooms agree; the reward is given once; overdue connections are dropped |
| Unity example, `examples/unity/world.go`, `examples/unityserver/server.go` | `players`, `playerIDs`, grid, rooms, properties of connections | hooks, move, create, join and leave a room | requests run beside and after the stop hook; messages are sent after the lock was released; a change of rooms in four steps | maps, grid and rooms agree; a late request brings nobody back |
| web game, `examples/webgame/server/world.go` | `sessions`, `names`, `players`, `arenas`, `tick` | guest, hooks, authenticate, join, input, leave, step, close | the ticker against requests, expiry and hooks; several players at one crystal | rooms, grids and players agree; a crystal goes to one player; overdue connections are stopped |
| page of the web game, `examples/webgame/frontend/src/client.ts` | `generation`, `socket`, two timers, `state`, `switching` | connect, disconnect, join, input, socket and timer callbacks | answers of an abandoned attempt; refusals and snapshots during a change of rooms; silence | one connection at most; what is shown is the server's state; an attempt ends |
| configuration, logger, metrics, sample programs, `tools/protocolgen` | settings, counters | | | not modelled: no protocol of their own |

The server creates a connection for each accepted socket and runs it in
`startConnection`; the connection's reader hands requests to the worker pool and
closes the connection when the pool refuses one; the pool runs routers, which call
`SendMsg` on any connection; `Shutdown` closes the listener, stops the connections,
waits for them and stops the pool. The session manager is called by the application
from hooks, routers and HTTP handlers, under one lock.

`PROJECT.json` lists the hazards, each at the line where it bites and with the
properties that cover it.

## Modules

| module | models | composes |
|---|---|---|
| `TaskPool` | what the pool promises: requests are outstanding from acceptance to completion, none is accepted once closed, drained means none outstanding | |
| `MsgHandle` | `gnet/msghandler.go` | refines `TaskPool` |
| `MsgHandleProofs` | theorems about `MsgHandle`, the refinement of `TaskPool` included | |
| `Connection` | one connection of `gnet/connection.go` with its senders and peer | |
| `ConnectionProofs` | theorems about `Connection` | |
| `Server` | `gnet/server.go` and `gnet/connmanager.go` | `INSTANCE TaskPool` for the pool |
| `ServerProofs` | theorems about `Server` | |
| `SessionManager` | `session/session.go`, `session/legacy.go` | |
| `SessionManagerProofs` | theorems about `SessionManager` | |
| `GameService` | `examples/gameapp/service.go`, `progress.go`, `runtime.go`, with `Room.Join`/`Leave` and the SQLite `Update` | the sessions as `SessionManagerProofs` shows them to be: one consistent map |
| `GameServiceProofs` | theorems about `GameService` and `JSONFileStore` | |
| `JSONFileStore` | `persist/json_file.go` | |
| `Bridge` | `wsbridge/bridge.go` | |
| `AOI` | `gcore/aoi.go`: the grid as a value, its methods as operators, and what a grid must be | |
| `Room` | `Join`, `Leave` and the capacity of `gcore/room.go`, likewise | |
| `AOIProofs` | lemmas about the grid of `AOI`, and about induction and folds over finite sets | |
| `UnityServer` | `examples/unityserver/server.go`, `examples/unity/world.go` | `AOI`, `Room` |
| `UnityServerProofs` | theorems about `UnityServer` | `AOIProofs` |
| `Arena` | `examples/webgame/server/world.go` | `AOI`, `Room` |
| `WebClient` | `examples/webgame/frontend/src/client.ts` | the server's side of a connection, as `Arena` answers |
| `WebGameProofs` | theorems about `Arena`, `Bridge` and `WebClient`: the world of the web game, the tunnels to it and the page at their end | `AOIProofs` |
| `GoMap` | Go maps as functions, for the modules above | |
| `MC…` | the instances that TLC checks | |

In each module a variable carries the name of the field it stands for, and an action
the name of the function, or of the step of the function, it models. Where one module
of proofs is about several components, the names that would meet in it have a prefix
(`StoreSpec`, `BridgeSpec`, `PageSpec`, `CloseBridge`, `bridgeClosed`). A step of an
action is what happens between two points at which another goroutine can interfere:
taking a lock, a channel operation, an atomic access. Code between a `Lock` and its
`Unlock` that waits for nobody is one step.

**MsgHandle.** A request is `<<connection, position>>`. `taskQueueLock` is Go's
`RWMutex`: an announced writer (`wlock`) keeps new readers out, and enters when
`rlock` is empty. `SendMsgToTaskQueue` is `RLock`, `CheckStop`, then `Direct` or
`ChooseQueue` and `Enqueue` or one of the refusals; the queue timer may fire at any
time. `accepted` and `finished` are history variables. Routers return or panic and
are recovered, which is the same to the pool. A panic inside the application's own
panic handler would end the process and is left out.

**Connection.** `Stop` is one variable, `stop`, that counts the statements of the
`Once` that have been executed, so that every prefix of it is seen by the others.
Frames are numbered; the peer's stream is the sequence of whole or torn frames
written. `SendMsg` and `SendMsgContext` wait and may time out, `SendBuffMsg` does
not wait. A read may fail at any time (peer, heartbeat deadline, rate limit, refusal
by the pool), which ends the reader.

**Server.** One action per step of `StartWithError`, of the accept loop, of each
`startConnection` goroutine, of a call of `Shutdown` with its two `select`s (the
second may report the end of the context although the shutdown is done) and of
`shutdown`. An error of `AcceptTCP` ends the loop of a stopped server whether its
listener is closed or not; before that it is ignored, which is no step. A connection is reduced to what the
server sees: closed or not, reader and writer running or not. The pool is the
abstract `TaskPool`, whose contract `MsgHandle` is proved to keep. Whatever ends a
connection (peer, application) is `CloseConn`.

**SessionManager.** Sessions are records in `byToken`; the other three maps point to
tokens. `Issue` takes the clock reading and the token before the lock, so the
reading it uses may be any earlier time. `RemoveExpired` is given its time by the
caller, and `Times` are the ones that callers pass: an old reading of the clock, or a
time still to come, with which `test/framework_boundary_test.go` ends a session that
has not expired. Tokens are never repeated, as 24 random
bytes are in practice. `Legacy` selects the deprecated constructor, `Policy` the
account policy; `built` says with which constructor and policy the manager was made.
`issued` and `reported` are history variables: the tokens ever entered, and those
handed back to the application as replaced, logged out or expired.

**GameService.** One mutex covers every operation, so each is one action; what makes
it hard is the order in which handlers, workers, hooks and the ticker come to it.
The hooks of a connection run once each; its requests may run from the start hook
on, and those that were queued also after the stop hook. `stopped` holds the
connections on which the service called `Stop`, after which the stop hook follows
sooner or later. Serve's loop, its draining and the deferred `Close` are `phase`. A
save is the record that `decodeProgress` yields; empty data stand for the initial
one. A transaction happens as a whole or not at all, whatever the caller is told.
`Restart` ends the process at any moment: the effects on the store are the last of
each operation that matter, so a crash inside an operation leaves what a crash
before or after it leaves. That a player id in the store belongs to another account
(edited configuration) is left out.

**JSONFileStore.** `file` is the contents of the path, if there is one. A failing
system call and the end of the process are separate actions, possible before every
step. `saved` applies to a map what each successful call was asked to do, so that it
can be compared with what the calls wrote back.

**Bridge.** `pc` is the statement of `ServeHTTP` a handler is at, its deferred calls
included, in their order. Closing a socket makes reads and writes on it fail.

**UnityServer.** `hook[c]` and `job[c]` are the two goroutines of a connection: its
own, which runs the hooks, and the worker with its requests. A step is what happens
under one lock (the world's, a room's, the connection's properties) or the sending
of one message. `view[c]` is what the client of `c` will show when it has processed
what was queued for it. `late` remembers the connections whose requests met their
stop hook. For those the hook does not promise to leave no room behind: `JoinRoom`
beside the hook, or after it when the connection was in no room, leaves the
connection in a room for good, and no document promises the opposite. What
`MembershipExact` still says of them is that it is one room at most, the one that
their property names; that rests on `Rollback`, since a change of rooms whose old room
the hook has left meanwhile must give up the new one. Chat, room events and the movement message itself neither add nor remove a
player and are left out, and so are answers to requests. Coordinates are whole
numbers; one position stands for those that are not finite.

**Arena.** Every operation holds the lock of the world throughout and is one action.
`Connection.Stop` only begins to end a connection (`stopped`); its stop hook is
`Disconnected`, and until then requests are executed. Guests, sessions and names are
those of one number, because every guest is a new account. `step` is written per
player and crystal instead of as a loop: `turn` is the place of a player in the
rotated order, and he collects what nobody before him in the same arena reached.
Time is counted in units of many ticks, so that `Step` may happen often, or not at
all, within one. The step uses the clock of the ticker, which is that of its action
here. Answers, events and snapshots change no state; that one of them cannot be
queued, which stops the connection, is part of `Lost`.

**WebClient.** The page runs one callback at a time, so each is one action on the
record `page`. An attempt is named by the generation in which it was begun, which is
what its callbacks compare. `armed` and `ticking` are the timers that are set, as
opposed to the variables `openingTimer` and `timer` that hold the last one. `out[a]`
is the outbound buffer of a socket, whose length send looks at, and the way to the
server at once. The server answers a request, refuses it as `unauthorized` at any
time (sessions expire), may be full, sends snapshots of its room, may stop the
connection, or does nothing. Events of a socket that is closing are still delivered,
more often than a browser would. Inputs carry no number here: the server of a new
connection has none to compare.

## Runs

| run | instance | shows |
|---|---|---|
| `pool` | 2 connections that share one of 2 workers, queues of 1, 2 requests each, 2 starters, 2 stoppers | no send on a closed queue, order of the queued requests per connection, drained when a stop returns, no `Add` that races `Wait`; every stop and every call returns; refinement of `TaskPool` with its fairness |
| `connection` | 1 waiting and 1 non-waiting sender, 3 sends, queue of 1, a foreign `Stop`, a peer that need not read or close | gate, stream (refused frames included), join; `Stop` ends the connection and frees the senders |
| `server` | 2 starters, 1 shutdown caller who retries, 2 clients, `MaxConn` 1 | quiescence after shutdown, exact map and limit, no `Add` that races `Wait`, requests only between the hooks; a shutdown finishes and every call of it returns; a closed connection is released |
| `sessions` | either constructor, either policy, 2 accounts, 2 connections, 4 tokens, 4 times, sweeps for any time until the last session has expired | the maps agree, bindings are kept, automatic numbers are fresh, no session vanishes unreported, under `RejectExisting` an active session ends by its logout or by a sweep for a time to come, never by `Issue` |
| `service` | 2 accounts, 3 logins, 2 connections, 2 rooms of 1 place, 3 times | rooms, sessions and connections agree; everything is tracked until it is stopped; the reward is given once and every save is readable; overdue connections are dropped |
| `bridge` | 3 requests, 1 place, 1 closer | nothing is left after `Close`; limit of open sockets; `Close` returns; a tunnel that lost a direction ends |
| `store` | 2 players, 2 callers | the file is what the calls made it, unless one ended between removal and rename |
| `unity` | 2 connections, first room of 1 place, 2 room ids, 3 positions (one refused), 3 requests, buffers that may be full | world and grid agree with each other and with the reference; rooms agree with the connections' properties, requests beside and after the stop hook included |
| `arena` | 2 connections, 2 guests, a world of three cells in a row, an arena of 2 places and one of 1, 1 crystal, 2 times | rooms, grids, names and sessions agree; crystals are collected once; overdue connections are stopped |
| `client` | 2 generations, 2 rooms, buffer limit 1 | at most one connection; the page agrees with the server; an attempt to connect ends |
| `store_crash` | as `store` | **violated**: a restart may lose all players |
| `unity_view` | 2 connections, 2 moves, no full buffer | **violated**: a client may keep a player who is out of its view |

The finding of `store_crash`: `writeLocked` removes the old file before it renames
the new one over it. A process that ends in between leaves no file, `Load` answers
that there is no such player, and the next login creates an empty one, whereas
`docs/http-tcp-guide.md` says that the player file is kept across a restart. `store`
shows that this window is the only way to lose anything: `NoLostUpdate` speaks until
a call ends inside it. A rename that fails there loses the file as well; both
properties leave that case out, since the caller is told of the error and no document
speaks of it.

The finding of `unity_view`: the start hook takes the list of nearby players under
the lock of the world and sends it after the lock was released. A player who moves
out of view in between has his leave message queued first and the older list after
it, and the new client keeps showing him, although
`docs/unity-client-compatibility.md` says that players who enter or leave the view
are synchronised on every move. The same holds for the messages of two moves that
overlap. Two differences to that document that no run is about: it says that chat
goes to nearby players, but `UnityChatRouter` sends to all; and chat names the
speaker by his connection id, which is no longer his player number.

Bounds. Two connections are enough for two requests to meet in one worker or in two;
a queue of one place is full with one request, and two requests per connection let
one wait behind another. Two starters and two stoppers make every `Once` contended.
For the sessions, two accounts and two connections let every map entry be taken by
somebody else, connection ids include 0, four tokens allow a replacement of a
replacement, and the sweeps go up to time 5, when what was issued at the last time 3
has expired. In `connection` one sender waits and one does not; that a second one is
freed that waits for the gate behind a blocked first one is not in the instance: it
needs four sends, and with two waiting senders already three exceed five minutes. For the service, rooms of one place make every move meet a full room;
the second connection can belong to the same account as the first, to the other
account, or come after a `Close`, and the third login replaces a session whose
connection is still ending. In the Unity example two connections can be in view of
each other or out of it in a world of three cells, a first room of one place refuses
the second player, and three requests let a request of either connection meet a hook
and a request of the other one. In the arena both players can reach the crystal in
the same step, in either order, the small arena is full with one of them, and one
unit of time is enough for every deadline to pass; the tick counter is kept modulo
2, which preserves the rotation of one or two players. In the page a second attempt
overlaps every state of the first; an attempt after the second begins as the second
did, and one message under way from the server with a buffer limit of 1 lets every
send meet a full buffer. The bridge's third request meets a full bridge twice.
Capacities are at least 1: a configured 0 would make an unbuffered channel, which
the modules do not describe.

The largest runs have 2.7 million (`unity`), 358,700 (`arena`) and 220,000 to 280,000
(`connection`, `service`, `client`, `pool`) distinct states; none takes longer than
about two and a half minutes with two workers.

Deadlock is checked in every run. The final states are explicit stuttering actions
(`Finished`) that demand that all callers are back.

Fairness. Weak fairness is assumed of every goroutine's own steps: the Go scheduler
runs what can run. It covers the worker loop and the end of a handler, so routers
and hooks are assumed to return; `Shutdown`'s comment says that unresponsive
business code cannot be terminated. `AcceptTCP` is assumed to fail only on a closed
listener, and no context has to end. Nothing is assumed about clients, callers or the
network: no property relies on the peer reading or answering. `Stop` called inside a
router or hook, which `docs/game-server-guide.md` forbids because it waits for
itself, is not modelled.

In the service the ticker is fair while Serve's loop runs, and `Close` follows the
draining, which `http.Server.Shutdown` bounds by five seconds. In the bridge dial,
upgrade and writes end by their timeouts, reads only by the closing of the socket.
In the arena the ticker of `Run` is fair until the process is told to end. In the
page a fetch ends, because it is aborted after five seconds, and a timer that is set
fires; nothing is assumed of sockets and the server.

## Proofs

`MsgHandleProofs` proves, for any connections, workers, requests, starters, stoppers
and any queue length of at least 1:

- `TypeCorrect`, `ClosedQueues`, `InOrder`, `Counted`, `Drained`: `Spec => []` of
  `TypeOK`, `NoSendOnClosedQueue`, `PerConnectionOrder`, `WaitGroupExact` and
  `DrainedOnReturn`;
- `NoLateAdd`: the action property `NoAddDuringWait`;
- `RefinesTaskPool`: `Spec => Pool!Spec`, the safety part of the refinement.

None of these is inductive. The inductive invariant `IInv` has seven parts besides
the type: `Control` says who may be where with respect to the lock and the two
`Once`s, in particular that a reader behind its check of `stopChan` keeps the stop
from having closed the queues; `Workforce` ties the workers' life to
`workerPoolStarted` and the closing of the queues, so that a worker leaves only an
empty queue for good; `Tasks` says that exactly the accepted requests are queued, in
work or finished; `Sequencing` that a queue holds the requests of its own
connections, each connection's in order; `ExactlyOnce` that a finished request is
nowhere else; `WaitGroupExact` that the counter is the number of the goroutines;
`Returned` that it is 0 once a stop has returned. One lemma per part (`ControlStep`,
`WorkforceStep`, ...) shows that every action preserves it. When a stop returns the
counter is 0, hence no goroutine is left (`ZeroIsNobody`), hence the queues are
empty and everything accepted is finished (`NothingLeft`), which gives `Drained` and
the last step of the refinement.

`SessionManagerProofs` proves, for any sets of tokens, accounts and connections, any
lifetimes, either policy and either constructor:

- `TypeCorrect`, `MapsCoherent`, `LegacyNumbering`: `Spec => []` of `TypeOK`,
  `Coherent` and `LegacyIDsFresh`;
- `NothingLost`: with `New(Options)` every token issued is present or was reported;
- `BindingsKept`, `ActiveProtected`: the action properties `BindingStable` and
  `ActiveNotDisplaced`, for any times that are passed to `RemoveExpired`.

The inductive invariant is `TypeOK /\ Coherent /\ LegacyIDsFresh /\ TokensIssued`.
`Coherent` alone is not inductive: a token that is about to be entered must be new
(`TokensIssued`: every token in a map has been issued), and a number that `Login`
deals must not belong to a session (`LegacyIDsFresh`). The argument has two parts.
`RemoveCoherent` shows that removing any set of sessions keeps the maps coherent,
which needs the test `byConnID[session.ConnID] == token` of `removeLocked`;
`ReplaceCoherent` shows the same for a removal followed by one insertion, provided
that the account, the player and the connection of the new session are free
afterwards. Each operation is one of the two; its guards supply the proviso.

`ConnectionProofs` proves, for any senders, callers of `Stop`, sends and reads and
any queue length of at least 1, `ConnectionGateExact`, `ConnectionStreamIntegrity`
and `ConnectionJoinedOnReturn`: `Spec => []` of `GateExact`, `StreamIntegrity` and
`JoinedOnReturn`. The inductive invariant has four parts besides the type. `GateInv`:
the token count of `sendGate` is the set of senders inside, with at most one member.
`History`: a send that has not returned is in neither history, so a message is
accepted or refused, never both. `LifeInv`: the stages of `Start`, the counter
`ioWait` as a number of goroutines, and a finished `Stop` behind each goroutine that
ended. `StreamInv` follows the stream position by position: the frame at position
*i* carries the *i*-th accepted message, and as long as the writer runs the accepted
messages after those are the one in its hand and then `msgChan`, in order; a torn
frame is the last and the writer has left its loop. The positions give
`StreamIntegrity`, which speaks of sequences, at the end (`StreamFromPositions`).
`CallsBound`, by cardinality, keeps the numbering within the bound on sends.

`ServerProofs` proves, for any starters, callers of `Shutdown`, connections,
requests and any `MaxConn` (0 is no limit):

- `ServerManagerExact`, `ServerQuiescent`: `Spec => []` of `ManagerExact` and
  `QuiescentAfterShutdown`;
- `ServerNoAddDuringWait`, `ServerRequestsBetweenHooks`: the action properties
  `NoAddDuringWait` and `RequestsBetweenHooks`.

The argument is about `listenerLock`. Whoever may still add to `connWait` has seen
`stopped` false with that lock in hand and still holds it (`LockExact`), whereas
shutdown takes the listener under it after `stopped` was set (`StopOrder`), hence
nothing adds from there on (`NothingAdds`). The rest of the invariant says that
connection ids are given out once (`FreshIds`), that reader and writer live between
the hooks (`Goroutines`), what each stage of the shutdown has already released
(`Manager`, `Released`), and that `connWait` and the gauge are cardinalities
(`Counts`): a `Wait` that returned therefore saw that nobody is left. The pool is
the abstract `TaskPool`; `RefinesTaskPool` above is what justifies that.

`GameServiceProofs` proves `ServiceRoomsExact`, `ServiceAuthenticatedExact` and
`ServiceRewardOnce` for any accounts, connections, rooms, capacity, deadlines and
restarts. The three live maps are argued about together (`LiveInv`): what takes a
session away must take the connection it was bound to out of its room, and finds it
only because bindings are unique in both directions (`Bindings`) and lead to
connections whose hooks say that they run (`HooksExact`). `DisconnectStep` is the
common core: dropping a connection in any of the ways the service has keeps
`LiveInv`. `StoreInv` is separate: `RewardOnce` and the form of a save.

The second half of `GameServiceProofs` is about `JSONFileStore`, the store that the
framework itself comes with: `StoreNoLostUpdate` holds for any players, values and
callers. A call writes back the whole map that it
read, so the invariant says that the pending map of the caller with the lock is what
was saved so far with its own change (`PendingExact`), and that the file is what was
saved whenever nobody is between removal and rename (`FileExact`), both until a call
is cut short there.

`UnityServerProofs` proves `UnityWorldExact` and `UnityMembershipExact` for any
connections, rooms, integer positions, world and cell sizes. It rests on the lemmas
of `AOIProofs` about the grid of `gcore/aoi.go`: `GridOK` (there is a cell for every
position that is taken and no other, and it holds the entities in it) is kept by
`AddEntity`, `RemoveEntity` and `MoveEntity` (`GridAdd`, `GridRemove`, `GridMove`),
and implies that the lookup in the nine cells finds exactly the neighbours that the
positions imply (`GridAnswers`). On it rest `WorldInv` (players, index, sessions and
grid agree, numbers are not repeated) and `RoomInv`, which says for every step of a
request under way how the room maps and the property of its connection may differ;
at rest they do not. Its part `AtMost` bounds what a connection is a member of when the
stop hook may have taken a room away at any moment. `ThreadInv` says which steps the two goroutines of a connection
can be at. What a step still has to send plays no part and is left opaque.

`WebGameProofs` proves, for any finite set of connections and any arenas, crystals,
world, speed and lifetimes, `ArenaAgrees` and `ArenaCollects`: `ArenaExact` is an
invariant and `CollectedOnce` an action property of `Arena`. The inductive invariant
is `TypeOK /\ Places /\ Bindings /\ Known`: rooms and grids are as the players imply;
a session has at most one connection, which is a named player's, and who is in a room
has a session; players are those between their hooks, and all are stopped after
`Close`. Room and grid of an arena are a function of the players (`arenaOf`,
`GridOf`); `AddExact`, `RemoveExact` and `MoveExact` show that the grid's methods keep
up with a change of one player. An expiry and a step of the world change many players
in a loop, which is a fold over the set of them; `SetInduction` (from the
well-foundedness of the strict subset ordering on a finite set) and `SameFold` lift
the single change to the loop, whatever the order (`RoomFold`, `GridFold`,
`MoveFold`). `CollectedOnce` counts: the turns of different players differ
(`TurnsDiffer`), hence what two players of one arena collect in a step is disjoint
(`CollectedApart`), hence the points given are as many as the crystals that disappear
(`SameSize`).

For the bridge it proves `BridgeCloseLeavesNothing` and `BridgeTunnelLimit` for any
finite set of requests, any callers of `Close` and any limit of at least 1. Both rest on
the order of the deferred calls: the map and the wait group are exact (`MapExact`,
`GroupExact`), a socket or a forwarding goroutine is alive only at labels at which the
handler is in the map (`AliveWithin`), and `Close` marks the bridge before it waits
(`ClosersExact`).

For the page it proves `PageSingleConnection` and `PageViewAgrees` for any number of
attempts, rooms, buffer limit and messages under way. A callback is a chain of functions on the value
of the page, so the invariant is a predicate of that value and of what surrounds it,
and each function of the chain has its lemma. Its parts: one socket at most, that of
the generation, and timers of the generation only (`Loose`, `Sockets`); a fetch under
way belongs to an attempt without a socket (`Fetches`, `Unopened`); and what page,
buffers and server's side of the connection say of each other (`Conversation`). Before
authentication nothing but that request or its answer is under way; afterwards the
room of the page and the answers still under way lead to the room of the server
(`Follows`), and as long as the page is waiting, a join or its answer is under way
(`SomeJoin`). `ViewAgrees` speaks of a page with nothing under way and is the case of
this in which all queues are empty.

Each inductive invariant was checked by TLC on the instance of its run before it was
proved.

Assumed: only the `ASSUME`s of the modules, which TLC evaluates in their runs. They give the constants their types; further, tokens are not repeated
(`SessionManager`), queues, buffers, bridge and rooms have at least one place, the sets
that are counted are finite, senders that wait and senders that do not are different,
and the positions of the Unity world are pairs of integers or the one value that is
not finite. In the arena the spawn point and the crystals lie inside the world and the
margin fits into it, as the constants of `world.go` do, a hidden crystal and a new
session stay for at least one unit of time, and the period of the tick counter is a
multiple of every possible number of players, which keeps the rotation of the code's
unbounded counter.

Only model-checked:

- the liveness properties (`StopReturns`, `CallReturns`, `StopEndsConnection`,
  `StopReleasesSenders`, `ShutdownFinishes`, `ClosedIsReleased`, `OverdueDropped`,
  `CloseReturns`, `TunnelEnds`, `OverdueStopped`, `ConnectingEnds`) and the fairness
  half of `ImplementsTaskPool`: they need fairness and `ENABLED`, which the installed
  provers do not handle.

`TypeOK` and `WaitGroupExact` of `MsgHandle` and `TypeOK` of `SessionManager` are
only proved.

## Not modelled

- Conversions: frames and messages (`gnet/datapack.go`, `gcore/protocol.go`,
  `examples/unity/protocol.go`, `frontend/src/protocol.ts`). They are pure functions
  on bytes, which the modules treat as whole, torn or refused.
- `limit/token_bucket.go`: floating-point arithmetic on one bucket under one lock.
- `Room.Start`, `Close`, `Broadcast` and `RoomManager.RemoveRoom`: no program of the
  repository closes or removes a room.
- Configuration, logging, the counters of `metrics` (except the gauge of
  connections), property maps apart from the room of a Unity connection, rendering,
  the sample programs and the code generator.

`PROJECT.json` gives the reason per component.

## Plan

What is left are conversions and arithmetic: `limit/token_bucket.go` and the codecs as
operators, checked against reference definitions over bounded inputs.
