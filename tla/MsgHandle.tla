----------------------------- MODULE MsgHandle ------------------------------
(***************************************************************************)
(* The worker pool of gnet/msghandler.go.                                  *)
(*                                                                         *)
(* Connection readers call SendMsgToTaskQueue, which holds the read side   *)
(* of taskQueueLock for its whole duration, including the wait for a place *)
(* in a full queue.  StartWorkerPool and StopWorkerPool take the write     *)
(* side.  Workers range over their queue until it is closed and empty.     *)
(* While no pool is running each request gets a goroutine of its own.      *)
(*                                                                         *)
(* A request is a pair <<connection id, position>>: the n-th request that  *)
(* the reader of that connection submitted.                                *)
(***************************************************************************)
EXTENDS Integers, Sequences, FiniteSets

CONSTANTS
    Conns,              \* connection ids (uint32 in the code)
    WorkerPoolSize,     \* Config.WorkerPoolSize; 0 = a goroutine per request
    MaxWorkerTaskLen,   \* capacity of one task queue
    Starters, Stoppers, \* callers of StartWorkerPool and of StopWorkerPool
    NoProc,             \* nobody
    MaxMsgs             \* bound: requests submitted per connection

ASSUME MsgHandleAssumption ==
    /\ Conns \subseteq Nat /\ IsFiniteSet(Conns)
    /\ WorkerPoolSize \in Nat
    /\ MaxWorkerTaskLen \in Nat \ {0}
    /\ MaxMsgs \in Nat
    /\ Starters \cap Stoppers = {}
    /\ NoProc \notin Starters \cup Stoppers

VARIABLES
    stopChan,   \* stopChan has been closed
    started,    \* workerPoolStarted
    queue,      \* TaskQueue: one bounded FIFO per worker
    qclosed,    \* the task queues have been closed
    worker,     \* worker goroutines: not spawned, idle, busy or exited
    cur,        \* the request a busy worker is executing
    direct,     \* requests executed by a goroutine of their own
    wg,         \* counter of workerPoolWait
    rlock,      \* readers holding taskQueueLock.RLock
    wlock,      \* the caller that holds or awaits taskQueueLock.Lock
    startOnce, stopOnce,    \* workerPoolOnce and stopPoolOnce
    rpc,        \* where each reader is in SendMsgToTaskQueue
    sent,       \* how many requests each reader submitted
    ppc,        \* where each starter and stopper is
    accepted,   \* history: SendMsgToTaskQueue returned nil
    finished    \* history: requests whose execution ended

poolVars == <<stopChan, started, queue, qclosed>>
workVars == <<worker, cur, direct>>
lockVars == <<rlock, wlock>>
onceVars == <<startOnce, stopOnce>>
readVars == <<rpc, sent>>
histVars == <<accepted, finished>>
vars == <<poolVars, workVars, wg, lockVars, onceVars, readVars, ppc, histVars>>

-----------------------------------------------------------------------------
Task == Conns \X (1..MaxMsgs)
NoTask == <<>>
Workers == 0..(WorkerPoolSize - 1)
Procs == Starters \cup Stoppers

\* The request that the reader of connection c is submitting.
request(c) == <<c, sent[c]>>

\* The worker in charge of a connection, so that its requests stay in order.
workerRoundRobin(c) == (c + sent[c]) % WorkerPoolSize     \* mutant
workerID(c) == c % WorkerPoolSize

Init ==
    /\ stopChan = FALSE
    /\ started = FALSE
    /\ queue = [w \in Workers |-> <<>>]
    /\ qclosed = FALSE
    /\ worker = [w \in Workers |-> "none"]
    /\ cur = [w \in Workers |-> NoTask]
    /\ direct = {}
    /\ wg = 0
    /\ rlock = {}
    /\ wlock = NoProc
    /\ startOnce = "new"
    /\ stopOnce = "new"
    /\ rpc = [c \in Conns |-> "idle"]
    /\ sent = [c \in Conns |-> 0]
    /\ ppc = [p \in Procs |-> "idle"]
    /\ accepted = {}
    /\ finished = {}

-----------------------------------------------------------------------------
(***************************************************************************)
(* taskQueueLock.Lock(): announcing the writer stops new readers; the      *)
(* critical section starts when the last reader has left.                  *)
(***************************************************************************)
Lock(p) ==
    /\ ppc[p] = "lock"
    /\ wlock = NoProc
    /\ wlock' = p
    /\ ppc' = [ppc EXCEPT ![p] = "crit"]
    /\ UNCHANGED <<poolVars, workVars, wg, rlock, onceVars, readVars, histVars>>

LockedAmongReaders(p) == ppc[p] = "crit" /\ wlock = p      \* mutant
Locked(p) == ppc[p] = "crit" /\ wlock = p /\ rlock = {}

-----------------------------------------------------------------------------
\* StartWorkerPool: a pool of size zero is never started, and the other
\* callers of the Once wait for the first one.
StartEnter(p) ==
    /\ ppc[p] = "idle"
    /\ \/ /\ WorkerPoolSize = 0 \/ startOnce = "done"
          /\ ppc' = [ppc EXCEPT ![p] = "returned"]
          /\ UNCHANGED startOnce
       \/ /\ WorkerPoolSize # 0 /\ startOnce = "new"
          /\ startOnce' = "running"
          /\ ppc' = [ppc EXCEPT ![p] = "lock"]
    /\ UNCHANGED <<poolVars, workVars, wg, lockVars, stopOnce, readVars, histVars>>

\* Its critical section: a pool that was stopped first stays down.
StartCritical(p) ==
    /\ Locked(p)
    /\ wlock' = NoProc
    /\ \/ /\ stopChan
          /\ startOnce' = "done"
          /\ ppc' = [ppc EXCEPT ![p] = "returned"]
          /\ UNCHANGED <<started, queue, wg>>
       \/ /\ ~stopChan
          /\ queue' = [w \in Workers |-> <<>>]
          /\ wg' = wg + WorkerPoolSize
          /\ started' = TRUE
          /\ ppc' = [ppc EXCEPT ![p] = "spawn"]
          /\ UNCHANGED startOnce
    /\ UNCHANGED <<stopChan, qclosed, workVars, rlock, stopOnce, readVars, histVars>>

\* The worker goroutines are spawned after the lock is released.
StartSpawn(p) ==
    /\ ppc[p] = "spawn"
    /\ worker' = [w \in Workers |-> "idle"]
    /\ startOnce' = "done"
    /\ ppc' = [ppc EXCEPT ![p] = "returned"]
    /\ UNCHANGED <<poolVars, cur, direct, wg, lockVars, stopOnce, readVars, histVars>>

-----------------------------------------------------------------------------
\* beginStop, called first by StopWorkerPool and by Server.Shutdown.
beginStop(p) ==
    /\ ppc[p] = "idle"
    /\ stopChan' = TRUE
    /\ ppc' = [ppc EXCEPT ![p] = "once"]
    /\ UNCHANGED <<started, queue, qclosed, workVars, wg, lockVars, onceVars,
                   readVars, histVars>>

StopEnter(p) ==
    /\ ppc[p] = "once"
    /\ \/ /\ stopOnce = "new"
          /\ stopOnce' = "running"
          /\ ppc' = [ppc EXCEPT ![p] = "lock"]
       \/ /\ stopOnce = "done"
          /\ ppc' = [ppc EXCEPT ![p] = "wait"]
          /\ UNCHANGED stopOnce
    /\ UNCHANGED <<poolVars, workVars, wg, lockVars, startOnce, readVars, histVars>>

\* Mutant: the lock is not released.
StopCriticalKeepsLock(p) ==
    /\ Locked(p)
    /\ qclosed' = (qclosed \/ started)
    /\ started' = FALSE
    /\ stopOnce' = "done"
    /\ ppc' = [ppc EXCEPT ![p] = "wait"]
    /\ UNCHANGED <<stopChan, queue, workVars, wg, lockVars, startOnce, readVars, histVars>>
StopCritical(p) ==
    /\ Locked(p)
    /\ wlock' = NoProc
    /\ qclosed' = (qclosed \/ started)
    /\ started' = FALSE
    /\ stopOnce' = "done"
    /\ ppc' = [ppc EXCEPT ![p] = "wait"]
    /\ UNCHANGED <<stopChan, queue, workVars, wg, rlock, startOnce, readVars, histVars>>

\* workerPoolWait.Wait(): every caller waits for the same tasks.
\* Mutant: only the goroutines spawned per request are awaited.
StopWaitDirectOnly(p) ==
    /\ ppc[p] = "wait"
    /\ direct = {}
    /\ ppc' = [ppc EXCEPT ![p] = "returned"]
    /\ UNCHANGED <<poolVars, workVars, wg, lockVars, onceVars, readVars, histVars>>
StopWait(p) ==
    /\ ppc[p] = "wait"
    /\ wg = 0
    /\ ppc' = [ppc EXCEPT ![p] = "returned"]
    /\ UNCHANGED <<poolVars, workVars, wg, lockVars, onceVars, readVars, histVars>>

-----------------------------------------------------------------------------
(***************************************************************************)
(* SendMsgToTaskQueue.                                                     *)
(***************************************************************************)
\* A reader has the next request of its connection.
Submit(c) ==
    /\ rpc[c] = "idle"
    /\ sent[c] < MaxMsgs
    /\ sent' = [sent EXCEPT ![c] = @ + 1]
    /\ rpc' = [rpc EXCEPT ![c] = "calling"]
    /\ UNCHANGED <<poolVars, workVars, wg, lockVars, onceVars, ppc, histVars>>

\* An announced writer keeps new readers out.
RLock(c) ==
    /\ rpc[c] = "calling"
    /\ wlock = NoProc
    /\ rlock' = rlock \cup {c}
    /\ rpc' = [rpc EXCEPT ![c] = "locked"]
    /\ UNCHANGED <<poolVars, workVars, wg, wlock, onceVars, sent, ppc, histVars>>

\* Every return runs the deferred RUnlock.
ReturnLocked(c) ==      \* mutant
    /\ rpc' = [rpc EXCEPT ![c] = "idle"]
    /\ UNCHANGED <<rlock, wlock, sent>>
Return(c) ==
    /\ rlock' = rlock \ {c}
    /\ rpc' = [rpc EXCEPT ![c] = "idle"]
    /\ UNCHANGED <<wlock, sent>>

Accept(c) == accepted' = accepted \cup {request(c)} /\ UNCHANGED finished

\* The first select: ErrWorkerStopped, or go on.
GoOn(c) ==              \* mutant
    /\ rpc[c] = "locked"
    /\ rpc' = [rpc EXCEPT ![c] = "dispatch"]
    /\ UNCHANGED <<poolVars, workVars, wg, lockVars, onceVars, sent, ppc, histVars>>
CheckStop(c) ==
    /\ rpc[c] = "locked"
    /\ \/ stopChan /\ Return(c)
       \/ /\ ~stopChan
          /\ rpc' = [rpc EXCEPT ![c] = "dispatch"]
          /\ UNCHANGED <<lockVars, sent>>
    /\ UNCHANGED <<poolVars, workVars, wg, onceVars, ppc, histVars>>

\* No pool is running: a goroutine of its own executes the request.
Direct(c) ==
    /\ rpc[c] = "dispatch"
    /\ ~started
    /\ wg' = wg + 1
    /\ direct' = direct \cup {request(c)}
    /\ Return(c)
    /\ Accept(c)
    /\ UNCHANGED <<poolVars, worker, cur, onceVars, ppc>>

ChooseQueue(c) ==
    /\ rpc[c] = "dispatch"
    /\ started
    /\ rpc' = [rpc EXCEPT ![c] = "queueing"]
    /\ UNCHANGED <<poolVars, workVars, wg, lockVars, onceVars, sent, ppc, histVars>>

Full(c) == Len(queue[workerID(c)]) >= MaxWorkerTaskLen

Enqueue(c) ==
    /\ rpc[c] = "queueing"
    /\ ~Full(c)
    /\ queue' = [queue EXCEPT ![workerID(c)] = Append(@, request(c))]
    /\ Return(c)
    /\ Accept(c)
    /\ UNCHANGED <<stopChan, started, qclosed, workVars, wg, onceVars, ppc>>

\* The request is refused and never executed.
Refuse(c) ==
    /\ rpc[c] = "queueing"
    /\ Return(c)
    /\ UNCHANGED <<poolVars, workVars, wg, onceVars, ppc, histVars>>

\* The pool stops while the reader waits for a place ...
WaitStopped(c) == Refuse(c) /\ stopChan

\* ... or the wait ends: the timer fires or the connection's context is
\* cancelled, at any time.  Without a wait time it ends at once in a full queue.
WaitEnds(c) == Refuse(c)

-----------------------------------------------------------------------------
(***************************************************************************)
(* The worker goroutines and DoMsgHandler.                                 *)
(***************************************************************************)
\* startOneWorker takes the next request of its queue ...
Receive(w) ==
    /\ worker[w] = "idle"
    /\ queue[w] # <<>>
    /\ cur' = [cur EXCEPT ![w] = Head(queue[w])]
    /\ queue' = [queue EXCEPT ![w] = Tail(@)]
    /\ worker' = [worker EXCEPT ![w] = "busy"]
    /\ UNCHANGED <<stopChan, started, qclosed, direct, wg, lockVars, onceVars,
                   readVars, ppc, histVars>>

\* ... and leaves its loop when the queue is closed and empty.
\* Mutant: as soon as it is closed.
ExitUndrained(w) ==
    /\ worker[w] = "idle"
    /\ qclosed
    /\ worker' = [worker EXCEPT ![w] = "exited"]
    /\ wg' = wg - 1
    /\ UNCHANGED <<poolVars, cur, direct, lockVars, onceVars, readVars, ppc, histVars>>
Exit(w) ==
    /\ worker[w] = "idle"
    /\ qclosed /\ queue[w] = <<>>
    /\ worker' = [worker EXCEPT ![w] = "exited"]
    /\ wg' = wg - 1
    /\ UNCHANGED <<poolVars, cur, direct, lockVars, onceVars, readVars, ppc, histVars>>

\* DoMsgHandler ends in the same way whether no router has the id, the three
\* hooks returned, or one of them panicked and the deferred recover absorbed
\* it: its caller goes on.
DoMsgHandler(t) ==
    /\ finished' = finished \cup {t}
    /\ UNCHANGED accepted

\* After DoMsgHandler the worker is back in its loop, whatever the outcome.
WorkerDone(w) ==
    /\ worker[w] = "busy"
    /\ DoMsgHandler(cur[w])
    /\ worker' = [worker EXCEPT ![w] = "idle"]
    /\ cur' = [cur EXCEPT ![w] = NoTask]
    /\ UNCHANGED <<poolVars, direct, wg, lockVars, onceVars, readVars, ppc>>

DirectDone(t) ==
    /\ t \in direct
    /\ DoMsgHandler(t)
    /\ direct' = direct \ {t}
    /\ wg' = wg - 1
    /\ UNCHANGED <<poolVars, worker, cur, lockVars, onceVars, readVars, ppc>>

-----------------------------------------------------------------------------
\* Everything has been submitted, the pool is down and every caller is back.
Finished ==
    /\ \A p \in Procs : ppc[p] = "returned"
    /\ \A c \in Conns : rpc[c] = "idle" /\ sent[c] = MaxMsgs
    /\ \A w \in Workers : worker[w] \in {"none", "exited"}
    /\ direct = {}
    /\ UNCHANGED vars

StartStep(p) == StartEnter(p) \/ StartCritical(p) \/ StartSpawn(p)
StopStep(p) == StopEnter(p) \/ StopCritical(p) \/ StopWait(p)
SendStep(c) == RLock(c) \/ CheckStop(c) \/ Direct(c) \/ ChooseQueue(c)
                 \/ Enqueue(c) \/ WaitStopped(c)
WorkerStep(w) == Receive(w) \/ Exit(w) \/ WorkerDone(w)

Next ==
    \/ \E p \in Procs : Lock(p)
    \/ \E p \in Starters : StartStep(p)
    \/ \E p \in Stoppers : beginStop(p) \/ StopStep(p)
    \/ \E c \in Conns : Submit(c) \/ SendStep(c) \/ WaitEnds(c)
    \/ \E w \in Workers : WorkerStep(w)
    \/ \E t \in direct : DirectDone(t)
    \/ Finished

Spec == Init /\ [][Next]_vars

\* Goroutines that can run do run, and user handlers return.  Nobody is
\* obliged to submit a request, to stop the pool or to close a connection,
\* and nothing rests on the queue timer.
Fairness ==
    /\ \A p \in Procs : WF_vars(Lock(p))
    /\ \A p \in Starters : WF_vars(StartStep(p))
    /\ \A p \in Stoppers : WF_vars(StopStep(p))
    /\ \A c \in Conns : WF_vars(SendStep(c))
    /\ \A w \in Workers : WF_vars(WorkerStep(w))
    /\ \A t \in Task : WF_vars(DirectDone(t))

FairSpec == Spec /\ Fairness

-----------------------------------------------------------------------------
(***************************************************************************)
(* Properties.                                                             *)
(***************************************************************************)
Elements(s) == {s[i] : i \in 1..Len(s)}
Queued == UNION {Elements(queue[w]) : w \in Workers}
Running == {cur[w] : w \in {v \in Workers : worker[v] = "busy"}}

TypeOK ==
    /\ stopChan \in BOOLEAN /\ started \in BOOLEAN /\ qclosed \in BOOLEAN
    /\ queue \in [Workers -> Seq(Task)]
    /\ \A w \in Workers : Len(queue[w]) <= MaxWorkerTaskLen
    /\ worker \in [Workers -> {"none", "idle", "busy", "exited"}]
    /\ cur \in [Workers -> Task \cup {NoTask}]
    /\ direct \subseteq Task
    /\ wg \in Nat
    /\ rlock \subseteq Conns
    /\ wlock \in Procs \cup {NoProc}
    /\ startOnce \in {"new", "running", "done"}
    /\ stopOnce \in {"new", "running", "done"}
    /\ rpc \in [Conns -> {"idle", "calling", "locked", "dispatch", "queueing"}]
    /\ sent \in [Conns -> 0..MaxMsgs]
    /\ ppc \in [Procs -> {"idle", "once", "lock", "crit", "spawn", "wait", "returned"}]
    /\ accepted \subseteq Task
    /\ finished \subseteq Task

\* A reader that waits for a place in a queue never waits on a queue that
\* StopWorkerPool has closed: a send on a closed channel would panic.
NoSendOnClosedQueue == \A c \in Conns : rpc[c] = "queueing" => ~qclosed

\* While a worker executes a request, the unexecuted queued requests of that
\* connection all came after it and none of them is being executed: one
\* connection's queued requests are handled one at a time in the order they
\* were queued (docs/game-server-guide.md).  A request that runs in a goroutine
\* of its own has no order.
PerConnectionOrder ==
    \A w \in Workers : worker[w] = "busy" =>
        /\ \A t \in Queued : t[1] = cur[w][1] => t[2] > cur[w][2]
        /\ \A v \in Workers \ {w} : worker[v] = "busy" => cur[v][1] # cur[w][1]

\* The counter of workerPoolWait is the number of goroutines it stands for,
\* the workers about to be spawned included: Done never makes it negative.
WaitGroupExact ==
    wg = Cardinality(direct)
         + Cardinality({w \in Workers : worker[w] \in {"idle", "busy"}})
         + (IF \E p \in Starters : ppc[p] = "spawn" THEN WorkerPoolSize ELSE 0)

\* When any StopWorkerPool returns, every request that was accepted has been
\* executed, no worker is left, and that stays so.
DrainedOnReturn ==
    (\E p \in Stoppers : ppc[p] = "returned") =>
        /\ finished = accepted
        /\ \A w \in Workers : worker[w] \in {"none", "exited"}
        /\ ~started

\* Nobody adds to workerPoolWait once a caller waits on it: sync.WaitGroup
\* forbids an Add that races a Wait.
NoAddDuringWait ==
    [][wg' > wg => \A p \in Stoppers : ppc[p] \notin {"wait", "returned"}]_vars

\* A StopWorkerPool that has begun returns, though readers may be waiting for
\* a place in a queue with the read lock held.
StopReturns == \A p \in Stoppers : ppc[p] = "once" ~> ppc[p] = "returned"

\* A SendMsgToTaskQueue call returns.
CallReturns == \A c \in Conns : rpc[c] = "calling" ~> rpc[c] = "idle"

(***************************************************************************)
(* The pool implements the abstract specification.                         *)
(***************************************************************************)
Phase == IF \E p \in Stoppers : ppc[p] = "returned" THEN "drained"
         ELSE IF stopOnce = "done" THEN "closed" ELSE "open"

Pool == INSTANCE TaskPool WITH phase <- Phase,
                               outstanding <- accepted \ finished

\* An accepted request is executed exactly once, none is accepted after the
\* queues were closed, and a closed pool is drained before Stop returns.
ImplementsTaskPool == Pool!FairSpec

=============================================================================
