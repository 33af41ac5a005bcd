-------------------------- MODULE MsgHandleProofs ---------------------------
(***************************************************************************)
(* The safety of the worker pool, for any number of connections, workers,  *)
(* requests, starters and stoppers and any queue length.                   *)
(***************************************************************************)
EXTENDS MsgHandle, FiniteSetTheorems, TLAPS

(***************************************************************************)
(* The inductive invariant.                                                *)
(***************************************************************************)
\* Who is where with respect to taskQueueLock.
Locks ==
    /\ \A c \in Conns : c \in rlock <=> rpc[c] \in {"locked", "dispatch", "queueing"}
    /\ \A p \in Procs : ppc[p] = "crit" <=> wlock = p
    /\ \A p \in Starters : ppc[p] \in {"idle", "lock", "crit", "spawn", "returned"}
    /\ \A p \in Stoppers : ppc[p] \in {"idle", "once", "lock", "crit", "wait", "returned"}

\* At most one caller is inside each Once.
Onces ==
    /\ \A p \in Starters : ppc[p] \in {"lock", "crit", "spawn"} => startOnce = "running"
    /\ \A p, q \in Starters :
          (ppc[p] \in {"lock", "crit", "spawn"} /\ ppc[q] \in {"lock", "crit", "spawn"}) => p = q
    /\ \A p \in Stoppers : ppc[p] \in {"lock", "crit"} => stopOnce = "running"
    /\ \A p, q \in Stoppers :
          (ppc[p] \in {"lock", "crit"} /\ ppc[q] \in {"lock", "crit"}) => p = q

\* How far the stop is.
Stopping ==
    /\ \A p \in Stoppers : ppc[p] # "idle" => stopChan
    /\ stopOnce # "new" => stopChan
    /\ \A p \in Stoppers : ppc[p] \in {"wait", "returned"} => stopOnce = "done"
    /\ stopOnce = "done" => ~started
    /\ qclosed => stopOnce = "done"

\* A reader behind its check keeps the stop out of its critical section.
Readers ==
    /\ \A c \in Conns : rpc[c] = "queueing" => started
    /\ \A c \in Conns : rpc[c] \in {"dispatch", "queueing"} => stopOnce # "done"

Control == Locks /\ Onces /\ Stopping /\ Readers

Launched == started \/ qclosed

\* The workers exist from StartSpawn on and leave an empty, closed queue.
Workforce ==
    /\ ~Launched => \A w \in Workers : worker[w] = "none" /\ queue[w] = <<>>
    /\ startOnce = "new" => ~Launched
    /\ startOnce # "new" => WorkerPoolSize # 0
    /\ \A p \in Starters : ppc[p] \in {"lock", "crit"} => ~Launched
    /\ \A p \in Starters : ppc[p] = "spawn" =>
            Launched /\ \A w \in Workers : worker[w] = "none"
    /\ Launched /\ (\A p \in Starters : ppc[p] # "spawn") =>
            \A w \in Workers : worker[w] # "none"
    /\ \A w \in Workers : worker[w] = "exited" => qclosed /\ queue[w] = <<>>

\* Positions are given out once: the request being submitted is a new one.
Fresh ==
    /\ \A c \in Conns : rpc[c] # "idle" => sent[c] > 0
    /\ \A t \in accepted : /\ t[2] <= sent[t[1]]
                           /\ rpc[t[1]] # "idle" => t[2] < sent[t[1]]

\* Only accepted requests are anywhere ...
OnlyAccepted ==
    /\ finished \subseteq accepted
    /\ direct \subseteq accepted
    /\ \A w \in Workers : worker[w] = "busy" => cur[w] \in accepted
    /\ \A w \in Workers : \A i \in 1..Len(queue[w]) : queue[w][i] \in accepted

\* ... and every accepted request is somewhere.
InQueue(t) == \E w \in Workers : \E i \in 1..Len(queue[w]) : queue[w][i] = t
InWork(t) == \E w \in Workers : worker[w] = "busy" /\ cur[w] = t
AllAccounted == \A t \in accepted : t \in finished \/ t \in direct \/ InWork(t) \/ InQueue(t)

\* Each queue holds its own connections' requests in the order they came.
Order ==
    /\ \A w \in Workers : \A i \in 1..Len(queue[w]) : workerID(queue[w][i][1]) = w
    /\ \A w \in Workers : \A i, j \in 1..Len(queue[w]) :
          i < j /\ queue[w][i][1] = queue[w][j][1] => queue[w][i][2] < queue[w][j][2]
    /\ \A w \in Workers : worker[w] = "busy" => workerID(cur[w][1]) = w
    /\ \A w \in Workers : \A i \in 1..Len(queue[w]) :
          worker[w] = "busy" /\ queue[w][i][1] = cur[w][1] => cur[w][2] < queue[w][i][2]

\* A stop returns when nothing is left to wait for, and that stays so.
Returned == \A p \in Stoppers : ppc[p] = "returned" => wg = 0

\* A request is in one place only: what is finished or has a goroutine of its
\* own is neither queued nor being executed by a worker.
ExactlyOnce ==
    /\ direct \cap finished = {}
    /\ \A w \in Workers : worker[w] = "busy" => cur[w] \notin finished \cup direct
    /\ \A w \in Workers : \A i \in 1..Len(queue[w]) :
          queue[w][i] \notin finished \cup direct

Tasks == OnlyAccepted /\ AllAccounted
Sequencing == Fresh /\ Order

IInv == /\ TypeOK /\ Control /\ Workforce /\ Tasks /\ Sequencing
        /\ ExactlyOnce /\ WaitGroupExact /\ Returned

-----------------------------------------------------------------------------
\* The request that a reader is submitting has not been accepted before.
LEMMA RequestIsNew ==
  ASSUME IInv, NEW c \in Conns, rpc[c] # "idle"
  PROVE  request(c) \in Task /\ request(c) \notin accepted
  <1>1. sent[c] \in 1..MaxMsgs
    <2>1. sent[c] > 0
      BY DEF IInv, Sequencing, Fresh
    <2>2. sent[c] \in 0..MaxMsgs
      BY DEF IInv, TypeOK
    <2> QED
      BY <2>1, <2>2, MsgHandleAssumption
  <1>2. request(c) \in Task
    BY <1>1 DEF request, Task
  <1>3. request(c)[1] = c /\ request(c)[2] = sent[c]
    BY DEF request
  <1>4. ~(request(c)[2] < sent[c])
    BY <1>1, <1>3
  <1>5. request(c) \notin accepted
    BY <1>3, <1>4 DEF IInv, Sequencing, Fresh
  <1> QED
    BY <1>2, <1>5

\* A reader that waits for a queue waits for one that exists.
LEMMA WorkerExists ==
  ASSUME IInv, NEW c \in Conns, rpc[c] = "queueing"
  PROVE  workerID(c) \in Workers
  <1>1. WorkerPoolSize # 0
    BY DEF IInv, Control, Readers, Workforce, Launched
  <1> QED
    BY <1>1, MsgHandleAssumption DEF workerID, Workers

(***************************************************************************)
(* Counting.                                                               *)
(***************************************************************************)
Staff == {w \in Workers : worker[w] \in {"idle", "busy"}}
Starting == IF \E p \in Starters : ppc[p] = "spawn" THEN WorkerPoolSize ELSE 0

\* The sets that workerPoolWait counts are finite.
LEMMA Counts ==
  TypeOK => /\ IsFiniteSet(direct) /\ Cardinality(direct) \in Nat
            /\ IsFiniteSet(Staff) /\ Cardinality(Staff) \in Nat
            /\ Cardinality(Workers) = WorkerPoolSize
            /\ Starting \in Nat
  <1> SUFFICES ASSUME TypeOK
               PROVE  /\ IsFiniteSet(direct) /\ Cardinality(direct) \in Nat
                      /\ IsFiniteSet(Staff) /\ Cardinality(Staff) \in Nat
                      /\ Cardinality(Workers) = WorkerPoolSize
                      /\ Starting \in Nat
    OBVIOUS
  <1>1. IsFiniteSet(1..MaxMsgs)
    BY MsgHandleAssumption, FS_Interval
  <1>2. IsFiniteSet(Task)
    BY <1>1, MsgHandleAssumption, FS_Product DEF Task
  <1>3. direct \in SUBSET Task
    BY DEF TypeOK
  <1>4. IsFiniteSet(direct)
    BY <1>2, <1>3, FS_Subset
  <1>5. IsFiniteSet(Workers) /\ Cardinality(Workers) = WorkerPoolSize
    <2>1. 0 \in Int /\ WorkerPoolSize - 1 \in Int
      BY MsgHandleAssumption
    <2>2. /\ IsFiniteSet(0..(WorkerPoolSize - 1))
          /\ Cardinality(0..(WorkerPoolSize - 1))
               = IF 0 > WorkerPoolSize - 1 THEN 0 ELSE (WorkerPoolSize - 1) - 0 + 1
      BY <2>1, FS_Interval
    <2> QED
      BY <2>2, MsgHandleAssumption DEF Workers
  <1>6. Staff \in SUBSET Workers
    BY DEF Staff
  <1>7. IsFiniteSet(Staff)
    BY <1>5, <1>6, FS_Subset
  <1>8. Starting \in Nat
    BY MsgHandleAssumption DEF Starting
  <1> QED
    BY <1>4, <1>5, <1>7, <1>8, FS_CardinalityType

\* A counter of zero means that there is nobody left.
LEMMA ZeroIsNobody ==
  TypeOK /\ WaitGroupExact =>
     /\ wg \in Nat
     /\ wg = Cardinality(direct) + Cardinality(Staff) + Starting
     /\ direct # {} \/ Staff # {} => wg > 0
     /\ wg = 0 => direct = {} /\ Staff = {} /\ Starting = 0
  <1> SUFFICES ASSUME TypeOK, WaitGroupExact
               PROVE  /\ wg \in Nat
                      /\ wg = Cardinality(direct) + Cardinality(Staff) + Starting
                      /\ direct # {} \/ Staff # {} => wg > 0
                      /\ wg = 0 => direct = {} /\ Staff = {} /\ Starting = 0
    OBVIOUS
  <1>1. wg = Cardinality(direct) + Cardinality(Staff) + Starting
    BY DEF WaitGroupExact, Staff, Starting
  <1>2. /\ Cardinality(direct) = 0 <=> direct = {}
        /\ Cardinality(Staff) = 0 <=> Staff = {}
    BY Counts, FS_EmptySet
  <1> HIDE DEF Staff, Starting
  <1> QED
    BY <1>1, <1>2, Counts

-----------------------------------------------------------------------------
(* Every step preserves every part of the invariant. *)
\* The locks, the Onces and the readers' check keep their order.
LEMMA ControlStep == IInv /\ [Next]_vars => Control'
  <1> SUFFICES ASSUME IInv, [Next]_vars PROVE Control'
    OBVIOUS
  <1> USE MsgHandleAssumption DEF IInv, TypeOK, Control, Locks, Onces, Stopping, Readers, Procs,
        poolVars, workVars, lockVars, onceVars, readVars, histVars
  <1>1. ASSUME NEW p \in Procs, Lock(p) PROVE Control'
    BY <1>1 DEF Lock
  <1>2. ASSUME NEW p \in Starters, StartEnter(p) PROVE Control'
    <2>1. CASE ppc' = [ppc EXCEPT ![p] = "returned"] /\ startOnce' = startOnce
      BY <1>2, <2>1 DEF StartEnter
    <2>2. CASE /\ startOnce = "new" /\ startOnce' = "running"
               /\ ppc' = [ppc EXCEPT ![p] = "lock"]
      BY <1>2, <2>2 DEF StartEnter
    <2> QED
      BY <1>2, <2>1, <2>2 DEF StartEnter
  <1>3. ASSUME NEW p \in Starters, StartCritical(p) PROVE Control'
    <2>1. CASE /\ startOnce' = "done" /\ started' = started
               /\ ppc' = [ppc EXCEPT ![p] = "returned"]
      BY <1>3, <2>1 DEF StartCritical, Locked
    <2>2. CASE /\ ~stopChan /\ startOnce' = startOnce /\ started' = TRUE
               /\ ppc' = [ppc EXCEPT ![p] = "spawn"]
      BY <1>3, <2>2 DEF StartCritical, Locked
    <2> QED
      BY <1>3, <2>1, <2>2 DEF StartCritical
  <1>4. ASSUME NEW p \in Starters, StartSpawn(p) PROVE Control'
    BY <1>4 DEF StartSpawn
  <1>5. ASSUME NEW p \in Stoppers, beginStop(p) PROVE Control'
    BY <1>5 DEF beginStop
  <1>6. ASSUME NEW p \in Stoppers, StopEnter(p) PROVE Control'
    <2>1. CASE /\ stopOnce = "new" /\ stopOnce' = "running"
               /\ ppc' = [ppc EXCEPT ![p] = "lock"]
      BY <1>6, <2>1 DEF StopEnter
    <2>2. CASE /\ stopOnce = "done" /\ stopOnce' = stopOnce
               /\ ppc' = [ppc EXCEPT ![p] = "wait"]
      BY <1>6, <2>2 DEF StopEnter
    <2> QED
      BY <1>6, <2>1, <2>2 DEF StopEnter
  <1>7. ASSUME NEW p \in Stoppers, StopCritical(p) PROVE Control'
    BY <1>7 DEF StopCritical, Locked
  <1>8. ASSUME NEW p \in Stoppers, StopWait(p) PROVE Control'
    BY <1>8 DEF StopWait
  <1>9. ASSUME NEW c \in Conns, Submit(c) PROVE Control'
    BY <1>9 DEF Submit
  <1>10. ASSUME NEW c \in Conns, RLock(c) PROVE Control'
    BY <1>10 DEF RLock
  <1>11. ASSUME NEW c \in Conns, CheckStop(c) PROVE Control'
    BY <1>11 DEF CheckStop, Return
  <1>12. ASSUME NEW c \in Conns, Direct(c) PROVE Control'
    BY <1>12 DEF Direct, Return, Accept, request
  <1>13. ASSUME NEW c \in Conns, ChooseQueue(c) PROVE Control'
    BY <1>13 DEF ChooseQueue
  <1>14. ASSUME NEW c \in Conns, Enqueue(c) PROVE Control'
    BY <1>14 DEF Enqueue, Return, Accept, Full, request
  <1>15. ASSUME NEW c \in Conns, Refuse(c) PROVE Control'
    BY <1>15 DEF Refuse, Return
  <1>17. ASSUME NEW w \in Workers,
               Receive(w) \/ Exit(w) \/ WorkerDone(w)
        PROVE  Control'
    BY <1>17 DEF Receive, Exit, WorkerDone, DoMsgHandler
  <1>18. ASSUME NEW t \in direct,
               DirectDone(t)
        PROVE  Control'
    BY <1>18 DEF DirectDone, DoMsgHandler
  <1>19. CASE UNCHANGED vars
    BY <1>19 DEF vars
  <1> HIDE DEF IInv, TypeOK, Control, Locks, Onces, Stopping, Readers, Procs,
        poolVars, workVars, lockVars, onceVars, readVars, histVars
  <1> QED
    BY <1>1, <1>2, <1>3, <1>4, <1>5, <1>6, <1>7, <1>8, <1>9, <1>10, <1>11,
       <1>12, <1>13, <1>14, <1>15, <1>17, <1>18, <1>19
    DEF Next, StartStep, StopStep, SendStep, WorkerStep,
         WaitStopped, WaitEnds, Finished

\* Workers exist between the spawn and the end of a closed queue.
LEMMA WorkforceStep == IInv /\ [Next]_vars => Workforce'
  <1> SUFFICES ASSUME IInv, [Next]_vars PROVE Workforce'
    OBVIOUS
  <1> USE MsgHandleAssumption DEF IInv, TypeOK, Control, Locks, Onces, Stopping, Readers, Workforce,
        Launched, Procs, poolVars, workVars, lockVars, onceVars, readVars, histVars
  <1>1. ASSUME NEW p \in Procs, Lock(p) PROVE Workforce'
    BY <1>1 DEF Lock
  <1>2. ASSUME NEW p \in Starters, StartEnter(p) PROVE Workforce'
    BY <1>2 DEF StartEnter
  <1>3. ASSUME NEW p \in Starters, StartCritical(p) PROVE Workforce'
    BY <1>3 DEF StartCritical, Locked
  <1>4. ASSUME NEW p \in Starters, StartSpawn(p) PROVE Workforce'
    BY <1>4 DEF StartSpawn
  <1>5. ASSUME NEW p \in Stoppers, beginStop(p) PROVE Workforce'
    BY <1>5 DEF beginStop
  <1>6. ASSUME NEW p \in Stoppers, StopEnter(p) PROVE Workforce'
    BY <1>6 DEF StopEnter
  <1>7. ASSUME NEW p \in Stoppers, StopCritical(p) PROVE Workforce'
    BY <1>7 DEF StopCritical, Locked
  <1>8. ASSUME NEW p \in Stoppers, StopWait(p) PROVE Workforce'
    BY <1>8 DEF StopWait
  <1>9. ASSUME NEW c \in Conns, Enqueue(c) PROVE Workforce'
    BY <1>9 DEF Enqueue, Return, Accept, Full, request
  <1>10. ASSUME NEW w \in Workers, Receive(w) PROVE Workforce'
    BY <1>10 DEF Receive
  <1>11. ASSUME NEW w \in Workers, Exit(w) PROVE Workforce'
    BY <1>11 DEF Exit
  <1>12. ASSUME NEW w \in Workers, WorkerDone(w) PROVE Workforce'
    BY <1>12 DEF WorkerDone, DoMsgHandler
  <1>13. ASSUME NEW c \in Conns,
               Submit(c) \/ RLock(c) \/ CheckStop(c) \/ Direct(c) \/ ChooseQueue(c)
               \/ Refuse(c)
        PROVE  Workforce'
    BY <1>13 DEF Submit, RLock, CheckStop, Return, Direct, Accept, request,
             ChooseQueue, Refuse
  <1>14. ASSUME NEW t \in direct,
               DirectDone(t)
        PROVE  Workforce'
    BY <1>14 DEF DirectDone, DoMsgHandler
  <1>15. CASE UNCHANGED vars
    BY <1>15 DEF vars
  <1> HIDE DEF IInv, TypeOK, Control, Locks, Onces, Stopping, Readers, Workforce,
        Launched, Procs, poolVars, workVars, lockVars, onceVars, readVars, histVars
  <1> QED
    BY <1>1, <1>2, <1>3, <1>4, <1>5, <1>6, <1>7, <1>8, <1>9, <1>10, <1>11,
       <1>12, <1>13, <1>14, <1>15
    DEF Next, StartStep, StopStep, SendStep, WorkerStep,
         WaitStopped, WaitEnds, Finished

\* Accepted requests stay accounted for.
LEMMA TasksStep == IInv /\ [Next]_vars => Tasks'
  <1> SUFFICES ASSUME IInv, [Next]_vars PROVE Tasks'
    OBVIOUS
  <1> USE MsgHandleAssumption DEF IInv, TypeOK, Tasks, OnlyAccepted, AllAccounted,
        poolVars, workVars, lockVars, onceVars, readVars, histVars
  <1>1. ASSUME NEW p \in Starters, StartCritical(p) PROVE Tasks'
    <2>1. queue' = queue
      BY <1>1 DEF StartCritical, Locked, Workforce, Launched, Control, Locks, Procs
    <2>2. UNCHANGED <<finished, direct, accepted, sent, rpc, worker, cur>>
      BY <1>1 DEF StartCritical, Locked
    <2> QED
      BY <2>1, <2>2 DEF InWork, InQueue
  <1>2. ASSUME NEW p \in Starters, StartSpawn(p) PROVE Tasks'
    <2>1. \A u \in Workers : worker[u] = "none"
      BY <1>2 DEF StartSpawn, Workforce, Launched, Control, Locks, Procs
    <2>2. OnlyAccepted'
      BY <1>2, <2>1 DEF StartSpawn
    <2>3. AllAccounted'
      BY <1>2, <2>1 DEF StartSpawn, InWork, InQueue
    <2> QED
      BY <2>2, <2>3
  <1>3. ASSUME NEW c \in Conns, Direct(c) PROVE Tasks'
    <2>1. /\ direct' = direct \cup {request(c)}
          /\ accepted' = accepted \cup {request(c)}
          /\ UNCHANGED <<finished, queue, worker, cur>>
      BY <1>3 DEF Direct, Accept
    <2>2. OnlyAccepted'
      BY <2>1 DEF Task
    <2>3. AllAccounted'
      BY <2>1 DEF InWork, InQueue
    <2> QED
      BY <2>2, <2>3
  <1>4. ASSUME NEW c \in Conns, Enqueue(c) PROVE Tasks'
    <2> DEFINE v == workerID(c)
    <2>1. v \in Workers
      BY <1>4, WorkerExists DEF Enqueue
    <2>2. /\ \A u \in Workers : u # v => queue'[u] = queue[u]
          /\ Len(queue'[v]) = Len(queue[v]) + 1
          /\ \A i \in 1..Len(queue[v]) : queue'[v][i] = queue[v][i]
          /\ queue'[v][Len(queue[v]) + 1] = request(c)
      BY <1>4, <2>1 DEF Enqueue, request
    <2>3. /\ accepted' = accepted \cup {request(c)}
          /\ UNCHANGED <<finished, direct, worker, cur>>
      BY <1>4 DEF Enqueue, Accept
    <2> HIDE DEF v
    <2>4. OnlyAccepted'
      <3>1. ASSUME NEW u \in Workers, NEW i \in 1..Len(queue'[u])
            PROVE  queue'[u][i] \in accepted'
        <4>1. CASE u # v
          BY <2>2, <2>3, <4>1
        <4>2. CASE u = v /\ i \in 1..Len(queue[v])
          BY <2>2, <2>3, <4>2
        <4>3. CASE u = v /\ i = Len(queue[v]) + 1
          BY <2>2, <2>3, <4>3
        <4>4. Len(queue[v]) \in Nat
          BY <2>1
        <4> QED
          BY <2>2, <4>1, <4>2, <4>3, <4>4
      <3> QED
        BY <2>3, <3>1
    <2>5. AllAccounted'
      <3>1. ASSUME NEW t \in accepted, InQueue(t) PROVE InQueue(t)'
        <4>1. PICK u \in Workers : \E i \in 1..Len(queue[u]) : queue[u][i] = t
          BY <3>1 DEF InQueue
        <4>2. CASE u # v
          BY <2>2, <4>1, <4>2 DEF InQueue
        <4>3. CASE u = v
          <5>1. PICK i \in 1..Len(queue[v]) : queue[v][i] = t
            BY <4>1, <4>3
          <5>2. i \in 1..Len(queue'[v]) /\ queue'[v][i] = t
            BY <2>1, <2>2, <5>1
          <5> QED
            BY <2>1, <5>2 DEF InQueue
        <4> QED
          BY <4>2, <4>3
      <3>2. InQueue(request(c))'
        <4>1. (queue'[v][Len(queue[v]) + 1] = request(c)) /\ request(c)' = request(c)
          BY <1>4, <2>2 DEF Enqueue, Return, request
        <4>2. Len(queue[v]) + 1 \in 1..Len(queue'[v])
          BY <2>1, <2>2
        <4> QED
          BY <2>1, <4>1, <4>2 DEF InQueue
      <3>3. request(c)' = request(c)
        BY <1>4 DEF Enqueue, Return, request
      <3> QED
        BY <2>3, <3>1, <3>2, <3>3 DEF InWork
    <2> QED
      BY <2>4, <2>5
  <1>5. ASSUME NEW w \in Workers, Receive(w) PROVE Tasks'
    <2>1. /\ \A u \in Workers : u # w => queue'[u] = queue[u] /\ cur'[u] = cur[u]
          /\ Len(queue[w]) \in Nat \ {0}
          /\ Len(queue'[w]) = Len(queue[w]) - 1
          /\ \A i \in 1..Len(queue'[w]) : queue'[w][i] = queue[w][i + 1]
          /\ cur'[w] = queue[w][1]
      BY <1>5 DEF Receive
    <2>2. /\ UNCHANGED <<finished, direct, accepted>>
          /\ worker' = [worker EXCEPT ![w] = "busy"] /\ worker[w] = "idle"
      BY <1>5 DEF Receive
    <2>3. OnlyAccepted'
      <3>1. ASSUME NEW u \in Workers, NEW i \in 1..Len(queue'[u])
            PROVE  queue'[u][i] \in accepted
        <4>1. CASE u # w
          BY <2>1, <4>1
        <4>2. CASE u = w
          <5>1. i + 1 \in 1..Len(queue[w]) /\ queue'[w][i] = queue[w][i + 1]
            BY <2>1, <4>2
          <5> QED
            BY <4>2, <5>1
        <4> QED
          BY <4>1, <4>2
      <3>2. ASSUME NEW u \in Workers, worker'[u] = "busy" PROVE cur'[u] \in accepted
        BY <2>1, <2>2, <3>2
      <3> QED
        BY <2>2, <3>1, <3>2
    <2>4. AllAccounted'
      <3>1. ASSUME NEW t \in accepted, InWork(t) PROVE InWork(t)'
        BY <2>1, <2>2, <3>1 DEF InWork
      <3>2. ASSUME NEW t \in accepted, InQueue(t) PROVE InWork(t)' \/ InQueue(t)'
        <4>0. PICK u \in Workers : \E i \in 1..Len(queue[u]) : queue[u][i] = t
          BY <3>2 DEF InQueue
        <4>1. PICK i \in 1..Len(queue[u]) : queue[u][i] = t
          BY <4>0
        <4>2. CASE u # w
          BY <2>1, <4>1, <4>2 DEF InQueue
        <4>3. CASE u = w /\ i = 1
          BY <2>1, <2>2, <4>1, <4>3 DEF InWork
        <4>4. CASE u = w /\ i > 1
          <5>1. i - 1 \in 1..Len(queue'[w]) /\ queue'[w][i - 1] = t
            BY <2>1, <4>1, <4>4
          <5> QED
            BY <5>1 DEF InQueue
        <4> QED
          BY <4>1, <4>2, <4>3, <4>4
      <3> QED
        BY <2>2, <3>1, <3>2
    <2> QED
      BY <2>3, <2>4
  <1>6. ASSUME NEW w \in Workers, Exit(w) PROVE Tasks'
    <2>1. UNCHANGED <<finished, direct, accepted, cur, queue>>
      BY <1>6 DEF Exit
    <2>2. worker[w] = "idle" /\ worker' = [worker EXCEPT ![w] = "exited"]
      BY <1>6 DEF Exit
    <2>3. \A t : (InWork(t) => InWork(t)') /\ (InQueue(t) => InQueue(t)')
      BY <2>1, <2>2 DEF InWork, InQueue
    <2> QED
      BY <2>1, <2>2, <2>3
  <1>7. ASSUME NEW w \in Workers, WorkerDone(w) PROVE Tasks'
    <2>1. OnlyAccepted'
      BY <1>7 DEF WorkerDone, DoMsgHandler
    <2>2. AllAccounted'
      <3>1. ASSUME NEW t \in accepted, InWork(t) PROVE t \in finished' \/ InWork(t)'
        BY <1>7, <3>1 DEF WorkerDone, DoMsgHandler, InWork
      <3>2. \A t \in accepted : InQueue(t) => InQueue(t)'
        BY <1>7 DEF WorkerDone, DoMsgHandler, InQueue
      <3> QED
        BY <1>7, <3>1, <3>2 DEF WorkerDone, DoMsgHandler
    <2> QED
      BY <2>1, <2>2
  <1>8. ASSUME NEW t \in direct, DirectDone(t) PROVE Tasks'
    BY <1>8 DEF DirectDone, DoMsgHandler, InWork, InQueue
  <1>9. ASSUME NEW p \in Procs,
               Lock(p)
        PROVE  Tasks'
    <2>1. UNCHANGED <<finished, direct, accepted, worker, cur, queue>>
      BY <1>9 DEF Lock
    <2> QED
      BY <2>1 DEF InWork, InQueue
  <1>10. ASSUME NEW p \in Starters,
               StartEnter(p)
        PROVE  Tasks'
    <2>1. UNCHANGED <<finished, direct, accepted, worker, cur, queue>>
      BY <1>10 DEF StartEnter
    <2> QED
      BY <2>1 DEF InWork, InQueue
  <1>11. ASSUME NEW p \in Stoppers,
               beginStop(p) \/ StopEnter(p) \/ StopCritical(p) \/ StopWait(p)
        PROVE  Tasks'
    <2>1. UNCHANGED <<finished, direct, accepted, worker, cur, queue>>
      BY <1>11 DEF beginStop, StopEnter, StopCritical, Locked, StopWait
    <2> QED
      BY <2>1 DEF InWork, InQueue
  <1>12. ASSUME NEW c \in Conns,
               Submit(c) \/ RLock(c) \/ CheckStop(c) \/ ChooseQueue(c) \/ Refuse(c)
        PROVE  Tasks'
    <2>1. UNCHANGED <<finished, direct, accepted, worker, cur, queue>>
      BY <1>12 DEF Submit, RLock, CheckStop, Return, ChooseQueue, Refuse
    <2> QED
      BY <2>1 DEF InWork, InQueue
  <1>13. CASE UNCHANGED vars
    BY <1>13 DEF vars, InWork, InQueue
  <1> HIDE DEF IInv, TypeOK, Tasks, OnlyAccepted, AllAccounted,
        poolVars, workVars, lockVars, onceVars, readVars, histVars
  <1> QED
    BY <1>1, <1>2, <1>3, <1>4, <1>5, <1>6, <1>7, <1>8, <1>9, <1>10, <1>11,
       <1>12, <1>13
    DEF Next, StartStep, StopStep, SendStep, WorkerStep,
         WaitStopped, WaitEnds, Finished

\* Requests stay in the order they came.
LEMMA SequencingStep == IInv /\ [Next]_vars => Sequencing'
  <1> SUFFICES ASSUME IInv, [Next]_vars PROVE Sequencing'
    OBVIOUS
  <1> USE MsgHandleAssumption DEF IInv, TypeOK, Sequencing, Fresh, Order, Tasks, OnlyAccepted, Task,
        poolVars, workVars, lockVars, onceVars, readVars, histVars
  <1>1. ASSUME NEW p \in Starters, StartCritical(p) PROVE Sequencing'
    BY <1>1 DEF StartCritical, Locked
  <1>2. ASSUME NEW p \in Starters, StartSpawn(p) PROVE Sequencing'
    BY <1>2 DEF StartSpawn
  <1>3. ASSUME NEW c \in Conns, Submit(c) PROVE Sequencing'
    BY <1>3 DEF Submit
  <1>4. ASSUME NEW c \in Conns, RLock(c) PROVE Sequencing'
    BY <1>4 DEF RLock
  <1>5. ASSUME NEW c \in Conns, CheckStop(c) PROVE Sequencing'
    BY <1>5 DEF CheckStop, Return
  <1>6. ASSUME NEW c \in Conns, Direct(c) PROVE Sequencing'
    BY <1>6 DEF Direct, Return, Accept, request
  <1>7. ASSUME NEW c \in Conns, ChooseQueue(c) PROVE Sequencing'
    BY <1>7 DEF ChooseQueue
  <1>8. ASSUME NEW c \in Conns, Enqueue(c) PROVE Sequencing'
    <2> DEFINE v == workerID(c)
               n == Len(queue[v])
    <2>1. v \in Workers /\ n \in Nat
      BY <1>8, WorkerExists DEF Enqueue
    <2>2. /\ \A u \in Workers : u # v => queue'[u] = queue[u]
          /\ Len(queue'[v]) = n + 1
          /\ \A i \in 1..n : queue'[v][i] = queue[v][i]
          /\ queue'[v][n + 1] = request(c)
      BY <1>8, <2>1 DEF Enqueue, request
    <2>3. /\ request(c)[1] = c /\ request(c)[2] = sent[c]
          /\ \A t \in accepted : t[1] = c => t[2] < sent[c]
      BY <1>8 DEF Enqueue, request
    <2>4. UNCHANGED <<worker, cur, sent>>
      BY <1>8 DEF Enqueue, Return
    <2>5. Fresh'
      BY <1>8 DEF Enqueue, Return, Accept, request
    <2> USE <2>1, <2>2
    <2> HIDE DEF v, n, Fresh, Task
    <2>6. ASSUME NEW u \in Workers, NEW i \in 1..Len(queue'[u])
          PROVE  workerID(queue'[u][i][1]) = u
      <3>1. CASE u # v
        BY <3>1
      <3>2. CASE u = v /\ i \in 1..n
        BY <3>2 DEF n
      <3>3. CASE u = v /\ i = n + 1
        BY <2>3, <3>3 DEF v
      <3> QED
        BY <3>1, <3>2, <3>3
    <2>7. ASSUME NEW u \in Workers, NEW i \in 1..Len(queue'[u]), NEW j \in 1..Len(queue'[u]),
                 i < j, queue'[u][i][1] = queue'[u][j][1]
          PROVE  queue'[u][i][2] < queue'[u][j][2]
      <3>1. CASE u # v
        BY <2>7, <3>1
      <3>2. CASE u = v /\ j \in 1..n
        <4>1. i \in 1..n /\ j \in 1..Len(queue[v]) /\ i \in 1..Len(queue[v])
          BY <2>7, <3>2 DEF n
        <4> QED
          BY <2>7, <3>2, <4>1
      <3>3. CASE u = v /\ j = n + 1
        <4>1. i \in 1..n /\ queue[v][i] \in accepted
          BY <2>7, <3>3 DEF n
        <4>2. queue'[u][i] = queue[v][i] /\ queue'[u][j] = request(c)
          BY <3>3, <4>1
        <4>3. request(c)[1] = c /\ request(c)[2] = sent[c]
          BY DEF request
        <4>4. queue[v][i][1] = c => queue[v][i][2] < sent[c]
          BY <2>3, <4>1
        <4> QED
          BY ONLY <2>7, <4>2, <4>3, <4>4
      <3> QED
        BY <3>1, <3>2, <3>3
    <2>8. ASSUME NEW u \in Workers, NEW i \in 1..Len(queue'[u]),
                 worker[u] = "busy", queue'[u][i][1] = cur[u][1]
          PROVE  cur[u][2] < queue'[u][i][2]
      <3>1. CASE u # v
        BY <2>8, <3>1
      <3>2. CASE u = v /\ i \in 1..n
        BY <2>8, <3>2 DEF n
      <3>3. CASE u = v /\ i = n + 1
        BY <2>3, <2>8, <3>3
      <3> QED
        BY <3>1, <3>2, <3>3
    <2> QED
      BY <2>4, <2>5, <2>6, <2>7, <2>8
  <1>9. ASSUME NEW c \in Conns, Refuse(c) PROVE Sequencing'
    BY <1>9 DEF Refuse, Return
  <1>10. ASSUME NEW w \in Workers, Receive(w) PROVE Sequencing'
    <2> DEFINE n == Len(queue[w])
    <2>1. n \in Nat \ {0} /\ Len(queue'[w]) = n - 1
      BY <1>10 DEF Receive
    <2>2. /\ \A u \in Workers : u # w => queue'[u] = queue[u] /\ cur'[u] = cur[u]
          /\ \A i \in 1..(n - 1) : queue'[w][i] = queue[w][i + 1]
          /\ cur'[w] = queue[w][1]
      BY <1>10 DEF Receive
    <2>3. \A u \in Workers : u # w => worker'[u] = worker[u]
      BY <1>10 DEF Receive
    <2>4. Fresh'
      BY <1>10 DEF Receive
    <2>5. \A i \in 1..(n - 1) : i + 1 \in 1..Len(queue[w])
      BY <2>1
    <2> USE <2>1, <2>2
    <2> HIDE DEF n, Fresh, Task
    <2>6. ASSUME NEW u \in Workers, NEW i \in 1..Len(queue'[u])
          PROVE  workerID(queue'[u][i][1]) = u
      <3>1. CASE u # w
        BY <3>1
      <3>2. CASE u = w
        <4>1. i + 1 \in 1..Len(queue[w]) /\ queue'[w][i] = queue[w][i + 1]
          BY <2>5, <3>2
        <4> QED
          BY <3>2, <4>1
      <3> QED
        BY <3>1, <3>2
    <2>7. ASSUME NEW u \in Workers, NEW i \in 1..Len(queue'[u]), NEW j \in 1..Len(queue'[u]),
                 i < j, queue'[u][i][1] = queue'[u][j][1]
          PROVE  queue'[u][i][2] < queue'[u][j][2]
      <3>1. CASE u # w
        BY <2>7, <3>1
      <3>2. CASE u = w
        <4>1. /\ i + 1 \in 1..Len(queue[w]) /\ j + 1 \in 1..Len(queue[w]) /\ i + 1 < j + 1
              /\ queue'[w][i] = queue[w][i + 1] /\ queue'[w][j] = queue[w][j + 1]
          BY <2>5, <2>7, <3>2
        <4> QED
          BY <2>7, <3>2, <4>1
      <3> QED
        BY <3>1, <3>2
    <2>8. ASSUME NEW u \in Workers, worker'[u] = "busy" PROVE workerID(cur'[u][1]) = u
      <3>1. 1 \in 1..Len(queue[w])
        BY DEF n
      <3> QED
        BY <2>3, <2>8, <3>1
    <2>9. ASSUME NEW u \in Workers, NEW i \in 1..Len(queue'[u]),
                 worker'[u] = "busy", queue'[u][i][1] = cur'[u][1]
          PROVE  cur'[u][2] < queue'[u][i][2]
      <3>1. CASE u # w
        BY <2>3, <2>9, <3>1
      <3>2. CASE u = w
        <4>1. /\ 1 \in 1..Len(queue[w]) /\ i + 1 \in 1..Len(queue[w]) /\ 1 < i + 1
              /\ queue'[w][i] = queue[w][i + 1]
          BY <2>5, <3>2 DEF n
        <4> QED
          BY <2>9, <3>2, <4>1
      <3> QED
        BY <3>1, <3>2
    <2> QED
      BY <2>4, <2>6, <2>7, <2>8, <2>9
  <1>11. ASSUME NEW w \in Workers, Exit(w) PROVE Sequencing'
    BY <1>11 DEF Exit
  <1>12. ASSUME NEW w \in Workers, WorkerDone(w) PROVE Sequencing'
    BY <1>12 DEF WorkerDone, DoMsgHandler
  <1>13. ASSUME NEW p \in Procs,
               Lock(p)
        PROVE  Sequencing'
    BY <1>13 DEF Lock
  <1>14. ASSUME NEW p \in Starters,
               StartEnter(p)
        PROVE  Sequencing'
    BY <1>14 DEF StartEnter
  <1>15. ASSUME NEW p \in Stoppers,
               beginStop(p) \/ StopEnter(p) \/ StopCritical(p) \/ StopWait(p)
        PROVE  Sequencing'
    BY <1>15 DEF beginStop, StopEnter, StopCritical, Locked, StopWait
  <1>17. ASSUME NEW t \in direct,
               DirectDone(t)
        PROVE  Sequencing'
    BY <1>17 DEF DirectDone, DoMsgHandler
  <1>18. CASE UNCHANGED vars
    BY <1>18 DEF vars
  <1> HIDE DEF IInv, TypeOK, Sequencing, Fresh, Order, Tasks, OnlyAccepted, Task,
        poolVars, workVars, lockVars, onceVars, readVars, histVars
  <1> QED
    BY <1>1, <1>2, <1>3, <1>4, <1>5, <1>6, <1>7, <1>8, <1>9, <1>10, <1>11,
       <1>12, <1>13, <1>14, <1>15, <1>17, <1>18
    DEF Next, StartStep, StopStep, SendStep, WorkerStep,
         WaitStopped, WaitEnds, Finished

\* No request is executed twice.
LEMMA OnceStep == IInv /\ [Next]_vars => ExactlyOnce'
  <1> SUFFICES ASSUME IInv, [Next]_vars PROVE ExactlyOnce'
    OBVIOUS
  <1> USE MsgHandleAssumption DEF IInv, TypeOK, ExactlyOnce, poolVars, workVars, lockVars, onceVars, readVars, histVars

  <1>a. OnlyAccepted
    BY DEF Tasks
  <1>1. ASSUME NEW p \in Starters, StartCritical(p) PROVE ExactlyOnce'
    BY <1>1 DEF StartCritical, Locked, Workforce, Launched, Control, Locks, Procs
  <1>2. ASSUME NEW p \in Starters, StartSpawn(p) PROVE ExactlyOnce'
    BY <1>2 DEF StartSpawn, Workforce
  <1>3. ASSUME NEW c \in Conns, Direct(c) PROVE ExactlyOnce'
    <2>1. request(c) \notin accepted
      BY <1>3, RequestIsNew DEF Direct
    <2> QED
      BY <1>3, <1>a, <2>1 DEF Direct, OnlyAccepted, Accept
  <1>4. ASSUME NEW c \in Conns, Enqueue(c) PROVE ExactlyOnce'
    <2> DEFINE v == workerID(c)
    <2>1. request(c) \notin accepted /\ v \in Workers
      BY <1>4, RequestIsNew, WorkerExists DEF Enqueue
    <2>2. /\ \A u \in Workers : u # v => queue'[u] = queue[u]
          /\ Len(queue'[v]) = Len(queue[v]) + 1 /\ Len(queue[v]) \in Nat
          /\ \A i \in 1..Len(queue[v]) : queue'[v][i] = queue[v][i]
          /\ queue'[v][Len(queue[v]) + 1] = request(c)
      BY <1>4, <2>1 DEF Enqueue, request
    <2>3. UNCHANGED <<finished, direct, worker, cur>>
      BY <1>4 DEF Enqueue, Accept
    <2>4. request(c) \notin finished \cup direct
      BY <1>a, <2>1 DEF OnlyAccepted
    <2> HIDE DEF v
    <2>5. ASSUME NEW u \in Workers, NEW i \in 1..Len(queue'[u])
          PROVE  queue'[u][i] \notin finished \cup direct
      <3>1. CASE u # v
        BY <2>2, <3>1
      <3>2. CASE u = v /\ i \in 1..Len(queue[v])
        BY <2>2, <3>2
      <3>3. CASE u = v /\ i = Len(queue[v]) + 1
        BY <2>2, <2>4, <3>3
      <3> QED
        BY <2>2, <3>1, <3>2, <3>3
    <2> QED
      BY <2>3, <2>5
  <1>5. ASSUME NEW w \in Workers, Receive(w) PROVE ExactlyOnce'
    BY <1>5 DEF Receive
  <1>6. ASSUME NEW w \in Workers, Exit(w) PROVE ExactlyOnce'
    BY <1>6 DEF Exit
  <1>7. ASSUME NEW w \in Workers, WorkerDone(w) PROVE ExactlyOnce'
    <2>1. /\ worker[w] = "busy" /\ worker' = [worker EXCEPT ![w] = "idle"]
          /\ cur' = [cur EXCEPT ![w] = NoTask] /\ finished' = finished \cup {cur[w]}
          /\ UNCHANGED <<queue, direct>>
      BY <1>7 DEF WorkerDone, DoMsgHandler
    <2>2. cur[w] \notin direct
      BY <2>1
    <2>3. ASSUME NEW u \in Workers, u # w, worker[u] = "busy" PROVE cur[u] # cur[w]
      BY <2>1, <2>3 DEF Sequencing, Order
    <2>4. ASSUME NEW u \in Workers, NEW i \in 1..Len(queue[u]) PROVE queue[u][i] # cur[w]
      <3>1. CASE u # w
        BY <2>1, <2>4, <3>1 DEF Sequencing, Order
      <3>2. CASE u = w
        <4>1. queue[w][i] \in Task
          BY <2>4, <3>2
        <4>2. queue[w][i][2] \in Nat
          BY <4>1 DEF Task
        <4>3. queue[w][i][1] = cur[w][1] => cur[w][2] < queue[w][i][2]
          BY <2>1, <2>4, <3>2 DEF Sequencing, Order
        <4> QED
          BY ONLY <3>2, <4>2, <4>3
      <3> QED
        BY <3>1, <3>2
    <2> QED
      BY <2>1, <2>2, <2>3, <2>4
  <1>8. ASSUME NEW t \in direct, DirectDone(t) PROVE ExactlyOnce'
    BY <1>8 DEF DirectDone, DoMsgHandler
  <1>9. ASSUME NEW p \in Procs,
               Lock(p)
        PROVE  ExactlyOnce'
    BY <1>9 DEF Lock
  <1>10. ASSUME NEW p \in Starters,
               StartEnter(p)
        PROVE  ExactlyOnce'
    BY <1>10 DEF StartEnter
  <1>11. ASSUME NEW p \in Stoppers,
               beginStop(p) \/ StopEnter(p) \/ StopCritical(p) \/ StopWait(p)
        PROVE  ExactlyOnce'
    BY <1>11 DEF beginStop, StopEnter, StopCritical, Locked, StopWait
  <1>12. ASSUME NEW c \in Conns,
               Submit(c) \/ RLock(c) \/ CheckStop(c) \/ ChooseQueue(c) \/ Refuse(c)
        PROVE  ExactlyOnce'
    BY <1>12 DEF Submit, RLock, CheckStop, Return, ChooseQueue, Refuse
  <1>13. CASE UNCHANGED vars
    BY <1>13 DEF vars
  <1> HIDE DEF IInv, TypeOK, ExactlyOnce, poolVars, workVars, lockVars, onceVars, readVars, histVars
  <1> QED
    BY <1>1, <1>2, <1>3, <1>4, <1>5, <1>6, <1>7, <1>8, <1>9, <1>10, <1>11,
       <1>12, <1>13
    DEF Next, StartStep, StopStep, SendStep, WorkerStep,
         WaitStopped, WaitEnds, Finished

\* The counter follows the goroutines it counts.
LEMMA CounterStep == IInv /\ [Next]_vars => WaitGroupExact'
  <1> SUFFICES ASSUME IInv, [Next]_vars PROVE WaitGroupExact'
    OBVIOUS
  <1> USE MsgHandleAssumption DEF IInv, TypeOK, Procs, poolVars, workVars, lockVars, onceVars, readVars, histVars

  <1>w. WaitGroupExact <=> wg = Cardinality(direct) + Cardinality(Staff) + Starting
    BY DEF WaitGroupExact, Staff, Starting
  <1>v. WaitGroupExact' <=> wg' = Cardinality(direct') + Cardinality(Staff') + Starting'
    BY DEF WaitGroupExact, Staff, Starting
  <1>s. ASSUME Staff' = Staff, Starting' = Starting, wg' = wg, direct' = direct
        PROVE  WaitGroupExact'
    BY <1>w, <1>v, <1>s
  <1>1. ASSUME NEW p \in Procs, Lock(p) PROVE WaitGroupExact'
    BY <1>1, <1>s DEF Lock, Staff, Starting
  <1>2. ASSUME NEW p \in Starters, StartEnter(p) PROVE WaitGroupExact'
    BY <1>2, <1>s DEF StartEnter, Staff, Starting
  <1>3. ASSUME NEW p \in Starters, StartCritical(p) PROVE WaitGroupExact'
    <2>1. Staff' = Staff /\ direct' = direct
      BY <1>3 DEF StartCritical, Locked, Staff
    <2>2. \A q \in Starters : ppc[q] # "spawn"
      BY <1>3 DEF StartCritical, Locked, Control, Locks, Onces
    <2>3. CASE stopChan
      <3>1. Starting' = Starting
        BY <1>3, <2>2, <2>3 DEF StartCritical, Locked, Starting
      <3> QED
        BY <1>3, <1>s, <2>1, <2>3, <3>1 DEF StartCritical, Locked
    <2>4. CASE ~stopChan
      <3>1. Starting = 0
        BY <2>2 DEF Starting
      <3>2. ppc'[p] = "spawn"
        BY <1>3, <2>4 DEF StartCritical, Locked
      <3>3. Starting' = WorkerPoolSize
        BY <3>2 DEF Starting
      <3>4. wg' = wg + WorkerPoolSize
        BY <1>3, <2>4 DEF StartCritical, Locked
      <3> QED
        BY <1>w, <1>v, <2>1, <3>1, <3>3, <3>4, Counts
    <2> QED
      BY <2>3, <2>4
  <1>4. ASSUME NEW p \in Starters, StartSpawn(p) PROVE WaitGroupExact'
    <2>1. wg' = wg /\ direct' = direct
      BY <1>4 DEF StartSpawn
    <2>2. Staff = {} /\ Starting = WorkerPoolSize
      BY <1>4 DEF StartSpawn, Workforce, Staff, Starting
    <2>3. Staff' = Workers
      BY <1>4 DEF StartSpawn, Staff
    <2>4. Starting' = 0
      BY <1>4 DEF StartSpawn, Starting, Control, Onces
    <2> QED
      BY <1>w, <1>v, <2>1, <2>2, <2>3, <2>4, Counts, FS_EmptySet
  <1>5. ASSUME NEW p \in Stoppers, beginStop(p) PROVE WaitGroupExact'
    BY <1>5, <1>s DEF beginStop, Staff, Starting
  <1>6. ASSUME NEW p \in Stoppers, StopEnter(p) PROVE WaitGroupExact'
    BY <1>6, <1>s DEF StopEnter, Staff, Starting
  <1>7. ASSUME NEW p \in Stoppers, StopCritical(p) PROVE WaitGroupExact'
    BY <1>7, <1>s DEF StopCritical, Locked, Staff, Starting
  <1>8. ASSUME NEW p \in Stoppers, StopWait(p) PROVE WaitGroupExact'
    BY <1>8, <1>s DEF StopWait, Staff, Starting
  <1>9. ASSUME NEW c \in Conns, Direct(c) PROVE WaitGroupExact'
    <2>1. Staff' = Staff /\ Starting' = Starting
      BY <1>9 DEF Direct, Return, Accept, request, Staff, Starting
    <2>2. request(c) \notin direct
      BY <1>9, RequestIsNew DEF Direct, Tasks, OnlyAccepted
    <2>3. wg' = wg + 1 /\ direct' = direct \cup {request(c)}
      BY <1>9 DEF Direct
    <2>4. Cardinality(direct') = Cardinality(direct) + 1
      BY <2>2, <2>3, Counts, FS_AddElement
    <2> QED
      BY <1>w, <1>v, <2>1, <2>3, <2>4, Counts
  <1>10. ASSUME NEW w \in Workers, Receive(w) PROVE WaitGroupExact'
    BY <1>10, <1>s DEF Receive, Staff, Starting
  <1>11. ASSUME NEW w \in Workers, Exit(w) PROVE WaitGroupExact'
    <2>1. direct' = direct /\ Starting' = Starting /\ wg' = wg - 1
      BY <1>11 DEF Exit, Starting
    <2>2. w \in Staff /\ Staff' = Staff \ {w}
      BY <1>11 DEF Exit, Staff
    <2>3. Cardinality(Staff') = Cardinality(Staff) - 1
      BY <2>2, Counts, FS_RemoveElement
    <2> QED
      BY <1>w, <1>v, <2>1, <2>3, Counts
  <1>12. ASSUME NEW w \in Workers, WorkerDone(w) PROVE WaitGroupExact'
    BY <1>12, <1>s DEF WorkerDone, DoMsgHandler, Staff, Starting
  <1>13. ASSUME NEW t \in direct, DirectDone(t) PROVE WaitGroupExact'
    <2>1. Staff' = Staff /\ Starting' = Starting /\ wg' = wg - 1
      BY <1>13 DEF DirectDone, DoMsgHandler, Staff, Starting
    <2>2. t \in direct /\ direct' = direct \ {t}
      BY <1>13 DEF DirectDone, DoMsgHandler
    <2>3. Cardinality(direct') = Cardinality(direct) - 1
      BY <2>2, Counts, FS_RemoveElement
    <2> QED
      BY <1>w, <1>v, <2>1, <2>3, Counts
  <1>14. ASSUME NEW c \in Conns,
               Submit(c) \/ RLock(c) \/ CheckStop(c) \/ ChooseQueue(c) \/ Enqueue(c)
               \/ Refuse(c)
        PROVE  WaitGroupExact'
    <2>1. UNCHANGED <<wg, direct, worker, ppc>>
      BY <1>14 DEF Submit, RLock, CheckStop, Return, ChooseQueue, Enqueue, Accept,
               Full, request, Refuse
    <2> QED
      BY <1>s, <2>1 DEF Staff, Starting
  <1>15. CASE UNCHANGED vars
    BY <1>15, <1>s DEF vars, Staff, Starting
  <1> HIDE DEF IInv, TypeOK, Procs, poolVars, workVars, lockVars, onceVars, readVars, histVars
  <1> QED
    BY <1>1, <1>2, <1>3, <1>4, <1>5, <1>6, <1>7, <1>8, <1>9, <1>10, <1>11,
       <1>12, <1>13, <1>14, <1>15
    DEF Next, StartStep, StopStep, SendStep, WorkerStep,
         WaitStopped, WaitEnds, Finished

\* Every step keeps the types, and wg is never negative.
LEMMA TypeStep == IInv /\ [Next]_vars => TypeOK'
  <1> SUFFICES ASSUME IInv, [Next]_vars PROVE TypeOK'
    OBVIOUS
  <1> USE MsgHandleAssumption DEF IInv, TypeOK, Procs, Task, NoTask,
        poolVars, workVars, lockVars, onceVars, readVars, histVars

  <1>1. ASSUME NEW p \in Procs, Lock(p) PROVE TypeOK'
    BY <1>1 DEF Lock
  <1>2. ASSUME NEW p \in Starters, StartEnter(p) PROVE TypeOK'
    BY <1>2 DEF StartEnter
  <1>3. ASSUME NEW p \in Starters, StartCritical(p) PROVE TypeOK'
    <2>1. wg' \in Nat
      BY <1>3 DEF StartCritical, Locked
    <2>2. queue' \in [Workers -> Seq(Task)] /\ \A u \in Workers : Len(queue'[u]) <= MaxWorkerTaskLen
      <3> HIDE DEF Task
      <3>1. CASE queue' = queue
        BY <3>1
      <3>2. CASE queue' = [u \in Workers |-> <<>>]
        <4>1. <<>> \in Seq(Task) /\ Len(<<>>) = 0
          OBVIOUS
        <4> QED
          BY <3>2, <4>1
      <3> QED
        BY <1>3, <3>1, <3>2 DEF StartCritical, Locked
    <2> QED
      BY <1>3, <2>1, <2>2 DEF StartCritical, Locked
  <1>4. ASSUME NEW p \in Starters, StartSpawn(p) PROVE TypeOK'
    BY <1>4 DEF StartSpawn
  <1>5. ASSUME NEW p \in Stoppers, beginStop(p) PROVE TypeOK'
    BY <1>5 DEF beginStop
  <1>6. ASSUME NEW p \in Stoppers, StopEnter(p) PROVE TypeOK'
    BY <1>6 DEF StopEnter
  <1>7. ASSUME NEW p \in Stoppers, StopCritical(p) PROVE TypeOK'
    BY <1>7 DEF StopCritical, Locked
  <1>8. ASSUME NEW p \in Stoppers, StopWait(p) PROVE TypeOK'
    BY <1>8 DEF StopWait
  <1>9. ASSUME NEW c \in Conns, Submit(c) PROVE TypeOK'
    BY <1>9 DEF Submit
  <1>10. ASSUME NEW c \in Conns, RLock(c) PROVE TypeOK'
    BY <1>10 DEF RLock
  <1>11. ASSUME NEW c \in Conns, CheckStop(c) PROVE TypeOK'
    BY <1>11 DEF CheckStop, Return
  <1>12. ASSUME NEW c \in Conns, Direct(c) PROVE TypeOK'
    <2>1. request(c) \in Task
      BY <1>12, RequestIsNew DEF Direct
    <2>2. wg' \in Nat
      BY <1>12 DEF Direct
    <2> HIDE DEF Task
    <2> QED
      BY <1>12, <2>1, <2>2 DEF Direct, Return, Accept
  <1>13. ASSUME NEW c \in Conns, ChooseQueue(c) PROVE TypeOK'
    BY <1>13 DEF ChooseQueue
  <1>14. ASSUME NEW c \in Conns, Enqueue(c) PROVE TypeOK'
    <2>1. request(c) \in Task
      BY <1>14, RequestIsNew DEF Enqueue
    <2> HIDE DEF Task
    <2>2. queue' \in [Workers -> Seq(Task)] /\ \A u \in Workers : Len(queue'[u]) <= MaxWorkerTaskLen
      <3>1. \A s \in Seq(Task) : /\ Append(s, request(c)) \in Seq(Task)
                                /\ Len(Append(s, request(c))) = Len(s) + 1
        BY <2>1
      <3>2. queue' = [queue EXCEPT ![workerID(c)] = Append(@, request(c))]
        BY <1>14 DEF Enqueue
      <3>3. workerID(c) \in Workers
        BY <1>14, WorkerExists DEF Enqueue
      <3>4. ~(Len(queue[workerID(c)]) >= MaxWorkerTaskLen)
        BY <1>14 DEF Enqueue, Full
      <3>5. queue[workerID(c)] \in Seq(Task) /\ Len(queue[workerID(c)]) \in Nat
        BY <3>3
      <3>6. queue' \in [Workers -> Seq(Task)]
        BY <3>1, <3>2, <3>3, <3>5
      <3>7. ASSUME NEW u \in Workers PROVE Len(queue'[u]) <= MaxWorkerTaskLen
        <4>1. CASE u # workerID(c)
          BY <3>2, <4>1
        <4>2. CASE u = workerID(c)
          BY <3>1, <3>2, <3>4, <3>5, <4>2
        <4> QED
          BY <4>1, <4>2
      <3> QED
        BY <3>6, <3>7
    <2> QED
      BY <1>14, <2>1, <2>2 DEF Enqueue, Return, Accept
  <1>15. ASSUME NEW c \in Conns, Refuse(c) PROVE TypeOK'
    BY <1>15 DEF Refuse, Return
  <1>17. ASSUME NEW w \in Workers, Receive(w) PROVE TypeOK'
    <2> HIDE DEF Task
    <2>1. queue[w] \in Seq(Task) /\ queue[w] # <<>>
      BY <1>17 DEF Receive
    <2>2. /\ Head(queue[w]) \in Task /\ Tail(queue[w]) \in Seq(Task)
          /\ Len(Tail(queue[w])) <= Len(queue[w])
      BY <2>1
    <2>3. queue' \in [Workers -> Seq(Task)] /\ \A u \in Workers : Len(queue'[u]) <= MaxWorkerTaskLen
      <3>1. queue' = [queue EXCEPT ![w] = Tail(@)]
        BY <1>17 DEF Receive
      <3>2. ASSUME NEW u \in Workers PROVE Len(queue'[u]) <= MaxWorkerTaskLen
        BY <2>1, <2>2, <3>1
      <3> QED
        BY <2>2, <3>1, <3>2
    <2> QED
      BY <1>17, <2>2, <2>3 DEF Receive
  <1>18. ASSUME NEW w \in Workers, Exit(w) PROVE TypeOK'
    <2>1. w \in Staff
      BY <1>18 DEF Exit, Staff
    <2>2. wg' \in Nat
      BY <1>18, <2>1, ZeroIsNobody DEF Exit
    <2> QED
      BY <1>18, <2>2 DEF Exit
  <1>19. ASSUME NEW w \in Workers, WorkerDone(w) PROVE TypeOK'
    <2>1. cur[w] \in Task
      BY <1>19 DEF WorkerDone, Tasks, OnlyAccepted
    <2> HIDE DEF Task
    <2> QED
      BY <1>19, <2>1 DEF WorkerDone, DoMsgHandler
  <1>20. ASSUME NEW t \in direct, DirectDone(t) PROVE TypeOK'
    <2>1. wg' \in Nat
      BY <1>20, ZeroIsNobody DEF DirectDone
    <2> QED
      BY <1>20, <2>1 DEF DirectDone, DoMsgHandler
  <1>21. CASE UNCHANGED vars
    BY <1>21 DEF vars
  <1> HIDE DEF IInv, TypeOK, Procs, Task, NoTask,
        poolVars, workVars, lockVars, onceVars, readVars, histVars
  <1> QED
    BY <1>1, <1>2, <1>3, <1>4, <1>5, <1>6, <1>7, <1>8, <1>9, <1>10, <1>11,
       <1>12, <1>13, <1>14, <1>15, <1>17, <1>18, <1>19, <1>20, <1>21
    DEF Next, StartStep, StopStep, SendStep, WorkerStep,
         WaitStopped, WaitEnds, Finished

\* What a stop has waited for does not come back.
LEMMA ReturnedStep == IInv /\ [Next]_vars => Returned'
  <1> SUFFICES ASSUME IInv, [Next]_vars PROVE Returned'
    OBVIOUS
  <1> USE MsgHandleAssumption DEF IInv, TypeOK, Returned, Procs, poolVars, workVars, lockVars, onceVars, readVars, histVars
  <1>1. ASSUME NEW p \in Procs, Lock(p) PROVE Returned'
    BY <1>1 DEF Lock
  <1>2. ASSUME NEW p \in Starters, StartEnter(p) PROVE Returned'
    BY <1>2 DEF StartEnter
  <1>3. ASSUME NEW p \in Starters, StartCritical(p) PROVE Returned'
    BY <1>3 DEF StartCritical, Locked, Control, Stopping, Locks
  <1>4. ASSUME NEW p \in Starters, StartSpawn(p) PROVE Returned'
    BY <1>4 DEF StartSpawn
  <1>5. ASSUME NEW p \in Stoppers, beginStop(p) PROVE Returned'
    BY <1>5 DEF beginStop
  <1>6. ASSUME NEW p \in Stoppers, StopEnter(p) PROVE Returned'
    BY <1>6 DEF StopEnter
  <1>7. ASSUME NEW p \in Stoppers, StopCritical(p) PROVE Returned'
    BY <1>7 DEF StopCritical, Locked
  <1>8. ASSUME NEW p \in Stoppers, StopWait(p) PROVE Returned'
    BY <1>8 DEF StopWait
  <1>9. ASSUME NEW c \in Conns, Direct(c) PROVE Returned'
    BY <1>9 DEF Direct, Return, Accept, request, Control, Stopping, Readers
  <1>10. ASSUME NEW w \in Workers, Exit(w) PROVE Returned'
    <2>1. w \in Staff
      BY <1>10 DEF Exit, Staff
    <2> QED
      BY <1>10, <2>1, ZeroIsNobody DEF Exit
  <1>11. ASSUME NEW t \in direct, DirectDone(t) PROVE Returned'
    <2>1. wg > 0
      BY <1>11, ZeroIsNobody
    <2> QED
      BY <1>11, <2>1 DEF DirectDone
  <1>12. ASSUME NEW c \in Conns,
               Submit(c) \/ RLock(c) \/ CheckStop(c) \/ ChooseQueue(c) \/ Enqueue(c)
               \/ Refuse(c)
        PROVE  Returned'
    BY <1>12 DEF Submit, RLock, CheckStop, Return, ChooseQueue, Enqueue, Accept, Full,
             request, Refuse
  <1>13. ASSUME NEW w \in Workers,
               Receive(w) \/ WorkerDone(w)
        PROVE  Returned'
    BY <1>13 DEF Receive, WorkerDone, DoMsgHandler
  <1>14. CASE UNCHANGED vars
    BY <1>14 DEF vars
  <1> HIDE DEF IInv, TypeOK, Returned, Procs, poolVars, workVars, lockVars, onceVars, readVars, histVars
  <1> QED
    BY <1>1, <1>2, <1>3, <1>4, <1>5, <1>6, <1>7, <1>8, <1>9, <1>10, <1>11,
       <1>12, <1>13, <1>14
    DEF Next, StartStep, StopStep, SendStep, WorkerStep,
         WaitStopped, WaitEnds, Finished

-----------------------------------------------------------------------------
\* Init satisfies the invariant.
LEMMA InitIInv == Init => IInv
  <1> SUFFICES ASSUME Init PROVE IInv
    OBVIOUS
  <1> USE MsgHandleAssumption DEF Init
  <1>1. TypeOK
    <2>1. <<>> \in Seq(Task) /\ Len(<<>>) = 0
      OBVIOUS
    <2>2. queue \in [Workers -> Seq(Task)] /\ \A w \in Workers : Len(queue[w]) <= MaxWorkerTaskLen
      BY <2>1
    <2>3. cur \in [Workers -> Task \cup {NoTask}] /\ direct \subseteq Task
      OBVIOUS
    <2>4. wg \in Nat /\ sent \in [Conns -> 0..MaxMsgs]
      OBVIOUS
    <2>5. ppc \in [Procs -> {"idle", "once", "lock", "crit", "spawn", "wait", "returned"}]
      OBVIOUS
    <2>6. worker \in [Workers -> {"none", "idle", "busy", "exited"}]
      OBVIOUS
    <2>7. rpc \in [Conns -> {"idle", "calling", "locked", "dispatch", "queueing"}]
      OBVIOUS
    <2> QED
      BY <2>2, <2>3, <2>4, <2>5, <2>6, <2>7 DEF TypeOK
  <1>2. Control /\ Workforce
    BY DEF Control, Locks, Onces, Stopping, Readers, Workforce, Launched, Procs
  <1>3. Tasks /\ Sequencing /\ ExactlyOnce
    BY DEF Tasks, OnlyAccepted, AllAccounted, Sequencing, Fresh, Order, ExactlyOnce
  <1>4. Returned
    BY DEF Returned, Procs
  <1>5. WaitGroupExact
    <2>1. {w \in Workers : worker[w] \in {"idle", "busy"}} = {}
      OBVIOUS
    <2>2. ~ \E p \in Starters : ppc[p] = "spawn"
      BY DEF Procs
    <2>3. direct = {} /\ wg = 0
      OBVIOUS
    <2>4. Cardinality({}) = 0
      BY FS_EmptySet
    <2>5. /\ Cardinality(direct) = 0
          /\ Cardinality({w \in Workers : worker[w] \in {"idle", "busy"}}) = 0
      BY <2>1, <2>3, <2>4
    <2> HIDE DEF Init
    <2> QED
      BY <2>2, <2>3, <2>5 DEF WaitGroupExact
  <1> QED
    BY <1>1, <1>2, <1>3, <1>4, <1>5 DEF IInv

\* The inductive invariant of the pool holds in every reachable state.
THEOREM Invariance == Spec => []IInv
  <1>1. Init => IInv
    BY InitIInv
  <1>2. IInv /\ [Next]_vars => IInv'
    <2> SUFFICES ASSUME IInv, [Next]_vars PROVE IInv'
      OBVIOUS
    <2> QED
      BY TypeStep, ControlStep, WorkforceStep, TasksStep, SequencingStep,
         OnceStep, CounterStep, ReturnedStep DEF IInv
  <1> QED
    BY <1>1, <1>2, PTL DEF Spec

-----------------------------------------------------------------------------
\* The pool's state has its types: no queue grows past MaxWorkerTaskLen and
\* workerPoolWait never goes negative.
THEOREM TypeCorrect == Spec => []TypeOK
  <1>1. IInv => TypeOK
    BY DEF IInv
  <1> QED
    BY <1>1, Invariance, PTL

\* SendMsgToTaskQueue never sends on a queue that StopWorkerPool has closed.
THEOREM ClosedQueues == Spec => []NoSendOnClosedQueue
  <1>1. IInv => NoSendOnClosedQueue
    BY DEF IInv, Control, Stopping, Readers, NoSendOnClosedQueue
  <1> QED
    BY <1>1, Invariance, PTL

\* The workers execute one connection's queued requests one at a time, in order.
THEOREM InOrder == Spec => []PerConnectionOrder
  <1>1. IInv => PerConnectionOrder
    <2> SUFFICES ASSUME IInv, NEW w \in Workers, worker[w] = "busy"
                 PROVE  /\ \A t \in Queued : t[1] = cur[w][1] => t[2] > cur[w][2]
                        /\ \A v \in Workers \ {w} : worker[v] = "busy" => cur[v][1] # cur[w][1]
      BY DEF PerConnectionOrder
    <2>1. Order /\ TypeOK /\ OnlyAccepted
      BY DEF IInv, Sequencing, Tasks
    <2>2. workerID(cur[w][1]) = w
      BY <2>1 DEF Order
    <2>3. ASSUME NEW t \in Queued, t[1] = cur[w][1] PROVE t[2] > cur[w][2]
      <3>1. PICK u \in Workers : t \in Elements(queue[u])
        BY DEF Queued
      <3>2. PICK i \in 1..Len(queue[u]) : queue[u][i] = t
        BY <3>1 DEF Elements
      <3>3. u = w
        BY <2>1, <2>2, <2>3, <3>2 DEF Order
      <3>4. cur[w][2] < t[2]
        BY <2>1, <2>3, <3>2, <3>3 DEF Order
      <3>5. cur[w] \in Task /\ t \in Task
        BY <2>1, <3>2 DEF OnlyAccepted, TypeOK
      <3>6. cur[w][2] \in Int /\ t[2] \in Int
        BY <3>5 DEF Task
      <3> QED
        BY <3>4, <3>6
    <2>4. ASSUME NEW v \in Workers \ {w}, worker[v] = "busy" PROVE cur[v][1] # cur[w][1]
      BY <2>1, <2>2, <2>4 DEF Order
    <2> QED
      BY <2>3, <2>4
  <1> QED
    BY <1>1, Invariance, PTL

\* workerPoolWait counts exactly the goroutines a stop has to wait for.
THEOREM Counted == Spec => []WaitGroupExact
  <1>1. IInv => WaitGroupExact
    BY DEF IInv
  <1> QED
    BY <1>1, Invariance, PTL

\* A closed pool whose counter is zero has no work left.
LEMMA NothingLeft ==
  ASSUME IInv, wg = 0, stopOnce = "done"
  PROVE  /\ finished = accepted
         /\ \A w \in Workers : worker[w] \in {"none", "exited"}
         /\ ~started
  <1>1. wg = 0 /\ TypeOK /\ WaitGroupExact
    BY DEF IInv
  <1>2. direct = {} /\ Staff = {} /\ Starting = 0
    BY <1>1, ZeroIsNobody
  <1>3. \A w \in Workers : worker[w] \in {"none", "exited"}
    BY <1>1, <1>2 DEF TypeOK, Staff
  <1>4. ~started
    BY DEF IInv, Control, Stopping
  <1>5. \A w \in Workers : queue[w] = <<>>
    <2> SUFFICES ASSUME NEW w \in Workers PROVE queue[w] = <<>>
      OBVIOUS
    <2>1. CASE worker[w] = "exited"
      BY <2>1 DEF IInv, Workforce
    <2>2. CASE worker[w] = "none"
      <3>1. WorkerPoolSize # 0
        BY MsgHandleAssumption DEF Workers
      <3>2. \A q \in Starters : ppc[q] # "spawn"
        BY <1>2, <3>1 DEF Starting
      <3>3. ~Launched
        BY <2>2, <3>2 DEF IInv, Workforce
      <3> QED
        BY <3>3 DEF IInv, Workforce
    <2> QED
      BY <1>3, <2>1, <2>2
  <1>6. \A w \in Workers : Len(queue[w]) = 0
    BY <1>5
  <1>7. \A t \in accepted : ~InQueue(t) /\ ~InWork(t)
    BY <1>3, <1>6 DEF InQueue, InWork
  <1>8. finished = accepted
    BY <1>2, <1>7 DEF IInv, Tasks, OnlyAccepted, AllAccounted
  <1> QED
    BY <1>3, <1>4, <1>8

\* When any StopWorkerPool has returned, every accepted request has been
\* executed, no worker is left and none will be.
THEOREM Drained == Spec => []DrainedOnReturn
  <1>1. IInv => DrainedOnReturn
    <2> SUFFICES ASSUME IInv, NEW p \in Stoppers, ppc[p] = "returned" PROVE DrainedOnReturn
      BY DEF DrainedOnReturn
    <2>1. wg = 0 /\ stopOnce = "done"
      BY DEF IInv, Returned, Control, Stopping
    <2> QED
      BY <2>1, NothingLeft DEF DrainedOnReturn
  <1> QED
    BY <1>1, Invariance, PTL

\* No Add of workerPoolWait races the Wait of a stop.
THEOREM NoLateAdd == Spec => NoAddDuringWait
  <1>1. IInv /\ [Next]_vars =>
          [wg' > wg => \A p \in Stoppers : ppc[p] \notin {"wait", "returned"}]_vars
    <2> SUFFICES ASSUME IInv, [Next]_vars, wg' > wg, NEW q \in Stoppers
                 PROVE  ppc[q] \notin {"wait", "returned"}
      OBVIOUS
    <2>1. TypeOK /\ Control
      BY DEF IInv
    <2>2. wg' = wg \/ wg' = wg - 1 => FALSE
      BY <2>1 DEF TypeOK
    <2>3. CASE \E p \in Starters : StartCritical(p)
      BY <2>1, <2>2, <2>3 DEF StartCritical, Control, Stopping
    <2>4. CASE \E c \in Conns : Direct(c)
      BY <2>1, <2>4 DEF Direct, Control, Stopping, Readers
    <2> QED
      BY <2>2, <2>3, <2>4
      DEF Next, StartStep, StopStep, SendStep, WorkerStep, Lock, StartEnter, StartSpawn,
          beginStop, StopEnter, StopCritical, StopWait, Submit, RLock, CheckStop,
          ChooseQueue, Enqueue, Refuse, WaitStopped, WaitEnds, Receive, Exit, WorkerDone, DirectDone, Finished, vars
  <1> QED
    BY <1>1, Invariance, PTL DEF Spec, NoAddDuringWait

-----------------------------------------------------------------------------
(***************************************************************************)
(* The pool implements TaskPool.                                           *)
(***************************************************************************)
\* A step that touches neither the histories nor the phase is a stutter.
LEMMA Stutter ==
  UNCHANGED <<accepted, finished, Phase>> => UNCHANGED Pool!vars
  BY DEF Pool!vars

\* While readers are behind their check the pool is open.
LEMMA OpenForReaders ==
  ASSUME IInv, NEW c \in Conns, rpc[c] \in {"dispatch", "queueing"}
  PROVE  Phase = "open"
  BY DEF IInv, Control, Readers, Stopping, Phase

\* An accepted request is a new one.
LEMMA AcceptStep ==
  ASSUME IInv, NEW c \in Conns, rpc[c] \in {"dispatch", "queueing"},
         Accept(c), UNCHANGED <<ppc, stopOnce>>
  PROVE  Pool!Next
  <1>1. request(c) \in Task /\ request(c) \notin accepted
    BY RequestIsNew
  <1>3. finished \subseteq accepted
    BY DEF IInv, Tasks, OnlyAccepted
  <1>4. Phase = "open" /\ Phase' = Phase
    BY OpenForReaders DEF Phase
  <1>5. accepted' = accepted \cup {request(c)} /\ finished' = finished
    BY DEF Accept
  <1>6. Pool!Accept(request(c))
    BY <1>1, <1>3, <1>4, <1>5 DEF Pool!Accept
  <1> QED
    BY <1>1, <1>6 DEF Pool!Next

\* The end of an execution finishes an outstanding request.
LEMMA FinishStep ==
  ASSUME NEW t \in Task, t \in accepted, t \notin finished,
         DoMsgHandler(t), UNCHANGED <<ppc, stopOnce>>
  PROVE  Pool!Next
  <1>1. Phase' = Phase
    BY DEF Phase
  <1>2. accepted' = accepted /\ finished' = finished \cup {t}
    BY DEF DoMsgHandler
  <1>3. Pool!Finish(t)
    BY <1>1, <1>2 DEF Pool!Finish
  <1> QED
    BY <1>3 DEF Pool!Next

\* Every step of the pool is a step of TaskPool or leaves its state alone.
LEMMA StepSimulation == IInv /\ [Next]_vars => [Pool!Next]_(Pool!vars)
  <1> SUFFICES ASSUME IInv, [Next]_vars PROVE Pool!Next \/ UNCHANGED Pool!vars
    OBVIOUS
  <1> USE DEF poolVars, workVars, lockVars, onceVars, readVars, histVars
  <1>t. TypeOK /\ Control
    BY DEF IInv
  <1>1. ASSUME NEW c \in Conns, Direct(c) PROVE Pool!Next
    BY <1>1, AcceptStep DEF Direct
  <1>2. ASSUME NEW c \in Conns, Enqueue(c) PROVE Pool!Next
    BY <1>2, AcceptStep DEF Enqueue
  <1>3. ASSUME NEW w \in Workers, WorkerDone(w) PROVE Pool!Next
    <2>1. cur[w] \in accepted /\ cur[w] \notin finished /\ accepted \subseteq Task
      BY <1>3 DEF WorkerDone, IInv, Tasks, OnlyAccepted, ExactlyOnce, TypeOK
    <2> QED
      BY <1>3, <2>1, FinishStep DEF WorkerDone
  <1>4. ASSUME NEW t \in direct, DirectDone(t) PROVE Pool!Next
    <2>1. t \in accepted /\ t \notin finished /\ accepted \subseteq Task
      BY DEF IInv, Tasks, OnlyAccepted, ExactlyOnce, TypeOK
    <2> QED
      BY <1>4, <2>1, FinishStep DEF DirectDone
  <1>5. ASSUME NEW p \in Stoppers, StopCritical(p) PROVE Pool!Next
    <2>1. /\ \A q \in Stoppers : ppc[q] # "returned" /\ ppc'[q] # "returned"
          /\ stopOnce = "running" /\ stopOnce' = "done"
      BY <1>5, <1>t DEF StopCritical, Locked, Control, Stopping, Onces, TypeOK, Procs
    <2>2. Phase = "open" /\ Phase' = "closed"
      BY <2>1 DEF Phase
    <2>3. accepted' = accepted /\ finished' = finished
      BY <1>5 DEF StopCritical
    <2>4. Pool!Close
      BY <2>2, <2>3 DEF Pool!Close
    <2> QED
      BY <2>4 DEF Pool!Next
  <1>6. ASSUME NEW p \in Stoppers, StopWait(p) PROVE Pool!Next \/ UNCHANGED Pool!vars
    <2>1. accepted' = accepted /\ finished' = finished /\ stopOnce' = stopOnce
      BY <1>6 DEF StopWait
    <2>2. ppc'[p] = "returned"
      BY <1>6, <1>t DEF StopWait, TypeOK, Procs
    <2>3. Phase' = "drained"
      BY <2>2 DEF Phase
    <2>4. CASE \E q \in Stoppers : ppc[q] = "returned"
      <3>1. Phase = "drained"
        BY <2>4 DEF Phase
      <3> QED
        BY <2>1, <2>3, <3>1, Stutter
    <2>5. CASE \A q \in Stoppers : ppc[q] # "returned"
      <3>1. stopOnce = "done"
        BY <1>6, <1>t DEF StopWait, Control, Stopping
      <3>2. Phase = "closed"
        BY <2>5, <3>1 DEF Phase
      <3>3. wg = 0
        BY <1>6 DEF StopWait
      <3>4. finished = accepted
        BY <3>1, <3>3, NothingLeft
      <3>5. Pool!Drained
        BY <2>1, <2>3, <3>2, <3>4 DEF Pool!Drained
      <3> QED
        BY <3>5 DEF Pool!Next
    <2> QED
      BY <2>4, <2>5
  <1>7. ASSUME UNCHANGED <<accepted, finished>>, (stopOnce' = "done") <=> (stopOnce = "done"),
               \A q \in Stoppers : ppc'[q] = "returned" <=> ppc[q] = "returned"
        PROVE  UNCHANGED Pool!vars
    <2>1. Phase' = Phase
      BY <1>7 DEF Phase
    <2> QED
      BY <1>7, <2>1, Stutter
  <1>8. ASSUME NEW p \in Starters, Lock(p) \/ StartEnter(p) \/ StartCritical(p) \/ StartSpawn(p)
        PROVE  UNCHANGED Pool!vars
    <2>1. p \in Procs /\ \A q \in Stoppers : q # p /\ q \in Procs
      BY MsgHandleAssumption DEF Procs
    <2>2. \A q \in Stoppers : ppc'[q] = ppc[q]
      BY <1>8, <1>t, <2>1 DEF Lock, StartEnter, StartCritical, StartSpawn, TypeOK
    <2>3. UNCHANGED <<accepted, finished, stopOnce>>
      BY <1>8 DEF Lock, StartEnter, StartCritical, StartSpawn
    <2> QED
      BY <1>7, <2>2, <2>3
  <1>9. ASSUME NEW p \in Stoppers, Lock(p) \/ beginStop(p) \/ StopEnter(p)
        PROVE  UNCHANGED Pool!vars
    <2>1. \A q \in Stoppers : ppc'[q] = "returned" <=> ppc[q] = "returned"
      BY <1>9, <1>t DEF Lock, beginStop, StopEnter, TypeOK, Procs
    <2>2. UNCHANGED <<accepted, finished>> /\ ((stopOnce' = "done") <=> (stopOnce = "done"))
      BY <1>9 DEF Lock, beginStop, StopEnter
    <2> QED
      BY <1>7, <2>1, <2>2
  <1>10. CASE UNCHANGED <<accepted, finished, stopOnce, ppc>>
    BY <1>7, <1>10
  <1>11. ASSUME NEW c \in Conns,
                \/ Submit(c) \/ RLock(c) \/ CheckStop(c) \/ ChooseQueue(c)
                \/ WaitStopped(c) \/ WaitEnds(c)
         PROVE  UNCHANGED <<accepted, finished, stopOnce, ppc>>
    BY <1>11 DEF Submit, RLock, CheckStop, ChooseQueue, WaitStopped, WaitEnds, Refuse
  <1>12. ASSUME NEW w \in Workers, Receive(w) \/ Exit(w)
         PROVE  UNCHANGED <<accepted, finished, stopOnce, ppc>>
    BY <1>12 DEF Receive, Exit
  <1>13. CASE UNCHANGED vars
    BY <1>10, <1>13 DEF vars
  <1> QED
    BY <1>1, <1>2, <1>3, <1>4, <1>5, <1>6, <1>8, <1>9, <1>10, <1>11, <1>12, <1>13
    DEF Next, Procs, StartStep, StopStep, SendStep, WorkerStep, Finished

\* The pool implements TaskPool: an accepted request is executed exactly once,
\* none is accepted once the queues are closed, and a stop returns only when
\* nothing is outstanding.
THEOREM RefinesTaskPool == Spec => Pool!Spec
  <1>1. Init => Pool!Init
    BY DEF Init, Pool!Init, Phase, Procs
  <1>2. IInv /\ [Next]_vars => [Pool!Next]_(Pool!vars)
    BY StepSimulation
  <1> QED
    BY <1>1, <1>2, Invariance, PTL DEF Spec, Pool!Spec

=============================================================================
