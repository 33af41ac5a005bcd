-------------------------- MODULE ConnectionProofs --------------------------
(***************************************************************************)
(* The safety of one connection, for any number of senders, callers of     *)
(* Stop, sends and reads and any capacity of msgChan: GateExact,           *)
(* StreamIntegrity and JoinedOnReturn of module Connection.                *)
(*                                                                         *)
(* The stream is followed position by position.  The frame on the socket   *)
(* at position i carries the i-th accepted message, and while the writer   *)
(* runs the accepted messages after those are the one in its hand and then *)
(* msgChan, in order.  A send that has not returned is in no history, so   *)
(* what an error reports is a message nobody accepted.                     *)
(***************************************************************************)
EXTENDS Connection, SequenceTheorems, FiniteSetTheorems, TLAPS

\* sendGate lets one sender at a time inside.
GateInv ==
    /\ gate \in {0, 1}
    /\ gate = 0 => GateHeld = {}
    /\ gate = 1 => \E s \in AllSenders : GateHeld = {s}

\* The send of m has returned; every send that has not has a message.
Over(m) ==
    \/ m[2] < calls[m[1]]
    \/ m[2] = calls[m[1]] /\ spc[m[1]] = "idle"
History ==
    /\ \A s \in AllSenders : spc[s] # "idle" => calls[s] >= 1
    /\ \A i \in 1..Len(accepted) : Over(accepted[i])
    /\ \A m \in refused : Over(m)
    /\ \A i \in 1..Len(accepted) : accepted[i] \notin refused

\* The life of the two goroutines, the counter that Start waits for, and Stop
\* behind each of them.
Started ==
    /\ main = "new" => writer = "off" /\ reader = "off"
    /\ main = "reader" => writer = "off" /\ reader # "off"
    /\ main \notin {"new", "reader"} => writer # "off" /\ reader # "off"
Counted ==
    ioWait = (IF writer \in {"off", "done"} THEN 0 ELSE 1)
               + (IF reader \in {"off", "done"} THEN 0 ELSE 1)
Joined ==
    /\ writer = "done" \/ reader = "done" => stop = Stopped
    /\ main = "returned" => writer = "done" /\ reader = "done"
LifeInv == Started /\ Counted /\ Joined

\* What the writer holds, what it has written, and what is still to come.
Running == {"off", "select", "taken", "writing"}
held == IF data = NoData THEN 0 ELSE 1
HandExact == data # NoData <=> writer \in {"taken", "writing"}
Sent ==
    /\ Len(wire) <= Len(accepted)
    /\ \A i \in 1..Len(wire) : wire[i][1] = accepted[i]
Torn == \A i \in 1..Len(wire) : wire[i][2] = "torn" =>
           i = Len(wire) /\ writer \in {"stopping", "done"}
Pending ==
    writer \in Running =>
      /\ Len(accepted) = Len(wire) + held + Len(msgChan)
      /\ data # NoData => accepted[Len(wire) + 1] = data
      /\ \A i \in 1..Len(msgChan) : accepted[Len(wire) + held + i] = msgChan[i]
StreamInv == HandExact /\ Sent /\ Torn /\ Pending

IInv == TypeOK /\ GateInv /\ History /\ LifeInv /\ StreamInv

\* The steps, by who takes them.
CallStep(s) == Call(s) \/ Expire(s) \/ SendStep(s)
StopStep == StopStatement \/ \E p \in Closers : CallStop(p) \/ StopReturns(p)
WriteStep == WriterStep \/ WriteFull \/ WriteFails
ReadStep == ReadMessage \/ ReadFails \/ Dispatch \/ ReaderDone

\* What a step of send does to its sender and to the histories: it moves on,
\* returns an error, or returns nil with the message in the queue.
Moves(s) ==
    /\ spc[s] # "idle"
    /\ \E to \in {"enter", "gate", "inside", "enqueue"} :
         spc' = [spc EXCEPT ![s] = to]
    /\ UNCHANGED <<calls, msgChan, accepted, refused>>
Errs(s) ==
    /\ spc[s] # "idle"
    /\ spc' = [spc EXCEPT ![s] = "idle"]
    /\ refused' = refused \cup {msg(s)}
    /\ UNCHANGED <<calls, msgChan, accepted>>
Accepts(s) ==
    /\ spc[s] # "idle"
    /\ spc' = [spc EXCEPT ![s] = "idle"]
    /\ Len(msgChan) < MaxMsgChanLen
    /\ msgChan' = Append(msgChan, msg(s))
    /\ accepted' = Append(accepted, msg(s))
    /\ UNCHANGED <<calls, refused>>

-----------------------------------------------------------------------------
\* A sender that has used up the bound leaves no send to begin: the messages
\* begun are at least as many as one sender's calls.
LEMMA CallsBound ==
    ASSUME TypeOK, NEW s \in AllSenders, Cardinality(begun) < MaxSends
    PROVE  calls[s] + 1 \in 0..MaxSends
<1>1. IsFiniteSet(1..MaxSends) /\ Cardinality(1..MaxSends) = MaxSends
  BY ConnectionAssumption, FS_Interval
<1>2. IsFiniteSet(begun)
  <2>1. IsFiniteSet(Message)
    BY <1>1, FS_Product, ConnectionAssumption DEF Message, AllSenders
  <2>2. begun \subseteq Message  BY DEF begun
  <2> QED  BY <2>1, <2>2, FS_Subset
<1>3. ASSUME calls[s] = MaxSends PROVE FALSE
  <2> DEFINE f == [n \in 1..MaxSends |-> <<s, n>>]
  <2>1. \A n \in 1..MaxSends : <<s, n>> \in begun
    BY <1>3, ConnectionAssumption DEF begun, Message
  <2>2. f \in Injection(1..MaxSends, begun)
    BY <2>1 DEF Injection, IsInjective
  <2>3. Cardinality(1..MaxSends) <= Cardinality(begun)
    BY <2>2, <1>2, FS_Injection
  <2>4. Cardinality(begun) \in Nat  BY <1>2, FS_CardinalityType
  <2> QED  BY <2>3, <2>4, <1>1, ConnectionAssumption
<1> QED  BY <1>3, ConnectionAssumption DEF TypeOK

\* The message of a send that has begun is a message.
LEMMA MsgType ==
    ASSUME TypeOK, History, NEW s \in AllSenders, spc[s] # "idle"
    PROVE  msg(s) \in Message /\ msg(s)[1] = s /\ msg(s)[2] = calls[s]
BY ConnectionAssumption DEF TypeOK, History, msg, Message

\* NoData is no message.
LEMMA NoDataIsNoMessage == NoData \notin Message
BY DEF NoData, Message

\* Every step of the system is a step of one of its parties.
LEMMA NextCases ==
    ASSUME [Next]_vars
    PROVE  \/ \E s \in AllSenders : CallStep(s)
           \/ StopStep \/ WriteStep \/ ReadStep \/ MainStep \/ UNCHANGED vars
BY DEF Next, CallStep, StopStep, WriteStep, ReadStep, Finished

\* A step of send moves its sender on, or returns an error, or accepts.
LEMMA SendOutcome ==
    ASSUME TypeOK, NEW s \in AllSenders, SendStep(s)
    PROVE  /\ Moves(s) \/ Errs(s) \/ Accepts(s)
           /\ expired' \in [AllSenders -> BOOLEAN]
           /\ UNCHANGED otherThanSend
<1>1. CASE Enter(s)
  BY <1>1 DEF Enter, Refuse, Return, Moves, Errs, TypeOK
<1>2. CASE AcquireGate(s)
  BY <1>2 DEF AcquireGate, Moves, TypeOK
<1>3. CASE GateRefused(s)
  BY <1>3 DEF GateRefused, Refuse, Return, Errs, TypeOK
<1>4. CASE Inside(s)
  BY <1>4 DEF Inside, Refuse, Return, Moves, Errs, TypeOK
<1>5. CASE Enqueue(s)
  BY <1>5 DEF Enqueue, Return, Accepts, TypeOK
<1>6. CASE EnqueueRefused(s)
  BY <1>6 DEF EnqueueRefused, Refuse, Return, Errs, TypeOK
<1> QED  BY <1>1, <1>2, <1>3, <1>4, <1>5, <1>6 DEF SendStep

-----------------------------------------------------------------------------
(***************************************************************************)
(* sendGate.                                                               *)
(***************************************************************************)

\* The gate: a token is put in by the sender that goes inside, and taken out
\* by that sender at every return from there.
LEMMA GateNext ==
    ASSUME TypeOK, GateInv, [Next]_vars
    PROVE  GateInv'
<1>1. ASSUME UNCHANGED <<gate, spc>> PROVE GateInv'
  BY <1>1 DEF GateInv, GateHeld
<1>2. ASSUME NEW s \in AllSenders, CallStep(s) PROVE GateInv'
  <2> DEFINE In == {"inside", "enqueue"}
  <2>1. ASSUME NEW to, spc' = [spc EXCEPT ![s] = to], UNCHANGED gate,
               spc[s] \in In <=> to \in In
        PROVE  GateInv'
    <3>1. GateHeld' = GateHeld  BY <2>1 DEF GateHeld, TypeOK
    <3> QED  BY <3>1, <2>1 DEF GateInv
  <2>2. ASSUME spc[s] \in In, spc' = [spc EXCEPT ![s] = "idle"], ReleaseGate
        PROVE  GateInv'
    <3>1. s \in GateHeld  BY <2>2 DEF GateHeld
    <3>2. gate = 1 /\ GateHeld = {s}  BY <3>1 DEF GateInv
    <3>3. GateHeld' = {}  BY <2>2, <3>2 DEF GateHeld, TypeOK
    <3>4. gate' = 0  BY <2>2, <3>2 DEF ReleaseGate
    <3> QED  BY <3>3, <3>4 DEF GateInv
  <2>3. CASE Call(s)
    BY <2>3, <2>1 DEF Call
  <2>4. CASE Expire(s)
    BY <2>4, <1>1 DEF Expire
  <2>5. CASE Enter(s)
    BY <2>5, <2>1 DEF Enter, Refuse, Return
  <2>6. CASE AcquireGate(s)
    <3>1. GateHeld' = {s}
      BY <2>6 DEF AcquireGate, GateInv, GateHeld, TypeOK
    <3> QED  BY <3>1, <2>6 DEF AcquireGate, GateInv
  <2>7. CASE GateRefused(s)
    BY <2>7, <2>1 DEF GateRefused, Refuse, Return
  <2>8. CASE Inside(s)
    BY <2>8, <2>1, <2>2 DEF Inside, Refuse, Return
  <2>9. CASE Enqueue(s)
    BY <2>9, <2>2 DEF Enqueue, Return
  <2>10. CASE EnqueueRefused(s)
    BY <2>10, <2>2 DEF EnqueueRefused, Refuse, Return
  <2> QED  BY <1>2, <2>3, <2>4, <2>5, <2>6, <2>7, <2>8, <2>9, <2>10
           DEF CallStep, SendStep
<1>3. CASE StopStep
  BY <1>3, <1>1 DEF StopStep, StopStatement, CallStop, StopReturns, sendVars
<1>4. CASE WriteStep
  BY <1>4, <1>1 DEF WriteStep, WriterStep, WriterTakes, WriterExits, WriterChecks,
     WriterDone, WriteFull, WriteFails, otherThanWriter
<1>5. CASE ReadStep
  BY <1>5, <1>1 DEF ReadStep, ReadMessage, ReadFails, Dispatch, ReaderDone,
     otherThanReader, sendVars
<1>6. CASE MainStep
  BY <1>6, <1>1 DEF MainStep, startReader, startWriter, WaitExit, WaitIO, sendVars
<1>7. CASE UNCHANGED vars
  BY <1>7, <1>1 DEF vars, sendVars
<1> QED  BY <1>2, <1>3, <1>4, <1>5, <1>6, <1>7, NextCases

-----------------------------------------------------------------------------
(***************************************************************************)
(* Types.                                                                  *)
(***************************************************************************)
SendType ==
    /\ msgChan \in Seq(Message) /\ Len(msgChan) <= MaxMsgChanLen
    /\ spc \in [AllSenders -> {"idle", "enter", "gate", "inside", "enqueue"}]
    /\ calls \in [AllSenders -> 0..MaxSends]
    /\ expired \in [AllSenders -> BOOLEAN]
    /\ accepted \in Seq(Message)
    /\ refused \subseteq Message
StopType ==
    /\ stop \in 0..Stopped
    /\ exitTaken \in BOOLEAN
    /\ cpc \in [Closers -> {"idle", "stopping", "returned"}]
IOType ==
    /\ writer \in {"off", "select", "taken", "writing", "stopping", "done"}
    /\ reader \in {"off", "reading", "read", "stopping", "done"}
    /\ reads \in 0..MaxReads
    /\ main \in {"new", "reader", "waitExit", "waitIO", "returned"}
WriteType ==
    /\ data \in Message \cup {NoData}
    /\ wire \in Seq(Message \X {"full", "torn"})

\* The type invariant, by the parts that change together.
LEMMA TypeParts ==
    TypeOK <=> SendType /\ StopType /\ IOType /\ WriteType
                 /\ gate \in Nat /\ ioWait \in Nat
BY DEF TypeOK, SendType, StopType, IOType, WriteType

\* The types of the senders, of the queue and of the histories.
LEMMA SendTypeNext ==
    ASSUME TypeOK, History, [Next]_vars
    PROVE  SendType'
<1> USE TypeParts
<1>1. ASSUME UNCHANGED <<msgChan, spc, calls, expired, accepted, refused>>
      PROVE  SendType'
  BY <1>1 DEF SendType
<1>2. ASSUME NEW s \in AllSenders, CallStep(s) PROVE SendType'
  <2>1. CASE Call(s)
    <3>1. calls[s] + 1 \in 0..MaxSends  BY <2>1, CallsBound DEF Call
    <3> QED  BY <3>1, <2>1 DEF Call, SendType
  <2>2. CASE Expire(s)
    BY <2>2 DEF Expire, SendType
  <2>3. CASE SendStep(s)
    <3>1. ASSUME spc[s] # "idle" PROVE msg(s) \in Message
      BY <3>1, MsgType
    <3>2. CASE Moves(s)
      BY <3>2, <2>3, SendOutcome DEF Moves, SendType
    <3>3. CASE Errs(s)
      BY <3>3, <3>1, <2>3, SendOutcome DEF Errs, SendType
    <3>4. CASE Accepts(s)
      <4>1. msgChan' \in Seq(Message) /\ Len(msgChan') = Len(msgChan) + 1
        BY <3>4, <3>1, AppendProperties DEF Accepts, SendType
      <4>2. accepted' \in Seq(Message)
        BY <3>4, <3>1, AppendProperties DEF Accepts, SendType
      <4>3. Len(msgChan') <= MaxMsgChanLen
        BY <4>1, <3>4, LenProperties, ConnectionAssumption DEF Accepts, SendType
      <4> QED  BY <4>1, <4>2, <4>3, <3>4, <2>3, SendOutcome DEF Accepts, SendType
    <3> QED  BY <2>3, <3>2, <3>3, <3>4, SendOutcome
  <2> QED  BY <1>2, <2>1, <2>2, <2>3 DEF CallStep
<1>3. CASE StopStep
  BY <1>3, <1>1 DEF StopStep, StopStatement, CallStop, StopReturns, sendVars
<1>4. CASE WriteStep
  <2>1. CASE WriterTakes
    <3>1. msgChan' \in Seq(Message) /\ Len(msgChan') = Len(msgChan) - 1
      BY <2>1, HeadTailProperties DEF WriterTakes, SendType
    <3>2. Len(msgChan) \in Nat /\ Len(msgChan) <= MaxMsgChanLen
      BY LenProperties DEF SendType
    <3>3. Len(msgChan') <= MaxMsgChanLen
      BY <3>1, <3>2, ConnectionAssumption
    <3> QED  BY <3>1, <3>3, <2>1 DEF WriterTakes, otherThanWriter, SendType
  <2> QED  BY <1>4, <2>1, <1>1 DEF WriteStep, WriterStep, WriterExits, WriterChecks,
     WriterDone, WriteFull, WriteFails, otherThanWriter
<1>5. CASE ReadStep
  BY <1>5, <1>1 DEF ReadStep, ReadMessage, ReadFails, Dispatch, ReaderDone,
     otherThanReader, sendVars
<1>6. CASE MainStep
  BY <1>6, <1>1 DEF MainStep, startReader, startWriter, WaitExit, WaitIO, sendVars
<1>7. CASE UNCHANGED vars
  BY <1>7, <1>1 DEF vars, sendVars
<1> QED  BY <1>2, <1>3, <1>4, <1>5, <1>6, <1>7, NextCases

\* The types of what Stop, the two goroutines and Start keep.
LEMMA IOTypeNext ==
    ASSUME TypeOK, HandExact, [Next]_vars
    PROVE  StopType' /\ IOType' /\ WriteType'
<1> USE TypeParts
<1>1. ASSUME NEW s \in AllSenders, CallStep(s)
      PROVE  UNCHANGED <<stopVars, writerVars, readerVars, main>>
  BY <1>1, SendOutcome DEF CallStep, Call, Expire, otherThanSend
<1>2. ASSUME UNCHANGED <<stopVars, writerVars, readerVars, main>>
      PROVE  StopType' /\ IOType' /\ WriteType'
  BY <1>2 DEF stopVars, writerVars, readerVars, StopType, IOType, WriteType
<1>3. ASSUME NEW p \in Closers, CallStop(p) \/ StopReturns(p)
      PROVE  StopType' /\ IOType' /\ WriteType'
  BY <1>3 DEF CallStop, StopReturns, writerVars, readerVars, StopType, IOType, WriteType
<1>4. CASE StopStatement
  BY <1>4 DEF StopStatement, Stopped, writerVars, readerVars, StopType, IOType, WriteType
<1>5. ASSUME ReceiveExit PROVE exitTaken' \in BOOLEAN
  BY <1>5 DEF ReceiveExit, StopType
<1>6. CASE WriterTakes
  <2>1. data' \in Message
    BY <1>6, HeadTailProperties DEF WriterTakes, SendType
  <2> QED  BY <2>1, <1>6 DEF WriterTakes, otherThanWriter, readerVars,
              StopType, IOType, WriteType
<1>7. CASE WriterExits
  BY <1>7, <1>5 DEF WriterExits, otherThanWriter, readerVars, StopType, IOType, WriteType
<1>8. CASE WriterChecks
  BY <1>8 DEF WriterChecks, otherThanWriter, readerVars, StopType, IOType, WriteType
<1>9. CASE WriterDone
  BY <1>9 DEF WriterDone, otherThanWriter, readerVars, StopType, IOType, WriteType
<1>10. CASE WriteFull \/ WriteFails
  <2>1. ASSUME NEW how \in {"full", "torn"}, data \in Message
        PROVE  Append(wire, <<data, how>>) \in Seq(Message \X {"full", "torn"})
    BY <2>1, AppendProperties DEF WriteType
  <2>2. data \in Message
    BY <1>10 DEF WriteFull, WriteFails, HandExact, WriteType
  <2>3. wire' \in Seq(Message \X {"full", "torn"})
    BY <2>1, <2>2, <1>10 DEF WriteFull, WriteFails, WriteType
  <2> QED  BY <2>3, <1>10 DEF WriteFull, WriteFails, otherThanWriter, readerVars,
              StopType, IOType, WriteType
<1>11. CASE ReadStep
  BY <1>11, ConnectionAssumption DEF ReadStep, ReadMessage, ReadFails, Dispatch, ReaderDone,
     otherThanReader, stopVars, writerVars, StopType, IOType, WriteType
<1>12. CASE MainStep
  BY <1>12, <1>5 DEF MainStep, startReader, startWriter, WaitExit, WaitIO,
     stopVars, writerVars, readerVars, StopType, IOType, WriteType
<1>13. CASE UNCHANGED vars
  BY <1>13, <1>2 DEF vars
<1> QED  BY <1>1, <1>2, <1>3, <1>4, <1>6, <1>7, <1>8, <1>9, <1>10, <1>11, <1>12, <1>13,
            NextCases DEF StopStep, WriteStep, WriterStep

-----------------------------------------------------------------------------
(***************************************************************************)
(* The histories.                                                          *)
(***************************************************************************)

\* A message in a history belongs to a send that has returned, so the message
\* of the send that returns now is in neither history yet.
LEMMA HistoryNext ==
    ASSUME TypeOK, History, [Next]_vars
    PROVE  History'
<1>0. /\ accepted \in Seq(Message) /\ Len(accepted) \in Nat
      /\ \A i \in 1..Len(accepted) : accepted[i] \in Message
      /\ \A m \in refused : m \in Message
  BY LenProperties DEF TypeOK
<1>1. ASSUME UNCHANGED <<spc, calls, accepted, refused>> PROVE History'
  BY <1>1 DEF History, Over
<1>2. ASSUME NEW s \in AllSenders, CallStep(s) PROVE History'
  <2>1. CASE Call(s)
    <3>1. \A m \in Message : Over(m) => Over(m)'
      BY <2>1 DEF Call, Over, Message, TypeOK
    <3>2. UNCHANGED <<accepted, refused>>  BY <2>1 DEF Call
    <3>3. \A t \in AllSenders : spc'[t] # "idle" => calls'[t] >= 1
      BY <2>1 DEF Call, History, TypeOK
    <3> QED  BY <3>1, <3>2, <3>3, <1>0 DEF History
  <2>2. CASE Expire(s)
    BY <2>2, <1>1 DEF Expire
  <2>3. CASE SendStep(s)
    <3>1. CASE Moves(s)
      <4>1. \A m \in Message : Over(m) => Over(m)'
        BY <3>1 DEF Moves, Over, Message, TypeOK
      <4> QED  BY <4>1, <3>1, <1>0 DEF Moves, History, TypeOK
    <3>2. ASSUME spc[s] # "idle", spc' = [spc EXCEPT ![s] = "idle"], UNCHANGED calls
          PROVE  /\ \A m \in Message : Over(m) => Over(m)'
                 /\ Over(msg(s))' /\ msg(s)' = msg(s) /\ ~Over(msg(s))
                 /\ msg(s) \in Message
                 /\ \A t \in AllSenders : spc'[t] # "idle" => calls'[t] >= 1
      <4>1. msg(s) \in Message /\ msg(s)[1] = s /\ msg(s)[2] = calls[s]
        BY <3>2, MsgType
      <4>2. msg(s)' = msg(s)  BY <3>2 DEF msg
      <4>3. \A m \in Message : Over(m) => Over(m)'
        BY <3>2 DEF Over, Message, TypeOK
      <4>4. ~Over(msg(s))
        BY <3>2, <4>1 DEF Over, TypeOK
      <4>5. Over(msg(s))'
        BY <3>2, <4>1, <4>2 DEF Over, TypeOK
      <4> QED  BY <3>2, <4>1, <4>2, <4>3, <4>4, <4>5 DEF History, TypeOK
    <3>3. CASE Errs(s)
      <4>1. \A i \in 1..Len(accepted) : accepted[i] # msg(s)
        BY <3>3, <3>2 DEF Errs, History
      <4> QED  BY <4>1, <3>3, <3>2, <1>0 DEF Errs, History
    <3>4. CASE Accepts(s)
      <4>1. msg(s) \in Message  BY <3>4, <3>2 DEF Accepts
      <4>2. /\ Len(accepted') = Len(accepted) + 1
            /\ \A i \in 1..Len(accepted) : accepted'[i] = accepted[i]
            /\ accepted'[Len(accepted) + 1] = msg(s)
        BY <4>1, <3>4, <1>0, AppendProperties DEF Accepts
      <4>3. msg(s) \notin refused
        BY <3>4, <3>2 DEF Accepts, History
      <4>4. \A i \in 1..Len(accepted') :
               i \in 1..Len(accepted) \/ i = Len(accepted) + 1
        BY <4>2, <1>0
      <4>5. \A i \in 1..Len(accepted') : Over(accepted[i])' /\ accepted'[i] \notin refused'
        <5> SUFFICES ASSUME NEW i \in 1..Len(accepted')
                     PROVE  Over(accepted[i])' /\ accepted'[i] \notin refused'
          OBVIOUS
        <5>1. CASE i \in 1..Len(accepted)
          BY <5>1, <4>2, <3>2, <3>4, <1>0 DEF Accepts, History, Over
        <5>2. CASE i = Len(accepted) + 1
          BY <5>2, <4>2, <4>3, <3>2, <3>4 DEF Accepts, Over
        <5> QED  BY <5>1, <5>2, <4>4
      <4>6. \A m \in refused' : Over(m)'
        BY <3>4, <3>2, <1>0 DEF Accepts, History
      <4> QED  BY <4>5, <4>6, <3>2, <3>4 DEF Accepts, History
    <3> QED  BY <2>3, <3>1, <3>3, <3>4, SendOutcome
  <2> QED  BY <1>2, <2>1, <2>2, <2>3 DEF CallStep
<1>3. CASE StopStep
  BY <1>3, <1>1 DEF StopStep, StopStatement, CallStop, StopReturns, sendVars
<1>4. CASE WriteStep
  BY <1>4, <1>1 DEF WriteStep, WriterStep, WriterTakes, WriterExits, WriterChecks,
     WriterDone, WriteFull, WriteFails, otherThanWriter
<1>5. CASE ReadStep
  BY <1>5, <1>1 DEF ReadStep, ReadMessage, ReadFails, Dispatch, ReaderDone,
     otherThanReader, sendVars
<1>6. CASE MainStep
  BY <1>6, <1>1 DEF MainStep, startReader, startWriter, WaitExit, WaitIO, sendVars
<1>7. CASE UNCHANGED vars
  BY <1>7, <1>1 DEF vars, sendVars
<1> QED  BY <1>2, <1>3, <1>4, <1>5, <1>6, <1>7, NextCases

-----------------------------------------------------------------------------
(***************************************************************************)
(* The goroutines and the wait.                                            *)
(***************************************************************************)

\* ioWait counts the goroutines that have not ended, each ends behind a whole
\* Stop, and Start waits for zero once it has started both.
LEMMA LifeNext ==
    ASSUME TypeOK, LifeInv, [Next]_vars
    PROVE  LifeInv' /\ ioWait' \in Nat
<1> USE DEF LifeInv, Started, Counted, Joined
<1>1. ASSUME UNCHANGED <<stop, writer, reader, main, ioWait>>
      PROVE  LifeInv' /\ ioWait' \in Nat
  BY <1>1 DEF TypeOK
<1>2. ASSUME NEW s \in AllSenders, CallStep(s)
      PROVE  UNCHANGED <<stop, writer, reader, main, ioWait>>
  BY <1>2, SendOutcome DEF CallStep, Call, Expire, otherThanSend, stopVars,
     writerVars, readerVars
<1>3. ASSUME NEW p \in Closers, CallStop(p) \/ StopReturns(p)
      PROVE  UNCHANGED <<stop, writer, reader, main, ioWait>>
  BY <1>3 DEF CallStop, StopReturns, writerVars, readerVars
<1>4. CASE StopStatement
  BY <1>4 DEF StopStatement, Stopped, writerVars, readerVars, TypeOK
<1>5. CASE WriteStep
  BY <1>5 DEF WriteStep, WriterStep, WriterTakes, WriterExits, WriterChecks,
     WriterDone, WriteFull, WriteFails, otherThanWriter, readerVars, TypeOK
<1>6. CASE ReadStep
  BY <1>6 DEF ReadStep, ReadMessage, ReadFails, Dispatch, ReaderDone,
     otherThanReader, stopVars, writerVars, TypeOK
<1>7. CASE MainStep
  BY <1>7 DEF MainStep, startReader, startWriter, WaitExit, WaitIO,
     stopVars, writerVars, readerVars, TypeOK
<1>8. CASE UNCHANGED vars
  BY <1>8, <1>1 DEF vars, stopVars, writerVars, readerVars
<1> QED  BY <1>1, <1>2, <1>3, <1>4, <1>5, <1>6, <1>7, <1>8, NextCases DEF StopStep

-----------------------------------------------------------------------------
(***************************************************************************)
(* The stream.                                                             *)
(***************************************************************************)

\* An accepted message goes to the end of the queue and of the history.
LEMMA AcceptStream ==
    ASSUME TypeOK, History, StreamInv, NEW s \in AllSenders, Accepts(s),
           UNCHANGED <<writer, data, wire>>
    PROVE  StreamInv'
<1>1. msg(s) \in Message  BY MsgType DEF Accepts
<1>2. /\ Len(accepted') = Len(accepted) + 1
      /\ \A i \in 1..Len(accepted) : accepted'[i] = accepted[i]
      /\ accepted'[Len(accepted) + 1] = msg(s)
  BY <1>1, AppendProperties DEF Accepts, TypeOK
<1>3. /\ Len(msgChan') = Len(msgChan) + 1
      /\ \A i \in 1..Len(msgChan) : msgChan'[i] = msgChan[i]
      /\ msgChan'[Len(msgChan) + 1] = msg(s)
  BY <1>1, AppendProperties DEF Accepts, TypeOK
<1>4. Len(wire) \in Nat /\ Len(accepted) \in Nat /\ Len(msgChan) \in Nat
  BY LenProperties DEF TypeOK
<1>5. held' = held /\ held \in {0, 1}  BY DEF held
<1>6. HandExact' /\ Torn'  BY DEF StreamInv, HandExact, Torn
<1>7. Sent'  BY <1>2, <1>4 DEF StreamInv, Sent
<1>8. ASSUME writer \in Running
      PROVE  /\ Len(accepted') = Len(wire) + held + Len(msgChan')
             /\ data # NoData => accepted'[Len(wire) + 1] = data
             /\ \A i \in 1..Len(msgChan') : accepted'[Len(wire) + held + i] = msgChan'[i]
  <2>1. Len(accepted) = Len(wire) + held + Len(msgChan)
    BY <1>8 DEF StreamInv, Pending
  <2>2. ASSUME data # NoData PROVE accepted'[Len(wire) + 1] = data
    BY <2>1, <2>2, <1>2, <1>4, <1>8 DEF StreamInv, Pending, held
  <2>3. ASSUME NEW i \in 1..Len(msgChan')
        PROVE  accepted'[Len(wire) + held + i] = msgChan'[i]
    <3>1. CASE i \in 1..Len(msgChan)
      <4>1. Len(wire) + held + i \in 1..Len(accepted)  BY <3>1, <2>1, <1>4, <1>5
      <4> QED  BY <4>1, <3>1, <1>2, <1>3, <1>8 DEF StreamInv, Pending
    <3>2. CASE i = Len(msgChan) + 1
      <4>1. Len(wire) + held + i = Len(accepted) + 1  BY <3>2, <2>1, <1>4, <1>5
      <4> QED  BY <4>1, <3>2, <1>2, <1>3
    <3> QED  BY <3>1, <3>2, <1>3, <1>4
  <2>4. Len(accepted') = Len(wire) + held + Len(msgChan')
    BY <2>1, <1>2, <1>3, <1>4, <1>5
  <2> QED  BY <2>2, <2>3, <2>4
<1>9. Pending'  BY <1>8, <1>5 DEF Pending
<1> QED  BY <1>6, <1>7, <1>9 DEF StreamInv

\* The head of the queue moves into the writer's hand.
LEMMA TakeStream ==
    ASSUME TypeOK, StreamInv, WriterTakes
    PROVE  StreamInv'
<1>1. /\ writer = "select" /\ writer' = "taken" /\ msgChan # <<>>
      /\ data' = Head(msgChan) /\ msgChan' = Tail(msgChan)
      /\ wire' = wire /\ accepted' = accepted
  BY DEF WriterTakes, otherThanWriter
<1>2. /\ data' \in Message /\ Len(msgChan') = Len(msgChan) - 1
      /\ \A i \in 1..Len(msgChan') : msgChan'[i] = msgChan[i + 1]
  BY <1>1, HeadTailProperties DEF TypeOK
<1>3. /\ Len(wire) \in Nat /\ Len(accepted) \in Nat /\ Len(msgChan) \in Nat \ {0}
  BY <1>1, LenProperties, EmptySeq DEF TypeOK
<1>4. data = NoData /\ held = 0
  BY <1>1 DEF StreamInv, HandExact, held
<1>5. data' # NoData /\ held' = 1
  BY <1>2, NoDataIsNoMessage DEF held, NoData
<1>6. HandExact'  BY <1>1, <1>5 DEF HandExact, NoData
<1>7. Sent' /\ Torn'  BY <1>1 DEF StreamInv, Sent, Torn
<1>8. /\ Len(accepted) = Len(wire) + Len(msgChan)
      /\ \A i \in 1..Len(msgChan) : accepted[Len(wire) + i] = msgChan[i]
  BY <1>1, <1>3, <1>4 DEF StreamInv, Pending, Running
<1>9. data' = msgChan[1]  BY <1>1 DEF TypeOK
<1>10. accepted'[Len(wire') + 1] = data'
  BY <1>1, <1>3, <1>8, <1>9
<1>11. \A i \in 1..Len(msgChan') : accepted'[Len(wire') + held' + i] = msgChan'[i]
  <2> TAKE i \in 1..Len(msgChan')
  <2>1. i + 1 \in 1..Len(msgChan) /\ Len(wire) + 1 + i = Len(wire) + (i + 1)
    BY <1>2, <1>3
  <2>2. accepted[Len(wire) + (i + 1)] = msgChan[i + 1]  BY <2>1, <1>8
  <2> QED  BY <2>1, <2>2, <1>1, <1>2, <1>5
<1>12. Len(accepted') = Len(wire') + held' + Len(msgChan')
  BY <1>1, <1>2, <1>3, <1>5, <1>8
<1>13. Pending'  BY <1>10, <1>11, <1>12 DEF Pending
<1> QED  BY <1>6, <1>7, <1>13 DEF StreamInv

\* What writeFull puts on the socket is the accepted message at that position.
LEMMA WriteStream ==
    ASSUME TypeOK, StreamInv, WriteFull \/ WriteFails
    PROVE  StreamInv'
<1>1. writer = "writing" /\ accepted' = accepted /\ msgChan' = msgChan /\ data' = NoData
  BY DEF WriteFull, WriteFails, otherThanWriter
<1>2. data \in Message /\ data # NoData /\ held = 1
  BY <1>1 DEF StreamInv, HandExact, held, TypeOK
<1>3. Len(wire) \in Nat /\ Len(accepted) \in Nat /\ Len(msgChan) \in Nat
  BY LenProperties DEF TypeOK
<1>4. /\ Len(accepted) = Len(wire) + 1 + Len(msgChan)
      /\ accepted[Len(wire) + 1] = data
      /\ \A i \in 1..Len(msgChan) : accepted[Len(wire) + 1 + i] = msgChan[i]
  BY <1>1, <1>2 DEF StreamInv, Pending, Running
<1>5. HandExact'
  BY <1>1 DEF WriteFull, WriteFails, HandExact, NoData
<1>6. held' = 0  BY <1>1 DEF held, NoData
<1>7. \A i \in 1..Len(wire) : wire[i][1] = accepted[i] /\ wire[i][2] # "torn"
  BY <1>1 DEF StreamInv, Sent, Torn
<1>8. ASSUME NEW how \in {"full", "torn"}, wire' = Append(wire, <<data, how>>)
      PROVE  /\ Sent' /\ Len(wire') = Len(wire) + 1
             /\ \A i \in 1..Len(wire') : wire'[i][2] = "torn" => how = "torn" /\ i = Len(wire')
  <2>1. /\ Len(wire') = Len(wire) + 1
        /\ \A i \in 1..Len(wire) : wire'[i] = wire[i]
        /\ wire'[Len(wire) + 1] = <<data, how>>
    BY <1>2, <1>8, AppendProperties DEF TypeOK
  <2>2. \A i \in 1..Len(wire') : i \in 1..Len(wire) \/ i = Len(wire) + 1
    BY <2>1, <1>3
  <2>3. \A i \in 1..Len(wire') : wire'[i][1] = accepted'[i]
    BY <2>1, <2>2, <1>1, <1>4, <1>7
  <2>4. \A i \in 1..Len(wire') : wire'[i][2] = "torn" => how = "torn" /\ i = Len(wire')
    BY <2>1, <2>2, <1>7
  <2>5. Len(wire') <= Len(accepted')
    BY <2>1, <1>1, <1>3, <1>4
  <2> QED  BY <2>1, <2>3, <2>4, <2>5 DEF Sent
<1>9. CASE WriteFull
  <2>1. Sent' /\ Torn' /\ Len(wire') = Len(wire) + 1
    BY <1>9, <1>8 DEF WriteFull, Torn
  <2>2. Len(accepted') = Len(wire') + held' + Len(msgChan')
    BY <2>1, <1>1, <1>3, <1>4, <1>6
  <2>3. \A i \in 1..Len(msgChan') : accepted'[Len(wire') + held' + i] = msgChan'[i]
    <3> TAKE i \in 1..Len(msgChan')
    <3>1. Len(wire') + held' + i = Len(wire) + 1 + i  BY <2>1, <1>1, <1>3, <1>6
    <3> QED  BY <3>1, <1>1, <1>4
  <2>4. Pending'  BY <2>2, <2>3, <1>1 DEF Pending, NoData
  <2> QED  BY <2>1, <2>4, <1>5 DEF StreamInv
<1>10. CASE WriteFails
  <2>1. Sent' /\ Torn'
    <3>1. writer' = "stopping"  BY <1>10 DEF WriteFails
    <3>2. CASE wire' = wire
      BY <3>2, <1>1, <1>7 DEF Sent, Torn, StreamInv
    <3>3. CASE wire' = Append(wire, <<data, "torn">>)
      BY <3>1, <3>3, <1>8 DEF Torn
    <3> QED  BY <1>10, <3>2, <3>3 DEF WriteFails
  <2>2. Pending'  BY <1>10 DEF WriteFails, Pending, Running
  <2> QED  BY <2>1, <2>2, <1>5 DEF StreamInv
<1> QED  BY <1>9, <1>10

\* The stream is kept by every step.
LEMMA StreamNext ==
    ASSUME TypeOK, History, LifeInv, StreamInv, [Next]_vars
    PROVE  StreamInv'
<1>1. ASSUME UNCHANGED <<msgChan, accepted, writer, data, wire>> PROVE StreamInv'
  BY <1>1 DEF StreamInv, HandExact, Sent, Torn, Pending, held
<1>2. ASSUME NEW s \in AllSenders, CallStep(s) PROVE StreamInv'
  <2>1. UNCHANGED <<writer, data, wire>>
    BY <1>2, SendOutcome DEF CallStep, Call, Expire, otherThanSend, writerVars
  <2>2. CASE Call(s) \/ Expire(s)
    BY <2>2, <2>1, <1>1 DEF Call, Expire
  <2>3. CASE SendStep(s)
    BY <2>3, <2>1, <1>1, SendOutcome, AcceptStream DEF Moves, Errs
  <2> QED  BY <1>2, <2>2, <2>3 DEF CallStep
<1>3. CASE StopStep
  BY <1>3, <1>1 DEF StopStep, StopStatement, CallStop, StopReturns, sendVars, writerVars
<1>4. ASSUME UNCHANGED <<msgChan, accepted, wire>>, data' = NoData,
             writer' \in {"stopping", "done"}, writer # "writing"
      PROVE  StreamInv'
  BY <1>4 DEF StreamInv, HandExact, Sent, Torn, Pending, Running, NoData
<1>5. CASE WriteStep
  <2>1. CASE WriterExits
    BY <2>1, <1>4 DEF WriterExits, otherThanWriter, StreamInv, HandExact
  <2>2. CASE WriterChecks
    <3>1. CASE writer' = "writing"
      BY <2>2, <3>1 DEF WriterChecks, otherThanWriter, StreamInv, HandExact, Sent, Torn,
         Pending, Running, held
    <3> QED  BY <2>2, <3>1, <1>4 DEF WriterChecks, otherThanWriter
  <2>3. CASE WriterDone
    BY <2>3, <1>4 DEF WriterDone, otherThanWriter, StreamInv, HandExact
  <2> QED  BY <1>5, <2>1, <2>2, <2>3, TakeStream, WriteStream DEF WriteStep, WriterStep
<1>6. CASE ReadStep
  BY <1>6, <1>1 DEF ReadStep, ReadMessage, ReadFails, Dispatch, ReaderDone,
     otherThanReader, sendVars, writerVars
<1>7. CASE MainStep
  <2>1. CASE startWriter
    <3>1. writer = "off"  BY <2>1 DEF startWriter, LifeInv, Started
    <3> QED  BY <2>1, <3>1 DEF startWriter, sendVars, StreamInv, HandExact, Sent, Torn,
                Pending, Running, held
  <2> QED  BY <1>7, <2>1, <1>1 DEF MainStep, startReader, WaitExit, WaitIO,
              sendVars, writerVars
<1>8. CASE UNCHANGED vars
  BY <1>8, <1>1 DEF vars, sendVars, writerVars
<1> QED  BY <1>2, <1>3, <1>5, <1>6, <1>7, <1>8, NextCases

-----------------------------------------------------------------------------
(***************************************************************************)
(* The theorems.                                                           *)
(***************************************************************************)

\* A new connection satisfies the invariant.
LEMMA InitInv == Init => IInv
<1> SUFFICES ASSUME Init PROVE IInv
  OBVIOUS
<1>1. SendType
  BY ConnectionAssumption, EmptySeq DEF Init, SendType
<1>2. StopType /\ IOType
  <2>1. cpc \in [Closers -> {"idle", "stopping", "returned"}]
    BY DEF Init
  <2>2. stop \in 0..Stopped /\ reads \in 0..MaxReads
    BY ConnectionAssumption DEF Init, Stopped
  <2> QED  BY <2>1, <2>2 DEF Init, StopType, IOType
<1>3. WriteType
  BY EmptySeq DEF Init, WriteType
<1>4. GateInv  BY DEF Init, GateInv, GateHeld
<1>5. History  BY DEF Init, History
<1>6. LifeInv  BY DEF Init, LifeInv, Started, Counted, Joined
<1>7. Len(wire) = 0 /\ Len(accepted) = 0 /\ Len(msgChan) = 0
  BY DEF Init
<1>8. StreamInv
  BY <1>7 DEF Init, StreamInv, HandExact, Sent, Torn, Pending, held, NoData
<1> QED  BY <1>1, <1>2, <1>3, <1>4, <1>5, <1>6, <1>8, TypeParts DEF Init, IInv

\* Every step of the connection keeps the invariant.
LEMMA NextInv == IInv /\ [Next]_vars => IInv'
<1> SUFFICES ASSUME IInv, [Next]_vars PROVE IInv'
  OBVIOUS
<1>1. TypeOK /\ GateInv /\ History /\ LifeInv /\ StreamInv /\ HandExact
  BY DEF IInv, StreamInv
<1>2. GateInv' /\ History' /\ LifeInv' /\ StreamInv' /\ ioWait' \in Nat
  BY <1>1, GateNext, HistoryNext, LifeNext, StreamNext
<1>3. SendType' /\ StopType' /\ IOType' /\ WriteType'
  BY <1>1, SendTypeNext, IOTypeNext
<1>4. gate' \in Nat  BY <1>2 DEF GateInv
<1>5. TypeOK'
  BY <1>2, <1>3, <1>4 DEF TypeOK, SendType, StopType, IOType, WriteType
<1> QED  BY <1>2, <1>5 DEF IInv

\* The positions agree, so the sequences do.
LEMMA StreamFromPositions == IInv => StreamIntegrity
<1> SUFFICES ASSUME IInv PROVE StreamIntegrity
  OBVIOUS
<1>1. /\ wire \in Seq(Message \X {"full", "torn"})
      /\ accepted \in Seq(Message) /\ msgChan \in Seq(Message)
      /\ Len(wire) \in Nat /\ Len(accepted) \in Nat /\ Len(msgChan) \in Nat
  BY LenProperties DEF IInv, TypeOK
<1>2. wireMsgs \in Seq(Message) /\ Len(wireMsgs) = Len(wire)
  <2>1. wireMsgs \in [1..Len(wire) -> Message]
    BY <1>1, ElementOfSeq DEF wireMsgs
  <2>2. wireMsgs \in Seq(Message)  BY <2>1, <1>1, SeqDef
  <2>3. DOMAIN wireMsgs = 1..Len(wireMsgs) /\ Len(wireMsgs) \in Nat
    BY <2>2, LenProperties
  <2>4. 1..Len(wireMsgs) = 1..Len(wire)  BY <2>1, <2>3
  <2> QED  BY <2>2, <2>3, <2>4, <1>1
<1>3. \A i \in 1..Len(wire) : wireMsgs[i] = accepted[i]
  BY DEF wireMsgs, IInv, StreamInv, Sent
<1>4. Len(wireMsgs) <= Len(accepted)
  BY <1>2 DEF IInv, StreamInv, Sent
<1>5. wireMsgs = SubSeq(accepted, 1, Len(wireMsgs))
  <2> DEFINE n == Len(wireMsgs)
             pre == SubSeq(accepted, 1, n)
  <2>1. n \in Nat /\ n <= Len(accepted)  BY <1>1, <1>2, <1>4
  <2>2. \A i \in 1..n : accepted[i] \in Message
    BY <2>1, <1>1, ElementOfSeq
  <2> HIDE DEF n
  <2>3. pre \in Seq(Message) /\ Len(pre) = (IF 1 <= n THEN n-1+1 ELSE 0)
        /\ \A i \in 1..n-1+1 : pre[i] = accepted[1+i-1]
    BY <2>1, <2>2, SubSeqProperties
  <2>4. Len(pre) = n /\ \A i \in 1..n : pre[i] = accepted[i]
    BY <2>1, <2>3
  <2> HIDE DEF pre
  <2>5. wireMsgs = pre
    BY <2>3, <2>4, <1>2, <1>3, SeqEqual DEF n
  <2> QED  BY <2>5 DEF pre, n
<1>6. ASSUME writer \in {"off", "select", "taken", "writing"}
      PROVE  accepted = wireMsgs \o inHand \o msgChan
  <2> DEFINE front == wireMsgs \o inHand
             all == front \o msgChan
  <2>1. /\ Len(accepted) = Len(wire) + held + Len(msgChan)
        /\ data # NoData => accepted[Len(wire) + 1] = data
        /\ \A i \in 1..Len(msgChan) : accepted[Len(wire) + held + i] = msgChan[i]
    BY <1>6 DEF IInv, StreamInv, Pending, Running
  <2>2. /\ inHand \in Seq(Message) /\ Len(inHand) = held /\ held \in {0, 1}
        /\ held = 1 => inHand[1] = data /\ data # NoData
    BY DEF inHand, held, NoData, IInv, TypeOK
  <2>3. /\ front \in Seq(Message) /\ Len(front) = Len(wire) + held
        /\ \A i \in 1..Len(wire) + held : front[i] =
              IF i <= Len(wire) THEN wireMsgs[i] ELSE inHand[i - Len(wire)]
    BY <2>2, <1>2, ConcatProperties
  <2>4. \A i \in 1..Len(front) : front[i] = accepted[i]
    <3> TAKE i \in 1..Len(front)
    <3>1. CASE i <= Len(wire)
      BY <3>1, <2>2, <2>3, <1>1, <1>3
    <3>2. CASE i = Len(wire) + 1 /\ held = 1
      <4>1. i - Len(wire) = 1 /\ ~(i <= Len(wire)) /\ i \in 1..Len(wire) + held
        BY <3>2, <1>1
      <4>2. front[i] = inHand[1]  BY <4>1, <2>3
      <4> QED  BY <4>2, <3>2, <2>1, <2>2
    <3> QED  BY <3>1, <3>2, <2>2, <2>3, <1>1
  <2> HIDE DEF front
  <2>5. /\ all \in Seq(Message) /\ Len(all) = Len(front) + Len(msgChan)
        /\ \A i \in 1..Len(front) + Len(msgChan) : all[i] =
              IF i <= Len(front) THEN front[i] ELSE msgChan[i - Len(front)]
    BY <2>3, <1>1, ConcatProperties
  <2> HIDE DEF all
  <2>6. Len(all) = Len(accepted)  BY <2>1, <2>2, <2>3, <2>5, <1>1
  <2>7. \A i \in 1..Len(all) : all[i] = accepted[i]
    <3> TAKE i \in 1..Len(all)
    <3>1. CASE i <= Len(front)
      <4>1. i \in 1..Len(front)  BY <3>1, <2>2, <2>3, <1>1
      <4> QED  BY <4>1, <2>4, <2>5, <3>1
    <3>2. CASE ~(i <= Len(front))
      <4>1. /\ i - Len(front) \in 1..Len(msgChan)
            /\ Len(wire) + held + (i - Len(front)) = i
        BY <3>2, <2>2, <2>3, <2>5, <1>1
      <4>2. accepted[Len(wire) + held + (i - Len(front))] = msgChan[i - Len(front)]
        BY <4>1, <2>1
      <4> QED  BY <4>1, <4>2, <3>2, <2>5
    <3> QED  BY <3>1, <3>2
  <2>8. all = accepted  BY <2>5, <2>6, <2>7, <1>1, SeqEqual
  <2> QED  BY <2>8 DEF all, front
<1> QED  BY <1>4, <1>5, <1>6 DEF StreamIntegrity, IInv, StreamInv, Torn, History

\* The invariant holds in every reachable state of a connection.
THEOREM ConnectionInvariant == Spec => []IInv
<1>1. Init => IInv  BY InitInv
<1>2. IInv /\ [Next]_vars => IInv'  BY NextInv
<1> QED  BY <1>1, <1>2, PTL DEF Spec

\* send: the token count of sendGate is the number of senders inside, at most
\* one, on every return path, and msgChan never exceeds its capacity.
THEOREM ConnectionGateExact == Spec => []GateExact
<1>1. IInv => GateExact
  <2> SUFFICES ASSUME IInv PROVE GateExact
    OBVIOUS
  <2>1. CASE gate = 0
    BY <2>1, FS_EmptySet DEF IInv, GateInv, GateExact
  <2>2. CASE gate = 1
    BY <2>2, FS_Singleton DEF IInv, GateInv, GateExact
  <2> QED  BY <2>1, <2>2 DEF IInv, GateInv
<1> QED  BY <1>1, ConnectionInvariant, PTL

\* The peer sees a prefix of the accepted messages in order, torn at most in
\* its last frame, and nothing that a send reported as an error.
THEOREM ConnectionStreamIntegrity == Spec => []StreamIntegrity
BY StreamFromPositions, ConnectionInvariant, PTL

\* Start returns only when both goroutines have ended and the socket is closed.
THEOREM ConnectionJoinedOnReturn == Spec => []JoinedOnReturn
<1>1. IInv => JoinedOnReturn
  BY DEF IInv, LifeInv, Counted, Joined, JoinedOnReturn, socketClosed, Stopped
<1> QED  BY <1>1, ConnectionInvariant, PTL

=============================================================================
