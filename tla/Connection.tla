----------------------------- MODULE Connection -----------------------------
(***************************************************************************)
(* One TCP connection of gnet/connection.go: the reader and the writer     *)
(* goroutine, the goroutine that starts them and waits for them, any       *)
(* number of senders that pass through sendGate into the bounded msgChan,  *)
(* and Stop, which whoever calls it runs once.                             *)
(*                                                                         *)
(* A message is a pair <<sender, position>>.  The peer and the socket are  *)
(* external: a write may complete, fail after some bytes, or hang until    *)
(* the socket is closed; a read may deliver a message or fail at any time. *)
(***************************************************************************)
EXTENDS Integers, Sequences, FiniteSets

CONSTANTS
    Senders,        \* callers of SendMsg and SendMsgContext, which may wait
    BuffSenders,    \* callers of SendBuffMsg, which never wait
    Closers,        \* other callers of Stop: routers, ConnManager.ClearConn
    MaxMsgChanLen,  \* capacity of msgChan
    MaxSends,       \* bound: sends in all
    MaxReads        \* bound: messages that arrive from the peer

ASSUME ConnectionAssumption ==
    /\ Senders \cap BuffSenders = {}
    /\ IsFiniteSet(Senders \cup BuffSenders)
    /\ MaxMsgChanLen \in Nat \ {0}
    /\ MaxSends \in Nat /\ MaxReads \in Nat

VARIABLES
    stop,       \* how many of the statements of Stop have been executed
    exitTaken,  \* the value that Stop put into ExitBuffChan was received
    cpc,        \* external callers of Stop
    gate,       \* number of tokens in sendGate
    msgChan,    \* outbound queue
    spc,        \* where each sender is in send
    calls,      \* sends begun by each sender
    expired,    \* the caller's context of the current send is done
    writer, data,   \* the writer goroutine and the message it took
    wire,       \* frames put on the socket: message and "full" or "torn"
    reader, reads,  \* the reader goroutine; messages read
    main,       \* the goroutine in Start
    ioWait,     \* counter of ioWait
    accepted,   \* history: messages whose send returned nil, in queue order
    refused     \* history: messages whose send returned an error

stopVars == <<stop, exitTaken, cpc>>
sendVars == <<gate, msgChan, spc, calls, expired, accepted, refused>>
writerVars == <<writer, data, wire>>
readerVars == <<reader, reads>>
vars == <<stopVars, sendVars, writerVars, readerVars, main, ioWait>>

-----------------------------------------------------------------------------
AllSenders == Senders \cup BuffSenders
Message == AllSenders \X (1..MaxSends)
NoData == <<>>

\* The statements of Stop, in order: each holds once its statement ran.
isClosed == stop >= 1           \* isClosed.Store(true)
neverCancelled == FALSE         \* mutant: cancel() is missing
cancelled == stop >= 2          \* cancel()
socketClosed == stop >= 3       \* Conn.Close()
exitSent == stop >= 4           \* ExitBuffChan <- true
exitNeverClosed == FALSE        \* mutant: close(ExitBuffChan) is missing
exitClosed == stop >= 5         \* close(ExitBuffChan)
Stopped == 5

msg(s) == <<s, calls[s]>>
begun == {m \in Message : m[2] <= calls[m[1]]}

Init ==
    /\ stop = 0
    /\ exitTaken = FALSE
    /\ cpc = [p \in Closers |-> "idle"]
    /\ gate = 0
    /\ msgChan = <<>>
    /\ spc = [s \in AllSenders |-> "idle"]
    /\ calls = [s \in AllSenders |-> 0]
    /\ expired = [s \in AllSenders |-> FALSE]
    /\ writer = "off" /\ data = NoData /\ wire = <<>>
    /\ reader = "off" /\ reads = 0
    /\ main = "new"
    /\ ioWait = 0
    /\ accepted = <<>>
    /\ refused = {}

-----------------------------------------------------------------------------
(***************************************************************************)
(* Stop.  stopOnce lets one caller run the body; the others wait in Do     *)
(* until it has finished.                                                  *)
(***************************************************************************)
InStop == writer = "stopping" \/ reader = "stopping"
            \/ \E p \in Closers : cpc[p] = "stopping"

CallStop(p) ==
    /\ cpc[p] = "idle"
    /\ cpc' = [cpc EXCEPT ![p] = "stopping"]
    /\ UNCHANGED <<stop, exitTaken, sendVars, writerVars, readerVars, main, ioWait>>

StopStatement ==
    /\ InStop
    /\ stop < Stopped
    /\ stop' = stop + 1
    /\ UNCHANGED <<exitTaken, cpc, sendVars, writerVars, readerVars, main, ioWait>>

StopReturns(p) ==
    /\ cpc[p] = "stopping"
    /\ stop = Stopped
    /\ cpc' = [cpc EXCEPT ![p] = "returned"]
    /\ UNCHANGED <<stop, exitTaken, sendVars, writerVars, readerVars, main, ioWait>>

\* A receive from ExitBuffChan: the first one takes the value, the later
\* ones succeed once the channel is closed.
ReceiveExit ==
    \/ exitSent /\ ~exitTaken /\ exitTaken' = TRUE
    \/ exitClosed /\ exitTaken /\ UNCHANGED exitTaken

-----------------------------------------------------------------------------
(***************************************************************************)
(* send: SendMsg, SendMsgContext and SendBuffMsg.                          *)
(***************************************************************************)
otherThanSend == <<stopVars, writerVars, readerVars, main, ioWait>>

Call(s) ==
    /\ spc[s] = "idle"
    /\ Cardinality(begun) < MaxSends     \* bound
    /\ calls' = [calls EXCEPT ![s] = @ + 1]
    /\ spc' = [spc EXCEPT ![s] = "enter"]
    /\ UNCHANGED <<gate, msgChan, expired, accepted, refused, otherThanSend>>

\* SendTimeout elapses or the caller cancels; SendBuffMsg has no context.
Expire(s) ==
    /\ spc[s] # "idle" /\ s \in Senders
    /\ ~expired[s]
    /\ expired' = [expired EXCEPT ![s] = TRUE]
    /\ UNCHANGED <<gate, msgChan, spc, calls, accepted, refused, otherThanSend>>

\* The context belongs to the call and ends with it.
Return(s) ==
    /\ spc' = [spc EXCEPT ![s] = "idle"]
    /\ expired' = [expired EXCEPT ![s] = FALSE]
    /\ UNCHANGED <<calls, otherThanSend>>

Refuse(s) ==
    /\ Return(s)
    /\ refused' = refused \cup {msg(s)}
    /\ UNCHANGED <<msgChan, accepted>>

Enter(s) ==
    /\ spc[s] = "enter"
    /\ \/ /\ isClosed \/ expired[s]
          /\ Refuse(s)
       \/ /\ ~isClosed /\ ~expired[s]
          /\ spc' = [spc EXCEPT ![s] = "gate"]
          /\ UNCHANGED <<msgChan, calls, expired, accepted, refused, otherThanSend>>
    /\ UNCHANGED gate

AcquireGate(s) ==
    /\ spc[s] = "gate"
    /\ gate = 0
    /\ gate' = 1
    /\ spc' = [spc EXCEPT ![s] = "inside"]
    /\ UNCHANGED <<msgChan, calls, expired, accepted, refused, otherThanSend>>

\* The other cases of both selects: a sender that never waits gives up when
\* the channel is full, the others when a context ends.
GiveUp(s, full) == IF s \in BuffSenders THEN full ELSE expired[s] \/ cancelled

GateRefused(s) ==
    /\ spc[s] = "gate"
    /\ GiveUp(s, gate = 1)
    /\ Refuse(s)
    /\ UNCHANGED gate

\* The deferred receive from sendGate runs at every later return.
KeepGate == gate' = gate        \* mutant
ReleaseGate == gate' = gate - 1

\* State is checked again behind the gate, and Pack may fail.
Inside(s) ==
    /\ spc[s] = "inside"
    /\ \/ Refuse(s) /\ ReleaseGate
       \/ /\ ~isClosed /\ ~expired[s]
          /\ spc' = [spc EXCEPT ![s] = "enqueue"]
          /\ UNCHANGED <<gate, msgChan, calls, expired, accepted, refused, otherThanSend>>

Enqueue(s) ==
    /\ spc[s] = "enqueue"
    /\ Len(msgChan) < MaxMsgChanLen
    /\ msgChan' = Append(msgChan, msg(s))
    /\ accepted' = Append(accepted, msg(s))
    /\ ReleaseGate
    /\ Return(s)
    /\ UNCHANGED refused

EnqueueRefused(s) ==
    /\ spc[s] = "enqueue"
    /\ GiveUp(s, Len(msgChan) >= MaxMsgChanLen)
    /\ Refuse(s)
    /\ ReleaseGate

-----------------------------------------------------------------------------
(***************************************************************************)
(* StartWriter.                                                            *)
(***************************************************************************)
otherThanWriter == <<stop, cpc, gate, spc, calls, expired, accepted, refused,
                     readerVars, main>>

WriterTakes ==
    /\ writer = "select"
    /\ msgChan # <<>>
    /\ data' = Head(msgChan)
    /\ msgChan' = Tail(msgChan)
    /\ writer' = "taken"
    /\ UNCHANGED <<wire, exitTaken, ioWait, otherThanWriter>>

WriterExits ==
    /\ writer = "select"
    /\ ReceiveExit
    /\ writer' = "stopping"
    /\ UNCHANGED <<data, wire, msgChan, ioWait, otherThanWriter>>

\* A message taken after the close is dropped.  (A write deadline that cannot
\* be set on a closed socket ends like a write that fails at once.)
WriterChecks ==
    /\ writer = "taken"
    /\ \/ /\ ~isClosed
          /\ writer' = "writing"
          /\ UNCHANGED data
       \/ /\ isClosed
          /\ writer' = "stopping"
          /\ data' = NoData
    /\ UNCHANGED <<wire, exitTaken, msgChan, ioWait, otherThanWriter>>

\* writeFull puts the whole frame on the socket.
WriteFull ==
    /\ writer = "writing"
    /\ ~socketClosed
    /\ wire' = Append(wire, <<data, "full">>)
    /\ data' = NoData
    /\ writer' = "select"
    /\ UNCHANGED <<exitTaken, msgChan, ioWait, otherThanWriter>>

\* writeFull fails, possibly after part of the frame: the peer is gone, the
\* deadline passed or Stop closed the socket.  The writer ends.
\* Mutant: it goes on with the next message.
WriteFailsGoOn ==
    /\ writer = "writing"
    /\ wire' \in {wire, Append(wire, <<data, "torn">>)}
    /\ data' = NoData
    /\ writer' = "select"
    /\ UNCHANGED <<exitTaken, msgChan, ioWait, otherThanWriter>>
WriteFails ==
    /\ writer = "writing"
    /\ wire' \in {wire, Append(wire, <<data, "torn">>)}
    /\ data' = NoData
    /\ writer' = "stopping"
    /\ UNCHANGED <<exitTaken, msgChan, ioWait, otherThanWriter>>

\* The deferred Stop has returned.
WriterDone ==
    /\ writer = "stopping"
    /\ stop = Stopped
    /\ writer' = "done"
    /\ ioWait' = ioWait - 1
    /\ UNCHANGED <<data, wire, exitTaken, msgChan, otherThanWriter>>

-----------------------------------------------------------------------------
(***************************************************************************)
(* StartReader.                                                            *)
(***************************************************************************)
otherThanReader == <<stopVars, sendVars, writerVars, main>>

ReadMessage ==
    /\ reader = "reading"
    /\ ~socketClosed
    /\ reads < MaxReads
    /\ reads' = reads + 1
    /\ reader' = "read"
    /\ UNCHANGED <<ioWait, otherThanReader>>

\* End of stream, a malformed frame, the heartbeat deadline or a closed socket.
ReadFails ==
    /\ reader = "reading"
    /\ reader' = "stopping"
    /\ UNCHANGED <<reads, ioWait, otherThanReader>>

\* The rate limit, then SendMsgToTaskQueue: either may end the connection.
Dispatch ==
    /\ reader = "read"
    /\ reader' \in {"reading", "stopping"}
    /\ UNCHANGED <<reads, ioWait, otherThanReader>>

ReaderDone ==
    /\ reader = "stopping"
    /\ stop = Stopped
    /\ reader' = "done"
    /\ ioWait' = ioWait - 1
    /\ UNCHANGED <<reads, otherThanReader>>

-----------------------------------------------------------------------------
(***************************************************************************)
(* Start: startIO, then wait.                                              *)
(***************************************************************************)
startReader ==
    /\ main = "new"
    /\ ioWait' = ioWait + 1
    /\ reader' = "reading"
    /\ main' = "reader"
    /\ UNCHANGED <<reads, stopVars, sendVars, writerVars>>

startWriter ==
    /\ main = "reader"
    /\ ioWait' = ioWait + 1
    /\ writer' = "select"
    /\ main' = "waitExit"
    /\ UNCHANGED <<data, wire, stopVars, sendVars, readerVars>>

WaitExit ==
    /\ main = "waitExit"
    /\ ReceiveExit
    /\ main' = "waitIO"
    /\ UNCHANGED <<stop, cpc, sendVars, writerVars, readerVars, ioWait>>

\* Mutant: wait does not join the goroutines.
WaitNothing ==
    /\ main = "waitIO"
    /\ main' = "returned"
    /\ UNCHANGED <<stopVars, sendVars, writerVars, readerVars, ioWait>>
WaitIO ==
    /\ main = "waitIO"
    /\ ioWait = 0
    /\ main' = "returned"
    /\ UNCHANGED <<stopVars, sendVars, writerVars, readerVars, ioWait>>

-----------------------------------------------------------------------------
Finished ==
    /\ main = "returned"
    /\ \A s \in AllSenders : spc[s] = "idle"
    /\ UNCHANGED vars

SendStep(s) == Enter(s) \/ AcquireGate(s) \/ GateRefused(s) \/ Inside(s)
                 \/ Enqueue(s) \/ EnqueueRefused(s)
WriterStep == WriterTakes \/ WriterExits \/ WriterChecks \/ WriterDone
MainStep == startReader \/ startWriter \/ WaitExit \/ WaitIO

Next ==
    \/ \E p \in Closers : CallStop(p) \/ StopReturns(p)
    \/ StopStatement
    \/ \E s \in AllSenders : Call(s) \/ Expire(s) \/ SendStep(s)
    \/ WriterStep \/ WriteFull \/ WriteFails
    \/ ReadMessage \/ ReadFails \/ Dispatch \/ ReaderDone
    \/ MainStep
    \/ Finished

Spec == Init /\ [][Next]_vars

\* Goroutines run; the peer need not read, answer or close, so a pending
\* write or read only has to end once the socket is closed here.
Fairness ==
    /\ WF_vars(StopStatement)
    /\ \A p \in Closers : WF_vars(StopReturns(p))
    /\ \A s \in AllSenders : WF_vars(SendStep(s))
    /\ WF_vars(WriterStep) /\ WF_vars(socketClosed /\ WriteFails)
    /\ WF_vars(Dispatch) /\ WF_vars(ReaderDone) /\ WF_vars(socketClosed /\ ReadFails)
    /\ WF_vars(MainStep)

FairSpec == Spec /\ Fairness

-----------------------------------------------------------------------------
(***************************************************************************)
(* Properties.                                                             *)
(***************************************************************************)
TypeOK ==
    /\ stop \in 0..Stopped
    /\ exitTaken \in BOOLEAN
    /\ cpc \in [Closers -> {"idle", "stopping", "returned"}]
    /\ gate \in Nat
    /\ msgChan \in Seq(Message) /\ Len(msgChan) <= MaxMsgChanLen
    /\ spc \in [AllSenders -> {"idle", "enter", "gate", "inside", "enqueue"}]
    /\ calls \in [AllSenders -> 0..MaxSends]
    /\ expired \in [AllSenders -> BOOLEAN]
    /\ writer \in {"off", "select", "taken", "writing", "stopping", "done"}
    /\ data \in Message \cup {NoData}
    /\ wire \in Seq(Message \X {"full", "torn"})
    /\ reader \in {"off", "reading", "read", "stopping", "done"}
    /\ reads \in 0..MaxReads
    /\ main \in {"new", "reader", "waitExit", "waitIO", "returned"}
    /\ ioWait \in Nat
    /\ accepted \in Seq(Message)
    /\ refused \subseteq Message

\* The token count of sendGate is the number of senders between acquiring and
\* releasing it, at most one: no return path of send keeps the gate.  And the
\* state is well typed, with no more than MaxMsgChanLen messages in the queue.
GateHeld == {s \in AllSenders : spc[s] \in {"inside", "enqueue"}}
GateExact == TypeOK /\ gate = Cardinality(GateHeld) /\ gate <= 1

\* The peer sees a prefix of the accepted messages in the order they were
\* accepted; only the last frame can be torn, and while the writer is running
\* no accepted message has been dropped.  A send that reported an error, a
\* timeout included, put nothing into that stream.
wireMsgs == [i \in 1..Len(wire) |-> wire[i][1]]
inHand == IF data = NoData THEN <<>> ELSE <<data>>
StreamIntegrity ==
    /\ Len(wireMsgs) <= Len(accepted)
    /\ wireMsgs = SubSeq(accepted, 1, Len(wireMsgs))
    /\ \A i \in 1..Len(wire) : wire[i][2] = "torn" =>
          i = Len(wire) /\ writer \in {"stopping", "done"}
    /\ writer \in {"off", "select", "taken", "writing"} =>
          accepted = wireMsgs \o inHand \o msgChan
    /\ \A i \in 1..Len(accepted) : accepted[i] \notin refused

\* When Start returns both goroutines are over and the socket is closed.
JoinedOnReturn ==
    main = "returned" =>
        writer = "done" /\ reader = "done" /\ socketClosed /\ ioWait = 0

\* Once anyone has begun Stop, Start returns: neither a hanging write or read
\* nor the single value in ExitBuffChan keeps a goroutine.
StopEndsConnection == isClosed ~> main = "returned"

\* Stop releases the senders that wait for the gate or for the queue.
StopReleasesSenders ==
    \A s \in AllSenders : (isClosed /\ spc[s] # "idle") ~> spc[s] = "idle"

=============================================================================
