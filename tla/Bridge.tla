------------------------------- MODULE Bridge -------------------------------
(***************************************************************************)
(* The WebSocket bridge of wsbridge/bridge.go: ServeHTTP turns a request   *)
(* into a tunnel between a browser and one TCP connection, with the        *)
(* handler forwarding in one direction and a goroutine in the other; Close *)
(* refuses new tunnels, cancels those there are and waits for them.        *)
(*                                                                         *)
(* The packets are not distinguished.  A dial, an upgrade, a read or a     *)
(* write may succeed or fail at any time (the peers and the deadlines are  *)
(* external) and fails when its socket has been closed.                    *)
(***************************************************************************)
EXTENDS Integers, FiniteSets

CONSTANTS
    Requests,           \* upgrade requests that arrive
    Closers,            \* callers of Close
    MaxConnections      \* Options.MaxConnections

ASSUME BridgeAssumption ==
    IsFiniteSet(Requests) /\ MaxConnections \in Nat \ {0}

VARIABLES
    bridgeClosed,       \* Bridge.closed
    active,             \* the keys of Bridge.active
    wg,                 \* counter of Bridge.wg
    cancelled,          \* requests whose context is done
    pc,                 \* where each handler is in ServeHTTP
    fwd,                \* its goroutine from upstream to browser
    hook,               \* its context.AfterFunc
    upstream, ws,       \* its sockets: "none", "open", "closed"
    cpc                 \* callers of Close: "idle", "wait", "returned"

bridgeFields == <<bridgeClosed, active, wg>>
sockets == <<upstream, ws>>
bridgeVars == <<bridgeFields, cancelled, pc, fwd, hook, sockets, cpc>>

-----------------------------------------------------------------------------
BridgeInit ==
    /\ bridgeClosed = FALSE /\ active = {} /\ wg = 0
    /\ cancelled = {}
    /\ pc = [r \in Requests |-> "new"]
    /\ fwd = [r \in Requests |-> "none"]
    /\ hook = [r \in Requests |-> "none"]
    /\ upstream = [r \in Requests |-> "none"]
    /\ ws = [r \in Requests |-> "none"]
    /\ cpc = [k \in Closers |-> "idle"]

goto(r, label) == pc' = [pc EXCEPT ![r] = label]

\* The request's own context ends: its server shuts down.
CancelRequest(r) ==
    /\ r \notin cancelled
    /\ cancelled' = cancelled \cup {r}
    /\ UNCHANGED <<bridgeFields, pc, fwd, hook, sockets, cpc>>

-----------------------------------------------------------------------------
(***************************************************************************)
(* The handler.                                                            *)
(***************************************************************************)
\* Mutant: one tunnel too many.
availableOneMore == ~bridgeClosed /\ Cardinality(active) <= MaxConnections
available == ~bridgeClosed /\ Cardinality(active) < MaxConnections

\* The check, the registration and wg.Add, under the lock.
Admit(r) ==
    /\ pc[r] = "new"
    /\ IF available
       THEN /\ active' = active \cup {r} /\ wg' = wg + 1
            /\ goto(r, "dial")
       ELSE goto(r, "refused") /\ UNCHANGED <<active, wg>>
    /\ UNCHANGED <<bridgeClosed, cancelled, fwd, hook, sockets, cpc>>

Dial(r) ==
    /\ pc[r] = "dial"
    /\ \/ goto(r, "upgrade") /\ upstream' = [upstream EXCEPT ![r] = "open"]
       \/ goto(r, "deregister") /\ UNCHANGED upstream
    /\ UNCHANGED <<bridgeFields, cancelled, fwd, hook, ws, cpc>>

\* A failed upgrade runs the deferred upstream.Close; a successful one arms
\* the hook and starts the other direction.
UpgradeFails(r) ==
    /\ pc[r] = "upgrade"
    /\ upstream' = [upstream EXCEPT ![r] = "closed"]
    /\ goto(r, "deregister")
    /\ UNCHANGED <<bridgeFields, cancelled, fwd, hook, ws, cpc>>

Upgrade(r) ==
    /\ pc[r] = "upgrade"
    /\ ws' = [ws EXCEPT ![r] = "open"]
    /\ goto(r, "arm")
    /\ UNCHANGED <<bridgeFields, cancelled, fwd, hook, upstream, cpc>>

\* Mutant: nothing is done when the context ends.
armNothing(r) == "none"
armed(r) == "armed"

AfterFunc(r) ==
    /\ pc[r] = "arm"
    /\ hook' = [hook EXCEPT ![r] = armed(r)]
    /\ goto(r, "go")
    /\ UNCHANGED <<bridgeFields, cancelled, fwd, sockets, cpc>>

Go(r) ==
    /\ pc[r] = "go"
    /\ fwd' = [fwd EXCEPT ![r] = "read"]
    /\ goto(r, "read")
    /\ UNCHANGED <<bridgeFields, cancelled, hook, sockets, cpc>>

\* A packet from the browser is written upstream ...
ReadWS(r) ==
    /\ pc[r] = "read" /\ ws[r] = "open"
    /\ goto(r, "write")
    /\ UNCHANGED <<bridgeFields, cancelled, fwd, hook, sockets, cpc>>

WriteUpstream(r) ==
    /\ pc[r] = "write" /\ upstream[r] = "open"
    /\ goto(r, "read")
    /\ UNCHANGED <<bridgeFields, cancelled, fwd, hook, sockets, cpc>>

\* ... until a read or a write fails or the packet is refused.
Broken(r) ==
    /\ pc[r] \in {"read", "write"}
    /\ goto(r, "closeUpstream")
    /\ UNCHANGED <<bridgeFields, cancelled, fwd, hook, sockets, cpc>>

\* The deferred calls: close both sockets, wait for the other direction,
\* disarm the hook, leave the map, wg.Done.
CloseUpstream(r) ==
    /\ pc[r] = "closeUpstream"
    /\ upstream' = [upstream EXCEPT ![r] = "closed"]
    /\ goto(r, "closeWS")
    /\ UNCHANGED <<bridgeFields, cancelled, fwd, hook, ws, cpc>>

CloseWS(r) ==
    /\ pc[r] = "closeWS"
    /\ ws' = [ws EXCEPT ![r] = "closed"]
    /\ goto(r, "join")
    /\ UNCHANGED <<bridgeFields, cancelled, fwd, hook, upstream, cpc>>

\* Mutant: the other direction is not waited for.
joinNothing(r) == TRUE
done(r) == fwd[r] = "exited"

JoinForward(r) ==
    /\ pc[r] = "join" /\ done(r)
    /\ goto(r, "disarm")
    /\ UNCHANGED <<bridgeFields, cancelled, fwd, hook, sockets, cpc>>

Disarm(r) ==
    /\ pc[r] = "disarm"
    /\ hook' = [hook EXCEPT ![r] = IF @ = "armed" THEN "off" ELSE @]
    /\ goto(r, "deregister")
    /\ UNCHANGED <<bridgeFields, cancelled, fwd, sockets, cpc>>

Deregister(r) ==
    /\ pc[r] = "deregister"
    /\ active' = active \ {r}
    /\ goto(r, "done")
    /\ UNCHANGED <<bridgeClosed, wg, cancelled, fwd, hook, sockets, cpc>>

Done(r) ==
    /\ pc[r] = "done"
    /\ wg' = wg - 1
    /\ cancelled' = cancelled \cup {r}
    /\ goto(r, "gone")
    /\ UNCHANGED <<bridgeClosed, active, fwd, hook, sockets, cpc>>

-----------------------------------------------------------------------------
(***************************************************************************)
(* The goroutine that forwards upstream packets to the browser.            *)
(***************************************************************************)
ReadUpstream(r) ==
    /\ fwd[r] = "read" /\ upstream[r] = "open"
    /\ fwd' = [fwd EXCEPT ![r] = "write"]
    /\ UNCHANGED <<bridgeFields, cancelled, pc, hook, sockets, cpc>>

WriteWS(r) ==
    /\ fwd[r] = "write" /\ ws[r] = "open"
    /\ fwd' = [fwd EXCEPT ![r] = "read"]
    /\ UNCHANGED <<bridgeFields, cancelled, pc, hook, sockets, cpc>>

ForwardBroken(r) ==
    /\ fwd[r] \in {"read", "write"}
    /\ fwd' = [fwd EXCEPT ![r] = "close"]
    /\ UNCHANGED <<bridgeFields, cancelled, pc, hook, sockets, cpc>>

\* Its deferred ws.Close frees the handler from its read.
\* Mutant: it leaves the socket open.
keepOpen(r) == ws[r]
closeSocket(r) == "closed"

ForwardClose(r) ==
    /\ fwd[r] = "close"
    /\ ws' = [ws EXCEPT ![r] = closeSocket(r)]
    /\ fwd' = [fwd EXCEPT ![r] = "exited"]
    /\ UNCHANGED <<bridgeFields, cancelled, pc, hook, upstream, cpc>>

-----------------------------------------------------------------------------
\* The function given to AfterFunc, in a goroutine of its own.
HookUpstream(r) ==
    /\ hook[r] = "armed" /\ r \in cancelled
    /\ hook' = [hook EXCEPT ![r] = "ws"]
    /\ upstream' = [upstream EXCEPT ![r] = "closed"]
    /\ UNCHANGED <<bridgeFields, cancelled, pc, fwd, ws, cpc>>

HookWS(r) ==
    /\ hook[r] = "ws"
    /\ hook' = [hook EXCEPT ![r] = "off"]
    /\ ws' = [ws EXCEPT ![r] = "closed"]
    /\ UNCHANGED <<bridgeFields, cancelled, pc, fwd, upstream, cpc>>

-----------------------------------------------------------------------------
\* Close: under the lock it refuses and cancels, then it waits.
CloseBridge(k) ==
    /\ cpc[k] = "idle"
    /\ bridgeClosed' = TRUE
    /\ cancelled' = cancelled \cup active
    /\ cpc' = [cpc EXCEPT ![k] = "wait"]
    /\ UNCHANGED <<active, wg, pc, fwd, hook, sockets>>

Wait(k) ==
    /\ cpc[k] = "wait" /\ wg = 0
    /\ cpc' = [cpc EXCEPT ![k] = "returned"]
    /\ UNCHANGED <<bridgeFields, cancelled, pc, fwd, hook, sockets>>

-----------------------------------------------------------------------------
\* What happens by itself: the steps that wait for no peer, and the end of a
\* read or a write whose socket is closed.  A dial ends with its timeout of
\* three seconds or with the context, an upgrade with its handshake timeout.
HandlerStep(r) ==
    \/ Dial(r) \/ UpgradeFails(r) \/ Upgrade(r) \/ AfterFunc(r) \/ Go(r)
    \/ CloseUpstream(r) \/ CloseWS(r) \/ JoinForward(r) \/ Disarm(r) \/ Deregister(r) \/ Done(r)
HandlerFails(r) ==
    /\ (pc[r] = "read" /\ ws[r] = "closed") \/ (pc[r] = "write" /\ upstream[r] = "closed")
    /\ Broken(r)
ForwardFails(r) ==
    /\ (fwd[r] = "read" /\ upstream[r] = "closed") \/ (fwd[r] = "write" /\ ws[r] = "closed")
    /\ ForwardBroken(r)

\* Everything has come to an end.
BridgeFinished ==
    /\ \A r \in Requests : pc[r] \in {"refused", "gone"} /\ r \in cancelled
    /\ \A k \in Closers : cpc[k] = "returned"
    /\ UNCHANGED bridgeVars

BridgeNext ==
    \/ \E r \in Requests :
          \/ CancelRequest(r) \/ Admit(r) \/ HandlerStep(r)
          \/ ReadWS(r) \/ WriteUpstream(r) \/ Broken(r)
          \/ ReadUpstream(r) \/ WriteWS(r) \/ ForwardBroken(r) \/ ForwardClose(r)
          \/ HookUpstream(r) \/ HookWS(r)
    \/ \E k \in Closers : CloseBridge(k) \/ Wait(k)
    \/ BridgeFinished

BridgeSpec == BridgeInit /\ [][BridgeNext]_bridgeVars

\* No peer has to send, read or close, and no idle timeout has to pass; a write
\* to a peer that does not read ends with the write timeout.
BridgeFairness ==
    /\ \A r \in Requests :
          /\ WF_bridgeVars(HandlerStep(r))
          /\ WF_bridgeVars(HandlerFails(r)) /\ WF_bridgeVars(pc[r] = "write" /\ (WriteUpstream(r) \/ Broken(r)))
          /\ WF_bridgeVars(ForwardFails(r)) /\ WF_bridgeVars(fwd[r] = "write" /\ (WriteWS(r) \/ ForwardBroken(r)))
          /\ WF_bridgeVars(ForwardClose(r))
          /\ WF_bridgeVars(HookUpstream(r)) /\ WF_bridgeVars(HookWS(r))
    /\ \A k \in Closers : WF_bridgeVars(Wait(k))

FairBridgeSpec == BridgeSpec /\ BridgeFairness

-----------------------------------------------------------------------------
(***************************************************************************)
(* Properties.                                                             *)
(***************************************************************************)
\* When a call of Close has returned, and for ever after, no tunnel is left:
\* no handler, no forwarding goroutine and no open socket, although tunnels
\* may have been in their dial or upgrade, out of reach of the cancellation.
CloseLeavesNothing ==
    (\E k \in Closers : cpc[k] = "returned") =>
        \A r \in Requests : /\ pc[r] \in {"new", "refused", "gone"}
                            /\ fwd[r] \in {"none", "exited"}
                            /\ upstream[r] # "open" /\ ws[r] # "open"

\* The limit holds for the sockets, not only for the map: there are never more
\* than MaxConnections connections to the upstream server, goroutines of
\* tunnels that are being taken down included.
TunnelLimit ==
    Cardinality({r \in Requests : upstream[r] = "open" \/ fwd[r] \in {"read", "write", "close"}})
        <= MaxConnections

\* Every call of Close returns, at whatever stage the tunnels are.
CloseReturns == \A k \in Closers : cpc[k] = "wait" ~> cpc[k] = "returned"

\* A tunnel that lost one direction, or whose context is done, is taken down
\* altogether, even if the browser and the server keep their ends open.
HalfDead(r) == pc[r] \notin {"new", "refused"} /\ (fwd[r] = "exited" \/ r \in cancelled)
TunnelEnds == \A r \in Requests : HalfDead(r) ~> pc[r] = "gone"

=============================================================================
