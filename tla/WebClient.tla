----------------------------- MODULE WebClient -----------------------------
(***************************************************************************)
(* The connection logic of the web game's page,                            *)
(* examples/webgame/frontend/src/client.ts, against the server's side of   *)
(* its connections.                                                        *)
(*                                                                         *)
(* The page runs one callback at a time: a call by the user, the answer to *)
(* a fetch, an event of a WebSocket or a timer is one action each.         *)
(* Callbacks of an attempt to connect that was given up still come; they   *)
(* know their attempt, the generation it was begun in.                     *)
(*                                                                         *)
(* Left out: counters, latency, metrics, the log, the wording of errors    *)
(* and the throttling of inputs (an input may not be sent at any time).    *)
(***************************************************************************)
EXTENDS Integers, Sequences

CONSTANTS
    Arenas,         \* the rooms one can join
    Backlog,        \* messages in the outbound buffer beyond which send gives up
    MaxGeneration,  \* bound: no attempt is begun in a later generation
    MaxQueue        \* bound: the server waits while so many messages are under way

ASSUME WebClientAssumption ==
    /\ Arenas \subseteq Nat \ {0}
    /\ Backlog \in Nat \ {0} /\ MaxGeneration \in Nat /\ MaxQueue \in Nat

VARIABLES
    page,       \* variables of the page, its sockets and its timers
    fetching,   \* attempts that wait for the answer to their fetch
    inbox,      \* attempt -> messages for the page
    served      \* attempt -> the connection at the server

pageVars == <<page, fetching, inbox, served>>

-----------------------------------------------------------------------------
Attempts == 1..MaxGeneration
None == 0
NoArena == 0

AuthenticateMessage == [type |-> "authenticate", room |-> NoArena]
JoinMessage(r) == [type |-> "join", room |-> r]
InputMessage == [type |-> "input", room |-> NoArena]
HeartbeatMessage == [type |-> "heartbeat", room |-> NoArena]
Snapshot(r) == [type |-> "snapshot", room |-> r]
\* An error names the type of the request; some errors are "unauthorized".
Error(request, code) == [type |-> "error", request |-> request, code |-> code]

PageInit ==
    /\ page = [generation |-> 0, status |-> "offline", socket |-> None, room |-> NoArena,
               snapshot |-> {}, switching |-> FALSE, desired |-> NoArena,
               openingTimer |-> None, armed |-> {},     \* the variable; timers that are set
               timer |-> None, ticking |-> {},          \* likewise for the interval
               ready |-> [a \in Attempts |-> "none"],   \* readyState of the socket of a
               out |-> [a \in Attempts |-> <<>>]]       \* its outbound buffer
    /\ fetching = {}
    /\ inbox = [a \in Attempts |-> <<>>]
    /\ served = [a \in Attempts |-> [live |-> FALSE, auth |-> FALSE, room |-> NoArena]]

-----------------------------------------------------------------------------
(***************************************************************************)
(* The functions of the page, on its state.                                *)
(***************************************************************************)
disconnect(p) ==
    [p EXCEPT !.generation = @ + 1, !.socket = None, !.status = "offline", !.room = NoArena,
              !.snapshot = {}, !.switching = FALSE,
              !.armed = @ \ {p.openingTimer}, !.ticking = @ \ {p.timer},
              !.ready = [a \in Attempts |->
                  IF a = p.socket /\ @[a] # "closed" THEN "closing" ELSE @[a]]]

send(p, m) ==
    IF p.socket = None THEN p
    ELSE IF p.ready[p.socket] # "open" THEN p
    ELSE IF Len(p.out[p.socket]) > Backlog THEN disconnect(p)
    ELSE [p EXCEPT !.out[p.socket] = Append(@, m)]

input(p) == IF p.status # "online" \/ p.switching THEN p ELSE send(p, InputMessage)

\* A call of join that is not refused: the player stops before he changes rooms.
joinAtOnce(p, r) ==         \* mutant: the page shows the new room at once
    LET q == input(p) IN
    IF q.status # "online" THEN q ELSE send([q EXCEPT !.switching = TRUE, !.room = r], JoinMessage(r))
join(p, r) ==
    LET q == input(p) IN
    IF q.status # "online" THEN q ELSE send([q EXCEPT !.switching = TRUE], JoinMessage(r))

current(a) == a = page.generation

-----------------------------------------------------------------------------
(***************************************************************************)
(* The user.                                                               *)
(***************************************************************************)
Connect(r) ==
    /\ page.generation < MaxGeneration      \* bound
    /\ page' = [disconnect(page) EXCEPT !.status = "connecting", !.desired = r]
    /\ fetching' = fetching \cup {page'.generation}
    /\ UNCHANGED <<inbox, served>>

Disconnect ==
    /\ page.status # "offline"
    /\ page' = disconnect(page)
    /\ UNCHANGED <<fetching, inbox, served>>

SwitchRoom(r) ==
    /\ page.status = "online" /\ ~page.switching /\ r # page.room
    /\ page' = join(page, r)
    /\ UNCHANGED <<fetching, inbox, served>>

Move ==
    /\ page' = input(page)
    /\ UNCHANGED <<fetching, inbox, served>>

-----------------------------------------------------------------------------
(***************************************************************************)
(* Callbacks of attempt a.                                                 *)
(***************************************************************************)
\* The fetch is answered, fails, or is aborted by its timeout.
NewSocket(p, a) ==
    [p EXCEPT !.socket = a, !.ready[a] = "opening",
              !.openingTimer = a, !.armed = @ \cup {a}]
FetchedUnchecked(a) ==      \* mutant: the generation is not compared
    /\ a \in fetching /\ fetching' = fetching \ {a}
    /\ page' \in {NewSocket(page, a), disconnect(page)}
    /\ UNCHANGED <<inbox, served>>
Fetched(a) ==
    /\ a \in fetching /\ fetching' = fetching \ {a}
    /\ \/ ~current(a) /\ UNCHANGED page
       \/ current(a) /\ page' \in {NewSocket(page, a), disconnect(page)}
    /\ UNCHANGED <<inbox, served>>

\* onopen.
Opened(a) ==
    /\ page.ready[a] = "opening"
    /\ LET p == [page EXCEPT !.ready[a] = "open"] IN
       page' = IF current(a) THEN send(p, AuthenticateMessage) ELSE [p EXCEPT !.ready[a] = "closing"]
    /\ served' = [served EXCEPT ![a].live = TRUE]
    /\ UNCHANGED <<fetching, inbox>>

\* onmessage, by the type of the message.
AuthenticatedAndDisarmed(p, a, m) ==    \* mutant: the opening timer ends too early
    [send(p, JoinMessage(p.desired)) EXCEPT !.timer = a, !.ticking = @ \cup {a},
                                         !.armed = @ \ {p.openingTimer}]
onAuthenticated(p, a, m) ==
    [send(p, JoinMessage(p.desired)) EXCEPT !.timer = a, !.ticking = @ \cup {a}]
onJoined(p, a, m) ==
    [p EXCEPT !.snapshot = IF p.room # m.room THEN {} ELSE @,
              !.room = m.room, !.status = "online", !.switching = FALSE,
              !.armed = @ \ {p.openingTimer}]
onSnapshot(p, a, m) ==
    IF m.room = p.room THEN [p EXCEPT !.snapshot = {[room |-> m.room, of |-> a]}] ELSE p
onError(p, a, m) ==
    LET q == [p EXCEPT !.switching = FALSE] IN
    IF \/ m.request = "authenticate" \/ m.code = "unauthorized"
       \/ (m.request = "join" /\ p.room = NoArena)
    THEN disconnect(q) ELSE q

onmessage(p, a, m) ==
    CASE m.type = "authenticate" -> onAuthenticated(p, a, m)
      [] m.type = "join" -> onJoined(p, a, m)
      [] m.type = "snapshot" -> onSnapshot(p, a, m)
      [] m.type = "error" -> onError(p, a, m)

Received(a) ==
    /\ page.ready[a] \in {"open", "closing"} /\ inbox[a] # <<>>
    /\ inbox' = [inbox EXCEPT ![a] = Tail(@)]
    /\ \/ ~current(a) /\ UNCHANGED page
       \/ current(a) /\ page' = onmessage(page, a, Head(inbox[a]))
    /\ UNCHANGED <<fetching, served>>

\* onclose; messages that have not arrived are lost.
Closed(a) ==
    /\ page.ready[a] \in {"opening", "open", "closing"}
    /\ LET p == [page EXCEPT !.ready[a] = "closed", !.out[a] = <<>>] IN
       page' = IF current(a) THEN disconnect(p) ELSE p
    /\ inbox' = [inbox EXCEPT ![a] = <<>>]
    /\ served' = [served EXCEPT ![a].live = FALSE]
    /\ UNCHANGED fetching

\* The opening timer after 7 seconds, and the interval for heartbeats.
OpeningTimeout(a) ==
    /\ a \in page.armed
    /\ LET p == [page EXCEPT !.armed = @ \ {a}] IN
       page' = IF current(a) /\ p.status # "online" THEN disconnect(p) ELSE p
    /\ UNCHANGED <<fetching, inbox, served>>

Beat(a) ==
    /\ a \in page.ticking
    /\ page' = send(page, HeartbeatMessage)
    /\ UNCHANGED <<fetching, inbox, served>>

-----------------------------------------------------------------------------
(***************************************************************************)
(* The server, examples/webgame/server/world.go.                           *)
(***************************************************************************)
\* A request that leaves the outbound buffer is handled: the connection then, and
\* the answers.  A token may be refused, and a session may have expired.
refused(a, m) == {<<served[a], <<Error(m.type, "unauthorized")>> >>}
admitted(a, m) == {<<[served[a] EXCEPT !.auth = TRUE], <<AuthenticateMessage>> >>}
joined(a, m) == {<<[served[a] EXCEPT !.room = m.room], <<JoinMessage(m.room), Snapshot(m.room)>> >>}
full(a, m) == {<<served[a], <<Error("join", "room_full")>> >>}
results(a, m) ==
    refused(a, m) \cup
    CASE m.type = "authenticate" -> admitted(a, m)
      [] m.type # "authenticate" /\ ~served[a].auth -> {}
      [] m.type = "join" /\ served[a].auth ->
            joined(a, m) \cup (IF served[a].room = m.room THEN {} ELSE full(a, m))
      [] OTHER -> {<<served[a], <<>> >>}

Handled(a) ==
    /\ served[a].live /\ page.out[a] # <<>>
    /\ Len(inbox[a]) < MaxQueue     \* bound
    /\ \E x \in results(a, Head(page.out[a])) :
          /\ served' = [served EXCEPT ![a] = x[1]]
          /\ inbox' = [inbox EXCEPT ![a] = @ \o x[2]]
    /\ page' = [page EXCEPT !.out[a] = Tail(@)]
    /\ UNCHANGED fetching

Broadcast(a) ==
    /\ served[a].live /\ served[a].room # NoArena
    /\ Len(inbox[a]) < MaxQueue     \* bound
    /\ inbox' = [inbox EXCEPT ![a] = Append(@, Snapshot(served[a].room))]
    /\ UNCHANGED <<page, fetching, served>>

\* The connection is stopped, by the server or on the way.
Dropped(a) ==
    /\ served[a].live
    /\ served' = [served EXCEPT ![a].live = FALSE]
    /\ UNCHANGED <<page, fetching, inbox>>

-----------------------------------------------------------------------------
PageNext ==
    \/ Disconnect \/ Move
    \/ \E r \in Arenas : Connect(r) \/ SwitchRoom(r)
    \/ \E a \in Attempts :
          \/ Fetched(a) \/ Opened(a) \/ Received(a) \/ Closed(a)
          \/ OpeningTimeout(a) \/ Beat(a)
          \/ Handled(a) \/ Broadcast(a) \/ Dropped(a)

\* A fetch is aborted after 5 seconds, and a timer that is set fires; nothing is
\* assumed of the server and the network.
PageSpec ==
    /\ PageInit /\ [][PageNext]_pageVars
    /\ \A a \in Attempts : WF_pageVars(Fetched(a)) /\ WF_pageVars(OpeningTimeout(a))

-----------------------------------------------------------------------------
(***************************************************************************)
(* Properties.                                                             *)
(***************************************************************************)
\* However attempts overlap, there is at most one connection: a socket that is
\* open or opening is the one of the page and of its generation, so are the
\* timers, and a page that is offline has neither.
SingleConnection ==
    /\ \A a \in Attempts : page.ready[a] \in {"opening", "open"} => a = page.socket
    /\ page.socket # None => current(page.socket)
    /\ page.armed \cup page.ticking \subseteq {page.generation}
    /\ page.status = "offline" => page.socket = None /\ page.armed \cup page.ticking = {}

\* What the page shows is the present state: the snapshot is of the room it is
\* in and of the present connection, once nothing is under way the room is the
\* one the server has the player in, and a change of rooms that still blocks
\* inputs will be answered, unless the connection is lost.
underWay(a) == page.out[a] # <<>> \/ inbox[a] # <<>>
isJoin(m) == m.type = "join" \/ (m.type = "error" /\ m.request = "join")
ViewAgrees ==
    /\ \A s \in page.snapshot : s.room = page.room /\ current(s.of)
    /\ LET a == page.socket IN
       (a # None /\ page.status = "online" /\ page.ready[a] = "open" /\ served[a].live) =>
           /\ underWay(a) \/ page.room = served[a].room
           /\ page.switching => \E i \in DOMAIN (page.out[a] \o inbox[a]) :
                                    isJoin((page.out[a] \o inbox[a])[i])

\* An attempt to connect ends, with a connection or without, even if nobody
\* answers.
ConnectingEnds == page.status = "connecting" ~> page.status # "connecting"

=============================================================================
