------------------------------ MODULE TaskPool ------------------------------
(***************************************************************************)
(* What the worker pool of gnet promises to its callers, without queues,   *)
(* locks or goroutines: a task whose submission succeeded is executed      *)
(* exactly once, nothing is accepted once the pool is closed, and the pool *)
(* only reports that it is drained when every accepted task has finished.  *)
(* MsgHandle (gnet/msghandler.go) implements this specification.           *)
(***************************************************************************)
CONSTANT Task       \* the requests that may ever be submitted

VARIABLES phase,        \* "open", "closed" or "drained"
          outstanding,  \* accepted and not yet finished
          finished      \* executed to the end

vars == <<phase, outstanding, finished>>

Init == /\ phase = "open"
        /\ outstanding = {}
        /\ finished = {}

\* A submission succeeds; a task is never submitted twice.
Accept(t) ==
    /\ phase = "open"
    /\ t \notin outstanding \cup finished
    /\ outstanding' = outstanding \cup {t}
    /\ UNCHANGED <<phase, finished>>

\* An accepted task runs to its end, also while the pool is being drained.
Finish(t) ==
    /\ t \in outstanding
    /\ outstanding' = outstanding \ {t}
    /\ finished' = finished \cup {t}
    /\ UNCHANGED phase

Close == /\ phase = "open"
         /\ phase' = "closed"
         /\ UNCHANGED <<outstanding, finished>>

Drained == /\ phase = "closed"
           /\ outstanding = {}
           /\ phase' = "drained"
           /\ UNCHANGED <<outstanding, finished>>

Next == \/ \E t \in Task : Accept(t) \/ Finish(t)
        \/ Close
        \/ Drained

Spec == Init /\ [][Next]_vars

\* Every accepted task is executed, and a closed pool is eventually drained.
FairSpec == Spec /\ (\A t \in Task : WF_vars(Finish(t))) /\ WF_vars(Drained)
=============================================================================
